--------------------------- MODULE ExecutorSizing ---------------------------
(***************************************************************************)
(* How configure divides a worker node into executors, and what start      *)
(* makes of the result. The sizes are computed twice: once by configure,   *)
(* from the driver memory of the configuration, and once more by start,    *)
(* from the driver memory it reads back from spark-defaults.conf, which    *)
(* the user may have edited in between.                                    *)
(*                                                                         *)
(* A job is a record: mb (memory Slurm gave a node), cpus, het (a          *)
(* heterogeneous job keeps the driver off the worker nodes), gpus (the     *)
(* GPUs of each worker node, the one that configures first) and request    *)
(* (how they were requested). The user's settings are a record with the    *)
(* fields of SparkRuntimeParams that matter here.                          *)
(***************************************************************************)
EXTENDS Integers, Sequences, FiniteSetsExt

CONSTANTS
  Jobs,             \* the allocations
  RuntimeSettings,  \* the settings users choose
  DriverMemories,   \* the values users write into spark-defaults.conf
  None              \* a setting that is not given

JobType == [mb : Nat \ {0}, cpus : Nat \ {0}, het : BOOLEAN, gpus : Seq(Nat),
            request : {"per_node", "total"}]

SettingsType ==
  [cores : {None} \cup (Nat \ {0}), memory : {None} \cup (Nat \ {0}),
   driver : Nat \ {0}, overhead : Nat, postgres : BOOLEAN, enable_gpus : BOOLEAN,
   gpus_per_node : {None} \cup Nat, executor_gpu_amount : Nat \ {0},
   multiplier : Nat \ {0}, template : {None} \cup (Nat \ {0})]

ASSUME SizingAssumption ==
  /\ \A j \in Jobs : j \in JobType /\ Len(j.gpus) > 0
  /\ \A r \in RuntimeSettings : r \in SettingsType
  /\ DriverMemories \subseteq Nat \ {0}
  /\ None \notin Nat

VARIABLES
  job,      \* what Slurm gave
  rt,       \* the settings of the configuration
  phase,    \* how far the cluster has come
  defaults, \* what spark-defaults.conf says; None before configure has written it
  worker    \* the memory start-worker.sh was given

vars == <<job, rt, phase, defaults, worker>>

\* drivers: the values of the lines that set spark.driver.memory, in file order.
DefaultsType ==
  [drivers : Seq(Nat \ {0}), cores : Nat \ {0}, memory : Nat \ {0}, partitions : Nat]

Phases == {"fresh", "rejected", "crashed", "configured", "started", "start_rejected"}

TypeOK ==
  /\ job \in Jobs
  /\ rt \in RuntimeSettings
  /\ phase \in Phases
  /\ defaults \in {None} \cup DefaultsType
  /\ worker \in Nat

-----------------------------------------------------------------------------
(* The sizes *)

AtMost(a, b) == IF a <= b THEN a ELSE b
AtLeast(a, b) == IF a >= b THEN a ELSE b

\* Three quarters of the node's memory, in whole gigabytes.
MemoryGb(j) == (j.mb * 3) \div 4096

\* Mutant: the driver is taken to share the node in a heterogeneous job only.
OverheadSwapped(j, r, driver) ==
  r.overhead + (IF j.het THEN driver ELSE 0) + (IF r.postgres THEN 2 ELSE 0)

\* What is set aside on a worker node for everything but the executors.
Overhead(j, r, driver) ==
  r.overhead + (IF j.het THEN 0 ELSE driver) + (IF r.postgres THEN 2 ELSE 0)

WorkerMemory(j, r, driver) == MemoryGb(j) - Overhead(j, r, driver)

\* One CPU is left to the operating system.
UsableCpus(j) == j.cpus - 1

\* The count on the node that configures stands for all.
NumGpus(j, r) == IF r.gpus_per_node # None THEN r.gpus_per_node ELSE j.gpus[1]

SharesGpus(j, r) == r.enable_gpus /\ NumGpus(j, r) > 0

\* Mutant: the CPU of the operating system is given away as well.
ExecutorCoresOfAllCpus(j, r) ==
  IF r.cores # None THEN r.cores
  ELSE IF SharesGpus(j, r) THEN AtLeast(1, j.cpus \div NumGpus(j, r)) ELSE 5

ExecutorCores(j, r) ==
  IF r.cores # None THEN r.cores
  ELSE IF SharesGpus(j, r) THEN AtLeast(1, UsableCpus(j) \div NumGpus(j, r)) ELSE 5

ExecutorsByCpu(j, r) == UsableCpus(j) \div ExecutorCores(j, r)

\* Mutant: the overhead is shared out as well.
ExecutorMemoryOfNode(j, r) ==
  IF r.memory # None THEN r.memory ELSE MemoryGb(j) \div ExecutorsByCpu(j, r)

ExecutorMemory(j, r) ==
  IF r.memory # None THEN r.memory
  ELSE WorkerMemory(j, r, r.driver) \div ExecutorsByCpu(j, r)

\* Mutant: executors that have no GPU are counted.
ExecutorsPerNodeByCpu(j, r) ==
  AtMost(ExecutorsByCpu(j, r), WorkerMemory(j, r, r.driver) \div ExecutorMemory(j, r))

ExecutorsPerNode(j, r) ==
  LET fit == AtMost(ExecutorsByCpu(j, r),
                    WorkerMemory(j, r, r.driver) \div ExecutorMemory(j, r))
  IN IF SharesGpus(j, r)
     THEN AtMost(fit, AtLeast(1, NumGpus(j, r) \div r.executor_gpu_amount))
     ELSE fit

Partitions(j, r) ==
  ExecutorsPerNode(j, r) * ExecutorCores(j, r) * Len(j.gpus) * r.multiplier

-----------------------------------------------------------------------------
(* configure *)

TotalGpus(j) == MapThenSumSet(LAMBDA i : j.gpus[i], DOMAIN j.gpus)

\* Mutant: an uneven split goes unnoticed.
UnevenSplitNever(j) == FALSE

\* check_gpu_allocation looks at what it detects here, whatever the user set.
UnevenSplit(j) ==
  /\ Len(j.gpus) > 1
  /\ j.gpus[1] > 0
  /\ ~j.het /\ j.request = "total"
  /\ TotalGpus(j) # j.gpus[1] * Len(j.gpus)

\* The three ways in which a node is too small.
TooSmall(j, r) ==
  \/ WorkerMemory(j, r, r.driver) <= 0
  \/ UsableCpus(j) < ExecutorCores(j, r)
  \/ r.memory # None /\ r.memory > WorkerMemory(j, r, r.driver)

\* More executors fit by CPU than there are gigabytes to share: the memory of
\* one is rounded to 0, by which the next line divides.
DividesByZero(j, r) == ~TooSmall(j, r) /\ ExecutorMemory(j, r) = 0

GpusRejected(j, r) ==
  /\ r.enable_gpus
  /\ \/ NumGpus(j, r) = 0
     \/ UnevenSplit(j)
     \/ r.executor_gpu_amount > NumGpus(j, r)

Init ==
  /\ job \in Jobs
  /\ rt \in RuntimeSettings
  /\ phase = "fresh"
  /\ defaults = None
  /\ worker = 0

ConfigureCrash ==
  /\ phase = "fresh"
  /\ DividesByZero(job, rt)
  /\ phase' = "crashed"
  /\ UNCHANGED <<job, rt, defaults, worker>>

\* InvalidConfiguration, before anything a start could use is complete.
ConfigureReject ==
  /\ phase = "fresh"
  /\ TooSmall(job, rt) \/ (~DividesByZero(job, rt) /\ GpusRejected(job, rt))
  /\ phase' = "rejected"
  /\ UNCHANGED <<job, rt, defaults, worker>>

\* The template comes first, sparkctl's own settings are appended to it.
DriverLines(r) == (IF r.template = None THEN <<>> ELSE <<r.template>>) \o <<r.driver>>

Configure ==
  /\ phase = "fresh"
  /\ ~TooSmall(job, rt) /\ ~DividesByZero(job, rt) /\ ~GpusRejected(job, rt)
  /\ phase' = "configured"
  /\ defaults' = [drivers    |-> DriverLines(rt),
                  cores      |-> ExecutorCores(job, rt),
                  memory     |-> ExecutorMemory(job, rt),
                  partitions |-> Partitions(job, rt)]
  /\ UNCHANGED <<job, rt, worker>>

-----------------------------------------------------------------------------
(* Between configure and start, and start itself *)

\* The user changes the line that configure wrote, or adds one.
EditDefaults ==
  /\ phase = "configured"
  /\ defaults.drivers = DriverLines(rt)
  /\ \E gb \in DriverMemories \ {rt.driver} :
       \/ defaults' = [defaults EXCEPT !.drivers[Len(defaults.drivers)] = gb]
       \/ defaults' = [defaults EXCEPT !.drivers = Append(@, gb)]
  /\ UNCHANGED <<job, rt, phase, worker>>

\* The first line that sets the driver memory counts.
RuntimeDriverMemory == defaults.drivers[1]

\* Mutant: the result is not checked.
StartUnchecked ==
  /\ phase = "configured"
  /\ phase' = "started"
  /\ worker' = WorkerMemory(job, rt, RuntimeDriverMemory)
  /\ UNCHANGED <<job, rt, defaults>>

Start ==
  /\ phase = "configured"
  /\ WorkerMemory(job, rt, RuntimeDriverMemory) > 0
  /\ phase' = "started"
  /\ worker' = WorkerMemory(job, rt, RuntimeDriverMemory)
  /\ UNCHANGED <<job, rt, defaults>>

\* It is found out last of all: what start had launched is rolled back.
StartReject ==
  /\ phase = "configured"
  /\ WorkerMemory(job, rt, RuntimeDriverMemory) <= 0
  /\ phase' = "start_rejected"
  /\ UNCHANGED <<job, rt, defaults, worker>>

Next ==
  \/ ConfigureCrash \/ ConfigureReject \/ Configure
  \/ EditDefaults
  \/ Start \/ StartReject

Spec == Init /\ [][Next]_vars

-----------------------------------------------------------------------------
(* What the sizes promise *)

\* n executors of the size written to spark-defaults.conf fit on a worker node,
\* beside what configure set aside.
Fit(n) ==
  /\ n * defaults.cores <= UsableCpus(job)
  /\ n * defaults.memory <= WorkerMemory(job, rt, rt.driver)
  /\ SharesGpus(job, rt) => n * rt.executor_gpu_amount <= NumGpus(job, rt)

\* The number of executors that configure arrives at, and from which it sets the
\* shuffle partitions, is the greatest that fits: no node is overfull, and none
\* has room for one more.
ExecutorsAreMaximal ==
  defaults # None =>
    \E n \in 1..job.cpus :
      /\ Fit(n) /\ ~Fit(n + 1)
      /\ defaults.partitions = n * defaults.cores * Len(job.gpus) * rt.multiplier

\* "One executor per GPU": with the default layout and more CPUs than GPUs,
\* no GPU is left idle. With as many CPUs as GPUs one is: a CPU is reserved.
OneExecutorPerGpu ==
  /\ defaults # None
  /\ SharesGpus(job, rt) /\ job.cpus > NumGpus(job, rt)
  /\ rt.cores = None /\ rt.memory = None /\ rt.executor_gpu_amount = 1
  => Fit(NumGpus(job, rt)) /\ ~Fit(NumGpus(job, rt) + 1)

\* On one or two workers configure accepts only allocations in which every
\* worker has the GPUs it will be told it has, if they were detected.
EveryWorkerHasItsGpus ==
  /\ defaults # None
  /\ SharesGpus(job, rt) /\ rt.gpus_per_node = None
  /\ Len(job.gpus) <= 2 /\ ~job.het
  => \A i \in DOMAIN job.gpus : job.gpus[i] = NumGpus(job, rt)

\* Some line, of the template or edited, sets more driver memory than configure
\* reckoned with, on a job whose workers share their node with the driver.
DriverRaised == ~job.het /\ \E i \in DOMAIN defaults.drivers : defaults.drivers[i] > rt.driver

\* An executor of the size configure wrote can be placed on a worker of the
\* size start gives it, unless a line of spark-defaults.conf raises the driver
\* memory: otherwise the applications would wait for resources for ever.
ExecutorFitsWorker ==
  phase = "started" /\ ~DriverRaised => defaults.memory <= worker /\ defaults.cores <= job.cpus

\* A start finds a node too small that configure found large enough only when
\* a line of spark-defaults.conf raises the driver memory.
StartRejectsOnlyEdits == phase = "start_rejected" => DriverRaised

\* Whatever the allocation, configure succeeds or says what is wrong.
ConfigureNeverCrashes == phase # "crashed"
=============================================================================

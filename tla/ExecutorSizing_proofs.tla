------------------------ MODULE ExecutorSizing_proofs -----------------------
(***************************************************************************)
(* Theorems about ExecutorSizing, for every allocation, every setting and  *)
(* every edit of spark-defaults.conf.                                      *)
(***************************************************************************)
EXTENDS ExecutorSizing, TLAPS

(***************************************************************************)
(* The arithmetic of the sizes.                                            *)
(***************************************************************************)
LEMMA QuotientType ==
  ASSUME NEW a \in Nat, NEW b \in Nat \ {0}
  PROVE  a \div b \in Nat
  OBVIOUS

LEMMA QuotientBound ==
  ASSUME NEW a \in Nat, NEW b \in Nat \ {0}
  PROVE  a \div b <= a
  OBVIOUS

\* If b goes into a, the quotient is positive.
LEMMA QuotientPositive ==
  ASSUME NEW a \in Nat, NEW b \in Nat \ {0}, b <= a
  PROVE  a \div b \in Nat \ {0}
  OBVIOUS

LEMMA JobFacts ==
  ASSUME NEW j \in Jobs
  PROVE  /\ MemoryGb(j) \in Nat /\ j.het \in BOOLEAN
         /\ UsableCpus(j) \in Nat /\ UsableCpus(j) = j.cpus - 1 /\ j.cpus \in Nat \ {0}
         /\ j.gpus \in Seq(Nat) /\ Len(j.gpus) > 0 /\ j.gpus[1] \in Nat
  BY SizingAssumption DEF JobType, MemoryGb, UsableCpus

LEMMA WorkerMemoryType ==
  ASSUME NEW j \in Jobs, NEW r \in RuntimeSettings, NEW driver \in Nat
  PROVE  WorkerMemory(j, r, driver) \in Int
  BY JobFacts, SizingAssumption DEF SettingsType, WorkerMemory, Overhead

\* More memory for the driver leaves less to the workers, or as much if they
\* do not share a node with it.
LEMMA WorkerMemoryFalls ==
  ASSUME NEW j \in Jobs, NEW r \in RuntimeSettings, NEW d \in Nat, NEW e \in Nat,
         j.het \/ d <= e
  PROVE  WorkerMemory(j, r, e) <= WorkerMemory(j, r, d)
  BY JobFacts, SizingAssumption DEF SettingsType, WorkerMemory, Overhead

\* An executor has at least one core, and no more than a node can spare.
LEMMA CoresFit ==
  ASSUME NEW j \in Jobs, NEW r \in RuntimeSettings, ~TooSmall(j, r)
  PROVE  /\ ExecutorCores(j, r) \in Nat \ {0}
         /\ ExecutorCores(j, r) <= UsableCpus(j)
         /\ ExecutorsByCpu(j, r) \in Nat \ {0}
<1>1. ExecutorCores(j, r) \in Nat \ {0}
  <2>1. r.cores # None => r.cores \in Nat \ {0}
    BY SizingAssumption DEF SettingsType
  <2>2. NumGpus(j, r) \in Nat
    BY JobFacts, SizingAssumption DEF SettingsType, NumGpus
  <2>3. ASSUME SharesGpus(j, r)
        PROVE  UsableCpus(j) \div NumGpus(j, r) \in Nat
    BY <2>2, <2>3, JobFacts, QuotientType DEF SharesGpus
  <2> QED
    BY <2>1, <2>3 DEF ExecutorCores, AtLeast
<1>2. ExecutorCores(j, r) <= UsableCpus(j)
  BY <1>1, JobFacts DEF TooSmall
<1> QED
  BY <1>1, <1>2, JobFacts, QuotientPositive DEF ExecutorsByCpu

\* An executor has at least a gigabyte, and no more than the worker of the
\* configuration has.
LEMMA MemoryFits ==
  ASSUME NEW j \in Jobs, NEW r \in RuntimeSettings, ~TooSmall(j, r), ~DividesByZero(j, r)
  PROVE  /\ WorkerMemory(j, r, r.driver) \in Nat \ {0}
         /\ ExecutorMemory(j, r) \in Nat \ {0}
         /\ ExecutorMemory(j, r) <= WorkerMemory(j, r, r.driver)
<1>1. r.driver \in Nat /\ (r.memory # None => r.memory \in Nat \ {0})
  BY SizingAssumption DEF SettingsType
<1>2. WorkerMemory(j, r, r.driver) \in Nat \ {0}
  BY <1>1, WorkerMemoryType DEF TooSmall
<1>3. ExecutorMemory(j, r) # 0
  BY DEF DividesByZero
<1>4. CASE r.memory # None
  BY <1>1, <1>2, <1>4 DEF ExecutorMemory, TooSmall
<1>5. CASE r.memory = None
  BY <1>2, <1>3, <1>5, CoresFit, QuotientType, QuotientBound DEF ExecutorMemory
<1> QED
  BY <1>4, <1>5, <1>2

-----------------------------------------------------------------------------
(***************************************************************************)
(* The inductive invariant: what configure wrote is what it computed, and  *)
(* only the driver memory may have changed since.                          *)
(***************************************************************************)
WrittenAsComputed ==
  /\ defaults = [drivers |-> defaults.drivers, cores |-> defaults.cores,
                  memory |-> defaults.memory, partitions |-> defaults.partitions]
  /\ defaults.drivers \in Seq(Nat \ {0}) /\ Len(defaults.drivers) > 0
  /\ defaults.cores = ExecutorCores(job, rt)
  /\ defaults.memory = ExecutorMemory(job, rt)
  /\ defaults.partitions = Partitions(job, rt)
  /\ ~TooSmall(job, rt) /\ ~DividesByZero(job, rt) /\ ~GpusRejected(job, rt)

SizingInv ==
  /\ job \in Jobs /\ rt \in RuntimeSettings
  /\ phase \in {"configured", "started", "start_rejected"} => WrittenAsComputed
  /\ phase \in {"fresh", "rejected", "crashed"} => defaults = None
  /\ phase \in Phases /\ (phase # "started" => worker = 0)
  /\ phase = "started" =>
       worker = WorkerMemory(job, rt, defaults.drivers[1]) /\ worker > 0
  /\ phase = "start_rejected" => WorkerMemory(job, rt, defaults.drivers[1]) <= 0

LEMMA SizingInvInit == Init => SizingInv
  BY DEF Init, SizingInv, Phases

LEMMA DriverLinesType ==
  ASSUME NEW r \in RuntimeSettings
  PROVE  DriverLines(r) \in Seq(Nat \ {0}) /\ Len(DriverLines(r)) > 0
<1>1. r.driver \in Nat \ {0} /\ (r.template # None => r.template \in Nat \ {0})
  BY SizingAssumption DEF SettingsType
<1>2. CASE r.template = None
  BY <1>1, <1>2 DEF DriverLines
<1>3. CASE r.template # None
  BY <1>1, <1>3 DEF DriverLines
<1> QED
  BY <1>2, <1>3

LEMMA SizingInvNext == SizingInv /\ [Next]_vars => SizingInv'
<1> SUFFICES ASSUME SizingInv, [Next]_vars
             PROVE  SizingInv'
  OBVIOUS
<1> USE DEF SizingInv, Phases
<1>1. CASE ConfigureCrash \/ ConfigureReject
  BY <1>1 DEF ConfigureCrash, ConfigureReject
<1>2. CASE Configure
  BY <1>2, DriverLinesType DEF Configure, WrittenAsComputed
<1>3. CASE EditDefaults
  <2>1. PICK gb \in DriverMemories :
           \/ defaults' = [defaults EXCEPT !.drivers[Len(defaults.drivers)] = gb]
           \/ defaults' = [defaults EXCEPT !.drivers = Append(@, gb)]
    BY <1>3 DEF EditDefaults
  <2>2. gb \in Nat \ {0}
    BY SizingAssumption
  <2>3. WrittenAsComputed
    BY <1>3 DEF EditDefaults
  <2>4. PICK edited \in Seq(Nat \ {0}) :
          Len(edited) > 0 /\ defaults' = [defaults EXCEPT !.drivers = edited]
    <3>1. [defaults.drivers EXCEPT ![Len(defaults.drivers)] = gb] \in Seq(Nat \ {0})
      BY <2>2, <2>3 DEF WrittenAsComputed
    <3>2. Len([defaults.drivers EXCEPT ![Len(defaults.drivers)] = gb]) > 0
      BY <2>2, <2>3 DEF WrittenAsComputed
    <3>3. /\ Append(defaults.drivers, gb) \in Seq(Nat \ {0})
          /\ Len(Append(defaults.drivers, gb)) > 0
      BY <2>2, <2>3 DEF WrittenAsComputed
    <3> QED
      BY <2>1, <3>1, <3>2, <3>3
  <2>5. /\ defaults' = [drivers |-> edited, cores |-> defaults.cores,
                        memory |-> defaults.memory, partitions |-> defaults.partitions]
    BY <2>3, <2>4 DEF WrittenAsComputed
  <2>6. UNCHANGED <<job, rt, phase, worker>> /\ phase = "configured"
    BY <1>3 DEF EditDefaults
  <2>7. /\ defaults'.drivers = edited /\ defaults'.cores = defaults.cores
        /\ defaults'.memory = defaults.memory /\ defaults'.partitions = defaults.partitions
    BY <2>5
  <2>8. /\ ExecutorCores(job, rt)' = ExecutorCores(job, rt)
        /\ ExecutorMemory(job, rt)' = ExecutorMemory(job, rt)
        /\ TooSmall(job, rt)' = TooSmall(job, rt)
        /\ DividesByZero(job, rt)' = DividesByZero(job, rt)
        /\ GpusRejected(job, rt)' = GpusRejected(job, rt)
        /\ Partitions(job, rt)' = Partitions(job, rt)
    BY <2>6
  <2>9. WrittenAsComputed'
    BY <2>3, <2>4, <2>5, <2>7, <2>8 DEF WrittenAsComputed
  <2> QED
    BY <2>6, <2>9
<1>4. CASE Start
  BY <1>4 DEF Start, RuntimeDriverMemory, WrittenAsComputed
<1>5. CASE StartReject
  BY <1>5 DEF StartReject, RuntimeDriverMemory, WrittenAsComputed
<1>6. CASE UNCHANGED vars
  BY <1>6 DEF vars, WrittenAsComputed
<1> QED
  BY <1>1, <1>2, <1>3, <1>4, <1>5, <1>6 DEF Next

\* The driver memory start reads leaves the worker at least what configure
\* reckoned with, unless it was raised.
LEMMA NotRaised ==
  ASSUME SizingInv, WrittenAsComputed, ~DriverRaised
  PROVE  WorkerMemory(job, rt, rt.driver) <= WorkerMemory(job, rt, defaults.drivers[1])
<1>1. defaults.drivers[1] \in Nat /\ 1 \in DOMAIN defaults.drivers
  BY DEF WrittenAsComputed
<1>2. rt.driver \in Nat
  BY SizingAssumption DEF SizingInv, SettingsType
<1>3. job.het \/ defaults.drivers[1] <= rt.driver
  BY <1>1, <1>2 DEF DriverRaised
<1> QED
  BY <1>1, <1>2, <1>3, WorkerMemoryFalls DEF SizingInv

\* An executor always finds room on a worker, unless a line of
\* spark-defaults.conf raises the driver memory.
THEOREM ExecutorsFitWorkers == Spec => []ExecutorFitsWorker
<1>1. ASSUME SizingInv PROVE ExecutorFitsWorker
  <2> SUFFICES ASSUME phase = "started", ~DriverRaised
               PROVE  defaults.memory <= worker /\ defaults.cores <= job.cpus
    BY DEF ExecutorFitsWorker
  <2>1. /\ WrittenAsComputed /\ job \in Jobs /\ rt \in RuntimeSettings
        /\ worker = WorkerMemory(job, rt, defaults.drivers[1])
    BY <1>1 DEF SizingInv
  <2>2. worker \in Int
    BY <2>1, WorkerMemoryType DEF WrittenAsComputed
  <2>3. WorkerMemory(job, rt, rt.driver) <= worker
    BY <1>1, <2>1, NotRaised
  <2>4. defaults.memory <= worker
    BY <2>1, <2>2, <2>3, MemoryFits DEF WrittenAsComputed
  <2>5. defaults.cores <= job.cpus
    BY <2>1, CoresFit, JobFacts DEF WrittenAsComputed
  <2> QED
    BY <2>4, <2>5
<1> QED
  BY <1>1, SizingInvInit, SizingInvNext, PTL DEF Spec

\* A start never finds a node too small that configure had accepted, unless
\* a line of spark-defaults.conf raises the driver memory.
THEOREM StartsRejectOnlyEdits == Spec => []StartRejectsOnlyEdits
<1>1. ASSUME SizingInv PROVE StartRejectsOnlyEdits
  <2> SUFFICES ASSUME phase = "start_rejected", ~DriverRaised
               PROVE  FALSE
    BY DEF StartRejectsOnlyEdits
  <2>1. /\ WrittenAsComputed /\ job \in Jobs /\ rt \in RuntimeSettings
        /\ WorkerMemory(job, rt, defaults.drivers[1]) <= 0
    BY <1>1 DEF SizingInv
  <2>2. WorkerMemory(job, rt, defaults.drivers[1]) \in Int
    BY <2>1, WorkerMemoryType DEF WrittenAsComputed
  <2>3. WorkerMemory(job, rt, rt.driver) <= WorkerMemory(job, rt, defaults.drivers[1])
    BY <1>1, <2>1, NotRaised
  <2>4. WorkerMemory(job, rt, rt.driver) \in Nat \ {0}
    BY <2>1, MemoryFits DEF WrittenAsComputed
  <2> QED
    BY <2>1, <2>2, <2>3, <2>4
<1> QED
  BY <1>1, SizingInvInit, SizingInvNext, PTL DEF Spec

-----------------------------------------------------------------------------
(***************************************************************************)
(* Type correctness, and the properties of the layout: they multiply, so   *)
(* they need what a quotient is, not only how large it is.                 *)
(***************************************************************************)

\* The quotient is the greatest number of pieces of size b that a has.
LEMMA QuotientGreatest ==
  ASSUME NEW a \in Nat, NEW b \in Nat \ {0}
  PROVE  (a \div b) * b <= a /\ a < (a \div b + 1) * b
  OBVIOUS

LEMMA ProductType ==
  ASSUME NEW a \in Nat, NEW b \in Nat
  PROVE  a * b \in Nat
  OBVIOUS

LEMMA ProductGrows ==
  ASSUME NEW a \in Nat, NEW b \in Nat, NEW c \in Nat, a <= b
  PROVE  a * c <= b * c /\ c * a <= c * b
  OBVIOUS

\* A node has at least one executor.
LEMMA ExecutorsType ==
  ASSUME NEW j \in Jobs, NEW r \in RuntimeSettings, ~TooSmall(j, r), ~DividesByZero(j, r)
  PROVE  /\ ExecutorsPerNode(j, r) \in Nat \ {0}
         /\ ExecutorsPerNode(j, r) <= ExecutorsByCpu(j, r)
  <1>1. ExecutorsByCpu(j, r) \in Nat \ {0}
    BY CoresFit
  <1>2. WorkerMemory(j, r, r.driver) \div ExecutorMemory(j, r) \in Nat \ {0}
    BY MemoryFits, QuotientPositive
  <1>3. SharesGpus(j, r) => NumGpus(j, r) \div r.executor_gpu_amount \in Nat
    BY JobFacts, SizingAssumption, QuotientType DEF SettingsType, NumGpus, SharesGpus
  <1> QED
    BY <1>1, <1>2, <1>3 DEF ExecutorsPerNode, AtMost, AtLeast

LEMMA PartitionsType ==
  ASSUME NEW j \in Jobs, NEW r \in RuntimeSettings, ~TooSmall(j, r), ~DividesByZero(j, r)
  PROVE  Partitions(j, r) \in Nat
  <1>1. ExecutorsPerNode(j, r) \in Nat /\ ExecutorCores(j, r) \in Nat
    BY ExecutorsType, CoresFit
  <1>2. Len(j.gpus) \in Nat /\ r.multiplier \in Nat
    BY JobFacts, SizingAssumption DEF SettingsType
  <1>3. ExecutorsPerNode(j, r) * ExecutorCores(j, r) \in Nat
    BY <1>1, ProductType
  <1>4. ExecutorsPerNode(j, r) * ExecutorCores(j, r) * Len(j.gpus) \in Nat
    BY <1>2, <1>3, ProductType
  <1> QED
    BY <1>2, <1>4, ProductType DEF Partitions

\* Every reachable state is well typed: what configure writes has positive sizes,
\* and the worker is never given a negative amount of memory.
THEOREM TypeCorrect == Spec => []TypeOK
  <1>1. SizingInv => TypeOK
    <2> SUFFICES ASSUME SizingInv PROVE TypeOK
      OBVIOUS
    <2>1. job \in Jobs /\ rt \in RuntimeSettings /\ phase \in Phases
      BY DEF SizingInv
    <2>2. defaults = None \/ WrittenAsComputed
      BY DEF SizingInv, Phases
    <2>3. WrittenAsComputed => defaults \in DefaultsType
      <3> SUFFICES ASSUME WrittenAsComputed PROVE defaults \in DefaultsType
        OBVIOUS
      <3>1. /\ defaults.cores \in Nat \ {0} /\ defaults.memory \in Nat \ {0}
            /\ defaults.partitions \in Nat
        BY <2>1, CoresFit, MemoryFits, PartitionsType DEF WrittenAsComputed
      <3> QED
        BY <3>1 DEF WrittenAsComputed, DefaultsType
    <2>4. worker \in Nat
      <3>1. CASE phase = "started"
        <4>1. defaults.drivers[1] \in Nat
          BY <3>1 DEF SizingInv, WrittenAsComputed
        <4>2. worker \in Int
          BY <2>1, <3>1, <4>1, WorkerMemoryType DEF SizingInv
        <4> QED
          BY <3>1, <4>2 DEF SizingInv
      <3>2. CASE phase # "started"
        BY <3>2 DEF SizingInv
      <3> QED
        BY <3>1, <3>2
    <2> QED
      BY <2>1, <2>2, <2>3, <2>4 DEF TypeOK
  <1> QED
    BY <1>1, SizingInvInit, SizingInvNext, PTL DEF Spec

\* What configure has computed, as long as there is a spark-defaults.conf.
LEMMA Computed ==
  ASSUME SizingInv, defaults # None
  PROVE  WrittenAsComputed /\ job \in Jobs /\ rt \in RuntimeSettings
  BY DEF SizingInv, Phases

\* The executors of a node fit on it, and no more would: for every allocation
\* and every setting, with executors bounded by cores, by memory and by GPUs.
THEOREM LayoutsAreMaximal == Spec => []ExecutorsAreMaximal
  <1>1. SizingInv => ExecutorsAreMaximal
    <2> SUFFICES ASSUME SizingInv, defaults # None
                 PROVE  \E n \in 1 .. job.cpus :
                          /\ Fit(n) /\ ~Fit(n + 1)
                          /\ defaults.partitions
                               = n * defaults.cores * Len(job.gpus) * rt.multiplier
      BY DEF ExecutorsAreMaximal
    <2> DEFINE n == ExecutorsPerNode(job, rt)
               byCpu == ExecutorsByCpu(job, rt)
               byMemory == WorkerMemory(job, rt, rt.driver) \div ExecutorMemory(job, rt)
               gpus == NumGpus(job, rt)
               byGpu == gpus \div rt.executor_gpu_amount
    <2>1. WrittenAsComputed /\ job \in Jobs /\ rt \in RuntimeSettings
      BY Computed
    <2>2. /\ defaults.cores = ExecutorCores(job, rt)
          /\ defaults.memory = ExecutorMemory(job, rt)
          /\ defaults.partitions = Partitions(job, rt)
          /\ ~TooSmall(job, rt) /\ ~DividesByZero(job, rt) /\ ~GpusRejected(job, rt)
      BY <2>1 DEF WrittenAsComputed
    <2>3. /\ defaults.cores \in Nat \ {0} /\ UsableCpus(job) \in Nat
          /\ byCpu = UsableCpus(job) \div defaults.cores /\ byCpu \in Nat \ {0}
      BY <2>1, <2>2, CoresFit, JobFacts DEF ExecutorsByCpu
    <2>4. /\ defaults.memory \in Nat \ {0} /\ WorkerMemory(job, rt, rt.driver) \in Nat
          /\ byMemory = WorkerMemory(job, rt, rt.driver) \div defaults.memory
          /\ byMemory \in Nat \ {0}
      BY <2>1, <2>2, MemoryFits, QuotientPositive
    <2>5. SharesGpus(job, rt) => /\ gpus \in Nat /\ rt.executor_gpu_amount \in Nat \ {0}
                                 /\ rt.executor_gpu_amount <= gpus
                                 /\ byGpu \in Nat \ {0}
      <3>1. gpus \in Nat /\ rt.executor_gpu_amount \in Nat \ {0}
        BY <2>1, JobFacts, SizingAssumption DEF SettingsType, NumGpus
      <3>2. SharesGpus(job, rt) => rt.executor_gpu_amount <= gpus
        BY <2>2, <3>1 DEF GpusRejected, SharesGpus
      <3> QED
        BY <3>1, <3>2, QuotientPositive
    <2>6. n \in Nat \ {0} /\ n <= byCpu
      BY <2>1, <2>2, ExecutorsType
    <2>7. /\ n <= byMemory
          /\ SharesGpus(job, rt) => n <= byGpu
          /\ n = byCpu \/ n = byMemory \/ (SharesGpus(job, rt) /\ n = byGpu)
      BY <2>3, <2>4, <2>5 DEF ExecutorsPerNode, AtMost, AtLeast
    <2>8. n \in 1 .. job.cpus
      <3>1. byCpu <= UsableCpus(job) /\ UsableCpus(job) = job.cpus - 1
        BY <2>1, <2>3, QuotientBound, JobFacts
      <3> QED
        BY <2>1, <2>3, <2>6, <3>1, JobFacts
    <2> HIDE DEF n, byCpu, byMemory, gpus, byGpu
    <2>9. Fit(n)
      <3>1. n * defaults.cores <= UsableCpus(job)
        <4>1. n * defaults.cores <= byCpu * defaults.cores
          BY <2>3, <2>6, ProductGrows
        <4>2. byCpu * defaults.cores <= UsableCpus(job)
          BY <2>3, QuotientGreatest
        <4>3. n * defaults.cores \in Nat /\ byCpu * defaults.cores \in Nat
          BY <2>3, <2>6, ProductType
        <4> QED
          BY <2>3, <4>1, <4>2, <4>3
      <3>2. n * defaults.memory <= WorkerMemory(job, rt, rt.driver)
        <4>1. n * defaults.memory <= byMemory * defaults.memory
          BY <2>4, <2>6, <2>7, ProductGrows
        <4>2. byMemory * defaults.memory <= WorkerMemory(job, rt, rt.driver)
          BY <2>4, QuotientGreatest
        <4>3. n * defaults.memory \in Nat /\ byMemory * defaults.memory \in Nat
          BY <2>4, <2>6, ProductType
        <4> QED
          BY <2>4, <4>1, <4>2, <4>3
      <3>3. ASSUME SharesGpus(job, rt)
            PROVE  n * rt.executor_gpu_amount <= NumGpus(job, rt)
        <4>1. n * rt.executor_gpu_amount <= byGpu * rt.executor_gpu_amount
          BY <2>5, <2>6, <2>7, <3>3, ProductGrows
        <4>2. byGpu * rt.executor_gpu_amount <= gpus
          BY <2>5, <3>3, QuotientGreatest DEF byGpu
        <4>3. n * rt.executor_gpu_amount \in Nat /\ byGpu * rt.executor_gpu_amount \in Nat
          BY <2>5, <2>6, <3>3, ProductType
        <4> QED
          BY <2>5, <3>3, <4>1, <4>2, <4>3 DEF gpus
      <3> QED
        BY <3>1, <3>2, <3>3 DEF Fit
    <2>10. ~Fit(n + 1)
      <3>1. CASE n = byCpu
        <4>1. UsableCpus(job) < (n + 1) * defaults.cores
          BY <2>3, <3>1, QuotientGreatest
        <4>2. (n + 1) * defaults.cores \in Nat
          BY <2>3, <2>6, ProductType
        <4> QED
          BY <2>3, <4>1, <4>2 DEF Fit
      <3>2. CASE n = byMemory
        BY <2>4, <3>2, QuotientGreatest, ProductType DEF Fit
      <3>3. CASE SharesGpus(job, rt) /\ n = byGpu
        <4>1. gpus < (n + 1) * rt.executor_gpu_amount
          BY <2>5, <3>3, QuotientGreatest DEF byGpu
        <4>2. (n + 1) * rt.executor_gpu_amount \in Nat
          BY <2>5, <2>6, <3>3, ProductType
        <4> QED
          BY <2>5, <3>3, <4>1, <4>2 DEF Fit, gpus
      <3> QED
        BY <2>7, <3>1, <3>2, <3>3
    <2>11. defaults.partitions = n * defaults.cores * Len(job.gpus) * rt.multiplier
      BY <2>2 DEF Partitions, n
    <2> QED
      BY <2>8, <2>9, <2>10, <2>11
  <1> QED
    BY <1>1, SizingInvInit, SizingInvNext, PTL DEF Spec

\* With the default settings and a CPU to spare every GPU of a node gets its
\* executor: there are cores and memory for as many, and no GPU for one more.
THEOREM EveryGpuIsUsed == Spec => []OneExecutorPerGpu
  <1>1. SizingInv => OneExecutorPerGpu
    <2> DEFINE gpus == NumGpus(job, rt)
    <2> SUFFICES ASSUME SizingInv, defaults # None, SharesGpus(job, rt), job.cpus > gpus,
                        rt.cores = None, rt.memory = None, rt.executor_gpu_amount = 1
                 PROVE  Fit(gpus) /\ ~Fit(gpus + 1)
      BY DEF OneExecutorPerGpu
    <2> DEFINE usable == UsableCpus(job)
               cores == usable \div gpus
               byCpu == usable \div cores
               memory == WorkerMemory(job, rt, rt.driver)
    <2>1. WrittenAsComputed /\ job \in Jobs /\ rt \in RuntimeSettings
      BY Computed
    <2>2. gpus \in Nat \ {0}
      BY <2>1, JobFacts, SizingAssumption DEF SettingsType, NumGpus, SharesGpus
    <2>3. usable \in Nat /\ gpus <= usable
      BY <2>1, <2>2, JobFacts
    <2>4. cores \in Nat \ {0}
      BY <2>2, <2>3, QuotientPositive
    <2>5. defaults.cores = cores
      BY <2>1, <2>4 DEF WrittenAsComputed, ExecutorCores, AtLeast
    <2>6. /\ defaults.memory = memory \div byCpu /\ memory \in Nat \ {0}
          /\ ExecutorsByCpu(job, rt) = byCpu /\ byCpu \in Nat \ {0}
      BY <2>1, <2>5, CoresFit, MemoryFits
      DEF WrittenAsComputed, ExecutorMemory, ExecutorsByCpu
    <2> HIDE DEF gpus, usable, cores, byCpu, memory
    <2>7. gpus * cores <= usable
      BY <2>2, <2>3, QuotientGreatest DEF cores
    <2>8. gpus <= byCpu
      <3>1. usable < (byCpu + 1) * cores
        BY <2>3, <2>4, QuotientGreatest DEF byCpu
      <3>2. ASSUME byCpu + 1 <= gpus PROVE FALSE
        <4>1. (byCpu + 1) * cores <= gpus * cores
          BY <2>2, <2>4, <2>6, <3>2, ProductGrows
        <4>2. (byCpu + 1) * cores \in Nat /\ gpus * cores \in Nat
          BY <2>2, <2>4, <2>6, ProductType
        <4> QED
          BY <2>3, <2>7, <3>1, <4>1, <4>2
      <3> QED
        BY <2>2, <2>6, <3>2
    <2>9. gpus * defaults.memory <= memory
      <3>1. memory \div byCpu \in Nat
        BY <2>6, QuotientType
      <3>2. (memory \div byCpu) * byCpu <= memory
        BY <2>6, QuotientGreatest
      <3>3. (memory \div byCpu) * gpus <= (memory \div byCpu) * byCpu
        BY <2>2, <2>6, <2>8, <3>1, ProductGrows
      <3>4. /\ (memory \div byCpu) * gpus \in Nat /\ (memory \div byCpu) * byCpu \in Nat
            /\ (memory \div byCpu) * gpus = gpus * (memory \div byCpu)
        BY <2>2, <2>6, <3>1, ProductType
      <3> QED
        BY <2>6, <3>2, <3>3, <3>4
    <2>10. gpus * rt.executor_gpu_amount = gpus /\ (gpus + 1) * rt.executor_gpu_amount = gpus + 1
      BY <2>2
    <2> QED
      BY <2>2, <2>5, <2>7, <2>9, <2>10 DEF Fit, gpus, usable, memory
  <1> QED
    BY <1>1, SizingInvInit, SizingInvNext, PTL DEF Spec

-----------------------------------------------------------------------------
(***************************************************************************)
(* The GPUs of the workers.                                                *)
(***************************************************************************)

\* The sum over two nodes. The fold is a recursive function on the subsets of
\* its set: there is one, so it is what it says.
LEMMA TotalOfTwo ==
  ASSUME NEW j \in Jobs, Len(j.gpus) = 2
  PROVE  TotalGpus(j) = j.gpus[1] + j.gpus[2]
<1> DEFINE g == j.gpus
           One(s) == CHOOSE i \in s : TRUE
           Sum(f) == [s \in SUBSET {1, 2} |->
                        IF s = {} THEN 0 ELSE g[One(s)] + f[s \ {One(s)}]]
           sum == CHOOSE f : f = Sum(f)
           table == [s \in SUBSET {1, 2} |->
                       IF s = {} THEN 0 ELSE IF s = {1} THEN g[1]
                       ELSE IF s = {2} THEN g[2] ELSE g[1] + g[2]]
<1>1. DOMAIN j.gpus = {1, 2} /\ g[1] \in Nat /\ g[2] \in Nat
  BY SizingAssumption DEF JobType
<1>2. TotalGpus(j) = sum[{1, 2}]
  BY <1>1 DEF TotalGpus, MapThenSumSet, MapThenFoldSet
<1>3. table = Sum(table)
  <2>1. ASSUME NEW s \in SUBSET {1, 2}
        PROVE  table[s] = IF s = {} THEN 0 ELSE g[One(s)] + table[s \ {One(s)}]
    <3>1. s \in {{}, {1}, {2}, {1, 2}}
      OBVIOUS
    <3>2. s # {} => One(s) \in s
      OBVIOUS
    <3> HIDE DEF One, g
    <3>3. CASE s = {}
      BY <3>3
    <3>4. CASE s = {1}
      <4>1. One(s) = 1 /\ s \ {One(s)} = {}
        BY <3>2, <3>4
      <4> QED
        BY <1>1, <3>4, <4>1
    <3>5. CASE s = {2}
      <4>1. One(s) = 2 /\ s \ {One(s)} = {}
        BY <3>2, <3>5
      <4> QED
        BY <1>1, <3>5, <4>1
    <3>6. CASE s = {1, 2}
      <4>1. CASE One(s) = 1
        <5>1. s \ {One(s)} = {2}
          BY <3>6, <4>1
        <5> QED
          BY <1>1, <3>6, <4>1, <5>1
      <4>2. CASE One(s) = 2
        <5>1. s \ {One(s)} = {1}
          BY <3>6, <4>2
        <5> QED
          BY <1>1, <3>6, <4>2, <5>1
      <4> QED
        BY <3>2, <3>6, <4>1, <4>2
    <3> QED
      BY <3>1, <3>3, <3>4, <3>5, <3>6
  <2> HIDE DEF One, g
  <2>2. table \in [SUBSET {1, 2} -> Nat]
    BY <1>1
  <2> HIDE DEF table
  <2> QED
    BY <2>1, <2>2
<1>4. sum = Sum(sum)
  <2> HIDE DEF Sum, table
  <2> QED
    BY <1>3
<1>5. sum[{1, 2}] = g[1] + g[2]
  <2> HIDE DEF sum, g
  <2>1. /\ sum[{}] = 0
        /\ \A s \in SUBSET {1, 2} : s # {} => sum[s] = g[One(s)] + sum[s \ {One(s)}]
    BY <1>4
  <2>2. \A s \in SUBSET {1, 2} : s # {} => One(s) \in s
    OBVIOUS
  <2> HIDE DEF One
  <2>3. sum[{1}] = g[1] /\ sum[{2}] = g[2]
    <3>1. One({1}) = 1 /\ {1} \ {1} = {} /\ One({2}) = 2 /\ {2} \ {2} = {}
      BY <2>2
    <3> QED
      BY <1>1, <2>1, <3>1
  <2>4. One({1, 2}) \in {1, 2} /\ {1, 2} \ {1} = {2} /\ {1, 2} \ {2} = {1}
    BY <2>2
  <2>5. sum[{1, 2}] = g[One({1, 2})] + sum[{1, 2} \ {One({1, 2})}]
    BY <2>1
  <2>6. CASE One({1, 2}) = 1
    BY <2>3, <2>4, <2>5, <2>6
  <2>7. CASE One({1, 2}) = 2
    <3>1. sum[{1, 2}] = g[2] + g[1]
      BY <2>3, <2>4, <2>5, <2>7
    <3> QED
      BY <1>1, <3>1 DEF g
  <2> QED
    BY <2>4, <2>6, <2>7
<1> QED
  BY <1>2, <1>5

\* GPUs requested per node are the same on every node.
PerNodeIsEven ==
  \A j \in Jobs : j.request = "per_node" => \A i \in DOMAIN j.gpus : j.gpus[i] = j.gpus[1]

\* configure lets no uneven split of a total pass on one or two workers.
THEOREM WorkersHaveTheirGpus ==
  ASSUME PerNodeIsEven
  PROVE  Spec => []EveryWorkerHasItsGpus
<1>1. SizingInv => EveryWorkerHasItsGpus
  <2> SUFFICES ASSUME SizingInv, defaults # None, SharesGpus(job, rt), rt.gpus_per_node = None,
                      Len(job.gpus) <= 2, ~job.het, NEW i \in DOMAIN job.gpus
               PROVE  job.gpus[i] = NumGpus(job, rt)
    BY DEF EveryWorkerHasItsGpus
  <2>1. ~GpusRejected(job, rt) /\ job \in Jobs
    BY Computed DEF WrittenAsComputed
  <2>2. NumGpus(job, rt) = job.gpus[1] /\ job.gpus[1] > 0 /\ ~UnevenSplit(job)
    BY <2>1 DEF NumGpus, SharesGpus, GpusRejected
  <2>3. /\ job.gpus \in Seq(Nat) /\ i \in 1 .. Len(job.gpus) /\ job.request \in {"per_node", "total"}
        /\ Len(job.gpus) \in {1, 2}
    <3>1. job.gpus \in Seq(Nat) /\ Len(job.gpus) > 0 /\ job.request \in {"per_node", "total"}
      BY <2>1, SizingAssumption DEF JobType
    <3>2. Len(job.gpus) \in Nat /\ DOMAIN job.gpus = 1 .. Len(job.gpus)
      BY <3>1
    <3>3. i \in 1 .. Len(job.gpus)
      BY <3>2
    <3>4. ASSUME NEW n \in Nat, n > 0, n <= 2 PROVE n \in {1, 2}
      BY <3>4
    <3> QED
      BY <3>1, <3>2, <3>3, <3>4
  <2>4. CASE Len(job.gpus) = 1
    BY <2>2, <2>3, <2>4
  <2>5. CASE job.request = "per_node"
    BY <2>1, <2>2, <2>5 DEF PerNodeIsEven
  <2>6. CASE Len(job.gpus) = 2 /\ job.request = "total"
    <3>1. TotalGpus(job) = job.gpus[1] * 2
      BY <2>2, <2>6 DEF UnevenSplit
    <3>2. job.gpus[1] + job.gpus[2] = job.gpus[1] * 2
      BY <2>1, <2>6, <3>1, TotalOfTwo
    <3>3. job.gpus[1] \in Nat /\ job.gpus[2] \in Nat /\ i \in {1, 2}
      BY <2>3, <2>6
    <3> QED
      BY <2>2, <3>2, <3>3
  <2> QED
    BY <2>3, <2>4, <2>5, <2>6
<1> QED
  BY <1>1, SizingInvInit, SizingInvNext, PTL DEF Spec

-----------------------------------------------------------------------------
(***************************************************************************)
(* When configure does not divide by zero.                                 *)
(***************************************************************************)

\* Where the memory of an executor is left to configure, there is a gigabyte
\* for each that fits by CPU.
AmpleMemory ==
  \A j \in Jobs, r \in RuntimeSettings :
    r.memory = None /\ ~TooSmall(j, r) => ExecutorsByCpu(j, r) <= WorkerMemory(j, r, r.driver)

\* configure crashes only on nodes with fewer gigabytes to share out than
\* executors: on all others it succeeds or says what is wrong.
THEOREM AmpleNodesNeverCrash ==
  ASSUME AmpleMemory
  PROVE  Spec => []ConfigureNeverCrashes
<1>1. ASSUME NEW j \in Jobs, NEW r \in RuntimeSettings
      PROVE  ~DividesByZero(j, r)
  <2> SUFFICES ASSUME ~TooSmall(j, r) PROVE ExecutorMemory(j, r) # 0
    BY DEF DividesByZero
  <2>1. CASE r.memory # None
    BY <2>1, SizingAssumption DEF SettingsType, ExecutorMemory
  <2>2. CASE r.memory = None
    <3>1. ExecutorsByCpu(j, r) \in Nat \ {0} /\ WorkerMemory(j, r, r.driver) \in Int
      BY CoresFit, WorkerMemoryType, SizingAssumption DEF SettingsType
    <3>2. ExecutorsByCpu(j, r) <= WorkerMemory(j, r, r.driver)
      BY <2>2 DEF AmpleMemory
    <3>3. WorkerMemory(j, r, r.driver) \in Nat
      BY <3>1, <3>2
    <3>4. WorkerMemory(j, r, r.driver) \div ExecutorsByCpu(j, r) \in Nat \ {0}
      BY <3>1, <3>2, <3>3, QuotientPositive
    <3> QED
      BY <2>2, <3>4 DEF ExecutorMemory
  <2> QED
    BY <2>1, <2>2
<1>2. SizingInv /\ ConfigureNeverCrashes /\ [Next]_vars => ConfigureNeverCrashes'
  BY <1>1
  DEF SizingInv, ConfigureNeverCrashes, Next, ConfigureCrash, ConfigureReject, Configure,
      EditDefaults, Start, StartReject, vars
<1>3. Init => ConfigureNeverCrashes
  BY DEF Init, ConfigureNeverCrashes
<1> QED
  BY <1>2, <1>3, SizingInvInit, SizingInvNext, PTL DEF Spec
=============================================================================

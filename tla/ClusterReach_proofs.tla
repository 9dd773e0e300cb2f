------------------------ MODULE ClusterReach_proofs -------------------------
(***************************************************************************)
(* What can be stopped: theorems about ClusterLifecycle with any number of *)
(* commands and programs that take turns, for all nodes, allocations and   *)
(* configurations. The first part is about the usual ways of using it,     *)
(* where launches may fail, servers die at any moment and a running        *)
(* cluster is configured anew; the second is about what a crash leaves,    *)
(* the third about what a rollback leaves; in the last, ClusterLifecycle   *)
(* implements ClusterContract.                                             *)
(***************************************************************************)
EXTENDS ClusterRefinement, ClusterLifecycle_proofs

\* Commands take turns, end, and find their stop commands work; a user starts
\* and stops with the current configuration. The lists passed to set_workers
\* keep to the allocation, and name this machine alone only if it is alone.
Regular ==
  /\ ~Overlap
  /\ Calls \cap {"restart", "stale_config", "after_failure", "api_clean", "force"} = {}
  /\ Faults \subseteq {"fail", "die"}
  /\ \A a \in Allocations : \A w \in WorkerLists[a] :
       w \subseteq a /\ (IsSingleNode(w) <=> IsSingleNode(a))

-----------------------------------------------------------------------------
(***************************************************************************)
(* The inductive invariant: what ties the files, the processes and the     *)
(* position of the one manager that is at work.                            *)
(***************************************************************************)

\* At any time, also in the middle of an operation: what runs was launched
\* with the saved configuration, on nodes of the allocation and of the workers
\* file, if there is one.
Filed ==
  /\ orphan = {}
  /\ daemons \subseteq alloc
  /\ workersFile # NoFile =>
       /\ confDir
       /\ workersFile \subseteq alloc /\ daemons \subseteq workersFile
       /\ IsSingleNode(workersFile) <=> IsSingleNode(alloc)
  /\ Running # {} => saved # NoFile /\ confDir
  /\ daemons # {} => IsSingleNode(alloc) \/ "srun" \notin saved
  /\ step # {} => ~IsSingleNode(alloc) /\ "srun" \in saved

\* What stop reads from the disk covers what runs.
Covered == Running \subseteq IF status = NoFile THEN {} ELSE status

\* Between operations.
Between ==
  /\ Covered
  /\ Running # {} => workersFile # NoFile
  /\ saved # NoFile /\ workersFile # NoFile => defaults = HistorySetting(saved)

\* A command that has loaded the cluster is still up to date.
Reading(m) == m \in Cli /\ pc[m] = "idle" => cached[m] = status

Configuring(m) ==
  /\ pc[m] \in {"settings", "workers", "save"} =>
       /\ confDir /\ Covered
       /\ Running # {} => ("srun" \in cfg[m] <=> "srun" \in saved)
  /\ pc[m] \in {"settings", "workers"} => workersFile = NoFile
  /\ pc[m] \in {"workers", "save"} => defaults = HistorySetting(cfg[m])
  /\ pc[m] = "save" => workersFile # NoFile

\* The files that an operation on the current configuration finds.
Current(m) == 
  /\ cfg[m] = saved
  /\ workersFile # NoFile => defaults = HistorySetting(saved)

Starting(m) ==
  /\ pc[m] = "start" =>
       /\ Current(m) /\ workersFile # NoFile /\ targets[m] = workersFile
       /\ Running \subseteq tracker[m] /\ tracker[m] \cap todo[m] = {}
  /\ pc[m] = "rollback" =>
       Current(m) /\ workersFile # NoFile /\ Running \subseteq todo[m]

Stopping(m) ==
  pc[m] = "stop" =>
    Current(m) /\ (Running # {} => workersFile # NoFile) /\ Running \subseteq todo[m]

\* All of it, as m finds it when it alone is at work.
View(m) ==
  /\ Filed
  /\ pc[m] \notin Inside => Between
  /\ Reading(m) /\ Configuring(m) /\ Starting(m) /\ Stopping(m)

OneAtWork == \A m, o \in Managers : m # o => ~(Busy(m) /\ Busy(o))

ReachInv ==
  /\ OneAtWork
  /\ Filed
  /\ (\A m \in Managers : pc[m] \notin Inside) => Between
  /\ \A m \in Managers : Reading(m) /\ Configuring(m) /\ Starting(m) /\ Stopping(m)

-----------------------------------------------------------------------------
(***************************************************************************)
(* Lemmas: what runs, leaving an operation, and who may step.              *)
(***************************************************************************)

LEMMA RunningParts ==
  ASSUME TypeOK
  PROVE  /\ Running \subseteq Services
         /\ Running = {} <=> up = {} /\ daemons = {} /\ step = {}
         /\ "workers" \in Running <=> daemons # {} \/ step # {}
         /\ \A s \in HeadServices : s \in Running <=> s \in up
  BY DEF TypeOK, Running, Services, HeadServices

LEMMA InitReach == Init => ReachInv
  BY LifecycleAssumption
  DEF Init, ReachInv, OneAtWork, Busy, Filed, Running, Between, Covered, Reading,
      Configuring, Starting, Stopping, Inside

\* Processes that end take nothing from what the files say of the others.
LEMMA FewerRun ==
  ASSUME TypeOK, TypeOK', UNCHANGED <<alloc, disk, orphan>>,
         up' \subseteq up, daemons' \subseteq daemons, step' \subseteq step
  PROVE  /\ Running' \subseteq Running
         /\ Filed => Filed'
         /\ Between => Between'
         /\ Covered => Covered'
<1>1. Running' \subseteq Running
  BY DEF Running
<1>2. (Running' # {} => Running # {}) /\ (daemons' # {} => daemons # {})
      /\ (step' # {} => step # {})
  BY <1>1
<1> QED
  BY <1>1, <1>2 DEF disk, Filed, Between, Covered, HistorySetting, IsSingleNode

\* Back between two operations there is nothing left to say of m.
LEMMA ReturnView ==
  ASSUME TypeOK, NEW m \in Managers, Return(m), Filed', Between'
  PROVE  View(m)'
<1>1. pc'[m] = IF m \in Cli THEN "none" ELSE "idle"
  BY DEF TypeOK, Return, Leave, Goto
<1> QED
  BY <1>1 DEF View, Reading, Configuring, Starting, Stopping, Inside

\* Whoever is at work, is alone; and only a manager that begins or is at work
\* does more than to end.
LEMMA StepsAlone ==
  ASSUME ~Overlap, TypeOK, OneAtWork, NEW m \in Managers, ManagerStep(m)
  PROVE  Exit(m) \/ \A o \in Managers \ {m} : ~Busy(o)
<1>1. ASSUME pc[m] \in Inside
      PROVE  \A o \in Managers \ {m} : ~Busy(o)
  BY <1>1 DEF Busy, OneAtWork
<1>2. ASSUME NEW call, Called(m, call)
      PROVE  \A o \in Managers \ {m} : ~Busy(o)
  BY <1>2 DEF Called
<1>3. CASE Create(m) \/ Load(m) \/ Clean(m)
  BY <1>2, <1>3 DEF Create, Load, Clean
<1>4. CASE ConfigureStep(m)
  BY <1>1, <1>2, <1>4 DEF ConfigureStep, BeginConfigure, SetWorkers, WriteSettings,
     SettingsFail, WriteWorkers, ConfigureFail, SaveConfig, Inside
<1>5. CASE StartStep(m)
  <2>1. pc[m] = "start" \/ \E call : Called(m, call)
    BY <1>5 DEF StartStep, BeginStart, StartWithoutWorkersFile, StartServer, LaunchFail,
       SkipHistory, MetastoreSetupFail, StartLocalWorker, StartSshWorkers,
       StartSrunWorkers, RecordStart
  <2> QED
    BY <1>1, <1>2, <2>1 DEF Inside
<1>6. CASE StopStep(m)
  <2>1. pc[m] \in {"stop", "rollback"} \/ \E call : Called(m, call)
    BY <1>6 DEF StopStep, BeginStop, StopCannotInfer, StopServer, StopWorkers,
       StopDaemons, StopSrunStep, StopWorkersFail, RecordStop, EndRollback
  <2> QED
    BY <1>1, <1>2, <2>1 DEF Inside
<1>7. CASE Kill(m)
  BY <1>1, <1>7 DEF Kill, CutShort, CutBetween, CutBeforePidFile, CutDuringSsh, Inside
<1> QED
  BY <1>3, <1>4, <1>5, <1>6, <1>7 DEF ManagerStep

-----------------------------------------------------------------------------
(***************************************************************************)
(* The steps of the one manager that is at work, operation by operation.   *)
(***************************************************************************)
LEMMA CreateView ==
  ASSUME Regular, TypeOK, TypeOK', NEW m \in Managers, View(m), Create(m) \/ Load(m)
  PROVE  View(m)'
<1>1. pc[m] = "none" /\ pc'[m] \in {"built", "idle"}
  BY DEF TypeOK, Create, Load, Goto
<1>2. m \in Cli /\ pc'[m] = "idle" => cached'[m] = status
  BY DEF TypeOK, Create, Load, Goto
<1>3. UNCHANGED <<alloc, disk, procs>>
  BY DEF Create, Load
<1> QED
  BY <1>1, <1>2, <1>3 DEF View, Reading, Configuring, Starting, Stopping, Inside, disk, procs,
     Filed, Between, Covered, Running, HistorySetting

LEMMA ConfigureView ==
  ASSUME Regular, TypeOK, TypeOK', NEW m \in Managers, View(m), ConfigureStep(m)
  PROVE  View(m)'
<1> USE DEF procs, memory
<1>1. CASE BeginConfigure(m)
  <2>1. pc[m] \in {"built", "idle"} /\ pc'[m] = "settings"
    BY <1>1 DEF TypeOK, BeginConfigure, Goto
  <2>2. Running # {} => ("srun" \in cfg[m] <=> "srun" \in saved)
    BY <1>1 DEF BeginConfigure, MayReconfigure, View, Filed
  <2>3. Between
    BY <2>1 DEF View, Inside
  <2> QED
    BY <1>1, <2>1, <2>2, <2>3 DEF BeginConfigure, View, Filed, Between, Covered, Reading,
       Configuring, Starting, Stopping, Inside, Running
<1>2. CASE WriteSettings(m)
  <2>1. pc[m] = "settings" /\ pc'[m] = "workers"
    BY <1>2 DEF TypeOK, WriteSettings, Goto
  <2> QED
    BY <1>2, <2>1 DEF WriteSettings, View, Filed, Covered, Reading,
       Configuring, Starting, Stopping, Inside, Running, HistorySetting
<1>3. CASE SettingsFail(m)
  <2>1. Running = {}
    BY <1>3 DEF SettingsFail, Regular
  <2>2. Running' = {} /\ workersFile' = NoFile
    BY <1>3, <2>1 DEF SettingsFail, View, Configuring, Running
  <2>3. Filed' /\ Between'
    BY <1>3, <2>2, RunningParts DEF SettingsFail, View, Filed, Between, Covered
  <2> QED
    BY <1>3, <2>3, ReturnView DEF SettingsFail
<1>4. CASE WriteWorkers(m)
  <2>1. pc[m] = "workers" /\ pc'[m] = "save"
    BY <1>4 DEF TypeOK, WriteWorkers, Goto
  <2>2. alloc # NoFile /\ workersFile' = alloc
    BY <1>4, LifecycleAssumption DEF TypeOK, WriteWorkers
  <2> QED
    BY <1>4, <2>1, <2>2 DEF WriteWorkers, View, Filed, Covered, Reading,
       Configuring, Starting, Stopping, Inside, Running, HistorySetting
<1>5. CASE ConfigureFail(m)
  BY <1>5 DEF ConfigureFail, View, Configuring
<1>6. CASE SaveConfig(m)
  <2>1. pc[m] = "save" /\ pc'[m] \in {"saved", "idle"} /\ (pc'[m] = "idle" => m \notin Cli)
    BY <1>6 DEF TypeOK, SaveConfig, Goto
  <2>2. saved' = cfg[m] /\ saved' # NoFile
    BY <1>6, LifecycleAssumption DEF TypeOK, SaveConfig
  <2>3. Running' = Running
    BY <1>6 DEF SaveConfig, Running
  <2>4. Filed'
    BY <1>6, <2>1, <2>2, <2>3, RunningParts DEF SaveConfig, View, Filed, Configuring
  <2>5. Between'
    BY <1>6, <2>1, <2>2, <2>3 DEF SaveConfig, View, Filed, Configuring, Between, Covered,
       HistorySetting
  <2> QED
    BY <2>1, <2>4, <2>5 DEF View, Reading, Configuring, Starting, Stopping, Inside
<1>7. CASE SetWorkers(m)
  <2>1. pc[m] = "idle" /\ pc'[m] = "idle" /\ m \notin Cli /\ Running = {}
        /\ workersFile # NoFile /\ confDir
    BY <1>7 DEF SetWorkers, Regular
  <2>2. Running' = {}
    BY <1>7, <2>1 DEF SetWorkers, Running
  <2>3. Between
    BY <2>1 DEF View, Inside
  <2>4. workersFile' \subseteq alloc /\ (IsSingleNode(workersFile') <=> IsSingleNode(alloc))
    BY <1>7 DEF SetWorkers, Regular, TypeOK
  <2>5. Filed'
    BY <1>7, <2>1, <2>2, <2>4, RunningParts DEF SetWorkers, View, Filed, IsSingleNode
  <2>6. Between'
    BY <1>7, <2>1, <2>2, <2>3 DEF SetWorkers, Between, Covered, HistorySetting
  <2> QED
    BY <2>1, <2>5, <2>6 DEF View, Reading, Configuring, Starting, Stopping, Inside
<1> QED
  BY <1>1, <1>2, <1>3, <1>4, <1>5, <1>6, <1>7 DEF ConfigureStep

\* Launching s leaves it flagged: what runs is in the tracker.
LEMMA StartedView ==
  ASSUME TypeOK, TypeOK', NEW m \in Managers, View(m), pc[m] = "start",
         NEW s \in Services, s \in todo[m], Started(m, s),
         Running' \subseteq Running \cup {s}, Filed'
  PROVE  View(m)'
<1>1. pc'[m] = "start" /\ cfg' = cfg /\ targets' = targets /\ UNCHANGED disk
  BY DEF Started
<1>2. tracker'[m] = tracker[m] \cup {s} /\ todo'[m] = todo[m] \ {s}
  BY DEF TypeOK, Started
<1> QED
  BY <1>1, <1>2 DEF disk, View, Between, Reading, Configuring, Starting, Stopping, Current,
     Inside, HistorySetting

\* A launch that raises passes what is flagged, and all that runs is, to the
\* rollback.
LEMMA RaisedView ==
  ASSUME TypeOK, TypeOK', NEW m \in Managers, View(m), pc[m] = "start", Raised(m),
         UNCHANGED procs
  PROVE  View(m)'
<1>1. pc'[m] = "rollback" /\ todo'[m] = tracker[m] /\ cfg' = cfg /\ UNCHANGED disk
  BY DEF TypeOK, Raised, Goto
<1>2. Running' = Running /\ Filed'
  BY <1>1 DEF Raised, procs, disk, Running, View, Filed
<1> QED
  BY <1>1, <1>2 DEF disk, View, Reading, Configuring, Starting, Stopping, Current, Inside,
     HistorySetting

LEMMA StartView ==
  ASSUME Regular, TypeOK, TypeOK', NEW m \in Managers, View(m), StartStep(m)
  PROVE  View(m)'
<1>1. CASE BeginStart(m)
  <2>1. /\ pc[m] \in {"idle", "saved"} /\ pc'[m] = "start"
        /\ Running = {} /\ saved = cfg[m] /\ workersFile # NoFile
        /\ targets'[m] = workersFile /\ tracker'[m] = {}
        /\ UNCHANGED <<alloc, disk, procs, cfg>>
    BY <1>1 DEF TypeOK, BeginStart, Goto, MayStart, UsesCurrent, Regular
  <2>2. Between
    BY <2>1 DEF View, Inside
  <2>3. Running' = {} /\ Filed'
    BY <2>1 DEF View, Filed, Running, disk, procs
  <2>4. Current(m)'
    <3>1. saved # NoFile
      BY <2>1, LifecycleAssumption DEF TypeOK
    <3>2. cfg'[m] = saved' /\ UNCHANGED <<workersFile, defaults, saved>>
      BY <2>1 DEF disk
    <3> QED
      BY <2>1, <2>2, <3>1, <3>2 DEF Between, Current, HistorySetting
  <2>5. workersFile' = workersFile
    BY <2>1 DEF disk
  <2> QED
    BY <2>1, <2>3, <2>4, <2>5 DEF View, Reading, Configuring, Starting, Stopping, Inside
<1>2. CASE StartWithoutWorkersFile(m)
  <2>1. pc[m] \notin Inside
    BY <1>2 DEF StartWithoutWorkersFile, Inside
  <2>2. Filed' /\ Between'
    BY <1>2, <2>1 DEF StartWithoutWorkersFile, View, Filed, Between, Covered, Running,
       HistorySetting, disk, procs
  <2> QED
    BY <1>2, <2>2, ReturnView DEF StartWithoutWorkersFile
<1>3. ASSUME NEW s \in Services, StartServer(m, s)
      PROVE  View(m)'
  <2>1. /\ pc[m] = "start" /\ s \in todo[m] /\ s \in HeadServices /\ Started(m, s)
        /\ up' = up \cup {s} /\ orphan' = orphan \cup (up \cap {s})
        /\ UNCHANGED <<daemons, step>>
    BY <1>3 DEF StartServer, Turn
  <2>2. s \notin up
    BY <2>1, RunningParts DEF View, Starting
  <2>3. Running' \subseteq Running \cup {s}
    BY <2>1 DEF Running
  <2>4. saved # NoFile /\ confDir /\ UNCHANGED <<alloc, disk>>
    BY <2>1, LifecycleAssumption DEF TypeOK, View, Filed, Starting, Current, Started
  <2>5. Filed'
    BY <2>1, <2>2, <2>4 DEF View, Filed, disk
  <2> QED
    BY <2>1, <2>3, <2>5, StartedView
<1>4. ASSUME NEW s \in Services, LaunchFail(m, s)
      PROVE  View(m)'
  BY <1>4, RaisedView DEF LaunchFail
<1>5. CASE SkipHistory(m)
  <2>1. /\ pc[m] = "start" /\ pc' = pc /\ todo'[m] \subseteq todo[m]
        /\ UNCHANGED <<alloc, disk, procs, cfg, tracker, targets>>
    BY <1>5 DEF TypeOK, SkipHistory
  <2> QED
    BY <2>1 DEF View, Between, Reading, Configuring, Starting, Stopping, Current, Inside,
       HistorySetting, disk, procs, Filed, Running
<1>6. CASE MetastoreSetupFail(m)
  BY <1>6 DEF MetastoreSetupFail, Regular
<1>7. CASE StartLocalWorker(m) \/ StartSshWorkers(m) \/ StartSrunWorkers(m)
  <2>1. pc[m] = "start" /\ "workers" \in todo[m]
    BY <1>7 DEF StartLocalWorker, StartSshWorkers, StartSrunWorkers, Turn
  <2>2. daemons = {} /\ step = {} /\ orphan = {}
    BY <2>1, RunningParts DEF View, Filed, Starting
  <2>3. /\ targets[m] = workersFile /\ workersFile \subseteq alloc /\ saved # NoFile /\ confDir
        /\ cfg[m] = saved /\ (IsSingleNode(targets[m]) <=> IsSingleNode(alloc))
    BY <2>1, LifecycleAssumption DEF TypeOK, View, Filed, Starting, Current
  <2>4. Started(m, "workers") /\ up' = up /\ orphan' = {} /\ UNCHANGED <<alloc, disk>>
    <3>1. CASE StartLocalWorker(m)
      BY <2>2, <3>1 DEF StartLocalWorker, Started
    <3>2. CASE StartSshWorkers(m)
      BY <2>2, <3>2 DEF StartSshWorkers, Started, Regular
    <3>3. CASE StartSrunWorkers(m)
      BY <2>2, <3>3 DEF StartSrunWorkers, Started
    <3> QED
      BY <1>7, <3>1, <3>2, <3>3
  <2>5. \/ daemons' = workersFile /\ step' = {}
           /\ (IsSingleNode(alloc) \/ "srun" \notin saved)
        \/ daemons' = {} /\ step' = workersFile
           /\ ~IsSingleNode(alloc) /\ "srun" \in saved
    <3>1. CASE StartLocalWorker(m)
      BY <2>2, <2>3, <3>1 DEF StartLocalWorker, IsSingleNode
    <3>2. CASE StartSshWorkers(m)
      BY <2>2, <2>3, <3>2 DEF StartSshWorkers, Regular
    <3>3. CASE StartSrunWorkers(m)
      BY <2>2, <2>3, <3>3 DEF StartSrunWorkers
    <3> QED
      BY <1>7, <3>1, <3>2, <3>3
  <2>6. Filed'
    BY <2>3, <2>4, <2>5 DEF View, Filed, disk
  <2>7. Running' \subseteq Running \cup {"workers"}
    BY <2>4 DEF Running
  <2> QED
    BY <2>1, <2>4, <2>6, <2>7, StartedView DEF Services
<1>8. CASE RecordStart(m)
  <2>1. pc[m] = "start" /\ status' = tracker[m] /\ Running \subseteq tracker[m]
    BY <1>8 DEF RecordStart, View, Starting
  <2>2. status' # NoFile
    BY <2>1, LifecycleAssumption DEF TypeOK
  <2>3. Filed' /\ Between'
    BY <1>8, <2>1, <2>2 DEF RecordStart, View, Starting, Current, Filed, Between, Covered,
       Running, HistorySetting, procs
  <2> QED
    BY <1>8, <2>3, ReturnView DEF RecordStart
<1> QED
  BY <1>1, <1>2, <1>3, <1>4, <1>5, <1>6, <1>7, <1>8 DEF StartStep

\* A stop command took effect: what runs is left among what is still to stop.
LEMMA StoppedView ==
  ASSUME TypeOK, TypeOK', NEW m \in Managers, View(m), pc[m] \in {"stop", "rollback"},
         NEW s \in Services, Stopped(m, s), s \notin Running',
         up' \subseteq up, daemons' \subseteq daemons, step' \subseteq step
  PROVE  View(m)'
<1>1. UNCHANGED <<alloc, disk, orphan>> /\ pc' = pc /\ cfg' = cfg
  BY DEF Stopped
<1>2. todo'[m] = todo[m] \ {s}
  BY DEF TypeOK, Stopped
<1>3. Filed' /\ Running' \subseteq Running \ {s}
  BY <1>1, FewerRun DEF View
<1> QED
  BY <1>1, <1>2, <1>3 DEF disk, View, Reading, Configuring, Starting, Stopping, Current,
     Inside, HistorySetting

\* A stop that is about to stop the workers can, and reaches all of them.
LEMMA WorkersInReach ==
  ASSUME TypeOK, NEW m \in Managers, View(m), pc[m] = "stop"
  PROVE  /\ daemons # {} => ~StopsSrun(cfg[m]) /\ daemons \subseteq DaemonsInReach
         /\ step # {} => StopsSrun(cfg[m])
         /\ Running # {} => CanStopWorkers
<1>1. cfg[m] = saved /\ (Running # {} => workersFile # NoFile)
  BY DEF View, Stopping, Current
<1>2. Filed
  BY DEF View
<1> QED
  BY <1>1, <1>2, RunningParts
  DEF Filed, StopsSrun, DaemonsInReach, CanStopWorkers, IsSingleNode

LEMMA StopView ==
  ASSUME Regular, TypeOK, TypeOK', NEW m \in Managers, View(m), StopStep(m)
  PROVE  View(m)'
<1>1. CASE BeginStop(m)
  <2>1. /\ pc[m] = "idle" /\ pc'[m] = "stop" /\ saved = cfg[m] /\ saved # NoFile
        /\ todo'[m] = Assumed(cfg[m])
        /\ UNCHANGED <<alloc, disk, procs, cfg>>
    BY <1>1, LifecycleAssumption DEF TypeOK, BeginStop, Goto, UsesCurrent, Regular
  <2>2. Between
    BY <2>1 DEF View, Inside
  <2>3. Running' = Running /\ Filed'
    BY <2>1 DEF View, Filed, Running, disk, procs
  <2>4. Running \subseteq todo'[m]
    BY <2>1, <2>2 DEF Between, Covered, Assumed
  <2>5. Current(m)' /\ (Running' # {} => workersFile' # NoFile)
    BY <2>1, <2>2, <2>3 DEF Between, Current, HistorySetting, disk
  <2> QED
    BY <2>1, <2>3, <2>4, <2>5 DEF View, Reading, Configuring, Starting, Stopping, Inside
<1>2. CASE StopCannotInfer(m)
  <2>1. pc[m] \notin Inside
    BY <1>2 DEF StopCannotInfer, Inside
  <2>2. Filed' /\ Between'
    BY <1>2, <2>1 DEF StopCannotInfer, View, Filed, Between, Covered, Running,
       HistorySetting, disk, procs
  <2> QED
    BY <1>2, <2>2, ReturnView DEF StopCannotInfer
<1>3. ASSUME NEW s \in Services, StopServer(m, s)
      PROVE  View(m)'
  <2>1. /\ pc[m] \in {"stop", "rollback"} /\ s \in HeadServices /\ Stopped(m, s)
        /\ up' = up \ {s} /\ UNCHANGED <<daemons, step>>
    BY <1>3 DEF StopServer, Regular
  <2>2. s \notin Running'
    BY <2>1 DEF Running, HeadServices
  <2> QED
    BY <2>1, <2>2, StoppedView
<1>4. CASE StopWorkers(m)
  <2>1. pc[m] = "stop" /\ Stopped(m, "workers") /\ up' = up
    BY <1>4 DEF StopWorkers, StopDaemons, StopSrunStep
  <2>2. daemons' = {} /\ step' = {}
    <3>1. CASE StopDaemons(m)
      BY <2>1, <3>1, WorkersInReach DEF StopDaemons, Regular
    <3>2. CASE StopSrunStep(m)
      BY <2>1, <3>2, WorkersInReach DEF StopSrunStep, Regular
    <3> QED
      BY <1>4, <3>1, <3>2 DEF StopWorkers
  <2>3. "workers" \notin Running'
    BY <2>2, RunningParts DEF Running, TypeOK, HeadServices
  <2> QED
    BY <2>1, <2>2, <2>3, StoppedView DEF Services
<1>5. CASE StopWorkersFail(m)
  <2>1. Running = {} /\ Current(m)
    BY <1>5, WorkersInReach DEF StopWorkersFail, View, Stopping
  <2>2. Filed' /\ Between'
    BY <1>5, <2>1 DEF StopWorkersFail, View, Current, Filed, Between, Covered, Running,
       HistorySetting, disk, procs
  <2> QED
    BY <1>5, <2>2, ReturnView DEF StopWorkersFail
<1>6. CASE RecordStop(m)
  <2>1. Running = {} /\ Current(m)
    BY <1>6 DEF RecordStop, View, Stopping
  <2>2. Filed' /\ Between'
    BY <1>6, <2>1 DEF RecordStop, View, Current, Filed, Between, Covered, Running,
       HistorySetting, procs
  <2> QED
    BY <1>6, <2>2, ReturnView DEF RecordStop
<1>7. CASE EndRollback(m)
  <2>1. Running = {} /\ Current(m)
    BY <1>7 DEF EndRollback, View, Starting
  <2>2. Filed' /\ Between'
    BY <1>7, <2>1 DEF EndRollback, View, Current, Filed, Between, Covered, Running,
       HistorySetting, disk, procs
  <2> QED
    BY <1>7, <2>2, ReturnView DEF EndRollback
<1> QED
  BY <1>1, <1>2, <1>3, <1>4, <1>5, <1>6, <1>7 DEF StopStep

\* A clean that is not refused finds nothing running.
LEMMA CleanFindsNothing ==
  ASSUME Regular, TypeOK, NEW m \in Managers, View(m), Clean(m)
  PROVE  Running = {}
<1>1. m \in Cli /\ pc[m] = "idle" /\ cached[m] \in {NoFile, {}}
  BY DEF Clean, Called, Regular, CleanRefuses
<1>2. status \in {NoFile, {}}
  BY <1>1 DEF View, Reading
<1>3. Covered
  BY <1>1 DEF View, Inside, Between
<1> QED
  BY <1>2, <1>3 DEF Covered

LEMMA CleanView ==
  ASSUME Regular, TypeOK, TypeOK', NEW m \in Managers, View(m), Clean(m) \/ Exit(m)
  PROVE  View(m)'
<1>1. CASE Clean(m)
  <2>1. up = {} /\ daemons = {} /\ step = {}
    BY <1>1, CleanFindsNothing, RunningParts
  <2>2. up' = {} /\ daemons' = {} /\ step' = {} /\ orphan' = {}
    BY <1>1, <2>1 DEF Clean, View, Filed
  <2>3. Filed' /\ Between'
    BY <1>1, <2>2 DEF Clean, Filed, Between, Covered, Running
  <2> QED
    BY <1>1, <2>3, ReturnView DEF Clean
<1>2. CASE Exit(m)
  <2>1. pc[m] \notin Inside /\ pc'[m] = "none" /\ UNCHANGED <<alloc, disk, procs>>
    BY <1>2 DEF TypeOK, Exit, Leave, Goto, Inside
  <2> QED
    BY <2>1 DEF View, Filed, Between, Covered, Running, HistorySetting, Reading, Configuring,
       Starting, Stopping, Inside, disk, procs
<1> QED
  BY <1>1, <1>2

-----------------------------------------------------------------------------
(***************************************************************************)
(* The invariant, and what follows from it.                                *)
(***************************************************************************)
LEMMA StepView ==
  ASSUME Regular, TypeOK, TypeOK', NEW m \in Managers, View(m), ManagerStep(m)
  PROVE  View(m)'
<1>1. ~Kill(m)
  BY DEF Kill, Regular
<1> QED
  BY <1>1, CreateView, ConfigureView, StartView, StopView, CleanView DEF ManagerStep

\* What a step of m does not touch: the others, and what they hold.
LEMMA OthersRest ==
  ASSUME TypeOK, NEW m \in Managers, ManagerStep(m), NEW o \in Managers \ {m}
  PROVE  pc'[o] = pc[o]
  BY StepKinds DEF SameAs

LEMMA ReachStep ==
  ASSUME Regular, TypeOK, TypeOK', ReachInv, NEW m \in Managers, ManagerStep(m)
  PROVE  ReachInv'
<1>1. CASE \A o \in Managers \ {m} : ~Busy(o)
  <2>1. \A o \in Managers \ {m} : ~Busy(o)' /\ pc'[o] \notin Inside
    BY <1>1, OthersRest DEF Busy
  <2>2. View(m)
    BY <1>1 DEF View, ReachInv, Busy
  <2>3. View(m)'
    BY <2>2, StepView
  <2>4. ASSUME NEW o \in Managers \ {m}
        PROVE  (Reading(o) /\ Configuring(o) /\ Starting(o) /\ Stopping(o))'
    BY <2>1 DEF Busy, Reading, Configuring, Starting, Stopping, Inside
  <2>5. OneAtWork'
    BY <2>1 DEF OneAtWork
  <2>6. ASSUME NEW o \in Managers
        PROVE  (Reading(o) /\ Configuring(o) /\ Starting(o) /\ Stopping(o))'
    BY <2>3, <2>4 DEF View
  <2> QED
    BY <2>3, <2>5, <2>6 DEF View, ReachInv
<1>2. CASE Exit(m)
  <2>1. /\ pc[m] \notin Inside /\ pc'[m] = "none" /\ UNCHANGED <<alloc, disk, procs>>
        /\ \A o \in Managers \ {m} : pc'[o] = pc[o] /\ cfg'[o] = cfg[o] /\ cached'[o] = cached[o]
                                     /\ todo'[o] = todo[o] /\ tracker'[o] = tracker[o]
                                     /\ targets'[o] = targets[o]
    BY <1>2 DEF TypeOK, Exit, Leave, Goto, Inside
  <2>2. Filed' /\ Running' = Running /\ (Between => Between') /\ (Covered => Covered')
    BY <2>1 DEF ReachInv, Filed, Between, Covered, Running, HistorySetting, disk, procs
  <2>3. OneAtWork'
    BY <2>1 DEF ReachInv, OneAtWork, Busy, Inside
  <2>4. ASSUME \A o \in Managers : pc'[o] \notin Inside
        PROVE  Between'
    BY <2>1, <2>2, <2>4 DEF ReachInv
  <2>5. ASSUME NEW o \in Managers \ {m}
        PROVE  (Reading(o) /\ Configuring(o) /\ Starting(o) /\ Stopping(o))'
    <3>1. Reading(o) /\ Configuring(o) /\ Starting(o) /\ Stopping(o)
      BY DEF ReachInv
    <3>2. Reading(o)' /\ Configuring(o)'
      BY <2>1, <2>2, <3>1 DEF Reading, Configuring, HistorySetting, disk
    <3>3. Starting(o)' /\ Stopping(o)'
      BY <2>1, <2>2, <3>1 DEF Starting, Stopping, Current, HistorySetting, disk
    <3> QED
      BY <3>2, <3>3
  <2>6. (Reading(m) /\ Configuring(m) /\ Starting(m) /\ Stopping(m))'
    BY <2>1 DEF Reading, Configuring, Starting, Stopping, Inside
  <2>7. ASSUME NEW o \in Managers
        PROVE  (Reading(o) /\ Configuring(o) /\ Starting(o) /\ Stopping(o))'
    BY <2>5, <2>6
  <2> QED
    BY <2>2, <2>3, <2>4, <2>7 DEF ReachInv
<1> QED
  BY <1>1, <1>2, StepsAlone DEF Regular, ReachInv

LEMMA ReachNext ==
  ASSUME Regular
  PROVE  TypeOK /\ ReachInv /\ [Next]_vars => ReachInv'
<1> SUFFICES ASSUME TypeOK, ReachInv, [Next]_vars
             PROVE  ReachInv'
  OBVIOUS
<1>1. TypeOK'
  BY NextType
<1>2. CASE Die
  <2>1. /\ UNCHANGED <<alloc, disk, orphan, pc, memory>>
        /\ up' \subseteq up /\ daemons' \subseteq daemons /\ step' \subseteq step
    BY <1>2 DEF Die
  <2>2. Running' \subseteq Running /\ Filed' /\ (Between => Between') /\ (Covered => Covered')
    BY <1>1, <2>1, FewerRun DEF ReachInv
  <2>3. ASSUME NEW o \in Managers
        PROVE  (Reading(o) /\ Configuring(o) /\ Starting(o) /\ Stopping(o))'
    <3>1. Reading(o) /\ Configuring(o) /\ Starting(o) /\ Stopping(o)
      BY DEF ReachInv
    <3>2. Reading(o)' /\ Configuring(o)'
      BY <2>1, <2>2, <3>1 DEF Reading, Configuring, HistorySetting, disk, memory
    <3>3. Starting(o)' /\ Stopping(o)'
      BY <2>1, <2>2, <3>1 DEF Starting, Stopping, Current, HistorySetting, disk, memory
    <3> QED
      BY <3>2, <3>3
  <2>4. OneAtWork'
    BY <2>1 DEF ReachInv, OneAtWork, Busy
  <2>5. ASSUME \A o \in Managers : pc'[o] \notin Inside
        PROVE  Between'
    BY <2>1, <2>2, <2>5 DEF ReachInv
  <2> QED
    BY <2>2, <2>3, <2>4, <2>5 DEF ReachInv
<1>3. CASE UNCHANGED vars
  BY <1>3 DEF vars, disk, procs, memory, ReachInv, OneAtWork, Busy, Filed, Between, Covered,
     Running, HistorySetting, Reading, Configuring, Starting, Stopping, Current
<1> QED
  BY <1>1, <1>2, <1>3, ReachStep DEF Next

LEMMA ReachInvariant ==
  ASSUME Regular
  PROVE  Spec => [](TypeOK /\ ReachInv)
  BY InitType, NextType, InitReach, ReachNext, PTL DEF Spec

\* Between operations, a stop begun now stops whatever runs: however many
\* commands and programs have taken turns, whichever of their launches failed,
\* and whichever servers died.
THEOREM NothingIsOutOfReach ==
  ASSUME Regular
  PROVE  Spec => []NothingOutOfReach
<1>1. TypeOK /\ ReachInv => NothingOutOfReach
  <2> SUFFICES ASSUME TypeOK, ReachInv, Quiescent
               PROVE  orphan = {} /\ StopReaches
    BY DEF NothingOutOfReach
  <2>1. Filed /\ Between
    BY DEF ReachInv, Quiescent, Resting, Inside
  <2>2. Running # {} => status # NoFile /\ Running \subseteq Assumed(saved)
    BY <2>1 DEF Between, Covered, Assumed
  <2> QED
    BY <2>1, <2>2, RunningParts DEF Filed, Between, StopReaches, CanStopWorkers, StopsSrun,
       DaemonsInReach, IsSingleNode
<1> QED
  BY <1>1, ReachInvariant, PTL

\* config.json and spark-defaults.conf are of one configure whenever a start
\* can begin, although configure writes them one after the other and may raise
\* in between.
THEOREM ConfigGoesWithConfDir ==
  ASSUME Regular
  PROVE  Spec => []ConfigMatchesConfDir
<1>1. TypeOK /\ ReachInv => ConfigMatchesConfDir
  BY DEF ReachInv, ConfigMatchesConfDir, Quiescent, Resting, Inside, Between
<1> QED
  BY <1>1, ReachInvariant, PTL

\* stop stops all that runs, from the processes of any earlier start.
THEOREM StopsLeaveNothing ==
  ASSUME Regular
  PROVE  Spec => StopLeavesNothing
<1>1. TypeOK /\ ReachInv /\ [Next]_vars
      => [\A m \in Managers : Ends(m, "stop") => Running = {} /\ orphan = {}]_vars
  BY DEF ReachInv, Filed, Stopping, Ends
<1> QED
  BY <1>1, ReachInvariant, PTL DEF Spec, StopLeavesNothing

\* No clean takes away what is needed to stop a running cluster.
THEOREM CleansWaitForStop ==
  ASSUME Regular
  PROVE  Spec => CleanWaitsForStop
<1>1. TypeOK /\ ReachInv /\ [Next]_vars
      => [saved # NoFile /\ saved' = NoFile => Running = {}]_vars
  <2> SUFFICES ASSUME TypeOK, ReachInv, Next, saved # NoFile, saved' = NoFile
               PROVE  Running = {}
    OBVIOUS
  <2>1. PICK m \in Managers : ManagerStep(m)
    BY DEF Next, Die, disk
  <2>2. Clean(m)
    <3>1. ASSUME UNCHANGED disk PROVE FALSE
      BY <3>1 DEF disk
    <3>2. ~ConfigureStep(m)
      BY <3>1, LifecycleAssumption DEF TypeOK, ConfigureStep, BeginConfigure, WriteSettings,
         SettingsFail, WriteWorkers, ConfigureFail, SaveConfig, SetWorkers
    <3>3. ~StartStep(m)
      <4>1. ~Launches(m)
        <5>1. ASSUME NEW s \in Services, Started(m, s) \/ Raised(m) PROVE FALSE
          BY <3>1, <5>1 DEF Started, Raised
        <5>2. Launches(m) => Raised(m) \/ \E s \in Services : Started(m, s)
          BY DEF Launches, StartServer, MetastoreSetupFail, StartLocalWorker,
             StartSshWorkers, StartSrunWorkers, Services
        <5> QED
          BY <5>1, <5>2 DEF Services
      <4>2. \A s \in Services : ~LaunchFail(m, s)
        BY <3>1 DEF LaunchFail, Raised
      <4>3. ~BeginStart(m) /\ ~StartWithoutWorkersFile(m) /\ ~SkipHistory(m) /\ ~RecordStart(m)
        BY <3>1 DEF BeginStart, StartWithoutWorkersFile, SkipHistory, RecordStart
      <4> QED
        BY <4>1, <4>2, <4>3 DEF StartStep, Launches
    <3>4. ~StopStep(m)
      <4>1. ~Stops(m)
        BY <3>1 DEF Stops, StopServer, StopWorkers, StopDaemons, StopSrunStep, Stopped
      <4> QED
        BY <3>1, <4>1 DEF StopStep, Stops, BeginStop, StopCannotInfer, StopWorkersFail,
           RecordStop, EndRollback
    <3>5. ~Create(m) /\ ~Load(m) /\ ~Exit(m) /\ ~Kill(m)
      BY <3>1 DEF Create, Load, Exit, Kill, Regular
    <3> QED
      BY <2>1, <3>2, <3>3, <3>4, <3>5 DEF ManagerStep
  <2>3. \A o \in Managers \ {m} : ~Busy(o)
    BY <2>2, <2>1, StepsAlone DEF Clean, Called, Regular, ReachInv
  <2>4. View(m)
    BY <2>3 DEF View, ReachInv, Busy
  <2> QED
    BY <2>2, <2>4, CleanFindsNothing
<1> QED
  BY <1>1, ReachInvariant, PTL DEF Spec, CleanWaitsForStop
-----------------------------------------------------------------------------
(***************************************************************************)
(* After a crash: whatever fails, dies or is killed, what stop infers from *)
(* the configuration covers what runs while there is no status.json.       *)
(***************************************************************************)

\* Commands take turns, a cluster that runs is not configured anew, no program
\* passes a list of workers, and starts use the current configuration. Every
\* fault may happen.
Serial ==
  ~Overlap /\ Calls \cap {"reconfigure", "stale_config", "set_workers"} = {}

\* How the files go with each other and with what runs, at any time.
Kept ==
  /\ saved # NoFile => confDir
  /\ workersFile \in {NoFile, alloc}
  /\ workersFile # NoFile => defaults # NoFile
  /\ daemons \subseteq alloc
  /\ saved # NoFile /\ Running # {} =>
       /\ workersFile = alloc
       /\ daemons # {} => IsSingleNode(alloc) \/ "srun" \notin saved
       /\ step # {} => ~IsSingleNode(alloc) /\ "srun" \in saved
       /\ status = NoFile => Running \subseteq Assumed(saved)

\* A configure has nothing running under it.
Preparing(m) ==
  /\ pc[m] \in {"settings", "workers", "save"} => confDir /\ Running = {}
  /\ pc[m] = "settings" => workersFile = NoFile
  /\ pc[m] = "workers" => defaults # NoFile

\* A start launches what stop would infer from the same configuration.
Launching(m) ==
  pc[m] = "start" =>
    /\ saved = cfg[m] /\ workersFile = alloc /\ targets[m] = alloc
    /\ todo[m] \subseteq (cfg[m] \cap HeadServices) \cup {"master", "history", "workers"}

CutInv == OneAtWork /\ Kept /\ \A m \in Managers : Preparing(m) /\ Launching(m)

LEMMA InitCut == Init => CutInv
  BY LifecycleAssumption
  DEF Init, CutInv, OneAtWork, Busy, Inside, Kept, Running, Preparing, Launching

\* No start and no configure is under way at m.
Apart(m) == pc[m] \notin {"settings", "workers", "save", "start"}

\* Where nothing is written and nothing launched the files go on to serve.
LEMMA KeptByFewer ==
  ASSUME TypeOK, TypeOK', Kept, UNCHANGED <<alloc, confDir, defaults, workersFile, saved>>,
         up' \subseteq up, daemons' \subseteq daemons, step' \subseteq step,
         status' = NoFile => status = NoFile
  PROVE  Kept' /\ Running' \subseteq Running
<1>1. Running' \subseteq Running
  BY DEF Running
<1>2. (Running' # {} => Running # {}) /\ (daemons' # {} => daemons # {})
      /\ (step' # {} => step # {})
  BY <1>1
<1>3. status' = NoFile => Assumed(saved)' = Assumed(saved)
  BY DEF Assumed
<1> QED
  BY <1>1, <1>2, <1>3 DEF Kept, IsSingleNode

\* Nothing that runs, nothing to say about it.
LEMMA KeptByNone ==
  ASSUME TypeOK', Running' = {}, saved' # NoFile => confDir',
         workersFile' \in {NoFile, alloc'}, workersFile' # NoFile => defaults' # NoFile
  PROVE  Kept'
<1>1. daemons' = {}
  BY DEF Running
<1> QED
  BY <1>1 DEF Kept

LEMMA ConfigureKeeps ==
  ASSUME Serial, TypeOK, TypeOK', NEW m \in Managers, Kept, Preparing(m), ConfigureStep(m)
  PROVE  Kept' /\ Preparing(m)' /\ Launching(m)'
<1> USE DEF procs, memory
<1>1. Running = {} /\ Running' = {}
  <2>1. Running = {}
    BY DEF ConfigureStep, BeginConfigure, MayReconfigure, SetWorkers, WriteSettings, SettingsFail,
       WriteWorkers, ConfigureFail, SaveConfig, Preparing, Serial
  <2>2. UNCHANGED <<up, daemons, step>>
    BY DEF ConfigureStep, BeginConfigure, SetWorkers, WriteSettings, SettingsFail,
       WriteWorkers, ConfigureFail, SaveConfig
  <2> QED
    BY <2>1, <2>2 DEF Running
<1>2. alloc # NoFile
  BY LifecycleAssumption DEF TypeOK
<1>3. ~SetWorkers(m)
  BY DEF SetWorkers, Called, Serial
<1>4. ASSUME Return(m) PROVE Preparing(m)' /\ Launching(m)'
  BY <1>4 DEF TypeOK, Return, Leave, Goto, Preparing, Launching
<1>5. CASE BeginConfigure(m)
  <2>1. pc'[m] = "settings" /\ confDir' /\ workersFile' = NoFile
    BY <1>5 DEF TypeOK, BeginConfigure, Goto
  <2> QED
    BY <1>1, <2>1, KeptByNone DEF Preparing, Launching
<1>6. CASE WriteSettings(m)
  <2>1. pc'[m] = "workers" /\ confDir' /\ defaults' # NoFile
    BY <1>6, LifecycleAssumption DEF TypeOK, WriteSettings, Goto, HistorySetting
  <2> QED
    BY <1>1, <1>6, <2>1, KeptByNone DEF WriteSettings, Kept, Preparing, Launching
<1>7. CASE SettingsFail(m)
  <2>1. workersFile' = NoFile
    BY <1>7 DEF SettingsFail, Preparing
  <2> QED
    BY <1>1, <1>4, <1>7, <2>1, KeptByNone DEF SettingsFail, Kept
<1>8. CASE WriteWorkers(m)
  <2>1. pc[m] = "workers" /\ pc'[m] = "save" /\ confDir' /\ workersFile' = alloc'
        /\ defaults' # NoFile
    BY <1>8 DEF TypeOK, WriteWorkers, Goto, Preparing
  <2> QED
    BY <1>1, <2>1, KeptByNone DEF Preparing, Launching
<1>9. CASE ConfigureFail(m)
  BY <1>9 DEF ConfigureFail, Preparing
<1>10. CASE SaveConfig(m)
  <2>1. pc[m] = "save" /\ pc'[m] \in {"saved", "idle"} /\ confDir'
    BY <1>10 DEF TypeOK, SaveConfig, Goto, Preparing
  <2> QED
    BY <1>1, <1>10, <2>1, KeptByNone DEF SaveConfig, Kept, Preparing, Launching
<1> QED
  BY <1>3, <1>5, <1>6, <1>7, <1>8, <1>9, <1>10 DEF ConfigureStep

\* A launch by m adds to what runs only what stop would infer.
LEMMA LaunchKeeps ==
  ASSUME TypeOK, TypeOK', NEW m \in Managers, Kept, pc[m] = "start", Launching(m),
         UNCHANGED <<alloc, disk>>,
         Running' \subseteq Running \cup Assumed(cfg[m]) \/ status # NoFile,
         daemons' \subseteq daemons \cup alloc,
         daemons' # daemons => IsSingleNode(alloc) \/ "srun" \notin cfg[m],
         step' # step => ~IsSingleNode(alloc) /\ "srun" \in cfg[m]
  PROVE  Kept'
<1>1. saved = cfg[m] /\ workersFile = alloc /\ saved # NoFile
  BY LifecycleAssumption DEF TypeOK, Launching
<1>2. daemons' # {} => daemons # {} \/ daemons' # daemons
  OBVIOUS
<1>3. step' # {} => step # {} \/ step' # step
  OBVIOUS
<1>4. daemons # {} \/ step # {} => Running # {}
  BY DEF Running
<1>5. Assumed(saved)' = Assumed(saved)
  BY DEF Assumed, disk
<1>6. status = NoFile => Running' \subseteq Assumed(saved)
  <2>1. Running # {} /\ status = NoFile => Running \subseteq Assumed(saved)
    BY <1>1 DEF Kept
  <2> QED
    BY <1>1, <2>1
<1> QED
  BY <1>1, <1>2, <1>3, <1>4, <1>5, <1>6 DEF Kept, disk, IsSingleNode

\* What a start has left to launch, when it goes on.
LEMMA StartKeeps ==
  ASSUME Serial, TypeOK, TypeOK', NEW m \in Managers, Kept, Launching(m), StartStep(m)
  PROVE  Kept' /\ Preparing(m)' /\ Launching(m)'
<1>1. ASSUME Return(m) PROVE Preparing(m)' /\ Launching(m)'
  BY <1>1 DEF TypeOK, Return, Leave, Goto, Preparing, Launching
<1>2. ASSUME NEW s \in Services, Started(m, s), pc[m] = "start"
      PROVE  Preparing(m)' /\ Launching(m)' /\ UNCHANGED <<alloc, disk>>
  <2>1. pc'[m] = "start" /\ cfg' = cfg /\ targets' = targets /\ UNCHANGED <<alloc, disk>>
        /\ todo'[m] = todo[m] \ {s}
    BY <1>2 DEF TypeOK, Started
  <2> QED
    BY <1>2, <2>1 DEF disk, Preparing, Launching
<1>3. ASSUME Raised(m)
      PROVE  Preparing(m)' /\ Launching(m)' /\ UNCHANGED <<alloc, disk>>
  BY <1>3 DEF TypeOK, Raised, Goto, Preparing, Launching
<1>4. ASSUME UNCHANGED <<alloc, disk, procs>> PROVE Kept'
  BY <1>4, KeptByFewer DEF disk, procs
<1>5. ASSUME NEW s \in HeadServices, pc[m] = "start", Turn(m, StartRank, s),
             s = "history" => defaults = "on", up' = up \cup {s},
             UNCHANGED <<daemons, step>>, UNCHANGED <<alloc, disk>>
      PROVE  Kept'
  <2>1. s \in cfg[m] \cup {"master", "history"}
    BY <1>5 DEF Turn, Launching, HeadServices
  <2>2. status # NoFile \/ s \in Assumed(cfg[m])
    BY <1>5, <2>1 DEF Assumed
  <2>3. Running' \subseteq Running \cup {s}
    BY <1>5 DEF Running
  <2> QED
    BY <1>5, <2>2, <2>3, LaunchKeeps DEF Kept
<1>6. ASSUME pc[m] = "start", UNCHANGED <<alloc, disk>>, up' = up,
             \/ IsSingleNode(targets[m]) /\ UNCHANGED step /\ daemons' \subseteq daemons \cup {Host}
             \/ /\ ~IsSingleNode(targets[m]) /\ "srun" \notin cfg[m]
                /\ UNCHANGED step /\ daemons' \subseteq daemons \cup targets[m]
             \/ ~IsSingleNode(targets[m]) /\ "srun" \in cfg[m] /\ UNCHANGED daemons
      PROVE  Kept'
  <2>1. targets[m] = alloc
    BY <1>6 DEF Launching
  <2>2. Running' \subseteq Running \cup {"workers"}
    BY <1>6 DEF Running
  <2>3. status # NoFile \/ "workers" \in Assumed(cfg[m])
    BY DEF Assumed
  <2>4. daemons' \subseteq daemons \cup alloc
    BY <1>6, <2>1 DEF IsSingleNode
  <2> QED
    BY <1>6, <2>1, <2>2, <2>3, <2>4, LaunchKeeps
<1>7. CASE BeginStart(m)
  <2>1. /\ saved = cfg[m] /\ workersFile # NoFile /\ targets'[m] = workersFile
        /\ todo'[m] = (cfg[m] \cap HeadServices) \cup {"master", "history", "workers"}
        /\ pc'[m] = "start" /\ UNCHANGED <<alloc, disk, procs, cfg>>
    BY <1>7 DEF TypeOK, BeginStart, Goto, UsesCurrent, Serial
  <2>2. workersFile = alloc
    BY <2>1 DEF Kept
  <2> QED
    BY <1>4, <2>1, <2>2 DEF disk, Preparing, Launching
<1>8. CASE StartWithoutWorkersFile(m)
  BY <1>1, <1>4, <1>8 DEF StartWithoutWorkersFile
<1>9. ASSUME NEW s \in Services, StartServer(m, s)
      PROVE  Kept' /\ Preparing(m)' /\ Launching(m)'
  BY <1>2, <1>5, <1>9 DEF StartServer
<1>10. ASSUME NEW s \in Services, LaunchFail(m, s)
       PROVE  Kept' /\ Preparing(m)' /\ Launching(m)'
  BY <1>3, <1>4, <1>10 DEF LaunchFail
<1>11. CASE SkipHistory(m)
  <2>1. /\ pc[m] = "start" /\ pc'[m] = "start" /\ todo'[m] \subseteq todo[m]
        /\ UNCHANGED <<alloc, disk, procs, cfg, targets>>
    BY <1>11 DEF TypeOK, SkipHistory
  <2> QED
    BY <1>4, <2>1 DEF disk, Preparing, Launching
<1>12. CASE MetastoreSetupFail(m)
  <2>1. "postgres" \in HeadServices
    BY DEF HeadServices
  <2> QED
    BY <1>3, <1>5, <1>12, <2>1 DEF MetastoreSetupFail
<1>13. CASE StartLocalWorker(m)
  <2>1. CASE Host \in daemons
    BY <1>3, <1>4, <1>13, <2>1 DEF StartLocalWorker
  <2>2. CASE Host \notin daemons
    <3>1. /\ pc[m] = "start" /\ IsSingleNode(targets[m]) /\ Started(m, "workers")
          /\ daemons' = daemons \cup {Host} /\ UNCHANGED <<up, step>>
      BY <1>13, <2>2 DEF StartLocalWorker
    <3>2. Preparing(m)' /\ Launching(m)' /\ UNCHANGED <<alloc, disk>>
      BY <1>2, <3>1 DEF Services
    <3> QED
      BY <1>6, <3>1, <3>2
  <2> QED
    BY <2>1, <2>2
<1>14. CASE StartSshWorkers(m)
  <2>1. /\ pc[m] = "start" /\ ~IsSingleNode(targets[m]) /\ "srun" \notin cfg[m]
        /\ daemons' \subseteq daemons \cup targets[m] /\ UNCHANGED <<up, step>>
        /\ Started(m, "workers") \/ Raised(m)
    BY <1>14 DEF StartSshWorkers
  <2>2. Preparing(m)' /\ Launching(m)' /\ UNCHANGED <<alloc, disk>>
    BY <1>2, <1>3, <2>1 DEF Services
  <2> QED
    BY <1>6, <2>1, <2>2
<1>15. CASE StartSrunWorkers(m)
  <2>1. /\ pc[m] = "start" /\ ~IsSingleNode(targets[m]) /\ "srun" \in cfg[m]
        /\ UNCHANGED <<up, daemons>> /\ Started(m, "workers")
    BY <1>15 DEF StartSrunWorkers
  <2>2. Preparing(m)' /\ Launching(m)' /\ UNCHANGED <<alloc, disk>>
    BY <1>2, <2>1 DEF Services
  <2> QED
    BY <1>6, <2>1, <2>2
<1>16. CASE RecordStart(m)
  <2>1. status' # NoFile
    BY <1>16, LifecycleAssumption DEF TypeOK, RecordStart
  <2> QED
    BY <1>1, <1>16, <2>1, KeptByFewer DEF RecordStart, procs
<1> QED
  BY <1>7, <1>8, <1>9, <1>10, <1>11, <1>12, <1>13, <1>14, <1>15, <1>16 DEF StartStep

\* stop and the rollback write no file but status.json, and launch nothing.
LEMMA StopKeeps ==
  ASSUME TypeOK, TypeOK', NEW m \in Managers, Kept, StopStep(m)
  PROVE  Kept' /\ Apart(m)'
<1>1. ASSUME Return(m) PROVE Apart(m)'
  BY <1>1 DEF TypeOK, Return, Leave, Goto, Apart
<1>2. ASSUME UNCHANGED <<alloc, disk, procs>> PROVE Kept'
  BY <1>2, KeptByFewer DEF disk, procs
<1>3. CASE BeginStop(m)
  BY <1>2, <1>3 DEF TypeOK, BeginStop, Goto, Apart
<1>4. CASE StopCannotInfer(m) \/ StopWorkersFail(m) \/ EndRollback(m)
  BY <1>1, <1>2, <1>4 DEF StopCannotInfer, StopWorkersFail, EndRollback
<1>5. CASE Stops(m)
  <2>1. /\ pc[m] \in {"rollback", "stop"} /\ pc' = pc /\ UNCHANGED <<alloc, disk>>
        /\ up' \subseteq up /\ daemons' \subseteq daemons /\ step' \subseteq step
    BY <1>5 DEF Stops, StopServer, StopWorkers, StopDaemons, StopSrunStep, Stopped
  <2> QED
    BY <2>1, KeptByFewer DEF disk, Apart
<1>6. CASE RecordStop(m)
  <2>1. status' # NoFile
    BY <1>6, LifecycleAssumption DEF RecordStop, Services, HeadServices
  <2> QED
    BY <1>1, <1>6, <2>1, KeptByFewer DEF RecordStop, procs
<1> QED
  BY <1>3, <1>4, <1>5, <1>6 DEF StopStep, Stops

\* clean takes all the files; a configure that follows finds nothing running.
LEMMA CleanKeeps ==
  ASSUME TypeOK, TypeOK', NEW m \in Managers, Kept, Clean(m)
  PROVE  Kept' /\ Apart(m)'
<1>1. saved' = NoFile /\ workersFile' = NoFile /\ UNCHANGED <<alloc, daemons>>
  BY DEF Clean
<1> QED
  BY <1>1 DEF TypeOK, Clean, Return, Leave, Goto, Apart, Kept

\* An operation that is cut short launches no more than it would have.
LEMMA KillKeeps ==
  ASSUME TypeOK, TypeOK', NEW m \in Managers, Kept, Launching(m), Kill(m)
  PROVE  Kept' /\ Apart(m)'
<1>1. CutShort(m, "none")
  BY DEF Kill
<1>2. Apart(m)'
  BY <1>1 DEF TypeOK, CutShort, CutBetween, CutBeforePidFile, CutDuringSsh, Leave, Goto, Apart
<1>3. CASE CutBetween(m, "none") \/ CutBeforePidFile(m, "none")
  BY <1>2, <1>3, KeptByFewer DEF CutBetween, CutBeforePidFile, disk, procs
<1>4. CASE CutDuringSsh(m, "none")
  <2>1. /\ pc[m] = "start" /\ ~IsSingleNode(targets[m]) /\ "srun" \notin cfg[m]
        /\ daemons' \subseteq daemons \cup targets[m] /\ UNCHANGED <<alloc, disk, up, step>>
    BY <1>4 DEF CutDuringSsh
  <2>2. targets[m] = alloc
    BY <2>1 DEF Launching
  <2>3. Running' \subseteq Running \cup {"workers"}
    BY <2>1 DEF Running
  <2>4. status # NoFile \/ "workers" \in Assumed(cfg[m])
    BY DEF Assumed
  <2> QED
    BY <1>2, <2>1, <2>2, <2>3, <2>4, LaunchKeeps
<1> QED
  BY <1>1, <1>3, <1>4 DEF CutShort

\* Creating a manager, loading it and its end concern no file and no process.
LEMMA UnusedKeeps ==
  ASSUME TypeOK, TypeOK', NEW m \in Managers, Kept, Create(m) \/ Load(m) \/ Exit(m)
  PROVE  Kept' /\ Apart(m)' /\ UNCHANGED <<disk, procs>>
<1>1. UNCHANGED <<alloc, disk, procs>>
  BY DEF Create, Load, Exit
<1>2. pc'[m] \in {"built", "idle", "none"}
  BY DEF TypeOK, Create, Load, Exit, Leave, Goto
<1> QED
  BY <1>1, <1>2, KeptByFewer DEF Apart, disk, procs

LEMMA CutStep ==
  ASSUME Serial, TypeOK, TypeOK', CutInv, NEW m \in Managers, ManagerStep(m)
  PROVE  CutInv'
<1>1. Kept' /\ Preparing(m)' /\ Launching(m)'
  <2>1. Kept /\ Preparing(m) /\ Launching(m)
    BY DEF CutInv
  <2>2. Apart(m)' => Preparing(m)' /\ Launching(m)'
    BY DEF Apart, Preparing, Launching
  <2> QED
    BY <2>1, <2>2, ConfigureKeeps, StartKeeps, StopKeeps, CleanKeeps, KillKeeps, UnusedKeeps
    DEF ManagerStep
<1>2. \A o \in Managers \ {m} : pc'[o] = pc[o]
  BY OthersRest
<1>3. CASE \A o \in Managers \ {m} : ~Busy(o)
  <2>1. \A o \in Managers \ {m} : ~Busy(o)' /\ pc'[o] \notin Inside
    BY <1>2, <1>3 DEF Busy
  <2>2. \A o \in Managers \ {m} : Preparing(o)' /\ Launching(o)'
    BY <2>1 DEF Preparing, Launching, Inside
  <2>3. OneAtWork'
    BY <2>1 DEF OneAtWork
  <2> QED
    BY <1>1, <2>2, <2>3 DEF CutInv
<1>4. CASE Exit(m)
  <2>1. UNCHANGED <<alloc, disk, procs>> /\ pc'[m] = "none"
        /\ \A o \in Managers \ {m} : cfg'[o] = cfg[o] /\ todo'[o] = todo[o]
                                     /\ targets'[o] = targets[o]
    BY <1>4 DEF TypeOK, Exit, Leave, Goto
  <2>2. Running' = Running
    BY <2>1 DEF Running, procs
  <2>3. \A o \in Managers \ {m} : Preparing(o)' /\ Launching(o)'
    BY <1>2, <2>1, <2>2 DEF CutInv, Preparing, Launching, disk
  <2>4. OneAtWork'
    BY <1>2, <2>1 DEF CutInv, OneAtWork, Busy, Inside
  <2> QED
    BY <1>1, <2>3, <2>4 DEF CutInv
<1> QED
  BY <1>3, <1>4, StepsAlone DEF Serial, CutInv

LEMMA CutNext ==
  ASSUME Serial
  PROVE  TypeOK /\ CutInv /\ [Next]_vars => CutInv'
<1> SUFFICES ASSUME TypeOK, CutInv, [Next]_vars
             PROVE  CutInv'
  OBVIOUS
<1>1. TypeOK'
  BY NextType
<1>2. CASE Die
  <2>1. /\ UNCHANGED <<alloc, disk, pc, memory>>
        /\ up' \subseteq up /\ daemons' \subseteq daemons /\ step' \subseteq step
    BY <1>2 DEF Die
  <2>2. Kept' /\ Running' \subseteq Running
    BY <1>1, <2>1, KeptByFewer DEF CutInv, disk
  <2>3. \A o \in Managers : Preparing(o)' /\ Launching(o)'
    BY <2>1, <2>2 DEF CutInv, Preparing, Launching, disk, memory
  <2>4. OneAtWork'
    BY <2>1 DEF CutInv, OneAtWork, Busy
  <2> QED
    BY <2>2, <2>3, <2>4 DEF CutInv
<1>3. CASE UNCHANGED vars
  BY <1>3 DEF vars, disk, procs, memory, CutInv, OneAtWork, Busy, Kept, Running, Assumed,
     Preparing, Launching
<1> QED
  BY <1>1, <1>2, <1>3, CutStep DEF Next

\* While there is no status.json, stop finds all that runs, whatever was killed
\* and whatever failed before: any number of commands and programs, one after the
\* other, with every fault.
THEOREM InferenceSuffices ==
  ASSUME Serial
  PROVE  Spec => []InferenceCovers
<1>1. TypeOK /\ CutInv => InferenceCovers
  <2> SUFFICES ASSUME TypeOK, Kept, status = NoFile, saved # NoFile
               PROVE  StopReaches
    BY DEF CutInv, InferenceCovers
  <2>1. alloc # NoFile
    BY LifecycleAssumption DEF TypeOK
  <2>2. daemons # {} \/ step # {} => Running # {}
    BY DEF Running
  <2> QED
    BY <2>1, <2>2 DEF Kept, StopReaches, CanStopWorkers, StopsSrun, DaemonsInReach, IsSingleNode
<1> QED
  BY <1>1, InitType, NextType, InitCut, CutNext, PTL DEF Spec

-----------------------------------------------------------------------------
(***************************************************************************)
(* The rollback and the workers: a start that raises leaves a worker only  *)
(* when an ssh failed for a reason of its own.                             *)
(***************************************************************************)

\* Commands take turns, nobody starts over a running cluster, and no ssh fails
\* on a node where the worker could be launched.
LaunchedAsOne == ~Overlap /\ "restart" \notin Calls /\ "ssh" \notin Faults

\* Until its last launch a start has launched no worker, nor has anybody else.
NoWorkerYet(m) ==
  /\ pc[m] = "start" /\ "workers" \notin tracker[m] => daemons = {} /\ "workers" \notin mine[m]
  /\ pc[m] = "rollback" => "workers" \notin mine[m]

WholeLaunches == OneAtWork /\ \A m \in Managers : NoWorkerYet(m)

LEMMA InitWhole == Init => WholeLaunches
  BY DEF Init, WholeLaunches, OneAtWork, Busy, Inside, NoWorkerYet

LEMMA OneAtWorkStep ==
  ASSUME ~Overlap, TypeOK, OneAtWork, NEW m \in Managers, ManagerStep(m)
  PROVE  OneAtWork'
<1>1. \A o \in Managers \ {m} : Busy(o)' = Busy(o)
  BY OthersRest DEF Busy
<1>2. Exit(m) => ~Busy(m)'
  BY DEF Exit, Leave, Goto, Busy, Inside, TypeOK
<1> QED
  BY <1>1, <1>2, StepsAlone DEF OneAtWork

\* m's own start: the workers come last, and to nodes that have none.
LEMMA OwnWhole ==
  ASSUME LaunchedAsOne, CleanFailures, TypeOK, WorkersLast, NEW m \in Managers, NoWorkerYet(m),
         ManagerStep(m)
  PROVE  NoWorkerYet(m)'
<1> USE DEF TypeOK
<1>1. CASE Away(m) \/ BeginStop(m)
  BY <1>1 DEF Away, BeginStop, Goto, NoWorkerYet
<1>2. CASE BeginStart(m)
  BY <1>2 DEF BeginStart, MayStart, LaunchedAsOne, Running, Goto, procs, NoWorkerYet
<1>3. CASE SkipHistory(m)
  BY <1>3 DEF SkipHistory, procs, NoWorkerYet
<1>4. ASSUME NEW s \in Services, Turn(m, StartRank, s), pc[m] = "start"
      PROVE  "workers" \notin tracker[m] /\ daemons = {} /\ "workers" \notin mine[m]
  BY <1>4 DEF Turn, WorkersLast, NoWorkerYet
<1>5. ASSUME NEW s \in Services, StartServer(m, s) PROVE NoWorkerYet(m)'
  <2>1. "workers" \notin mine[m] /\ daemons' = {} /\ s # "workers" /\ pc'[m] = "start"
    BY <1>4, <1>5 DEF StartServer, Started, HeadServices
  <2> QED
    BY <1>5, <2>1 DEF StartServer, Credit, NoWorkerYet
<1>6. ASSUME NEW s \in Services, LaunchFail(m, s) PROVE NoWorkerYet(m)'
  BY <1>4, <1>6 DEF LaunchFail, Raised, Goto, NoWorkerYet
<1>7. CASE StartLocalWorker(m) \/ StartSshWorkers(m) \/ StartSrunWorkers(m)
  <2>1. daemons = {} /\ pc[m] = "start"
    BY <1>4, <1>7 DEF StartLocalWorker, StartSshWorkers, StartSrunWorkers, Services
  <2>2. Started(m, "workers")
    BY <1>7, <2>1 DEF StartLocalWorker, StartSshWorkers, StartSrunWorkers, LaunchedAsOne
  <2> QED
    BY <2>1, <2>2 DEF Started, NoWorkerYet
<1>8. ~MetastoreSetupFail(m)
  BY DEF MetastoreSetupFail, CleanFailures
<1>9. ASSUME NEW s \in Services, StopServer(m, s) PROVE NoWorkerYet(m)'
  BY <1>9 DEF StopServer, Stopped, Credit, NoWorkerYet
<1>10. CASE StopWorkers(m)
  BY <1>10 DEF StopWorkers, StopDaemons, StopSrunStep, Stopped, NoWorkerYet
<1> QED
  BY <1>1, <1>2, <1>3, <1>5, <1>6, <1>7, <1>8, <1>9, <1>10, StepKinds DEF Launches, Stops

LEMMA WholeNext ==
  ASSUME LaunchedAsOne, CleanFailures
  PROVE  TypeOK /\ WorkersLast /\ WholeLaunches /\ [Next]_vars => WholeLaunches'
<1> SUFFICES ASSUME TypeOK, WorkersLast, WholeLaunches, [Next]_vars
             PROVE  WholeLaunches'
  OBVIOUS
<1>1. CASE Die
  BY <1>1 DEF Die, memory, TypeOK, WholeLaunches, OneAtWork, Busy, NoWorkerYet
<1>2. CASE UNCHANGED vars
  BY <1>2 DEF vars, procs, memory, WholeLaunches, OneAtWork, Busy, NoWorkerYet
<1>3. ASSUME NEW m \in Managers, ManagerStep(m) PROVE WholeLaunches'
  <2>1. OneAtWork'
    BY <1>3, OneAtWorkStep DEF WholeLaunches, LaunchedAsOne
  <2>2. NoWorkerYet(m)'
    BY <1>3, OwnWhole DEF WholeLaunches
  <2>3. ASSUME NEW o \in Managers \ {m} PROVE NoWorkerYet(o)'
    <3>1. SameAs(o) /\ mine'[o] \subseteq mine[o]
      BY <1>3, StepKinds, OthersCredit
    <3>2. Busy(o) => daemons' = daemons
      BY <1>3, StepsAlone DEF WholeLaunches, LaunchedAsOne, Exit, procs
    <3> QED
      BY <3>1, <3>2 DEF WholeLaunches, NoWorkerYet, SameAs, Busy, Inside
  <2> QED
    BY <2>1, <2>2, <2>3 DEF WholeLaunches
<1> QED
  BY <1>1, <1>2, <1>3 DEF Next

\* Unless an ssh fails on some nodes or the setup of the metastore does, a start
\* that raises leaves no process that it launched, workers included, whatever
\* dies meanwhile and whoever was killed before.
THEOREM RollbackTakesAllDown ==
  ASSUME LaunchedAsOne, CleanFailures
  PROVE  Spec => RollbackStopsAll
<1>1. TypeOK /\ LaunchedIsFlagged /\ WholeLaunches /\ [Next]_vars
      => [\A m \in Managers : Ends(m, "rollback") => mine[m] = {}]_vars
  BY DEF TypeOK, LaunchedIsFlagged, WholeLaunches, NoWorkerYet, Ends, Services
<1>2. WorkersLast /\ TypeOK /\ [Next]_vars => WorkersLast'
  BY WorkersLastNext
<1> QED
  BY <1>1, <1>2, TypeCorrect, LaunchedIsFlaggedInit, LaunchedIsFlaggedNext, WorkersLastInit,
     InitWhole, WholeNext, PTL
  DEF Spec, RollbackStopsAll

-----------------------------------------------------------------------------
(***************************************************************************)
(* The lifecycle keeps its contract: the step simulation.                  *)
(***************************************************************************)
\* Every job has a worker node, and no list for set_workers is empty.
SomeWorkers ==
  \A a \in Allocations : a # {} /\ {} \notin WorkerLists[a]

\* Only a start under way has flags.
FlagsOfStarts == \A m \in Managers : pc[m] \notin {"start", "rollback"} => tracker[m] = {}

\* There is a node to launch a worker on.
SomeTargets == workersFile # {}

-----------------------------------------------------------------------------
(***************************************************************************)
(* The two facts that the lifecycle needs for itself.                      *)
(***************************************************************************)
LEMMA InitFlags == Init => FlagsOfStarts /\ SomeTargets
  BY LifecycleAssumption DEF Init, FlagsOfStarts, SomeTargets

\* Whoever leaves a start forgets its flags; no other step sets one.
LEMMA StepFlags ==
  ASSUME TypeOK, FlagsOfStarts, NEW m \in Managers, ManagerStep(m)
  PROVE  FlagsOfStarts'
<1>1. \A o \in Managers \ {m} : SameAs(o)
  BY StepKinds
<1>2. SUFFICES pc'[m] \notin {"start", "rollback"} => tracker'[m] = {}
  BY <1>1 DEF FlagsOfStarts, SameAs
<1> USE DEF TypeOK, FlagsOfStarts, memory
<1>3. ASSUME Return(m) \/ Leave(m, "none") PROVE tracker'[m] = {}
  BY <1>3 DEF Return, Leave
<1>4. CASE Create(m) \/ Load(m) \/ Exit(m) \/ Clean(m)
  BY <1>3, <1>4 DEF Create, Load, Exit, Clean
<1>5. CASE ConfigureStep(m)
  BY <1>3, <1>5 DEF ConfigureStep, BeginConfigure, WriteSettings, SettingsFail, WriteWorkers,
     ConfigureFail, SaveConfig, SetWorkers
<1>6. CASE StartStep(m)
  <2>1. CASE Launches(m)
    <3>1. pc[m] = "start" /\ (Raised(m) \/ \E s \in Services : Started(m, s))
      BY <2>1 DEF Launches, StartServer, MetastoreSetupFail, StartLocalWorker,
         StartSshWorkers, StartSrunWorkers, Services
    <3> QED
      BY <3>1 DEF Raised, Started, Goto
  <2>2. ASSUME NEW s \in Services, LaunchFail(m, s)
        PROVE  pc'[m] = "rollback"
    BY <2>2 DEF LaunchFail, Raised, Goto
  <2>3. CASE StartWithoutWorkersFile(m) \/ RecordStart(m)
    BY <1>3, <2>3 DEF StartWithoutWorkersFile, RecordStart
  <2>4. CASE BeginStart(m) \/ SkipHistory(m)
    BY <2>4 DEF BeginStart, SkipHistory, Goto
  <2> QED
    BY <1>6, <2>1, <2>2, <2>3, <2>4 DEF StartStep, Launches
<1>7. CASE StopStep(m)
  <2>1. CASE Stops(m)
    BY <2>1 DEF Stops, StopServer, StopWorkers, StopDaemons, StopSrunStep, Stopped
  <2>2. CASE BeginStop(m)
    BY <2>2 DEF BeginStop
  <2>3. CASE StopCannotInfer(m) \/ StopWorkersFail(m) \/ RecordStop(m) \/ EndRollback(m)
    BY <1>3, <2>3 DEF StopCannotInfer, StopWorkersFail, RecordStop, EndRollback
  <2> QED
    BY <1>7, <2>1, <2>2, <2>3 DEF StopStep, Stops
<1>8. CASE Kill(m)
  BY <1>3, <1>8 DEF Kill, CutShort, CutBetween, CutBeforePidFile, CutDuringSsh
<1> QED
  BY <1>4, <1>5, <1>6, <1>7, <1>8 DEF ManagerStep

LEMMA NextFlags == TypeOK /\ FlagsOfStarts /\ [Next]_vars => FlagsOfStarts'
<1> SUFFICES ASSUME TypeOK, FlagsOfStarts, [Next]_vars
             PROVE  FlagsOfStarts'
  OBVIOUS
<1>1. CASE Die \/ UNCHANGED vars
  BY <1>1 DEF Die, vars, memory, FlagsOfStarts
<1> QED
  BY <1>1, StepFlags DEF Next

\* What a launch or a stop command leaves alone.
LEMMA LaunchesKeepFiles ==
  ASSUME NEW m \in Managers,
         \/ Launches(m) \/ Stops(m) \/ \E s \in Services : LaunchFail(m, s)
  PROVE  UNCHANGED <<alloc, disk>>
<1>1. CASE Launches(m)
  <2>1. Raised(m) \/ \E s \in Services : Started(m, s)
    BY <1>1 DEF Launches, StartServer, MetastoreSetupFail, StartLocalWorker,
       StartSshWorkers, StartSrunWorkers, Services
  <2> QED
    BY <2>1 DEF Raised, Started
<1>2. CASE Stops(m)
  BY <1>2 DEF Stops, StopServer, StopWorkers, StopDaemons, StopSrunStep, Stopped
<1>3. CASE \E s \in Services : LaunchFail(m, s)
  BY <1>3 DEF LaunchFail, Raised
<1> QED
  BY <1>1, <1>2, <1>3

LEMMA NextTargets ==
  ASSUME SomeWorkers
  PROVE  TypeOK /\ SomeTargets /\ [Next]_vars => SomeTargets'
<1> SUFFICES ASSUME TypeOK, SomeTargets, [Next]_vars
             PROVE  SomeTargets'
  OBVIOUS
<1> USE LifecycleAssumption DEF SomeTargets, disk
<1>1. CASE Die \/ UNCHANGED vars
  BY <1>1 DEF Die, vars
<1>2. ASSUME NEW m \in Managers, ManagerStep(m)
      PROVE  SomeTargets'
  <2>1. CASE ConfigureStep(m)
    <3>1. workersFile' \in {workersFile, NoFile, alloc} \cup WorkerLists[alloc]
      BY <2>1 DEF ConfigureStep, BeginConfigure, WriteSettings, SettingsFail, WriteWorkers,
         ConfigureFail, SaveConfig, SetWorkers
    <3>2. NoFile # {}
      OBVIOUS
    <3>3. alloc # {} /\ {} \notin WorkerLists[alloc]
      BY DEF TypeOK, SomeWorkers
    <3>4. ASSUME workersFile' = {} PROVE FALSE
      BY <3>1, <3>2, <3>3, <3>4
    <3> QED
      BY <3>4
  <2>2. CASE StartStep(m)
    BY <2>2, LaunchesKeepFiles DEF StartStep, Launches, BeginStart, StartWithoutWorkersFile,
       SkipHistory, RecordStart
  <2>3. CASE StopStep(m)
    BY <2>3, LaunchesKeepFiles DEF StopStep, Stops, BeginStop, StopCannotInfer,
       StopWorkersFail, RecordStop, EndRollback
  <2>4. CASE Create(m) \/ Load(m) \/ Exit(m) \/ Clean(m) \/ Kill(m)
    BY <2>4 DEF Create, Load, Exit, Clean, Kill, CutShort, CutBetween, CutBeforePidFile,
       CutDuringSsh
  <2> QED
    BY <1>2, <2>1, <2>2, <2>3, <2>4 DEF ManagerStep
<1> QED
  BY <1>1, <1>2 DEF Next

-----------------------------------------------------------------------------
(***************************************************************************)
(* The refinement mapping, seen from the one manager that is at work.      *)
(***************************************************************************)
Position(label) == IF label \in {"start", "rollback", "stop"} THEN label ELSE "no"

\* With every other manager at rest, its position is that of the cluster.
LEMMA PositionOfOne ==
  ASSUME NEW P \in [Managers -> Resting \cup Inside], NEW m \in Managers,
         \A o \in Managers \ {m} : P[o] \notin Inside
  PROVE  (IF \E x \in Managers : P[x] = "start" THEN "start"
          ELSE IF \E x \in Managers : P[x] = "rollback" THEN "rollback"
          ELSE IF \E x \in Managers : P[x] = "stop" THEN "stop"
          ELSE "no") = Position(P[m])
  BY DEF Inside, Position

LEMMA FlagsOfOne ==
  ASSUME NEW T \in [Managers -> SUBSET Services], NEW m \in Managers,
         \A o \in Managers \ {m} : T[o] = {}
  PROVE  UNION {T[x] : x \in Managers} = T[m]
  OBVIOUS

\* The abstract state before and after a step of m.
LEMMA Mapped ==
  ASSUME Regular, TypeOK, TypeOK', ReachInv, FlagsOfStarts, FlagsOfStarts',
         NEW m \in Managers, ManagerStep(m), \A o \in Managers \ {m} : ~Busy(o)
  PROVE  /\ Operation = Position(pc[m]) /\ Operation' = Position(pc'[m])
         /\ Launched = tracker[m] /\ Launched' = tracker'[m]
<1>1. \A o \in Managers \ {m} : /\ pc[o] \notin Inside /\ pc'[o] \notin Inside
                                /\ tracker[o] = {} /\ tracker'[o] = {}
  <2>1. \A o \in Managers \ {m} : pc[o] \notin Inside /\ SameAs(o)
    BY StepKinds DEF Busy
  <2> QED
    BY <2>1 DEF SameAs, FlagsOfStarts, Inside
<1>2. /\ pc \in [Managers -> Resting \cup Inside] /\ pc' \in [Managers -> Resting \cup Inside]
      /\ tracker \in [Managers -> SUBSET Services] /\ tracker' \in [Managers -> SUBSET Services]
  BY DEF TypeOK
<1>3. Operation = Position(pc[m]) /\ Operation' = Position(pc'[m])
  BY <1>1, <1>2, PositionOfOne DEF Operation
<1>4. Launched = tracker[m] /\ Launched' = tracker'[m]
  BY <1>1, <1>2, FlagsOfOne DEF Launched
<1> QED
  BY <1>3, <1>4

LEMMA InitMapped == Init => Contract!Init
<1> SUFFICES ASSUME Init PROVE Contract!Init
  OBVIOUS
<1>1. Running = {} /\ Recorded = {} /\ Launched = {} /\ Operation = "no"
  BY DEF Init, Running, Recorded, Launched, Operation
<1> QED
  BY <1>1 DEF Contract!Init

-----------------------------------------------------------------------------
(***************************************************************************)
(* Every step is a step of the contract, or none.                          *)
(***************************************************************************)

\* A process ends: its service does, unless it is the workers' and others run.
LEMMA EndsMapped ==
  ASSUME TypeOK, NEW s \in Services, Running' \in {Running, Running \ {s}},
         UNCHANGED <<Recorded, Launched, Operation>>
  PROVE  [Contract!Next]_(Contract!vars)
<1>1. CASE Running' = Running
  BY <1>1 DEF Contract!vars
<1>2. CASE Running' # Running
  <2>1. s \in Running /\ Running' = Running \ {s}
    BY <1>2
  <2>2. Contract!End(s)
    BY <2>1 DEF Contract!End
  <2> QED
    BY <2>2 DEF Contract!Next
<1> QED
  BY <1>1, <1>2

\* m does nothing that the contract speaks of.
LEMMA RestMapped ==
  ASSUME NEW m \in Managers, UNCHANGED <<Running, status, Launched, Operation>>
  PROVE  [Contract!Next]_(Contract!vars)
  BY DEF Recorded, Contract!vars

LEMMA ConfigureMapped ==
  ASSUME Regular, TypeOK, TypeOK', ReachInv, FlagsOfStarts, FlagsOfStarts',
         NEW m \in Managers, ManagerStep(m), \A o \in Managers \ {m} : ~Busy(o),
         Create(m) \/ Load(m) \/ ConfigureStep(m)
  PROVE  [Contract!Next]_(Contract!vars)
<1> USE DEF procs, memory, Position
<1>1. ASSUME Return(m) PROVE pc'[m] \in {"none", "idle"}
  BY <1>1 DEF TypeOK, Return, Leave, Goto
<1>2. UNCHANGED <<status, up, daemons, step>>
  BY DEF Create, Load, ConfigureStep, BeginConfigure, WriteSettings, SettingsFail,
     WriteWorkers, ConfigureFail, SaveConfig, SetWorkers, disk
<1>3. /\ pc[m] \notin {"start", "rollback", "stop"}
      /\ pc'[m] \notin {"start", "rollback", "stop"}
  BY <1>1 DEF TypeOK, Create, Load, ConfigureStep, BeginConfigure, WriteSettings,
     SettingsFail, WriteWorkers, ConfigureFail, SaveConfig, SetWorkers, Goto
<1> QED
  BY <1>2, <1>3, Mapped, RestMapped DEF FlagsOfStarts, Running

LEMMA StartMapped ==
  ASSUME Regular, SomeTargets, TypeOK, TypeOK', ReachInv, FlagsOfStarts, FlagsOfStarts',
         NEW m \in Managers, ManagerStep(m), \A o \in Managers \ {m} : ~Busy(o),
         View(m), View(m)', StartStep(m)
  PROVE  [Contract!Next]_(Contract!vars)
<1>1. /\ Operation = Position(pc[m]) /\ Operation' = Position(pc'[m])
      /\ Launched = tracker[m] /\ Launched' = tracker'[m]
  BY Mapped
<1> USE DEF procs, Position
<1>2. CASE BeginStart(m)
  <2>1. /\ Running = {} /\ Running' = {} /\ status' = status
        /\ pc[m] \in {"idle", "saved"} /\ pc'[m] = "start" /\ tracker'[m] = {}
    BY <1>2 DEF TypeOK, BeginStart, Goto, MayStart, Regular, disk, Running
  <2>2. tracker[m] = {}
    BY <2>1 DEF FlagsOfStarts
  <2>3. Contract!BeginStart
    BY <1>1, <2>1, <2>2 DEF Contract!BeginStart, Recorded
  <2> QED
    BY <2>3 DEF Contract!Next
<1>3. CASE StartWithoutWorkersFile(m)
  <2>1. /\ Running' = Running /\ status' = status
        /\ pc[m] \in {"idle", "saved"} /\ pc'[m] \in {"none", "idle"}
    BY <1>3 DEF TypeOK, StartWithoutWorkersFile, Return, Leave, Goto, disk, Running
  <2> QED
    BY <1>1, <2>1, RestMapped DEF FlagsOfStarts
<1>4. ASSUME NEW s \in Services, pc[m] = "start", s \in todo[m], Started(m, s),
             Running' = Running \cup {s}
      PROVE  [Contract!Next]_(Contract!vars)
  <2>1. s \notin tracker[m]
    BY <1>4 DEF View, Starting
  <2>2. tracker'[m] = tracker[m] \cup {s} /\ pc' = pc /\ status' = status
    BY <1>4 DEF TypeOK, Started, disk
  <2>3. Contract!Launch(s)
    BY <1>1, <1>4, <2>1, <2>2 DEF Contract!Launch, Recorded
  <2> QED
    BY <2>3 DEF Contract!Next
<1>5. ASSUME NEW s \in Services, StartServer(m, s)
      PROVE  [Contract!Next]_(Contract!vars)
  <2>1. /\ pc[m] = "start" /\ s \in todo[m] /\ Started(m, s)
        /\ up' = up \cup {s} /\ UNCHANGED <<daemons, step>>
    BY <1>5 DEF StartServer, Turn
  <2>2. Running' = Running \cup {s}
    BY <2>1 DEF Running
  <2> QED
    BY <1>4, <2>1, <2>2
<1>6. ASSUME NEW s \in Services, LaunchFail(m, s)
      PROVE  [Contract!Next]_(Contract!vars)
  <2>1. /\ pc[m] = "start" /\ pc'[m] = "rollback" /\ tracker' = tracker
        /\ status' = status /\ Running' = Running
    BY <1>6 DEF TypeOK, LaunchFail, Raised, Goto, disk, Running
  <2>2. Contract!StartFails
    BY <1>1, <2>1 DEF Contract!StartFails, Recorded
  <2> QED
    BY <2>2 DEF Contract!Next
<1>7. CASE SkipHistory(m)
  <2>1. Running' = Running /\ status' = status /\ pc' = pc /\ tracker' = tracker
    BY <1>7 DEF SkipHistory, disk, Running
  <2> QED
    BY <1>1, <2>1, RestMapped
<1>8. CASE MetastoreSetupFail(m)
  BY <1>8 DEF MetastoreSetupFail, Regular
<1>9. CASE StartLocalWorker(m) \/ StartSshWorkers(m) \/ StartSrunWorkers(m)
  <2>1. pc[m] = "start" /\ "workers" \in todo[m] /\ targets[m] = workersFile
    BY <1>9 DEF StartLocalWorker, StartSshWorkers, StartSrunWorkers, Turn, View, Starting
  <2>2. daemons = {} /\ step = {} /\ targets[m] # {}
    BY <2>1, RunningParts DEF View, Starting, SomeTargets
  <2>3. /\ Started(m, "workers") /\ up' = up
        /\ daemons' # {} \/ step' # {}
    <3>1. CASE StartLocalWorker(m)
      BY <2>2, <3>1 DEF StartLocalWorker
    <3>2. CASE StartSshWorkers(m)
      BY <2>2, <3>2 DEF StartSshWorkers, Regular
    <3>3. CASE StartSrunWorkers(m)
      BY <2>2, <3>3 DEF StartSrunWorkers
    <3> QED
      BY <1>9, <3>1, <3>2, <3>3
  <2>4. Running' = Running \cup {"workers"}
    BY <2>2, <2>3 DEF Running
  <2> QED
    BY <1>4, <2>1, <2>3, <2>4 DEF Services
<1>10. CASE RecordStart(m)
  <2>1. /\ pc[m] = "start" /\ status' = tracker[m] /\ Running' = Running
        /\ pc'[m] \in {"none", "idle"} /\ tracker'[m] = {}
    BY <1>10 DEF TypeOK, RecordStart, Return, Leave, Goto, Running
  <2>2. Recorded' = tracker[m]
    BY <2>1, LifecycleAssumption DEF TypeOK, Recorded
  <2>3. Contract!StartReturns
    BY <1>1, <2>1, <2>2 DEF Contract!StartReturns
  <2> QED
    BY <2>3 DEF Contract!Next
<1> QED
  BY <1>2, <1>3, <1>5, <1>6, <1>7, <1>8, <1>9, <1>10 DEF StartStep

LEMMA StopMapped ==
  ASSUME Regular, TypeOK, TypeOK', ReachInv, FlagsOfStarts, FlagsOfStarts',
         NEW m \in Managers, ManagerStep(m), \A o \in Managers \ {m} : ~Busy(o),
         View(m), View(m)', StopStep(m)
  PROVE  [Contract!Next]_(Contract!vars)
<1>1. /\ Operation = Position(pc[m]) /\ Operation' = Position(pc'[m])
      /\ Launched = tracker[m] /\ Launched' = tracker'[m]
  BY Mapped
<1> USE DEF procs, Position
<1>2. CASE BeginStop(m)
  <2>1. /\ Running' = Running /\ status' = status /\ tracker' = tracker
        /\ pc[m] = "idle" /\ pc'[m] = "stop"
    BY <1>2 DEF TypeOK, BeginStop, Goto, disk, Running
  <2>2. Contract!BeginStop
    BY <1>1, <2>1 DEF Contract!BeginStop, Recorded
  <2> QED
    BY <2>2 DEF Contract!Next
<1>3. CASE StopCannotInfer(m)
  <2>1. /\ Running' = Running /\ status' = status
        /\ pc[m] = "idle" /\ pc'[m] \in {"none", "idle"}
    BY <1>3 DEF TypeOK, StopCannotInfer, Return, Leave, Goto, disk, Running
  <2> QED
    BY <1>1, <2>1, RestMapped DEF FlagsOfStarts
<1>4. ASSUME NEW s \in Services, Stopped(m, s), Running' \in {Running, Running \ {s}}
      PROVE  [Contract!Next]_(Contract!vars)
  <2>1. status' = status /\ pc' = pc /\ tracker' = tracker
    BY <1>4 DEF Stopped, disk
  <2> QED
    BY <1>1, <1>4, <2>1, EndsMapped DEF Recorded
<1>5. ASSUME NEW s \in Services, StopServer(m, s)
      PROVE  [Contract!Next]_(Contract!vars)
  <2>1. Stopped(m, s) /\ s \in HeadServices /\ up' = up \ {s} /\ UNCHANGED <<daemons, step>>
    BY <1>5 DEF StopServer, Regular
  <2>2. Running' = Running \ {s}
    BY <2>1 DEF Running, HeadServices
  <2> QED
    BY <1>4, <2>1, <2>2
<1>6. CASE StopWorkers(m)
  <2>1. /\ Stopped(m, "workers") /\ up' = up
        /\ daemons' \subseteq daemons /\ step' \subseteq step
    BY <1>6 DEF StopWorkers, StopDaemons, StopSrunStep
  <2>2. Running' \in {Running, Running \ {"workers"}}
    BY <2>1, RunningParts DEF Running, TypeOK, HeadServices
  <2> QED
    BY <1>4, <2>1, <2>2 DEF Services
<1>7. CASE StopWorkersFail(m) \/ RecordStop(m)
  <2>1. pc[m] = "stop" /\ pc'[m] \in {"none", "idle"}
    BY <1>7 DEF TypeOK, StopWorkersFail, RecordStop, Return, Leave, Goto
  <2>2. tracker[m] = {} /\ tracker'[m] = {}
    BY <2>1 DEF FlagsOfStarts
  <2>3. Running = {} /\ Running' = Running
    BY <1>7, <2>1, WorkersInReach DEF StopWorkersFail, RecordStop, View, Stopping, Running
  <2>4. Recorded' \in {{}, Recorded}
    BY <1>7, LifecycleAssumption DEF StopWorkersFail, RecordStop, Recorded, disk
  <2>5. Contract!StopEnds
    BY <1>1, <2>1, <2>2, <2>3, <2>4 DEF Contract!StopEnds
  <2> QED
    BY <2>5 DEF Contract!Next
<1>8. CASE EndRollback(m)
  <2>1. pc[m] = "rollback" /\ pc'[m] \in {"none", "idle"} /\ status' = status
    BY <1>8 DEF TypeOK, EndRollback, Return, Leave, Goto, disk
  <2>2. Running = {} /\ Running' = Running /\ tracker'[m] = {}
    BY <1>8, <2>1 DEF EndRollback, View, Starting, Running, FlagsOfStarts
  <2>3. Contract!StartRaises
    BY <1>1, <2>1, <2>2 DEF Contract!StartRaises, Recorded
  <2> QED
    BY <2>3 DEF Contract!Next
<1> QED
  BY <1>2, <1>3, <1>5, <1>6, <1>7, <1>8 DEF StopStep

LEMMA CleanMapped ==
  ASSUME Regular, TypeOK, TypeOK', ReachInv, FlagsOfStarts, FlagsOfStarts',
         NEW m \in Managers, ManagerStep(m), \A o \in Managers \ {m} : ~Busy(o),
         View(m), Clean(m)
  PROVE  [Contract!Next]_(Contract!vars)
<1>1. pc[m] = "idle" /\ pc'[m] \in {"none", "idle"} /\ status' = NoFile
  BY DEF TypeOK, Clean, Return, Leave, Goto
<1>2. Running = {} /\ Running' = {}
  <2>1. Running = {}
    BY CleanFindsNothing
  <2> QED
    BY <2>1, RunningParts DEF Clean, Running
<1>3. /\ Operation = "no" /\ Operation' = "no" /\ Launched = {} /\ Launched' = {}
      /\ Recorded' = {}
  BY <1>1, Mapped DEF Position, FlagsOfStarts, Recorded
<1>4. Contract!Clean
  BY <1>2, <1>3 DEF Contract!Clean
<1> QED
  BY <1>4 DEF Contract!Next

\* A process that ends need not be that of a working manager.
LEMMA ExitMapped ==
  ASSUME TypeOK, FlagsOfStarts, NEW m \in Managers, Exit(m)
  PROVE  [Contract!Next]_(Contract!vars)
<1>1. /\ \A o \in Managers \ {m} : pc'[o] = pc[o] /\ tracker'[o] = tracker[o]
      /\ pc[m] \notin {"start", "rollback", "stop"} /\ pc'[m] = "none" /\ tracker'[m] = {}
      /\ status' = status /\ Running' = Running
  BY DEF TypeOK, Exit, Leave, Goto, disk, procs, Running
<1>2. tracker[m] = {}
  BY <1>1 DEF FlagsOfStarts
<1>3. tracker' = tracker
  BY <1>1, <1>2 DEF TypeOK, Exit, Leave
<1>4. Operation' = Operation /\ Launched' = Launched
  BY <1>1, <1>3 DEF Operation, Launched
<1> QED
  BY <1>1, <1>4, RestMapped

LEMMA DieMapped ==
  ASSUME TypeOK, TypeOK', Die
  PROVE  [Contract!Next]_(Contract!vars)
<1>1. UNCHANGED <<Recorded, Launched, Operation>>
  BY DEF Die, disk, memory, Recorded, Launched, Operation
<1>2. PICK s \in Services : Running' \in {Running, Running \ {s}}
  <2>1. CASE \E s \in up : up' = up \ {s} /\ UNCHANGED <<daemons, step>>
    BY <2>1, ServiceSets DEF TypeOK, Running, HeadServices
  <2>2. CASE up' = up
    <3>1. Running' \in {Running, Running \ {"workers"}}
      BY <2>2, RunningParts DEF Running, TypeOK, HeadServices, Die
    <3> QED
      BY <3>1 DEF Services
  <2> QED
    BY <2>1, <2>2 DEF Die
<1> QED
  BY <1>1, <1>2, EndsMapped

LEMMA NextMapped ==
  ASSUME Regular
  PROVE  /\ TypeOK /\ TypeOK' /\ ReachInv /\ FlagsOfStarts /\ FlagsOfStarts' /\ SomeTargets
         /\ [Next]_vars
         => [Contract!Next]_(Contract!vars)
<1> SUFFICES ASSUME TypeOK, TypeOK', ReachInv, FlagsOfStarts, FlagsOfStarts', SomeTargets,
                    [Next]_vars
             PROVE  [Contract!Next]_(Contract!vars)
  OBVIOUS
<1>1. ASSUME NEW m \in Managers, ManagerStep(m)
      PROVE  [Contract!Next]_(Contract!vars)
  <2>1. CASE Exit(m)
    BY <2>1, ExitMapped
  <2>2. CASE ~Exit(m)
    <3>1. \A o \in Managers \ {m} : ~Busy(o)
      BY <1>1, <2>2, StepsAlone DEF Regular, ReachInv
    <3>2. View(m)
      BY <3>1 DEF View, ReachInv, Busy
    <3>3. View(m)'
      BY <1>1, <3>2, StepView
    <3>4. ~Kill(m)
      BY DEF Kill, Regular
    <3> QED
      BY <1>1, <2>2, <3>1, <3>2, <3>3, <3>4, ConfigureMapped, StartMapped, StopMapped,
         CleanMapped DEF ManagerStep
  <2> QED
    BY <2>1, <2>2
<1>2. CASE Die
  BY <1>2, DieMapped
<1>3. CASE UNCHANGED vars
  BY <1>3 DEF vars, disk, procs, memory, Running, Recorded, Launched, Operation, Contract!vars
<1> QED
  BY <1>1, <1>2, <1>3 DEF Next

\* However many commands and programs take turns on a directory, and whatever
\* launch fails or process dies, together they behave as the contract says.
THEOREM LifecycleKeepsContract ==
  ASSUME Regular, SomeWorkers
  PROVE  Spec => ImplementsContract
<1>1. Spec => Init /\ [][Next]_vars
  BY DEF Spec
<1>2. TypeOK /\ SomeTargets /\ [Next]_vars => SomeTargets'
  BY NextTargets
<1>3. Init => FlagsOfStarts /\ SomeTargets
  BY InitFlags
<1>4. Spec => [](FlagsOfStarts /\ SomeTargets)
  BY <1>1, <1>2, <1>3, TypeCorrect, NextFlags, PTL
<1>5. Spec => [](TypeOK /\ ReachInv)
  BY ReachInvariant
<1> QED
  BY <1>1, <1>4, <1>5, InitMapped, NextMapped, PTL DEF ImplementsContract, Contract!Spec

\* What the contract promises follows from the contract alone.
LEMMA ContractPromises ==
  ImplementsContract => [](Contract!OnlyLaunched /\ Contract!NothingUnrecorded)
<1> DEFINE Promises == Contract!OnlyLaunched /\ Contract!NothingUnrecorded
<1>1. Contract!Init => Promises
  BY DEF Contract!Init, Contract!OnlyLaunched, Contract!NothingUnrecorded
<1>2. Promises /\ [Contract!Next]_(Contract!vars) => Promises'
  BY DEF Contract!OnlyLaunched, Contract!NothingUnrecorded, Contract!Next, Contract!vars,
         Contract!BeginStart, Contract!Launch, Contract!StartReturns, Contract!StartFails,
         Contract!StartRaises, Contract!BeginStop, Contract!StopEnds, Contract!End, Contract!Clean
<1> QED
  BY <1>1, <1>2, PTL DEF ImplementsContract, Contract!Spec

\* What one process leaves running is on record for the next: whatever runs
\* while no start is under way is named by status.json.
THEOREM NothingGoesUnrecorded ==
  ASSUME Regular, SomeWorkers
  PROVE  Spec => []NothingUnrecorded
  BY ContractPromises, LifecycleKeepsContract, PTL DEF NothingUnrecorded
=============================================================================

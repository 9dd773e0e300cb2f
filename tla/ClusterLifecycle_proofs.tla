----------------------- MODULE ClusterLifecycle_proofs ----------------------
(***************************************************************************)
(* Theorems about ClusterLifecycle, for every set of managers and nodes,   *)
(* every list and configuration users may write, and every order of steps. *)
(***************************************************************************)
EXTENDS ClusterLifecycle, TLAPS

(***************************************************************************)
(* Type correctness. The steps of a manager are proved action by action.   *)
(***************************************************************************)
LEMMA InitType == Init => TypeOK
  BY LifecycleAssumption DEF Init, TypeOK, Resting

\* Leaving an operation keeps the types of what a manager holds in memory.
LEMMA LeaveType ==
  ASSUME TypeOK, NEW m \in Managers, NEW label \in Resting, Leave(m, label)
  PROVE  /\ pc' \in [Managers -> Resting \cup Inside]
         /\ cfg' \in [Managers -> SUBSET Settings]
         /\ cached' \in [Managers -> {NoFile} \cup SUBSET Services]
         /\ todo' \in [Managers -> SUBSET Services]
         /\ tracker' \in [Managers -> SUBSET Services]
         /\ targets' \in [Managers -> SUBSET Nodes]
         /\ mine' \in [Managers -> SUBSET Services]
  BY DEF TypeOK, Leave, Goto

LEMMA ReturnType ==
  ASSUME TypeOK, NEW m \in Managers, Return(m)
  PROVE  /\ pc' \in [Managers -> Resting \cup Inside]
         /\ cfg' \in [Managers -> SUBSET Settings]
         /\ cached' \in [Managers -> {NoFile} \cup SUBSET Services]
         /\ todo' \in [Managers -> SUBSET Services]
         /\ tracker' \in [Managers -> SUBSET Services]
         /\ targets' \in [Managers -> SUBSET Nodes]
         /\ mine' \in [Managers -> SUBSET Services]
  BY LeaveType DEF Return, Resting

LEMMA CreditType ==
  ASSUME TypeOK, NEW m \in Managers, NEW S \in SUBSET Services, Credit(m, S)
  PROVE  mine' \in [Managers -> SUBSET Services]
  BY DEF TypeOK, Credit

LEMMA ConfigureStepType ==
  ASSUME TypeOK, NEW m \in Managers, ConfigureStep(m)
  PROVE  TypeOK'
<1> USE LifecycleAssumption DEF TypeOK, disk, procs, memory, Goto, Inside
<1>1. CASE BeginConfigure(m)
  BY <1>1 DEF BeginConfigure
<1>2. CASE WriteSettings(m)
  BY <1>2 DEF WriteSettings, HistorySetting
<1>3. CASE SettingsFail(m)
  BY <1>3, ReturnType DEF SettingsFail, HistorySetting
<1>4. CASE WriteWorkers(m)
  BY <1>4 DEF WriteWorkers
<1>5. CASE ConfigureFail(m)
  BY <1>5, ReturnType DEF ConfigureFail
<1>6. CASE SaveConfig(m)
  BY <1>6 DEF SaveConfig, Resting
<1>7. CASE SetWorkers(m)
  BY <1>7 DEF SetWorkers
<1> QED
  BY <1>1, <1>2, <1>3, <1>4, <1>5, <1>6, <1>7 DEF ConfigureStep

\* A service or none, as a set of services.
LEMMA ServiceSets ==
  /\ HeadServices \subseteq Services
  /\ {"master", "history", "workers"} \subseteq Services
  BY DEF HeadServices, Services

\* The processes and the history are typed: what the steps of start and stop
\* change besides the locals of the call.
ProcessesTyped ==
  /\ up \subseteq HeadServices /\ daemons \subseteq Nodes /\ step \subseteq Nodes
  /\ orphan \subseteq {"jupyter", "srun"}
  /\ mine \in [Managers -> SUBSET Services]

LEMMA StartedType ==
  ASSUME TypeOK, NEW m \in Managers, NEW s \in Services, Started(m, s), ProcessesTyped'
  PROVE  TypeOK'
  BY DEF TypeOK, disk, Started, ProcessesTyped

LEMMA RaisedType ==
  ASSUME TypeOK, NEW m \in Managers, Raised(m), ProcessesTyped'
  PROVE  TypeOK'
  BY DEF TypeOK, disk, Raised, Goto, Inside, ProcessesTyped

LEMMA StoppedType ==
  ASSUME TypeOK, NEW m \in Managers, NEW s \in Services, Stopped(m, s),
         up' \subseteq up, daemons' \subseteq daemons, step' \subseteq step
  PROVE  TypeOK'
<1>1. mine' \in [Managers -> SUBSET Services]
  BY CreditType DEF Stopped
<1> QED
  BY <1>1 DEF TypeOK, disk, Stopped

LEMMA StartStepType ==
  ASSUME TypeOK, NEW m \in Managers, StartStep(m)
  PROVE  TypeOK'
<1> USE LifecycleAssumption, ServiceSets DEF TypeOK, disk, procs, memory, Goto, Inside
<1>1. CASE BeginStart(m)
  BY <1>1 DEF BeginStart
<1>2. CASE StartWithoutWorkersFile(m)
  BY <1>2, ReturnType DEF StartWithoutWorkersFile
<1>3. ASSUME NEW s \in Services, StartServer(m, s)
      PROVE  TypeOK'
  <2>1. up' \subseteq HeadServices /\ orphan' \subseteq {"jupyter", "srun"}
    BY <1>3 DEF StartServer
  <2>2. mine' \in [Managers -> SUBSET Services]
    BY <1>3, CreditType DEF StartServer
  <2>3. ProcessesTyped'
    BY <1>3, <2>1, <2>2 DEF StartServer, ProcessesTyped
  <2> QED
    BY <1>3, <2>3, StartedType DEF StartServer
<1>4. ASSUME NEW s \in Services, LaunchFail(m, s)
      PROVE  TypeOK'
  <2>1. ProcessesTyped'
    BY <1>4 DEF LaunchFail, ProcessesTyped
  <2> QED
    BY <1>4, <2>1, RaisedType DEF LaunchFail
<1>5. CASE SkipHistory(m)
  BY <1>5 DEF SkipHistory
<1>6. CASE MetastoreSetupFail(m)
  <2>1. mine' \in [Managers -> SUBSET Services]
    BY <1>6, CreditType DEF MetastoreSetupFail, Services, HeadServices
  <2>2. ProcessesTyped'
    BY <1>6, <2>1 DEF MetastoreSetupFail, HeadServices, ProcessesTyped
  <2> QED
    BY <1>6, <2>2, RaisedType DEF MetastoreSetupFail
<1>7. ASSUME StartLocalWorker(m) \/ StartSshWorkers(m) \/ StartSrunWorkers(m)
      PROVE  TypeOK'
  <2>1. \/ UNCHANGED mine
        \/ Credit(m, {"workers"})
    BY <1>7 DEF StartLocalWorker, StartSshWorkers, StartSrunWorkers
  <2>2. mine' \in [Managers -> SUBSET Services]
    BY <2>1, CreditType
  <2>3. ProcessesTyped'
    <3>1. CASE StartLocalWorker(m)
      BY <2>2, <3>1 DEF StartLocalWorker, ProcessesTyped
    <3>2. CASE StartSshWorkers(m)
      BY <2>2, <3>2 DEF StartSshWorkers, ProcessesTyped
    <3>3. CASE StartSrunWorkers(m)
      BY <2>2, <3>3 DEF StartSrunWorkers, ProcessesTyped
    <3> QED
      BY <1>7, <3>1, <3>2, <3>3
  <2>4. Started(m, "workers") \/ Raised(m)
    BY <1>7 DEF StartLocalWorker, StartSshWorkers, StartSrunWorkers
  <2> QED
    BY <2>3, <2>4, StartedType, RaisedType
<1>8. CASE RecordStart(m)
  BY <1>8, ReturnType DEF RecordStart
<1> QED
  BY <1>1, <1>2, <1>3, <1>4, <1>5, <1>6, <1>7, <1>8 DEF StartStep

LEMMA StopStepType ==
  ASSUME TypeOK, NEW m \in Managers, StopStep(m)
  PROVE  TypeOK'
<1> USE LifecycleAssumption, ServiceSets DEF TypeOK, disk, procs, memory, Goto, Inside
<1>1. CASE BeginStop(m)
  BY <1>1 DEF BeginStop, Assumed
<1>2. CASE StopCannotInfer(m)
  BY <1>2, ReturnType DEF StopCannotInfer
<1>3. ASSUME NEW s \in Services, StopServer(m, s)
      PROVE  TypeOK'
  <2>1. /\ Stopped(m, s)
        /\ up' \subseteq up /\ daemons' = daemons /\ step' = step
    BY <1>3 DEF StopServer
  <2> QED
    BY <2>1, StoppedType
<1>4. CASE StopWorkers(m)
  <2>1. /\ Stopped(m, "workers")
        /\ up' = up /\ daemons' \subseteq daemons /\ step' \subseteq step
    BY <1>4 DEF StopWorkers, StopDaemons, StopSrunStep
  <2> QED
    BY <2>1, StoppedType
<1>5. CASE StopWorkersFail(m)
  BY <1>5, ReturnType DEF StopWorkersFail
<1>6. CASE RecordStop(m)
  BY <1>6, ReturnType DEF RecordStop
<1>7. CASE EndRollback(m)
  BY <1>7, ReturnType DEF EndRollback
<1> QED
  BY <1>1, <1>2, <1>3, <1>4, <1>5, <1>6, <1>7 DEF StopStep

LEMMA CutShortType ==
  ASSUME TypeOK, NEW m \in Managers, NEW label \in Resting, CutShort(m, label)
  PROVE  TypeOK'
<1> USE LifecycleAssumption DEF TypeOK, disk, procs
<1>1. CASE CutBetween(m, label)
  BY <1>1, LeaveType DEF CutBetween
<1>2. CASE CutBeforePidFile(m, label)
  BY <1>2, LeaveType DEF CutBeforePidFile
<1>3. CASE CutDuringSsh(m, label)
  BY <1>3, LeaveType DEF CutDuringSsh
<1> QED
  BY <1>1, <1>2, <1>3 DEF CutShort

LEMMA NextType == TypeOK /\ [Next]_vars => TypeOK'
<1> SUFFICES ASSUME TypeOK, [Next]_vars
             PROVE  TypeOK'
  OBVIOUS
<1>1. ASSUME NEW m \in Managers, ManagerStep(m)
      PROVE  TypeOK'
  <2>1. CASE Create(m)
    BY <2>1, LifecycleAssumption
    DEF Create, TypeOK, disk, procs, Goto, Resting
  <2>2. CASE Load(m)
    BY <2>2 DEF Load, TypeOK, disk, procs, Goto, Resting
  <2>3. CASE Exit(m)
    BY <2>3, LeaveType DEF Exit, TypeOK, disk, procs, Resting
  <2>4. CASE Clean(m)
    BY <2>4, ReturnType DEF Clean, TypeOK
  <2>5. CASE Kill(m)
    BY <2>5, CutShortType DEF Kill, Resting
  <2> QED
    BY <1>1, <2>1, <2>2, <2>3, <2>4, <2>5,
       ConfigureStepType, StartStepType, StopStepType DEF ManagerStep
<1>2. CASE Die
  BY <1>2 DEF Die, TypeOK, disk, memory
<1>3. CASE UNCHANGED vars
  BY <1>3 DEF vars, disk, procs, memory, TypeOK
<1> QED
  BY <1>1, <1>2, <1>3 DEF Next

\* Every variable of the lifecycle keeps its type, whatever the managers do
\* and whatever fails.
THEOREM TypeCorrect == Spec => []TypeOK
  BY InitType, NextType, PTL DEF Spec

-----------------------------------------------------------------------------
(***************************************************************************)
(* The inductive invariants behind the promises about rollback.            *)
(***************************************************************************)

\* Once the workers are flagged there is nothing left to launch, so nothing
\* that could raise.
WorkersLast ==
  /\ \A m \in Managers :
       pc[m] = "start" /\ "workers" \in tracker[m] => todo[m] = {}
  /\ RollbackMeetsNoWorkers

\* Every server the start of m launched and that still runs has its flag, and
\* keeps its place among the services to stop during a rollback.
LaunchedIsFlagged ==
  \A m \in Managers :
    /\ pc[m] = "start" => mine[m] \cap HeadServices \subseteq tracker[m]
    /\ pc[m] = "rollback" => mine[m] \cap HeadServices \subseteq todo[m]

\* The servers that refuse to run twice.
Exclusive == HeadServices \ {"jupyter"}

\* The converse, and that no two managers take credit for one such server.
FlaggedIsMine ==
  \A m \in Managers :
    /\ pc[m] # "stop"
    /\ mine[m] \cap Exclusive \subseteq up
    /\ pc[m] = "start" => tracker[m] \cap Exclusive \subseteq mine[m]
    /\ pc[m] = "rollback" => todo[m] \cap Exclusive \subseteq mine[m]
    /\ \A o \in Managers \ {m} : mine[m] \cap mine[o] \cap Exclusive = {}

-----------------------------------------------------------------------------
(***************************************************************************)
(* What a step of one manager does to the others, and the few ways in      *)
(* which it can matter to a start or a rollback.                           *)
(***************************************************************************)
SameAs(o) == pc'[o] = pc[o] /\ todo'[o] = todo[o] /\ tracker'[o] = tracker[o]

\* A step that leaves m neither starting, nor rolling back, nor stopping, and
\* takes no server away but Jupyter.
Away(m) ==
  /\ pc'[m] \notin {"start", "rollback", "stop"}
  /\ up' \in {up, up \ {"jupyter"}}
  /\ \/ mine' = mine
     \/ mine' = [o \in Managers |-> IF o = m THEN {} ELSE mine[o] \cap Running']

Launches(m) ==
  \/ \E s \in Services : StartServer(m, s)
  \/ MetastoreSetupFail(m) \/ StartLocalWorker(m)
  \/ StartSshWorkers(m) \/ StartSrunWorkers(m)

Stops(m) == StopWorkers(m) \/ \E s \in Services : StopServer(m, s)

LEMMA LeaveIsAway ==
  ASSUME TypeOK, NEW m \in Managers, NEW label \in Resting, Leave(m, label),
         up' \in {up, up \ {"jupyter"}}
  PROVE  Away(m) /\ \A o \in Managers \ {m} : SameAs(o)
  BY DEF TypeOK, Leave, Goto, Away, SameAs, Resting

LEMMA ReturnIsAway ==
  ASSUME TypeOK, NEW m \in Managers, Return(m), up' \in {up, up \ {"jupyter"}}
  PROVE  Away(m) /\ \A o \in Managers \ {m} : SameAs(o)
  BY LeaveIsAway DEF Return, Resting

LEMMA StepKinds ==
  ASSUME TypeOK, NEW m \in Managers, ManagerStep(m)
  PROVE  /\ \A o \in Managers \ {m} : SameAs(o)
         /\ \/ Away(m) \/ BeginStart(m) \/ BeginStop(m) \/ SkipHistory(m)
            \/ Launches(m) \/ Stops(m)
            \/ \E s \in Services : LaunchFail(m, s)
<1> USE DEF procs, memory
<1>1. CASE Create(m) \/ Load(m) \/ Exit(m) \/ Clean(m)
  <2>1. CASE Create(m)
    BY <2>1 DEF TypeOK, Create, Away, SameAs, Goto
  <2>2. CASE Load(m)
    BY <2>2 DEF TypeOK, Load, Away, SameAs, Goto
  <2>3. CASE Exit(m)
    BY <2>3, LeaveIsAway DEF Exit, Resting
  <2>4. CASE Clean(m)
    BY <2>4, ReturnIsAway DEF Clean
  <2> QED
    BY <1>1, <2>1, <2>2, <2>3, <2>4
<1>2. CASE ConfigureStep(m)
  <2>1. CASE SettingsFail(m) \/ ConfigureFail(m)
    BY <2>1, ReturnIsAway DEF SettingsFail, ConfigureFail
  <2>2. CASE BeginConfigure(m) \/ WriteSettings(m) \/ WriteWorkers(m)
    BY <2>2 DEF TypeOK, BeginConfigure, WriteSettings, WriteWorkers, Away, SameAs, Goto
  <2>3. CASE SaveConfig(m) \/ SetWorkers(m)
    BY <2>3 DEF TypeOK, SaveConfig, SetWorkers, Away, SameAs, Goto
  <2> QED
    BY <1>2, <2>1, <2>2, <2>3 DEF ConfigureStep
<1>3. CASE StartStep(m)
  <2>1. CASE StartWithoutWorkersFile(m) \/ RecordStart(m)
    BY <2>1, ReturnIsAway DEF StartWithoutWorkersFile, RecordStart
  <2>2. CASE BeginStart(m) \/ SkipHistory(m)
    BY <2>2 DEF TypeOK, BeginStart, SkipHistory, SameAs, Goto
  <2>3. ASSUME NEW s \in Services, StartServer(m, s) \/ LaunchFail(m, s)
        PROVE  \A o \in Managers \ {m} : SameAs(o)
    BY <2>3 DEF TypeOK, StartServer, LaunchFail, Started, Raised, SameAs, Goto
  <2>4. CASE MetastoreSetupFail(m) \/ StartLocalWorker(m) \/ StartSrunWorkers(m)
    BY <2>4 DEF TypeOK, MetastoreSetupFail, StartLocalWorker, StartSrunWorkers,
                Started, Raised, SameAs, Goto, Launches
  <2>5. CASE StartSshWorkers(m)
    <3>1. Started(m, "workers") \/ Raised(m)
      BY <2>5 DEF StartSshWorkers
    <3> QED
      BY <2>5, <3>1 DEF TypeOK, Started, Raised, SameAs, Goto, Launches
  <2> QED
    BY <1>3, <2>1, <2>2, <2>3, <2>4, <2>5 DEF StartStep, Launches
<1>4. CASE StopStep(m)
  <2>1. CASE StopCannotInfer(m) \/ StopWorkersFail(m) \/ RecordStop(m) \/ EndRollback(m)
    BY <2>1, ReturnIsAway DEF StopCannotInfer, StopWorkersFail, RecordStop, EndRollback
  <2>2. CASE BeginStop(m)
    BY <2>2 DEF TypeOK, BeginStop, SameAs, Goto
  <2>3. CASE StopWorkers(m)
    BY <2>3 DEF TypeOK, StopWorkers, StopDaemons, StopSrunStep, Stopped, SameAs, Stops
  <2>4. ASSUME NEW s \in Services, StopServer(m, s)
        PROVE  \A o \in Managers \ {m} : SameAs(o)
    BY <2>4 DEF TypeOK, StopServer, Stopped, SameAs
  <2> QED
    BY <1>4, <2>1, <2>2, <2>3, <2>4 DEF StopStep, Stops
<1>5. CASE Kill(m)
  BY <1>5, LeaveIsAway
  DEF Kill, CutShort, CutBetween, CutBeforePidFile, CutDuringSsh, procs, Resting
<1> QED
  BY <1>1, <1>2, <1>3, <1>4, <1>5 DEF ManagerStep

-----------------------------------------------------------------------------
(***************************************************************************)
(* A rollback never has workers to stop.                                   *)
(***************************************************************************)
LEMMA WorkersRank ==
  \A t \in Services : StartRank["workers"] <= StartRank[t] => t = "workers"
  BY DEF Services, HeadServices, StartRank

\* The turn of the workers comes when nothing else is left.
LEMMA WorkersTurn ==
  ASSUME TypeOK, NEW m \in Managers, Turn(m, StartRank, "workers")
  PROVE  todo[m] = {"workers"}
  BY WorkersRank DEF TypeOK, Turn

LEMMA WorkersLastInit == Init => WorkersLast
  BY DEF Init, WorkersLast, RollbackMeetsNoWorkers

LEMMA WorkersLastStep ==
  ASSUME TypeOK, WorkersLast, NEW m \in Managers, ManagerStep(m)
  PROVE  WorkersLast'
<1>1. \A o \in Managers \ {m} : SameAs(o)
  BY StepKinds
<1>2. SUFFICES /\ pc'[m] = "start" /\ "workers" \in tracker'[m] => todo'[m] = {}
               /\ pc'[m] = "rollback" => "workers" \notin todo'[m]
  BY <1>1 DEF WorkersLast, RollbackMeetsNoWorkers, SameAs
<1> USE DEF TypeOK, WorkersLast, RollbackMeetsNoWorkers
<1>3. CASE Away(m)
  BY <1>3 DEF Away
<1>4. CASE BeginStart(m) \/ BeginStop(m)
  BY <1>4 DEF BeginStart, BeginStop, Goto
<1>5. CASE SkipHistory(m)
  BY <1>5 DEF SkipHistory
<1>6. ASSUME NEW s \in Services, StartServer(m, s)
      PROVE  /\ pc'[m] = "start" /\ "workers" \in tracker'[m] => todo'[m] = {}
             /\ pc'[m] # "rollback"
  BY <1>6 DEF StartServer, Started, Turn, HeadServices
<1>7. ASSUME Turn(m, StartRank, "workers"), pc[m] = "start",
             Started(m, "workers") \/ Raised(m)
      PROVE  /\ pc'[m] = "start" /\ "workers" \in tracker'[m] => todo'[m] = {}
             /\ pc'[m] = "rollback" => "workers" \notin todo'[m]
  BY <1>7, WorkersTurn DEF Started, Raised, Goto
<1>8. CASE StartLocalWorker(m) \/ StartSshWorkers(m) \/ StartSrunWorkers(m)
  <2>1. Turn(m, StartRank, "workers") /\ pc[m] = "start"
        /\ (Started(m, "workers") \/ Raised(m))
    BY <1>8 DEF StartLocalWorker, StartSshWorkers, StartSrunWorkers
  <2> QED
    BY <1>7, <2>1
<1>9. CASE MetastoreSetupFail(m)
  BY <1>9 DEF MetastoreSetupFail, Raised, Turn, Goto
<1>10. ASSUME NEW s \in Services, LaunchFail(m, s)
       PROVE  pc'[m] = "rollback" /\ "workers" \notin todo'[m]
  BY <1>10 DEF LaunchFail, Raised, Turn, Goto
<1>11. CASE Stops(m)
  BY <1>11 DEF Stops, StopServer, StopWorkers, StopDaemons, StopSrunStep, Stopped
<1> QED
  BY <1>3, <1>4, <1>5, <1>6, <1>8, <1>9, <1>10, <1>11, StepKinds DEF Launches

LEMMA WorkersLastNext == TypeOK /\ WorkersLast /\ [Next]_vars => WorkersLast'
<1> SUFFICES ASSUME TypeOK, WorkersLast, [Next]_vars
             PROVE  WorkersLast'
  OBVIOUS
<1>1. CASE Die \/ UNCHANGED vars
  BY <1>1 DEF Die, vars, memory, WorkersLast, RollbackMeetsNoWorkers
<1> QED
  BY <1>1, WorkersLastStep DEF Next

\* The branch of _rollback_started_processes that stops workers is dead: a
\* start that raises has not flagged them.
THEOREM RollbackNeverStopsWorkers == Spec => []RollbackMeetsNoWorkers
<1>1. WorkersLast => RollbackMeetsNoWorkers
  BY DEF WorkersLast
<1> QED
  BY <1>1, TypeCorrect, WorkersLastInit, WorkersLastNext, PTL DEF Spec

-----------------------------------------------------------------------------
(***************************************************************************)
(* A start that raises takes its servers down.                             *)
(***************************************************************************)

\* Launches leave nothing half-way and stop commands work.
CleanFailures == "setup" \notin Faults /\ "stopfail" \notin Faults

LEMMA LaunchedIsFlaggedInit == Init => LaunchedIsFlagged
  BY DEF Init, LaunchedIsFlagged

\* Credit is only given, never taken over: what is not launched by m stays
\* what it was or vanishes.
LEMMA OthersCredit ==
  ASSUME TypeOK, NEW m \in Managers, ManagerStep(m), NEW o \in Managers \ {m}
  PROVE  mine'[o] \subseteq mine[o]
<1> USE DEF TypeOK
<1>1. CASE Away(m)
  BY <1>1 DEF Away
<1>2. CASE BeginStart(m) \/ BeginStop(m) \/ SkipHistory(m)
  BY <1>2 DEF BeginStart, BeginStop, SkipHistory
<1>3. ASSUME NEW s \in Services, LaunchFail(m, s)
      PROVE  mine'[o] \subseteq mine[o]
  BY <1>3 DEF LaunchFail
<1>4. ASSUME NEW S \in SUBSET Services, Credit(m, S)
      PROVE  mine'[o] \subseteq mine[o]
  BY <1>4 DEF Credit
<1>5. CASE Launches(m)
  <2>1. mine' = mine \/ \E S \in SUBSET Services : Credit(m, S)
    BY <1>5 DEF Launches, StartServer, MetastoreSetupFail, StartLocalWorker,
                StartSshWorkers, StartSrunWorkers, Services, HeadServices
  <2> QED
    BY <1>4, <2>1
<1>6. CASE Stops(m)
  BY <1>4, <1>6 DEF Stops, StopServer, StopWorkers, StopDaemons, StopSrunStep, Stopped
<1> QED
  BY <1>1, <1>2, <1>3, <1>5, <1>6, StepKinds

LEMMA LaunchedIsFlaggedStep ==
  ASSUME CleanFailures, TypeOK, LaunchedIsFlagged, NEW m \in Managers, ManagerStep(m)
  PROVE  LaunchedIsFlagged'
<1>1. \A o \in Managers \ {m} : SameAs(o) /\ mine'[o] \subseteq mine[o]
  BY StepKinds, OthersCredit
<1>2. SUFFICES /\ pc'[m] = "start" => mine'[m] \cap HeadServices \subseteq tracker'[m]
               /\ pc'[m] = "rollback" => mine'[m] \cap HeadServices \subseteq todo'[m]
  BY <1>1 DEF LaunchedIsFlagged, SameAs
<1> USE DEF TypeOK, LaunchedIsFlagged
<1>3. CASE Away(m)
  BY <1>3 DEF Away
<1>4. CASE BeginStart(m) \/ BeginStop(m)
  BY <1>4 DEF BeginStart, BeginStop, Goto
<1>5. CASE SkipHistory(m)
  BY <1>5 DEF SkipHistory
<1>6. ASSUME NEW s \in Services, Started(m, s), pc[m] = "start",
             mine' = mine \/ Credit(m, {s})
      PROVE  pc'[m] = "start" /\ mine'[m] \cap HeadServices \subseteq tracker'[m]
  BY <1>6 DEF Started, Credit
<1>7. ASSUME Raised(m), mine' = mine \/ Credit(m, {"workers"}), pc[m] = "start"
      PROVE  pc'[m] = "rollback" /\ mine'[m] \cap HeadServices \subseteq todo'[m]
  BY <1>7 DEF Raised, Credit, Goto, HeadServices
<1>8. ASSUME NEW s \in Services, StartServer(m, s)
      PROVE  pc'[m] = "start" /\ mine'[m] \cap HeadServices \subseteq tracker'[m]
  BY <1>6, <1>8 DEF StartServer
<1>9. CASE StartLocalWorker(m) \/ StartSshWorkers(m) \/ StartSrunWorkers(m)
  <2>1. /\ pc[m] = "start"
        /\ Started(m, "workers") \/ Raised(m)
        /\ mine' = mine \/ Credit(m, {"workers"})
    <3>1. CASE StartLocalWorker(m)
      BY <3>1 DEF StartLocalWorker
    <3>2. CASE StartSrunWorkers(m)
      BY <3>2 DEF StartSrunWorkers
    <3>3. CASE StartSshWorkers(m)
      BY <3>3 DEF StartSshWorkers
    <3> QED
      BY <1>9, <3>1, <3>2, <3>3
  <2> QED
    BY <1>6, <1>7, <2>1 DEF Services
<1>10. CASE MetastoreSetupFail(m)
  BY <1>10 DEF MetastoreSetupFail, CleanFailures
<1>11. ASSUME NEW s \in Services, LaunchFail(m, s)
       PROVE  pc'[m] = "rollback" /\ mine'[m] \cap HeadServices \subseteq todo'[m]
  BY <1>7, <1>11 DEF LaunchFail
<1>12. ASSUME NEW s \in Services, StopServer(m, s)
       PROVE  /\ pc'[m] # "start"
              /\ pc'[m] = "rollback" => mine'[m] \cap HeadServices \subseteq todo'[m]
  <2>1. up' = up \ {s} /\ s \in HeadServices /\ pc' = pc
    BY <1>12 DEF StopServer, Stopped, CleanFailures
  <2>2. s \notin Running'
    BY <2>1 DEF Running, HeadServices
  <2>3. s \notin mine'[m] /\ mine'[m] \subseteq mine[m]
    BY <1>12, <2>2 DEF StopServer, Stopped, Credit
  <2> QED
    BY <1>12, <2>1, <2>3 DEF StopServer, Stopped
<1>13. CASE StopWorkers(m)
  BY <1>13 DEF StopWorkers, StopDaemons, StopSrunStep, Stopped
<1> QED
  BY <1>3, <1>4, <1>5, <1>8, <1>9, <1>10, <1>11, <1>12, <1>13, StepKinds DEF Launches, Stops

LEMMA LaunchedIsFlaggedNext ==
  ASSUME CleanFailures
  PROVE  TypeOK /\ LaunchedIsFlagged /\ [Next]_vars => LaunchedIsFlagged'
<1> SUFFICES ASSUME TypeOK, LaunchedIsFlagged, [Next]_vars
             PROVE  LaunchedIsFlagged'
  OBVIOUS
<1>1. CASE Die
  BY <1>1 DEF Die, memory, TypeOK, LaunchedIsFlagged
<1>2. CASE UNCHANGED vars
  BY <1>2 DEF vars, memory, LaunchedIsFlagged
<1> QED
  BY <1>1, <1>2, LaunchedIsFlaggedStep DEF Next

\* However many managers run, when start raises, no server it launched is left
\* running, provided that launches fail cleanly and stop commands work.
THEOREM RollbackTakesServersDown ==
  ASSUME CleanFailures
  PROVE  Spec => RollbackStopsServers
<1>1. TypeOK /\ LaunchedIsFlagged /\ [Next]_vars
      => [\A m \in Managers : Ends(m, "rollback") => mine[m] \subseteq {"workers"}]_vars
  BY DEF TypeOK, LaunchedIsFlagged, Ends, Services
<1> QED
  BY <1>1, TypeCorrect, LaunchedIsFlaggedInit, LaunchedIsFlaggedNext, PTL
  DEF Spec, RollbackStopsServers

-----------------------------------------------------------------------------
(***************************************************************************)
(* Racing starts: a rollback spares the servers of others.                 *)
(***************************************************************************)

\* No stop is called, and no server ends of itself.
OnlyStarts == "stop" \notin Calls /\ "die" \notin Faults

LEMMA FlaggedIsMineInit == Init => FlaggedIsMine
  BY DEF Init, FlaggedIsMine

\* m launches S, none of which ran: the credit of the others is untouched.
LEMMA FreshCredit ==
  ASSUME TypeOK, FlaggedIsMine, NEW m \in Managers, NEW S \in SUBSET Services,
         Credit(m, S), S \cap Exclusive \cap up = {}, up \subseteq up'
  PROVE  /\ \A o \in Managers \ {m} : mine'[o] \cap Exclusive = mine[o] \cap Exclusive
         /\ mine'[m] \cap Exclusive = (mine[m] \cup (S \cap Running')) \cap Exclusive
         /\ \A o \in Managers : mine'[o] \cap Exclusive \subseteq up'
<1>1. Running' \cap Exclusive = up' \cap Exclusive
  BY DEF Running, Exclusive, HeadServices
<1>2. \A o \in Managers : mine[o] \cap Exclusive \subseteq up \cap up'
  BY DEF FlaggedIsMine
<1> QED
  BY <1>1, <1>2 DEF TypeOK, Credit

\* What a step of m must satisfy, for the others and for itself.
OthersSpared(m) ==
  \A o \in Managers \ {m} : /\ mine'[o] \cap Exclusive = mine[o] \cap Exclusive
                            /\ mine'[o] \cap Exclusive \subseteq up'

OwnAccount(m) ==
  /\ pc'[m] # "stop"
  /\ mine'[m] \cap Exclusive \subseteq up'
  /\ pc'[m] = "start" => tracker'[m] \cap Exclusive \subseteq mine'[m]
  /\ pc'[m] = "rollback" => todo'[m] \cap Exclusive \subseteq mine'[m]
  /\ \A o \in Managers \ {m} : mine'[m] \cap mine[o] \cap Exclusive = {}

LEMMA LaunchAccount ==
  ASSUME TypeOK, FlaggedIsMine, NEW m \in Managers, Launches(m)
  PROVE  OthersSpared(m) /\ OwnAccount(m)
<1> USE DEF TypeOK
<1>1. ASSUME NEW s \in Services, StartServer(m, s)
      PROVE  OthersSpared(m) /\ OwnAccount(m)
  <2>1. /\ pc[m] = "start" /\ Started(m, s) /\ Credit(m, {s})
        /\ up' = up \cup {s} /\ s \in HeadServices /\ (s \in up => s = "jupyter")
    BY <1>1 DEF StartServer
  <2>2. s \in Running' /\ {s} \cap Exclusive \cap up = {}
    BY <2>1 DEF Running, Exclusive
  <2>3. /\ \A o \in Managers \ {m} : mine'[o] \cap Exclusive = mine[o] \cap Exclusive
        /\ mine'[m] \cap Exclusive = (mine[m] \cup {s}) \cap Exclusive
        /\ \A o \in Managers : mine'[o] \cap Exclusive \subseteq up'
    BY <2>1, <2>2, FreshCredit
  <2>4. \A o \in Managers \ {m} : s \notin mine[o] \cap Exclusive
    BY <2>1, <2>2 DEF FlaggedIsMine
  <2> QED
    BY <2>1, <2>3, <2>4 DEF OthersSpared, OwnAccount, FlaggedIsMine, Started
<1>2. CASE MetastoreSetupFail(m)
  <2>1. /\ pc[m] = "start" /\ Raised(m) /\ Credit(m, {"postgres"})
        /\ up' = up \cup {"postgres"} /\ "postgres" \notin up
    BY <1>2 DEF MetastoreSetupFail
  <2>2. /\ "postgres" \in Running' /\ {"postgres"} \cap Exclusive \cap up = {}
        /\ "postgres" \in Services
    BY <2>1 DEF Running, Services, HeadServices
  <2>3. /\ \A o \in Managers \ {m} : mine'[o] \cap Exclusive = mine[o] \cap Exclusive
        /\ mine'[m] \cap Exclusive = (mine[m] \cup {"postgres"}) \cap Exclusive
        /\ \A o \in Managers : mine'[o] \cap Exclusive \subseteq up'
    BY <2>1, <2>2, FreshCredit
  <2>4. \A o \in Managers \ {m} : "postgres" \notin mine[o] \cap Exclusive
    BY <2>1 DEF FlaggedIsMine
  <2> QED
    BY <2>1, <2>3, <2>4 DEF OthersSpared, OwnAccount, FlaggedIsMine, Raised, Goto
<1>3. CASE StartLocalWorker(m) \/ StartSshWorkers(m) \/ StartSrunWorkers(m)
  <2>1. /\ pc[m] = "start" /\ up' = up
        /\ Started(m, "workers") \/ Raised(m)
        /\ mine' = mine \/ Credit(m, {"workers"})
    BY <1>3 DEF StartLocalWorker, StartSshWorkers, StartSrunWorkers, procs
  <2>2. {"workers"} \cap Exclusive = {} /\ "workers" \in Services
    BY DEF Exclusive, HeadServices, Services
  <2>3. /\ \A o \in Managers : mine'[o] \cap Exclusive = mine[o] \cap Exclusive
        /\ \A o \in Managers : mine'[o] \cap Exclusive \subseteq up'
    <3>1. CASE mine' = mine
      BY <2>1, <3>1 DEF FlaggedIsMine
    <3>2. CASE Credit(m, {"workers"})
      BY <2>1, <2>2, <3>2, FreshCredit
    <3> QED
      BY <2>1, <3>1, <3>2
  <2>4. CASE Started(m, "workers")
    BY <2>1, <2>2, <2>3, <2>4 DEF OthersSpared, OwnAccount, FlaggedIsMine, Started
  <2>5. CASE Raised(m)
    BY <2>1, <2>3, <2>5 DEF OthersSpared, OwnAccount, FlaggedIsMine, Raised, Goto
  <2> QED
    BY <2>1, <2>4, <2>5
<1> QED
  BY <1>1, <1>2, <1>3 DEF Launches

LEMMA StopAccount ==
  ASSUME TypeOK, FlaggedIsMine, NEW m \in Managers, Stops(m)
  PROVE  OthersSpared(m) /\ OwnAccount(m)
<1> USE DEF TypeOK
<1>1. CASE StopWorkers(m)
  BY <1>1 DEF StopWorkers, StopDaemons, StopSrunStep, Stopped, FlaggedIsMine
<1>2. ASSUME NEW s \in Services, StopServer(m, s)
      PROVE  OthersSpared(m) /\ OwnAccount(m)
  <2>1. /\ pc[m] = "rollback" /\ s \in todo[m] /\ Credit(m, {})
        /\ up' \in {up, up \ {s}} /\ pc' = pc
        /\ todo' = [todo EXCEPT ![m] = @ \ {s}]
    BY <1>2 DEF StopServer, Stopped, Turn, FlaggedIsMine
  <2>2. s \in Exclusive => \A o \in Managers \ {m} : s \notin mine[o]
    BY <2>1 DEF FlaggedIsMine
  <2>3. Running' \cap Exclusive = up' \cap Exclusive
    BY DEF Running, Exclusive, HeadServices
  <2>4. \A o \in Managers : mine'[o] \cap Exclusive = (mine[o] \cap Exclusive) \cap up'
    BY <2>1, <2>3 DEF Credit
  <2>5. OthersSpared(m)
    BY <2>1, <2>2, <2>4 DEF OthersSpared, FlaggedIsMine
  <2>6. todo'[m] \cap Exclusive \subseteq mine'[m]
    BY <2>1, <2>4 DEF FlaggedIsMine
  <2> QED
    BY <2>1, <2>4, <2>5, <2>6 DEF OwnAccount, FlaggedIsMine
<1> QED
  BY <1>1, <1>2 DEF Stops

\* Without a stop command only a rollback takes down one of Exclusive.
LEMMA AwayAccount ==
  ASSUME TypeOK, FlaggedIsMine, NEW m \in Managers, Away(m)
  PROVE  OthersSpared(m) /\ OwnAccount(m)
<1>1. Running' \cap Exclusive = up' \cap Exclusive
  BY DEF Running, Exclusive, HeadServices
<1>2. \A o \in Managers : mine[o] \cap Exclusive \subseteq up'
  BY DEF Away, Exclusive, FlaggedIsMine
<1>3. \A o \in Managers \ {m} : mine'[o] \cap Exclusive = mine[o] \cap Exclusive
  BY <1>1, <1>2 DEF TypeOK, Away
<1>4. mine'[m] \subseteq mine[m]
  BY DEF TypeOK, Away
<1> QED
  BY <1>2, <1>3, <1>4 DEF OthersSpared, OwnAccount, FlaggedIsMine, Away

LEMMA FlaggedIsMineStep ==
  ASSUME OnlyStarts, TypeOK, FlaggedIsMine, NEW m \in Managers, ManagerStep(m)
  PROVE  FlaggedIsMine'
<1>1. \A o \in Managers \ {m} : SameAs(o)
  BY StepKinds
<1>2. OthersSpared(m) /\ OwnAccount(m)
  <2>1. CASE BeginStart(m)
    BY <2>1 DEF TypeOK, BeginStart, Goto, procs, OthersSpared, OwnAccount, FlaggedIsMine
  <2>2. CASE BeginStop(m)
    BY <2>2 DEF BeginStop, Called, OnlyStarts
  <2>3. CASE SkipHistory(m)
    BY <2>3 DEF TypeOK, SkipHistory, procs, OthersSpared, OwnAccount, FlaggedIsMine
  <2>4. ASSUME NEW s \in Services, LaunchFail(m, s)
        PROVE  OthersSpared(m) /\ OwnAccount(m)
    BY <2>4 DEF TypeOK, LaunchFail, Raised, Goto, procs, OthersSpared, OwnAccount, FlaggedIsMine
  <2> QED
    BY <2>1, <2>2, <2>3, <2>4, StepKinds, AwayAccount, LaunchAccount, StopAccount
<1>3. ASSUME NEW o \in Managers \ {m}
      PROVE  /\ pc'[o] # "stop"
             /\ mine'[o] \cap Exclusive \subseteq up'
             /\ pc'[o] = "start" => tracker'[o] \cap Exclusive \subseteq mine'[o]
             /\ pc'[o] = "rollback" => todo'[o] \cap Exclusive \subseteq mine'[o]
  BY <1>1, <1>2 DEF FlaggedIsMine, OthersSpared, SameAs
<1>4. ASSUME NEW o \in Managers, NEW q \in Managers \ {o}
      PROVE  mine'[o] \cap mine'[q] \cap Exclusive = {}
  <2>1. CASE o = m
    BY <1>2, <2>1 DEF OthersSpared, OwnAccount
  <2>2. CASE q = m
    BY <1>2, <2>2 DEF OthersSpared, OwnAccount
  <2>3. CASE o # m /\ q # m
    BY <1>2, <2>3 DEF FlaggedIsMine, OthersSpared
  <2> QED
    BY <2>1, <2>2, <2>3
<1>5. ASSUME NEW o \in Managers
      PROVE  /\ pc'[o] # "stop"
             /\ mine'[o] \cap Exclusive \subseteq up'
             /\ pc'[o] = "start" => tracker'[o] \cap Exclusive \subseteq mine'[o]
             /\ pc'[o] = "rollback" => todo'[o] \cap Exclusive \subseteq mine'[o]
  BY <1>2, <1>3 DEF OwnAccount
<1> QED
  BY <1>4, <1>5 DEF FlaggedIsMine

LEMMA FlaggedIsMineNext ==
  ASSUME OnlyStarts
  PROVE  TypeOK /\ FlaggedIsMine /\ [Next]_vars => FlaggedIsMine'
<1> SUFFICES ASSUME TypeOK, FlaggedIsMine, [Next]_vars
             PROVE  FlaggedIsMine'
  OBVIOUS
<1>1. CASE Die
  BY <1>1 DEF Die, OnlyStarts
<1>2. CASE UNCHANGED vars
  BY <1>2 DEF vars, procs, memory, FlaggedIsMine
<1> QED
  BY <1>1, <1>2, FlaggedIsMineStep DEF Next

\* What a step takes away during a rollback, its own start had launched.
LEMMA RollbackStep ==
  ASSUME OnlyStarts, TypeOK, FlaggedIsMine, [Next]_vars, NEW m \in Managers,
         pc[m] = "rollback", todo'[m] # todo[m]
  PROVE  up \ up' \subseteq mine[m] \cup {"jupyter"}
<1>1. ManagerStep(m)
  <2>1. ~UNCHANGED vars /\ ~Die
    BY DEF vars, memory, Die, OnlyStarts
  <2>2. PICK o \in Managers : ManagerStep(o)
    BY <2>1 DEF Next
  <2> QED
    BY <2>2, StepKinds DEF SameAs
<1>2. ASSUME NEW s \in Services, StopServer(m, s)
      PROVE  up \ up' \subseteq mine[m] \cup {"jupyter"}
  BY <1>2 DEF StopServer, Stopped, Turn, FlaggedIsMine, Exclusive
<1>3. CASE Away(m)
  BY <1>3 DEF Away
<1>4. CASE Launches(m)
  BY <1>4 DEF Launches, StartServer, MetastoreSetupFail, StartLocalWorker,
              StartSshWorkers, StartSrunWorkers
<1>5. CASE BeginStart(m) \/ BeginStop(m) \/ SkipHistory(m) \/ StopWorkers(m)
  BY <1>5 DEF BeginStart, BeginStop, SkipHistory, StopWorkers, StopDaemons,
              StopSrunStep, procs
<1>6. ASSUME NEW s \in Services, LaunchFail(m, s)
      PROVE  up \ up' \subseteq mine[m] \cup {"jupyter"}
  BY <1>6 DEF LaunchFail, procs
<1> QED
  BY <1>1, <1>2, <1>3, <1>4, <1>5, <1>6, StepKinds DEF Stops

\* However many managers start at once, and whatever of that fails: the
\* rollback of a start takes down no server that another start launched.
THEOREM RacingRollbackSparesOthers ==
  ASSUME OnlyStarts
  PROVE  Spec => RollbackSparesOthers
<1>1. TypeOK /\ FlaggedIsMine /\ [Next]_vars
      => [\A m \in Managers :
            pc[m] = "rollback" /\ todo'[m] # todo[m]
              => up \ up' \subseteq mine[m] \cup {"jupyter"}]_vars
  BY RollbackStep
<1> QED
  BY <1>1, TypeCorrect, FlaggedIsMineInit, FlaggedIsMineNext, PTL
  DEF Spec, RollbackSparesOthers

-----------------------------------------------------------------------------
(***************************************************************************)
(* What a step of one manager leaves alone.                                *)
(***************************************************************************)

\* The manager o is where it was, with what it had in memory.
Untouched(o) ==
  /\ pc'[o] = pc[o] /\ cfg'[o] = cfg[o] /\ todo'[o] = todo[o]
  /\ tracker'[o] = tracker[o] /\ targets'[o] = targets[o]

LEMMA LeaveTouchesOne ==
  ASSUME TypeOK, NEW m \in Managers, NEW label, Leave(m, label)
  PROVE  \A o \in Managers \ {m} : Untouched(o)
  BY DEF TypeOK, Leave, Goto, Untouched

LEMMA ReturnTouchesOne ==
  ASSUME TypeOK, NEW m \in Managers, Return(m)
  PROVE  \A o \in Managers \ {m} : Untouched(o)
  BY LeaveTouchesOne DEF Return

LEMMA ConfigureTouchesOne ==
  ASSUME TypeOK, NEW m \in Managers, ConfigureStep(m)
  PROVE  alloc' = alloc /\ \A o \in Managers \ {m} : Untouched(o)
<1> USE DEF memory
<1>1. CASE SettingsFail(m) \/ ConfigureFail(m)
  BY <1>1, ReturnTouchesOne DEF SettingsFail, ConfigureFail
<1>2. CASE BeginConfigure(m) \/ WriteSettings(m) \/ WriteWorkers(m) \/ SaveConfig(m) \/ SetWorkers(m)
  BY <1>2 DEF TypeOK, BeginConfigure, WriteSettings, WriteWorkers, SaveConfig, SetWorkers,
              Goto, Untouched
<1> QED
  BY <1>1, <1>2 DEF ConfigureStep

LEMMA StartTouchesOne ==
  ASSUME TypeOK, NEW m \in Managers, StartStep(m)
  PROVE  alloc' = alloc /\ \A o \in Managers \ {m} : Untouched(o)
<1> USE DEF memory
<1>1. CASE StartWithoutWorkersFile(m) \/ RecordStart(m)
  BY <1>1, ReturnTouchesOne DEF StartWithoutWorkersFile, RecordStart
<1>2. CASE BeginStart(m) \/ SkipHistory(m)
  BY <1>2 DEF TypeOK, BeginStart, SkipHistory, Goto, Untouched
<1>3. ASSUME NEW s \in Services, Started(m, s)
      PROVE  alloc' = alloc /\ \A o \in Managers \ {m} : Untouched(o)
  BY <1>3 DEF TypeOK, Started, Untouched
<1>4. ASSUME Raised(m)
      PROVE  alloc' = alloc /\ \A o \in Managers \ {m} : Untouched(o)
  BY <1>4 DEF TypeOK, Raised, Goto, Untouched
<1>5. CASE StartLocalWorker(m) \/ StartSshWorkers(m) \/ StartSrunWorkers(m)
  <2>1. Started(m, "workers") \/ Raised(m)
    BY <1>5 DEF StartLocalWorker, StartSshWorkers, StartSrunWorkers
  <2> QED
    BY <1>3, <1>4, <2>1 DEF Services
<1> QED
  BY <1>1, <1>2, <1>3, <1>4, <1>5 DEF StartStep, StartServer, LaunchFail, MetastoreSetupFail

LEMMA StopTouchesOne ==
  ASSUME TypeOK, NEW m \in Managers, StopStep(m)
  PROVE  alloc' = alloc /\ \A o \in Managers \ {m} : Untouched(o)
<1>1. CASE StopCannotInfer(m) \/ StopWorkersFail(m) \/ RecordStop(m) \/ EndRollback(m)
  BY <1>1, ReturnTouchesOne DEF StopCannotInfer, StopWorkersFail, RecordStop, EndRollback
<1>2. CASE BeginStop(m)
  BY <1>2 DEF TypeOK, BeginStop, Goto, Untouched
<1>3. ASSUME NEW s \in Services, Stopped(m, s)
      PROVE  alloc' = alloc /\ \A o \in Managers \ {m} : Untouched(o)
  BY <1>3 DEF TypeOK, Stopped, Untouched
<1> QED
  BY <1>1, <1>2, <1>3, ServiceSets
  DEF StopStep, StopServer, StopWorkers, StopDaemons, StopSrunStep

LEMMA CutTouchesOne ==
  ASSUME TypeOK, NEW m \in Managers, NEW label, CutShort(m, label)
  PROVE  /\ UNCHANGED <<alloc, disk>>
         /\ \A o \in Managers \ {m} : Untouched(o)
  BY LeaveTouchesOne DEF CutShort, CutBetween, CutBeforePidFile, CutDuringSsh

LEMMA ManagerTouchesOne ==
  ASSUME TypeOK, NEW m \in Managers, ManagerStep(m)
  PROVE  alloc' = alloc /\ \A o \in Managers \ {m} : Untouched(o)
<1>1. CASE Create(m) \/ Load(m)
  BY <1>1 DEF TypeOK, Create, Load, Goto, Untouched
<1>2. CASE Exit(m) \/ Clean(m)
  BY <1>2, LeaveTouchesOne DEF Exit, Clean, Return
<1>3. CASE Kill(m)
  BY <1>3, CutTouchesOne DEF Kill
<1> QED
  BY <1>1, <1>2, <1>3, ConfigureTouchesOne, StartTouchesOne, StopTouchesOne DEF ManagerStep

-----------------------------------------------------------------------------
(***************************************************************************)
(* A start that returns is complete.                                       *)
(***************************************************************************)

\* The services that a start with the configuration c launches in any case.
Wanted(c) == {"master", "workers"} \cup (c \cap (HeadServices \ {"history"}))

\* The workers m has flagged run on all its nodes; a step that was theirs may
\* have lost its pid file to a clean or to another start.
WorkersRun(m) ==
  \/ targets[m] \subseteq daemons
  \/ "srun" \in cfg[m] /\ (targets[m] \subseteq step \/ "srun" \in orphan)

\* What a start wants, it has flagged or has still to launch.
OnTheWay(m) ==
  /\ Wanted(cfg[m]) \subseteq tracker[m] \cup todo[m]
  /\ "workers" \in tracker[m] => WorkersRun(m)

EachOnTheWay == \A m \in Managers : pc[m] = "start" => OnTheWay(m)

LEMMA InitOnTheWay == Init => EachOnTheWay
  BY DEF Init, EachOnTheWay

\* Where no cluster is stopped and nothing ends of itself, the workers stay, or
\* their step becomes one that no pid file names.
LEMMA WorkersStay ==
  ASSUME OnlyStarts, TypeOK, FlaggedIsMine, NEW m \in Managers, ManagerStep(m)
  PROVE  /\ daemons \subseteq daemons' /\ orphan \subseteq orphan'
         /\ step' = step \/ step = {} \/ "srun" \in orphan'
<1>1. CASE Create(m) \/ Load(m) \/ Exit(m) \/ ConfigureStep(m)
  BY <1>1 DEF Create, Load, Exit, ConfigureStep, BeginConfigure, WriteSettings, SettingsFail,
              WriteWorkers, ConfigureFail, SaveConfig, SetWorkers, procs
<1>2. CASE StartStep(m)
  BY <1>2 DEF StartStep, BeginStart, StartWithoutWorkersFile, StartServer, LaunchFail, SkipHistory,
              MetastoreSetupFail, StartLocalWorker, StartSshWorkers, StartSrunWorkers, RecordStart,
              procs
<1>3. CASE StopStep(m)
  <2>1. ~StopWorkers(m)
    BY DEF StopWorkers, StopDaemons, StopSrunStep, FlaggedIsMine
  <2> QED
    BY <1>3, <2>1 DEF StopStep, BeginStop, StopCannotInfer, StopServer, StopWorkersFail, RecordStop,
                      EndRollback, Stopped, procs
<1>4. CASE Clean(m)
  BY <1>4 DEF Clean
<1>5. CASE Kill(m)
  BY <1>5 DEF Kill, CutShort, CutBetween, CutBeforePidFile, CutDuringSsh, procs
<1> QED
  BY <1>1, <1>2, <1>3, <1>4, <1>5 DEF ManagerStep

LEMMA StayingWorkersRun ==
  ASSUME OnlyStarts, TypeOK, FlaggedIsMine, NEW m \in Managers, ManagerStep(m),
         NEW o \in Managers, WorkersRun(o), cfg'[o] = cfg[o], targets'[o] = targets[o]
  PROVE  WorkersRun(o)'
  BY WorkersStay DEF WorkersRun

\* m's own start goes on.
LEMMA OwnWay ==
  ASSUME OnlyStarts, TypeOK, FlaggedIsMine, EachOnTheWay, NEW m \in Managers, ManagerStep(m),
         pc'[m] = "start"
  PROVE  OnTheWay(m)'
<1> USE DEF TypeOK
<1>1. CASE BeginStart(m)
  BY <1>1 DEF BeginStart, OnTheWay, Wanted
<1>2. CASE SkipHistory(m)
  <2>1. OnTheWay(m)
    BY <1>2 DEF SkipHistory, EachOnTheWay
  <2> QED
    BY <1>2, <2>1, StayingWorkersRun DEF SkipHistory, OnTheWay, Wanted
<1>3. ASSUME NEW s \in Services, Started(m, s), pc[m] = "start",
             s = "workers" => WorkersRun(m)'
      PROVE  OnTheWay(m)'
  <2>1. OnTheWay(m)
    BY <1>3 DEF EachOnTheWay
  <2>2. /\ cfg'[m] = cfg[m] /\ targets'[m] = targets[m]
        /\ tracker'[m] = tracker[m] \cup {s} /\ todo'[m] = todo[m] \ {s}
    BY <1>3 DEF Started
  <2> QED
    BY <1>3, <2>1, <2>2, StayingWorkersRun DEF OnTheWay, Wanted
<1>4. ASSUME NEW s \in Services, StartServer(m, s) PROVE OnTheWay(m)'
  BY <1>3, <1>4 DEF StartServer, HeadServices
<1>5. CASE StartLocalWorker(m) \/ StartSshWorkers(m) \/ StartSrunWorkers(m)
  <2>1. pc[m] = "start" /\ ~Raised(m)
    BY <1>5 DEF StartLocalWorker, StartSshWorkers, StartSrunWorkers, Raised, Goto
  <2>2. Started(m, "workers")
    BY <1>5, <2>1 DEF StartLocalWorker, StartSshWorkers, StartSrunWorkers
  <2>3. targets'[m] = targets[m] /\ cfg'[m] = cfg[m]
    BY <2>2 DEF Started
  <2>4. targets[m] \subseteq daemons' \/ ("srun" \in cfg[m] /\ targets[m] \subseteq step')
    BY <1>5, <2>1 DEF StartLocalWorker, StartSshWorkers, StartSrunWorkers, IsSingleNode
  <2> QED
    BY <1>3, <2>1, <2>2, <2>3, <2>4 DEF WorkersRun, Services
<1>6. ~MetastoreSetupFail(m) /\ ~Away(m) /\ ~BeginStop(m) /\ ~Stops(m)
      /\ ~\E s \in Services : LaunchFail(m, s)
  BY DEF MetastoreSetupFail, Raised, Goto, Away, BeginStop, Stops, StopWorkers, StopDaemons,
         StopSrunStep, StopServer, Stopped, LaunchFail
<1> QED
  BY <1>1, <1>2, <1>4, <1>5, <1>6, StepKinds DEF Launches

LEMMA OnTheWayNext ==
  ASSUME OnlyStarts
  PROVE  TypeOK /\ FlaggedIsMine /\ EachOnTheWay /\ [Next]_vars => EachOnTheWay'
<1> SUFFICES ASSUME TypeOK, FlaggedIsMine, EachOnTheWay, [Next]_vars
             PROVE  EachOnTheWay'
  OBVIOUS
<1>1. ~Die
  BY DEF Die, OnlyStarts
<1>2. CASE UNCHANGED vars
  BY <1>2 DEF vars, procs, memory, EachOnTheWay, OnTheWay, WorkersRun
<1>3. ASSUME NEW m \in Managers, ManagerStep(m), NEW o \in Managers, pc'[o] = "start"
      PROVE  OnTheWay(o)'
  <2>1. CASE o = m
    BY <1>3, <2>1, OwnWay
  <2>2. CASE o # m
    <3>1. Untouched(o)
      BY <1>3, <2>2, ManagerTouchesOne
    <3>2. OnTheWay(o)
      BY <1>3, <3>1 DEF EachOnTheWay, Untouched
    <3>3. WorkersRun(o) => WorkersRun(o)'
      BY <1>3, <3>1, StayingWorkersRun DEF Untouched
    <3> QED
      BY <3>1, <3>2, <3>3 DEF OnTheWay, Untouched
  <2> QED
    BY <2>1, <2>2
<1> QED
  BY <1>1, <1>2, <1>3 DEF Next, EachOnTheWay

\* However many managers start at once in any order with configures, cleans,
\* failures and kills: when start returns, all it was to launch runs, on every
\* node that its workers file named.
THEOREM StartsAreComplete ==
  ASSUME OnlyStarts
  PROVE  Spec => StartIsComplete
<1>1. ASSUME FlaggedIsMine, EachOnTheWay, NEW m \in Managers, Ends(m, "start")
      PROVE  /\ {"master"} \cup (cfg[m] \cap (HeadServices \ {"history", "jupyter"})) \subseteq up
             /\ \/ targets[m] \subseteq daemons \cup step
                \/ "srun" \in cfg[m] \cap orphan
  <2>1. OnTheWay(m) /\ todo[m] = {} /\ pc[m] = "start"
    BY <1>1 DEF Ends, EachOnTheWay
  <2>2. tracker[m] \cap Exclusive \subseteq up
    BY <1>1, <2>1 DEF FlaggedIsMine
  <2> QED
    BY <2>1, <2>2 DEF OnTheWay, Wanted, WorkersRun, Exclusive, HeadServices
<1>2. FlaggedIsMine /\ EachOnTheWay /\ [Next]_vars
      => [\A m \in Managers :
            Ends(m, "start") => /\ {"master"} \cup (cfg[m] \cap (HeadServices \ {"history", "jupyter"})) \subseteq up
                                /\ \/ targets[m] \subseteq daemons \cup step
                                   \/ "srun" \in cfg[m] \cap orphan]_vars
  BY <1>1
<1> QED
  BY <1>2, TypeCorrect, FlaggedIsMineInit, FlaggedIsMineNext, InitOnTheWay, OnTheWayNext, PTL
  DEF Spec, StartIsComplete
=============================================================================

------------------------ MODULE ManagedCluster_proofs -----------------------
(***************************************************************************)
(* Theorems about ManagedCluster: any number of sessions and commands on   *)
(* one directory, for all nodes, configurations and timeouts.              *)
(***************************************************************************)
EXTENDS ManagedCluster, ClusterLifecycle_proofs

(***************************************************************************)
(* Type correctness, and where the operations of a session lead.           *)
(***************************************************************************)

\* Only programs have sessions.
SessionsOfPrograms == \A m \in Managers : plan[m] # "none" => m \notin Cli

SessionBase == TypeOK /\ SessionTypeOK /\ SessionsOfPrograms

LEMMA SessionInitBase == SessionInit => SessionBase
  BY InitType DEF SessionInit, SessionBase, SessionTypeOK, SessionsOfPrograms

\* A configure of a program is on its way or over, and so are its start, the
\* rollback of that, and its stop.
LEMMA ConfigureLeads ==
  ASSUME TypeOK, NEW m \in Managers \ Cli, ConfigureStep(m), ~SetWorkers(m)
  PROVE  pc'[m] \in {"idle", "settings", "workers", "save"}
  BY DEF TypeOK, ConfigureStep, BeginConfigure, WriteSettings, SettingsFail, WriteWorkers,
         ConfigureFail, SaveConfig, Return, Leave, Goto

LEMMA StartLeads ==
  ASSUME TypeOK, NEW m \in Managers \ Cli, StartStep(m)
  PROVE  pc'[m] \in {"idle", "start", "rollback"}
<1>1. CASE StartWithoutWorkersFile(m) \/ RecordStart(m)
  BY <1>1 DEF TypeOK, StartWithoutWorkersFile, RecordStart, Return, Leave, Goto
<1>2. CASE BeginStart(m) \/ SkipHistory(m)
  BY <1>2 DEF TypeOK, BeginStart, SkipHistory, Goto
<1>3. ASSUME NEW s, pc[m] = "start", Started(m, s) \/ Raised(m)
      PROVE  pc'[m] \in {"idle", "start", "rollback"}
  BY <1>3 DEF TypeOK, Started, Raised, Goto
<1> QED
  BY <1>1, <1>2, <1>3
  DEF StartStep, StartServer, LaunchFail, MetastoreSetupFail, StartLocalWorker,
      StartSshWorkers, StartSrunWorkers

LEMMA StopLeads ==
  ASSUME TypeOK, NEW m \in Managers \ Cli, StopStep(m)
  PROVE  /\ pc[m] \in {"idle", "stop", "rollback"}
         /\ pc[m] = "rollback" => pc'[m] \in {"idle", "rollback"}
         /\ pc[m] # "rollback" => pc'[m] \in {"idle", "stop"}
<1>1. CASE StopCannotInfer(m) \/ StopWorkersFail(m) \/ RecordStop(m) \/ EndRollback(m)
  BY <1>1 DEF TypeOK, StopCannotInfer, StopWorkersFail, RecordStop, EndRollback,
              Return, Leave, Goto
<1>2. CASE BeginStop(m)
  BY <1>2 DEF TypeOK, BeginStop, Goto
<1>3. ASSUME NEW s, pc[m] \in {"rollback", "stop"}, Stopped(m, s)
      PROVE  pc[m] \in {"rollback", "stop"} /\ pc' = pc
  BY <1>3 DEF Stopped
<1> QED
  BY <1>1, <1>2, <1>3 DEF StopStep, StopServer, StopWorkers, StopDaemons, StopSrunStep

LEMMA CutLeads ==
  ASSUME TypeOK, NEW m \in Managers, NEW label \in {"idle", "none"}, CutShort(m, label)
  PROVE  pc[m] \in Inside /\ pc'[m] = label
  BY DEF TypeOK, CutShort, CutBetween, CutBeforePidFile, CutDuringSsh, Leave, Goto, Inside

Plans == {"none"} \cup Managed \cup Waiting

ClocksTyped ==
  /\ timeout \in [Managers -> Timeouts \cup {Never}]
  /\ slept \in [Managers -> Nat]

PastTyped == alone \in [Managers -> BOOLEAN] /\ unnamed \subseteq Managers

\* The parts of SessionBase that a step of m can disturb.
LEMMA PlanBase ==
  ASSUME SessionBase, TypeOK', NEW m \in Managers \ Cli, NEW phase \in Plans,
         PlanTo(m, phase), ClocksTyped', PastTyped',
         \A o \in Managers \ {m} : Untouched(o),
         phase # "none" => pc'[m] # "none",
         phase \in {"body", "sleep"} => pc'[m] = "idle"
  PROVE  SessionBase'
<1>1. /\ plan' \in [Managers -> Plans]
      /\ plan'[m] = phase /\ \A o \in Managers \ {m} : plan'[o] = plan[o]
  BY DEF SessionBase, SessionTypeOK, PlanTo, Plans
<1> QED
  BY <1>1
  DEF SessionBase, SessionTypeOK, SessionsOfPrograms, Untouched, ClocksTyped, PastTyped, Plans

LEMMA DisturbType ==
  ASSUME NEW m \in Managers, SessionBase, Disturb(m), unnamed' \subseteq unnamed \cup {m}
  PROVE  PastTyped'
  BY DEF SessionBase, SessionTypeOK, Disturb, PastTyped

\* An operation of a session, that leads on or ends.
LEMMA ProceedBase ==
  ASSUME SessionBase, TypeOK', NEW m \in Managers, plan[m] \in {"configure", "start", "finally", "launch", "shutdown"},
         NEW returned \in BOOLEAN, NEW next \in Plans, NEW otherwise \in Plans,
         Proceed(m, returned, next, otherwise), Disturb(m),
         \A o \in Managers \ {m} : Untouched(o), pc'[m] # "none"
  PROVE  SessionBase'
<1> DEFINE phase == IF pc'[m] # "idle" THEN plan[m] ELSE IF returned THEN next ELSE otherwise
<1>1. phase \in Plans /\ PlanTo(m, phase) /\ (phase \in {"body", "sleep"} => pc'[m] = "idle")
  BY DEF Proceed, Plans, Managed, Waiting
<1>2. ClocksTyped'
  BY DEF Proceed, clock, ClocksTyped, SessionBase, SessionTypeOK
<1>3. m \in Managers \ Cli
  BY DEF SessionBase, SessionsOfPrograms
<1>4. PastTyped'
  BY DisturbType DEF Proceed
<1> HIDE DEF phase
<1> QED
  BY <1>1, <1>2, <1>3, <1>4, PlanBase

LEMMA StartOrRollbackLeads ==
  ASSUME TypeOK, NEW m \in Managers \ Cli, StartOrRollback(m)
  PROVE  /\ TypeOK' /\ alloc' = alloc /\ \A o \in Managers \ {m} : Untouched(o)
         /\ pc'[m] \in {"idle", "start", "rollback"}
  BY StartStepType, StopStepType, StartTouchesOne, StopTouchesOne, StartLeads, StopLeads
  DEF StartOrRollback

LEMMA OperationBase ==
  ASSUME SessionBase, NEW m \in Managers,
         \/ ManagedConfigure(m) \/ ManagedStart(m) \/ ManagedStop(m)
         \/ WaitStart(m) \/ WaitStop(m)
  PROVE  SessionBase'
<1>1. m \in Managers \ Cli /\ TypeOK
  BY DEF SessionBase, SessionsOfPrograms, ManagedConfigure, ManagedStart, ManagedStop,
         WaitStart, WaitStop
<1>2. {"none", "start", "body", "finally", "sleep"} \subseteq Plans
  BY DEF Plans, Managed, Waiting
<1>3. CASE ManagedConfigure(m)
  <2>1. TypeOK' /\ pc'[m] # "none" /\ \A o \in Managers \ {m} : Untouched(o)
    BY <1>1, <1>3, ConfigureStepType, ConfigureTouchesOne, ConfigureLeads DEF ManagedConfigure
  <2> QED
    BY <1>2, <1>3, <2>1, ProceedBase DEF ManagedConfigure
<1>4. CASE ManagedStart(m)
  <2>1. TypeOK' /\ pc'[m] # "none" /\ \A o \in Managers \ {m} : Untouched(o)
    BY <1>1, <1>4, StartOrRollbackLeads DEF ManagedStart
  <2> QED
    BY <1>2, <1>4, <2>1, ProceedBase DEF ManagedStart
<1>5. CASE WaitStart(m)
  <2>1. TypeOK' /\ pc'[m] # "none" /\ \A o \in Managers \ {m} : Untouched(o)
    BY <1>1, <1>5, StartOrRollbackLeads DEF WaitStart
  <2> QED
    BY <1>2, <1>5, <2>1, ProceedBase DEF WaitStart
<1>6. CASE ManagedStop(m) \/ WaitStop(m)
  <2>1. TypeOK' /\ pc'[m] # "none" /\ \A o \in Managers \ {m} : Untouched(o)
    BY <1>1, <1>6, StopStepType, StopTouchesOne, StopLeads DEF ManagedStop, WaitStop
  <2> QED
    BY <1>2, <1>6, <2>1, ProceedBase DEF ManagedStop, WaitStop
<1> QED
  BY <1>3, <1>4, <1>5, <1>6

\* Ctrl-C and kills, wherever they hit.
LEMMA InterruptBase ==
  ASSUME SessionBase, NEW m \in Managers,
         InterruptManaged(m) \/ InterruptWait(m) \/ KillSession(m)
  PROVE  SessionBase'
<1>1. m \in Managers \ Cli /\ TypeOK
  BY DEF SessionBase, SessionsOfPrograms, InterruptManaged, InterruptWait, KillSession,
         Managed, Waiting
<1>2. PastTyped' /\ ClocksTyped'
  BY DisturbType
  DEF InterruptManaged, InterruptWait, KillSession, clock, ClocksTyped, SessionBase, SessionTypeOK
<1>3. ASSUME NEW label \in {"idle", "none"}, CutShort(m, label)
      PROVE  TypeOK' /\ pc'[m] = label /\ \A o \in Managers \ {m} : Untouched(o)
  BY <1>1, <1>3, CutShortType, CutTouchesOne, CutLeads DEF Resting
<1>4. CASE InterruptManaged(m)
  <2>1. CASE plan[m] = "finally"
    BY <1>1, <1>2, <1>3, <1>4, <2>1, PlanBase DEF InterruptManaged, Plans
  <2>2. CASE plan[m] # "finally"
    <3>1. TypeOK' /\ pc'[m] = "idle" /\ \A o \in Managers \ {m} : Untouched(o)
      BY <1>3, <1>4, <2>2 DEF InterruptManaged
    <3>2. PlanTo(m, "finally") /\ "finally" \in Plans
      BY <1>4, <2>2 DEF InterruptManaged, Plans, Managed
    <3> QED
      BY <1>1, <1>2, <3>1, <3>2, PlanBase
  <2> QED
    BY <2>1, <2>2
<1>5. CASE InterruptWait(m)
  BY <1>1, <1>2, <1>3, <1>5, PlanBase DEF InterruptWait, Plans
<1>6. CASE KillSession(m)
  <2>1. TypeOK' /\ \A o \in Managers \ {m} : Untouched(o)
    <3>1. CASE CutShort(m, "none")
      BY <1>3, <3>1
    <3>2. CASE UNCHANGED <<alloc, disk, procs>> /\ Leave(m, "none")
      BY <1>1, <3>2, LeaveType, LeaveTouchesOne DEF TypeOK, disk, procs, Resting
    <3> QED
      BY <1>6, <3>1, <3>2 DEF KillSession
  <2> QED
    BY <1>1, <1>2, <1>6, <2>1, PlanBase DEF KillSession, Plans
<1> QED
  BY <1>4, <1>5, <1>6

LEMMA EnterBase ==
  ASSUME SessionBase, NEW m \in Managers, EnterManaged(m) \/ EnterWait(m)
  PROVE  SessionBase'
<1>1. m \in Managers \ Cli /\ TypeOK
  BY DEF SessionBase, EnterManaged, EnterWait
<1>2. PastTyped'
  BY DEF SessionBase, SessionTypeOK, EnterManaged, EnterWait, PastTyped
<1>3. {"configure", "launch"} \subseteq Plans
  BY DEF Plans, Managed, Waiting
<1>4. CASE EnterManaged(m)
  <2>1. TypeOK'
    BY <1>1, <1>4 DEF EnterManaged, TypeOK, disk, procs, Settings
  <2>2. pc'[m] = "idle" /\ \A o \in Managers \ {m} : Untouched(o)
    BY <1>1, <1>4 DEF EnterManaged, TypeOK, Untouched
  <2>3. ClocksTyped'
    BY <1>4 DEF EnterManaged, clock, ClocksTyped, SessionBase, SessionTypeOK
  <2> QED
    BY <1>1, <1>2, <1>3, <1>4, <2>1, <2>2, <2>3, PlanBase DEF EnterManaged
<1>5. CASE EnterWait(m)
  <2>1. TypeOK' /\ \A o \in Managers \ {m} : Untouched(o)
    <3>1. [Next]_vars
      BY <1>1, <1>5 DEF EnterWait, Next, ManagerStep
    <3>2. ManagerStep(m)
      BY <1>5 DEF EnterWait, ManagerStep
    <3> QED
      BY <1>1, <3>1, <3>2, NextType, ManagerTouchesOne
  <2>2. pc'[m] = "idle"
    BY <1>1, <1>5 DEF EnterWait, Load, Goto, TypeOK
  <2>3. ClocksTyped'
    BY <1>5, SessionAssumption DEF EnterWait, ClocksTyped, SessionBase, SessionTypeOK
  <2> QED
    BY <1>1, <1>2, <1>3, <1>5, <2>1, <2>2, <2>3, PlanBase DEF EnterWait
<1> QED
  BY <1>4, <1>5

\* The wait itself, and what may end it or the body.
LEMMA PauseBase ==
  ASSUME SessionBase, NEW m \in Managers,
         LeaveBody(m) \/ Sleep(m) \/ Expire(m) \/ CtrlC(m)
  PROVE  SessionBase'
<1>1. /\ UNCHANGED <<vars, alone, unnamed>> /\ plan[m] # "none" /\ m \in Managers \ Cli
      /\ pc[m] # "none"
  BY DEF LeaveBody, Sleep, Expire, CtrlC, EndWait, past, SessionBase, SessionTypeOK, SessionsOfPrograms
<1>2. /\ TypeOK' /\ PastTyped' /\ pc' = pc
      /\ \A o \in Managers \ {m} : Untouched(o)
  BY <1>1 DEF vars, disk, procs, memory, TypeOK, SessionBase, SessionTypeOK, Untouched, PastTyped
<1>3. CASE LeaveBody(m)
  <2>1. ClocksTyped' /\ "finally" \in Plans
    BY <1>3 DEF LeaveBody, clock, ClocksTyped, SessionBase, SessionTypeOK, Plans, Managed
  <2> QED
    BY <1>1, <1>2, <1>3, <2>1, PlanBase DEF LeaveBody
<1>4. CASE Sleep(m)
  <2>1. timeout[m] \in Nat /\ Interval(m) \in Nat
    BY <1>4, SessionAssumption DEF Sleep, Interval, SessionBase, SessionTypeOK
  <2>2. ClocksTyped'
    BY <1>4, <2>1 DEF Sleep, ClocksTyped, SessionBase, SessionTypeOK
  <2> QED
    BY <1>2, <1>4, <2>2
    DEF Sleep, ClocksTyped, PastTyped, SessionBase, SessionTypeOK, SessionsOfPrograms
<1>5. CASE Expire(m) \/ CtrlC(m)
  <2>1. EndWait(m)
    BY <1>5 DEF Expire, CtrlC
  <2>2. ClocksTyped' /\ "shutdown" \in Plans
    BY <2>1 DEF EndWait, ClocksTyped, SessionBase, SessionTypeOK, Plans, Waiting
  <2> QED
    BY <1>1, <1>2, <2>1, <2>2, PlanBase DEF EndWait
<1> QED
  BY <1>3, <1>4, <1>5

\* A command or a program outside its session.
LEMMA OutsideBase ==
  ASSUME SessionBase, NEW m \in Managers, Command(m) \/ Program(m)
  PROVE  SessionBase'
<1>1. ManagerStep(m) /\ UNCHANGED session
  BY DEF Command, Program, ManagerStep
<1>2. plan[m] = "none"
  BY DEF Command, Program, SessionBase, SessionsOfPrograms
<1>3. TypeOK' /\ \A o \in Managers \ {m} : Untouched(o)
  BY <1>1, NextType, ManagerTouchesOne DEF Next, SessionBase
<1>4. PastTyped'
  BY DisturbType DEF Command, Program, past, PastTyped, SessionBase, SessionTypeOK
<1> QED
  BY <1>1, <1>2, <1>3, <1>4
  DEF PastTyped, session, clock, SessionBase, SessionTypeOK, SessionsOfPrograms, Untouched

LEMMA DieBase == SessionBase /\ SessionDie => SessionBase'
<1> SUFFICES ASSUME SessionBase, SessionDie PROVE SessionBase'
  OBVIOUS
<1>1. TypeOK' /\ pc' = pc
  BY NextType DEF SessionDie, SessionBase, Next, Die
<1> QED
  BY <1>1
  DEF SessionDie, session, clock, past, SessionBase, SessionTypeOK, SessionsOfPrograms

LEMMA SessionNextBase == SessionBase /\ [SessionNext]_sessionVars => SessionBase'
<1> SUFFICES ASSUME SessionBase, [SessionNext]_sessionVars PROVE SessionBase'
  OBVIOUS
<1>1. CASE UNCHANGED sessionVars
  BY <1>1 DEF sessionVars, session, clock, past, vars, disk, procs, memory, SessionBase, TypeOK,
              SessionTypeOK, SessionsOfPrograms
<1>2. ASSUME NEW m \in Managers, Command(m) \/ Program(m) \/ SessionStep(m)
      PROVE  SessionBase'
  BY <1>2, OutsideBase, EnterBase, OperationBase, PauseBase, InterruptBase
  DEF SessionStep, SessionWork
<1> QED
  BY <1>1, <1>2, DieBase DEF SessionNext

\* Sessions are where their managers are, for any number of programs that wait
\* or hold a cluster at once, and for the commands of others in between.
THEOREM SessionTypeCorrect == SessionSpec => []SessionTypeOK
<1>1. SessionBase => SessionTypeOK
  BY DEF SessionBase
<1> QED
  BY <1>1, SessionInitBase, SessionNextBase, PTL DEF SessionSpec

-----------------------------------------------------------------------------
(***************************************************************************)
(* Timeouts are kept.                                                      *)
(***************************************************************************)

\* A wait shorter than an hour is one sleep, a longer one so many hours; of
\* those that go into the timeout evenly none is too many.
OnTime(m) ==
  timeout[m] # Never =>
    /\ timeout[m] < Hour => slept[m] \in {0, timeout[m]}
    /\ timeout[m] >= Hour => \E k \in Nat : slept[m] = k * Hour
    /\ timeout[m] >= Hour /\ timeout[m] % Hour = 0 => slept[m] <= timeout[m]

EachOnTime == \A m \in Managers : OnTime(m)

LEMMA NextMultiple ==
  ASSUME NEW h \in Nat \ {0}, NEW k \in Nat, NEW b \in Nat, b % h = 0, k * h < b
  PROVE  k * h + h <= b
<1> DEFINE j == b \div h
<1>1. j \in Nat /\ b = j * h
  <2>1. b = h * (b \div h) + (b % h) /\ b \div h \in Nat
    OBVIOUS
  <2> QED
    BY <2>1
<1> HIDE DEF j
<1>2. k < j
  <2>1. ASSUME j <= k PROVE j * h <= k * h
    BY <1>1, <2>1
  <2> QED
    BY <1>1, <2>1
<1>3. (k + 1) * h <= j * h
  BY <1>1, <1>2
<1> QED
  BY <1>1, <1>3

LEMMA InitOnTime == SessionInit => EachOnTime
  BY DEF SessionInit, EachOnTime, OnTime

LEMMA SleepOnTime ==
  ASSUME SessionBase, NEW m \in Managers, OnTime(m), Sleep(m)
  PROVE  OnTime(m)'
<1>1. /\ timeout[m] \in Nat /\ slept[m] \in Nat /\ slept[m] < timeout[m]
      /\ timeout' = timeout /\ slept'[m] = slept[m] + Interval(m) /\ Hour \in Nat \ {0}
  BY SessionAssumption DEF Sleep, SessionBase, SessionTypeOK
<1>2. CASE timeout[m] < Hour
  <2>1. slept[m] = 0 /\ Interval(m) = timeout[m]
    BY <1>1, <1>2, SessionAssumption DEF OnTime, Interval
  <2> QED
    BY <1>1, <1>2, <2>1 DEF OnTime
<1>3. CASE timeout[m] >= Hour
  <2>1. Interval(m) = Hour /\ ~(timeout[m] < Hour)
    BY <1>1, <1>3 DEF Interval
  <2>2. PICK k \in Nat : slept[m] = k * Hour
    BY <1>1, <1>3, SessionAssumption DEF OnTime
  <2>3. slept'[m] = (k + 1) * Hour /\ k + 1 \in Nat
    BY <1>1, <2>1, <2>2
  <2>4. timeout[m] % Hour = 0 => slept'[m] <= timeout[m]
    BY <1>1, <2>1, <2>2, NextMultiple
  <2> QED
    BY <1>1, <2>1, <2>3, <2>4 DEF OnTime
<1> QED
  BY <1>1, <1>2, <1>3

\* Nothing but the three steps of a wait touches a clock, and those only one.
LEMMA OthersTime ==
  ASSUME SessionBase, NEW m \in Managers, Command(m) \/ Program(m) \/ SessionStep(m)
  PROVE  \/ UNCHANGED clock
         \/ /\ EnterWait(m) \/ Sleep(m) \/ EndWait(m)
            /\ \A o \in Managers \ {m} : timeout'[o] = timeout[o] /\ slept'[o] = slept[o]
<1>1. CASE EnterWait(m) \/ Sleep(m) \/ Expire(m) \/ CtrlC(m)
  BY <1>1 DEF EnterWait, Sleep, Expire, CtrlC, EndWait, SessionBase, SessionTypeOK
<1>2. CASE LeaveBody(m) \/ EnterManaged(m)
  BY <1>2 DEF LeaveBody, EnterManaged, clock
<1> QED
  BY <1>1, <1>2
  DEF Command, Program, session, SessionStep, SessionWork, ManagedConfigure, ManagedStart,
      ManagedStop, WaitStart, WaitStop, Proceed, InterruptManaged, InterruptWait, KillSession

LEMMA TimeStep ==
  ASSUME SessionBase, EachOnTime, NEW m \in Managers, Command(m) \/ Program(m) \/ SessionStep(m)
  PROVE  EachOnTime'
<1>1. CASE UNCHANGED clock
  BY <1>1 DEF clock, EachOnTime, OnTime
<1>2. CASE ~UNCHANGED clock
  <2>1. /\ EnterWait(m) \/ Sleep(m) \/ EndWait(m)
        /\ \A o \in Managers \ {m} : timeout'[o] = timeout[o] /\ slept'[o] = slept[o]
    BY <1>2, OthersTime
  <2>2. OnTime(m)'
    <3>1. CASE EnterWait(m)
      <4>1. slept'[m] = 0 /\ timeout'[m] \in Nat \cup {Never}
        BY <3>1, SessionAssumption DEF EnterWait, SessionBase, SessionTypeOK
      <4>2. 0 = 0 * Hour
        BY SessionAssumption
      <4> QED
        BY <4>1, <4>2 DEF OnTime
    <3>2. CASE EndWait(m)
      BY <3>2 DEF EndWait, OnTime, SessionBase, SessionTypeOK
    <3> QED
      BY <2>1, <3>1, <3>2, SleepOnTime DEF EachOnTime
  <2>3. \A o \in Managers \ {m} : OnTime(o)'
    BY <2>1 DEF EachOnTime, OnTime
  <2> QED
    BY <2>2, <2>3 DEF EachOnTime
<1> QED
  BY <1>1, <1>2

LEMMA TimeNext == SessionBase /\ EachOnTime /\ [SessionNext]_sessionVars => EachOnTime'
<1>1. UNCHANGED clock /\ EachOnTime => EachOnTime'
  BY DEF clock, EachOnTime, OnTime
<1>2. SessionDie \/ UNCHANGED sessionVars => UNCHANGED clock
  BY DEF SessionDie, sessionVars, session
<1> QED
  BY <1>1, <1>2, TimeStep DEF SessionNext

\* `start --wait` does not wait longer than its timeout, when that is shorter
\* than an hour or a number of hours, for every timeout and however many waits.
THEOREM TimeoutsAreKept == SessionSpec => []WaitsAsAsked
<1>1. SessionBase /\ EachOnTime => WaitsAsAsked
  <2> SUFFICES ASSUME SessionBase, EachOnTime, NEW m \in Managers, timeout[m] # Never,
                      timeout[m] < Hour \/ timeout[m] % Hour = 0
               PROVE  slept[m] <= timeout[m]
    BY DEF WaitsAsAsked
  <2>1. timeout[m] \in Nat /\ Hour \in Nat \ {0} /\ OnTime(m)
    BY SessionAssumption DEF SessionBase, SessionTypeOK, EachOnTime
  <2> QED
    BY <2>1 DEF OnTime
<1> QED
  BY <1>1, SessionInitBase, SessionNextBase, InitOnTime, TimeNext, PTL DEF SessionSpec

-----------------------------------------------------------------------------
(***************************************************************************)
(* A session that has its directory for itself leaves nothing running.     *)
(*                                                                         *)
(* The invariant follows such a session: what runs was launched by it, with*)
(* its configuration, on the nodes of the workers file (Placed), and its   *)
(* own stop would take it for running (Known), although start may have     *)
(* raised or been interrupted anywhere.                                    *)
(***************************************************************************)

\* configure writes the workers file into the conf directory, and nobody else.
FilesAgree ==
  /\ workersFile \in {NoFile, alloc}
  /\ workersFile # NoFile => confDir

\* What runs is where the stop of m looks for it.
Placed(m) ==
  /\ Running # {} => workersFile = alloc
  /\ daemons \subseteq alloc
  /\ daemons # {} => IsSingleNode(alloc) \/ "srun" \notin cfg[m]
  /\ step # {} => ~IsSingleNode(alloc) /\ "srun" \in cfg[m]

\* A stop of m that begins now would take for running what runs.
Known(m) ==
  Running # {} => /\ Running \subseteq Assumed(cfg[m])
                  /\ status = NoFile => defaults # NoFile

\* The start of m has flagged all that runs, and launches nothing twice.
Flagged(m) ==
  /\ Running \subseteq tracker[m]
  /\ workersFile = alloc /\ targets[m] = alloc
  /\ tracker[m] \cap todo[m] = {}
  /\ todo[m] \subseteq (cfg[m] \cap HeadServices) \cup {"master", "history", "workers"}

\* Whatever has no pid file was launched an instant before a Ctrl-C.
Tidy(m) == m \notin unnamed => orphan = {}

Lone(m) ==
  /\ Placed(m)
  /\ Tidy(m)
  /\ plan[m] = "configure" =>
       /\ pc[m] \in {"idle", "settings", "workers", "save"}
       /\ Running = {} /\ status = NoFile
       /\ pc[m] \in {"workers", "save"} => defaults # NoFile
       /\ pc[m] = "save" => workersFile = alloc
  /\ plan[m] = "start" => status = NoFile /\ defaults # NoFile
  /\ plan[m] \in {"start", "launch"} =>
       /\ pc[m] \in {"idle", "start", "rollback"}
       /\ pc[m] = "idle" => Running = {}
       /\ pc[m] = "start" => Flagged(m)
  /\ plan[m] \in {"start", "body", "sleep"} => Known(m)
  /\ plan[m] \in {"finally", "shutdown"} =>
       /\ pc[m] \in {"idle", "stop"}
       /\ pc[m] = "idle" => Known(m)
       /\ pc[m] = "stop" => Running \subseteq todo[m]

EachLone == \A m \in Managers : plan[m] # "none" /\ alone[m] => Lone(m)

SessionInv == SessionBase /\ FilesAgree /\ EachLone

LEMMA InitLone == SessionInit => FilesAgree /\ EachLone
  BY DEF SessionInit, Init, FilesAgree, EachLone

LEMMA NoFileIsNone ==
  ASSUME TypeOK
  PROVE  /\ alloc # NoFile /\ Host \in Nodes
         /\ \A m \in Managers : tracker[m] # NoFile /\ HistorySetting(cfg[m]) # NoFile
  BY LifecycleAssumption DEF TypeOK, HistorySetting

LEMMA RunningShrinks ==
  ASSUME up' \subseteq up, daemons' \subseteq daemons, step' \subseteq step
  PROVE  Running' \subseteq Running
  BY DEF Running

\* Nothing that m relies on changes, or less of it runs.
LEMMA LoneFewer ==
  ASSUME NEW m \in Managers, Lone(m), UNCHANGED <<alloc, disk>>,
         up' \subseteq up, daemons' \subseteq daemons, step' \subseteq step, orphan' = orphan,
         Untouched(m), plan'[m] = plan[m], m \in unnamed => m \in unnamed'
  PROVE  Lone(m)'
<1>1. Running' \subseteq Running /\ Assumed(cfg[m])' = Assumed(cfg[m])
  BY RunningShrinks DEF Assumed, disk, Untouched
<1>2. Placed(m)'
  BY <1>1 DEF Lone, Placed, IsSingleNode, disk, Untouched
<1>3. Known(m) => Known(m)'
  BY <1>1 DEF Known, disk, Untouched, Assumed
<1>4. Flagged(m) => Flagged(m)'
  BY <1>1 DEF Flagged, disk, Untouched
<1>5. Tidy(m)'
  BY DEF Lone, Tidy
<1> QED
  BY <1>1, <1>2, <1>3, <1>4, <1>5 DEF Lone, disk, Untouched

\* Nothing runs, so nothing is out of place.
LEMMA LoneByNone ==
  ASSUME TypeOK', NEW m \in Managers, Running' = {}
  PROVE  Placed(m)' /\ Known(m)'
<1>1. up' = {} /\ daemons' = {} /\ step' = {}
  BY DEF Running
<1> QED
  BY <1>1 DEF Placed, Known

-----------------------------------------------------------------------------
(* The files *)

LEMMA ConfigureFiles ==
  ASSUME TypeOK, FilesAgree, NEW m \in Managers, ConfigureStep(m), ~SetWorkers(m)
  PROVE  FilesAgree'
  BY NoFileIsNone
  DEF FilesAgree, ConfigureStep, BeginConfigure, WriteSettings, SettingsFail, WriteWorkers,
      ConfigureFail, SaveConfig, disk

\* start and stop write status.json at most.
FilesStay == UNCHANGED <<alloc, confDir, defaults, workersFile, saved>>

LEMMA StartFiles ==
  ASSUME NEW m \in Managers, StartStep(m)
  PROVE  FilesStay
  BY DEF FilesStay, StartStep, BeginStart, StartWithoutWorkersFile, StartServer, LaunchFail,
         SkipHistory, MetastoreSetupFail, StartLocalWorker, StartSshWorkers, StartSrunWorkers,
         RecordStart, Started, Raised, disk

LEMMA StopFiles ==
  ASSUME NEW m \in Managers, StopStep(m)
  PROVE  FilesStay
  BY DEF FilesStay, StopStep, BeginStop, StopCannotInfer, StopServer, StopWorkers, StopDaemons,
         StopSrunStep, StopWorkersFail, RecordStop, EndRollback, Stopped, disk

LEMMA StayingFilesAgree == FilesAgree /\ FilesStay => FilesAgree'
  BY DEF FilesAgree, FilesStay

LEMMA CommandFiles ==
  ASSUME TypeOK, FilesAgree, NEW m \in Managers, ManagerStep(m), ~SetWorkers(m)
  PROVE  FilesAgree'
<1>1. CASE Create(m) \/ Load(m) \/ Exit(m) \/ Kill(m)
  <2>1. FilesStay
    BY <1>1 DEF Create, Load, Exit, Kill, CutShort, CutBetween, CutBeforePidFile,
                CutDuringSsh, disk, FilesStay
  <2> QED
    BY <2>1, StayingFilesAgree
<1>2. CASE Clean(m)
  BY <1>2 DEF Clean, FilesAgree
<1> QED
  BY <1>1, <1>2, ConfigureFiles, StartFiles, StopFiles, StayingFilesAgree DEF ManagerStep

LEMMA SessionFiles ==
  ASSUME SessionBase, FilesAgree, NEW m \in Managers, Command(m) \/ Program(m) \/ SessionStep(m)
  PROVE  FilesAgree'
<1>1. TypeOK
  BY DEF SessionBase
<1>2. CASE Command(m) \/ Program(m)
  <2>1. CASE Command(m)
    BY <1>1, <2>1, CommandFiles DEF Command, SetWorkers
  <2>2. CASE Program(m)
    BY <2>2, StayingFilesAgree DEF Program, Create, Exit, disk, FilesStay
  <2> QED
    BY <1>2, <2>1, <2>2
<1>3. CASE SessionWork(m)
  <2>1. CASE ManagedConfigure(m)
    BY <1>1, <2>1, ConfigureFiles DEF ManagedConfigure
  <2>2. CASE ManagedStart(m) \/ ManagedStop(m) \/ WaitStart(m) \/ WaitStop(m)
    BY <2>2, StartFiles, StopFiles, StayingFilesAgree
    DEF ManagedStart, ManagedStop, WaitStart, WaitStop, StartOrRollback
  <2>3. CASE Sleep(m) \/ Expire(m)
    BY <2>3, StayingFilesAgree DEF Sleep, Expire, EndWait, vars, disk, FilesStay
  <2> QED
    BY <1>3, <2>1, <2>2, <2>3 DEF SessionWork
<1>4. CASE ~SessionWork(m) /\ SessionStep(m)
  BY <1>4, StayingFilesAgree
  DEF SessionStep, EnterManaged, EnterWait, Load, LeaveBody, CtrlC, EndWait, InterruptManaged,
      InterruptWait, KillSession, CutShort, CutBetween, CutBeforePidFile, CutDuringSsh,
      vars, disk, FilesStay
<1> QED
  BY <1>2, <1>3, <1>4

-----------------------------------------------------------------------------
(* configure *)

LEMMA ConfigureLone ==
  ASSUME TypeOK, TypeOK', SessionBase, NEW m \in Managers \ Cli, Lone(m),
         ManagedConfigure(m)
  PROVE  Lone(m)'
<1> USE DEF memory
<1>1. /\ Running = {} /\ status = NoFile
      /\ pc[m] \in {"workers", "save"} => defaults # NoFile
      /\ pc[m] = "save" => workersFile = alloc
  BY DEF Lone, ManagedConfigure
<1>2. ConfigureStep(m) /\ ~SetWorkers(m) /\ plan[m] = "configure"
  BY DEF ManagedConfigure
<1>3. UNCHANGED <<procs, status, alloc>>
  BY <1>2 DEF ConfigureStep, BeginConfigure, WriteSettings, SettingsFail, WriteWorkers,
              ConfigureFail, SaveConfig, disk
<1>4. Running' = {} /\ status' = NoFile
  BY <1>1, <1>3 DEF Running, procs
<1>5. Placed(m)' /\ Known(m)' /\ Tidy(m)'
  <2>1. unnamed' = unnamed
    BY DEF ManagedConfigure, Proceed
  <2> QED
    BY <1>3, <1>4, <2>1, LoneByNone DEF Lone, Tidy, procs
<1>6. plan'[m] = IF pc'[m] # "idle" THEN "configure"
                 ELSE IF pc[m] = "save" THEN "start" ELSE "finally"
  BY <1>2 DEF ManagedConfigure, Proceed, PlanTo, SessionBase, SessionTypeOK
<1>7. CASE BeginConfigure(m)
  <2>1. pc'[m] = "settings"
    BY <1>7 DEF BeginConfigure, Goto, TypeOK
  <2> QED
    BY <1>4, <1>5, <1>6, <2>1 DEF Lone
<1>8. CASE WriteSettings(m)
  <2>1. pc'[m] = "workers" /\ defaults' # NoFile
    BY <1>8, NoFileIsNone DEF WriteSettings, Goto, TypeOK
  <2> QED
    BY <1>4, <1>5, <1>6, <2>1 DEF Lone
<1>9. CASE WriteWorkers(m)
  <2>1. pc'[m] = "save" /\ defaults' # NoFile /\ workersFile' = alloc'
    BY <1>1, <1>9 DEF WriteWorkers, Goto, TypeOK
  <2> QED
    BY <1>4, <1>5, <1>6, <2>1 DEF Lone
<1>10. CASE SaveConfig(m)
  <2>1. pc[m] = "save" /\ pc'[m] = "idle" /\ defaults' # NoFile
    BY <1>1, <1>10 DEF SaveConfig, Goto, TypeOK
  <2> QED
    BY <1>4, <1>5, <1>6, <2>1 DEF Lone
<1>11. CASE SettingsFail(m) \/ ConfigureFail(m)
  <2>1. pc[m] # "save" /\ pc'[m] = "idle"
    BY <1>11 DEF SettingsFail, ConfigureFail, Return, Leave, Goto, TypeOK
  <2> QED
    BY <1>4, <1>5, <1>6, <2>1 DEF Lone
<1> QED
  BY <1>2, <1>7, <1>8, <1>9, <1>10, <1>11 DEF ConfigureStep

-----------------------------------------------------------------------------
(* start, and the rollback it may end in *)

\* What a launch must leave: m goes on, or rolls back what it has flagged.
GoesOn(m) ==
  /\ UNCHANGED <<alloc, disk, orphan>> /\ cfg'[m] = cfg[m]
  /\ pc'[m] \in {"start", "rollback"}
  /\ Placed(m)'
  /\ pc'[m] = "start" => Flagged(m)'
  /\ plan[m] = "start" => Known(m)'

LEMMA HeadLaunchLone ==
  ASSUME TypeOK, NEW m \in Managers, Lone(m), plan[m] \in {"start", "launch"}, pc[m] = "start",
         NEW s \in HeadServices, s \in todo[m], s = "history" => defaults = "on",
         up' = up \cup {s}, orphan' \in {orphan, orphan \cup (up \cap {s})},
         UNCHANGED <<daemons, step>>, Started(m, s) \/ Raised(m)
  PROVE  GoesOn(m)
<1>1. Flagged(m) /\ Placed(m) /\ UNCHANGED <<alloc, disk>> /\ cfg'[m] = cfg[m]
  BY DEF Lone, Started, Raised
<1>7. orphan' = orphan
  BY <1>1 DEF Flagged, Running
<1>2. Running' = Running \cup {s}
  BY DEF Running
<1>3. Placed(m)'
  BY <1>1 DEF Placed, Flagged, IsSingleNode, disk
<1>4. pc'[m] \in {"start", "rollback"}
  BY DEF Started, Raised, Goto, TypeOK
<1>5. ASSUME pc'[m] = "start" PROVE Flagged(m)'
  <2>1. Started(m, s)
    BY <1>5 DEF Raised, Goto, TypeOK
  <2> QED
    BY <1>1, <1>2, <2>1 DEF Flagged, Started, disk, TypeOK
<1>6. ASSUME plan[m] = "start" PROVE Known(m)'
  <2>1. Known(m) /\ status = NoFile /\ defaults # NoFile
    BY <1>6 DEF Lone
  <2>2. s \in Assumed(cfg[m])
    BY <1>1, <2>1 DEF Flagged, Assumed
  <2>3. Running \subseteq Assumed(cfg[m])
    BY <2>1 DEF Known
  <2>4. Assumed(cfg[m])' = Assumed(cfg[m])
    BY <1>1 DEF Assumed, disk
  <2> QED
    BY <1>1, <1>2, <2>1, <2>2, <2>3, <2>4 DEF Known, disk
<1> QED
  BY <1>1, <1>3, <1>4, <1>5, <1>6, <1>7 DEF GoesOn

\* The workers are launched on the nodes of the workers file, in the way the
\* configuration says.
LEMMA WorkersLaunchLone ==
  ASSUME TypeOK, NEW m \in Managers, Lone(m), plan[m] \in {"start", "launch"}, pc[m] = "start",
         UNCHANGED <<up, orphan>>, daemons' \subseteq alloc, step' \subseteq alloc,
         daemons' # daemons => IsSingleNode(alloc) \/ "srun" \notin cfg[m],
         step' # step => ~IsSingleNode(alloc) /\ "srun" \in cfg[m],
         Started(m, "workers") \/ Raised(m)
  PROVE  GoesOn(m)
<1>1. Flagged(m) /\ Placed(m) /\ UNCHANGED <<alloc, disk>> /\ cfg'[m] = cfg[m]
  BY DEF Lone, Started, Raised
<1>2. Running' \subseteq Running \cup {"workers"}
  BY DEF Running
<1>3. Placed(m)'
  BY <1>1 DEF Placed, Flagged, IsSingleNode, disk
<1>4. pc'[m] \in {"start", "rollback"}
  BY DEF Started, Raised, Goto, TypeOK
<1>5. ASSUME pc'[m] = "start" PROVE Flagged(m)'
  <2>1. Started(m, "workers")
    BY <1>5 DEF Raised, Goto, TypeOK
  <2> QED
    BY <1>1, <1>2, <2>1 DEF Flagged, Started, disk, TypeOK
<1>6. ASSUME plan[m] = "start" PROVE Known(m)'
  <2>1. Known(m) /\ status = NoFile /\ defaults # NoFile
    BY <1>6 DEF Lone
  <2>2. "workers" \in Assumed(cfg[m])
    BY <2>1 DEF Assumed
  <2>3. Running \subseteq Assumed(cfg[m])
    BY <2>1 DEF Known
  <2>4. Assumed(cfg[m])' = Assumed(cfg[m])
    BY <1>1 DEF Assumed, disk
  <2> QED
    BY <1>1, <1>2, <2>1, <2>2, <2>3, <2>4 DEF Known, disk
<1> QED
  BY <1>1, <1>3, <1>4, <1>5, <1>6 DEF GoesOn

LEMMA LaunchLone ==
  ASSUME TypeOK, NEW m \in Managers, Lone(m), plan[m] \in {"start", "launch"}, pc[m] = "start",
         StartStep(m), ~RecordStart(m)
  PROVE  GoesOn(m)
<1>1. Flagged(m) /\ Placed(m)
  BY DEF Lone
<1>2. ASSUME UNCHANGED <<alloc, disk, procs>>, cfg' = cfg, targets' = targets, tracker' = tracker,
             \/ pc' = pc /\ todo'[m] \subseteq todo[m]
             \/ pc'[m] = "rollback"
      PROVE  GoesOn(m)
  <2>1. Running' = Running /\ Assumed(cfg[m])' = Assumed(cfg[m])
    BY <1>2 DEF Running, procs, Assumed, disk
  <2> QED
    BY <1>1, <1>2, <2>1 DEF GoesOn, Lone, Placed, Flagged, Known, IsSingleNode, disk, procs
<1>3. ASSUME NEW s \in Services, StartServer(m, s) PROVE GoesOn(m)
  BY <1>3, HeadLaunchLone DEF StartServer, Turn
<1>4. CASE MetastoreSetupFail(m)
  BY <1>4, HeadLaunchLone DEF MetastoreSetupFail, Turn, HeadServices
<1>5. ASSUME NEW s \in Services, LaunchFail(m, s) PROVE GoesOn(m)
  BY <1>2, <1>5 DEF LaunchFail, Raised, Goto, TypeOK
<1>6. CASE SkipHistory(m)
  BY <1>2, <1>6 DEF SkipHistory, TypeOK
<1>7. CASE StartLocalWorker(m)
  <2>1. alloc = {Host} /\ targets[m] = alloc
    BY <1>1, <1>7 DEF StartLocalWorker, IsSingleNode, Flagged
  <2>2. CASE Host \in daemons
    BY <1>2, <1>7, <2>2 DEF StartLocalWorker, Raised, Goto, TypeOK
  <2>3. CASE Host \notin daemons
    BY <1>1, <1>7, <2>1, <2>3, WorkersLaunchLone DEF StartLocalWorker, IsSingleNode, Placed, Flagged
  <2> QED
    BY <2>2, <2>3
<1>8. CASE StartSshWorkers(m)
  <2>1. /\ ~IsSingleNode(alloc) /\ "srun" \notin cfg[m]
        /\ daemons' \subseteq alloc /\ step' = step /\ UNCHANGED <<up, orphan>>
        /\ Started(m, "workers") \/ Raised(m)
    BY <1>1, <1>8 DEF StartSshWorkers, Placed, Flagged
  <2> QED
    BY <1>1, <2>1, WorkersLaunchLone DEF Placed
<1>9. CASE StartSrunWorkers(m)
  <2>1. step = {}
    BY <1>1, <1>9 DEF StartSrunWorkers, Turn, Flagged, Running
  <2> QED
    BY <1>1, <1>9, <2>1, WorkersLaunchLone DEF StartSrunWorkers, Placed, Flagged
<1>10. ~BeginStart(m) /\ ~StartWithoutWorkersFile(m)
  BY DEF BeginStart, StartWithoutWorkersFile
<1> QED
  BY <1>3, <1>4, <1>5, <1>6, <1>7, <1>8, <1>9, <1>10 DEF StartStep

\* What any step of start or of its rollback must leave.
Onward(m) ==
  /\ Placed(m)'
  /\ orphan' = orphan
  /\ pc'[m] = "start" => Flagged(m)'
  /\ plan[m] = "start" \/ (pc[m] = "start" /\ pc'[m] = "idle") => Known(m)'
  /\ pc'[m] # "idle" => UNCHANGED <<status, defaults>>

LEMMA BeginStartOnward ==
  ASSUME TypeOK, TypeOK', FilesAgree, NEW m \in Managers, Lone(m), plan[m] \in {"start", "launch"},
         BeginStart(m) \/ StartWithoutWorkersFile(m), m \notin Cli
  PROVE  Onward(m)
<1>1. pc[m] = "idle" /\ UNCHANGED <<alloc, disk, procs>>
  BY DEF BeginStart, StartWithoutWorkersFile
<1>2. Running = {} /\ Running' = {}
  BY <1>1 DEF Lone, Running, procs
<1>3. Placed(m)' /\ Known(m)'
  BY <1>2, LoneByNone
<1>4. ASSUME pc'[m] = "start" PROVE Flagged(m)'
  <2>1. BeginStart(m)
    BY <1>4 DEF StartWithoutWorkersFile, Return, Leave, Goto, TypeOK
  <2> QED
    BY <1>1, <1>2, <2>1 DEF BeginStart, Flagged, FilesAgree, disk, TypeOK
<1> QED
  BY <1>1, <1>3, <1>4 DEF Onward, disk, procs

\* Nothing is left to do: all that runs is in the record.
LEMMA RecordStartOnward ==
  ASSUME TypeOK, NEW m \in Managers, Lone(m), plan[m] \in {"start", "launch"},
         RecordStart(m), m \notin Cli
  PROVE  Onward(m)
<1>1. pc[m] = "start" /\ pc'[m] = "idle" /\ cfg'[m] = cfg[m]
  BY DEF RecordStart, Return, Leave, Goto, TypeOK
<1>2. Flagged(m) /\ Placed(m) /\ UNCHANGED procs
  BY <1>1 DEF Lone, RecordStart
<1>3. status' = tracker[m] /\ tracker[m] # NoFile
  BY NoFileIsNone DEF RecordStart
<1>4. Running' = Running
  BY <1>2 DEF Running, procs
<1>5. Placed(m)'
  BY <1>1, <1>2, <1>4 DEF RecordStart, Placed, IsSingleNode, procs
<1>6. Known(m)'
  BY <1>2, <1>3, <1>4 DEF Known, Assumed, Flagged
<1> QED
  BY <1>1, <1>2, <1>5, <1>6 DEF Onward, procs

\* A stop takes processes away and writes at most status.json.
LEMMA StopShrinks ==
  ASSUME TypeOK, NEW m \in Managers, StopStep(m)
  PROVE  /\ up' \subseteq up /\ daemons' \subseteq daemons /\ step' \subseteq step
         /\ UNCHANGED <<alloc, orphan>> /\ (RecordStop(m) \/ UNCHANGED disk)
         /\ m \notin Cli => cfg'[m] = cfg[m]
<1>1. CASE StopCannotInfer(m) \/ StopWorkersFail(m) \/ EndRollback(m) \/ RecordStop(m)
  BY <1>1 DEF StopCannotInfer, StopWorkersFail, EndRollback, RecordStop, procs, Return,
              Leave, TypeOK
<1>2. CASE BeginStop(m)
  BY <1>2 DEF BeginStop, procs
<1>3. ASSUME NEW s \in Services, StopServer(m, s)
      PROVE  up' \subseteq up /\ UNCHANGED <<daemons, step, orphan, alloc, disk, cfg>>
  BY <1>3 DEF StopServer, Stopped
<1>4. CASE StopWorkers(m)
  BY <1>4 DEF StopWorkers, StopDaemons, StopSrunStep, Stopped
<1> QED
  BY <1>1, <1>2, <1>3, <1>4 DEF StopStep

LEMMA RollbackOnward ==
  ASSUME TypeOK, NEW m \in Managers, Lone(m), plan[m] \in {"start", "launch"},
         pc[m] = "rollback", StopStep(m), m \notin Cli
  PROVE  Onward(m)
<1>1. ~RecordStop(m)
  BY DEF RecordStop
<1>2. /\ up' \subseteq up /\ daemons' \subseteq daemons /\ step' \subseteq step
      /\ UNCHANGED <<alloc, disk, orphan>> /\ cfg'[m] = cfg[m]
  BY <1>1, StopShrinks
<1>3. Running' \subseteq Running /\ Assumed(cfg[m])' = Assumed(cfg[m])
  BY <1>2, RunningShrinks DEF Assumed, disk
<1>4. Placed(m)'
  BY <1>2, <1>3 DEF Lone, Placed, IsSingleNode, disk
<1>5. plan[m] = "start" => Known(m)'
  BY <1>2, <1>3 DEF Lone, Known, disk
<1>6. pc'[m] # "start"
  BY StopLeads
<1> QED
  BY <1>2, <1>4, <1>5, <1>6 DEF Onward, disk

LEMMA StartOrRollbackOnward ==
  ASSUME TypeOK, TypeOK', FilesAgree, NEW m \in Managers \ Cli, Lone(m),
         plan[m] \in {"start", "launch"}, StartOrRollback(m)
  PROVE  Onward(m)
<1>1. CASE StartStep(m) /\ pc[m] = "start" /\ ~RecordStart(m)
  <2>1. GoesOn(m)
    BY <1>1, LaunchLone
  <2> QED
    BY <2>1 DEF GoesOn, Onward, disk
<1>2. CASE StartStep(m) /\ pc[m] # "start"
  <2>1. BeginStart(m) \/ StartWithoutWorkersFile(m)
    BY <1>2 DEF StartStep, StartServer, LaunchFail, SkipHistory, MetastoreSetupFail,
                StartLocalWorker, StartSshWorkers, StartSrunWorkers, RecordStart
  <2> QED
    BY <2>1, BeginStartOnward
<1> QED
  BY <1>1, <1>2, RecordStartOnward, RollbackOnward DEF StartOrRollback

LEMMA StartLone ==
  ASSUME SessionBase, SessionBase', FilesAgree, NEW m \in Managers, Lone(m),
         ManagedStart(m) \/ WaitStart(m)
  PROVE  Lone(m)'
<1>1. TypeOK /\ TypeOK' /\ m \in Managers \ Cli /\ StartOrRollback(m)
  BY DEF SessionBase, SessionsOfPrograms, ManagedStart, WaitStart
<1>2. Onward(m)
  BY <1>1, StartOrRollbackOnward DEF ManagedStart, WaitStart
<1>3. pc'[m] \in {"idle", "start", "rollback"} /\ Tidy(m)'
  BY <1>1, <1>2, StartOrRollbackLeads
  DEF Onward, Lone, Tidy, ManagedStart, WaitStart, Proceed
<1>4. CASE ManagedStart(m)
  <2>1. plan[m] = "start" /\ status = NoFile /\ defaults # NoFile
    BY <1>4 DEF ManagedStart, Lone
  <2>2. plan'[m] = IF pc'[m] # "idle" THEN "start"
                   ELSE IF pc[m] = "start" THEN "body" ELSE "finally"
    BY <1>4 DEF ManagedStart, Proceed, PlanTo, SessionBase, SessionTypeOK
  <2> QED
    BY <1>2, <1>3, <2>1, <2>2 DEF Onward, Lone
<1>5. CASE WaitStart(m)
  <2>1. plan'[m] = IF pc'[m] # "idle" THEN "launch"
                   ELSE IF pc[m] = "start" THEN "sleep" ELSE "none"
    BY <1>5 DEF WaitStart, Proceed, PlanTo, SessionBase, SessionTypeOK
  <2> QED
    BY <1>2, <1>3, <1>5, <2>1 DEF WaitStart, Onward, Lone
<1> QED
  BY <1>4, <1>5

-----------------------------------------------------------------------------
(* The stop of a session *)

\* The stop commands do what they are asked for.
StopsWork == "stopfail" \notin Faults

\* The workers are where stop looks for them, and it can look.
LEMMA WorkersInReach ==
  ASSUME TypeOK, StopsWork, FilesAgree, NEW m \in Managers, Placed(m)
  PROVE  /\ StopWorkers(m) => daemons' = {} /\ step' = {}
         /\ Running # {} => CanStopWorkers
<1>1. Host \in Nodes /\ alloc # NoFile
  BY NoFileIsNone
<1>2. ASSUME StopDaemons(m) PROVE daemons' = {} /\ step' = {}
  <2>1. daemons' = daemons \ DaemonsInReach /\ step' = step
    BY <1>2 DEF StopDaemons, StopsWork
  <2>2. CASE IsSingleNode(alloc)
    BY <2>1, <2>2 DEF Placed, DaemonsInReach, IsSingleNode
  <2>3. CASE ~IsSingleNode(alloc)
    BY <1>2, <2>1, <2>3 DEF StopDaemons, CanStopWorkers, StopsSrun, Placed, DaemonsInReach, FilesAgree
  <2> QED
    BY <2>2, <2>3
<1>3. ASSUME StopSrunStep(m) PROVE daemons' = {} /\ step' = {}
  BY <1>3 DEF StopSrunStep, StopsWork, StopsSrun, Placed
<1>4. Running # {} => CanStopWorkers
  BY <1>1 DEF Placed, FilesAgree, CanStopWorkers
<1> QED
  BY <1>2, <1>3, <1>4 DEF StopWorkers

\* While stop works, all that runs is on its list; when it is over, nothing runs.
LEMMA StopToTheEnd ==
  ASSUME TypeOK, StopsWork, FilesAgree, NEW m \in Managers \ Cli, Lone(m),
         plan[m] \in {"finally", "shutdown"}, StopStep(m)
  PROVE  /\ pc'[m] \in {"idle", "stop"}
         /\ pc'[m] = "idle" => Running = {}
         /\ pc'[m] = "stop" => Running' \subseteq todo'[m]
<1>1. pc[m] \in {"idle", "stop"} /\ pc'[m] \in {"idle", "stop"}
  BY StopLeads DEF Lone
<1>2. CASE pc[m] = "idle"
  <2>1. BeginStop(m) \/ StopCannotInfer(m)
    BY <1>2 DEF StopStep, StopServer, StopWorkers, StopDaemons, StopSrunStep, StopWorkersFail,
                RecordStop, EndRollback
  <2>2. Known(m)
    BY <1>2 DEF Lone
  <2>3. CASE BeginStop(m)
    BY <2>2, <2>3 DEF BeginStop, Known, Goto, TypeOK, Running, procs
  <2>4. CASE StopCannotInfer(m)
    BY <2>2, <2>4 DEF StopCannotInfer, Known, Return, Leave, Goto, TypeOK
  <2> QED
    BY <2>1, <2>3, <2>4
<1>3. CASE pc[m] = "stop"
  <2>1. Running \subseteq todo[m] /\ Placed(m)
    BY <1>3 DEF Lone
  <2>2. ASSUME NEW s \in Services, StopServer(m, s)
        PROVE  pc'[m] = "stop" /\ Running' \subseteq todo'[m]
    <3>1. up' = up \ {s} /\ s \in HeadServices /\ UNCHANGED <<daemons, step>>
      BY <2>2 DEF StopServer, StopsWork
    <3>2. Running' \subseteq Running \ {s}
      BY <3>1 DEF Running, HeadServices
    <3>3. todo'[m] = todo[m] \ {s} /\ pc' = pc
      BY <2>2 DEF StopServer, Stopped, TypeOK
    <3> QED
      BY <1>3, <2>1, <3>2, <3>3
  <2>3. ASSUME StopWorkers(m)
        PROVE  pc'[m] = "stop" /\ Running' \subseteq todo'[m]
    <3>1. daemons' = {} /\ step' = {}
      BY <2>1, <2>3, WorkersInReach
    <3>2. up' = up /\ todo'[m] = todo[m] \ {"workers"} /\ pc' = pc
      BY <2>3 DEF StopWorkers, StopDaemons, StopSrunStep, Stopped, TypeOK
    <3>3. Running' \subseteq Running \ {"workers"}
      BY <3>1, <3>2 DEF Running, TypeOK, HeadServices
    <3> QED
      BY <1>3, <2>1, <3>2, <3>3
  <2>4. ASSUME StopWorkersFail(m) \/ RecordStop(m)
        PROVE  pc'[m] = "idle" /\ Running = {}
    <3>1. pc'[m] = "idle"
      BY <2>4 DEF StopWorkersFail, RecordStop, Return, Leave, Goto, TypeOK
    <3>2. Running = {}
      BY <2>1, <2>4, WorkersInReach DEF StopWorkersFail, RecordStop
    <3> QED
      BY <3>1, <3>2
  <2>5. ~BeginStop(m) /\ ~StopCannotInfer(m) /\ ~EndRollback(m)
    BY <1>3 DEF BeginStop, StopCannotInfer, EndRollback
  <2> QED
    BY <2>2, <2>3, <2>4, <2>5 DEF StopStep
<1> QED
  BY <1>1, <1>2, <1>3

LEMMA StopLone ==
  ASSUME SessionBase, StopsWork, FilesAgree, NEW m \in Managers, Lone(m),
         ManagedStop(m) \/ WaitStop(m), plan'[m] # "none"
  PROVE  Lone(m)'
<1>1. TypeOK /\ m \in Managers \ Cli /\ StopStep(m) /\ plan[m] \in {"finally", "shutdown"}
  BY DEF SessionBase, SessionsOfPrograms, ManagedStop, WaitStop
<1>2. plan'[m] = plan[m] /\ pc'[m] # "idle"
  BY DEF ManagedStop, WaitStop, Proceed, PlanTo, SessionBase, SessionTypeOK
<1>3. pc'[m] = "stop" /\ Running' \subseteq todo'[m]
  BY <1>1, <1>2, StopToTheEnd
<1>4. ~RecordStop(m)
  BY <1>1, <1>2 DEF RecordStop, Return, Leave, Goto, TypeOK
<1>5. /\ up' \subseteq up /\ daemons' \subseteq daemons /\ step' \subseteq step
      /\ UNCHANGED <<alloc, disk, orphan, unnamed>> /\ cfg'[m] = cfg[m]
  BY <1>1, <1>4, StopShrinks DEF ManagedStop, WaitStop, Proceed
<1>6. Placed(m)' /\ Tidy(m)'
  BY <1>5, RunningShrinks DEF Lone, Placed, Tidy, IsSingleNode, disk
<1> QED
  BY <1>1, <1>2, <1>3, <1>6 DEF Lone

-----------------------------------------------------------------------------
(* Ctrl-C, the pauses, and a new session *)

LEMMA InterruptLone ==
  ASSUME SessionBase, SessionBase', NEW m \in Managers, Lone(m),
         InterruptManaged(m), plan'[m] # "none"
  PROVE  Lone(m)'
<1>1. TypeOK /\ TypeOK' /\ m \notin Cli
  BY DEF SessionBase, SessionsOfPrograms, InterruptManaged, Managed
<1>2. plan[m] \in {"configure", "start", "body"} /\ plan'[m] = "finally" /\ CutShort(m, "idle")
  BY DEF InterruptManaged, PlanTo, SessionBase, SessionTypeOK, Managed
<1>3. pc[m] \in Inside /\ pc'[m] = "idle"
  BY <1>1, <1>2, CutLeads
<1>4. /\ UNCHANGED <<alloc, disk, up, step>> /\ cfg'[m] = cfg[m]
      /\ UNCHANGED daemons \/ CutDuringSsh(m, "idle")
  BY <1>1, <1>2
  DEF CutShort, CutBetween, CutBeforePidFile, CutDuringSsh, Leave, procs, TypeOK
<1>5. plan[m] # "body" /\ Tidy(m)'
  BY <1>3 DEF SessionBase, SessionTypeOK, Inside, InterruptManaged, Lone, Tidy
<1>6. CASE UNCHANGED daemons
  <2>1. Running' = Running /\ Assumed(cfg[m])' = Assumed(cfg[m])
    BY <1>4, <1>6 DEF Running, Assumed, disk
  <2>2. Known(m) \/ Running = {}
    BY <1>2, <1>5 DEF Lone
  <2>3. Known(m)'
    BY <1>4, <2>1, <2>2 DEF Known, disk
  <2>4. Placed(m)'
    BY <1>4, <1>6, <2>1 DEF Lone, Placed, IsSingleNode, disk
  <2> QED
    BY <1>2, <1>3, <1>5, <2>3, <2>4 DEF Lone
<1>7. CASE CutDuringSsh(m, "idle")
  <2>1. pc[m] = "start" /\ plan[m] = "start"
    BY <1>2, <1>5, <1>7 DEF CutDuringSsh, Lone
  <2>2. Flagged(m) /\ Placed(m) /\ Known(m) /\ status = NoFile /\ defaults # NoFile
    BY <2>1 DEF Lone
  <2>3. daemons' \subseteq alloc /\ ~IsSingleNode(alloc) /\ "srun" \notin cfg[m]
    BY <1>7, <2>2 DEF CutDuringSsh, Flagged, Placed
  <2>4. Placed(m)'
    BY <1>4, <2>2, <2>3 DEF Placed, Flagged, IsSingleNode, disk
  <2>5. Running' \subseteq Running \cup {"workers"}
    BY <1>4 DEF Running
  <2>6. "workers" \in Assumed(cfg[m]) /\ Assumed(cfg[m])' = Assumed(cfg[m])
    BY <1>4, <2>2 DEF Assumed, disk
  <2>7. Running \subseteq Assumed(cfg[m])
    BY <2>2 DEF Known
  <2>8. Known(m)'
    BY <1>4, <2>2, <2>5, <2>6, <2>7 DEF Known, disk
  <2> QED
    BY <1>2, <1>3, <1>5, <2>4, <2>8 DEF Lone
<1> QED
  BY <1>4, <1>6, <1>7

LEMMA PauseLone ==
  ASSUME SessionBase, NEW m \in Managers, Lone(m),
         LeaveBody(m) \/ Sleep(m) \/ Expire(m) \/ CtrlC(m)
  PROVE  Lone(m)'
<1>1. /\ UNCHANGED <<vars, unnamed>>
      /\ \/ plan' = plan
         \/ plan[m] \in {"body", "sleep"} /\ plan'[m] \in {"finally", "shutdown"}
  BY DEF LeaveBody, Sleep, Expire, CtrlC, EndWait, past, PlanTo, SessionBase, SessionTypeOK
<1>2. Tidy(m)' = Tidy(m) /\ Placed(m)' = Placed(m) /\ Known(m)' = Known(m) /\ Flagged(m)' = Flagged(m) /\ Running' = Running
  BY <1>1
  DEF vars, disk, procs, memory, Tidy, Placed, Known, Flagged, Running, Assumed, IsSingleNode
<1>3. plan[m] \in {"body", "sleep"} => pc[m] = "idle"
  BY DEF SessionBase, SessionTypeOK
<1>4. CASE plan' = plan
  BY <1>1, <1>2, <1>4 DEF Lone, vars, disk, memory
<1>5. CASE plan[m] \in {"body", "sleep"} /\ plan'[m] \in {"finally", "shutdown"}
  BY <1>1, <1>2, <1>3, <1>5 DEF Lone, vars, disk, memory
<1> QED
  BY <1>1, <1>4, <1>5

\* A session that finds nothing begins alone.
LEMMA EnterLone ==
  ASSUME SessionBase, SessionBase', NEW m \in Managers,
         EnterManaged(m) \/ EnterWait(m), alone'[m]
  PROVE  Lone(m)'
<1>1. Running' = {} /\ Tidy(m)'
  BY DEF EnterManaged, EnterWait, Load, Running, Tidy, procs, SessionBase, SessionTypeOK
<1>2. TypeOK' /\ Placed(m)' /\ Known(m)'
  BY <1>1, LoneByNone DEF SessionBase
<1>3. pc'[m] = "idle"
  BY DEF EnterManaged, EnterWait, Load, Goto, SessionBase, TypeOK
<1>4. \/ plan'[m] = "configure" /\ status' = NoFile
      \/ plan'[m] = "launch"
  BY DEF EnterManaged, EnterWait, PlanTo, disk, SessionBase, SessionTypeOK
<1> QED
  BY <1>1, <1>2, <1>3, <1>4 DEF Lone

-----------------------------------------------------------------------------
(* The steps of others, and the theorem *)

\* Nobody else touches what a session that stays alone relies on.
LEMMA OthersLeaveAlone ==
  ASSUME SessionBase, NEW m \in Managers, Command(m) \/ Program(m) \/ SessionStep(m),
         NEW o \in Managers \ {m}, alone'[o]
  PROVE  /\ alone[o] /\ Untouched(o) /\ plan'[o] = plan[o] /\ UNCHANGED <<alloc, disk, procs>>
         /\ o \in unnamed => o \in unnamed'
<1>1. TypeOK
  BY DEF SessionBase
<1>2. alloc' = alloc /\ Untouched(o)
  <2>1. CASE Command(m) \/ Program(m)
    BY <1>1, <2>1, ManagerTouchesOne DEF Command, Program, ManagerStep
  <2>2. CASE ManagedConfigure(m) \/ ManagedStart(m) \/ ManagedStop(m) \/ WaitStart(m) \/ WaitStop(m)
    BY <1>1, <2>2, ConfigureTouchesOne, StartTouchesOne, StopTouchesOne
    DEF ManagedConfigure, ManagedStart, ManagedStop, WaitStart, WaitStop, StartOrRollback
  <2>3. CASE InterruptManaged(m) \/ InterruptWait(m) \/ KillSession(m)
    <3>1. ASSUME NEW label, CutShort(m, label) PROVE alloc' = alloc /\ Untouched(o)
      BY <1>1, <3>1, CutTouchesOne
    <3> QED
      BY <1>1, <2>3, <3>1, LeaveTouchesOne DEF InterruptManaged, InterruptWait, KillSession
  <2>4. CASE LeaveBody(m) \/ Sleep(m) \/ Expire(m) \/ CtrlC(m)
    BY <2>4 DEF LeaveBody, Sleep, Expire, CtrlC, EndWait, vars, memory, Untouched
  <2>5. CASE EnterManaged(m)
    BY <1>1, <2>5 DEF EnterManaged, TypeOK, Untouched
  <2>6. CASE EnterWait(m)
    BY <1>1, <2>6, ManagerTouchesOne DEF EnterWait, ManagerStep
  <2> QED
    BY <2>1, <2>2, <2>3, <2>4, <2>5, <2>6 DEF SessionStep, SessionWork
<1>3. plan'[o] = plan[o]
  <2>1. UNCHANGED plan \/ \E phase : PlanTo(m, phase)
    BY DEF Command, Program, session, SessionStep, SessionWork, EnterManaged, ManagedConfigure,
           ManagedStart, ManagedStop, LeaveBody, InterruptManaged, EnterWait, WaitStart, Sleep,
           Expire, CtrlC, EndWait, WaitStop, InterruptWait, KillSession, Proceed
  <2> QED
    BY <2>1 DEF PlanTo, SessionBase, SessionTypeOK
<1>4. alone[o] /\ UNCHANGED <<disk, procs>>
  <2>1. CASE Disturb(m)
    BY <2>1 DEF Disturb
  <2>2. CASE EnterManaged(m) \/ EnterWait(m)
    BY <2>2 DEF EnterManaged, EnterWait, Load, SessionBase, SessionTypeOK
  <2>3. CASE Program(m) \/ LeaveBody(m) \/ Sleep(m) \/ Expire(m) \/ CtrlC(m)
    BY <2>3 DEF Program, Create, Exit, LeaveBody, Sleep, Expire, CtrlC, EndWait, vars, past
  <2> QED
    BY <2>1, <2>2, <2>3
    DEF Command, SessionStep, SessionWork, ManagedConfigure, ManagedStart, ManagedStop,
        WaitStart, WaitStop, InterruptManaged, InterruptWait, KillSession
<1>5. o \in unnamed => o \in unnamed'
  BY DEF Command, Program, past, SessionStep, SessionWork, EnterManaged, ManagedConfigure,
         ManagedStart, ManagedStop, LeaveBody, InterruptManaged, EnterWait, WaitStart, Sleep,
         Expire, CtrlC, EndWait, WaitStop, InterruptWait, KillSession, Proceed
<1> QED
  BY <1>2, <1>3, <1>4, <1>5

\* m's own step.
LEMMA OwnLone ==
  ASSUME SessionInv, StopsWork, SessionBase', NEW m \in Managers,
         Command(m) \/ Program(m) \/ SessionStep(m), plan'[m] # "none", alone'[m]
  PROVE  Lone(m)'
<1>1. SessionBase /\ FilesAgree /\ TypeOK /\ TypeOK'
  BY DEF SessionInv, SessionBase
<1>2. CASE EnterManaged(m) \/ EnterWait(m)
  BY <1>1, <1>2, EnterLone
<1>3. ~Command(m) /\ ~Program(m) /\ ~InterruptWait(m) /\ ~KillSession(m)
  BY <1>1 DEF Command, Program, session, InterruptWait, KillSession, PlanTo, SessionBase,
              SessionTypeOK, SessionsOfPrograms
<1>4. CASE ~EnterManaged(m) /\ ~EnterWait(m)
  <2>1. plan[m] # "none" /\ alone[m]
    BY <1>1, <1>3, <1>4
    DEF SessionStep, SessionWork, ManagedConfigure, ManagedStart, ManagedStop, WaitStart, Sleep,
        Expire, WaitStop, LeaveBody, CtrlC, EndWait, InterruptManaged, Managed, Disturb, past,
        SessionBase, SessionTypeOK
  <2>2. Lone(m) /\ m \in Managers \ Cli
    BY <2>1 DEF SessionInv, EachLone, SessionBase, SessionsOfPrograms
  <2> QED
    BY <1>1, <1>3, <1>4, <2>2, ConfigureLone, StartLone, StopLone, InterruptLone, PauseLone
    DEF SessionStep, SessionWork
<1> QED
  BY <1>2, <1>4

LEMMA SessionNextInv == StopsWork /\ SessionInv /\ [SessionNext]_sessionVars => SessionInv'
<1> SUFFICES ASSUME StopsWork, SessionInv, [SessionNext]_sessionVars PROVE SessionInv'
  OBVIOUS
<1>1. SessionBase /\ FilesAgree /\ EachLone /\ SessionBase'
  BY SessionNextBase DEF SessionInv
<1>2. ASSUME NEW m \in Managers, Command(m) \/ Program(m) \/ SessionStep(m)
      PROVE  SessionInv'
  <2>1. ASSUME NEW o \in Managers, plan'[o] # "none", alone'[o] PROVE Lone(o)'
    <3>1. CASE o = m
      BY <1>1, <1>2, <2>1, <3>1, OwnLone
    <3>2. CASE o # m
      <4>1. /\ alone[o] /\ Untouched(o) /\ plan'[o] = plan[o] /\ UNCHANGED <<alloc, disk, procs>>
            /\ o \in unnamed => o \in unnamed'
        BY <1>1, <1>2, <2>1, <3>2, OthersLeaveAlone
      <4>2. Lone(o)
        BY <1>1, <2>1, <4>1 DEF EachLone
      <4> QED
        BY <4>1, <4>2, LoneFewer DEF procs
    <3> QED
      BY <3>1, <3>2
  <2> QED
    BY <1>1, <1>2, <2>1, SessionFiles DEF SessionInv, EachLone
<1>3. CASE SessionDie
  <2>1. /\ UNCHANGED <<alloc, disk, orphan, plan, alone, unnamed>> /\ \A o \in Managers : Untouched(o)
        /\ up' \subseteq up /\ daemons' \subseteq daemons /\ step' \subseteq step
    BY <1>3 DEF SessionDie, Die, session, past, memory, Untouched
  <2>2. FilesAgree'
    BY <1>1, <2>1, StayingFilesAgree DEF disk, FilesStay
  <2> QED
    BY <1>1, <2>1, <2>2, LoneFewer DEF SessionInv, EachLone
<1>4. CASE UNCHANGED sessionVars
  <2>1. /\ UNCHANGED <<alloc, disk, procs, plan, alone, unnamed>>
        /\ \A o \in Managers : Untouched(o)
    BY <1>4 DEF sessionVars, session, past, vars, memory, Untouched
  <2>2. FilesAgree'
    BY <1>1, <2>1, StayingFilesAgree DEF disk, FilesStay
  <2> QED
    BY <1>1, <2>1, <2>2, LoneFewer DEF SessionInv, EachLone, procs
<1> QED
  BY <1>2, <1>3, <1>4 DEF SessionNext

\* A session is ended by its own stop and by nothing else.
LEMMA EndsByStop ==
  ASSUME SessionBase, [SessionNext]_sessionVars, NEW m \in Managers, EndsItself(m)
  PROVE  StopStep(m)
<1>1. plan[m] \in {"finally", "shutdown"} /\ plan'[m] = "none" /\ pc'[m] = "idle"
  BY DEF EndsItself
<1>2. ~SessionDie /\ ~UNCHANGED sessionVars
  BY <1>1 DEF SessionDie, session, sessionVars
<1>3. PICK o \in Managers : Command(o) \/ Program(o) \/ SessionStep(o)
  BY <1>2 DEF SessionNext
<1>4. PlanTo(o, "none") \/ (StopStep(o) /\ \E phase : PlanTo(o, phase))
  BY <1>1, <1>3
  DEF Command, Program, session, SessionStep, SessionWork, EnterManaged, ManagedConfigure,
      ManagedStart, ManagedStop, LeaveBody, InterruptManaged, EnterWait, WaitStart, Sleep,
      Expire, CtrlC, EndWait, WaitStop, InterruptWait, KillSession, Proceed, PlanTo, SessionBase,
      SessionTypeOK
<1>5. o = m
  BY <1>1, <1>4 DEF PlanTo, SessionBase, SessionTypeOK
<1>6. ASSUME CutShort(m, "none") PROVE FALSE
  BY <1>1, <1>6, CutLeads DEF SessionBase
<1>7. ASSUME Leave(m, "none") PROVE FALSE
  BY <1>1, <1>7 DEF Leave, Goto, SessionBase, TypeOK
<1> QED
  BY <1>1, <1>3, <1>5, <1>6, <1>7
  DEF Command, Program, session, SessionStep, SessionWork, EnterManaged, ManagedConfigure,
      ManagedStart, ManagedStop, LeaveBody, InterruptManaged, EnterWait, WaitStart, Sleep,
      Expire, CtrlC, EndWait, WaitStop, InterruptWait, KillSession, Waiting, Managed

\* "stop the cluster after exit": provided the stop commands work, a session
\* that had its directory for itself has no process running when its stop is
\* over, wherever its configure, its start or its body raised or was cut short,
\* and none without a pid file either, unless a Ctrl-C hit between the launch of
\* one and that file.
THEOREM SessionsLeaveNothing ==
  ASSUME StopsWork
  PROVE  SessionSpec => SessionLeavesNothing
<1>1. SessionInit => SessionInv
  BY SessionInitBase, InitLone DEF SessionInv
<1>2. SessionInv /\ [SessionNext]_sessionVars => SessionInv'
  BY SessionNextInv
<1>3. SessionInv /\ [SessionNext]_sessionVars =>
        [\A m \in Managers :
           EndsItself(m) /\ alone[m]
             => Running = {} /\ (m \notin unnamed => orphan = {})]_sessionVars
  <2> SUFFICES ASSUME SessionInv, [SessionNext]_sessionVars, NEW m \in Managers,
                      EndsItself(m), alone[m]
               PROVE  Running = {} /\ (m \notin unnamed => orphan = {})
    OBVIOUS
  <2>1. StopStep(m)
    BY EndsByStop DEF SessionInv
  <2>2. plan[m] \in {"finally", "shutdown"} /\ pc'[m] = "idle"
    BY DEF EndsItself
  <2>3. Lone(m) /\ m \in Managers \ Cli
    BY <2>2 DEF SessionInv, EachLone, SessionBase, SessionsOfPrograms
  <2> QED
    BY <2>1, <2>2, <2>3, StopToTheEnd DEF SessionInv, SessionBase, Lone, Tidy
<1> QED
  BY <1>1, <1>2, <1>3, PTL DEF SessionSpec, SessionLeavesNothing
=============================================================================

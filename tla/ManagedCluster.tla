--------------------------- MODULE ManagedCluster ---------------------------
(***************************************************************************)
(* Sessions: a Python program inside `with mgr.managed_cluster()` and the  *)
(* process of `sparkctl start --wait`. Both hold a cluster for a while and *)
(* stop it on their way out, whatever ended the session; meanwhile other   *)
(* commands are given on the same directory.                               *)
(*                                                                         *)
(* A session is a manager of ClusterLifecycle that follows a plan. Users   *)
(* give no command while a session configures, starts or stops.            *)
(***************************************************************************)
EXTENDS ClusterLifecycle

CONSTANTS
  Hour,     \* the longest sleep of `start --wait`, in the unit of Timeouts
  Timeouts, \* the values of --timeout
  Never     \* no --timeout was given

ASSUME SessionAssumption ==
  /\ Hour \in Nat \ {0}
  /\ Timeouts \subseteq Nat \cup {Never}
  /\ Never \notin Nat

VARIABLES
  plan,    \* where in its session each manager is
  timeout, \* --timeout of each `start --wait`
  slept,   \* how long it has waited
  alone,   \* history: a session found nothing and nobody else has used its directory
  unnamed  \* history: sessions interrupted between a launch and its pid file

clock == <<timeout, slept>>
session == <<plan, clock>>
past == <<alone, unnamed>>
sessionVars == <<vars, session, past>>

Managed == {"configure", "start", "body", "finally"}
Waiting == {"launch", "sleep", "shutdown"}

\* The phases in which somebody else may use the directory.
Idling == {"none", "body", "sleep"}

SessionTypeOK ==
  /\ plan \in [Managers -> {"none"} \cup Managed \cup Waiting]
  /\ timeout \in [Managers -> Timeouts \cup {Never}]
  /\ slept \in [Managers -> Nat]
  /\ alone \in [Managers -> BOOLEAN]
  /\ unnamed \subseteq Managers
  /\ \A m \in Managers :
       /\ plan[m] # "none" => pc[m] # "none"
       /\ plan[m] \in {"body", "sleep"} => pc[m] = "idle"

SessionInit ==
  /\ Init
  /\ plan = [m \in Managers |-> "none"]
  /\ timeout = [m \in Managers |-> Never]
  /\ slept = [m \in Managers |-> 0]
  /\ alone = [m \in Managers |-> FALSE]
  /\ unnamed = {}

PlanTo(m, phase) == plan' = [plan EXCEPT ![m] = phase]

\* A step of m inside a session: while the operation goes on the plan stays;
\* when it is over, the plan depends on whether it returned.
Proceed(m, returned, next, otherwise) ==
  /\ PlanTo(m, IF pc'[m] # "idle" THEN plan[m]
               ELSE IF returned THEN next ELSE otherwise)
  /\ UNCHANGED <<clock, unnamed>>

\* What m changes on disk or among the processes disturbs the other sessions.
Disturb(m) ==
  alone' = [o \in Managers |->
              alone[o] /\ (o = m \/ UNCHANGED <<disk, procs>>)]

-----------------------------------------------------------------------------
(* with mgr.managed_cluster() *)

\* The Connect server is enabled in the configuration of the manager.
EnterManaged(m) ==
  /\ m \notin Cli /\ pc[m] = "idle" /\ plan[m] = "none"
  /\ Called(m, "managed")
  /\ MayReconfigure(m)
  /\ cfg' = [cfg EXCEPT ![m] = @ \cup {"connect"}]
  /\ PlanTo(m, "configure")
  /\ alone' = [alone EXCEPT ![m] = Running = {} /\ orphan = {} /\ status = NoFile]
  /\ unnamed' = unnamed \ {m}
  /\ UNCHANGED <<alloc, disk, procs, pc, cached, todo, tracker, targets, mine, clock>>

ManagedConfigure(m) ==
  /\ plan[m] = "configure"
  /\ ConfigureStep(m) /\ ~SetWorkers(m)
  /\ Proceed(m, pc[m] = "save", "start", "finally")
  /\ Disturb(m)

\* start, or the rollback it ends in when a launch fails.
StartOrRollback(m) == StartStep(m) \/ (pc[m] = "rollback" /\ StopStep(m))

ManagedStart(m) ==
  /\ plan[m] = "start"
  /\ StartOrRollback(m)
  /\ Proceed(m, pc[m] = "start", "body", "finally")
  /\ Disturb(m)

\* The body ends, raises or is interrupted, or there is no Spark session for it.
LeaveBody(m) ==
  /\ plan[m] = "body"
  /\ PlanTo(m, "finally")
  /\ UNCHANGED <<vars, clock, past>>

\* Mutant: nothing is stopped when status.json does not say what runs.
ManagedStopAsRecorded(m) ==
  /\ plan[m] = "finally"
  /\ IF pc[m] = "idle" /\ status = NoFile
     THEN UNCHANGED <<alloc, disk, procs>> /\ Return(m)
     ELSE StopStep(m)
  /\ Proceed(m, TRUE, "none", "none")
  /\ Disturb(m)

\* The finally clause. What stop raises here hides what came before.
ManagedStop(m) ==
  /\ plan[m] = "finally"
  /\ StopStep(m)
  /\ Proceed(m, TRUE, "none", "none")
  /\ Disturb(m)

\* Mutant: Ctrl-C ends the process before its finally clause.
InterruptManagedEnds(m) ==
  /\ "interrupt" \in Faults
  /\ plan[m] \in Managed
  /\ CutShort(m, "none")
  /\ PlanTo(m, IF plan[m] = "finally" THEN "none" ELSE "finally")
  /\ UNCHANGED <<clock, unnamed>>
  /\ Disturb(m)

\* Ctrl-C in configure or start is no Exception for start's rollback, but the
\* finally clause runs. In that clause it ends the session, and the process.
\* What was launched an instant before, and has no pid file, is remembered.
InterruptManaged(m) ==
  /\ "interrupt" \in Faults
  /\ plan[m] \in Managed
  /\ CutShort(m, IF plan[m] = "finally" THEN "none" ELSE "idle")
  /\ PlanTo(m, IF plan[m] = "finally" THEN "none" ELSE "finally")
  /\ unnamed' = IF orphan' = orphan THEN unnamed ELSE unnamed \cup {m}
  /\ UNCHANGED clock
  /\ Disturb(m)

-----------------------------------------------------------------------------
(* sparkctl start --wait *)

EnterWait(m) ==
  /\ m \notin Cli /\ plan[m] = "none"
  /\ Called(m, "wait")
  /\ MayStart
  /\ Load(m)
  /\ PlanTo(m, "launch")
  /\ \E t \in Timeouts : timeout' = [timeout EXCEPT ![m] = t]
  /\ slept' = [slept EXCEPT ![m] = 0]
  /\ alone' = [alone EXCEPT ![m] = Running = {} /\ orphan = {}]
  /\ unnamed' = unnamed \ {m}

\* start is outside the try: when it raises, nothing else is done.
WaitStart(m) ==
  /\ plan[m] = "launch"
  /\ StartOrRollback(m)
  /\ Proceed(m, pc[m] = "start", "sleep", "none")
  /\ Disturb(m)

\* Mutant: a sleep takes an hour however short the timeout is.
IntervalOfAnHour(m) == Hour

\* Mutant: it takes the whole hours of the timeout, and none when it is shorter.
IntervalOfWholeHours(m) ==
  IF timeout[m] # Never THEN (timeout[m] \div Hour) * Hour ELSE Hour

\* The length of each sleep is computed once, before the first.
Interval(m) ==
  IF timeout[m] # Never /\ timeout[m] < Hour THEN timeout[m] ELSE Hour

\* Without a timeout there is nothing to count.
Sleep(m) ==
  /\ plan[m] = "sleep"
  /\ timeout[m] # Never
  /\ slept[m] < timeout[m]
  /\ slept' = [slept EXCEPT ![m] = @ + Interval(m)]
  /\ UNCHANGED <<vars, plan, timeout, past>>

\* The loop is left: its clock is not needed any more.
EndWait(m) ==
  /\ PlanTo(m, "shutdown")
  /\ timeout' = [timeout EXCEPT ![m] = Never]
  /\ slept' = [slept EXCEPT ![m] = 0]
  /\ UNCHANGED <<vars, past>>

Expire(m) ==
  /\ plan[m] = "sleep"
  /\ timeout[m] # Never
  /\ slept[m] >= timeout[m]
  /\ EndWait(m)

CtrlC(m) ==
  /\ plan[m] = "sleep"
  /\ EndWait(m)

WaitStop(m) ==
  /\ plan[m] = "shutdown"
  /\ StopStep(m)
  /\ Proceed(m, TRUE, "none", "none")
  /\ Disturb(m)

\* Ctrl-C outside the wait ends the process where it is.
InterruptWait(m) ==
  /\ "interrupt" \in Faults
  /\ plan[m] \in Waiting
  /\ CutShort(m, "none")
  /\ PlanTo(m, "none")
  /\ UNCHANGED <<clock, unnamed>>
  /\ Disturb(m)

-----------------------------------------------------------------------------
\* The process of a session is killed, at work or in the middle of its wait.
KillSession(m) ==
  /\ "kill_session" \in Faults
  /\ plan[m] # "none"
  /\ \/ CutShort(m, "none")
     \/ /\ plan[m] \in Idling
        /\ UNCHANGED <<alloc, disk, procs>>
        /\ Leave(m, "none")
  /\ PlanTo(m, "none")
  /\ UNCHANGED <<clock, unnamed>>
  /\ Disturb(m)

\* A command. None begins while a session configures, starts or stops.
Command(m) ==
  /\ m \in Cli
  /\ pc[m] = "none" => \A o \in Managers : plan[o] \in Idling
  /\ ManagerStep(m)
  /\ UNCHANGED <<session, unnamed>>
  /\ Disturb(m)

\* A program makes its manager, and ends, outside the session; what else it may
\* do there is the matter of ClusterLifecycle.
Program(m) ==
  /\ m \notin Cli
  /\ plan[m] = "none"
  /\ Create(m) \/ Exit(m)
  /\ UNCHANGED <<session, past>>

\* The steps a session takes by itself.
SessionWork(m) ==
  \/ ManagedConfigure(m) \/ ManagedStart(m) \/ ManagedStop(m)
  \/ WaitStart(m) \/ Sleep(m) \/ Expire(m) \/ WaitStop(m)

SessionStep(m) ==
  \/ EnterManaged(m) \/ EnterWait(m) \/ SessionWork(m)
  \/ LeaveBody(m) \/ CtrlC(m)
  \/ InterruptManaged(m) \/ InterruptWait(m) \/ KillSession(m)

\* A process ends of itself: nobody has used the directory.
SessionDie == Die /\ UNCHANGED <<session, past>>

SessionNext ==
  \/ \E m \in Managers : Command(m) \/ Program(m) \/ SessionStep(m)
  \/ SessionDie

\* Every command that sparkctl runs returns, and time passes; users and faults
\* owe nothing. A command that is under way keeps a session from stopping.
SessionFairness ==
  /\ \A m \in Managers \ Cli : WF_sessionVars(SessionWork(m))
  /\ \A m \in Cli : WF_sessionVars(Busy(m) /\ Command(m))

SessionSpec == SessionInit /\ [][SessionNext]_sessionVars /\ SessionFairness

-----------------------------------------------------------------------------
(* What a session promises *)

\* The session of m ends by its own stop, that returned or raised.
EndsItself(m) ==
  plan[m] \in {"finally", "shutdown"} /\ plan'[m] = "none" /\ pc'[m] = "idle"

\* "stop the cluster after exit": a session that had its directory for itself
\* leaves no process, however its configure, start or body ended. Only what a
\* Ctrl-C kept from getting its pid file, and stop cannot find, may go on.
SessionLeavesNothing ==
  [][\A m \in Managers :
       EndsItself(m) /\ alone[m]
         => Running = {} /\ (m \notin unnamed => orphan = {})]_sessionVars

\* A timeout that is shorter than an hour, or a number of hours, is kept.
WaitsAsAsked ==
  \A m \in Managers :
    timeout[m] # Never /\ (timeout[m] < Hour \/ timeout[m] % Hour = 0)
      => slept[m] <= timeout[m]

\* m is on its way: to the body, to an unlimited wait or to the end.
Underway(m) ==
  plan[m] \notin Idling \/ (plan[m] = "sleep" /\ timeout[m] # Never)

\* A session gets through its configure and start, a wait with a timeout comes
\* to its end, and the stop that follows as well.
SessionsProgress == \A m \in Managers \ Cli : Underway(m) ~> ~Underway(m)
=============================================================================

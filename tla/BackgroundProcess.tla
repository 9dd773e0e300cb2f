------------------------- MODULE BackgroundProcess --------------------------
(***************************************************************************)
(* The two processes that sparkctl launches itself and leaves in the       *)
(* background: the srun that holds the job step of the workers, and the    *)
(* Jupyter server. start launches one, waits a little, and writes its pid  *)
(* into a file; stop, often in another process and much later, sends       *)
(* SIGTERM to that pid and waits for the end, but not for ever. With the   *)
(* resource monitor a job step of its own ends rmon on the nodes first, by *)
(* a script whose name all stops of a directory share.                     *)
(*                                                                         *)
(* A process whose parent lives stays as a zombie when it ends, until the  *)
(* parent reaps it: a stop in the program that started it sees another     *)
(* process table than a stop in a command of its own.                      *)
(***************************************************************************)
EXTENDS Naturals

CONSTANTS
  Kinds,     \* the ways to launch: "srun", "monitored" (srun with rmon), "jupyter"
  Managers,  \* processes that run sparkctl
  Processes, \* the processes they may launch,
  Children,  \* and which of them each kind has: a bound
  Polls,     \* how often a start looks for Jupyter's URL
  Limit,     \* how often a stop looks for the end of a process or monitor
  None       \* no process, no parent

ASSUME BackgroundAssumption ==
  /\ Kinds \subseteq {"srun", "monitored", "jupyter"}
  /\ Children \in [Kinds -> SUBSET Processes]
  /\ Polls \in Nat \ {0} /\ Limit \in Nat \ {0}
  /\ None \notin Managers \cup Processes

VARIABLES
  kind,     \* the one this directory is about; fixed
  state,    \* of each process
  parent,   \* the living process that launched it
  pidFile,  \* srun_workers.pid or jupyter.pid
  recorded, \* its flag in status.json: absent, or whether it runs
  rmon,     \* the monitors in the job step of each process
  rmonFile, \* rmon_<host>.pid: the process whose monitors it names
  script,   \* tmp_stop_rmon.sh in the conf directory
  pc,       \* where each manager is
  pid,      \* the process its start or stop is about
  ticks,    \* how often it has looked
  undo,     \* the managers that roll their start back
  lost,     \* history: running, but its stop gave up, or its pid was never written
  cut,      \* history: running, but its start was killed
  torn,     \* history: a pid file went, and status.json was not written after it
  untold    \* history: two stops were at one script, or srun failed to run it

table == <<state, parent>>
files == <<pidFile, recorded>>
monitor == <<rmon, rmonFile, script>>
memory == <<pc, pid, ticks, undo>>
history == <<lost, cut, torn, untold>>
vars == <<kind, table, files, monitor, memory, history>>

\* It runs, has said where (Jupyter), or was sent SIGTERM.
Alive == {"running", "ready", "ending"}

\* Within a start: until the pid file is written, and until status.json is.
Starting == {"await", "launched"}

\* Within a stop: the script for rmon is opened, filled, given to srun and run
\* on the nodes; then comes the process, and last status.json.
Stopping == {"open", "fill", "overlap", "nodes", "signal", "wait", "unlink", "record"}

TypeOK ==
  /\ kind \in Kinds
  /\ state \in [Processes -> {"unused", "zombie", "gone"} \cup Alive]
  /\ parent \in [Processes -> Managers \cup {None}]
  /\ pidFile \in Processes \cup {None}
  /\ recorded \in {"absent", "up", "down"}
  /\ rmon \in [Processes -> {"off", "on", "told", "late"}]
  /\ rmonFile \in Processes \cup {None}
  /\ script \in {"absent", "empty", "full"}
  /\ pc \in [Managers -> {"idle"} \cup Starting \cup Stopping]
  /\ pid \in [Managers -> Processes \cup {None}]
  /\ ticks \in [Managers -> 0 .. Polls + Limit]
  /\ undo \subseteq Managers
  /\ lost \subseteq Processes /\ cut \subseteq Processes
  /\ torn \in BOOLEAN /\ untold \in BOOLEAN

Init ==
  /\ kind \in Kinds
  /\ state = [p \in Processes |-> "unused"]
  /\ parent = [p \in Processes |-> None]
  /\ pidFile = None
  /\ recorded = "absent"
  /\ rmon = [p \in Processes |-> "off"]
  /\ rmonFile = None
  /\ script = "absent"
  /\ pc = [m \in Managers |-> "idle"]
  /\ pid = [m \in Managers |-> None]
  /\ ticks = [m \in Managers |-> 0]
  /\ undo = {}
  /\ lost = {} /\ cut = {}
  /\ torn = FALSE /\ untold = FALSE

-----------------------------------------------------------------------------
(* The process table *)

\* An ended process is a zombie until its parent reaps it, if that lives. Its
\* monitors end with it.
End(p) ==
  /\ state[p] \in Alive
  /\ state' = [state EXCEPT ![p] = IF parent[p] = None THEN "gone" ELSE "zombie"]
  /\ rmon' = [rmon EXCEPT ![p] = "off"]
  /\ lost' = lost \ {p} /\ cut' = cut \ {p}
  /\ UNCHANGED <<kind, parent, files, rmonFile, script, memory, torn, untold>>

\* Jupyter prints its URL.
Ready(p) ==
  /\ kind = "jupyter"
  /\ state[p] = "running"
  /\ state' = [state EXCEPT ![p] = "ready"]
  /\ UNCHANGED <<kind, parent, files, monitor, memory, history>>

\* The monitors have written their plots and end.
RmonEnds(p) ==
  /\ rmon[p] \in {"told", "late"}
  /\ rmon' = [rmon EXCEPT ![p] = "off"]
  /\ UNCHANGED <<kind, table, files, rmonFile, script, memory, history>>

\* Python's subprocess module reaps children nobody waits for, whenever it
\* launches another one.
Reap(p) ==
  /\ state[p] = "zombie"
  /\ state' = [state EXCEPT ![p] = "gone"]
  /\ UNCHANGED <<kind, parent, files, monitor, memory, history>>

Running(some) == {p \in some : state[p] \in Alive}

\* A process that runs sparkctl ends; its children go on without a parent.
Orphan(m) ==
  /\ parent' = [p \in Processes |-> IF parent[p] = m THEN None ELSE parent[p]]
  /\ state' = [p \in Processes |->
                 IF parent[p] = m /\ state[p] = "zombie" THEN "gone" ELSE state[p]]

-----------------------------------------------------------------------------
(* Helpers *)

Goto(m, label) == pc' = [pc EXCEPT ![m] = label]

\* It returns or raises; its locals are gone with it.
Return(m) ==
  /\ Goto(m, "idle")
  /\ undo' = undo \ {m}
  /\ pid' = [pid EXCEPT ![m] = None]
  /\ ticks' = [ticks EXCEPT ![m] = 0]

Tick(m) == ticks' = [ticks EXCEPT ![m] = @ + 1]

-----------------------------------------------------------------------------
(* start *)

\* start gets as far as this only when no server of an earlier one is left, and
\* users give it while nobody is at work.
MayLaunch ==
  /\ \A m \in Managers : pc[m] = "idle"
  /\ pidFile # None => state[pidFile] \notin Alive \/ pidFile \in lost

\* The script of the job step launches the monitors with it.
Launch(m) ==
  /\ MayLaunch
  /\ \E p \in Children[kind] :
       /\ state[p] = "unused"
       /\ state' = [state EXCEPT ![p] = "running"]
       /\ parent' = [parent EXCEPT ![p] = m]
       /\ pid' = [pid EXCEPT ![m] = p]
       /\ IF kind = "monitored"
          THEN rmon' = [rmon EXCEPT ![p] = "on"] /\ rmonFile' = p
          ELSE UNCHANGED <<rmon, rmonFile>>
  /\ Goto(m, "await")
  /\ UNCHANGED <<kind, files, script, ticks, undo, history>>

\* How often start waits: for Jupyter's URL many times, for srun once.
Patience == IF kind = "jupyter" THEN Polls ELSE 1

\* start sees whether the process has ended: before each wait for Jupyter's
\* URL, after the only wait for srun.
Looks(m) == IF kind = "jupyter" THEN ticks[m] < Polls ELSE ticks[m] = 1

\* Mutant: Jupyter's URL is awaited for ever.
AwaitForever(m) ==
  /\ pc[m] = "await"
  /\ ticks[m] < Patience
  /\ kind = "jupyter" => state[pid[m]] = "running"
  /\ IF kind # "jupyter" THEN Tick(m) ELSE UNCHANGED ticks
  /\ UNCHANGED <<kind, table, files, monitor, pc, pid, undo, history>>

Await(m) ==
  /\ pc[m] = "await"
  /\ ticks[m] < Patience
  /\ kind = "jupyter" => state[pid[m]] = "running"
  /\ Tick(m)
  /\ UNCHANGED <<kind, table, files, monitor, pc, pid, undo, history>>

\* It has ended, and poll has reaped it: start raises.
ExitNoticed(m) ==
  /\ pc[m] = "await"
  /\ Looks(m)
  /\ state[pid[m]] \notin Alive
  /\ state' = [state EXCEPT ![pid[m]] = "gone"]
  /\ Return(m)
  /\ UNCHANGED <<kind, parent, files, monitor, history>>

\* Has start seen what it waits for, at a moment when it looks?
Satisfied(m) ==
  Looks(m) /\ state[pid[m]] \in (IF kind = "jupyter" THEN {"ready"} ELSE Alive)

\* Mutant: a Jupyter server that gives no URL in time is a failure.
WritePidOrRaise(m) ==
  /\ pc[m] = "await"
  /\ \/ Satisfied(m) /\ pidFile' = pid[m] /\ Goto(m, "launched") /\ UNCHANGED <<pid, ticks, undo>>
     \/ kind = "jupyter" /\ ticks[m] = Polls /\ Return(m) /\ UNCHANGED pidFile
  /\ UNCHANGED <<kind, table, recorded, monitor, history>>

\* The pid file is written then, or when Jupyter's time is up.
WritePid(m) ==
  /\ pc[m] = "await"
  /\ Satisfied(m) \/ (kind = "jupyter" /\ ticks[m] = Polls)
  /\ pidFile' = pid[m]
  /\ Goto(m, "launched")
  /\ UNCHANGED <<kind, table, recorded, monitor, pid, ticks, undo, history>>

\* The rest of the start succeeds.
RecordUp(m) ==
  /\ pc[m] = "launched"
  /\ recorded' = "up"
  /\ torn' = FALSE
  /\ Return(m)
  /\ UNCHANGED <<kind, table, pidFile, monitor, lost, cut, untold>>

\* A later launch raises, and the rollback stops Jupyter. srun is the last.
RollBack(m) ==
  /\ pc[m] = "launched"
  /\ kind = "jupyter"
  /\ undo' = undo \cup {m}
  /\ Goto(m, "signal")
  /\ ticks' = [ticks EXCEPT ![m] = 0]
  /\ UNCHANGED <<kind, table, files, monitor, pid, history>>

-----------------------------------------------------------------------------
(* stop: the monitors *)

\* A start, or its rollback, is under way.
InStart(m) == pc[m] \in Starting \/ m \in undo

\* Without status.json, stop takes the process to run. Several stops overlap.
BeginStop(m) ==
  /\ pc[m] = "idle"
  /\ \A o \in Managers : ~InStart(o)
  /\ recorded # "down"
  /\ Goto(m, IF kind = "monitored" THEN "open" ELSE "signal")
  /\ UNCHANGED <<kind, table, files, monitor, pid, ticks, undo, history>>

\* A stop has opened the script and will delete it.
UsesScript(m) == pc[m] \in {"fill", "overlap", "nodes"}

\* write_text truncates the script ...
OpenScript(m) ==
  /\ pc[m] = "open"
  /\ script' = "empty"
  /\ untold' = (untold \/ \E o \in Managers : UsesScript(o))
  /\ Goto(m, "fill")
  /\ UNCHANGED <<kind, table, files, rmon, rmonFile, pid, ticks, undo, lost, cut, torn>>

\* ... and fills it. When another stop has deleted it, chmod raises.
FillScript(m) ==
  /\ pc[m] = "fill"
  /\ IF script = "absent"
     THEN Return(m) /\ UNCHANGED script
     ELSE script' = "full" /\ Goto(m, "overlap") /\ UNCHANGED <<pid, ticks, undo>>
  /\ UNCHANGED <<kind, table, files, rmon, rmonFile, history>>

\* Mutant: the script deletes the pid file of rmon before it waits.
TellMonitorsAndForget(m) ==
  /\ pc[m] = "overlap"
  /\ script = "full"
  /\ rmonFile # None
  /\ rmon' = [rmon EXCEPT ![rmonFile] = IF @ = "on" THEN "told" ELSE @]
  /\ pid' = [pid EXCEPT ![m] = rmonFile]
  /\ rmonFile' = None
  /\ Goto(m, "nodes")
  /\ UNCHANGED <<kind, table, files, script, ticks, undo, history>>

\* `srun --overlap` runs the script on the nodes, which tells the monitors that
\* the pid file there names to end.
TellMonitors(m) ==
  /\ pc[m] = "overlap"
  /\ script = "full"
  /\ rmonFile # None
  /\ rmon' = [rmon EXCEPT ![rmonFile] = IF @ = "on" THEN "told" ELSE @]
  /\ pid' = [pid EXCEPT ![m] = rmonFile]
  /\ Goto(m, "nodes")
  /\ UNCHANGED <<kind, table, files, rmonFile, script, ticks, undo, history>>

\* srun returns, and the script is deleted. When another stop was faster, that
\* raises, and nothing is done about the process.
CloseScript(m) ==
  /\ script' = "absent"
  /\ IF script = "absent"
     THEN Return(m)
     ELSE /\ Goto(m, "signal")
          /\ pid' = [pid EXCEPT ![m] = None]
          /\ ticks' = [ticks EXCEPT ![m] = 0]
          /\ UNCHANGED undo

\* No pid file; or the script is not there or empty; or srun fails.
TellNobody(m) ==
  /\ pc[m] = "overlap"
  /\ \/ rmonFile = None /\ UNCHANGED untold
     \/ script # "full" /\ UNCHANGED untold
     \/ untold' = TRUE
  /\ CloseScript(m)
  /\ UNCHANGED <<kind, table, files, rmon, rmonFile, lost, cut, torn>>

\* The script looks for the end of the monitors once a second.
AwaitMonitors(m) ==
  /\ pc[m] = "nodes"
  /\ rmon[pid[m]] \in {"told", "late"}
  /\ ticks[m] < Limit
  /\ Tick(m)
  /\ UNCHANGED <<kind, table, files, monitor, pc, pid, undo, history>>

\* They have ended, or their time is up. Their pid file goes in either case.
LeaveMonitors(m) ==
  /\ pc[m] = "nodes"
  /\ rmon[pid[m]] \notin {"told", "late"} \/ ticks[m] = Limit
  /\ rmon' = [rmon EXCEPT ![pid[m]] = IF @ = "told" THEN "late" ELSE @]
  /\ rmonFile' = None
  /\ CloseScript(m)
  /\ UNCHANGED <<kind, table, files, history>>

-----------------------------------------------------------------------------
(* stop: the process *)

\* Mutant: stop ends with the process and writes no status.json.
FinishUnrecorded(m) == Return(m)

\* stop goes on to write status.json, whatever became of the process. A rollback
\* does not: its start raises.
Finish(m) ==
  IF m \in undo THEN Return(m) ELSE Goto(m, "record") /\ UNCHANGED <<pid, ticks, undo>>

\* Nothing names the process any more.
NoPidFile(m) ==
  /\ pc[m] = "signal"
  /\ pidFile = None
  /\ Finish(m)
  /\ UNCHANGED <<kind, table, files, monitor, history>>

\* Mutant: the end of the process is not waited for.
SignalAndLeave(m) ==
  /\ pc[m] = "signal"
  /\ pidFile # None
  /\ state' = [state EXCEPT ![pidFile] = IF @ \in Alive THEN "ending" ELSE @]
  /\ pid' = [pid EXCEPT ![m] = pidFile]
  /\ Goto(m, "unlink")
  /\ UNCHANGED <<kind, parent, files, monitor, ticks, undo, history>>

\* SIGTERM. A zombie takes it without an error, for a pid that is gone there is
\* nothing to wait for.
Signal(m) ==
  /\ pc[m] = "signal"
  /\ pidFile # None
  /\ state' = [state EXCEPT ![pidFile] = IF @ \in Alive THEN "ending" ELSE @]
  /\ pid' = [pid EXCEPT ![m] = pidFile]
  /\ Goto(m, IF state[pidFile] = "gone" THEN "unlink" ELSE "wait")
  /\ UNCHANGED <<kind, parent, files, monitor, ticks, undo, history>>

\* Mutant: only whether there is such a process is looked at.
SeenEndedByPid(m) == state[pid[m]] = "gone"

\* waitpid answers for a child of this process, kill(0) for any other: a zombie
\* of another living program seems to run.
SeenEnded(m) ==
  state[pid[m]] = "gone" \/ (state[pid[m]] = "zombie" /\ parent[pid[m]] = m)

\* Mutant: the seconds are not counted against the limit.
WaitOnWithoutLimit(m) ==
  /\ pc[m] = "wait"
  /\ ~SeenEnded(m)
  /\ Tick(m)
  /\ UNCHANGED <<kind, table, files, monitor, pc, pid, undo, history>>

WaitOn(m) ==
  /\ pc[m] = "wait"
  /\ ~SeenEnded(m)
  /\ ticks[m] < Limit
  /\ Tick(m)
  /\ UNCHANGED <<kind, table, files, monitor, pc, pid, undo, history>>

Ended(m) ==
  /\ pc[m] = "wait"
  /\ SeenEnded(m)
  /\ ticks[m] < Limit
  /\ state' = [state EXCEPT ![pid[m]] = "gone"]
  /\ Goto(m, "unlink")
  /\ UNCHANGED <<kind, parent, files, monitor, pid, ticks, undo, history>>

\* The pid file stays for another try; but status.json will forbid it.
GiveUp(m) ==
  /\ pc[m] = "wait"
  /\ ticks[m] = Limit
  /\ lost' = lost \cup Running({pid[m]})
  /\ Finish(m)
  /\ UNCHANGED <<kind, table, files, monitor, cut, torn, untold>>

\* When another stop was faster, unlink raises and status.json stays.
Unlink(m) ==
  /\ pc[m] = "unlink"
  /\ pidFile' = None
  /\ torn' = (torn \/ m \in undo)
  /\ IF pidFile = None THEN Return(m) ELSE Finish(m)
  /\ UNCHANGED <<kind, table, recorded, monitor, lost, cut, untold>>

\* The metastore comes in between.
RecordDown(m) ==
  /\ pc[m] = "record"
  /\ recorded' = "down"
  /\ torn' = FALSE
  /\ Return(m)
  /\ UNCHANGED <<kind, table, pidFile, monitor, lost, cut, untold>>

-----------------------------------------------------------------------------
\* A process that runs sparkctl ends, or is killed or interrupted, and another
\* takes its place. Ctrl-C in the midst of srun deletes its script, a kill does not.
Exit(m) ==
  /\ Orphan(m)
  /\ lost' = lost \cup (IF pc[m] = "await" THEN Running({pid[m]}) ELSE {})
  /\ cut' = cut \cup (IF InStart(m) THEN Running({pid[m]}) ELSE {})
  /\ torn' = (torn \/ pc[m] = "record")
  /\ \/ UNCHANGED script
     \/ UsesScript(m) /\ pc[m] # "fill" /\ script' = "absent"
  /\ Return(m)
  /\ UNCHANGED <<kind, files, rmon, rmonFile, untold>>

\* What `srun --overlap` does; the stop that called it has nothing to say.
OverlapStep(m) ==
  TellMonitors(m) \/ TellNobody(m) \/ AwaitMonitors(m) \/ LeaveMonitors(m)

\* The steps of a call that is under way.
CallStep(m) ==
  \/ Await(m) \/ ExitNoticed(m) \/ WritePid(m) \/ RecordUp(m) \/ RollBack(m)
  \/ OpenScript(m) \/ FillScript(m) \/ NoPidFile(m) \/ Signal(m)
  \/ WaitOn(m) \/ Ended(m) \/ GiveUp(m) \/ Unlink(m) \/ RecordDown(m)

Next ==
  \/ \E m \in Managers :
       Launch(m) \/ BeginStop(m) \/ CallStep(m) \/ OverlapStep(m) \/ Exit(m)
  \/ \E p \in Processes : End(p) \/ Ready(p) \/ Reap(p) \/ RmonEnds(p)

\* The code of a call is executed. The processes owe nothing, and neither does
\* `srun --overlap`, for which stop waits without a limit.
Fairness == \A m \in Managers : WF_vars(CallStep(m))

Spec == Init /\ [][Next]_vars /\ Fairness

-----------------------------------------------------------------------------
(* What start and stop promise *)

\* A process that runs has its pid in the pid file as soon as its start is past
\* the wait, and keeps it until it has ended or its stop has given up.
NamedUnlessLost ==
  \A p \in Processes \ lost :
    state[p] \in Alive /\ (\A m \in Managers : pc[m] = "await" => pid[m] # p)
      => pidFile = p

\* When status.json says that it does not run, it does not, whichever of several
\* stops wrote that; unless a stop gave up, or the start was killed.
DownMeansEnded ==
  recorded = "down" /\ (\A m \in Managers : ~InStart(m))
    => \A p \in Processes \ (lost \cup cut) : state[p] \notin Alive

\* Of stops that overlap the slower ones raise at the pid file that is gone, and
\* write no status.json. One of them writes it all the same: status.json does
\* not go on naming what has lost its pid file, unless that one was killed
\* before, or a start was rolled back.
StopIsRecorded ==
  recorded = "up" /\ pidFile = None
    => torn \/ \E m \in Managers : pc[m] = "record"

\* rmon runs inside the job step of the workers and is stopped before that is
\* torn down: no stop has sent SIGTERM to a step with a monitor that has neither
\* ended nor had its thirty seconds, also when a second stop is ahead of the first
\* or an earlier one was killed. Only a stop that empties the script of another, or
\* an srun that fails, can be the cause of that.
MonitorsEndFirst ==
  \A p \in Processes : state[p] = "ending" /\ rmon[p] \in {"on", "told"} => untold

\* Every start and stop returns, however Jupyter, srun and the other stops of
\* the directory behave. Only `srun --overlap` can hold a stop, for it is given
\* no time limit.
CallsReturn ==
  \A m \in Managers : pc[m] # "idle" ~> pc[m] \in {"idle", "overlap", "nodes"}

\* A stop that waits for a child of its own program, after that has ended, gets
\* to delete the pid file, unless its program ends; it does not take the zombie
\* for running until it gives up.
ZombiesAreNoticed ==
  \A m \in Managers, p \in Processes :
    pc[m] = "wait" /\ pid[m] = p /\ parent[p] = m /\ state[p] = "zombie" /\ ticks[m] < Limit
      ~> pidFile # p \/ parent[p] # m
=============================================================================

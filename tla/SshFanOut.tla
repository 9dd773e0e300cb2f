----------------------------- MODULE SshFanOut ------------------------------
(***************************************************************************)
(* SparkProcessRunner starts and stops the workers of many nodes: it       *)
(* writes a script into the shared conf directory, runs it on every node   *)
(* through ssh from a pool of threads, and deletes it. Every manager of a  *)
(* directory uses the same two file names, so calls that overlap meet in   *)
(* them. With the resource monitor the script also starts and stops rmon.  *)
(***************************************************************************)
EXTENDS Naturals, FiniteSets

CONSTANTS
  Nodes,    \* the worker nodes
  Start,    \* the call of start_worker_processes
  Stops,    \* the calls of stop_worker_processes
  Pool,     \* the largest number of ssh at a time
  MayFail   \* may ssh and the commands in the script fail?

Calls == {Start} \cup Stops

ASSUME FanOutAssumption ==
  /\ IsFiniteSet(Nodes) /\ Nodes # {}
  /\ Start \notin Stops
  /\ Pool \in Nat \ {0}
  /\ MayFail \in BOOLEAN

VARIABLES
  monitored, \* resource_monitor.enabled, and rmon is installed; fixed
  script,    \* tmp_start_worker.sh and tmp_stop_worker.sh in the conf directory
  pc,        \* where each call is
  ssh,       \* what the thread for a node does, by call and node
  failures,  \* the nodes of each call whose ssh returned non-zero
  workers,   \* nodes with a worker
  named,     \* nodes with an rmon that its pid file names
  stray,     \* nodes with an rmon that no pid file names
  launched,  \* history: nodes on which the start has launched a worker
  emptied    \* history: has another command emptied the conf directory?

files == <<monitored, script, emptied>>
nodes == <<workers, named, stray, launched>>
vars == <<files, pc, ssh, failures, nodes>>

\* A call waits to begin, has opened its script for writing, waits for its
\* threads, and then it has returned or raised.
Over == {"returned", "failed", "raised"}

TypeOK ==
  /\ monitored \in BOOLEAN
  /\ script \in [{"start", "stop"} -> {"absent", "empty", "full"}]
  /\ pc \in [Calls -> {"before", "write", "pool"} \cup Over]
  /\ ssh \in [Calls -> [Nodes -> {"none", "queued", "ssh", "rmon", "ended"}]]
  /\ failures \in [Calls -> SUBSET Nodes]
  /\ workers \subseteq Nodes
  /\ named \subseteq Nodes /\ stray \subseteq Nodes
  /\ launched \subseteq Nodes
  /\ emptied \in BOOLEAN
  /\ \A c \in Calls : \A n \in failures[c] : ssh[c][n] = "ended"

\* Workers and monitors of an earlier run may still be there.
Init ==
  /\ monitored \in BOOLEAN
  /\ script = [k \in {"start", "stop"} |-> "absent"]
  /\ pc = [c \in Calls |-> "before"]
  /\ ssh = [c \in Calls |-> [n \in Nodes |-> "none"]]
  /\ failures = [c \in Calls |-> {}]
  /\ workers \in SUBSET Nodes
  /\ named = IF monitored THEN workers ELSE {}
  /\ stray = {}
  /\ launched = {}
  /\ emptied = FALSE

-----------------------------------------------------------------------------
Kind(c) == IF c = Start THEN "start" ELSE "stop"

AtWork(c) == pc[c] \in {"write", "pool"}

\* The thread of call c for node n goes to this stage.
Thread(c, n, stage) == ssh' = [ssh EXCEPT ![c][n] = stage]

Fails(c, n) == failures' = [failures EXCEPT ![c] = @ \cup {n}]

\* The start, if there is one, comes first; several stops may overlap.
MayBegin(c) ==
  IF c = Start THEN \A d \in Stops : pc[d] = "before" ELSE ~AtWork(Start)

\* write_text truncates the file ...
Begin(c) ==
  /\ pc[c] = "before"
  /\ MayBegin(c)
  /\ script' = [script EXCEPT ![Kind(c)] = "empty"]
  /\ pc' = [pc EXCEPT ![c] = "write"]
  /\ UNCHANGED <<monitored, emptied, ssh, failures, nodes>>

\* ... and fills it; then all nodes are submitted to the pool. What another
\* call deletes in between takes the file along: chmod raises.
Submit(c) ==
  /\ pc[c] = "write"
  /\ script[Kind(c)] # "absent"
  /\ script' = [script EXCEPT ![Kind(c)] = "full"]
  /\ pc' = [pc EXCEPT ![c] = "pool"]
  /\ ssh' = [ssh EXCEPT ![c] = [n \in Nodes |-> "queued"]]
  /\ UNCHANGED <<monitored, emptied, failures, nodes>>

ChmodFails(c) ==
  /\ pc[c] = "write"
  /\ script[Kind(c)] = "absent"
  /\ pc' = [pc EXCEPT ![c] = "raised"]
  /\ UNCHANGED <<files, ssh, failures, nodes>>

\* Mutant: the thread of an ssh that failed is lost for the pool.
InUseLeaking(c) == {n \in Nodes : ssh[c][n] \in {"ssh", "rmon"}} \cup failures[c]

\* The threads of the pool that are at work.
InUse(c) == {n \in Nodes : ssh[c][n] \in {"ssh", "rmon"}}

\* A thread of the pool is free.
Connect(c, n) ==
  /\ ssh[c][n] = "queued"
  /\ Cardinality(InUse(c)) < Pool
  /\ Thread(c, n, "ssh")
  /\ UNCHANGED <<files, pc, failures, nodes>>

\* Mutant: the node is tried again, but stays among the failed ones.
NotRunAgain(c, n) ==
  /\ ssh[c][n] = "ssh"
  /\ MayFail \/ script[Kind(c)] # "full"
  /\ Thread(c, n, "queued")
  /\ Fails(c, n)
  /\ UNCHANGED <<files, pc, nodes>>

\* ssh fails before the script ran, or there is no script, or it is new and
\* not executable yet.
NotRun(c, n) ==
  /\ ssh[c][n] = "ssh"
  /\ MayFail \/ script[Kind(c)] # "full"
  /\ Thread(c, n, "ended")
  /\ Fails(c, n)
  /\ UNCHANGED <<files, pc, nodes>>

\* An empty script does nothing, successfully.
RunNothing(c, n) ==
  /\ ssh[c][n] = "ssh"
  /\ script[Kind(c)] = "empty"
  /\ Thread(c, n, "ended")
  /\ UNCHANGED <<files, pc, failures, nodes>>

\* Mutant: the result of ssh is not looked at.
WorkerCommandRanUnchecked(c, n, ok) ==
  /\ Thread(c, n, IF monitored THEN "rmon" ELSE "ended")
  /\ UNCHANGED failures

\* The command for the worker ended. It is the last of the script, which
\* returns its result, unless commands for rmon follow: then it is lost.
WorkerCommandRan(c, n, ok) ==
  IF monitored
  THEN Thread(c, n, "rmon") /\ UNCHANGED failures
  ELSE /\ Thread(c, n, "ended")
       /\ IF ok THEN UNCHANGED failures ELSE Fails(c, n)

\* start-worker.sh: a worker that runs already is an error.
StartWorker(n) ==
  /\ ssh[Start][n] = "ssh"
  /\ script["start"] = "full"
  /\ \/ /\ n \notin workers
        /\ workers' = workers \cup {n}
        /\ launched' = launched \cup {n}
        /\ \E ok \in {TRUE, ~MayFail} : WorkerCommandRan(Start, n, ok)
     \/ /\ MayFail \/ n \in workers
        /\ WorkerCommandRan(Start, n, FALSE)
        /\ UNCHANGED <<workers, launched>>
  /\ UNCHANGED <<files, pc, named, stray>>

\* stop-worker.sh: no worker is no error.
StopWorker(c, n) ==
  /\ c \in Stops
  /\ ssh[c][n] = "ssh"
  /\ script["stop"] = "full"
  /\ \/ workers' = workers \ {n} /\ WorkerCommandRan(c, n, TRUE)
     \/ MayFail /\ WorkerCommandRan(c, n, FALSE) /\ UNCHANGED workers
  /\ UNCHANGED <<files, pc, named, stray, launched>>

\* The script goes on although start-worker.sh failed: rmon is launched, and
\* its pid replaces that of the one before.
StartRmon(n) ==
  /\ ssh[Start][n] = "rmon"
  /\ named' = named \cup {n}
  /\ stray' = stray \cup (named \cap {n})
  /\ Thread(Start, n, "ended")
  /\ UNCHANGED <<files, pc, failures, workers, launched>>

\* rmon is given 30 seconds; then its pid file is deleted in any case.
StopRmon(c, n) ==
  /\ c \in Stops
  /\ ssh[c][n] = "rmon"
  /\ named' = named \ {n}
  /\ \/ UNCHANGED stray
     \/ MayFail /\ stray' = stray \cup (named \cap {n})
  /\ Thread(c, n, "ended")
  /\ UNCHANGED <<files, pc, failures, workers, launched>>

\* as_completed and the end of the `with` block wait for every thread.
Drained(c) == \A n \in Nodes : ssh[c][n] = "ended"

\* Mutant: the call returns whatever failed.
ResultAlwaysGood(c) == "returned"

\* start raises when a node failed; stop returns one of the codes.
Result(c) == IF failures[c] = {} THEN "returned" ELSE "failed"

\* The finally clause deletes the script; when it is gone already, that raises
\* and hides the result.
Finish(c) ==
  /\ pc[c] = "pool"
  /\ Drained(c)
  /\ pc' = [pc EXCEPT ![c] = IF script[Kind(c)] = "absent" THEN "raised" ELSE Result(c)]
  /\ script' = [script EXCEPT ![Kind(c)] = "absent"]
  /\ UNCHANGED <<monitored, emptied, ssh, failures, nodes>>

\* configure or clean deletes all files of the conf directory, once, under a
\* call that is at work.
EmptyConfDir ==
  /\ ~emptied
  /\ \E c \in Calls : AtWork(c)
  /\ emptied' = TRUE
  /\ script' = [k \in {"start", "stop"} |-> "absent"]
  /\ UNCHANGED <<monitored, pc, ssh, failures, nodes>>

-----------------------------------------------------------------------------
ThreadStep(c, n) ==
  \/ Connect(c, n) \/ NotRun(c, n) \/ RunNothing(c, n)
  \/ StopWorker(c, n) \/ StopRmon(c, n)
  \/ c = Start /\ StartWorker(n)
  \/ c = Start /\ StartRmon(n)

CallStep(c) ==
  \/ Submit(c) \/ ChmodFails(c) \/ Finish(c)
  \/ \E n \in Nodes : ThreadStep(c, n)

\* Nobody has to call anything.
Done == (\A c \in Calls : ~AtWork(c)) /\ UNCHANGED vars

Next == (\E c \in Calls : Begin(c) \/ CallStep(c)) \/ EmptyConfDir \/ Done

\* Threads are scheduled and every ssh comes to an end.
Fairness == \A c \in Calls : WF_vars(CallStep(c))

Spec == Init /\ [][Next]_vars /\ Fairness

-----------------------------------------------------------------------------
(* What the calls promise *)

Contract == INSTANCE LaunchContract WITH
  call <- CASE pc[Start] = "before" -> "before"
            [] pc[Start] \in {"write", "pool"} -> "pending"
            [] pc[Start] = "returned" -> "returned"
            [] OTHER -> "raised",
  masked <- monitored

\* start_worker_processes returns only when it has launched every worker, and
\* launches none after that.
ImplementsContract == Contract!Spec

\* However many stops overlap and rewrite or delete each other's script: when
\* all of them have returned 0, no rmon is left that has a pid file, and no
\* worker. (With the monitor the result of stop-worker.sh is lost.)
GoodStopsStopAll ==
  (\A c \in Stops : pc[c] = "returned") => named = {} /\ (workers = {} \/ monitored)

\* The script of a call that nobody disturbs is there until its last ssh ended.
ScriptStays ==
  \A c \in Calls :
    (\E n \in Nodes : ssh[c][n] \in {"queued", "ssh"})
    /\ (\A d \in Calls \ {c} : Kind(d) = Kind(c) => pc[d] = "before")
      => script[Kind(c)] = "full" \/ emptied

\* Every call comes to its end, although a pool is smaller than the cluster and
\* scripts disappear.
CallsReturn == \A c \in Calls : AtWork(c) ~> pc[c] \in Over
=============================================================================

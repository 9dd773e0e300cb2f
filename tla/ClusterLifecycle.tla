-------------------------- MODULE ClusterLifecycle --------------------------
(***************************************************************************)
(* The lifecycle of one sparkctl cluster: ClusterManager.configure,        *)
(* set_workers, load, start, stop and clean, run by any number of drivers  *)
(* (CLI commands and Python programs) on one base directory, together with *)
(* the files they leave there and the processes they launch.               *)
(*                                                                         *)
(* Every external command a manager waits for is one step, so a second     *)
(* manager, a crash of the driver and the death of a server can fall       *)
(* between any two of them.                                                *)
(***************************************************************************)
EXTENDS Naturals

CONSTANTS
  Managers,    \* ClusterManager instances, each in a process of its own
  Cli,         \* those that a sparkctl command creates; the rest are Python programs
  Nodes,       \* machines
  Host,        \* the machine the managers run on
  Allocations, \* the worker nodes the compute interface may report
  WorkerLists, \* the lists a program passes to set_workers, by allocation
  Configs,     \* the configurations users write, as sets of enabled settings
  Calls,       \* the ways of using the program that are exercised
  Faults,      \* the faults that may happen
  Overlap,     \* may a manager begin an operation while another is at work?
  NoFile       \* the content of a file that does not exist

HeadServices == {"postgres", "master", "connect", "history", "thrift", "jupyter"}
Services == HeadServices \cup {"workers"}
Settings == {"postgres", "connect", "history", "thrift", "jupyter", "srun"}

ASSUME LifecycleAssumption ==
  /\ Cli \subseteq Managers
  /\ Host \in Nodes
  /\ Allocations \subseteq SUBSET Nodes
  /\ WorkerLists \in [Allocations -> SUBSET SUBSET Nodes]
  /\ Configs \subseteq SUBSET Settings
  /\ Overlap \in BOOLEAN
  /\ \A S \in (SUBSET Services) \cup (SUBSET Settings) \cup (SUBSET Nodes) : NoFile # S
  /\ NoFile \notin {"on", "off"}

VARIABLES
  alloc,       \* worker node names of the compute interface; fixed by the job
  confDir,     \* does the conf directory exist?
  defaults,    \* spark-defaults.conf, reduced to the state of the event log
  workersFile, \* conf/workers
  saved,       \* config.json
  status,      \* status.json: the flags of StatusTracker that are true
  up,          \* server processes running on Host, each with its handle
  daemons,     \* nodes with a worker launched by start-worker.sh
  step,        \* nodes of the srun job step named by srun_workers.pid
  orphan,      \* kinds of process that run although no pid file names them
  pc,          \* where each manager is
  cfg,         \* self._config
  cached,      \* self._status
  todo,        \* services the current operation has still to start or stop
  tracker,     \* the StatusTracker of the current start
  targets,     \* the worker list the current start has read
  mine         \* history: running services that the latest start launched

disk == <<confDir, defaults, workersFile, saved, status>>
procs == <<up, daemons, step, orphan>>
memory == <<cfg, cached, todo, tracker, targets>>
vars == <<alloc, disk, procs, pc, memory, mine>>

\* "none": no such process; "built", "saved", "idle": between two calls.
Resting == {"none", "built", "saved", "idle"}
Inside == {"settings", "workers", "save", "start", "rollback", "stop"}

TypeOK ==
  /\ alloc \in Allocations
  /\ confDir \in BOOLEAN
  /\ defaults \in {NoFile, "on", "off"}
  /\ workersFile \in {NoFile} \cup SUBSET Nodes
  /\ saved \in {NoFile} \cup SUBSET Settings
  /\ status \in {NoFile} \cup SUBSET Services
  /\ up \subseteq HeadServices
  /\ daemons \subseteq Nodes
  /\ step \subseteq Nodes
  /\ orphan \subseteq {"jupyter", "srun"}
  /\ pc \in [Managers -> Resting \cup Inside]
  /\ cfg \in [Managers -> SUBSET Settings]
  /\ cached \in [Managers -> {NoFile} \cup SUBSET Services]
  /\ todo \in [Managers -> SUBSET Services]
  /\ tracker \in [Managers -> SUBSET Services]
  /\ targets \in [Managers -> SUBSET Nodes]
  /\ mine \in [Managers -> SUBSET Services]

Init ==
  /\ alloc \in Allocations
  /\ confDir = FALSE
  /\ defaults = NoFile
  /\ workersFile = NoFile
  /\ saved = NoFile
  /\ status = NoFile
  /\ up = {} /\ daemons = {} /\ step = {} /\ orphan = {}
  /\ pc = [m \in Managers |-> "none"]
  /\ cfg = [m \in Managers |-> {}]
  /\ cached = [m \in Managers |-> NoFile]
  /\ todo = [m \in Managers |-> {}]
  /\ tracker = [m \in Managers |-> {}]
  /\ targets = [m \in Managers |-> {}]
  /\ mine = [m \in Managers |-> {}]

-----------------------------------------------------------------------------
(* Helpers *)

\* The services of which at least one process runs under its handle.
Running == up \cup (IF daemons \cup step = {} THEN {} ELSE {"workers"})

Goto(m, label) == pc' = [pc EXCEPT ![m] = label]

\* m launched the services S just now; nobody keeps credit for what is gone.
Credit(m, S) ==
  mine' = [o \in Managers |->
             (IF o = m THEN mine[o] \cup S ELSE mine[o] \ S) \cap Running']

\* m leaves the operation it is in: the locals of the call are gone, and when
\* its process ends, so is the manager.
Leave(m, label) ==
  /\ Goto(m, label)
  /\ cfg' = [cfg EXCEPT ![m] = IF label = "none" THEN {} ELSE @]
  /\ cached' = [cached EXCEPT ![m] = IF label = "none" THEN NoFile ELSE @]
  /\ todo' = [todo EXCEPT ![m] = {}]
  /\ tracker' = [tracker EXCEPT ![m] = {}]
  /\ targets' = [targets EXCEPT ![m] = {}]
  /\ mine' = [o \in Managers |-> IF o = m THEN {} ELSE mine[o] \cap Running']

\* A CLI process ends when its command does; a program keeps its manager.
Return(m) == Leave(m, IF m \in Cli THEN "none" ELSE "idle")

\* A command is at work from its first step to its last, a program in its calls.
Busy(m) == pc[m] \in Inside \/ (m \in Cli /\ pc[m] # "none")

\* m may be asked for an operation of this kind now.
Called(m, call) ==
  /\ call \in Calls
  /\ Overlap \/ \A o \in Managers \ {m} : ~Busy(o)

\* A user may configure anew under a running cluster, to restart it later; how
\* the workers are launched (srun or ssh) is a setting of the site and stays.
MayReconfigure(m) ==
  \/ Running = {}
  \/ /\ "reconfigure" \in Calls
     /\ saved # NoFile => ("srun" \in cfg[m] <=> "srun" \in saved)

\* The usual start: nothing is left of an earlier one.
MayStart == "restart" \in Calls \/ Running = {}

\* What else it asks of a user: to start and stop with the current configuration.
UsesCurrent(m) == "stale_config" \in Calls \/ saved = cfg[m]

\* Mutant: the workers come before the Jupyter server.
StartRankWorkersEarly ==
  [postgres |-> 1, master |-> 2, connect |-> 3, history |-> 4,
   thrift |-> 5, jupyter |-> 7, workers |-> 6]

StartRank == [postgres |-> 1, master |-> 2, connect |-> 3, history |-> 4,
              thrift |-> 5, jupyter |-> 6, workers |-> 7]

StopRank == [master |-> 1, connect |-> 2, history |-> 3, thrift |-> 4,
             jupyter |-> 5, workers |-> 6, postgres |-> 7]

\* s is the service the operation of m handles now.
Turn(m, rank, s) == s \in todo[m] /\ \A t \in todo[m] : rank[s] <= rank[t]

HistorySetting(c) == IF "history" \in c THEN "on" ELSE "off"

IsSingleNode(ws) == ws = {Host}

-----------------------------------------------------------------------------
(* Creating a manager *)

\* from_config, and the constructor call of `sparkctl configure`.
Create(m) ==
  /\ Called(m, "create")
  /\ pc[m] = "none"
  /\ \E c \in Configs : cfg' = [cfg EXCEPT ![m] = c]
  /\ cached' = [cached EXCEPT ![m] = NoFile]
  /\ Goto(m, IF m \in Cli THEN "built" ELSE "idle")
  /\ UNCHANGED <<alloc, disk, procs, todo, tracker, targets, mine>>

\* Without config.json, load raises and there is no manager.
Load(m) ==
  /\ Called(m, "load")
  /\ pc[m] = "none"
  /\ saved # NoFile
  /\ cfg' = [cfg EXCEPT ![m] = saved]
  /\ cached' = [cached EXCEPT ![m] = status]
  /\ Goto(m, "idle")
  /\ UNCHANGED <<alloc, disk, procs, todo, tracker, targets, mine>>

\* The process of an unused manager ends; nothing it holds in memory is left.
Exit(m) ==
  /\ pc[m] \in {"built", "saved", "idle"}
  /\ UNCHANGED <<alloc, disk, procs>>
  /\ Leave(m, "none")

-----------------------------------------------------------------------------
(* configure and set_workers *)

\* Mutant: the old conf directory is not emptied.
BeginConfigureKeepsWorkers(m) ==
  /\ Called(m, "configure")
  /\ pc[m] = IF m \in Cli THEN "built" ELSE "idle"
  /\ MayReconfigure(m)
  /\ confDir' = TRUE
  /\ defaults' = NoFile
  /\ Goto(m, "settings")
  /\ UNCHANGED <<alloc, workersFile, saved, status, procs, memory, mine>>

\* clean_spark_conf_dir: whatever the directory held is gone.
BeginConfigure(m) ==
  /\ Called(m, "configure")
  /\ pc[m] = IF m \in Cli THEN "built" ELSE "idle"
  /\ MayReconfigure(m)
  /\ confDir' = TRUE
  /\ defaults' = NoFile
  /\ workersFile' = NoFile
  /\ Goto(m, "settings")
  /\ UNCHANGED <<alloc, saved, status, procs, memory, mine>>

\* The templates are copied and _add_spark_settings_to_defaults_file appends
\* to the copy.
WriteSettings(m) ==
  /\ pc[m] = "settings"
  /\ confDir
  /\ defaults' = HistorySetting(cfg[m])
  /\ Goto(m, "workers")
  /\ UNCHANGED <<alloc, confDir, workersFile, saved, status, procs, memory, mine>>

\* It raises: before the template of spark-defaults.conf is copied, because the
\* settings do not fit the allocation, or after the event log was set up.
SettingsFail(m) ==
  /\ "fail" \in Faults
  /\ Running = {} \/ "refuse" \in Faults
  /\ pc[m] = "settings"
  /\ confDir
  /\ defaults' \in {NoFile, "off", HistorySetting(cfg[m])}
  /\ UNCHANGED <<alloc, confDir, workersFile, saved, status, procs>>
  /\ Return(m)

WriteWorkers(m) ==
  /\ pc[m] = "workers"
  /\ confDir
  /\ workersFile' = alloc
  /\ Goto(m, "save")
  /\ UNCHANGED <<alloc, confDir, defaults, saved, status, procs, memory, mine>>

\* The directory was removed under a configure: opening a file in it raises.
ConfigureFail(m) ==
  /\ pc[m] \in {"settings", "workers"}
  /\ ~confDir
  /\ UNCHANGED <<alloc, disk, procs>>
  /\ Return(m)

SaveConfig(m) ==
  /\ pc[m] = "save"
  /\ saved' = cfg[m]
  /\ Goto(m, IF m \in Cli THEN "saved" ELSE "idle")
  /\ UNCHANGED <<alloc, confDir, defaults, workersFile, status, procs, memory, mine>>

\* The docstring asks to call it after configure and before start.
SetWorkers(m) ==
  /\ Called(m, "set_workers")
  /\ pc[m] = "idle" /\ m \notin Cli
  /\ Running = {}
  /\ UsesCurrent(m)
  /\ "after_failure" \in Calls \/ workersFile # NoFile
  /\ confDir
  /\ workersFile' \in WorkerLists[alloc]
  /\ UNCHANGED <<alloc, confDir, defaults, saved, status, procs, pc, memory, mine>>

-----------------------------------------------------------------------------
(* start *)

\* What _start goes through, in StartRank order. Whether the history server is
\* one of them is found out on the way, from spark-defaults.conf.
BeginStart(m) ==
  /\ Called(m, "start")
  /\ pc[m] \in IF m \in Cli THEN {"idle", "saved"} ELSE {"idle"}
  /\ MayStart
  /\ UsesCurrent(m)
  /\ workersFile # NoFile
  /\ targets' = [targets EXCEPT ![m] = workersFile]
  /\ todo' = [todo EXCEPT ![m] = (cfg[m] \cap HeadServices)
                                   \cup {"master", "history", "workers"}]
  /\ tracker' = [tracker EXCEPT ![m] = {}]
  /\ mine' = [mine EXCEPT ![m] = {}]
  /\ Goto(m, "start")
  /\ UNCHANGED <<alloc, disk, procs, cfg, cached>>

\* _read_workers raises before anything is launched.
StartWithoutWorkersFile(m) ==
  /\ Called(m, "start")
  /\ pc[m] \in IF m \in Cli THEN {"idle", "saved"} ELSE {"idle"}
  /\ workersFile = NoFile
  /\ UNCHANGED <<alloc, disk, procs>>
  /\ Return(m)

\* Mutant: the newest service has no flag.
StartedWithoutFlag(m, s) ==
  /\ tracker' = [tracker EXCEPT ![m] = @ \cup ({s} \ {"jupyter"})]
  /\ todo' = [todo EXCEPT ![m] = @ \ {s}]
  /\ UNCHANGED <<alloc, disk, pc, cfg, cached, targets>>

\* The call that launches s returned; only then is its flag set.
Started(m, s) ==
  /\ tracker' = [tracker EXCEPT ![m] = @ \cup {s}]
  /\ todo' = [todo EXCEPT ![m] = @ \ {s}]
  /\ UNCHANGED <<alloc, disk, pc, cfg, cached, targets>>

\* Mutant: the rollback forgets the Thrift server.
RaisedWithoutThrift(m) ==
  /\ Goto(m, "rollback")
  /\ todo' = [todo EXCEPT ![m] = tracker[m] \ {"thrift"}]
  /\ UNCHANGED <<alloc, disk, cfg, cached, tracker, targets>>

\* Mutant: the rollback stops what is configured, not what was launched.
RaisedAsConfigured(m) ==
  /\ Goto(m, "rollback")
  /\ todo' = [todo EXCEPT ![m] = {"master"} \cup (cfg[m] \cap HeadServices)]
  /\ UNCHANGED <<alloc, disk, cfg, cached, tracker, targets>>

\* A launch raised: _rollback_started_processes will stop what is flagged.
Raised(m) ==
  /\ Goto(m, "rollback")
  /\ todo' = [todo EXCEPT ![m] = tracker[m]]
  /\ UNCHANGED <<alloc, disk, cfg, cached, tracker, targets>>

\* Mutant: the workers are launched like a server of the host.
StartAnyService(m, s) ==
  /\ pc[m] = "start"
  /\ Turn(m, StartRank, s)
  /\ s = "history" => defaults = "on"
  /\ s \in up => s = "jupyter"
  /\ up' = up \cup {s}
  /\ orphan' = orphan \cup (up \cap {s})
  /\ UNCHANGED <<daemons, step>>
  /\ Started(m, s)
  /\ Credit(m, {s})

\* A Spark daemon or the postgres container refuses to run twice; Jupyter takes
\* the next port and its pid file the new pid.
StartServer(m, s) ==
  /\ pc[m] = "start"
  /\ Turn(m, StartRank, s)
  /\ s \in HeadServices
  /\ s = "history" => defaults = "on"
  /\ s \in up => s = "jupyter"
  /\ up' = up \cup {s}
  /\ orphan' = orphan \cup (up \cap {s})
  /\ UNCHANGED <<daemons, step>>
  /\ Started(m, s)
  /\ Credit(m, {s})

SkipHistory(m) ==
  /\ pc[m] = "start"
  /\ Turn(m, StartRank, "history")
  /\ defaults = "off"
  /\ todo' = [todo EXCEPT ![m] = @ \ {"history"}]
  /\ UNCHANGED <<alloc, disk, procs, pc, cfg, cached, tracker, targets, mine>>

\* Mutant: the return code of the launch is not checked.
LaunchFailUnnoticed(m, s) ==
  /\ pc[m] = "start"
  /\ Turn(m, StartRank, s)
  /\ s = "history" => defaults # "off"
  /\ \/ "fail" \in Faults
     \/ s \in up \ {"jupyter"}
     \/ s \in {"history", "workers"} /\ defaults = NoFile
  /\ UNCHANGED <<procs, mine>>
  /\ Started(m, s)

\* The launch of s fails and leaves nothing behind: the command fails, the
\* daemon runs already, or spark-defaults.conf cannot be read.
LaunchFail(m, s) ==
  /\ pc[m] = "start"
  /\ Turn(m, StartRank, s)
  /\ s = "history" => defaults # "off"
  /\ \/ "fail" \in Faults
     \/ s \in up \ {"jupyter"}
     \/ s \in {"history", "workers"} /\ defaults = NoFile
  /\ Raised(m)
  /\ UNCHANGED <<procs, mine>>

\* start_container succeeded, setup_postgres_metastore raises.
MetastoreSetupFail(m) ==
  /\ "setup" \in Faults
  /\ pc[m] = "start"
  /\ Turn(m, StartRank, "postgres")
  /\ "postgres" \notin up
  /\ up' = up \cup {"postgres"}
  /\ UNCHANGED <<daemons, step, orphan>>
  /\ Raised(m)
  /\ Credit(m, {"postgres"})

StartLocalWorker(m) ==
  /\ pc[m] = "start"
  /\ Turn(m, StartRank, "workers")
  /\ defaults # NoFile
  /\ IsSingleNode(targets[m])
  /\ IF Host \in daemons
     THEN Raised(m) /\ UNCHANGED <<procs, mine>>
     ELSE /\ daemons' = daemons \cup {Host}
          /\ UNCHANGED <<up, step, orphan>>
          /\ Started(m, "workers")
          /\ Credit(m, {"workers"})

\* One ssh per node, all of them finished before the result is looked at. A
\* node fails when its worker runs already, or for a reason of its own.
StartSshWorkers(m) ==
  /\ pc[m] = "start"
  /\ Turn(m, StartRank, "workers")
  /\ defaults # NoFile
  /\ ~IsSingleNode(targets[m]) /\ "srun" \notin cfg[m]
  /\ \E failed \in SUBSET targets[m] :
       /\ targets[m] \cap daemons \subseteq failed
       /\ "ssh" \in Faults \/ failed \subseteq daemons
       /\ daemons' = daemons \cup (targets[m] \ failed)
       /\ UNCHANGED <<up, step, orphan>>
       /\ IF failed = {} THEN Started(m, "workers") ELSE Raised(m)
       /\ IF failed = targets[m] THEN UNCHANGED mine ELSE Credit(m, {"workers"})

\* One srun job step for all nodes; its pid replaces the one in
\* srun_workers.pid, if any.
StartSrunWorkers(m) ==
  /\ pc[m] = "start"
  /\ Turn(m, StartRank, "workers")
  /\ defaults # NoFile
  /\ ~IsSingleNode(targets[m]) /\ "srun" \in cfg[m]
  /\ step' = targets[m]
  /\ orphan' = orphan \cup (IF step = {} THEN {} ELSE {"srun"})
  /\ UNCHANGED <<up, daemons>>
  /\ Started(m, "workers")
  /\ Credit(m, {"workers"})

\* Mutant: status.json keeps what an earlier stop wrote.
RecordStartLost(m) ==
  /\ pc[m] = "start"
  /\ todo[m] = {}
  /\ UNCHANGED <<alloc, disk, procs>>
  /\ Return(m)

\* _start returned: status.json records the tracker.
RecordStart(m) ==
  /\ pc[m] = "start"
  /\ todo[m] = {}
  /\ status' = tracker[m]
  /\ UNCHANGED <<alloc, confDir, defaults, workersFile, saved, procs>>
  /\ Return(m)

-----------------------------------------------------------------------------
(* rollback and stop *)

\* Mutant: the inference does not know of the metastore.
AssumedWithoutMetastore(c) ==
  IF status # NoFile THEN status
  ELSE {"master", "workers"} \cup (c \cap (HeadServices \ {"postgres", "history"}))
       \cup (IF defaults = "on" THEN {"history"} ELSE {})

\* What stop takes to be running when the manager's configuration is c:
\* status.json, and without one an inference from the configuration.
Assumed(c) ==
  IF status # NoFile THEN status
  ELSE {"master", "workers"} \cup (c \cap (HeadServices \ {"history"}))
       \cup (IF defaults = "on" THEN {"history"} ELSE {})

BeginStop(m) ==
  /\ Called(m, "stop")
  /\ pc[m] = "idle"
  /\ UsesCurrent(m)
  /\ status = NoFile => defaults # NoFile
  /\ todo' = [todo EXCEPT ![m] = Assumed(cfg[m])]
  /\ Goto(m, "stop")
  /\ UNCHANGED <<alloc, disk, procs, cfg, cached, tracker, targets, mine>>

\* The inference has no spark-defaults.conf to read: stop raises at once.
StopCannotInfer(m) ==
  /\ Called(m, "stop")
  /\ pc[m] = "idle"
  /\ status = NoFile /\ defaults = NoFile
  /\ UNCHANGED <<alloc, disk, procs>>
  /\ Return(m)

\* The command that stops s returned; what it returned is not looked at.
Stopped(m, s) ==
  /\ todo' = [todo EXCEPT ![m] = @ \ {s}]
  /\ UNCHANGED <<alloc, disk, orphan, pc, cfg, cached, tracker, targets>>
  /\ Credit(m, {})

\* Stopping Jupyter raises when an overlapping stop was faster at the pid file:
\* that is in BackgroundProcess, not here.
StopServer(m, s) ==
  /\ pc[m] \in {"rollback", "stop"}
  /\ Turn(m, StopRank, s)
  /\ s \in HeadServices
  /\ \/ up' = up \ {s}
     \/ "stopfail" \in Faults /\ UNCHANGED up
  /\ UNCHANGED <<daemons, step>>
  /\ Stopped(m, s)

\* Mutant: only the worker of this machine is stopped.
DaemonsInReachHere == {Host}

\* The daemons that stop-worker.sh reaches, and whether stop kills the srun
\* step, under the configuration c. start decides on the workers file what
\* stop decides on the compute interface.
DaemonsInReach ==
  IF IsSingleNode(alloc) THEN {Host}
  ELSE IF workersFile = NoFile THEN {} ELSE workersFile

StopsSrun(c) == ~IsSingleNode(alloc) /\ workersFile # NoFile /\ "srun" \in c

\* Can stop write its script, and read the workers file when it needs to?
CanStopWorkers == IF IsSingleNode(alloc) THEN confDir ELSE workersFile # NoFile

\* stop-worker.sh, run here or through ssh on every node.
StopDaemons(m) ==
  /\ pc[m] = "stop"
  /\ Turn(m, StopRank, "workers")
  /\ CanStopWorkers
  /\ ~StopsSrun(cfg[m])
  /\ \E failed \in SUBSET (daemons \cap DaemonsInReach) :
       /\ failed = {} \/ "stopfail" \in Faults
       /\ daemons' = daemons \ (DaemonsInReach \ failed)
  /\ UNCHANGED <<up, step>>
  /\ Stopped(m, "workers")

\* SIGTERM to the srun that srun_workers.pid names, if there is such a file.
StopSrunStep(m) ==
  /\ pc[m] = "stop"
  /\ Turn(m, StopRank, "workers")
  /\ CanStopWorkers
  /\ StopsSrun(cfg[m])
  /\ \/ step' = {}
     \/ "stopfail" \in Faults /\ UNCHANGED step
  /\ UNCHANGED <<up, daemons>>
  /\ Stopped(m, "workers")

StopWorkers(m) == StopDaemons(m) \/ StopSrunStep(m)

\* stop raises half-way: the metastore is not stopped, status.json not written.
StopWorkersFail(m) ==
  /\ pc[m] = "stop"
  /\ Turn(m, StopRank, "workers")
  /\ ~CanStopWorkers
  /\ UNCHANGED <<alloc, disk, procs>>
  /\ Return(m)

\* Whatever the stop commands returned, status.json now says nothing runs.
RecordStop(m) ==
  /\ pc[m] = "stop"
  /\ todo[m] = {}
  /\ status' = {}
  /\ UNCHANGED <<alloc, confDir, defaults, workersFile, saved, procs>>
  /\ Return(m)

\* The exception that started the rollback reaches the caller.
EndRollback(m) ==
  /\ pc[m] = "rollback"
  /\ todo[m] = {}
  /\ UNCHANGED <<alloc, disk, procs>>
  /\ Return(m)

-----------------------------------------------------------------------------
(* clean *)

\* Mutant: the status is not looked at.
CleanRefusesNever(m) == FALSE

\* Without force it refuses when the status read by load names a service.
CleanRefuses(m) == cached[m] \notin {NoFile, {}}

\* The pid files are among the files deleted: what only they name is lost.
Clean(m) ==
  /\ Called(m, IF m \in Cli THEN "clean" ELSE "api_clean")
  /\ pc[m] = "idle"
  /\ "force" \notin Calls => ~CleanRefuses(m)
  /\ confDir' = FALSE
  /\ defaults' = NoFile
  /\ workersFile' = NoFile
  /\ saved' = NoFile
  /\ status' = NoFile
  /\ up' = up \ {"jupyter"}
  /\ step' = {}
  /\ orphan' = orphan \cup (up \cap {"jupyter"})
                      \cup (IF step = {} THEN {} ELSE {"srun"})
  /\ UNCHANGED <<alloc, daemons>>
  /\ Return(m)

-----------------------------------------------------------------------------
(* Faults *)

\* The operation ends between two of its commands: rollback is for Exception
\* only. What it had launched goes on.
CutBetween(m, label) ==
  /\ pc[m] \in Inside
  /\ UNCHANGED <<alloc, disk, procs>>
  /\ Leave(m, label)

\* ... while Jupyter's URL is awaited or srun is given its second: the process
\* runs and its pid file is never written.
CutBeforePidFile(m, label) ==
  /\ pc[m] = "start"
  /\ \/ Turn(m, StartRank, "jupyter") /\ orphan' = orphan \cup {"jupyter"}
     \/ /\ Turn(m, StartRank, "workers") /\ defaults # NoFile
        /\ ~IsSingleNode(targets[m]) /\ "srun" \in cfg[m]
        /\ orphan' = orphan \cup {"srun"}
  /\ UNCHANGED <<alloc, disk, up, daemons, step>>
  /\ Leave(m, label)

\* ... while ssh runs on the nodes: some of them have started their worker.
CutDuringSsh(m, label) ==
  /\ pc[m] = "start"
  /\ Turn(m, StartRank, "workers")
  /\ defaults # NoFile
  /\ ~IsSingleNode(targets[m]) /\ "srun" \notin cfg[m]
  /\ \E launched \in SUBSET targets[m] : daemons' = daemons \cup launched
  /\ UNCHANGED <<alloc, disk, up, step, orphan>>
  /\ Leave(m, label)

CutShort(m, label) ==
  CutBetween(m, label) \/ CutBeforePidFile(m, label) \/ CutDuringSsh(m, label)

\* The driver dies, or Ctrl-C unwinds a command: its process is gone.
Kill(m) == "kill" \in Faults /\ CutShort(m, "none")

\* A process ends of itself.
Die ==
  /\ "die" \in Faults
  /\ \/ \E s \in up : up' = up \ {s} /\ UNCHANGED <<daemons, step>>
     \/ \E n \in daemons : daemons' = daemons \ {n} /\ UNCHANGED <<up, step>>
     \/ step # {} /\ step' = {} /\ UNCHANGED <<up, daemons>>
  /\ mine' = [o \in Managers |-> mine[o] \cap Running']
  /\ UNCHANGED <<alloc, disk, orphan, pc, memory>>

-----------------------------------------------------------------------------
ConfigureStep(m) ==
  \/ BeginConfigure(m) \/ WriteSettings(m) \/ SettingsFail(m)
  \/ WriteWorkers(m) \/ ConfigureFail(m) \/ SaveConfig(m) \/ SetWorkers(m)

StartStep(m) ==
  \/ BeginStart(m) \/ StartWithoutWorkersFile(m)
  \/ \E s \in Services : StartServer(m, s) \/ LaunchFail(m, s)
  \/ SkipHistory(m) \/ MetastoreSetupFail(m)
  \/ StartLocalWorker(m) \/ StartSshWorkers(m) \/ StartSrunWorkers(m)
  \/ RecordStart(m)

StopStep(m) ==
  \/ BeginStop(m) \/ StopCannotInfer(m)
  \/ \E s \in Services : StopServer(m, s)
  \/ StopWorkers(m) \/ StopWorkersFail(m) \/ RecordStop(m) \/ EndRollback(m)

ManagerStep(m) ==
  \/ Create(m) \/ Load(m) \/ Exit(m)
  \/ ConfigureStep(m) \/ StartStep(m) \/ StopStep(m) \/ Clean(m) \/ Kill(m)

Next == (\E m \in Managers : ManagerStep(m)) \/ Die

Spec == Init /\ [][Next]_vars

-----------------------------------------------------------------------------
(* What the lifecycle promises *)

Quiescent == \A m \in Managers : pc[m] \in Resting

\* A `sparkctl stop` begun now would stop every process that has its handle,
\* provided its stop commands work.
StopReaches ==
  Running # {} =>
    /\ saved # NoFile
    /\ status = NoFile => defaults # NoFile
    /\ Running \subseteq Assumed(saved)
    /\ "workers" \in Assumed(saved) => CanStopWorkers
    /\ daemons # {} => ~StopsSrun(saved) /\ daemons \subseteq DaemonsInReach
    /\ step # {} => StopsSrun(saved)

\* Between operations nothing runs that `sparkctl stop` would leave running:
\* the records on disk (status.json, the configuration, the workers file, the
\* pid files) and the processes never part.
NothingOutOfReach == Quiescent => orphan = {} /\ StopReaches

\* A start that was cut short leaves no status.json in a fresh directory; what
\* stop then infers from the configuration covers all that had been launched,
\* and is in reach of its pid file or its daemon's (a launch that was cut before
\* it wrote one is in orphan, and out of any stop's reach).
InferenceCovers ==
  Quiescent /\ status = NoFile /\ saved # NoFile => StopReaches

\* config.json and spark-defaults.conf come from the same configure whenever
\* there is a workers file, without which start does nothing.
ConfigMatchesConfDir ==
  Quiescent /\ saved # NoFile /\ workersFile # NoFile
    => defaults = HistorySetting(saved)

\* The workers are the last to be launched, so no rollback has them to stop:
\* the branch that would do it, on another criterion than stop's, never runs.
RollbackMeetsNoWorkers ==
  \A m \in Managers : pc[m] = "rollback" => "workers" \notin todo[m]

\* m gives back control after its last step of the operation label.
Ends(m, label) == pc[m] = label /\ todo[m] = {} /\ pc'[m] \in Resting

\* "Stop all Spark processes": when stop returns, no process is left.
StopLeavesNothing ==
  [][\A m \in Managers : Ends(m, "stop") => Running = {} /\ orphan = {}]_vars

\* When start returns, all it was to launch runs, on every node it was given,
\* although a clean may have taken the pid file of the srun step by then. Two
\* servers are left out: spark-defaults.conf decides about the history server,
\* and another configure may have changed it; the rollback of another start may
\* stop Jupyter, whose pid file it shares.
StartIsComplete ==
  [][\A m \in Managers :
       Ends(m, "start") => /\ {"master"} \cup (cfg[m] \cap (HeadServices \ {"history", "jupyter"})) \subseteq up
                           /\ \/ targets[m] \subseteq daemons \cup step
                              \/ "srun" \in cfg[m] \cap orphan]_vars

\* When start raises, no server it launched is left running.
RollbackStopsServers ==
  [][\A m \in Managers : Ends(m, "rollback") => mine[m] \subseteq {"workers"}]_vars

\* When start raises, no process it launched is left running, workers included.
RollbackStopsAll ==
  [][\A m \in Managers : Ends(m, "rollback") => mine[m] = {}]_vars

\* A rollback stops no server but those its own start launched, even when two
\* starts race on the same directory. Jupyter is left out: it alone can be
\* launched twice, and its pid file names the later one.
RollbackSparesOthers ==
  [][\A m \in Managers :
       pc[m] = "rollback" /\ todo'[m] # todo[m]
         => up \ up' \subseteq mine[m] \cup {"jupyter"}]_vars

\* clean deletes what is needed to stop a cluster only when none is running.
CleanWaitsForStop ==
  [][saved # NoFile /\ saved' = NoFile => Running = {}]_vars
=============================================================================

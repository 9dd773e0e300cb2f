# sparkctl in TLA+

sparkctl starts and stops a standalone Spark cluster inside an HPC allocation. It
is not a daemon: every command is a short-lived process that reads a few files
in a base directory, launches or stops other processes, and writes the files
again. What can go wrong is almost never inside one function. It is in the
relation between the files a command finds, the processes that really run, and
the commands that come later, overlap, fail half-way or are killed. That
relation is what this project models, from the lifecycle as a whole down to the
thread pool, the two background processes and the metastore it rests on; the
arithmetic that sizes the executors and the way settings reach a configuration
are subjects of their own. Paths below are relative to `src/src/sparkctl/`, those
that begin with `docs/` to `src/`.

## 1. Inventory

| Component | State it keeps | Operations | Interacts with |
|---|---|---|---|
| Cluster lifecycle (`cluster_manager.py`) | `config.json`, `status.json`, `conf/`, in memory `_config` and `_status` | create, `load`, `configure`, `set_workers`, `start` (with rollback), `stop`, `clean` | everything below |
| Worker launch (`spark_process_runner.py`) | `srun_workers.pid`, temporary scripts in `conf/` | start and stop locally, through ssh on a thread pool, through one srun job step | Slurm, ssh, Spark's scripts |
| Head servers (same file) | pid files of Spark's own | start and stop master, connect, history and thrift server | Spark's scripts |
| Jupyter (same file) | `jupyter.pid`, `jupyter.log` | start, wait for the URL (20 s), stop (30 s) | the connect server |
| Postgres metastore (`hive.py`, `postgres/*.sh`) | the container, `pg_data`, `pg_run` | start container, initialise once, stop | lifecycle |
| Executor sizing (`cluster_manager.py`, `slurm_compute.py`) | lines of `spark-defaults.conf` | size at configure, size again at start, GPU checks | compute interface, the user's edits |
| Command line (`cli/sparkctl.py`) | none | `default-config`, `configure [--start]`, `start [--wait]`, `stop`, `clean [--force]` | lifecycle, settings |
| `managed_cluster` (`cluster_manager.py`) | environment variables | configure, start, yield a session, stop in a finally clause | lifecycle |
| Compute interfaces (`*_compute.py`) | cached node list | node names, memory, CPUs, GPUs, checks | Slurm's variables |
| Resource monitor (rmon) | `rmon_<host>.pid` | started by the worker script, stopped before the workers | worker launch |
| Settings (`config.py`) | `~/.sparkctl.toml`, the local and the shared file | precedence of the files and the command line | command line, programs |
| Templates: metrics, RAPIDS, hive-site, reverse proxy, log level | text files | written by configure, read by Spark only | - |

### What is hard here

* *Files and processes part.* `status.json` is written at the end of `start` and
  at the end of `stop`, and by nobody else. Between these points, and after a
  failure or a crash, stop has to infer what runs from the configuration, from
  `spark-defaults.conf` and from the pid files, each written at a time of its own.
* *Partial failure.* `start` launches up to seven kinds of process. When one
  launch raises, the flags set so far are all that the rollback knows. The workers
  are many launches in one, the metastore is seven commands in one.
* *Two criteria for one question.* start finds out from `conf/workers` whether
  the cluster is a single node, stop from the compute interface, the rollback
  from the length of a list.
* *Overlap.* Nothing locks the base directory. Two commands interleave at every
  external command, and overlapping calls share the names of their scripts.
* *Stale memory.* A manager keeps the configuration and the status of the moment
  it was created, a program the settings of the moment it imported sparkctl.
* *Waits.* Jupyter, srun, rmon, the stops of these and `start --wait` each have a
  limit and something that may arrive after it. A process that has ended looks
  different to its parent, who has to reap it, and to everybody else.
* *Rounding.* Executors are limited by cores, memory and GPUs, each with an
  integer division, and the sizes are computed twice from inputs that may differ.

### What makes each component correct

* Lifecycle: whatever runs can be stopped with what is on disk; stop leaves
  nothing; a start that raises leaves nothing; a rollback touches only its own;
  clean never loses a running cluster; the files of the directory belong together.
* Worker launch: a start returns only when every node was launched; stops that
  succeed have stopped everything, however they overlap; a call ends.
* Background processes: what runs is named by its pid file; "down" is true and gets
  written; monitors end before the step they live in; no waiting for an ended child.
* Metastore: whoever gets past it finds a complete one; the password in
  `hive-site.xml` is the one the role gets.
* Sizing: the executors of a node fit and none more would; every GPU is used and
  none is promised twice; start agrees with configure; configure never crashes.
* `managed_cluster`, `start --wait`: once entered, the cluster is eventually
  stopped, not before the time and without a rest.
* Settings: the local file wins; files of an older version still serve; a command
  and a program agree.

The hazards, each at its line and with the properties that cover it, are in
`PROJECT.json`.

## 2. Modules

```
ClusterContract <--refines-- ClusterRefinement --EXTENDS--> ClusterLifecycle
                                                              ^ EXTENDS
                                                        ManagedCluster
LaunchContract  <--refines-- SshFanOut          (StartSshWorkers, StopDaemons in detail)
                             BackgroundProcess  (srun, Jupyter and rmon in detail)
                             PostgresMetastore  (the service "postgres" in detail)
                             Settings           (where a configuration comes from)
                             ExecutorSizing     (what configure writes about sizes)
```

`X_proofs` holds the theorems about `X`, `ClusterReach_proofs` more of those about
`ClusterLifecycle` and the refinement of its contract, and `MCX` the values of the constants for TLC. A definition
with a comment that begins "Mutant:" is not part of its model; it is the nearby
mistake that a property was seen to catch.

### ClusterLifecycle

One state for the directory (`confDir`, `defaults`, `workersFile`, `saved`,
`status`), one for the processes (`up`, `daemons`, `step`, `orphan`) and one per
manager (`pc`, `cfg`, `cached`, and the locals `todo`, `tracker`, `targets` of the
call it is in). `mine` is a history variable: what the latest start of a manager
launched and what still runs of it. No action reads it.

| Code | Model |
|---|---|
| `from_config`, `load` (33-111) | `Create`, `Load`; `Exit` ends the process |
| `configure` (158-197) | `BeginConfigure`, `WriteSettings`, `WriteWorkers`, `SaveConfig`; `SettingsFail`, `ConfigureFail` when it raises |
| `set_workers` (213-230) | `SetWorkers` |
| `start`, `_start` (236-273, 330-370) | `BeginStart`, one `StartServer`, `StartLocalWorker`, `StartSshWorkers` or `StartSrunWorkers` per launch in the order `StartRank`, `SkipHistory`, `RecordStart`; `StartWithoutWorkersFile` |
| a launch that raises (253-258) | `LaunchFail`, `MetastoreSetupFail`, the failing outcomes of `StartSshWorkers` |
| `_rollback_started_processes` (275-296) | `StopServer` in `rollback`, `EndRollback` |
| `stop` (372-427) | `BeginStop`, `StopServer`, `StopDaemons`, `StopSrunStep` in the order `StopRank`, `RecordStop`; `StopCannotInfer`, `StopWorkersFail` when it raises |
| `clean` (113-156) | `Clean` |
| a crash, Ctrl-C | `CutBetween` two commands, `CutBeforePidFile`, `CutDuringSsh`; together `CutShort`, which `Kill` and the sessions use |
| a server ends of itself | `Die` (external) |

One step is one external command the code waits for, because that is where a
second command, a crash or a death can fall in between. The flag of a tracker is
set in the step of its launch: nothing the code does between the two can fail.
A configuration is the set of settings that decide control: the optional
services, and `"srun"` for a Slurm environment in which `use_srun` is set.
`spark-defaults.conf` is reduced to the one thing the lifecycle reads back from
it, whether the event log is on.

What is abstracted: the list of workers is a set; deleting the files in `clean` is
one step; process ids are not reused; a stop command of Spark takes effect when
it returns; the template of `spark-defaults.conf` is the one sparkctl ships,
which does not turn the event log on; a failing launch of a daemon leaves no
process (that the metastore does leave one is a step of its own). The rollback's
branch for workers is not an action, because it cannot run:
`RollbackNeverStopsWorkers` proves it.

Two constants say what is exercised. `Calls` names the ways of use: besides the
operations there are `restart` (start over a cluster that runs), `reconfigure`
(configure anew under it, to restart it later, as
`docs/how_tos/debugging/index.md:75` describes; srun or ssh is a setting of the
site and stays what it was), `stale_config` (start or stop with another
configuration than the saved one), `after_failure` (set_workers where configure
failed), `api_clean` and `force`. `Faults` names the faults: `fail` (a launch or
configure raises), `refuse` (configure raises while a cluster runs), `setup` (the
metastore setup does), `ssh` (on some nodes), `stopfail`, `die`, `kill`. `Overlap`
says whether commands take turns. The model has every step; a run leaves a name
out when its question is about the others, and a theorem names those it needs left out.

### ClusterContract and ClusterRefinement

`ClusterContract` is what a user is promised who gives commands one after the
other: start launches services one by one and records them, or takes them all
down and raises; stop takes down whatever runs; the record goes only when nothing
runs. It knows no files, handles or processes of sparkctl.

`ClusterRefinement` maps the lifecycle to it: `running` is `Running` (what runs
under its handle), `recorded` is what `status.json` names, `launched` the union of
the trackers, `busy` the operation of the one manager that is at work. So many
managers, each in a process of its own that reads the disk anew, are shown to
behave as one (`ImplementsContract`). The contract is false of the code with
crashes, overlaps and partly failing ssh, which is why those are the subject of
properties that say how much still holds.

### ManagedCluster

A session is a manager of the lifecycle that follows a `plan`. Its steps are those
of the lifecycle, conjoined with where the plan goes when the operation returns or
raises.

| Code | Model |
|---|---|
| `managed_cluster` (`cluster_manager.py:299-323`) | `EnterManaged`, `ManagedConfigure`, `ManagedStart`, `LeaveBody`, `ManagedStop` |
| `start --wait` (`cli/sparkctl.py:585-618`) | `EnterWait`, `WaitStart`, `Sleep` of one `Interval`, `Expire`, `CtrlC`, `WaitStop` |
| Ctrl-C elsewhere | `InterruptManaged`: start's rollback is skipped, the finally clause runs; `InterruptWait` |
| a session is killed | `KillSession` |
| commands given meanwhile | `Command` |
| another manager of a program | `Program` makes one and ends; each program may have a session of its own |
| a process ends of itself | `SessionDie` |

`alone` and `unnamed` are history variables: the session found nothing running and nobody else
has changed the disk or the processes since; and a Ctrl-C hit it between the launch of srun or
Jupyter and the pid file. Every session has its own clock
(`timeout`, `slept`), and a process that ends of itself is nobody's use of the directory.

### LaunchContract and SshFanOut

`SshFanOut` opens the single step in which the lifecycle starts or stops the
workers through ssh (`spark_process_runner.py:194-258`, 466-548). `Begin` truncates
the script, `Submit` fills it and submits all nodes to the pool, `Connect` takes a
free thread, `NotRun`, `RunNothing`, `StartWorker`, `StopWorker` are what can come of
one ssh, `StartRmon` and `StopRmon` the commands of the monitor that follow in the
same script, `Finish` the end of the pool and the finally clause that deletes the
script. `EmptyConfDir` is a configure or clean from elsewhere. Every call of one
kind uses the same file name, so overlapping stops rewrite and delete each other's
script. `LaunchContract` is what the lifecycle assumes of a start; `SshFanOut`
implements it. `launched` and `emptied` are history variables.

### BackgroundProcess

srun (`spark_process_runner.py:268-318`, 334-359), Jupyter (68-130, 160-178), the
step that stops rmon (361-383, 523-548) and the wait they share (386-401), with a
process table in which an ended child stays a zombie until its parent reaps it or ends.

| Code | Model |
|---|---|
| a start (101-130, 294-313) | `Launch`, a second of waiting `Await`, `ExitNoticed`, `WritePid`; `RecordUp` when status.json is written |
| a rollback that stops Jupyter (`cluster_manager.py:253-288`) | `RollBack`, then as a stop, which ends in the exception |
| the script that stops rmon (362, 380, 523-529) | `OpenScript` truncates it, `FillScript` writes it or raises, `CloseScript` deletes it or raises |
| `srun --overlap` (378, 531-548) | `TellMonitors` or `TellNobody`, `AwaitMonitors`, `LeaveMonitors` |
| the process (341-359) | `Signal` or `NoPidFile`, `WaitOn`, `Ended`, `GiveUp`, `Unlink` |
| the metastore and status.json (`cluster_manager.py:425-427`) | `RecordDown` |
| a process of sparkctl ends, at any point | `Exit` |
| srun, Jupyter, rmon, Python by themselves (external) | `End`, `Ready`, `RmonEnds`, `Reap` |

A directory has one of the `Kinds`; srun with rmon, `"monitored"`, is a kind of its own. A script that
is overwritten keeps its name but not always its file; a node that has it open when it is
truncated reads what is there then, so one script per directory is enough. `lost`, `cut`,
`torn` and `untold` are history variables: a stop gave up on the process or its pid was never
written; its start was killed; the pid file went without a status.json after it,
for the process that was to write it was killed, or was a rollback; and a stop opened the
script while another was using it, or `srun --overlap` failed.

### PostgresMetastore

`hive.py`, `postgres/start_container.sh`, `setup_metastore.sh` and
`stop_container.sh`, command by command: each moves `data`, the state of `pg_data`,
by one stage, may fail (`SetupFails`) and may be the last one (`Kill`, `JobEnds`, with
`Torn` for what it leaves half made). `pg_data` outlives the container, the
configuration and the job; any file in it counts as a finished metastore
(`PgExists`). Whether it existed is a local of the start (`exists`), found out once.
`spoiled` is a history variable: a start ended over an unfinished `pg_data`.

### Settings

Three files in increasing precedence, of which the shared one counts while its
variable is exported; a later `[runtime]` table replaces an earlier one as a whole
(`RuntimePlace`). A value is abstracted to the place it was set at. `CommandLine` is
how the options of `configure` get their defaults, in four ways by kind of key
(`Plain`, `Guarded`, `ArgumentOnly`, `NoOption`), `FromSettings` how
`make_default_spark_config` builds the same parameters, `Build` the validation that
refuses None where a value is needed. `Edit`, `DefaultConfig`, `Export`, `Import` and
`ProgramEnds` are the users. dynaconf itself is external: that it merges by table
and reads at import is taken from how `config.py` calls it. Its reading of
`SPARKCTL_`-prefixed environment variables is left out.

### ExecutorSizing

The state is the allocation (`job`), the settings (`rt`), how far the cluster has
come (`phase`), what configure wrote (`defaults`) and what start gave the worker
(`worker`). Operators have the names of the quantities of `_config_executors`
(546-620), `_get_worker_memory_gb` (443-463), `_resolve_executor_cores` (528-544),
`_enable_gpus` (733-754) and `SlurmCompute` (21-140). `Configure`,
`ConfigureReject` and `ConfigureCrash` are its three ends; `EditDefaults` is the
user who changes or adds a line for the driver memory, as the docs invite to
(`docs/explanation/index.md:71`); `Start` and `StartReject` compute the worker's
memory from the first such line (828-837).

Abstracted: the settings are positive (the code does not check it); a memory
line has the form sparkctl writes; `enable_gpus` stands for `enable_rapids` too;
a heterogeneous job asks for its GPUs per node. The task's share of a GPU and the
discovery script are left out.

## 3. Runs

| Run | Question | Result |
|---|---|---|
| `sequential` | A CLI command and a Python program take turns; launches fail, servers die, a running cluster is configured anew. Does anything ever run that stop would miss, and do all the managers together keep the contract? | passes, 490 490 states |
| `crash` | Every fault, crashes too. Is the inference from the configuration complete while there is no `status.json`? | passes, 415 176 states |
| `races` | Two commands overlap, configure, start and clean. Does a rollback spare the other start, and is a start that returns complete? | passes, 154 162 states |
| `sessions` | A program in `managed_cluster` or `start --wait`, with failures, deaths, Ctrl-C, kills and commands of others. Is the cluster stopped in the end, in time and without a rest? | passes, 453 171 states |
| `launch` | A start and two stops that overlap. Are the returns of the calls true, whatever happens to the scripts and the nodes, and do they return? | passes, 438 087 states |
| `processes` | srun, with and without rmon, and Jupyter under two programs that start, roll back, stop and die. Is what runs named, is "down" true and written, do monitors end in time, is an ended child noticed, and does every call return? | passes, 136 670 states |
| `metastore` | Any number of jobs, configures and cleans. What does a start find in `pg_data`? | passes, 1 400 states |
| `settings` | Any three changes of three files. Who wins, and does an old file go on working? | passes, 494 152 states |
| `sizing` | All small nodes with all settings | passes, about 836 000 states |
| `sshPartial` | Does a failed start stop all it launched when ssh fails on a node? | violated |
| `interrupted` | Does stop clean up after an interrupted start in a directory used before? | violated |
| `sizingCrash` | Does configure accept or explain whatever it is given? | violated |

### Bounds

*Lifecycle.* Two nodes are enough for all that the code tells apart: this machine
alone, this machine and another, another alone. The four configurations contain
each optional service once, a Slurm job with ssh and with srun, and put the
services that share code (the daemons) and those that do not (metastore, Jupyter)
into different combinations. A manager never outlives its process and there are
two of them, so any number of commands can be involved in a violation one after
the other (managers are created anew), two at a time. Files and processes need no
bound. `crash` has one manager: with commands that take turns, and none that keeps
its manager, a second one adds nothing. Symmetry of the two managers is used in
`races`, where both are commands and no property names one.

*Sessions.* One session and one command at a time. `Hour = 2` with `Timeouts = {1, 4,
Never}` has one that is shorter than an hour, one that is a number of hours, and
none; of one that is neither, `WaitsAsAsked` says nothing. The configurations have no service of their own, with ssh and with srun, and
`managed_cluster` adds Connect; which services a stop finds by inference is the
subject of `crash`, and `SessionsLeaveNothing` and `TimeoutsAreKept` hold for all
services and timeouts, for any number of sessions.

*Launch.* Two nodes and a pool of one thread: the pool is smaller than the cluster, so
a node waits for another's ssh, and the threads of different calls overlap. Two stops are what it takes to
rewrite and to delete a script under another call; a third would do neither to
anybody new. `EmptyConfDir` happens once: after it the scripts are as gone as after two.

*Processes.* Two programs and two processes: one that is left over and one that
takes its place. `Polls = Limit = 2` has a look that comes too early, one that comes
in time, and the end of the patience; the real numbers, 40 and 30, add more of the
first kind. srun with rmon has one process (`Children`), and two stops are what it takes to
empty or delete the script of the other; what a second job step meets of the first is
checked for the other two kinds, and proved for all.

*Metastore.* `Draws = 2` passwords can be drawn besides the one a user sets, so that
a configure can differ from the one that made `pg_data`. Nothing else is bounded.

*Settings.* One parameter of each kind, six contents that are examples of the docs
or of an older version, and `Edits = 3` so that each of the three files, or one of them
twice, has something to say.

*Sizing.* The nodes have 6, 9 and 30 GB for Spark and 1 to 12 CPUs, so that each of
the limits (memory, cores, GPUs, nothing at all) is the smallest one somewhere,
all three reasons to reject and the division by zero occur, and executors of 1, 3
and 5 cores leave every remainder.

All runs but the sizing's check for deadlock (an unused process can always exit; the
calls of `launch` have an action `Done` for when nobody needs to call anything); the
sizing ends.

### Fairness

Three specifications assume any, and only weak fairness of the code itself:

* `SshFanOut`: the step of each call. Threads are scheduled and every ssh comes to an
  end (the code gives ssh no time limit, so it waits as long as that takes; that a
  hanging ssh hangs the call is no matter of scheduling). Under it `CallsReturn`:
  the pool, smaller than the cluster, serves every node, whoever deletes the script.
* `BackgroundProcess`: the steps of a call, `CallStep`. Jupyter, the worker's srun and rmon
  owe nothing, neither an end nor a URL, and neither does `srun --overlap`, which stops rmon
  and for which the code waits without a limit (378). So `CallsReturn` says that a call
  returns or is held by that srun (`"overlap"`, `"nodes"`), and nothing else can hold it;
  with Jupyter, and without rmon, it returns. This rests on the code's own limits.
* `ManagedCluster`: the work of a session, time included, and a command under way,
  which keeps a session from stopping. Users, faults and Ctrl-C owe nothing. Under it
  `SessionsProgress`: a session gets to its body, its wait with a timeout to its
  end, and its stop as well.

The lifecycle, the metastore, the settings and the sizing assume none: their
properties are of safety.

## 4. What the code does otherwise

### Violations

1. *ssh fails on one node* (`cluster_manager.py:366-369`). `started_workers` is set
   only after `start_worker_processes` returns. When it raises because one node
   failed, the workers of the other nodes are running and the rollback skips them.
2. *An interrupted start in a used directory* (384, 427). The all-false
   `status.json` of an earlier stop is still there and start replaces it last.
3. *Division by zero* (569, 578). More executors by CPU than gigabytes to share.

### Known deviations without a run

The runs and theorems are told to stay clear of these by `Calls`, `Faults`, `WorkerLists`,
`Regular` and the history variables; each is a behaviour of the model where it says nothing else.

* *Ctrl-C in the second of srun* (`spark_process_runner.py:305`, 110). The finally clause of
  `managed_cluster` stops what it finds a pid file of, and that of srun is written after the
  second, that of Jupyter after the wait for its URL. The process goes on after the session,
  although `managed_cluster` is to "stop the cluster after exit" (`cluster_manager.py:300-301`).
  `SessionLeavesNothing` excepts the session this happened to (`unnamed`), and only for
  processes without a pid file; TLC reaches it in a dozen steps when it is not excepted.
* *Two stops over one script* (`spark_process_runner.py:362`, 526-527). A stop truncates
  `tmp_stop_rmon.sh` when another has just given it to srun. The nodes run an empty script,
  which tells no monitor to end and succeeds, and the other stop tears the job step down,
  although "it must be stopped gracefully before the step is torn down" (335-336).
  `MonitorsEndFirst` excepts just that and an srun that fails (`untold`); it holds for stops
  that overlap otherwise, one waiting for the process while another is at the script, and
  for those that follow one that was killed.
* *A stop without an end* (378). `srun --overlap` has no time limit, and comes before the
  SIGTERM to the workers' srun, which has.
* *Workers set by hand outside Slurm* (331-332 against 418-419). stop asks the compute
  interface, which outside Slurm always names this machine; the remote workers of
  the docstring's example (220-228) are not stopped. In the same way
  `set_workers([<this host>])` in a job of several nodes with srun starts the worker
  locally while stop looks for a job step.
* *clean in the same program* (122). The status is the one read when the manager was
  created; `from_config` reads none, so `clean` never refuses, although "by default
  `clean` refuses" (119-120).
* *A configure that raises under a running cluster* (167, 423). The conf directory is
  emptied first; without the workers file stop raises before it has stopped the
  workers of the other nodes and the metastore. `docs/how_tos/debugging/index.md:71`
  says that configure fails fast, and 75-78 that it is called on a running cluster.
* *As many cores as GPUs.* `docs/how_tos/configuration/gpus.md:94-95` says that to use all N GPUs
  "you therefore need at least N cores in the allocation". One CPU of a node is reserved
  (541-550), so with N of each only N - 1 executors fit by cores and one GPU idles, of which the
  code warns; with one of each configure refuses.
  `OneExecutorPerGpu` asks for a CPU to spare.
* *A stop of Jupyter that raises* (171, 175). Of overlapping stops the slower one raises at the
  pid file and does not write status.json. `BackgroundProcess` has it (`Unlink`), and
  `StopIsRecorded` is what still holds; in `ClusterLifecycle`, where a command of a stop is one
  step, stopping Jupyter does not raise.
* *A `[runtime]` table of some keys.* `docs/explanation/index.md:97-104` and
  `hpc/environment_module/sparkctl.toml` show one, but every `Plain` option then has
  the default None and `sparkctl configure` fails, as the comment at
  `cli/sparkctl.py:260` says of missing keys. `OldFilesServe` is about complete files.
* *Keys without an option.* `executor_gpu_amount` and `task_gpu_amount`, which
  `docs/how_tos/configuration/gpus.md:105-106` sets in the settings file, and
  `postgres_password` reach a Python program but not `sparkctl configure`.
* *Metastore.* A later configure draws a password that `pg_data` does not have, and
  a `pg_data` that was cut short stays unfinished until the next clean.
* *By design.* A second Jupyter server takes over the pid file of the first. stop
  does not look at the results of its commands, so a process that outlives its 30 s
  keeps its pid file for a retry that `status.json` forbids. srun is looked at once.
  A clean that overlaps a start is not refused, because only a finished start
  writes `status.json`. With rmon the result of `start-worker.sh` is lost in the script.

## 5. What is proved

All theorems hold for every value of the constants, under the named assumption of
the module that declares them (types of the constants, finiteness of the nodes, and
that a missing value is none of the others) and, where the table says so, an assumption of their own.

| Module | Theorems | Assuming also |
|---|---|---|
| `ClusterLifecycle_proofs` | `TypeCorrect`, `RollbackNeverStopsWorkers` | - |
| | `RollbackTakesServersDown` | `CleanFailures` |
| | `RacingRollbackSparesOthers`, `StartsAreComplete` | `OnlyStarts` |
| `ClusterReach_proofs` | `NothingIsOutOfReach`, `ConfigGoesWithConfDir`, `StopsLeaveNothing`, `CleansWaitForStop` | `Regular` |
| | `InferenceSuffices` | `Serial` |
| | `RollbackTakesAllDown` | `LaunchedAsOne`, `CleanFailures` |
| | `LifecycleKeepsContract`, `NothingGoesUnrecorded` | `Regular`, `SomeWorkers` |
| `ManagedCluster_proofs` | `SessionTypeCorrect`, `TimeoutsAreKept` | - |
| | `SessionsLeaveNothing` | `StopsWork` |
| `SshFanOut_proofs` | `TypeCorrect`, `StartKeepsItsContract`, `ScriptsStay`; `StopsStopAll` | -; there is a stop |
| `BackgroundProcess_proofs` | `TypeCorrect`, `RunningIsNamed`, `DownIsEnded`, `StopsAreRecorded`, `MonitorsAreFirst` | - |
| `PostgresMetastore_proofs` | `TypeCorrect`, `OpensOnlyComplete`, `UnfinishedOnlyInTheMaking`, `RoleAndSiteAgree` | - |
| `Settings_proofs` | `TypeCorrect`, `CommandsAndProgramsAgree`, `LocalOverrides`; `OldFilesGoOn` | -; some parameter needs a value |
| `ExecutorSizing_proofs` | `TypeCorrect`, `LayoutsAreMaximal`, `EveryGpuIsUsed`, `ExecutorsFitWorkers`, `StartsRejectOnlyEdits` | - |
| | `WorkersHaveTheirGpus` | `PerNodeIsEven` |
| | `AmpleNodesNeverCrash` | `AmpleMemory` |

Every invariant and every action property that a passing run checks is stated by one of
these theorems. Two more state what a run refutes
(`RollbackTakesAllDown` for `sshPartial`, `AmpleNodesNeverCrash` for `sizingCrash`): they say
under which condition the claim of the documentation is true after all. `NothingGoesUnrecorded`
is a consequence of the refinement, `ScriptsStay` of what `StopsStopAll` rests on; neither
has a run of its own.

### The arguments

*Rollback.* That a rollback has no workers to stop is not inductive: the rollback
takes over the tracker, so one must know that a start whose tracker names the
workers has nothing left to launch that could raise. `WorkersLast` says so; it
holds because workers have the highest `StartRank`. For `RollbackTakesServersDown`,
`LaunchedIsFlagged` says that the servers a manager launched and that still run
are in its tracker while it starts, and in what it has still to stop while it rolls
back; it needs `CleanFailures` (no `setup`, no `stopfail`), and none that commands
take turns or drivers survive. `FlaggedIsMine` is the converse: what a tracker
names the manager launched itself and nobody else claims, since a daemon refuses
to run twice. Without `OnlyStarts` (no stop is called, no server ends of itself) a
third command can stop a server and a second start launch it anew while the
first still has its flag.

*Complete starts.* `StartsAreComplete` allows any overlap of starts, configures and cleans and
every fault but a server's own death. While a manager starts, what it still has to do and what it has flagged are
together all it is to launch (`Wanted`); what is flagged runs, and runs as its own
(`FlaggedIsMine`, from the argument above); and the workers it has flagged run on all its
`targets`, the nodes it read from the workers file when they were launched (`WorkersRun`), even
if another configure has deleted that file since. Two servers are excepted: whether the
history server is started depends on the `spark-defaults.conf` of that moment, and the rollback of
another start may stop Jupyter, whose pid file it shares.

*Whole launches.* The violation `sshPartial` comes of an ssh that fails on some nodes, and
`RollbackTakesAllDown` shows that it has no other source. With `LaunchedAsOne` (no ssh that fails on some nodes only, no overlap, no start
over a cluster that runs) a launch of workers that raises has started none, so no
start that can still raise has workers (`NoWorkerYet`), and `LaunchedIsFlagged` covers the rest.

*Reach.* `Regular` is the ordinary use: commands take turns, nobody is killed, stop
commands work, ssh fails nowhere by itself, starts and stops use the current
configuration, lists for `set_workers` keep to the allocation. The invariant
`ReachInv` has a part for any time (`Filed`: what runs was launched with the saved
configuration on nodes of the workers file), one for the time between operations
(`Between`: `status.json` covers what runs, the conf directory goes with the
configuration), and one for a manager in configure, start or stop, which says how
far the part between operations is suspended and by what it will be restored: while a
start is under way what runs is in its tracker, in a stop in what it has still to
stop. `OneAtWork` makes these parts speak of one manager at a time. The four theorems
follow from it; the invariant was also checked by TLC on the instance of `sequential`.

*After a crash.* `InferenceSuffices` allows every fault, kills at any step included, and
`Serial` leaves out overlaps, configuring a running cluster anew, a configuration that
is not the saved one and lists for `set_workers`. The invariant `CutInv` does not
follow what a start has reached, as `ReachInv` does, because a kill forgets it. Its
parts are that the files do not change under a cluster that runs (`Kept`, `Preparing`:
a configure begins with nothing running, by `Serial`, and nothing is launched before it
ends, since commands take turns), and that a start launches only what stop would infer from the same configuration (`Launching`). So it does
not matter where a start was cut. TLC checked it with two managers and every fault.

*Refinement.* The step simulation of `LifecycleKeepsContract` rests on `ReachInv` and
two facts more: only a start under way has flags (`FlagsOfStarts`), and there is a
node to launch a worker on (`SomeTargets`, from `SomeWorkers`: with an empty workers file a
start returns with the workers flagged and none running). A launch maps to
`Launch`, the first failure to `StartFails`, each stop command and each death to
`End`, files and processes in between to stuttering. `ContractPromises` proves the
invariants of the contract from the contract alone; with the refinement they are true of
the code (`NothingGoesUnrecorded`).

*Sessions.* `SessionBase` says that a session is where its manager is: the configure, start
or stop of a plan leads to the next phase or to the end (`ConfigureLeads`, `StartLeads`,
`StopLeads`, `CutLeads`). For the timeouts, `OnTime` says what the clock can show: nothing or the
whole timeout when that is shorter than an hour, else a number of hours.
`SessionsLeaveNothing` rests on `SessionInv`, which says of a session that has its directory
for itself (`Lone`) that what runs is where its own stop looks for it (`Placed`), that this stop
would take it for running (`Known`), and, while the cluster starts, that start has flagged it
(`Flagged`), so that status.json will name it. Interrupts are why `Known` must hold in the
middle of a start: the rollback is skipped, no status.json is written, and the finally
clause infers. The other managers are kept apart by frame lemmas: an operation of one
leaves the memory of all others alone (`Untouched`), and what it does to disk or
processes ends the claim of the session to have been alone. `Tidy` is about what runs without a pid
file: as long as the session had the directory for itself, only a Ctrl-C can have left it, and
then the session is in `unnamed`. `StopsWork` (no
`stopfail`) is the one assumption: a stop whose commands fail leaves what they did not stop.

*Fan-out.* `IInv` ties the history of launches to the threads: outside the pool no
thread is at work, and a thread without monitor that ended without failure has
launched its worker. The refinement of `LaunchContract` follows. `StopInv` is for stops that
overlap: of the stops that have written a script the last one to fill it runs it
in full on every node, so nodes that ran an empty script or none in the others are
stopped by it (`LastStop`), or one of them does not return 0.

*Background processes.* `IInv` has the promised properties as parts, and ties
what a manager has in hand to the process table: a start, or its rollback, is alone at work
and what runs besides its own process is lost (`StartAlone`); a stop waits for what the pid
file names or another stop has deleted, deletes it when the process has ended, and writes
status.json when whatever is not lost has (`StopInHand`). That a slower stop may raise is no
harm to `StopIsRecorded` because whoever deletes the pid file gets to status.json.
`MonitorsAreFirst` rests on a second invariant, `Told`, which holds as long as nothing has kept
the monitors from being told (`~untold`): one stop at a time uses the script, and it is
there and full when it is to be (`ScriptInHand`), the pid file on the nodes names the monitors
of the process that `srun_workers.pid` names until they have ended or had their time
(`MonitorsNamed`), and only a process that was sent SIGTERM is waited for or given up on
(`WaitsForEnding`), so that a later start does not leave one behind whose monitors were never told.

*Metastore.* `StartKnows`: whoever initialises has found no file before, and who found
one has found a complete metastore or a spoiled one.

*Settings.* `BuiltFromSettings`: a configuration is what one of the two ways makes of
the settings its process read.

*Sizing.* `SizingInv`: after configure the file says what was computed, the node was
not too small, no quotient was zero, the GPUs were accepted, and only the lines
for the driver memory may have changed since. Lemmas on quotients and products do the
arithmetic, among them the monotonicity of the worker's memory in the driver's.
`WorkersHaveTheirGpus` needs the sum of the GPUs of at most two nodes, which is unfolded node by
node (`TotalOfTwo`), and `PerNodeIsEven`: GPUs that are requested per node are
as many on each, which is Slurm's promise and which the code relies on without a look.
`AmpleMemory` is a gigabyte of worker memory for every executor that fits by CPU, where the
memory of an executor is not set by the user.

### Only model-checked

* Liveness: `CallsReturn` of both modules, `ZombiesAreNoticed` and `SessionsProgress`. Fairness
  and `ENABLED` are out of the prover's reach, as are induction over data and recursive
  operators, of which the modules have none.
* The three claims of section 4 are refuted by runs; under which conditions two of them hold
  is proved, and of the third (`StopLeavesNothing`) `StopsLeaveNothing` is that condition.

## 6. Not modelled

* Templates: metrics, RAPIDS and hive-site text, reverse proxy, log level. They are
  appended to files that nothing in this program reads back; the password of
  hive-site.xml is in `PostgresMetastore`.
* `get_spark_session` and the environment variables of `managed_cluster`: no state of the directory
  or of a process that another operation depends on.
* Logging, URLs and exceptions: wording.
* The parsing of Slurm's variables and of `/proc`: its results are constants here.
* The validation of types and paths by pydantic; of it only the refusal of None is
  in `Settings`.
* dynaconf's environment variables, and the `[compute]` and `[app]` tables.

## 7. Where it could go on

In the proofs: `SessionLeavesNothing` for a session whose directory others have used, as
long as they took turns, which would join `SessionInv` to `ReachInv`. In the model: a
clean whose deletions are steps of their own, and the
connection of `SshFanOut` and `BackgroundProcess` to the steps of the lifecycle they
stand for by a refinement instead of by the contracts on both sides.

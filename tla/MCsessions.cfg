\* A session, and commands given while it lasts.
SPECIFICATION SessionSpec
CONSTANTS
  n1 = n1
  n2 = n2
  cli = cli
  program = program
  NoFile = NoFile
  Never = Never
  Managers = {cli, program}
  Cli = {cli}
  Nodes = {n1, n2}
  Host = n1
  Allocations = {{n1, n2}}
  WorkerLists <- NoLists
  Configs = {{}, {"srun"}}
  Calls = {"create", "load", "configure", "start", "stop", "clean", "managed", "wait", "stale_config"}
  Faults = {"die", "fail", "ssh", "kill_session", "interrupt"}
  Overlap = FALSE
  Hour = 2
  Timeouts = {1, 4, Never}
INVARIANTS SessionTypeOK WaitsAsAsked
PROPERTIES SessionLeavesNothing SessionsProgress

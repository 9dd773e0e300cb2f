\* A command and a Python program take turns; launches fail and servers die.
SPECIFICATION Spec
CONSTANTS
  n1 = n1
  n2 = n2
  m1 = m1
  m2 = m2
  NoFile = NoFile
  Managers = {m1, m2}
  Cli = {m1}
  Nodes = {n1, n2}
  Host = n1
  Allocations = {{n1}, {n1, n2}}
  WorkerLists <- SlurmLists
  Configs = {{}, {"connect", "postgres"}, {"history", "jupyter", "thrift"}, {"jupyter", "srun"}}
  Calls = {"create", "load", "configure", "reconfigure", "start", "set_workers", "stop", "clean"}
  Faults = {"fail", "die"}
  Overlap = FALSE
INVARIANTS TypeOK NothingOutOfReach ConfigMatchesConfDir RollbackMeetsNoWorkers
PROPERTIES RollbackStopsServers CleanWaitsForStop StopLeavesNothing ImplementsContract

\* Every fault, in commands that take turns.
SPECIFICATION Spec
CONSTANTS
  n1 = n1
  n2 = n2
  m1 = m1
  m2 = m2
  NoFile = NoFile
  Managers = {m1}
  Cli = {m1}
  Nodes = {n1, n2}
  Host = n1
  Allocations = {{n1}, {n1, n2}}
  WorkerLists <- NoLists
  Configs = {{}, {"connect", "postgres"}, {"history", "jupyter", "thrift"}, {"jupyter", "srun"}}
  Calls = {"create", "load", "configure", "start", "restart", "stop", "clean"}
  Faults = {"fail", "setup", "ssh", "stopfail", "die", "kill"}
  Overlap = FALSE
INVARIANT InferenceCovers

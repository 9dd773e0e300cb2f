\* A start is interrupted in a directory used before.
SPECIFICATION Spec
CONSTANTS
  n1 = n1
  n2 = n2
  m1 = m1
  m2 = m2
  NoFile = NoFile
  Managers = {m1}
  Cli = {m1}
  Nodes = {n1, n2}
  Host = n1
  Allocations = {{n1, n2}}
  WorkerLists <- NoLists
  Configs = {{}}
  Calls = {"create", "load", "configure", "start", "stop"}
  Faults = {"kill"}
  Overlap = FALSE
PROPERTY StopLeavesNothing

\* A start and two stops that may overlap; everything may fail.
SPECIFICATION Spec
CONSTANTS
  n1 = n1
  n2 = n2
  start = start
  stop1 = stop1
  stop2 = stop2
  Nodes = {n1, n2}
  Start = start
  Stops = {stop1, stop2}
  Pool = 1
  MayFail = TRUE
INVARIANTS TypeOK GoodStopsStopAll
PROPERTIES ImplementsContract CallsReturn

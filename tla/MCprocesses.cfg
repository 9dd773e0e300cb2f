\* Two programs start and stop, and die; stops overlap.
SPECIFICATION Spec
CONSTANTS
  m1 = m1
  m2 = m2
  p1 = p1
  p2 = p2
  None = None
  Kinds = {"srun", "monitored", "jupyter"}
  Managers = {m1, m2}
  Processes = {p1, p2}
  Children <- SomeChildren
  Polls = 2
  Limit = 2
INVARIANTS TypeOK NamedUnlessLost DownMeansEnded StopIsRecorded MonitorsEndFirst
PROPERTIES CallsReturn ZombiesAreNoticed

\* The default settings on a node with many CPUs and little memory.
SPECIFICATION Spec
CONSTANTS
  None = None
  Jobs <- ThinJobs
  RuntimeSettings <- DefaultSettings
  DriverMemories = {1}
INVARIANT ConfigureNeverCrashes
CHECK_DEADLOCK FALSE

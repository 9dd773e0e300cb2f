\* Every allocation with every setting.
SPECIFICATION Spec
CONSTANTS
  None = None
  Jobs <- SmallJobs
  RuntimeSettings <- SmallSettings
  DriverMemories = {1, 3, 20}
INVARIANTS TypeOK ExecutorsAreMaximal OneExecutorPerGpu EveryWorkerHasItsGpus
INVARIANTS ExecutorFitsWorker StartRejectsOnlyEdits
CHECK_DEADLOCK FALSE

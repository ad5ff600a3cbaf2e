\* PcdCpuSmmBlockStartupThisAp at its default, FALSE.
SPECIFICATION Spec
CONSTANTS
  NumberOfCpus = 2
  Uint32Max = 15
  BspElection = FALSE
  BlockStartup = FALSE
  ConfigureMtrrs = TRUE
  SharedMtrrs = FALSE
  LongTimeout = TRUE
  PromptWindows = {"ApGiveUp", "MarkAbsent", "ApInitBusy"}
  MaxSmi = 1
  MaxTasks = 1
CHECK_DEADLOCK FALSE
INVARIANT PendingTasksCompleted

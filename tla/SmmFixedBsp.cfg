\* The build's own configuration: the BSP is CPU 0; three CPUs, one SMI.
SPECIFICATION Spec
CONSTANTS
  NumberOfCpus = 3
  Uint32Max = 15
  BspElection = FALSE
  BlockStartup = TRUE
  ConfigureMtrrs = TRUE
  SharedMtrrs = FALSE
  LongTimeout = TRUE
  PromptWindows = {"ApGiveUp", "MarkAbsent", "ApInitBusy"}
  MaxSmi = 1
  MaxTasks = 1
CHECK_DEADLOCK FALSE
INVARIANTS
  TypeOK
  CoreRunsAlone
  RunDrained
  BusyWhileRunning
  PendingTasksCompleted
PROPERTY NoLateAdmission

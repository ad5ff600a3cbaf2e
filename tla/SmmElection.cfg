\* BSP election, two threads on one set of MTRRs, SMIs that follow each other.
SPECIFICATION FairSpec
CONSTANTS
  NumberOfCpus = 2
  Uint32Max = 15
  BspElection = TRUE
  BlockStartup = TRUE
  ConfigureMtrrs = TRUE
  SharedMtrrs = TRUE
  LongTimeout = TRUE
  PromptWindows = {"ApGiveUp", "MarkAbsent", "ApInitBusy"}
  MaxSmi = 2
  MaxTasks = 2
CHECK_DEADLOCK FALSE
INVARIANTS
  MtrrsConsistent
  ApsReportToBsp
PROPERTY EveryCpuResumes

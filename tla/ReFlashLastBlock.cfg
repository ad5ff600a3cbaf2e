\* A flash part that reports an error.
SPECIFICATION Spec
CONSTANTS
  Images = {old, new}
  Garbage = Garbage
  Blocks = 2
  Builds <- MCRuntimeBackup
  BootBlockChoices = {TRUE, FALSE}
  FlashErrors = TRUE
  MaxFailures = 1
INVARIANTS
  InterruptionNoticed

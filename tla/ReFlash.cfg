\* Updates of the three builds: a backup that is part of the image (the default of
\* FtRecovery), one that is made at run time, and none (the board).  Every write may
\* fail, the ones whose status is ignored too.
SPECIFICATION FairSpec
CONSTANTS
  Images = {old, new}
  Garbage = Garbage
  Blocks = 2
  Builds <- MCBuilds
  BootBlockChoices = {TRUE, FALSE}
  FlashErrors = TRUE
  MaxFailures = 2
INVARIANTS
  TypeOK
  BootBlockIntact
  OnlyLastBlockMissed
PROPERTY NormalBootAgain
CHECK_DEADLOCK FALSE

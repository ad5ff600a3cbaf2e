\* Downloads and uploads over a network that loses, duplicates and reorders.
SPECIFICATION FairSpec
CONSTANTS
  Bound = 2
  BlkSize = 2
  MaxRetry = 2
  Tokens <- MCTokens
  Replies = {"plain", "oack", "malformed", "error"}
  Window = 2
  Ports = 2
  MaxDups = 1
  ServerRetries = 1
INVARIANTS
  TypeOK
  ResultAccurate
  InStep
  UploadWithinFile
PROPERTY OperationEnds

SPECIFICATION FairSpec
CONSTANTS
  Uploads = {u1, u2}
  ServiceV2 = FALSE
  ChunkSize = 1
  MaxConcurrency = 1
  MaxAttempts = 2
  MaxLength = 1
PROPERTIES EveryCallReturns PermitsReturn
CHECK_DEADLOCK FALSE

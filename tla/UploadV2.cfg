SPECIFICATION FairSpec
CONSTANTS
  Uploads = {u1, u2}
  ServiceV2 = TRUE
  ChunkSize = 2
  MaxConcurrency = 2
  MaxAttempts = 2
  MaxLength = 3
PROPERTIES PublishesAtomically EveryCallReturns
CHECK_DEADLOCK FALSE

SPECIFICATION Spec
CONSTANTS
  Uploads = {u1, u2}
  ServiceV2 = FALSE
  ChunkSize = 2
  MaxConcurrency = 2
  MaxAttempts = 1
  MaxLength = 3
SYMMETRY Symmetry
INVARIANTS TypeOK PublishedWhole PermitsConserved ThrottledMeansTripped
PROPERTIES PublishesAtomically
CHECK_DEADLOCK FALSE

SPECIFICATION Spec
CONSTANTS
  Clips = {c1}
  Workers = {w1, w2, w3}
  MaxSize = 1
  Limits = {0}
  Operations = {"upload", "finalize", "update", "thumbnail", "delete"}
  ConfiguredBucket = "clips"
  NoRow = NoRow
  MaxUsed = 1
  MaxFaults = 1
SYMMETRY Interchangeable
INVARIANTS
  TypeOK
  PlayableUntilDeleted
  NoOrphans
  VisibilityKept
PROPERTIES
  ImplementsLibrary
CHECK_DEADLOCK FALSE

SPECIFICATION Spec
CONSTANTS
  Clips = {c1, c2, c3}
  Workers = {w1, w2}
  MaxSize = 2
  Limits = {1, 2}
  Operations = {"upload", "finalize", "delete"}
  ConfiguredBucket = "clips"
  NoRow = NoRow
  MaxUsed = 3
  MaxFaults = 0
SYMMETRY Interchangeable
INVARIANTS
  CounterRight
  OvershootBounded
CHECK_DEADLOCK FALSE

SPECIFICATION Spec
CONSTANTS
  Clips = {c1}
  Shares = {s1, s2}
  Slugs = {s2}
  Workers = {w1, w2}
  Visits = {"page"}
  MaxViews = {1}
  NoLimit = NoLimit
  NoSlug = NoSlug
  NoRow = NoRow
  MaxCount = 2
  MaxFaults = 1
SYMMETRY Interchangeable
INVARIANTS
  ViewsBounded
  DeactivatedForCause
PROPERTIES
  ImplementsLinks
CHECK_DEADLOCK FALSE

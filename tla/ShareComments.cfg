SPECIFICATION Spec
CONSTANTS
  Clips = {c1}
  Shares = {s1}
  Slugs = {}
  Workers = {w1, w2, w3}
  Visits = {"comment", "video"}
  MaxViews = {}
  NoLimit = NoLimit
  NoSlug = NoSlug
  NoRow = NoRow
  MaxCount = 2
  MaxFaults = 1
SYMMETRY Interchangeable
INVARIANTS
  MutedGoesQuiet
CHECK_DEADLOCK FALSE

SPECIFICATION Spec
CONSTANTS
  Chunk = 3
  Block = 4
  Pages = {p1, p2}
  Clips = {c1, c2}
  Sizes = {0, 5}
  Numbers = {0, 4, 6}
  NoClip = NoClip
  NoKey = NoKey
  MaxAsks = 1
INVARIANTS
  RightBytes
  ShortAnswers
PROPERTIES
  PlaysToEnd
CHECK_DEADLOCK FALSE

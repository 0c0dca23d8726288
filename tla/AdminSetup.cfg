SPECIFICATION Spec
CONSTANTS
  Usernames = {dev, root, owner}
  DevName = dev
  Workers = {w1, w2}
  Environments = {"development", "production"}
  MaxBoots = 3
  MaxFaults = 1
INVARIANTS
  TypeOK
  OneAdmin
  SetupLocks
  OperatorHasKey
PROPERTIES
  RestartMints
CHECK_DEADLOCK FALSE

SPECIFICATION Spec
CONSTANTS
  Servers = {s1, s2}
  Default = s1
  Localhost = s2
  Loopback = loopback
  normalizeApiUrl <- Normalized
  Logouts = {l1}
  Requests = {r1}
  None = None
  MaxLogins = 1
  MaxFaults = 1
PROPERTY
  DroppedReachesLogin
CHECK_DEADLOCK FALSE

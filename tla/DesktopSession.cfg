SPECIFICATION Spec
CONSTANTS
  Servers = {s1, s2}
  Default = s1
  Localhost = s2
  Loopback = loopback
  normalizeApiUrl <- Normalized
  Logouts = {l1, l2}
  Requests = {r1}
  None = None
  MaxLogins = 2
  MaxFaults = 1
INVARIANTS
  TypeOK
  RequestsStayHome
  SessionDurable
  ForgetsDevice
PROPERTIES
  LogoutEnds
CHECK_DEADLOCK FALSE

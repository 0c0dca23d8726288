SPECIFICATION Spec
CONSTANTS
  Codes = {c1, c2}
  Users = {alice, bob}
  Workers = {w1, w2}
  NoCode = NoCode
  NoUser = NoUser
  MaxFaults = 1
SYMMETRY Interchangeable
INVARIANTS
  TypeOK
  NoDoubleSpend
  WithdrawnNeverSpent
  DeviceAccounted
  WastedOnlyByRace
  DeviceReachable
PROPERTIES
  ImplementsLedger
CHECK_DEADLOCK FALSE

SPECIFICATION Spec
CONSTANTS
  Files = {f1, f2}
  FirstFile = f1
  NoFile = NoFile
  MaxSelects = 2
  MaxUploads = 2
  MaxFaults = 2
CONSTRAINT FirstChoice
INVARIANTS
  TypeOK
  CancelHolds
  SafeDelete
  TwiceOnlyWhenLost
PROPERTIES
  ButtonComesBack
CHECK_DEADLOCK FALSE

SPECIFICATION Spec
CONSTANTS
  Files = {f1, f2}
  NoFile = NoFile
  MaxSelects = 2
  MaxUploads = 2
  MaxFaults = 0
INVARIANT
  DeletedIsStored
CHECK_DEADLOCK FALSE

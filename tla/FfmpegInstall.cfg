SPECIFICATION Spec
CONSTANTS
  Installers = {i1, i2}
  Jobs = {j1}
  Bundles = {TRUE, FALSE}
  Hardware = {{}, {"elsewhere"}}
  NoOne = NoOne
  MaxFaults = 2
SYMMETRY Symmetry
INVARIANTS
  InstallRepairs
  PageTruthful
  NewBinariesPickedUp
  FallbackCovers

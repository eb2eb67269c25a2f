\* One overlay, two callbacks, one failing reload, one pause.
CONSTANTS
  Root = base
  Overlays = {prod}
  Callbacks = {c1, c2}
  None = none
  MaxEdits = 2
  MaxFails = 1
  MaxPauses = 1
SPECIFICATION FairSpec
INVARIANTS EditsCovered OneReloadPerDir
PROPERTY EditsArrive

\* Can a change slip between the initial scan and the watch?
CONSTANTS
  Root = base
  Overlays = {prod}
  Callbacks = {c1}
  None = none
  MaxEdits = 2
  MaxFails = 0
  MaxPauses = 0
SPECIFICATION Spec
INVARIANT NothingSlips

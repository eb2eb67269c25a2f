\* Does a Push ever run fn itself?
CONSTANTS
  Keys = {k1}
  Pushers = {p1}
  Quiet = 2
  MaxLag = 3
  SwapHint = 1
  DefaultQuiet = 2
  DefaultMaxLag = 3
  DefaultSwapHint = 1
  MaxDrift = 0
  MaxEvents = 2
  MaxTime = 8
SPECIFICATION Spec
INVARIANT PushNeverWaits

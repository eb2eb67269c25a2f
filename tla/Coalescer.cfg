\* Two goroutines pushing for one directory; late timers, a swap hint by default.
CONSTANTS
  Keys = {k1}
  Pushers = {p1, p2}
  Quiet = 2
  MaxLag = 3
  SwapHint = 0
  DefaultQuiet = 9
  DefaultMaxLag = 9
  DefaultSwapHint = 1
  MaxDrift = 1
  MaxEvents = 3
  MaxTime = 8
SPECIFICATION FairSpec
INVARIANTS ReportedOnceInTime
PROPERTY EventsReported

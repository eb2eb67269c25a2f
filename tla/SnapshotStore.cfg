\* Two subscribers, one rollback, two values, a ring of two that wraps.
CONSTANTS
  Values = {v1, v2}
  HistoryCap = 2
  NSubs = 2
  Rollbacks = {r1}
  MaxGen = 4
SPECIFICATION FairSpec
INVARIANTS TypeOK NoMissedUpdate CanceledQuiet CallbackContext RetainedWindow
PROPERTIES FollowersLearn Refines

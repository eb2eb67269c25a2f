\* Two calls of every kind that publishes or fails, one change, a history
\* of one, and room for two of the errors.
CONSTANTS
  Calls = {c1, c2}
  Event = Event
  Kinds = {"reload", "rollback", "badOption"}
  NProviders = 1
  QueueCap = 1
  ErrCap = 2
  HistoryCap = 1
  MaxVersion = 1
  MaxPauses = 0
  MaxFails = 0
SYMMETRY CallSymmetry
SPECIFICATION Spec
INVARIANTS ReadYourWrites ReplyNeverBlocks ErrorsNewest
PROPERTY NoRegression

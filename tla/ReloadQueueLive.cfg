\* Liveness: two changes, a queue of one and a call that may take its place.
CONSTANTS
  Calls = {c1}
  Event = Event
  Kinds = {"reload"}
  NProviders = 1
  QueueCap = 1
  ErrCap = 1
  HistoryCap = 0
  MaxVersion = 2
  MaxPauses = 0
  MaxFails = 0
SPECIFICATION FairSpec
PROPERTIES EveryoneReturns Converges

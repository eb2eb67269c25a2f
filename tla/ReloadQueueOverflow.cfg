\* One call, one Pause, one failing load or subscriber, two changes, a queue of one.
CONSTANTS
  Calls = {c1}
  Event = Event
  Kinds = {"reload", "plan"}
  NProviders = 1
  QueueCap = 1
  ErrCap = 1
  HistoryCap = 0
  MaxVersion = 2
  MaxPauses = 1
  MaxFails = 1
SPECIFICATION Spec
INVARIANTS TypeOK QuiescentFresh AtMostOneBypass ResyncServedNext

\* Two versions of an object, one failure, one duplicate or ended run; a chain of
\* three directories and four changes; three events for queues of one.
CONSTANTS
  MaxObj = 2
  MaxObjFails = 1
  EventCap = 1
  MaxDups = 1
  Depth = 2
  MaxOps = 4
  Clients = {c1, c2}
  QueueCap = 1
  ClientCap = 1
  MaxEvents = 3
SPECIFICATION FairSpec
INVARIANTS LoadsCoherent SettledIsLoaded
           WatchesFollow EventsAccounted
PROPERTIES RejectedStays AnnouncedLoaded
CHECK_DEADLOCK FALSE

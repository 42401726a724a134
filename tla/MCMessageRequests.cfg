SPECIFICATION FairSpec

CONSTANTS
  Requests = {r1, r2}
  MaxQueued = 2
  MaxStops = 1
  Nobody = Nobody

INVARIANT AcceptedHasTask
INVARIANT PermitHasHolder
INVARIANT BoundRunOwnsAnswer
PROPERTY StartsInOrder
PROPERTY AcceptedIsSettled
PROPERTY KeepsPromise

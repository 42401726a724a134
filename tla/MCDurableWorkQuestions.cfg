SPECIFICATION FairSpec

CONSTANTS
  NumJobs = 1
  NumQuestions = 2
  Keys = {1}
  ChatRuns = {}
  MaxOutstanding = 1
  MaxPending = 2
  ReleaseBatch = 2
  MaxActive = 1
  MaxAttempt = 2
  MaxTurns = 4
  MaxStops = 1

INVARIANT RunHoldsClaim
INVARIANT AwaitingHasOpenQuestion
INVARIANT DeliveryHasEvidence
PROPERTY DeliveryDecidedOnce
PROPERTY KeepsContract
 
PROPERTY StopIsHonoured

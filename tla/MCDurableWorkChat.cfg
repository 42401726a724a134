SPECIFICATION FairSpec

CONSTANTS
  NumJobs = 2
  NumQuestions = 2
  Keys = {1}
  ChatRuns = {c1}
  MaxOutstanding = 1
  MaxPending = 2
  ReleaseBatch = 1
  MaxActive = 1
  MaxAttempt = 1
  MaxTurns = 0
  MaxStops = 1

INVARIANT QueueWithinLimit
PROPERTY AnswerIsSpent

SPECIFICATION Spec

CONSTANTS
  NumJobs = 1
  NumQuestions = 1
  Keys = {1}
  ChatRuns = {}
  MaxOutstanding = 1
  MaxPending = 2
  ReleaseBatch = 2
  MaxActive = 1
  MaxAttempt = 1
  MaxTurns = 2
  MaxStops = 0

INVARIANT SavedAnswerCanRelease

SPECIFICATION FairSpec
CONSTANTS
  Run = {r1}
  Query = {q1}
  SignIn = {s1}
  MaxCalls = 2
  MaxWorkers = 2
INVARIANTS PurgeFindsOnlyStrays
PROPERTIES KeepsAgent CallsEnd
CHECK_DEADLOCK FALSE

SPECIFICATION FairSpec
CONSTANTS
    Sources = {1, 2}
    Goals = {1}
    Asked <- MCAsked
    MaxOutstanding = 1
    MaxEnabled = 2
    MaxRetained = 1
    Interval = 2
    ReviewInterval = 3
    MaxTime = 2
    MaxJobs = 2
    MaxChanges = 3
INVARIANTS KeyIsFresh QueuedIsWanted
PROPERTIES ReviewsDoNotRepeat KeepsSchedule DueIsServed
CHECK_DEADLOCK FALSE

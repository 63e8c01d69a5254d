CONSTANTS
    Visits <- MCVisits
    RowCount = 2
    Hits <- MCHits
    Own <- MCOwn
    PageSize = 1
    MaxVersion = 1
    MaxInputs = 3
    MaxMishaps = 1
SPECIFICATION FairSpec
CHECK_DEADLOCK FALSE
INVARIANT OwnWriteSeen
INVARIANT AnswersTheQuestion
INVARIANT PastEndExplained
PROPERTY AskedIsShown

SPECIFICATION FairSpec
CONSTANTS
    t1 = t1
    t2 = t2
    k1 = k1
    k2 = k2
    w1 = w1
    w2 = w2
    None = None
    Tasks <- MCTasks
    Keywords <- MCKeywords
    KeywordLists <- MCKeywordLists
    Windows <- MCWindows
    Contains <- MCContains
    InitRows <- MCSeeded
    Requests = {"start", "stop"}
    Faults = {"aw"}
    MaxEvents = 3
    MaxTime = 1
CHECK_DEADLOCK FALSE
PROPERTY StopClearsOverride

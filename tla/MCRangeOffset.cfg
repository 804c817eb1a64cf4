SPECIFICATION Spec
CONSTANTS
    t1 = t1
    t2 = t2
    k1 = k1
    None = None
    Tasks <- MCTasks
    Keywords <- MCKeywords
    KeywordLists <- MCKeywordLists
    MaxEvents = 4
    MaxTime = 2
CHECK_DEADLOCK FALSE
INVARIANT AnyOffsetMatchesReference

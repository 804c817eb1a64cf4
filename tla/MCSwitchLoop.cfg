SPECIFICATION Spec
CONSTANTS
    t1 = t1
    t2 = t2
    t3 = t3
    k1 = k1
    k2 = k2
    w1 = w1
    w2 = w2
    None = None
    Tasks <- MCTasks
    Keywords <- MCKeywords
    KeywordLists <- MCKeywordLists
    Windows <- MCWindows
    Contains <- MCContains
    InitRows <- MCTables
INVARIANT LoopTypeOK
INVARIANT OnlyTheWinnerCounts
INVARIANT OverrideOnlyHolds
PROPERTY DecisionSettles

SPECIFICATION Spec
CONSTANTS
    t1 = t1
    t2 = t2
    k1 = k1
    k2 = k2
    w1 = w1
    w2 = w2
    None = None
    Tasks <- MCTasks
    Keywords <- MCKeywords
    KeywordLists <- MCOneKeyword
    Windows <- MCWindows
    Contains <- MCContains
    InitRows <- MCOneTask
    Requests = {"start", "subtask", "stop", "mode", "create", "update", "delete"}
    Faults = {"aw", "crash"}
    MaxEvents = 3
    MaxTime = 1
CHECK_DEADLOCK FALSE
INVARIANT TypeInvariant
INVARIANT RefIntegrity
INVARIANT OverrideTracksLedger
INVARIANT TickSeesLatest
INVARIANT ExposedToOneTick
INVARIANT AtMostOneStray
PROPERTY NoAutoRestart
PROPERTY StickyOverride
PROPERTY EveryTickCounts
PROPERTY ImplementsTimesheet
PROPERTY ImplementsSubscription
PROPERTY ImplementsTaskTable

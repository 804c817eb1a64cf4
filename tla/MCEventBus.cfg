SPECIFICATION MCSpec
CONSTANTS
    t1 = t1
    reader = reader
    slow = slow
    None = None
    Clients <- MCClients
    Tasks <- MCTasks
    InitEvents <- MCInitEvents
    MaxEvents = 3
INVARIANT BusTypeOK
INVARIANT ContiguousRun
PROPERTY ImplementsDelivery
PROPERTY DeliveredToReaders
PROPERTY StopIsFinal
PROPERTY ShutdownEnds

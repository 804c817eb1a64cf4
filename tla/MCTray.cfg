SPECIFICATION FairSpec
CONSTANTS
    t1 = t1
    tray = tray
    None = None
    Tasks <- MCTasks
    Clients <- MCClients
    TrayFaults = {"timeout"}
    InitEvents <- MCInitEvents
    MaxEvents = 2
    MaxThreads = 2
    MaxIdle = 2
INVARIANT TrayTypeOK
INVARIANT NoEventMissed
INVARIANT QuietMeansRight
PROPERTY OfflineShown
PROPERTY Settles

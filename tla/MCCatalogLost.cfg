SPECIFICATION Spec
CONSTANTS
    c1 = c1
    c2 = c2
    p1 = p1
    task1 = task1
    n1 = n1
    n2 = n2
    th1 = th1
    th2 = th2
    None = None
    Clients = {c1, c2}
    Projects = {p1}
    Tasks = {}
    Labels <- MCLabels
    Threads <- MCThreads
    Patches <- MCPatches
PROPERTY PatchKeepsOtherFields

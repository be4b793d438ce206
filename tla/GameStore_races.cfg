SPECIFICATION Spec
CONSTANTS
    r1 = r1
    r2 = r2
    ann = ann
    Requests <- MCRequests
    Clients <- MCClients
    MaxMoves = 2
    MaxNotes = 1
    QueueSize = 1
    MaxCrashes = 1
    MaxReplies = 1
    CanFail = TRUE
SYMMETRY MCRequestSymmetry
VIEW MCView
INVARIANTS
    DiskIsBehind
    DeltasAreDurable
    VersionNamesOneState
    CaughtUp
CHECK_DEADLOCK FALSE

SPECIFICATION FairSpec
CONSTANTS
    TurnLimit = 3
    KeepFor = 1
    IdleWindow = 2
    Lifetime = 4
    Throttle = 1
    MaxGames = 1
    MaxTurns = 2
    MaxTouches = 1
    MaxSignIns = 1
    MaxCrashes = 1

    
    
PROPERTIES
    RemovedNoSooner
    ServedInTime
    
CHECK_DEADLOCK FALSE

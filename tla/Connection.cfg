SPECIFICATION FairSpec
CONSTANTS
    MaxSessions = 2
    MaxActs = 2
    MaxOutages = 1
PROPERTIES DeadSessionEnds 
CHECK_DEADLOCK FALSE

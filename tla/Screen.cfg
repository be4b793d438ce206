SPECIFICATION ScreenSpec
CONSTANTS
    GameIds = {g1, g2}
    None = None
    MaxSessions = 2
    MaxVersion = 2
    MaxActs = 2
SYMMETRY Symmetry
INVARIANTS FeedIsTended
PROPERTIES VersionsOnlyGrow
CHECK_DEADLOCK FALSE

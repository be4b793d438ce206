SPECIFICATION FairSpec
CONSTANTS
    SeatCount = 3
    t1 = t1
    t2 = t2
    t3 = t3
    t4 = t4
    Tiles <- MCTiles4
    RackSize = 1
    RackValue <- MCRackValue
    PlayScores = {0, 2}
    ScorelessLimit = 3
    alice = alice
    bob = bob
    engine = engine
    Players <- MCPlayers
    Holder <- MCHolder3
    NoPlayer = engine
    Creator = alice
    MaxChats = 1
INVARIANTS
    TurnIsPlayable
    TilesInOnePlace
PROPERTIES
    DepartedScoreIsFinal
    OverIsFinal
    ChangesMoveVersion
    TurnOrder
    GameEnds
CHECK_DEADLOCK FALSE

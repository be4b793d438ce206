SPECIFICATION Spec
CONSTANTS
    g1 = g1
    g2 = g2
    ann = ann
    ben = ben
    bot = bot
    Games = {g1, g2}
    Deletable <- MCDeletable
    Subjects = {ann, ben, bot}
    SeatCount = 3
    Holder <- MCHolder
    Scores = {0, 1}
    Default = 20
    Floor = 13
    K = 4
    Win = 4
    Expect <- MCExpect
INVARIANTS
    
    OneVerdict
PROPERTIES
    AsIfNeverInTheGame
CHECK_DEADLOCK FALSE

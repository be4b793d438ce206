SPECIFICATION ComposerSpec
CONSTANTS
    Width = 3
    Height = 2
    a = a
    Letters = {a}
    Blank = Blank
    Racks <- MCRacks
    Boards <- MCBoards
    Nothing = Nothing
INVARIANTS RequestIsStaged TypingIsUndone
PROPERTIES HandlersKeepFit
CHECK_DEADLOCK FALSE

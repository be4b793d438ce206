SPECIFICATION Spec
CONSTANTS
    Width = 4
    Height = 3
    Alphabet <- MCAlphabet
    Grapheme <- MCGrapheme
    Words <- MCWords
    Denylist <- MCDenylist
    LeafLenBits = 3
    IndexLenBits = 2
    SizeBits = 6
    MaxLeafWords = 2
    MaxScanWords = 1
    Value <- MCValue
    Canonical <- MCCanonical
    RackSize = 2
    Tiles <- MCTiles
    BingoBonus = 50
    MaxTiles = 5
    Universe <- MCUniverse
    Sizes <- MCSizes
    Longest = 3
    Racks <- MCRacks
    Greylists <- MCGreylists
INVARIANTS
    EveryListIsFound
    CacheIsExact
    
    EnginePlaysTheBest
VIEW MCView
CHECK_DEADLOCK FALSE

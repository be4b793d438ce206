------------------------------- MODULE Rules -------------------------------
(***************************************************************************)
(* The rules of placing tiles (crates/rules-shared): a position is a board *)
(* and a cache of what may be put where; a move is validated and scored    *)
(* from the cache (validate.rs), applied by updating it near the tiles     *)
(* placed (cache.rs).  The client judges a move by the same rules on what  *)
(* it was sent, and a game is loaded from a snapshot.                      *)
(*                                                                         *)
(* A word is a sequence of characters, of which a letter may have several; *)
(* the dictionary is module Lexicon, and module Engine adds the racks (a   *)
(* rack only refuses) and the generator.  The line extents of the cache,   *)
(* which no rule reads, are left out, and its two anchor flags, always     *)
(* equal, are one.                                                         *)
(***************************************************************************)
EXTENDS Lexicon

CONSTANTS
    Words,          \* the word list, as imported
    Denylist,       \* the words taken out of it
    MaxLeafWords,   \* the sizes at which the dictionary
    MaxScanWords,   \* changes its way of searching
    Width, Height,  \* of the board
    Value,          \* letter_values
    Canonical,      \* the premiums of a quarter of the board
    RackSize,       \* tiles of a full rack
    BingoBonus,     \* for playing all of them
    Tiles,          \* bound: the tiles tried, [letter, blank]
    MaxTiles,       \* bound: tiles on the board
    \* What other lists are tried, apart from play (bounds):
    Universe,       \* their words,
    Sizes,          \* their MaxLeafWords and MaxScanWords, in pairs,
    Longest         \* and how many letters are spelt

\* remove_denied, and the dictionary of the rules.
Playable == Words \ Denylist
WordList == Dictionary(Playable, MaxLeafWords, MaxScanWords)

Cells == (0 .. Width - 1) \X (0 .. Height - 1)
Directions == {"horizontal", "vertical"}

ASSUME RulesAssumption ==
    /\ {MaxScanWords, MaxLeafWords} \subseteq Nat /\ MaxScanWords <= MaxLeafWords
    /\ {Width, Height, RackSize} \subseteq Nat \ {0}
    /\ Tiles \subseteq [letter : Letters, blank : BOOLEAN] /\ "none" \notin Letters
    /\ Value \in [Letters -> Nat]
    /\ \A i \in DOMAIN Canonical : Canonical[i].at \in Cells
    /\ Indexable(Playable, MaxLeafWords)
    /\ BingoBonus \in Nat /\ MaxTiles \in Nat /\ Longest \in Nat

VARIABLES
    board,   \* the tile on each square, or Free
    cross,   \* cache.cells[..].horizontal and .vertical
    anchor   \* cache.cells[..].anchor_flags

vars == <<board, cross, anchor>>

-----------------------------------------------------------------------------
(* The board.                                                              *)

Free == [letter |-> "none", blank |-> FALSE]

Step(p, d, k) ==
    IF d = "horizontal" THEN <<p[1] + k, p[2]>> ELSE <<p[1], p[2] + k>>
Perpendicular(d) == IF d = "horizontal" THEN "vertical" ELSE "horizontal"
Center == <<Width \div 2, Height \div 2>>

\* mirrored_premiums: of one quarter, in both directions; a later entry wins.
MirrorPositions(p) ==
    {p[1], Width - 1 - p[1]} \X {p[2], Height - 1 - p[2]}
MirroredPremiums ==
    FoldLeft(LAMBDA premiums, c :
                [p \in Cells |->
                    IF p \in MirrorPositions(c.at) THEN c.premium ELSE premiums[p]],
             [p \in Cells |-> "blank"], Canonical)
LetterPremium ==
    [p \in Cells |-> CASE MirroredPremiums[p] = "doubleLetter" -> 2
                       [] MirroredPremiums[p] = "tripleLetter" -> 3
                       [] OTHER -> 1]
WordPremium ==
    [p \in Cells |-> CASE MirroredPremiums[p] = "doubleWord" -> 2
                       [] MirroredPremiums[p] = "tripleWord" -> 3
                       [] OTHER -> 1]

Filled(b, p) == p \in Cells /\ b[p] # Free
HasTiles(b) == \E p \in Cells : Filled(b, p)
Offsets == 0 .. (IF Width > Height THEN Width ELSE Height) - 1

\* How many tiles follow one another directly before and after a square.
Before(b, p, d) == Max({n \in Offsets : \A i \in 1 .. n : Filled(b, Step(p, d, -i))})
After(b, p, d) == Max({n \in Offsets : \A i \in 1 .. n : Filled(b, Step(p, d, i))})

\* The squares of the word through p, and the word if p holds letter l.
Run(b, p, d) == {Step(p, d, k) : k \in -Before(b, p, d) .. After(b, p, d)}
WordWith(b, p, d, l) ==
    LET n == Before(b, p, d)
    IN  Spelling([i \in 1 .. n + 1 + After(b, p, d) |->
            IF i = n + 1 THEN l ELSE b[Step(p, d, i - n - 1)].letter])

\* The letters of that word on either side.
LettersBefore(b, p, d) ==
    LET n == Before(b, p, d) IN [i \in 1 .. n |-> b[Step(p, d, i - n - 1)].letter]
LettersAfter(b, p, d) == [i \in 1 .. After(b, p, d) |-> b[Step(p, d, i)].letter]

Worth(tile) == IF tile.blank THEN 0 ELSE Value[tile.letter]
Total(f) == MapThenSumSet(LAMBDA x : f[x], DOMAIN f)
Multiplied(f) ==
    MapThenFoldSet(LAMBDA x, y : x * y, 1, LAMBDA x : f[x],
                   LAMBDA T : CHOOSE x \in T : TRUE, DOMAIN f)

-----------------------------------------------------------------------------
(* The cache.                                                              *)

Unconstrained == [constrained |-> FALSE, allowed |-> Letters,
                  scores |-> [l \in Letters |-> 0], blankScore |-> 0]

\* compute_cross_check, of a square a move in direction d would fill.
CrossCheck(b, p, d) ==
    LET e == Perpendicular(d)
        others == Run(b, p, e) \ {p}
        allowed == AllowedLetters(WordList, LettersBefore(b, p, e), LettersAfter(b, p, e))
        around == Total([q \in others |-> Worth(b[q])])
    IN  IF Filled(b, p) \/ others = {} THEN Unconstrained
        ELSE [constrained |-> TRUE,
              allowed |-> allowed,
              scores |-> [l \in Letters |->
                             IF l \in allowed
                             THEN (around + Value[l] * LetterPremium[p]) * WordPremium[p]
                             ELSE 0],
              blankScore |-> around * WordPremium[p]]

\* touches_filled_neighbor.
Touches(b, p) ==
    \E d \in Directions, k \in {-1, 1} : Filled(b, Step(p, d, k))

\* recompute_anchor_flags.
Anchors(b) ==
    [p \in Cells |->
        ~Filled(b, p) /\ IF HasTiles(b) THEN Touches(b, p) ELSE p = Center]

\* Mutant: only the squares right beside the new tile.
BesideOnly(b, p, d) == {q \in {Step(p, d, -1), Step(p, d, 1)} \cap Cells : ~Filled(b, q)}

\* run_end_neighbours.
RunEnds(b, p, d) ==
    {q \in {Step(p, d, -Before(b, p, d) - 1), Step(p, d, After(b, p, d) + 1)} :
        q \in Cells}

\* recompute_cross_checks_near, with the new tiles on the board.
CrossNear(b, placed) ==
    [p \in Cells |-> [d \in Directions |->
        IF \E q \in placed : p \in RunEnds(b, q, Perpendicular(d))
        THEN CrossCheck(b, p, d)
        ELSE cross[p][d]]]

\* recompute_all: the checks of every square.
CrossChecks(b) == [p \in Cells |-> [d \in Directions |-> CrossCheck(b, p, d)]]

\* A position: GameState::from_board, and the one here.
FromBoard(b) == [board |-> b, anchor |-> Anchors(b), cross |-> CrossChecks(b)]
Here == [board |-> board, cross |-> cross, anchor |-> anchor]

\* GameState::new.
Init ==
    /\ board = [p \in Cells |-> Free]
    /\ anchor = Anchors(board)
    /\ cross = CrossChecks(board)

-----------------------------------------------------------------------------
(* validate_move.                                                          *)

\* A candidate names a start, a direction and a tile at each of some offsets.
Candidates ==
    {[start |-> s, direction |-> d, tiles |-> t] :
        s \in Cells, d \in Directions,
        t \in UNION {[O -> Tiles] : O \in (SUBSET Offsets) \ {{}}}}

At(c, o) == Step(c.start, c.direction, o)
Placed(c) == {At(c, o) : o \in DOMAIN c.tiles}
FirstSquare(c) == At(c, Min(DOMAIN c.tiles))
LastSquare(c) == At(c, Max(DOMAIN c.tiles))
Laid(c) ==
    [p \in Placed(c) |-> c.tiles[CHOOSE o \in DOMAIN c.tiles : At(c, o) = p]]

FitsRack(c) == Cardinality(DOMAIN c.tiles) <= RackSize
OnFreeSquares(s, c) == \A p \in Placed(c) : p \in Cells /\ ~Filled(s.board, p)
Connects(s, c) == \E p \in Placed(c) : s.anchor[p]

OpensLongEnough(s, c) == HasTiles(s.board) \/ Cardinality(Placed(c)) >= 2

\* validate_main_word_span.
Solid(s, c) ==
    \A o \in Min(DOMAIN c.tiles) .. Max(DOMAIN c.tiles) :
        o \in DOMAIN c.tiles \/ Filled(s.board, At(c, o))

\* The main word, from extend_start to extend_end.
MainLength(s, c) ==
    LET d == c.direction
    IN  Before(s.board, FirstSquare(c), d) + (Max(DOMAIN c.tiles) - Min(DOMAIN c.tiles)) + 1
            + After(s.board, LastSquare(c), d)
MainCell(s, c, i) ==
    Step(FirstSquare(c), c.direction, i - 1 - Before(s.board, FirstSquare(c), c.direction))
OnBoard(s, c, p) == IF p \in Placed(c) THEN Laid(c)[p] ELSE s.board[p]
\* Its characters, each of which is a letter of its own.
MainWord(s, c) ==
    Spelling([i \in 1 .. MainLength(s, c) |-> OnBoard(s, c, MainCell(s, c, i)).letter])

\* Mutant: cross words are not looked at.
AllowsAny(check, l) == TRUE

Allows(check, l) == l \in check.allowed

\* perpendicular_score.
CrossScore(check, tile) ==
    IF tile.blank
    THEN IF tile.letter \in check.allowed THEN check.blankScore ELSE 0
    ELSE check.scores[tile.letter]

Valid(s, c) ==
    /\ FitsRack(c) /\ OnFreeSquares(s, c) /\ Connects(s, c) /\ OpensLongEnough(s, c)
    /\ Solid(s, c)
    /\ \A p \in Placed(c) : Allows(s.cross[p][c.direction], Laid(c)[p].letter)
    /\ HasWord(WordList, MainWord(s, c))

Score(s, c) ==
    LET premium(p) == IF p \in Placed(c) THEN LetterPremium[p] ELSE 1
        main == Total([i \in 1 .. MainLength(s, c) |->
                          Worth(OnBoard(s, c, MainCell(s, c, i))) * premium(MainCell(s, c, i))])
        crossing ==
            Total([p \in Placed(c) |-> CrossScore(s.cross[p][c.direction], Laid(c)[p])])
        bingo == IF Cardinality(Placed(c)) = RackSize THEN BingoBonus ELSE 0
    IN  main * Multiplied([p \in Placed(c) |-> WordPremium[p]]) + crossing + bingo

\* apply_move of a validated candidate.
Filling(s, c) == [p \in Cells |-> OnBoard(s, c, p)]

Play(c) ==
    /\ Valid(Here, c)
    /\ board' = Filling(Here, c)
    /\ anchor' = Anchors(board')
    /\ cross' = CrossNear(board', Placed(c))

-----------------------------------------------------------------------------
(* What travels.  On the wire and in a snapshot a letter is its            *)
(* characters, and the squares of the board are in one row; the premiums   *)
(* are constants here.                                                     *)

\* to_dto_letter, and to_letter: the letter with exactly these characters.
Text(l) == Grapheme[l]
ToLetter(text) ==
    Alphabet[Min({i \in DOMAIN Alphabet : Grapheme[Alphabet[i]] = text})]

NoText == <<>>
BoardDto(b) ==
    [i \in 1 .. Width * Height |->
        LET tile == b[<<(i - 1) % Width, (i - 1) \div Width>>]
        IN  IF tile = Free THEN [text |-> NoText, blank |-> FALSE]
            ELSE [text |-> Text(tile.letter), blank |-> tile.blank]]
BoardFromDto(dto) ==
    [p \in Cells |->
        LET cell == dto[p[2] * Width + p[1] + 1]
        IN  IF cell.text = NoText THEN Free
            ELSE [letter |-> ToLetter(cell.text), blank |-> cell.blank]]

TileDto(tile) == [text |-> Text(tile.letter), blank |-> tile.blank]
TileFromDto(dto) == [letter |-> ToLetter(dto.text), blank |-> dto.blank]
CandidateDto(c) == [c EXCEPT !.tiles = [o \in DOMAIN c.tiles |-> TileDto(c.tiles[o])]]
CandidateFromDto(dto) ==
    [dto EXCEPT !.tiles = [o \in DOMAIN dto.tiles |-> TileFromDto(dto.tiles[o])]]

\* What a move is worth, or that it is illegal (preview_move, of the server).
Illegal == -1
Verdict(s, c) == IF Valid(s, c) THEN Score(s, c) ELSE Illegal

\* compute_client_preview: on the board it was sent, with a cache of its own, of
\* the move it is about to send.
ClientPosition(boardDto) == FromBoard(BoardFromDto(boardDto))
Preview(client, candidateDto) == Verdict(client, CandidateFromDto(candidateDto))

\* The game is loaded from its last snapshot.
Reload ==
    /\ board' = BoardFromDto(BoardDto(board))
    /\ anchor' = Anchors(board')
    /\ cross' = CrossChecks(board')

TilesOn(b) == Cardinality({p \in Cells : Filled(b, p)})
PlaceTiles ==
    \E c \in Candidates :
        /\ TilesOn(board) + Cardinality(DOMAIN c.tiles) <= MaxTiles
        /\ Play(c)

Next == PlaceTiles \/ Reload

Spec == Init /\ [][Next]_vars

-----------------------------------------------------------------------------
(* What the rules of the game say, without a cache.                        *)

WordAt(b, p, d) == WordWith(b, p, d, b[p].letter)
\* On the board after the move the whole row through the tiles is in one word.
Straight(b, c) == Placed(c) \subseteq Run(b, FirstSquare(c), c.direction)

Legal(c) ==
    /\ Placed(c) \subseteq Cells /\ \A p \in Placed(c) : board[p] = Free
    /\ Cardinality(Placed(c)) <= RackSize
    /\ LET after == Filling(Here, c)
       IN  /\ Straight(after, c)
           /\ IF HasTiles(board)
              THEN \E p \in Placed(c) : Touches(board, p)
              ELSE Center \in Placed(c) /\ Cardinality(Placed(c)) >= 2
           /\ WordAt(after, FirstSquare(c), c.direction) \in Playable
           /\ \A p \in Placed(c), d \in Directions :
                 Cardinality(Run(after, p, d)) >= 2 => WordAt(after, p, d) \in Playable

\* The words on the board after the move that were not there before.
WordsFormed(c) ==
    LET after == Filling(Here, c)
    IN  {WordAt(after, FirstSquare(c), c.direction)} \cup
            {WordAt(after, p, Perpendicular(c.direction)) : p \in
                {q \in Placed(c) : Cardinality(Run(after, q, Perpendicular(c.direction))) >= 2}}

WordScore(b, c, run) ==
    Total([p \in run |-> Worth(b[p]) * IF p \in Placed(c) THEN LetterPremium[p] ELSE 1])
        * Multiplied([p \in run \cap Placed(c) |-> WordPremium[p]])

LegalScore(c) ==
    LET after == Filling(Here, c)
        crossing == {p \in Placed(c) :
                        Cardinality(Run(after, p, Perpendicular(c.direction))) >= 2}
    IN  WordScore(after, c, Run(after, FirstSquare(c), c.direction))
        + Total([p \in crossing |->
                   WordScore(after, c, Run(after, p, Perpendicular(c.direction)))])
        + IF Cardinality(Placed(c)) = RackSize THEN BingoBonus ELSE 0

-----------------------------------------------------------------------------
(* Properties.                                                             *)

TypeOK ==
    /\ board \in [Cells -> Tiles \cup {Free}]
    /\ anchor \in [Cells -> BOOLEAN]
    /\ \A p \in Cells : anchor[p] => board[p] = Free
    /\ \A p \in Cells, d \in Directions :
          /\ cross[p][d].allowed \subseteq Letters
          /\ cross[p][d].blankScore \in Nat
          /\ \A l \in Letters : cross[p][d].scores[l] \in Nat

\* recompute_cross_checks_near: what a move leaves in the cache of every free
\* square is what a full sweep of the board would put there, over any
\* sequence of moves.
CacheIsExact ==
    \A p \in Cells : board[p] = Free =>
        \A d \in Directions : cross[p][d] = CrossCheck(board, p, d)

\* The dictionary finds the words of its list and no others, all of them longer
\* than one letter, whatever is spelt.
FindsTheList(longest) ==
    (\A w \in Playable : Len(w) >= 2) /\ FindsTheWords(WordList, Playable, longest)

\* Every list that can be indexed, whatever the sizes at which the dictionary goes
\* over from the index to a range, and from bisecting the range to scanning it:
\* what one spells is found if and only if it is in the list
\* (TieredDictionary::from_encoded, advance, contains), there and in the
\* reference; and so for the list of the rules.  Looked at on the empty board.
EveryListIsFound ==
    (\A p \in Cells : board[p] = Free) =>
    FindsTheList(Longest) /\ \A words \in SUBSET Universe :
        /\ Spellable(words) => ReferenceFinds(Dictionary(words, 1, 0), words, Longest)
        /\ \A size \in Sizes : Indexable(words, size[1]) =>
              \A dict \in {Dictionary(words, size[1], size[2])} :
                  FindsTheWords(dict, words, Longest)

\* validate_move accepts exactly the legal moves, and scores them as the rules
\* do, word by word; and what the client works out for itself before it sends a
\* move is what the server will say.
JudgesByTheRules ==
    \A c \in Candidates, client \in {ClientPosition(BoardDto(board))} :
        LET verdict == IF Legal(c) THEN LegalScore(c) ELSE Illegal
        IN  Verdict(Here, c) = verdict /\ Preview(client, CandidateDto(c)) = verdict

=============================================================================

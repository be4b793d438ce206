------------------------------- MODULE Engine -------------------------------
(***************************************************************************)
(* The machine player (engine-core) and the move generator it takes its    *)
(* moves from (rules-shared/src/generate.rs).  The generator fills the     *)
(* free squares of a lane from every anchor, and gives up a lane as soon   *)
(* as the dictionary or a cross-check says that nothing can come of it;    *)
(* the engine plays the highest-scoring move of those, unless it forms a   *)
(* word of the greylist.                                                   *)
(***************************************************************************)
EXTENDS Rules

CONSTANTS
    Racks,          \* bound: the racks tried
    Greylists       \* bound: the greylists tried

Rack == [counts : [Letters -> Nat], blanks : Nat]
ASSUME EngineAssumption == Racks \subseteq Rack

-----------------------------------------------------------------------------
(* The rack.                                                               *)

Has(rack, tile) ==
    IF tile.blank THEN rack.blanks > 0 ELSE rack.counts[tile.letter] > 0

\* consume_tile, of a tile the rack has.
Consume(rack, tile) ==
    IF tile.blank THEN [rack EXCEPT !.blanks = @ - 1]
    ELSE [rack EXCEPT !.counts[tile.letter] = @ - 1]

\* validate_rack_usage: every tile of the move is taken from the rack in turn.
Uses(rack, c) ==
    /\ \A l \in Letters :
         Cardinality({o \in DOMAIN c.tiles : c.tiles[o] = [letter |-> l, blank |-> FALSE]})
             <= rack.counts[l]
    /\ Cardinality({o \in DOMAIN c.tiles : c.tiles[o].blank}) <= rack.blanks

-----------------------------------------------------------------------------
(* enumerate_legal_moves.                                                  *)

\* Mutant: the search starts from the empty word.
SeedNothing(s, p, d) == Walk(WordList, <<>>)

\* seed_cursor: the letters that stand directly before the anchor.
Seed(s, p, d) == Walk(WordList, LettersBefore(s.board, p, d))

\* available_tiles_for_crosscheck: letters, then blanks, in the order of the
\* alphabet.
AvailableAs(blank, rack, check) ==
    FlattenSeq([i \in DOMAIN Alphabet |->
        LET tile == [letter |-> Alphabet[i], blank |-> blank]
        IN  IF Allows(check, tile.letter) /\ Has(rack, tile) THEN <<tile>> ELSE <<>>])
Available(rack, check) == AvailableAs(FALSE, rack, check) \o AvailableAs(TRUE, rack, check)

\* A call of expand_lane: the tiles placed so far, what is left of the rack, and
\* where the dictionary is; or, once found, only a move.
Call(tiles, rack, step) == [found |-> FALSE, tiles |-> tiles, rack |-> rack, step |-> step]
WithTile(tiles, k, tile) ==
    [o \in DOMAIN tiles \cup {k} |-> IF o = k THEN tile ELSE tiles[o]]
MoveOf(lane, call) == [lane EXCEPT !.tiles = call.tiles]

MovesAlong(lane, calls) == [i \in DOMAIN calls |-> MoveOf(lane, calls[i])]

\* What a call finds, k squares on from the anchor.  The placements are looked at
\* on the square after the last tile, so never those that end at the edge of the
\* board.
FoundAt(s, rack, lane, call) ==
    IF call.tiles # <<>> /\ Uses(rack, MoveOf(lane, call)) /\ Valid(s, MoveOf(lane, call))
    THEN <<[call EXCEPT !.found = TRUE]>>
    ELSE <<>>

\* The calls it makes in turn, for the next square.
CallOn(lane, k, tiles, rack, step) ==
    IF step = Stuck \/ At(lane, k + 1) \notin Cells THEN <<>> ELSE <<Call(tiles, rack, step)>>
Placing(lane, k, call, choices) ==
    FlattenSeq([i \in DOMAIN choices |->
        CallOn(lane, k, WithTile(call.tiles, k, choices[i]), Consume(call.rack, choices[i]),
               Advance(WordList, call.step, choices[i].letter))])
CallsFrom(s, lane, k, call) ==
    LET p == At(lane, k)
    IN  IF Cardinality(DOMAIN call.tiles) >= RackSize THEN <<>>
        ELSE IF Filled(s.board, p)
             THEN CallOn(lane, k, call.tiles, call.rack,
                         Advance(WordList, call.step, s.board[p].letter))
             ELSE Placing(lane, k, call, Available(call.rack, s.cross[p][lane.direction]))

\* In the place of each call, what it finds and then the calls it makes.
Expanded(s, rack, lane, k, call) ==
    IF call.found THEN <<call>>
    ELSE FoundAt(s, rack, lane, call) \o CallsFrom(s, lane, k, call)
Across(s, rack, lane, k, calls) ==
    FlattenSeq([i \in DOMAIN calls |-> Expanded(s, rack, lane, k, calls[i])])

\* expand_lane, square by square: in the end the moves stand as they are found.
ExpandLane(s, rack, lane, seed) ==
    LET through[k \in Offsets] ==
            Across(s, rack, lane, k,
                   IF k = 0 THEN <<Call(<<>>, rack, seed)>> ELSE through[k - 1])
    IN  MovesAlong(lane, through[Max(Offsets)])

\* The lanes: every free anchor, row by row, in both directions.
Lanes(s) ==
    FlattenSeq([i \in 1 .. Width * Height |->
        LET p == <<(i - 1) % Width, (i - 1) \div Width>>
        IN  IF Filled(s.board, p) \/ ~s.anchor[p] THEN <<>>
            ELSE <<[start |-> p, direction |-> "horizontal", tiles |-> <<>>],
                   [start |-> p, direction |-> "vertical", tiles |-> <<>>]>>])
MovesIn(s, rack, lane, seed) ==
    IF seed = Stuck THEN <<>> ELSE ExpandLane(s, rack, lane, seed)

\* Each move once, where it was first found.
FirstOf(moves) ==
    FlattenSeq([i \in DOMAIN moves |->
        IF \E j \in 1 .. i - 1 : moves[j] = moves[i] THEN <<>> ELSE <<moves[i]>>])

LegalMoves(s, rack) ==
    LET lanes == Lanes(s)
    IN  FirstOf(FlattenSeq([i \in DOMAIN lanes |->
            MovesIn(s, rack, lanes[i], Seed(s, lanes[i].start, lanes[i].direction))]))

-----------------------------------------------------------------------------
(* The greedy engine.                                                      *)

\* The words a move forms: the preview's main word and cross words.
WordsOf(s, c) ==
    {MainWord(s, c)} \cup
        {WordWith(s.board, p, Perpendicular(c.direction), Laid(c)[p].letter) :
            p \in {q \in Placed(c) : s.cross[q][c.direction].constrained}}
Avoided(s, c, greylist) == WordsOf(s, c) \cap (greylist \cup Denylist) # {}

Pass == [score |-> Illegal, move |-> <<>>]

\* best_move, over the moves enumerated: of the best, the first.
Better(s, best, c, greylist) ==
    IF best.score >= Score(s, c) \/ Avoided(s, c, greylist) THEN best
    ELSE [score |-> Score(s, c), move |-> c]
BestMove(s, moves, greylist) ==
    LET best[n \in 0 .. Len(moves)] ==
            IF n = 0 THEN Pass ELSE Better(s, best[n - 1], moves[n], greylist)
    IN  best[Len(moves)]

\* suggest_move plays for a person, who may use any word.
Suggestion(s, moves) == BestMove(s, moves, {})

-----------------------------------------------------------------------------
(* What it should choose among.                                            *)

\* The moves of a rack that fill every free square from an anchor on and do not
\* end at the edge.
InLanes(s, rack) ==
    LET tiles == {t \in [letter : Letters, blank : BOOLEAN] : Has(rack, t)}
        lanes == [start : {p \in Cells : s.anchor[p]}, direction : Directions]
        offsets == {O \in SUBSET Offsets : 0 \in O /\ Cardinality(O) <= RackSize}
        fitting(l) == {O \in offsets :
            /\ \A k \in 0 .. Max(O) : k \in O <=> ~Filled(s.board, At(l, k))
            /\ At(l, Max(O) + 1) \in Cells}
        moves(l) == UNION {{[start |-> l.start, direction |-> l.direction, tiles |-> t] :
                             t \in [O -> tiles]} : O \in fitting(l)}
    IN  {c \in UNION {moves(l) : l \in lanes} : Uses(rack, c)}

Best(choice, chosen) ==
    IF choice = {} THEN chosen = Pass
    ELSE /\ chosen.move \in choice /\ chosen.score = LegalScore(chosen.move)
         /\ \A c \in choice : LegalScore(c) <= chosen.score

\* The engine plays a move that the rules allow with its rack, that forms no
\* word of the greylist, not even across, and that no other such move in a
\* lane outscores; it passes only if there is none.  So cutting a lane short,
\* by prefix or by cross-check, loses no move, and declining a word does not
\* lose the move that comes next (best_move, expand_lane).  What is suggested to
\* a person is the best with any word.
EnginePlaysTheBest ==
    \A rack \in Racks :
      \A moves \in {LegalMoves(Here, rack)}, open \in {{c \in InLanes(Here, rack) : Legal(c)}} :
          /\ Best(open, Suggestion(Here, moves))
          /\ \A greylist \in Greylists :
               Best({c \in open : WordsFormed(c) \cap greylist = {}},
                    BestMove(Here, moves, greylist))
=============================================================================

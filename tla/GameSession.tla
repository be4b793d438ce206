---------------------------- MODULE GameSession ----------------------------
(***************************************************************************)
(* One game's in-memory state machine: the GameSession of                  *)
(* crates/server-game/src/game_state.rs.  Every operation here is one      *)
(* method of GameSession; the server calls each of them under the write    *)
(* lock of AppState::games, so a method is one atomic step.                *)
(*                                                                         *)
(* Abstracted: tiles are tokens with no letters (the rules engine decides  *)
(* which plays are legal and what they score; a play here is any non-empty *)
(* part of the rack with any score of PlayScores); shuffling is a free     *)
(* choice of what is drawn; the clock is a free choice of when the move    *)
(* time limit has passed.  The roster is fixed (module Lobby changes it).  *)
(***************************************************************************)
EXTENDS Integers, FiniteSets, Sequences, FiniteSetsExt

CONSTANTS
    SeatCount,      \* number of seats; they are numbered from 0
    Tiles,          \* the tiles of the variant's distribution
    RackSize,       \* VariantRules::rack_size
    RackValue,      \* the face value of any set of tiles
    PlayScores,     \* the scores a legal play may earn
    ScorelessLimit, \* SCORELESS_TURN_LIMIT
    Players,        \* player accounts
    Holder,         \* Holder[s]: the player of seat s, or NoPlayer
    NoPlayer,       \* an engine seat's holder
    Creator,        \* the game's creator_player_id
    MaxChats        \* bound on the chat messages posted

NoSeat == -1
Seats == 0 .. SeatCount - 1

(* GAME-3: start_game and create_game both refuse fewer than two seats.    *)
ASSUME SeatsAssumption == SeatCount \in Nat /\ SeatCount >= 2
ASSUME TilesAssumption == IsFiniteSet(Tiles) /\ RackSize \in Nat \ {0}
ASSUME ValueAssumption ==
    /\ RackValue \in [SUBSET Tiles -> Nat]
    /\ RackValue[{}] = 0
    /\ PlayScores \subseteq Nat
ASSUME LimitAssumption == ScorelessLimit \in Nat \ {0} /\ MaxChats \in Nat
ASSUME HolderAssumption ==
    /\ Holder \in [Seats -> Players \cup {NoPlayer}]
    /\ NoPlayer \notin Players
    /\ Creator \in Players

VARIABLES
    status,      \* GameStatus
    current,     \* current_seat
    turn,        \* turn_number
    resigned,    \* resigned[s]: the seat has left the game
    rack,        \* rack[s]: the tiles on seat s's rack
    bag,         \* the tiles in the bag
    board,       \* the tiles on the board
    score,       \* score[s]
    scoreless,   \* consecutive_scoreless_turns
    winner,      \* winner_seat, NoSeat for None
    bonus,       \* final_bonus_seat and final_bonus_points
    exits,       \* the exit records of `moves`, in order
    records,     \* the highest move_number so far
    hidden,      \* the removed_by_player flags set, and removed_by_creator
    chats,       \* number of chat messages
    version      \* GameSession::version

tableVars == <<rack, bag, board>>
turnVars == <<status, current, turn, winner>>
vars == <<status, current, turn, resigned, rack, bag, board, score, scoreless,
          winner, bonus, exits, records, hidden, chats, version>>

Statuses == {"Waiting", "Active", "Finished", "Aborted"}
Over == status \in {"Finished", "Aborted"}
ExitKinds == {"resign", "force_resign", "timeout"}
NoBonus == [seat |-> NoSeat, points |-> 0]

Init ==
    /\ status = "Waiting"
    /\ current = 0
    /\ turn = 0
    /\ resigned = [s \in Seats |-> FALSE]
    /\ rack = [s \in Seats |-> {}]
    /\ bag = Tiles
    /\ board = {}
    /\ score = [s \in Seats |-> 0]
    /\ scoreless = 0
    /\ winner = NoSeat
    /\ bonus = NoBonus
    /\ exits = << >>
    /\ records = 0
    /\ hidden = {}
    /\ chats = 0
    /\ version = 0

-----------------------------------------------------------------------------
(* Whose turn it is, and when nobody is left to take one.                  *)

\* The seats still playing when the seats marked in `out` have left.
Remaining(out) == {s \in Seats : ~out[s]}

\* finish_if_one_or_fewer_active's test, without counting.
FewLeft(out) == \A s, t \in Remaining(out) : s = t

\* How many seats clockwise t sits from s, a full turn for s itself.
Distance(s, t) == IF t > s THEN t - s ELSE t - s + SeatCount

\* Mutant: seats that left are not skipped.
NextSeatNoSkip(s, out) == (s + 1) % SeatCount

\* The first seat clockwise of s that has not left.
NextSeat(s, out) ==
    CHOOSE n \in Remaining(out) :
        \A t \in Remaining(out) : Distance(s, n) <= Distance(s, t)

\* The only seat left wins whatever the scores are.
LastStanding(out) ==
    IF Remaining(out) = {} THEN NoSeat ELSE CHOOSE s \in Remaining(out) : TRUE

FinishLastStanding(out) ==
    /\ status' = "Finished"
    /\ winner' = LastStanding(out)
    /\ UNCHANGED <<current, turn>>

AdvanceTurn(out) ==
    IF FewLeft(out)
    THEN FinishLastStanding(out)
    ELSE /\ current' = NextSeat(current, out)
         /\ turn' = turn + 1
         /\ UNCHANGED <<status, winner>>

\* Mutant: the turn moves even when the seat leaving is not on turn.
ExitAlwaysAdvances(s, out) == AdvanceTurn(out)

\* What seat s leaving does to the turn order, s already marked in `out`.
HandleSeatExit(s, out) ==
    IF FewLeft(out)
    THEN FinishLastStanding(out)
    ELSE IF s = current THEN AdvanceTurn(out) ELSE UNCHANGED turnVars

\* Mutant: the exit itself is counted as the only change.
ExitNeverMoves(s, out) == FALSE

\* Whether HandleSeatExit(s, out) bumps the version.
ExitMoves(s, out) == FewLeft(out) \/ s = current

-----------------------------------------------------------------------------
(* Tiles and scores.                                                       *)

\* Drawing `drawn` from `from` onto a rack holding `kept` is what
\* refill_rack does: it stops when the rack is full or the bag is empty.
Refills(kept, from, drawn) ==
    /\ Cardinality(kept \cup drawn) <= RackSize \/ drawn = {}
    /\ Cardinality(kept \cup drawn) >= RackSize \/ drawn = from

\* The opening deal: each rack in seat order takes what the ones before left.
Deals(deal) ==
    /\ \A s, t \in Seats : s # t => deal[s] \cap deal[t] = {}
    /\ \A s \in Seats :
          Refills({}, bag \ UNION {deal[t] : t \in 0 .. s - 1}, deal[s])

\* went_out: the refilled rack is empty, which takes an empty bag.
WentOut(kept, drawn) == kept \cup drawn = {}

\* The unique best score among the seats still playing, NoSeat on a tie.
WinnerSeat(out, final) ==
    LET leads(s) == \A t \in Remaining(out) \ {s} : final[s] > final[t]
    IN  IF \E s \in Remaining(out) : leads(s)
        THEN CHOOSE s \in Remaining(out) : leads(s)
        ELSE NoSeat

\* What the seats other than `goer` hold.  The code adds up the racks one by
\* one, which is the same number as long as no tile is on two racks.
OpponentsTotal(racks, goer) ==
    RackValue[UNION {racks[s] : s \in Seats \ {goer}}]

FinalScores(racks, scores, goer) ==
    [s \in Seats |-> scores[s] - RackValue[racks[s]]
                     + IF s = goer THEN OpponentsTotal(racks, goer) ELSE 0]

\* finish_game: the end by going out (goer a seat) or by the scoreless
\* limit (goer = NoSeat), from the racks and scores the last move left.
FinishGame(racks, scores, goer) ==
    /\ status' = "Finished"
    /\ score' = FinalScores(racks, scores, goer)
    /\ winner' = WinnerSeat(resigned, FinalScores(racks, scores, goer))
    /\ bonus' = IF goer = NoSeat
                THEN bonus
                ELSE [seat |-> goer, points |-> OpponentsTotal(racks, goer)]
    /\ UNCHANGED <<current, turn>>

\* Mutants of ReturnRack: the rack is stranded, and the rack is copied.
StrandRack(s) == UNCHANGED tableVars
CopyRack(s) == bag' = bag \cup rack[s] /\ UNCHANGED <<rack, board>>

\* return_rack_to_bag.
ReturnRack(s) ==
    /\ bag' = bag \cup rack[s]
    /\ rack' = [rack EXCEPT ![s] = {}]
    /\ UNCHANGED board

-----------------------------------------------------------------------------
(* The operations.                                                         *)

Start ==
    /\ status = "Waiting"
    /\ \E deal \in [Seats -> SUBSET bag] :
          /\ Deals(deal)
          /\ rack' = deal
          /\ bag' = bag \ UNION {deal[s] : s \in Seats}
    /\ status' = "Active"
    /\ turn' = 1
    /\ current' = 0
    /\ version' = version + 1
    /\ UNCHANGED <<resigned, board, score, scoreless, winner, bonus, exits,
                   records, hidden, chats>>

\* Mutant: a seat with no tiles cannot end its turn.
OnTurnWithTiles(s) == status = "Active" /\ current = s /\ rack[s] # {}

\* ensure_active_turn.
OnTurn(s) == status = "Active" /\ current = s

Place(s) ==
    /\ OnTurn(s)
    /\ \E played \in (SUBSET rack[s]) \ {{}}, drawn \in SUBSET bag,
          points \in PlayScores :
          LET kept == rack[s] \ played
              racks == [rack EXCEPT ![s] = kept \cup drawn]
              scores == [score EXCEPT ![s] = @ + points]
          IN  /\ Refills(kept, bag, drawn)
              /\ rack' = racks
              /\ bag' = bag \ drawn
              /\ board' = board \cup played
              /\ IF WentOut(kept, drawn)
                 THEN FinishGame(racks, scores, s)
                 ELSE /\ score' = scores
                      /\ AdvanceTurn(resigned)
                      /\ UNCHANGED bonus
    /\ scoreless' = 0
    /\ records' = records + 1
    /\ version' = version + 1
    /\ UNCHANGED <<resigned, exits, hidden, chats>>

\* The end of a turn that scored nothing, on the racks it left.
ScorelessTurn(racks) ==
    /\ scoreless' = scoreless + 1
    /\ IF scoreless + 1 >= ScorelessLimit
       THEN FinishGame(racks, score, NoSeat)
       ELSE /\ AdvanceTurn(resigned)
            /\ UNCHANGED <<score, bonus>>
    /\ records' = records + 1
    /\ version' = version + 1
    /\ UNCHANGED <<resigned, exits, hidden, chats>>

\* A player's pass, and the pass an engine that overran its budget makes.
Pass(s) ==
    /\ OnTurn(s)
    /\ ScorelessTurn(rack)
    /\ UNCHANGED tableVars

\* The tiles offered go back before the rack is refilled, so a tile may be
\* drawn straight back.  Nothing requires the offer to be non-empty.
Exchange(s) ==
    /\ OnTurn(s)
    /\ \E offered \in SUBSET rack[s] :
          /\ Cardinality(offered) <= Cardinality(bag)
          /\ \E drawn \in SUBSET (bag \cup offered) :
                LET kept == rack[s] \ offered
                    racks == [rack EXCEPT ![s] = kept \cup drawn]
                IN  /\ Refills(kept, bag \cup offered, drawn)
                    /\ rack' = racks
                    /\ bag' = (bag \cup offered) \ drawn
                    /\ ScorelessTurn(racks)
    /\ UNCHANGED board

\* An exchange naming a tile the rack does not hold is refused, but the
\* tiles named before it have already been consumed from the rack.
ExchangeRefused(s) ==
    /\ OnTurn(s)
    /\ \E consumed \in (SUBSET rack[s]) \ {{}} :
          /\ Cardinality(consumed) + 1 <= Cardinality(bag)
          /\ rack' = [rack EXCEPT ![s] = @ \ consumed]
    /\ UNCHANGED <<status, current, turn, resigned, bag, board, score,
                   scoreless, winner, bonus, exits, records, hidden, chats,
                   version>>

\* finish_via_resignation and the body of apply_move_timeout: the seat is
\* marked, its tiles go back, the exit is recorded, the turn order reacts.
LeaveSeat(s, kind, bump) ==
    LET out == [resigned EXCEPT ![s] = TRUE]
    IN  /\ resigned' = out
        /\ ReturnRack(s)
        /\ exits' = Append(exits, [seat |-> s, kind |-> kind])
        /\ records' = records + 1
        /\ HandleSeatExit(s, out)
        /\ version' = version + bump + (IF ExitMoves(s, out) THEN 1 ELSE 0)
        /\ UNCHANGED <<score, scoreless, bonus, hidden, chats>>

Resign(s) ==
    /\ status = "Active"
    /\ ~resigned[s]
    /\ LeaveSeat(s, "resign", 1)

\* The creator's override; never on a seat of the creator's own.
ForceResign(s) ==
    /\ status = "Active"
    /\ ~resigned[s]
    /\ Holder[s] # Creator
    /\ LeaveSeat(s, "force_resign", 1)

\* The move time limit has passed on the seat on turn.
MoveTimeout(s) ==
    /\ OnTurn(s)
    /\ LeaveSeat(s, "timeout", 0)

\* Mutant: a finished game may be aborted or finished again.
NotAborted == status # "Aborted"

\* The guard abort and admin_force_finish share.
NotEnded == ~Over

AdminForceFinish ==
    /\ NotEnded
    /\ status' = "Finished"
    /\ records' = records + 1
    /\ version' = version + 1
    /\ UNCHANGED <<current, turn, resigned, rack, bag, board, score, scoreless,
                   winner, bonus, exits, hidden, chats>>

Abort ==
    /\ NotEnded
    /\ resigned' = [s \in Seats |-> TRUE]
    /\ status' = "Aborted"
    /\ records' = records + 1
    /\ version' = version + 1
    /\ UNCHANGED <<current, turn, rack, bag, board, score, scoreless, winner,
                   bonus, exits, hidden, chats>>

\* remove_for_player flags the first seat its player holds; a creator with
\* no seat has the flag of the game itself, NoSeat here.
RemovalFlag(p) ==
    IF \E s \in Seats : Holder[s] = p
    THEN CHOOSE s \in Seats :
            Holder[s] = p /\ \A t \in Seats : Holder[t] = p => s <= t
    ELSE NoSeat

\* A second removal would only bump the version again; it is left out.
RemoveForPlayer(p) ==
    /\ Over
    /\ p = Creator \/ \E s \in Seats : Holder[s] = p
    /\ RemovalFlag(p) \notin hidden
    /\ hidden' = hidden \cup {RemovalFlag(p)}
    /\ version' = version + 1
    /\ UNCHANGED <<status, current, turn, resigned, rack, bag, board, score,
                   scoreless, winner, bonus, exits, records, chats>>

\* Chat is open in every status to whoever holds a seat.
PostChatMessage(p) ==
    /\ \E s \in Seats : Holder[s] = p
    /\ chats < MaxChats
    /\ chats' = chats + 1
    /\ version' = version + 1
    /\ UNCHANGED <<status, current, turn, resigned, rack, bag, board, score,
                   scoreless, winner, bonus, exits, records, hidden>>

-----------------------------------------------------------------------------
TurnEnds(s) == Place(s) \/ Pass(s) \/ Exchange(s) \/ MoveTimeout(s)

Next ==
    \/ Start
    \/ \E s \in Seats :
          \/ Place(s)
          \/ Pass(s)
          \/ Exchange(s)
          \/ ExchangeRefused(s)
          \/ Resign(s)
          \/ ForceResign(s)
          \/ MoveTimeout(s)
    \/ AdminForceFinish
    \/ Abort
    \/ \E p \in Players : RemoveForPlayer(p) \/ PostChatMessage(p)

Spec == Init /\ [][Next]_vars

\* Every turn ends: the player moves, or the sweeps' expire_overdue_turns
\* retires the seat once the limit has passed.  Nothing makes a particular
\* move happen, so the fairness is on the disjunction.
FairSpec == Spec /\ WF_vars(\E s \in Seats : TurnEnds(s))

-----------------------------------------------------------------------------
(* Properties.                                                             *)

TypeOK ==
    /\ status \in Statuses
    /\ current \in Seats
    /\ turn \in Nat
    /\ resigned \in [Seats -> BOOLEAN]
    /\ rack \in [Seats -> SUBSET Tiles]
    /\ bag \in SUBSET Tiles
    /\ board \in SUBSET Tiles
    /\ score \in [Seats -> Int]
    /\ scoreless \in Nat
    /\ winner \in Seats \cup {NoSeat}
    /\ bonus \in [seat : Seats \cup {NoSeat}, points : Nat]
    /\ exits \in Seq([seat : Seats, kind : ExitKinds])
    /\ records \in Nat
    /\ hidden \in SUBSET (Seats \cup {NoSeat})
    /\ chats \in 0 .. MaxChats
    /\ version \in Nat

\* A game under way never waits on a seat that has left, and always has a
\* second seat playing: the turn handling of advance_turn and
\* handle_seat_exit under every order of resignations, forced ones (which
\* may hit a seat off turn), timeouts and moves.
TurnIsPlayable ==
    status = "Active" =>
        /\ ~resigned[current]
        /\ ~FewLeft(resigned)

\* "A seat that has left holds no tiles" (return_rack_to_bag), whichever of
\* the two code paths retired it and whatever was dealt afterwards.
DepartedHoldNothing ==
    status # "Aborted" => \A s \in Seats : resigned[s] => rack[s] = {}

\* No tile is in two places: two racks, a rack and the bag, or the board and
\* anywhere else, however racks are returned, exchanged and refilled.
TilesInOnePlace ==
    /\ bag \cap board = {}
    /\ \A s \in Seats : rack[s] \cap (bag \cup board) = {}
    /\ \A s, t \in Seats : s # t => rack[s] \cap rack[t] = {}

\* winner_seat is never a seat that left, and it is either the last one
\* playing or strictly ahead of every other seat still playing, even when a
\* seat that left has the higher score.
WinnerIsPlaying ==
    status = "Finished" /\ winner # NoSeat =>
        /\ ~resigned[winner]
        /\ \A s \in Remaining(resigned) \ {winner} : score[winner] > score[s]

\* Someone goes out only with the bag empty: the rack was refilled before
\* went_out was read, so tiles a leaving seat returned keep the game going.
WentOutEmptiesBag ==
    bonus.seat # NoSeat =>
        /\ status = "Finished"
        /\ bag = {}
        /\ rack[bonus.seat] = {}

\* The score of a seat that has left is final, also through finish_game's
\* loop over every participant.
DepartedScoreIsFinal ==
    [][\A s \in Seats : resigned[s] => score'[s] = score[s]]_vars

\* A game that is over stays as it ended; only its chat, its removal flags
\* and its version still move.
OverIsFinal ==
    [][Over => UNCHANGED <<status, current, turn, resigned, rack, bag, board,
                           score, scoreless, winner, bonus, exits, records>>]_vars

\* Each seat leaves at most once: its exit record, which ranking reads, is
\* the only one it has.
OneExitPerSeat ==
    \A i, j \in DOMAIN exits : exits[i].seat = exits[j].seat => i = j

\* What mark_changed promises, except for racks: any observable change
\* strictly increases the version, or a client discards it as stale.
ChangesMoveVersion ==
    [][version' > version
       \/ /\ version' = version
          /\ UNCHANGED <<status, current, turn, resigned, board, score,
                         winner, bonus, exits, records, chats>>]_vars

\* A game whose turns keep ending is itself over in the end: six scoreless
\* turns in a row, an empty bag, or one seat left.
GameEnds == (status = "Active") ~> Over

\* The inductive invariant: the safety properties above with what they rest
\* on.  A game that has not started is as it was dealt out to be, one that
\* has not finished has no result, and only seats that left have an exit.
WaitingIsFresh ==
    status = "Waiting" => \A s \in Seats : ~resigned[s] /\ rack[s] = {}
NoResultYet == status # "Finished" => winner = NoSeat /\ bonus = NoBonus
ExitsHaveLeft == \A i \in DOMAIN exits : resigned[exits[i].seat]

IInv ==
    /\ TypeOK
    /\ TurnIsPlayable
    /\ DepartedHoldNothing
    /\ TilesInOnePlace
    /\ WinnerIsPlaying
    /\ WentOutEmptiesBag
    /\ OneExitPerSeat
    /\ WaitingIsFresh
    /\ NoResultYet
    /\ ExitsHaveLeft

\* GameSession implements the turn order of TurnTable.
Table ==
    INSTANCE TurnTable WITH
        phase <- IF Over THEN "Over"
                 ELSE IF status = "Active" THEN "Playing" ELSE "Waiting",
        onTurn <- current,
        playing <- Remaining(resigned)

\* The turn passes clockwise among the seats still playing, moves when and
\* only when the seat on turn is done, and a seat that left never returns.
TurnOrder == Table!TableSpec

=============================================================================

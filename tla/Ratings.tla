------------------------------ MODULE Ratings ------------------------------
(***************************************************************************)
(* The rating step of save_game and the outcomes it stores                 *)
(* (crates/server-game/src/stats.rs): games end in any order and with any  *)
(* mix of exits, and each settles once, in the transaction that saves it   *)
(* (module GameStore), which is why settling is one step here.  A game that *)
(* is over may be deleted: the sweep takes row and session at once, the    *)
(* administrator the row first.                                            *)
(*                                                                         *)
(* Abstracted: ratings are integers and the logistic curve is any table    *)
(* Expect whose two ends of a pairing add up to a win; the code computes   *)
(* both in f64.  A seat without a subject is one that has left unranked.   *)
(***************************************************************************)
EXTENDS Integers, Sequences, FiniteSets, FiniteSetsExt, SequencesExt

CONSTANTS
    Games,      \* the games that may end
    Deletable,  \* bound: the results with which a game may be deleted
    Subjects,   \* players and engines
    SeatCount,  \* seats of each game
    Holder,     \* Holder[g][s]: the subject on seat s of game g
    Scores,     \* the scores a seat may end with
    Default,    \* DEFAULT_RATING
    Floor,      \* RATING_FLOOR
    K,          \* RATING_K, in the units of Expect
    Win,        \* the whole of a pairing
    Expect      \* Expect[d]: the expected share of who is d points ahead

Seats == 1 .. SeatCount

ASSUME SeatsAssumption == SeatCount \in Nat /\ SeatCount >= 2
ASSUME HolderAssumption == IsFiniteSet(Games) /\ Holder \in [Games -> [Seats -> Subjects]]
ASSUME RatingAssumption ==
    /\ Default \in Int /\ Floor \in Int /\ Floor <= Default
    /\ Win \in Nat /\ K \in Nat /\ Scores \subseteq Int
    /\ \A d \in DOMAIN Expect : -d \in DOMAIN Expect /\ Expect[d] + Expect[-d] = Win

VARIABLES
    result,   \* result[g]: how g ended, or NoResult
    rating,   \* player_ratings.rating
    rated,    \* player_ratings.games_rated
    history,  \* the rows of rating_history, in order
    kept,     \* games with a row in games
    open,     \* games with a session in memory
    dropping, \* admin_delete_game has deleted the row, not the session
    resaved   \* history: games saved between those two steps, whose row is new

vars == <<result, rating, rated, history, kept, open, dropping, resaved>>

NoResult == [exit |-> << >>, score |-> << >>, move |-> << >>, forced |-> FALSE]

\* How a seat's own last exit move reads (seat_exit), "none" while playing.
Exits == {"none", "resign", "force_resign", "timeout"}

\* The ways a game of this many seats can be over: somebody is left, and
\* those who resigned did so one after the other; an administrator may end a
\* game others have left, while two still play.
Results ==
    {r \in [exit : [Seats -> Exits], score : [Seats -> Scores],
            move : [Seats -> 0 .. SeatCount - 1], forced : BOOLEAN] :
        /\ \E s \in Seats : r.exit[s] = "none"
        /\ \A s \in Seats : r.exit[s] = "resign" <=> r.move[s] # 0
        /\ LET resigned == {s \in Seats : r.exit[s] = "resign"}
           IN  {r.move[s] : s \in resigned} = 1 .. Cardinality(resigned)
        /\ r.forced => Cardinality({s \in Seats : r.exit[s] = "none"}) >= 2}

Init ==
    /\ result = [g \in Games |-> NoResult]
    /\ rating = [p \in Subjects |-> Default]
    /\ rated = [p \in Subjects |-> 0]
    /\ history = << >>
    /\ kept = Games /\ open = Games /\ dropping = {} /\ resaved = {}

-----------------------------------------------------------------------------
(* Ranking.                                                                *)

Ranked(r) == {s \in Seats : r.exit[s] \in {"none", "resign"}}

\* rank_key: finishers by score, above resigners by how late they resigned.
Ahead(r, s, t) ==
    \/ r.exit[s] = "none" /\ r.exit[t] = "resign"
    \/ r.exit[s] = "none" /\ r.exit[t] = "none" /\ r.score[s] > r.score[t]
    \/ r.exit[s] = "resign" /\ r.exit[t] = "resign" /\ r.move[s] > r.move[t]

Share(r, s, t) ==
    IF Ahead(r, s, t) THEN Win ELSE IF Ahead(r, t, s) THEN 0 ELSE Win \div 2

\* Mutant: every seat counts, ranked or not.
StepOfAll(r) == K \div (SeatCount - 1)

\* RATING_K spread over the opponents of a ranked seat.
KStep(r) == K \div (Cardinality(Ranked(r)) - 1)

SeatChange(g, r, s) ==
    KStep(r) * MapThenSumSet(
        LAMBDA t : Share(r, s, t)
                   - Expect[rating[Holder[g][s]] - rating[Holder[g][t]]],
        Ranked(r) \ {s})

SeatsOf(g, r, p) == {s \in Ranked(r) : Holder[g][s] = p}

\* A subject's seats net to one change.
NetChange(g, r, p) ==
    MapThenSumSet(LAMBDA s : SeatChange(g, r, s), SeatsOf(g, r, p))

Rates(r) == ~r.forced /\ Cardinality(Ranked(r)) >= 2

\* The subjects one settlement writes.
Moves(g, r) == IF Rates(r) THEN {Holder[g][s] : s \in Ranked(r)} ELSE {}

After(g, r, p) == Max({Floor, rating[p] + NetChange(g, r, p)})

Row(g, r, p) ==
    [subject |-> p, game |-> g, before |-> rating[p], after |-> After(g, r, p)]

\* settle_ratings, in the save that first finds g finished.
SettleRatings(g, r) ==
    /\ rating' = [p \in Subjects |-> IF p \in Moves(g, r) THEN After(g, r, p)
                                     ELSE rating[p]]
    /\ rated' = [p \in Subjects |-> rated[p] + IF p \in Moves(g, r) THEN 1 ELSE 0]
    /\ history' = history \o SetToSeq({Row(g, r, p) : p \in Moves(g, r)})

Settle(g, r) ==
    /\ result[g] = NoResult
    /\ result' = [result EXCEPT ![g] = r]
    /\ SettleRatings(g, r)
    /\ UNCHANGED <<kept, open, dropping, resaved>>

\* A later save, of a chat message or a removal: the step is taken again only
\* when there is no row to tell that it was taken.
Resave(g) ==
    /\ result[g] # NoResult /\ g \in open \ kept
    /\ SettleRatings(g, result[g])
    /\ kept' = kept \cup {g} /\ resaved' = resaved \cup {g}
    /\ UNCHANGED <<result, open, dropping>>

\* Mutant: a deleted game takes its part of the history with it.
RowDeletedWithHistory(g) ==
    /\ kept' = kept \ {g}
    /\ history' = SelectSeq(history, LAMBDA row : row.game # g)
    /\ UNCHANGED <<rating, rated>>

\* delete_game: the ratings and their history stay.
RowDeleted(g) ==
    /\ kept' = kept \ {g}
    /\ UNCHANGED <<rating, rated, history>>

\* admin_delete_game, the row without the lock and then the session; the sweep
\* of games that were over a week ago holds the lock.
DropRow(g) ==
    /\ result[g] \in Deletable /\ g \in kept \ dropping
    /\ RowDeleted(g)
    /\ dropping' = dropping \cup {g}
    /\ UNCHANGED <<result, open, resaved>>

DropSession(g) ==
    /\ g \in dropping
    /\ dropping' = dropping \ {g} /\ open' = open \ {g}
    /\ UNCHANGED <<result, rating, rated, history, kept, resaved>>

Sweep(g) ==
    /\ result[g] \in Deletable /\ g \in kept \ dropping
    /\ RowDeleted(g)
    /\ open' = open \ {g}
    /\ UNCHANGED <<result, dropping, resaved>>

Next ==
    \E g \in Games :
        \/ \E r \in Results : Settle(g, r)
        \/ Resave(g) \/ DropRow(g) \/ DropSession(g) \/ Sweep(g)

Spec == Init /\ [][Next]_vars

-----------------------------------------------------------------------------
(* compute_participant_outcomes, which every save stores for the game.     *)

Left(r) == {s \in Seats : r.exit[s] # "none"}
BestOf(r, some) == {s \in some : \A t \in some : r.score[s] >= r.score[t]}

\* Mutant: the best score of all seats, those that left included.
OutcomeAmongAll(r, s) ==
    IF s \in Left(r)
    THEN IF r.exit[s] = "timeout" THEN "timeout" ELSE "resigned"
    ELSE IF s \notin BestOf(r, Seats) THEN "loss"
    ELSE IF BestOf(r, Seats) = {s} THEN "win" ELSE "tie"

Outcome(r, s) ==
    IF s \in Left(r)
    THEN IF r.exit[s] = "timeout" THEN "timeout" ELSE "resigned"
    ELSE IF s \notin BestOf(r, Seats \ Left(r)) THEN "loss"
    ELSE IF BestOf(r, Seats \ Left(r)) = {s} THEN "win" ELSE "tie"

\* compute_winner_seat and the last seat standing, on the other side of the
\* code: the seats one of which is strictly ahead.
Leaders(r) ==
    {s \in Seats \ Left(r) :
        \A t \in (Seats \ Left(r)) \ {s} : r.score[s] > r.score[t]}

\* attach_current_ratings: the row of player_ratings, where there is one.
CurrentRating(p) == IF rated[p] = 0 THEN Default ELSE rating[p]

\* get_rating_history: the rows of p, oldest first, by their place in the table.
RatingHistory(p) == {i \in DOMAIN history : history[i].subject = p}

\* get_subject_stats, which counts what the rows still there say of p.
SubjectStats(p) ==
    LET seats == {gs \in kept \X Seats :
                     result[gs[1]] # NoResult /\ Holder[gs[1]][gs[2]] = p}
        count(outcomes) ==
            Cardinality({gs \in seats : Outcome(result[gs[1]], gs[2]) \in outcomes})
    IN  [wins |-> count({"win"}), losses |-> count({"loss"}), ties |-> count({"tie"}),
         timeouts |-> count({"timeout"}), resignations |-> count({"resigned"}),
         rating |-> CurrentRating(p), games_rated |-> rated[p]]

-----------------------------------------------------------------------------
(* Properties.                                                             *)

TypeOK ==
    /\ \A g \in Games : result[g] = NoResult \/ result[g] \in Results
    /\ rating \in [Subjects -> Int]
    /\ \A p \in Subjects : rating[p] >= Floor
    /\ rated \in [Subjects -> Nat]
    /\ history \in Seq([subject : Subjects, game : Games, before : Int, after : Int])
    /\ {kept, open, dropping, resaved} \subseteq SUBSET Games

\* The history is the rating: each point of a subject starts where the one
\* before ended, the last one ends at the current rating, and there is one for
\* each game rated, also when the games are deleted afterwards.  A game has two
\* only when a save came between the two steps of admin_delete_game.
HistoryIsTheRating ==
    \A p \in Subjects :
        LET points == RatingHistory(p)
            Until(some) == IF some = {} THEN Default ELSE history[Max(some)].after
        IN  /\ \A i \in points : history[i].before = Until({j \in points : j < i})
            /\ CurrentRating(p) = Until(points)
            /\ rated[p] = Cardinality(points)
            /\ \A i, j \in points :
                  history[i].game = history[j].game => i = j \/ history[i].game \in resaved

Settling(g) == result[g] = NoResult /\ result'[g] # NoResult
Gain(p) == rating'[p] - rating[p]
Level(g) == \A s, t \in Seats : rating[Holder[g][s]] = rating[Holder[g][t]]

\* RATE-3: a seat forced out or timed out is "no part of anyone else's
\* comparison": with two seats left to rank, equals play for what they play
\* for in a game of two.
AsIfNeverInTheGame ==
    [][\A g \in Games, s, t \in Seats :
          Settling(g) /\ Level(g) /\ Rates(result'[g])
          /\ Ranked(result'[g]) = {s, t} /\ Holder[g][s] # Holder[g][t]
          /\ Ahead(result'[g], s, t) /\ rating'[Holder[g][t]] > Floor
            => Gain(Holder[g][s]) = K * (Win - Expect[0])]_vars

\* Two parts of the code say who won: winner_seat, and the stored outcomes,
\* which the stats count.  They name the same seat, and nobody wins a tie,
\* unless an administrator ended the game: admin_force_finish leaves
\* winner_seat empty.
OneVerdict ==
    /\ \A g \in Games : result[g] # NoResult /\ ~result[g].forced =>
          Leaders(result[g]) = {s \in Seats : Outcome(result[g], s) = "win"}
    /\ \A p \in Subjects : SubjectStats(p).wins =
          Cardinality({g \in kept : \E s \in Seats :
                          /\ result[g] # NoResult /\ Holder[g][s] = p
                          /\ Leaders(result[g]) = {s}})

-----------------------------------------------------------------------------
\* The inductive invariant.

\* A subject without a rated game has the rating of the first day, and every
\* row of the history is of a game that has ended.
RowsComeFromResults ==
    /\ \A p \in Subjects : rated[p] = 0 => rating[p] = Default
    /\ \A i \in DOMAIN history :
          history[i].game \in Games /\ result[history[i].game] # NoResult

IInv ==
    /\ result \in [Games -> Results \cup {NoResult}] /\ rated \in [Subjects -> Nat]
    /\ history \in Seq({history[i] : i \in DOMAIN history}) /\ kept \subseteq Games
    /\ RowsComeFromResults
    /\ HistoryIsTheRating
=============================================================================

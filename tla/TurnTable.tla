----------------------------- MODULE TurnTable -----------------------------
(***************************************************************************)
(* What the turn order of a game promises, and nothing else: seats sit     *)
(* round a table, the turn passes clockwise among those still playing,     *)
(* a seat that leaves is gone for good, and play ends when one is left.    *)
(* GameSession implements it (GameSession!Table).                          *)
(***************************************************************************)
EXTENDS Integers

CONSTANT SeatCount

VARIABLES
    phase,   \* "Waiting", "Playing" or "Over"
    onTurn,  \* the seat to move
    playing  \* the seats still in the game

tableStateVars == <<phase, onTurn, playing>>

Seat == 0 .. SeatCount - 1

\* n is the first playing seat met going clockwise from s.
Follows(n, s, in) ==
    /\ n \in in
    /\ IF n > s
       THEN \A t \in in : ~(s < t /\ t < n)
       ELSE \A t \in in : ~(s < t) /\ ~(t < n)

TableInit ==
    /\ phase = "Waiting"
    /\ onTurn = 0
    /\ playing = Seat

Begin ==
    /\ phase = "Waiting"
    /\ phase' = "Playing"
    /\ onTurn' = 0
    /\ UNCHANGED playing

\* The seat on turn plays: the turn passes on, and only to the next seat.
PassTurn ==
    /\ phase = "Playing"
    /\ Follows(onTurn', onTurn, playing)
    /\ UNCHANGED <<phase, playing>>

\* A seat leaves with at least two staying: the turn moves only if it was its.
LeaveTable(s) ==
    /\ phase = "Playing"
    /\ s \in playing
    /\ playing' = playing \ {s}
    /\ \E a, b \in playing' : a # b
    /\ IF s = onTurn THEN Follows(onTurn', s, playing') ELSE onTurn' = onTurn
    /\ UNCHANGED phase

\* The last seat but one leaves, which ends the game.
LastLeaves(s) ==
    /\ phase = "Playing"
    /\ s \in playing
    /\ playing' = playing \ {s}
    /\ \A a, b \in playing' : a = b
    /\ phase' = "Over"
    /\ UNCHANGED onTurn

\* Any other end: played out, scoreless, aborted (nobody stays) or ended by
\* an administrator.
Close ==
    /\ phase # "Over"
    /\ phase' = "Over"
    /\ playing' \in {playing, {}}
    /\ UNCHANGED onTurn

TableNext ==
    \/ Begin
    \/ PassTurn
    \/ \E s \in Seat : LeaveTable(s) \/ LastLeaves(s)
    \/ Close

TableSpec == TableInit /\ [][TableNext]_tableStateVars

=============================================================================

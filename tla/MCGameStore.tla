---------------------------- MODULE MCGameStore ----------------------------
(* Small instances of GameStore for TLC.                                   *)
EXTENDS GameStore, TLC

CONSTANTS r1, r2, ann

MCRequests == {r1, r2}
MCClients == {ann}
MCRequestSymmetry == Permutations(Requests)

\* Once something is lost, behind decides nothing: it only guards CaughtUp,
\* which then asks nothing, and lost is never taken back.
MCView == <<serverVars, calls, stream, linked, view, replies, crashes, lost,
            IF lost THEN Clients ELSE {c \in Clients : behind[c]}>>
=============================================================================

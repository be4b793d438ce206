------------------------------- MODULE MCScreen -------------------------------
(* Screen for TLC: games are interchangeable. *)
EXTENDS Screen, TLC

Symmetry == Permutations(GameIds)
=============================================================================

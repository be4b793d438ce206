--------------------------- MODULE MCGameSession ---------------------------
(* A small instance of GameSession for TLC.                                *)
EXTENDS GameSession, TLC

CONSTANTS t1, t2, t3, t4, alice, bob, engine

MCTiles4 == {t1, t2, t3, t4}
\* Every tile is worth one point, so tiles are interchangeable.
MCRackValue == [r \in SUBSET Tiles |-> Cardinality(r)]
MCPlayers == {alice, bob}
MCHolder3 == 0 :> alice @@ 1 :> bob @@ 2 :> engine
=============================================================================

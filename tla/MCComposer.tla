------------------------------ MODULE MCComposer ------------------------------
(* Composer for TLC. *)
EXTENDS Composer

CONSTANTS a
MCRacks == {<<a, Blank>>, <<a>>}
MCBoards == {{1}, {1, 3}}
=============================================================================

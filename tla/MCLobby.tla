------------------------------- MODULE MCLobby -------------------------------
(* Small instances of Lobby for TLC.                                       *)
EXTENDS Panel, TLC

CONSTANTS a, b, c, bot, r1, r2, alice, bob, carol

\* a is the creator's seat, b and c human seats.
MCFirst2 == <<a, b>>
MCFirst3 == <<a, b, c>>

MCFormNames == {"", "ann", "bob", OpenSeat}
MCFormHours == {0, 1, 960, 961}
MCFormPlayers == {"bob", OpenSeat}
=============================================================================

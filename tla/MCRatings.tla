----------------------------- MODULE MCRatings -----------------------------
(* Small instances of Ratings for TLC.                                     *)
EXTENDS Ratings, TLC

CONSTANTS g1, g2, ann, ben, bot

\* A game of three subjects, and one where ann plays two seats of one bot.
MCHolder == g1 :> <<ann, ben, bot>> @@ g2 :> <<bot, ann, bot>>

\* Six points ahead is expected to take three quarters of a pairing.
MCExpect == [d \in -60 .. 60 |-> IF d > 6 THEN 3 ELSE IF d < -6 THEN 1 ELSE 2]

\* One game played to its end, and one whose best seat was forced out of it.
MCDeletable ==
    {[exit |-> <<"none", "none", "none">>, score |-> <<1, 0, 0>>, move |-> <<0, 0, 0>>, forced |-> FALSE],
     [exit |-> <<"force_resign", "none", "resign">>, score |-> <<1, 0, 1>>, move |-> <<0, 0, 1>>, forced |-> FALSE]}
=============================================================================

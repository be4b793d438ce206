------------------------------ MODULE MCRules ------------------------------
(* A small board and dictionary for TLC; "ll" is one letter, as in Spanish. *)
EXTENDS Engine

MCGrapheme ==
    [l \in {"a", "l", "ll"} |-> IF l = "ll" THEN <<"l", "l">> ELSE <<l>>]
MCWords == {<<"a", "a">>, <<"a", "l">>, <<"l", "a">>, <<"a", "l", "l">>, <<"a", "l", "a">>}
MCDenylist == {<<"a", "a">>}
MCAlphabet == <<"a", "l", "ll">>
MCTiles ==
    {[letter |-> "a", blank |-> FALSE], [letter |-> "l", blank |-> FALSE],
     [letter |-> "ll", blank |-> TRUE]}
MCValue == [l \in Letters |-> IF l = "a" THEN 1 ELSE 3]
MCCanonical ==
    <<[at |-> <<0, 0>>, premium |-> "doubleLetter"],
      [at |-> <<1, 0>>, premium |-> "tripleWord"],
      [at |-> <<2, 1>>, premium |-> "doubleWord"]>>
MCRack(letters, blanks) ==
    [counts |-> [l \in Letters |-> Cardinality({i \in DOMAIN letters : letters[i] = l})],
     blanks |-> blanks]
MCRacks ==
    {MCRack(<<"a", "ll">>, 0), MCRack(<<"l">>, 1)}
MCGreylists == {{<<"a", "l">>}}
\* Nothing reads the cross-checks of a filled square.
MCView ==
    <<board, anchor,
      [p \in {q \in Cells : board[q] = Free} |-> cross[p]]>>

MCUniverse ==
    {<<"a", "l">>, <<"l", "a">>, <<"a", "l", "a">>, <<"a", "l", "l">>, <<"a", "l", "l", "a">>,
     <<"l", "l", "l">>}

\* The second is no greater, as MAX_SCAN_WORDS is.
MCSizes == {size \in (1 .. 3) \X (0 .. 2) : size[2] <= size[1]}
=============================================================================

--------------------------- MODULE WringAutomata ---------------------------
(***************************************************************************)
(* The Buchi automata Wring gives for the operators of LtlGames: an until  *)
(* is fair where it is fulfilled, and without untils there is no fairness  *)
(* constraint.  A label holds the letters with which a state is entered:   *)
(* whether the operand of the operator holds.                              *)
(***************************************************************************)

AnyLetter == BOOLEAN

AutomataOfWring ==
    [X  |-> [states |-> {"s1", "s2", "s3"}, initial |-> {"s1"},
             trans |-> {<<"s1", "s2">>, <<"s2", "s3">>, <<"s3", "s3">>}, fair |-> {},
             label |-> [s1 |-> AnyLetter, s2 |-> {TRUE}, s3 |-> AnyLetter]],
     G  |-> [states |-> {"s1"}, initial |-> {"s1"}, trans |-> {<<"s1", "s1">>},
             fair |-> {}, label |-> [s1 |-> {TRUE}]],
     F  |-> [states |-> {"s1", "s2", "s3"}, initial |-> {"s1", "s2"},
             trans |-> {<<"s1", "s1">>, <<"s1", "s2">>, <<"s2", "s3">>, <<"s3", "s3">>},
             fair |-> {"s2", "s3"},
             label |-> [s1 |-> AnyLetter, s2 |-> {TRUE}, s3 |-> AnyLetter]],
     GF |-> [states |-> {"s1", "s2"}, initial |-> {"s1", "s2"},
             trans |-> {"s1", "s2"} \X {"s1", "s2"}, fair |-> {"s2"},
             label |-> [s1 |-> AnyLetter, s2 |-> {TRUE}]],
     FG |-> [states |-> {"s1", "s2"}, initial |-> {"s1", "s2"},
             trans |-> {<<"s1", "s1">>, <<"s1", "s2">>, <<"s2", "s2">>}, fair |-> {"s2"},
             label |-> [s1 |-> AnyLetter, s2 |-> {TRUE}]]]
=============================================================================

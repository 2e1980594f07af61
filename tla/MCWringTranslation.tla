------------------------- MODULE MCWringTranslation -------------------------
(* An instance of WringTranslation for TLC.                                *)
EXTENDS WringTranslation, TLC

Atom(id) == <<"ATOM", id>>

Var(id) == <<"DOT", Nil, Atom(id)>>

(* Identifiers with the characters that are escaped, an element of an      *)
(* array, a bit.                                                           *)
Sharp == Var(<<"a", "#", "Z">>)

Zd == Var(<<"Z", "D">>)

Dollar == Var(<<"d", "$", "-", "Z", "e">>)

Element == <<"ARRAY", <<"DOT", Sharp, Atom(<<"Z", "L">>)>>, <<"NUMBER", "1">>>>

Bit == <<"BIT", Dollar, "2">>

(* The identifier xZRZLNilZR, which is read as x.                          *)
Odd == Atom(<<"x", "Z", "R", "Z", "L", "Nil", "Z", "R">>)

Until == <<"UNTIL", <<"NOT", Element>>, Bit>>

Both ==
    <<"AND", <<"OP_GLOBAL", <<"OP_FUTURE", Zd>>>>,
             <<"OP_GLOBAL", <<"OP_FUTURE", <<"OR", Dollar, <<"FALSEEXP">>>>>>>>>>

Never == <<"RELEASES", <<"FALSEEXP">>, <<"OP_NEXT", <<"OR", <<"TRUEEXP">>, Zd>>>>>>

Strange == <<"OP_GLOBAL", Odd>>

MCFormulas == {Until, Both, Never, Strange}

MCWring ==
    (Until :> [states |-> <<"n1", "n2", "n3">>, initial |-> {"n1", "n2"},
               next |-> [n1 |-> <<"n1", "n2">>, n2 |-> <<"n3">>, n3 |-> <<"n3">>],
               label |-> [n1 |-> <<<<Element, FALSE>>>>, n2 |-> <<<<Bit, TRUE>>>>, n3 |-> << >>],
               fair |-> <<<<"n2", "n3">>>>])
    @@ (Both :> [states |-> <<"n1", "n2">>, initial |-> {"n1", "n2"},
                 next |-> [n1 |-> <<"n1", "n2">>, n2 |-> <<"n2", "n1">>],
                 label |-> [n1 |-> <<<<Zd, TRUE>>, <<Dollar, FALSE>>>>,
                            n2 |-> <<<<Dollar, TRUE>>>>],
                 fair |-> <<<<"n1">>, <<"n2">>>>])
    @@ (Never :> [states |-> <<"n1", "n2">>, initial |-> {"n1"},
                  next |-> [n1 |-> <<"n2">>, n2 |-> << >>],
                  label |-> [n1 |-> << >>, n2 |-> <<<<Zd, TRUE>>>>],
                  fair |-> << >>])
    @@ (Strange :> [states |-> <<"n1">>, initial |-> {"n1"}, next |-> [n1 |-> <<"n1">>],
                    label |-> [n1 |-> <<<<Odd, TRUE>>>>], fair |-> << >>])
=============================================================================

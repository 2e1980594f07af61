----------------------------- MODULE WringNames -----------------------------
(***************************************************************************)
(* How LTL formulas and the names of variables travel to Wring and back    *)
(* (gameCheckLTLSF07_gba_wring.c).  Wring only allows letters and digits   *)
(* in names, so that a name, which is a tree, is written with ZL and ZR    *)
(* around its parts, and the characters of an identifier that Wring does   *)
(* not know, and Z, are escaped by a Z.                                    *)
(*                                                                         *)
(* A text is a sequence of characters; a keyword or a number counts as     *)
(* one.  Names are trees <<type, car, cdr>> whose leaves are Nil,          *)
(* identifiers (sequences of characters) and numbers (characters).         *)
(***************************************************************************)
EXTENDS Sequences, Naturals, FiniteSets

LOCAL INSTANCE SequencesExt

Nil == <<"Nil">>

L == <<"Z", "L">>

R == <<"Z", "R">>

Delimited(text) == L \o text \o R

-----------------------------------------------------------------------------
(* Writing.                                                                *)

(* Faulty variant: Z is taken for a letter like any other.                 *)
PlainEscape(c) ==
    CASE c = "$" -> <<"Z", "D">> [] c = "#" -> <<"Z", "K">> [] c = "-" -> <<"Z", "M">>
      [] OTHER -> <<c>>

Escape(c) ==
    CASE c = "$" -> <<"Z", "D">> [] c = "#" -> <<"Z", "K">> [] c = "-" -> <<"Z", "M">>
      [] c = "Z" -> <<"Z", "Z">> [] OTHER -> <<c>>

IdText(id) == FlattenSeq([k \in DOMAIN id |-> Escape(id[k])])

RECURSIVE NameText(_)
NameText(n) ==
    IF n = Nil THEN n
    ELSE Delimited(<<n[1]>>)
         \o CASE n[1] \in {"ARRAY", "DOT"} ->
                     Delimited(NameText(n[2])) \o Delimited(NameText(n[3]))
              [] n[1] = "ATOM" -> Delimited(IdText(n[2])) \o Delimited(NameText(Nil))
              [] n[1] = "BIT" -> Delimited(NameText(n[2])) \o Delimited(<<n[3]>>)
              [] n[1] = "NUMBER" -> Delimited(<<n[2]>>) \o Delimited(NameText(Nil))

UnaryText == [NOT |-> "!", OP_NEXT |-> "X", OP_FUTURE |-> "F", OP_GLOBAL |-> "G"]

BinaryText == [OR |-> "+", AND |-> "*", UNTIL |-> "U", RELEASES |-> "R"]

NameTypes == {"ARRAY", "ATOM", "BIT", "DOT", "NUMBER"}

(* A formula is a constant, a name or <<operator, car>> or                 *)
(* <<operator, car, cdr>>.                                                 *)
RECURSIVE FormulaText(_)
FormulaText(f) ==
    CASE f[1] = "FALSEEXP" -> <<"FALSE">>
      [] f[1] = "TRUEEXP" -> <<"TRUE">>
      [] f[1] \in NameTypes -> NameText(f) \o <<"=", "1">>
      [] f[1] \in DOMAIN UnaryText ->
            <<UnaryText[f[1]], "(">> \o FormulaText(f[2]) \o <<")">>
      [] f[1] \in DOMAIN BinaryText ->
            <<"(">> \o FormulaText(f[2]) \o <<")", BinaryText[f[1]], "(">>
                \o FormulaText(f[3]) \o <<")">>

-----------------------------------------------------------------------------
(* Reading.  The marks of the delimiters are left when characters are      *)
(* unescaped, so that they can no more be told from a Z and an R that were *)
(* a part of the identifier.                                               *)

(* What is escaped by Z and a character; that no other one follows a Z is  *)
(* asserted.                                                               *)
Meant(c) ==
    CASE c = "D" -> <<"$">> [] c = "K" -> <<"#">> [] c = "M" -> <<"-">> [] c = "Z" -> <<"Z">>
      [] c \in {"L", "R"} -> <<"Z", c>> [] OTHER -> <<"assert">>

RECURSIVE Unescaped(_)
Unescaped(text) ==
    CASE text = << >> -> << >>
      [] text # << >> /\ Head(text) # "Z" -> <<Head(text)>> \o Unescaped(Tail(text))
      [] text # << >> /\ Head(text) = "Z" -> Meant(text[2]) \o Unescaped(Tail(Tail(text)))

At(s, k, part) == k + Len(part) - 1 <= Len(s) /\ SubSeq(s, k, k + Len(part) - 1) = part

(* Nodes are read from position k, and with the position after them.       *)
Read(n, k) == [ok |-> TRUE, node |-> n, next |-> k]

(* Reading may fail with an error, or with an assertion.                   *)
Failure(outcome) == [ok |-> FALSE, outcome |-> outcome]

Error == Failure("failed")

(* Everything up to the first ZR, in a ZL and that ZR.                     *)
ReadText(s, k) ==
    LET ends == {e \in k + 2 .. Len(s) : At(s, e, R)}
        end == CHOOSE e \in ends : \A d \in ends : e <= d
    IN  IF ~At(s, k, L) \/ ends = {} THEN Error ELSE Read(SubSeq(s, k + 2, end - 1), end + 2)

(* A number, up to the first Z, which must be that of a ZR.                *)
ReadNumber(s, k) ==
    IF /\ At(s, k, L) /\ At(s, k + 3, R) /\ s[k + 2] \in {"1", "2"}
    THEN Read(s[k + 2], k + 5) ELSE Error

RECURSIVE ReadName(_, _)

ReadDelimited(s, k) ==
    LET inner == ReadName(s, k + 2)
    IN  IF ~At(s, k, L) THEN Error
        ELSE IF ~inner.ok THEN inner
        ELSE IF ~At(s, inner.next, R) THEN Error
        ELSE Read(inner.node, inner.next + 2)

(* Only some names have the right part Nil, and only some may have it as   *)
(* their left part.                                                        *)
Fits(type, left, right) ==
    /\ type \in {"ATOM", "NUMBER"} => right = Nil
    /\ type = "BIT" => left # Nil

ReadName(s, k) ==
    LET after == k + 5
        type == CHOOSE t \in NameTypes : At(s, k, Delimited(<<t>>))
        left == CASE type = "ATOM" -> ReadText(s, after)
                  [] type = "NUMBER" -> ReadNumber(s, after)
                  [] OTHER -> ReadDelimited(s, after)
        right == IF type = "BIT" THEN ReadNumber(s, left.next) ELSE ReadDelimited(s, left.next)
    IN  IF At(s, k, Nil) THEN Read(Nil, k + 1)
        ELSE IF ~At(s, k, L) THEN Error
        ELSE IF \A t \in NameTypes : ~At(s, k + 2, <<t>>) THEN Failure("aborted")
        ELSE IF \A t \in NameTypes : ~At(s, k, Delimited(<<t>>)) THEN Error
        ELSE IF ~left.ok THEN left
        ELSE IF ~right.ok THEN right
        ELSE IF ~Fits(type, left.node, right.node) THEN Error
        ELSE Read(IF type \in {"ATOM", "NUMBER"}
                  THEN <<type, left.node>> ELSE <<type, left.node, right.node>>, right.next)

(* The name in a literal; what follows a complete name is not looked at.   *)
Decoded(text) ==
    IF "assert" \in ToSet(Unescaped(text)) THEN Failure("aborted")
    ELSE ReadName(Unescaped(text), 1)

(* The names that survive the trip: no identifier contains a Z and an R.   *)
RECURSIVE HasZR(_)
HasZR(n) ==
    CASE n = Nil \/ n[1] = "NUMBER" -> FALSE
      [] n[1] = "ATOM" -> \E k \in DOMAIN n[2] : At(n[2], k, R)
      [] n[1] = "BIT" -> HasZR(n[2])
      [] n[1] \in {"ARRAY", "DOT"} -> HasZR(n[2]) \/ HasZR(n[3])
=============================================================================

-------------------------- MODULE MCRegexConversion --------------------------
(***************************************************************************)
(* Every DFA of two states over two symbols, some of three; and texts: all *)
(* short ones, expressions of two operators one below the other, and those *)
(* of the tests.                                                           *)
(***************************************************************************)
EXTENDS RegexConversion

CONSTANTS a, b, c, n, newline, return, end

TwoStates == [states : {{0, 1}}, delta : [{0, 1} \X Symbol -> {0, 1}],
              start : {0}, final : SUBSET {0, 1}]

\* b walks a cycle of three states.
ThreeStates ==
  {[states |-> 0 .. 2, start |-> 0, final |-> F,
    delta |-> [x \in (0 .. 2) \X Symbol |-> IF x[2] = b THEN (x[1] + 1) % 3 ELSE f[x[1]]]] :
     f \in [0 .. 2 -> 0 .. 2], F \in {{0}, {1}, {0, 2}}}

MCDFAs == TwoStates \cup ThreeStates

MCCodes ==
  <<newline, return, "(", ")", "*", "+", "-", ".", "?", "[", "\\", "]", "^", a, b, c,
    n, "|">>

MCEscapes == n :> newline
MCBreaks == {newline, return}

\* The alphabet of the tests, another one of its name with a gap in it, one with
\* characters the syntax uses, and one "." has nothing to stand for in.
AB == [name |-> "ab_set", symbols |-> {a, b}, ascii |-> FALSE]
AC == [name |-> "ab_set", symbols |-> {a, c}, ascii |-> FALSE]
Ascii == [name |-> "printable-ASCII", symbols |-> {"(", "-", "\\", "]", a, n}, ascii |-> TRUE]
Ends == [name |-> "ends", symbols |-> {newline, return, n}, ascii |-> TRUE]
MCAlphabets == {AB, AC, Ascii, Ends}

-----------------------------------------------------------------------------
Short == BoundedSeq({a, b, "(", ")", "*", "|", "[", "]", "^", "\\"}, 3)

\* What is between the brackets of a class.
Classes == {<<"[">> \o w \o <<"]">> : w \in BoundedSeq({a, c, n, "-", "^", "\\"}, 3)}

Group(w) == <<"(">> \o w \o <<")">>
Plus(w) == Append(Group(w), "+")
Optional(w) == Append(Group(w), "?")
Starred(w) == Append(Group(w), "*")
Either(v, w) == Group(v \o <<"|">> \o w)

Operands == {<<a>>, <<b>>, <<"(", ")">>}
OneOperator ==
  Operands \cup {Starred(t) : t \in Operands} \cup {Plus(t) : t \in Operands}
    \cup {Either(t[1], t[2]) : t \in Operands \X Operands}
    \cup {t[1] \o t[2] : t \in Operands \X Operands}
Beside == Operands \cup {<<a, "*">>, <<"(", a, b, ")">>}
TwoOperators ==
  {Starred(t) : t \in OneOperator} \cup {Optional(t) : t \in OneOperator}
    \cup {Either(t[1], t[2]) : t \in (OneOperator \X Beside) \cup (Beside \X OneOperator)}
    \cup {t[1] \o t[2] : t \in (OneOperator \X Beside) \cup (Beside \X OneOperator)}

Chosen ==
  {<<"(", a, "|", b, ")", "*", a, b, b>>,
   <<"(", a, b, ")", "+">>,
   <<"(", a, "?", b, "+", ")", "+">>,
   <<"(", a, "+", b, ")", "+", a, "?">>,
   <<"(", a, "*", "|", b, ")", "*">>,
   <<"(", a, "?", ")", "+">>,
   <<"(", "(", a, "|", "(", ")", ")", b, "|", a, "*", ")", "+">>,
   <<a, "|", b, a, "*", "|", b>>,
   <<".", "+", "|", a>>,
   <<"[", a, "]", "[", b, "]">>,
   <<"[", "^", a, "]", "[", a, "]">>,
   <<"[", "^", a, b, "]", "*">>,
   <<"[", a, "]", "[", "^", "]">>,
   <<"[", a, "-", c, "]", "*">>,
   <<"[", a, "-", b, "-", c, "]">>,
   <<"[", "\\", "-", a, "]">>,
   <<"[", "(", "-", "\\", "-", "]">>,
   <<"[", "^", "\\", "]", "-", a, "]">>,
   <<"[", "\\", n, "-", a, "]">>,
   <<"[", a, "-", "\\", n, "]">>,
   <<"\\", n, "|", n>>,
   <<"\\", "(", "\\", "\\", "*">>}

MCTexts ==
  [alphabet : {AB}, text : UNION {Short, TwoOperators}]
    \cup [alphabet : {AC, Ascii}, text : Classes]
    \cup [alphabet : MCAlphabets, text : Chosen]
=============================================================================

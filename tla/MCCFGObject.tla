----------------------------- MODULE MCCFGObject -----------------------------
(***************************************************************************)
(* Small grammars: with and without left recursion, direct and through     *)
(* other heads or behind an empty one, with empty bodies and common        *)
(* prefixes; PDAs: one that accepts with symbols on its stack, one that    *)
(* pops and pushes at once, one that goes on from a final state, and an    *)
(* NFA.                                                                    *)
(***************************************************************************)
EXTENDS CFGObject

CONSTANTS s, t, a, b, end, none

MCTerminal == {a, b}
MCNonTerminal == {s, t} \X (0 .. MaxPrimes)

S == <<s, 0>>
R == <<t, 0>>

MCGrammars ==
  {Grammar(S, P) : P \in {
     Rules(S, {<<S, a>>, <<b>>}),
     Rules(S, {<<S, a>>, <<>>}),
     Rules(S, {<<a, S, b>>, <<>>}),
     Rules(S, {<<a, R, b>>, <<b>>}) \cup Rules(R, {<<R, a>>, <<>>}),
     Rules(S, {<<R, a>>, <<b>>}) \cup Rules(R, {<<R, b>>, <<S, a>>, <<>>}),
     Rules(S, {<<a, b>>, <<a, a>>, <<b, R>>, <<b>>}) \cup Rules(R, {<<a>>, <<a, a>>}),
     Rules(S, {<<a, a, b>>, <<a, a>>, <<a, b>>}),
     Rules(S, {<<S, S>>, <<a>>}),
     Rules(S, {<<R, S>>, <<a>>}) \cup Rules(R, {<<b>>, <<>>})}}

Q(i) == <<"q", i>>

\* Words of even length that are palindromes: the middle is guessed.
Palindromes ==
  [pda |-> PDA(Q(0), {Q(3)},
     {T(Q(0), none, none, Q(1), end), T(Q(1), none, none, Q(2), none), T(Q(2), none, end, Q(3), none)}
       \cup {T(Q(1), x, none, Q(1), x) : x \in {a, b}} \cup {T(Q(2), x, x, Q(2), none) : x \in {a, b}}),
   words |-> {w \in BoundedSeq({a, b}, MaxWord) : Reverse(w) = w /\ Len(w) % 2 = 0}]

\* More a than b in every prefix that is not empty: accepts with symbols on the stack.
Ahead ==
  [pda |-> PDA(Q(0), {Q(1)},
     {T(Q(0), a, none, Q(1), none), T(Q(1), a, none, Q(2), b), T(Q(2), none, b, Q(1), a),
      T(Q(1), b, a, Q(1), none)}),
   words |-> {w \in BoundedSeq({a, b}, MaxWord) :
                /\ w # <<>>
                /\ \A n \in 1 .. Len(w) :
                     LET count(x) == Cardinality({i \in 1 .. n : w[i] = x})
                     IN  count(a) > count(b)}]

\* A final state with a move of its own.
Onward ==
  [pda |-> PDA(Q(0), {Q(0), Q(2)},
     {T(Q(0), none, none, Q(1), a), T(Q(1), a, none, Q(1), none), T(Q(1), none, a, Q(2), none)}),
   words |-> BoundedSeq({a}, MaxWord)]

\* An NFA, like the one of the test of NFA_to_CFG: it moves on without a symbol, round in a
\* circle too, and to a state that leads nowhere.
Runs ==
  [pda |-> PDA(Q(0), {Q(2), Q(4)},
     {T(Q(0), none, none, Q(1), none), T(Q(0), none, none, Q(3), none), T(Q(1), a, none, Q(2), none),
      T(Q(2), none, none, Q(1), none), T(Q(1), none, none, Q(2), none), T(Q(3), b, none, Q(4), none),
      T(Q(4), b, none, Q(4), none), T(Q(4), a, none, Q(5), none)}),
   words |-> {w \in BoundedSeq({a, b}, MaxWord) : \E x \in {a, b} : \A i \in DOMAIN w : w[i] = x}]

MCPDAs == {Palindromes, Ahead, Onward, Runs}

\* The last symbol is b; the length is even.
MCDFAs ==
  {[states |-> {0, 1}, start |-> 0, final |-> {1},
    delta |-> [x \in {0, 1} \X {a, b} |-> IF x[2] = b THEN 1 ELSE 0]],
   [states |-> {0, 1}, start |-> 0, final |-> {0}, delta |-> [x \in {0, 1} \X {a, b} |-> 1 - x[1]]]}
=============================================================================

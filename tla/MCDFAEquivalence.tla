-------------------------- MODULE MCDFAEquivalence --------------------------
(***************************************************************************)
(* Pairs of DFAs with two or three states, not always the same ones: one   *)
(* symbol goes everywhere, another walks a cycle or stays.                 *)
(***************************************************************************)
EXTENDS DFAEquivalence, TLC

CONSTANTS s1, s2, s3, a, b

MCState == {s1, s2, s3}
MCSymbol == {a, b}
Cycle == s1 :> s2 @@ s2 :> s3 @@ s3 :> s1

Stay == [s \in MCState |-> s]

\* The DFAs with the states S, the start state s, one of the final sets Fs, and
\* the symbol b by f.
Over(S, s, f, Fs, al) ==
  {[states |-> S, alphabet |-> al, start |-> s, final |-> F,
    delta |-> [x \in S \X MCSymbol |-> IF x[2] = a THEN g[x[1]] ELSE f[x[1]]]] :
     g \in [S -> S], F \in Fs}

MCPairs ==
  (Over(MCState, s1, Cycle, {{s1}}, "one") \X Over(MCState, s2, Cycle, {{s1}, {s2}}, "one"))
  \cup
  (Over({s1, s2}, s1, Stay, {{s1}, {s2}}, "one") \X
     (Over(MCState, s2, Stay, {{s1}, {s3}}, "one")
      \cup Over({s1, s3}, s3, Stay, {{s1}, {s1, s3}}, "one")
      \cup Over({s1, s2}, s1, Stay, {{s1}}, "two")))
=============================================================================

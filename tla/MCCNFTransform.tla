--------------------------- MODULE MCCNFTransform ---------------------------
(***************************************************************************)
(* Small grammars: with epsilon in several places, with cycles of single   *)
(* productions, with long bodies, with useless symbols for the constructor *)
(* to take away, and with names like those an earlier call makes up.       *)
(***************************************************************************)
EXTENDS CNFTransform

CONSTANTS s, r, a, b, end

MCTerminal == {a, b}
MCNames == {s, r}
MCNonTerminal == (MCNames \cup {TName(t) : t \in MCTerminal}) \X (0 .. MaxPrimes)

S == <<s, 0>>
S1 == <<s, 1>>
R == <<r, 0>>
R1 == <<r, 1>>
TA1 == <<TName(a), 1>>

MCGiven ==
  {Grammar(S, P) : P \in {
     Rules(S, {<<a, S, b>>, <<>>}),
     Rules(S, {<<S, S>>, <<a, S, b>>, <<>>}),
     Rules(S, {<<R, S1, a>>}) \cup Rules(R, {<<b>>, <<>>}) \cup Rules(S1, {<<a>>}),
     Rules(S, {<<R>>, <<a>>}) \cup Rules(R, {<<R1>>, <<b>>}) \cup Rules(R1, {<<S>>, <<a, b>>}),
     Rules(S, {<<a, b, a, R>>, <<a>>}) \cup Rules(R, {<<b, S>>, <<>>}),
     Rules(S, {<<R>>}) \cup Rules(R, {<<R1>>, <<a>>}) \cup Rules(R1, {<<>>, <<b>>}),
     Rules(S, {<<R, a>>, <<S1>>}) \cup Rules(R, {<<R, b>>}) \cup Rules(S1, {<<S1>>, <<>>, <<b, R1>>})
       \cup Rules(R1, {<<>>}),
     Rules(S, {<<a, b, b>>, <<b, a, a>>}),
     Rules(S, {<<R>>}) \cup Rules(R, {<<>>}),
     Rules(S, {<<R>>}) \cup Rules(R, {<<a, R>>})}}
  \cup {Grammar(S1, Rules(S1, {<<TA1, R>>, <<b, a, b>>, <<>>}) \cup Rules(TA1, {<<a>>})
                      \cup Rules(R, {<<TA1, R>>, <<b>>}))}
=============================================================================

----------------------------- MODULE MCLRParser -----------------------------
(***************************************************************************)
(* Small grammars: taken by every kind of LR grammar, by some of them, and *)
(* by none; with epsilon, left and right recursive, and one with a head    *)
(* that derives itself.                                                    *)
(***************************************************************************)
EXTENDS LRObject

CONSTANTS S, A, B, start, a, b, c, end, none

MCTerminal == {a, b, c}
MCNonTerminal == {S, A, B, start}

MCGrammars ==
  LET productions == <<
     \* The grammar of parentheses in dcfg_test.cpp.
     Rules(S, {<<S, a, S, b>>, <<>>}),
     Rules(S, {<<S, a>>, <<b>>}),
     Rules(S, {<<a, S>>, <<>>}),
     \* A word of A is no word of the grammar.
     Rules(S, {<<A, b>>}) \cup Rules(A, {<<a>>}),
     \* LR(1), though not LALR(1): A or B is told by where it stands.
     Rules(S, {<<A, a>>, <<b, A, c>>, <<B, c>>, <<b, B, a>>})
       \cup Rules(A, {<<c>>}) \cup Rules(B, {<<c>>}),
     \* LALR(1), though not SLR.
     Rules(S, {<<A, a>>, <<b, A, c>>, <<c, c>>, <<b, c, a>>}) \cup Rules(A, {<<c>>}),
     \* SLR; the lookahead symbols of A, b or both b and c, overlap.
     Rules(S, {<<A, b>>, <<A, B, c>>}) \cup Rules(A, {<<a>>}) \cup Rules(B, {<<b>>, <<c>>}),
     \* A word with two trees.
     Rules(S, {<<S, S>>, <<a>>}),
     Rules(S, {<<A>>, <<B>>}) \cup Rules(A, {<<a>>}) \cup Rules(B, {<<a>>}),
     \* A head that derives itself.
     Rules(S, {<<A>>}) \cup Rules(A, {<<S>>, <<a>>}),
     \* LR(0), with all symbols.
     Rules(S, {<<a, S, b>>, <<c>>})>>
  IN  [i \in DOMAIN productions |-> Grammar(S, productions[i])]

\* Alphabets of other grammars have symbols their bodies do not use.
MCAlphabets == {{a}, {a, b}, {a, b, c}}

MCWords == UNION {[1 .. n -> {a, b, c}] : n \in 0 .. 3}
=============================================================================

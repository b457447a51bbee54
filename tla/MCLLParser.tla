----------------------------- MODULE MCLLParser -----------------------------
(***************************************************************************)
(* Small grammars of every kind that matters here: LL(1) with and without  *)
(* epsilon, left recursive, with a conflict of FIRST sets and with one of  *)
(* FIRST and FOLLOW.                                                       *)
(***************************************************************************)
EXTENDS LLParser

CONSTANTS S, A, B, a, b, end

MCTerminal == {a, b}
MCNonTerminal == {S, A, B}

MCGrammars ==
  {Grammar(S, P) : P \in {
     Rules(S, {<<a, S, b>>, <<>>}),
     Rules(S, {<<A, B>>}) \cup Rules(A, {<<a>>, <<>>}) \cup Rules(B, {<<b>>, <<>>}),
     Rules(S, {<<A, a>>}) \cup Rules(A, {<<b, A>>, <<>>}),
     Rules(S, {<<A, B, a>>}) \cup Rules(A, {<<B>>}) \cup Rules(B, {<<b>>, <<>>}),
     Rules(S, {<<A, a>>, <<b>>}) \cup Rules(A, {<<B>>, <<b>>}) \cup Rules(B, {<<b>>, <<>>}),
     Rules(S, {<<S, a>>, <<b>>}),
     Rules(S, {<<A, S, b>>, <<a>>}) \cup Rules(A, {<<b>>, <<>>}),
     Rules(S, {<<A, a>>}) \cup Rules(A, {<<a>>, <<>>}),
     Rules(S, {<<a, A>>, <<a>>}) \cup Rules(A, {<<b>>})}}

MCWords == UNION {[1 .. n -> {a, b}] : n \in 0 .. 3}
=============================================================================

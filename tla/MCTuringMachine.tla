--------------------------- MODULE MCTuringMachine ---------------------------
(***************************************************************************)
(* Two calls for two states, besides the one that accepts and the one that *)
(* rejects, over one symbol and the blank: up to four transitions, or two  *)
(* choices for each of two.                                                *)
(***************************************************************************)
EXTENDS TuringMachine

CONSTANTS s0, s1, accept, reject, a, blank

MCWords == {<<>>, <<a>>, <<a, a>>}
=============================================================================

-------------------------- MODULE MCEpsilonClosure --------------------------
(***************************************************************************)
(* Model values for EpsilonClosure: the automata a run starts from and the *)
(* ones add_sub_NFA is given.                                              *)
(***************************************************************************)
EXTENDS EpsilonClosure

CONSTANTS a, b, c

EpsOf(edges) == [s \in State |-> {t \in State : <<s, t>> \in edges}]

MCAutomaton(S, R, edges) == [states |-> S, rows |-> R, eps |-> EpsOf(edges)]

\* A chain that has yet to be linked, and a pair of states in an epsilon loop.
MCAutomata ==
  {MCAutomaton({a, b}, {a}, {<<a, b>>}),
   MCAutomaton({b, c}, {b, c}, {<<b, c>>, <<c, b>>})}
=============================================================================

------------------------ MODULE MCSubsetConstruction ------------------------
(***************************************************************************)
(* Every NFA over the given states and symbols, with epsilon transitions,  *)
(* up to the choice of the start state.                                    *)
(***************************************************************************)
EXTENDS SubsetConstruction, Relation

CONSTANT StartState

ClosureOf(edges) ==
  LET R == ReflexiveTransitiveClosure(
             [p \in State \X State |-> p \in edges], State)
  IN  [s \in State |-> {t \in State : R[s, t]}]

Closures == {ClosureOf(edges) : edges \in SUBSET (State \X State)}

MCMachines == [delta   : [State \X Symbol -> SUBSET State],
               closure : Closures,
               start   : {StartState},
               final   : SUBSET State]
=============================================================================

--------------------------- MODULE DFAEquivalence ---------------------------
(***************************************************************************)
(* DFA::equivalent_with: the states of one DFA are mapped to those of the  *)
(* other along transitions with the same symbol, in passes over a hash     *)
(* table whose order is left open, until a pass maps no new state.         *)
(***************************************************************************)
EXTENDS Integers, FiniteSets

CONSTANTS State, Symbol,
          Pairs  \* the pairs <<this, rhs>> of DFAs that are compared

\* alphabet stands for the identity of the ALPHABET object: it is compared by
\* pointer.
DFA == [states   : SUBSET State,
        alphabet : STRING,
        delta    : UNION {[S \X Symbol -> S] : S \in SUBSET State},
        start    : State,
        final    : SUBSET State]

WellFormed(d) ==
  /\ d \in DFA
  /\ d.delta \in [d.states \X Symbol -> d.states]
  /\ d.start \in d.states
  /\ d.final \subseteq d.states

ASSUME StateAssumption == IsFiniteSet(State) /\ IsFiniteSet(Symbol)
ASSUME PairsAssumption == \A p \in Pairs : WellFormed(p[1]) /\ WellFormed(p[2])

VARIABLES
  this, rhs,   \* the DFAs
  map,         \* state_map
  pending,     \* the transitions of this the pass has not seen yet
  newMapping,  \* new_mapping
  answer       \* "none" while comparing, "yes", or the check that said no

equivalenceVars == <<this, rhs, map, pending, newMapping, answer>>

Map(S, R) == UNION {[D -> R] : D \in SUBSET S}

EquivalenceTypeOK ==
  /\ \E p \in Pairs : this = p[1] /\ rhs = p[2]
  /\ map \in Map(this.states, rhs.states)
  /\ pending \subseteq DOMAIN this.delta
  /\ newMapping \in BOOLEAN
  /\ answer \in {"none", "yes", "size", "conflict", "unmapped", "final"}

-----------------------------------------------------------------------------
\* The comparisons before the loop.
SameSize ==
  /\ this.alphabet = rhs.alphabet
  /\ Cardinality(this.states) = Cardinality(rhs.states)
  /\ Cardinality(this.final) = Cardinality(rhs.final)
  /\ Cardinality(DOMAIN this.delta) = Cardinality(DOMAIN rhs.delta)

EquivalenceInit ==
  /\ \E p \in Pairs : this = p[1] /\ rhs = p[2]
  /\ map = [s \in {this.start} |-> rhs.start]
  /\ pending = DOMAIN this.delta
  /\ newMapping = FALSE
  /\ answer = IF SameSize THEN "none" ELSE "size"

\* A transition from a state that is not mapped yet: continue.
Skip(x) ==
  /\ answer = "none"
  /\ x \in pending
  /\ x[1] \notin DOMAIN map
  /\ pending' = pending \ {x}
  /\ UNCHANGED <<this, rhs, map, newMapping, answer>>

\* (mutant) The successor in rhs is that of its start state.
Follow_Unmapped(x) ==
  LET next == this.delta[x]
      rhsNext == rhs.delta[<<rhs.start, x[2]>>]
  IN  /\ answer = "none"
      /\ x \in pending
      /\ x[1] \in DOMAIN map
      /\ pending' = pending \ {x}
      /\ map' = [s \in DOMAIN map \cup {next} |-> IF s \in DOMAIN map THEN map[s] ELSE rhsNext]
      /\ newMapping' = (newMapping \/ next \notin DOMAIN map)
      /\ answer' = IF map'[next] # rhsNext THEN "conflict" ELSE answer
      /\ UNCHANGED <<this, rhs>>

\* A transition from a mapped state: the two successors are mapped to each
\* other, or agree with the mapping there is, or the answer is no.
Follow(x) ==
  LET next == this.delta[x]
      rhsNext == rhs.delta[<<map[x[1]], x[2]>>]
  IN  /\ answer = "none"
      /\ x \in pending
      /\ x[1] \in DOMAIN map
      /\ pending' = pending \ {x}
      /\ map' = [s \in DOMAIN map \cup {next} |-> IF s \in DOMAIN map THEN map[s] ELSE rhsNext]
      /\ newMapping' = (newMapping \/ next \notin DOMAIN map)
      /\ answer' = IF map'[next] # rhsNext THEN "conflict" ELSE answer
      /\ UNCHANGED <<this, rhs>>

\* A pass that mapped a state is followed by another.
NextPass ==
  /\ answer = "none"
  /\ pending = {}
  /\ newMapping
  /\ newMapping' = FALSE
  /\ pending' = DOMAIN this.delta
  /\ UNCHANGED <<this, rhs, map, answer>>

\* A pass that mapped none is the last. Every state must have a mapping, and
\* every final state of this must be one of rhs.
Decide ==
  /\ answer = "none"
  /\ pending = {}
  /\ ~ newMapping
  /\ answer' = IF Cardinality(DOMAIN map) # Cardinality(this.states) THEN "unmapped"
               ELSE IF this.final \subseteq rhs.final THEN "yes" ELSE "final"
  /\ UNCHANGED <<this, rhs, map, pending, newMapping>>

Compare ==
  NextPass \/ Decide \/ \E x \in DOMAIN this.delta : Skip(x) \/ Follow(x)

EquivalenceSpec == EquivalenceInit /\ [][Compare]_equivalenceVars

-----------------------------------------------------------------------------
\* Relations that hold between the states words lead to in the two DFAs.
Tracks(R) ==
  /\ <<this.start, rhs.start>> \in R
  /\ \A p \in R, a \in Symbol : <<this.delta[<<p[1], a>>], rhs.delta[<<p[2], a>>]>> \in R

\* Every mapping is forced: some word leads to the state in one DFA and to what
\* it is mapped to in the other, whatever the order of the passes.
MapIsForced ==
  \A R \in SUBSET (this.states \X rhs.states) :
    Tracks(R) => \A s \in DOMAIN map : <<s, map[s]>> \in R

\* The one-to-one renamings of states that keep the start state, the
\* transitions and what is final.
Isomorphism ==
  {h \in [this.states -> rhs.states] :
     /\ \A s, t \in this.states : h[s] = h[t] => s = t
     /\ \A t \in rhs.states : \E s \in this.states : h[s] = t
     /\ h[this.start] = rhs.start
     /\ \A x \in DOMAIN this.delta : h[this.delta[x]] = rhs.delta[<<h[x[1]], x[2]>>]
     /\ \A s \in this.states : s \in this.final <=> h[s] \in rhs.final}

\* No set of states that holds the start state and is closed under transitions
\* leaves a state out.
AllReachable ==
  \A S \in SUBSET this.states :
    this.start \in S /\ (\A s \in S, a \in Symbol : this.delta[<<s, a>>] \in S)
      => S = this.states

\* A no that comes before the final states are looked at is right: the DFAs are
\* not the same up to renaming, or this has states no word leads to.
NoIsRight ==
  /\ answer = "conflict" => Isomorphism = {}
  /\ answer = "unmapped" => ~ AllReachable
  /\ answer = "size" /\ this.alphabet = rhs.alphabet => Isomorphism = {}

\* When the final states are looked at, every state has a mapping that keeps
\* the transitions, and no word leads anywhere the mapping does not.
MappedBeforeFinal ==
  answer \in {"yes", "final"} =>
    /\ DOMAIN map = this.states
    /\ map[this.start] = rhs.start
    /\ \A x \in DOMAIN this.delta : map[this.delta[x]] = rhs.delta[<<map[x[1]], x[2]>>]

=============================================================================

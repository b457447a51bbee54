------------------------------ MODULE DFA_proofs ------------------------------
(***************************************************************************)
(* What DFAs are compared and combined to. That the mapping                *)
(* DFA::equivalent_with builds is the one words force, and that what it    *)
(* answers before it looks at the final states is right, for all finite    *)
(* DFAs and every order of the hash table; and that the products and       *)
(* complements of DFAs accept what they are made to accept, and that the   *)
(* live states are those from where a final state can be reached: for all  *)
(* DFAs, whatever calls came before.                                       *)
(***************************************************************************)
EXTENDS DFAEquivalence, DFAOperations, FiniteSetTheorems, TLAPS

\* For induction and recursion over the naturals, which no grammar has a part in.
Nats == INSTANCE ContextFree_proofs WITH Terminal <- {}, NonTerminal <- {}, EndMarker <- "end"

\* A finite set of naturals that is not empty has a greatest one.
LEMMA FiniteSetHasGreatest ==
  ASSUME NEW S \in SUBSET Nat, IsFiniteSet(S), S # {}
  PROVE  \E m \in S : \A n \in S : n <= m
<1>1. Nats!IsFiniteSet(S)
  BY DEF IsFiniteSet, Nats!IsFiniteSet
<1> QED BY <1>1, Nats!FiniteSetHasGreatest


-----------------------------------------------------------------------------
(* DFA::equivalent_with.                                                   *)

\* The mapping keeps the transition x.
Kept(x) ==
  x[1] \in DOMAIN map =>
    /\ this.delta[x] \in DOMAIN map
    /\ map[this.delta[x]] = rhs.delta[<<map[x[1]], x[2]>>]

\* The start state is mapped, and in a pass that has mapped nothing new the
\* transitions that were passed are kept.
Mapped ==
  /\ this.start \in DOMAIN map /\ map[this.start] = rhs.start
  /\ answer = "none" /\ ~ newMapping => \A x \in DOMAIN this.delta \ pending : Kept(x)

\* What the answers say of the mapping.
Answered ==
  /\ answer = "size" => ~ SameSize
  /\ answer \in {"yes", "final", "unmapped"} => \A x \in DOMAIN this.delta : Kept(x)
  /\ answer \in {"yes", "final"} => DOMAIN map = this.states
  /\ answer = "unmapped" => DOMAIN map # this.states

\* A mapping whose transitions disagree is one no isomorphism extends.
Conflicting == answer = "conflict" => Isomorphism = {}

Inv == EquivalenceTypeOK /\ MapIsForced /\ Mapped /\ Answered /\ Conflicting

-----------------------------------------------------------------------------
\* What the types say of the two DFAs and of the mapping.
LEMMA Types ==
  ASSUME EquivalenceTypeOK
  PROVE  /\ this.delta \in [this.states \X Symbol -> this.states]
         /\ rhs.delta \in [rhs.states \X Symbol -> rhs.states]
         /\ this.start \in this.states /\ rhs.start \in rhs.states
         /\ this.final \subseteq this.states /\ rhs.final \subseteq rhs.states
         /\ IsFiniteSet(this.states) /\ IsFiniteSet(rhs.states)
         /\ DOMAIN map \subseteq this.states
         /\ \A s \in DOMAIN map : map[s] \in rhs.states
         /\ map \in [DOMAIN map -> rhs.states]
<1>1. WellFormed(this) /\ WellFormed(rhs)
  BY PairsAssumption DEF EquivalenceTypeOK
<1>2. this.states \in SUBSET State /\ rhs.states \in SUBSET State
  BY <1>1 DEF WellFormed, DFA
<1>3. IsFiniteSet(this.states) /\ IsFiniteSet(rhs.states)
  BY <1>2, StateAssumption, FS_Subset
<1>4. PICK D \in SUBSET this.states : map \in [D -> rhs.states]
  BY DEF EquivalenceTypeOK, Map
<1>5. QED BY <1>1, <1>3, <1>4 DEF WellFormed

\* Only the start state is mapped at first.
LEMMA InitInv == EquivalenceInit => Inv
<1> SUFFICES ASSUME EquivalenceInit PROVE Inv
  OBVIOUS
<1>1. /\ \E p \in Pairs : this = p[1] /\ rhs = p[2]
      /\ map = [s \in {this.start} |-> rhs.start] /\ pending = DOMAIN this.delta
      /\ newMapping = FALSE /\ answer = IF SameSize THEN "none" ELSE "size"
  BY DEF EquivalenceInit
<1>2. WellFormed(this) /\ WellFormed(rhs)
  BY <1>1, PairsAssumption
<1>3. this.start \in this.states /\ rhs.start \in rhs.states
  BY <1>2 DEF WellFormed
<1>4. map \in [{this.start} -> rhs.states]
  BY <1>1, <1>3
<1>5. EquivalenceTypeOK
  <2>1. map \in Map(this.states, rhs.states)
    BY <1>3, <1>4 DEF Map
  <2>2. QED BY <1>1, <2>1 DEF EquivalenceTypeOK
<1>6. MapIsForced
  BY <1>1 DEF MapIsForced, Tracks
<1>7. Mapped /\ Answered /\ Conflicting
  BY <1>1 DEF Mapped, Answered, Conflicting
<1>8. QED BY <1>5, <1>6, <1>7 DEF Inv

\* What following a transition does to the mapping: it grows by the successor
\* at most, and what was mapped stays.
LEMMA FollowEffect ==
  ASSUME Inv, NEW x \in DOMAIN this.delta, Follow(x)
  PROVE  LET next == this.delta[x]
             rhsNext == rhs.delta[<<map[x[1]], x[2]>>]
         IN  /\ x \in this.states \X Symbol /\ x[1] \in DOMAIN map
             /\ next \in this.states /\ rhsNext \in rhs.states
             /\ DOMAIN map' = DOMAIN map \cup {next}
             /\ \A s \in DOMAIN map : map'[s] = map[s]
             /\ next \notin DOMAIN map => map'[next] = rhsNext
             /\ map' \in Map(this.states, rhs.states)
<1> DEFINE next == this.delta[x]
           rhsNext == rhs.delta[<<map[x[1]], x[2]>>]
<1>1. /\ x[1] \in DOMAIN map
      /\ map' = [s \in DOMAIN map \cup {next} |-> IF s \in DOMAIN map THEN map[s] ELSE rhsNext]
  BY DEF Follow
<1>2. /\ x \in this.states \X Symbol /\ next \in this.states
      /\ DOMAIN map \subseteq this.states /\ \A s \in DOMAIN map : map[s] \in rhs.states
      /\ rhs.delta \in [rhs.states \X Symbol -> rhs.states]
  BY Types DEF Inv
<1>3. rhsNext \in rhs.states
  BY <1>1, <1>2
<1> HIDE DEF next, rhsNext
<1>4. /\ DOMAIN map' = DOMAIN map \cup {next}
      /\ \A s \in DOMAIN map : map'[s] = map[s]
      /\ next \notin DOMAIN map => map'[next] = rhsNext
  BY <1>1
<1>5. map' \in [DOMAIN map \cup {next} -> rhs.states]
  BY <1>1, <1>2, <1>3
<1>6. map' \in Map(this.states, rhs.states)
  BY <1>2, <1>5 DEF Map
<1>7. QED BY <1>1, <1>2, <1>3, <1>4, <1>6 DEF next, rhsNext

\* Following a transition keeps the invariant.
LEMMA FollowKeeps ==
  ASSUME Inv, NEW x \in DOMAIN this.delta, Follow(x)
  PROVE  Inv'
<1> DEFINE next == this.delta[x]
           rhsNext == rhs.delta[<<map[x[1]], x[2]>>]
<1>1. /\ x \in this.states \X Symbol /\ x[1] \in DOMAIN map
      /\ next \in this.states /\ rhsNext \in rhs.states
      /\ DOMAIN map' = DOMAIN map \cup {next}
      /\ \A s \in DOMAIN map : map'[s] = map[s]
      /\ next \notin DOMAIN map => map'[next] = rhsNext
      /\ map' \in Map(this.states, rhs.states)
  BY FollowEffect
<1>2. /\ answer = "none" /\ x \in pending /\ pending' = pending \ {x}
      /\ this' = this /\ rhs' = rhs
      /\ newMapping' = (newMapping \/ next \notin DOMAIN map)
      /\ answer' = IF map'[next] # rhsNext THEN "conflict" ELSE "none"
  BY DEF Follow
<1>3. /\ this.delta \in [this.states \X Symbol -> this.states]
      /\ this.start \in this.states /\ rhs.start \in rhs.states
      /\ DOMAIN map \subseteq this.states
      /\ \A s \in DOMAIN map : map[s] \in rhs.states
      /\ rhs.delta \in [rhs.states \X Symbol -> rhs.states]
  BY Types DEF Inv
<1>4. EquivalenceTypeOK'
  BY <1>1, <1>2 DEF Inv, EquivalenceTypeOK
<1>5. \A R \in SUBSET (this.states \X rhs.states) : Tracks(R) => <<next, rhsNext>> \in R
  <2> SUFFICES ASSUME NEW R \in SUBSET (this.states \X rhs.states), Tracks(R)
               PROVE  <<next, rhsNext>> \in R
    OBVIOUS
  <2>1. <<x[1], map[x[1]]>> \in R /\ x[2] \in Symbol /\ x = <<x[1], x[2]>>
    BY <1>1 DEF Inv, MapIsForced
  <2>2. <<this.delta[<<x[1], x[2]>>], rhs.delta[<<map[x[1]], x[2]>>]>> \in R
    BY <2>1 DEF Tracks
  <2>3. QED BY <2>1, <2>2
<1>6. \A R \in SUBSET (this.states \X rhs.states) :
        Tracks(R) => \A s \in DOMAIN map' : <<s, map'[s]>> \in R
  <2> HIDE DEF next, rhsNext
  <2> SUFFICES ASSUME NEW R \in SUBSET (this.states \X rhs.states), Tracks(R),
                      NEW s \in DOMAIN map'
               PROVE  <<s, map'[s]>> \in R
    OBVIOUS
  <2>1. CASE s \in DOMAIN map
    BY <1>1, <2>1 DEF Inv, MapIsForced
  <2>2. CASE s \notin DOMAIN map
    BY <1>1, <1>5, <2>2
  <2>3. QED BY <2>1, <2>2
<1>7. MapIsForced'
  BY <1>2, <1>6 DEF MapIsForced, Tracks
<1>8. Mapped'
  <2>1. this.start \in DOMAIN map' /\ map'[this.start] = rhs.start
    BY <1>1 DEF Inv, Mapped
  <2>2. ASSUME answer' = "none", ~ newMapping', NEW y \in DOMAIN this.delta \ pending'
        PROVE  Kept(y)'
    <3>1. /\ next \in DOMAIN map /\ ~ newMapping
          /\ DOMAIN map' = DOMAIN map /\ map'[next] = rhsNext
      BY <1>1, <1>2, <2>2
    <3>2. CASE y = x
      BY <1>1, <1>2, <3>1, <3>2 DEF Kept
    <3>3. CASE y # x
      <4>1. Kept(y)
        BY <1>2, <2>2, <3>1, <3>3 DEF Inv, Mapped
      <4>2. QED BY <1>1, <1>2, <3>1, <4>1 DEF Kept
    <3>4. QED BY <3>2, <3>3
  <2>3. QED BY <1>2, <2>1, <2>2 DEF Mapped
<1>9. Answered'
  BY <1>2 DEF Answered
<1>10. Conflicting'
  <2>1. ASSUME answer' = "conflict", NEW h \in Isomorphism PROVE FALSE
    <3> DEFINE R == {<<s, h[s]>> : s \in this.states}
    <3>1. /\ h \in [this.states -> rhs.states] /\ h[this.start] = rhs.start
          /\ \A y \in DOMAIN this.delta : h[this.delta[y]] = rhs.delta[<<h[y[1]], y[2]>>]
      BY <2>1 DEF Isomorphism
    <3>2. R \in SUBSET (this.states \X rhs.states)
      BY <3>1
    <3>3. Tracks(R)
      <4>1. <<this.start, rhs.start>> \in R
        BY <1>3, <3>1
      <4>2. ASSUME NEW p \in R, NEW a \in Symbol
            PROVE  <<this.delta[<<p[1], a>>], rhs.delta[<<p[2], a>>]>> \in R
        <5>1. PICK s \in this.states : p = <<s, h[s]>>
          OBVIOUS
        <5>2. /\ <<s, a>> \in DOMAIN this.delta /\ this.delta[<<s, a>>] \in this.states
              /\ h[this.delta[<<s, a>>]] = rhs.delta[<<h[s], a>>]
          BY <1>3, <3>1
        <5>3. p[1] = s /\ p[2] = h[s]
          BY <5>1
        <5>4. QED BY <5>2, <5>3
      <4>3. QED BY <4>1, <4>2 DEF Tracks
    <3>4. <<next, rhsNext>> \in R /\ <<next, map'[next]>> \in R
      BY <1>1, <1>5, <1>6, <3>2, <3>3
    <3>5. rhsNext = h[next] /\ map'[next] = h[next]
      BY <3>4
    <3>6. QED BY <1>2, <2>1, <3>5
  <2>2. QED BY <1>2, <2>1 DEF Conflicting, Isomorphism
<1>11. QED BY <1>4, <1>7, <1>8, <1>9, <1>10 DEF Inv

\* The other steps leave the mapping as it is.
LEMMA StepKeeps ==
  ASSUME Inv, [Compare]_equivalenceVars
  PROVE  Inv'
<1>0. /\ this.delta \in [this.states \X Symbol -> this.states]
      /\ IsFiniteSet(this.states) /\ DOMAIN map \subseteq this.states
  BY Types DEF Inv
<1>1. ASSUME NEW x \in DOMAIN this.delta, Skip(x) PROVE Inv'
  <2>1. /\ x[1] \notin DOMAIN map /\ pending' = pending \ {x} /\ answer = "none"
        /\ UNCHANGED <<this, rhs, map, newMapping, answer>>
    BY <1>1 DEF Skip
  <2>2. EquivalenceTypeOK' /\ MapIsForced' /\ Answered' /\ Conflicting'
    BY <2>1 DEF Inv, EquivalenceTypeOK, MapIsForced, Tracks, Answered, Conflicting, Isomorphism
  <2>3. ASSUME ~ newMapping', NEW y \in DOMAIN this.delta \ pending'
        PROVE  Kept(y)'
    <3>1. CASE y = x
      BY <2>1, <3>1 DEF Kept
    <3>2. CASE y # x
      <4>1. Kept(y)
        BY <2>1, <2>3, <3>2 DEF Inv, Mapped
      <4>2. QED BY <2>1, <4>1 DEF Kept
    <3>3. QED BY <3>1, <3>2
  <2>4. Mapped'
    BY <2>1, <2>3 DEF Inv, Mapped
  <2>5. QED BY <2>2, <2>4 DEF Inv
<1>2. CASE NextPass
  <2>1. /\ pending' = DOMAIN this.delta /\ newMapping' = FALSE /\ answer = "none"
        /\ UNCHANGED <<this, rhs, map, answer>>
    BY <1>2 DEF NextPass
  <2>2. QED
    BY <2>1 DEF Inv, EquivalenceTypeOK, MapIsForced, Tracks, Mapped, Answered, Conflicting, Isomorphism
<1>3. CASE Decide
  <2>1. /\ answer = "none" /\ pending = {} /\ ~ newMapping
        /\ answer' = IF Cardinality(DOMAIN map) # Cardinality(this.states) THEN "unmapped"
                     ELSE IF this.final \subseteq rhs.final THEN "yes" ELSE "final"
        /\ UNCHANGED <<this, rhs, map, pending, newMapping>>
    BY <1>3 DEF Decide
  <2>2. \A x \in DOMAIN this.delta : Kept(x)
    BY <2>1 DEF Inv, Mapped
  <2>3. Cardinality(DOMAIN map) = Cardinality(this.states) <=> DOMAIN map = this.states
    BY <1>0, FS_Subset
  <2>4. /\ answer' \in {"yes", "final", "unmapped"}
        /\ answer' = "unmapped" <=> DOMAIN map # this.states
    BY <2>1, <2>3
  <2>5. Answered'
    BY <2>1, <2>2, <2>4 DEF Answered, Kept
  <2>6. EquivalenceTypeOK' /\ MapIsForced' /\ Mapped' /\ Conflicting'
    BY <2>1, <2>4 DEF Inv, EquivalenceTypeOK, MapIsForced, Tracks, Mapped, Conflicting
  <2>7. QED BY <2>5, <2>6 DEF Inv
<1>4. CASE UNCHANGED equivalenceVars
  <2>1. UNCHANGED <<this, rhs, map, pending, newMapping, answer>>
    BY <1>4 DEF equivalenceVars
  <2>2. QED
    BY <2>1 DEF Inv, EquivalenceTypeOK, MapIsForced, Tracks, Mapped, Kept, Answered, SameSize,
                Conflicting, Isomorphism
<1>5. QED
  BY <1>1, <1>2, <1>3, <1>4, FollowKeeps DEF Compare

-----------------------------------------------------------------------------
\* The invariant holds of every state the program reaches.
LEMMA EquivalenceInvariance == EquivalenceSpec => []Inv
<1>1. Inv /\ [Compare]_equivalenceVars => Inv'
  BY StepKeeps
<1>2. QED BY InitInv, <1>1, PTL DEF EquivalenceSpec

\* A one-to-one map of a finite set onto another is one of equal size.
LEMMA SameCardinality ==
  ASSUME NEW S, NEW R, IsFiniteSet(S), NEW h \in [S -> R],
         \A s, t \in S : h[s] = h[t] => s = t,
         \A t \in R : \E s \in S : h[s] = t
  PROVE  Cardinality(S) = Cardinality(R)
<1>1. h \in Bijection(S, R)
  BY DEF Bijection, Injection, Surjection, IsInjective
<1>2. QED BY <1>1, FS_Bijection DEF ExistsBijection

\* Isomorphic DFAs over one alphabet pass the comparisons of sizes.
LEMMA IsomorphicSameSize ==
  ASSUME EquivalenceTypeOK, this.alphabet = rhs.alphabet, Isomorphism # {}
  PROVE  SameSize
<1>1. /\ this.delta \in [this.states \X Symbol -> this.states]
      /\ rhs.delta \in [rhs.states \X Symbol -> rhs.states]
      /\ this.final \subseteq this.states /\ rhs.final \subseteq rhs.states
      /\ IsFiniteSet(this.states) /\ IsFiniteSet(rhs.states)
  BY Types
<1>2. PICK h \in [this.states -> rhs.states] :
        /\ \A s, t \in this.states : h[s] = h[t] => s = t
        /\ \A t \in rhs.states : \E s \in this.states : h[s] = t
        /\ \A s \in this.states : s \in this.final <=> h[s] \in rhs.final
  BY DEF Isomorphism
<1>3. Cardinality(this.states) = Cardinality(rhs.states)
  BY <1>1, <1>2, SameCardinality
<1>4. Cardinality(this.final) = Cardinality(rhs.final)
  <2> DEFINE f == [s \in this.final |-> h[s]]
  <2>1. IsFiniteSet(this.final)
    BY <1>1, FS_Subset
  <2>2. f \in [this.final -> rhs.final]
    BY <1>1, <1>2
  <2>3. \A s, t \in this.final : f[s] = f[t] => s = t
    BY <1>1, <1>2
  <2>4. \A t \in rhs.final : \E s \in this.final : f[s] = t
    BY <1>1, <1>2
  <2> HIDE DEF f
  <2>5. QED BY <2>1, <2>2, <2>3, <2>4, SameCardinality
<1>5. Cardinality(DOMAIN this.delta) = Cardinality(DOMAIN rhs.delta)
  <2>1. DOMAIN this.delta = this.states \X Symbol /\ DOMAIN rhs.delta = rhs.states \X Symbol
    BY <1>1
  <2>2. /\ Cardinality(this.states \X Symbol) = Cardinality(this.states) * Cardinality(Symbol)
        /\ Cardinality(rhs.states \X Symbol) = Cardinality(rhs.states) * Cardinality(Symbol)
    BY <1>1, StateAssumption, FS_Product
  <2>3. QED BY <1>3, <2>1, <2>2
<1>6. QED BY <1>3, <1>4, <1>5 DEF SameSize

\* The comparison keeps its types.
THEOREM EquivalenceTypeCorrect == EquivalenceSpec => []EquivalenceTypeOK
BY EquivalenceInvariance, PTL DEF Inv

\* Every mapping is forced by a word, whatever the order of the hash table.
THEOREM MappingIsForced == EquivalenceSpec => []MapIsForced
BY EquivalenceInvariance, PTL DEF Inv

\* The final states are looked at with a mapping of every state that keeps
\* every transition.
THEOREM MappingIsComplete == EquivalenceSpec => []MappedBeforeFinal
<1>1. Inv => MappedBeforeFinal
  <2> SUFFICES ASSUME Inv, answer \in {"yes", "final"} PROVE MappedBeforeFinal
    BY DEF MappedBeforeFinal
  <2>1. DOMAIN map = this.states /\ \A x \in DOMAIN this.delta : Kept(x)
    BY DEF Inv, Answered
  <2>2. \A x \in DOMAIN this.delta : x[1] \in this.states
    BY Types DEF Inv
  <2>3. QED BY <2>1, <2>2 DEF Inv, Mapped, Kept, MappedBeforeFinal
<1>2. QED BY EquivalenceInvariance, <1>1, PTL

\* A no given before the final states are looked at is right.
THEOREM NoCorrect == EquivalenceSpec => []NoIsRight
<1>1. Inv => NoIsRight
  <2> SUFFICES ASSUME Inv PROVE NoIsRight
    OBVIOUS
  <2>1. answer = "conflict" => Isomorphism = {}
    BY DEF Inv, Conflicting
  <2>2. answer = "size" /\ this.alphabet = rhs.alphabet => Isomorphism = {}
    BY IsomorphicSameSize DEF Inv, Answered
  <2>3. ASSUME answer = "unmapped" PROVE ~ AllReachable
    <3>1. /\ DOMAIN map # this.states /\ DOMAIN map \in SUBSET this.states
          /\ \A x \in DOMAIN this.delta : Kept(x)
          /\ this.delta \in [this.states \X Symbol -> this.states]
      BY <2>3, Types DEF Inv, Answered
    <3>2. this.start \in DOMAIN map
      BY DEF Inv, Mapped
    <3>3. ASSUME NEW s \in DOMAIN map, NEW a \in Symbol
          PROVE  this.delta[<<s, a>>] \in DOMAIN map
      <4>1. <<s, a>> \in DOMAIN this.delta
        BY <3>1
      <4>2. Kept(<<s, a>>)
        BY <3>1, <4>1
      <4>3. QED BY <4>2 DEF Kept
    <3>4. QED BY <3>1, <3>2, <3>3 DEF AllReachable
  <2>4. QED BY <2>1, <2>2, <2>3 DEF NoIsRight
<1>2. QED BY EquivalenceInvariance, <1>1, PTL


-----------------------------------------------------------------------------
(* Recursive functions.                                                    *)

\* One symbol further.
Onward(delta, q, a) == IF <<q, a>> \in DOMAIN delta THEN delta[<<q, a>>] ELSE Unknown

\* The transitions lead to states in Q.
LeadsTo(delta, Q) == \A s \in DOMAIN delta : delta[s] \in Q

\* at has the states on the way, as long as there are transitions.
IsWay(at, delta, start, w, Q) ==
  /\ at \in [Nat -> Q \cup {Unknown}]
  /\ at[0] = start
  /\ \A n \in Nat : at[n + 1] = Onward(delta, at[n], w[n + 1])

\* The states on the way are the ones recognize comes to, symbol by symbol.
LEMMA WayUnfolds ==
  ASSUME NEW Q, NEW delta, LeadsTo(delta, Q), NEW start \in Q, NEW w
  PROVE  IsWay(Way(delta, start, w), delta, start, w, Q)
<1> USE DEF LeadsTo
<1> DEFINE S == Q \cup {Unknown}
           F == [p \in Nat \X S |-> Onward(delta, p[2], w[p[1] + 1])]
           Is(f) == f = [n \in Nat |-> IF n = 0 THEN start ELSE Onward(delta, f[n - 1], w[n])]
           at == Way(delta, start, w)
<1>1. Nats!StaysIn(S, start, F)
  BY DEF Nats!StaysIn, Onward
<1>2. PICK f : Nats!Iterates(f, S, start, F)
  <2> HIDE DEF F, S
  <2> QED BY <1>1, Nats!RecursionOnNat
<1>3. f \in [Nat -> S] /\ f[0] = start /\ \A n \in Nat : f[n + 1] = Onward(delta, f[n], w[n + 1])
  BY <1>2 DEF Nats!Iterates
<1>4. Is(f)
  <2>1. ASSUME NEW n \in Nat PROVE f[n] = IF n = 0 THEN start ELSE Onward(delta, f[n - 1], w[n])
    <3>1. CASE n = 0
      BY <3>1, <1>3
    <3>2. CASE n # 0
      <4>1. n - 1 \in Nat /\ (n - 1) + 1 = n
        BY <3>2
      <4> QED BY <4>1, <3>2, <1>3
    <3> QED BY <3>1, <3>2
  <2> QED BY <2>1, <1>3
<1>5. Is(at)
  <2>1. \E g : Is(g)
    BY <1>4
  <2>2. at = CHOOSE g : Is(g)
    BY DEF Way, Onward
  <2> HIDE DEF Is, at
  <2> QED BY <2>1, <2>2
<1> HIDE DEF at
<1>6. at[0] = start
  BY <1>5
<1>7. ASSUME NEW n \in Nat PROVE at[n + 1] = Onward(delta, at[n], w[n + 1])
  BY <1>5
<1>8. at \in [Nat -> S]
  <2> DEFINE T == {n \in Nat : at[n] \in S}
  <2>1. 0 \in T
    BY <1>6
  <2>2. ASSUME NEW n \in Nat, n \in T PROVE n + 1 \in T
    <3>1. at[n + 1] = Onward(delta, at[n], w[n + 1])
      BY <1>7
    <3> QED BY <3>1 DEF Onward
  <2>3. Nat \subseteq T
    <3> HIDE DEF T
    <3> QED BY <2>1, <2>2, Nats!InductionOnNat
  <2> QED BY <2>3, <1>5
<1> QED BY <1>6, <1>7, <1>8 DEF at, IsWay

\* A set that grows with each round within a finite one, and for good stops growing
\* when it does not grow once, has stopped after as many rounds as there are elements.
LEMMA Saturates ==
  ASSUME NEW S, IsFiniteSet(S), NEW f \in [Nat -> SUBSET S],
         \A n \in Nat : f[n] \subseteq f[n + 1],
         \A n \in Nat : f[n + 1] = f[n] => f[(n + 1) + 1] = f[n + 1]
  PROVE  f[Cardinality(S) + 1] = f[Cardinality(S)]
<1> DEFINE T == {n \in Nat : n <= Cardinality(f[n]) \/ f[n + 1] = f[n]}
           N == Cardinality(S)
<1>1. \A n \in Nat : IsFiniteSet(f[n]) /\ Cardinality(f[n]) \in Nat
  BY FS_Subset, FS_CardinalityType
<1>2. N \in Nat
  BY FS_CardinalityType
<1>3. 0 \in T
  BY <1>1
<1>4. ASSUME NEW n \in Nat, n \in T PROVE n + 1 \in T
  <2>1. CASE f[n + 1] = f[n]
    BY <2>1
  <2>2. CASE f[n + 1] # f[n] /\ n <= Cardinality(f[n])
    <3>1. n + 1 \in Nat /\ f[n] \subseteq f[n + 1]
      OBVIOUS
    <3>2. Cardinality(f[n]) <= Cardinality(f[n + 1]) /\ Cardinality(f[n]) # Cardinality(f[n + 1])
      BY <1>1, <2>2, <3>1, FS_Subset
    <3> QED BY <1>1, <2>2, <3>1, <3>2
  <2> QED BY <1>4, <2>1, <2>2
<1>5. N \in T
  <2>1. Nat \subseteq T
    <3> HIDE DEF T
    <3> QED BY <1>3, <1>4, Nats!InductionOnNat
  <2> QED BY <1>2, <2>1
<1>6. CASE N <= Cardinality(f[N])
  <2>1. f[N] \subseteq S /\ f[N + 1] \subseteq S /\ f[N] \subseteq f[N + 1]
    BY <1>2
  <2>2. Cardinality(f[N]) <= N /\ (Cardinality(f[N]) = N => f[N] = S)
    BY <2>1, FS_Subset
  <2>3. f[N] = S
    BY <1>1, <1>2, <1>6, <2>2
  <2> QED BY <2>1, <2>3
<1> QED BY <1>5, <1>6

\* What a round makes of a set of states, as a function of it.
IsRound(G, S) == \A X \in SUBSET S : G[X] \in SUBSET S /\ X \subseteq G[X]

\* f has the sets that the rounds make of B.
AreRounds(f, B, G) == f = [n \in Nat |-> IF n = 0 THEN B ELSE G[f[n - 1]]]

\* The rounds that start with B.
LEMMA RoundsUnfold ==
  ASSUME NEW S, NEW B \in SUBSET S, NEW G, IsRound(G, S)
  PROVE  AreRounds(Rounds(G, B), B, G)
<1> DEFINE F == [p \in Nat \X SUBSET S |-> G[p[2]]]
<1>1. Nats!StaysIn(SUBSET S, B, F)
  BY DEF Nats!StaysIn, IsRound
<1>2. PICK f : Nats!Iterates(f, SUBSET S, B, F)
  <2> HIDE DEF F
  <2> QED BY <1>1, Nats!RecursionOnNat
<1>3. f \in [Nat -> SUBSET S] /\ f[0] = B /\ \A n \in Nat : f[n + 1] = G[f[n]]
  BY <1>2 DEF Nats!Iterates
<1>4. ASSUME NEW n \in Nat PROVE f[n] = IF n = 0 THEN B ELSE G[f[n - 1]]
  <2>1. CASE n = 0
    BY <2>1, <1>3
  <2>2. CASE n # 0
    <3>1. n - 1 \in Nat /\ (n - 1) + 1 = n
      BY <2>2
    <3> QED BY <3>1, <2>2, <1>3
  <2> QED BY <2>1, <2>2
<1>5. \E g : AreRounds(g, B, G)
  BY <1>3, <1>4 DEF AreRounds
<1>6. Rounds(G, B) = CHOOSE g : AreRounds(g, B, G)
  BY DEF Rounds, AreRounds
<1> QED BY <1>5, <1>6

\* L is the least set that has B and is the same after another round.
IsLeast(L, S, B, G) ==
  /\ L \in SUBSET S /\ B \subseteq L /\ G[L] = L
  /\ \A C : B \subseteq C /\ (\A X \in SUBSET S : X \subseteq C => G[X] \subseteq C) => L \subseteq C

\* The rounds end with the least set that has B and is the same after another round.
LEMMA RoundsEnd ==
  ASSUME NEW S, IsFiniteSet(S), NEW B \in SUBSET S, NEW G, IsRound(G, S),
         NEW f, AreRounds(f, B, G)
  PROVE  IsLeast(f[Cardinality(S)], S, B, G)
<1>1. f[0] = B /\ \A n \in Nat : f[n + 1] = G[f[n]]
  BY DEF AreRounds
<1>2. ASSUME NEW n \in Nat PROVE f[n] \in SUBSET S /\ B \subseteq f[n]
  <2> DEFINE T == {i \in Nat : f[i] \in SUBSET S /\ B \subseteq f[i]}
  <2>1. 0 \in T
    BY <1>1
  <2>2. ASSUME NEW i \in Nat, i \in T PROVE i + 1 \in T
    BY <1>1, <2>2 DEF IsRound
  <2>3. Nat \subseteq T
    <3> HIDE DEF T
    <3> QED BY <2>1, <2>2, Nats!InductionOnNat
  <2> QED BY <2>3
<1>3. Cardinality(S) \in Nat
  BY FS_CardinalityType
<1>4. f[Cardinality(S) + 1] = f[Cardinality(S)]
  <2>1. f \in [Nat -> SUBSET S]
    BY <1>2 DEF AreRounds
  <2>2. ASSUME NEW n \in Nat PROVE f[n] \subseteq f[n + 1] /\ (f[n + 1] = f[n] => f[(n + 1) + 1] = f[n + 1])
    BY <1>1, <1>2 DEF IsRound
  <2> QED BY <2>1, <2>2, Saturates
<1>5. ASSUME NEW C, B \subseteq C, \A X \in SUBSET S : X \subseteq C => G[X] \subseteq C,
             NEW n \in Nat
      PROVE  f[n] \subseteq C
  <2> DEFINE T == {i \in Nat : f[i] \subseteq C}
  <2>1. 0 \in T
    BY <1>1, <1>5
  <2>2. ASSUME NEW i \in Nat, i \in T PROVE i + 1 \in T
    BY <1>1, <1>2, <1>5, <2>2
  <2>3. Nat \subseteq T
    <3> HIDE DEF T
    <3> QED BY <2>1, <2>2, Nats!InductionOnNat
  <2> QED BY <2>3
<1> QED BY <1>1, <1>2, <1>3, <1>4, <1>5 DEF IsLeast

-----------------------------------------------------------------------------
(* Live states.                                                            *)

\* mark_live_states finds the least set that has the final states, and every state
\* with a transition to one that it has.
LEMMA MarkedIsLeast ==
  ASSUME NEW d, IsDFA(d)
  PROVE  LET live == MarkLiveStates(d)
         IN  /\ live \subseteq d.states /\ d.final \subseteq live
             /\ \A s \in DOMAIN d.delta : d.delta[s] \in live => s[1] \in live
             /\ \A C : d.final \subseteq C /\ (\A s \in DOMAIN d.delta : d.delta[s] \in C => s[1] \in C) => live \subseteq C
<1> DEFINE S == d.states
           G == [X \in SUBSET S |-> LiveRound(d, X)]
           L == Rounds(G, d.final)[Cardinality(S)]
<1>1. IsFiniteSet(S) /\ d.final \in SUBSET S
  BY DEF IsDFA
<1>2. IsRound(G, S)
  BY DEF IsDFA, IsRound, LiveRound
<1>3. IsLeast(L, S, d.final, G)
  <2> HIDE DEF G, S
  <2> QED BY <1>1, <1>2, RoundsUnfold, RoundsEnd
<1>4. \A s \in DOMAIN d.delta : d.delta[s] \in L => s[1] \in L
  <2> LiveRound(d, L) = L
    BY <1>3 DEF IsLeast
  <2> HIDE DEF L
  <2> QED BY DEF LiveRound
<1>5. ASSUME NEW C, d.final \subseteq C, \A s \in DOMAIN d.delta : d.delta[s] \in C => s[1] \in C
      PROVE  L \subseteq C
  <2>1. \A X \in SUBSET S : X \subseteq C => G[X] \subseteq C
    BY <1>5 DEF LiveRound
  <2> HIDE DEF G, L
  <2> QED BY <1>3, <1>5, <2>1 DEF IsLeast
<1> QED BY <1>3, <1>4, <1>5 DEF MarkLiveStates, IsLeast

\* The states that are come to from q are the least set that has q, and with each state
\* those its transitions lead to.
LEMMA FromIsLeast ==
  ASSUME NEW d, IsDFA(d), NEW q \in d.states
  PROVE  LET from == From(d, q)
         IN  /\ from \subseteq d.states /\ q \in from
             /\ \A s \in DOMAIN d.delta : s[1] \in from => d.delta[s] \in from
             /\ \A C : q \in C /\ (\A s \in DOMAIN d.delta : s[1] \in C => d.delta[s] \in C) => from \subseteq C
<1> DEFINE S == d.states
           G == [X \in SUBSET S |-> ReachRound(d, X)]
           L == Rounds(G, {q})[Cardinality(S)]
<1>1. IsFiniteSet(S) /\ {q} \in SUBSET S
  BY DEF IsDFA
<1>2. IsRound(G, S)
  BY DEF IsDFA, IsRound, ReachRound
<1>3. IsLeast(L, S, {q}, G)
  <2> HIDE DEF G, S
  <2> QED BY <1>1, <1>2, RoundsUnfold, RoundsEnd
<1>4. \A s \in DOMAIN d.delta : s[1] \in L => d.delta[s] \in L
  <2> ReachRound(d, L) = L
    BY <1>3 DEF IsLeast
  <2> HIDE DEF L
  <2> QED BY DEF ReachRound
<1>5. ASSUME NEW C, q \in C, \A s \in DOMAIN d.delta : s[1] \in C => d.delta[s] \in C
      PROVE  L \subseteq C
  <2>1. \A X \in SUBSET S : X \subseteq C => G[X] \subseteq C
    BY <1>5 DEF ReachRound
  <2> HIDE DEF G, L
  <2> QED BY <1>3, <1>5, <2>1 DEF IsLeast
<1> QED BY <1>3, <1>4, <1>5 DEF From, IsLeast

\* What mark_live_states finds, looking back from the final states, are the states from
\* where looking forward finds one.
LEMMA MarkedIsLive ==
  ASSUME NEW d, IsDFA(d)
  PROVE  MarkLiveStates(d) = LiveOf(d)
<1> DEFINE live == MarkLiveStates(d)
<1>1. live \subseteq d.states /\ d.final \subseteq live /\ \A s \in DOMAIN d.delta : d.delta[s] \in live => s[1] \in live
  BY MarkedIsLeast
<1>2. ASSUME NEW q \in d.states, q \notin live PROVE From(d, q) \cap d.final = {}
  <2>1. From(d, q) \subseteq d.states \ live
    <3> DEFINE C == d.states \ live
    <3>1. q \in C /\ \A s \in DOMAIN d.delta : s[1] \in C => d.delta[s] \in C
      BY <1>1, <1>2 DEF IsDFA
    <3> HIDE DEF C
    <3>2. From(d, q) \subseteq C
      BY <3>1, FromIsLeast
    <3> QED BY <3>2 DEF C
  <2> QED BY <1>1, <2>1
<1>3. live \subseteq LiveOf(d)
  <2> DEFINE C == LiveOf(d)
  <2>1. ASSUME NEW q \in d.final PROVE q \in C
    <3>1. q \in d.states
      BY DEF IsDFA
    <3>2. q \in From(d, q)
      BY <3>1, FromIsLeast
    <3> QED BY <3>1, <3>2 DEF LiveOf
  <2>2. ASSUME NEW s \in DOMAIN d.delta, d.delta[s] \in C PROVE s[1] \in C
    <3>1. s[1] \in d.states /\ d.delta[s] \in d.states
      BY DEF IsDFA
    <3>2. d.delta[s] \in From(d, s[1]) /\ \A t \in DOMAIN d.delta : t[1] \in From(d, s[1]) => d.delta[t] \in From(d, s[1])
      BY <3>1, FromIsLeast
    <3>3. From(d, d.delta[s]) \subseteq From(d, s[1])
      BY <3>1, <3>2, FromIsLeast
    <3> QED BY <2>2, <3>1, <3>3 DEF LiveOf
  <2> HIDE DEF C, live
  <2>3. live \subseteq C
    BY <2>1, <2>2, MarkedIsLeast DEF live
  <2> QED BY <2>3 DEF C
<1> QED BY <1>1, <1>2, <1>3 DEF LiveOf

-----------------------------------------------------------------------------
(* The goto table.                                                         *)

\* Without the dead states a walk comes to the same states, as long as they live, and
\* is at an end from the first one that does not.
LEMMA GotoTableWalks ==
  ASSUME NEW d, IsDFA(d), d.live = LiveOf(d), NEW w, NEW n \in Nat
  PROVE  LET at == Way(d.delta, d.start, w)[n + 1]
         IN  Way(GotoTable(d), d.start, w)[n + 1] = IF at \in d.live THEN at ELSE Unknown
<1> DEFINE live == d.live
           pruned == GotoTable(d)
           at == Way(d.delta, d.start, w)
           alive == Way(pruned, d.start, w)
           T == {i \in Nat : alive[i + 1] = IF at[i + 1] \in live THEN at[i + 1] ELSE Unknown}
<1>1. live \subseteq d.states /\ d.states \subseteq Nat /\ Unknown \notin d.states
      /\ d.start \in d.states /\ DOMAIN d.delta \subseteq d.states \X Symbols /\ \A s \in DOMAIN d.delta : d.delta[s] \in d.states
  BY UnknownAssumption DEF IsDFA, LiveOf
<1>2. \A s \in DOMAIN d.delta : d.delta[s] \in live => s[1] \in live
  BY MarkedIsLive, MarkedIsLeast
<1>3. DOMAIN pruned = {s \in DOMAIN d.delta : d.delta[s] \in live} /\ \A s \in DOMAIN pruned : pruned[s] = d.delta[s]
  BY <1>2 DEF GotoTable
<1>4. IsWay(at, d.delta, d.start, w, d.states)
  BY <1>1, WayUnfolds DEF LeadsTo
<1>5. IsWay(alive, pruned, d.start, w, d.states)
  <2>1. LeadsTo(pruned, d.states)
    BY <1>1, <1>3 DEF LeadsTo
  <2> HIDE DEF pruned
  <2> QED BY <1>1, <2>1, WayUnfolds
<1> HIDE DEF live, pruned, at, alive
<1>6. ASSUME NEW q, NEW a PROVE Onward(pruned, q, a) = IF Onward(d.delta, q, a) \in live THEN Onward(d.delta, q, a) ELSE Unknown
  <2>1. CASE <<q, a>> \in DOMAIN d.delta
    BY <1>3, <2>1 DEF Onward
  <2>2. CASE <<q, a>> \notin DOMAIN d.delta
    BY <1>1, <1>3, <2>2 DEF Onward
  <2> QED BY <2>1, <2>2
<1>7. ASSUME NEW q, NEW a, Onward(d.delta, q, a) \in live PROVE q \in live
  <2>1. <<q, a>> \in DOMAIN d.delta
    BY <1>1, <1>7 DEF Onward
  <2> QED BY <1>2, <1>7, <2>1 DEF Onward
<1>8. \A a : Onward(pruned, Unknown, a) = Unknown
  <2>1. \A a : <<Unknown, a>> \notin DOMAIN pruned
    BY <1>1, <1>3
  <2> QED BY <2>1 DEF Onward
<1>9. 0 \in T
  <2>1. at[0] = d.start /\ alive[0] = d.start
    BY <1>4, <1>5 DEF IsWay
  <2>2. at[0 + 1] = Onward(d.delta, at[0], w[0 + 1]) /\ alive[0 + 1] = Onward(pruned, alive[0], w[0 + 1])
    BY <1>4, <1>5 DEF IsWay
  <2> QED BY <1>6, <2>1, <2>2
<1>10. ASSUME NEW i \in Nat, i \in T PROVE i + 1 \in T
  <2> DEFINE a == w[(i + 1) + 1]
             q == at[i + 1]
  <2>1. at[(i + 1) + 1] = Onward(d.delta, q, a) /\ alive[(i + 1) + 1] = Onward(pruned, alive[i + 1], a)
    BY <1>4, <1>5 DEF IsWay
  <2>2. alive[i + 1] = IF q \in live THEN q ELSE Unknown
    BY <1>10
  <2>3. CASE q \in live
    <3>1. alive[(i + 1) + 1] = Onward(pruned, q, a)
      BY <2>1, <2>2, <2>3
    <3> HIDE DEF a, q
    <3> QED BY <1>6, <2>1, <3>1
  <2>4. CASE q \notin live
    <3>1. alive[(i + 1) + 1] = Unknown
      BY <1>8, <2>1, <2>2, <2>4
    <3>2. at[(i + 1) + 1] \notin live
      BY <1>7, <2>1, <2>4
    <3> QED BY <3>1, <3>2
  <2> QED BY <2>3, <2>4
<1>11. n \in T
  <2>1. Nat \subseteq T
    <3> HIDE DEF T
    <3> QED BY <1>9, <1>10, Nats!InductionOnNat
  <2> QED BY <2>1
<1> QED BY <1>11 DEF live, pruned, at, alive

-----------------------------------------------------------------------------
(* Products and complements.                                               *)

\* Words are sequences of symbols.
LEMMA WordsAreSequences ==
  ASSUME NEW w \in Words
  PROVE  Len(w) \in Nat /\ \A i \in 1 .. Len(w) : w[i] \in Symbols
<1>1. PICK m \in 0 .. Longest : w \in [1 .. m -> Symbols]
  BY DEF Words, BoundedSeq, SeqOf
<1>2. m \in Nat
  BY <1>1
<1>3. Len(w) = m
  BY <1>1, <1>2
<1> QED BY <1>1, <1>2, <1>3

\* With all its transitions a DFA comes to a state with every symbol.
LEMMA TotalWalks ==
  ASSUME NEW d, IsDFA(d), Total(d), NEW w \in Words, NEW n \in 0 .. Len(w)
  PROVE  Way(d.delta, d.start, w)[n] \in d.states
<1> DEFINE at == Way(d.delta, d.start, w)
           T == {i \in Nat : i <= Len(w) => at[i] \in d.states}
<1>1. Len(w) \in Nat /\ \A i \in 1 .. Len(w) : w[i] \in Symbols
  BY WordsAreSequences
<1>2. d.start \in d.states /\ LeadsTo(d.delta, d.states)
  BY DEF IsDFA, LeadsTo
<1>3. IsWay(at, d.delta, d.start, w, d.states)
  BY <1>2, WayUnfolds
<1> HIDE DEF at
<1>4. 0 \in T
  BY <1>2, <1>3 DEF IsWay
<1>5. ASSUME NEW i \in Nat, i \in T PROVE i + 1 \in T
  <2> SUFFICES ASSUME i + 1 <= Len(w) PROVE at[i + 1] \in d.states
    OBVIOUS
  <2>1. at[i] \in d.states /\ w[i + 1] \in Symbols
    BY <1>1, <1>5
  <2>2. at[i + 1] = Onward(d.delta, at[i], w[i + 1])
    BY <1>3 DEF IsWay
  <2> QED BY <1>2, <2>1, <2>2 DEF Total, Onward, LeadsTo
<1>6. n \in T
  <2>1. Nat \subseteq T
    <3> HIDE DEF T
    <3> QED BY <1>4, <1>5, Nats!InductionOnNat
  <2> QED BY <1>1, <2>1
<1> QED BY <1>1, <1>6 DEF at

\* How many elements are smaller tells the elements of a set apart, and is less than
\* the number of all of them.
LEMMA RankTellsApart ==
  ASSUME NEW S, S \subseteq Nat, IsFiniteSet(S), NEW x \in S
  PROVE  /\ Cardinality({r \in S : r < x}) \in Nat
         /\ Cardinality({r \in S : r < x}) < Cardinality(S)
         /\ \A y \in S : Cardinality({r \in S : r < x}) = Cardinality({r \in S : r < y}) => x = y
<1> DEFINE Below(y) == {r \in S : r < y}
<1>1. ASSUME NEW A \in SUBSET S, NEW B \in SUBSET S, A \subseteq B, A # B
      PROVE  Cardinality(A) \in Nat /\ Cardinality(B) \in Nat /\ Cardinality(A) < Cardinality(B)
  <2>1. IsFiniteSet(A) /\ IsFiniteSet(B)
    BY FS_Subset
  <2>2. Cardinality(A) \in Nat /\ Cardinality(B) \in Nat
    BY <2>1, FS_CardinalityType
  <2>3. Cardinality(A) <= Cardinality(B) /\ Cardinality(A) # Cardinality(B)
    BY <1>1, <2>1, FS_Subset
  <2> QED BY <2>2, <2>3
<1>2. ASSUME NEW y \in S, NEW z \in S, y < z PROVE Cardinality(Below(y)) < Cardinality(Below(z))
  <2>1. Below(y) \in SUBSET S /\ Below(z) \in SUBSET S /\ y \in Below(z) /\ y \notin Below(y)
    BY <1>2
  <2>2. Below(y) \subseteq Below(z)
    <3> SUFFICES ASSUME NEW r \in S, r < y PROVE r < z
      OBVIOUS
    <3>1. r \in Nat /\ y \in Nat /\ z \in Nat
      OBVIOUS
    <3> QED BY <1>2, <3>1
  <2> HIDE DEF Below
  <2> QED BY <1>1, <2>1, <2>2
<1>3. Below(x) \in SUBSET S /\ x \notin Below(x)
  OBVIOUS
<1>4. Cardinality(Below(x)) \in Nat /\ Cardinality(Below(x)) < Cardinality(S)
  <2> HIDE DEF Below
  <2> QED BY <1>1, <1>3
<1>5. ASSUME NEW y \in S, Cardinality(Below(x)) = Cardinality(Below(y)) PROVE x = y
  <2>1. ~ (x < y) /\ ~ (y < x)
    <3> Cardinality(Below(y)) \in Nat
      BY <1>4, <1>5
    <3> HIDE DEF Below
    <3> QED BY <1>2, <1>4, <1>5
  <2> QED BY <2>1
<1> QED BY <1>4, <1>5

\* A number has one quotient and one remainder.
LEMMA DivisionIsUnique ==
  ASSUME NEW m \in Nat, NEW a \in Nat, NEW b \in Nat, NEW x \in 0 .. m - 1, NEW y \in 0 .. m - 1,
         a * m + x = b * m + y
  PROVE  a = b /\ x = y
<1>1. ASSUME NEW u \in Nat, NEW v \in Nat, u < v PROVE u * m + m <= v * m
  <2>1. PICK k \in Nat : v = u + 1 + k
    <3> v = u + 1 + (v - u - 1) /\ v - u - 1 \in Nat
      BY <1>1
    <3> QED OBVIOUS
  <2>2. v * m = u * m + m + k * m /\ k * m \in Nat /\ u * m \in Nat
    BY <2>1
  <2> QED BY <2>2
<1>2. a * m \in Nat /\ b * m \in Nat
  OBVIOUS
<1>3. ~ (a < b)
  <2> SUFFICES ASSUME a < b PROVE FALSE
    OBVIOUS
  <2>1. a * m + m <= b * m
    BY <1>1
  <2> QED BY <1>2, <2>1
<1>4. ~ (b < a)
  <2> SUFFICES ASSUME b < a PROVE FALSE
    OBVIOUS
  <2>1. b * m + m <= a * m
    BY <1>1
  <2> QED BY <1>2, <2>1
<1>5. a = b
  BY <1>3, <1>4
<1> QED BY <1>2, <1>5

\* get_state_set_product numbers no two pairs the same.
LEMMA PairNumberTellsApart ==
  ASSUME NEW d, IsDFA(d), NEW e, IsDFA(e), NEW p \in d.states \X e.states
  PROVE  /\ PairNumber(d, e, p) \in Nat
         /\ \A r \in d.states \X e.states : PairNumber(d, e, p) = PairNumber(d, e, r) => p = r
<1> DEFINE First(q) == Cardinality({r \in d.states : r < q})
           Second(q) == Cardinality({r \in e.states : r < q})
           m == Cardinality(e.states)
<1>1. d.states \subseteq Nat /\ IsFiniteSet(d.states) /\ e.states \subseteq Nat /\ IsFiniteSet(e.states)
  BY DEF IsDFA
<1>2. m \in Nat
  BY <1>1, FS_CardinalityType
<1>3. ASSUME NEW x \in d.states PROVE First(x) \in Nat /\ \A y \in d.states : First(x) = First(y) => x = y
  BY <1>1, RankTellsApart
<1>4. ASSUME NEW x \in e.states PROVE Second(x) \in 0 .. m - 1 /\ \A y \in e.states : Second(x) = Second(y) => x = y
  BY <1>1, <1>2, RankTellsApart
<1>5. \A r : PairNumber(d, e, r) = First(r[1]) * m + Second(r[2])
  BY DEF PairNumber
<1> HIDE DEF First, Second, m
<1>6. PairNumber(d, e, p) \in Nat
  <2>1. First(p[1]) \in Nat /\ Second(p[2]) \in 0 .. m - 1
    BY <1>3, <1>4
  <2> QED BY <1>2, <1>5, <2>1
<1>7. ASSUME NEW r \in d.states \X e.states, PairNumber(d, e, p) = PairNumber(d, e, r) PROVE p = r
  <2>1. p[1] \in d.states /\ p[2] \in e.states /\ r[1] \in d.states /\ r[2] \in e.states /\ p = <<p[1], p[2]>> /\ r = <<r[1], r[2]>>
    OBVIOUS
  <2>2. First(p[1]) * m + Second(p[2]) = First(r[1]) * m + Second(r[2])
    BY <1>5, <1>7
  <2>3. First(p[1]) = First(r[1]) /\ Second(p[2]) = Second(r[2])
    BY <1>2, <1>3, <1>4, <2>1, <2>2, DivisionIsUnique
  <2>4. p[1] = r[1] /\ p[2] = r[2]
    BY <1>3, <1>4, <2>1, <2>3
  <2> QED BY <2>1, <2>4
<1> QED BY <1>6, <1>7

\* intersect makes a DFA with all its transitions.
LEMMA ProductIsDFA ==
  ASSUME NEW d, IsDFA(d), Total(d), NEW e, IsDFA(e), Total(e)
  PROVE  IsDFA(Product(d, e)) /\ Total(Product(d, e)) /\ Product(d, e).live = Unknown
<1> DEFINE pairs == d.states \X e.states
           Number(p) == PairNumber(d, e, p)
           Pair(n) == CHOOSE p \in pairs : Number(p) = n
           numbers == {Number(p) : p \in pairs}
           product == Product(d, e)
           numbering == [p \in pairs |-> Number(p)]
<1>1. d.states \subseteq Nat /\ IsFiniteSet(d.states) /\ e.states \subseteq Nat /\ IsFiniteSet(e.states)
      /\ d.start \in d.states /\ e.start \in e.states
      /\ (\A s \in d.states \X Symbols : d.delta[s] \in d.states) /\ \A s \in e.states \X Symbols : e.delta[s] \in e.states
  BY DEF IsDFA, Total
<1>2. \A p \in pairs : Number(p) \in Nat
  BY PairNumberTellsApart
<1>3. IsFiniteSet(numbers)
  <2>1. IsFiniteSet(pairs)
    BY <1>1, FS_Product
  <2>2. numbering \in Surjection(pairs, numbers)
    BY DEF Surjection
  <2> HIDE DEF pairs, numbers, numbering
  <2> QED BY <2>1, <2>2, FS_Surjection
<1>4. ASSUME NEW n \in numbers PROVE Pair(n) \in pairs
  <2> HIDE DEF Number, pairs
  <2> QED OBVIOUS
<1>5. ASSUME NEW p \in pairs PROVE Number(p) \in numbers
  OBVIOUS
<1>6. /\ product.states = numbers /\ product.start = Number(<<d.start, e.start>>)
      /\ product.final = {n \in numbers : PairFinal(d, e, Pair(n))}
      /\ product.delta = [s \in numbers \X Symbols |->
                            Number(<<d.delta[<<Pair(s[1])[1], s[2]>>], e.delta[<<Pair(s[1])[2], s[2]>>]>>)]
      /\ product.live = Unknown /\ DOMAIN product = {"states", "start", "final", "delta", "live"}
  BY DEF Product
<1> HIDE DEF product, Number, numbers
<1>7. ASSUME NEW s \in numbers \X Symbols PROVE product.delta[s] \in numbers
  <2>1. Pair(s[1])[1] \in d.states /\ Pair(s[1])[2] \in e.states
    BY <1>4
  <2>2. <<d.delta[<<Pair(s[1])[1], s[2]>>], e.delta[<<Pair(s[1])[2], s[2]>>]>> \in pairs
    BY <1>1, <2>1
  <2> HIDE DEF Pair, pairs
  <2> QED BY <1>5, <1>6, <2>2
<1>8. product.start \in numbers
  BY <1>1, <1>5, <1>6
<1>9. numbers \subseteq Nat
  BY <1>2 DEF numbers
<1> HIDE DEF pairs, Pair
<1>10. DOMAIN product.delta = numbers \X Symbols /\ product.final \subseteq numbers
  BY <1>6
<1>11. IsDFA(product)
  BY <1>3, <1>6, <1>7, <1>8, <1>9, <1>10 DEF IsDFA
<1> QED BY <1>6, <1>10, <1>11 DEF Total, product

\* The product comes to the number of the pair that the two come to.
LEMMA ProductWalks ==
  ASSUME NEW d, IsDFA(d), Total(d), NEW e, IsDFA(e), Total(e), NEW w \in Words, NEW n \in 0 .. Len(w)
  PROVE  Way(Product(d, e).delta, Product(d, e).start, w)[n] =
           PairNumber(d, e, <<Way(d.delta, d.start, w)[n], Way(e.delta, e.start, w)[n]>>)
<1> DEFINE pairs == d.states \X e.states
           Number(p) == PairNumber(d, e, p)
           Pair(k) == CHOOSE p \in pairs : Number(p) = k
           numbers == {Number(p) : p \in pairs}
           product == Product(d, e)
           at == Way(d.delta, d.start, w)
           bt == Way(e.delta, e.start, w)
           pt == Way(product.delta, product.start, w)
           T == {i \in Nat : i <= Len(w) => pt[i] = Number(<<at[i], bt[i]>>)}
<1>1. /\ product.start = Number(<<d.start, e.start>>)
      /\ product.delta = [s \in numbers \X Symbols |->
                            Number(<<d.delta[<<Pair(s[1])[1], s[2]>>], e.delta[<<Pair(s[1])[2], s[2]>>]>>)]
  BY DEF Product
<1>2. \A p, r \in pairs : Number(p) = Number(r) => p = r
  BY PairNumberTellsApart
<1>3. ASSUME NEW p \in pairs PROVE Pair(Number(p)) = p /\ Number(p) \in numbers
  <2>1. Pair(Number(p)) \in pairs /\ Number(Pair(Number(p))) = Number(p)
    <3> HIDE DEF Number, pairs
    <3> QED OBVIOUS
  <2> HIDE DEF Number, pairs, Pair
  <2> QED BY <1>2, <2>1
<1>4. IsWay(at, d.delta, d.start, w, d.states)
  BY WayUnfolds DEF IsDFA, LeadsTo
<1>5. IsWay(bt, e.delta, e.start, w, e.states)
  BY WayUnfolds DEF IsDFA, LeadsTo
<1>6. IsWay(pt, product.delta, product.start, w, product.states)
  <2>1. IsDFA(product)
    BY ProductIsDFA
  <2> HIDE DEF product
  <2> QED BY <2>1, WayUnfolds DEF IsDFA, LeadsTo
<1>7. Len(w) \in Nat /\ \A i \in 1 .. Len(w) : w[i] \in Symbols
  BY WordsAreSequences
<1>8. \A i \in 0 .. Len(w) : at[i] \in d.states /\ bt[i] \in e.states
  BY TotalWalks
<1>9. DOMAIN d.delta = d.states \X Symbols /\ DOMAIN e.delta = e.states \X Symbols
  BY DEF Total
<1> HIDE DEF product, at, bt, pt, Number, Pair, numbers
<1>10. 0 \in T
  BY <1>1, <1>4, <1>5, <1>6 DEF IsWay
<1>11. ASSUME NEW i \in Nat, i \in T PROVE i + 1 \in T
  <2> SUFFICES ASSUME i + 1 <= Len(w) PROVE pt[i + 1] = Number(<<at[i + 1], bt[i + 1]>>)
    OBVIOUS
  <2> DEFINE a == w[i + 1]
             p == <<at[i], bt[i]>>
  <2>1. a \in Symbols /\ at[i] \in d.states /\ bt[i] \in e.states /\ pt[i] = Number(p)
    BY <1>7, <1>8, <1>11
  <2>2. at[i + 1] = d.delta[<<at[i], a>>] /\ bt[i + 1] = e.delta[<<bt[i], a>>]
    BY <1>4, <1>5, <1>9, <2>1 DEF IsWay, Onward
  <2>3. pt[i + 1] = Onward(product.delta, Number(p), a)
    BY <1>6, <2>1 DEF IsWay
  <2>4. p \in pairs /\ Pair(Number(p)) = p /\ Number(p) \in numbers
    BY <1>3, <2>1
  <2>5. <<Number(p), a>> \in DOMAIN product.delta
    BY <1>1, <2>1, <2>4
  <2>6. product.delta[<<Number(p), a>>] = Number(<<d.delta[<<p[1], a>>], e.delta[<<p[2], a>>]>>)
    <3> HIDE DEF p, a
    <3> QED BY <1>1, <2>1, <2>4
  <2> QED BY <2>2, <2>3, <2>5, <2>6 DEF Onward
<1>12. n \in T
  <2>1. Nat \subseteq T
    <3> HIDE DEF T
    <3> QED BY <1>10, <1>11, Nats!InductionOnNat
  <2> QED BY <1>7, <2>1
<1> QED BY <1>7, <1>12 DEF product, at, bt, pt, Number

\* intersect: the product accepts the words that both accept.
LEMMA ProductAccepts ==
  ASSUME NEW d, IsDFA(d), Total(d), NEW e, IsDFA(e), Total(e)
  PROVE  Language(Product(d, e)) = Language(d) \cap Language(e)
<1> SUFFICES ASSUME NEW w \in Words PROVE Recognizes(Product(d, e), w) <=> Recognizes(d, w) /\ Recognizes(e, w)
  BY DEF Language
<1> DEFINE pairs == d.states \X e.states
           Number(p) == PairNumber(d, e, p)
           Pair(k) == CHOOSE p \in pairs : Number(p) = k
           numbers == {Number(p) : p \in pairs}
           p == <<Walk(d.delta, d.start, w), Walk(e.delta, e.start, w)>>
<1>1. Len(w) \in 0 .. Len(w)
  BY WordsAreSequences
<1>2. p \in pairs
  BY <1>1, TotalWalks DEF Walk
<1>3. Walk(Product(d, e).delta, Product(d, e).start, w) = Number(p)
  BY <1>1, ProductWalks DEF Walk
<1>4. Pair(Number(p)) = p /\ Number(p) \in numbers
  <2>1. \A r \in pairs : Number(p) = Number(r) => p = r
    BY <1>2, PairNumberTellsApart
  <2> HIDE DEF Number, pairs, p
  <2> QED BY <1>2, <2>1
<1>5. Product(d, e).final = {n \in numbers : PairFinal(d, e, Pair(n))}
  BY DEF Product
<1>6. Number(p) \in Product(d, e).final <=> PairFinal(d, e, p)
  <2> HIDE DEF Number, Pair, p, numbers
  <2> QED BY <1>4, <1>5
<1>7. PairFinal(d, e, p) <=> Recognizes(d, w) /\ Recognizes(e, w)
  BY DEF PairFinal, Recognizes
<1> HIDE DEF Number, p
<1> QED BY <1>3, <1>6, <1>7 DEF Recognizes

\* complement: it accepts the words that were not accepted.
LEMMA ComplementAccepts ==
  ASSUME NEW d, IsDFA(d), Total(d)
  PROVE  /\ IsDFA(Complement(d)) /\ Complement(d).live = Unknown
         /\ Language(Complement(d)) = Words \ Language(d)
<1>1. /\ Complement(d).states = d.states /\ Complement(d).start = d.start /\ Complement(d).delta = d.delta
      /\ Complement(d).final = d.states \ d.final /\ Complement(d).live = Unknown
      /\ DOMAIN Complement(d) = DOMAIN d
  BY DEF Complement, IsDFA
<1>2. IsDFA(Complement(d))
  BY <1>1 DEF IsDFA
<1>3. ASSUME NEW w \in Words PROVE Recognizes(Complement(d), w) <=> ~ Recognizes(d, w)
  <2>1. Walk(d.delta, d.start, w) \in d.states
    BY WordsAreSequences, TotalWalks DEF Walk
  <2> QED BY <1>1, <2>1 DEF Recognizes
<1> QED BY <1>1, <1>2, <1>3 DEF Language

-----------------------------------------------------------------------------
(* The object.                                                             *)

\* live_states_opt has the live states, unless a mutator was called since.
CacheRight == dfa.live # Unknown /\ ~ changed => dfa.live = LiveOf(dfa)

\* What was served last, and is not forgotten, is what the object has.
ServedIsCached == served # Unknown => served = dfa.live /\ table = GotoTable(dfa)

\* A mutator leaves a DFA.
LEMMA AddNewStateType ==
  ASSUME NEW d, IsDFA(d)
  PROVE  IsDFA([d EXCEPT !.states = @ \cup {Max(@) + 1}])
<1> DEFINE n == Max(d.states) + 1
           new == [d EXCEPT !.states = @ \cup {Max(@) + 1}]
<1>1. d.states \subseteq Nat /\ IsFiniteSet(d.states) /\ d.states # {}
  BY DEF IsDFA
<1>2. \E x \in d.states : \A y \in d.states : x >= y
  <2>1. \E x \in d.states : \A y \in d.states : y <= x
    BY <1>1, FiniteSetHasGreatest
  <2> QED BY <1>1, <2>1
<1>3. n \in Nat
  BY <1>1, <1>2 DEF Max
<1>4. /\ new.states = d.states \cup {n} /\ new.start = d.start /\ new.final = d.final
      /\ new.delta = d.delta /\ new.live = d.live /\ DOMAIN new = DOMAIN d
  BY DEF IsDFA
<1>5. IsFiniteSet(d.states \cup {n})
  BY <1>1, FS_AddElement
<1> HIDE DEF new, n
<1>6. IsDFA(new)
  BY <1>3, <1>4, <1>5 DEF IsDFA
<1> QED BY <1>6 DEF new

\* How many final states are put in place before the one that is not there.
LEMMA FinalStatesBefore ==
  ASSUME NEW S, NEW ss, Len(ss) \in Nat
  PROVE  LET before == CHOOSE n \in 0 .. Len(ss) : (n < Len(ss) => ss[n + 1] \notin S) /\ \A i \in 1 .. n : ss[i] \in S
         IN  \A i \in 1 .. before : ss[i] \in S
<1> DEFINE B == {n \in 0 .. Len(ss) : \A i \in 1 .. n : ss[i] \in S}
<1>1. IsFiniteSet(B)
  <2>1. IsFiniteSet(0 .. Len(ss))
    BY FS_Interval
  <2> QED BY <2>1, FS_Subset
<1>2. B \in SUBSET Nat /\ 0 \in B
  OBVIOUS
<1>3. PICK m \in B : \A n \in B : n <= m
  <2> HIDE DEF B
  <2> QED BY <1>1, <1>2, FiniteSetHasGreatest
<1>4. m < Len(ss) => ss[m + 1] \notin S
  <2> SUFFICES ASSUME m < Len(ss), ss[m + 1] \in S PROVE m + 1 \in B
    BY <1>3
  <2> QED BY <1>3
<1> QED BY <1>3, <1>4

\* Every call leaves a DFA, with what it accepts and what is known of its live states.
LEMMA OperationsInvariant ==
  TypeOK /\ OperationsRight /\ CacheRight /\ ServedIsCached /\ [Next]_vars
    => TypeOK' /\ OperationsRight' /\ CacheRight' /\ ServedIsCached'
<1> SUFFICES ASSUME TypeOK, OperationsRight, CacheRight, ServedIsCached, [Next]_vars
             PROVE  TypeOK' /\ OperationsRight' /\ CacheRight' /\ ServedIsCached'
  OBVIOUS
<1>1. IsDFA(dfa) /\ words = Language(dfa) /\ calls \in Nat
  BY DEF TypeOK, OperationsRight
<1>2. \A d : Language(d) \subseteq Words
  BY DEF Language
<1>3. ASSUME NEW d, IsDFA(d), NEW throws \in BOOLEAN, Mutate(d, throws)
      PROVE  TypeOK' /\ OperationsRight' /\ CacheRight' /\ ServedIsCached'
  BY <1>1, <1>2, <1>3 DEF Mutate, Call, TypeOK, OperationsRight, CacheRight, ServedIsCached
<1>4. CASE AddNewState
  <2>1. IsDFA([dfa EXCEPT !.states = @ \cup {Max(@) + 1}])
    BY <1>1, AddNewStateType
  <2> QED BY <1>3, <1>4, <2>1 DEF AddNewState
<1>5. ASSUME NEW s \in Wanted, ChangeStartState(s)
      PROVE  TypeOK' /\ OperationsRight' /\ CacheRight' /\ ServedIsCached'
  <2> DEFINE new == IF s \in dfa.states THEN [dfa EXCEPT !.start = s] ELSE dfa
  <2>1. IsDFA(new)
    BY <1>1 DEF IsDFA
  <2>2. Mutate(new, s \notin dfa.states) /\ (s \notin dfa.states) \in BOOLEAN
    BY <1>5 DEF ChangeStartState
  <2> HIDE DEF new
  <2> QED BY <1>3, <2>1, <2>2
<1>6. ASSUME NEW s \in Wanted, AddFinalState(s)
      PROVE  TypeOK' /\ OperationsRight' /\ CacheRight' /\ ServedIsCached'
  <2> DEFINE new == IF s \in dfa.states THEN [dfa EXCEPT !.final = @ \cup {s}] ELSE dfa
  <2>1. IsDFA(new)
    BY <1>1 DEF IsDFA
  <2>2. Mutate(new, s \notin dfa.states) /\ (s \notin dfa.states) \in BOOLEAN
    BY <1>6 DEF AddFinalState
  <2> HIDE DEF new
  <2> QED BY <1>3, <2>1, <2>2
<1>7. ASSUME NEW ss \in BoundedSeq(Wanted, 2), ChangeFinalStates(ss)
      PROVE  TypeOK' /\ OperationsRight' /\ CacheRight' /\ ServedIsCached'
  <2> DEFINE before == CHOOSE n \in 0 .. Len(ss) : (n < Len(ss) => ss[n + 1] \notin dfa.states) /\ \A i \in 1 .. n : ss[i] \in dfa.states
             new == [dfa EXCEPT !.final = {ss[i] : i \in 1 .. before}]
  <2>1. Len(ss) \in Nat
    <3> PICK m \in 0 .. 2 : ss \in [1 .. m -> Wanted]
      BY DEF BoundedSeq, SeqOf
    <3> QED OBVIOUS
  <2>2. \A i \in 1 .. before : ss[i] \in dfa.states
    BY <2>1, FinalStatesBefore
  <2>3. Mutate(new, before < Len(ss)) /\ (before < Len(ss)) \in BOOLEAN
    BY <1>7 DEF ChangeFinalStates
  <2> HIDE DEF before
  <2>4. IsDFA(new)
    BY <1>1, <2>2 DEF IsDFA
  <2> HIDE DEF new
  <2> QED BY <1>3, <2>3, <2>4
<1>8. ASSUME NEW e \in Others, Intersect(e)
      PROVE  TypeOK' /\ OperationsRight' /\ CacheRight' /\ ServedIsCached'
  <2>1. IsDFA(e) /\ Total(e)
    BY DFAsAssumption
  <2>2. served' = Unknown /\ calls' = calls + 1 /\ threw' = ~ Total(dfa) /\ changed' = (changed /\ threw')
    BY <1>8 DEF Intersect, Call
  <2>3. CASE Total(dfa)
    <3>1. dfa' = Product(dfa, e) /\ words' = words \cap Language(e)
      BY <1>8, <2>2, <2>3 DEF Intersect
    <3>2. IsDFA(dfa') /\ dfa'.live = Unknown /\ Language(dfa') = words'
      BY <1>1, <2>1, <2>3, <3>1, ProductIsDFA, ProductAccepts
    <3> QED BY <1>1, <1>2, <2>2, <3>2 DEF TypeOK, OperationsRight, CacheRight, ServedIsCached
  <2>4. CASE ~ Total(dfa)
    <3>1. dfa' = dfa /\ words' = words /\ changed' = changed
      BY <1>8, <2>2, <2>4 DEF Intersect, TypeOK
    <3> QED BY <1>1, <2>2, <3>1 DEF TypeOK, OperationsRight, CacheRight, ServedIsCached
  <2> QED BY <2>3, <2>4
<1>9. CASE CallComplement
  <2>1. served' = Unknown /\ calls' = calls + 1 /\ threw' = ~ Total(dfa) /\ changed' = (changed /\ threw')
    BY <1>9 DEF CallComplement, Call
  <2>2. CASE Total(dfa)
    <3>1. dfa' = Complement(dfa) /\ words' = Words \ words
      BY <1>9, <2>1, <2>2 DEF CallComplement
    <3>2. IsDFA(dfa') /\ dfa'.live = Unknown /\ Language(dfa') = words'
      BY <1>1, <2>2, <3>1, ComplementAccepts
    <3> QED BY <1>1, <1>2, <2>1, <3>2 DEF TypeOK, OperationsRight, CacheRight, ServedIsCached
  <2>3. CASE ~ Total(dfa)
    <3>1. dfa' = dfa /\ words' = words /\ changed' = changed
      BY <1>9, <2>1, <2>3 DEF CallComplement, TypeOK
    <3> QED BY <1>1, <2>1, <3>1 DEF TypeOK, OperationsRight, CacheRight, ServedIsCached
  <2> QED BY <2>2, <2>3
<1>10. CASE GetLiveStates
  <2>1. /\ dfa' = Marked(dfa) /\ served' = dfa'.live /\ table' = GotoTable(dfa')
        /\ changed' = (changed /\ dfa.live # Unknown) /\ UNCHANGED <<words, calls, threw>>
    BY <1>10 DEF GetLiveStates
  <2>2. CASE dfa.live # Unknown
    <3>1. dfa' = dfa /\ changed' = changed
      BY <2>1, <2>2 DEF Marked, TypeOK
    <3> QED BY <2>1, <3>1 DEF TypeOK, OperationsRight, CacheRight, ServedIsCached
  <2>3. CASE dfa.live = Unknown
    <3> DEFINE live == MarkLiveStates(dfa)
    <3>1. dfa' = [dfa EXCEPT !.live = live] /\ ~ changed'
      BY <2>1, <2>3 DEF Marked
    <3>2. live \subseteq dfa.states /\ live = LiveOf(dfa)
      BY <1>1, MarkedIsLive DEF LiveOf
    <3> HIDE DEF live
    <3>3. /\ dfa'.states = dfa.states /\ dfa'.start = dfa.start /\ dfa'.final = dfa.final
          /\ dfa'.delta = dfa.delta /\ dfa'.live = live /\ DOMAIN dfa' = DOMAIN dfa
      BY <1>1, <3>1 DEF IsDFA
    <3>4. IsDFA(dfa')
      BY <1>1, <3>2, <3>3 DEF IsDFA
    <3>5. Language(dfa') = Language(dfa)
      BY <3>3 DEF Language, Recognizes
    <3>6. LiveOf(dfa') = LiveOf(dfa)
      BY <3>3 DEF LiveOf, From, ReachRound
    <3> QED BY <1>1, <2>1, <3>1, <3>2, <3>3, <3>4, <3>5, <3>6 DEF TypeOK, OperationsRight, CacheRight, ServedIsCached
  <2> QED BY <2>2, <2>3
<1>11. CASE UNCHANGED vars
  BY <1>11 DEF vars, TypeOK, OperationsRight, CacheRight, ServedIsCached
<1> QED BY <1>4, <1>5, <1>6, <1>7, <1>8, <1>9, <1>10, <1>11 DEF Next

\* The invariant that the theorems rest on.
LEMMA Invariance == Spec => [](TypeOK /\ OperationsRight /\ CacheRight /\ ServedIsCached)
<1>1. Init => TypeOK /\ OperationsRight /\ CacheRight /\ ServedIsCached
  <2> SUFFICES ASSUME Init PROVE TypeOK /\ OperationsRight /\ CacheRight /\ ServedIsCached
    OBVIOUS
  <2>1. IsDFA(dfa) /\ dfa.live = Unknown
    BY DFAsAssumption DEF Init
  <2>2. Language(dfa) \subseteq Words
    BY DEF Language
  <2> QED BY <2>1, <2>2 DEF Init, TypeOK, OperationsRight, CacheRight, ServedIsCached
<1> QED BY <1>1, OperationsInvariant, PTL DEF Spec

\* The object is a DFA after every call, also after one that throws.
THEOREM TypeCorrect == Spec => []TypeOK
BY Invariance, PTL

\* The automaton accepts what the calls that made it were meant to make of the words
\* accepted before: the words both accept, the ones it did not accept.
THEOREM OperationsCorrect == Spec => []OperationsRight
BY Invariance, PTL

\* get_live_states returns the states from where a final state can be reached, and in the
\* goto table without the others a walk fails as soon as no word begins so: as long as no
\* mutator was called since the states were first asked for.
THEOREM LiveStatesCorrect == Spec => []LiveStatesRight
<1>1. TypeOK /\ CacheRight /\ ServedIsCached => LiveStatesRight
  <2> SUFFICES ASSUME TypeOK, CacheRight, ServedIsCached, served # Unknown, ~ changed
               PROVE  /\ served = LiveOf(dfa)
                      /\ \A w \in Words \ {<<>>} : (Walk(table, dfa.start, w) # Unknown) = (Walk(dfa.delta, dfa.start, w) \in served)
    BY DEF LiveStatesRight
  <2>1. IsDFA(dfa) /\ served = dfa.live /\ table = GotoTable(dfa)
    BY DEF TypeOK, ServedIsCached
  <2>2. dfa.live = LiveOf(dfa)
    BY <2>1 DEF CacheRight
  <2>3. ASSUME NEW w \in Words, w # <<>>
        PROVE  (Walk(table, dfa.start, w) # Unknown) = (Walk(dfa.delta, dfa.start, w) \in served)
    <3> DEFINE at == Walk(dfa.delta, dfa.start, w)
    <3>1. Len(w) - 1 \in Nat /\ (Len(w) - 1) + 1 = Len(w)
      <4>1. PICK m \in 0 .. Longest : w \in [1 .. m -> Symbols]
        BY DEF Words, BoundedSeq, SeqOf
      <4>2. CASE m = 0
        <5>1. w = <<>>
          BY <4>1, <4>2
        <5> QED BY <2>3, <5>1
      <4>3. CASE m # 0
        BY <4>1, <4>3
      <4> QED BY <4>2, <4>3
    <3>2. Walk(table, dfa.start, w) = IF at \in dfa.live THEN at ELSE Unknown
      BY <2>1, <2>2, <3>1, GotoTableWalks DEF Walk
    <3>3. at \in dfa.live => at # Unknown
      BY <2>1, <2>2, UnknownAssumption DEF LiveOf, IsDFA
    <3> HIDE DEF at
    <3> QED BY <2>1, <3>2, <3>3 DEF at
  <2> QED BY <2>1, <2>2, <2>3
<1> QED BY <1>1, Invariance, PTL
=============================================================================

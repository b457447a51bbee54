---------------------------- MODULE LRParser_proofs ----------------------------
(***************************************************************************)
(* That the stack of parse and the viable prefix of get_parse_tree keep    *)
(* step, that a tree is one of the word that was parsed, and that no       *)
(* symbol is shifted that no word has there: for all grammars and words,   *)
(* for the kinds of LR grammars, also with a table that an exception left  *)
(* unfinished. And that a table that was finished turns down no word of    *)
(* the grammar.                                                            *)
(***************************************************************************)
EXTENDS LRParser, ContextFree_proofs

-----------------------------------------------------------------------------
(* Items and closures.                                                     *)

\* The items of some productions.
ItemsOver(P) ==
  {x \in [head : NonTerminal, body : Seq(GrammarSymbol), dot : Nat, ahead : SUBSET Lookahead] :
     ProductionOf(x) \in P /\ x.dot <= Len(x.body)}

\* What the constructor leaves, and normalize_start_symbol after it.
Wellformed(g) ==
  /\ IsFiniteSet(g.productions)
  /\ Typed(g.productions)
  /\ \A p \in g.productions : p = [head |-> p.head, body |-> p.body]

\* A finite number of productions has a finite number of heads.
LEMMA HeadsFinite ==
  ASSUME NEW P, IsFiniteSet(P)
  PROVE  IsFiniteSet(Heads(P))
<1> DEFINE f == [p \in P |-> p.head]
<1>1. f \in Surjection(P, Heads(P))
  BY DEF Surjection, Heads
<1> HIDE DEF f
<1> QED BY <1>1, FS_Surjection

\* One round of the epsilon closure of the NFA of items.
Predict(g, kind, items) == items \cup UNION {Predicted(g, kind, item) : item \in items}

\* The rounds of a closure.
Rounds(g) == Cardinality(Heads(g.productions)) * (Cardinality(Lookahead) + 2)

\* The steps of a closure, gone on with forever.
IsClosing(c, g, kind, items, Q) ==
  c \in [Nat -> SUBSET Q] /\ c[0] = items /\ \A n \in Nat : c[n + 1] = Predict(g, kind, c[n])

\* There is a finite number of lookahead symbols.
LEMMA LookaheadFinite == IsFiniteSet(Lookahead) /\ Cardinality(Lookahead) \in Nat
<1>1. IsFiniteSet({EndMarker}) /\ IsFiniteSet(Terminal)
  BY FS_Singleton, SymbolsAssumption, FS_Subset DEF GrammarSymbol
<1>2. IsFiniteSet(Lookahead)
  BY <1>1, FS_Union DEF Lookahead
<1> QED BY <1>2, FS_CardinalityType

\* A closure is what they have come to after its rounds.
LEMMA ClosureSteps ==
  ASSUME NEW g, IsFiniteSet(g.productions), NEW kind, NEW items, NEW Q,
         items \subseteq Q, \A item \in Q : Predicted(g, kind, item) \subseteq Q
  PROVE  \E c : IsClosing(c, g, kind, items, Q) /\ Closure(g, kind, items) = c[Rounds(g)]
<1> DEFINE rounds == Rounds(g)
           S == SUBSET Q
           F == [x \in Nat \X S |-> Predict(g, kind, x[2])]
           Is(f) == f = [n \in 0 .. rounds |-> IF n = 0 THEN items ELSE Predict(g, kind, f[n - 1])]
           closure == CHOOSE f : Is(f)
<1>1. Closure(g, kind, items) = closure[rounds]
  BY DEF Closure, Predict, Rounds
<1>0. rounds \in Nat
  <2>1. Cardinality(Heads(g.productions)) \in Nat
    BY HeadsFinite, FS_CardinalityType
  <2> QED BY <2>1, LookaheadFinite DEF Rounds
<1> HIDE DEF rounds
<1>2. PICK f : Iterates(f, S, items, F)
  <2>1. StaysIn(S, items, F)
    <3>1. ASSUME NEW k \in Nat, NEW x \in S PROVE F[<<k, x>>] \in S
      <4>1. F[<<k, x>>] = Predict(g, kind, x)
        OBVIOUS
      <4>2. Predict(g, kind, x) \subseteq Q
        BY DEF Predict
      <4> QED BY <4>1, <4>2
    <3> HIDE DEF F
    <3> QED BY <3>1 DEF StaysIn
  <2> HIDE DEF S, F
  <2> QED BY <2>1, RecursionOnNat
<1>3. f \in [Nat -> S] /\ f[0] = items /\ \A k \in Nat : f[k + 1] = Predict(g, kind, f[k])
  <2>1. f \in [Nat -> S] /\ f[0] = items /\ \A k \in Nat : f[k + 1] = F[<<k, f[k]>>]
    BY <1>2 DEF Iterates
  <2>2. ASSUME NEW k \in Nat PROVE F[<<k, f[k]>>] = Predict(g, kind, f[k])
    <3>1. f[k] \in S
      BY <2>1
    <3> HIDE DEF S
    <3> QED BY <3>1
  <2> QED BY <2>1, <2>2
<1>4. \E h : Is(h)
  <2> PICK h : h = [n \in 0 .. rounds |-> f[n]]
    OBVIOUS
  <2>1. ASSUME NEW n \in 0 .. rounds PROVE h[n] = IF n = 0 THEN items ELSE Predict(g, kind, h[n - 1])
    <3>1. CASE n = 0
      BY <1>3, <3>1
    <3>2. CASE n # 0
      <4>1. n - 1 \in Nat /\ n - 1 \in 0 .. rounds /\ (n - 1) + 1 = n
        BY <3>2, <1>0
      <4>2. f[(n - 1) + 1] = Predict(g, kind, f[n - 1])
        BY <4>1, <1>3
      <4>3. h[n] = f[n] /\ h[n - 1] = f[n - 1]
        BY <4>1
      <4> QED BY <3>2, <4>1, <4>2, <4>3
    <3> QED BY <3>1, <3>2
  <2>2. Is(h)
    BY <2>1
  <2> QED BY <2>2
<1>5. Is(closure)
  <2> HIDE DEF Is
  <2> QED BY <1>4
<1>6. closure[0] = items /\ \A n \in Nat : n + 1 <= rounds => closure[n + 1] = Predict(g, kind, closure[n])
  <2> HIDE DEF closure
  <2>1. closure[0] = items
    BY <1>0, <1>5
  <2>2. ASSUME NEW n \in Nat, n + 1 <= rounds PROVE closure[n + 1] = Predict(g, kind, closure[n])
    <3>1. n + 1 \in 0 .. rounds /\ n + 1 # 0 /\ (n + 1) - 1 = n
      BY <2>2, <1>0
    <3>2. closure[n + 1] = Predict(g, kind, closure[(n + 1) - 1])
      BY <1>5, <3>1
    <3> QED BY <3>1, <3>2
  <2> QED BY <2>1, <2>2
<1> DEFINE Same == {n \in Nat : n <= rounds => closure[n] = f[n]}
<1> HIDE DEF closure, S
<1>7. 0 \in Same
  BY <1>3, <1>6
<1>8. ASSUME NEW n \in Nat, n \in Same PROVE n + 1 \in Same
  <2> SUFFICES ASSUME n + 1 <= rounds PROVE closure[n + 1] = f[n + 1]
    OBVIOUS
  <2>1. closure[n] = f[n]
    BY <1>0, <1>8
  <2> QED BY <2>1, <1>3, <1>6
<1>9. Nat \subseteq Same
  <2> HIDE DEF Same
  <2> QED BY <1>7, <1>8, InductionOnNat
<1>10. closure[rounds] = f[rounds]
  BY <1>0, <1>9
<1>11. IsClosing(f, g, kind, items, Q)
  BY <1>3 DEF IsClosing, S
<1> QED BY <1>1, <1>10, <1>11 DEF rounds

\* Nothing is reached from items in Q but items in Q.
LEMMA ClosureStaysIn ==
  ASSUME NEW g, IsFiniteSet(g.productions), NEW kind, NEW items, NEW Q,
         items \subseteq Q, \A item \in Q : Predicted(g, kind, item) \subseteq Q
  PROVE  /\ items \subseteq Closure(g, kind, items)
         /\ Closure(g, kind, items) \subseteq Q
<1>1. PICK c : IsClosing(c, g, kind, items, Q) /\ Closure(g, kind, items) = c[Rounds(g)]
  BY ClosureSteps
<1>2. Rounds(g) \in Nat
  <2>1. Cardinality(Heads(g.productions)) \in Nat
    BY HeadsFinite, FS_CardinalityType
  <2> QED BY <2>1, LookaheadFinite DEF Rounds
<1> DEFINE Kept == {n \in Nat : items \subseteq c[n]}
<1>3. 0 \in Kept
  BY <1>1 DEF IsClosing
<1>4. ASSUME NEW n \in Nat, n \in Kept PROVE n + 1 \in Kept
  BY <1>1, <1>4 DEF IsClosing, Predict
<1>5. Nat \subseteq Kept
  <2> HIDE DEF Kept
  <2> QED BY <1>3, <1>4, InductionOnNat
<1>6. c[Rounds(g)] \in SUBSET Q
  BY <1>1, <1>2 DEF IsClosing
<1> QED BY <1>1, <1>2, <1>5, <1>6

\* Items that predictions make: of heads that stand in a body.
Fresh(P) == {x \in ItemsOver(P) : x.dot = 0 /\ \E p \in P : x.head \in SymbolsOf(p.body)}

\* The parts of an item.
LEMMA ItemParts ==
  ASSUME NEW P, NEW x \in ItemsOver(P)
  PROVE  /\ x.head \in NonTerminal /\ x.body \in Seq(GrammarSymbol) /\ x.dot \in 0 .. Len(x.body)
         /\ x.ahead \in SUBSET Lookahead /\ ProductionOf(x) \in P
         /\ x = Item(x.head, x.body, x.dot, x.ahead)
BY DEF ItemsOver, Item

\* A prediction for an item is fresh.
LEMMA PredictedFresh ==
  ASSUME NEW g, Wellformed(g), NEW kind, NEW item \in ItemsOver(g.productions)
  PROVE  Predicted(g, kind, item) \subseteq Fresh(g.productions)
<1> DEFINE P == g.productions
           A == UnderDot(item)
           ahead == IF WithAhead(kind) THEN FollowOfDot(g, item) ELSE {}
<1> SUFFICES ASSUME NEW x \in Predicted(g, kind, item) PROVE x \in Fresh(P)
  OBVIOUS
<1>1. ~ Completed(item) /\ A \notin Terminal /\ \E body \in Bodies(P, A) : x = Item(A, body, 0, ahead)
  BY DEF Predicted
<1>2. PICK body \in Bodies(P, A) : x = Item(A, body, 0, ahead)
  BY <1>1
<1>3. PICK p \in P : p.head = A /\ p.body = body
  BY <1>2 DEF Bodies
<1>4. item.dot + 1 \in DOMAIN item.body /\ ProductionOf(item) \in P
  <2>1. item.dot \in 0 .. Len(item.body) /\ item.dot # Len(item.body) /\ item.body \in Seq(GrammarSymbol)
    BY <1>1, ItemParts DEF Completed
  <2>2. item.dot + 1 \in 1 .. Len(item.body)
    BY <2>1
  <2> QED BY <2>1, <2>2, ItemParts
<1>5. A \in SymbolsOf(ProductionOf(item).body)
  BY <1>4 DEF UnderDot, SymbolsOf, ProductionOf
<1>6. A \in NonTerminal /\ body \in Seq(GrammarSymbol) /\ [head |-> A, body |-> body] \in P
  BY <1>3 DEF Wellformed, Typed
<1>7. ahead \in SUBSET Lookahead
  <2>1. First(g, Rest(item.body, item.dot + 1)) \subseteq Terminal
    BY DEF First
  <2>2. item.ahead \subseteq Lookahead
    BY ItemParts
  <2>3. FollowOfDot(g, item) \subseteq Lookahead
    BY <2>1, <2>2 DEF FollowOfDot, Lookahead
  <2> QED BY <2>3
<1> HIDE DEF A, ahead
<1>8. Len(body) \in Nat
  BY <1>6
<1>9. /\ x \in [head : NonTerminal, body : Seq(GrammarSymbol), dot : Nat, ahead : SUBSET Lookahead]
      /\ x.head = A /\ x.body = body /\ x.dot = 0
  BY <1>2, <1>6, <1>7 DEF Item
<1>10. x \in ItemsOver(P)
  BY <1>6, <1>8, <1>9 DEF ItemsOver, ProductionOf
<1> QED BY <1>4, <1>5, <1>9, <1>10 DEF Fresh

\* The items a state begins with.
Begun(g, kind) ==
  {Item(g.start, body, 0, IF WithAhead(kind) THEN {EndMarker} ELSE {}) : body \in Bodies(g.productions, g.start)}

\* The start state has no more than these and fresh items.
LEMMA StartStateItems ==
  ASSUME NEW g, Wellformed(g), NEW kind
  PROVE  /\ Begun(g, kind) \subseteq ItemsOver(g.productions)
         /\ Begun(g, kind) \subseteq StartState(g, kind)
         /\ StartState(g, kind) \subseteq Begun(g, kind) \cup Fresh(g.productions)
<1> DEFINE P == g.productions
           Q == Begun(g, kind) \cup Fresh(P)
<1>1. Begun(g, kind) \subseteq ItemsOver(P)
  <2> SUFFICES ASSUME NEW x \in Begun(g, kind) PROVE x \in ItemsOver(P)
    OBVIOUS
  <2> DEFINE ahead == IF WithAhead(kind) THEN {EndMarker} ELSE {}
  <2>1. PICK body \in Bodies(P, g.start) : x = Item(g.start, body, 0, ahead)
    BY DEF Begun
  <2>2. PICK p \in P : p.head = g.start /\ p.body = body
    BY <2>1 DEF Bodies
  <2>3. g.start \in NonTerminal /\ body \in Seq(GrammarSymbol) /\ [head |-> g.start, body |-> body] \in P
    BY <2>2 DEF Wellformed, Typed
  <2>4. ahead \in SUBSET Lookahead /\ Len(body) \in Nat
    BY <2>3 DEF Lookahead
  <2> HIDE DEF ahead
  <2>5. /\ x \in [head : NonTerminal, body : Seq(GrammarSymbol), dot : Nat, ahead : SUBSET Lookahead]
        /\ x.head = g.start /\ x.body = body /\ x.dot = 0
    BY <2>1, <2>3, <2>4 DEF Item
  <2> QED BY <2>3, <2>4, <2>5 DEF ItemsOver, ProductionOf
<1>2. \A item \in Q : Predicted(g, kind, item) \subseteq Q
  BY <1>1, PredictedFresh DEF Fresh
<1>3. StartState(g, kind) = Closure(g, kind, Begun(g, kind))
  BY DEF StartState, Begun
<1>4. IsFiniteSet(P)
  BY DEF Wellformed
<1>5. Begun(g, kind) \subseteq Q
  OBVIOUS
<1>6. Begun(g, kind) \subseteq Closure(g, kind, Begun(g, kind)) /\ Closure(g, kind, Begun(g, kind)) \subseteq Q
  <2> HIDE DEF Q
  <2> QED BY <1>2, <1>4, <1>5, ClosureStaysIn
<1> QED BY <1>1, <1>3, <1>6

\* The items of a state with X after the dot, the dot moved over it.
Gone(state, X) == {Go(item) : item \in {i \in state : ~ Completed(i) /\ UnderDot(i) = X}}

\* Moving the dot.
LEMMA GoneItems ==
  ASSUME NEW P, NEW state \in SUBSET ItemsOver(P), NEW X
  PROVE  \A x \in Gone(state, X) :
           /\ x \in ItemsOver(P) /\ x.dot \in 1 .. Len(x.body) /\ x.body[x.dot] = X
           /\ \E y \in state : y.head = x.head /\ y.body = x.body /\ y.dot = x.dot - 1 /\ y.ahead = x.ahead
<1> TAKE x \in Gone(state, X)
<1>1. PICK y \in state : ~ Completed(y) /\ UnderDot(y) = X /\ x = Go(y)
  BY DEF Gone
<1>2. /\ y.head \in NonTerminal /\ y.body \in Seq(GrammarSymbol) /\ y.dot \in 0 .. Len(y.body)
      /\ y.ahead \in SUBSET Lookahead /\ ProductionOf(y) \in P
      /\ y = Item(y.head, y.body, y.dot, y.ahead)
  BY ItemParts
<1>3. x = Item(y.head, y.body, y.dot + 1, y.ahead)
  BY <1>1, <1>2 DEF Go, Item
<1>4. x.head = y.head /\ x.body = y.body /\ x.dot = y.dot + 1 /\ x.ahead = y.ahead
  BY <1>3 DEF Item
<1>5. y.dot + 1 \in 1 .. Len(y.body) /\ Len(y.body) \in Nat
  BY <1>1, <1>2 DEF Completed
<1>6. x \in ItemsOver(P)
  <2>1. x \in [head : NonTerminal, body : Seq(GrammarSymbol), dot : Nat, ahead : SUBSET Lookahead]
    BY <1>2, <1>3, <1>5 DEF Item
  <2> QED BY <1>2, <1>4, <1>5, <2>1 DEF ItemsOver, ProductionOf
<1>7. y.dot = x.dot - 1
  BY <1>2, <1>4
<1> QED BY <1>1, <1>4, <1>5, <1>6, <1>7 DEF UnderDot

\* A transition leads to items whose dot has moved and fresh items.
LEMMA GotoItems ==
  ASSUME NEW g, Wellformed(g), NEW kind, NEW state \in SUBSET ItemsOver(g.productions), NEW X
  PROVE  /\ Gone(state, X) \subseteq Goto(g, kind, state, X)
         /\ Goto(g, kind, state, X) \subseteq Gone(state, X) \cup Fresh(g.productions)
<1> DEFINE P == g.productions
           Q == Gone(state, X) \cup Fresh(P)
<1>1. Goto(g, kind, state, X) = Closure(g, kind, Gone(state, X))
  BY DEF Goto, Gone
<1>2. \A item \in Q : Predicted(g, kind, item) \subseteq Q
  BY GoneItems, PredictedFresh DEF Fresh
<1>3. IsFiniteSet(P) /\ Gone(state, X) \subseteq Q
  BY DEF Wellformed
<1> HIDE DEF Q
<1>4. Gone(state, X) \subseteq Closure(g, kind, Gone(state, X)) /\ Closure(g, kind, Gone(state, X)) \subseteq Q
  BY <1>2, <1>3, ClosureStaysIn
<1> QED BY <1>1, <1>4 DEF Q

-----------------------------------------------------------------------------
(* The states of the DK automaton.                                         *)

\* Items among which those of the states are.
Holds(Q, g, kind) ==
  /\ Q \in SUBSET ItemsOver(g.productions)
  /\ Begun(g, kind) \subseteq Q /\ Fresh(g.productions) \subseteq Q
  /\ \A X : Gone(Q, X) \subseteq Q

\* Sets of them that the start state and transitions are.
IsState(g, kind, Q, I) ==
  /\ I \in SUBSET Q
  /\ \/ I = StartState(g, kind)
     \/ \E J \in SUBSET Q, X \in GrammarSymbol : I = Goto(g, kind, J, X)

\* One step further into the automaton.
Farther(g, kind, before) ==
  [seen |-> before.seen \cup before.new,
   new |-> {Goto(g, kind, I, X) : I \in before.new, X \in GrammarSymbol} \ (before.seen \cup before.new)]

\* The states that are reached are such sets, and there is a finite number of them.
LEMMA ReachedAreStates ==
  ASSUME NEW g, Wellformed(g), NEW kind, NEW steps \in Nat, NEW Q, Holds(Q, g, kind)
  PROVE  /\ IsFiniteSet(ReachedStates(g, kind, steps))
         /\ \A I \in ReachedStates(g, kind, steps) : IsState(g, kind, Q, I)
<1> DEFINE P == g.productions
           Z == {I \in SUBSET Q : IsState(g, kind, Q, I)}
           S == {r \in [seen : SUBSET Z, new : SUBSET Z] : IsFiniteSet(r.seen) /\ IsFiniteSet(r.new)}
           base == [seen |-> {}, new |-> {StartState(g, kind)}]
           F == [x \in Nat \X S |-> Farther(g, kind, x[2])]
           Is(f) == f = [n \in 0 .. steps |-> IF n = 0 THEN base ELSE Farther(g, kind, f[n - 1])]
           step == CHOOSE f : Is(f)
<1>1. ReachedStates(g, kind, steps) = step[steps].seen
  BY DEF ReachedStates, Farther
<1>2. base \in S
  <2>1. StartState(g, kind) \in SUBSET Q
    BY StartStateItems DEF Holds
  <2>2. StartState(g, kind) \in Z
    BY <2>1 DEF IsState
  <2>3. IsFiniteSet({}) /\ IsFiniteSet({StartState(g, kind)})
    BY FS_EmptySet, FS_Singleton
  <2>4. base.seen = {} /\ base.new = {StartState(g, kind)} /\ base \in [seen : SUBSET Z, new : SUBSET Z]
    <3> HIDE DEF Z
    <3> QED BY <2>2
  <2> HIDE DEF base, Z
  <2> QED BY <2>3, <2>4
<1>3. ASSUME NEW r \in S PROVE Farther(g, kind, r) \in S
  <2> DEFINE seen == r.seen \cup r.new
             all == {Goto(g, kind, I, X) : I \in r.new, X \in GrammarSymbol}
             f == [x \in r.new \X GrammarSymbol |-> Goto(g, kind, x[1], x[2])]
  <2>1. r.seen \in SUBSET Z /\ r.new \in SUBSET Z /\ IsFiniteSet(r.seen) /\ IsFiniteSet(r.new)
    OBVIOUS
  <2>2. ASSUME NEW I \in r.new, NEW X \in GrammarSymbol PROVE Goto(g, kind, I, X) \in Z
    <3>1. I \in SUBSET Q /\ I \in SUBSET ItemsOver(P)
      BY <2>1 DEF Holds
    <3>2. Gone(I, X) \subseteq Q
      <4>1. Gone(I, X) \subseteq Gone(Q, X)
        BY <3>1 DEF Gone
      <4> QED BY <4>1 DEF Holds
    <3>3. Goto(g, kind, I, X) \in SUBSET Q
      BY <3>1, <3>2, GotoItems DEF Holds
    <3> QED BY <3>1, <3>3 DEF IsState
  <2>3. IsFiniteSet(all)
    <3>1. f \in Surjection(r.new \X GrammarSymbol, all)
      <4>1. ASSUME NEW x \in r.new \X GrammarSymbol PROVE f[x] \in all
        <5>1. x[1] \in r.new /\ x[2] \in GrammarSymbol /\ f[x] = Goto(g, kind, x[1], x[2])
          OBVIOUS
        <5> HIDE DEF f
        <5> QED BY <5>1
      <4>2. ASSUME NEW y \in all PROVE \E x \in r.new \X GrammarSymbol : f[x] = y
        <5>1. PICK I \in r.new, X \in GrammarSymbol : y = Goto(g, kind, I, X)
          OBVIOUS
        <5>2. <<I, X>> \in r.new \X GrammarSymbol /\ f[<<I, X>>] = Goto(g, kind, I, X)
          OBVIOUS
        <5> QED BY <5>1, <5>2
      <4>3. f = [x \in r.new \X GrammarSymbol |-> f[x]]
        OBVIOUS
      <4> HIDE DEF f, all
      <4>4. f \in [r.new \X GrammarSymbol -> all]
        BY <4>1, <4>3
      <4> QED BY <4>2, <4>4 DEF Surjection
    <3>2. IsFiniteSet(r.new \X GrammarSymbol)
      BY <2>1, SymbolsAssumption, FS_Product
    <3> HIDE DEF f, all
    <3> QED BY <3>1, <3>2, FS_Surjection
  <2>4. all \subseteq Z
    BY <2>2
  <2>5. IsFiniteSet(seen) /\ IsFiniteSet(all \ seen)
    <3>1. IsFiniteSet(seen)
      BY <2>1, FS_Union
    <3> HIDE DEF seen, all
    <3>2. all \ seen \subseteq all
      OBVIOUS
    <3> QED BY <3>1, <3>2, <2>3, FS_Subset
  <2>6. Farther(g, kind, r) = [seen |-> seen, new |-> all \ seen]
    BY DEF Farther
  <2>7. seen \subseteq Z
    BY <2>1
  <2> HIDE DEF seen, all, Z
  <2>8. [seen |-> seen, new |-> all \ seen] \in [seen : SUBSET Z, new : SUBSET Z]
    BY <2>4, <2>7
  <2> QED BY <2>5, <2>6, <2>8
<1>4. PICK f : Iterates(f, S, base, F)
  <2>1. StaysIn(S, base, F)
    <3>1. ASSUME NEW k \in Nat, NEW x \in S PROVE F[<<k, x>>] \in S
      <4> HIDE DEF S
      <4>1. F[<<k, x>>] = Farther(g, kind, x)
        OBVIOUS
      <4> QED BY <4>1, <1>3
    <3> HIDE DEF F, S, base
    <3> QED BY <1>2, <3>1 DEF StaysIn
  <2> HIDE DEF S, F, base
  <2> QED BY <2>1, RecursionOnNat
<1>5. f \in [Nat -> S] /\ f[0] = base /\ \A k \in Nat : f[k + 1] = Farther(g, kind, f[k])
  <2> HIDE DEF S, base
  <2>1. f \in [Nat -> S] /\ f[0] = base /\ \A k \in Nat : f[k + 1] = F[<<k, f[k]>>]
    BY <1>4 DEF Iterates
  <2>2. ASSUME NEW k \in Nat PROVE F[<<k, f[k]>>] = Farther(g, kind, f[k])
    <3>1. f[k] \in S
      BY <2>1
    <3> QED BY <3>1
  <2> QED BY <2>1, <2>2
<1> HIDE DEF S, base, F
<1>6. \E h : Is(h)
  <2> PICK h : h = [n \in 0 .. steps |-> f[n]]
    OBVIOUS
  <2>1. ASSUME NEW n \in 0 .. steps PROVE h[n] = IF n = 0 THEN base ELSE Farther(g, kind, h[n - 1])
    <3>1. CASE n = 0
      BY <1>5, <3>1
    <3>2. CASE n # 0
      <4>1. n - 1 \in Nat /\ n - 1 \in 0 .. steps /\ (n - 1) + 1 = n
        BY <3>2
      <4>2. f[(n - 1) + 1] = Farther(g, kind, f[n - 1])
        BY <4>1, <1>5
      <4>3. h[n] = f[n] /\ h[n - 1] = f[n - 1]
        BY <4>1
      <4> QED BY <3>2, <4>1, <4>2, <4>3
    <3> QED BY <3>1, <3>2
  <2>2. Is(h)
    BY <2>1
  <2> QED BY <2>2
<1>7. Is(step)
  <2> HIDE DEF Is
  <2> QED BY <1>6
<1> DEFINE Kept == {n \in Nat : n <= steps => step[n] \in S}
<1> HIDE DEF step
<1>8. 0 \in Kept
  <2>1. step[0] = base
    BY <1>7
  <2> QED BY <2>1, <1>2
<1>9. ASSUME NEW n \in Nat, n \in Kept PROVE n + 1 \in Kept
  <2> SUFFICES ASSUME n + 1 <= steps PROVE step[n + 1] \in S
    OBVIOUS
  <2>1. n + 1 \in 0 .. steps /\ n + 1 # 0 /\ (n + 1) - 1 = n /\ n <= steps
    OBVIOUS
  <2>2. step[n + 1] = Farther(g, kind, step[(n + 1) - 1])
    BY <1>7, <2>1
  <2>3. step[n] \in S
    BY <1>9, <2>1
  <2> QED BY <1>3, <2>1, <2>2, <2>3
<1>10. Nat \subseteq Kept
  <2> HIDE DEF Kept
  <2> QED BY <1>8, <1>9, InductionOnNat
<1>11. step[steps] \in S
  BY <1>10
<1> QED BY <1>1, <1>11 DEF S

\* All items are such.
LEMMA ItemsHold ==
  ASSUME NEW g, Wellformed(g), NEW kind
  PROVE  Holds(ItemsOver(g.productions), g, kind)
<1> DEFINE Q == ItemsOver(g.productions)
<1>1. Begun(g, kind) \subseteq Q
  BY StartStateItems
<1>2. \A X : Gone(Q, X) \subseteq Q
  BY GoneItems
<1> QED BY <1>1, <1>2 DEF Holds, Fresh

\* A function that goes through the numbers of a finite set goes through the set.
LEMMA NumberedHasAll ==
  ASSUME NEW S, IsFiniteSet(S)
  PROVE  /\ Numbered(S) \in Seq(S)
         /\ SymbolsOf(Numbered(S)) = S
<1> DEFINE c == Cardinality(S)
           more(s) == Append(s, CHOOSE x \in S : x \notin SymbolsOf(s))
           V == {s \in Seq(S) : IsFiniteSet(SymbolsOf(s)) /\ Cardinality(SymbolsOf(s)) = Len(s)}
           none == <<>>
           Is(f) == f = [n \in 0 .. c |-> IF n = 0 THEN none ELSE more(f[n - 1])]
           first == CHOOSE f : Is(f)
<1>1. Numbered(S) = first[c]
  BY DEF Numbered
<1>0. c \in Nat
  BY FS_CardinalityType
<1>2. none \in V /\ Len(none) = 0
  <2>1. SymbolsOf(none) = {}
    BY DEF SymbolsOf
  <2>2. IsFiniteSet({}) /\ Cardinality({}) = 0
    BY FS_EmptySet
  <2> QED BY <2>1, <2>2
<1>3. ASSUME NEW s \in V, Len(s) < c PROVE more(s) \in V /\ Len(more(s)) = Len(s) + 1
  <2> DEFINE x == CHOOSE x \in S : x \notin SymbolsOf(s)
  <2>1. SymbolsOf(s) \subseteq S /\ s \in Seq(S) /\ IsFiniteSet(SymbolsOf(s)) /\ Cardinality(SymbolsOf(s)) = Len(s)
    <3>1. \A i \in DOMAIN s : s[i] \in S
      OBVIOUS
    <3> QED BY <3>1 DEF SymbolsOf
  <2>2. \E y \in S : y \notin SymbolsOf(s)
    <3> SUFFICES ASSUME S \subseteq SymbolsOf(s) PROVE FALSE
      OBVIOUS
    <3>1. S = SymbolsOf(s)
      BY <2>1
    <3> QED BY <3>1, <2>1, <1>3, <1>0
  <2>3. x \in S /\ x \notin SymbolsOf(s)
    BY <2>2
  <2> HIDE DEF x
  <2>4. Append(s, x) \in Seq(S) /\ Len(Append(s, x)) = Len(s) + 1 /\ Append(s, x)[Len(s) + 1] = x
        /\ (\A i \in 1 .. Len(s) : Append(s, x)[i] = s[i]) /\ Len(s) \in Nat
    BY <2>1, <2>3
  <2>5. SymbolsOf(Append(s, x)) = SymbolsOf(s) \cup {x}
    <3>1. DOMAIN Append(s, x) = 1 .. Len(s) + 1 /\ DOMAIN s = 1 .. Len(s)
      BY <2>1, <2>4
    <3> HIDE DEF V
    <3>2. ASSUME NEW y \in SymbolsOf(Append(s, x)) PROVE y \in SymbolsOf(s) \cup {x}
      <4>1. PICK i \in 1 .. Len(s) + 1 : y = Append(s, x)[i]
        BY <3>1 DEF SymbolsOf
      <4>2. CASE i = Len(s) + 1
        BY <4>1, <4>2, <2>4
      <4>3. CASE i \in 1 .. Len(s)
        BY <4>1, <4>3, <2>4, <3>1 DEF SymbolsOf
      <4> QED BY <4>2, <4>3, <2>4
    <3>3. ASSUME NEW y \in SymbolsOf(s) \cup {x} PROVE y \in SymbolsOf(Append(s, x))
      <4>1. CASE y = x
        <5>1. Len(s) + 1 \in DOMAIN Append(s, x)
          BY <3>1, <2>4
        <5> QED BY <5>1, <4>1, <2>4 DEF SymbolsOf
      <4>2. CASE y \in SymbolsOf(s)
        <5>1. PICK i \in 1 .. Len(s) : y = s[i]
          BY <4>2, <3>1 DEF SymbolsOf
        <5>2. i \in DOMAIN Append(s, x) /\ y = Append(s, x)[i]
          BY <5>1, <3>1, <2>4
        <5> QED BY <5>2 DEF SymbolsOf
      <4> QED BY <4>1, <4>2
    <3> QED BY <3>2, <3>3
  <2>6. IsFiniteSet(SymbolsOf(s) \cup {x}) /\ Cardinality(SymbolsOf(s) \cup {x}) = Len(s) + 1
    BY <2>1, <2>3, FS_AddElement
  <2>7. more(s) = Append(s, x)
    BY DEF x
  <2> HIDE DEF more
  <2> QED BY <2>4, <2>5, <2>6, <2>7
<1> DEFINE U == Seq(S)
           F == [x \in Nat \X U |-> IF Len(x[2]) < c /\ x[2] \in V THEN more(x[2]) ELSE none]
<1>4. PICK f : Iterates(f, U, none, F)
  <2>1. StaysIn(U, none, F)
    <3>1. ASSUME NEW k \in Nat, NEW x \in U PROVE F[<<k, x>>] \in U
      <4>1. F[<<k, x>>] = IF Len(x) < c /\ x \in V THEN more(x) ELSE none
        <5> HIDE DEF c, more, none, V, U
        <5> QED OBVIOUS
      <4>2. none \in U
        OBVIOUS
      <4>3. CASE Len(x) < c /\ x \in V
        <5>1. more(x) \in V
          BY <1>3, <4>3
        <5> HIDE DEF F, more
        <5> QED BY <4>1, <4>3, <5>1
      <4> HIDE DEF F, more, none, V
      <4> QED BY <4>1, <4>2, <4>3
    <3>2. none \in U
      OBVIOUS
    <3> HIDE DEF F, U, none
    <3> QED BY <3>1, <3>2 DEF StaysIn
  <2> HIDE DEF U, F, none
  <2> QED BY <2>1, RecursionOnNat
<1> HIDE DEF more, none, V, U
<1>5. f \in [Nat -> U] /\ f[0] = none
      /\ \A k \in Nat : f[k + 1] = IF Len(f[k]) < c /\ f[k] \in V THEN more(f[k]) ELSE none
  <2>1. f \in [Nat -> U] /\ f[0] = none /\ \A k \in Nat : f[k + 1] = F[<<k, f[k]>>]
    BY <1>4 DEF Iterates
  <2>2. ASSUME NEW k \in Nat PROVE F[<<k, f[k]>>] = IF Len(f[k]) < c /\ f[k] \in V THEN more(f[k]) ELSE none
    <3>1. f[k] \in U
      BY <2>1
    <3> QED BY <3>1
  <2> QED BY <2>1, <2>2
<1>6. \A k \in Nat : k <= c => f[k] \in V /\ Len(f[k]) = k
  <2> DEFINE Kept == {k \in Nat : k <= c => f[k] \in V /\ Len(f[k]) = k}
  <2> HIDE DEF c, F
  <2>1. 0 \in Kept
    BY <1>2, <1>5
  <2>2. ASSUME NEW k \in Nat, k \in Kept PROVE k + 1 \in Kept
    <3> SUFFICES ASSUME k + 1 <= c PROVE f[k + 1] \in V /\ Len(f[k + 1]) = k + 1
      OBVIOUS
    <3>1. f[k] \in V /\ Len(f[k]) = k /\ k < c
      BY <1>0, <2>2
    <3>2. f[k + 1] = more(f[k])
      BY <1>5, <3>1
    <3> QED BY <1>3, <3>1, <3>2
  <2>3. Nat \subseteq Kept
    <3> HIDE DEF Kept
    <3> QED BY <2>1, <2>2, InductionOnNat
  <2> QED BY <2>3
<1>7. Is(first)
  <2> PICK h : h = [n \in 0 .. c |-> f[n]]
    OBVIOUS
  <2> HIDE DEF c, F
  <2>1. ASSUME NEW n \in 0 .. c PROVE h[n] = IF n = 0 THEN none ELSE more(h[n - 1])
    <3>1. CASE n = 0
      BY <1>5, <3>1
    <3>2. CASE n # 0
      <4>1. n - 1 \in Nat /\ n - 1 \in 0 .. c /\ (n - 1) + 1 = n /\ n - 1 < c /\ n - 1 <= c
        BY <3>2, <1>0
      <4>2. f[n - 1] \in V /\ Len(f[n - 1]) = n - 1
        BY <4>1, <1>6
      <4>3. f[(n - 1) + 1] = more(f[n - 1])
        BY <4>1, <4>2, <1>5
      <4>4. h[n] = f[n] /\ h[n - 1] = f[n - 1]
        BY <4>1
      <4> QED BY <3>2, <4>1, <4>3, <4>4
    <3> QED BY <3>1, <3>2
  <2>2. Is(h)
    BY <2>1
  <2> HIDE DEF Is
  <2> QED BY <2>2
<1> HIDE DEF first, c, F
<1> DEFINE Kept == {n \in Nat : n <= c => first[n] = f[n]}
<1>8. 0 \in Kept
  BY <1>0, <1>5, <1>7
<1>9. ASSUME NEW n \in Nat, n \in Kept PROVE n + 1 \in Kept
  <2> SUFFICES ASSUME n + 1 <= c PROVE first[n + 1] = f[n + 1]
    OBVIOUS
  <2>1. n + 1 \in 0 .. c /\ n + 1 # 0 /\ (n + 1) - 1 = n /\ n <= c /\ n < c
    BY <1>0
  <2>2. first[n + 1] = more(first[(n + 1) - 1])
    BY <1>7, <2>1
  <2>3. first[n] = f[n] /\ f[n] \in V /\ Len(f[n]) = n
    BY <1>6, <1>9, <2>1
  <2>4. f[n + 1] = more(f[n])
    BY <1>5, <2>1, <2>3
  <2> QED BY <2>1, <2>2, <2>3, <2>4
<1>10. Nat \subseteq Kept
  <2> HIDE DEF Kept
  <2> QED BY <1>8, <1>9, InductionOnNat
<1>11. first[c] \in V /\ Len(first[c]) = c
  BY <1>0, <1>6, <1>10
<1>12. first[c] \in Seq(S) /\ IsFiniteSet(SymbolsOf(first[c])) /\ Cardinality(SymbolsOf(first[c])) = Cardinality(S)
  BY <1>11 DEF V, c
<1>13. SymbolsOf(first[c]) \subseteq S
  <2>1. \A i \in DOMAIN first[c] : first[c][i] \in S
    BY <1>12
  <2> QED BY <2>1 DEF SymbolsOf
<1>14. SymbolsOf(first[c]) = S
  BY <1>12, <1>13, FS_Subset
<1> QED BY <1>1, <1>12, <1>14

-----------------------------------------------------------------------------
(* The tables.                                                             *)

\* An item of the state, whatever its lookahead symbols are.
HasCore(state, A, body, dot) == \E x \in state : x.head = A /\ x.body = body /\ x.dot = dot

\* A collection has the items of the states it is made of, with other lookahead symbols.
LEMMA CollectedCores ==
  ASSUME NEW g, NEW kind \in Kinds, NEW states, NEW P, \A I \in states : I \in SUBSET ItemsOver(P), NEW I \in states
  PROVE  /\ \A x \in Collected(g, kind, states, I) : HasCore(I, x.head, x.body, x.dot)
         /\ \A x \in I : HasCore(Collected(g, kind, states, I), x.head, x.body, x.dot)
<1> DEFINE new(x) == IF ~ Completed(x) THEN x
                     ELSE [x EXCEPT !.ahead = IF kind = "SLR" THEN Follow(g, x.head) ELSE Lookahead]
<1>1. CASE kind \in {"SLR", "DCFG"}
  <2>1. Collected(g, kind, states, I) = {new(x) : x \in I}
    BY <1>1 DEF Collected
  <2>2. ASSUME NEW x \in I PROVE new(x).head = x.head /\ new(x).body = x.body /\ new(x).dot = x.dot
    <3>1. x = Item(x.head, x.body, x.dot, x.ahead)
      BY ItemParts
    <3>2. \A l : [x EXCEPT !.ahead = l] = Item(x.head, x.body, x.dot, l)
      BY <3>1 DEF Item
    <3> QED BY <3>2 DEF Item
  <2> HIDE DEF new
  <2>3. ASSUME NEW x \in Collected(g, kind, states, I) PROVE HasCore(I, x.head, x.body, x.dot)
    <3>1. PICK y \in I : x = new(y)
      BY <2>1
    <3> QED BY <2>2, <3>1 DEF HasCore
  <2>4. ASSUME NEW x \in I PROVE HasCore(Collected(g, kind, states, I), x.head, x.body, x.dot)
    <3>1. new(x) \in Collected(g, kind, states, I)
      BY <2>1
    <3> QED BY <2>2, <3>1 DEF HasCore
  <2> QED BY <2>3, <2>4
<1>2. CASE kind = "LALR"
  <2>1. Collected(g, kind, states, I) = UNION {J \in states : Core(J) = Core(I)}
    BY <1>2 DEF Collected
  <2>2. ASSUME NEW x \in Collected(g, kind, states, I) PROVE HasCore(I, x.head, x.body, x.dot)
    <3>1. PICK J \in states : Core(J) = Core(I) /\ x \in J
      BY <2>1
    <3>2. [head |-> x.head, body |-> x.body, dot |-> x.dot] \in Core(I)
      BY <3>1 DEF Core
    <3>3. PICK y \in I : [head |-> x.head, body |-> x.body, dot |-> x.dot] = [head |-> y.head, body |-> y.body, dot |-> y.dot]
      BY <3>2 DEF Core
    <3> QED BY <3>3 DEF HasCore
  <2> QED BY <2>1, <2>2 DEF HasCore
<1>3. CASE kind = "canonical"
  BY <1>3 DEF Collected, HasCore
<1> QED BY <1>1, <1>2, <1>3 DEF Kinds

\* The number n is that of the collection made of I.
StandsFor(tables, g, kind, states, n, I) ==
  I \in states /\ n \in DOMAIN tables.collection /\ tables.collection[n] = Collected(g, kind, states, I)

\* A state stands for one of the DK automaton, and the goto table follows its transitions.
LEMMA TablesFollow ==
  ASSUME NEW g, Wellformed(g), NEW kind, NEW steps \in Nat, IsWhole(g, kind, steps),
         NEW tables, tables = TablesFor(g, kind, steps), NEW states, states = ReachedStates(g, kind, steps)
  PROVE  /\ StandsFor(tables, g, kind, states, tables.start, StartState(g, kind))
         /\ \A n \in DOMAIN tables.collection : \E I \in states :
              /\ StandsFor(tables, g, kind, states, n, I)
              /\ \A X \in GrammarSymbol :
                   StandsFor(tables, g, kind, states, GotoState(tables, n, X), Goto(g, kind, I, X))
<1> DEFINE collected == {<<I, Collected(g, kind, states, I)>> : I \in states}
           kinds == {c[2] : c \in collected}
           collection == Numbered(kinds)
           number(I) == CHOOSE n \in DOMAIN collection : <<I, collection[n]>> \in collected
           member(n) == CHOOSE I \in states : <<I, collection[n]>> \in collected
           goto == {<<n, X, number(Goto(g, kind, member(n), X))>> : n \in DOMAIN collection, X \in GrammarSymbol}
<1>1. tables = [start |-> number(StartState(g, kind)), collection |-> collection, goto |-> goto]
  BY DEF TablesFor
<1>4. \A c : c \in kinds <=> \E I \in states : c = Collected(g, kind, states, I)
  <2>1. ASSUME NEW I \in states PROVE Collected(g, kind, states, I) \in kinds
    <3>1. <<I, Collected(g, kind, states, I)>> \in collected
      OBVIOUS
    <3>2. <<I, Collected(g, kind, states, I)>>[2] = Collected(g, kind, states, I)
      OBVIOUS
    <3> HIDE DEF collected
    <3> QED BY <3>1, <3>2
  <2>2. ASSUME NEW c \in kinds PROVE \E I \in states : c = Collected(g, kind, states, I)
    <3>1. PICK x \in collected : c = x[2]
      OBVIOUS
    <3> QED BY <3>1
  <2> HIDE DEF kinds
  <2> QED BY <2>1, <2>2
<1>2. collection \in Seq(kinds) /\ SymbolsOf(collection) = kinds
  <2>1. IsFiniteSet(states)
    BY ItemsHold, ReachedAreStates
  <2> DEFINE f == [I \in states |-> Collected(g, kind, states, I)]
  <2> HIDE DEF kinds, collected
  <2>3. f \in Surjection(states, kinds)
    BY <1>4 DEF Surjection
  <2> HIDE DEF f
  <2>4. IsFiniteSet(kinds)
    BY <2>1, <2>3, FS_Surjection
  <2> QED BY <2>4, NumberedHasAll
<1>3. \A I : \A c : <<I, c>> \in collected <=> I \in states /\ c = Collected(g, kind, states, I)
  OBVIOUS
<1> HIDE DEF collected, kinds, collection
<1>5. \A c : c \in kinds <=> \E n \in DOMAIN collection : c = collection[n]
  BY <1>2 DEF SymbolsOf
<1>6. ASSUME NEW I \in states
      PROVE  number(I) \in DOMAIN collection /\ collection[number(I)] = Collected(g, kind, states, I)
  <2>1. PICK n \in DOMAIN collection : collection[n] = Collected(g, kind, states, I)
    BY <1>4, <1>5
  <2>2. \E m \in DOMAIN collection : <<I, collection[m]>> \in collected
    BY <1>3, <2>1
  <2>3. number(I) \in DOMAIN collection /\ <<I, collection[number(I)]>> \in collected
    BY <2>2
  <2> HIDE DEF number
  <2> QED BY <1>3, <2>3
<1>7. ASSUME NEW n \in DOMAIN collection
      PROVE  member(n) \in states /\ collection[n] = Collected(g, kind, states, member(n))
  <2>1. collection[n] \in kinds
    BY <1>5
  <2>2. \E I \in states : <<I, collection[n]>> \in collected
    BY <1>3, <1>4, <2>1
  <2>3. member(n) \in states /\ <<member(n), collection[n]>> \in collected
    BY <2>2
  <2> HIDE DEF member
  <2> QED BY <1>3, <2>3
<1>8. ASSUME NEW n \in DOMAIN collection, NEW X \in GrammarSymbol
      PROVE  GotoState(tables, n, X) = number(Goto(g, kind, member(n), X))
  <2> HIDE DEF number, member
  <2>1. tables.goto = goto
    BY <1>1
  <2> DEFINE t == <<n, X, number(Goto(g, kind, member(n), X))>>
             u == CHOOSE u \in tables.goto : u[1] = n /\ u[2] = X
  <2>2. t \in goto /\ t[1] = n /\ t[2] = X
    OBVIOUS
  <2>3. \A v \in goto : v[1] = n /\ v[2] = X => v[3] = number(Goto(g, kind, member(n), X))
    OBVIOUS
  <2> HIDE DEF goto, t
  <2>4. \E v \in tables.goto : v[1] = n /\ v[2] = X
    BY <2>1, <2>2
  <2>5. u \in tables.goto /\ u[1] = n /\ u[2] = X
    BY <2>4
  <2>6. GotoState(tables, n, X) = u[3]
    BY DEF GotoState
  <2> HIDE DEF u
  <2> QED BY <2>1, <2>3, <2>5, <2>6
<1> HIDE DEF number, member, goto
<1>9. StartState(g, kind) \in states /\ \A I \in states, X \in GrammarSymbol : Goto(g, kind, I, X) \in states
  BY DEF IsWhole
<1>10. tables.start = number(StartState(g, kind)) /\ tables.collection = collection
  BY <1>1
<1>11. StandsFor(tables, g, kind, states, tables.start, StartState(g, kind))
  BY <1>6, <1>9, <1>10 DEF StandsFor
<1>12. ASSUME NEW n \in DOMAIN tables.collection
       PROVE  \E I \in states :
                /\ StandsFor(tables, g, kind, states, n, I)
                /\ \A X \in GrammarSymbol :
                     StandsFor(tables, g, kind, states, GotoState(tables, n, X), Goto(g, kind, I, X))
  <2>1. member(n) \in states /\ StandsFor(tables, g, kind, states, n, member(n))
    BY <1>7, <1>10 DEF StandsFor
  <2>2. ASSUME NEW X \in GrammarSymbol
        PROVE  StandsFor(tables, g, kind, states, GotoState(tables, n, X), Goto(g, kind, member(n), X))
    BY <1>6, <1>8, <1>9, <1>10, <2>1 DEF StandsFor
  <2> QED BY <2>1, <2>2
<1> QED BY <1>11, <1>12

-----------------------------------------------------------------------------
(* What the proofs rest on, of the tables.                                 *)

\* normalize_start_symbol adds one production, and its head is in no body.
LEMMA NormalizedRight ==
  ASSUME NEW i \in DOMAIN Grammars, NEW kind, NEW g, g = Normalized(Grammars[i], kind)
  PROVE  /\ Wellformed(g)
         /\ Grammars[i].start \in Heads(Grammars[i].productions)
         /\ \A p \in g.productions :
              /\ StartSymbol \notin SymbolsOf(p.body)
              /\ IF p.head = StartSymbol THEN kind # "DCFG" /\ p.body = <<Grammars[i].start>>
                 ELSE p \in Grammars[i].productions
         /\ kind # "DCFG" => g.start = StartSymbol /\ [head |-> StartSymbol, body |-> <<Grammars[i].start>>] \in g.productions
<1> DEFINE G == Grammars[i]
           new == [head |-> StartSymbol, body |-> <<G.start>>]
<1>1. IsGrammar(G) /\ StartSymbol \notin Heads(G.productions)
  BY GrammarsAssumption
<1>2. IsFiniteSet(G.productions) /\ G.start \in Heads(G.productions) /\ \A p \in G.productions : p \in Production
  BY <1>1 DEF IsGrammar
<1>3. ASSUME NEW p \in G.productions
      PROVE  /\ p.head \in NonTerminal /\ p.body \in Seq(GrammarSymbol) /\ p = [head |-> p.head, body |-> p.body]
             /\ p.head # StartSymbol /\ StartSymbol \notin SymbolsOf(p.body)
  <2>1. p \in Production
    BY <1>2
  <2>2. NonTerminalsOf(p.body) \subseteq InUse(G.productions) /\ InUse(G.productions) \subseteq Heads(G.productions)
    BY <1>1, NothingUseless, InUseIsSmallest
  <2> QED BY <1>1, <2>1, <2>2, StartSymbolAssumption DEF Production, NonTerminalsOf, Heads
<1>4. G.start \in NonTerminal /\ G.start # StartSymbol
  BY <1>1, <1>2, <1>3 DEF Heads
<1>5. CASE kind = "DCFG"
  <2>1. g = G
    BY <1>5 DEF Normalized
  <2>2. Wellformed(g)
    <3> HIDE DEF G
    <3> QED BY <1>2, <1>3, <2>1 DEF Wellformed, Typed
  <2>3. \A p \in g.productions : p.head # StartSymbol /\ StartSymbol \notin SymbolsOf(p.body) /\ p \in G.productions
    BY <1>3, <2>1
  <2> QED BY <1>2, <1>5, <2>2, <2>3
<1>6. CASE kind # "DCFG"
  <2>1. g.start = StartSymbol /\ g.productions = G.productions \cup {new}
    BY <1>6 DEF Normalized, Grammar, Rules
  <2>2. IsFiniteSet(g.productions)
    <3> HIDE DEF G, new
    <3>1. IsFiniteSet(G.productions \cup {new})
      BY <1>2, FS_AddElement
    <3> QED BY <2>1, <3>1
  <2>3. /\ new.head \in NonTerminal /\ new.body \in Seq(GrammarSymbol) /\ new = [head |-> new.head, body |-> new.body]
        /\ new.head = StartSymbol /\ new.body = <<G.start>>
    BY <1>4, StartSymbolAssumption DEF GrammarSymbol
  <2>4. StartSymbol \notin SymbolsOf(new.body)
    <3>1. SymbolsOf(<<G.start>>) = {G.start}
      BY DEF SymbolsOf
    <3> QED BY <1>4, <2>3, <3>1
  <2> HIDE DEF G, new
  <2>5. Wellformed(g)
    BY <1>3, <2>1, <2>2, <2>3 DEF Wellformed, Typed
  <2>6. ASSUME NEW p \in g.productions
        PROVE  /\ StartSymbol \notin SymbolsOf(p.body)
               /\ IF p.head = StartSymbol THEN kind # "DCFG" /\ p.body = <<G.start>>
                  ELSE p \in G.productions
    BY <1>3, <1>6, <2>1, <2>3, <2>4
  <2> QED BY <1>2, <2>1, <2>5, <2>6 DEF new, G
<1> QED BY <1>5, <1>6

\* The end marker is all that follows the start symbol LR_1 makes up.
LEMMA FollowOfStart ==
  ASSUME NEW g, g.start = StartSymbol, StartSymbol \in Heads(g.productions),
         \A p \in g.productions : StartSymbol \notin SymbolsOf(p.body)
  PROVE  Follow(g, StartSymbol) = {EndMarker}
<1> DEFINE U == Heads(g.productions)
           C(V) == /\ StartSymbol \in V
                   /\ \A p \in g.productions : \A i \in DOMAIN p.body :
                        p.body[i] \in V /\ Nullable(g, Rest(p.body, i)) => p.head \in V
           Is(V) == C(V) /\ \A W \in SUBSET U : C(W) => V \subseteq W
           ends == CHOOSE V \in SUBSET U : Is(V)
           after(p) == {i \in DOMAIN p.body : p.body[i] \in ends}
<1>0. \A p \in g.productions : \A i \in DOMAIN p.body : p.body[i] # StartSymbol
  BY DEF SymbolsOf
<1>1. {StartSymbol} \in SUBSET U /\ Is({StartSymbol})
  <2>1. C({StartSymbol})
    BY <1>0
  <2> QED BY <2>1
<1>2. ends \in SUBSET U /\ Is(ends)
  <2> HIDE DEF Is
  <2> QED BY <1>1
<1>3. Follow(g, StartSymbol) = (UNION {UNION {First(g, Rest(p.body, i)) : i \in after(p)} : p \in g.productions})
                                 \cup IF g.start \in ends THEN {EndMarker} ELSE {}
  BY DEF Follow, Smallest
<1> HIDE DEF ends
<1>4. ends = {StartSymbol}
  BY <1>1, <1>2
<1>5. \A p \in g.productions : after(p) = {}
  BY <1>0, <1>4
<1> HIDE DEF after
<1> DEFINE firsts == UNION {UNION {First(g, Rest(p.body, i)) : i \in after(p)} : p \in g.productions}
<1>6. firsts = {}
  <2>1. \A p \in g.productions : UNION {First(g, Rest(p.body, i)) : i \in after(p)} = {}
    BY <1>5
  <2> QED BY <2>1
<1>7. Follow(g, StartSymbol) = firsts \cup IF g.start \in ends THEN {EndMarker} ELSE {}
  BY <1>3
<1> HIDE DEF firsts
<1> QED BY <1>4, <1>6, <1>7

\* The items of a state and of those it leads to, as far as the stacks depend on them.
RightItems(tables, P) ==
  /\ tables.start \in DOMAIN tables.collection
  /\ \A n \in DOMAIN tables.collection, X \in GrammarSymbol : GotoState(tables, n, X) \in DOMAIN tables.collection
  /\ \A n \in DOMAIN tables.collection : \A x \in tables.collection[n] :
       /\ ProductionOf(x) \in P /\ x.body \in Seq(GrammarSymbol) /\ x.dot \in 0 .. Len(x.body)
       /\ x.head = StartSymbol /\ Completed(x) => x.ahead \subseteq {EndMarker}
  /\ \A x \in tables.collection[tables.start] : x.dot = 0
  /\ \A n \in DOMAIN tables.collection, X \in GrammarSymbol : \A x \in tables.collection[GotoState(tables, n, X)] :
       IF x.dot = 0 THEN x.head # StartSymbol
       ELSE x.body[x.dot] = X /\ HasCore(tables.collection[n], x.head, x.body, x.dot - 1)

\* Items whose lookahead symbols are those of the end, if their head is the one LR_1 makes up.
Ending(P) == {x \in ItemsOver(P) : x.head = StartSymbol => x.ahead = {EndMarker}}

\* With lookahead symbols, the items of all states are such.
LEMMA EndingHolds ==
  ASSUME NEW g, Wellformed(g), NEW kind, WithAhead(kind), \A p \in g.productions : StartSymbol \notin SymbolsOf(p.body)
  PROVE  Holds(Ending(g.productions), g, kind)
<1> DEFINE P == g.productions
           Q == Ending(P)
<1>1. Q \in SUBSET ItemsOver(P)
  BY DEF Ending
<1>2. Begun(g, kind) \subseteq Q
  <2>1. \A x \in Begun(g, kind) : x.ahead = {EndMarker}
    BY DEF Begun, Item
  <2> QED BY <2>1, StartStateItems DEF Ending
<1>3. Fresh(P) \subseteq Q
  BY DEF Fresh, Ending
<1>4. ASSUME NEW X PROVE Gone(Q, X) \subseteq Q
  <2> HIDE DEF Q
  <2> SUFFICES ASSUME NEW x \in Gone(Q, X) PROVE x \in Q
    OBVIOUS
  <2>1. x \in ItemsOver(P) /\ \E y \in Q : y.head = x.head /\ y.ahead = x.ahead
    BY <1>1, GoneItems
  <2> QED BY <2>1 DEF Q, Ending
<1> HIDE DEF Q
<1> QED BY <1>1, <1>2, <1>3, <1>4 DEF Holds, Q

\* The completed items of the start symbol LR_1 makes up are reduced at the end of the word.
LEMMA CollectedEnding ==
  ASSUME NEW i \in DOMAIN Grammars, NEW kind \in Kinds, NEW g, g = Normalized(Grammars[i], kind),
         NEW states, states = ReachedStates(g, kind, MaxSteps), NEW I \in states,
         NEW x \in Collected(g, kind, states, I), x.head = StartSymbol, Completed(x)
  PROVE  x.ahead \subseteq {EndMarker}
<1> DEFINE P == g.productions
<1>1. Wellformed(g) /\ \A p \in P : StartSymbol \notin SymbolsOf(p.body)
  BY NormalizedRight
<1>2. MaxSteps \in Nat
  BY StepsAssumption
<1>3. \A J \in states : J \in SUBSET ItemsOver(P)
  BY <1>1, <1>2, ItemsHold, ReachedAreStates DEF IsState
<1>4. kind # "DCFG" /\ g.start = StartSymbol /\ StartSymbol \in Heads(P)
  <2>1. HasCore(I, x.head, x.body, x.dot)
    BY <1>3, CollectedCores
  <2>2. PICK y \in I : y.head = StartSymbol
    BY <2>1 DEF HasCore
  <2>3. ProductionOf(y) \in P /\ ProductionOf(y).head = StartSymbol
    BY <1>3, <2>2 DEF ItemsOver, ProductionOf
  <2>4. kind # "DCFG"
    BY <2>3, NormalizedRight
  <2> QED BY <2>3, <2>4, NormalizedRight DEF Heads
<1>5. CASE kind = "SLR"
  <2>1. PICK y \in I : x = IF ~ Completed(y) THEN y ELSE [y EXCEPT !.ahead = Follow(g, y.head)]
    BY <1>5 DEF Collected
  <2>2. y = Item(y.head, y.body, y.dot, y.ahead)
    BY <1>3, ItemParts
  <2>3. \A l : [y EXCEPT !.ahead = l] = Item(y.head, y.body, y.dot, l)
    BY <2>2 DEF Item
  <2>4. \A l : LET z == Item(y.head, y.body, y.dot, l) IN z.head = y.head /\ z.ahead = l /\ z.body = y.body /\ z.dot = y.dot
    BY DEF Item
  <2>5. x.ahead = Follow(g, x.head)
    <3>1. CASE Completed(y)
      BY <2>1, <2>3, <2>4, <3>1
    <3>2. CASE ~ Completed(y)
      BY <2>1, <3>2
    <3> QED BY <3>1, <3>2
  <2>6. Follow(g, StartSymbol) = {EndMarker}
    BY <1>1, <1>4, FollowOfStart
  <2> QED BY <2>5, <2>6
<1>6. CASE kind # "SLR"
  <2>1. WithAhead(kind)
    BY <1>4, <1>6 DEF WithAhead, Kinds
  <2>2. \A J \in states : J \in SUBSET Ending(P)
    BY <1>1, <1>2, <2>1, EndingHolds, ReachedAreStates DEF IsState
  <2>3. \E J \in states : x \in J
    <3>1. CASE kind = "LALR"
      BY <3>1 DEF Collected
    <3>2. CASE kind = "canonical"
      BY <3>2 DEF Collected
    <3> QED BY <2>1, <3>1, <3>2 DEF WithAhead
  <2> QED BY <2>2, <2>3 DEF Ending
<1> QED BY <1>5, <1>6

\* Where the items of a state come from.
LEMMA GotoParts ==
  ASSUME NEW g, Wellformed(g), \A p \in g.productions : StartSymbol \notin SymbolsOf(p.body), NEW kind,
         NEW I \in SUBSET ItemsOver(g.productions), NEW X, NEW y \in Goto(g, kind, I, X)
  PROVE  IF y.dot = 0 THEN y.head # StartSymbol ELSE y.body[y.dot] = X /\ HasCore(I, y.head, y.body, y.dot - 1)
<1> DEFINE P == g.productions
<1>1. y \in Gone(I, X) \cup Fresh(P)
  BY GotoItems
<1>2. CASE y \in Gone(I, X)
  <2>1. /\ y \in ItemsOver(P) /\ y.dot \in 1 .. Len(y.body) /\ y.body[y.dot] = X
        /\ \E z \in I : z.head = y.head /\ z.body = y.body /\ z.dot = y.dot - 1 /\ z.ahead = y.ahead
    BY <1>2, GoneItems
  <2>2. y.body \in Seq(GrammarSymbol)
    BY <2>1, ItemParts
  <2>3. y.dot # 0
    BY <2>1
  <2>4. HasCore(I, y.head, y.body, y.dot - 1)
    BY <2>1 DEF HasCore
  <2> QED BY <2>1, <2>3, <2>4
<1>3. CASE y \in Fresh(P)
  BY <1>3 DEF Fresh
<1> QED BY <1>1, <1>2, <1>3

\* The tables of an object have the items its stacks depend on.
LEMMA TablesRight ==
  ASSUME NEW i \in DOMAIN Grammars, NEW kind \in Kinds
  PROVE  RightItems(TablesOf(Grammars[i], kind, MaxSteps), Normalized(Grammars[i], kind).productions)
<1> DEFINE g == Normalized(Grammars[i], kind)
           P == g.productions
           tables == TablesFor(g, kind, MaxSteps)
           states == ReachedStates(g, kind, MaxSteps)
           D == DOMAIN tables.collection
           stands(n, I) == StandsFor(tables, g, kind, states, n, I)
<1>1. Wellformed(g) /\ \A p \in P : StartSymbol \notin SymbolsOf(p.body)
  BY NormalizedRight
<1>2. MaxSteps \in Nat /\ IsWhole(g, kind, MaxSteps)
  BY StepsAssumption
<1>0. TablesOf(Grammars[i], kind, MaxSteps) = tables
  BY DEF TablesOf
<1> HIDE DEF g, tables, states
<1>3. \A J \in states : J \in SUBSET ItemsOver(P)
  BY <1>1, <1>2, ItemsHold, ReachedAreStates DEF IsState, states
<1>4. /\ stands(tables.start, StartState(g, kind))
      /\ \A n \in D : \E I \in states :
           stands(n, I) /\ \A X \in GrammarSymbol : stands(GotoState(tables, n, X), Goto(g, kind, I, X))
  BY <1>1, <1>2, TablesFollow DEF tables, states
<1>5. ASSUME NEW n, NEW I, stands(n, I)
      PROVE  /\ I \in states /\ n \in D
             /\ \A x \in tables.collection[n] : HasCore(I, x.head, x.body, x.dot)
             /\ \A x \in I : HasCore(tables.collection[n], x.head, x.body, x.dot)
  <2>1. I \in states /\ n \in D /\ tables.collection[n] = Collected(g, kind, states, I)
    BY <1>5 DEF StandsFor
  <2> QED BY <1>3, <2>1, CollectedCores
<1> HIDE DEF stands
<1>6. tables.start \in D
  BY <1>4, <1>5
<1>7. ASSUME NEW n \in D, NEW X \in GrammarSymbol PROVE GotoState(tables, n, X) \in D
  BY <1>4, <1>5
<1>8. ASSUME NEW n \in D, NEW x \in tables.collection[n]
      PROVE  /\ ProductionOf(x) \in P /\ x.body \in Seq(GrammarSymbol) /\ x.dot \in 0 .. Len(x.body)
             /\ x.head = StartSymbol /\ Completed(x) => x.ahead \subseteq {EndMarker}
  <2>1. PICK I \in states : stands(n, I)
    BY <1>4
  <2>2. PICK y \in I : y.head = x.head /\ y.body = x.body /\ y.dot = x.dot
    BY <1>5, <2>1 DEF HasCore
  <2>3. y \in ItemsOver(P)
    BY <1>3
  <2>4. ProductionOf(y) \in P /\ y.body \in Seq(GrammarSymbol) /\ y.dot \in 0 .. Len(y.body)
    BY <2>3, ItemParts
  <2>5. ProductionOf(x) = ProductionOf(y)
    BY <2>2 DEF ProductionOf
  <2>6. x.head = StartSymbol /\ Completed(x) => x.ahead \subseteq {EndMarker}
    <3>1. x \in Collected(g, kind, states, I)
      BY <2>1 DEF stands, StandsFor
    <3> QED BY <3>1, CollectedEnding DEF g, states
  <2> QED BY <2>2, <2>4, <2>5, <2>6
<1>9. ASSUME NEW x \in tables.collection[tables.start] PROVE x.dot = 0
  <2>1. PICK y \in StartState(g, kind) : y.dot = x.dot
    BY <1>4, <1>5 DEF HasCore
  <2>2. y \in Begun(g, kind) \cup Fresh(P)
    BY <1>1, StartStateItems
  <2>3. y \in Begun(g, kind) => y.dot = 0
    BY DEF Begun, Item
  <2> QED BY <2>1, <2>2, <2>3 DEF Fresh
<1>10. ASSUME NEW n \in D, NEW X \in GrammarSymbol, NEW x \in tables.collection[GotoState(tables, n, X)]
       PROVE  IF x.dot = 0 THEN x.head # StartSymbol
              ELSE x.body[x.dot] = X /\ HasCore(tables.collection[n], x.head, x.body, x.dot - 1)
  <2>1. PICK I \in states : stands(n, I) /\ stands(GotoState(tables, n, X), Goto(g, kind, I, X))
    BY <1>4
  <2>2. PICK y \in Goto(g, kind, I, X) : y.head = x.head /\ y.body = x.body /\ y.dot = x.dot
    BY <1>5, <2>1 DEF HasCore
  <2>3. I \in SUBSET ItemsOver(P)
    BY <1>3
  <2>4. IF y.dot = 0 THEN y.head # StartSymbol ELSE y.body[y.dot] = X /\ HasCore(I, y.head, y.body, y.dot - 1)
    BY <1>1, <2>3, GotoParts
  <2>5. CASE x.dot = 0
    BY <2>2, <2>4, <2>5
  <2>6. CASE x.dot # 0
    <3>1. x.body[x.dot] = X /\ HasCore(I, x.head, x.body, x.dot - 1)
      BY <2>2, <2>4, <2>6
    <3>2. PICK z \in I : z.head = x.head /\ z.body = x.body /\ z.dot = x.dot - 1
      BY <3>1 DEF HasCore
    <3>3. HasCore(tables.collection[n], z.head, z.body, z.dot)
      BY <1>5, <2>1
    <3> QED BY <2>6, <3>1, <3>2, <3>3
  <2> QED BY <2>5, <2>6
<1>11. RightItems(tables, P)
  BY <1>6, <1>7, <1>8, <1>9, <1>10 DEF RightItems
<1> QED BY <1>0, <1>11 DEF g

-----------------------------------------------------------------------------
(* The words at the leaves of some trees, put together.                    *)

\* f has what the first sequences of ys put together are.
JoinsAt(f, ys, i) == f[i + 1] = f[i] \o ys[i + 1]
Joins(f, ys, S) ==
  /\ f \in [Nat -> Seq(S)] /\ f[0] = <<>>
  /\ \A i \in Nat : i + 1 <= Len(ys) => JoinsAt(f, ys, i)

\* There is such a function.
LEMMA JoinsExist ==
  ASSUME NEW S, NEW ys \in Seq(Seq(S))
  PROVE  \E f : Joins(f, ys, S)
<1> DEFINE U == Seq(S)
           none == <<>>
           F == [x \in Nat \X U |-> IF x[1] + 1 <= Len(ys) THEN x[2] \o ys[x[1] + 1] ELSE x[2]]
<1>1. none \in U
  OBVIOUS
<1>2. ASSUME NEW n \in Nat, NEW x \in U
      PROVE  F[<<n, x>>] = IF n + 1 <= Len(ys) THEN x \o ys[n + 1] ELSE x
  OBVIOUS
<1>3. ASSUME NEW n \in Nat, NEW x \in U PROVE F[<<n, x>>] \in U
  <2>1. CASE n + 1 <= Len(ys)
    <3>1. n + 1 \in 1 .. Len(ys)
      BY <2>1
    <3>2. ys[n + 1] \in Seq(S)
      BY <3>1
    <3>3. x \o ys[n + 1] \in Seq(S)
      BY <3>2, ConcatProperties
    <3> QED BY <1>2, <2>1, <3>3
  <2>2. CASE ~ (n + 1 <= Len(ys))
    BY <1>2, <2>2
  <2> QED BY <2>1, <2>2
<1> HIDE DEF F, U
<1>4. PICK f : Iterates(f, U, none, F)
  <2> HIDE DEF none
  <2>1. StaysIn(U, none, F)
    BY <1>1, <1>3 DEF StaysIn
  <2> QED BY <2>1, RecursionOnNat
<1>5. Joins(f, ys, S)
  <2>1. f \in [Nat -> U] /\ f[0] = none /\ \A n \in Nat : f[n + 1] = F[<<n, f[n]>>]
    BY <1>4 DEF Iterates
  <2>2. ASSUME NEW n \in Nat, n + 1 <= Len(ys) PROVE f[n + 1] = f[n] \o ys[n + 1]
    <3>1. f[n] \in U
      BY <2>1
    <3> QED BY <1>2, <2>1, <2>2, <3>1
  <2> QED BY <2>1, <2>2 DEF Joins, JoinsAt, U
<1> QED BY <1>5

\* FlattenSeq gives the last value of every such function.
LEMMA FlattenJoins ==
  ASSUME NEW S, NEW ys \in Seq(Seq(S)), NEW f, Joins(f, ys, S)
  PROVE  FlattenSeq(ys) = f[Len(ys)]
<1> DEFINE n == Len(ys)
           Is(h) == h = [i \in 1 .. n |-> IF i = 1 THEN ys[i] ELSE h[i - 1] \o ys[i]]
           flatten == CHOOSE h : Is(h)
<1>0. n \in Nat /\ f \in [Nat -> Seq(S)] /\ f[0] = <<>>
  BY DEF Joins
<1>1. CASE n = 0
  <2>1. ys = <<>>
    BY <1>1, EmptySeq
  <2>2. FlattenSeq(ys) = ys
    BY <1>1 DEF FlattenSeq
  <2> QED BY <1>0, <1>1, <2>1, <2>2
<1>2. CASE n # 0
  <2>1. FlattenSeq(ys) = flatten[n]
    BY <1>2 DEF FlattenSeq
  <2>2. \E h : Is(h)
    <3> PICK h : h = [i \in 1 .. n |-> f[i]]
      OBVIOUS
    <3>0. \A i \in 1 .. n : h[i] = f[i]
      OBVIOUS
    <3>1. ASSUME NEW i \in 1 .. n PROVE h[i] = IF i = 1 THEN ys[i] ELSE h[i - 1] \o ys[i]
      <4>1. i - 1 \in Nat /\ (i - 1) + 1 = i
        OBVIOUS
      <4>2. JoinsAt(f, ys, i - 1)
        <5>1. (i - 1) + 1 <= Len(ys)
          BY <1>0
        <5> QED BY <4>1, <5>1 DEF Joins
      <4>3. f[i] = f[i - 1] \o ys[i]
        <5>1. f[(i - 1) + 1] = f[i - 1] \o ys[(i - 1) + 1]
          BY <4>2 DEF JoinsAt
        <5> QED BY <4>1, <5>1
      <4>4. CASE i = 1
        <5>1. ys[i] \in Seq(S)
          OBVIOUS
        <5>2. <<>> \o ys[i] = ys[i]
          BY <5>1, ConcatEmptySeq
        <5>3. i - 1 = 0
          BY <4>4
        <5>4. f[i - 1] = <<>>
          BY <1>0, <5>3
        <5>5. f[i] = ys[i]
          BY <4>3, <5>2, <5>4
        <5> QED BY <3>0, <4>4, <5>5
      <4>5. CASE i # 1
        <5>1. i - 1 \in 1 .. n
          BY <1>0, <4>5
        <5>2. h[i] = f[i] /\ h[i - 1] = f[i - 1]
          BY <3>0, <5>1
        <5> QED BY <4>3, <4>5, <5>2
      <4> QED BY <4>4, <4>5
    <3>2. Is(h)
      BY <3>1
    <3> HIDE DEF Is
    <3> QED BY <3>2
  <2>3. Is(flatten)
    <3> HIDE DEF Is
    <3> QED BY <2>2
  <2> HIDE DEF flatten
  <2> DEFINE Kept == {k \in Nat : k + 1 <= n => flatten[k + 1] = f[k + 1]}
  <2>4. 0 \in Kept
    <3> SUFFICES ASSUME 0 + 1 <= n PROVE flatten[1] = f[1]
      OBVIOUS
    <3>1. 1 \in 1 .. n /\ ys[1] \in Seq(S)
      BY <1>0
    <3>2. flatten[1] = ys[1]
      BY <2>3, <3>1
    <3>3. JoinsAt(f, ys, 0)
      BY DEF Joins
    <3>4. f[0 + 1] = f[0] \o ys[0 + 1]
      BY <3>3 DEF JoinsAt
    <3>7. 0 + 1 = 1
      OBVIOUS
    <3>5. f[1] = f[0] \o ys[1]
      BY <3>4, <3>7
    <3>6. <<>> \o ys[1] = ys[1]
      BY <3>1, ConcatEmptySeq
    <3> QED BY <1>0, <3>2, <3>5, <3>6
  <2>5. ASSUME NEW k \in Nat, k \in Kept PROVE k + 1 \in Kept
    <3> SUFFICES ASSUME (k + 1) + 1 <= n PROVE flatten[(k + 1) + 1] = f[(k + 1) + 1]
      OBVIOUS
    <3>1. flatten[k + 1] = f[k + 1]
      BY <1>0, <2>5
    <3>2. (k + 1) + 1 \in 1 .. n /\ (k + 1) + 1 # 1 /\ ((k + 1) + 1) - 1 = k + 1 /\ k + 1 \in Nat
      BY <1>0
    <3>3. flatten[(k + 1) + 1] = flatten[((k + 1) + 1) - 1] \o ys[(k + 1) + 1]
      BY <2>3, <3>2
    <3>5. JoinsAt(f, ys, k + 1)
      BY <3>2 DEF Joins
    <3>4. f[(k + 1) + 1] = f[k + 1] \o ys[(k + 1) + 1]
      BY <3>5 DEF JoinsAt
    <3> QED BY <3>1, <3>2, <3>3, <3>4
  <2>6. Nat \subseteq Kept
    <3> HIDE DEF Kept
    <3> QED BY <2>4, <2>5, InductionOnNat
  <2>7. n - 1 \in Nat /\ (n - 1) + 1 = n /\ (n - 1) + 1 <= n
    BY <1>0, <1>2
  <2>8. flatten[(n - 1) + 1] = f[(n - 1) + 1]
    BY <2>6, <2>7
  <2> QED BY <2>1, <2>7, <2>8
<1> QED BY <1>1, <1>2

\* Of one sequence after the other.
LEMMA FlattenConcatenates ==
  ASSUME NEW S, NEW xs \in Seq(Seq(S)), NEW ys \in Seq(Seq(S))
  PROVE  /\ FlattenSeq(xs) \in Seq(S)
         /\ FlattenSeq(xs \o ys) = FlattenSeq(xs) \o FlattenSeq(ys)
<1> DEFINE zs == xs \o ys
           m == Len(xs)
           n == Len(ys)
<1>1. m \in Nat /\ n \in Nat /\ zs \in Seq(Seq(S)) /\ Len(zs) = m + n
  BY ConcatProperties
<1>2. \A i \in Nat : /\ i + 1 <= m => zs[i + 1] = xs[i + 1]
                     /\ i + 1 <= n => zs[m + (i + 1)] = ys[i + 1]
  OBVIOUS
<1> HIDE DEF zs, m, n
<1>3. PICK f : Joins(f, zs, S)
  BY <1>1, JoinsExist
<1>4. PICK g : Joins(g, ys, S)
  BY JoinsExist
<1>5. f \in [Nat -> Seq(S)] /\ f[0] = <<>> /\ g \in [Nat -> Seq(S)] /\ g[0] = <<>>
  BY <1>3, <1>4 DEF Joins
<1>6. Joins(f, xs, S)
  <2>1. ASSUME NEW i \in Nat, i + 1 <= m PROVE JoinsAt(f, xs, i)
    <3>1. i + 1 <= Len(zs)
      BY <1>1, <2>1
    <3>2. JoinsAt(f, zs, i)
      BY <1>3, <3>1 DEF Joins
    <3>3. zs[i + 1] = xs[i + 1]
      BY <1>2, <2>1
    <3> QED BY <3>2, <3>3 DEF JoinsAt
  <2> QED BY <1>5, <2>1 DEF Joins, m
<1>7. FlattenSeq(xs) = f[m] /\ FlattenSeq(ys) = g[n] /\ FlattenSeq(zs) = f[m + n]
  BY <1>1, <1>3, <1>4, <1>6, FlattenJoins DEF m, n
<1> DEFINE Right(k) == k <= n => f[m + k] = f[m] \o g[k]
           Kept == {k \in Nat : Right(k)}
<1>8. 0 \in Kept
  <2>1. f[m] \in Seq(S)
    BY <1>1, <1>5
  <2>2. f[m] \o <<>> = f[m]
    BY <2>1, ConcatEmptySeq
  <2>3. m + 0 = m
    BY <1>1
  <2> QED BY <1>5, <2>2, <2>3
<1>9. ASSUME NEW k \in Nat, k \in Kept PROVE k + 1 \in Kept
  <2> SUFFICES ASSUME k + 1 <= n PROVE f[m + (k + 1)] = f[m] \o g[k + 1]
    <3>1. Right(k + 1) => k + 1 \in Kept
      <4> HIDE DEF Right
      <4> QED OBVIOUS
    <3> QED BY <3>1
  <2>10. k <= n /\ k + 1 \in 1 .. n /\ Right(k)
    <3>1. Right(k)
      <4> HIDE DEF Right
      <4> QED BY <1>9
    <3> HIDE DEF Right
    <3> QED BY <1>1, <3>1
  <2>1. f[m + k] = f[m] \o g[k]
    BY <2>10
  <2>2. m + k \in Nat /\ (m + k) + 1 = m + (k + 1) /\ (m + k) + 1 <= Len(zs)
    BY <1>1
  <2>9. JoinsAt(f, zs, m + k) /\ JoinsAt(g, ys, k)
    BY <1>3, <1>4, <2>2 DEF Joins, n
  <2>3. f[(m + k) + 1] = f[m + k] \o zs[(m + k) + 1]
    BY <2>9 DEF JoinsAt
  <2>4. zs[m + (k + 1)] = ys[k + 1]
    BY <1>2
  <2>5. f[m + (k + 1)] = (f[m] \o g[k]) \o ys[k + 1]
    BY <2>1, <2>2, <2>3, <2>4
  <2>6. g[k + 1] = g[k] \o ys[k + 1]
    BY <2>9 DEF JoinsAt
  <2>7. f[m] \in Seq(S) /\ g[k] \in Seq(S) /\ ys[k + 1] \in Seq(S)
    <3>1. ys[k + 1] \in Seq(S)
      BY <2>10 DEF n
    <3>2. f[m] \in Seq(S)
      BY <1>1, <1>5
    <3>3. g[k] \in Seq(S)
      BY <1>5
    <3> QED BY <3>1, <3>2, <3>3
  <2>8. f[m] \o (g[k] \o ys[k + 1]) = (f[m] \o g[k]) \o ys[k + 1]
    <3> DEFINE x == f[m]
               y == g[k]
               z == ys[k + 1]
    <3>1. x \in Seq(S) /\ y \in Seq(S) /\ z \in Seq(S)
      BY <2>7
    <3> HIDE DEF x, y, z
    <3>2. x \o (y \o z) = (x \o y) \o z
      BY <3>1, ConcatAssociative
    <3> QED BY <3>2 DEF x, y, z
  <2> QED BY <2>5, <2>6, <2>8
<1>10. Nat \subseteq Kept
  <2> HIDE DEF Kept
  <2> QED BY <1>8, <1>9, InductionOnNat
<1>11. f[m + n] = f[m] \o g[n]
  <2>1. n \in Kept
    BY <1>1, <1>10
  <2>2. Right(n) /\ n <= n
    <3> HIDE DEF Right
    <3> QED BY <1>1, <2>1
  <2> QED BY <2>2
<1>12. f[m] \in Seq(S)
  BY <1>1, <1>5
<1> QED BY <1>7, <1>11, <1>12 DEF zs

\* Of a single one, and of none.
LEMMA FlattenOfOne ==
  ASSUME NEW S, NEW y \in Seq(S)
  PROVE  FlattenSeq(<<y>>) = y /\ FlattenSeq(<<>>) = <<>>
<1>1. FlattenSeq(<<>>) = <<>>
  BY DEF FlattenSeq
<1>2. <<y>> \in Seq(Seq(S)) /\ Len(<<y>>) = 1 /\ <<y>>[1] = y
  OBVIOUS
<1> DEFINE ys == <<y>>
<1> HIDE DEF ys
<1>3. ys \in Seq(Seq(S)) /\ Len(ys) = 1 /\ ys[1] = y
  BY <1>2 DEF ys
<1>4. PICK f : Joins(f, ys, S)
  BY <1>3, JoinsExist
<1>9. JoinsAt(f, ys, 0) /\ f[0] = <<>>
  BY <1>3, <1>4 DEF Joins
<1>5. f[0 + 1] = f[0] \o ys[0 + 1]
  BY <1>9 DEF JoinsAt
<1>6. <<>> \o y = y
  BY ConcatEmptySeq
<1>7. f[1] = y
  BY <1>3, <1>5, <1>6, <1>9
<1>8. FlattenSeq(ys) = f[1]
  BY <1>3, <1>4, FlattenJoins
<1> QED BY <1>1, <1>7, <1>8 DEF ys

\* The trees of terminals and of the nonterminals L has words for.
Trees(L) ==
  {t \in [symbol : Terminal \cup DOMAIN L, yield : Seq(Terminal)] : t.yield \in SymbolWords(L, t.symbol)}

\* The symbols of some trees, and the word at their leaves.
SymbolsAt(ts) == [i \in DOMAIN ts |-> ts[i].symbol]
YieldsAt(ts) == [i \in DOMAIN ts |-> ts[i].yield]
YieldOf(ts) == FlattenSeq(YieldsAt(ts))

\* They are sequences, and those of one sequence of trees after the other are, too.
LEMMA YieldsConcatenate ==
  ASSUME NEW L, NEW xs \in Seq(Trees(L)), NEW ys \in Seq(Trees(L))
  PROVE  /\ SymbolsAt(xs) \in Seq(Terminal \cup DOMAIN L) /\ Len(SymbolsAt(xs)) = Len(xs)
         /\ YieldOf(xs) \in Seq(Terminal)
         /\ SymbolsAt(xs \o ys) = SymbolsAt(xs) \o SymbolsAt(ys)
         /\ YieldOf(xs \o ys) = YieldOf(xs) \o YieldOf(ys)
<1> DEFINE R == Trees(L)
           S == Terminal \cup DOMAIN L
           zs == xs \o ys
<1>1. \A t \in R : t.symbol \in S /\ t.yield \in Seq(Terminal)
  BY DEF Trees
<1> HIDE DEF R, S
<1>2. ASSUME NEW ts \in Seq(R)
      PROVE  /\ SymbolsAt(ts) \in Seq(S) /\ Len(SymbolsAt(ts)) = Len(ts)
             /\ YieldsAt(ts) \in Seq(Seq(Terminal)) /\ Len(YieldsAt(ts)) = Len(ts)
  <2>1. DOMAIN ts = 1 .. Len(ts) /\ Len(ts) \in Nat /\ \A i \in 1 .. Len(ts) : ts[i] \in R
    OBVIOUS
  <2>2. SymbolsAt(ts) \in [1 .. Len(ts) -> S]
    BY <1>1, <2>1 DEF SymbolsAt
  <2>3. YieldsAt(ts) \in [1 .. Len(ts) -> Seq(Terminal)]
    BY <1>1, <2>1 DEF YieldsAt
  <2> QED BY <2>1, <2>2, <2>3, IsSequence
<1>3. zs \in Seq(R) /\ Len(zs) = Len(xs) + Len(ys)
  BY ConcatProperties DEF R
<1>4. \A i \in 1 .. Len(zs) : zs[i] = IF i <= Len(xs) THEN xs[i] ELSE ys[i - Len(xs)]
  OBVIOUS
<1> HIDE DEF zs
<1>5. xs \in Seq(R) /\ ys \in Seq(R)
  BY DEF R
<1>6. Len(xs) \in Nat /\ Len(ys) \in Nat /\ DOMAIN xs = 1 .. Len(xs) /\ DOMAIN ys = 1 .. Len(ys) /\ DOMAIN zs = 1 .. Len(zs)
  BY <1>3, <1>5
<1>7. SymbolsAt(zs) = SymbolsAt(xs) \o SymbolsAt(ys)
  <2> DEFINE a == SymbolsAt(xs)
             b == SymbolsAt(ys)
             c == SymbolsAt(zs)
  <2>1. a \in Seq(S) /\ b \in Seq(S) /\ c \in Seq(S) /\ Len(a) = Len(xs) /\ Len(b) = Len(ys) /\ Len(c) = Len(zs)
    BY <1>2, <1>3, <1>5
  <2>2. ASSUME NEW i \in 1 .. Len(zs) PROVE c[i] = IF i <= Len(xs) THEN a[i] ELSE b[i - Len(xs)]
    <3>1. c[i] = zs[i].symbol
      BY <1>6 DEF SymbolsAt
    <3>2. CASE i <= Len(xs)
      <4>1. i \in DOMAIN xs
        BY <1>3, <1>6, <3>2
      <4>2. a[i] = xs[i].symbol
        BY <4>1 DEF SymbolsAt
      <4> QED BY <1>4, <3>1, <3>2, <4>2
    <3>3. CASE ~ (i <= Len(xs))
      <4>1. i - Len(xs) \in DOMAIN ys
        BY <1>3, <1>6, <3>3
      <4>2. b[i - Len(xs)] = ys[i - Len(xs)].symbol
        BY <4>1 DEF SymbolsAt
      <4> QED BY <1>4, <3>1, <3>3, <4>2
    <3> QED BY <3>2, <3>3
  <2> HIDE DEF a, b, c
  <2>4. Len(c) = Len(a) + Len(b) /\ \A i \in 1 .. Len(c) : c[i] = IF i <= Len(a) THEN a[i] ELSE b[i - Len(a)]
    BY <1>3, <2>1, <2>2
  <2>3. c = a \o b
    BY <2>1, <2>4, IsBoth
  <2> QED BY <2>3 DEF a, b, c
<1>8. YieldsAt(zs) = YieldsAt(xs) \o YieldsAt(ys)
  <2> DEFINE a == YieldsAt(xs)
             b == YieldsAt(ys)
             c == YieldsAt(zs)
             U == Seq(Terminal)
  <2> HIDE DEF U
  <2>1. a \in Seq(U) /\ b \in Seq(U) /\ c \in Seq(U) /\ Len(a) = Len(xs) /\ Len(b) = Len(ys) /\ Len(c) = Len(zs)
    BY <1>2, <1>3, <1>5 DEF U
  <2>2. ASSUME NEW i \in 1 .. Len(zs) PROVE c[i] = IF i <= Len(xs) THEN a[i] ELSE b[i - Len(xs)]
    <3>1. c[i] = zs[i].yield
      BY <1>6 DEF YieldsAt
    <3>2. CASE i <= Len(xs)
      <4>1. i \in DOMAIN xs
        BY <1>3, <1>6, <3>2
      <4>2. a[i] = xs[i].yield
        BY <4>1 DEF YieldsAt
      <4> QED BY <1>4, <3>1, <3>2, <4>2
    <3>3. CASE ~ (i <= Len(xs))
      <4>1. i - Len(xs) \in DOMAIN ys
        BY <1>3, <1>6, <3>3
      <4>2. b[i - Len(xs)] = ys[i - Len(xs)].yield
        BY <4>1 DEF YieldsAt
      <4> QED BY <1>4, <3>1, <3>3, <4>2
    <3> QED BY <3>2, <3>3
  <2> HIDE DEF a, b, c
  <2>4. Len(c) = Len(a) + Len(b) /\ \A i \in 1 .. Len(c) : c[i] = IF i <= Len(a) THEN a[i] ELSE b[i - Len(a)]
    BY <1>3, <2>1, <2>2
  <2>3. c = a \o b
    BY <2>1, <2>4, IsBoth
  <2> QED BY <2>3 DEF a, b, c
<1>9. /\ YieldOf(xs) \in Seq(Terminal)
      /\ FlattenSeq(YieldsAt(xs) \o YieldsAt(ys)) = YieldOf(xs) \o YieldOf(ys)
  <2>1. YieldsAt(xs) \in Seq(Seq(Terminal)) /\ YieldsAt(ys) \in Seq(Seq(Terminal))
    BY <1>2, <1>5
  <2> QED BY <2>1, FlattenConcatenates DEF YieldOf
<1>10. YieldOf(zs) = YieldOf(xs) \o YieldOf(ys)
  BY <1>8, <1>9 DEF YieldOf
<1>11. SymbolsAt(xs) \in Seq(S) /\ Len(SymbolsAt(xs)) = Len(xs)
  BY <1>2, <1>5
<1> QED BY <1>7, <1>9, <1>10, <1>11 DEF zs, S

\* Those of one tree and of none.
LEMMA YieldOfOne ==
  ASSUME NEW L, NEW t \in Trees(L)
  PROVE  /\ SymbolsAt(<<t>>) = <<t.symbol>> /\ YieldOf(<<t>>) = t.yield
         /\ SymbolsAt(<<>>) = <<>> /\ YieldOf(<<>>) = <<>>
<1>1. t.yield \in Seq(Terminal)
  BY DEF Trees
<1>2. SymbolsAt(<<t>>) = <<t.symbol>> /\ YieldsAt(<<t>>) = <<t.yield>>
  BY DEF SymbolsAt, YieldsAt
<1>3. SymbolsAt(<<>>) = <<>> /\ YieldsAt(<<>>) = <<>>
  BY DEF SymbolsAt, YieldsAt
<1> QED BY <1>1, <1>2, <1>3, FlattenOfOne DEF YieldOf

\* One tree more has one symbol more.
LEMMA OneTreeMore ==
  ASSUME NEW L, NEW ts \in Seq(Trees(L)), NEW t \in Trees(L)
  PROVE  SymbolsAt(Append(ts, t)) = SymbolsAt(ts) \o <<t.symbol>>
<1> DEFINE R == Trees(L)
<1> HIDE DEF R
<1>1. <<t>> \in Seq(R) /\ ts \in Seq(R) /\ t \in R
  BY DEF R
<1>2. Append(ts, t) = ts \o <<t>>
  BY <1>1, AppendIsConcat
<1>3. SymbolsAt(ts \o <<t>>) = SymbolsAt(ts) \o SymbolsAt(<<t>>)
  BY <1>1, YieldsConcatenate DEF R
<1>4. SymbolsAt(<<t>>) = <<t.symbol>>
  BY YieldOfOne
<1> QED BY <1>2, <1>3, <1>4

\* What the trees of the symbols of a body have at their leaves is a word of the body.
LEMMA TreesMakeBody ==
  ASSUME NEW L, WordsOfHeads(L), NEW n \in Nat, NEW ts \in Seq(Trees(L)), Len(YieldOf(ts)) <= n
  PROVE  YieldOf(ts) \in BodyWords(n, L, SymbolsAt(ts))
<1> DEFINE R == Trees(L)
           Right(xs) == Len(YieldOf(xs)) <= n => YieldOf(xs) \in BodyWords(n, L, SymbolsAt(xs))
           Kept == {xs \in Seq(R) : Right(xs)}
           none == <<>>
<1>1. none \in Kept
  <2>1. SymbolsAt(none) = none /\ YieldOf(none) = none
    BY DEF SymbolsAt, YieldsAt, YieldOf, FlattenSeq
  <2>2. BodyWords(n, L, none) = {none}
    BY BodyOfNothing
  <2>3. none \in Seq(R)
    OBVIOUS
  <2> QED BY <2>1, <2>2, <2>3
<1>2. ASSUME NEW t \in R, NEW f \in Seq(R), f \in Kept PROVE <<t>> \o f \in Kept
  <2> DEFINE S == Terminal \cup DOMAIN L
             one == <<t>>
             xs == one \o f
  <2>1. one \in Seq(R) /\ SymbolsAt(one) = <<t.symbol>> /\ YieldOf(one) = t.yield
    BY YieldOfOne
  <2> HIDE DEF one
  <2>2. /\ SymbolsAt(xs) = SymbolsAt(one) \o SymbolsAt(f) /\ YieldOf(xs) = YieldOf(one) \o YieldOf(f)
        /\ SymbolsAt(f) \in Seq(S) /\ YieldOf(f) \in Seq(Terminal)
    BY <2>1, YieldsConcatenate
  <2>3. t.symbol \in S /\ t.yield \in Seq(Terminal) /\ t.yield \in SymbolWords(L, t.symbol)
    BY DEF Trees
  <2>4. xs \in Seq(R)
    BY <2>1, ConcatProperties
  <2> HIDE DEF xs, R, S
  <2>5. ASSUME Len(YieldOf(xs)) <= n PROVE YieldOf(xs) \in BodyWords(n, L, SymbolsAt(xs))
    <3> DEFINE u == t.yield
               v == YieldOf(f)
               X == t.symbol
               body == SymbolsAt(f)
    <3>1. YieldOf(xs) = u \o v /\ SymbolsAt(xs) = <<X>> \o body
      BY <2>1, <2>2
    <3>2. u \in Seq(Terminal) /\ v \in Seq(Terminal) /\ u \in SymbolWords(L, X) /\ X \in S /\ body \in Seq(S)
      BY <2>2, <2>3
    <3>3. Right(f)
      <4> HIDE DEF Right
      <4> QED BY <1>2
    <3> HIDE DEF u, X
    <3>4. Len(u \o v) = Len(u) + Len(v) /\ Len(u) \in Nat /\ Len(v) \in Nat
      BY <3>2, ConcatProperties
    <3>5. Len(v) <= n /\ Len(u \o v) <= n
      BY <2>5, <3>1, <3>4
    <3>6. v \in BodyWords(n, L, body)
      BY <3>3, <3>5
    <3> HIDE DEF v, body
    <3>7. u \o v \in BodyWords(n, L, <<X>> \o body)
      BY <3>2, <3>5, <3>6, BodyPutTogether
    <3> QED BY <3>1, <3>7
  <2>6. Right(xs)
    BY <2>5
  <2> HIDE DEF Right
  <2> QED BY <2>4, <2>6 DEF xs, one
<1>3. Seq(R) \subseteq Kept
  <2> HIDE DEF Kept, R
  <2> QED BY <1>1, <1>2, FromTheFront
<1>4. ts \in Kept
  BY <1>3
<1>5. Right(ts)
  <2> HIDE DEF Right
  <2> QED BY <1>4
<1> QED BY <1>5

-----------------------------------------------------------------------------
(* The stack and the items of the states on it.                            *)

\* The states the DK automaton goes through on some symbols.
Follows(tables, s, Xs, i) == s[i + 1] = GotoState(tables, s[i], Xs[i])
OnPath(tables, s, Xs) ==
  /\ s \in Seq(DOMAIN tables.collection) /\ Xs \in Seq(GrammarSymbol)
  /\ Len(s) = Len(Xs) + 1
  /\ s[1] = tables.start
  /\ \A i \in 1 .. Len(Xs) : Follows(tables, s, Xs, i)

\* What is before the dot of an item, and the symbols up to the k-th state.
OnTop(x, Xs, k) == x.dot < k /\ \A j \in 1 .. x.dot : Xs[((k - 1) - x.dot) + j] = x.body[j]

\* The last symbols before a state are those before the dot of its items.
LEMMA HandleOnTop ==
  ASSUME NEW tables, NEW Q, RightItems(tables, Q), NEW s, NEW Xs, OnPath(tables, s, Xs),
         NEW k \in 1 .. Len(s), NEW x \in tables.collection[s[k]]
  PROVE  OnTop(x, Xs, k)
<1> DEFINE C == tables.collection
           D == DOMAIN C
           Right(n) == n \in 1 .. Len(s) => \A y \in C[s[n]] : OnTop(y, Xs, n)
           Kept == {n \in Nat : Right(n)}
<1>1. s \in Seq(D) /\ Xs \in Seq(GrammarSymbol) /\ Len(s) = Len(Xs) + 1 /\ s[1] = tables.start
  BY DEF OnPath
<1>2. Len(Xs) \in Nat /\ Len(s) \in Nat
  BY <1>1
<1>3. ASSUME NEW n \in D, NEW y \in C[n] PROVE y.body \in Seq(GrammarSymbol) /\ y.dot \in 0 .. Len(y.body)
  BY DEF RightItems
<1> HIDE DEF D, C
<1>4. 0 \in Kept
  OBVIOUS
<1>5. ASSUME NEW n \in Nat, n \in Kept PROVE n + 1 \in Kept
  <2>1. ASSUME n + 1 \in 1 .. Len(s), NEW y \in C[s[n + 1]] PROVE OnTop(y, Xs, n + 1)
    <3>1. s[n + 1] \in D
      BY <1>1, <2>1
    <3>2. y.body \in Seq(GrammarSymbol) /\ y.dot \in 0 .. Len(y.body) /\ y.dot \in Nat
      BY <1>3, <3>1
    <3>3. CASE y.dot = 0
      BY <3>3 DEF OnTop
    <3>4. CASE y.dot # 0
      <4>1. n # 0
        <5> SUFFICES ASSUME n = 0 PROVE FALSE
          OBVIOUS
        <5>1. y \in C[tables.start]
          BY <1>1, <2>1
        <5> QED BY <3>4, <5>1 DEF RightItems, C
      <4>2. n \in 1 .. Len(Xs) /\ n \in 1 .. Len(s)
        BY <1>1, <1>2, <2>1, <4>1
      <4>3. s[n + 1] = GotoState(tables, s[n], Xs[n]) /\ s[n] \in D /\ Xs[n] \in GrammarSymbol
        BY <1>1, <4>2 DEF OnPath, Follows
      <4>4. y.body[y.dot] = Xs[n] /\ HasCore(C[s[n]], y.head, y.body, y.dot - 1)
        BY <2>1, <3>4, <4>3 DEF RightItems, C, D
      <4>5. PICK z \in C[s[n]] : z.body = y.body /\ z.dot = y.dot - 1
        BY <4>4 DEF HasCore
      <4>6. OnTop(z, Xs, n)
        <5>1. Right(n)
          <6> HIDE DEF Right
          <6> QED BY <1>5
        <5> QED BY <4>2, <4>5, <5>1
      <4>7. z.dot < n /\ \A j \in 1 .. z.dot : Xs[((n - 1) - z.dot) + j] = z.body[j]
        BY <4>6 DEF OnTop
      <4>8. y.dot < n + 1
        BY <3>2, <4>5, <4>7
      <4>9. ASSUME NEW j \in 1 .. y.dot PROVE Xs[(((n + 1) - 1) - y.dot) + j] = y.body[j]
        <5>1. CASE j = y.dot
          <6>1. (((n + 1) - 1) - y.dot) + j = n
            BY <3>2, <5>1
          <6> QED BY <4>4, <5>1, <6>1
        <5>2. CASE j # y.dot
          <6>1. j \in 1 .. z.dot
            BY <3>2, <4>5, <5>2
          <6>2. (((n + 1) - 1) - y.dot) + j = ((n - 1) - z.dot) + j
            BY <3>2, <4>5
          <6>3. Xs[((n - 1) - z.dot) + j] = z.body[j]
            BY <4>7, <6>1
          <6> QED BY <4>5, <6>2, <6>3
        <5> QED BY <5>1, <5>2
      <4> QED BY <4>8, <4>9 DEF OnTop
    <3> QED BY <3>3, <3>4
  <2>2. Right(n + 1)
    BY <2>1
  <2> HIDE DEF Right
  <2> QED BY <2>2
<1>6. Nat \subseteq Kept
  <2> HIDE DEF Kept
  <2> QED BY <1>4, <1>5, InductionOnNat
<1>7. Right(k)
  <2>1. k \in Kept
    BY <1>2, <1>6
  <2> HIDE DEF Right
  <2> QED BY <2>1
<1> QED BY <1>7 DEF C

\* The head LR_1 made up stands over the first symbol only.
LEMMA StartOnTop ==
  ASSUME NEW tables, NEW Q, RightItems(tables, Q), NEW s, NEW Xs, OnPath(tables, s, Xs),
         NEW k \in 1 .. Len(s), NEW x \in tables.collection[s[k]], x.head = StartSymbol, x.dot = 1
  PROVE  k = 2
<1>1. s \in Seq(DOMAIN tables.collection) /\ Xs \in Seq(GrammarSymbol) /\ Len(s) = Len(Xs) + 1
  BY DEF OnPath
<1>2. Len(Xs) \in Nat /\ Len(s) \in Nat
  BY <1>1
<1>3. x.dot < k
  BY HandleOnTop DEF OnTop
<1> SUFFICES ASSUME k >= 3 PROVE FALSE
  BY <1>3
<1>4. k - 1 \in 1 .. Len(Xs) /\ (k - 1) + 1 = k /\ k - 1 \in 1 .. Len(s)
  BY <1>1, <1>2
<1>5. s[k] = GotoState(tables, s[k - 1], Xs[k - 1])
  <2>1. Follows(tables, s, Xs, k - 1)
    BY <1>4 DEF OnPath
  <2>2. s[(k - 1) + 1] = GotoState(tables, s[k - 1], Xs[k - 1])
    BY <2>1 DEF Follows
  <2> QED BY <1>4, <2>2
<1>6. s[k - 1] \in DOMAIN tables.collection /\ Xs[k - 1] \in GrammarSymbol
  BY <1>1, <1>4
<1>7. HasCore(tables.collection[s[k - 1]], x.head, x.body, 0)
  <2>1. x.dot - 1 = 0 /\ x.dot # 0
    OBVIOUS
  <2>2. HasCore(tables.collection[s[k - 1]], x.head, x.body, x.dot - 1)
    BY <1>5, <1>6, <2>1 DEF RightItems
  <2> QED BY <2>1, <2>2
<1>8. PICK y \in tables.collection[s[k - 1]] : y.head = StartSymbol /\ y.dot = 0
  BY <1>7 DEF HasCore
<1>9. k - 2 \in 1 .. Len(Xs) /\ (k - 2) + 1 = k - 1 /\ k - 2 \in 1 .. Len(s)
  BY <1>1, <1>2
<1>10. s[k - 1] = GotoState(tables, s[k - 2], Xs[k - 2])
  <2>1. Follows(tables, s, Xs, k - 2)
    BY <1>9 DEF OnPath
  <2>2. s[(k - 2) + 1] = GotoState(tables, s[k - 2], Xs[k - 2])
    BY <2>1 DEF Follows
  <2> QED BY <1>9, <2>2
<1>11. s[k - 2] \in DOMAIN tables.collection /\ Xs[k - 2] \in GrammarSymbol
  BY <1>1, <1>9
<1> QED BY <1>8, <1>10, <1>11 DEF RightItems

\* What is popped leaves a path, and so does a further state.
LEMMA PathCut ==
  ASSUME NEW tables, NEW s, NEW Xs, OnPath(tables, s, Xs), NEW m \in 0 .. Len(Xs)
  PROVE  OnPath(tables, SubSeq(s, 1, m + 1), SubSeq(Xs, 1, m))
<1> DEFINE D == DOMAIN tables.collection
           t == SubSeq(s, 1, m + 1)
           Ys == SubSeq(Xs, 1, m)
<1>1. s \in Seq(D) /\ Xs \in Seq(GrammarSymbol) /\ Len(s) = Len(Xs) + 1 /\ s[1] = tables.start
  BY DEF OnPath
<1>2. Len(Xs) \in Nat /\ Len(s) \in Nat
  BY <1>1
<1>3. t \in Seq(D) /\ Len(t) = m + 1 /\ \A i \in 1 .. m + 1 : t[i] = s[i]
  <2> HIDE DEF D
  <2>1. m + 1 \in 0 .. Len(s)
    BY <1>1, <1>2
  <2> QED BY <1>1, <2>1
<1>4. Ys \in Seq(GrammarSymbol) /\ Len(Ys) = m /\ \A i \in 1 .. m : Ys[i] = Xs[i]
  BY <1>1
<1> HIDE DEF t, Ys
<1>5. ASSUME NEW i \in 1 .. Len(Ys) PROVE Follows(tables, t, Ys, i)
  <2>1. i \in 1 .. Len(Xs) /\ i \in 1 .. m /\ i \in 1 .. m + 1 /\ i + 1 \in 1 .. m + 1
    BY <1>2, <1>4
  <2>2. Follows(tables, s, Xs, i)
    BY <2>1 DEF OnPath
  <2>3. t[i] = s[i] /\ t[i + 1] = s[i + 1] /\ Ys[i] = Xs[i]
    BY <1>3, <1>4, <2>1
  <2> QED BY <2>2, <2>3 DEF Follows
<1>6. t[1] = tables.start
  BY <1>1, <1>3
<1> QED BY <1>3, <1>4, <1>5, <1>6 DEF OnPath, t, Ys

\* A path can be gone on with by any symbol.
LEMMA PathGrown ==
  ASSUME NEW tables, NEW Q, RightItems(tables, Q), NEW s, NEW Xs, OnPath(tables, s, Xs), NEW A \in GrammarSymbol
  PROVE  OnPath(tables, Append(s, GotoState(tables, s[Len(s)], A)), Append(Xs, A))
<1> DEFINE D == DOMAIN tables.collection
           new == GotoState(tables, s[Len(s)], A)
           t == Append(s, new)
           Ys == Append(Xs, A)
           n == Len(Xs)
<1>1. s \in Seq(D) /\ Xs \in Seq(GrammarSymbol) /\ Len(s) = Len(Xs) + 1 /\ s[1] = tables.start
  BY DEF OnPath
<1>2. n \in Nat /\ Len(s) = n + 1
  BY <1>1
<1>3. s[Len(s)] \in D
  <2> HIDE DEF D
  <2> QED BY <1>1, <1>2
<1>4. new \in D
  BY <1>3 DEF RightItems
<1>5. t \in Seq(D) /\ Len(t) = n + 2 /\ t[n + 2] = new /\ \A i \in 1 .. n + 1 : t[i] = s[i]
  <2> HIDE DEF D, new
  <2> QED BY <1>1, <1>2, <1>4
<1>6. Ys \in Seq(GrammarSymbol) /\ Len(Ys) = n + 1 /\ Ys[n + 1] = A /\ \A i \in 1 .. n : Ys[i] = Xs[i]
  BY <1>1
<1>7. new = GotoState(tables, s[n + 1], A)
  BY <1>2
<1> HIDE DEF t, Ys, new
<1>8. ASSUME NEW i \in 1 .. Len(Ys) PROVE Follows(tables, t, Ys, i)
  <2>1. CASE i = n + 1
    <3>1. i + 1 = n + 2 /\ i \in 1 .. n + 1
      BY <1>2, <2>1
    <3>2. t[i + 1] = new /\ t[i] = s[n + 1] /\ Ys[i] = A
      BY <1>5, <1>6, <2>1, <3>1
    <3> QED BY <1>7, <3>2 DEF Follows
  <2>2. CASE i # n + 1
    <3>1. i \in 1 .. n /\ i \in 1 .. n + 1 /\ i + 1 \in 1 .. n + 1
      BY <1>2, <1>6, <2>2
    <3>2. Follows(tables, s, Xs, i)
      BY <3>1 DEF OnPath
    <3>3. t[i] = s[i] /\ t[i + 1] = s[i + 1] /\ Ys[i] = Xs[i]
      BY <1>5, <1>6, <3>1
    <3> QED BY <3>2, <3>3 DEF Follows
  <2> QED BY <2>1, <2>2
<1>9. t[1] = tables.start
  BY <1>1, <1>2, <1>5
<1>10. Len(t) = Len(Ys) + 1
  BY <1>2, <1>5, <1>6
<1> QED BY <1>5, <1>6, <1>8, <1>9, <1>10 DEF OnPath, t, Ys, new

-----------------------------------------------------------------------------
(* The words of the trees.                                                 *)

\* No word is longer than the longest one.
LEMMA LongestOfWords ==
  ASSUME NEW w \in Words
  PROVE  Longest \in Nat /\ Len(w) <= Longest
<1> DEFINE S == {Len(v) : v \in Words}
<1>1. IsFiniteSet(S)
  <2> DEFINE f == [v \in Words |-> Len(v)]
  <2>1. f \in Surjection(Words, S)
    BY DEF Surjection
  <2> HIDE DEF f, S
  <2> QED BY <2>1, WordsAssumption, FS_Surjection
<1>2. S \in SUBSET Nat /\ Len(w) \in S
  BY WordsAssumption
<1> HIDE DEF S
<1>3. PICK m \in S : \A k \in S : k <= m
  BY <1>1, <1>2, FiniteSetHasGreatest
<1>4. \E x \in S : \A y \in S : x >= y
  BY <1>2, <1>3
<1>5. Longest = CHOOSE x \in S : \A y \in S : x >= y
  BY DEF Longest, Max, S
<1>6. Longest \in S /\ \A y \in S : Longest >= y
  BY <1>4, <1>5
<1> QED BY <1>2, <1>6

\* WordsOf has words for the heads, and all that trees with those below the root derive.
LEMMA WordsOfRight ==
  ASSUME NEW i \in DOMAIN Grammars, NEW w \in Words
  PROVE  /\ WordsOfHeads(WordsOf[i]) /\ DOMAIN WordsOf[i] = Heads(Grammars[i].productions)
         /\ \A A \in Heads(Grammars[i].productions) :
              Higher(Longest, Grammars[i], WordsOf[i])[A] \subseteq WordsOf[i][A]
<1> DEFINE g == Grammars[i]
           n == Longest
           k == (n + 1) * Cardinality(Heads(g.productions))
<1>1. IsFiniteSet(g.productions) /\ Typed(g.productions)
  BY GrammarsAssumption DEF IsGrammar, Typed, Production
<1>2. IsFiniteSet(Heads(g.productions))
  BY <1>1, HeadsFinite
<1>3. n \in Nat
  BY LongestOfWords
<1>4. WordsOf[i] = DerivedWords(g, n)
  BY DEF WordsOf
<1>5. k \in Nat
  BY <1>2, <1>3, FS_CardinalityType
<1>6. DerivedWords(g, n) = WordsByHeight(g, n)[k]
  BY DEF DerivedWords
<1> HIDE DEF k, n, g
<1>7. IsByHeight(WordsByHeight(g, n), g, n)
  BY <1>1, <1>3, WordsByHeightUnfold
<1>8. WordsOfHeads(DerivedWords(g, n)) /\ DOMAIN DerivedWords(g, n) = Heads(g.productions)
  BY <1>5, <1>6, <1>7 DEF IsByHeight
<1>9. \A A \in Heads(g.productions) : Higher(n, g, DerivedWords(g, n))[A] \subseteq DerivedWords(g, n)[A]
  BY <1>1, <1>2, <1>3, NothingNew
<1> QED BY <1>4, <1>8, <1>9 DEF g, n

\* The state on the top has a completed item, and not of the start symbol LR_1 makes up.
Reducible(i, kind, tables, s, ts, x) ==
  /\ i \in DOMAIN Grammars /\ kind \in Kinds
  /\ RightItems(tables, Normalized(Grammars[i], kind).productions)
  /\ ts \in Seq(Trees(WordsOf[i])) /\ OnPath(tables, s, SymbolsAt(ts)) /\ Len(YieldOf(ts)) <= Longest
  /\ x \in CompletedItems(tables.collection[s[Len(s)]]) /\ x.head # StartSymbol

\* What is left, and the new node.
Reduced(i, ts, x, rest, node) ==
  /\ Len(x.body) \in 0 .. Len(ts) /\ x.head \in GrammarSymbol
  /\ node \in Trees(WordsOf[i]) /\ rest \in Seq(Trees(WordsOf[i]))
  /\ Len(rest) = Len(ts) - Len(x.body)
  /\ YieldOf(rest) \o node.yield = YieldOf(ts)
  /\ SymbolsAt(rest) = SubSeq(SymbolsAt(ts), 1, Len(ts) - Len(x.body))

\* A reduction: the symbols of the last trees are those of the body, a tree of the head is made
\* of them, and the words at the leaves of all stay what they are.
LEMMA ReductionRight ==
  ASSUME NEW i, NEW kind, NEW w \in Words, NEW tables, NEW s, NEW ts, NEW x, Reducible(i, kind, tables, s, ts, x),
         NEW rest, rest = Without(ts, Len(x.body)), NEW node, node = Tree(x.head, YieldOf(LastOf(ts, Len(x.body))))
  PROVE  Reduced(i, ts, x, rest, node)
<1>a. /\ i \in DOMAIN Grammars /\ kind \in Kinds
      /\ RightItems(tables, Normalized(Grammars[i], kind).productions)
      /\ ts \in Seq(Trees(WordsOf[i])) /\ OnPath(tables, s, SymbolsAt(ts)) /\ Len(YieldOf(ts)) <= Longest
      /\ x \in CompletedItems(tables.collection[s[Len(s)]]) /\ x.head # StartSymbol
  BY DEF Reducible
<1> USE <1>a
<1> DEFINE L == WordsOf[i]
           R == Trees(L)
           g == Grammars[i]
           Xs == SymbolsAt(ts)
           m == Len(x.body)
           k == Len(ts) - m
           children == LastOf(ts, m)
<1>0. ts \in Seq(R)
  OBVIOUS
<1>1. /\ s \in Seq(DOMAIN tables.collection) /\ Len(s) = Len(Xs) + 1
      /\ Xs \in Seq(GrammarSymbol) /\ Len(Xs) = Len(ts) /\ Len(ts) \in Nat /\ YieldOf(ts) \in Seq(Terminal)
  <2>1. Len(Xs) = Len(ts) /\ YieldOf(ts) \in Seq(Terminal)
    BY <1>0, YieldsConcatenate
  <2>2. Len(ts) \in Nat
    <3> HIDE DEF R
    <3> QED BY <1>0
  <2> HIDE DEF Xs
  <2> QED BY <2>1, <2>2 DEF OnPath, Xs
<1>2. Len(s) \in 1 .. Len(s) /\ s[Len(s)] \in DOMAIN tables.collection
  BY <1>1
<1>3. x \in tables.collection[s[Len(s)]] /\ x.dot = m
  BY DEF CompletedItems, Completed
<1>4. ProductionOf(x) \in Normalized(g, kind).productions /\ x.body \in Seq(GrammarSymbol)
  BY <1>2, <1>3 DEF RightItems
<1>5. ProductionOf(x) \in g.productions /\ ProductionOf(x).head = x.head /\ ProductionOf(x).body = x.body
  <2>1. ProductionOf(x).head = x.head /\ ProductionOf(x).body = x.body
    BY DEF ProductionOf
  <2> QED BY <1>4, <2>1, NormalizedRight
<1>6. OnTop(x, Xs, Len(s))
  BY <1>2, <1>3, HandleOnTop
<1>7. m \in 0 .. Len(ts) /\ k \in 0 .. Len(ts)
  <2>1. m \in Nat
    BY <1>4
  <2>2. m < Len(s)
    BY <1>3, <1>6 DEF OnTop
  <2> QED BY <1>1, <2>1, <2>2
<1> HIDE DEF R, Xs, L
<1>8. ts \in Seq(R)
  BY <1>0
<1>18. rest = SubSeq(ts, 1, k) /\ children = SubSeq(ts, k + 1, Len(ts)) /\ Len(ts) - k = m
  <2>1. Len(ts) - k = m
    BY <1>1, <1>7
  <2> QED BY <2>1 DEF Without, LastOf
<1>19. (Len(s) - 1) - x.dot = k /\ k \in Nat /\ m \in Nat /\ k + m = Len(ts)
  BY <1>1, <1>3, <1>7
<1> HIDE DEF children, k, m
<1>9. rest \in Seq(R) /\ Len(rest) = k /\ \A j \in 1 .. k : rest[j] = ts[j]
  BY <1>7, <1>8, <1>18, CutInTwo
<1>10. children \in Seq(R) /\ Len(children) = m /\ \A j \in 1 .. m : children[j] = ts[k + j]
  BY <1>7, <1>8, <1>18, CutInTwo
<1>11. ts = rest \o children
  BY <1>7, <1>8, <1>18, CutInTwo
<1>12. /\ YieldOf(ts) = YieldOf(rest) \o YieldOf(children)
       /\ YieldOf(rest) \in Seq(Terminal) /\ YieldOf(children) \in Seq(Terminal)
       /\ SymbolsAt(children) \in Seq(Terminal \cup DOMAIN L) /\ Len(SymbolsAt(children)) = m
       /\ SymbolsAt(rest) \in Seq(Terminal \cup DOMAIN L) /\ Len(SymbolsAt(rest)) = k
  BY <1>9, <1>10, <1>11, YieldsConcatenate DEF R
<1>13. SymbolsAt(children) = x.body
  <2>1. ASSUME NEW j \in 1 .. m PROVE SymbolsAt(children)[j] = x.body[j]
    <3>1. j \in DOMAIN children /\ k + j \in 1 .. Len(ts) /\ k + j \in DOMAIN ts
      <4>1. DOMAIN children = 1 .. m /\ DOMAIN ts = 1 .. Len(ts)
        BY <1>8, <1>10
      <4>2. k + j \in 1 .. Len(ts)
        BY <1>19
      <4> QED BY <4>1, <4>2
    <3>2. SymbolsAt(children)[j] = ts[k + j].symbol
      BY <1>10, <3>1 DEF SymbolsAt
    <3>3. Xs[k + j] = ts[k + j].symbol
      BY <3>1 DEF SymbolsAt, Xs
    <3>4. ((Len(s) - 1) - x.dot) + j = k + j
      BY <1>19
    <3>5. Xs[((Len(s) - 1) - x.dot) + j] = x.body[j]
      BY <1>3, <1>6 DEF OnTop
    <3> QED BY <3>2, <3>3, <3>4, <3>5
  <2>2. Len(SymbolsAt(children)) = Len(x.body)
    BY <1>12 DEF m
  <2> QED BY <1>4, <1>12, <2>1, <2>2, SameSequence
<1>14. SymbolsAt(rest) = SubSeq(Xs, 1, k)
  <2> DEFINE b == SubSeq(Xs, 1, k)
  <2>1. b \in Seq(GrammarSymbol) /\ Len(b) = k /\ \A j \in 1 .. k : b[j] = Xs[j]
    BY <1>1, <1>7, CutInTwo
  <2> HIDE DEF b
  <2>2. ASSUME NEW j \in 1 .. k PROVE SymbolsAt(rest)[j] = b[j]
    <3>1. j \in DOMAIN rest /\ j \in DOMAIN ts
      BY <1>1, <1>7, <1>8, <1>9
    <3>2. SymbolsAt(rest)[j] = rest[j].symbol /\ Xs[j] = ts[j].symbol
      BY <3>1 DEF SymbolsAt, Xs
    <3> QED BY <1>9, <2>1, <3>2
  <2>3. SymbolsAt(rest) = b
    BY <1>12, <2>1, <2>2, SameSequence
  <2> QED BY <2>3 DEF b
<1>15. node \in R
  <2>1. x.head \in Heads(g.productions) /\ x.body \in Bodies(g.productions, x.head)
    BY <1>5 DEF Heads, Bodies
  <2>2. WordsOfHeads(L) /\ DOMAIN L = Heads(g.productions)
    BY WordsOfRight DEF L
  <2>3. x.head \in NonTerminal /\ x.head \notin Terminal /\ x.head \in DOMAIN L
    BY <2>1, <2>2, SymbolsAssumption DEF WordsOfHeads
  <2>4. Len(YieldOf(children)) <= Longest /\ Longest \in Nat
    <3>1. Len(YieldOf(rest) \o YieldOf(children)) = Len(YieldOf(rest)) + Len(YieldOf(children))
      BY <1>12, ConcatProperties
    <3>2. Len(YieldOf(rest)) \in Nat /\ Len(YieldOf(children)) \in Nat /\ Longest \in Nat
      BY <1>12, LongestOfWords
    <3> QED BY <1>12, <3>1, <3>2
  <2>5. YieldOf(children) \in BodyWords(Longest, L, x.body)
    BY <1>10, <1>13, <2>2, <2>4, TreesMakeBody DEF R
  <2>6. YieldOf(children) \in Higher(Longest, g, L)[x.head]
    BY <2>1, <2>5 DEF Higher
  <2>7. YieldOf(children) \in L[x.head]
    BY <2>1, <2>6, WordsOfRight DEF L
  <2>8. node.symbol = x.head /\ node.yield = YieldOf(children) /\ node = [symbol |-> x.head, yield |-> YieldOf(children)]
    BY DEF Tree, children, m
  <2> QED BY <1>12, <2>3, <2>7, <2>8 DEF R, Trees, SymbolWords
<1>16. node.yield = YieldOf(children)
  BY DEF Tree, children, m
<1>17. x.head \in GrammarSymbol
  <2>1. Typed(g.productions)
    BY GrammarsAssumption DEF IsGrammar, Typed, Production
  <2> QED BY <1>5, <2>1 DEF Typed, GrammarSymbol
<1> QED BY <1>7, <1>9, <1>12, <1>14, <1>15, <1>16, <1>17 DEF R, L, Xs, k, m, Reduced

-----------------------------------------------------------------------------
(* The invariant.                                                          *)

\* The words of the grammar of the object, and the productions its tables are of.
WordsHere == WordsOf[object.grammar]
ProductionsHere == Normalized(Grammars[object.grammar], object.kind).productions

\* Every entry, also of a table that is not finished, is for a completed item of its state.
EntryRight(o, e) ==
  /\ e[1] \in DOMAIN o.tables.collection /\ e[3] \in CompletedItems(o.tables.collection[e[1]])
  /\ e[2] \in e[3].ahead
EntriesRight == \A e \in entries : EntryRight(object, e)

\* What parse and the callbacks have done so far; the parent is the last tree, if that is no leaf.
ParseRight ==
  phase # "idle" =>
    /\ word \in Words /\ at \in 1 .. Len(word) + 1 /\ answer = "none"
    /\ viable \in Seq(Trees(WordsHere)) /\ OnPath(T, stack, SymbolsAt(viable))
    /\ YieldOf(viable) = SubSeq(word, 1, at - 1)
    /\ viable # <<>> /\ viable[Len(viable)].symbol \notin Terminal => parent = <<viable[Len(viable)]>>

\* A tree is one of the word that was parsed; LR_1 gives one of the start symbol.
TreeRight ==
  answer = "tree" => /\ parent[1].yield = word
                     /\ Derives(parent[1])
                     /\ object.kind # "DCFG" => parent[1].symbol = Start

IndInv == object \in Objects /\ EntriesRight /\ ParseRight /\ TreeRight

\* The tables of an object.
LEMMA ObjectRight ==
  ASSUME object \in Objects
  PROVE  /\ object.grammar \in DOMAIN Grammars /\ object.kind \in Kinds
         /\ RightItems(T, ProductionsHere)
<1>1. PICK i \in DOMAIN Grammars, k \in Kinds :
        object = [grammar |-> i, kind |-> k, tables |-> TablesOf(Grammars[i], k, MaxSteps)]
  BY DEF Objects
<1>2. object.grammar = i /\ object.kind = k /\ T = TablesOf(Grammars[i], k, MaxSteps)
  BY <1>1 DEF T
<1>3. RightItems(TablesOf(Grammars[i], k, MaxSteps), Normalized(Grammars[i], k).productions)
  BY TablesRight
<1> QED BY <1>2, <1>3 DEF ProductionsHere

\* A tree of the viable prefix derives its word, as the run says it.
LEMMA TreesDerive ==
  ASSUME object \in Objects, word \in Words, NEW t \in Trees(WordsHere)
  PROVE  Derives(t) /\ t.yield \in Seq(Terminal) /\ t.symbol \in GrammarSymbol
<1>1. t.symbol \in Terminal \cup DOMAIN WordsHere /\ t.yield \in Seq(Terminal) /\ t.yield \in SymbolWords(WordsHere, t.symbol)
  BY DEF Trees
<1>2. DOMAIN WordsHere \subseteq NonTerminal
  BY ObjectRight, WordsOfRight DEF WordsHere, WordsOfHeads
<1>3. t.symbol \in GrammarSymbol
  BY <1>1, <1>2 DEF GrammarSymbol
<1>4. Derives(t)
  BY <1>1 DEF Derives, SymbolWords, WordsHere
<1> QED BY <1>1, <1>3, <1>4

\* A call begins with the start state and no tree.
LEMMA CallKeeps ==
  ASSUME IndInv, NEW w \in Words, Call(w)
  PROVE  IndInv'
<1> USE DEF Call
<1>1. object' = object /\ entries' = entries /\ answer' = "none"
  OBVIOUS
<1>2. object' \in Objects /\ EntriesRight'
  BY <1>1 DEF IndInv, EntriesRight
<1>3. TreeRight'
  BY <1>1 DEF TreeRight
<1>4. word' = w /\ at' = 1 /\ stack' = <<T.start>> /\ viable' = <<>> /\ T' = T /\ WordsHere' = WordsHere
  BY <1>1 DEF T, WordsHere
<1>5. OnPath(T, <<T.start>>, <<>>)
  <2>1. T.start \in DOMAIN T.collection
    BY ObjectRight DEF IndInv, RightItems
  <2> DEFINE d == T.start
             s == <<d>>
             D == DOMAIN T.collection
             Xs == <<>>
  <2>2. s \in Seq(D) /\ Len(s) = 1 /\ s[1] = d
    <3> HIDE DEF d, D
    <3>1. d \in D
      BY <2>1 DEF d, D
    <3> QED BY <3>1
  <2>3. Xs \in Seq(GrammarSymbol) /\ Len(Xs) = 0
    OBVIOUS
  <2> HIDE DEF s, Xs
  <2>4. OnPath(T, s, Xs)
    BY <2>2, <2>3 DEF OnPath
  <2> QED BY <2>4 DEF s, Xs
<1>6. SymbolsAt(<<>>) = <<>> /\ YieldOf(<<>>) = <<>>
  BY DEF SymbolsAt, YieldsAt, YieldOf, FlattenSeq
<1>7. w \in Seq(Terminal) /\ Len(w) \in Nat /\ SubSeq(w, 1, 0) = <<>>
  <2>1. w \in Seq(Terminal)
    BY WordsAssumption
  <2>2. SubSeq(w, 1, 0) = <<>>
    BY <2>1
  <2> QED BY <2>1, <2>2
<1>8. ParseRight'
  <2>1. 1 \in 1 .. Len(w) + 1 /\ 1 - 1 = 0
    BY <1>7
  <2>2. <<>> \in Seq(Trees(WordsHere))
    OBVIOUS
  <2> QED BY <1>1, <1>4, <1>5, <1>6, <1>7, <2>1, <2>2 DEF ParseRight
<1> QED BY <1>2, <1>3, <1>8 DEF IndInv

\* The entries for a completed item of a state.
LEMMA EntriesAreRight ==
  ASSUME NEW n \in DOMAIN T.collection, NEW items \in SUBSET ItemsOf(n)
  PROVE  \A e \in EntriesOf(n, items) : EntryRight(object, e)
<1> TAKE e \in EntriesOf(n, items)
<1>1. PICK item \in items : e \in Entries(n, item)
  BY DEF EntriesOf
<1>2. PICK l \in item.ahead : e = <<n, l, item>>
  BY <1>1 DEF Entries
<1> QED BY <1>2 DEF EntryRight, ItemsOf, T

\* An exception ends the call.
LEMMA ThrowKeeps ==
  ASSUME IndInv, Throw, EntriesRight'
  PROVE  IndInv'
<1>1. object' = object /\ phase' = "idle" /\ answer' = "throw"
  BY DEF Throw
<1> QED BY <1>1 DEF IndInv, ParseRight, TreeRight

\* The table is empty still, when the test has failed.
LEMMA TestFailsKeeps ==
  ASSUME IndInv, TestFails
  PROVE  IndInv'
<1>1. entries' = entries /\ object' = object /\ Throw
  BY DEF TestFails, Throw
<1>2. EntriesRight'
  BY <1>1 DEF IndInv, EntriesRight
<1> QED BY <1>1, <1>2, ThrowKeeps

\* What was entered before a conflict is right.
LEMMA ConflictKeeps ==
  ASSUME IndInv, Conflict
  PROVE  IndInv'
<1>1. Throw /\ object' = object
  BY DEF Conflict, Throw
<1>2. PICK n \in (DOMAIN T.collection) \ Harmless, done \in SUBSET Harmless :
        \E before \in SUBSET ItemsOf(n) :
        \E item \in ItemsOf(n) \ before :
          /\ Enterable(before)
          /\ \E i \in before : Overlap(i, item)
          /\ \E part \in SUBSET (item.ahead \ UNION {i.ahead : i \in before}) :
               entries' = UNION {EntriesIn(done), EntriesOf(n, before), {<<n, l, item>> : l \in part}}
  BY DEF Conflict
<1>7. n \in DOMAIN T.collection
  OBVIOUS
<1>5. PICK before \in SUBSET ItemsOf(n) :
        \E item \in ItemsOf(n) \ before :
          /\ Enterable(before)
          /\ \E i \in before : Overlap(i, item)
          /\ \E part \in SUBSET (item.ahead \ UNION {i.ahead : i \in before}) :
               entries' = UNION {EntriesIn(done), EntriesOf(n, before), {<<n, l, item>> : l \in part}}
  BY <1>2
<1>8. PICK item \in ItemsOf(n) :
        \E part \in SUBSET (item.ahead \ UNION {i.ahead : i \in before}) :
          entries' = UNION {EntriesIn(done), EntriesOf(n, before), {<<n, l, item>> : l \in part}}
  BY <1>5
<1>6. PICK part \in SUBSET item.ahead :
        entries' = UNION {EntriesIn(done), EntriesOf(n, before), {<<n, l, item>> : l \in part}}
  BY <1>8
<1>3. ASSUME NEW e \in entries' PROVE EntryRight(object, e)
  <2>1. CASE e \in EntriesIn(done)
    <3>1. PICK m \in done : e \in EntriesOf(m, ItemsOf(m))
      BY <2>1 DEF EntriesIn
    <3>2. m \in DOMAIN T.collection
      BY <3>1 DEF Harmless
    <3> QED BY <3>1, <3>2, EntriesAreRight
  <2>2. CASE e \in EntriesOf(n, before)
    BY <1>7, <2>2, EntriesAreRight
  <2>3. CASE e \in {<<n, l, item>> : l \in part}
    <3>1. e \in EntriesOf(n, {item})
      BY <2>3 DEF EntriesOf, Entries
    <3>2. {item} \in SUBSET ItemsOf(n)
      OBVIOUS
    <3> QED BY <1>7, <3>1, <3>2, EntriesAreRight
  <2> QED BY <1>6, <2>1, <2>2, <2>3
<1>4. EntriesRight'
  BY <1>1, <1>3 DEF EntriesRight
<1> QED BY <1>1, <1>4, ThrowKeeps

\* So is what a finished table has.
LEMMA TableDoneKeeps ==
  ASSUME IndInv, TableDone
  PROVE  IndInv'
<1>1. /\ object' = object /\ entries' = EntriesIn(DOMAIN T.collection) /\ phase # "idle"
      /\ word' = word /\ at' = at /\ stack' = stack /\ viable' = viable /\ parent' = parent /\ answer' = answer
  BY DEF TableDone, tree
<1>2. ASSUME NEW e \in entries' PROVE EntryRight(object, e)
  <2>1. PICK n \in DOMAIN T.collection : e \in EntriesOf(n, ItemsOf(n))
    BY <1>1 DEF EntriesIn
  <2> QED BY <2>1, EntriesAreRight
<1>3. EntriesRight'
  BY <1>1, <1>2 DEF EntriesRight
<1>4. T' = T /\ WordsHere' = WordsHere
  BY <1>1 DEF T, WordsHere
<1>5. ParseRight'
  BY <1>1, <1>4 DEF IndInv, ParseRight
<1>6. answer' = "none"
  BY <1>1 DEF IndInv, ParseRight
<1>7. TreeRight'
  BY <1>6 DEF TreeRight
<1> QED BY <1>1, <1>3, <1>5, <1>7 DEF IndInv

\* The parse, as far as its steps need it.
LEMMA WhileParsing ==
  ASSUME IndInv, phase = "parse"
  PROVE  /\ object \in Objects /\ EntriesRight
         /\ object.grammar \in DOMAIN Grammars /\ object.kind \in Kinds /\ RightItems(T, ProductionsHere)
         /\ word \in Words /\ word \in Seq(Terminal) /\ at \in 1 .. Len(word) + 1 /\ Len(word) \in Nat /\ answer = "none"
         /\ viable \in Seq(Trees(WordsHere)) /\ Len(viable) \in Nat /\ OnPath(T, stack, SymbolsAt(viable))
         /\ Len(stack) = Len(viable) + 1
         /\ YieldOf(viable) = SubSeq(word, 1, at - 1) /\ Len(YieldOf(viable)) <= Longest
         /\ viable # <<>> /\ viable[Len(viable)].symbol \notin Terminal => parent = <<viable[Len(viable)]>>
         /\ IF Ahead \in Terminal THEN at \in 1 .. Len(word) /\ Ahead = word[at]
            ELSE Ahead = EndMarker /\ SubSeq(word, 1, at - 1) = word
<1>1. object \in Objects /\ EntriesRight
  BY DEF IndInv
<1>2. /\ word \in Words /\ at \in 1 .. Len(word) + 1 /\ answer = "none"
      /\ viable \in Seq(Trees(WordsHere)) /\ OnPath(T, stack, SymbolsAt(viable))
      /\ YieldOf(viable) = SubSeq(word, 1, at - 1)
      /\ viable # <<>> /\ viable[Len(viable)].symbol \notin Terminal => parent = <<viable[Len(viable)]>>
  BY DEF IndInv, ParseRight
<1>3. object.grammar \in DOMAIN Grammars /\ object.kind \in Kinds /\ RightItems(T, ProductionsHere)
  BY <1>1, ObjectRight
<1>4. word \in Seq(Terminal) /\ Len(word) \in Nat
  BY <1>2, WordsAssumption
<1>5. Len(viable) \in Nat
  <2> DEFINE R == Trees(WordsHere)
  <2> HIDE DEF R
  <2>1. viable \in Seq(R)
    BY <1>2 DEF R
  <2> QED BY <2>1
<1>6. Len(stack) = Len(viable) + 1
  <2>1. Len(SymbolsAt(viable)) = Len(viable)
    BY <1>2, YieldsConcatenate
  <2> QED BY <1>2, <2>1 DEF OnPath
<1>7. Len(YieldOf(viable)) <= Longest
  <2>1. Len(SubSeq(word, 1, at - 1)) = at - 1
    <3>1. at - 1 \in 0 .. Len(word)
      BY <1>2, <1>4
    <3> QED BY <1>4, <3>1, CutInTwo
  <2>2. Longest \in Nat /\ Len(word) <= Longest
    BY <1>2, LongestOfWords
  <2> QED BY <1>2, <1>4, <2>1, <2>2
<1>8. /\ at \in 1 .. Len(word) => Ahead = word[at] /\ Ahead \in Terminal
      /\ at = Len(word) + 1 => Ahead = EndMarker
  <2> DEFINE S == Terminal \cup {EndMarker}
  <2>1. word \in Seq(S) /\ EndMarker \in S
    BY <1>4
  <2> HIDE DEF S
  <2>2. /\ at \in 1 .. Len(word) => Append(word, EndMarker)[at] = word[at]
        /\ at = Len(word) + 1 => Append(word, EndMarker)[at] = EndMarker
    BY <1>4, <2>1
  <2>3. at \in 1 .. Len(word) => word[at] \in Terminal
    BY <1>4
  <2> QED BY <2>2, <2>3 DEF Ahead, Input
<1>9. EndMarker \notin Terminal
  BY SymbolsAssumption DEF GrammarSymbol
<1>10. IF Ahead \in Terminal THEN at \in 1 .. Len(word) /\ Ahead = word[at]
       ELSE Ahead = EndMarker /\ SubSeq(word, 1, at - 1) = word
  <2>1. CASE at \in 1 .. Len(word)
    BY <1>8, <2>1
  <2>2. CASE at \notin 1 .. Len(word)
    <3>1. at = Len(word) + 1 /\ at - 1 = Len(word)
      BY <1>2, <1>4, <2>2
    <3>2. SubSeq(word, 1, Len(word)) = word
      BY <1>4
    <3> QED BY <1>8, <1>9, <3>1, <3>2
  <2> QED BY <2>1, <2>2
<1> QED BY <1>1, <1>2, <1>3, <1>4, <1>5, <1>6, <1>7, <1>10

\* What is left when the parse goes on: the stacks in step, and nothing said.
LEMMA GoesOn ==
  ASSUME IndInv, object' = object, entries' = entries, word' = word, answer' = "none", word \in Words,
         at' \in 1 .. Len(word) + 1, viable' \in Seq(Trees(WordsHere)), OnPath(T, stack', SymbolsAt(viable')),
         YieldOf(viable') = SubSeq(word, 1, at' - 1),
         viable' # <<>> /\ viable'[Len(viable')].symbol \notin Terminal => parent' = <<viable'[Len(viable')]>>
  PROVE  IndInv'
<1>1. T' = T /\ WordsHere' = WordsHere
  BY DEF T, WordsHere
<1>2. ParseRight'
  BY <1>1 DEF ParseRight
<1> QED BY <1>2 DEF IndInv, EntriesRight, TreeRight

\* A terminal comes with its leaf, and its state is the next.
LEMMA ShiftKeeps ==
  ASSUME IndInv, Shift
  PROVE  IndInv'
<1> DEFINE R == Trees(WordsHere)
           leaf == Tree(Ahead, <<Ahead>>)
           m == Len(viable)
<1>0. phase = "parse" /\ Ahead \in Terminal
  BY DEF Shift, CanShift
<1>1. /\ object' = object /\ entries' = entries /\ word' = word /\ answer' = answer
      /\ stack' = Append(stack, GotoState(T, stack[Len(stack)], Ahead))
      /\ viable' = Append(viable, leaf) /\ at' = at + 1
  BY DEF Shift, constructed, Top
<1>2. /\ word \in Words /\ word \in Seq(Terminal) /\ Len(word) \in Nat /\ answer = "none"
      /\ viable \in Seq(R) /\ m \in Nat /\ OnPath(T, stack, SymbolsAt(viable)) /\ RightItems(T, ProductionsHere)
      /\ YieldOf(viable) = SubSeq(word, 1, at - 1) /\ at \in 1 .. Len(word) /\ Ahead = word[at]
  BY <1>0, WhileParsing
<1>3. leaf \in R /\ leaf.symbol = Ahead /\ leaf.yield = <<Ahead>>
  <2>1. leaf.symbol = Ahead /\ leaf.yield = <<Ahead>> /\ leaf = [symbol |-> Ahead, yield |-> <<Ahead>>]
    BY DEF Tree
  <2>2. <<Ahead>> \in Seq(Terminal)
    BY <1>0
  <2> QED BY <1>0, <2>1, <2>2 DEF Trees, SymbolWords
<1> HIDE DEF R, leaf, m
<1>4. viable' = viable \o <<leaf>> /\ <<leaf>> \in Seq(R)
  <2>1. <<leaf>> \in Seq(R)
    BY <1>3
  <2>2. Append(viable, leaf) = viable \o <<leaf>>
    BY <1>2, <1>3, AppendIsConcat
  <2> QED BY <1>1, <2>1, <2>2
<1>5. viable' \in Seq(R) /\ viable'[Len(viable')] = leaf
  <2>1. viable' \in Seq(R) /\ Len(viable') = m + 1 /\ viable'[m + 1] = leaf
    BY <1>1, <1>2, <1>3 DEF m
  <2> QED BY <2>1
<1>6. /\ SymbolsAt(viable \o <<leaf>>) = SymbolsAt(viable) \o SymbolsAt(<<leaf>>)
      /\ YieldOf(viable \o <<leaf>>) = YieldOf(viable) \o YieldOf(<<leaf>>)
  BY <1>2, <1>4, YieldsConcatenate DEF R
<1>7. SymbolsAt(<<leaf>>) = <<Ahead>> /\ YieldOf(<<leaf>>) = <<Ahead>>
  BY <1>3, YieldOfOne DEF R
<1>8. OnPath(T, stack', SymbolsAt(viable'))
  <2>1. Ahead \in GrammarSymbol
    BY <1>0 DEF GrammarSymbol
  <2>2. SymbolsAt(viable) \in Seq(GrammarSymbol)
    BY <1>2 DEF OnPath
  <2>3. SymbolsAt(viable') = Append(SymbolsAt(viable), Ahead)
    <3>1. Append(SymbolsAt(viable), Ahead) = SymbolsAt(viable) \o <<Ahead>>
      BY <2>1, <2>2, AppendIsConcat
    <3> QED BY <1>4, <1>6, <1>7, <3>1
  <2> QED BY <1>1, <1>2, <2>1, <2>3, PathGrown
<1>9. YieldOf(viable') = SubSeq(word, 1, at' - 1)
  <2>1. YieldOf(viable') = SubSeq(word, 1, at - 1) \o <<word[at]>>
    BY <1>2, <1>4, <1>6, <1>7
  <2>2. SubSeq(word, 1, at) = SubSeq(word, 1, at - 1) \o <<word[at]>>
    BY <1>2, OneMore
  <2>3. at' - 1 = at
    BY <1>1, <1>2
  <2> QED BY <2>1, <2>2, <2>3
<1>10. at' \in 1 .. Len(word) + 1
  BY <1>1, <1>2
<1>11. viable'[Len(viable')].symbol \in Terminal
  BY <1>0, <1>3, <1>5
<1> QED BY <1>1, <1>2, <1>5, <1>8, <1>9, <1>10, <1>11, GoesOn DEF R

\* What the table finds is a completed item of the top of the stack, and it can be followed by what is ahead.
LEMMA FoundRight ==
  ASSUME IndInv, phase = "parse", NEW x \in Found
  PROVE  x \in CompletedItems(T.collection[stack[Len(stack)]]) /\ Ahead \in x.ahead
<1>1. PICK e \in entries : e[1] = Top /\ e[2] = Ahead /\ e[3] = x
  BY DEF Found
<1>2. EntryRight(object, e)
  BY DEF IndInv, EntriesRight
<1> QED BY <1>1, <1>2 DEF EntryRight, Top, T

\* Nodes are made of the last trees, and the state before them leads to the next.
LEMMA ReduceKeeps ==
  ASSUME IndInv, Reduce
  PROVE  IndInv'
<1>0. phase = "parse"
  BY DEF Reduce
<1>1. PICK x \in Found :
        /\ x.head # StartSymbol
        /\ MakeNode(x)
        /\ LET popped == Without(stack, Len(x.body))
           IN  IF LR0Done(popped)
                 THEN phase' = "idle" /\ answer' = "tree" /\ stack' = popped
                 ELSE /\ Len(popped) < MaxStack
                      /\ stack' = Append(popped, GotoState(T, popped[Len(popped)], x.head))
                      /\ UNCHANGED <<phase, answer>>
  BY DEF Reduce
<1>2. object' = object /\ entries' = entries /\ word' = word /\ at' = at
  BY DEF Reduce, constructed
<1> DEFINE R == Trees(WordsHere)
           m == Len(x.body)
           rest == Without(viable, m)
           node == Tree(x.head, YieldOf(LastOf(viable, m)))
           popped == Without(stack, m)
           Xs == SymbolsAt(viable)
<1>3. /\ object \in Objects /\ object.grammar \in DOMAIN Grammars /\ object.kind \in Kinds /\ RightItems(T, ProductionsHere)
      /\ word \in Words /\ word \in Seq(Terminal) /\ at \in 1 .. Len(word) + 1 /\ Len(word) \in Nat /\ answer = "none"
      /\ viable \in Seq(R) /\ Len(viable) \in Nat /\ OnPath(T, stack, Xs)
      /\ Len(stack) = Len(viable) + 1
      /\ YieldOf(viable) = SubSeq(word, 1, at - 1) /\ Len(YieldOf(viable)) <= Longest
      /\ Ahead = EndMarker => SubSeq(word, 1, at - 1) = word
  <2>1. EndMarker \notin Terminal
    BY SymbolsAssumption DEF GrammarSymbol
  <2> QED BY <1>0, <2>1, WhileParsing
<1>4. x \in CompletedItems(T.collection[stack[Len(stack)]]) /\ x.head # StartSymbol
  BY <1>0, <1>1, FoundRight
<1>5. parent' = <<node>> /\ viable' = Append(rest, node)
  BY <1>1 DEF MakeNode, YieldOf, YieldsAt
<1>6. /\ m \in 0 .. Len(viable) /\ x.head \in GrammarSymbol
      /\ node \in R /\ rest \in Seq(R) /\ Len(rest) = Len(viable) - m
      /\ YieldOf(rest) \o node.yield = YieldOf(viable)
      /\ SymbolsAt(rest) = SubSeq(Xs, 1, Len(viable) - m)
  <2>1. Reducible(object.grammar, object.kind, T, stack, viable, x)
    BY <1>3, <1>4 DEF Reducible, WordsHere, ProductionsHere
  <2>2. Reduced(object.grammar, viable, x, rest, node)
    BY <1>3, <2>1, ReductionRight DEF rest, node
  <2> QED BY <2>2 DEF Reduced, WordsHere
<1> HIDE DEF rest, node
<1>7. OnPath(T, popped, SymbolsAt(rest)) /\ Len(popped) = Len(rest) + 1
  <2> DEFINE k == Len(viable) - m
  <2>1. Len(Xs) = Len(viable) /\ k \in 0 .. Len(Xs)
    <3>1. Len(Xs) = Len(viable)
      BY <1>3, YieldsConcatenate
    <3> QED BY <1>3, <1>6, <3>1
  <2>2. popped = SubSeq(stack, 1, k + 1)
    <3>1. Len(stack) - m = k + 1
      BY <1>3, <1>6
    <3> QED BY <3>1 DEF Without
  <2> HIDE DEF k, popped, Xs
  <2>3. OnPath(T, SubSeq(stack, 1, k + 1), SubSeq(Xs, 1, k))
    BY <1>3, <2>1, PathCut
  <2>4. OnPath(T, popped, SymbolsAt(rest))
    BY <1>6, <2>2, <2>3 DEF k
  <2>5. Len(SymbolsAt(rest)) = Len(rest)
    BY <1>6, YieldsConcatenate
  <2> QED BY <2>4, <2>5 DEF OnPath
<1>8. node.symbol = x.head
  BY DEF Tree, node
<1> HIDE DEF R, popped
<1>9. CASE LR0Done(popped)
  <2>1. phase' = "idle" /\ answer' = "tree"
    BY <1>1, <1>9 DEF popped
  <2>2. Len(popped) = 1 /\ Ahead = EndMarker /\ object.kind = "DCFG"
    BY <1>9 DEF LR0Done
  <2>3. rest = <<>>
    <3>2. Len(rest) \in Nat
      BY <1>6
    <3>3. Len(popped) = Len(rest) + 1
      BY <1>7
    <3>4. Len(popped) = 1
      BY <2>2
    <3>5. Len(rest) + 1 = 1
      BY <3>3, <3>4
    <3>6. \A n \in Nat : n + 1 = 1 => n = 0
      OBVIOUS
    <3>1. Len(rest) = 0
      BY <3>2, <3>5, <3>6
    <3> QED BY <1>6, <3>1, EmptySeq
  <2>4. node.yield \in Seq(Terminal) /\ YieldOf(<<>>) = <<>>
    BY <1>6, YieldOfOne DEF R, Trees
  <2>5. node.yield = word
    <3>1. <<>> \o node.yield = node.yield
      BY <2>4, ConcatEmptySeq
    <3> QED BY <1>3, <1>6, <2>2, <2>3, <2>4, <3>1
  <2>6. Derives(node)
    BY <1>3, <1>6, TreesDerive DEF R
  <2>7. parent'[1] = node
    BY <1>5
  <2>8. Derives(parent[1])'
    <3>1. WordsOf[object.grammar]' = WordsOf[object.grammar]
      BY <1>2
    <3> QED BY <1>2, <2>6, <2>7, <3>1 DEF Derives
  <2>9. TreeRight'
    BY <1>2, <2>2, <2>5, <2>7, <2>8 DEF TreeRight
  <2> QED BY <1>2, <2>1, <2>9 DEF IndInv, EntriesRight, ParseRight
<1>10. CASE ~ LR0Done(popped)
  <2>1. stack' = Append(popped, GotoState(T, popped[Len(popped)], x.head)) /\ answer' = "none"
    BY <1>1, <1>3, <1>10 DEF popped
  <2>2. viable' = rest \o <<node>> /\ <<node>> \in Seq(R)
    <3>1. <<node>> \in Seq(R)
      BY <1>6
    <3>2. Append(rest, node) = rest \o <<node>>
      BY <1>6, AppendIsConcat
    <3> QED BY <1>5, <3>1, <3>2
  <2>3. viable' \in Seq(R) /\ viable'[Len(viable')] = node
    <3> DEFINE n == Len(rest)
    <3>1. n \in Nat
      BY <1>6
    <3>2. viable' \in Seq(R) /\ Len(viable') = n + 1 /\ viable'[n + 1] = node
      <4>1. viable' = Append(rest, node) /\ rest \in Seq(R) /\ node \in R
        BY <1>5, <1>6
      <4> QED BY <4>1
    <3> QED BY <3>2
  <2>4. /\ SymbolsAt(rest \o <<node>>) = SymbolsAt(rest) \o SymbolsAt(<<node>>)
        /\ YieldOf(rest \o <<node>>) = YieldOf(rest) \o YieldOf(<<node>>)
    BY <1>6, <2>2, YieldsConcatenate DEF R
  <2>5. SymbolsAt(<<node>>) = <<x.head>> /\ YieldOf(<<node>>) = node.yield
    BY <1>6, <1>8, YieldOfOne DEF R
  <2>6. YieldOf(viable') = SubSeq(word, 1, at' - 1)
    BY <1>2, <1>3, <1>6, <2>2, <2>4, <2>5
  <2>7. OnPath(T, stack', SymbolsAt(viable'))
    <3>1. SymbolsAt(rest) \in Seq(GrammarSymbol)
      BY <1>7 DEF OnPath
    <3>2. SymbolsAt(viable') = Append(SymbolsAt(rest), x.head)
      <4>1. Append(SymbolsAt(rest), x.head) = SymbolsAt(rest) \o <<x.head>>
        BY <1>6, <3>1, AppendIsConcat
      <4> QED BY <2>2, <2>4, <2>5, <4>1
    <3> QED BY <1>3, <1>6, <1>7, <2>1, <3>2, PathGrown
  <2>8. parent' = <<viable'[Len(viable')]>>
    BY <1>5, <2>3
  <2> QED BY <1>2, <1>3, <2>1, <2>3, <2>6, <2>7, <2>8, GoesOn DEF R
<1> QED BY <1>9, <1>10

\* The item of the start symbol LR_1 made up stands for a tree of the start symbol alone, and
\* its entry is for the end of the word.
LEMMA AcceptKeeps ==
  ASSUME IndInv, Accept
  PROVE  IndInv'
<1>0. phase = "parse"
  BY DEF Accept
<1>1. PICK x \in Found : x.head = StartSymbol
  BY DEF Accept
<1>2. /\ object' = object /\ entries' = entries /\ word' = word /\ phase' = "idle"
      /\ viable' = viable /\ parent' = parent
  BY DEF Accept, constructed, tree
<1> DEFINE R == Trees(WordsHere)
           Xs == SymbolsAt(viable)
           G == Grammars[object.grammar]
<1>3. /\ object \in Objects /\ object.grammar \in DOMAIN Grammars /\ object.kind \in Kinds /\ RightItems(T, ProductionsHere)
      /\ word \in Words /\ at \in 1 .. Len(word) + 1 /\ Len(word) \in Nat
      /\ viable \in Seq(R) /\ Len(viable) \in Nat /\ OnPath(T, stack, Xs)
      /\ Len(stack) = Len(viable) + 1
      /\ YieldOf(viable) = SubSeq(word, 1, at - 1)
      /\ viable # <<>> /\ viable[Len(viable)].symbol \notin Terminal => parent = <<viable[Len(viable)]>>
      /\ Ahead = EndMarker => SubSeq(word, 1, at - 1) = word
  <2>1. EndMarker \notin Terminal
    BY SymbolsAssumption DEF GrammarSymbol
  <2> QED BY <1>0, <2>1, WhileParsing
<1>4. x \in CompletedItems(T.collection[stack[Len(stack)]]) /\ Ahead \in x.ahead
  BY <1>0, <1>1, FoundRight
<1> DEFINE k == Len(stack)
<1>5. /\ k \in 1 .. Len(stack) /\ stack[k] \in DOMAIN T.collection
      /\ x \in T.collection[stack[k]] /\ Completed(x)
  <2>1. stack \in Seq(DOMAIN T.collection)
    BY <1>3 DEF OnPath
  <2>2. k \in 1 .. Len(stack)
    BY <1>3
  <2>3. stack[k] \in DOMAIN T.collection
    BY <2>1, <2>2
  <2> QED BY <1>4, <2>2, <2>3 DEF CompletedItems
<1> HIDE DEF k
<1>6. ProductionOf(x) \in ProductionsHere /\ x.ahead \subseteq {EndMarker}
  BY <1>1, <1>3, <1>5 DEF RightItems
<1>7. x.body = <<G.start>> /\ object.kind # "DCFG"
  <2>1. ProductionOf(x).head = StartSymbol /\ ProductionOf(x).body = x.body
    BY <1>1 DEF ProductionOf
  <2> QED BY <1>3, <1>6, <2>1, NormalizedRight DEF ProductionsHere
<1>8. x.dot = 1 /\ x.body[1] = G.start
  BY <1>5, <1>7 DEF Completed
<1>9. k = 2
  BY <1>1, <1>3, <1>5, <1>8, StartOnTop
<1>10. Len(viable) = 1
  <2>1. Len(viable) + 1 = 2 /\ Len(viable) \in Nat
    BY <1>3, <1>9 DEF k
  <2>2. \A n \in Nat : n + 1 = 2 => n = 1
    OBVIOUS
  <2> QED BY <2>1, <2>2
<1>11. viable[1] \in R /\ viable = <<viable[1]>>
  <2> HIDE DEF R
  <2> QED BY <1>3, <1>10, OnlyOne
<1>12. viable[1].symbol = G.start
  <2>1. Xs[1] = viable[1].symbol
    <3>1. 1 \in DOMAIN viable
      BY <1>3, <1>10
    <3> QED BY <3>1 DEF SymbolsAt
  <2>2. OnTop(x, Xs, k)
    BY <1>3, <1>5, HandleOnTop
  <2>3. ((k - 1) - x.dot) + 1 = 1 /\ 1 \in 1 .. x.dot
    BY <1>8, <1>9
  <2>4. Xs[((k - 1) - x.dot) + 1] = x.body[1]
    BY <2>2, <2>3 DEF OnTop
  <2> QED BY <1>8, <2>1, <2>3, <2>4
<1>13. G.start \notin Terminal
  <2>1. G.start \in Heads(G.productions)
    BY <1>3, GrammarsAssumption DEF IsGrammar
  <2>2. Typed(G.productions)
    BY <1>3, GrammarsAssumption DEF IsGrammar, Typed, Production
  <2> QED BY <2>1, <2>2, SymbolsAssumption DEF Heads, Typed
<1>14. parent = <<viable[1]>> /\ parent[1] = viable[1]
  <2>1. viable # <<>>
    BY <1>10
  <2>2. parent = <<viable[1]>>
    BY <1>3, <1>10, <1>12, <1>13, <2>1
  <2> QED BY <2>2
<1>15. viable[1].yield = word
  <2>1. YieldOf(<<viable[1]>>) = viable[1].yield
    BY <1>11, YieldOfOne
  <2>2. Ahead = EndMarker
    BY <1>4, <1>6
  <2> QED BY <1>3, <1>11, <2>1, <2>2
<1>16. Derives(viable[1])
  BY <1>3, <1>11, TreesDerive
<1>17. TreeRight'
  <2>1. parent' = parent /\ parent[1] = viable[1]
    BY <1>2, <1>14
  <2>2. WordsOf[object.grammar]' = WordsOf[object.grammar]
    BY <1>2
  <2>3. Derives(parent[1])'
    BY <1>2, <1>16, <2>1, <2>2 DEF Derives
  <2>4. Start' = G.start
    BY <1>2 DEF Start
  <2> QED BY <1>2, <1>12, <1>15, <2>1, <2>3, <2>4 DEF TreeRight
<1> QED BY <1>2, <1>17 DEF IndInv, EntriesRight, ParseRight

\* Nothing is said of a word that is turned down.
LEMMA RejectKeeps ==
  ASSUME IndInv, Reject
  PROVE  IndInv'
<1>1. object' = object /\ entries' = entries /\ phase' = "idle" /\ answer' = "null"
  BY DEF Reject, constructed
<1> QED BY <1>1 DEF IndInv, EntriesRight, ParseRight, TreeRight

\* The invariant holds.
THEOREM IndInvariant == Spec => []IndInv
<1>1. Init => IndInv
  <2> SUFFICES ASSUME Init PROVE IndInv
    OBVIOUS
  <2> QED BY DEF Init, IndInv, EntriesRight, ParseRight, TreeRight
<1>2. IndInv /\ [Next]_vars => IndInv'
  <2> SUFFICES ASSUME IndInv, [Next]_vars PROVE IndInv'
    OBVIOUS
  <2>1. CASE TestFails
    BY <2>1, TestFailsKeeps
  <2>2. CASE Conflict
    BY <2>2, ConflictKeeps
  <2>3. CASE TableDone
    BY <2>3, TableDoneKeeps
  <2>4. CASE Shift
    BY <2>4, ShiftKeeps
  <2>5. CASE Reduce
    BY <2>5, ReduceKeeps
  <2>6. CASE Accept
    BY <2>6, AcceptKeeps
  <2>7. CASE Reject
    BY <2>7, RejectKeeps
  <2>8. ASSUME NEW w \in Words, Call(w) PROVE IndInv'
    BY <2>8, CallKeeps
  <2>9. CASE UNCHANGED vars
    <3>1. /\ object' = object /\ entries' = entries /\ phase' = phase /\ word' = word /\ at' = at
          /\ stack' = stack /\ viable' = viable /\ parent' = parent /\ answer' = answer
      BY <2>9 DEF vars
    <3>2. T' = T /\ WordsHere' = WordsHere /\ Start' = Start
      BY <3>1 DEF T, WordsHere, Start
    <3>3. WordsOf[object.grammar]' = WordsOf[object.grammar]
      BY <3>1
    <3>4. Derives(parent[1])' <=> Derives(parent[1])
      BY <3>1, <3>3 DEF Derives
    <3> QED BY <3>1, <3>2, <3>4 DEF IndInv, EntriesRight, ParseRight, TreeRight
  <2> QED BY <2>1, <2>2, <2>3, <2>4, <2>5, <2>6, <2>7, <2>8, <2>9 DEF Next, Constructing, Parsing
<1> QED BY <1>1, <1>2, PTL DEF Spec

\* The stack of parse and the viable prefix of get_parse_tree keep step in all four kinds of
\* grammars, for all grammars and words: the states are those the DK automaton goes through on
\* the symbols of the prefix, each tree of the prefix derives its word, and these words make up
\* what was read. It does not need a finished table: the entries that an exception leaves are
\* right ones.
THEOREM StacksInStep == Spec => []InStep
<1>1. IndInv => InStep
  <2> SUFFICES ASSUME IndInv, phase = "parse"
               PROVE  /\ Len(stack) = Len(viable) + 1
                      /\ stack[1] = T.start
                      /\ \A i \in DOMAIN viable : /\ stack[i + 1] = GotoState(T, stack[i], viable[i].symbol)
                                                  /\ Derives(viable[i])
                      /\ FlattenSeq([i \in DOMAIN viable |-> viable[i].yield]) = SubSeq(word, 1, at - 1)
    BY DEF InStep
  <2> DEFINE R == Trees(WordsHere)
  <2>1. /\ object \in Objects /\ word \in Words
        /\ viable \in Seq(R) /\ OnPath(T, stack, SymbolsAt(viable))
        /\ Len(stack) = Len(viable) + 1 /\ YieldOf(viable) = SubSeq(word, 1, at - 1)
    BY WhileParsing
  <2>2. ASSUME NEW i \in DOMAIN viable
        PROVE  stack[i + 1] = GotoState(T, stack[i], viable[i].symbol) /\ Derives(viable[i])
    <3>1. viable[i] \in R
      <4> HIDE DEF R
      <4> QED BY <2>1
    <3>2. Derives(viable[i])
      BY <2>1, <3>1, TreesDerive
    <3>3. i \in 1 .. Len(SymbolsAt(viable)) /\ SymbolsAt(viable)[i] = viable[i].symbol
      <4>1. Len(SymbolsAt(viable)) = Len(viable)
        BY <2>1, YieldsConcatenate
      <4>2. DOMAIN viable = 1 .. Len(viable)
        <5> HIDE DEF R
        <5> QED BY <2>1
      <4> QED BY <4>1, <4>2 DEF SymbolsAt
    <3>4. Follows(T, stack, SymbolsAt(viable), i)
      BY <2>1, <3>3 DEF OnPath
    <3> QED BY <3>2, <3>3, <3>4 DEF Follows
  <2> QED BY <2>1, <2>2 DEF OnPath, YieldOf, YieldsAt
<1> QED BY <1>1, IndInvariant, PTL

\* A tree is a derivation of the word that was parsed, of all of it; the three kinds of LR_1
\* give one whose root is the start symbol of the grammar.
THEOREM TreesAreRight == Spec => []TreeRight
<1>1. IndInv => TreeRight
  BY DEF IndInv
<1> QED BY <1>1, IndInvariant, PTL

-----------------------------------------------------------------------------
(* What is shifted can be continued to a word of the grammar.              *)

\* What is known of a grammar from its assumption.
LEMMA GrammarParts ==
  ASSUME NEW i \in DOMAIN Grammars, NEW G, G = Grammars[i]
  PROVE  /\ Typed(G.productions) /\ IsFiniteSet(G.productions) /\ IsFiniteSet(Heads(G.productions))
         /\ Terminal \cap NonTerminal = {} /\ Heads(G.productions) \subseteq NonTerminal
         /\ \A p \in G.productions : NonTerminalsOf(p.body) \subseteq InUse(G.productions)
         /\ InUse(G.productions) = Heads(G.productions)
         /\ G.start \in Heads(G.productions) /\ StartSymbol \notin Heads(G.productions)
<1>1. IsGrammar(G) /\ StartSymbol \notin Heads(G.productions)
  BY GrammarsAssumption
<1>2. IsFiniteSet(G.productions) /\ Typed(G.productions) /\ G.start \in Heads(G.productions)
  BY <1>1 DEF IsGrammar, Typed, Production
<1>3. \A p \in G.productions : NonTerminalsOf(p.body) \subseteq InUse(G.productions)
  BY <1>1, NothingUseless
<1>4. InUse(G.productions) = Heads(G.productions)
  BY <1>3, InUseIsSmallest DEF Heads
<1>5. Heads(G.productions) \subseteq NonTerminal
  BY <1>2 DEF Typed, Heads
<1> QED BY <1>1, <1>2, <1>3, <1>4, <1>5, HeadsFinite, SymbolsAssumption

\* Something can stand behind all the words of Xs, to make them words of the grammar.
Continued(G, Xs) == \E v \in Seq(Terminal) : \A u \in Yields(G, Xs) : u \o v \in AllWords(G)[G.start]

\* What can be continued behind a head can be behind the beginning of a body of it.
LEMMA BodyContinued ==
  ASSUME NEW i \in DOMAIN Grammars, NEW G, G = Grammars[i], NEW p \in G.productions, NEW m \in 0 .. Len(p.body),
         NEW front \in Seq(GrammarSymbol), Continued(G, front \o <<p.head>>)
  PROVE  Continued(G, front \o SubSeq(p.body, 1, m))
<1> DEFINE A == p.head
           left == SubSeq(p.body, 1, m)
           right == SubSeq(p.body, m + 1, Len(p.body))
           L == AllWords(G)
<1>1. /\ Typed(G.productions) /\ IsFiniteSet(G.productions) /\ IsFiniteSet(Heads(G.productions))
      /\ Terminal \cap NonTerminal = {} /\ Heads(G.productions) \subseteq NonTerminal
      /\ NonTerminalsOf(p.body) \subseteq InUse(G.productions)
      /\ A \in Heads(G.productions) /\ p.body \in Seq(GrammarSymbol)
  BY GrammarParts DEF Heads, Typed
<1>2. /\ left \in Seq(GrammarSymbol) /\ right \in Seq(GrammarSymbol) /\ left \o right = p.body
      /\ Len(right) = Len(p.body) - m /\ \A k \in 1 .. Len(p.body) - m : right[k] = p.body[m + k]
  <2> DEFINE q == p.body
  <2>1. q \in Seq(GrammarSymbol) /\ m \in 0 .. Len(q)
    BY <1>1
  <2> HIDE DEF q
  <2>2. /\ SubSeq(q, 1, m) \in Seq(GrammarSymbol) /\ SubSeq(q, m + 1, Len(q)) \in Seq(GrammarSymbol)
        /\ q = SubSeq(q, 1, m) \o SubSeq(q, m + 1, Len(q))
        /\ Len(SubSeq(q, m + 1, Len(q))) = Len(q) - m
        /\ \A k \in 1 .. Len(q) - m : SubSeq(q, m + 1, Len(q))[k] = q[m + k]
    BY <2>1, CutInTwo
  <2> QED BY <2>2 DEF q
<1>3. SymbolsOf(right) \subseteq SymbolsOf(p.body)
  <2> SUFFICES ASSUME NEW k \in DOMAIN right PROVE right[k] \in SymbolsOf(p.body)
    BY DEF SymbolsOf
  <2>1. k \in 1 .. Len(p.body) - m /\ m + k \in DOMAIN p.body
    BY <1>1, <1>2
  <2> QED BY <1>2, <2>1 DEF SymbolsOf
<1> HIDE DEF left, right
<1>4. PICK z \in Yields(G, right) : TRUE
  <2>1. NonTerminalsOf(right) \subseteq InUse(G.productions)
    BY <1>1, <1>3 DEF NonTerminalsOf
  <2> QED BY <1>1, <1>2, <2>1, InUseHaveWords
<1>5. PICK v \in Seq(Terminal) : \A u \in Yields(G, front \o <<A>>) : u \o v \in L[G.start]
  BY DEF Continued
<1>6. z \in Seq(Terminal)
  BY <1>1, <1>2, YieldsTyped
<1>7. ASSUME NEW u \in Yields(G, front \o left) PROVE u \o (z \o v) \in L[G.start]
  <2>0. Both(G, front, left, u)
    BY <1>1, <1>2, YieldsOfBoth
  <2>1. PICK c \in Yields(G, front), d \in Yields(G, left) : u = c \o d
    BY <2>0 DEF Both
  <2>2. c \in Seq(Terminal) /\ d \in Seq(Terminal) /\ d \o z \in Seq(Terminal) /\ z \o v \in Seq(Terminal)
    <3>1. c \in Seq(Terminal) /\ d \in Seq(Terminal)
      BY <1>1, <1>2, YieldsTyped
    <3> QED BY <1>6, <3>1, ConcatProperties
  <2>3. d \o z \in Yields(G, p.body)
    <3>1. d \o z \in Yields(G, left \o right)
      BY <1>1, <1>2, YieldsOfBoth
    <3> QED BY <1>2, <3>1
  <2>4. d \o z \in Yields(G, <<A>>)
    <3>1. Yields(G, p.body) \subseteq L[A]
      BY <1>1, YieldsOfBody
    <3>2. Yields(G, <<A>>) = L[A]
      BY <1>1, YieldsOfHead
    <3> QED BY <2>3, <3>1, <3>2
  <2>5. <<A>> \in Seq(GrammarSymbol)
    BY <1>1 DEF GrammarSymbol
  <2>6. c \o (d \o z) \in Yields(G, front \o <<A>>)
    BY <1>1, <2>4, <2>5, YieldsOfBoth
  <2>7. (c \o (d \o z)) \o v \in L[G.start]
    BY <1>5, <2>6
  <2>8. (c \o (d \o z)) \o v = c \o ((d \o z) \o v)
    BY <2>2, ThreeWords
  <2>9. (d \o z) \o v = d \o (z \o v)
    BY <1>6, <2>2, ThreeWords
  <2>10. c \o (d \o (z \o v)) = (c \o d) \o (z \o v)
    BY <2>2, ThreeWords
  <2> QED BY <2>1, <2>7, <2>8, <2>9, <2>10
<1>8. z \o v \in Seq(Terminal)
  BY <1>6, ConcatProperties
<1> QED BY <1>7, <1>8 DEF Continued, left

\* The words of a grammar go on after nothing, and after its start symbol there is nothing to go on.
LEMMA WordsGoOn ==
  ASSUME NEW i \in DOMAIN Grammars, NEW G, G = Grammars[i]
  PROVE  Continued(G, <<>>) /\ Continued(G, <<G.start>>)
<1> DEFINE L == AllWords(G)
           none == <<>>
           one == <<G.start>>
<1>1. /\ Typed(G.productions) /\ IsFiniteSet(Heads(G.productions)) /\ Terminal \cap NonTerminal = {}
      /\ Heads(G.productions) \subseteq NonTerminal /\ G.start \in Heads(G.productions)
      /\ InUse(G.productions) = Heads(G.productions)
  BY GrammarParts
<1>2. one \in Seq(GrammarSymbol) /\ NonTerminalsOf(one) \subseteq InUse(G.productions)
  <2>1. one \in Seq(GrammarSymbol)
    BY <1>1 DEF GrammarSymbol
  <2>2. SymbolsOf(one) = {G.start}
    BY DEF SymbolsOf
  <2> QED BY <1>1, <2>1, <2>2 DEF NonTerminalsOf
<1>3. Yields(G, one) = L[G.start]
  BY <1>1, YieldsOfHead
<1>4. Yields(G, one) # {} /\ Yields(G, one) \in SUBSET Seq(Terminal)
  BY <1>1, <1>2, InUseHaveWords, YieldsTyped
<1>5. Yields(G, none) = {none} /\ none \in Seq(Terminal)
  BY <1>1, YieldsTyped
<1> HIDE DEF none, one, L
<1>6. PICK v \in Seq(Terminal) : v \in L[G.start]
  BY <1>3, <1>4
<1>7. \A u \in Seq(Terminal) : none \o u = u /\ u \o none = u
  BY ConcatEmptySeq DEF none
<1>8. \A u \in Yields(G, none) : u \o v \in L[G.start]
  BY <1>5, <1>6, <1>7
<1>9. \A u \in Yields(G, one) : u \o none \in L[G.start]
  BY <1>3, <1>4, <1>7
<1> QED BY <1>5, <1>8, <1>9 DEF Continued, none, one, L

\* What a head can stand behind: nothing, if it is the one LR_1 makes up.
HeadFits(G, front, A) ==
  IF A = StartSymbol THEN front = <<>> ELSE A \in Heads(G.productions) /\ Continued(G, front \o <<A>>)

\* An item fits some symbols if the last of them are those before its dot, and its head can
\* stand behind the others.
FitsBehind(G, front, Xs, x) == Xs = front \o SubSeq(x.body, 1, x.dot) /\ HeadFits(G, front, x.head)
ItemFits(G, Xs, x) == \E front \in Seq(GrammarSymbol) : FitsBehind(G, front, Xs, x)

\* The parts of an item of an LR_1 grammar.
LEMMA ItemOfGrammar ==
  ASSUME NEW i \in DOMAIN Grammars, NEW G, G = Grammars[i], NEW kind, kind # "DCFG",
         NEW g, g = Normalized(G, kind), NEW x \in ItemsOver(g.productions)
  PROVE  /\ x.body \in Seq(GrammarSymbol) /\ x.dot \in 0 .. Len(x.body) /\ StartSymbol \notin SymbolsOf(x.body)
         /\ IF x.head = StartSymbol THEN x.body = <<G.start>>
            ELSE \E p \in G.productions : p.head = x.head /\ p.body = x.body
<1>1. x.body \in Seq(GrammarSymbol) /\ x.dot \in 0 .. Len(x.body) /\ ProductionOf(x) \in g.productions
  BY ItemParts
<1>2. ProductionOf(x).head = x.head /\ ProductionOf(x).body = x.body
  BY DEF ProductionOf
<1>3. /\ StartSymbol \notin SymbolsOf(ProductionOf(x).body)
      /\ IF ProductionOf(x).head = StartSymbol THEN ProductionOf(x).body = <<G.start>>
         ELSE ProductionOf(x) \in G.productions
  BY <1>1, NormalizedRight
<1> QED BY <1>1, <1>2, <1>3

\* Some of an item's symbols, those before the dot and maybe some behind it, go on behind what
\* its head goes on behind.
LEMMA ItemContinued ==
  ASSUME NEW i \in DOMAIN Grammars, NEW G, G = Grammars[i], NEW kind, kind # "DCFG",
         NEW g, g = Normalized(G, kind), NEW x \in ItemsOver(g.productions), NEW m \in 0 .. Len(x.body),
         NEW front \in Seq(GrammarSymbol), HeadFits(G, front, x.head)
  PROVE  Continued(G, front \o SubSeq(x.body, 1, m))
<1>1. /\ x.body \in Seq(GrammarSymbol)
      /\ IF x.head = StartSymbol THEN x.body = <<G.start>>
         ELSE \E p \in G.productions : p.head = x.head /\ p.body = x.body
  BY ItemOfGrammar
<1>2. CASE x.head = StartSymbol
  <2> DEFINE b == SubSeq(x.body, 1, m)
  <2>1. b \in Seq(GrammarSymbol) /\ front = <<>>
    BY <1>1, <1>2, CutInTwo DEF HeadFits
  <2>2. front \o b = b
    BY <2>1, ConcatEmptySeq
  <2>3. b = <<>> \/ b = <<G.start>>
    <3> DEFINE q == <<G.start>>
    <3>1. q \in Seq({G.start}) /\ Len(q) = 1
      OBVIOUS
    <3>2. SubSeq(q, 1, 0) = <<>> /\ SubSeq(q, 1, 1) = q
      <4> HIDE DEF q
      <4> QED BY <3>1
    <3>3. x.body = q /\ m \in 0 .. 1
      BY <1>1, <1>2, <3>1
    <3>4. m = 0 \/ m = 1
      BY <3>3
    <3> HIDE DEF q
    <3> QED BY <3>2, <3>3, <3>4 DEF q
  <2> HIDE DEF b
  <2>4. Continued(G, b)
    BY <2>3, WordsGoOn
  <2> QED BY <2>2, <2>4 DEF b
<1>3. CASE x.head # StartSymbol
  <2>1. PICK p \in G.productions : p.head = x.head /\ p.body = x.body
    BY <1>1, <1>3
  <2>2. Continued(G, front \o <<p.head>>) /\ m \in 0 .. Len(p.body)
    BY <1>3, <2>1 DEF HeadFits
  <2>3. Continued(G, front \o SubSeq(p.body, 1, m))
    BY <2>2, BodyContinued
  <2> QED BY <2>1, <2>3
<1> QED BY <1>2, <1>3

\* What fits an item goes on.
LEMMA FitsContinued ==
  ASSUME NEW i \in DOMAIN Grammars, NEW G, G = Grammars[i], NEW kind, kind # "DCFG",
         NEW g, g = Normalized(G, kind), NEW x \in ItemsOver(g.productions), NEW Xs, ItemFits(G, Xs, x)
  PROVE  Continued(G, Xs)
<1>1. PICK front \in Seq(GrammarSymbol) : FitsBehind(G, front, Xs, x)
  BY DEF ItemFits
<1>2. Xs = front \o SubSeq(x.body, 1, x.dot) /\ HeadFits(G, front, x.head)
  BY <1>1 DEF FitsBehind
<1>3. x.dot \in 0 .. Len(x.body)
  BY ItemOfGrammar
<1> QED BY <1>2, <1>3, ItemContinued

\* The items of all states that fit some symbols.
Fitting(G, g, Xs) == {x \in ItemsOver(g.productions) : ItemFits(G, Xs, x)}

\* Predictions fit what their item fits.
LEMMA PredictedFits ==
  ASSUME NEW i \in DOMAIN Grammars, NEW G, G = Grammars[i], NEW kind, kind # "DCFG",
         NEW g, g = Normalized(G, kind), NEW Xs, NEW x \in Fitting(G, g, Xs)
  PROVE  Predicted(g, kind, x) \subseteq Fitting(G, g, Xs)
<1> DEFINE P == g.productions
           A == UnderDot(x)
           ahead == IF WithAhead(kind) THEN FollowOfDot(g, x) ELSE {}
<1> SUFFICES ASSUME NEW y \in Predicted(g, kind, x) PROVE y \in Fitting(G, g, Xs)
  OBVIOUS
<1>1. Wellformed(g) /\ x \in ItemsOver(P) /\ y \in ItemsOver(P)
  <2>1. Wellformed(g) /\ x \in ItemsOver(P)
    BY NormalizedRight DEF Fitting
  <2> QED BY <2>1, PredictedFresh DEF Fresh
<1>2. ~ Completed(x) /\ A \notin Terminal /\ \E body \in Bodies(P, A) : y = Item(A, body, 0, ahead)
  BY DEF Predicted
<1>3. y.head = A /\ y.dot = 0 /\ y.body \in Seq(GrammarSymbol)
  <2>1. PICK body \in Bodies(P, A) : y = Item(A, body, 0, ahead)
    BY <1>2
  <2> HIDE DEF A, ahead
  <2> QED BY <1>1, <2>1, ItemParts DEF Item
<1>4. PICK front \in Seq(GrammarSymbol) : FitsBehind(G, front, Xs, x)
  BY DEF Fitting, ItemFits
<1> DEFINE b == SubSeq(x.body, 1, x.dot)
           n == x.dot + 1
<1>5. Xs = front \o b /\ HeadFits(G, front, x.head)
  BY <1>4 DEF FitsBehind
<1>6. x.body \in Seq(GrammarSymbol) /\ x.dot \in 0 .. Len(x.body) /\ StartSymbol \notin SymbolsOf(x.body)
  BY <1>1, ItemOfGrammar
<1>7. n \in 1 .. Len(x.body) /\ n - 1 = x.dot
  BY <1>2, <1>6 DEF Completed
<1>8. A = x.body[n] /\ A \in SymbolsOf(x.body) /\ A \in GrammarSymbol /\ A # StartSymbol
  <2>1. A = x.body[n]
    BY DEF UnderDot
  <2>2. n \in DOMAIN x.body
    BY <1>6, <1>7
  <2>3. A \in SymbolsOf(x.body) /\ A \in GrammarSymbol
    BY <1>6, <2>1, <2>2 DEF SymbolsOf
  <2> QED BY <1>6, <2>1, <2>3
<1> HIDE DEF A, n
<1>9. SubSeq(x.body, 1, n) = b \o <<A>> /\ b \in Seq(GrammarSymbol)
  BY <1>6, <1>7, <1>8, OneMore
<1>10. Continued(G, front \o SubSeq(x.body, 1, n))
  <2>1. n \in 0 .. Len(x.body)
    BY <1>7
  <2> QED BY <1>1, <1>5, <2>1, ItemContinued
<1> HIDE DEF b
<1>11. front \o (b \o <<A>>) = (front \o b) \o <<A>>
  <2>1. <<A>> \in Seq(GrammarSymbol)
    BY <1>8
  <2> QED BY <1>9, <2>1, ConcatAssociative
<1>12. Continued(G, Xs \o <<A>>)
  BY <1>5, <1>9, <1>10, <1>11
<1>13. A \in Heads(G.productions)
  <2>1. ProductionOf(y) \in P /\ ProductionOf(y).head = A
    BY <1>1, <1>3, ItemParts DEF ProductionOf
  <2>2. ProductionOf(y) \in G.productions
    BY <1>8, <2>1, NormalizedRight
  <2> QED BY <2>1, <2>2 DEF Heads
<1>14. HeadFits(G, Xs, y.head)
  BY <1>3, <1>8, <1>12, <1>13 DEF HeadFits
<1>15. Xs \in Seq(GrammarSymbol)
  BY <1>5, <1>9, ConcatProperties
<1>16. Xs = Xs \o SubSeq(y.body, 1, y.dot)
  <2>1. SubSeq(y.body, 1, 0) = <<>>
    BY <1>3
  <2> QED BY <1>3, <1>15, <2>1, ConcatEmptySeq
<1>17. ItemFits(G, Xs, y)
  BY <1>14, <1>15, <1>16 DEF ItemFits, FitsBehind
<1> QED BY <1>1, <1>17 DEF Fitting

\* With the dot moved, items fit a symbol more.
LEMMA GoneFits ==
  ASSUME NEW G, NEW g, NEW state \in SUBSET ItemsOver(g.productions), NEW Xs, NEW X \in GrammarSymbol,
         \A x \in state : ItemFits(G, Xs, x)
  PROVE  Gone(state, X) \subseteq Fitting(G, g, Xs \o <<X>>)
<1> SUFFICES ASSUME NEW x \in Gone(state, X) PROVE x \in Fitting(G, g, Xs \o <<X>>)
  OBVIOUS
<1>0. x \in Gone(state, X) /\ state \in SUBSET ItemsOver(g.productions)
  OBVIOUS
<1>1. /\ x \in ItemsOver(g.productions) /\ x.dot \in 1 .. Len(x.body) /\ x.body[x.dot] = X
      /\ \E y \in state : y.head = x.head /\ y.body = x.body /\ y.dot = x.dot - 1 /\ y.ahead = x.ahead
  BY <1>0, GoneItems
<1>2. PICK y \in state : y.head = x.head /\ y.body = x.body /\ y.dot = x.dot - 1 /\ y.ahead = x.ahead
  BY <1>1
<1>3. PICK front \in Seq(GrammarSymbol) : FitsBehind(G, front, Xs, y)
  BY DEF ItemFits
<1> DEFINE b == SubSeq(x.body, 1, x.dot - 1)
<1>4. Xs = front \o b /\ HeadFits(G, front, x.head)
  BY <1>2, <1>3 DEF FitsBehind
<1>5. SubSeq(x.body, 1, x.dot) = b \o <<X>> /\ b \in Seq(GrammarSymbol)
  BY <1>1, ItemParts, OneMore
<1> HIDE DEF b
<1>6. front \o (b \o <<X>>) = (front \o b) \o <<X>>
  <2>1. <<X>> \in Seq(GrammarSymbol)
    OBVIOUS
  <2> QED BY <1>5, <2>1, ConcatAssociative
<1>7. FitsBehind(G, front, Xs \o <<X>>, x)
  BY <1>4, <1>5, <1>6 DEF FitsBehind
<1> QED BY <1>1, <1>7 DEF Fitting, ItemFits

\* The items of the start state fit nothing, and those that a state leads to fit a symbol more.
LEMMA StatesFit ==
  ASSUME NEW i \in DOMAIN Grammars, NEW G, G = Grammars[i], NEW kind, kind # "DCFG", NEW g, g = Normalized(G, kind)
  PROVE  /\ StartState(g, kind) \subseteq Fitting(G, g, <<>>)
         /\ \A Xs \in Seq(GrammarSymbol), X \in GrammarSymbol : \A state \in SUBSET Fitting(G, g, Xs) :
              Goto(g, kind, state, X) \subseteq Fitting(G, g, Xs \o <<X>>)
<1> DEFINE P == g.productions
           none == <<>>
<1>1. Wellformed(g) /\ IsFiniteSet(P) /\ g.start = StartSymbol
  <2>1. Wellformed(g) /\ g.start = StartSymbol
    BY NormalizedRight
  <2> QED BY <2>1 DEF Wellformed
<1>2. ASSUME NEW Xs PROVE \A x \in Fitting(G, g, Xs) : Predicted(g, kind, x) \subseteq Fitting(G, g, Xs)
  BY PredictedFits
<1>3. Begun(g, kind) \subseteq Fitting(G, g, none)
  <2> SUFFICES ASSUME NEW x \in Begun(g, kind) PROVE x \in Fitting(G, g, none)
    OBVIOUS
  <2>1. x \in ItemsOver(P)
    BY <1>1, StartStateItems
  <2>2. x.head = StartSymbol /\ x.dot = 0
    BY <1>1 DEF Begun, Item
  <2>3. SubSeq(x.body, 1, 0) = none /\ none \in Seq(GrammarSymbol)
    BY <2>1, ItemParts
  <2> HIDE DEF none
  <2>4. none = none \o SubSeq(x.body, 1, x.dot)
    BY <2>2, <2>3, ConcatEmptySeq DEF none
  <2>5. HeadFits(G, none, x.head)
    BY <2>2 DEF HeadFits, none
  <2> QED BY <2>1, <2>3, <2>4, <2>5 DEF Fitting, ItemFits, FitsBehind
<1>4. StartState(g, kind) \subseteq Fitting(G, g, none)
  <2>1. StartState(g, kind) = Closure(g, kind, Begun(g, kind))
    BY DEF StartState, Begun
  <2> QED BY <1>1, <1>2, <1>3, <2>1, ClosureStaysIn
<1>5. ASSUME NEW Xs \in Seq(GrammarSymbol), NEW X \in GrammarSymbol, NEW state \in SUBSET Fitting(G, g, Xs)
      PROVE  Goto(g, kind, state, X) \subseteq Fitting(G, g, Xs \o <<X>>)
  <2> DEFINE Ys == Xs \o <<X>>
  <2>1. state \in SUBSET ItemsOver(P)
    BY DEF Fitting
  <2>2. \A x \in state : ItemFits(G, Xs, x)
    BY DEF Fitting
  <2>4. Gone(state, X) \subseteq Fitting(G, g, Ys)
    BY <2>1, <2>2, GoneFits
  <2>3. Goto(g, kind, state, X) = Closure(g, kind, Gone(state, X))
    BY DEF Goto, Gone
  <2> HIDE DEF Ys
  <2>5. Goto(g, kind, state, X) \subseteq Fitting(G, g, Ys)
    BY <1>1, <1>2, <2>3, <2>4, ClosureStaysIn
  <2> QED BY <2>5 DEF Ys
<1> QED BY <1>4, <1>5

\* All items of a state fit some symbols, and these go on.
StateFits(G, Xs, state) == \A x \in state : ItemFits(G, Xs, x) /\ Continued(G, Xs)

\* That is a matter of the cores.
LEMMA CoresFit ==
  ASSUME NEW G, NEW Xs, NEW I, NEW J, StateFits(G, Xs, I), \A x \in J : HasCore(I, x.head, x.body, x.dot)
  PROVE  StateFits(G, Xs, J)
<1> SUFFICES ASSUME NEW x \in J PROVE ItemFits(G, Xs, x) /\ Continued(G, Xs)
  BY DEF StateFits
<1>1. PICK y \in I : y.head = x.head /\ y.body = x.body /\ y.dot = x.dot
  BY DEF HasCore
<1>2. ItemFits(G, Xs, y) /\ Continued(G, Xs)
  BY DEF StateFits
<1>3. PICK front \in Seq(GrammarSymbol) : FitsBehind(G, front, Xs, y)
  BY <1>2 DEF ItemFits
<1>4. FitsBehind(G, front, Xs, x)
  BY <1>1, <1>3 DEF FitsBehind
<1> QED BY <1>2, <1>4 DEF ItemFits

\* The start state of the tables fits nothing, and the goto table follows the symbols.
GoesWith(G, tables, n, Xs, X) ==
  StateFits(G, Xs, tables.collection[n]) => StateFits(G, Xs \o <<X>>, tables.collection[GotoState(tables, n, X)])
\* So it does for each kind, merged states and all.
LEMMA TablesFit ==
  ASSUME NEW i \in DOMAIN Grammars, NEW G, G = Grammars[i], NEW kind \in Kinds, kind # "DCFG",
         NEW tables, tables = TablesOf(G, kind, MaxSteps)
  PROVE  /\ StateFits(G, <<>>, tables.collection[tables.start])
         /\ \A n \in DOMAIN tables.collection, Xs \in Seq(GrammarSymbol), X \in GrammarSymbol :
              GoesWith(G, tables, n, Xs, X)
<1> DEFINE g == Normalized(G, kind)
           P == g.productions
           states == ReachedStates(g, kind, MaxSteps)
           D == DOMAIN tables.collection
           stands(n, I) == StandsFor(tables, g, kind, states, n, I)
<1>1. Wellformed(g) /\ \A p \in P : StartSymbol \notin SymbolsOf(p.body)
  BY NormalizedRight
<1>2. MaxSteps \in Nat /\ IsWhole(g, kind, MaxSteps)
  BY StepsAssumption
<1>0. tables = TablesFor(g, kind, MaxSteps)
  BY DEF TablesOf
<1>a. \A Xs : \A x \in Fitting(G, g, Xs) : Continued(G, Xs)
  BY FitsContinued DEF Fitting
<1>b. \A Xs : \A I \in SUBSET Fitting(G, g, Xs) : StateFits(G, Xs, I)
  BY <1>a DEF Fitting, StateFits
<1>c. /\ StartState(g, kind) \subseteq Fitting(G, g, <<>>)
      /\ \A Xs \in Seq(GrammarSymbol), X \in GrammarSymbol : \A state \in SUBSET Fitting(G, g, Xs) :
           Goto(g, kind, state, X) \subseteq Fitting(G, g, Xs \o <<X>>)
  BY StatesFit
<1> HIDE DEF g, states
<1>3. \A J \in states : J \in SUBSET ItemsOver(P)
  BY <1>1, <1>2, ItemsHold, ReachedAreStates DEF IsState, states
<1>4. /\ stands(tables.start, StartState(g, kind))
      /\ \A n \in D : \E I \in states :
           stands(n, I) /\ \A X \in GrammarSymbol : stands(GotoState(tables, n, X), Goto(g, kind, I, X))
  BY <1>0, <1>1, <1>2, TablesFollow DEF states
<1>5. ASSUME NEW n, NEW I, stands(n, I)
      PROVE  /\ I \in states /\ n \in D
             /\ \A x \in tables.collection[n] : HasCore(I, x.head, x.body, x.dot)
             /\ \A x \in I : HasCore(tables.collection[n], x.head, x.body, x.dot)
  <2>1. I \in states /\ n \in D /\ tables.collection[n] = Collected(g, kind, states, I)
    BY <1>5 DEF StandsFor
  <2> QED BY <1>3, <2>1, CollectedCores
<1> HIDE DEF stands
<1>6. StateFits(G, <<>>, tables.collection[tables.start])
  <2>1. StateFits(G, <<>>, StartState(g, kind))
    BY <1>b, <1>c
  <2>2. \A x \in tables.collection[tables.start] : HasCore(StartState(g, kind), x.head, x.body, x.dot)
    BY <1>4, <1>5
  <2> QED BY <2>1, <2>2, CoresFit
<1>7. ASSUME NEW n \in D, NEW Xs \in Seq(GrammarSymbol), NEW X \in GrammarSymbol, StateFits(G, Xs, tables.collection[n])
      PROVE  StateFits(G, Xs \o <<X>>, tables.collection[GotoState(tables, n, X)])
  <2> DEFINE m == GotoState(tables, n, X)
             Ys == Xs \o <<X>>
  <2>1. PICK I \in states : stands(n, I) /\ \A Y \in GrammarSymbol : stands(GotoState(tables, n, Y), Goto(g, kind, I, Y))
    BY <1>4
  <2>2. stands(n, I) /\ stands(m, Goto(g, kind, I, X))
    BY <2>1
  <2>3. \A x \in I : HasCore(tables.collection[n], x.head, x.body, x.dot)
    BY <1>5, <2>2
  <2>4. StateFits(G, Xs, I)
    BY <1>7, <2>3, CoresFit
  <2>5. I \in SUBSET Fitting(G, g, Xs)
    <3>1. I \in SUBSET ItemsOver(P)
      BY <1>3
    <3> QED BY <2>4, <3>1 DEF StateFits, Fitting
  <2>6. Goto(g, kind, I, X) \in SUBSET Fitting(G, g, Ys)
    BY <1>c, <2>5
  <2> HIDE DEF m, Ys
  <2>7. StateFits(G, Ys, Goto(g, kind, I, X))
    BY <1>b, <2>6
  <2>8. \A x \in tables.collection[m] : HasCore(Goto(g, kind, I, X), x.head, x.body, x.dot)
    BY <1>5, <2>2
  <2>9. StateFits(G, Ys, tables.collection[m])
    BY <2>7, <2>8, CoresFit
  <2> QED BY <2>9 DEF m, Ys
<1> QED BY <1>6, <1>7 DEF GoesWith

\* The top of a stack fits the symbols it was reached on.
LEMMA PathFits ==
  ASSUME NEW i \in DOMAIN Grammars, NEW G, G = Grammars[i], NEW kind \in Kinds, kind # "DCFG",
         NEW tables, tables = TablesOf(G, kind, MaxSteps), NEW s, NEW Xs, OnPath(tables, s, Xs)
  PROVE  StateFits(G, Xs, tables.collection[s[Len(s)]])
<1> DEFINE C == tables.collection
           D == DOMAIN C
           Right(n) == \A t, Ys : OnPath(tables, t, Ys) /\ Len(Ys) = n => StateFits(G, Ys, C[t[Len(t)]])
           Kept == {n \in Nat : Right(n)}
<1>1. /\ StateFits(G, <<>>, C[tables.start])
      /\ \A n \in D, Ys \in Seq(GrammarSymbol), X \in GrammarSymbol : GoesWith(G, tables, n, Ys, X)
  BY TablesFit
<1> HIDE DEF D, C
<1>2. 0 \in Kept
  <2> SUFFICES ASSUME NEW t, NEW Ys, OnPath(tables, t, Ys), Len(Ys) = 0 PROVE StateFits(G, Ys, C[t[Len(t)]])
    OBVIOUS
  <2>1. Ys = <<>> /\ Len(t) = 1 /\ t[1] = tables.start
    BY EmptySeq DEF OnPath
  <2> QED BY <1>1, <2>1
<1>3. ASSUME NEW n \in Nat, n \in Kept PROVE n + 1 \in Kept
  <2>1. ASSUME NEW t, NEW Ys, OnPath(tables, t, Ys), Len(Ys) = n + 1 PROVE StateFits(G, Ys, C[t[Len(t)]])
    <3> DEFINE u == SubSeq(t, 1, n + 1)
               Zs == SubSeq(Ys, 1, n)
               X == Ys[n + 1]
    <3>1. t \in Seq(D) /\ Ys \in Seq(GrammarSymbol) /\ Len(t) = n + 2
      <4>1. t \in Seq(D) /\ Ys \in Seq(GrammarSymbol) /\ Len(t) = Len(Ys) + 1
        BY <2>1 DEF OnPath, D, C
      <4> QED BY <2>1, <4>1
    <3>2. n \in 0 .. Len(Ys) /\ n + 1 \in 0 .. Len(t) /\ n + 1 \in 1 .. Len(t) /\ n + 1 \in 1 .. Len(Ys) /\ (n + 1) - 1 = n
      BY <2>1, <3>1
    <3>3. OnPath(tables, u, Zs)
      BY <2>1, <3>2, PathCut
    <3>4. Len(u) = n + 1 /\ u[n + 1] = t[n + 1]
      BY <3>1, <3>2, CutInTwo
    <3>5. Len(Zs) = n
      BY <3>1, <3>2, CutInTwo
    <3>6. SubSeq(Ys, 1, n + 1) = Zs \o <<X>> /\ Zs \in Seq(GrammarSymbol) /\ X \in GrammarSymbol
      BY <3>1, <3>2, OneMore
    <3>7. SubSeq(Ys, 1, n + 1) = Ys
      BY <2>1, <3>1
    <3>8. t[n + 1] \in D
      BY <3>1, <3>2
    <3> HIDE DEF u, Zs, X
    <3>9. StateFits(G, Zs, C[t[n + 1]])
      <4>1. Right(n)
        BY <1>3
      <4>2. StateFits(G, Zs, C[u[Len(u)]])
        BY <3>3, <3>5, <4>1
      <4> QED BY <3>4, <4>2
    <3>10. t[n + 2] = GotoState(tables, t[n + 1], X)
      <4>1. Follows(tables, t, Ys, n + 1)
        BY <2>1, <3>2 DEF OnPath
      <4>2. t[(n + 1) + 1] = GotoState(tables, t[n + 1], X)
        BY <4>1 DEF Follows, X
      <4>3. (n + 1) + 1 = n + 2
        OBVIOUS
      <4> QED BY <4>2, <4>3
    <3>11. GoesWith(G, tables, t[n + 1], Zs, X)
      BY <1>1, <3>6, <3>8
    <3> QED BY <3>1, <3>6, <3>7, <3>9, <3>10, <3>11 DEF GoesWith, C
  <2>2. Right(n + 1)
    BY <2>1
  <2> HIDE DEF Right
  <2> QED BY <2>2
<1>4. Nat \subseteq Kept
  <2> HIDE DEF Kept
  <2> QED BY <1>2, <1>3, InductionOnNat
<1>5. Len(Xs) \in Nat
  <2>1. Xs \in Seq(GrammarSymbol)
    BY DEF OnPath
  <2> QED BY <2>1
<1>6. Right(Len(Xs))
  <2>1. Len(Xs) \in Kept
    BY <1>4, <1>5
  <2> HIDE DEF Right
  <2> QED BY <2>1
<1> QED BY <1>6 DEF C

\* What is shifted goes on: the symbols of the viable prefix begin a word of the grammar.
GoesOnRight ==
  phase # "idle" /\ object.kind # "DCFG" => Continued(Grammars[object.grammar], SymbolsAt(viable))

\* The top of the stack of an object of LR_1.
LEMMA TopFits ==
  ASSUME object \in Objects, object.kind # "DCFG", NEW s, NEW Xs, OnPath(T, s, Xs)
  PROVE  StateFits(Grammars[object.grammar], Xs, T.collection[s[Len(s)]])
<1>1. object.grammar \in DOMAIN Grammars /\ object.kind \in Kinds
  BY ObjectRight
<1>2. T = TablesOf(Grammars[object.grammar], object.kind, MaxSteps)
  <2>1. PICK i \in DOMAIN Grammars, k \in Kinds :
          object = [grammar |-> i, kind |-> k, tables |-> TablesOf(Grammars[i], k, MaxSteps)]
    BY DEF Objects
  <2> QED BY <2>1 DEF T
<1> QED BY <1>1, <1>2, PathFits

\* LR_1 shifts into live states only.
LEMMA ShiftGoesOn ==
  ASSUME IndInv, IndInv', Shift
  PROVE  GoesOnRight'
<1> SUFFICES ASSUME object.kind # "DCFG" PROVE GoesOnRight'
  BY DEF Shift, constructed, GoesOnRight
<1>1. phase = "parse" /\ phase' = "parse" /\ object' = object /\ stack' = Append(stack, GotoState(T, Top, Ahead))
  BY DEF Shift, constructed
<1>2. T' = T /\ object \in Objects
  BY <1>1 DEF T, IndInv
<1>3. OnPath(T, stack', SymbolsAt(viable'))
  BY <1>1, <1>2 DEF IndInv, ParseRight
<1>4. GotoState(T, Top, Ahead) \in LiveStates(T)
  BY DEF Shift, CanShift
<1>5. stack'[Len(stack')] = GotoState(T, Top, Ahead)
  <2> DEFINE new == GotoState(T, Top, Ahead)
             D == DOMAIN T.collection
  <2>1. stack \in Seq(D) /\ new \in D
    BY <1>1, <1>4, WhileParsing DEF OnPath, LiveStates
  <2> HIDE DEF new, D
  <2>2. stack' = Append(stack, new)
    BY <1>1 DEF new
  <2>3. stack'[Len(stack')] = new
    BY <2>1, <2>2
  <2> QED BY <2>3 DEF new
<1>6. StateFits(Grammars[object.grammar], SymbolsAt(viable'), T.collection[stack'[Len(stack')]])
  BY <1>2, <1>3, TopFits
<1>7. PICK x : x \in T.collection[stack'[Len(stack')]]
  BY <1>4, <1>5 DEF LiveStates
<1>8. Continued(Grammars[object.grammar], SymbolsAt(viable'))
  BY <1>6, <1>7 DEF StateFits
<1> QED BY <1>1, <1>8 DEF GoesOnRight

\* The head comes where the body was.
LEMMA ReducedSymbols ==
  ASSUME IndInv, phase = "parse", NEW x \in Found, x.head # StartSymbol, MakeNode(x),
         x.body \in Seq(GrammarSymbol), NEW front \in Seq(GrammarSymbol), SymbolsAt(viable) = front \o x.body
  PROVE  /\ SymbolsAt(viable') = front \o <<x.head>> /\ x.head \in GrammarSymbol
         /\ Len(Without(stack, Len(x.body))) = Len(front) + 1
<1> DEFINE R == Trees(WordsHere)
           m == Len(x.body)
           rest == Without(viable, m)
           node == Tree(x.head, YieldOf(LastOf(viable, m)))
           Xs == SymbolsAt(viable)
<1>1. /\ object \in Objects /\ object.grammar \in DOMAIN Grammars /\ object.kind \in Kinds /\ RightItems(T, ProductionsHere)
      /\ word \in Words /\ viable \in Seq(R) /\ OnPath(T, stack, Xs) /\ Len(YieldOf(viable)) <= Longest
      /\ Len(stack) = Len(viable) + 1
  BY WhileParsing
<1>2. x \in CompletedItems(T.collection[stack[Len(stack)]])
  BY FoundRight
<1>3. viable' = Append(rest, node)
  BY DEF MakeNode, YieldOf, YieldsAt
<1>4. /\ x.head \in GrammarSymbol /\ node \in R /\ rest \in Seq(R)
      /\ SymbolsAt(rest) = SubSeq(Xs, 1, Len(viable) - m)
  <2>1. Reducible(object.grammar, object.kind, T, stack, viable, x)
    BY <1>1, <1>2 DEF Reducible, WordsHere, ProductionsHere
  <2>2. Reduced(object.grammar, viable, x, rest, node)
    BY <1>1, <2>1, ReductionRight DEF rest, node
  <2> QED BY <2>2 DEF Reduced, WordsHere
<1>5. Xs = front \o x.body /\ Len(Xs) = Len(viable)
  BY <1>1, YieldsConcatenate
<1>6. node.symbol = x.head
  BY DEF Tree, node
<1> HIDE DEF rest, node, R, Xs
<1>7. SymbolsAt(rest) = front
  <2>1. SubSeq(Xs, 1, Len(Xs) - Len(x.body)) = front
    BY <1>5, FirstPart
  <2> QED BY <1>4, <1>5, <2>1
<1>8. SymbolsAt(viable') = front \o <<x.head>>
  BY <1>3, <1>4, <1>6, <1>7, OneTreeMore DEF R
<1>9. Len(Without(stack, m)) = Len(front) + 1
  <2>1. Len(Xs) = Len(front) + m /\ Len(front) \in Nat /\ m \in Nat
    <3> DEFINE b == x.body
    <3>1. b \in Seq(GrammarSymbol) /\ Xs = front \o b /\ m = Len(b)
      BY <1>5
    <3> HIDE DEF b, m
    <3>2. Len(front \o b) = Len(front) + Len(b) /\ Len(front) \in Nat /\ Len(b) \in Nat
      BY <3>1
    <3>3. Len(Xs) = Len(front \o b)
      BY <3>1
    <3>4. Len(Xs) = Len(front) + Len(b)
      BY <3>2, <3>3
    <3> QED BY <3>1, <3>2, <3>4
  <2>6. Len(stack) = Len(Xs) + 1
    BY <1>1, <1>5
  <2> HIDE DEF m
  <2>2. Len(stack) - m = Len(front) + 1
    BY <2>1, <2>6
  <2>3. Len(front) + 1 \in 0 .. Len(stack)
    BY <2>1, <2>6
  <2>4. stack \in Seq(DOMAIN T.collection)
    BY <1>1 DEF OnPath
  <2>5. Len(SubSeq(stack, 1, Len(front) + 1)) = Len(front) + 1
    BY <2>3, <2>4, CutInTwo
  <2> QED BY <2>2, <2>5 DEF Without
<1> QED BY <1>4, <1>8, <1>9

\* A reduction puts the head where the body fitted.
LEMMA ReduceGoesOn ==
  ASSUME IndInv, Reduce
  PROVE  GoesOnRight'
<1> SUFFICES ASSUME object.kind # "DCFG" PROVE GoesOnRight'
  BY DEF Reduce, constructed, GoesOnRight
<1>0. phase = "parse" /\ object' = object
  BY DEF Reduce, constructed
<1>1. PICK x \in Found : x.head # StartSymbol /\ MakeNode(x)
  BY DEF Reduce
<1> DEFINE G == Grammars[object.grammar]
           m == Len(x.body)
           Xs == SymbolsAt(viable)
<1>2. object \in Objects /\ RightItems(T, ProductionsHere) /\ OnPath(T, stack, Xs)
  BY <1>0, WhileParsing
<1>3. x \in T.collection[stack[Len(stack)]] /\ x.dot = m
  BY <1>0, FoundRight DEF CompletedItems, Completed
<1>4. x.body \in Seq(GrammarSymbol)
  <2>1. stack \in Seq(DOMAIN T.collection) /\ Len(stack) = Len(Xs) + 1 /\ Xs \in Seq(GrammarSymbol)
    BY <1>2 DEF OnPath
  <2>2. stack[Len(stack)] \in DOMAIN T.collection
    <3>1. Len(Xs) \in Nat
      BY <2>1
    <3> QED BY <2>1, <3>1
  <2> QED BY <1>2, <1>3, <2>2 DEF RightItems
<1>5. PICK front \in Seq(GrammarSymbol) : FitsBehind(G, front, Xs, x)
  <2>1. StateFits(G, Xs, T.collection[stack[Len(stack)]])
    BY <1>2, TopFits
  <2> QED BY <1>3, <2>1 DEF StateFits, ItemFits
<1>6. Xs = front \o x.body /\ Continued(G, front \o <<x.head>>)
  <2>1. SubSeq(x.body, 1, m) = x.body
    BY <1>4
  <2> QED BY <1>1, <1>3, <1>5, <2>1 DEF FitsBehind, HeadFits
<1>7. SymbolsAt(viable') = front \o <<x.head>>
  BY <1>0, <1>1, <1>4, <1>6, ReducedSymbols
<1> QED BY <1>0, <1>6, <1>7 DEF GoesOnRight

\* The words at the leaves of the viable prefix are words of its symbols, however long words may be.
LEMMA ViableYields ==
  ASSUME IndInv, phase = "parse"
  PROVE  SubSeq(word, 1, at - 1) \in Yields(Grammars[object.grammar], SymbolsAt(viable))
<1> DEFINE i == object.grammar
           G == Grammars[i]
           K == WordsOf[i]
           L == AllWords(G)
<1>1. /\ i \in DOMAIN Grammars /\ word \in Words /\ viable \in Seq(Trees(K))
      /\ YieldOf(viable) = SubSeq(word, 1, at - 1) /\ Len(YieldOf(viable)) <= Longest
  BY WhileParsing DEF WordsHere
<1>2. Typed(G.productions) /\ IsFiniteSet(Heads(G.productions))
  BY <1>1, GrammarParts
<1>3. Longest \in Nat /\ WordsOfHeads(K) /\ DOMAIN K = Heads(G.productions)
  BY <1>1, LongestOfWords, WordsOfRight
<1>4. WordsOfHeads(L) /\ DOMAIN L = Heads(G.productions)
  BY <1>2, AllWordsTyped
<1>5. \A A \in DOMAIN K : K[A] \subseteq L[A]
  <2>1. K = DerivedWords(G, Longest)
    BY <1>1 DEF WordsOf
  <2> HIDE DEF K
  <2> QED BY <1>3, <2>1 DEF AllWords
<1> DEFINE Xs == SymbolsAt(viable)
<1>6. Xs \in Seq(Terminal \cup DOMAIN K)
  BY <1>1, YieldsConcatenate
<1>7. YieldOf(viable) \in BodyWords(Longest, K, Xs)
  BY <1>1, <1>3, TreesMakeBody
<1> HIDE DEF K, L, Xs
<1>8. BodyWords(Longest, K, Xs) \subseteq BodyWords(Longest, L, Xs)
  <2>1. Longest <= Longest
    BY <1>3
  <2> QED BY <1>3, <1>4, <1>5, <1>6, <2>1, LongerBodies
<1>9. YieldOf(viable) \in Yields(G, Xs)
  BY <1>3, <1>7, <1>8 DEF Yields, L
<1> QED BY <1>1, <1>9 DEF Xs

\* Some word of the grammar begins with what was read.
MayGoOn ==
  phase = "parse" /\ object.kind # "DCFG" =>
    \E v \in Seq(Terminal) : SubSeq(word, 1, at - 1) \o v \in AllWords(Grammars[object.grammar])[Start]

\* The three kinds of LR_1 shift no symbol past an error: what is read is, at any time, the
\* beginning of some word of the grammar, of any length, also with a table that an exception
\* left unfinished. SLR and LALR may reduce where canonical LR sees the error at once, but
\* what they shift leads into a state that is not the reject state.
THEOREM ReadMayGoOn == Spec => []MayGoOn
<1>1. Init => GoesOnRight
  BY DEF Init, GoesOnRight
<1>2. IndInv /\ IndInv' /\ GoesOnRight /\ [Next]_vars => GoesOnRight'
  <2> SUFFICES ASSUME IndInv, IndInv', GoesOnRight, [Next]_vars PROVE GoesOnRight'
    OBVIOUS
  <2>1. CASE TestFails
    BY <2>1 DEF TestFails, Throw, GoesOnRight
  <2>2. CASE Conflict
    BY <2>2 DEF Conflict, Throw, GoesOnRight
  <2>3. CASE TableDone
    <3>1. phase # "idle" /\ object' = object /\ viable' = viable
      BY <2>3 DEF TableDone, tree
    <3> QED BY <3>1 DEF GoesOnRight
  <2>4. CASE Shift
    BY <2>4, ShiftGoesOn
  <2>5. CASE Reduce
    BY <2>5, ReduceGoesOn
  <2>6. CASE Accept
    BY <2>6 DEF Accept, GoesOnRight
  <2>7. CASE Reject
    BY <2>7 DEF Reject, GoesOnRight
  <2>8. ASSUME NEW w \in Words, Call(w) PROVE GoesOnRight'
    <3>1. object' = object /\ viable' = <<>>
      BY <2>8 DEF Call
    <3>2. SymbolsAt(<<>>) = <<>>
      BY DEF SymbolsAt
    <3>3. Continued(Grammars[object.grammar], <<>>)
      BY ObjectRight, WordsGoOn DEF IndInv
    <3> QED BY <3>1, <3>2, <3>3 DEF GoesOnRight
  <2>9. CASE UNCHANGED vars
    <3>1. object' = object /\ phase' = phase /\ viable' = viable
      BY <2>9 DEF vars
    <3> QED BY <3>1 DEF GoesOnRight
  <2> QED BY <2>1, <2>2, <2>3, <2>4, <2>5, <2>6, <2>7, <2>8, <2>9 DEF Next, Constructing, Parsing
<1>3. IndInv /\ GoesOnRight => MayGoOn
  <2> SUFFICES ASSUME IndInv, GoesOnRight, phase = "parse", object.kind # "DCFG"
               PROVE  \E v \in Seq(Terminal) :
                        SubSeq(word, 1, at - 1) \o v \in AllWords(Grammars[object.grammar])[Start]
    BY DEF MayGoOn
  <2>1. Continued(Grammars[object.grammar], SymbolsAt(viable))
    BY DEF GoesOnRight
  <2>2. SubSeq(word, 1, at - 1) \in Yields(Grammars[object.grammar], SymbolsAt(viable))
    BY ViableYields
  <2> QED BY <2>1, <2>2 DEF Continued, Start
<1> QED BY <1>1, <1>2, <1>3, IndInvariant, PTL DEF Spec

\* Together with the beginnings that are looked up: LR_1 shifts no symbol past an error.
THEOREM ErrorsAtOnce == Spec => []ErrorsFoundAtOnce
<1>1. IndInv /\ MayGoOn => ErrorsFoundAtOnce
  <2> SUFFICES ASSUME IndInv, MayGoOn, phase = "parse", object.kind # "DCFG"
               PROVE  SubSeq(word, 1, at - 1) \in PrefixesOf[object.grammar]
    BY DEF ErrorsFoundAtOnce
  <2> DEFINE i == object.grammar
             G == Grammars[i]
             u == SubSeq(word, 1, at - 1)
  <2>1. i \in DOMAIN Grammars
    BY ObjectRight DEF IndInv
  <2>2. word \in Words /\ word \in Seq(Terminal) /\ at \in 1 .. Len(word) + 1 /\ Len(word) \in Nat
    BY WhileParsing
  <2>3. Longest \in Nat /\ Len(word) <= Longest
    BY <2>2, LongestOfWords
  <2>4. at - 1 \in 0 .. Len(word)
    BY <2>2
  <2>5. u \in Seq(Terminal) /\ Len(u) = at - 1
    BY <2>2, <2>4, CutInTwo
  <2>6. PICK v \in Seq(Terminal) : u \o v \in AllWords(G)[Start]
    BY DEF MayGoOn
  <2>7. Start = G.start
    BY DEF Start
  <2>8. PrefixesOf[i] = Beginnings(G, Longest)[G.start]
    BY <2>1 DEF PrefixesOf
  <2> HIDE DEF G, u
  <2>9. /\ Typed(G.productions) /\ IsFiniteSet(Heads(G.productions)) /\ Terminal \cap NonTerminal = {}
        /\ G.start \in Heads(G.productions)
    BY <2>1, GrammarParts DEF G
  <2>10. Len(u) <= Longest
    BY <2>2, <2>3, <2>4, <2>5
  <2>11. IsBeginning(u, u \o v) /\ u \o v \in AllWords(G)[G.start]
    BY <2>6, <2>7 DEF IsBeginning
  <2>12. u \in Beginnings(G, Longest)[G.start]
    BY <2>3, <2>5, <2>9, <2>10, <2>11, BeginningsAreAll
  <2> QED BY <2>8, <2>12 DEF u
<1> QED BY <1>1, IndInvariant, ReadMayGoOn, PTL

-----------------------------------------------------------------------------
(* Closures are closed.                                                    *)

\* The lookahead symbols of predictions.
AheadFrom(g, kind, x) == IF WithAhead(kind) THEN FollowOfDot(g, x) ELSE {}

\* What the predictions of an item are.
LEMMA PredictedAre ==
  ASSUME NEW g, NEW kind, NEW x
  PROVE  /\ \A y \in Predicted(g, kind, x) : /\ ~ Completed(x) /\ UnderDot(x) \notin Terminal
                                             /\ y.body \in Bodies(g.productions, UnderDot(x))
                                             /\ y = Item(UnderDot(x), y.body, 0, AheadFrom(g, kind, x))
         /\ \A body \in Bodies(g.productions, UnderDot(x)) :
              ~ Completed(x) /\ UnderDot(x) \notin Terminal
                => Item(UnderDot(x), body, 0, AheadFrom(g, kind, x)) \in Predicted(g, kind, x)
BY DEF Predicted, AheadFrom, Item

\* u is a head and a lookahead symbol that an item predicts it with, or d.
CallsFor(g, kind, d, x, u) ==
  /\ ~ Completed(x) /\ UnderDot(x) = u[1] /\ u[1] \notin Terminal
  /\ u[2] = d \/ u[2] \in AheadFrom(g, kind, x)
Called(g, kind, d, U, items) == {u \in U : \E x \in items : CallsFor(g, kind, d, x, u)}

\* The predictions of one head that different items make call for the same, so far as these
\* items do.
LEMMA SamePredictions ==
  ASSUME NEW g, NEW kind, NEW d, NEW y, NEW z, NEW x \in Predicted(g, kind, y), NEW u, CallsFor(g, kind, d, x, u),
         ~ Completed(z), UnderDot(z) = UnderDot(y), u[2] = d \/ u[2] \notin AheadFrom(g, kind, y) \/ u[2] \in AheadFrom(g, kind, z)
  PROVE  \E v \in Predicted(g, kind, z) : CallsFor(g, kind, d, v, u)
<1>1. /\ UnderDot(y) \notin Terminal /\ x.body \in Bodies(g.productions, UnderDot(y))
      /\ x = Item(UnderDot(y), x.body, 0, AheadFrom(g, kind, y))
  BY PredictedAre
<1> DEFINE v == Item(UnderDot(z), x.body, 0, AheadFrom(g, kind, z))
<1>2. v \in Predicted(g, kind, z)
  BY <1>1, PredictedAre
<1>3. v.head = x.head /\ v.body = x.body /\ v.dot = x.dot /\ v.ahead = AheadFrom(g, kind, z) /\ x.ahead = AheadFrom(g, kind, y)
  BY <1>1 DEF Item
<1> HIDE DEF v
<1>4. (Completed(v) <=> Completed(x)) /\ UnderDot(v) = UnderDot(x) /\ Rest(v.body, v.dot + 1) = Rest(x.body, x.dot + 1)
  BY <1>3 DEF Completed, UnderDot
<1>5. u[2] \in AheadFrom(g, kind, x) /\ u[2] # d => u[2] \in AheadFrom(g, kind, v)
  BY <1>3, <1>4 DEF AheadFrom, FollowOfDot
<1>6. CallsFor(g, kind, d, v, u)
  BY <1>4, <1>5 DEF CallsFor
<1> QED BY <1>2, <1>6

\* When nothing new is called for in one step, nothing is in the next.
LEMMA CallsStop ==
  ASSUME NEW g, Wellformed(g), NEW kind, NEW items, NEW c, IsClosing(c, g, kind, items, ItemsOver(g.productions)),
         NEW d, NEW U, U = Heads(g.productions) \X (Lookahead \cup {d}), NEW h \in Nat,
         Called(g, kind, d, U, c[h + 1]) = Called(g, kind, d, U, c[h])
  PROVE  Called(g, kind, d, U, c[(h + 1) + 1]) \subseteq Called(g, kind, d, U, c[h + 1])
<1>0. h + 1 \in Nat
  OBVIOUS
<1>1. /\ c[h] \subseteq ItemsOver(g.productions) /\ c[h + 1] \subseteq ItemsOver(g.productions)
      /\ c[h + 1] = Predict(g, kind, c[h]) /\ c[(h + 1) + 1] = Predict(g, kind, c[h + 1])
  BY <1>0 DEF IsClosing
<1> SUFFICES ASSUME NEW u \in U, NEW x \in c[(h + 1) + 1], CallsFor(g, kind, d, x, u)
             PROVE  \E v \in c[h + 1] : CallsFor(g, kind, d, v, u)
  BY DEF Called
<1>2. CASE x \in c[h + 1]
  BY <1>2
<1>3. CASE x \notin c[h + 1]
  <2>1. PICK y \in c[h + 1] : x \in Predicted(g, kind, y)
    BY <1>1, <1>3 DEF Predict
  <2>2. /\ ~ Completed(y) /\ UnderDot(y) \notin Terminal /\ x.body \in Bodies(g.productions, UnderDot(y))
        /\ x = Item(UnderDot(y), x.body, 0, AheadFrom(g, kind, y))
    BY <2>1, PredictedAre
  <2>3. UnderDot(y) \in Heads(g.productions)
    BY <2>2 DEF Bodies, Heads
  <2> DEFINE l == IF u[2] # d /\ u[2] \in AheadFrom(g, kind, y) THEN u[2] ELSE d
             w == <<UnderDot(y), l>>
  <2>4. u[2] \in Lookahead \cup {d}
    OBVIOUS
  <2>5. w \in U
    BY <2>3, <2>4
  <2>6. CallsFor(g, kind, d, y, w)
    BY <2>2 DEF CallsFor
  <2>7. w \in Called(g, kind, d, U, c[h])
    <3> HIDE DEF w
    <3> QED BY <2>1, <2>5, <2>6 DEF Called
  <2>8. PICK z \in c[h] : CallsFor(g, kind, d, z, w)
    BY <2>7 DEF Called
  <2>9. ~ Completed(z) /\ UnderDot(z) = UnderDot(y) /\ (l = d \/ l \in AheadFrom(g, kind, z))
    BY <2>8 DEF CallsFor
  <2>10. PICK v \in Predicted(g, kind, z) : CallsFor(g, kind, d, v, u)
    BY <2>1, <2>9, SamePredictions
  <2> QED BY <1>1, <2>8, <2>10 DEF Predict
<1> QED BY <1>2, <1>3

\* There is something that is not in a set.
LEMMA SomethingElse ==
  ASSUME NEW S
  PROVE  \E d : d \notin S
<1> DEFINE R == {x \in S : x \notin x}
<1>1. R \notin S
  OBVIOUS
<1> QED BY <1>1

PredictedIn(I, p, l) == \E y \in I : y.head = p.head /\ y.body = p.body /\ y.dot = 0 /\ l \in y.ahead

\* A closure has the predictions of each of its items, if not in one piece: for each lookahead
\* symbol, and when there is none, one with the same production.
LEMMA ClosureHasPredictions ==
  ASSUME NEW g, Wellformed(g), NEW kind, NEW items \in SUBSET ItemsOver(g.productions),
         NEW I, I = Closure(g, kind, items), NEW x \in I, ~ Completed(x), NEW p \in g.productions, UnderDot(x) = p.head
  PROVE  HasCore(I, p.head, p.body, 0) /\ \A l \in AheadFrom(g, kind, x) : PredictedIn(I, p, l)
<1> DEFINE H == Heads(g.productions)
           Q == ItemsOver(g.productions)
<1>1. ASSUME NEW y \in Q PROVE Predicted(g, kind, y) \subseteq Q
  BY PredictedFresh DEF Fresh
<1>2. PICK c : IsClosing(c, g, kind, items, Q) /\ I = c[Rounds(g)]
  <2>1. IsFiniteSet(g.productions) /\ items \subseteq Q
    BY DEF Wellformed
  <2> HIDE DEF Q
  <2> QED BY <1>1, <2>1, ClosureSteps
<1>3. PICK d : d \notin Lookahead
  BY SomethingElse
<1> DEFINE U == H \X (Lookahead \cup {d})
           D == [n \in Nat |-> Called(g, kind, d, U, c[n])]
<1>4. p.head \in H /\ p.head \in NonTerminal /\ p.head \notin Terminal /\ IsFiniteSet(H) /\ Cardinality(H) \in Nat
  <2>1. p.head \in H /\ p.head \in NonTerminal
    BY DEF Heads, Wellformed, Typed
  <2>2. IsFiniteSet(H)
    BY HeadsFinite DEF Wellformed
  <2> QED BY <2>1, <2>2, SymbolsAssumption, FS_CardinalityType
<1>5. IsFiniteSet(U) /\ Cardinality(U) = Cardinality(H) * (Cardinality(Lookahead) + 1)
  <2>1. IsFiniteSet(Lookahead \cup {d}) /\ Cardinality(Lookahead \cup {d}) = Cardinality(Lookahead) + 1
    BY <1>3, LookaheadFinite, FS_AddElement
  <2> HIDE DEF H
  <2> QED BY <2>1, <1>4, FS_Product
<1>6. Cardinality(U) \in Nat /\ Rounds(g) \in Nat /\ Cardinality(U) + 1 <= Rounds(g)
  <2> DEFINE a == Cardinality(H)
             b == Cardinality(Lookahead)
  <2>1. a # 0
    BY <1>4, FS_EmptySet
  <2>2. a \in Nat /\ b \in Nat
    BY <1>4, LookaheadFinite
  <2>3. Rounds(g) = a * (b + 2) /\ Cardinality(U) = a * (b + 1)
    BY <1>5 DEF Rounds
  <2> HIDE DEF a, b
  <2>4. a * (b + 2) = a * (b + 1) + a
    BY <2>2
  <2>5. a * (b + 1) \in Nat
    BY <2>2
  <2> QED BY <2>1, <2>2, <2>3, <2>4, <2>5
<1>7. ASSUME NEW n \in Nat PROVE c[n] \subseteq c[n + 1] /\ c[n + 1] = Predict(g, kind, c[n])
  BY <1>2 DEF IsClosing, Predict
<1>8. /\ D \in [Nat -> SUBSET U] /\ \A n \in Nat : D[n] \subseteq D[n + 1]
      /\ \A n \in Nat : D[n + 1] = D[n] => D[(n + 1) + 1] = D[n + 1]
  <2>1. D \in [Nat -> SUBSET U]
    BY DEF Called
  <2>2. ASSUME NEW n \in Nat PROVE D[n] \subseteq D[n + 1]
    <3>1. Called(g, kind, d, U, c[n]) \subseteq Called(g, kind, d, U, c[n + 1])
      BY <1>7 DEF Called
    <3>2. n + 1 \in Nat
      OBVIOUS
    <3> HIDE DEF U
    <3> QED BY <3>1, <3>2
  <2>3. ASSUME NEW n \in Nat, D[n + 1] = D[n] PROVE D[(n + 1) + 1] = D[n + 1]
    <3>1. n + 1 \in Nat /\ (n + 1) + 1 \in Nat
      OBVIOUS
    <3>2. Called(g, kind, d, U, c[n + 1]) = Called(g, kind, d, U, c[n])
      BY <2>3, <3>1
    <3>3. Called(g, kind, d, U, c[(n + 1) + 1]) \subseteq Called(g, kind, d, U, c[n + 1])
      BY <1>2, <3>2, CallsStop
    <3> QED BY <2>2, <3>1, <3>3
  <2> QED BY <2>1, <2>2, <2>3
<1> HIDE DEF D, U
<1>9. D[Rounds(g)] \subseteq D[Cardinality(U)]
  BY <1>5, <1>6, <1>8, ChainStops
<1>10. c[Cardinality(U) + 1] \subseteq c[Rounds(g)]
  <2> DEFINE Up == {n \in Nat : Cardinality(U) + 1 <= n => c[Cardinality(U) + 1] \subseteq c[n]}
  <2>1. 0 \in Up
    BY <1>6
  <2>2. ASSUME NEW n \in Nat, n \in Up PROVE n + 1 \in Up
    <3>1. CASE Cardinality(U) + 1 <= n
      BY <3>1, <2>2, <1>7
    <3>2. CASE ~ (Cardinality(U) + 1 <= n)
      <4>1. Cardinality(U) + 1 <= n + 1 => Cardinality(U) + 1 = n + 1
        BY <3>2, <1>6
      <4> QED BY <4>1
    <3> QED BY <3>1, <3>2
  <2>3. Nat \subseteq Up
    <3> HIDE DEF Up
    <3> QED BY <2>1, <2>2, InductionOnNat
  <2> QED BY <1>6, <2>3
<1>11. ASSUME NEW l \in Lookahead \cup {d}, l = d \/ l \in AheadFrom(g, kind, x)
       PROVE  \E y \in I : y.head = p.head /\ y.body = p.body /\ y.dot = 0 /\ (l # d => l \in y.ahead)
  <2> DEFINE u == <<p.head, l>>
  <2>1. u \in U /\ CallsFor(g, kind, d, x, u)
    BY <1>4, <1>11 DEF CallsFor, U
  <2>2. u \in D[Cardinality(U)]
    <3> HIDE DEF u
    <3>1. u \in D[Rounds(g)]
      BY <2>1, <1>2, <1>6 DEF D, Called
    <3> QED BY <3>1, <1>9
  <2>3. PICK z \in c[Cardinality(U)] : CallsFor(g, kind, d, z, u)
    BY <2>2, <1>6 DEF D, Called
  <2>4. ~ Completed(z) /\ UnderDot(z) = p.head /\ (l # d => l \in AheadFrom(g, kind, z))
    BY <2>3 DEF CallsFor
  <2> DEFINE y == Item(UnderDot(z), p.body, 0, AheadFrom(g, kind, z))
  <2>5. y \in Predicted(g, kind, z)
    <3>1. p.body \in Bodies(g.productions, UnderDot(z))
      BY <2>4 DEF Bodies
    <3> QED BY <3>1, <2>4, <1>4, PredictedAre
  <2>6. y \in I
    BY <2>3, <2>5, <1>2, <1>6, <1>7, <1>10 DEF Predict
  <2>7. y.head = p.head /\ y.body = p.body /\ y.dot = 0 /\ y.ahead = AheadFrom(g, kind, z)
    BY <2>4 DEF Item
  <2> HIDE DEF y
  <2> QED BY <2>4, <2>6, <2>7
<1>12. AheadFrom(g, kind, x) \subseteq Lookahead
  <2>1. x \in Q
    BY <1>2, <1>6 DEF IsClosing
  <2> DEFINE y == Item(UnderDot(x), p.body, 0, AheadFrom(g, kind, x))
  <2>2. y \in Predicted(g, kind, x)
    <3>1. p.body \in Bodies(g.productions, UnderDot(x))
      BY DEF Bodies
    <3> QED BY <3>1, <1>4, PredictedAre
  <2>3. y.ahead \in SUBSET Lookahead
    BY <1>1, <2>1, <2>2 DEF ItemsOver
  <2> QED BY <2>3 DEF Item
<1>13. HasCore(I, p.head, p.body, 0)
  BY <1>11 DEF HasCore
<1>14. ASSUME NEW l \in AheadFrom(g, kind, x) PROVE PredictedIn(I, p, l)
  <2>1. l \in Lookahead /\ l # d
    BY <1>3, <1>12
  <2> QED BY <2>1, <1>11 DEF PredictedIn
<1> QED BY <1>13, <1>14

-----------------------------------------------------------------------------
(* The items that are valid for the symbols before a state.                *)

\* The lookahead symbols an item can be met with, from its dot on.
After(g, x) ==
  First(g, Rest(x.body, x.dot)) \cup IF Nullable(g, Rest(x.body, x.dot)) THEN x.ahead ELSE {}

\* The rest of a body, from its beginning and from its end.
LEMMA AllOfBody ==
  ASSUME NEW S, NEW body \in Seq(S)
  PROVE  Rest(body, 0) = body /\ Rest(body, Len(body)) = <<>>
<1>1. 0 \in 0 .. Len(body) /\ Len(body) \in 0 .. Len(body) /\ Len(body) \in Nat
  OBVIOUS
<1>2. /\ SubSeq(body, 0 + 1, Len(body)) \in Seq(S) /\ Len(SubSeq(body, 0 + 1, Len(body))) = Len(body) - 0
      /\ \A i \in 1 .. Len(body) - 0 : SubSeq(body, 0 + 1, Len(body))[i] = body[0 + i]
  BY <1>1, CutInTwo
<1>3. SubSeq(body, 0 + 1, Len(body)) = body
  BY <1>2, SameSequence
<1>4. /\ SubSeq(body, Len(body) + 1, Len(body)) \in Seq(S)
      /\ Len(SubSeq(body, Len(body) + 1, Len(body))) = Len(body) - Len(body)
  BY <1>1, CutInTwo
<1>5. SubSeq(body, Len(body) + 1, Len(body)) = <<>>
  BY <1>4
<1> QED BY <1>3, <1>5 DEF Rest

\* Nothing is missing behind a symbol of a body.
LEMMA RestNotMissing ==
  ASSUME NEW g, Whole(g), NEW p \in g.productions, NEW k \in 0 .. Len(p.body)
  PROVE  NoneMissing(g, Rest(p.body, k))
<1>1. p.body \in Seq(GrammarSymbol) /\ NoneMissing(g, p.body)
  BY DEF Whole, Typed
<1> DEFINE e == Rest(p.body, k)
<1>2. e \in Seq(GrammarSymbol) /\ Len(e) = Len(p.body) - k /\ \A i \in 1 .. Len(p.body) - k : e[i] = p.body[k + i]
  BY <1>1, CutInTwo DEF Rest
<1> HIDE DEF e
<1>3. SymbolsOf(e) \subseteq SymbolsOf(p.body)
  <2>1. ASSUME NEW i \in DOMAIN e PROVE e[i] \in SymbolsOf(p.body)
    <3>1. i \in 1 .. Len(p.body) - k
      BY <1>2
    <3>2. k + i \in DOMAIN p.body
      BY <1>1, <3>1
    <3> QED BY <1>2, <3>1, <3>2 DEF SymbolsOf
  <2> QED BY <2>1 DEF SymbolsOf
<1>4. NoneMissing(g, e)
  BY <1>1, <1>3 DEF NoneMissing, NonTerminalsOf
<1> QED BY <1>4 DEF e

\* What is before the dot, under it and behind it.
LEMMA AtDot ==
  ASSUME NEW P, NEW x \in ItemsOver(P), ~ Completed(x)
  PROVE  /\ x.dot \in Nat /\ x.dot + 1 \in 1 .. Len(x.body) /\ (x.dot + 1) - 1 = x.dot
         /\ UnderDot(x) = x.body[x.dot + 1] /\ UnderDot(x) \in GrammarSymbol
         /\ Go(x) = Item(x.head, x.body, x.dot + 1, x.ahead) /\ Go(x) \in ItemsOver(P)
<1>1. /\ x.head \in NonTerminal /\ x.body \in Seq(GrammarSymbol) /\ x.dot \in 0 .. Len(x.body)
      /\ x.ahead \in SUBSET Lookahead /\ ProductionOf(x) \in P /\ x = Item(x.head, x.body, x.dot, x.ahead)
  BY ItemParts
<1>2. x.dot \in Nat /\ x.dot + 1 \in 1 .. Len(x.body) /\ (x.dot + 1) - 1 = x.dot
  BY <1>1 DEF Completed
<1>3. UnderDot(x) = x.body[x.dot + 1] /\ UnderDot(x) \in GrammarSymbol
  BY <1>1, <1>2 DEF UnderDot
<1>4. Go(x) = Item(x.head, x.body, x.dot + 1, x.ahead)
  BY <1>1 DEF Go, Item
<1>5. Go(x) \in ItemsOver(P)
  BY <1>1, <1>2, <1>4 DEF ItemsOver, Item, ProductionOf
<1> QED BY <1>2, <1>3, <1>4, <1>5

\* What an item predicts a head with, it can be met with behind that head.
LEMMA FollowIsAfter ==
  ASSUME NEW g, NEW P, NEW x \in ItemsOver(P), ~ Completed(x)
  PROVE  FollowOfDot(g, x) = After(g, Go(x))
BY AtDot DEF FollowOfDot, After, Item

\* An item can be met with all that those it predicts can be met with.
LEMMA AfterPredicted ==
  ASSUME NEW g, Whole(g), NEW x \in ItemsOver(g.productions), ~ Completed(x), NEW p \in g.productions, UnderDot(x) = p.head,
         NEW l \in FollowOfDot(g, x)
  PROVE  After(g, Item(p.head, p.body, 0, {l})) \subseteq After(g, x)
<1> DEFINE f == Rest(x.body, x.dot)
           e == Rest(x.body, x.dot + 1)
<1>1. x.body \in Seq(GrammarSymbol) /\ x.dot \in 0 .. Len(x.body) /\ ProductionOf(x) \in g.productions /\ ProductionOf(x).body = x.body
  BY ItemParts DEF ProductionOf
<1>2. /\ x.dot \in Nat /\ x.dot + 1 \in 1 .. Len(x.body) /\ (x.dot + 1) - 1 = x.dot /\ x.dot + 1 \in 0 .. Len(x.body)
      /\ UnderDot(x) = x.body[x.dot + 1]
  <2>1. x.dot + 1 \in 1 .. Len(x.body) /\ UnderDot(x) = x.body[x.dot + 1]
    BY AtDot
  <2>2. x.dot \in Nat
    BY AtDot
  <2> QED BY <1>1, <2>1, <2>2
<1>3. NoneMissing(g, f) /\ NoneMissing(g, e)
  BY <1>1, <1>2, RestNotMissing
<1>4. /\ x.body[x.dot + 1] \in Leaders(g, Rest(x.body, (x.dot + 1) - 1))
      /\ Nullable(g, Rest(x.body, (x.dot + 1) - 1)) <=> x.body[x.dot + 1] \in NullableHeads(g.productions) /\ Nullable(g, Rest(x.body, x.dot + 1))
      /\ x.body[x.dot + 1] \in NullableHeads(g.productions)
           => Leaders(g, Rest(x.body, x.dot + 1)) \subseteq Leaders(g, Rest(x.body, (x.dot + 1) - 1))
  <2> DEFINE i == x.dot + 1
             body == x.body
  <2>1. body \in Seq(GrammarSymbol) /\ i \in 1 .. Len(body)
    BY <1>1, <1>2
  <2> HIDE DEF i, body
  <2>2. /\ body[i] \in Leaders(g, Rest(body, i - 1))
        /\ Nullable(g, Rest(body, i - 1)) <=> body[i] \in NullableHeads(g.productions) /\ Nullable(g, Rest(body, i))
        /\ body[i] \in NullableHeads(g.productions) => Leaders(g, Rest(body, i)) \subseteq Leaders(g, Rest(body, i - 1))
    BY <2>1, LeadersOfRest
  <2> QED BY <2>2 DEF i, body
<1>5. /\ p.head \in Leaders(g, f)
      /\ Nullable(g, f) <=> p.head \in NullableHeads(g.productions) /\ Nullable(g, e)
      /\ p.head \in NullableHeads(g.productions) => Leaders(g, e) \subseteq Leaders(g, f)
  BY <1>2, <1>4
<1>6. FollowOfDot(g, x) = First(g, e) \cup IF Nullable(g, e) THEN x.ahead ELSE {}
  BY DEF FollowOfDot
<1>7. After(g, x) = First(g, f) \cup IF Nullable(g, f) THEN x.ahead ELSE {}
  BY DEF After
<1> HIDE DEF f, e
<1>8. First(g, p.body) \subseteq First(g, f)
  BY <1>3, <1>5, FirstOfHead
<1>9. ASSUME Nullable(g, p.body) PROVE l \in After(g, x)
  <2>1. p.head \in NullableHeads(g.productions)
    BY <1>9, NullableHas
  <2>2. First(g, e) \subseteq First(g, f)
    BY <2>1, <1>3, <1>5, FirstGrows
  <2> QED BY <2>1, <2>2, <1>5, <1>6, <1>7
<1>10. After(g, Item(p.head, p.body, 0, {l})) = First(g, p.body) \cup IF Nullable(g, p.body) THEN {l} ELSE {}
  <2>1. Rest(p.body, 0) = p.body
    BY AllOfBody DEF Whole, Typed
  <2> QED BY <2>1 DEF After, Item
<1> QED BY <1>7, <1>8, <1>9, <1>10

\* A terminal under the dot.
LEMMA AfterOfTerminal ==
  ASSUME NEW g, Whole(g), NEW x \in ItemsOver(g.productions), ~ Completed(x), UnderDot(x) \in Terminal
  PROVE  UnderDot(x) \in After(g, x)
<1>1. x.body \in Seq(GrammarSymbol) /\ x.dot \in 0 .. Len(x.body) /\ ProductionOf(x) \in g.productions /\ ProductionOf(x).body = x.body
  BY ItemParts DEF ProductionOf
<1>2. /\ x.dot + 1 \in 1 .. Len(x.body) /\ (x.dot + 1) - 1 = x.dot /\ UnderDot(x) = x.body[x.dot + 1]
  BY AtDot
<1>3. NoneMissing(g, Rest(x.body, x.dot))
  BY <1>1, RestNotMissing
<1>4. x.body[x.dot + 1] \in Leaders(g, Rest(x.body, (x.dot + 1) - 1))
  BY <1>1, <1>2, LeadersOfRest
<1>5. UnderDot(x) \in First(g, Rest(x.body, x.dot))
  BY <1>2, <1>3, <1>4, FirstHasLeaders
<1> QED BY <1>5 DEF After

\* Symbols before a state and an item: the items the grammar starts with before any symbol, what
\* these predict, with one lookahead symbol each, and the dot moved over the next symbol.
Marked(g) == Seq(GrammarSymbol) \X ItemsOver(g.productions)
StartsIn(g, Q) == \A p \in g.productions : p.head = g.start => << <<>>, Item(p.head, p.body, 0, {EndMarker})>> \in Q
PredictsIn(g, Q) ==
  \A v \in Q : \A p \in g.productions : \A l \in FollowOfDot(g, v[2]) :
    ~ Completed(v[2]) /\ UnderDot(v[2]) = p.head => <<v[1], Item(p.head, p.body, 0, {l})>> \in Q
GoesIn(Q) == \A v \in Q : ~ Completed(v[2]) => <<v[1] \o <<UnderDot(v[2])>>, Go(v[2])>> \in Q
HasValid(g, Q) == StartsIn(g, Q) /\ PredictsIn(g, Q) /\ GoesIn(Q)
Valid(g) == {v \in Marked(g) : \A Q \in SUBSET Marked(g) : HasValid(g, Q) => v \in Q}

\* All these are such pairs.
LEMMA MarkedHas ==
  ASSUME NEW g, Wellformed(g), Whole(g)
  PROVE  /\ \A p \in g.productions : << <<>>, Item(p.head, p.body, 0, {EndMarker})>> \in Marked(g)
         /\ \A v \in Marked(g) : ~ Completed(v[2]) =>
              /\ <<v[1] \o <<UnderDot(v[2])>>, Go(v[2])>> \in Marked(g)
              /\ \A p \in g.productions : \A l \in FollowOfDot(g, v[2]) : <<v[1], Item(p.head, p.body, 0, {l})>> \in Marked(g)
<1>1. ASSUME NEW p \in g.productions, NEW l \in Lookahead PROVE Item(p.head, p.body, 0, {l}) \in ItemsOver(g.productions)
  <2>1. p.head \in NonTerminal /\ p.body \in Seq(GrammarSymbol) /\ p = [head |-> p.head, body |-> p.body]
    BY DEF Wellformed, Typed
  <2>2. 0 <= Len(p.body)
    BY <2>1
  <2> QED BY <2>1, <2>2 DEF ItemsOver, Item, ProductionOf
<1>2. ASSUME NEW p \in g.productions PROVE << <<>>, Item(p.head, p.body, 0, {EndMarker})>> \in Marked(g)
  <2>1. EndMarker \in Lookahead /\ <<>> \in Seq(GrammarSymbol)
    BY DEF Lookahead
  <2> QED BY <1>1, <2>1 DEF Marked
<1>3. ASSUME NEW v \in Marked(g), ~ Completed(v[2]) PROVE <<v[1] \o <<UnderDot(v[2])>>, Go(v[2])>> \in Marked(g)
  <2>1. v[1] \in Seq(GrammarSymbol) /\ v[2] \in ItemsOver(g.productions)
    BY DEF Marked
  <2>2. UnderDot(v[2]) \in GrammarSymbol /\ Go(v[2]) \in ItemsOver(g.productions)
    BY <1>3, <2>1, AtDot
  <2>3. v[1] \o <<UnderDot(v[2])>> \in Seq(GrammarSymbol)
    BY <2>1, <2>2
  <2> QED BY <2>2, <2>3 DEF Marked
<1>4. ASSUME NEW v \in Marked(g), ~ Completed(v[2]), NEW p \in g.productions, NEW l \in FollowOfDot(g, v[2])
      PROVE  <<v[1], Item(p.head, p.body, 0, {l})>> \in Marked(g)
  <2>1. v[1] \in Seq(GrammarSymbol) /\ v[2] \in ItemsOver(g.productions)
    BY DEF Marked
  <2>2. v[2].ahead \in SUBSET Lookahead
    BY <2>1, ItemParts
  <2>3. l \in Lookahead
    <3>1. l \in First(g, Rest(v[2].body, v[2].dot + 1)) \/ l \in v[2].ahead
      BY DEF FollowOfDot
    <3>2. First(g, Rest(v[2].body, v[2].dot + 1)) \subseteq Terminal
      BY DEF First
    <3> QED BY <2>2, <3>1, <3>2 DEF Lookahead
  <2>4. Item(p.head, p.body, 0, {l}) \in ItemsOver(g.productions)
    BY <1>1, <2>3
  <2> QED BY <2>1, <2>4 DEF Marked
<1> QED BY <1>2, <1>3, <1>4

\* The valid items are what must be in every set that has them.
LEMMA ValidIsLeast ==
  ASSUME NEW g, Wellformed(g), Whole(g)
  PROVE  /\ Valid(g) \subseteq Marked(g) /\ HasValid(g, Valid(g))
         /\ \A Q \in SUBSET Valid(g) : HasValid(g, Q) => Q = Valid(g)
<1>1. Valid(g) \subseteq Marked(g)
  BY DEF Valid
<1>2. StartsIn(g, Valid(g))
  BY MarkedHas DEF Valid, HasValid, StartsIn
<1>3. PredictsIn(g, Valid(g))
  <2> SUFFICES ASSUME NEW v \in Valid(g), NEW p \in g.productions, NEW l \in FollowOfDot(g, v[2]),
                      ~ Completed(v[2]), UnderDot(v[2]) = p.head
               PROVE  <<v[1], Item(p.head, p.body, 0, {l})>> \in Valid(g)
    BY DEF PredictsIn
  <2>1. <<v[1], Item(p.head, p.body, 0, {l})>> \in Marked(g)
    BY <1>1, MarkedHas
  <2>2. ASSUME NEW Q \in SUBSET Marked(g), HasValid(g, Q) PROVE <<v[1], Item(p.head, p.body, 0, {l})>> \in Q
    <3>1. v \in Q
      BY <2>2 DEF Valid
    <3> QED BY <2>2, <3>1 DEF HasValid, PredictsIn
  <2> QED BY <2>1, <2>2 DEF Valid
<1>4. GoesIn(Valid(g))
  <2> SUFFICES ASSUME NEW v \in Valid(g), ~ Completed(v[2]) PROVE <<v[1] \o <<UnderDot(v[2])>>, Go(v[2])>> \in Valid(g)
    BY DEF GoesIn
  <2>1. <<v[1] \o <<UnderDot(v[2])>>, Go(v[2])>> \in Marked(g)
    BY <1>1, MarkedHas
  <2>2. ASSUME NEW Q \in SUBSET Marked(g), HasValid(g, Q) PROVE <<v[1] \o <<UnderDot(v[2])>>, Go(v[2])>> \in Q
    <3>1. v \in Q
      BY <2>2 DEF Valid
    <3> QED BY <2>2, <3>1 DEF HasValid, GoesIn
  <2> QED BY <2>1, <2>2 DEF Valid
<1>5. ASSUME NEW Q \in SUBSET Valid(g), HasValid(g, Q) PROVE Q = Valid(g)
  <2>1. Q \in SUBSET Marked(g)
    BY <1>1
  <2> QED BY <1>5, <2>1 DEF Valid
<1> QED BY <1>1, <1>2, <1>3, <1>4, <1>5 DEF HasValid

\* A set of valid items that has those that must be in it has all.
LEMMA ValidInduction ==
  ASSUME NEW g, Wellformed(g), Whole(g), NEW Q \in SUBSET Valid(g),
         \A p \in g.productions : p.head = g.start => << <<>>, Item(p.head, p.body, 0, {EndMarker})>> \in Q,
         \A v \in Valid(g) : \A p \in g.productions : \A l \in FollowOfDot(g, v[2]) :
           v \in Q /\ ~ Completed(v[2]) /\ UnderDot(v[2]) = p.head => <<v[1], Item(p.head, p.body, 0, {l})>> \in Q,
         \A v \in Valid(g) : v \in Q /\ ~ Completed(v[2]) => <<v[1] \o <<UnderDot(v[2])>>, Go(v[2])>> \in Q
  PROVE  Valid(g) = Q
<1>1. StartsIn(g, Q)
  BY DEF StartsIn
<1>2. PredictsIn(g, Q)
  BY DEF PredictsIn
<1>3. GoesIn(Q)
  BY DEF GoesIn
<1> QED BY <1>1, <1>2, <1>3, ValidIsLeast DEF HasValid

\* The parts of a valid item.
LEMMA ValidParts ==
  ASSUME NEW g, Wellformed(g), Whole(g), NEW v \in Valid(g)
  PROVE  v = <<v[1], v[2]>> /\ v[1] \in Seq(GrammarSymbol) /\ v[2] \in ItemsOver(g.productions)
BY ValidIsLeast DEF Marked

\* What a valid item can be met with, one that is no prediction can.
FromKernel(g, Xs, l) == \E v \in Valid(g) : v[1] = Xs /\ v[2].dot # 0 /\ l \in After(g, v[2])

\* What can come after a valid item behind some symbols can come after one whose dot has moved.
LEMMA ValidKernel ==
  ASSUME NEW g, Wellformed(g), Whole(g)
  PROVE  \A v \in Valid(g) : v[1] # <<>> => \A l \in After(g, v[2]) : FromKernel(g, v[1], l)
<1> DEFINE Q == {v \in Valid(g) : v[1] # <<>> => \A l \in After(g, v[2]) : FromKernel(g, v[1], l)}
<1>0. HasValid(g, Valid(g))
  BY ValidIsLeast
<1>1. ASSUME NEW p \in g.productions, p.head = g.start PROVE << <<>>, Item(p.head, p.body, 0, {EndMarker})>> \in Q
  BY <1>0, <1>1 DEF HasValid, StartsIn
<1>2. ASSUME NEW v \in Valid(g), NEW p \in g.productions, NEW l \in FollowOfDot(g, v[2]),
             v \in Q, ~ Completed(v[2]), UnderDot(v[2]) = p.head
      PROVE  <<v[1], Item(p.head, p.body, 0, {l})>> \in Q
  <2>1. <<v[1], Item(p.head, p.body, 0, {l})>> \in Valid(g)
    BY <1>0, <1>2 DEF HasValid, PredictsIn
  <2>2. v[2] \in ItemsOver(g.productions)
    BY ValidParts
  <2>3. After(g, Item(p.head, p.body, 0, {l})) \subseteq After(g, v[2])
    BY <1>2, <2>2, AfterPredicted
  <2> QED BY <1>2, <2>1, <2>3
<1>3. ASSUME NEW v \in Valid(g), v \in Q, ~ Completed(v[2]) PROVE <<v[1] \o <<UnderDot(v[2])>>, Go(v[2])>> \in Q
  <2> DEFINE w == <<v[1] \o <<UnderDot(v[2])>>, Go(v[2])>>
  <2>1. w \in Valid(g)
    BY <1>0, <1>3 DEF HasValid, GoesIn
  <2>2. w[2].dot # 0
    <3>1. v[2] \in ItemsOver(g.productions)
      BY ValidParts
    <3>2. v[2].dot \in Nat /\ Go(v[2]) = Item(v[2].head, v[2].body, v[2].dot + 1, v[2].ahead)
      BY <1>3, <3>1, AtDot
    <3>3. Go(v[2]).dot = v[2].dot + 1
      BY <3>2 DEF Item
    <3> QED BY <3>2, <3>3
  <2> HIDE DEF w
  <2>3. w \in Q
    BY <2>1, <2>2 DEF FromKernel
  <2> QED BY <2>3 DEF w
<1>4. Valid(g) = Q
  <2> HIDE DEF Q
  <2>0. Q \in SUBSET Valid(g)
    BY DEF Q
  <2> QED BY <1>1, <1>2, <1>3, <2>0, ValidInduction
<1> QED BY <1>4

\* Before its dot was moved, such an item was valid too.
GoneFrom(g, v) == \E u \in Valid(g) : ~ Completed(u[2]) /\ v[1] = u[1] \o <<UnderDot(u[2])>> /\ v[2] = Go(u[2])

\* An item whose dot has moved was valid before.
LEMMA ValidGone ==
  ASSUME NEW g, Wellformed(g), Whole(g)
  PROVE  \A v \in Valid(g) : v[2].dot # 0 => GoneFrom(g, v)
<1> DEFINE Q == {v \in Valid(g) : v[2].dot # 0 => GoneFrom(g, v)}
<1>0. HasValid(g, Valid(g))
  BY ValidIsLeast
<1>1. ASSUME NEW p \in g.productions, p.head = g.start PROVE << <<>>, Item(p.head, p.body, 0, {EndMarker})>> \in Q
  BY <1>0, <1>1 DEF HasValid, StartsIn, Item
<1>2. ASSUME NEW v \in Valid(g), NEW p \in g.productions, NEW l \in FollowOfDot(g, v[2]),
             v \in Q, ~ Completed(v[2]), UnderDot(v[2]) = p.head
      PROVE  <<v[1], Item(p.head, p.body, 0, {l})>> \in Q
  <2>1. <<v[1], Item(p.head, p.body, 0, {l})>> \in Valid(g)
    BY <1>0, <1>2 DEF HasValid, PredictsIn
  <2> QED BY <2>1 DEF Item
<1>3. ASSUME NEW v \in Valid(g), v \in Q, ~ Completed(v[2]) PROVE <<v[1] \o <<UnderDot(v[2])>>, Go(v[2])>> \in Q
  <2>1. <<v[1] \o <<UnderDot(v[2])>>, Go(v[2])>> \in Valid(g)
    BY <1>0, <1>3 DEF HasValid, GoesIn
  <2>2. GoneFrom(g, <<v[1] \o <<UnderDot(v[2])>>, Go(v[2])>>)
    BY <1>3 DEF GoneFrom
  <2> QED BY <2>1, <2>2
<1>4. Valid(g) = Q
  <2> HIDE DEF Q
  <2>0. Q \in SUBSET Valid(g)
    BY DEF Q
  <2> QED BY <1>1, <1>2, <1>3, <2>0, ValidInduction
<1> QED BY <1>4

\* The lookahead symbols of valid items can follow their heads.
LEMMA ValidFollows ==
  ASSUME NEW g, Wellformed(g), Whole(g), g.start \in Heads(g.productions)
  PROVE  \A v \in Valid(g) : v[2].ahead \subseteq Follow(g, v[2].head)
<1> DEFINE Q == {v \in Valid(g) : v[2].ahead \subseteq Follow(g, v[2].head)}
<1>0. HasValid(g, Valid(g))
  BY ValidIsLeast
<1>1. ASSUME NEW p \in g.productions, p.head = g.start PROVE << <<>>, Item(p.head, p.body, 0, {EndMarker})>> \in Q
  <2>1. EndMarker \in Follow(g, p.head)
    BY <1>1, EndFollowsStart
  <2> QED BY <1>0, <1>1, <2>1 DEF HasValid, StartsIn, Item
<1>2. ASSUME NEW v \in Valid(g), NEW p \in g.productions, NEW l \in FollowOfDot(g, v[2]),
             v \in Q, ~ Completed(v[2]), UnderDot(v[2]) = p.head
      PROVE  <<v[1], Item(p.head, p.body, 0, {l})>> \in Q
  <2>1. <<v[1], Item(p.head, p.body, 0, {l})>> \in Valid(g)
    BY <1>0, <1>2 DEF HasValid, PredictsIn
  <2> DEFINE x == v[2]
             o == ProductionOf(x)
             i == x.dot + 1
  <2>2. x \in ItemsOver(g.productions)
    BY ValidParts
  <2>3. o \in g.productions /\ o.body = x.body /\ o.head = x.head /\ x.body \in Seq(GrammarSymbol)
    BY <2>2, ItemParts DEF ProductionOf
  <2>4. i \in 1 .. Len(x.body) /\ x.body[i] = p.head
    BY <1>2, <2>2, AtDot
  <2>5. i \in DOMAIN o.body /\ o.body[i] = p.head /\ p.head \in Heads(g.productions)
    BY <2>3, <2>4 DEF Heads
  <2>6. l \in First(g, Rest(o.body, i)) \/ (Nullable(g, Rest(o.body, i)) /\ l \in x.ahead)
    BY <2>3 DEF FollowOfDot
  <2>7. x.ahead \subseteq Follow(g, o.head)
    BY <1>2, <2>3
  <2> HIDE DEF x, o, i
  <2>8. /\ First(g, Rest(o.body, i)) \subseteq Follow(g, p.head)
        /\ Nullable(g, Rest(o.body, i)) => Follow(g, o.head) \subseteq Follow(g, p.head)
    BY <2>3, <2>5, FollowHas
  <2>9. l \in Follow(g, p.head)
    BY <2>6, <2>7, <2>8
  <2> QED BY <2>1, <2>9 DEF Item
<1>3. ASSUME NEW v \in Valid(g), v \in Q, ~ Completed(v[2]) PROVE <<v[1] \o <<UnderDot(v[2])>>, Go(v[2])>> \in Q
  <2>1. <<v[1] \o <<UnderDot(v[2])>>, Go(v[2])>> \in Valid(g)
    BY <1>0, <1>3 DEF HasValid, GoesIn
  <2>2. v[2] \in ItemsOver(g.productions)
    BY ValidParts
  <2>3. Go(v[2]).head = v[2].head /\ Go(v[2]).ahead = v[2].ahead
    <3>1. Go(v[2]) = Item(v[2].head, v[2].body, v[2].dot + 1, v[2].ahead)
      BY <1>3, <2>2, AtDot
    <3> QED BY <3>1 DEF Item
  <2> QED BY <1>3, <2>1, <2>3
<1>4. Valid(g) = Q
  <2> HIDE DEF Q
  <2>0. Q \in SUBSET Valid(g)
    BY DEF Q
  <2> QED BY <1>1, <1>2, <1>3, <2>0, ValidInduction
<1> QED BY <1>4

\* The dot goes over the whole body.
LEMMA ValidOverBody ==
  ASSUME NEW g, Wellformed(g), Whole(g), NEW p \in g.productions, NEW Xs \in Seq(GrammarSymbol), NEW l,
         <<Xs, Item(p.head, p.body, 0, {l})>> \in Valid(g)
  PROVE  <<Xs \o p.body, Item(p.head, p.body, Len(p.body), {l})>> \in Valid(g)
<1> DEFINE body == p.body
           At(m) == <<Xs \o SubSeq(body, 1, m), Item(p.head, body, m, {l})>>
           Q == {m \in Nat : m <= Len(body) => At(m) \in Valid(g)}
<1>0. body \in Seq(GrammarSymbol) /\ Len(body) \in Nat
  BY DEF Whole, Typed
<1>1. 0 \in Q
  <2>1. SubSeq(body, 1, 0) = <<>>
    BY <1>0
  <2>2. Xs \o <<>> = Xs
    OBVIOUS
  <2> QED BY <2>1, <2>2
<1>2. ASSUME NEW m \in Nat, m \in Q PROVE m + 1 \in Q
  <2> SUFFICES ASSUME m + 1 <= Len(body) PROVE At(m + 1) \in Valid(g)
    OBVIOUS
  <2> DEFINE x == Item(p.head, body, m, {l})
             f == SubSeq(body, 1, m)
  <2>1. m + 1 \in 1 .. Len(body) /\ (m + 1) - 1 = m /\ m # Len(body) /\ m <= Len(body)
    BY <1>0
  <2>2. <<Xs \o f, x>> \in Valid(g)
    BY <1>2, <2>1
  <2>3. ~ Completed(x) /\ UnderDot(x) = body[m + 1] /\ Go(x) = Item(p.head, body, m + 1, {l})
    <3> HIDE DEF body
    <3>1. x.dot = m /\ x.body = body
      BY DEF Item
    <3>2. ~ Completed(x) /\ UnderDot(x) = body[m + 1]
      BY <3>1, <2>1 DEF Completed, UnderDot
    <3>3. x.head = p.head /\ x.ahead = {l}
      BY DEF Item
    <3>4. x \in ItemsOver(g.productions)
      <4> DEFINE v == <<Xs \o f, x>>
      <4>1. v \in Valid(g) /\ v[2] = x
        BY <2>2
      <4> HIDE DEF v
      <4> QED BY <4>1, ValidParts
    <3> HIDE DEF x
    <3>5. Go(x) = Item(x.head, x.body, x.dot + 1, x.ahead)
      BY <3>2, <3>4, AtDot
    <3> QED BY <3>1, <3>2, <3>3, <3>5
  <2>4. <<(Xs \o f) \o <<body[m + 1]>>, Item(p.head, body, m + 1, {l})>> \in Valid(g)
    <3> DEFINE v == <<Xs \o f, x>>
    <3>1. GoesIn(Valid(g))
      BY ValidIsLeast DEF HasValid
    <3>2. v \in Valid(g) /\ v[1] = Xs \o f /\ v[2] = x
      BY <2>2
    <3> HIDE DEF v, x, f
    <3>3. ~ Completed(v[2])
      BY <2>3, <3>2
    <3>4. <<v[1] \o <<UnderDot(v[2])>>, Go(v[2])>> \in Valid(g)
      BY <3>1, <3>2, <3>3 DEF GoesIn
    <3>5. UnderDot(v[2]) = body[m + 1] /\ Go(v[2]) = Item(p.head, body, m + 1, {l})
      BY <2>3, <3>2
    <3> QED BY <3>2, <3>4, <3>5
  <2>5. /\ (m + 1) - 1 \in 0 .. Len(body) /\ body[m + 1] \in GrammarSymbol /\ SubSeq(body, 1, (m + 1) - 1) \in Seq(GrammarSymbol)
        /\ SubSeq(body, 1, m + 1) = SubSeq(body, 1, (m + 1) - 1) \o <<body[m + 1]>>
    <3> HIDE DEF body
    <3> QED BY <1>0, <2>1, OneMore
  <2>6. f \in Seq(GrammarSymbol) /\ <<body[m + 1]>> \in Seq(GrammarSymbol) /\ SubSeq(body, 1, m + 1) = f \o <<body[m + 1]>>
    BY <2>1, <2>5
  <2>7. Xs \o (f \o <<body[m + 1]>>) = (Xs \o f) \o <<body[m + 1]>>
    <3> HIDE DEF f, body
    <3> QED BY <2>6, ConcatAssociative
  <2> QED BY <2>4, <2>6, <2>7
<1>3. Nat \subseteq Q
  <2> HIDE DEF Q
  <2> QED BY <1>1, <1>2, InductionOnNat
<1>4. At(Len(body)) \in Valid(g)
  <2>1. Len(body) \in Q /\ Len(body) <= Len(body)
    <3> HIDE DEF Q, body
    <3> QED BY <1>0, <1>3
  <2> HIDE DEF At
  <2> QED BY <2>1
<1>5. SubSeq(body, 1, Len(body)) = body
  <2>1. Rest(body, 0) = body
    BY <1>0, AllOfBody
  <2> QED BY <2>1 DEF Rest
<1> QED BY <1>4, <1>5

-----------------------------------------------------------------------------
(* From where a parse can come to its end.                                 *)

\* Symbols of trees and a word to read: the start symbol when all is read, and what becomes
\* such by one reduction or one shift.
Configurations == Seq(GrammarSymbol) \X Seq(Terminal)
Final(G) == << <<G.start>>, <<>> >>
Unreduces(G, Q) ==
  \A Xs \in Seq(GrammarSymbol), r \in Seq(Terminal), p \in G.productions :
    <<Xs \o <<p.head>>, r>> \in Q => <<Xs \o p.body, r>> \in Q
Unshifts(Q) ==
  \A Xs \in Seq(GrammarSymbol), r \in Seq(Terminal), a \in Terminal :
    <<Xs \o <<a>>, r>> \in Q => <<Xs, <<a>> \o r>> \in Q
HasParsable(G, Q) == Final(G) \in Q /\ Unreduces(G, Q) /\ Unshifts(Q)
Parsable(G) == {c \in Configurations : \A Q \in SUBSET Configurations : HasParsable(G, Q) => c \in Q}

\* It has what it is made of, and nothing else.
LEMMA ParsableIsLeast ==
  ASSUME NEW G, Typed(G.productions), G.start \in NonTerminal
  PROVE  /\ Parsable(G) \subseteq Configurations /\ HasParsable(G, Parsable(G))
         /\ \A Q \in SUBSET Configurations : HasParsable(G, Q) => Parsable(G) \subseteq Q
<1>1. Parsable(G) \subseteq Configurations
  BY DEF Parsable
<1>2. Final(G) \in Parsable(G)
  <2>1. Final(G) \in Configurations
    <3>1. G.start \in GrammarSymbol
      BY DEF GrammarSymbol
    <3>2. <<G.start>> \in Seq(GrammarSymbol) /\ <<>> \in Seq(Terminal)
      BY <3>1
    <3> QED BY <3>2 DEF Final, Configurations
  <2> QED BY <2>1 DEF Parsable, HasParsable
<1>3. Unreduces(G, Parsable(G))
  <2> SUFFICES ASSUME NEW Xs \in Seq(GrammarSymbol), NEW r \in Seq(Terminal), NEW p \in G.productions,
                      <<Xs \o <<p.head>>, r>> \in Parsable(G)
               PROVE  <<Xs \o p.body, r>> \in Parsable(G)
    BY DEF Unreduces
  <2>1. <<Xs \o p.body, r>> \in Configurations
    <3>1. p.body \in Seq(GrammarSymbol)
      BY DEF Typed
    <3>2. Xs \o p.body \in Seq(GrammarSymbol)
      BY <3>1
    <3> QED BY <3>2 DEF Configurations
  <2>2. ASSUME NEW Q \in SUBSET Configurations, HasParsable(G, Q) PROVE <<Xs \o p.body, r>> \in Q
    <3>1. <<Xs \o <<p.head>>, r>> \in Q
      BY <2>2 DEF Parsable
    <3> QED BY <2>2, <3>1 DEF HasParsable, Unreduces
  <2> QED BY <2>1, <2>2 DEF Parsable
<1>4. Unshifts(Parsable(G))
  <2> SUFFICES ASSUME NEW Xs \in Seq(GrammarSymbol), NEW r \in Seq(Terminal), NEW a \in Terminal,
                      <<Xs \o <<a>>, r>> \in Parsable(G)
               PROVE  <<Xs, <<a>> \o r>> \in Parsable(G)
    BY DEF Unshifts
  <2>1. <<Xs, <<a>> \o r>> \in Configurations
    <3>1. <<a>> \o r \in Seq(Terminal)
      OBVIOUS
    <3> QED BY <3>1 DEF Configurations
  <2>2. ASSUME NEW Q \in SUBSET Configurations, HasParsable(G, Q) PROVE <<Xs, <<a>> \o r>> \in Q
    <3>1. <<Xs \o <<a>>, r>> \in Q
      BY <2>2 DEF Parsable
    <3> QED BY <2>2, <3>1 DEF HasParsable, Unshifts
  <2> QED BY <2>1, <2>2 DEF Parsable
<1>5. ASSUME NEW Q \in SUBSET Configurations, HasParsable(G, Q) PROVE Parsable(G) \subseteq Q
  BY <1>5 DEF Parsable
<1> QED BY <1>1, <1>2, <1>3, <1>4, <1>5 DEF HasParsable

\* The step that comes next.
MayReduce(G, c) ==
  \E Xs \in Seq(GrammarSymbol), p \in G.productions : c[1] = Xs \o p.body /\ <<Xs \o <<p.head>>, c[2]>> \in Parsable(G)
MayShift(G, c) ==
  \E r \in Seq(Terminal), a \in Terminal : c[2] = <<a>> \o r /\ <<c[1] \o <<a>>, r>> \in Parsable(G)

\* Each of them is final, or a reduction or a shift leads to another.
LEMMA ParsableSteps ==
  ASSUME NEW G, Typed(G.productions), G.start \in NonTerminal
  PROVE  \A c \in Parsable(G) : c = Final(G) \/ MayReduce(G, c) \/ MayShift(G, c)
<1> DEFINE Q == {c \in Parsable(G) : c = Final(G) \/ MayReduce(G, c) \/ MayShift(G, c)}
<1>0. Parsable(G) \subseteq Configurations /\ HasParsable(G, Parsable(G))
  BY ParsableIsLeast
<1>1. Final(G) \in Q
  BY <1>0 DEF HasParsable
<1>2. ASSUME NEW Xs \in Seq(GrammarSymbol), NEW r \in Seq(Terminal), NEW p \in G.productions, <<Xs \o <<p.head>>, r>> \in Q
      PROVE  <<Xs \o p.body, r>> \in Q
  <2> DEFINE c == <<Xs \o p.body, r>>
  <2>1. c \in Parsable(G) /\ c[1] = Xs \o p.body /\ c[2] = r
    BY <1>0, <1>2 DEF HasParsable, Unreduces
  <2> HIDE DEF c
  <2>2. MayReduce(G, c)
    BY <1>2, <2>1 DEF MayReduce
  <2>3. c \in Q
    BY <2>1, <2>2
  <2> QED BY <2>3 DEF c
<1>3. ASSUME NEW Xs \in Seq(GrammarSymbol), NEW r \in Seq(Terminal), NEW a \in Terminal, <<Xs \o <<a>>, r>> \in Q
      PROVE  <<Xs, <<a>> \o r>> \in Q
  <2> DEFINE c == <<Xs, <<a>> \o r>>
  <2>1. c \in Parsable(G) /\ c[1] = Xs /\ c[2] = <<a>> \o r
    BY <1>0, <1>3 DEF HasParsable, Unshifts
  <2> HIDE DEF c
  <2>2. MayShift(G, c)
    BY <1>3, <2>1 DEF MayShift
  <2>3. c \in Q
    BY <2>1, <2>2
  <2> QED BY <2>3 DEF c
<1>4. Q \in SUBSET Configurations
  BY <1>0
<1> HIDE DEF Q
<1>5. HasParsable(G, Q)
  BY <1>1, <1>2, <1>3 DEF HasParsable, Unreduces, Unshifts
<1>6. Parsable(G) \subseteq Q
  BY <1>4, <1>5, ParsableIsLeast
<1> QED BY <1>6 DEF Q

\* Where L has only words that can be read for a head.
ReadsHeads(G, L) ==
  \A A \in DOMAIN L : \A w \in L[A] : \A Xs \in Seq(GrammarSymbol), r \in Seq(Terminal) :
    <<Xs \o <<A>>, r>> \in Parsable(G) => <<Xs, w \o r>> \in Parsable(G)
ReadsBody(G, n, L, f) ==
  \A w \in BodyWords(n, L, f) : \A Xs \in Seq(GrammarSymbol), r \in Seq(Terminal) :
    <<Xs \o f, r>> \in Parsable(G) => <<Xs, w \o r>> \in Parsable(G)

\* The words of a body can be read, if those of its heads can.
LEMMA BodiesRead ==
  ASSUME NEW G, Typed(G.productions), G.start \in NonTerminal, NEW L, WordsOfHeads(L), NEW n \in Nat, ReadsHeads(G, L)
  PROVE  \A f \in Seq(GrammarSymbol) : ReadsBody(G, n, L, f)
<1> DEFINE Q == {f \in Seq(GrammarSymbol) : ReadsBody(G, n, L, f)}
<1>1. <<>> \in Q
  <2>0. <<>> \in Seq(GrammarSymbol)
    OBVIOUS
  <2> SUFFICES ReadsBody(G, n, L, <<>>)
    BY <2>0
  <2> SUFFICES ASSUME NEW w \in BodyWords(n, L, <<>>), NEW Xs \in Seq(GrammarSymbol), NEW r \in Seq(Terminal),
                      <<Xs \o <<>>, r>> \in Parsable(G)
               PROVE  <<Xs, w \o r>> \in Parsable(G)
    BY DEF ReadsBody
  <2>1. w = <<>>
    BY BodyOfNothing
  <2>2. Xs \o <<>> = Xs /\ w \o r = r
    BY <2>1
  <2> QED BY <2>2
<1>2. ASSUME NEW X \in GrammarSymbol, NEW f \in Seq(GrammarSymbol), f \in Q PROVE <<X>> \o f \in Q
  <2> SUFFICES ASSUME NEW w \in BodyWords(n, L, <<X>> \o f), NEW Xs \in Seq(GrammarSymbol), NEW r \in Seq(Terminal),
                      <<Xs \o (<<X>> \o f), r>> \in Parsable(G)
               PROVE  <<Xs, w \o r>> \in Parsable(G)
    <3>1. <<X>> \o f \in Seq(GrammarSymbol)
      OBVIOUS
    <3> QED BY <3>1 DEF ReadsBody
  <2>1. PICK u \in SymbolWords(L, X), v \in BodyWords(n, L, f) : w = u \o v /\ Len(w) <= n
    BY BodyTakenApart
  <2>2. u \in Seq(Terminal) /\ v \in Seq(Terminal)
    <3>1. SymbolWords(L, X) \subseteq Seq(Terminal)
      BY SymbolWordsTyped
    <3>2. BodyWords(n, L, f) \in SUBSET Seq(Terminal)
      BY BodyWordsTyped
    <3> QED BY <3>1, <3>2
  <2>3. <<X>> \in Seq(GrammarSymbol) /\ Xs \o <<X>> \in Seq(GrammarSymbol) /\ Xs \o (<<X>> \o f) = (Xs \o <<X>>) \o f
    <3>1. <<X>> \in Seq(GrammarSymbol)
      OBVIOUS
    <3> QED BY <3>1, ConcatAssociative
  <2>4. <<Xs \o <<X>>, v \o r>> \in Parsable(G)
    <3>1. <<(Xs \o <<X>>) \o f, r>> \in Parsable(G)
      BY <2>3
    <3>2. ReadsBody(G, n, L, f)
      BY <1>2
    <3> QED BY <2>3, <3>1, <3>2 DEF ReadsBody
  <2>5. v \o r \in Seq(Terminal) /\ w \o r = u \o (v \o r)
    <3>1. v \o r \in Seq(Terminal)
      BY <2>2
    <3>2. u \o (v \o r) = (u \o v) \o r
      BY <2>2, ThreeWords
    <3> QED BY <2>1, <3>1, <3>2
  <2>6. <<Xs, u \o (v \o r)>> \in Parsable(G)
    <3>1. CASE X \in Terminal
      <4>1. u = <<X>>
        BY <3>1 DEF SymbolWords
      <4>2. Unshifts(Parsable(G))
        BY ParsableIsLeast DEF HasParsable
      <4>3. <<Xs, <<X>> \o (v \o r)>> \in Parsable(G)
        BY <2>4, <2>5, <3>1, <4>2 DEF Unshifts
      <4> QED BY <4>1, <4>3
    <3>2. CASE X \notin Terminal
      <4>1. X \in DOMAIN L /\ u \in L[X]
        BY <3>2 DEF SymbolWords
      <4> QED BY <2>4, <2>5, <4>1 DEF ReadsHeads
    <3> QED BY <3>1, <3>2
  <2> QED BY <2>5, <2>6
<1>3. Seq(GrammarSymbol) \subseteq Q
  <2> HIDE DEF Q
  <2> QED BY <1>1, <1>2, FromTheFront
<1> QED BY <1>3

\* Where a head stands, its words can be read.
LEMMA HeadsRead ==
  ASSUME NEW G, Typed(G.productions), G.start \in NonTerminal, NEW n \in Nat
  PROVE  \A h \in Nat : ReadsHeads(G, WordsByHeight(G, n)[h])
<1> DEFINE W == WordsByHeight(G, n)
           Q == {h \in Nat : ReadsHeads(G, W[h])}
<1>0. /\ \A h \in Nat : WordsOfHeads(W[h]) /\ DOMAIN W[h] = Heads(G.productions)
      /\ \A A \in Heads(G.productions) : W[0][A] = {}
      /\ \A h \in Nat : W[h + 1] = Higher(n, G, W[h])
  BY WordsByHeightUnfold DEF IsByHeight
<1> HIDE DEF W
<1>1. 0 \in Q
  BY <1>0 DEF ReadsHeads
<1>2. ASSUME NEW h \in Nat, h \in Q PROVE h + 1 \in Q
  <2> SUFFICES ReadsHeads(G, W[h + 1])
    OBVIOUS
  <2>0. DOMAIN W[h + 1] = Heads(G.productions)
    BY <1>0
  <2> SUFFICES ASSUME NEW A \in Heads(G.productions), NEW w \in W[h + 1][A],
                      NEW Xs \in Seq(GrammarSymbol), NEW r \in Seq(Terminal), <<Xs \o <<A>>, r>> \in Parsable(G)
               PROVE  <<Xs, w \o r>> \in Parsable(G)
    BY <2>0 DEF ReadsHeads
  <2>1. W[h + 1][A] = UNION {BodyWords(n, W[h], body) : body \in Bodies(G.productions, A)}
    BY <1>0 DEF Higher
  <2>2. PICK body \in Bodies(G.productions, A) : w \in BodyWords(n, W[h], body)
    BY <2>1
  <2>3. PICK p \in G.productions : p.head = A /\ p.body = body
    BY DEF Bodies
  <2>4. body \in Seq(GrammarSymbol)
    BY <2>3 DEF Typed
  <2>5. <<Xs \o body, r>> \in Parsable(G)
    <3>1. Unreduces(G, Parsable(G))
      BY ParsableIsLeast DEF HasParsable
    <3> QED BY <2>3, <3>1 DEF Unreduces
  <2>6. ReadsBody(G, n, W[h], body)
    BY <1>0, <1>2, <2>4, BodiesRead
  <2> QED BY <2>2, <2>5, <2>6 DEF ReadsBody
<1>3. Nat \subseteq Q
  <2> HIDE DEF Q
  <2> QED BY <1>1, <1>2, InductionOnNat
<1> QED BY <1>3 DEF W

\* A word of the grammar can be parsed from the first symbol on.
LEMMA WordsParsable ==
  ASSUME NEW G, Typed(G.productions), IsFiniteSet(Heads(G.productions)), G.start \in Heads(G.productions), NEW n \in Nat,
         NEW w \in DerivedWords(G, n)[G.start]
  PROVE  << <<>>, w>> \in Parsable(G)
<1> DEFINE h == (n + 1) * Cardinality(Heads(G.productions))
<1>1. h \in Nat
  <2>1. Cardinality(Heads(G.productions)) \in Nat
    BY FS_CardinalityType
  <2> QED BY <2>1
<1>2. w \in WordsByHeight(G, n)[h][G.start]
  BY DEF DerivedWords
<1> HIDE DEF h
<1>3. G.start \in NonTerminal
  BY DEF Heads, Typed
<1>4. ReadsHeads(G, WordsByHeight(G, n)[h])
  BY <1>1, <1>3, HeadsRead
<1>5. WordsOfHeads(WordsByHeight(G, n)[h]) /\ DOMAIN WordsByHeight(G, n)[h] = Heads(G.productions)
  BY <1>1, WordsByHeightUnfold DEF IsByHeight
<1>6. w \in Seq(Terminal)
  BY <1>2, <1>5 DEF WordsOfHeads
<1>7. << <<>> \o <<G.start>>, <<>> >> \in Parsable(G)
  <2>1. <<>> \o <<G.start>> = <<G.start>>
    OBVIOUS
  <2> QED BY <1>3, <2>1, ParsableIsLeast DEF HasParsable, Final
<1>8. << <<>>, w \o <<>> >> \in Parsable(G)
  <2>1. <<>> \in Seq(GrammarSymbol) /\ <<>> \in Seq(Terminal)
    OBVIOUS
  <2> QED BY <2>1, <1>2, <1>4, <1>5, <1>7 DEF ReadsHeads
<1>9. w \o <<>> = w
  BY <1>6
<1> QED BY <1>8, <1>9

\* The grammar of a kind, in which nothing is missing.
LEMMA NormalizedWhole ==
  ASSUME NEW i \in DOMAIN Grammars, NEW G, G = Grammars[i], NEW kind, NEW g, g = Normalized(G, kind)
  PROVE  /\ Wellformed(g) /\ Whole(g) /\ g.start \in Heads(g.productions) /\ G.productions \subseteq g.productions
         /\ IF kind = "DCFG" THEN g = G
            ELSE g.start = StartSymbol /\ [head |-> StartSymbol, body |-> <<G.start>>] \in g.productions
<1>1. /\ Wellformed(g) /\ G.start \in Heads(G.productions)
      /\ kind # "DCFG" => g.start = StartSymbol /\ [head |-> StartSymbol, body |-> <<G.start>>] \in g.productions
  BY NormalizedRight
<1>2. /\ Typed(G.productions) /\ Terminal \cap NonTerminal = {}
      /\ \A p \in G.productions : NonTerminalsOf(p.body) \subseteq InUse(G.productions)
      /\ InUse(G.productions) = Heads(G.productions)
  BY GrammarParts
<1>3. \A p \in G.productions : NonTerminalsOf(p.body) \subseteq Heads(G.productions)
  BY <1>2
<1>4. CASE kind = "DCFG"
  <2>1. g = G
    BY <1>4 DEF Normalized
  <2> QED BY <1>1, <1>3, <1>4, <2>1 DEF Whole, NoneMissing, Wellformed
<1>5. CASE kind # "DCFG"
  <2> DEFINE o == [head |-> StartSymbol, body |-> <<G.start>>]
  <2>1. g.productions = G.productions \cup {o} /\ g.start = StartSymbol
    BY <1>5 DEF Normalized, Grammar, Rules
  <2>3. NonTerminalsOf(o.body) \subseteq Heads(G.productions) /\ o.head = StartSymbol
    BY <1>1 DEF NonTerminalsOf, SymbolsOf
  <2> HIDE DEF o
  <2>2. Heads(G.productions) \subseteq Heads(g.productions) /\ StartSymbol \in Heads(g.productions)
    BY <2>1, <2>3 DEF Heads
  <2>4. \A p \in g.productions : NonTerminalsOf(p.body) \subseteq Heads(g.productions)
    BY <1>3, <2>1, <2>2, <2>3
  <2>5. Whole(g)
    BY <1>1, <2>4 DEF Whole, NoneMissing, Wellformed
  <2> QED BY <1>1, <1>5, <2>1, <2>2, <2>5
<1> QED BY <1>4, <1>5

\* The symbol that is read next.
NextOf(r) == IF r = <<>> THEN EndMarker ELSE r[1]

\* Some valid item can be met with l behind these symbols.
Met(g, Xs, l) == \E v \in Valid(g) : v[1] = Xs /\ l \in After(g, v[2])

\* The last of the symbols is under the dot of a valid item.
LastUnderDot(g, Xs, X, l) ==
  \E u \in Valid(g) : u[1] = Xs /\ ~ Completed(u[2]) /\ UnderDot(u[2]) = X /\ l \in FollowOfDot(g, u[2])

\* What can be met behind some symbols can be met behind the last of them.
LEMMA MetBehind ==
  ASSUME NEW g, Wellformed(g), Whole(g), NEW Xs \in Seq(GrammarSymbol), NEW X \in GrammarSymbol, NEW l, Met(g, Xs \o <<X>>, l)
  PROVE  LastUnderDot(g, Xs, X, l)
<1>1. Xs \o <<X>> # <<>>
  OBVIOUS
<1>2. FromKernel(g, Xs \o <<X>>, l)
  BY <1>1, ValidKernel DEF Met
<1>3. PICK v \in Valid(g) : v[1] = Xs \o <<X>> /\ v[2].dot # 0 /\ l \in After(g, v[2])
  BY <1>2 DEF FromKernel
<1>4. PICK u \in Valid(g) : ~ Completed(u[2]) /\ v[1] = u[1] \o <<UnderDot(u[2])>> /\ v[2] = Go(u[2])
  BY <1>3, ValidGone DEF GoneFrom
<1>5. u[1] \in Seq(GrammarSymbol) /\ u[2] \in ItemsOver(g.productions)
  BY ValidParts
<1>6. UnderDot(u[2]) \in GrammarSymbol
  BY <1>4, <1>5, AtDot
<1>7. u[1] = Xs /\ UnderDot(u[2]) = X
  <2> DEFINE Y == UnderDot(u[2])
             Ys == u[1]
  <2>1. Ys \in Seq(GrammarSymbol) /\ Y \in GrammarSymbol /\ Xs \o <<X>> = Ys \o <<Y>>
    BY <1>3, <1>4, <1>5, <1>6
  <2> HIDE DEF Y, Ys
  <2>2. Ys = Xs /\ Y = X
    <3>1. Append(Xs, X) = Append(Ys, Y)
      BY <2>1
    <3> QED BY <2>1, <3>1, AppendInjective
  <2> QED BY <2>2 DEF Y, Ys
<1>8. l \in FollowOfDot(g, u[2])
  BY <1>3, <1>4, <1>5, FollowIsAfter
<1> QED BY <1>4, <1>7, <1>8 DEF LastUnderDot

\* The item of a production, completed, with l.
DoneItem(p, l) == Item(p.head, p.body, Len(p.body), {l})

\* What can come after a completed item are its lookahead symbols.
LEMMA DoneItemMet ==
  ASSUME NEW g, Whole(g), NEW p \in g.productions, NEW Xs, NEW l, <<Xs, DoneItem(p, l)>> \in Valid(g)
  PROVE  Met(g, Xs, l)
<1>1. p.body \in Seq(GrammarSymbol)
  BY DEF Whole, Typed
<1>2. Rest(p.body, Len(p.body)) = <<>>
  BY <1>1, AllOfBody
<1>3. Nullable(g, <<>>)
  BY DEF Nullable, SymbolsOf
<1>4. l \in After(g, DoneItem(p, l))
  BY <1>2, <1>3 DEF After, DoneItem, Item
<1> QED BY <1>4 DEF Met

\* Behind the final configuration, or where a valid item can be met, the item of a head on the top
\* is valid for its body.
LEMMA HeadHasItem ==
  ASSUME NEW i \in DOMAIN Grammars, NEW G, G = Grammars[i], NEW kind, NEW g, g = Normalized(G, kind),
         NEW Xs \in Seq(GrammarSymbol), NEW p \in G.productions, NEW r \in Seq(Terminal),
         <<Xs \o <<p.head>>, r>> = Final(G) \/ Met(g, Xs \o <<p.head>>, NextOf(r))
  PROVE  <<Xs \o p.body, DoneItem(p, NextOf(r))>> \in Valid(g)
<1>1. /\ Wellformed(g) /\ Whole(g) /\ g.start \in Heads(g.productions) /\ p \in g.productions
      /\ IF kind = "DCFG" THEN g = G
         ELSE g.start = StartSymbol /\ [head |-> StartSymbol, body |-> <<G.start>>] \in g.productions
  BY NormalizedWhole
<1>2. p.head \in GrammarSymbol /\ HasValid(g, Valid(g))
  BY <1>1, ValidIsLeast DEF Whole, Typed, GrammarSymbol
<1>3. <<Xs, Item(p.head, p.body, 0, {NextOf(r)})>> \in Valid(g)
  <2>1. CASE <<Xs \o <<p.head>>, r>> = Final(G)
    <3>1. Xs \o <<p.head>> = <<G.start>> /\ r = <<>>
      BY <2>1 DEF Final
    <3>2. Xs = <<>> /\ p.head = G.start
      <4>1. G.start \in GrammarSymbol
        BY GrammarParts DEF GrammarSymbol
      <4>2. Append(<<>>, G.start) = <<G.start>> /\ Append(Xs, p.head) = Xs \o <<p.head>>
        BY <1>2
      <4>3. Append(Xs, p.head) = Append(<<>>, G.start)
        BY <3>1, <4>2
      <4>4. <<>> \in Seq(GrammarSymbol)
        OBVIOUS
      <4> DEFINE Zs == << >>
                 Y == p.head
                 Z == G.start
      <4>5. Xs \in Seq(GrammarSymbol) /\ Y \in GrammarSymbol /\ Zs \in Seq(GrammarSymbol) /\ Z \in GrammarSymbol
        BY <1>2, <4>1, <4>4
      <4>6. Append(Xs, Y) = Append(Zs, Z)
        BY <4>3
      <4> HIDE DEF Zs, Y, Z
      <4>7. Xs = Zs /\ Y = Z
        BY <4>5, <4>6, AppendInjective
      <4> QED BY <4>7 DEF Zs, Y, Z
    <3>3. NextOf(r) = EndMarker
      BY <3>1 DEF NextOf
    <3>4. CASE kind = "DCFG"
      BY <1>1, <1>2, <3>2, <3>3, <3>4 DEF HasValid, StartsIn
    <3>5. CASE kind # "DCFG"
      <4> DEFINE o == [head |-> StartSymbol, body |-> <<G.start>>]
                 x == Item(o.head, o.body, 0, {EndMarker})
                 v == << <<>>, x>>
      <4>1. o \in g.productions /\ o.head = g.start /\ o.body = <<G.start>>
        BY <1>1, <3>5
      <4>2. v \in Valid(g) /\ v[1] = <<>> /\ v[2] = x
        BY <1>2, <4>1 DEF HasValid, StartsIn
      <4>3. ~ Completed(x) /\ UnderDot(x) = G.start /\ Rest(x.body, x.dot + 1) = <<>> /\ x.ahead = {EndMarker}
        <5>1. x.body = <<G.start>> /\ x.dot = 0 /\ x.ahead = {EndMarker}
          BY DEF Item
        <5>2. Rest(<<G.start>>, 1) = <<>>
          <6>1. G.start \in GrammarSymbol
            BY <1>2, <3>2
          <6>2. <<G.start>> \in Seq(GrammarSymbol) /\ Len(<<G.start>>) = 1
            BY <6>1
          <6> QED BY <6>2, AllOfBody
        <5> HIDE DEF x
        <5> QED BY <5>1, <5>2 DEF Completed, UnderDot
      <4> HIDE DEF v, x, o
      <4>4. EndMarker \in FollowOfDot(g, x)
        <5>1. Nullable(g, <<>>)
          BY DEF Nullable, SymbolsOf
        <5>2. EndMarker \in x.ahead
          BY <4>3
        <5> QED BY <4>3, <5>1, <5>2 DEF FollowOfDot
      <4>5. <<v[1], Item(p.head, p.body, 0, {EndMarker})>> \in Valid(g)
        BY <1>1, <1>2, <3>2, <4>2, <4>3, <4>4 DEF HasValid, PredictsIn
      <4> QED BY <3>2, <3>3, <4>2, <4>5
    <3> QED BY <3>4, <3>5
  <2>2. CASE Met(g, Xs \o <<p.head>>, NextOf(r))
    <3>1. PICK u \in Valid(g) : u[1] = Xs /\ ~ Completed(u[2]) /\ UnderDot(u[2]) = p.head /\ NextOf(r) \in FollowOfDot(g, u[2])
      BY <1>1, <1>2, <2>2, MetBehind DEF LastUnderDot
    <3> QED BY <1>1, <1>2, <3>1 DEF HasValid, PredictsIn
  <2> QED BY <2>1, <2>2
<1> QED BY <1>1, <1>3, ValidOverBody DEF DoneItem

\* Behind a terminal nothing is at its end.
LEMMA TerminalNotStart ==
  ASSUME NEW X \in NonTerminal, NEW Xs \in Seq(GrammarSymbol), NEW a \in Terminal
  PROVE  Xs \o <<a>> # <<X>>
<1> SUFFICES ASSUME Xs \o <<a>> = <<X>> PROVE FALSE
  OBVIOUS
<1>1. a \in GrammarSymbol
  BY DEF GrammarSymbol
<1>2. (Xs \o <<a>>)[Len(Xs) + 1] = a /\ Len(Xs \o <<a>>) = Len(Xs) + 1 /\ Len(<<X>>) = 1 /\ Len(Xs) \in Nat
  BY <1>1
<1>3. Len(Xs) + 1 = 1
  BY <1>2
<1>4. <<X>>[1] = a
  BY <1>2, <1>3
<1> QED BY <1>4, SymbolsAssumption

\* From where a parse can come to its end, a valid item can be met.
LEMMA ParsableMet ==
  ASSUME NEW i \in DOMAIN Grammars, NEW G, G = Grammars[i], NEW kind, NEW g, g = Normalized(G, kind)
  PROVE  \A c \in Parsable(G) : c = Final(G) \/ Met(g, c[1], NextOf(c[2]))
<1> DEFINE Q == {c \in Configurations : c = Final(G) \/ Met(g, c[1], NextOf(c[2]))}
<1>0. /\ Wellformed(g) /\ Whole(g) /\ G.productions \subseteq g.productions
      /\ Typed(G.productions) /\ G.start \in NonTerminal /\ Terminal \cap NonTerminal = {}
  BY NormalizedWhole, GrammarParts
<1>1. Final(G) \in Q
  BY <1>0, ParsableIsLeast DEF HasParsable
<1>2. ASSUME NEW Xs \in Seq(GrammarSymbol), NEW r \in Seq(Terminal), NEW p \in G.productions, <<Xs \o <<p.head>>, r>> \in Q
      PROVE  <<Xs \o p.body, r>> \in Q
  <2>1. <<Xs \o <<p.head>>, r>> = Final(G) \/ Met(g, Xs \o <<p.head>>, NextOf(r))
    BY <1>2
  <2>2. <<Xs \o p.body, DoneItem(p, NextOf(r))>> \in Valid(g)
    BY <2>1, HeadHasItem
  <2>3. Met(g, Xs \o p.body, NextOf(r))
    BY <1>0, <2>2, DoneItemMet
  <2>4. <<Xs \o p.body, r>> \in Configurations
    <3>1. p.body \in Seq(GrammarSymbol)
      BY <1>0 DEF Typed
    <3>2. Xs \o p.body \in Seq(GrammarSymbol)
      BY <3>1
    <3> QED BY <3>2 DEF Configurations
  <2> QED BY <2>3, <2>4
<1>3. ASSUME NEW Xs \in Seq(GrammarSymbol), NEW r \in Seq(Terminal), NEW a \in Terminal, <<Xs \o <<a>>, r>> \in Q
      PROVE  <<Xs, <<a>> \o r>> \in Q
  <2>1. a \in GrammarSymbol
    BY DEF GrammarSymbol
  <2>2. <<Xs \o <<a>>, r>> # Final(G)
    <3>1. Xs \o <<a>> # <<G.start>>
      BY <1>0, TerminalNotStart
    <3> QED BY <3>1 DEF Final
  <2>3. Met(g, Xs \o <<a>>, NextOf(r))
    BY <1>3, <2>2
  <2>4. PICK u \in Valid(g) : u[1] = Xs /\ ~ Completed(u[2]) /\ UnderDot(u[2]) = a /\ NextOf(r) \in FollowOfDot(g, u[2])
    BY <1>0, <2>1, <2>3, MetBehind DEF LastUnderDot
  <2>5. a \in After(g, u[2])
    BY <1>0, <2>4, AfterOfTerminal, ValidParts
  <2>6. <<a>> \o r \in Seq(Terminal) /\ <<a>> \o r # <<>> /\ (<<a>> \o r)[1] = a
    OBVIOUS
  <2>7. Met(g, Xs, NextOf(<<a>> \o r))
    BY <2>4, <2>5, <2>6 DEF Met, NextOf
  <2> QED BY <2>6, <2>7 DEF Configurations
<1>4. Q \in SUBSET Configurations
  OBVIOUS
<1> HIDE DEF Q
<1>5. HasParsable(G, Q)
  BY <1>1, <1>2, <1>3 DEF HasParsable, Unreduces, Unshifts
<1>6. Parsable(G) \subseteq Q
  BY <1>0, <1>4, <1>5, ParsableIsLeast
<1> QED BY <1>6 DEF Q

-----------------------------------------------------------------------------
(* What is valid behind the symbols on a path of the tables is in its last *)
(* state.                                                                  *)

\* I has nothing, but for lookahead symbols, that J has not.
CoresIn(I, J) == \A x \in I : HasCore(J, x.head, x.body, x.dot)

\* Sets of items differ in their lookahead symbols only, if each has the cores of the other.
LEMMA SameCores ==
  ASSUME NEW I, NEW J
  PROVE  Core(I) = Core(J) <=> CoresIn(I, J) /\ CoresIn(J, I)
<1> DEFINE of(x) == [head |-> x.head, body |-> x.body, dot |-> x.dot]
<1>1. \A x, y : of(x) = of(y) <=> x.head = y.head /\ x.body = y.body /\ x.dot = y.dot
  OBVIOUS
<1>2. Core(I) = {of(x) : x \in I} /\ Core(J) = {of(x) : x \in J}
  BY DEF Core
<1>3. CoresIn(I, J) <=> \A x \in I : \E y \in J : of(y) = of(x)
  BY <1>1 DEF CoresIn, HasCore
<1>4. CoresIn(J, I) <=> \A x \in J : \E y \in I : of(y) = of(x)
  BY <1>1 DEF CoresIn, HasCore
<1> HIDE DEF of
<1> QED BY <1>2, <1>3, <1>4

\* Closures of sets with the same cores have the same cores.
LEMMA ClosureCores ==
  ASSUME NEW g, Wellformed(g), NEW kind, NEW one \in SUBSET ItemsOver(g.productions),
         NEW other \in SUBSET ItemsOver(g.productions), CoresIn(one, other)
  PROVE  CoresIn(Closure(g, kind, one), Closure(g, kind, other))
<1> DEFINE P == g.productions
           J == Closure(g, kind, other)
           Q == {x \in ItemsOver(P) : HasCore(J, x.head, x.body, x.dot)}
<1>1. IsFiniteSet(P)
  BY DEF Wellformed
<1>2. \A x \in ItemsOver(P) : Predicted(g, kind, x) \subseteq ItemsOver(P)
  BY PredictedFresh DEF Fresh
<1>3. other \subseteq J /\ J \subseteq ItemsOver(P)
  BY <1>1, <1>2, ClosureStaysIn
<1> HIDE DEF J
<1>4. one \subseteq Q
  BY <1>3 DEF CoresIn, HasCore
<1>5. ASSUME NEW x \in Q, NEW y \in Predicted(g, kind, x) PROVE y \in Q
  <2>1. /\ ~ Completed(x) /\ y.body \in Bodies(P, UnderDot(x))
        /\ y = Item(UnderDot(x), y.body, 0, AheadFrom(g, kind, x))
    BY <1>5, PredictedAre
  <2>2. y.head = UnderDot(x) /\ y.dot = 0
    BY <2>1 DEF Item
  <2>3. PICK p \in P : p.head = UnderDot(x) /\ p.body = y.body
    BY <2>1 DEF Bodies
  <2>4. PICK z \in J : z.head = x.head /\ z.body = x.body /\ z.dot = x.dot
    BY DEF HasCore
  <2>5. ~ Completed(z) /\ UnderDot(z) = p.head
    BY <2>1, <2>3, <2>4 DEF Completed, UnderDot
  <2>6. HasCore(J, p.head, p.body, 0)
    BY <2>5, ClosureHasPredictions DEF J
  <2>7. y \in ItemsOver(P)
    BY <1>2, <1>5
  <2> QED BY <2>2, <2>3, <2>6, <2>7
<1> HIDE DEF Q
<1>6. Closure(g, kind, one) \subseteq Q
  BY <1>1, <1>4, <1>5, ClosureStaysIn
<1> QED BY <1>6 DEF CoresIn, Q, J

\* So have the states they go to.
LEMMA GotoCores ==
  ASSUME NEW g, Wellformed(g), NEW kind, NEW I \in SUBSET ItemsOver(g.productions),
         NEW J \in SUBSET ItemsOver(g.productions), CoresIn(I, J), NEW X
  PROVE  CoresIn(Goto(g, kind, I, X), Goto(g, kind, J, X))
<1> DEFINE P == g.productions
<1>1. Gone(I, X) \subseteq ItemsOver(P) /\ Gone(J, X) \subseteq ItemsOver(P)
  BY GoneItems
<1>2. CoresIn(Gone(I, X), Gone(J, X))
  <2> SUFFICES ASSUME NEW y \in Gone(I, X) PROVE HasCore(Gone(J, X), y.head, y.body, y.dot)
    BY DEF CoresIn
  <2>1. PICK x \in I : ~ Completed(x) /\ UnderDot(x) = X /\ y = Go(x)
    BY DEF Gone
  <2>2. PICK z \in J : z.head = x.head /\ z.body = x.body /\ z.dot = x.dot
    BY DEF CoresIn, HasCore
  <2>3. ~ Completed(z) /\ UnderDot(z) = X
    BY <2>1, <2>2 DEF Completed, UnderDot
  <2>4. Go(z) \in Gone(J, X)
    BY <2>3 DEF Gone
  <2>5. Go(x) = Item(x.head, x.body, x.dot + 1, x.ahead)
    BY <2>1, AtDot
  <2>6. Go(z) = Item(z.head, z.body, z.dot + 1, z.ahead)
    BY <2>3, AtDot
  <2>7. Go(z).head = y.head /\ Go(z).body = y.body /\ Go(z).dot = y.dot
    BY <2>1, <2>2, <2>5, <2>6 DEF Item
  <2> QED BY <2>4, <2>7 DEF HasCore
<1>3. CoresIn(Closure(g, kind, Gone(I, X)), Closure(g, kind, Gone(J, X)))
  BY <1>1, <1>2, ClosureCores
<1> QED BY <1>3 DEF Goto, Gone

\* The tables of a kind of grammar, and the states of its DK automaton.
TablesHere(g, kind, tables, states) ==
  /\ kind \in Kinds /\ Wellformed(g) /\ IsWhole(g, kind, MaxSteps)
  /\ tables = TablesFor(g, kind, MaxSteps) /\ states = ReachedStates(g, kind, MaxSteps)

\* A state is the closure of some items.
IsClosureOver(g, kind, I) ==
  I \in SUBSET ItemsOver(g.productions) /\ \E items \in SUBSET ItemsOver(g.productions) : I = Closure(g, kind, items)
\* All states are, the transitions lead to states, and the start state has the first items.
LEMMA StatesClosed ==
  ASSUME NEW g, NEW kind, NEW tables, NEW states, TablesHere(g, kind, tables, states)
  PROVE  /\ \A I \in states : IsClosureOver(g, kind, I) /\ \A X \in GrammarSymbol : Goto(g, kind, I, X) \in states
         /\ Begun(g, kind) \subseteq StartState(g, kind)
<1> DEFINE Q == ItemsOver(g.productions)
<1>1. Wellformed(g) /\ states = ReachedStates(g, kind, MaxSteps) /\ MaxSteps \in Nat
  BY StepsAssumption DEF TablesHere
<1>2. Begun(g, kind) \subseteq Q /\ Begun(g, kind) \subseteq StartState(g, kind)
  BY <1>1, StartStateItems
<1>3. ASSUME NEW I \in states PROVE IsClosureOver(g, kind, I)
  <2>1. Holds(Q, g, kind)
    BY <1>1, ItemsHold
  <2>2. IsState(g, kind, Q, I)
    BY <1>1, <2>1, ReachedAreStates
  <2>3. I \in SUBSET Q
    BY <2>2 DEF IsState
  <2>4. CASE I = StartState(g, kind)
    <3>1. StartState(g, kind) = Closure(g, kind, Begun(g, kind))
      BY DEF StartState, Begun
    <3> QED BY <1>2, <2>3, <2>4, <3>1 DEF IsClosureOver
  <2>5. CASE I # StartState(g, kind)
    <3>1. PICK J \in SUBSET Q, X \in GrammarSymbol : I = Goto(g, kind, J, X)
      BY <2>2, <2>5 DEF IsState
    <3>2. Gone(J, X) \subseteq Q
      BY <3>1, GoneItems
    <3>3. I = Closure(g, kind, Gone(J, X))
      BY <3>1 DEF Goto, Gone
    <3> QED BY <2>3, <3>2, <3>3 DEF IsClosureOver
  <2> QED BY <2>4, <2>5
<1>4. \A I \in states, X \in GrammarSymbol : Goto(g, kind, I, X) \in states
  BY <1>1 DEF TablesHere, IsWhole
<1> QED BY <1>2, <1>3, <1>4

\* Of the states that n stands for, one has an item like x, with no fewer lookahead symbols if
\* the items of the kind have any.
HasLike(kind, I, x) ==
  \E y \in I : /\ y.head = x.head /\ y.body = x.body /\ y.dot = x.dot
               /\ WithAhead(kind) => x.ahead \subseteq y.ahead
Covered(tables, g, kind, states, n, x) ==
  \E I \in states : StandsFor(tables, g, kind, states, n, I) /\ HasLike(kind, I, x)

\* The states that one number stands for go to states that one number stands for.
LEMMA CollectedTogether ==
  ASSUME NEW g, NEW kind, NEW tables, NEW states, TablesHere(g, kind, tables, states),
         NEW n, NEW I, StandsFor(tables, g, kind, states, n, I), NEW J, StandsFor(tables, g, kind, states, n, J),
         NEW X \in GrammarSymbol, NEW m, StandsFor(tables, g, kind, states, m, Goto(g, kind, J, X)), WithAhead(kind)
  PROVE  StandsFor(tables, g, kind, states, m, Goto(g, kind, I, X))
<1>1. /\ I \in states /\ J \in states /\ Collected(g, kind, states, I) = Collected(g, kind, states, J)
      /\ Wellformed(g) /\ kind \in Kinds
  BY DEF StandsFor, TablesHere
<1>2. \A K \in states : K \in SUBSET ItemsOver(g.productions)
  BY StatesClosed DEF IsClosureOver
<1>3. Goto(g, kind, I, X) \in states
  BY <1>1, StatesClosed
<1>4. CASE kind = "LALR"
  <2>1. \A K \in states : Collected(g, kind, states, K) = UNION {S \in states : Core(S) = Core(K)}
    BY <1>4 DEF Collected
  <2>2. I \subseteq Collected(g, kind, states, J) /\ J \subseteq Collected(g, kind, states, I)
    BY <1>1, <2>1
  <2>3. \A x \in Collected(g, kind, states, J) : HasCore(J, x.head, x.body, x.dot)
    BY <1>1, <1>2, CollectedCores
  <2>4. \A x \in Collected(g, kind, states, I) : HasCore(I, x.head, x.body, x.dot)
    BY <1>1, <1>2, CollectedCores
  <2>5. CoresIn(I, J) /\ CoresIn(J, I)
    BY <2>2, <2>3, <2>4 DEF CoresIn
  <2>6. CoresIn(Goto(g, kind, I, X), Goto(g, kind, J, X)) /\ CoresIn(Goto(g, kind, J, X), Goto(g, kind, I, X))
    BY <1>1, <1>2, <2>5, GotoCores
  <2>7. Core(Goto(g, kind, I, X)) = Core(Goto(g, kind, J, X))
    BY <2>6, SameCores
  <2>8. Goto(g, kind, J, X) \in states
    BY <1>1, StatesClosed
  <2> DEFINE K == Goto(g, kind, I, X)
             L == Goto(g, kind, J, X)
  <2>9. K \in states /\ L \in states /\ Core(K) = Core(L) /\ StandsFor(tables, g, kind, states, m, L)
    BY <1>3, <2>7, <2>8
  <2> HIDE DEF K, L
  <2>10. Collected(g, kind, states, K) = Collected(g, kind, states, L)
    BY <2>1, <2>9
  <2>11. StandsFor(tables, g, kind, states, m, K)
    BY <2>9, <2>10 DEF StandsFor
  <2> QED BY <2>11 DEF K
<1>5. CASE kind = "canonical"
  <2>1. Collected(g, kind, states, I) = I /\ Collected(g, kind, states, J) = J
    BY <1>5 DEF Collected
  <2> QED BY <1>1, <2>1
<1> QED BY <1>4, <1>5 DEF WithAhead

\* The dot moved over its symbol, the item is in the next state.
LEMMA CoveredGoes ==
  ASSUME NEW g, NEW kind, NEW tables, NEW states, TablesHere(g, kind, tables, states),
         NEW n, NEW x \in ItemsOver(g.productions), Covered(tables, g, kind, states, n, x), ~ Completed(x)
  PROVE  Covered(tables, g, kind, states, GotoState(tables, n, UnderDot(x)), Go(x))
<1> DEFINE X == UnderDot(x)
           P == g.productions
<1>1. PICK I \in states : StandsFor(tables, g, kind, states, n, I) /\ HasLike(kind, I, x)
  BY DEF Covered
<1>2. /\ Wellformed(g) /\ kind \in Kinds /\ IsWhole(g, kind, MaxSteps) /\ MaxSteps \in Nat
      /\ tables = TablesFor(g, kind, MaxSteps) /\ states = ReachedStates(g, kind, MaxSteps)
  BY StepsAssumption DEF TablesHere
<1>3. n \in DOMAIN tables.collection
  BY <1>1 DEF StandsFor
<1>4. X \in GrammarSymbol /\ Go(x) = Item(x.head, x.body, x.dot + 1, x.ahead)
  BY AtDot
<1> HIDE DEF X
<1>5. PICK J \in states : /\ StandsFor(tables, g, kind, states, n, J)
                          /\ \A Y \in GrammarSymbol :
                               StandsFor(tables, g, kind, states, GotoState(tables, n, Y), Goto(g, kind, J, Y))
  BY <1>2, <1>3, TablesFollow
<1> DEFINE m == GotoState(tables, n, X)
<1>6. StandsFor(tables, g, kind, states, m, Goto(g, kind, J, X))
  BY <1>4, <1>5
<1> HIDE DEF m
<1>7. \A K \in states : K \in SUBSET ItemsOver(P)
  BY StatesClosed DEF IsClosureOver
<1>8. ASSUME NEW K \in states, NEW y \in K, y.head = x.head, y.body = x.body, y.dot = x.dot,
             WithAhead(kind) => x.ahead \subseteq y.ahead
      PROVE  HasLike(kind, Goto(g, kind, K, X), Go(x))
  <2>1. ~ Completed(y) /\ UnderDot(y) = X
    BY <1>8 DEF Completed, UnderDot, X
  <2>2. y \in ItemsOver(P)
    BY <1>7, <1>8
  <2>3. Go(y) = Item(y.head, y.body, y.dot + 1, y.ahead)
    BY <2>1, <2>2, AtDot
  <2>4. Go(y) \in Gone(K, X)
    BY <1>8, <2>1 DEF Gone
  <2>5. Gone(K, X) \subseteq Goto(g, kind, K, X)
    BY <1>2, <1>7, GotoItems
  <2>6. Go(y).head = Go(x).head /\ Go(y).body = Go(x).body /\ Go(y).dot = Go(x).dot /\ Go(y).ahead = y.ahead /\ Go(x).ahead = x.ahead
    BY <1>4, <1>8, <2>3 DEF Item
  <2> QED BY <1>8, <2>4, <2>5, <2>6 DEF HasLike
<1>9. PICK y \in I : /\ y.head = x.head /\ y.body = x.body /\ y.dot = x.dot
                     /\ WithAhead(kind) => x.ahead \subseteq y.ahead
  BY <1>1 DEF HasLike
<1>10. CASE WithAhead(kind)
  <2>1. StandsFor(tables, g, kind, states, m, Goto(g, kind, I, X))
    BY <1>1, <1>4, <1>5, <1>6, <1>10, CollectedTogether
  <2>2. HasLike(kind, Goto(g, kind, I, X), Go(x))
    BY <1>8, <1>9
  <2>3. Goto(g, kind, I, X) \in states
    BY <1>4, StatesClosed
  <2>4. Covered(tables, g, kind, states, m, Go(x))
    BY <2>1, <2>2, <2>3 DEF Covered
  <2> QED BY <2>4 DEF m, X
<1>11. CASE ~ WithAhead(kind)
  <2>1. Collected(g, kind, states, I) = Collected(g, kind, states, J)
    BY <1>1, <1>5 DEF StandsFor
  <2>2. HasCore(Collected(g, kind, states, I), y.head, y.body, y.dot)
    BY <1>2, <1>7, CollectedCores
  <2>3. PICK c \in Collected(g, kind, states, J) : c.head = y.head /\ c.body = y.body /\ c.dot = y.dot
    BY <2>1, <2>2 DEF HasCore
  <2>4. HasCore(J, c.head, c.body, c.dot)
    BY <1>2, <1>7, CollectedCores
  <2>5. PICK z \in J : z.head = x.head /\ z.body = x.body /\ z.dot = x.dot
    BY <1>9, <2>3, <2>4 DEF HasCore
  <2>6. HasLike(kind, Goto(g, kind, J, X), Go(x))
    BY <1>8, <1>11, <2>5
  <2>7. Goto(g, kind, J, X) \in states
    BY <1>4, StatesClosed
  <2>8. Covered(tables, g, kind, states, m, Go(x))
    BY <1>6, <2>6, <2>7 DEF Covered
  <2> QED BY <2>8 DEF m, X
<1> QED BY <1>10, <1>11

\* An item's predictions are in its state.
LEMMA CoveredPredicts ==
  ASSUME NEW g, NEW kind, NEW tables, NEW states, TablesHere(g, kind, tables, states),
         NEW n, NEW x \in ItemsOver(g.productions), Covered(tables, g, kind, states, n, x), ~ Completed(x),
         NEW p \in g.productions, UnderDot(x) = p.head, NEW l \in FollowOfDot(g, x)
  PROVE  Covered(tables, g, kind, states, n, Item(p.head, p.body, 0, {l}))
<1>1. PICK I \in states : StandsFor(tables, g, kind, states, n, I) /\ HasLike(kind, I, x)
  BY DEF Covered
<1>2. PICK y \in I : /\ y.head = x.head /\ y.body = x.body /\ y.dot = x.dot
                     /\ WithAhead(kind) => x.ahead \subseteq y.ahead
  BY <1>1 DEF HasLike
<1>3. ~ Completed(y) /\ UnderDot(y) = p.head
  BY <1>2 DEF Completed, UnderDot
<1>4. IsClosureOver(g, kind, I) /\ Wellformed(g)
  BY StatesClosed DEF TablesHere
<1>5. PICK items \in SUBSET ItemsOver(g.productions) : I = Closure(g, kind, items)
  BY <1>4 DEF IsClosureOver
<1>6. HasCore(I, p.head, p.body, 0) /\ \A k \in AheadFrom(g, kind, y) : PredictedIn(I, p, k)
  BY <1>3, <1>4, <1>5, ClosureHasPredictions
<1> DEFINE z == Item(p.head, p.body, 0, {l})
<1>7. z.head = p.head /\ z.body = p.body /\ z.dot = 0 /\ z.ahead = {l}
  BY DEF Item
<1> HIDE DEF z
<1>8. HasLike(kind, I, z)
  <2>1. CASE WithAhead(kind)
    <3>1. l \in FollowOfDot(g, y)
      BY <1>2, <2>1 DEF FollowOfDot
    <3>2. PredictedIn(I, p, l)
      BY <1>6, <2>1, <3>1 DEF AheadFrom
    <3> QED BY <1>7, <3>2 DEF PredictedIn, HasLike
  <2>2. CASE ~ WithAhead(kind)
    BY <1>6, <1>7, <2>2 DEF HasCore, HasLike
  <2> QED BY <2>1, <2>2
<1>9. Covered(tables, g, kind, states, n, z)
  BY <1>1, <1>8 DEF Covered
<1> QED BY <1>9 DEF z

\* A path without its last step.
StepsTo(tables, s, Xs, X) ==
  \E u : OnPath(tables, u, Xs) /\ s[Len(s)] = GotoState(tables, u[Len(u)], X)
\* Each path of one symbol or more has a last step.
LEMMA LastStep ==
  ASSUME NEW tables, NEW Xs \in Seq(GrammarSymbol), NEW X \in GrammarSymbol, NEW s, OnPath(tables, s, Xs \o <<X>>)
  PROVE  StepsTo(tables, s, Xs, X)
<1> DEFINE D == DOMAIN tables.collection
           n == Len(Xs)
           Ys == Xs \o <<X>>
           u == SubSeq(s, 1, n + 1)
<1>1. n \in Nat /\ Len(Ys) = n + 1 /\ Ys \in Seq(GrammarSymbol) /\ Ys[n + 1] = X
  OBVIOUS
<1>2. SubSeq(Ys, 1, n) = Xs
  BY FirstPart
<1>3. s \in Seq(D) /\ Len(s) = (n + 1) + 1 /\ OnPath(tables, s, Ys)
  BY <1>1 DEF OnPath
<1> HIDE DEF Ys, D, n
<1>4. n \in 0 .. Len(Ys) /\ n + 1 \in 0 .. Len(s) /\ n + 1 \in 1 .. Len(s) /\ n + 1 \in 1 .. Len(Ys)
  BY <1>1, <1>3
<1>5. OnPath(tables, u, Xs)
  BY <1>2, <1>3, <1>4, PathCut
<1>6. Len(u) = n + 1 /\ u[n + 1] = s[n + 1]
  BY <1>3, <1>4, CutInTwo
<1>7. Follows(tables, s, Ys, n + 1)
  BY <1>3, <1>4 DEF OnPath
<1>8. s[(n + 1) + 1] = GotoState(tables, s[n + 1], X)
  BY <1>1, <1>7 DEF Follows
<1> HIDE DEF u
<1>9. s[Len(s)] = GotoState(tables, u[Len(u)], X)
  BY <1>3, <1>6, <1>8
<1> QED BY <1>5, <1>9 DEF StepsTo

\* What is valid behind the symbols of a path is like an item of the last state.
LEMMA ValidCovered ==
  ASSUME NEW g, NEW kind, NEW tables, NEW states, TablesHere(g, kind, tables, states), Whole(g)
  PROVE  \A v \in Valid(g) : \A s : OnPath(tables, s, v[1]) => Covered(tables, g, kind, states, s[Len(s)], v[2])
<1> DEFINE Here(v) == \A s : OnPath(tables, s, v[1]) => Covered(tables, g, kind, states, s[Len(s)], v[2])
           Q == {v \in Valid(g) : Here(v)}
           P == g.productions
<1>1. /\ Wellformed(g) /\ kind \in Kinds /\ IsWhole(g, kind, MaxSteps) /\ MaxSteps \in Nat
      /\ tables = TablesFor(g, kind, MaxSteps) /\ states = ReachedStates(g, kind, MaxSteps)
  BY StepsAssumption DEF TablesHere
<1>2. HasValid(g, Valid(g))
  BY <1>1, ValidIsLeast
<1>3. ASSUME NEW p \in P, p.head = g.start
      PROVE  << <<>>, Item(p.head, p.body, 0, {EndMarker})>> \in Q
  <2> DEFINE x == Item(p.head, p.body, 0, {EndMarker})
  <2>1. << <<>>, x>> \in Valid(g)
    BY <1>2, <1>3 DEF HasValid, StartsIn
  <2>2. ASSUME NEW s, OnPath(tables, s, <<>>) PROVE Covered(tables, g, kind, states, s[Len(s)], x)
    <3>1. s[Len(s)] = tables.start
      BY <2>2 DEF OnPath
    <3> DEFINE b == Item(g.start, p.body, 0, IF WithAhead(kind) THEN {EndMarker} ELSE {})
    <3>2. b \in Begun(g, kind)
      BY <1>3 DEF Begun, Bodies
    <3>3. b \in StartState(g, kind)
      BY <3>2, StatesClosed
    <3>4. b.head = x.head /\ b.body = x.body /\ b.dot = x.dot /\ x.ahead = {EndMarker} /\ (WithAhead(kind) => b.ahead = {EndMarker})
      BY <1>3 DEF Item
    <3> HIDE DEF b, x
    <3>5. HasLike(kind, StartState(g, kind), x)
      BY <3>3, <3>4 DEF HasLike
    <3>6. StandsFor(tables, g, kind, states, tables.start, StartState(g, kind))
      BY <1>1, TablesFollow
    <3>7. Covered(tables, g, kind, states, tables.start, x)
      BY <3>5, <3>6 DEF Covered, StandsFor
    <3> QED BY <3>1, <3>7
  <2> DEFINE v == << <<>>, x>>
  <2>3. v[1] = <<>> /\ v[2] = x
    OBVIOUS
  <2> HIDE DEF x, v
  <2>4. Here(v)
    BY <2>2, <2>3
  <2>5. v \in Q
    BY <2>1, <2>4 DEF v
  <2> QED BY <2>5 DEF v, x
<1>4. ASSUME NEW v \in Valid(g), NEW p \in P, NEW l \in FollowOfDot(g, v[2]),
             v \in Q, ~ Completed(v[2]), UnderDot(v[2]) = p.head
      PROVE  <<v[1], Item(p.head, p.body, 0, {l})>> \in Q
  <2> DEFINE x == Item(p.head, p.body, 0, {l})
             u == <<v[1], x>>
  <2>1. u \in Valid(g)
    BY <1>2, <1>4 DEF HasValid, PredictsIn
  <2>2. u[1] = v[1] /\ u[2] = x
    OBVIOUS
  <2>3. v[2] \in ItemsOver(P) /\ Here(v)
    BY <1>1, <1>4, ValidParts
  <2> HIDE DEF Here
  <2>4. ASSUME NEW s, OnPath(tables, s, v[1]) PROVE Covered(tables, g, kind, states, s[Len(s)], x)
    <3>1. Covered(tables, g, kind, states, s[Len(s)], v[2])
      BY <2>3, <2>4 DEF Here
    <3> QED BY <1>4, <2>3, <3>1, CoveredPredicts
  <2> HIDE DEF x, u
  <2>5. Here(u)
    BY <2>2, <2>4 DEF Here
  <2>6. u \in Q
    BY <2>1, <2>5
  <2> QED BY <2>6 DEF u, x
<1>5. ASSUME NEW v \in Valid(g), v \in Q, ~ Completed(v[2])
      PROVE  <<v[1] \o <<UnderDot(v[2])>>, Go(v[2])>> \in Q
  <2> DEFINE X == UnderDot(v[2])
             u == <<v[1] \o <<X>>, Go(v[2])>>
  <2>1. u \in Valid(g)
    BY <1>2, <1>5 DEF HasValid, GoesIn
  <2>2. u[1] = v[1] \o <<X>> /\ u[2] = Go(v[2])
    OBVIOUS
  <2>3. v[1] \in Seq(GrammarSymbol) /\ v[2] \in ItemsOver(P) /\ Here(v)
    BY <1>1, <1>5, ValidParts
  <2>4. X \in GrammarSymbol
    BY <1>5, <2>3, AtDot
  <2> HIDE DEF Here
  <2>5. ASSUME NEW s, OnPath(tables, s, v[1] \o <<X>>) PROVE Covered(tables, g, kind, states, s[Len(s)], Go(v[2]))
    <3> HIDE DEF X
    <3>1. StepsTo(tables, s, v[1], X)
      BY <2>3, <2>4, <2>5, LastStep
    <3>2. PICK t : OnPath(tables, t, v[1]) /\ s[Len(s)] = GotoState(tables, t[Len(t)], X)
      BY <3>1 DEF StepsTo
    <3>3. Covered(tables, g, kind, states, t[Len(t)], v[2])
      BY <2>3, <3>2 DEF Here
    <3>4. Covered(tables, g, kind, states, GotoState(tables, t[Len(t)], UnderDot(v[2])), Go(v[2]))
      BY <1>5, <2>3, <3>3, CoveredGoes
    <3> QED BY <3>2, <3>4 DEF X
  <2> HIDE DEF u
  <2>6. Here(u)
    BY <2>2, <2>5 DEF Here
  <2>7. u \in Q
    BY <2>1, <2>6
  <2> QED BY <2>7 DEF u
<1>6. Q \in SUBSET Valid(g)
  OBVIOUS
<1> HIDE DEF Q
<1>7. Valid(g) = Q
  BY <1>1, <1>3, <1>4, <1>5, <1>6, ValidInduction
<1> QED BY <1>7 DEF Q

\* In the tables: a completed item with a lookahead symbol, and a terminal that can be shifted.
HasDone(items, p, l) == \E y \in items : y.head = p.head /\ y.body = p.body /\ Completed(y) /\ l \in y.ahead

\* A completed item that is valid behind the symbols of a path, with l, is in the collection of the
\* last state, with l.
LEMMA DoneInTables ==
  ASSUME NEW g, NEW kind, NEW tables, NEW states, TablesHere(g, kind, tables, states), Whole(g), g.start \in Heads(g.productions),
         NEW p \in g.productions, NEW Xs, NEW l, <<Xs, DoneItem(p, l)>> \in Valid(g), NEW s, OnPath(tables, s, Xs)
  PROVE  HasDone(CompletedItems(tables.collection[s[Len(s)]]), p, l)
<1> DEFINE n == s[Len(s)]
           x == DoneItem(p, l)
           v == <<Xs, x>>
<1>1. v \in Valid(g) /\ v[1] = Xs /\ v[2] = x
  OBVIOUS
<1>2. x.head = p.head /\ x.body = p.body /\ x.dot = Len(p.body) /\ x.ahead = {l}
  BY DEF DoneItem, Item
<1> HIDE DEF x, v
<1>3. Covered(tables, g, kind, states, n, x)
  BY <1>1, ValidCovered
<1>4. kind \in Kinds /\ Wellformed(g)
  BY DEF TablesHere
<1>5. x \in ItemsOver(g.productions) /\ x.ahead \subseteq Follow(g, x.head)
  BY <1>1, <1>4, ValidParts, ValidFollows
<1>6. l \in Lookahead /\ l \in Follow(g, p.head)
  BY <1>2, <1>5, ItemParts
<1> HIDE DEF n
<1>7. PICK I \in states : StandsFor(tables, g, kind, states, n, I) /\ HasLike(kind, I, x)
  BY <1>3 DEF Covered
<1>8. PICK y \in I : /\ y.head = x.head /\ y.body = x.body /\ y.dot = x.dot
                     /\ WithAhead(kind) => x.ahead \subseteq y.ahead
  BY <1>7 DEF HasLike
<1>9. tables.collection[n] = Collected(g, kind, states, I)
  BY <1>7 DEF StandsFor
<1>10. Completed(y)
  BY <1>2, <1>8 DEF Completed
<1>11. HasDone(Collected(g, kind, states, I), p, l)
  <2>1. CASE kind \in {"SLR", "DCFG"}
    <3> DEFINE ahead == IF kind = "SLR" THEN Follow(g, y.head) ELSE Lookahead
               z == [y EXCEPT !.ahead = ahead]
    <3>1. z \in Collected(g, kind, states, I)
      BY <1>10, <2>1 DEF Collected
    <3>2. l \in ahead
      BY <1>2, <1>6, <1>8
    <3>3. z = Item(y.head, y.body, y.dot, ahead)
      <4>1. y \in ItemsOver(g.productions)
        BY StatesClosed DEF IsClosureOver
      <4>2. y = Item(y.head, y.body, y.dot, y.ahead)
        BY <4>1, ItemParts
      <4> HIDE DEF ahead
      <4> QED BY <4>2 DEF Item
    <3> HIDE DEF z, ahead
    <3>4. z.head = p.head /\ z.body = p.body /\ z.dot = Len(p.body) /\ z.ahead = ahead
      BY <1>2, <1>8, <3>3 DEF Item
    <3> QED BY <3>1, <3>2, <3>4 DEF HasDone, Completed
  <2>2. CASE kind = "LALR"
    <3>1. Collected(g, kind, states, I) = UNION {J \in states : Core(J) = Core(I)}
      BY <2>2 DEF Collected
    <3>2. y \in Collected(g, kind, states, I)
      BY <3>1
    <3>3. l \in y.ahead
      BY <1>2, <1>8, <2>2 DEF WithAhead
    <3> QED BY <1>2, <1>8, <1>10, <3>2, <3>3 DEF HasDone
  <2>3. CASE kind = "canonical"
    <3>1. Collected(g, kind, states, I) = I
      BY <2>3 DEF Collected
    <3>2. l \in y.ahead
      BY <1>2, <1>8, <2>3 DEF WithAhead
    <3> QED BY <1>2, <1>8, <1>10, <3>1, <3>2 DEF HasDone
  <2> QED BY <1>4, <2>1, <2>2, <2>3 DEF Kinds
<1>12. HasDone(CompletedItems(tables.collection[n]), p, l)
  BY <1>9, <1>11 DEF HasDone, CompletedItems
<1> QED BY <1>12 DEF n

\* A terminal under the dot of a valid item can be shifted, and not into the reject state.
LEMMA ShiftInTables ==
  ASSUME NEW g, NEW kind, NEW tables, NEW states, TablesHere(g, kind, tables, states), Whole(g),
         NEW v \in Valid(g), ~ Completed(v[2]), UnderDot(v[2]) \in Terminal, NEW s, OnPath(tables, s, v[1])
  PROVE  /\ UnderDot(v[2]) \in ShiftTerminals(tables.collection[s[Len(s)]])
         /\ GotoState(tables, s[Len(s)], UnderDot(v[2])) \in LiveStates(tables)
<1> DEFINE n == s[Len(s)]
           x == v[2]
           a == UnderDot(x)
           P == g.productions
<1>1. Covered(tables, g, kind, states, n, x)
  BY ValidCovered
<1>2. kind \in Kinds /\ Wellformed(g)
  BY DEF TablesHere
<1>3. x \in ItemsOver(P)
  BY <1>2, ValidParts
<1>4. Covered(tables, g, kind, states, GotoState(tables, n, a), Go(x))
  BY <1>1, <1>3, CoveredGoes
<1>5. \A K \in states : K \in SUBSET ItemsOver(P)
  BY StatesClosed DEF IsClosureOver
<1> HIDE DEF n, x, a
<1>6. \A m, z : Covered(tables, g, kind, states, m, z)
               => m \in DOMAIN tables.collection /\ HasCore(tables.collection[m], z.head, z.body, z.dot)
  <2> SUFFICES ASSUME NEW m, NEW z, Covered(tables, g, kind, states, m, z)
               PROVE  m \in DOMAIN tables.collection /\ HasCore(tables.collection[m], z.head, z.body, z.dot)
    OBVIOUS
  <2>1. PICK I \in states : StandsFor(tables, g, kind, states, m, I) /\ HasLike(kind, I, z)
    BY DEF Covered
  <2>2. PICK y \in I : y.head = z.head /\ y.body = z.body /\ y.dot = z.dot
    BY <2>1 DEF HasLike
  <2>3. HasCore(Collected(g, kind, states, I), y.head, y.body, y.dot)
    BY <1>2, <1>5, CollectedCores
  <2> QED BY <2>1, <2>2, <2>3 DEF StandsFor
<1>7. GotoState(tables, n, a) \in LiveStates(tables)
  BY <1>4, <1>6 DEF LiveStates, HasCore
<1>8. a \in ShiftTerminals(tables.collection[n])
  <2>1. PICK y \in tables.collection[n] : y.head = x.head /\ y.body = x.body /\ y.dot = x.dot
    BY <1>1, <1>6 DEF HasCore
  <2>2. ~ Completed(y) /\ UnderDot(y) = a
    BY <2>1 DEF Completed, UnderDot, a, x
  <2> QED BY <2>1, <2>2 DEF ShiftTerminals, CompletedItems, a, x
<1> QED BY <1>7, <1>8 DEF n, x, a

-----------------------------------------------------------------------------
(* With a finished table, a word of the grammar is never turned down.      *)

GrammarHere == Grammars[object.grammar]
ToRead == SubSeq(word, at, Len(word))
Configuration == <<SymbolsAt(viable), ToRead>>

\* What is still to be read, and its first symbol.
LEMMA ToReadParts ==
  ASSUME IndInv, phase = "parse"
  PROVE  /\ ToRead \in Seq(Terminal) /\ Ahead = NextOf(ToRead)
         /\ at = Len(word) + 1 => ToRead = <<>>
         /\ Ahead \in Terminal => /\ SubSeq(word, at + 1, Len(word)) \in Seq(Terminal)
                                  /\ ToRead = <<Ahead>> \o SubSeq(word, at + 1, Len(word))
<1>1. /\ word \in Seq(Terminal) /\ at \in 1 .. Len(word) + 1 /\ Len(word) \in Nat
      /\ IF Ahead \in Terminal THEN at \in 1 .. Len(word) /\ Ahead = word[at]
         ELSE Ahead = EndMarker /\ SubSeq(word, 1, at - 1) = word
  BY WhileParsing
<1>2. at - 1 \in 0 .. Len(word) /\ (at - 1) + 1 = at /\ at \in Nat
  BY <1>1
<1>3. /\ ToRead \in Seq(Terminal) /\ Len(ToRead) = Len(word) - (at - 1)
      /\ \A i \in 1 .. Len(word) - (at - 1) : ToRead[i] = word[(at - 1) + i]
  <2> DEFINE k == at - 1
  <2>1. k \in 0 .. Len(word) /\ k + 1 = at
    BY <1>2
  <2> HIDE DEF k
  <2>2. /\ SubSeq(word, k + 1, Len(word)) \in Seq(Terminal) /\ Len(SubSeq(word, k + 1, Len(word))) = Len(word) - k
        /\ \A i \in 1 .. Len(word) - k : SubSeq(word, k + 1, Len(word))[i] = word[k + i]
    BY <1>1, <2>1, CutInTwo
  <2>3. SubSeq(word, k + 1, Len(word)) = ToRead
    BY <2>1 DEF ToRead
  <2> QED BY <2>2, <2>3 DEF k
<1>4. at = Len(word) + 1 => ToRead = <<>>
  <2> SUFFICES ASSUME at = Len(word) + 1 PROVE ToRead = <<>>
    OBVIOUS
  <2>1. Len(ToRead) = 0
    BY <1>1, <1>3
  <2> QED BY <1>3, <2>1, EmptySeq
<1>5. CASE Ahead \in Terminal
  <2> DEFINE r == SubSeq(word, at + 1, Len(word))
  <2>1. at \in 1 .. Len(word) /\ Ahead = word[at] /\ at \in 0 .. Len(word)
    BY <1>1, <1>5
  <2>2. /\ r \in Seq(Terminal) /\ Len(r) = Len(word) - at
        /\ \A i \in 1 .. Len(word) - at : r[i] = word[at + i]
    BY <1>1, <2>1, CutInTwo
  <2> HIDE DEF r
  <2> DEFINE a == <<Ahead>>
  <2>3. a \in Seq(Terminal) /\ Len(a) = 1 /\ a[1] = Ahead
    BY <1>5
  <2> HIDE DEF a
  <2>4. Len(ToRead) = Len(a) + Len(r)
    BY <1>1, <1>3, <2>1, <2>2, <2>3
  <2>5. ASSUME NEW i \in 1 .. Len(ToRead) PROVE ToRead[i] = IF i <= Len(a) THEN a[i] ELSE r[i - Len(a)]
    <3>1. i \in 1 .. Len(word) - (at - 1)
      BY <1>3, <2>5
    <3>2. ToRead[i] = word[(at - 1) + i]
      BY <1>3, <3>1
    <3>3. CASE i = 1
      <4>1. (at - 1) + i = at
        BY <1>2, <3>3
      <4> QED BY <2>1, <2>3, <3>2, <3>3, <4>1
    <3>4. CASE i # 1
      <4>1. i - 1 \in 1 .. Len(word) - at /\ (at - 1) + i = at + (i - 1) /\ ~ (i <= 1)
        BY <1>1, <1>2, <3>1, <3>4
      <4>2. r[i - 1] = word[at + (i - 1)]
        BY <2>2, <4>1
      <4> QED BY <2>3, <3>2, <4>1, <4>2
    <3> QED BY <3>3, <3>4
  <2>6. ToRead = a \o r
    BY <1>3, <2>2, <2>3, <2>4, <2>5, IsBoth
  <2>7. ToRead # <<>> /\ ToRead[1] = Ahead
    <3>1. 1 \in 1 .. Len(ToRead)
      BY <1>1, <1>3, <2>1
    <3>2. ToRead[1] = a[1]
      BY <2>3, <2>5, <3>1
    <3>3. ToRead # <<>>
      BY <3>1
    <3> QED BY <2>3, <3>2, <3>3
  <2> QED BY <1>3, <1>4, <2>2, <2>6, <2>7 DEF NextOf, r, a
<1>6. CASE Ahead \notin Terminal
  <2>1. Ahead = EndMarker /\ SubSeq(word, 1, at - 1) = word
    BY <1>1, <1>6
  <2>2. Len(SubSeq(word, 1, at - 1)) = at - 1
    BY <1>1, <1>2, CutInTwo
  <2>3. at = Len(word) + 1
    BY <1>1, <1>2, <2>1, <2>2
  <2> QED BY <1>3, <1>4, <1>6, <2>1, <2>3 DEF NextOf
<1> QED BY <1>5, <1>6

\* The entries of a table that was finished without a throw, and what the tests made sure of.
Finished ==
  /\ entries = EntriesIn(DOMAIN T.collection)
  /\ \A n \in DOMAIN T.collection : Enterable(ItemsOf(n))
  /\ object.kind # "DCFG" => ~ DK1TestMustFail(T)
TableRight ==
  ~ threw => (table = "empty" \/ Finished) /\ (phase = "parse" => Finished)

\* The states of the DK automaton of an object.
StatesHere == ReachedStates(Normalized(GrammarHere, object.kind), object.kind, MaxSteps)
\* The tables of an object are those of its grammar; a DCFG has passed its test.
LEMMA ObjectTables ==
  ASSUME object \in Objects
  PROVE  /\ TablesHere(Normalized(GrammarHere, object.kind), object.kind, T, StatesHere)
         /\ object.kind = "DCFG" => DKTest(T)
<1>1. PICK i \in DOMAIN Grammars, k \in Kinds :
        object = [grammar |-> i, kind |-> k, tables |-> TablesOf(Grammars[i], k, MaxSteps)]
  BY DEF Objects
<1>2. object.grammar = i /\ object.kind = k /\ object.tables = TablesOf(Grammars[i], k, MaxSteps)
  BY <1>1
<1>3. object.kind = "DCFG" => DKTest(object.tables)
  BY DEF Objects
<1>4. Wellformed(Normalized(Grammars[i], k))
  BY NormalizedRight
<1>5. IsWhole(Normalized(Grammars[i], k), k, MaxSteps)
  BY StepsAssumption
<1> QED BY <1>2, <1>3, <1>4, <1>5 DEF TablesHere, TablesOf, T, GrammarHere, StatesHere

\* A completed item of the top of the stack that what is ahead can follow is found, and no other.
LEMMA FoundIs ==
  ASSUME IndInv, phase = "parse", Finished, NEW p, NEW l, l = Ahead, HasDone(ItemsOf(Top), p, l)
  PROVE  \E y : Found = {y} /\ y.head = p.head /\ y.body = p.body
<1>1. PICK y \in ItemsOf(Top) : y.head = p.head /\ y.body = p.body /\ Completed(y) /\ Ahead \in y.ahead
  BY DEF HasDone
<1>2. Top \in DOMAIN T.collection
  <2>1. stack \in Seq(DOMAIN T.collection) /\ Len(stack) \in Nat /\ Len(stack) # 0
    BY WhileParsing DEF OnPath
  <2> QED BY <2>1 DEF Top
<1>3. y \in Found
  <2> DEFINE e == <<Top, Ahead, y>>
  <2>1. e \in Entries(Top, y)
    BY <1>1 DEF Entries
  <2>2. e \in EntriesOf(Top, ItemsOf(Top))
    BY <1>1, <2>1 DEF EntriesOf
  <2>3. e \in entries
    BY <1>2, <2>2 DEF Finished, EntriesIn
  <2>4. e[1] = Top /\ e[2] = Ahead /\ e[3] = y
    OBVIOUS
  <2> HIDE DEF e
  <2> QED BY <2>3, <2>4 DEF Found
<1>4. ASSUME NEW x \in Found PROVE x = y
  <2>1. x \in ItemsOf(Top) /\ Ahead \in x.ahead
    BY FoundRight DEF Top, ItemsOf
  <2>2. ~ Overlap(x, y)
    BY <1>1, <1>2, <2>1 DEF Finished, Enterable
  <2> QED BY <1>1, <2>1, <2>2 DEF Overlap
<1> QED BY <1>1, <1>3, <1>4

\* What the table says, where the parse can come to its end.
Accepts == \E y : Found = {y} /\ y.head = StartSymbol
ReducesBy(y, Xs) ==
  /\ Found = {y} /\ y.body \in Seq(GrammarSymbol)
  /\ SymbolsAt(viable) = Xs \o y.body /\ <<Xs \o <<y.head>>, ToRead>> \in Parsable(GrammarHere)
Reduces == \E y : \E Xs \in Seq(GrammarSymbol) : ReducesBy(y, Xs)
Shifts ==
  CanShift /\ <<SymbolsAt(viable) \o <<Ahead>>, SubSeq(word, at + 1, Len(word))>> \in Parsable(GrammarHere)

\* The grammar and the path, as the steps need them.
LEMMA PathHere ==
  ASSUME IndInv, phase = "parse", NEW g, g = Normalized(GrammarHere, object.kind)
  PROVE  /\ object.grammar \in DOMAIN Grammars /\ GrammarHere = Grammars[object.grammar]
         /\ Typed(GrammarHere.productions) /\ GrammarHere.start \in NonTerminal
         /\ TablesHere(g, object.kind, T, StatesHere) /\ Wellformed(g) /\ Whole(g)
         /\ g.start \in Heads(g.productions) /\ GrammarHere.productions \subseteq g.productions
         /\ OnPath(T, stack, SymbolsAt(viable)) /\ Top \in DOMAIN T.collection
         /\ SymbolsAt(viable) \in Seq(GrammarSymbol)
<1>1. /\ object \in Objects /\ object.grammar \in DOMAIN Grammars
      /\ OnPath(T, stack, SymbolsAt(viable))
  BY WhileParsing
<1>2. GrammarHere = Grammars[object.grammar]
  BY DEF GrammarHere
<1>3. Typed(GrammarHere.productions) /\ GrammarHere.start \in NonTerminal
  BY <1>1, <1>2, GrammarParts
<1>4. /\ Wellformed(g) /\ Whole(g) /\ g.start \in Heads(g.productions)
      /\ GrammarHere.productions \subseteq g.productions
  <2> DEFINE G == GrammarHere
             i == object.grammar
             k == object.kind
  <2>1. i \in DOMAIN Grammars /\ G = Grammars[i] /\ g = Normalized(G, k)
    BY <1>1, <1>2
  <2> HIDE DEF G, i, k
  <2>2. /\ Wellformed(g) /\ Whole(g) /\ g.start \in Heads(g.productions)
        /\ G.productions \subseteq g.productions
    BY <2>1, NormalizedWhole
  <2> QED BY <2>2 DEF G
<1>5. TablesHere(g, object.kind, T, StatesHere)
  BY <1>1, ObjectTables
<1>6. Top \in DOMAIN T.collection
  <2>1. stack \in Seq(DOMAIN T.collection) /\ Len(stack) \in Nat /\ Len(stack) # 0
    BY WhileParsing DEF OnPath
  <2> QED BY <2>1 DEF Top
<1>7. SymbolsAt(viable) \in Seq(GrammarSymbol)
  BY <1>1 DEF OnPath
<1> QED BY <1>1, <1>2, <1>3, <1>4, <1>5, <1>6, <1>7

\* At the end LR_1 accepts.
LEMMA AcceptsAtEnd ==
  ASSUME IndInv, phase = "parse", Finished, object.kind # "DCFG", Configuration = Final(GrammarHere)
  PROVE  Accepts
<1> DEFINE G == GrammarHere
           g == Normalized(G, object.kind)
           p == [head |-> StartSymbol, body |-> <<G.start>>]
<1>1. /\ object.grammar \in DOMAIN Grammars /\ G = Grammars[object.grammar]
      /\ TablesHere(g, object.kind, T, StatesHere) /\ Wellformed(g) /\ Whole(g) /\ g.start \in Heads(g.productions)
      /\ OnPath(T, stack, SymbolsAt(viable)) /\ GrammarHere.start \in NonTerminal
  BY PathHere
<1>2. g.start = StartSymbol /\ p \in g.productions
  BY <1>1, NormalizedWhole
<1>3. SymbolsAt(viable) = <<G.start>> /\ ToRead = <<>>
  BY DEF Configuration, Final
<1>4. Ahead = EndMarker
  BY <1>3, ToReadParts DEF NextOf
<1>5. p.head = StartSymbol /\ p.body = <<G.start>>
  OBVIOUS
<1> HIDE DEF p, g, G
<1>6. << <<>>, Item(p.head, p.body, 0, {EndMarker})>> \in Valid(g)
  BY <1>1, <1>2, <1>5, ValidIsLeast DEF HasValid, StartsIn
<1>7. <<p.body, DoneItem(p, EndMarker)>> \in Valid(g)
  <2>1. <<>> \in Seq(GrammarSymbol)
    OBVIOUS
  <2>2. << <<>> \o p.body, Item(p.head, p.body, Len(p.body), {EndMarker})>> \in Valid(g)
    BY <1>1, <1>2, <1>6, <2>1, ValidOverBody
  <2>3. p.body \in Seq(GrammarSymbol)
    BY <1>1, <1>2 DEF Whole, Typed
  <2>4. <<>> \o p.body = p.body
    BY <2>3, ConcatEmptySeq
  <2> QED BY <2>2, <2>4 DEF DoneItem
<1>8. HasDone(CompletedItems(T.collection[stack[Len(stack)]]), p, EndMarker)
  BY <1>1, <1>2, <1>3, <1>5, <1>7, DoneInTables
<1>9. HasDone(ItemsOf(Top), p, EndMarker)
  BY <1>8 DEF ItemsOf, Top
<1> QED BY <1>4, <1>5, <1>9, FoundIs DEF Accepts

\* Where a reduction leads on, it is the one that is found.
LEMMA ReducesWhereMay ==
  ASSUME IndInv, phase = "parse", Finished, MayReduce(GrammarHere, Configuration)
  PROVE  Reduces
<1> DEFINE G == GrammarHere
           g == Normalized(G, object.kind)
<1>1. /\ object.grammar \in DOMAIN Grammars /\ G = Grammars[object.grammar]
      /\ Typed(G.productions) /\ G.start \in NonTerminal
      /\ TablesHere(g, object.kind, T, StatesHere) /\ Wellformed(g) /\ Whole(g) /\ g.start \in Heads(g.productions)
      /\ G.productions \subseteq g.productions
      /\ OnPath(T, stack, SymbolsAt(viable))
  BY PathHere
<1>2. Configuration[1] = SymbolsAt(viable) /\ Configuration[2] = ToRead
  BY DEF Configuration
<1>3. PICK Xs \in Seq(GrammarSymbol), p \in G.productions :
        Configuration[1] = Xs \o p.body /\ <<Xs \o <<p.head>>, Configuration[2]>> \in Parsable(G)
  BY DEF MayReduce
<1> HIDE DEF g, G
<1>4. <<Xs \o <<p.head>>, ToRead>> = Final(G) \/ Met(g, Xs \o <<p.head>>, NextOf(ToRead))
  <2> DEFINE c == <<Xs \o <<p.head>>, ToRead>>
  <2>1. c[1] = Xs \o <<p.head>> /\ c[2] = ToRead
    OBVIOUS
  <2>2. c \in Parsable(G)
    BY <1>2, <1>3
  <2> HIDE DEF c
  <2>3. c = Final(G) \/ Met(g, c[1], NextOf(c[2]))
    BY <1>1, <2>2, ParsableMet DEF g
  <2>4. c = Final(G) \/ Met(g, Xs \o <<p.head>>, NextOf(ToRead))
    BY <2>1, <2>3
  <2> QED BY <2>4 DEF c
<1>5. ToRead \in Seq(Terminal) /\ Ahead = NextOf(ToRead)
  BY ToReadParts
<1>6. <<Xs \o p.body, DoneItem(p, NextOf(ToRead))>> \in Valid(g)
  BY <1>1, <1>4, <1>5, HeadHasItem DEF g
<1>7. HasDone(CompletedItems(T.collection[stack[Len(stack)]]), p, NextOf(ToRead))
  BY <1>1, <1>2, <1>3, <1>6, DoneInTables
<1>8. HasDone(ItemsOf(Top), p, NextOf(ToRead))
  BY <1>7 DEF ItemsOf, Top
<1>9. PICK y : Found = {y} /\ y.head = p.head /\ y.body = p.body
  BY <1>5, <1>8, FoundIs
<1>10. y.body \in Seq(GrammarSymbol)
  BY <1>1, <1>9 DEF Typed
<1>11. SymbolsAt(viable) = Xs \o y.body /\ <<Xs \o <<y.head>>, ToRead>> \in Parsable(GrammarHere)
  <2>1. Configuration[1] = Xs \o p.body
    BY <1>3
  <2>2. SymbolsAt(viable) = Xs \o y.body
    BY <1>2, <1>9, <2>1
  <2>3. <<Xs \o <<y.head>>, ToRead>> = <<Xs \o <<p.head>>, Configuration[2]>>
    BY <1>2, <1>9
  <2>4. <<Xs \o <<y.head>>, ToRead>> \in Parsable(G)
    BY <1>3, <2>3
  <2> QED BY <2>2, <2>4 DEF G
<1>12. ReducesBy(y, Xs)
  BY <1>9, <1>10, <1>11 DEF ReducesBy
<1> QED BY <1>12 DEF Reduces

\* What is behind the same first element is the same.
LEMMA SameBehind ==
  ASSUME NEW S, NEW a \in S, NEW r \in Seq(S), NEW s \in Seq(S), <<a>> \o r = <<a>> \o s
  PROVE  r = s
<1> DEFINE b == <<a>>
<1>1. b \in Seq(S) /\ Len(b) = 1
  OBVIOUS
<1>7. b \o r = b \o s
  OBVIOUS
<1> HIDE DEF b
<1>2. Len(r) \in Nat /\ Len(s) \in Nat
  OBVIOUS
<1>3. /\ Len(b \o r) = 1 + Len(r)
      /\ \A i \in 1 .. 1 + Len(r) : (b \o r)[i] = IF i <= 1 THEN b[i] ELSE r[i - 1]
  <2>1. /\ Len(b \o r) = Len(b) + Len(r)
        /\ \A i \in 1 .. Len(b) + Len(r) : (b \o r)[i] = IF i <= Len(b) THEN b[i] ELSE r[i - Len(b)]
    BY <1>1, ConcatProperties
  <2> QED BY <1>1, <2>1
<1>4. /\ Len(b \o s) = 1 + Len(s)
      /\ \A i \in 1 .. 1 + Len(s) : (b \o s)[i] = IF i <= 1 THEN b[i] ELSE s[i - 1]
  <2>1. /\ Len(b \o s) = Len(b) + Len(s)
        /\ \A i \in 1 .. Len(b) + Len(s) : (b \o s)[i] = IF i <= Len(b) THEN b[i] ELSE s[i - Len(b)]
    BY <1>1, ConcatProperties
  <2> QED BY <1>1, <2>1
<1>5. Len(r) = Len(s)
  BY <1>2, <1>3, <1>4, <1>7
<1>6. ASSUME NEW i \in 1 .. Len(r) PROVE r[i] = s[i]
  <2>1. i + 1 \in 1 .. 1 + Len(r) /\ ~ (i + 1 <= 1) /\ (i + 1) - 1 = i
    BY <1>2
  <2>2. (b \o r)[i + 1] = r[i]
    BY <1>3, <2>1
  <2>3. (b \o s)[i + 1] = s[i]
    BY <1>4, <1>5, <2>1
  <2> QED BY <1>7, <2>2, <2>3
<1> QED BY <1>5, <1>6, SameSequence

\* Where a shift leads on, nothing is found and the terminal can be shifted.
LEMMA ShiftsWhereMay ==
  ASSUME IndInv, phase = "parse", Finished, MayShift(GrammarHere, Configuration)
  PROVE  Shifts
<1> DEFINE G == GrammarHere
           g == Normalized(G, object.kind)
           Xs == SymbolsAt(viable)
<1>1. /\ object.grammar \in DOMAIN Grammars /\ G = Grammars[object.grammar]
      /\ Typed(G.productions) /\ G.start \in NonTerminal
      /\ TablesHere(g, object.kind, T, StatesHere) /\ Wellformed(g) /\ Whole(g) /\ g.start \in Heads(g.productions)
      /\ OnPath(T, stack, Xs) /\ Top \in DOMAIN T.collection /\ Xs \in Seq(GrammarSymbol)
  BY PathHere
<1>2. Configuration[1] = Xs /\ Configuration[2] = ToRead
  BY DEF Configuration
<1>3. PICK r \in Seq(Terminal), a \in Terminal :
        Configuration[2] = <<a>> \o r /\ <<Configuration[1] \o <<a>>, r>> \in Parsable(G)
  BY DEF MayShift
<1> HIDE DEF g, G, Xs
<1>4. Ahead = a /\ r = SubSeq(word, at + 1, Len(word))
  <2>1. ToRead = <<a>> \o r
    BY <1>2, <1>3
  <2>2. ToRead # <<>> /\ ToRead[1] = a
    BY <2>1
  <2>3. Ahead = a
    BY <2>2, ToReadParts DEF NextOf
  <2> DEFINE s == SubSeq(word, at + 1, Len(word))
  <2>4. s \in Seq(Terminal) /\ <<a>> \o r = <<a>> \o s
    BY <2>1, <2>3, ToReadParts
  <2> HIDE DEF s
  <2>5. r = s
    BY <2>4, SameBehind
  <2> QED BY <2>3, <2>5 DEF s
<1>5. Met(g, Xs \o <<a>>, NextOf(r))
  <2> DEFINE c == <<Xs \o <<a>>, r>>
  <2>1. c[1] = Xs \o <<a>> /\ c[2] = r /\ c \in Parsable(G)
    BY <1>2, <1>3
  <2>2. c # Final(G)
    <3>1. Xs \o <<a>> # <<G.start>>
      BY <1>1, TerminalNotStart
    <3> QED BY <3>1 DEF Final
  <2> HIDE DEF c
  <2>3. c = Final(G) \/ Met(g, c[1], NextOf(c[2]))
    BY <1>1, <2>1, ParsableMet DEF g
  <2> QED BY <2>1, <2>2, <2>3
<1>6. LastUnderDot(g, Xs, a, NextOf(r))
  <2>1. a \in GrammarSymbol
    BY DEF GrammarSymbol
  <2> QED BY <1>1, <1>5, <2>1, MetBehind
<1>7. PICK u \in Valid(g) : u[1] = Xs /\ ~ Completed(u[2]) /\ UnderDot(u[2]) = a
  BY <1>6 DEF LastUnderDot
<1>8. /\ a \in ShiftTerminals(T.collection[Top])
      /\ GotoState(T, Top, a) \in LiveStates(T)
  <2>1. /\ UnderDot(u[2]) \in ShiftTerminals(T.collection[stack[Len(stack)]])
        /\ GotoState(T, stack[Len(stack)], UnderDot(u[2])) \in LiveStates(T)
    BY <1>1, <1>7, ShiftInTables
  <2> QED BY <1>7, <2>1 DEF Top
<1>9. Found = {}
  <2> SUFFICES ASSUME NEW x \in Found PROVE FALSE
    OBVIOUS
  <2> DEFINE I == T.collection[Top]
  <2>1. x \in CompletedItems(I) /\ Ahead \in x.ahead
    BY FoundRight DEF Top
  <2>2. I \in SymbolsOf(T.collection)
    BY <1>1 DEF SymbolsOf
  <2>3. a \in ShiftTerminals(I)
    BY <1>8
  <2> HIDE DEF I
  <2>4. CASE object.kind = "DCFG"
    <3>1. DKTest(T)
      BY <2>4, ObjectTables DEF IndInv
    <3> QED BY <2>1, <2>2, <2>3, <3>1 DEF DKTest
  <2>5. CASE object.kind # "DCFG"
    <3>1. ~ DK1TestMustFail(T)
      BY <2>5 DEF Finished
    <3>2. ShiftConflict(I)
      BY <1>4, <2>1, <2>3 DEF ShiftConflict
    <3> QED BY <2>2, <3>1, <3>2 DEF DK1TestMustFail
  <2> QED BY <2>4, <2>5
<1>10. object.kind = "DCFG" => a \in Terminals(G)
  <2> SUFFICES ASSUME object.kind = "DCFG" PROVE a \in Terminals(G)
    OBVIOUS
  <2>1. g = G
    BY DEF Normalized, g
  <2> DEFINE x == u[2]
  <2>2. x \in ItemsOver(G.productions)
    BY <1>1, <2>1, ValidParts
  <2>3. ~ Completed(x) /\ UnderDot(x) = a
    BY <1>7
  <2> HIDE DEF x
  <2>4. /\ [head |-> x.head, body |-> x.body] \in G.productions
        /\ x.body \in Seq(GrammarSymbol) /\ x.dot \in Nat /\ x.dot <= Len(x.body)
    BY <2>2 DEF ItemsOver, ProductionOf
  <2>5. x.dot + 1 \in DOMAIN x.body /\ x.body[x.dot + 1] = a
    BY <2>3, <2>4 DEF Completed, UnderDot
  <2>6. a \in SymbolsOf(x.body)
    BY <2>5 DEF SymbolsOf
  <2>7. PICK p \in G.productions : p.body = x.body
    BY <2>4
  <2>8. SymbolsOf(p.body) \in {SymbolsOf(q.body) : q \in G.productions}
    OBVIOUS
  <2>9. a \in UNION {SymbolsOf(q.body) : q \in G.productions}
    BY <2>6, <2>7, <2>8
  <2> QED BY <2>9 DEF Terminals
<1>11. CanShift
  BY <1>1, <1>4, <1>8, <1>9, <1>10 DEF CanShift
<1> QED BY <1>2, <1>3, <1>4, <1>11 DEF Shifts, G, Xs

\* Where the parse can come to its end, the table says how to go on.
NotAtEnd == object.kind = "DCFG" => Configuration # Final(GrammarHere)
\* One of the three, at any time.
LEMMA TableGoesOn ==
  ASSUME IndInv, phase = "parse", Finished, Configuration \in Parsable(GrammarHere), NotAtEnd
  PROVE  Accepts \/ Reduces \/ Shifts
<1>1. Typed(GrammarHere.productions) /\ GrammarHere.start \in NonTerminal
  BY PathHere
<1>2. \/ Configuration = Final(GrammarHere) \/ MayReduce(GrammarHere, Configuration)
      \/ MayShift(GrammarHere, Configuration)
  BY <1>1, ParsableSteps
<1> QED BY <1>2, AcceptsAtEnd, ReducesWhereMay, ShiftsWhereMay DEF NotAtEnd

\* From where a parse is, it can come to its end, if the word is one of the grammar.
WordHere == word \in WordsOf[object.grammar][Start]
ParsableRight == phase # "idle" /\ ~ threw /\ WordHere => Configuration \in Parsable(GrammarHere) /\ NotAtEnd
NullRight == answer = "null" /\ ~ threw => ~ WordHere

\* What is added to the invariant of the trees.
ComesThrough == TableRight /\ ParsableRight /\ NullRight

\* A word of the grammar can be parsed from the beginning.
LEMMA CallComes ==
  ASSUME IndInv, ComesThrough, NEW w \in Words, Call(w)
  PROVE  ComesThrough'
<1>1. /\ object' = object /\ table' = table /\ entries' = entries /\ threw' = threw
      /\ word' = w /\ at' = 1 /\ viable' = <<>> /\ answer' = "none"
      /\ phase' = IF table = "empty" THEN "construct" ELSE "parse"
  BY DEF Call
<1>2. TableRight'
  <2>1. Finished' <=> Finished
    BY <1>1 DEF Finished, EntriesIn, EntriesOf, ItemsOf, T
  <2> QED BY <1>1, <2>1 DEF ComesThrough, TableRight
<1>3. NullRight'
  BY <1>1 DEF NullRight
<1>4. ASSUME WordHere' PROVE Configuration' \in Parsable(GrammarHere)' /\ NotAtEnd'
  <2> DEFINE G == GrammarHere
             i == object.grammar
  <2>1. i \in DOMAIN Grammars /\ G = Grammars[i]
    BY ObjectRight DEF IndInv, GrammarHere
  <2>2. Typed(G.productions) /\ IsFiniteSet(Heads(G.productions)) /\ G.start \in Heads(G.productions)
    BY <2>1, GrammarParts
  <2>3. w \in WordsOf[i][G.start]
    BY <1>1, <1>4, <2>1 DEF WordHere, Start
  <2>4. WordsOf[i] = DerivedWords(G, Longest)
    BY <2>1 DEF WordsOf
  <2>5. Longest \in Nat /\ w \in Seq(Terminal)
    BY LongestOfWords, WordsAssumption
  <2> HIDE DEF G
  <2>6. << <<>>, w>> \in Parsable(G)
    BY <2>2, <2>3, <2>4, <2>5, WordsParsable
  <2>7. Configuration' = << <<>>, w>>
    <3>1. SymbolsAt(<<>>) = <<>>
      BY DEF SymbolsAt
    <3>2. SubSeq(w, 1, Len(w)) = w
      BY <2>5
    <3> QED BY <1>1, <3>1, <3>2 DEF Configuration, ToRead
  <2>8. GrammarHere' = G
    BY <1>1 DEF GrammarHere, G
  <2>9. << <<>>, w>> # Final(G)
    <3>1. <<>> # <<G.start>>
      OBVIOUS
    <3> QED BY <3>1 DEF Final
  <2>10. NotAtEnd'
    BY <2>7, <2>8, <2>9 DEF NotAtEnd
  <2>11. Parsable(GrammarHere)' = Parsable(G)
    BY <2>8
  <2> QED BY <2>6, <2>7, <2>10, <2>11
<1>5. ParsableRight'
  BY <1>4 DEF ParsableRight
<1> QED BY <1>2, <1>3, <1>5 DEF ComesThrough

\* A table that was finished without a throw stays what it is.
LEMMA TableKept ==
  ASSUME TableRight, object' = object, entries' = entries, table' = table, threw' = threw,
         phase' = phase \/ phase' = "idle"
  PROVE  TableRight'
<1>1. Finished' <=> Finished
  BY DEF Finished, EntriesIn, EntriesOf, ItemsOf, T
<1> QED BY <1>1 DEF TableRight

\* A shift is one that leads on.
LEMMA ShiftComes ==
  ASSUME IndInv, ComesThrough, Shift
  PROVE  ComesThrough'
<1>1. /\ phase = "parse" /\ phase' = "parse" /\ object' = object /\ entries' = entries /\ table' = table /\ threw' = threw
      /\ word' = word /\ at' = at + 1 /\ answer' = answer
      /\ viable' = Append(viable, Tree(Ahead, <<Ahead>>)) /\ CanShift
  BY DEF Shift, constructed
<1>2. TableRight'
  BY <1>1, TableKept DEF ComesThrough
<1>3. NullRight'
  BY <1>1, WhileParsing DEF NullRight
<1>4. ASSUME ~ threw, WordHere PROVE Configuration' \in Parsable(GrammarHere) /\ NotAtEnd'
  <2>1. Finished /\ Configuration \in Parsable(GrammarHere) /\ NotAtEnd
    BY <1>1, <1>4 DEF ComesThrough, TableRight, ParsableRight
  <2>2. Accepts \/ Reduces \/ Shifts
    BY <1>1, <2>1, TableGoesOn
  <2>3. Found = {} /\ Ahead \in Terminal
    BY <1>1 DEF CanShift
  <2>4. Shifts
    BY <2>2, <2>3 DEF Accepts, Reduces, ReducesBy
  <2> DEFINE leaf == Tree(Ahead, <<Ahead>>)
  <2>5. leaf \in Trees(WordsHere) /\ leaf.symbol = Ahead
    <3>1. leaf.symbol = Ahead /\ leaf.yield = <<Ahead>> /\ leaf = [symbol |-> Ahead, yield |-> <<Ahead>>]
      BY DEF Tree
    <3>2. <<Ahead>> \in Seq(Terminal)
      BY <2>3
    <3> QED BY <2>3, <3>1, <3>2 DEF Trees, SymbolWords
  <2> HIDE DEF leaf
  <2>6. viable \in Seq(Trees(WordsHere)) /\ viable' = Append(viable, leaf)
    BY <1>1, WhileParsing DEF leaf
  <2>7. SymbolsAt(viable') = SymbolsAt(viable) \o <<Ahead>>
    BY <2>5, <2>6, OneTreeMore
  <2>8. Configuration' = <<SymbolsAt(viable) \o <<Ahead>>, SubSeq(word, at + 1, Len(word))>>
    BY <1>1, <2>7 DEF Configuration, ToRead
  <2>9. SymbolsAt(viable) \in Seq(GrammarSymbol) /\ GrammarHere.start \in NonTerminal
    BY <1>1, PathHere
  <2>10. SymbolsAt(viable) \o <<Ahead>> # <<GrammarHere.start>>
    BY <2>3, <2>9, TerminalNotStart
  <2>11. GrammarHere' = GrammarHere
    BY <1>1 DEF GrammarHere
  <2>12. Configuration' # Final(GrammarHere)
    BY <2>8, <2>10 DEF Final
  <2> QED BY <2>4, <2>8, <2>11, <2>12 DEF Shifts, NotAtEnd
<1>5. ParsableRight'
  <2>1. (WordHere' <=> WordHere) /\ Parsable(GrammarHere)' = Parsable(GrammarHere)
    BY <1>1 DEF WordHere, GrammarHere, Start
  <2> QED BY <1>1, <1>4, <2>1 DEF ParsableRight
<1> QED BY <1>2, <1>3, <1>5 DEF ComesThrough

\* So is a reduction; one of a DCFG that leaves the start symbol alone, at the end, is its last.
LEMMA ReduceComes ==
  ASSUME IndInv, ComesThrough, Reduce
  PROVE  ComesThrough'
<1>0. phase = "parse"
  BY DEF Reduce
<1>1. PICK x \in Found :
        /\ x.head # StartSymbol
        /\ MakeNode(x)
        /\ LET popped == Without(stack, Len(x.body))
           IN  IF LR0Done(popped)
                 THEN phase' = "idle" /\ answer' = "tree" /\ stack' = popped
                 ELSE /\ Len(popped) < MaxStack
                      /\ stack' = Append(popped, GotoState(T, popped[Len(popped)], x.head))
                      /\ UNCHANGED <<phase, answer>>
  BY DEF Reduce
<1>2. /\ object' = object /\ entries' = entries /\ table' = table /\ threw' = threw /\ word' = word /\ at' = at
  BY DEF Reduce, constructed
<1> DEFINE popped == Without(stack, Len(x.body))
<1>3. IF LR0Done(popped) THEN phase' = "idle" /\ answer' = "tree" ELSE phase' = phase /\ answer' = answer
  BY <1>1
<1>4. TableRight'
  BY <1>2, <1>3, TableKept DEF ComesThrough
<1>5. NullRight'
  <2>1. answer' # "null"
    BY <1>0, <1>3, WhileParsing
  <2> QED BY <2>1 DEF NullRight
<1>6. ASSUME ~ threw, WordHere, phase' # "idle" PROVE Configuration' \in Parsable(GrammarHere) /\ NotAtEnd'
  <2>1. Finished /\ Configuration \in Parsable(GrammarHere) /\ NotAtEnd
    BY <1>0, <1>6 DEF ComesThrough, TableRight, ParsableRight
  <2>2. Accepts \/ Reduces \/ Shifts
    BY <1>0, <2>1, TableGoesOn
  <2>3. Reduces
    <3>1. ~ Shifts
      BY DEF Shifts, CanShift
    <3>2. ~ Accepts
      BY <1>1 DEF Accepts
    <3> QED BY <2>2, <3>1, <3>2
  <2>4. PICK y : \E Xs \in Seq(GrammarSymbol) : ReducesBy(y, Xs)
    BY <2>3 DEF Reduces
  <2>5. PICK Xs \in Seq(GrammarSymbol) : ReducesBy(y, Xs)
    BY <2>4
  <2>6. /\ x = y /\ x.body \in Seq(GrammarSymbol)
        /\ SymbolsAt(viable) = Xs \o x.body /\ <<Xs \o <<x.head>>, ToRead>> \in Parsable(GrammarHere)
    BY <2>5 DEF ReducesBy
  <2>7. SymbolsAt(viable') = Xs \o <<x.head>> /\ x.head \in GrammarSymbol /\ Len(popped) = Len(Xs) + 1
    BY <1>0, <1>1, <2>6, ReducedSymbols
  <2> HIDE DEF popped
  <2>8. Configuration' = <<Xs \o <<x.head>>, ToRead>>
    BY <1>2, <2>7 DEF Configuration, ToRead
  <2>9. GrammarHere' = GrammarHere
    BY <1>2 DEF GrammarHere
  <2>10. ASSUME object.kind = "DCFG" PROVE Configuration' # Final(GrammarHere)
    <3> SUFFICES ASSUME Configuration' = Final(GrammarHere) PROVE FALSE
      OBVIOUS
    <3>1. Xs \o <<x.head>> = <<GrammarHere.start>> /\ ToRead = <<>>
      <4> DEFINE Ys == Xs \o <<x.head>>
                 Zs == <<GrammarHere.start>>
                 none == << >>
      <4>1. <<Ys, ToRead>> = <<Zs, none>>
        BY <2>8 DEF Final
      <4> HIDE DEF Ys, Zs, none
      <4>2. Ys = Zs /\ ToRead = none
        BY <4>1
      <4> QED BY <4>2 DEF Ys, Zs, none
    <3>2. Ahead = EndMarker
      BY <1>0, <3>1, ToReadParts DEF NextOf
    <3>3. Len(Xs) + 1 = 1
      <4> DEFINE X == x.head
      <4>1. Xs \o <<X>> = <<GrammarHere.start>> /\ X \in GrammarSymbol
        BY <2>7, <3>1
      <4> HIDE DEF X
      <4>2. Len(Xs \o <<X>>) = Len(Xs) + 1
        BY <4>1
      <4>3. Len(<<GrammarHere.start>>) = 1
        OBVIOUS
      <4> QED BY <4>1, <4>2, <4>3
    <3>4. LR0Done(popped)
      BY <2>7, <2>10, <3>2, <3>3 DEF LR0Done
    <3> QED BY <1>3, <1>6, <3>4
  <2>11. NotAtEnd'
    BY <1>2, <2>9, <2>10 DEF NotAtEnd
  <2> QED BY <2>6, <2>8, <2>11
<1>7. ParsableRight'
  <2>1. (WordHere' <=> WordHere) /\ Parsable(GrammarHere)' = Parsable(GrammarHere)
    BY <1>2 DEF WordHere, GrammarHere, Start
  <2> QED BY <1>2, <1>6, <2>1 DEF ParsableRight
<1> QED BY <1>4, <1>5, <1>7 DEF ComesThrough

\* And a word of the grammar is not turned down.
LEMMA RejectComes ==
  ASSUME IndInv, ComesThrough, Reject
  PROVE  ComesThrough'
<1>1. /\ phase = "parse" /\ phase' = "idle" /\ object' = object /\ entries' = entries /\ table' = table /\ threw' = threw
      /\ word' = word /\ Found = {} /\ ~ CanShift
  BY DEF Reject, constructed
<1>2. TableRight'
  BY <1>1, TableKept DEF ComesThrough
<1>3. ParsableRight'
  BY <1>1 DEF ParsableRight
<1>4. ASSUME ~ threw, WordHere PROVE FALSE
  <2>1. Finished /\ Configuration \in Parsable(GrammarHere) /\ NotAtEnd
    BY <1>1, <1>4 DEF ComesThrough, TableRight, ParsableRight
  <2>2. Accepts \/ Reduces \/ Shifts
    BY <1>1, <2>1, TableGoesOn
  <2> QED BY <1>1, <2>2 DEF Accepts, Reduces, ReducesBy, Shifts
<1>5. NullRight'
  <2>1. WordHere' <=> WordHere
    BY <1>1 DEF WordHere, Start
  <2> QED BY <1>1, <1>4, <2>1 DEF NullRight
<1> QED BY <1>2, <1>3, <1>5 DEF ComesThrough

\* A finished table has all the entries, and no two for one state and symbol.
LEMMA TableDoneComes ==
  ASSUME IndInv, ComesThrough, TableDone
  PROVE  ComesThrough'
<1>1. /\ phase = "construct" /\ phase' = "parse" /\ object' = object /\ entries' = EntriesIn(DOMAIN T.collection)
      /\ threw' = threw /\ word' = word /\ at' = at /\ viable' = viable /\ answer' = answer
      /\ \A n \in DOMAIN T.collection : Enterable(ItemsOf(n))
      /\ object.kind # "DCFG" => ~ DK1TestMustFail(T)
  BY DEF TableDone, tree
<1>2. Finished'
  BY <1>1 DEF Finished, EntriesIn, EntriesOf, ItemsOf, T
<1>3. TableRight'
  BY <1>2 DEF TableRight
<1>4. (WordHere' <=> WordHere) /\ Configuration' = Configuration /\ GrammarHere' = GrammarHere /\ object' = object
  BY <1>1 DEF WordHere, Start, Configuration, ToRead, GrammarHere
<1>5. ParsableRight'
  <2>1. NotAtEnd' <=> NotAtEnd
    BY <1>4 DEF NotAtEnd
  <2>2. Parsable(GrammarHere)' = Parsable(GrammarHere)
    BY <1>4
  <2> QED BY <1>1, <1>4, <2>1, <2>2 DEF ComesThrough, ParsableRight
<1>6. NullRight'
  BY <1>1, <1>4 DEF ComesThrough, NullRight
<1> QED BY <1>3, <1>5, <1>6 DEF ComesThrough

\* Every answer is right, of a parser whose calls have not thrown and of one whose have: what is
\* given as a tree is a tree of the word; and a word is turned down, by a table that is finished,
\* only if it is no word of the grammar. For each kind of LR grammar, and whatever the grammar is.
THEOREM AnswersAreRight == Spec => []AnswerRight
<1>1. Init => ComesThrough
  BY DEF Init, ComesThrough, TableRight, ParsableRight, NullRight
<1>2. IndInv /\ ComesThrough /\ [Next]_vars => ComesThrough'
  <2> SUFFICES ASSUME IndInv, ComesThrough, [Next]_vars PROVE ComesThrough'
    OBVIOUS
  <2>1. ASSUME Throw PROVE ComesThrough'
    BY <2>1 DEF Throw, ComesThrough, TableRight, ParsableRight, NullRight
  <2>2. CASE TestFails
    BY <2>1, <2>2 DEF TestFails
  <2>3. CASE Conflict
    BY <2>1, <2>3 DEF Conflict
  <2>4. CASE TableDone
    BY <2>4, TableDoneComes
  <2>5. CASE Shift
    BY <2>5, ShiftComes
  <2>6. CASE Reduce
    BY <2>6, ReduceComes
  <2>7. CASE Accept
    <3>1. /\ phase = "parse" /\ phase' = "idle" /\ answer' = "tree"
          /\ object' = object /\ entries' = entries /\ table' = table /\ threw' = threw
      BY <2>7 DEF Accept, constructed
    <3>2. TableRight'
      BY <3>1, TableKept DEF ComesThrough
    <3> QED BY <3>1, <3>2 DEF ComesThrough, ParsableRight, NullRight
  <2>8. CASE Reject
    BY <2>8, RejectComes
  <2>9. ASSUME NEW w \in Words, Call(w) PROVE ComesThrough'
    BY <2>9, CallComes
  <2>10. CASE UNCHANGED vars
    <3>1. /\ object' = object /\ entries' = entries /\ table' = table /\ threw' = threw /\ phase' = phase
          /\ word' = word /\ at' = at /\ viable' = viable /\ answer' = answer
      BY <2>10 DEF vars
    <3>2. TableRight'
      BY <3>1, TableKept DEF ComesThrough
    <3>3. (WordHere' <=> WordHere) /\ Configuration' = Configuration /\ GrammarHere' = GrammarHere
      BY <3>1 DEF WordHere, Start, Configuration, ToRead, GrammarHere
    <3>4. NotAtEnd' <=> NotAtEnd
      BY <3>1, <3>3 DEF NotAtEnd
    <3>5. Parsable(GrammarHere)' = Parsable(GrammarHere)
      BY <3>3
    <3> QED BY <3>1, <3>2, <3>3, <3>4, <3>5 DEF ComesThrough, ParsableRight, NullRight
  <2> QED BY <2>2, <2>3, <2>4, <2>5, <2>6, <2>7, <2>8, <2>9, <2>10 DEF Next, Constructing, Parsing
<1>3. IndInv /\ ComesThrough => AnswerRight
  BY DEF IndInv, TreeRight, ComesThrough, NullRight, WordHere, AnswerRight
<1> QED BY <1>1, <1>2, <1>3, IndInvariant, PTL DEF Spec
=============================================================================

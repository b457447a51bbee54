------------------------ MODULE EpsilonClosure_proofs ------------------------
(***************************************************************************)
(* That the epsilon closures cached by NFA::get_epsilon_closure are sound, *)
(* and those served are complete, for every set of states and every        *)
(* automaton.                                                              *)
(***************************************************************************)
EXTENDS EpsilonClosure, SequenceTheorems, TLAPS

Edges == [State -> SUBSET State]

-----------------------------------------------------------------------------
(* The least closed set.                                                   *)

\* A state reaches itself.
LEMMA ReachSelf ==
  ASSUME NEW e \in Edges, NEW s \in State
  PROVE  s \in ReachBy(e, s)
BY DEF ReachBy, ClosedFrom

\* The reached states are states.
LEMMA ReachType ==
  ASSUME NEW e \in Edges, NEW s \in State
  PROVE  ReachBy(e, s) \subseteq State
BY DEF ReachBy

\* What an edge leads to reaches no more than where the edge starts.
LEMMA ReachStep ==
  ASSUME NEW e \in Edges, NEW u \in State, NEW v \in e[u]
  PROVE  ReachBy(e, v) \subseteq ReachBy(e, u)
BY DEF ReachBy, ClosedFrom, Edges

\* A closed set with s in it holds everything s reaches.
LEMMA ReachLeast ==
  ASSUME NEW e \in Edges, NEW s \in State, NEW C \in SUBSET State,
         s \in C, \A u \in C : e[u] \subseteq C
  PROVE  ReachBy(e, s) \subseteq C
BY DEF ReachBy, ClosedFrom

\* More edges reach more.
LEMMA ReachMonotone ==
  ASSUME NEW e \in Edges, NEW f \in Edges, NEW s \in State,
         \A u \in State : e[u] \subseteq f[u]
  PROVE  ReachBy(e, s) \subseteq ReachBy(f, s)
<1>1. ClosedFrom(f, s) \subseteq ClosedFrom(e, s)
  BY DEF ClosedFrom, Edges
<1>2. QED BY <1>1 DEF ReachBy

\* A sequence without its last element.
LEMMA FrontOf ==
  ASSUME NEW q \in Seq(State), Len(q) > 1
  PROVE  LET f == SubSeq(q, 1, Len(q) - 1)
         IN  /\ f \in Seq(State)
             /\ Len(f) = Len(q) - 1
             /\ \A i \in 1 .. Len(q) - 1 : f[i] = q[i]
             /\ f[Len(f)] = q[Len(q) - 1]
<1> DEFINE f == SubSeq(q, 1, Len(q) - 1)
<1>1. Len(q) \in Nat /\ Len(q) - 1 \in 1 .. Len(q)
  BY LenProperties
<1>2. f \in Seq(State) /\ Len(f) = Len(q) - 1
  BY <1>1, SubSeqProperties
<1>3. \A i \in 1 .. Len(q) - 1 : f[i] = q[i]
  BY <1>1, SubSeqProperties
<1>4. QED BY <1>1, <1>2, <1>3

-----------------------------------------------------------------------------
(* Types.                                                                  *)

\* Every variable keeps its type: in particular no row, closure or vertex of a
\* search is ever outside the state numbers of the program.
THEOREM TypeCorrect == Spec => []TypeOK
<1>1. Init => TypeOK
  <2> SUFFICES ASSUME Init PROVE TypeOK
    OBVIOUS
  <2>1. PICK m \in Automata : states = m.states /\ rows = m.rows /\ eps = m.eps
    BY DEF Init
  <2>2. /\ m \in [states : SUBSET State, rows : SUBSET State,
                  eps : [State -> SUBSET State]]
        /\ \A s \in State : m.eps[s] \subseteq m.states
    BY AutomataAssumption DEF Automaton
  <2>3. <<>> \in Seq(State) /\ NoCache \in [State -> SUBSET State]
    BY EmptySeq DEF NoCache
  <2>4. QED BY <2>1, <2>2, <2>3 DEF Init, TypeOK
<1>2. TypeOK /\ [Next]_vars => TypeOK'
  <2> SUFFICES ASSUME TypeOK, [Next]_vars PROVE TypeOK'
    OBVIOUS
  <2> USE DEF TypeOK
  <2>1. ASSUME NEW s \in State, AddNewState(s) PROVE TypeOK'
    BY <2>1 DEF AddNewState, cache, search
  <2>2. ASSUME NEW s \in State, NEW T \in SUBSET State, AddEpsilonTransition(s, T)
        PROVE TypeOK'
    BY <2>2 DEF AddEpsilonTransition, MergeAndClear, NoCache, search
  <2>3. ASSUME NEW s \in State, NEW T \in SUBSET State, ReplaceEpsilonTransition(s, T)
        PROVE TypeOK'
    BY <2>3 DEF ReplaceEpsilonTransition, MergeAndClear, NoCache, search
  <2>4. ASSUME NEW s \in State, NEW T \in SUBSET State, ReplaceThrows(s, T)
        PROVE TypeOK'
    BY <2>4 DEF ReplaceThrows, cache, search
  <2>5. ASSUME NEW m \in Automata, AddSubNFA(m) PROVE TypeOK'
    BY <2>5, AutomataAssumption DEF AddSubNFA, cache, search, Automaton
  <2>6. ASSUME NEW s \in State, QueryTrivial(s) PROVE TypeOK'
    BY <2>6 DEF QueryTrivial, nfa, search
  <2>7. ASSUME NEW s \in State, QueryStart(s) PROVE TypeOK'
    <3>1. <<s>> \in Seq(State)
      OBVIOUS
    <3>2. [NoCache EXCEPT ![s] = Adj(s)] \in [State -> SUBSET State]
      BY DEF NoCache, Adj
    <3>3. QED BY <2>7, <3>1, <3>2 DEF QueryStart, nfa, cache
  <2>8. ASSUME NEW v \in State, Descend(v) PROVE TypeOK'
    BY <2>8 DEF Descend, nfa, cache, Adj
  <2>9. ASSUME NEW v \in State, VisitSeen(v) PROVE TypeOK'
    <3>1. Top \in State
      BY <2>9, LenProperties DEF VisitSeen, Idle, Top
    <3>2. QED BY <2>9, <3>1 DEF VisitSeen, Callback, nfa
  <2>10. ASSUME Return PROVE TypeOK'
    <3>1. Top \in State /\ stack[Len(stack) - 1] \in State
      BY <2>10, LenProperties DEF Return, Top
    <3>2. stack' \in Seq(State)
      BY <2>10, FrontOf DEF Return
    <3>3. QED BY <2>10, <3>1, <3>2 DEF Return, Callback, nfa
  <2>11. ASSUME Finish PROVE TypeOK'
    <3>1. Top \in State
      BY <2>11, LenProperties DEF Finish, Top
    <3>2. <<>> \in Seq(State) /\ NoCache \in [State -> SUBSET State]
      BY EmptySeq DEF NoCache
    <3>3. QED BY <2>11, <3>1, <3>2 DEF Finish, nfa
  <2>12. ASSUME UNCHANGED vars PROVE TypeOK'
    BY <2>12 DEF vars, nfa, cache, search
  <2>13. QED
    BY <2>1, <2>2, <2>3, <2>4, <2>5, <2>6, <2>7, <2>8, <2>9, <2>10, <2>11, <2>12
       DEF Next, QueryStep, SearchStep
<1>3. QED BY <1>1, <1>2, PTL DEF Spec

-----------------------------------------------------------------------------
(* The search in progress.                                                 *)

IndInv == TypeOK /\ SearchInv

\* Nothing is visited while no search runs.
LEMMA IdleEmpty ==
  ASSUME IndInv, Idle
  PROVE  OnStack = {} /\ visited = {} /\ component = {} /\ todo = NoCache
<1>1. Len(stack) = 0 /\ OnStack = {}
  BY DEF Idle, OnStack, IndInv, TypeOK
<1>2. visited = {}
  BY <1>1 DEF IndInv, SearchInv, CoverInv
<1>3. component = {}
  BY <1>2 DEF IndInv, SearchInv, ComponentInv
<1>4. \A u \in State : todo[u] = {}
  BY <1>1 DEF IndInv, SearchInv, FrontierInv
<1>5. todo = NoCache
  BY <1>4 DEF IndInv, TypeOK, NoCache
<1>6. QED BY <1>1, <1>2, <1>3, <1>5

\* A change of the automaton between searches keeps the search invariant: only
\* the rows matter.
LEMMA MutationKeepsSearch ==
  ASSUME IndInv, Idle, TypeOK', UNCHANGED search, RowsInv'
  PROVE  SearchInv'
<1>1. OnStack = {} /\ visited = {} /\ component = {} /\ todo = NoCache
  BY IdleEmpty
<1>2. Len(stack) = 0 /\ stack = <<>>
  BY DEF Idle, IndInv, TypeOK
<1>3. OnStack' = {}
  BY <1>1 DEF OnStack, search
<1>4. PathInv' /\ TopInv'
  BY <1>2 DEF PathInv, TopInv, Idle, search
<1>5. FrontierInv' /\ CoverInv' /\ ComponentInv'
  BY <1>1, <1>3 DEF FrontierInv, CoverInv, ComponentInv, NoCache, search
<1>6. QED BY <1>4, <1>5 DEF SearchInv

\* The top of the stack is a visited state.
LEMMA TopVisited ==
  ASSUME IndInv, ~Idle
  PROVE  /\ Len(stack) \in Nat \ {0}
         /\ Top \in OnStack
         /\ Top \in visited
         /\ Top \in State
<1>1. Len(stack) \in Nat \ {0}
  BY LenProperties, EmptySeq DEF IndInv, TypeOK, Idle
<1>2. Len(stack) \in 1 .. Len(stack)
  BY <1>1
<1>3. Top \in OnStack
  BY <1>2 DEF OnStack, Top
<1>4. Top \in visited /\ Top \in State
  BY <1>2 DEF IndInv, TypeOK, SearchInv, PathInv, Top
<1>5. QED BY <1>1, <1>3, <1>4

\* A search begins with its root on the stack.
LEMMA QueryStartKeeps ==
  ASSUME IndInv, NEW s \in State, QueryStart(s), TypeOK'
  PROVE  SearchInv'
<1>1. stack' = <<s>> /\ Len(stack') = 1 /\ stack'[1] = s /\ ~Idle'
  BY DEF QueryStart, Idle
<1>2. OnStack' = {s}
  BY <1>1 DEF OnStack
<1>3. eps' = eps /\ rows' = rows /\ s \in rows /\ visited' = {s}
  BY DEF QueryStart, nfa
<1>4. RowsInv'
  BY <1>3 DEF IndInv, SearchInv, RowsInv
<1>5. PathInv'
  BY <1>1, <1>3 DEF PathInv
<1>6. todo' = [NoCache EXCEPT ![s] = Adj(s)]
  BY DEF QueryStart
<1>7. FrontierInv'
  BY <1>2, <1>3, <1>6 DEF FrontierInv, Adj, NoCache
<1>8. CoverInv'
  BY <1>2, <1>3 DEF CoverInv
<1>9. TopInv'
  BY <1>1, <1>3, <1>6 DEF TopInv, Top, Adj, NoCache
<1>10. ComponentInv'
  BY <1>2, <1>3 DEF QueryStart, ComponentInv
<1>11. QED BY <1>4, <1>5, <1>7, <1>8, <1>9, <1>10 DEF SearchInv

\* Entering a state puts it on the stack.
LEMMA DescendKeeps ==
  ASSUME IndInv, NEW v \in State, Descend(v), TypeOK'
  PROVE  SearchInv'
<1> DEFINE n == Len(stack)
<1>1. /\ n \in Nat \ {0}  /\ Top \in OnStack /\ Top \in visited /\ Top \in State
      /\ v \in todo[Top] /\ v \notin visited /\ v \in Adj(Top) /\ stack \in Seq(State)
  BY TopVisited DEF Descend, IndInv, SearchInv, FrontierInv, TypeOK
<1>2. /\ Len(stack') = n + 1 /\ stack'[n + 1] = v
      /\ \A i \in 1 .. n : stack'[i] = stack[i]
  BY <1>1, AppendProperties DEF Descend
<1>3. OnStack' = OnStack \cup {v} /\ Top' = v /\ ~Idle'
  <2>1. OnStack' = {stack'[i] : i \in 1 .. n + 1}
    BY <1>2 DEF OnStack
  <2>2. 1 .. n + 1 = (1 .. n) \cup {n + 1}
    BY <1>1
  <2>3. OnStack' = OnStack \cup {v}
    BY <2>1, <2>2, <1>2 DEF OnStack
  <2>4. QED BY <2>3, <1>1, <1>2, EmptySeq DEF Top, Idle
<1>4. /\ eps' = eps /\ rows' = rows /\ closures' = closures
      /\ visited' = visited \cup {v} /\ component' = component
      /\ hasCycle' = hasCycle
      /\ todo' = [todo EXCEPT ![Top] = @ \ {v}, ![v] = Adj(v)]
      /\ \A u \in State : Adj(u)' = Adj(u)
  BY DEF Descend, nfa, cache, Adj
<1>5. RowsInv'
  BY <1>4 DEF IndInv, SearchInv, RowsInv
<1>6. PathInv'
  <2>1. stack'[1] \in rows'
    BY <1>1, <1>2, <1>4 DEF IndInv, SearchInv, PathInv, Descend
  <2>2. ASSUME NEW i \in 1 .. n + 1 PROVE stack'[i] \in visited'
    BY <1>1, <1>2, <1>4, <2>2 DEF IndInv, SearchInv, PathInv
  <2>3. ASSUME NEW i \in 1 .. n + 1, i > 1 PROVE (stack[i] \in Adj(stack[i - 1]))'
    <3>1. CASE i = n + 1
      BY <1>1, <1>2, <1>4, <3>1 DEF Top, Adj
    <3>2. CASE i \in 1 .. n
      BY <1>1, <1>2, <1>4, <2>3, <3>2 DEF IndInv, SearchInv, PathInv, Adj
    <3>3. QED BY <1>1, <3>1, <3>2
  <2>4. QED BY <1>2, <2>1, <2>2, <2>3 DEF PathInv
<1>7. FrontierInv'
  <2>0. Top # v /\ todo \in [State -> SUBSET State]
    BY <1>1 DEF IndInv, TypeOK
  <2>1. ASSUME NEW u \in visited' PROVE Adj(u)' \subseteq visited' \cup todo'[u]
    <3>0. u \in State
      BY <1>4 DEF IndInv, TypeOK
    <3>1. CASE u = v
      BY <1>1, <1>4, <2>0, <3>1 DEF Adj
    <3>2. CASE u # v /\ u = Top
      BY <1>1, <1>4, <2>0, <3>2 DEF IndInv, SearchInv, FrontierInv
    <3>3. CASE u # v /\ u # Top
      BY <1>1, <1>4, <2>0, <3>0, <3>3 DEF IndInv, SearchInv, FrontierInv
    <3>4. QED BY <3>1, <3>2, <3>3
  <2>2. ASSUME NEW u \in State
        PROVE  /\ todo'[u] \subseteq Adj(u)'
               /\ u \notin OnStack' => todo'[u] = {}
    <3>1. todo[u] \subseteq Adj(u) /\ (u \notin OnStack => todo[u] = {})
      BY DEF IndInv, SearchInv, FrontierInv
    <3>2. CASE u = v
      BY <1>3, <1>4, <2>0, <3>2
    <3>3. CASE u # v
      BY <1>1, <1>3, <1>4, <2>0, <3>1, <3>3
    <3>4. QED BY <3>2, <3>3
  <2>3. QED BY <2>1, <2>2 DEF FrontierInv
<1>8. CoverInv'
  BY <1>3, <1>4 DEF IndInv, SearchInv, CoverInv
<1>9. TopInv'
  BY <1>1, <1>3, <1>4 DEF TopInv, IndInv, TypeOK
<1>10. ComponentInv'
  BY <1>3, <1>4 DEF IndInv, SearchInv, ComponentInv, Adj
<1>11. QED BY <1>5, <1>6, <1>7, <1>8, <1>9, <1>10 DEF SearchInv

\* What a callback does to the closures.
LEMMA CallbackEffect ==
  ASSUME TypeOK, NEW u \in State, NEW v \in State, u # v, Callback(u, v)
  PROVE  /\ closures'[u] = closures[u] \cup {u} \cup closures[v] \cup {v}
         /\ closures'[v] = closures[v] \cup {v}
         /\ \A w \in State \ {u, v} : closures'[w] = closures[w]
         /\ \A w \in State : closures[w] \subseteq closures'[w]
         /\ component' = component \cup {u, v}
         /\ hasCycle' = (hasCycle \/ v \in component)
BY DEF Callback, TypeOK

\* Walking an edge into a visited state.
LEMMA VisitSeenKeeps ==
  ASSUME IndInv, NEW v \in State, VisitSeen(v), TypeOK'
  PROVE  SearchInv'
<1>1. /\ Top \in OnStack /\ Top \in visited /\ Top \in State
      /\ v \in todo[Top] /\ v \in visited /\ v \in Adj(Top) /\ v # Top
      /\ todo \in [State -> SUBSET State] /\ visited \subseteq State
  BY TopVisited DEF VisitSeen, IndInv, SearchInv, FrontierInv, TypeOK, Adj
<1>2. /\ closures'[Top] = closures[Top] \cup {Top} \cup closures[v] \cup {v}
      /\ closures'[v] = closures[v] \cup {v}
      /\ \A w \in State \ {Top, v} : closures'[w] = closures[w]
      /\ \A w \in State : closures[w] \subseteq closures'[w]
      /\ component' = component \cup {Top, v}
      /\ hasCycle' = (hasCycle \/ v \in component)
  BY <1>1, CallbackEffect DEF VisitSeen, IndInv
<1>3. /\ stack' = stack /\ eps' = eps /\ rows' = rows /\ visited' = visited
      /\ todo' = [todo EXCEPT ![Top] = @ \ {v}]
      /\ OnStack' = OnStack /\ Top' = Top
      /\ \A u \in State : Adj(u)' = Adj(u)
  BY DEF VisitSeen, nfa, OnStack, Top, Adj
<1>4. RowsInv' /\ PathInv'
  BY <1>3 DEF IndInv, SearchInv, RowsInv, PathInv, Idle, Adj
<1>5. FrontierInv'
  <2>1. ASSUME NEW u \in visited PROVE Adj(u)' \subseteq visited' \cup todo'[u]
    <3>1. Adj(u) \subseteq visited \cup todo[u]
      BY DEF IndInv, SearchInv, FrontierInv
    <3>2. QED BY <1>1, <1>3, <3>1
  <2>2. ASSUME NEW u \in State
        PROVE  /\ todo'[u] \subseteq Adj(u)'
               /\ u \notin OnStack' => todo'[u] = {}
    <3>1. todo[u] \subseteq Adj(u) /\ (u \notin OnStack => todo[u] = {})
      BY DEF IndInv, SearchInv, FrontierInv
    <3>2. QED BY <1>1, <1>3, <3>1
  <2>3. QED BY <1>3, <2>1, <2>2 DEF FrontierInv
<1>6. CoverInv'
  <2>1. OnStack \subseteq State
    BY DEF IndInv, TypeOK, SearchInv, PathInv, OnStack
  <2>2. QED BY <1>2, <1>3, <2>1 DEF IndInv, SearchInv, CoverInv
<1>7. TopInv'
  BY <1>2, <1>3 DEF TopInv
<1>8. ComponentInv'
  BY <1>1, <1>2, <1>3 DEF IndInv, SearchInv, ComponentInv
<1>9. QED BY <1>4, <1>5, <1>6, <1>7, <1>8 DEF SearchInv

\* Leaving a state hands its closure to the state below it on the stack.
LEMMA ReturnKeeps ==
  ASSUME IndInv, Return, TypeOK'
  PROVE  SearchInv'
<1> DEFINE n == Len(stack)
           u == stack[n - 1]
<1>1. /\ n \in Nat /\ n > 1 /\ stack \in Seq(State) /\ ~Idle
      /\ Top \in OnStack /\ Top \in visited /\ Top \in State /\ Top = stack[n]
      /\ todo[Top] = {}
  BY TopVisited, EmptySeq, LenProperties DEF Return, IndInv, TypeOK, Idle, Top
<1>2. /\ u \in State /\ u \in visited /\ Top \in Adj(u) /\ Top # u
  BY <1>1 DEF IndInv, SearchInv, PathInv, TypeOK, Adj
<1>3. /\ closures'[u] = closures[u] \cup {u} \cup closures[Top] \cup {Top}
      /\ closures'[Top] = closures[Top] \cup {Top}
      /\ \A w \in State \ {u, Top} : closures'[w] = closures[w]
      /\ \A w \in State : closures[w] \subseteq closures'[w]
      /\ component' = component \cup {u, Top}
      /\ hasCycle' = (hasCycle \/ Top \in component)
  BY <1>1, <1>2, CallbackEffect DEF Return, IndInv
<1>4. /\ Len(stack') = n - 1
      /\ \A i \in 1 .. n - 1 : stack'[i] = stack[i]
  BY <1>1, FrontOf DEF Return
<1>5. /\ Top' = u /\ ~Idle' /\ u \in OnStack'
      /\ OnStack' \subseteq OnStack /\ OnStack \subseteq OnStack' \cup {Top}
  <2>1. OnStack' = {stack'[i] : i \in 1 .. n - 1}
    BY <1>4 DEF OnStack
  <2>2. 1 .. n = (1 .. n - 1) \cup {n} /\ n - 1 \in 1 .. n - 1
    BY <1>1
  <2>3. OnStack' \subseteq OnStack /\ OnStack \subseteq OnStack' \cup {Top}
    BY <2>1, <2>2, <1>1, <1>4 DEF OnStack
  <2>4. Top' = u /\ ~Idle' /\ u \in OnStack'
    BY <2>1, <2>2, <1>1, <1>4, EmptySeq DEF Top, Idle
  <2>5. QED BY <2>3, <2>4
<1>6. /\ eps' = eps /\ rows' = rows /\ visited' = visited /\ todo' = todo
      /\ \A w \in State : Adj(w)' = Adj(w)
  BY DEF Return, nfa, Adj
<1>7. RowsInv'
  BY <1>6 DEF IndInv, SearchInv, RowsInv
<1>8. PathInv'
  <2>1. /\ stack[1] \in rows
        /\ \A i \in 1 .. n : stack[i] \in visited
        /\ \A i \in 1 .. n : i > 1 => stack[i] \in eps[stack[i - 1]] \ {stack[i - 1]}
    BY <1>1 DEF IndInv, SearchInv, PathInv, Adj
  <2>2. /\ stack'[1] \in rows'
        /\ \A i \in 1 .. n - 1 : stack'[i] \in visited'
        /\ \A i \in 1 .. n - 1 :
             i > 1 => stack'[i] \in eps'[stack'[i - 1]] \ {stack'[i - 1]}
    BY <1>1, <1>4, <1>6, <2>1
  <2>3. QED BY <1>4, <2>2 DEF PathInv, Adj
<1>9. FrontierInv'
  BY <1>1, <1>5, <1>6 DEF IndInv, SearchInv, FrontierInv, TypeOK
<1>10. CoverInv'
  <2>1. OnStack \subseteq State
    BY DEF IndInv, TypeOK, SearchInv, PathInv, OnStack
  <2>2. ASSUME NEW w \in visited
        PROVE  w \in OnStack' \/ \E x \in OnStack' : w \in closures'[x]
    <3>1. CASE w \in OnStack
      BY <1>3, <1>5, <3>1
    <3>2. CASE \E x \in OnStack : w \in closures[x]
      BY <1>3, <1>5, <2>1, <3>2
    <3>3. QED BY <3>1, <3>2 DEF IndInv, SearchInv, CoverInv
  <2>3. QED BY <1>6, <2>2 DEF CoverInv
<1>11. TopInv'
  BY <1>3, <1>5 DEF TopInv
<1>12. ComponentInv'
  <2>1. \A w \in component' : w \in visited' /\ w \in closures'[w]
    BY <1>1, <1>2, <1>3, <1>6 DEF IndInv, SearchInv, ComponentInv, TypeOK
  <2>2. ASSUME ~hasCycle', NEW w \in visited' \ OnStack' PROVE Adj(w)' = {}
    <3>1. ~hasCycle /\ Top \notin component /\ w \in visited /\ w \in State
      BY <1>3, <1>6, <2>2 DEF IndInv, TypeOK
    <3>2. CASE w = Top
      BY <1>1, <1>6, <3>1, <3>2 DEF IndInv, SearchInv, TopInv
    <3>3. CASE w # Top
      BY <1>5, <1>6, <2>2, <3>1, <3>3 DEF IndInv, SearchInv, ComponentInv
    <3>4. QED BY <3>2, <3>3
  <2>3. QED BY <2>1, <2>2 DEF ComponentInv
<1>13. QED BY <1>7, <1>8, <1>9, <1>10, <1>11, <1>12 DEF SearchInv

\* The end of a search leaves nothing visited.
LEMMA FinishKeeps ==
  ASSUME IndInv, Finish, TypeOK'
  PROVE  SearchInv'
<1>1. /\ stack' = <<>> /\ Len(stack') = 0 /\ visited' = {} /\ component' = {}
      /\ todo' = NoCache /\ eps' = eps /\ rows' = rows
  BY DEF Finish, nfa
<1>2. RowsInv' /\ PathInv' /\ CoverInv' /\ TopInv' /\ ComponentInv'
  BY <1>1 DEF IndInv, SearchInv, RowsInv, PathInv, CoverInv, TopInv,
              ComponentInv, Idle
<1>3. FrontierInv'
  BY <1>1 DEF FrontierInv, NoCache
<1>4. QED BY <1>2, <1>3 DEF SearchInv

\* Steps that only read the rows, or write them between searches.
LEMMA RowsKept ==
  ASSUME IndInv, TypeOK', Next
  PROVE  RowsInv'
<1> USE DEF RowsInv, IndInv, TypeOK, SearchInv
<1>1. CASE UNCHANGED nfa
  BY <1>1 DEF nfa
<1>2. ASSUME NEW s \in State, AddNewState(s) PROVE RowsInv'
  BY <1>2 DEF AddNewState
<1>3. ASSUME NEW s \in State, NEW T \in SUBSET State,
             \/ AddEpsilonTransition(s, T)
             \/ ReplaceEpsilonTransition(s, T)
             \/ ReplaceThrows(s, T)
      PROVE  RowsInv'
  BY <1>3 DEF AddEpsilonTransition, ReplaceEpsilonTransition, ReplaceThrows,
              MergeAndClear
<1>4. ASSUME NEW m \in Automata, AddSubNFA(m) PROVE RowsInv'
  <2>1. \A s \in State : s \notin m.rows => m.eps[s] = {}
    BY AutomataAssumption DEF Automaton
  <2>2. QED BY <1>4, <2>1 DEF AddSubNFA
<1>5. ASSUME QueryStep PROVE UNCHANGED nfa
  BY <1>5 DEF QueryStep, QueryTrivial, QueryStart, SearchStep, Descend, VisitSeen,
              Return, Finish
<1>6. QED BY <1>1, <1>2, <1>3, <1>4, <1>5 DEF Next

\* The search invariant is inductive.
LEMMA SearchStepInv ==
  ASSUME IndInv, TypeOK', [Next]_vars
  PROVE  SearchInv'
<1>1. ASSUME NEW s \in State, AddNewState(s), RowsInv' PROVE SearchInv'
  BY <1>1, MutationKeepsSearch DEF AddNewState
<1>2. ASSUME NEW s \in State, NEW T \in SUBSET State, RowsInv',
             \/ AddEpsilonTransition(s, T)
             \/ ReplaceEpsilonTransition(s, T)
             \/ ReplaceThrows(s, T)
      PROVE  SearchInv'
  BY <1>2, MutationKeepsSearch
     DEF AddEpsilonTransition, ReplaceEpsilonTransition, ReplaceThrows, MergeAndClear
<1>3. ASSUME NEW m \in Automata, AddSubNFA(m), RowsInv' PROVE SearchInv'
  BY <1>3, MutationKeepsSearch DEF AddSubNFA
<1>4. ASSUME NEW s \in State, QueryTrivial(s), RowsInv' PROVE SearchInv'
  BY <1>4, MutationKeepsSearch DEF QueryTrivial
<1>5. CASE UNCHANGED vars
  BY <1>5 DEF vars, nfa, cache, search, IndInv, SearchInv, RowsInv, PathInv,
              FrontierInv, CoverInv, TopInv, ComponentInv, OnStack, Top, Idle, Adj
<1>6. CASE Next
  <2>1. RowsInv'
    BY <1>6, RowsKept
  <2>2. QED
    BY <1>1, <1>2, <1>3, <1>4, <1>6, <2>1, QueryStartKeeps, DescendKeeps,
       VisitSeenKeeps, ReturnKeeps, FinishKeeps DEF Next, QueryStep, SearchStep
<1>7. QED BY <1>5, <1>6

\* The depth-first search keeps its stack a path of the graph, never loses an edge
\* out of a visited state, and has carried into the closures on the stack
\* everything it has visited.
THEOREM SearchCorrect == Spec => []SearchInv
<1>1. Init => SearchInv
  <2> SUFFICES ASSUME Init PROVE SearchInv
    OBVIOUS
  <2>1. PICK m \in Automata : states = m.states /\ rows = m.rows /\ eps = m.eps
    BY DEF Init
  <2>2. RowsInv
    BY <2>1, AutomataAssumption DEF RowsInv, Automaton
  <2>3. Len(stack) = 0 /\ Idle
    BY DEF Init, Idle
  <2>4. QED
    BY <2>2, <2>3 DEF Init, SearchInv, PathInv, FrontierInv, CoverInv, TopInv,
                      ComponentInv, NoCache
<1>2. TypeOK /\ TypeOK' /\ SearchInv /\ [Next]_vars => SearchInv'
  BY SearchStepInv DEF IndInv
<1>3. QED BY <1>1, <1>2, TypeCorrect, PTL DEF Spec

-----------------------------------------------------------------------------
(* The caches.                                                             *)

\* A callback adds only what its edge reaches.
LEMMA CallbackSound ==
  ASSUME IndInv, NEW u \in State, NEW v \in Adj(u), Callback(u, v),
         \A s \in State : closures[s] \subseteq Reach(s), eps' = eps
  PROVE  \A s \in State : closures'[s] \subseteq ReachBy(eps, s)
<1>1. /\ eps \in Edges /\ v \in eps[u] /\ v \in State /\ u # v
  BY DEF IndInv, TypeOK, Edges, Adj
<1>2. /\ closures'[u] = closures[u] \cup {u} \cup closures[v] \cup {v}
      /\ closures'[v] = closures[v] \cup {v}
      /\ \A w \in State \ {u, v} : closures'[w] = closures[w]
  BY <1>1, CallbackEffect DEF IndInv
<1>3. /\ u \in ReachBy(eps, u) /\ v \in ReachBy(eps, v)
      /\ ReachBy(eps, v) \subseteq ReachBy(eps, u)
  BY <1>1, ReachSelf, ReachStep
<1>4. QED BY <1>1, <1>2, <1>3 DEF Reach

\* Soundness is inductive.
LEMMA SoundStep ==
  ASSUME IndInv, Sound, TypeOK', [Next]_vars
  PROVE  Sound'
<1> USE DEF Sound, Reach
<1>0. eps \in Edges /\ eps' \in Edges
  BY DEF IndInv, TypeOK, Edges
<1>1. CASE UNCHANGED <<eps, closures, drift>>
  BY <1>1
<1>2. CASE closures' = NoCache
  BY <1>2 DEF NoCache
<1>3. ASSUME NEW s \in State, NEW T \in SUBSET State, ReplaceThrows(s, T)
      PROVE  Sound'
  <2>1. closures' = closures
    BY <1>3 DEF ReplaceThrows, cache
  <2>2. CASE CacheEmpty
    BY <2>1, <2>2, <1>2 DEF CacheEmpty
  <2>3. CASE eps' = eps
    BY <2>1, <2>3, <1>1, <1>3 DEF ReplaceThrows
  <2>4. CASE ~CacheEmpty /\ eps' # eps
    BY <2>4, <1>3 DEF ReplaceThrows
  <2>5. QED BY <2>2, <2>3, <2>4
<1>4. ASSUME NEW m \in Automata, AddSubNFA(m)
      PROVE  Sound'
  <2>1. closures' = closures /\ drift \subseteq drift'
    BY <1>4 DEF AddSubNFA, cache
  <2>2. \A u \in State : eps[u] \subseteq eps'[u]
    BY <1>4 DEF AddSubNFA
  <2>3. \A s \in State : ReachBy(eps, s) \subseteq ReachBy(eps', s)
    BY <1>0, <2>2, ReachMonotone
  <2>4. QED BY <2>1, <2>3
<1>5. ASSUME NEW s \in State, QueryTrivial(s)
      PROVE  Sound'
  <2>1. /\ eps' = eps /\ drift' = drift
        /\ closures' = [closures EXCEPT ![s] = @ \cup {s}]
    BY <1>5 DEF QueryTrivial, nfa
  <2>2. s \in ReachBy(eps, s)
    BY <1>0, ReachSelf
  <2>3. QED BY <2>1, <2>2 DEF IndInv, TypeOK
<1>6. ASSUME NEW v \in State, VisitSeen(v)
      PROVE  Sound'
  <2>1. Top \in State /\ v \in Adj(Top)
    BY <1>6, TopVisited DEF VisitSeen, IndInv, SearchInv, FrontierInv
  <2>2. Callback(Top, v) /\ eps' = eps /\ drift' = drift
    BY <1>6 DEF VisitSeen, nfa
  <2>3. QED BY <2>1, <2>2, CallbackSound
<1>7. ASSUME Return
      PROVE  Sound'
  <2>1. Len(stack) \in Nat /\ Len(stack) > 1 /\ stack \in Seq(State)
    BY <1>7, LenProperties DEF Return, IndInv, TypeOK
  <2>2. stack[Len(stack) - 1] \in State /\ Top \in Adj(stack[Len(stack) - 1])
    BY <2>1 DEF IndInv, SearchInv, PathInv, TypeOK, Top
  <2>3. Callback(stack[Len(stack) - 1], Top) /\ eps' = eps /\ drift' = drift
    BY <1>7 DEF Return, nfa
  <2>4. QED BY <2>2, <2>3, CallbackSound
<1>8. ASSUME NEW s \in State, AddNewState(s) \/ QueryStart(s) \/ Descend(s)
      PROVE  UNCHANGED <<eps, closures, drift>>
  BY <1>8 DEF AddNewState, QueryStart, Descend, nfa, cache
<1>9. ASSUME Finish \/ UNCHANGED vars
      PROVE  UNCHANGED <<eps, closures, drift>>
  BY <1>9 DEF Finish, vars, nfa, cache
<1>10. ASSUME NEW s \in State, NEW T \in SUBSET State,
              AddEpsilonTransition(s, T) \/ ReplaceEpsilonTransition(s, T)
       PROVE  closures' = NoCache
  BY <1>10 DEF AddEpsilonTransition, ReplaceEpsilonTransition, MergeAndClear
<1>11. QED
  BY <1>1, <1>2, <1>3, <1>4, <1>5, <1>6, <1>7, <1>8, <1>9, <1>10
     DEF Next, QueryStep, SearchStep

\* No cached closure holds a state that epsilon edges do not reach, unless a
\* failed replacement took edges away behind the caches.
THEOREM SoundClosures == Spec => []Sound
<1>1. Init => Sound
  BY DEF Init, Sound, NoCache
<1>2. TypeOK /\ SearchInv /\ TypeOK' /\ Sound /\ [Next]_vars => Sound'
  BY SoundStep DEF IndInv
<1>3. QED BY <1>1, <1>2, TypeCorrect, SearchCorrect, PTL DEF Spec

\* A state without epsilon edges to others reaches only itself.
LEMMA ReachAlone ==
  ASSUME TypeOK, NEW s \in State, Adj(s) = {}
  PROVE  Reach(s) = {s}
<1>1. eps \in Edges /\ eps[s] \subseteq {s} /\ {s} \in SUBSET State
  BY DEF TypeOK, Edges, Adj
<1>2. ReachBy(eps, s) \subseteq {s}
  BY <1>1, ReachLeast
<1>3. QED BY <1>1, <1>2, ReachSelf DEF Reach

\* When the search is back at its root with no edge left, the closure of the root
\* is complete unless its row is hollow, and so are those of the component if no
\* cycle was noticed.
LEMMA FinishExact ==
  ASSUME IndInv, Len(stack) = 1, todo[Top] = {}
  PROVE  /\ ~Hollow(Top) => Reach(Top) \subseteq closures[Top]
         /\ ~hasCycle => \A v \in component \ {Top} :
                           Reach(v) = {v} /\ v \in closures[v]
<1>1. ~Idle /\ OnStack = {Top} /\ Top = stack[1]
  BY EmptySeq DEF Idle, OnStack, Top
<1>2. Top \in visited /\ Top \in State /\ Top \in rows
  BY <1>1, TopVisited DEF IndInv, SearchInv, PathInv
<1>3. eps \in Edges /\ visited \in SUBSET State
  BY DEF IndInv, TypeOK, Edges
<1>4. \A u \in visited : eps[u] \subseteq visited
  <2> SUFFICES ASSUME NEW u \in visited PROVE eps[u] \subseteq visited
    OBVIOUS
  <2>1. todo[u] = {} /\ Adj(u) \subseteq visited \cup todo[u]
    BY <1>1, <1>3 DEF IndInv, SearchInv, FrontierInv
  <2>2. QED BY <2>1 DEF Adj
<1>5. Reach(Top) \subseteq visited
  BY <1>2, <1>3, <1>4, ReachLeast DEF Reach
<1>6. visited \subseteq {Top} \cup closures[Top]
  BY <1>1 DEF IndInv, SearchInv, CoverInv
<1>7. ~Hollow(Top) => Top \in closures[Top]
  BY <1>1, <1>2 DEF Hollow, IndInv, SearchInv, TopInv, ComponentInv
<1>8. ASSUME ~hasCycle, NEW v \in component \ {Top}
      PROVE  Reach(v) = {v} /\ v \in closures[v]
  <2>1. v \in visited /\ v \in closures[v] /\ v \in State /\ Adj(v) = {}
    BY <1>1, <1>3, <1>8 DEF IndInv, SearchInv, ComponentInv
  <2>2. QED BY <2>1, ReachAlone DEF IndInv
<1>9. QED BY <1>5, <1>6, <1>7, <1>8

\* A query leaves the automaton alone, and closures only grow.
LEMMA QueryGrows ==
  ASSUME IndInv, QueryStep
  PROVE  /\ UNCHANGED <<nfa, drift>>
         /\ refresh \subseteq refresh'
         /\ \A s \in State : closures[s] \subseteq closures'[s]
<1>1. UNCHANGED <<nfa, drift>> /\ refresh \subseteq refresh'
  BY DEF QueryStep, QueryTrivial, QueryStart, SearchStep, Descend, VisitSeen,
         Return, Finish, cache
<1>2. ASSUME NEW s \in State, QueryTrivial(s)
      PROVE  \A t \in State : closures[t] \subseteq closures'[t]
  BY <1>2 DEF QueryTrivial, IndInv, TypeOK
<1>3. ASSUME NEW u \in State, NEW v \in State, Callback(u, v)
      PROVE  \A t \in State : closures[t] \subseteq closures'[t]
  BY <1>3 DEF Callback, IndInv, TypeOK
<1>4. ASSUME NEW v \in State, VisitSeen(v) PROVE Top \in State
  BY <1>4, TopVisited DEF VisitSeen
<1>5. ASSUME Return PROVE Top \in State /\ stack[Len(stack) - 1] \in State
  BY <1>5, LenProperties DEF Return, Top, IndInv, TypeOK
<1>6. QED
  BY <1>1, <1>2, <1>3, <1>4, <1>5
     DEF QueryStep, QueryStart, SearchStep, Descend, VisitSeen, Return, Finish, cache

\* A closure that becomes served is complete at that moment.
LEMMA NewlyServed ==
  ASSUME IndInv, QueryStep, NEW s \in refresh' \ refresh
  PROVE  /\ s \in State
         /\ ~Hollow(s) => Reach(s) \subseteq closures'[s]
         /\ stack # <<s>> => Reach(s) = {s} /\ s \in closures'[s]
<1>1. CASE \E t \in State : QueryTrivial(t)
  <2>1. /\ s \in State \ rows
        /\ closures' = [closures EXCEPT ![s] = @ \cup {s}]
    BY <1>1 DEF QueryTrivial
  <2>2. Adj(s) = {}
    BY <2>1 DEF IndInv, SearchInv, RowsInv, Adj
  <2>3. QED BY <2>1, <2>2, ReachAlone DEF IndInv, TypeOK
<1>2. CASE Finish
  <2>1. /\ Len(stack) = 1 /\ todo[Top] = {} /\ closures' = closures
        /\ s \in {Top} \cup (IF hasCycle THEN {} ELSE component)
    BY <1>2 DEF Finish
  <2>2. Top \in State /\ stack = <<Top>> /\ component \subseteq State
    <3>1. stack \in Seq(State)
      BY DEF IndInv, TypeOK
    <3>2. ~Idle
      BY <2>1, EmptySeq DEF Idle
    <3>3. stack = <<stack[1]>>
      BY <2>1, <3>1
    <3>4. QED BY <2>1, <3>2, <3>3, TopVisited DEF Top, IndInv, TypeOK
  <2>3. QED BY <2>1, <2>2, FinishExact
<1>3. CASE UNCHANGED refresh
  BY <1>3
<1>4. QED
  BY <1>1, <1>2, <1>3
     DEF QueryStep, QueryStart, SearchStep, Descend, VisitSeen, Return, cache

\* Completeness is inductive.
LEMMA CompleteStep ==
  ASSUME IndInv, Complete, TypeOK', [Next]_vars
  PROVE  Complete'
<1> USE DEF Complete
<1>1. CASE refresh' = {}
  BY <1>1
<1>2. CASE /\ UNCHANGED <<eps, cache>> /\ rows \subseteq rows'
           /\ drift' = {} => drift = {}
  BY <1>2 DEF Hollow, Reach, Adj, cache
<1>3. ASSUME NEW s \in State, NEW T \in SUBSET State, ReplaceThrows(s, T)
      PROVE  Complete'
  BY <1>3, <1>1, <1>2 DEF ReplaceThrows, CacheEmpty, cache
<1>4. ASSUME NEW m \in Automata, AddSubNFA(m)
      PROVE  Complete'
  BY <1>4, <1>1, <1>2 DEF AddSubNFA, CacheEmpty, cache
<1>5. CASE QueryStep
  <2>1. SUFFICES ASSUME drift' = {}, NEW s \in refresh', ~Hollow(s)'
                 PROVE  Reach(s)' \subseteq closures'[s]
    OBVIOUS
  <2>2. /\ drift = {} /\ eps' = eps /\ rows' = rows
        /\ \A t \in State : closures[t] \subseteq closures'[t]
    BY <1>5, <2>1, QueryGrows DEF nfa
  <2>3. ~Hollow(s) /\ Reach(s)' = Reach(s)
    BY <2>1, <2>2 DEF Hollow, Reach, Adj
  <2>4. CASE s \in refresh
    BY <2>2, <2>3, <2>4 DEF IndInv, TypeOK
  <2>5. CASE s \notin refresh
    BY <1>5, <2>1, <2>3, <2>5, NewlyServed
  <2>6. QED BY <2>4, <2>5
<1>6. ASSUME NEW s \in State, AddNewState(s)
      PROVE  Complete'
  BY <1>6, <1>2 DEF AddNewState
<1>7. ASSUME NEW s \in State, NEW T \in SUBSET State,
             AddEpsilonTransition(s, T) \/ ReplaceEpsilonTransition(s, T)
      PROVE  Complete'
  BY <1>7, <1>1 DEF AddEpsilonTransition, ReplaceEpsilonTransition, MergeAndClear
<1>8. CASE UNCHANGED vars
  BY <1>8, <1>2 DEF vars, nfa
<1>9. QED
  BY <1>3, <1>4, <1>5, <1>6, <1>7, <1>8 DEF Next

\* A closure served from the cache is complete, unless rows were merged in behind
\* the caches or the row of the state adds no edge.
THEOREM CompleteClosures == Spec => []Complete
<1>1. Init => Complete
  BY DEF Init, Complete
<1>2. TypeOK /\ SearchInv /\ TypeOK' /\ Complete /\ [Next]_vars => Complete'
  BY CompleteStep DEF IndInv
<1>3. QED BY <1>1, <1>2, TypeCorrect, SearchCorrect, PTL DEF Spec

\* A closure a caller holds by reference does not change while other states are
\* queried.
THEOREM ServedStays == Spec => ServedIsStable
<1>1. TypeOK /\ SearchInv /\ Sound /\ Complete /\ Sound' /\ [Next]_vars
      => [ drift = {} /\ QueryStep =>
             \A s \in refresh : /\ s \in refresh'
                                /\ ~Hollow(s) => closures'[s] = closures[s] ]_vars
  <2> SUFFICES ASSUME TypeOK, SearchInv, Sound, Complete, Sound', drift = {},
                      QueryStep, NEW s \in refresh
               PROVE  s \in refresh' /\ (~Hollow(s) => closures'[s] = closures[s])
    OBVIOUS
  <2>1. /\ eps' = eps /\ drift' = {} /\ s \in refresh' /\ s \in State
        /\ closures[s] \subseteq closures'[s]
    BY QueryGrows DEF IndInv, nfa, TypeOK
  <2>2. closures'[s] \subseteq Reach(s)
    BY <2>1 DEF Sound, Reach
  <2>3. ~Hollow(s) => Reach(s) \subseteq closures[s]
    BY DEF Complete
  <2>4. QED BY <2>1, <2>2, <2>3
<1>2. QED
  BY <1>1, TypeCorrect, SearchCorrect, SoundClosures, CompleteClosures, PTL
     DEF Spec, ServedIsStable
=============================================================================

--------------------------- MODULE EpsilonClosure ---------------------------
(***************************************************************************)
(* The epsilon transitions of an NFA and the lazily filled closures that   *)
(* NFA::get_epsilon_closure keeps beside them.                             *)
(*                                                                         *)
(* The depth-first search that fills the closures is modelled edge by      *)
(* edge, with any order among the edges of a vertex: the graph library     *)
(* walks an adjacency list whose order the rows (unordered_map) decide.    *)
(* Its callback runs once for every edge, after the subtree below the edge *)
(* has been searched; get_epsilon_closure counts on that, since it is the  *)
(* callback on an edge into a vertex already seen that finds a cycle.      *)
(*                                                                         *)
(* The state is that of one NFA object: states, the rows present in        *)
(* epsilon_transition_function, their contents eps, the two caches, and    *)
(* the locals of a search in progress. The object is not shared between    *)
(* threads, so no mutator runs while a search is in progress.              *)
(***************************************************************************)
EXTENDS Naturals, Sequences

CONSTANTS State,    \* the state numbers a caller may use
          Automata  \* the automata constructed, or passed to add_sub_NFA

\* Well-formed automata: a row may be present and empty, a state without a row
\* has no epsilon edge, and rows name states of the automaton.
Automaton ==
  {m \in [states : SUBSET State, rows : SUBSET State,
          eps : [State -> SUBSET State]] :
     /\ m.states # {}
     /\ m.rows \subseteq m.states
     /\ \A s \in State : /\ m.eps[s] \subseteq m.states
                         /\ s \notin m.rows => m.eps[s] = {}}

ASSUME AutomataAssumption == Automata \subseteq Automaton

VARIABLES
  states,     \* finite_automaton::states
  rows,       \* the keys of epsilon_transition_function
  eps,        \* its values, {} where there is no key
  closures,   \* epsilon_closures, {} where there is no key
  refresh,    \* epsilon_closure_refresh: the states whose closure is served
  stack,      \* the vertices the search is inside of, its root first
  todo,       \* the edges of each visited vertex not walked yet
  visited,    \* the vertices the search has entered
  component,  \* connect_component
  hasCycle,   \* has_cycle
  drift       \* history: how eps moved away from what the caches were built on

nfa == <<states, rows, eps>>
cache == <<closures, refresh>>
search == <<stack, todo, visited, component, hasCycle>>
vars == <<nfa, cache, search, drift>>

TypeOK ==
  /\ states \in SUBSET State
  /\ rows \in SUBSET State
  /\ eps \in [State -> SUBSET State]
  /\ \A s \in State : eps[s] \subseteq states
  /\ closures \in [State -> SUBSET State]
  /\ refresh \in SUBSET State
  /\ stack \in Seq(State)
  /\ todo \in [State -> SUBSET State]
  /\ visited \in SUBSET State
  /\ component \in SUBSET State
  /\ hasCycle \in BOOLEAN
  /\ drift \in SUBSET {"grown", "shrunk"}

-----------------------------------------------------------------------------
\* The edges of epsilon_graph: self loops are left out.
Adj(s) == eps[s] \ {s}

\* A state is a vertex of epsilon_graph when an edge leaves or enters it.
IsVertex(s) == Adj(s) # {} \/ \E u \in State : s \in Adj(u)

\* A row that is present and adds no edge to the graph.
Hollow(s) == s \in rows /\ Adj(s) = {}

\* The sets of states that contain s and are closed under the epsilon edges e.
ClosedFrom(e, s) ==
  {C \in SUBSET State : s \in C /\ \A u \in C : e[u] \subseteq C}

\* The reference definition: the epsilon closure of s is the least such set.
ReachBy(e, s) == {t \in State : \A C \in ClosedFrom(e, s) : t \in C}
Reach(s) == ReachBy(eps, s)

NoCache == [s \in State |-> {}]
CacheEmpty == closures = NoCache /\ refresh = {}

Idle == stack = <<>>
Top == stack[Len(stack)]

-----------------------------------------------------------------------------
Init ==
  /\ \E m \in Automata : states = m.states /\ rows = m.rows /\ eps = m.eps
  /\ closures = NoCache
  /\ refresh = {}
  /\ stack = <<>>
  /\ todo = NoCache
  /\ visited = {}
  /\ component = {}
  /\ hasCycle = FALSE
  /\ drift = {}

\* finite_automaton::add_new_state(s), and add_new_state() for one value of s.
AddNewState(s) ==
  /\ Idle
  /\ states' = states \cup {s}
  /\ UNCHANGED <<rows, eps, cache, search, drift>>

\* Mutant of MergeAndClear: the closures computed so far are kept.
MergeAndClear_KeepClosures(s, old, T) ==
  /\ rows' = rows \cup {s}
  /\ eps' = [eps EXCEPT ![s] = old \cup T]
  /\ refresh' = {}
  /\ drift' = {}
  /\ UNCHANGED <<states, closures, search>>

\* Mutant of MergeAndClear: states stay marked as refreshed.
MergeAndClear_KeepRefresh(s, old, T) ==
  /\ rows' = rows \cup {s}
  /\ eps' = [eps EXCEPT ![s] = old \cup T]
  /\ closures' = NoCache
  /\ drift' = {}
  /\ UNCHANGED <<states, refresh, search>>

\* The body of add_epsilon_transition past its two checks.
MergeAndClear(s, old, T) ==
  /\ rows' = rows \cup {s}
  /\ eps' = [eps EXCEPT ![s] = old \cup T]
  /\ closures' = NoCache
  /\ refresh' = {}
  /\ drift' = {}
  /\ UNCHANGED <<states, search>>

\* add_epsilon_transition(s, T); with a missing state it throws and changes
\* nothing.
AddEpsilonTransition(s, T) ==
  /\ Idle
  /\ {s} \cup T \subseteq states
  /\ MergeAndClear(s, eps[s], T)

\* replace_epsilon_transition(s, T) with every state present.
ReplaceEpsilonTransition(s, T) ==
  /\ Idle
  /\ {s} \cup T \subseteq states
  /\ MergeAndClear(s, {}, T)

\* replace_epsilon_transition(s, T) naming a state that does not exist: the
\* row has been made and cleared when add_epsilon_transition throws, and the
\* caches have not.
ReplaceThrows(s, T) ==
  /\ Idle
  /\ ~({s} \cup T \subseteq states)
  /\ rows' = rows \cup {s}
  /\ eps' = [eps EXCEPT ![s] = {}]
  /\ drift' = IF CacheEmpty \/ eps' = eps THEN drift ELSE drift \cup {"shrunk"}
  /\ UNCHANGED <<states, cache, search>>

\* add_sub_NFA(m): the rows of m are merged in; the caches are left alone.
AddSubNFA(m) ==
  /\ Idle
  /\ states' = states \cup m.states
  /\ rows' = rows \cup m.rows
  /\ eps' = [s \in State |-> eps[s] \cup m.eps[s]]
  /\ drift' = IF CacheEmpty \/ eps' = eps THEN drift ELSE drift \cup {"grown"}
  /\ UNCHANGED <<cache, search>>

\* get_epsilon_closure(s) for a state without a row. The closure of a state
\* already in refresh is served without a change of state.
QueryTrivial(s) ==
  /\ Idle
  /\ s \in states \ (refresh \cup rows)
  /\ refresh' = refresh \cup {s}
  /\ closures' = [closures EXCEPT ![s] = @ \cup {s}]
  /\ UNCHANGED <<nfa, search, drift>>

\* get_epsilon_closure(s) up to the first edge of the search. A state that is
\* no vertex of the graph makes get_vertex_index throw: nothing is changed.
QueryStart(s) ==
  /\ Idle
  /\ s \in (states \cap rows) \ refresh
  /\ IsVertex(s)
  /\ stack' = <<s>>
  /\ todo' = [NoCache EXCEPT ![s] = Adj(s)]
  /\ visited' = {s}
  /\ component' = {}
  /\ hasCycle' = FALSE
  /\ UNCHANGED <<nfa, cache, drift>>

\* The callback on the edge from u to v, two different states.
Callback(u, v) ==
  /\ hasCycle' = (hasCycle \/ v \in component)
  /\ component' = component \cup {u, v}
  /\ closures' = [closures EXCEPT ![u] = @ \cup {u} \cup closures[v] \cup {v},
                                  ![v] = @ \cup {v}]

\* The search walks an edge into a vertex it has not entered.
Descend(v) ==
  /\ ~Idle
  /\ v \in todo[Top] \ visited
  /\ stack' = Append(stack, v)
  /\ visited' = visited \cup {v}
  /\ todo' = [todo EXCEPT ![Top] = @ \ {v}, ![v] = Adj(v)]
  /\ UNCHANGED <<nfa, cache, component, hasCycle, drift>>

\* Mutant of VisitSeen: the search does not move past the edge.
VisitSeen_SameEdge(v) ==
  /\ ~Idle
  /\ v \in todo[Top] \cap visited
  /\ Callback(Top, v)
  /\ UNCHANGED <<nfa, refresh, stack, visited, todo, drift>>

\* An edge into a vertex already entered: only the callback runs.
VisitSeen(v) ==
  /\ ~Idle
  /\ v \in todo[Top] \cap visited
  /\ todo' = [todo EXCEPT ![Top] = @ \ {v}]
  /\ Callback(Top, v)
  /\ UNCHANGED <<nfa, refresh, stack, visited, drift>>

\* The subtree below the last edge is done: the callback runs for that edge.
Return ==
  /\ Len(stack) > 1
  /\ todo[Top] = {}
  /\ stack' = SubSeq(stack, 1, Len(stack) - 1)
  /\ Callback(stack[Len(stack) - 1], Top)
  /\ UNCHANGED <<nfa, refresh, todo, visited, drift>>

\* Mutant of Finish: the component is marked whether or not it has a cycle.
Finish_MarkAll ==
  /\ Len(stack) = 1
  /\ todo[Top] = {}
  /\ refresh' = refresh \cup {Top} \cup component
  /\ stack' = <<>>
  /\ todo' = NoCache
  /\ visited' = {}
  /\ component' = {}
  /\ hasCycle' = FALSE
  /\ UNCHANGED <<nfa, closures, drift>>

\* The search is over and get_epsilon_closure returns closures[root]. The
\* locals of the search go out of scope.
Finish ==
  /\ Len(stack) = 1
  /\ todo[Top] = {}
  /\ refresh' = refresh \cup {Top} \cup (IF hasCycle THEN {} ELSE component)
  /\ stack' = <<>>
  /\ todo' = NoCache
  /\ visited' = {}
  /\ component' = {}
  /\ hasCycle' = FALSE
  /\ UNCHANGED <<nfa, closures, drift>>

SearchStep ==
  \/ \E v \in State : Descend(v) \/ VisitSeen(v)
  \/ Return
  \/ Finish

QueryStep == SearchStep \/ \E s \in State : QueryTrivial(s) \/ QueryStart(s)

Next ==
  \/ \E s \in State :
       \/ AddNewState(s)
       \/ \E T \in SUBSET State : \/ AddEpsilonTransition(s, T)
                                  \/ ReplaceEpsilonTransition(s, T)
                                  \/ ReplaceThrows(s, T)
  \/ \E m \in Automata : AddSubNFA(m)
  \/ QueryStep

Spec == Init /\ [][Next]_vars

\* A search that has begun runs to its end: it is one call of the code.
FairSpec == Spec /\ WF_vars(SearchStep)

-----------------------------------------------------------------------------
\* What a search in progress keeps true, the strengthening that makes Sound and
\* Complete inductive.

\* A state without a row has no edges.
RowsInv == \A s \in State \ rows : eps[s] = {}

\* The stack is a path of the graph from a state that has a row.
PathInv ==
  /\ ~Idle => stack[1] \in rows
  /\ \A i \in 1 .. Len(stack) : stack[i] \in visited
  /\ \A i \in 1 .. Len(stack) : i > 1 => stack[i] \in Adj(stack[i - 1])

OnStack == {stack[i] : i \in 1 .. Len(stack)}

\* Every edge of a visited state leads to a visited state or is still to be
\* walked, and only states on the stack have edges to walk.
FrontierInv ==
  /\ \A u \in visited : Adj(u) \subseteq visited \cup todo[u]
  /\ \A u \in State : /\ todo[u] \subseteq Adj(u)
                      /\ u \notin OnStack => todo[u] = {}

\* What has been visited is on the stack or in the closure of a state that is.
CoverInv ==
  \A v \in visited : \/ v \in OnStack
                     \/ \E u \in OnStack : v \in closures[u]

\* The callback has run for the state on top as soon as one edge is behind it.
TopInv ==
  ~Idle /\ todo[Top] # Adj(Top) => Top \in component

\* What is in the component has been entered and its closure begun; as long as no
\* cycle has been noticed, no state below the root that is done has edges.
ComponentInv ==
  /\ \A v \in component : v \in visited /\ v \in closures[v]
  /\ ~hasCycle => \A v \in visited \ OnStack : Adj(v) = {}

SearchInv ==
  RowsInv /\ PathInv /\ FrontierInv /\ CoverInv /\ TopInv /\ ComponentInv

\* No cached closure ever holds a state that epsilon edges do not reach, however
\* mutations and searches alternate, as long as no failed replacement has taken
\* edges away behind the caches. Searches build on what earlier ones left in
\* epsilon_closures for states that were never marked as refreshed.
Sound ==
  "shrunk" \notin drift => \A s \in State : closures[s] \subseteq Reach(s)

\* A closure that is served from the cache is complete: marking the whole
\* component as refreshed when no cycle was noticed, and only the root
\* otherwise, never serves a closure whose search was cut short by a visited
\* state. Two cases are outside: rows merged by add_sub_NFA behind the caches,
\* and states whose row adds no edge.
Complete ==
  drift = {} =>
    \A s \in refresh : ~Hollow(s) => Reach(s) \subseteq closures[s]

\* get_epsilon_closure and get_start_set return references into the cache: the
\* set a caller holds does not change while later queries fill other closures.
ServedIsStable ==
  [][ drift = {} /\ QueryStep =>
        \A s \in refresh : /\ s \in refresh'
                           /\ ~Hollow(s) => closures'[s] = closures[s] ]_vars

\* Every search ends, cycles of epsilon edges notwithstanding.
SearchEnds == ~Idle ~> Idle
=============================================================================

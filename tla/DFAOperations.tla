---------------------------- MODULE DFAOperations ----------------------------
(***************************************************************************)
(* A DFA object in use: its mutators, intersect and complement, which make *)
(* a new one of it, and get_live_states, which keeps what it found: the    *)
(* states from where a final state can be reached. get_goto_table is what  *)
(* DK_DFA_base makes of the transition function, without the dead states.  *)
(***************************************************************************)
EXTENDS Naturals, Sequences, FiniteSets, FiniteSetsExt, SequencesExt

CONSTANTS DFAs,    \* records [states, start, final, delta, live], delta from <<state, symbol>> to states
          Others,  \* what intersect is called with
          Symbols, \* the alphabet, of all of them
          Wanted,  \* the states that mutators are called with
          Unknown, \* no value of live_states_opt
          Longest, \* bound: of the words that are compared
          MaxCalls \* bound: calls that change the object

\* What any DFA object is. The constructor demands a total transition function; a state
\* that is added later has no transitions.
IsDFA(d) ==
  /\ DOMAIN d = {"states", "start", "final", "delta", "live"}
  /\ d.states \subseteq Nat /\ IsFiniteSet(d.states)
  /\ d.start \in d.states /\ d.final \subseteq d.states
  /\ DOMAIN d.delta \subseteq d.states \X Symbols /\ \A s \in DOMAIN d.delta : d.delta[s] \in d.states
  /\ d.live # Unknown => d.live \subseteq d.states

Total(d) == DOMAIN d.delta = d.states \X Symbols

ASSUME DFAsAssumption == \A d \in DFAs \cup Others : IsDFA(d) /\ Total(d) /\ d.live = Unknown

\* It is not a state.
ASSUME UnknownAssumption == Unknown \notin Nat

VARIABLES
  dfa,     \* the object
  words,   \* what it accepts, as the operations are meant
  changed, \* whether a mutator was called since live_states_opt has a value
  served,  \* the set get_live_states returned, and Unknown before
  table,   \* the goto table made of it
  calls, threw

vars == <<dfa, words, changed, served, table, calls, threw>>

Words == BoundedSeq(Symbols, Longest)

-----------------------------------------------------------------------------
(* recognize: go may have no value, in a state that was added.             *)

\* The states on the way, from the first on.
Way(delta, start, w) ==
  LET at[n \in Nat] ==
        IF n = 0 THEN start
        ELSE LET s == <<at[n - 1], w[n]>> IN IF s \in DOMAIN delta THEN delta[s] ELSE Unknown
  IN  at

Walk(delta, start, w) == Way(delta, start, w)[Len(w)]

Recognizes(d, w) == Walk(d.delta, d.start, w) \in d.final

Language(d) == {w \in Words : Recognizes(d, w)}

-----------------------------------------------------------------------------
(* get_live_states.                                                        *)

\* One round of mark_live_states: the states with a transition to one that lives.
LiveRound(d, live) == live \cup {s[1] : s \in {s \in DOMAIN d.delta : d.delta[s] \in live}}

\* What rounds make of a set, one after the other.
Rounds(Round, set) ==
  LET after[n \in Nat] == IF n = 0 THEN set ELSE LET before == after[n - 1] IN Round[before]
  IN  after

\* Nothing is new after as many rounds as there are states.
MarkLiveStates(d) == Rounds([live \in SUBSET d.states |-> LiveRound(d, live)], d.final)[Cardinality(d.states)]

Marked(d) == IF d.live = Unknown THEN [d EXCEPT !.live = MarkLiveStates(d)] ELSE d

\* get_goto_table(true).
GotoTable(d) ==
  [s \in {s \in DOMAIN d.delta : s[1] \in d.live /\ d.delta[s] \in d.live} |-> d.delta[s]]

-----------------------------------------------------------------------------
(* intersect and complement.                                               *)

\* get_state_set_product: the pairs in their order, numbered from 0.
PairNumber(d, e, p) ==
  Cardinality({r \in d.states : r < p[1]}) * Cardinality(e.states) + Cardinality({r \in e.states : r < p[2]})

\* A pair that is final when either state is.
PairFinal_Either(d, e, p) == p[1] \in d.final \/ p[2] \in e.final

PairFinal(d, e, p) == p[1] \in d.final /\ p[2] \in e.final

Product(d, e) ==
  LET pairs == d.states \X e.states
      Pair(n) == CHOOSE p \in pairs : PairNumber(d, e, p) = n
      states == {PairNumber(d, e, p) : p \in pairs}
  IN  [states |-> states,
       start |-> PairNumber(d, e, <<d.start, e.start>>),
       final |-> {n \in states : PairFinal(d, e, Pair(n))},
       delta |-> [s \in states \X Symbols |->
                    PairNumber(d, e, <<d.delta[<<Pair(s[1])[1], s[2]>>], e.delta[<<Pair(s[1])[2], s[2]>>]>>)],
       live |-> Unknown]

\* A complement that takes the live states along.
Complement_Cached(d) == [d EXCEPT !.final = d.states \ d.final]

Complement(d) == [d EXCEPT !.final = d.states \ d.final, !.live = Unknown]

-----------------------------------------------------------------------------
Init ==
  /\ dfa \in DFAs
  /\ words = Language(dfa)
  /\ changed = FALSE
  /\ served = Unknown
  /\ table = <<>>
  /\ calls = 0
  /\ threw = FALSE

\* What was served before is forgotten here: it was a reference to the old object.
Call ==
  /\ ~ threw
  /\ calls < MaxCalls
  /\ calls' = calls + 1
  /\ served' = Unknown /\ table' = <<>>

\* A mutator leaves live_states_opt alone; a state that is not there makes it throw.
Mutate(d, throws) ==
  /\ Call
  /\ dfa' = d
  /\ words' = Language(d)
  /\ changed' = TRUE
  /\ threw' = throws

AddNewState == Mutate([dfa EXCEPT !.states = @ \cup {Max(@) + 1}], FALSE)

ChangeStartState(s) ==
  Mutate(IF s \in dfa.states THEN [dfa EXCEPT !.start = s] ELSE dfa, s \notin dfa.states)

AddFinalState(s) ==
  Mutate(IF s \in dfa.states THEN [dfa EXCEPT !.final = @ \cup {s}] ELSE dfa, s \notin dfa.states)

\* clear_final_states and add_final_state one by one: those before the one that makes
\* it throw stay. replace_final_states is this with one state.
ChangeFinalStates(ss) ==
  LET before == CHOOSE n \in 0 .. Len(ss) :
                  /\ n < Len(ss) => ss[n + 1] \notin dfa.states
                  /\ \A i \in 1 .. n : ss[i] \in dfa.states
  IN  Mutate([dfa EXCEPT !.final = {ss[i] : i \in 1 .. before}], before < Len(ss))

\* The new object takes the place of the old one, as in dfa = dfa.intersect(e). A
\* state without transitions makes go(s, a).value() throw.
Intersect(e) ==
  /\ Call
  /\ threw' = ~ Total(dfa)
  /\ dfa' = IF threw' THEN dfa ELSE Product(dfa, e)
  /\ words' = IF threw' THEN words ELSE words \cap Language(e)
  /\ changed' = (changed /\ threw')

\* The constructor throws on it.
CallComplement ==
  /\ Call
  /\ threw' = ~ Total(dfa)
  /\ dfa' = IF threw' THEN dfa ELSE Complement(dfa)
  /\ words' = IF threw' THEN words ELSE Words \ words
  /\ changed' = (changed /\ threw')

GetLiveStates ==
  /\ ~ threw
  /\ served = Unknown
  /\ dfa' = Marked(dfa)
  /\ served' = dfa'.live
  /\ table' = GotoTable(dfa')
  /\ changed' = (changed /\ dfa.live # Unknown)
  /\ UNCHANGED <<words, calls, threw>>

Next ==
  \/ AddNewState
  \/ \E s \in Wanted : ChangeStartState(s) \/ AddFinalState(s)
  \/ \E ss \in BoundedSeq(Wanted, 2) : ChangeFinalStates(ss)
  \/ \E e \in Others : Intersect(e)
  \/ CallComplement
  \/ GetLiveStates

Spec == Init /\ [][Next]_vars

-----------------------------------------------------------------------------
TypeOK ==
  /\ IsDFA(dfa)
  /\ words \subseteq Words
  /\ changed \in BOOLEAN /\ threw \in BOOLEAN
  /\ calls \in Nat

\* The automata that intersect and complement make of others accept what they are made
\* to accept, in whatever order they are called, though states are numbered anew each
\* time; but only as long as every state has its transitions.
OperationsRight == Language(dfa) = words

\* The states that are come to from q, step by step.
ReachRound(d, reached) == reached \cup {d.delta[s] : s \in {s \in DOMAIN d.delta : s[1] \in reached}}

From(d, q) == Rounds([reached \in SUBSET d.states |-> ReachRound(d, reached)], {q})[Cardinality(d.states)]

LiveOf(d) == {q \in d.states : From(d, q) \cap d.final # {}}

\* What get_live_states returns is right, and the goto table without the dead states is
\* all a parser needs: the words the automaton accepts are walked through to their end,
\* and a walk fails as soon as no word begins so, and never later. All this only if no
\* mutator was called between the first query and this one; a product and a complement
\* ask again.
LiveStatesRight ==
  served # Unknown /\ ~ changed =>
    /\ served = LiveOf(dfa)
    /\ \A w \in Words \ {<<>>} : (Walk(table, dfa.start, w) # Unknown) = (Walk(dfa.delta, dfa.start, w) \in served)
=============================================================================

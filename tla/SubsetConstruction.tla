------------------------- MODULE SubsetConstruction -------------------------
(***************************************************************************)
(* NFA::to_DFA_with_mapping, and then NFA::recognize and DFA::recognize    *)
(* reading the same word: the first on the automaton, the second on the    *)
(* DFA built from it.                                                      *)
(*                                                                         *)
(* The epsilon closures are a constant of the automaton here: module       *)
(* EpsilonClosure shows when NFA::get_epsilon_closure returns just those.  *)
(* The symbols of a round are taken in any order, which covers the order   *)
(* of every alphabet.                                                      *)
(***************************************************************************)
EXTENDS Integers, Sequences, FiniteSets

CONSTANTS State,    \* states of the automata
          Symbol,   \* their alphabet
          Machines  \* the automata that are converted

Machine == [delta   : [State \X Symbol -> SUBSET State],
            closure : [State -> SUBSET State],
            start   : State,
            final   : SUBSET State]

ASSUME MachinesAssumption == Machines \subseteq Machine
ASSUME SymbolAssumption == IsFiniteSet(Symbol)

VARIABLES
  machine,   \* the NFA
  phase,     \* "build", "run", "done", or "no_DFA" when the constructor throws
  subsets,   \* nfa_and_dfa_states: subsets[i + 1] is the set numbered i
  dfaState,  \* dfa_state, the number whose row is being filled
  pending,   \* the symbols of that row not done yet
  trans,     \* DFA_transition_function
  final,     \* DFA_final_states
  q,         \* DFA::recognize: the state after the symbols read
  T,         \* NFA::recognize: the set after the symbols read
  nfaAnswer, \* what NFA::recognize returned, "none" while it reads
  dfaAnswer  \* what DFA::recognize returned

build == <<subsets, dfaState, pending, trans, final>>
run == <<q, T, nfaAnswer, dfaAnswer>>
vars == <<machine, phase, build, run>>

Phase == {"build", "run", "done", "no_DFA"}
Verdict == {"none", "accept", "reject"}
\* next_state
Size == Len(subsets)
DFAState == 0 .. Size - 1

TypeOK ==
  /\ machine \in Machines
  /\ phase \in Phase
  /\ subsets \in Seq(SUBSET State)
  /\ Size > 0
  /\ dfaState \in 0 .. Size
  /\ pending \in SUBSET Symbol
  /\ DOMAIN trans \subseteq DFAState \X Symbol
  /\ \A x \in DOMAIN trans : trans[x] \in DFAState
  /\ final \in SUBSET DFAState
  /\ q \in DFAState
  /\ T \in SUBSET State
  /\ nfaAnswer \in Verdict
  /\ dfaAnswer \in Verdict

-----------------------------------------------------------------------------
\* (mutant) The states reached are not closed under epsilon transitions.
Go_NoClosure(m, S, a) == UNION {m.delta[<<s, a>>] : s \in S}

\* NFA::go of the automaton m, from the set S by the symbol a.
Go(m, S, a) ==
  UNION {m.closure[d] : d \in UNION {m.delta[<<s, a>>] : s \in S}}

StartSet == machine.closure[machine.start]

\* final_states.has_intersection(S)
ContainFinalState(S) == S \cap machine.final # {}

Init ==
  /\ machine \in Machines
  /\ phase = "build"
  /\ subsets = <<machine.closure[machine.start]>>
  /\ dfaState = 0
  /\ pending = Symbol
  /\ trans = <<>>
  /\ final = {}
  /\ q = 0
  /\ T = machine.closure[machine.start]
  /\ nfaAnswer = "none"
  /\ dfaAnswer = "none"

\* The number the bimap holds for the set S.
NumberOf(S) == (CHOOSE i \in 1 .. Size : subsets[i] = S) - 1

\* One symbol of the row of dfa_state: a set not seen before gets the next
\* number.
Expand(a) ==
  LET res == Go(machine, subsets[dfaState + 1], a)
      fresh == \A i \in 1 .. Size : subsets[i] # res
      to == IF fresh THEN Size ELSE NumberOf(res)
  IN  /\ phase = "build"
      /\ dfaState < Size
      /\ a \in pending
      /\ subsets' = IF fresh THEN Append(subsets, res) ELSE subsets
      /\ trans' = [x \in DOMAIN trans \cup {<<dfaState, a>>} |->
                     IF x = <<dfaState, a>> THEN to ELSE trans[x]]
      /\ pending' = pending \ {a}
      /\ UNCHANGED <<machine, phase, dfaState, final, run>>

\* (mutant) The next round starts without the symbols.
NextRow_NoSymbols ==
  /\ phase = "build"
  /\ dfaState < Size
  /\ pending = {}
  /\ dfaState' = dfaState + 1
  /\ UNCHANGED <<machine, phase, subsets, pending, trans, final, run>>

\* The row is full.
NextRow ==
  /\ phase = "build"
  /\ dfaState < Size
  /\ pending = {}
  /\ dfaState' = dfaState + 1
  /\ pending' = Symbol
  /\ UNCHANGED <<machine, phase, subsets, trans, final, run>>

\* (mutant) Final are the sets with final states only.
Construct_AllFinal ==
  /\ phase = "build"
  /\ dfaState = Size
  /\ final' = {i \in DFAState : subsets[i + 1] \subseteq machine.final}
  /\ phase' = IF Cardinality(DOMAIN trans) = Cardinality(Symbol) * Size
                THEN "run" ELSE "no_DFA"
  /\ UNCHANGED <<machine, subsets, dfaState, pending, trans, run>>

\* Every row is full: the final states are collected and the constructor of
\* DFA counts the transitions.
Construct ==
  /\ phase = "build"
  /\ dfaState = Size
  /\ final' = {i \in DFAState : ContainFinalState(subsets[i + 1])}
  /\ phase' = IF Cardinality(DOMAIN trans) = Cardinality(Symbol) * Size
                THEN "run" ELSE "no_DFA"
  /\ UNCHANGED <<machine, subsets, dfaState, pending, trans, run>>

\* Both recognizers read the symbol a; NFA::recognize returns false as soon as
\* no state is left, and DFA::recognize if there is no transition.
Read(a) ==
  /\ phase = "run"
  /\ dfaAnswer = "none"
  /\ IF nfaAnswer = "none"
       THEN /\ T' = Go(machine, T, a)
            /\ nfaAnswer' = IF T' = {} THEN "reject" ELSE "none"
       ELSE UNCHANGED <<T, nfaAnswer>>
  /\ IF <<q, a>> \in DOMAIN trans
       THEN q' = trans[<<q, a>>] /\ UNCHANGED dfaAnswer
       ELSE dfaAnswer' = "reject" /\ UNCHANGED q
  /\ UNCHANGED <<machine, phase, build>>

\* The word ends.
End ==
  /\ phase = "run"
  /\ phase' = "done"
  /\ nfaAnswer' = IF nfaAnswer # "none" THEN nfaAnswer
                  ELSE IF ContainFinalState(T) THEN "accept" ELSE "reject"
  /\ dfaAnswer' = IF dfaAnswer # "none" THEN dfaAnswer
                  ELSE IF q \in final THEN "accept" ELSE "reject"
  /\ UNCHANGED <<machine, build, q, T>>

Building == Construct \/ NextRow \/ \E a \in Symbol : Expand(a)

Next == Building \/ End \/ \E a \in Symbol : Read(a)

Spec == Init /\ [][Next]_vars

-----------------------------------------------------------------------------
\* The numbering is a bijection between the numbers given out and the sets
\* found, every set found but the first is reached from one with a smaller
\* number, and the rows filled are those before the current one.
Numbering ==
  /\ \A i, j \in 1 .. Size : subsets[i] = subsets[j] => i = j
  /\ subsets[1] = StartSet
  /\ \A i \in 2 .. Size :
       \E j \in 1 .. i - 1, a \in Symbol : subsets[i] = Go(machine, subsets[j], a)
  /\ DOMAIN trans = ((0 .. dfaState - 1) \X Symbol)
                      \cup ({dfaState} \X (Symbol \ pending))
  /\ dfaState = Size => pending = Symbol

\* The transitions of the DFA are those of the sets its states stand for, so are
\* its final states, and the set its state stands for is the one NFA::recognize
\* holds for as long as that one reads, and empty once that one has given up.
Simulation ==
  /\ \A i \in DFAState, a \in Symbol :
       <<i, a>> \in DOMAIN trans =>
         subsets[trans[<<i, a>>] + 1] = Go(machine, subsets[i + 1], a)
  /\ phase = "build" => q = 0 /\ T = StartSet /\ nfaAnswer = "none" /\ dfaAnswer = "none"
  /\ phase = "run" =>
       /\ DOMAIN trans = DFAState \X Symbol
       /\ final = {i \in DFAState : ContainFinalState(subsets[i + 1])}
       /\ dfaAnswer = "none"
       /\ \/ nfaAnswer = "none" /\ subsets[q + 1] = T
          \/ nfaAnswer = "reject" /\ subsets[q + 1] = {}

\* On every word NFA::recognize and DFA::recognize, on the DFA that was built,
\* give the same answer, though the first may stop early; and the constructor of
\* the DFA never finds transitions missing.
SameAnswer ==
  /\ phase # "no_DFA"
  /\ phase = "done" => nfaAnswer = dfaAnswer /\ nfaAnswer # "none"

\* The DFA, once built, recognizes as the automaton it was built from: the set
\* its state stands for is the set the runs of the automaton can be in.
Abstract == INSTANCE Recognizer WITH
  current <- IF phase \in {"run", "done"} THEN subsets[q + 1] ELSE StartSet,
  verdict <- dfaAnswer

Implements == Abstract!Spec
=============================================================================

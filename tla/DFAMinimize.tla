----------------------------- MODULE DFAMinimize -----------------------------
(***************************************************************************)
(* DFA::minimize, and then DFA::recognize reading the same word on the DFA *)
(* and on its minimization.                                                *)
(*                                                                         *)
(* A round marks every state with the index of its group, then looks       *)
(* through the groups for one that a symbol splits. The first split ends   *)
(* the round, so the marks are never older than the groups. The parts of a *)
(* split come out of a hash map and the symbols out of the alphabet, in an *)
(* order that is left open here.                                           *)
(***************************************************************************)
EXTENDS Integers, Sequences, FiniteSets, Functions

CONSTANTS State,     \* states of the automata
          Symbol,    \* their alphabet
          DFAs,      \* the automata that are minimized
          Partitions \* values of init_partition, <<>> for its default

DFA == [delta : [State \X Symbol -> State],
        start : State,
        final : SUBSET State]

\* The groups of G are apart and hold every state.
IsPartition(G) ==
  /\ \A s \in State : \E i \in DOMAIN G : s \in G[i]
  /\ \A i, j \in DOMAIN G : i # j => G[i] \cap G[j] = {}

ASSUME DFAsAssumption == DFAs \subseteq DFA
ASSUME StateAssumption == IsFiniteSet(State)
ASSUME SymbolAssumption == Symbol # {}
ASSUME PartitionsAssumption ==
  \A G \in Partitions : /\ G \in Seq(SUBSET State)
                        /\ G # <<>> => IsPartition(G)
                        /\ \A i \in 1 .. Len(G) : G[i] # {}

VARIABLES
  dfa,     \* the DFA
  default, \* whether init_partition was left at its default
  groups,  \* groups
  index,   \* state_to_group_index
  at,      \* the group the round is at
  phase,   \* "mark", "scan", "assemble", "read", or "undefined" behaviour
  result,  \* the DFA that is returned
  q,       \* DFA::recognize on dfa: the state after the symbols read
  r        \* DFA::recognize on result

vars == <<dfa, default, groups, index, at, phase, result, q, r>>

Group == DOMAIN groups
NoResult == [delta |-> <<>>, start |-> 0, final |-> {}]

Result == [delta : [(0 .. Len(groups) - 1) \X Symbol -> Nat],
           start : 0 .. Len(groups) - 1,
           final : SUBSET (0 .. Len(groups) - 1)]

TypeOK ==
  /\ dfa \in DFAs
  /\ default \in BOOLEAN
  /\ groups \in Seq(SUBSET State)
  /\ index \in [State -> 0 .. Len(groups) - 1]
  /\ at \in 1 .. Len(groups) + 1
  /\ phase \in {"mark", "scan", "assemble", "read", "undefined"}
  /\ IF phase = "read" THEN result \in Result /\ r \in 0 .. Len(groups) - 1
                       ELSE result = NoResult /\ r = 0
  /\ q \in State

-----------------------------------------------------------------------------
Init ==
  \E d \in DFAs, G \in Partitions :
    /\ dfa = d
    /\ default = (G = <<>>)
    /\ groups = IF G = <<>> THEN <<State \ d.final, d.final>> ELSE G
    /\ index = [s \in State |-> 0]
    /\ at = 1
    /\ phase = "mark"
    /\ result = NoResult
    /\ q = d.start
    /\ r = 0

\* The states of a group, marked.
Mark ==
  /\ phase = "mark"
  /\ index' = [s \in State |->
                 IF \E i \in Group : s \in groups[i]
                   THEN (CHOOSE i \in Group : s \in groups[i]) - 1
                   ELSE index[s]]
  /\ at' = 1
  /\ phase' = "scan"
  /\ UNCHANGED <<dfa, default, groups, result, q, r>>

\* The parts of a group by the groups the symbol a leads to.
Part(group, a, k) == {s \in group : index[dfa.delta[<<s, a>>]] = k}
\* (mutant) The parts are told apart by the state reached, not by its group.
SubGroups_ByState(group, a) ==
  {{s \in group : dfa.delta[<<s, a>>] = t} : t \in {dfa.delta[<<s, a>>] : s \in group}}

SubGroups(group, a) ==
  {Part(group, a, k) : k \in {index[dfa.delta[<<s, a>>]] : s \in group}}

\* The orders the parts may come out of the hash map in.
Orders(parts) == Bijection(1 .. Cardinality(parts), parts)

\* (mutant) One symbol that keeps the group together is enough.
Whole_SomeSymbol(group) ==
  \E a \in Symbol : \A s, t \in group :
    index[dfa.delta[<<s, a>>]] = index[dfa.delta[<<t, a>>]]

\* The symbols of the alphabet leave the group in one piece.
Whole(group) ==
  \A a \in Symbol, s, t \in group :
    index[dfa.delta[<<s, a>>]] = index[dfa.delta[<<t, a>>]]

\* No symbol splits the group: the round goes on.
Keep ==
  /\ phase = "scan"
  /\ at \in Group
  /\ Whole(groups[at])
  /\ at' = at + 1
  /\ UNCHANGED <<dfa, default, groups, index, phase, result, q, r>>

\* A symbol splits the group: one part takes its place, the others are
\* appended, and the round ends.
Split(a) ==
  /\ phase = "scan"
  /\ at \in Group
  /\ \E s, t \in groups[at] : index[dfa.delta[<<s, a>>]] # index[dfa.delta[<<t, a>>]]
  /\ \E parts \in Orders(SubGroups(groups[at], a)) :
       groups' = [groups EXCEPT ![at] = parts[1]] \o Tail(parts)
  /\ phase' = "mark"
  /\ UNCHANGED <<dfa, default, index, at, result, q, r>>

\* A round without a split is the last.
NoNewGroup ==
  /\ phase = "scan"
  /\ at = Len(groups) + 1
  /\ phase' = "assemble"
  /\ UNCHANGED <<dfa, default, groups, index, at, result, q, r>>

\* *(groups[i].begin())
Representative(i) == CHOOSE s \in groups[i + 1] : TRUE

\* The groups become the states. Reading the first state of an empty group is
\* undefined.
Assemble ==
  /\ phase = "assemble"
  /\ \A i \in Group : groups[i] # {}
  /\ result' =
       [delta |-> [x \in (0 .. Len(groups) - 1) \X Symbol |->
                     index[dfa.delta[<<Representative(x[1]), x[2]>>]]],
        start |-> (CHOOSE i \in Group : dfa.start \in groups[i]) - 1,
        final |-> {i \in 0 .. Len(groups) - 1 : groups[i + 1] \cap dfa.final # {}}]
  /\ r' = result'.start
  /\ phase' = "read"
  /\ UNCHANGED <<dfa, default, groups, index, at, q>>

AssembleUndefined ==
  /\ phase = "assemble"
  /\ \E i \in Group : groups[i] = {}
  /\ phase' = "undefined"
  /\ UNCHANGED <<dfa, default, groups, index, at, result, q, r>>

\* Both DFAs read the symbol a.
Read(a) ==
  /\ phase = "read"
  /\ q' = dfa.delta[<<q, a>>]
  /\ r' = result.delta[<<r, a>>]
  /\ UNCHANGED <<dfa, default, groups, index, at, phase, result>>

Minimizing ==
  \/ Mark \/ Keep \/ NoNewGroup \/ Assemble \/ AssembleUndefined
  \/ \E a \in Symbol : Split(a)

Next == Minimizing \/ \E a \in Symbol : Read(a)

Spec == Init /\ [][Next]_vars

-----------------------------------------------------------------------------
\* The groups that hold final states hold nothing else.
Separating == \A i \in Group : groups[i] \subseteq dfa.final \/ groups[i] \cap dfa.final = {}

\* Partitions of the states, each given by a representative for every state.
Congruence == {c \in [State -> State] : \A s \in State : c[c[s]] = c[s]}

\* A partition that no symbol tells the states of a class apart by, and that
\* tells final states from the others.
Respects(c) ==
  \A s, t \in State :
    c[s] = c[t] => /\ s \in dfa.final <=> t \in dfa.final
                   /\ \A a \in Symbol : c[dfa.delta[<<s, a>>]] = c[dfa.delta[<<t, a>>]]

\* Splitting never goes too far: under the default partition, states that no
\* word tells apart stay together, so that the result has one state for each
\* class of states with the same future.
Coarsest ==
  default =>
    \A c \in Congruence : Respects(c) =>
      \A s, t \in State : c[s] = c[t] =>
        \A i \in Group : s \in groups[i] <=> t \in groups[i]

\* Splitting goes far enough: the state the minimized DFA is in is the group of
\* the state the DFA is in, on every word, and they accept the same words if
\* the partition tells final states from the others.
SameAnswer ==
  phase = "read" =>
    /\ q \in groups[r + 1]
    /\ Separating => (q \in dfa.final <=> r \in result.final)

\* Only a DFA with no final state, or with no other, has an empty group to run
\* into undefined behaviour with, and only under the default partition.
UndefinedOnlyIfOneSided ==
  phase = "undefined" => default /\ dfa.final \in {{}, State}
=============================================================================

------------------------- MODULE DFAMinimize_proofs -------------------------
(***************************************************************************)
(* That DFA::minimize returns the coarsest DFA and that it accepts the     *)
(* same words, for every DFA with finitely many states, every order of     *)
(* the symbols and every order of the hash map the parts come out of.      *)
(***************************************************************************)
EXTENDS DFAMinimize, SequenceTheorems, FiniteSetTheorems, TLAPS

Parted == IsPartition(groups)

\* The marks agree with the groups, but between a split and the next round.
Marked ==
  phase # "mark" =>
    \A s \in State, i \in Group : s \in groups[i] <=> index[s] = i - 1

\* The groups the round has passed, and at its end all of them, are whole.
Passed ==
  /\ phase = "scan" => \A i \in Group : i < at => Whole(groups[i])
  /\ phase \in {"assemble", "read"} => \A i \in Group : Whole(groups[i])

NonEmpty ==
  \A i \in Group : groups[i] # {} \/ (default /\ dfa.final \in {{}, State})

\* What the result is made of.
Assembled ==
  phase = "read" =>
    /\ \A i \in Group : groups[i] # {}
    /\ result.delta = [x \in (0 .. Len(groups) - 1) \X Symbol |->
                         index[dfa.delta[<<Representative(x[1]), x[2]>>]]]
    /\ result.final = {i \in 0 .. Len(groups) - 1 : groups[i + 1] \cap dfa.final # {}}
    /\ q \in groups[r + 1]

\* What holds before anything is read.
Unread ==
  /\ phase = "undefined" => \E i \in Group : groups[i] = {}
  /\ phase # "read" => q = dfa.start

Inv ==
  /\ TypeOK /\ Parted /\ Marked /\ Passed
  /\ NonEmpty /\ Coarsest /\ Assembled /\ Unread

-----------------------------------------------------------------------------
\* What the type invariant says of the automaton and of the groups.
LEMMA Types ==
  ASSUME TypeOK
  PROVE  /\ dfa.delta \in [State \X Symbol -> State]
         /\ dfa.start \in State /\ dfa.final \in SUBSET State
         /\ groups \in Seq(SUBSET State)
         /\ Len(groups) \in Nat /\ Len(groups) > 0 /\ Group = 1 .. Len(groups)
         /\ \A i \in Group : groups[i] \in SUBSET State
         /\ index \in [State -> 0 .. Len(groups) - 1]
<1>1. dfa \in DFA
  BY DFAsAssumption DEF TypeOK
<1>2. groups \in Seq(SUBSET State) /\ index \in [State -> 0 .. Len(groups) - 1]
  BY DEF TypeOK
<1>3. Len(groups) \in Nat /\ DOMAIN groups = 1 .. Len(groups)
      /\ \A i \in DOMAIN groups : groups[i] \in SUBSET State
  BY <1>2, LenProperties, ElementOfSeq
<1>4. dfa.start \in State
  BY <1>1 DEF DFA
<1>5. Len(groups) > 0
  <2>1. index[dfa.start] \in 0 .. Len(groups) - 1
    BY <1>2, <1>4
  <2>2. QED BY <1>3, <2>1
<1>6. QED BY <1>1, <1>2, <1>3, <1>5 DEF DFA, Group

\* The default partition and those of the callers, unmarked.
LEMMA InitInv == Init => Inv
<1> SUFFICES ASSUME NEW d \in DFAs, NEW G \in Partitions,
                    /\ dfa = d
                    /\ default = (G = <<>>)
                    /\ groups = IF G = <<>> THEN <<State \ d.final, d.final>> ELSE G
                    /\ index = [s \in State |-> 0]
                    /\ at = 1
                    /\ phase = "mark"
                    /\ result = NoResult
                    /\ q = d.start
                    /\ r = 0
             PROVE  Inv
  BY DEF Init
<1>1. /\ d.final \in SUBSET State /\ d.start \in State
      /\ d.delta \in [State \X Symbol -> State]
  BY DFAsAssumption DEF DFA
<1>2. CASE G = <<>>
  <2>1. /\ groups = <<State \ d.final, d.final>> /\ groups \in Seq(SUBSET State)
        /\ Len(groups) = 2 /\ DOMAIN groups = {1, 2}
        /\ groups[1] = State \ d.final /\ groups[2] = d.final
    BY <1>1, <1>2
  <2>2. TypeOK
    BY <1>1, <2>1 DEF TypeOK
  <2>3. Parted
    BY <1>1, <2>1 DEF Parted, IsPartition
  <2>4. NonEmpty
    BY <1>1, <1>2, <2>1 DEF NonEmpty, Group
  <2>5. Coarsest
    BY <1>1, <2>1 DEF Coarsest, Respects, Group
  <2>6. QED
    BY <2>2, <2>3, <2>4, <2>5 DEF Inv, Marked, Passed, Assembled, Unread
<1>3. CASE G # <<>>
  <2>1. /\ groups = G /\ groups \in Seq(SUBSET State) /\ Len(groups) \in Nat
        /\ DOMAIN groups = 1 .. Len(groups)
        /\ IsPartition(groups) /\ \A i \in 1 .. Len(groups) : groups[i] # {}
    BY <1>3, PartitionsAssumption, LenProperties
  <2>2. Len(groups) > 0
    BY <1>1, <2>1 DEF IsPartition
  <2>3. TypeOK
    BY <1>1, <2>1, <2>2 DEF TypeOK
  <2>4. QED
    BY <1>3, <2>1, <2>3 DEF Inv, Parted, NonEmpty, Coarsest, Group, Marked, Passed,
                            Assembled, Unread
<1>4. QED BY <1>2, <1>3

-----------------------------------------------------------------------------
\* The parts of a group: finitely many, none empty, apart, and all of it.
LEMMA PartsOfGroup ==
  ASSUME Inv, NEW a \in Symbol, NEW g \in SUBSET State
  PROVE  LET SG == SubGroups(g, a)
         IN  /\ IsFiniteSet(SG)
             /\ \A p \in SG : p # {} /\ p \subseteq g
             /\ \A p1, p2 \in SG : p1 # p2 => p1 \cap p2 = {}
             /\ \A s \in g : \E p \in SG : s \in p
             /\ \A p \in SG, s, t \in g :
                  (s \in p /\ index[dfa.delta[<<s, a>>]] = index[dfa.delta[<<t, a>>]]) => t \in p
<1> DEFINE SG == SubGroups(g, a)
<1>1. SG \subseteq SUBSET State
  BY DEF SubGroups, Part
<1>2. IsFiniteSet(SG)
  BY <1>1, StateAssumption, FS_SUBSET, FS_Subset
<1>3. \A s \in g : s \in Part(g, a, index[dfa.delta[<<s, a>>]])
                   /\ Part(g, a, index[dfa.delta[<<s, a>>]]) \in SG
  BY DEF Part, SubGroups
<1>4. \A p \in SG : \E s \in g : p = Part(g, a, index[dfa.delta[<<s, a>>]])
  BY DEF SubGroups
<1>5. \A p \in SG : p # {} /\ p \subseteq g
  BY <1>3, <1>4 DEF Part
<1>6. \A p1, p2 \in SG : p1 # p2 => p1 \cap p2 = {}
  <2>1. ASSUME NEW p \in SG, NEW s \in p
        PROVE  p = Part(g, a, index[dfa.delta[<<s, a>>]])
    <3>1. PICK u \in g : p = Part(g, a, index[dfa.delta[<<u, a>>]])
      BY <1>4
    <3>2. index[dfa.delta[<<s, a>>]] = index[dfa.delta[<<u, a>>]]
      BY <3>1 DEF Part
    <3>3. QED BY <3>1, <3>2
  <2> HIDE DEF SG
  <2>2. ASSUME NEW p1 \in SG, NEW p2 \in SG, NEW s \in p1, s \in p2
        PROVE  p1 = p2
    <3>1. p1 = Part(g, a, index[dfa.delta[<<s, a>>]])
      BY <2>1
    <3>2. p2 = Part(g, a, index[dfa.delta[<<s, a>>]])
      BY <2>1, <2>2
    <3>3. QED BY <3>1, <3>2
  <2>3. QED BY <2>2
<1>7. \A p \in SG, s, t \in g :
        (s \in p /\ index[dfa.delta[<<s, a>>]] = index[dfa.delta[<<t, a>>]]) => t \in p
  BY <1>4 DEF Part
<1>8. QED BY <1>2, <1>3, <1>5, <1>6, <1>7

\* What a split does to the groups: those outside it keep their place, the
\* others are the parts, each of them once.
LEMMA SplitEffect ==
  ASSUME Inv, NEW a \in Symbol, Split(a)
  PROVE  LET SG == SubGroups(groups[at], a)
             Other == Group \ {at}
         IN  /\ at \in Group
             /\ groups' \in Seq(SUBSET State)
             /\ Len(groups') \in Nat /\ Len(groups') >= Len(groups)
             /\ Group' = 1 .. Len(groups') /\ Other \subseteq Group'
             /\ \A i \in Other : groups'[i] = groups[i]
             /\ \A i \in Group' \ Other : groups'[i] \in SG
             /\ \A i, j \in Group' \ Other : i # j => groups'[i] # groups'[j]
             /\ \A p \in SG : \E i \in Group' \ Other : groups'[i] = p
<1> DEFINE SG == SubGroups(groups[at], a)
           Other == Group \ {at}
           n == Cardinality(SG)
           L == Len(groups)
<1>1. /\ groups \in Seq(SUBSET State) /\ L \in Nat /\ Group = 1 .. L
      /\ at \in Group /\ groups[at] \in SUBSET State
  BY Types DEF Inv, Split
<1>2. IsFiniteSet(SG) /\ SG \subseteq SUBSET State
  <2>1. IsFiniteSet(SG) /\ \A p \in SG : p \subseteq groups[at]
    BY <1>1, PartsOfGroup
  <2> HIDE DEF SG
  <2>2. QED BY <1>1, <2>1
<1>3. PICK parts \in Orders(SG) :
        groups' = [groups EXCEPT ![at] = parts[1]] \o Tail(parts)
  BY DEF Split
<1>4. /\ n \in Nat /\ parts \in [1 .. n -> SG]
      /\ \A i, j \in 1 .. n : i # j => parts[i] # parts[j]
      /\ \A p \in SG : \E i \in 1 .. n : parts[i] = p
  <2>1. n \in Nat
    BY <1>2, FS_CardinalityType
  <2>2. QED BY <1>3, <2>1 DEF Orders, Bijection, Injection, Surjection, IsInjective
<1>5. n > 0
  <2>1. PICK s \in groups[at] : TRUE
    BY DEF Split
  <2>2. \E p \in SG : s \in p
    BY <1>1, <2>1, PartsOfGroup
  <2>3. QED BY <1>4, <2>2
<1>6. /\ parts \in Seq(SUBSET State) /\ Len(parts) = n /\ parts # <<>>
      /\ Tail(parts) \in Seq(SUBSET State) /\ Len(Tail(parts)) = n - 1
      /\ \A i \in 1 .. n - 1 : Tail(parts)[i] = parts[i + 1]
  <2>1. parts \in Seq(SUBSET State) /\ Len(parts) = n
    BY <1>2, <1>4
  <2>2. QED BY <1>5, <2>1, HeadTailProperties, EmptySeq
<1> DEFINE kept == [groups EXCEPT ![at] = parts[1]]
<1>7. /\ kept \in Seq(SUBSET State) /\ Len(kept) = L /\ kept[at] = parts[1]
      /\ \A i \in Other : kept[i] = groups[i]
  <2>1. parts[1] \in SUBSET State
    BY <1>2, <1>4, <1>5
  <2>2. QED BY <1>1, <2>1
<1>8. /\ groups' \in Seq(SUBSET State) /\ Len(groups') = L + (n - 1)
      /\ \A i \in 1 .. L + (n - 1) :
           groups'[i] = IF i <= L THEN kept[i] ELSE Tail(parts)[i - L]
  <2>1. groups' = kept \o Tail(parts)
    BY <1>3
  <2>2. kept \in Seq(SUBSET State) /\ Tail(parts) \in Seq(SUBSET State)
        /\ Len(kept) = L /\ Len(Tail(parts)) = n - 1
    BY <1>6, <1>7
  <2> HIDE DEF kept, n, L
  <2>3. /\ kept \o Tail(parts) \in Seq(SUBSET State)
        /\ Len(kept \o Tail(parts)) = Len(kept) + Len(Tail(parts))
        /\ \A i \in 1 .. Len(kept) + Len(Tail(parts)) :
             (kept \o Tail(parts))[i] =
               IF i <= Len(kept) THEN kept[i] ELSE Tail(parts)[i - Len(kept)]
    BY <2>2, ConcatProperties
  <2>4. QED BY <2>1, <2>2, <2>3
<1>9. Group' = 1 .. L + (n - 1)
  BY <1>1, <1>4, <1>8, LenProperties DEF Group
\* The place of the part numbered k.
<1> DEFINE Place(k) == IF k = 1 THEN at ELSE L + (k - 1)
           Number(i) == IF i = at THEN 1 ELSE i - L + 1
<1>10. \A k \in 1 .. n : Place(k) \in Group' \ Other /\ groups'[Place(k)] = parts[k]
  <2> SUFFICES ASSUME NEW k \in 1 .. n
               PROVE  Place(k) \in Group' \ Other /\ groups'[Place(k)] = parts[k]
    OBVIOUS
  <2>1. CASE k = 1
    <3>1. at \in 1 .. L + (n - 1) /\ at <= L
      BY <1>1, <1>4, <1>5
    <3>2. groups'[at] = kept[at]
      BY <1>8, <3>1
    <3>3. QED BY <1>7, <1>9, <2>1, <3>1, <3>2
  <2>2. CASE k # 1
    <3>1. /\ k - 1 \in 1 .. n - 1 /\ L + (k - 1) \in 1 .. L + (n - 1)
          /\ ~ (L + (k - 1) <= L) /\ (L + (k - 1)) - L = k - 1
      BY <1>1, <1>4, <2>2
    <3>2. groups'[L + (k - 1)] = Tail(parts)[k - 1]
      BY <1>8, <3>1
    <3>3. Tail(parts)[k - 1] = parts[k]
      BY <1>4, <1>6, <3>1
    <3>4. Place(k) = L + (k - 1)
      BY <2>2
    <3>5. groups'[Place(k)] = parts[k]
      BY <3>2, <3>3, <3>4
    <3>6. Place(k) \in Group' /\ Place(k) \notin Group
      BY <1>1, <1>9, <3>1, <3>4
    <3>7. QED BY <3>5, <3>6
  <2>3. QED BY <2>1, <2>2
<1>11. \A i \in Group' \ Other : Number(i) \in 1 .. n /\ Place(Number(i)) = i
  BY <1>1, <1>4, <1>5, <1>9
<1>12. \A i \in Group' \ Other : groups'[i] = parts[Number(i)]
  BY <1>10, <1>11
<1>13. \A i \in Other : i \in Group' /\ groups'[i] = groups[i]
  BY <1>1, <1>4, <1>5, <1>7, <1>8, <1>9
<1>14. \A i, j \in Group' \ Other : i # j => groups'[i] # groups'[j]
  BY <1>4, <1>11, <1>12
<1>15. \A i \in Group' \ Other : groups'[i] \in SG
  BY <1>4, <1>11, <1>12
<1>16. \A p \in SG : \E i \in Group' \ Other : groups'[i] = p
  BY <1>4, <1>10
<1>17. QED
  BY <1>1, <1>4, <1>5, <1>8, <1>9, <1>13, <1>14, <1>15, <1>16

\* A split keeps the partition, and keeps it coarse.
LEMMA SplitKeeps ==
  ASSUME Inv, NEW a \in Symbol, Split(a)
  PROVE  Inv'
<1> DEFINE SG == SubGroups(groups[at], a)
           Other == Group \ {at}
<1>1. /\ at \in Group /\ groups' \in Seq(SUBSET State)
      /\ Len(groups') \in Nat /\ Len(groups') >= Len(groups)
      /\ Group' = 1 .. Len(groups') /\ Other \subseteq Group'
      /\ \A i \in Other : groups'[i] = groups[i]
      /\ \A i \in Group' \ Other : groups'[i] \in SG
      /\ \A i, j \in Group' \ Other : i # j => groups'[i] # groups'[j]
      /\ \A p \in SG : \E i \in Group' \ Other : groups'[i] = p
  BY SplitEffect
<1>2. /\ dfa.delta \in [State \X Symbol -> State]
      /\ Group = 1 .. Len(groups) /\ Len(groups) \in Nat /\ Len(groups) > 0
      /\ \A i \in Group : groups[i] \in SUBSET State
      /\ index \in [State -> 0 .. Len(groups) - 1]
  BY Types DEF Inv
<1>3. /\ \A p \in SG : p # {} /\ p \subseteq groups[at]
      /\ \A p1, p2 \in SG : p1 # p2 => p1 \cap p2 = {}
      /\ \A s \in groups[at] : \E p \in SG : s \in p
      /\ \A p \in SG, s, t \in groups[at] :
           (s \in p /\ index[dfa.delta[<<s, a>>]] = index[dfa.delta[<<t, a>>]]) => t \in p
  <2>1. groups[at] \in SUBSET State
    BY <1>1, <1>2
  <2>2. QED BY <2>1, PartsOfGroup
<1>4. /\ phase = "scan" /\ phase' = "mark"
      /\ UNCHANGED <<dfa, default, index, at, result, q, r>>
  BY DEF Split
<1>5. IsPartition(groups)
  BY DEF Inv, Parted
<1> HIDE DEF SG, Other
<1>6. TypeOK'
  <2>1. index' \in [State -> 0 .. Len(groups') - 1] /\ at' \in 1 .. Len(groups') + 1
    BY <1>1, <1>2, <1>4 DEF Inv, TypeOK
  <2>2. QED BY <1>1, <1>4, <2>1 DEF Inv, TypeOK
<1>7. Parted'
  <2>1. ASSUME NEW s \in State PROVE \E i \in Group' : s \in groups'[i]
    <3>1. PICK i \in Group : s \in groups[i]
      BY <1>5 DEF IsPartition, Group
    <3>2. CASE i \in Other
      BY <1>1, <3>1, <3>2
    <3>3. CASE i = at
      <4>1. PICK p \in SG : s \in p
        BY <1>3, <3>1, <3>3
      <4>2. QED BY <1>1, <4>1
    <3>4. QED BY <3>1, <3>2, <3>3 DEF Other
  <2>2. ASSUME NEW i \in Group', NEW j \in Group', i # j
        PROVE  groups'[i] \cap groups'[j] = {}
    <3>1. CASE i \in Other /\ j \in Other
      BY <1>1, <1>5, <2>2, <3>1 DEF IsPartition, Other, Group
    <3>2. \A k \in Other, p \in SG : groups'[k] \cap p = {}
      BY <1>1, <1>3, <1>5 DEF IsPartition, Other, Group
    <3>3. CASE i \in Other /\ j \notin Other
      BY <1>1, <3>2, <3>3
    <3>4. CASE i \notin Other /\ j \in Other
      BY <1>1, <3>2, <3>4
    <3>5. CASE i \notin Other /\ j \notin Other
      BY <1>1, <1>3, <2>2, <3>5
    <3>6. QED BY <3>1, <3>3, <3>4, <3>5
  <2>3. QED BY <2>1, <2>2 DEF Parted, IsPartition, Group
<1>8. NonEmpty'
  <2>1. \A i \in Other : groups'[i] = groups[i] /\ i \in Group
    BY <1>1 DEF Other
  <2>2. ASSUME NEW i \in Group'
        PROVE  groups'[i] # {} \/ (default' /\ dfa'.final \in {{}, State})
    <3>1. CASE i \in Other
      BY <1>4, <2>1, <3>1 DEF Inv, NonEmpty
    <3>2. CASE i \notin Other
      BY <1>1, <1>3, <3>2
    <3>3. QED BY <3>1, <3>2
  <2>3. QED BY <2>2 DEF NonEmpty
<1>9. Coarsest'
  <2>1. ASSUME default, NEW c \in Congruence, Respects(c),
               NEW s \in State, NEW t \in State, c[s] = c[t],
               NEW i \in Group', s \in groups'[i]
        PROVE  t \in groups'[i]
    <3>1. \A u, v \in State : c[u] = c[v] =>
            \A j \in Group : u \in groups[j] <=> v \in groups[j]
      BY <2>1 DEF Inv, Coarsest
    <3>2. CASE i \in Other
      BY <1>1, <2>1, <3>1, <3>2 DEF Other
    <3>3. CASE i \notin Other
      <4>1. groups'[i] \in SG /\ s \in groups[at]
        BY <1>1, <1>3, <2>1, <3>3
      <4>2. t \in groups[at]
        BY <1>1, <2>1, <3>1, <4>1
      <4>3. /\ dfa.delta[<<s, a>>] \in State /\ dfa.delta[<<t, a>>] \in State
            /\ c[dfa.delta[<<s, a>>]] = c[dfa.delta[<<t, a>>]]
        BY <1>2, <2>1 DEF Respects
      <4>4. PICK j \in Group : dfa.delta[<<s, a>>] \in groups[j]
        BY <1>5, <4>3 DEF IsPartition, Group
      <4>5. dfa.delta[<<t, a>>] \in groups[j]
        BY <3>1, <4>3, <4>4
      <4>6. index[dfa.delta[<<s, a>>]] = index[dfa.delta[<<t, a>>]]
        BY <1>4, <4>3, <4>4, <4>5 DEF Inv, Marked
      <4>7. QED BY <1>3, <2>1, <4>1, <4>2, <4>6
    <3>4. QED BY <3>2, <3>3
  <2>2. \A c : Respects(c)' = Respects(c)
    BY <1>4 DEF Respects
  <2>3. QED BY <1>4, <2>1, <2>2 DEF Coarsest
<1>10. Marked' /\ Passed' /\ Assembled' /\ Unread'
  BY <1>4 DEF Inv, Marked, Passed, Assembled, Unread
<1>11. QED BY <1>6, <1>7, <1>8, <1>9, <1>10 DEF Inv

\* The marks of a new round are those of the groups.
LEMMA MarkKeeps ==
  ASSUME Inv, Mark
  PROVE  Inv'
<1>1. /\ phase = "mark" /\ phase' = "scan" /\ at' = 1
      /\ UNCHANGED <<dfa, default, groups, result, q, r>>
      /\ index' = [s \in State |->
                      IF \E i \in Group : s \in groups[i]
                        THEN (CHOOSE i \in Group : s \in groups[i]) - 1
                        ELSE index[s]]
  BY DEF Mark
<1>2. /\ Group = 1 .. Len(groups) /\ Len(groups) \in Nat /\ Len(groups) > 0
      /\ \A i \in Group : groups[i] \in SUBSET State
  BY Types DEF Inv
<1>3. IsPartition(groups) /\ Group' = Group
  BY <1>1 DEF Inv, Parted, Group
<1>4. ASSUME NEW s \in State
      PROVE  /\ index'[s] \in 0 .. Len(groups) - 1
             /\ \A i \in Group : s \in groups[i] <=> index'[s] = i - 1
  <2>1. PICK i \in Group : s \in groups[i]
    BY <1>3 DEF IsPartition, Group
  <2>2. \A j \in Group : s \in groups[j] => j = i
    BY <1>3, <2>1 DEF IsPartition, Group
  <2>3. (CHOOSE j \in Group : s \in groups[j]) = i
    BY <2>1, <2>2
  <2>4. index'[s] = i - 1
    BY <1>1, <2>1, <2>3
  <2>5. QED BY <1>2, <2>1, <2>2, <2>4
<1>5. TypeOK'
  <2>1. index' \in [State -> 0 .. Len(groups) - 1]
    BY <1>1, <1>4
  <2>2. QED BY <1>1, <1>2, <2>1 DEF Inv, TypeOK
<1>6. Marked'
  BY <1>1, <1>3, <1>4 DEF Marked
<1>7. Passed'
  BY <1>1, <1>2, <1>3 DEF Passed
<1>8. Parted' /\ NonEmpty' /\ Coarsest' /\ Assembled' /\ Unread'
  BY <1>1, <1>3 DEF Inv, Parted, NonEmpty, Coarsest, Respects, Assembled, Unread
<1>9. QED BY <1>5, <1>6, <1>7, <1>8 DEF Inv

\* The other steps: a round that goes on or ends, the result, and reading.
LEMMA StepKeeps ==
  ASSUME Inv, [Next]_vars
  PROVE  Inv'
<1>0. /\ dfa.delta \in [State \X Symbol -> State]
      /\ dfa.start \in State /\ dfa.final \in SUBSET State
      /\ groups \in Seq(SUBSET State) /\ IsPartition(groups)
      /\ Group = 1 .. Len(groups) /\ Len(groups) \in Nat /\ Len(groups) > 0
      /\ \A i \in Group : groups[i] \in SUBSET State
      /\ index \in [State -> 0 .. Len(groups) - 1]
  BY Types DEF Inv, Parted
<1>1. CASE Keep
  <2>1. /\ phase = "scan" /\ phase' = "scan" /\ at \in Group /\ at' = at + 1
        /\ Whole(groups[at])
        /\ UNCHANGED <<dfa, default, groups, index, result, q, r>>
    BY <1>1 DEF Keep
  <2>2. Group' = Group /\ \A g : Whole(g)' = Whole(g)
    BY <2>1 DEF Group, Whole
  <2>3. TypeOK'
    BY <1>0, <2>1 DEF Inv, TypeOK
  <2>4. Passed'
    <3>1. \A i \in Group : i < at' => i < at \/ i = at
      BY <1>0, <2>1
    <3>2. \A i \in Group : i < at' => Whole(groups[i])
      BY <2>1, <3>1 DEF Inv, Passed
    <3>3. QED BY <2>1, <2>2, <3>2 DEF Passed, Whole
  <2>5. Parted' /\ Marked' /\ NonEmpty' /\ Coarsest' /\ Assembled' /\ Unread'
    BY <2>1, <2>2 DEF Inv, Parted, Marked, NonEmpty, Coarsest, Respects, Assembled,
                      Unread
  <2>6. QED BY <2>3, <2>4, <2>5 DEF Inv
<1>2. CASE NoNewGroup
  <2>1. /\ phase = "scan" /\ phase' = "assemble" /\ at = Len(groups) + 1
        /\ UNCHANGED <<dfa, default, groups, index, at, result, q, r>>
    BY <1>2 DEF NoNewGroup
  <2>2. Group' = Group
    BY <2>1 DEF Group
  <2>3. TypeOK'
    BY <2>1 DEF Inv, TypeOK
  <2>4. Passed'
    <3>1. \A i \in Group : Whole(groups[i])
      BY <1>0, <2>1 DEF Inv, Passed
    <3>2. QED BY <2>1, <2>2, <3>1 DEF Passed, Whole
  <2>5. Parted' /\ Marked' /\ NonEmpty' /\ Coarsest' /\ Assembled' /\ Unread'
    BY <2>1, <2>2 DEF Inv, Parted, Marked, NonEmpty, Coarsest, Respects, Assembled,
                      Unread
  <2>6. QED BY <2>3, <2>4, <2>5 DEF Inv
<1>3. CASE Assemble
  <2>1. /\ phase = "assemble" /\ phase' = "read" /\ \A i \in Group : groups[i] # {}
        /\ UNCHANGED <<dfa, default, groups, index, at, q>>
        /\ result' =
             [delta |-> [x \in (0 .. Len(groups) - 1) \X Symbol |->
                           index[dfa.delta[<<Representative(x[1]), x[2]>>]]],
              start |-> (CHOOSE i \in Group : dfa.start \in groups[i]) - 1,
              final |-> {i \in 0 .. Len(groups) - 1 : groups[i + 1] \cap dfa.final # {}}]
        /\ r' = result'.start
    BY <1>3 DEF Assemble
  <2>2. Group' = Group /\ \A i : Representative(i)' = Representative(i)
    BY <2>1 DEF Group, Representative
  <2>3. \A i \in 0 .. Len(groups) - 1 : Representative(i) \in State
    <3>1. \A i \in 0 .. Len(groups) - 1 : i + 1 \in Group
      BY <1>0
    <3>2. \A i \in 0 .. Len(groups) - 1 : Representative(i) \in groups[i + 1]
      BY <2>1, <3>1 DEF Representative
    <3>3. QED BY <1>0, <3>1, <3>2
  <2>4. PICK i \in Group : i = (CHOOSE j \in Group : dfa.start \in groups[j])
                          /\ dfa.start \in groups[i]
    BY <1>0 DEF IsPartition, Group
  <2>5. result'.start \in 0 .. Len(groups) - 1 /\ result'.start = i - 1
    BY <1>0, <2>1, <2>4
  <2>6. result' \in Result
    <3>1. \A x \in (0 .. Len(groups) - 1) \X Symbol :
            index[dfa.delta[<<Representative(x[1]), x[2]>>]] \in Nat
      BY <1>0, <2>3
    <3>2. QED BY <2>1, <2>5, <3>1 DEF Result
  <2>7. TypeOK'
    BY <2>1, <2>5, <2>6 DEF Inv, TypeOK, Result
  <2>8. q = dfa.start
    BY <2>1 DEF Inv, Unread
  <2>9. Assembled'
    <3>1. q \in groups[r' + 1]
      BY <1>0, <2>1, <2>4, <2>5, <2>8
    <3>2. QED BY <2>1, <2>2, <3>1 DEF Assembled, Representative
  <2>10. Parted' /\ Marked' /\ Passed' /\ NonEmpty' /\ Coarsest' /\ Unread'
    BY <2>1, <2>2 DEF Inv, Parted, Marked, Passed, Whole, NonEmpty, Coarsest, Respects,
                      Unread
  <2>11. QED BY <2>7, <2>9, <2>10 DEF Inv
<1>4. CASE AssembleUndefined
  <2>1. /\ phase = "assemble" /\ phase' = "undefined" /\ \E i \in Group : groups[i] = {}
        /\ UNCHANGED <<dfa, default, groups, index, at, result, q, r>>
    BY <1>4 DEF AssembleUndefined
  <2>2. Group' = Group
    BY <2>1 DEF Group
  <2>3. TypeOK'
    BY <2>1 DEF Inv, TypeOK
  <2>4. Parted' /\ Marked' /\ Passed' /\ NonEmpty' /\ Coarsest' /\ Assembled' /\ Unread'
    BY <2>1, <2>2 DEF Inv, Parted, Marked, Passed, NonEmpty, Coarsest, Respects, Assembled,
                      Unread
  <2>5. QED BY <2>3, <2>4 DEF Inv
<1>5. ASSUME NEW a \in Symbol, Read(a) PROVE Inv'
  <2>1. /\ phase = "read" /\ phase' = "read"
        /\ UNCHANGED <<dfa, default, groups, index, at, result>>
        /\ q' = dfa.delta[<<q, a>>] /\ r' = result.delta[<<r, a>>]
    BY <1>5 DEF Read
  <2>2. Group' = Group
    BY <2>1 DEF Group
  <2>3. /\ q \in State /\ r \in 0 .. Len(groups) - 1 /\ r + 1 \in Group
        /\ q \in groups[r + 1] /\ Whole(groups[r + 1])
        /\ \A i \in Group : groups[i] # {}
    <3>1. q \in State /\ r \in 0 .. Len(groups) - 1
      BY <2>1 DEF Inv, TypeOK
    <3>2. r + 1 \in Group
      BY <1>0, <3>1
    <3>3. QED BY <2>1, <3>1, <3>2 DEF Inv, Assembled, Passed
  <2>4. Representative(r) \in groups[r + 1]
    BY <2>3 DEF Representative
  <2>5. r' = index[dfa.delta[<<Representative(r), a>>]]
    BY <2>1, <2>3 DEF Inv, Assembled
  <2>6. r' = index[q']
    BY <2>1, <2>3, <2>4, <2>5 DEF Whole
  <2>7. q' \in State /\ r' \in 0 .. Len(groups) - 1 /\ r' + 1 \in Group
    BY <1>0, <2>1, <2>3, <2>6
  <2>8. q' \in groups[r' + 1]
    <3>1. q' \in groups[r' + 1] <=> index[q'] = (r' + 1) - 1
      BY <2>1, <2>7 DEF Inv, Marked
    <3>2. QED BY <2>6, <2>7, <3>1
  <2>9. TypeOK'
    BY <2>1, <2>7 DEF Inv, TypeOK, Result
  <2>10. Assembled'
    BY <2>1, <2>2, <2>8 DEF Inv, Assembled, Representative
  <2>11. Parted' /\ Marked' /\ Passed' /\ NonEmpty' /\ Coarsest' /\ Unread'
    BY <2>1, <2>2 DEF Inv, Parted, Marked, Passed, Whole, NonEmpty, Coarsest, Respects,
                      Unread
  <2>12. QED BY <2>9, <2>10, <2>11 DEF Inv
<1>6. CASE UNCHANGED vars
  <2>1. UNCHANGED <<dfa, default, groups, index, at, phase, result, q, r>>
    BY <1>6 DEF vars
  <2>2. Group' = Group
    BY <2>1 DEF Group
  <2>3. TypeOK'
    BY <2>1 DEF Inv, TypeOK, Result
  <2>4. Parted' /\ Marked' /\ Passed' /\ NonEmpty' /\ Coarsest' /\ Assembled' /\ Unread'
    BY <2>1, <2>2 DEF Inv, Parted, Marked, Passed, Whole, NonEmpty, Coarsest, Respects,
                      Assembled, Representative, Unread
  <2>5. QED BY <2>3, <2>4 DEF Inv
<1>7. QED
  BY <1>1, <1>2, <1>3, <1>4, <1>5, <1>6, SplitKeeps, MarkKeeps DEF Next, Minimizing

-----------------------------------------------------------------------------
\* The invariant holds of every state the program reaches.
LEMMA Invariance == Spec => []Inv
<1>1. Inv /\ [Next]_vars => Inv'
  BY StepKeeps
<1>2. QED BY InitInv, <1>1, PTL DEF Spec

\* Every variable of the minimization keeps its type, and so does the DFA it
\* returns.
THEOREM TypeCorrect == Spec => []TypeOK
BY Invariance, PTL DEF Inv

\* No split parts states that no word tells apart: the result is the coarsest.
THEOREM MinimizationIsCoarsest == Spec => []Coarsest
BY Invariance, PTL DEF Inv

\* A split into groups that tell final states from the others is read by
\* DFA::recognize as the DFA itself, on every word.
THEOREM MinimizationAnswers == Spec => []SameAnswer
<1>1. Inv => SameAnswer
  <2> SUFFICES ASSUME Inv, phase = "read"
               PROVE  /\ q \in groups[r + 1]
                      /\ Separating => (q \in dfa.final <=> r \in result.final)
    BY DEF SameAnswer
  <2>1. r \in 0 .. Len(groups) - 1 /\ r + 1 \in Group
    BY Types DEF Inv, TypeOK
  <2>2. q \in groups[r + 1] /\ (r \in result.final <=> groups[r + 1] \cap dfa.final # {})
    BY <2>1 DEF Inv, Assembled
  <2>3. Separating => groups[r + 1] \subseteq dfa.final \/ groups[r + 1] \cap dfa.final = {}
    BY <2>1 DEF Separating
  <2>4. QED BY <2>2, <2>3
<1>2. QED BY Invariance, <1>1, PTL

\* The only way into undefined behaviour is the default partition of a DFA
\* without final states, or with nothing else.
THEOREM OnlyOneSided == Spec => []UndefinedOnlyIfOneSided
<1>1. Inv => UndefinedOnlyIfOneSided
  BY DEF Inv, NonEmpty, Unread, UndefinedOnlyIfOneSided
<1>2. QED BY Invariance, <1>1, PTL
=============================================================================

---------------------- MODULE SubsetConstruction_proofs ----------------------
(***************************************************************************)
(* That the DFA built by the subset construction answers as the NFA it was *)
(* built from, for every NFA, every finite alphabet and every word.        *)
(***************************************************************************)
EXTENDS SubsetConstruction, SequenceTheorems, FiniteSetTheorems, TLAPS

Inv == TypeOK /\ Numbering /\ Simulation

\* NFA::go gives sets of states.
LEMMA GoType ==
  ASSUME machine \in Machines, NEW S \in SUBSET State, NEW a \in Symbol
  PROVE  Go(machine, S, a) \in SUBSET State
<1>1. /\ machine.delta \in [State \X Symbol -> SUBSET State]
      /\ machine.closure \in [State -> SUBSET State]
  BY MachinesAssumption DEF Machine
<1>2. \A s \in S : machine.delta[<<s, a>>] \in SUBSET State
  BY <1>1
<1>3. \A d \in UNION {machine.delta[<<s, a>>] : s \in S} : machine.closure[d] \in SUBSET State
  BY <1>1, <1>2
<1>4. QED BY <1>3 DEF Go

\* The set a construction starts from is a set of states.
LEMMA StartType ==
  ASSUME machine \in Machines
  PROVE  StartSet \in SUBSET State
<1>1. machine \in Machine
  BY MachinesAssumption
<1>2. QED BY <1>1 DEF Machine, StartSet

\* The construction starts with one set and no row.
LEMMA InitInv == Init => Inv
<1> SUFFICES ASSUME Init PROVE Inv
  OBVIOUS
<1>1. machine \in Machines /\ StartSet \in SUBSET State
  BY StartType DEF Init
<1>2. /\ subsets = <<StartSet>> /\ subsets \in Seq(SUBSET State)
      /\ Size = 1 /\ DFAState = {0} /\ subsets[1] = StartSet
  BY <1>1 DEF Init, StartSet, Size, DFAState
<1>3. DOMAIN trans = {}
  BY DEF Init
<1>4. TypeOK
  BY <1>1, <1>2, <1>3 DEF Init, TypeOK, StartSet, Phase, Verdict
<1>5. Numbering
  BY <1>1, <1>2, <1>3 DEF Init, Numbering
<1>6. Simulation
  BY <1>1, <1>2, <1>3 DEF Init, Simulation, StartSet
<1>7. QED BY <1>4, <1>5, <1>6 DEF Inv

\* What one round of the construction does: the set reached has a number, and
\* the sets numbered before keep theirs.
LEMMA ExpandEffect ==
  ASSUME Inv, NEW a \in Symbol, Expand(a)
  PROVE  LET res == Go(machine, subsets[dfaState + 1], a)
         IN  /\ res \in SUBSET State
             /\ subsets' \in Seq(SUBSET State)
             /\ Size \in Nat /\ Size > 0 /\ dfaState \in 0 .. Size - 1
             /\ \A i \in 1 .. Size : subsets'[i] = subsets[i]
             /\ \E k \in 0 .. Size' - 1 :
                  /\ subsets'[k + 1] = res
                  /\ trans' = [x \in DOMAIN trans \cup {<<dfaState, a>>} |->
                                 IF x = <<dfaState, a>> THEN k ELSE trans[x]]
             /\ \/ subsets' = subsets /\ Size' = Size
                \/ /\ Size' = Size + 1 /\ subsets'[Size + 1] = res
                   /\ \A i \in 1 .. Size : subsets[i] # res
<1> DEFINE res == Go(machine, subsets[dfaState + 1], a)
<1>1. /\ subsets \in Seq(SUBSET State) /\ Size \in Nat /\ Size > 0
      /\ dfaState \in 0 .. Size - 1 /\ machine \in Machines
  BY LenProperties DEF Inv, TypeOK, Expand, Size
<1>2. subsets[dfaState + 1] \in SUBSET State
  BY <1>1 DEF Size
<1>3. res \in SUBSET State
  BY <1>1, <1>2, GoType
<1>4. CASE \A i \in 1 .. Size : subsets[i] # res
  <2>1. subsets' = Append(subsets, res)
    BY <1>4 DEF Expand
  <2>2. /\ subsets' \in Seq(SUBSET State) /\ Size' = Size + 1
        /\ \A i \in 1 .. Size : subsets'[i] = subsets[i]
        /\ subsets'[Size + 1] = res
    BY <1>1, <1>3, <2>1, AppendProperties DEF Size
  <2>3. trans' = [x \in DOMAIN trans \cup {<<dfaState, a>>} |->
                    IF x = <<dfaState, a>> THEN Size ELSE trans[x]]
    BY <1>4 DEF Expand
  <2>4. Size \in 0 .. Size' - 1
    BY <1>1, <2>2
  <2>5. QED BY <1>1, <1>3, <1>4, <2>2, <2>3, <2>4
<1>5. CASE ~ \A i \in 1 .. Size : subsets[i] # res
  <2>1. subsets' = subsets /\ Size' = Size
    BY <1>5 DEF Expand, Size
  <2>2. NumberOf(res) \in 0 .. Size - 1 /\ subsets[NumberOf(res) + 1] = res
    <3>1. PICK i \in 1 .. Size : subsets[i] = res
      BY <1>5
    <3>2. (CHOOSE j \in 1 .. Size : subsets[j] = res) \in 1 .. Size
          /\ subsets[CHOOSE j \in 1 .. Size : subsets[j] = res] = res
      BY <3>1
    <3>3. QED BY <1>1, <3>2 DEF NumberOf
  <2>3. trans' = [x \in DOMAIN trans \cup {<<dfaState, a>>} |->
                    IF x = <<dfaState, a>> THEN NumberOf(res) ELSE trans[x]]
    BY <1>5 DEF Expand
  <2>4. QED BY <1>1, <1>3, <2>1, <2>2, <2>3
<1>6. QED BY <1>4, <1>5

\* A round of the construction keeps the invariant.
LEMMA ExpandKeeps ==
  ASSUME Inv, NEW a \in Symbol, Expand(a)
  PROVE  Inv'
<1> DEFINE res == Go(machine, subsets[dfaState + 1], a)
<1>1. /\ res \in SUBSET State /\ subsets' \in Seq(SUBSET State)
      /\ Size \in Nat /\ Size > 0 /\ dfaState \in 0 .. Size - 1
      /\ \A i \in 1 .. Size : subsets'[i] = subsets[i]
  BY ExpandEffect
<1>2. PICK k \in 0 .. Size' - 1 :
        /\ subsets'[k + 1] = res
        /\ trans' = [x \in DOMAIN trans \cup {<<dfaState, a>>} |->
                       IF x = <<dfaState, a>> THEN k ELSE trans[x]]
  BY ExpandEffect
<1>3. \/ subsets' = subsets /\ Size' = Size
      \/ /\ Size' = Size + 1 /\ subsets'[Size + 1] = res
         /\ \A i \in 1 .. Size : subsets[i] # res
  BY ExpandEffect
<1>4. Size' \in Nat /\ Size' >= Size /\ DFAState \subseteq DFAState'
  BY <1>1, <1>3 DEF DFAState
<1>5. /\ phase = "build" /\ phase' = phase /\ machine' = machine /\ dfaState' = dfaState
      /\ a \in pending /\ pending' = pending \ {a} /\ final' = final
      /\ q' = q /\ T' = T /\ nfaAnswer' = nfaAnswer /\ dfaAnswer' = dfaAnswer
  BY DEF Expand, run
<1>6. StartSet' = StartSet /\ \A S, b : Go(machine', S, b) = Go(machine, S, b)
  BY <1>5 DEF StartSet
<1>7. \A i \in 1 .. Size : subsets[i] \in SUBSET State
  BY DEF Inv, TypeOK, Size
<1>8. TypeOK'
  <2>1. DOMAIN trans' \subseteq DFAState' \X Symbol
    BY <1>1, <1>2, <1>4, <1>5 DEF Inv, TypeOK, DFAState
  <2>2. \A x \in DOMAIN trans' : trans'[x] \in DFAState'
    BY <1>2, <1>4 DEF Inv, TypeOK, DFAState
  <2>3. /\ machine' \in Machines /\ phase' \in Phase /\ Size' > 0
        /\ dfaState' \in 0 .. Size' /\ pending' \in SUBSET Symbol
        /\ final' \in SUBSET DFAState' /\ q' \in DFAState' /\ T' \in SUBSET State
        /\ nfaAnswer' \in Verdict /\ dfaAnswer' \in Verdict
    BY <1>1, <1>4, <1>5 DEF Inv, TypeOK
  <2>4. QED BY <1>1, <2>1, <2>2, <2>3 DEF TypeOK
<1>9. Numbering'
  <2>1. ASSUME NEW i \in 1 .. Size', NEW j \in 1 .. Size', subsets'[i] = subsets'[j]
        PROVE  i = j
    <3>1. \A x, y \in 1 .. Size : subsets[x] = subsets[y] => x = y
      BY DEF Inv, Numbering
    <3>2. CASE i \in 1 .. Size /\ j \in 1 .. Size
      BY <1>1, <2>1, <3>1, <3>2
    <3>3. CASE Size' = Size
      BY <1>1, <3>2, <3>3
    <3>4. CASE /\ Size' = Size + 1 /\ subsets'[Size + 1] = res
               /\ \A x \in 1 .. Size : subsets[x] # res
      <4>1. i \in 1 .. Size \/ i = Size + 1
        BY <1>1, <3>4
      <4>2. j \in 1 .. Size \/ j = Size + 1
        BY <1>1, <3>4
      <4>3. QED BY <1>1, <2>1, <3>2, <3>4, <4>1, <4>2
    <3>5. QED BY <1>3, <3>3, <3>4
  <2>2. subsets'[1] = StartSet'
    BY <1>1, <1>6 DEF Inv, Numbering
  <2>3. ASSUME NEW i \in 2 .. Size'
        PROVE  \E j \in 1 .. i - 1, b \in Symbol : subsets'[i] = Go(machine, subsets[j], b)'
    <3>1. CASE i \in 2 .. Size
      <4>1. PICK j \in 1 .. i - 1, b \in Symbol : subsets[i] = Go(machine, subsets[j], b)
        BY <3>1 DEF Inv, Numbering
      <4>2. subsets'[j] = subsets[j] /\ subsets'[i] = subsets[i]
        BY <1>1, <3>1
      <4>3. Go(machine, subsets[j], b)' = Go(machine, subsets[j], b)
        BY <1>5, <4>2
      <4>4. QED BY <4>1, <4>2, <4>3
    <3>2. CASE i = Size + 1 /\ Size' = Size + 1
      <4>1. subsets'[i] = res /\ subsets'[dfaState + 1] = subsets[dfaState + 1]
        BY <1>1, <1>3, <3>2
      <4>2. subsets'[i] = Go(machine', subsets'[dfaState + 1], a)
        BY <1>5, <4>1
      <4>3. dfaState + 1 \in 1 .. i - 1
        BY <1>1, <3>2
      <4> HIDE DEF res
      <4>4. QED BY <4>2, <4>3
    <3>3. Size' = Size \/ Size' = Size + 1
      BY <1>3
    <3>4. i \in 2 .. Size \/ (i = Size + 1 /\ Size' = Size + 1)
      BY <1>1, <3>3
    <3>5. QED BY <3>1, <3>2, <3>4
  <2>4. DOMAIN trans' = ((0 .. dfaState' - 1) \X Symbol)
                          \cup ({dfaState'} \X (Symbol \ pending'))
    <3>1. DOMAIN trans' = DOMAIN trans \cup {<<dfaState, a>>}
      BY <1>2
    <3>2. {dfaState} \X (Symbol \ pending') =
            ({dfaState} \X (Symbol \ pending)) \cup {<<dfaState, a>>}
      BY <1>5
    <3>3. QED BY <1>5, <3>1, <3>2 DEF Inv, Numbering
  <2>5. dfaState' # Size'
    BY <1>1, <1>4, <1>5
  <2>6. QED BY <2>1, <2>2, <2>3, <2>4, <2>5 DEF Numbering
<1>10. Simulation'
  <2>1. ASSUME NEW i \in DFAState', NEW b \in Symbol, <<i, b>> \in DOMAIN trans'
        PROVE  subsets'[trans'[<<i, b>>] + 1] = Go(machine, subsets[i + 1], b)'
    <3>1. CASE <<i, b>> = <<dfaState, a>>
      <4>1. i = dfaState /\ b = a /\ trans'[<<i, b>>] = k
        BY <1>2, <3>1
      <4>2. subsets'[i + 1] = subsets[i + 1]
        BY <1>1, <4>1
      <4>3. Go(machine, subsets[i + 1], b)' = res
        BY <1>5, <4>1, <4>2
      <4>4. QED BY <1>2, <4>1, <4>3
    <3>2. CASE <<i, b>> # <<dfaState, a>>
      <4>1. <<i, b>> \in DOMAIN trans /\ trans'[<<i, b>>] = trans[<<i, b>>]
        BY <1>2, <2>1, <3>2
      <4>2. i \in DFAState /\ trans[<<i, b>>] \in DFAState
        BY <4>1 DEF Inv, TypeOK
      <4>3. subsets[trans[<<i, b>>] + 1] = Go(machine, subsets[i + 1], b)
        BY <4>1, <4>2 DEF Inv, Simulation
      <4>4. /\ subsets'[i + 1] = subsets[i + 1]
            /\ subsets'[trans[<<i, b>>] + 1] = subsets[trans[<<i, b>>] + 1]
        BY <1>1, <4>2 DEF DFAState
      <4>5. Go(machine, subsets[i + 1], b)' = Go(machine, subsets[i + 1], b)
        BY <1>5, <4>4
      <4>6. QED BY <4>1, <4>3, <4>4, <4>5
    <3>3. QED BY <3>1, <3>2
  <2>2. q' = 0 /\ T' = StartSet' /\ nfaAnswer' = "none" /\ dfaAnswer' = "none"
    BY <1>5, <1>6 DEF Inv, Simulation
  <2>3. QED BY <1>5, <2>1, <2>2 DEF Simulation
<1>11. QED BY <1>8, <1>9, <1>10 DEF Inv

\* The other steps of the construction, and the two recognizers.
LEMMA StepKeeps ==
  ASSUME Inv, [Next]_vars
  PROVE  Inv'
<1>0. /\ subsets \in Seq(SUBSET State) /\ Size \in Nat /\ Size > 0
      /\ machine \in Machines
  BY LenProperties DEF Inv, TypeOK, Size
<1>1. CASE NextRow
  <2>1. /\ UNCHANGED <<machine, phase, subsets, trans, final, run>>
        /\ phase = "build" /\ dfaState \in 0 .. Size - 1 /\ pending = {}
        /\ dfaState' = dfaState + 1 /\ pending' = Symbol
    BY <1>0, <1>1 DEF NextRow, Inv, TypeOK
  <2>2. Size' = Size /\ DFAState' = DFAState /\ StartSet' = StartSet
    BY <2>1 DEF Size, DFAState, StartSet
  <2>3. TypeOK'
    BY <1>0, <2>1, <2>2 DEF Inv, TypeOK, run
  <2>4. DOMAIN trans' = ((0 .. dfaState' - 1) \X Symbol)
                          \cup ({dfaState'} \X (Symbol \ pending'))
    <3>1. 0 .. dfaState' - 1 = (0 .. dfaState - 1) \cup {dfaState}
      BY <1>0, <2>1
    <3>2. DOMAIN trans' = ((0 .. dfaState - 1) \X Symbol) \cup ({dfaState} \X Symbol)
      BY <2>1 DEF Inv, Numbering
    <3>3. QED BY <2>1, <3>1, <3>2
  <2>5. Numbering'
    BY <2>1, <2>2, <2>4 DEF Inv, Numbering
  <2>6. Simulation'
    BY <2>1, <2>2 DEF Inv, Simulation, run
  <2>7. QED BY <2>3, <2>5, <2>6 DEF Inv
<1>2. CASE Construct
  <2>1. /\ UNCHANGED <<machine, subsets, dfaState, pending, trans, run>>
        /\ phase = "build" /\ dfaState = Size
        /\ final' = {i \in DFAState : ContainFinalState(subsets[i + 1])}
        /\ phase' \in {"run", "no_DFA"}
    BY <1>2 DEF Construct
  <2>2. /\ Size' = Size /\ DFAState' = DFAState /\ StartSet' = StartSet
        /\ \A S : ContainFinalState(S)' = ContainFinalState(S)
    BY <2>1 DEF Size, DFAState, StartSet, ContainFinalState
  <2>3. TypeOK'
    BY <2>1, <2>2 DEF Inv, TypeOK, run, Phase
  <2>4. Numbering'
    BY <2>1, <2>2 DEF Inv, Numbering
  <2>5. DOMAIN trans = DFAState \X Symbol
    BY <1>0, <2>1 DEF Inv, Numbering, DFAState
  <2>6. final' = {i \in DFAState' : ContainFinalState(subsets[i + 1])'}
    BY <2>1, <2>2 DEF ContainFinalState
  <2>7. Simulation'
    BY <2>1, <2>2, <2>5, <2>6 DEF Inv, Simulation, run, Numbering
  <2>8. QED BY <2>3, <2>4, <2>7 DEF Inv
<1>3. ASSUME NEW a \in Symbol, Read(a) PROVE Inv'
  <2>1. /\ UNCHANGED <<machine, phase, subsets, dfaState, pending, trans, final>>
        /\ phase = "run"
    BY <1>3 DEF Read, build
  <2>2. /\ Size' = Size /\ DFAState' = DFAState /\ StartSet' = StartSet
        /\ \A S : ContainFinalState(S)' = ContainFinalState(S)
    BY <2>1 DEF Size, DFAState, StartSet, ContainFinalState
  <2>3. /\ q \in DFAState /\ T \in SUBSET State /\ <<q, a>> \in DOMAIN trans
        /\ DOMAIN trans = DFAState \X Symbol
    BY <2>1 DEF Inv, TypeOK, Simulation
  <2>4. /\ q' = trans[<<q, a>>] /\ q' \in DFAState /\ dfaAnswer' = dfaAnswer
        /\ subsets[q' + 1] = Go(machine, subsets[q + 1], a)
    BY <1>3, <2>3 DEF Read, Inv, TypeOK, Simulation
  <2>5. Go(machine, T, a) \in SUBSET State /\ Go(machine, {}, a) = {}
    BY <1>0, <2>3, GoType DEF Go
  <2>6. /\ T' \in SUBSET State /\ nfaAnswer' \in Verdict
        /\ \/ nfaAnswer' = "none" /\ subsets'[q' + 1] = T'
           \/ nfaAnswer' = "reject" /\ subsets'[q' + 1] = {}
    <3>1. CASE nfaAnswer = "none" /\ subsets[q + 1] = T
      BY <1>3, <2>1, <2>4, <2>5, <3>1 DEF Read, Verdict
    <3>2. CASE nfaAnswer = "reject" /\ subsets[q + 1] = {}
      BY <1>3, <2>1, <2>3, <2>4, <2>5, <3>2 DEF Read, Verdict
    <3>3. QED BY <2>1, <3>1, <3>2 DEF Inv, Simulation
  <2>7. TypeOK'
    BY <2>1, <2>2, <2>4, <2>6 DEF Inv, TypeOK
  <2>8. Numbering'
    BY <2>1, <2>2 DEF Inv, Numbering
  <2>9. final' = {i \in DFAState' : ContainFinalState(subsets[i + 1])'}
    BY <2>1, <2>2 DEF Inv, Simulation, ContainFinalState
  <2>10. Simulation'
    BY <2>1, <2>2, <2>3, <2>4, <2>6, <2>9 DEF Inv, Simulation
  <2>11. QED BY <2>7, <2>8, <2>10 DEF Inv
<1>4. CASE End
  <2>1. /\ UNCHANGED <<machine, subsets, dfaState, pending, trans, final, q, T>>
        /\ phase' = "done" /\ nfaAnswer' \in Verdict /\ dfaAnswer' \in Verdict
    BY <1>4 DEF End, build, Verdict, Inv, TypeOK
  <2>2. Size' = Size /\ DFAState' = DFAState /\ StartSet' = StartSet
    BY <2>1 DEF Size, DFAState, StartSet
  <2>3. TypeOK' /\ Numbering' /\ Simulation'
    BY <2>1, <2>2 DEF Inv, TypeOK, Phase, Numbering, Simulation
  <2>4. QED BY <2>3 DEF Inv
<1>5. CASE UNCHANGED vars
  <2>1. /\ UNCHANGED <<machine, phase, subsets, dfaState, pending, trans, final>>
        /\ UNCHANGED <<q, T, nfaAnswer, dfaAnswer>>
    BY <1>5 DEF vars, build, run
  <2>2. QED
    BY <2>1 DEF Inv, TypeOK, Numbering, Simulation, Size, DFAState, StartSet,
                ContainFinalState
<1>6. QED
  BY <1>1, <1>2, <1>3, <1>4, <1>5, ExpandKeeps DEF Next, Building

-----------------------------------------------------------------------------
\* The invariant holds of every state the program reaches.
LEMMA Invariance == Spec => []Inv
<1>1. Inv /\ [Next]_vars => Inv'
  BY StepKeeps
<1>2. QED BY InitInv, <1>1, PTL DEF Spec

\* Every variable of the construction and of the two recognizers keeps its type.
THEOREM TypeCorrect == Spec => []TypeOK
BY Invariance, PTL DEF Inv

\* The numbers of to_DFA_with_mapping stay a bijection with the sets found, and
\* the rows before the current one are filled, each with every symbol.
THEOREM NumberingCorrect == Spec => []Numbering
BY Invariance, PTL DEF Inv

\* The DFA under construction has the transitions of the sets its states stand
\* for, and DFA::recognize follows NFA::recognize on every word.
THEOREM SimulationCorrect == Spec => []Simulation
BY Invariance, PTL DEF Inv

\* The constructor of DFA counts every transition there is to count.
LEMMA Complete ==
  ASSUME Inv, Construct
  PROVE  phase' = "run"
<1>1. /\ Size \in Nat /\ dfaState = Size /\ phase = "build"
  BY LenProperties DEF Inv, TypeOK, Size, Construct
<1>2. DOMAIN trans = DFAState \X Symbol
  BY <1>1 DEF Inv, Numbering, DFAState
<1>3. IsFiniteSet(DFAState) /\ Cardinality(DFAState) = Size
  BY <1>1, FS_Interval DEF DFAState
<1>4. /\ Cardinality(DFAState \X Symbol) = Cardinality(DFAState) * Cardinality(Symbol)
      /\ Cardinality(Symbol) \in Nat
  BY <1>3, SymbolAssumption, FS_Product, FS_CardinalityType
<1>5. Cardinality(DOMAIN trans) = Cardinality(Symbol) * Size
  BY <1>1, <1>2, <1>3, <1>4
<1>6. QED BY <1>5 DEF Construct

\* When the word ends the two recognizers hold the same set of states, or the
\* first has given up and the second is in the state of the empty set.
LEMMA EndAgrees ==
  ASSUME Inv, End
  PROVE  nfaAnswer' = dfaAnswer' /\ nfaAnswer' # "none"
<1>1. /\ dfaAnswer = "none" /\ q \in DFAState
      /\ final = {i \in DFAState : ContainFinalState(subsets[i + 1])}
  BY DEF End, Inv, TypeOK, Simulation
<1>2. q \in final <=> ContainFinalState(subsets[q + 1])
  BY <1>1
<1>3. CASE nfaAnswer = "none" /\ subsets[q + 1] = T
  BY <1>1, <1>2, <1>3 DEF End
<1>4. CASE nfaAnswer = "reject" /\ subsets[q + 1] = {}
  <2>1. ~ ContainFinalState(subsets[q + 1])
    BY <1>4 DEF ContainFinalState
  <2>2. QED BY <1>1, <1>2, <1>4, <2>1 DEF End
<1>5. QED BY <1>3, <1>4 DEF End, Inv, Simulation

\* NFA::recognize and DFA::recognize, on the DFA built from the NFA, answer the
\* same on every word, and the conversion never fails.
THEOREM AnswersAgree == Spec => []SameAnswer
<1>1. Init => SameAnswer
  BY DEF Init, SameAnswer
<1>2. Inv /\ SameAnswer /\ [Next]_vars => SameAnswer'
  <2> SUFFICES ASSUME Inv, SameAnswer, [Next]_vars PROVE SameAnswer'
    OBVIOUS
  <2>1. CASE Construct
    BY <2>1, Complete DEF SameAnswer
  <2>2. CASE NextRow
    BY <2>2 DEF NextRow, SameAnswer
  <2>3. ASSUME NEW a \in Symbol, Expand(a) PROVE SameAnswer'
    BY <2>3 DEF Expand, SameAnswer
  <2>4. CASE End
    BY <2>4, EndAgrees DEF End, SameAnswer
  <2>5. ASSUME NEW a \in Symbol, Read(a) PROVE SameAnswer'
    BY <2>5 DEF Read, SameAnswer
  <2>6. CASE UNCHANGED vars
    BY <2>6 DEF vars, run, SameAnswer
  <2>7. QED BY <2>1, <2>2, <2>3, <2>4, <2>5, <2>6 DEF Next, Building
<1>3. QED BY <1>1, <1>2, Invariance, PTL DEF Spec

-----------------------------------------------------------------------------
\* The set DFA::recognize stands in, as Recognizer sees it.
Current == IF phase \in {"run", "done"} THEN subsets[q + 1] ELSE StartSet

\* Each step of the two recognizers is a step of Recognizer, each step of the
\* construction a stutter.
LEMMA StepSimulates ==
  ASSUME Inv, [Next]_vars
  PROVE  [Abstract!Next]_<<machine, Current, dfaAnswer>>
<1>1. CASE Construct
  <2>1. phase' = "run" /\ phase = "build"
    BY <1>1, Complete DEF Construct
  <2>2. q = 0 /\ subsets[1] = StartSet
    BY <2>1 DEF Inv, Simulation, Numbering
  <2>3. UNCHANGED <<machine, subsets, q, dfaAnswer>>
    BY <1>1 DEF Construct, run
  <2>4. Current' = Current
    BY <2>1, <2>2, <2>3 DEF Current
  <2>5. QED BY <2>3, <2>4
<1>2. CASE NextRow
  BY <1>2 DEF NextRow, run, Current, StartSet
<1>3. ASSUME NEW a \in Symbol, Expand(a)
      PROVE  UNCHANGED <<machine, Current, dfaAnswer>>
  BY <1>3 DEF Expand, run, Current, StartSet
<1>4. CASE End
  <2>1. /\ phase = "run" /\ phase' = "done"
        /\ UNCHANGED <<machine, subsets, q>>
    BY <1>4 DEF End, build
  <2>2. Current' = Current /\ Current = subsets[q + 1]
    BY <2>1 DEF Current
  <2>3. dfaAnswer = "none" /\ q \in DFAState
        /\ final = {i \in DFAState : ContainFinalState(subsets[i + 1])}
    BY <2>1 DEF Inv, TypeOK, Simulation
  <2>4. dfaAnswer' = Abstract!Answer(machine, Current)
    BY <1>4, <2>2, <2>3 DEF End, Abstract!Answer, ContainFinalState
  <2>5. Abstract!End
    BY <2>1, <2>2, <2>3, <2>4 DEF Abstract!End, Current
  <2>6. QED BY <2>5 DEF Abstract!Next
<1>5. ASSUME NEW a \in Symbol, Read(a) PROVE Abstract!Next
  <2>1. /\ phase = "run" /\ phase' = phase
        /\ UNCHANGED <<machine, subsets>>
    BY <1>5 DEF Read, build
  <2>2. dfaAnswer = "none" /\ q \in DFAState /\ <<q, a>> \in DOMAIN trans
    BY <2>1 DEF Inv, TypeOK, Simulation
  <2>3. /\ q' = trans[<<q, a>>] /\ dfaAnswer' = dfaAnswer
        /\ subsets[q' + 1] = Go(machine, subsets[q + 1], a)
    BY <1>5, <2>2 DEF Read, Inv, Simulation
  <2>4. Current' = Abstract!After(machine, Current, a)
    BY <2>1, <2>3 DEF Current, Go, Abstract!After
  <2>5. Abstract!Read(a)
    BY <2>1, <2>2, <2>3, <2>4 DEF Abstract!Read, Current
  <2>6. QED BY <2>5 DEF Abstract!Next
<1>6. CASE UNCHANGED vars
  BY <1>6 DEF vars, build, run, Current, StartSet
<1>7. QED
  BY <1>1, <1>2, <1>3, <1>4, <1>5, <1>6 DEF Next, Building

\* The DFA that is built recognizes as the NFA: its runs are runs of Recognizer.
THEOREM RecognizesAsNFA == Spec => Implements
<1>1. Init => Abstract!Init
  BY DEF Init, Abstract!Init, Current, StartSet
<1>2. Inv /\ [Next]_vars => [Abstract!Next]_<<machine, Current, dfaAnswer>>
  BY StepSimulates
<1>3. QED BY <1>1, <1>2, Invariance, PTL DEF Spec, Implements, Abstract!Spec, Current
=============================================================================

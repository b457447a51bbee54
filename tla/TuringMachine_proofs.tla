------------------------- MODULE TuringMachine_proofs -------------------------
(***************************************************************************)
(* That recognize of Turing_machine and of NTM compute what Turing         *)
(* machines do, whose tapes have no end, and that the one accepts no more  *)
(* than the other: for all states, symbols, words and transitions.         *)
(***************************************************************************)
EXTENDS TuringMachine, FiniteSetTheorems, SequenceTheorems, FunctionTheorems, TLAPS

\* For induction and recursion over the naturals, which no grammar has a part in.
Nats == INSTANCE ContextFree_proofs WITH Terminal <- {}, NonTerminal <- {}, EndMarker <- "end"

\* A finite set of naturals that is not empty has a greatest one.
LEMMA FiniteSetHasGreatest ==
  ASSUME NEW S \in SUBSET Nat, IsFiniteSet(S), S # {}
  PROVE  \E m \in S : \A n \in S : n <= m
<1>1. Nats!IsFiniteSet(S)
  BY DEF IsFiniteSet, Nats!IsFiniteSet
<1> QED BY <1>1, Nats!FiniteSetHasGreatest


-----------------------------------------------------------------------------
(* The computation of the Turing_machine, past the step it has come to.    *)

Goes(c) == c.state \notin {AcceptState, RejectState} /\ GetSituation(c) \in DOMAIN transitions

NextOf(c) == IF Goes(c) THEN Go(c, transitions[GetSituation(c)]) ELSE c

Started == [state |-> StartState, tape |-> word, head |-> 0]

Computation ==
  LET after[n \in Nat] == IF n = 0 THEN Started ELSE NextOf(after[n - 1])
  IN  after

\* It made all the steps before the one it does next.
MadeSteps(n) == \A i \in 0 .. n - 1 : Goes(Computation[i])

\* The Turing_machine is where its computation is, and the NTM has that among its
\* configurations for as long as the computation goes on without rejecting.
Following ==
  /\ phase \in {"building", "built"} => steps = 0 /\ rounds = 0 /\ answer = "none" /\ answers = "none"
  /\ phase = "running" =>
       /\ configuration = Computation[steps] /\ MadeSteps(steps)
       /\ answer = "yes" => configuration.state = AcceptState
       /\ MadeSteps(rounds) /\ Computation[rounds].state # RejectState =>
            answers # "no" /\ Computation[rounds] \in configurations
       /\ \A n \in 0 .. rounds - 1 : MadeSteps(n) => Computation[n].state # AcceptState

-----------------------------------------------------------------------------
(* Configurations.                                                         *)

\* Writing to a tape leaves a tape.
LEMMA SetTapeSymbolType ==
  ASSUME NEW c \in Configurations, NEW x \in TapeSymbols
  PROVE  SetTapeSymbol(c, x) \in Seq(TapeSymbols)
<1> DEFINE k == IF c.head < Len(c.tape) THEN Len(c.tape) ELSE c.head + 1
<1>1. c.tape \in Seq(TapeSymbols) /\ c.head \in Nat /\ Len(c.tape) \in Nat
  BY LenProperties DEF Configurations
<1>2. k \in Nat
  BY <1>1
<1>3. ASSUME NEW i \in 1 .. Len(c.tape) PROVE c.tape[i] \in TapeSymbols
  BY <1>1, <1>3, ElementOfSeq
<1>4. SetTapeSymbol(c, x) \in [1 .. k -> TapeSymbols]
  BY <1>1, <1>2, <1>3 DEF SetTapeSymbol, TapeSymbols
<1> HIDE DEF k
<1> QED BY <1>2, <1>4, SeqDef

\* A move leads to a configuration, and the head to the next cell at most.
LEMMA GoType ==
  ASSUME NEW c \in Configurations, NEW m \in Moves
  PROVE  Go(c, m) \in Configurations /\ Go(c, m).head <= c.head + 1 /\ Go(c, m).state = m.state
<1>1. m.state \in States /\ m.symbol \in TapeSymbols /\ c.head \in Nat
  BY DEF Moves, Configurations
<1>2. MoveHead(c.head, m.direction) \in Nat /\ MoveHead(c.head, m.direction) <= c.head + 1
  BY <1>1 DEF MoveHead
<1>3. SetTapeSymbol(c, m.symbol) \in Seq(TapeSymbols)
  BY <1>1, SetTapeSymbolType
<1> QED BY <1>1, <1>2, <1>3 DEF Go, Configurations

\* recognize starts in a configuration.
LEMMA StartedType ==
  ASSUME word \in Words
  PROVE  Started \in Configurations
BY MachineAssumption, BoundsAssumption DEF Started, Configurations

\* And its next one is one.
LEMMA NextOfType ==
  ASSUME TypeOK, NEW c \in Configurations
  PROVE  NextOf(c) \in Configurations
<1>1. CASE Goes(c)
  <2>1. transitions[GetSituation(c)] \in Moves
    BY <1>1 DEF Goes, TypeOK, FunctionsOK
  <2> QED BY <1>1, <2>1, GoType DEF NextOf
<1>2. CASE ~ Goes(c)
  BY <1>2 DEF NextOf
<1> QED BY <1>1, <1>2

Unfolded ==
  /\ Computation \in [Nat -> Configurations]
  /\ Computation[0] = Started
  /\ \A n \in Nat : Computation[n + 1] = NextOf(Computation[n])

\* The computation is the one that starts so and goes on so.
LEMMA ComputationUnfolds == TypeOK /\ word \in Words => Unfolded
<1> SUFFICES ASSUME TypeOK, word \in Words PROVE Unfolded
  OBVIOUS
<1> DEFINE F == [p \in Nat \X Configurations |-> NextOf(p[2])]
           Is(f) == f = [n \in Nat |-> IF n = 0 THEN Started ELSE NextOf(f[n - 1])]
<1>1. Started \in Configurations
  BY StartedType
<1>2. Nats!StaysIn(Configurations, Started, F)
  BY <1>1, NextOfType DEF Nats!StaysIn
<1>3. PICK f : Nats!Iterates(f, Configurations, Started, F)
  <2> HIDE DEF F
  <2> QED BY <1>2, Nats!RecursionOnNat
<1>4. ASSUME NEW n \in Nat PROVE f[n + 1] = NextOf(f[n])
  BY <1>3 DEF Nats!Iterates
<1>5. Is(f)
  <2>1. ASSUME NEW n \in Nat PROVE f[n] = IF n = 0 THEN Started ELSE NextOf(f[n - 1])
    <3>1. CASE n = 0
      BY <3>1, <1>3 DEF Nats!Iterates
    <3>2. CASE n # 0
      <4>1. n - 1 \in Nat /\ (n - 1) + 1 = n
        BY <3>2
      <4> QED BY <4>1, <3>2, <1>4
    <3> QED BY <3>1, <3>2
  <2> QED BY <2>1, <1>3 DEF Nats!Iterates
<1>6. Is(Computation)
  <2>1. \E g : Is(g)
    BY <1>5
  <2>2. Computation = CHOOSE g : Is(g)
    BY DEF Computation
  <2> HIDE DEF Is
  <2> QED BY <2>1, <2>2
<1>7. Computation[0] = Started
  BY <1>6
<1>8. ASSUME NEW n \in Nat PROVE Computation[n + 1] = NextOf(Computation[n])
  BY <1>6
<1>9. Computation \in [Nat -> Configurations]
  <2> DEFINE T == {n \in Nat : Computation[n] \in Configurations}
  <2>1. 0 \in T
    BY <1>7, <1>1
  <2>2. ASSUME NEW n \in Nat, n \in T PROVE n + 1 \in T
    BY <2>2, <1>8, NextOfType
  <2>3. Nat \subseteq T
    <3> HIDE DEF T
    <3> QED BY <2>1, <2>2, Nats!InductionOnNat
  <2> QED BY <2>3, <1>6
<1> QED BY <1>7, <1>8, <1>9 DEF Unfolded

-----------------------------------------------------------------------------
(* Types.                                                                  *)

\* Whatever moves are added, the first one of each situation stays among its choices.
LEMMA AddTransitionsKeeps ==
  ASSUME FunctionsOK, NEW moves, DOMAIN moves \subseteq States \X TapeSymbols,
         \A s \in DOMAIN moves : moves[s] \in Moves,
         AddTransitions(moves)
  PROVE  FunctionsOK'
<1> DEFINE both == DOMAIN transitions \cup DOMAIN moves
           more == [s \in DOMAIN moves |-> {moves[s]} \cup (IF s \in DOMAIN choices THEN choices[s] ELSE {})]
<1>1. transitions' = [s \in both |-> IF s \in DOMAIN transitions THEN transitions[s] ELSE moves[s]]
  BY DEF AddTransitions, First
<1>2. choices' = [s \in both |-> IF s \in DOMAIN moves THEN more[s] ELSE choices[s]]
  <2>1. DOMAIN more \cup DOMAIN choices = both /\ DOMAIN more = DOMAIN moves
    BY DEF FunctionsOK
  <2>2. choices' = First(more, choices)
    BY DEF AddTransitions
  <2> HIDE DEF more, both
  <2> QED BY <2>1, <2>2 DEF First
<1>3. ASSUME NEW s \in both PROVE transitions'[s] \in Moves /\ choices'[s] \subseteq Moves /\ transitions'[s] \in choices'[s]
  <2>1. CASE s \in DOMAIN moves /\ s \in DOMAIN transitions
    BY <1>1, <1>2, <2>1 DEF FunctionsOK
  <2>2. CASE s \in DOMAIN moves /\ s \notin DOMAIN transitions
    BY <1>1, <1>2, <2>2 DEF FunctionsOK
  <2>3. CASE s \notin DOMAIN moves
    BY <1>1, <1>2, <2>3 DEF FunctionsOK
  <2> QED BY <2>1, <2>2, <2>3
<1> QED BY <1>1, <1>2, <1>3 DEF FunctionsOK

\* Each of the calls that build a transition function adds moves like that.
LEMMA BuildingKeeps ==
  ASSUME FunctionsOK, NEW from \in States, NEW to \in States, NEW d \in Directions,
         \/ \E old, new \in TapeSymbols : AddMovingTransition(from, old, to, new, d)
         \/ \E symbols \in (SUBSET TapeSymbols) \ {{}} : AddMovingTransitions(from, symbols, to, d)
  PROVE  FunctionsOK'
<1>1. ASSUME NEW old \in TapeSymbols, NEW new \in TapeSymbols, AddMovingTransition(from, old, to, new, d)
      PROVE  FunctionsOK'
  <2> DEFINE moves == [s \in {<<from, old>>} |-> [state |-> to, symbol |-> new, direction |-> d]]
  <2>1. DOMAIN moves \subseteq States \X TapeSymbols /\ \A s \in DOMAIN moves : moves[s] \in Moves
    BY DEF Moves
  <2>2. AddTransitions(moves)
    BY <1>1 DEF AddMovingTransition
  <2> HIDE DEF moves
  <2> QED BY <2>1, <2>2, AddTransitionsKeeps
<1>2. ASSUME NEW symbols \in SUBSET TapeSymbols, AddMovingTransitions(from, symbols, to, d)
      PROVE  FunctionsOK'
  <2> DEFINE moves == [s \in {from} \X symbols |-> [state |-> to, symbol |-> s[2], direction |-> d]]
  <2>1. DOMAIN moves \subseteq States \X TapeSymbols /\ \A s \in DOMAIN moves : moves[s] \in Moves
    BY DEF Moves
  <2>2. AddTransitions(moves)
    BY <1>2 DEF AddMovingTransitions
  <2> HIDE DEF moves
  <2> QED BY <2>1, <2>2, AddTransitionsKeeps
<1> QED BY <1>1, <1>2

\* A round leads to configurations whose heads have moved a cell further at most.
LEMMA AfterType ==
  ASSUME FunctionsOK, NEW n \in Nat, NEW cs,
         \A c \in cs : c \in Configurations /\ c.head <= n
  PROVE  \A c \in After(cs) : c \in Configurations /\ c.head <= n + 1
<1> SUFFICES ASSUME NEW c \in cs, GetSituation(c) \in DOMAIN choices, NEW m \in choices[GetSituation(c)]
             PROVE  Go(c, m) \in Configurations /\ Go(c, m).head <= n + 1
  BY DEF After
<1>1. m \in Moves
  BY DEF FunctionsOK
<1>2. Go(c, m) \in Configurations /\ Go(c, m).head <= c.head + 1
  BY <1>1, GoType
<1>3. c.head \in Nat /\ Go(c, m).head \in Nat
  BY <1>2 DEF Configurations
<1> QED BY <1>2, <1>3

\* Every variable keeps its type, and no head runs ahead of the steps that were made.
LEMMA TypeInvariant == TypeOK /\ [Next]_vars => TypeOK'
<1> SUFFICES ASSUME TypeOK, [Next]_vars PROVE TypeOK'
  OBVIOUS
<1>1. ASSUME NEW from \in States, NEW to \in States, NEW d \in Directions,
             \/ \E old, new \in TapeSymbols : AddMovingTransition(from, old, to, new, d)
             \/ \E symbols \in (SUBSET TapeSymbols) \ {{}} : AddMovingTransitions(from, symbols, to, d)
      PROVE  TypeOK'
  <2>1. FunctionsOK'
    BY <1>1, BuildingKeeps DEF TypeOK
  <2>2. phase = "building" /\ UNCHANGED <<phase, word, tm, ntm>>
    BY <1>1 DEF AddMovingTransition, AddMovingTransitions, Building
  <2> QED BY <2>1, <2>2 DEF TypeOK, tm, ntm
<1>2. CASE Construct
  BY <1>2 DEF Construct, TypeOK, FunctionsOK, function, tm, ntm
<1>3. ASSUME NEW w \in Words, Recognize(w) PROVE TypeOK'
  <2>1. configuration' \in Configurations /\ configuration'.head = 0
    BY <1>3, MachineAssumption, BoundsAssumption DEF Recognize, Configurations
  <2>2. configurations' = {configuration'} /\ word' = w /\ UNCHANGED <<function, steps, rounds, answer, answers>> /\ phase' = "running"
    BY <1>3 DEF Recognize
  <2> QED BY <2>1, <2>2 DEF TypeOK, FunctionsOK, function
<1>4. CASE Accept
  BY <1>4 DEF Accept, Asked, Returns, TypeOK, FunctionsOK, function, ntm
<1>5. CASE Reject
  BY <1>5 DEF Reject, Asked, Returns, TypeOK, FunctionsOK, function, ntm
<1>6. CASE Step
  <2>1. transitions[GetSituation(configuration)] \in Moves /\ configuration \in Configurations /\ configuration.head <= steps
    BY <1>6 DEF Step, Asked, TypeOK, FunctionsOK
  <2>2. configuration' \in Configurations /\ configuration'.head <= configuration.head + 1
    BY <1>6, <2>1, GoType DEF Step
  <2>3. configuration.head \in Nat /\ configuration'.head \in Nat
    BY <2>1, <2>2 DEF Configurations
  <2>4. steps \in 0 .. MaxSteps /\ steps < MaxSteps /\ steps' = steps + 1 /\ UNCHANGED <<function, phase, word, answer, ntm>>
    BY <1>6 DEF Step, TypeOK
  <2>5. configuration'.head <= steps' /\ steps' \in 0 .. MaxSteps
    BY <2>1, <2>2, <2>3, <2>4, BoundsAssumption
  <2> QED BY <2>2, <2>4, <2>5 DEF TypeOK, FunctionsOK, function, ntm
<1>7. CASE AcceptAll
  BY <1>7 DEF AcceptAll, AskedAll, ReturnAll, TypeOK, FunctionsOK, function, tm
<1>8. CASE RejectAll
  BY <1>8 DEF RejectAll, AskedAll, ReturnAll, TypeOK, FunctionsOK, function, tm
<1>9. CASE Round
  <2>1. rounds \in 0 .. MaxSteps /\ rounds < MaxSteps /\ rounds' = rounds + 1 /\ UNCHANGED <<function, phase, word, tm, answers>>
    BY <1>9 DEF Round, TypeOK
  <2>2. rounds \in Nat /\ rounds' \in 0 .. MaxSteps
    BY <2>1, BoundsAssumption
  <2>3. \A c \in configurations' : c \in Configurations /\ c.head <= rounds'
    BY <1>9, <2>1, <2>2, AfterType DEF Round, AskedAll, TypeOK
  <2> QED BY <2>1, <2>2, <2>3 DEF TypeOK, FunctionsOK, function, tm
<1>10. CASE UNCHANGED vars
  BY <1>10 DEF vars, function, tm, ntm, TypeOK, FunctionsOK
<1> QED BY <1>1, <1>2, <1>3, <1>4, <1>5, <1>6, <1>7, <1>8, <1>9, <1>10 DEF Next, Calls, Running, RunningAll

\* TypeOK is an invariant of the two machines, however they are built and interleaved.
THEOREM TypeCorrect == Spec => []TypeOK
<1>1. Init => TypeOK
  BY BoundsAssumption DEF Init, TypeOK, FunctionsOK
<1> QED BY <1>1, TypeInvariant, PTL DEF Spec

-----------------------------------------------------------------------------
(* The Turing_machine is followed by the NTM.                              *)

\* The computation is the same as long as nothing is added and the word stays.
LEMMA ComputationStays ==
  ASSUME transitions' = transitions, word' = word
  PROVE  Computation' = Computation /\ \A n : MadeSteps(n)' = MadeSteps(n)
<1>1. Started' = Started
  BY DEF Started
<1>2. \A c : NextOf(c)' = NextOf(c) /\ Goes(c)' = Goes(c)
  BY DEF NextOf, Goes
<1>3. Computation' = Computation
  BY <1>1, <1>2 DEF Computation
<1> QED BY <1>2, <1>3 DEF MadeSteps

\* Following is kept by every step.
LEMMA FollowingInvariant == TypeOK /\ TypeOK' /\ Following /\ [Next]_vars => Following'
<1> SUFFICES ASSUME TypeOK, TypeOK', Following, [Next]_vars PROVE Following'
  OBVIOUS
<1>1. CASE phase = "building" /\ phase' \in {"building", "built", "threw"} /\ UNCHANGED <<tm, ntm>>
  BY <1>1 DEF Following, tm, ntm
<1>2. ASSUME NEW w \in Words, Recognize(w) PROVE Following'
  <2>1. phase = "built" /\ phase' = "running" /\ word' = w /\ UNCHANGED <<function, steps, answer, rounds, answers>>
    BY <1>2 DEF Recognize
  <2>2. Unfolded'
    <3>1. TypeOK' /\ (word \in Words)' => Unfolded'
      BY ComputationUnfolds, PTL
    <3> QED BY <2>1, <3>1
  <2>3. Computation'[0] = configuration' /\ configurations' = {configuration'}
    BY <1>2, <2>1, <2>2 DEF Recognize, Unfolded, Started
  <2>4. steps' = 0 /\ rounds' = 0 /\ answer' = "none" /\ answers' = "none"
    BY <2>1 DEF Following
  <2> QED BY <2>1, <2>3, <2>4 DEF Following, MadeSteps
<1>3. ASSUME phase = "running", Running \/ RunningAll PROVE Following'
  <2>1. UNCHANGED <<function, phase, word>>
    BY <1>3 DEF Running, RunningAll, Accept, Reject, Step, AcceptAll, RejectAll, Round, Returns, ReturnAll
  <2>2. Computation' = Computation /\ \A n : MadeSteps(n)' = MadeSteps(n)
    BY <2>1, ComputationStays DEF function
  <2>3. Unfolded
    BY <1>3, ComputationUnfolds DEF TypeOK
  <2>4. CASE Accept
    BY <1>3, <2>1, <2>2, <2>4 DEF Accept, Returns, ntm, Following
  <2>5. CASE Reject
    BY <1>3, <2>1, <2>2, <2>5 DEF Reject, Returns, ntm, Following
  <2>6. CASE Step
    <3>1. Goes(configuration) /\ configuration' = NextOf(configuration) /\ steps' = steps + 1 /\ UNCHANGED <<answer, ntm>> /\ answer = "none"
      BY <2>6 DEF Step, Asked, Goes, NextOf
    <3>2. steps \in Nat /\ configuration = Computation[steps] /\ MadeSteps(steps)
      BY <1>3, BoundsAssumption DEF TypeOK, Following
    <3>3. configuration' = Computation[steps + 1] /\ MadeSteps(steps + 1)
      BY <2>3, <3>1, <3>2 DEF Unfolded, MadeSteps
    <3> QED BY <1>3, <2>1, <2>2, <3>1, <3>3 DEF Following, ntm
  <2>7. CASE AcceptAll
    BY <1>3, <2>1, <2>2, <2>7 DEF AcceptAll, ReturnAll, tm, Following
  <2>8. CASE RejectAll
    BY <1>3, <2>1, <2>2, <2>8 DEF RejectAll, ReturnAll, tm, Following
  <2>9. CASE Round
    <3>1. rounds \in Nat /\ rounds' = rounds + 1 /\ UNCHANGED <<tm, answers>> /\ answers = "none"
      BY <2>9, BoundsAssumption DEF Round, AskedAll, TypeOK
    <3>2. MadeSteps(rounds) => Computation[rounds].state # AcceptState
      BY <1>3, <2>9, MachineAssumption DEF Round, SomeAccepts, Following
    <3>3. ASSUME MadeSteps(rounds + 1), Computation[rounds + 1].state # RejectState
          PROVE  Computation[rounds + 1] \in After(configurations)
      <4> DEFINE c == Computation[rounds]
                 move == transitions[GetSituation(c)]
      <4>1. MadeSteps(rounds) /\ Goes(c)
        BY <3>1, <3>3 DEF MadeSteps
      <4>2. c \in configurations
        BY <1>3, <4>1 DEF Goes, Following
      <4>3. Computation[rounds + 1] = Go(c, move)
        BY <2>3, <3>1, <4>1 DEF Unfolded, NextOf
      <4>4. GetSituation(c) \in DOMAIN choices /\ move \in choices[GetSituation(c)] /\ move \in Moves
        BY <4>1 DEF Goes, TypeOK, FunctionsOK
      <4>5. move.state # RejectState
        BY <3>3, <4>3 DEF Go
      <4> HIDE DEF c, move
      <4> QED BY <4>2, <4>3, <4>4, <4>5 DEF After
    <3>4. configurations' = After(configurations)
      BY <2>9 DEF Round
    <3>5. \A n \in 0 .. rounds : MadeSteps(n) => Computation[n].state # AcceptState
      BY <1>3, <3>1, <3>2 DEF Following
    <3> QED BY <1>3, <2>1, <2>2, <3>1, <3>3, <3>4, <3>5 DEF Following, tm
  <2> QED BY <1>3, <2>4, <2>5, <2>6, <2>7, <2>8, <2>9 DEF Running, RunningAll
<1>4. CASE UNCHANGED vars
  <2>1. Computation' = Computation /\ \A n : MadeSteps(n)' = MadeSteps(n)
    BY <1>4, ComputationStays DEF vars, function
  <2> QED BY <1>4, <2>1 DEF vars, tm, ntm, Following
<1> QED
  <2>1. ASSUME Calls
        PROVE  \/ phase = "building" /\ phase' \in {"building", "built", "threw"} /\ UNCHANGED <<tm, ntm>>
               \/ \E w \in Words : Recognize(w)
    BY <2>1 DEF Calls, AddMovingTransition, AddMovingTransitions, Building, Construct
  <2>2. ASSUME Running \/ RunningAll PROVE phase = "running"
    BY <2>2 DEF Running, RunningAll, Accept, Reject, Step, AcceptAll, RejectAll, Round, Asked, AskedAll
  <2> QED BY <1>1, <1>2, <1>3, <1>4, <2>1, <2>2 DEF Next

\* Following is an invariant.
LEMMA FollowingCorrect == Spec => []Following
<1>1. Init => Following
  BY DEF Init, Following
<1> QED BY <1>1, FollowingInvariant, TypeCorrect, PTL DEF Spec

\* As long as both machines have done the same number of steps, recognize of the NTM has
\* the configuration of the Turing_machine among its own, and it never rejects what the
\* Turing_machine accepts.
THEOREM AcceptsNoMore == Spec => []WithinChoices
<1>1. TypeOK /\ Following => WithinChoices
  <2> SUFFICES ASSUME TypeOK, Following, phase = "running" PROVE WithinChoices
    BY DEF WithinChoices
  <2>1. Unfolded /\ steps \in Nat /\ rounds \in Nat
    BY ComputationUnfolds, BoundsAssumption DEF TypeOK
  <2>2. configuration = Computation[steps] /\ MadeSteps(steps)
    BY DEF Following
  <2>3. ASSUME steps = rounds, configuration.state # RejectState
        PROVE  answers # "no" /\ configuration \in configurations
    BY <2>2, <2>3 DEF Following
  <2>4. ASSUME answers = "no" PROVE steps <= rounds
    <3> SUFFICES ASSUME rounds < steps PROVE FALSE
      BY <2>1
    <3>1. MadeSteps(rounds) /\ Goes(Computation[rounds])
      BY <2>1, <2>2 DEF MadeSteps
    <3> QED BY <2>4, <3>1 DEF Goes, Following
  <2>5. ASSUME answers = "no" PROVE answer # "yes"
    <3> SUFFICES ASSUME configuration.state = AcceptState PROVE FALSE
      BY DEF Following
    <3>1. CASE steps = rounds
      BY <2>3, <2>5, <3>1, MachineAssumption
    <3>2. CASE steps < rounds
      BY <2>1, <2>2, <3>2 DEF Following
    <3> QED BY <2>1, <2>4, <2>5, <3>1, <3>2
  <2> QED BY <2>3, <2>4, <2>5 DEF WithinChoices
<1> QED BY <1>1, TypeCorrect, FollowingCorrect, PTL

-----------------------------------------------------------------------------
(* The tape without an end.                                                *)

\* There are more cells than steps.
LEMMA EnoughCells ==
  ASSUME Words # {}
  PROVE  Cells \in Nat /\ MaxSteps < Cells
<1> DEFINE lengths == {Len(w) : w \in Words}
           length == [w \in Words |-> Len(w)]
<1>1. lengths \in SUBSET Nat /\ lengths # {}
  <2>1. ASSUME NEW w \in Words PROVE Len(w) \in Nat
    <3>1. w \in Seq(TapeSymbols)
      BY BoundsAssumption
    <3> QED BY <3>1, LenProperties
  <2> QED BY <2>1
<1>2. IsFiniteSet(lengths)
  <2>1. length \in Surjection(Words, lengths)
    BY DEF Surjection
  <2>2. IsFiniteSet(Words)
    BY BoundsAssumption
  <2> HIDE DEF length, lengths
  <2> QED BY <2>1, <2>2, FS_Surjection
<1>3. \E m \in lengths : \A n \in lengths : n <= m
  <2> HIDE DEF lengths
  <2> QED BY <1>1, <1>2, FiniteSetHasGreatest
<1>4. \E m \in lengths : \A w \in Words : Len(w) <= m
  BY <1>3
<1>5. Longest \in lengths
  BY <1>4 DEF Longest
<1> QED BY <1>1, <1>5, BoundsAssumption DEF Cells

\* What is read from the vector is what is there on the tape without an end.
LEMMA ReadUnending ==
  ASSUME NEW c \in Configurations, Cells \in Nat, c.head < Cells
  PROVE  Unending(c).tape[c.head] = GetTapeSymbol(c)
<1>1. c.head \in Nat /\ Len(c.tape) \in Nat
  BY LenProperties DEF Configurations
<1> QED BY <1>1 DEF Unending, GetTapeSymbol

\* A step on the vector is the step on the tape without an end.
LEMMA GoUnending ==
  ASSUME NEW c \in Configurations, NEW m \in Moves, Cells \in Nat, c.head < Cells
  PROVE  Unending(Go(c, m)) =
           [state |-> m.state, head |-> One!Moved(c.head, m.direction),
            tape |-> [Unending(c).tape EXCEPT ![c.head] = m.symbol]]
<1>1. c.head \in Nat /\ Len(c.tape) \in Nat
  BY LenProperties DEF Configurations
<1>3. MoveHead(c.head, m.direction) = One!Moved(c.head, m.direction)
  BY <1>1 DEF MoveHead, One!Moved
<1> DEFINE k == IF c.head < Len(c.tape) THEN Len(c.tape) ELSE c.head + 1
           written == SetTapeSymbol(c, m.symbol)
           tape == Unending(c).tape
<1>4. k \in Nat /\ Len(written) = k
  BY <1>1 DEF SetTapeSymbol
<1>5. ASSUME NEW i \in 0 .. Cells - 1
      PROVE  (IF i < Len(written) THEN written[i + 1] ELSE Blank) = [tape EXCEPT ![c.head] = m.symbol][i]
  <2>1. tape[i] = IF i < Len(c.tape) THEN c.tape[i + 1] ELSE Blank
    BY DEF Unending
  <2>2. [tape EXCEPT ![c.head] = m.symbol][i] = IF i = c.head THEN m.symbol ELSE tape[i]
    BY DEF Unending
  <2>3. ASSUME i < k
        PROVE  written[i + 1] = IF i = c.head THEN m.symbol ELSE IF i < Len(c.tape) THEN c.tape[i + 1] ELSE Blank
    <3>1. i + 1 \in 1 .. k
      BY <1>4, <2>3
    <3>2. written[i + 1] = IF i + 1 = c.head + 1 THEN m.symbol ELSE IF i + 1 <= Len(c.tape) THEN c.tape[i + 1] ELSE Blank
      BY <3>1 DEF SetTapeSymbol
    <3> QED BY <1>1, <3>2
  <2>4. ASSUME ~ (i < k) PROVE i # c.head /\ ~ (i < Len(c.tape))
    BY <1>1, <2>4
  <2> HIDE DEF written, k, tape
  <2> QED BY <1>4, <2>1, <2>2, <2>3, <2>4
<1>6. Unending(Go(c, m)).tape = [tape EXCEPT ![c.head] = m.symbol]
  <2>1. Unending(Go(c, m)).tape = [i \in 0 .. Cells - 1 |-> IF i < Len(written) THEN written[i + 1] ELSE Blank]
    BY DEF Unending, Go
  <2>2. [tape EXCEPT ![c.head] = m.symbol] = [i \in 0 .. Cells - 1 |-> [tape EXCEPT ![c.head] = m.symbol][i]]
    BY DEF Unending
  <2> HIDE DEF written, k, tape
  <2> QED BY <1>5, <2>1, <2>2
<1>7. Unending(Go(c, m)) = [state |-> m.state, head |-> MoveHead(c.head, m.direction), tape |-> Unending(Go(c, m)).tape]
  BY DEF Unending, Go
<1> QED BY <1>3, <1>6, <1>7

\* What the abstract machines do from a configuration is what the code's do.
LEMMA SuccessorsAre ==
  ASSUME TypeOK, NEW c \in Configurations, Cells \in Nat, c.head < Cells
  PROVE  /\ One!Successors(Unending(c)) =
              IF GetSituation(c) \in DOMAIN transitions
                THEN {Unending(Go(c, transitions[GetSituation(c)]))} ELSE {}
         /\ All!Successors(Unending(c)) =
              IF GetSituation(c) \in DOMAIN choices
                THEN {Unending(Go(c, m)) : m \in choices[GetSituation(c)]} ELSE {}
<1> DEFINE u == Unending(c)
           on == GetSituation(c)
           Later(m) == [state |-> m.state, head |-> One!Moved(u.head, m.direction), tape |-> [u.tape EXCEPT ![u.head] = m.symbol]]
<1>1. u.state = c.state /\ u.head = c.head
  BY DEF Unending
<1>2. u.tape[u.head] = GetTapeSymbol(c) /\ \A m \in Moves : Unending(Go(c, m)) = Later(m)
  <2>1. Unending(c).tape[c.head] = GetTapeSymbol(c)
    BY ReadUnending
  <2>2. \A m \in Moves : Unending(Go(c, m)) =
                            [state |-> m.state, head |-> One!Moved(c.head, m.direction),
                             tape |-> [Unending(c).tape EXCEPT ![c.head] = m.symbol]]
    BY GoUnending
  <2>3. u = Unending(c)
    OBVIOUS
  <2> HIDE DEF u
  <2> QED BY <1>1, <2>1, <2>2, <2>3
<1>3. <<u.state, u.tape[u.head]>> = on
  BY <1>1, <1>2 DEF GetSituation
<1>4. One!Successors(u) = IF on \in DOMAIN transitions THEN {Later(m) : m \in {transitions[on]}} ELSE {}
  <2> HIDE DEF u, on
  <2> QED BY <1>3 DEF One!Successors
<1>5. All!Successors(u) = IF on \in DOMAIN choices THEN {Later(m) : m \in choices[on]} ELSE {}
  <2>1. \A h, d : All!Moved(h, d) = One!Moved(h, d)
    BY DEF All!Moved, One!Moved
  <2> HIDE DEF u, on
  <2> QED BY <1>3, <2>1 DEF All!Successors
<1>6. ASSUME on \in DOMAIN transitions PROVE transitions[on] \in Moves /\ choices[on] \subseteq Moves
  BY <1>6 DEF TypeOK, FunctionsOK
<1>7. DOMAIN choices = DOMAIN transitions
  BY DEF TypeOK, FunctionsOK
<1> HIDE DEF u, on, Later
<1>8. One!Successors(u) = IF on \in DOMAIN transitions THEN {Unending(Go(c, transitions[on]))} ELSE {}
  BY <1>2, <1>4, <1>6
<1>9. All!Successors(u) = IF on \in DOMAIN choices THEN {Unending(Go(c, m)) : m \in choices[on]} ELSE {}
  BY <1>2, <1>5, <1>6, <1>7
<1> QED BY <1>8, <1>9 DEF u, on

\* Each step of recognize of a Turing_machine is one of the machine whose tape has no end.
LEMMA StepOfOne ==
  TypeOK /\ [Next]_vars => [phase = "running" => One!Next]_<<transitions, word, configuration, answer>>
<1> SUFFICES ASSUME TypeOK, Next, phase = "running",
                    ~ UNCHANGED <<transitions, word, configuration, answer>>
             PROVE  One!Next
  BY DEF vars, function, tm
<1> DEFINE c == configuration
           on == GetSituation(c)
           computations == IF answer = "no" \/ c.state = RejectState THEN {} ELSE {Unending(c)}
           later == {x \in UNION {One!Successors(x) : x \in computations} : x.state # RejectState}
<1>1. Accept \/ Reject \/ Step
  BY DEF Next, Calls, AddMovingTransition, AddMovingTransitions, Building, Construct, Recognize,
         Running, RunningAll, AcceptAll, RejectAll, Round, ReturnAll, function, tm
<1>2. c \in Configurations /\ c.head <= steps /\ steps \in 0 .. MaxSteps /\ Words # {} /\ answer = "none"
  BY <1>1 DEF TypeOK, Accept, Reject, Step, Asked
<1>3. Cells \in Nat /\ c.head < Cells
  BY <1>2, EnoughCells, BoundsAssumption DEF Configurations
<1>4. One!Successors(Unending(c)) = IF on \in DOMAIN transitions THEN {Unending(Go(c, transitions[on]))} ELSE {}
  BY <1>2, <1>3, SuccessorsAre
<1>5. One!Later = later
  BY DEF One!Later
<1>6. One!Accepting <=> c.state = AcceptState
  <2>1. One!Accepting <=> \E x \in computations : x.state = AcceptState
    BY DEF One!Accepting
  <2>2. Unending(c).state = c.state
    BY DEF Unending
  <2> HIDE DEF c
  <2> QED BY <1>2, <2>1, <2>2, MachineAssumption
<1>7. CASE Accept
  BY <1>2, <1>6, <1>7 DEF Accept, Returns, function, One!Next, One!Yes
<1>8. CASE Reject
  <2>1. later = {}
    BY <1>2, <1>4, <1>8 DEF Reject
  <2>2. ~ One!Accepting /\ answer' = "no" /\ UNCHANGED transitions
    BY <1>6, <1>8 DEF Reject, Returns, function
  <2> HIDE DEF later
  <2> QED BY <1>2, <1>5, <2>1, <2>2 DEF One!Next, One!No
<1>9. CASE Step
  <2> DEFINE d == Go(c, transitions[on])
  <2>1. /\ c.state \notin {AcceptState, RejectState} /\ on \in DOMAIN transitions
        /\ configuration' = d /\ UNCHANGED <<transitions, answer>>
    BY <1>9 DEF Step, function
  <2>2. later = {x \in {Unending(d)} : x.state # RejectState}
    BY <1>2, <1>4, <2>1
  <2>3. Unending(d).state = d.state
    BY DEF Unending
  <2>4. (IF answer' = "no" \/ configuration'.state = RejectState THEN {} ELSE {Unending(configuration')}) = later
    <3> HIDE DEF d, later
    <3> QED BY <1>2, <2>1, <2>2, <2>3
  <2>5. ~ One!Accepting
    BY <1>6, <2>1
  <2> HIDE DEF d, later
  <2> QED BY <1>2, <1>5, <2>1, <2>4, <2>5 DEF One!Next, One!Step, Unending
<1> QED BY <1>1, <1>7, <1>8, <1>9

\* A round of the NTM is a step of all the computations there are.
LEMMA AfterIsLater ==
  ASSUME TypeOK, phase = "running"
  PROVE  All!Later = {Unending(c) : c \in After(configurations)}
<1> DEFINE on(c) == GetSituation(c)
           from(c) == IF on(c) \in DOMAIN choices THEN {Unending(Go(c, m)) : m \in choices[on(c)]} ELSE {}
<1>1. ASSUME NEW c \in configurations PROVE All!Successors(Unending(c)) = from(c)
  <2>1. c \in Configurations /\ c.head <= rounds /\ rounds \in 0 .. MaxSteps /\ Words # {}
    BY DEF TypeOK
  <2>2. Cells \in Nat /\ c.head < Cells
    BY <2>1, EnoughCells, BoundsAssumption DEF Configurations
  <2> QED BY <2>1, <2>2, SuccessorsAre
<1>2. All!Later = {x \in UNION {All!Successors(x) : x \in {Unending(c) : c \in configurations}} : x.state # RejectState}
  BY DEF All!Later
<1>3. \A c, m : Unending(Go(c, m)).state = m.state
  BY DEF Unending, Go
<1>4. ASSUME NEW x \in All!Later PROVE x \in {Unending(c) : c \in After(configurations)}
  <2>1. PICK c \in configurations : x \in All!Successors(Unending(c)) /\ x.state # RejectState
    BY <1>2, <1>4
  <2>2. on(c) \in DOMAIN choices /\ x \in {Unending(Go(c, m)) : m \in choices[on(c)]}
    BY <1>1, <2>1
  <2>3. PICK m \in choices[on(c)] : x = Unending(Go(c, m))
    BY <2>2
  <2>4. m.state # RejectState
    BY <1>3, <2>1, <2>3
  <2>5. Go(c, m) \in After(configurations)
    BY <2>2, <2>4 DEF After
  <2> QED BY <2>3, <2>5
<1>5. ASSUME NEW d \in After(configurations) PROVE Unending(d) \in All!Later
  <2>1. PICK c \in configurations :
          on(c) \in DOMAIN choices /\ \E m \in choices[on(c)] : m.state # RejectState /\ d = Go(c, m)
    BY DEF After
  <2>2. PICK m \in choices[on(c)] : m.state # RejectState /\ d = Go(c, m)
    BY <2>1
  <2>3. Unending(d) \in All!Successors(Unending(c))
    BY <1>1, <2>1, <2>2
  <2>4. Unending(d).state # RejectState
    BY <1>3, <2>2
  <2> QED BY <1>2, <2>3, <2>4
<1> QED BY <1>4, <1>5

\* Each round of recognize of an NTM is a step of the machine that has all the
\* computations at once.
LEMMA StepOfAll ==
  TypeOK /\ [Next]_vars => [phase = "running" => All!Next]_<<choices, word, configurations, answers>>
<1> SUFFICES ASSUME TypeOK, Next, phase = "running",
                    ~ UNCHANGED <<choices, word, configurations, answers>>
             PROVE  All!Next
  BY DEF vars, function, ntm
<1> DEFINE computations == {Unending(c) : c \in configurations}
<1>1. AcceptAll \/ RejectAll \/ Round
  BY DEF Next, Calls, AddMovingTransition, AddMovingTransitions, Building, Construct, Recognize,
         Running, RunningAll, Accept, Reject, Step, Returns, function, ntm
<1>2. answers = "none" /\ UNCHANGED choices
  BY <1>1 DEF AcceptAll, RejectAll, Round, AskedAll, ReturnAll, function
<1>3. All!Accepting <=> SomeAccepts
  <2>1. All!Accepting <=> \E x \in computations : x.state = AcceptState
    BY DEF All!Accepting
  <2>2. \A c : Unending(c).state = c.state
    BY DEF Unending
  <2> QED BY <2>1, <2>2 DEF SomeAccepts
<1>4. All!Later = {Unending(c) : c \in After(configurations)}
  BY AfterIsLater
<1>5. CASE AcceptAll
  BY <1>2, <1>3, <1>5 DEF AcceptAll, ReturnAll, All!Next, All!Yes
<1>6. CASE RejectAll
  <2>1. configurations = {} /\ configurations' = {} /\ ~ SomeAccepts /\ answers' = "no"
    BY <1>6 DEF RejectAll, ReturnAll, SomeAccepts
  <2>2. After(configurations) = {}
    BY <2>1 DEF After
  <2>3. All!Later = {} /\ {Unending(c) : c \in configurations'} = {}
    BY <1>4, <2>1, <2>2
  <2> QED BY <1>2, <1>3, <2>1, <2>3 DEF All!Next, All!No, Unending
<1>7. CASE Round
  <2>1. configurations' = After(configurations) /\ UNCHANGED answers /\ ~ SomeAccepts
    BY <1>7 DEF Round
  <2> QED BY <1>2, <1>3, <1>4, <2>1 DEF All!Next, All!Step, Unending
<1> QED BY <1>1, <1>5, <1>6, <1>7

\* Side by side, recognize of Turing_machine and of NTM implement the machines whose
\* tape has a first cell and no end: the first on the moves that were given first, the
\* second with none of the computations lost.
THEOREM ComputeAsMachines == Spec => MachinesImplement
<1>1. Spec => OneImplements
  BY TypeCorrect, StepOfOne, PTL DEF Spec, OneImplements
<1>2. Spec => AllImplements
  BY TypeCorrect, StepOfAll, PTL DEF Spec, AllImplements
<1> QED BY <1>1, <1>2, PTL DEF MachinesImplement
=============================================================================

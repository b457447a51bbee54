---------------------------- MODULE TuringMachine ----------------------------
(***************************************************************************)
(* Turing_machine and NTM. The same calls build a transition function for  *)
(* each: the first keeps what it was told first, the second all it was     *)
(* told. Then both are constructed, and recognize is called on both with   *)
(* the same word; their steps interleave. They have one tape, as every     *)
(* instance of the template in the source does.                            *)
(***************************************************************************)
EXTENDS Naturals, Sequences, FiniteSets

CONSTANTS States, StartState, AcceptState, RejectState,
          InputSymbols, Blank,
          Words,     \* the words recognize is called with
          MaxCalls,  \* bound: calls of add_moving_...
          MaxSteps   \* bound: steps of a computation that does not end

\* What the constructor of the base class demands, and one thing it does not: with
\* one state for both, Turing_machine accepts in it and NTM never gets there.
ASSUME MachineAssumption ==
  /\ {StartState, AcceptState, RejectState} \subseteq States
  /\ AcceptState # RejectState
  /\ Blank \notin InputSymbols

TapeSymbols == InputSymbols \cup {Blank}
Directions == {"left", "right"}
Moves == [state : States, symbol : TapeSymbols, direction : Directions]

\* Some calls of recognize are looked at, for some time.
ASSUME BoundsAssumption ==
  MaxSteps \in Nat /\ IsFiniteSet(Words) /\ Words \subseteq Seq(TapeSymbols)

VARIABLES
  transitions,   \* of the Turing_machine: from <<state, symbol>> to [state, symbol, direction]
  choices,       \* of the NTM: to sets of them
  calls,         \* of add_moving_..., so far
  phase,         \* "building", "built", "running" or "threw"
  word,
  configuration, configurations, \* of recognize: [state, tape, head]
  steps, rounds, \* how many they have done
  answer, answers \* what it returned: "none", "yes" or "no"

function == <<transitions, choices, calls>>
tm == <<configuration, steps, answer>>
ntm == <<configurations, rounds, answers>>
vars == <<function, phase, word, tm, ntm>>

Init ==
  /\ transitions = <<>> /\ choices = <<>> /\ calls = 0
  /\ phase = "building"
  /\ word = <<>>
  /\ configuration = <<>> /\ configurations = {}
  /\ steps = 0 /\ rounds = 0
  /\ answer = "none" /\ answers = "none"

-----------------------------------------------------------------------------
(* Transition functions.                                                   *)

\* Where both have a value it is that of the first.
First(f, g) == [s \in DOMAIN f \cup DOMAIN g |-> IF s \in DOMAIN f THEN f[s] ELSE g[s]]

\* A set of moves that is replaced by the new one.
AddTransitions_Last(moves) ==
  /\ transitions' = First(transitions, moves)
  /\ choices' = First([s \in DOMAIN moves |-> {moves[s]}], choices)

\* Moves for some situations: try_emplace for the one, operator[] and emplace for the other.
AddTransitions(moves) ==
  /\ transitions' = First(transitions, moves)
  /\ choices' =
       First([s \in DOMAIN moves |-> {moves[s]} \cup (IF s \in DOMAIN choices THEN choices[s] ELSE {})], choices)

Building == phase = "building" /\ calls < MaxCalls /\ calls' = calls + 1

AddMovingTransition(from, old, to, new, direction) ==
  /\ Building
  /\ AddTransitions([s \in {<<from, old>>} |-> [state |-> to, symbol |-> new, direction |-> direction]])
  /\ UNCHANGED <<phase, word, tm, ntm>>

\* The overloads that take a set write back what they read.
AddMovingTransitions(from, symbols, to, direction) ==
  /\ Building
  /\ AddTransitions([s \in {from} \X symbols |-> [state |-> to, symbol |-> s[2], direction |-> direction]])
  /\ UNCHANGED <<phase, word, tm, ntm>>

Construct ==
  /\ phase = "building"
  /\ phase' = IF \E s \in DOMAIN choices : s[1] \in {AcceptState, RejectState} THEN "threw" ELSE "built"
  /\ UNCHANGED <<function, word, tm, ntm>>

-----------------------------------------------------------------------------
(* Configurations. The tape is a vector, the head counts from 0.           *)

GetTapeSymbol(c) == IF c.head < Len(c.tape) THEN c.tape[c.head + 1] ELSE Blank

GetSituation(c) == <<c.state, GetTapeSymbol(c)>>

\* resize, and write.
SetTapeSymbol(c, x) ==
  [i \in 1 .. (IF c.head < Len(c.tape) THEN Len(c.tape) ELSE c.head + 1) |->
     IF i = c.head + 1 THEN x ELSE IF i <= Len(c.tape) THEN c.tape[i] ELSE Blank]

MoveHead(head, direction) ==
  IF direction = "right" THEN head + 1 ELSE IF head > 0 THEN head - 1 ELSE head

Go(c, move) ==
  [state |-> move.state, tape |-> SetTapeSymbol(c, move.symbol), head |-> MoveHead(c.head, move.direction)]

-----------------------------------------------------------------------------
(* recognize.                                                              *)

Recognize(w) ==
  /\ phase = "built"
  /\ phase' = "running"
  /\ word' = w
  /\ configuration' = [state |-> StartState, tape |-> w, head |-> 0]
  /\ configurations' = {configuration'}
  /\ UNCHANGED <<function, steps, answer, rounds, answers>>

Asked == phase = "running" /\ answer = "none"
AskedAll == phase = "running" /\ answers = "none"

Returns(yes) ==
  /\ answer' = IF yes THEN "yes" ELSE "no"
  /\ UNCHANGED <<function, phase, word, configuration, steps, ntm>>

Accept == Asked /\ configuration.state = AcceptState /\ Returns(TRUE)

\* The accept state was asked for first. An absent transition rejects too.
Reject ==
  /\ Asked
  /\ configuration.state # AcceptState
  /\ configuration.state = RejectState \/ GetSituation(configuration) \notin DOMAIN transitions
  /\ Returns(FALSE)

Step ==
  /\ Asked
  /\ configuration.state \notin {AcceptState, RejectState}
  /\ GetSituation(configuration) \in DOMAIN transitions
  /\ steps < MaxSteps
  /\ configuration' = Go(configuration, transitions[GetSituation(configuration)])
  /\ steps' = steps + 1
  /\ UNCHANGED <<function, phase, word, answer, ntm>>

\* One where a configuration without a move stays for another round.
After_Waiting(cs) ==
  LET next(c) ==
        IF GetSituation(c) \in DOMAIN choices
          THEN {Go(c, m) : m \in {m \in choices[GetSituation(c)] : m.state # RejectState}}
          ELSE {c}
  IN  UNION {next(c) : c \in cs}

\* One where a move to the reject state ends all the moves of a configuration.
After_RejectFirst(cs) ==
  LET next(c) == {Go(c, m) : m \in choices[GetSituation(c)]}
  IN  UNION {next(c) : c \in {c \in cs : GetSituation(c) \in DOMAIN choices
                                       /\ \A m \in choices[GetSituation(c)] : m.state # RejectState}}

\* The configurations after a round: a move to the reject state is not made.
After(cs) ==
  LET next(c) == {Go(c, m) : m \in {m \in choices[GetSituation(c)] : m.state # RejectState}}
  IN  UNION {next(c) : c \in {c \in cs : GetSituation(c) \in DOMAIN choices}}

SomeAccepts == \E c \in configurations : c.state = AcceptState

ReturnAll(yes) ==
  /\ answers' = IF yes THEN "yes" ELSE "no"
  /\ UNCHANGED <<function, phase, word, tm, configurations, rounds>>

AcceptAll == AskedAll /\ SomeAccepts /\ ReturnAll(TRUE)
RejectAll == AskedAll /\ configurations = {} /\ ReturnAll(FALSE)

Round ==
  /\ AskedAll
  /\ configurations # {} /\ ~ SomeAccepts
  /\ rounds < MaxSteps
  /\ configurations' = After(configurations)
  /\ rounds' = rounds + 1
  /\ UNCHANGED <<function, phase, word, tm, answers>>

Running == Accept \/ Reject \/ Step
RunningAll == AcceptAll \/ RejectAll \/ Round

Calls ==
  \/ \E from, to \in States, d \in Directions :
       \/ \E old, new \in TapeSymbols : AddMovingTransition(from, old, to, new, d)
       \/ \E symbols \in (SUBSET TapeSymbols) \ {{}} : AddMovingTransitions(from, symbols, to, d)
  \/ Construct
  \/ \E w \in Words : Recognize(w)

Next == Calls \/ Running \/ RunningAll

Spec == Init /\ [][Next]_vars

\* Each call of recognize runs on.
FairSpec == Spec /\ WF_vars(Running) /\ WF_vars(RunningAll)

-----------------------------------------------------------------------------
Configurations == [state : States, tape : Seq(TapeSymbols), head : Nat]

\* Both transition functions are about the same situations, and what the one says is
\* a choice of the other.
FunctionsOK ==
  /\ DOMAIN transitions \subseteq States \X TapeSymbols /\ DOMAIN choices = DOMAIN transitions
  /\ \A s \in DOMAIN transitions :
       transitions[s] \in Moves /\ choices[s] \subseteq Moves /\ transitions[s] \in choices[s]

\* A computation has not moved its head further than it has made steps.
TypeOK ==
  /\ FunctionsOK
  /\ phase \in {"building", "built", "running", "threw"}
  /\ steps \in 0 .. MaxSteps /\ rounds \in 0 .. MaxSteps
  /\ answer \in {"none", "yes", "no"} /\ answers \in {"none", "yes", "no"}
  /\ phase = "running" =>
       /\ word \in Words
       /\ configuration \in Configurations /\ configuration.head <= steps
       /\ \A c \in configurations : c \in Configurations /\ c.head <= rounds

-----------------------------------------------------------------------------
(* The tape without an end.                                                *)

Longest == CHOOSE n \in {Len(w) : w \in Words} : \A w \in Words : Len(w) <= n
Cells == Longest + MaxSteps + 1

Unending(c) ==
  [state |-> c.state, head |-> c.head,
   tape |-> [i \in 0 .. Cells - 1 |-> IF i < Len(c.tape) THEN c.tape[i + 1] ELSE Blank]]

One == INSTANCE TuringComputations WITH
  choices <- [s \in DOMAIN transitions |-> {transitions[s]}],
  computations <- IF answer = "no" \/ configuration.state = RejectState THEN {} ELSE {Unending(configuration)}

All == INSTANCE TuringComputations WITH
  computations <- {Unending(c) : c \in configurations},
  answer <- answers

\* The Turing_machine computes as the one with the tape without an end, on the first
\* move it was given for each situation: the vector is blank where it ends, and the
\* head stays at the first cell when it is moved to the left of it.
OneImplements ==
  [][phase = "running" => One!Next]_<<transitions, word, configuration, answer>>

\* And the NTM as all the computations there are: none is lost when two come to the same
\* configuration, or when one of them rejects or has no move.
AllImplements ==
  [][phase = "running" => All!Next]_<<choices, word, configurations, answers>>

\* Both machines implement theirs, while they run side by side.
MachinesImplement == OneImplements /\ AllImplements

\* The word is accepted by some sequence of at most MaxSteps choices.
Accepted ==
  LET accepts[n \in 0 .. MaxSteps, c \in [state : States, head : Nat, tape : [0 .. Cells - 1 -> TapeSymbols]]] ==
        \/ c.state = AcceptState
        \/ n > 0 /\ c.state # RejectState /\ \E after \in All!Successors(c) : accepts[n - 1, after]
  IN  accepts[MaxSteps, All!StartOf(StartState, word)]

\* A word that some computation accepts is accepted by the NTM in the end, though others
\* may go on for ever.
AcceptanceFound == (phase = "running" /\ Accepted) ~> (answers = "yes")

\* What the Turing_machine accepts the NTM does: as long as both run on, what the one is
\* at is among what the other is at; and when the NTM rejects a word, so does the
\* Turing_machine, within as many steps.
WithinChoices ==
  phase = "running" =>
    /\ steps = rounds /\ answer = "none" /\ configuration.state # RejectState => configuration \in configurations
    /\ answers = "no" => steps <= rounds /\ answer # "yes"
=============================================================================

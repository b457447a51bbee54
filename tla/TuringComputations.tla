------------------------- MODULE TuringComputations -------------------------
(***************************************************************************)
(* What a Turing machine promises: the tape has a first cell, no last one  *)
(* and blanks after the word. From a configuration there may be several    *)
(* moves; the word is accepted when one of the computations accepts, and   *)
(* rejected when all of them have come to their end without.               *)
(***************************************************************************)
EXTENDS Naturals, Sequences

CONSTANTS Blank, AcceptState, RejectState,
          Cells  \* as many cells of the tape as computations can come to

VARIABLES choices,      \* from <<state, symbol>> to a set of moves [state, symbol, direction]
          computations, \* where they are: [state, head, tape], with a tape from 0 .. Cells - 1
          answer        \* "none", "yes" or "no"

Moved(head, direction) ==
  IF direction = "right" THEN head + 1 ELSE IF head = 0 THEN 0 ELSE head - 1

Successors(c) ==
  LET on == <<c.state, c.tape[c.head]>>
  IN  IF on \notin DOMAIN choices THEN {}
      ELSE {[state |-> m.state, head |-> Moved(c.head, m.direction),
             tape |-> [c.tape EXCEPT ![c.head] = m.symbol]] : m \in choices[on]}

\* All of them take a step; those that reject are over.
Later == {c \in UNION {Successors(c) : c \in computations} : c.state # RejectState}

Accepting == \E c \in computations : c.state = AcceptState

StartOf(start, word) ==
  [state |-> start, head |-> 0,
   tape |-> [i \in 0 .. Cells - 1 |-> IF i < Len(word) THEN word[i + 1] ELSE Blank]]

Step ==
  /\ answer = "none" /\ ~ Accepting
  /\ computations' = Later
  /\ UNCHANGED <<choices, answer>>

Yes ==
  /\ answer = "none" /\ Accepting
  /\ answer' = "yes"
  /\ UNCHANGED <<choices, computations>>

No ==
  /\ answer = "none" /\ ~ Accepting
  /\ Later = {}
  /\ computations' = {}
  /\ answer' = "no"
  /\ UNCHANGED choices

Next == Step \/ Yes \/ No
=============================================================================

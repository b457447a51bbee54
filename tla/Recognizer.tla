----------------------------- MODULE Recognizer -----------------------------
(***************************************************************************)
(* What recognizing a word means for a nondeterministic automaton: the set *)
(* of states some run on the symbols read so far can be in, closed under   *)
(* epsilon transitions, decides the answer. The word is read one symbol at *)
(* a time and the caller decides where it ends.                            *)
(***************************************************************************)
CONSTANTS State, Symbol,
          Machines  \* records [delta, closure, start, final]

VARIABLES machine,  \* the automaton, fixed for the whole run
          current,  \* the states the runs on what has been read can be in
          verdict   \* "none" while reading, then "accept" or "reject"

\* The states reached from the set T by the symbol a.
After(m, T, a) == UNION {m.closure[d] : d \in UNION {m.delta[<<s, a>>] : s \in T}}

Answer(m, T) == IF T \cap m.final # {} THEN "accept" ELSE "reject"

Init ==
  /\ machine \in Machines
  /\ current = machine.closure[machine.start]
  /\ verdict = "none"

Read(a) ==
  /\ verdict = "none"
  /\ current' = After(machine, current, a)
  /\ UNCHANGED <<machine, verdict>>

End ==
  /\ verdict = "none"
  /\ verdict' = Answer(machine, current)
  /\ UNCHANGED <<machine, current>>

Next == End \/ \E a \in Symbol : Read(a)

Spec == Init /\ [][Next]_<<machine, current, verdict>>
=============================================================================

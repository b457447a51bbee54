------------------------------- MODULE LRObject -------------------------------
(***************************************************************************)
(* An LR grammar object that is parsed with, or made a DPDA by those two   *)
(* classes that can; the DPDA recognizes a word.                           *)
(*                                                                         *)
(* DCFG::to_DPDA and canonical_LR_grammar::to_DPDA make a DPDA that keeps  *)
(* the states of the DK automaton on its stack. One takes a symbol when it *)
(* shifts; the other reads one ahead and has a state for each. The states  *)
(* are named by what they are made for.                                    *)
(***************************************************************************)
EXTENDS LRParser

CONSTANTS None,      \* no input symbol, nothing to pop or to push
          Alphabets  \* the alphabets grammars are over

ASSUME AlphabetsAssumption == Alphabets \subseteq SUBSET Terminal

P == INSTANCE EndmarkedDPDA

Begin == <<"begin">>
Looping == <<"looping">>
Accepting == <<"accepting">>
Reducing(l) == <<"reducing", l>>

\* check_stack_and_action: what is popped is put back before something is pushed.
CheckStack(from, on, to, push) ==
  LET new == <<"check", from, on>>
  IN  {P!Move(from, on, new, on[2]), P!Move(new, P!Epsilon, to, push)}

\* Mutant: whatever is below the body, the start symbol is the end.
Reduction_AnyStart(tables, start, from, n, item, goal, back) ==
  LET length == Len(item.body)
      popped(i) == IF i = 0 THEN from ELSE <<"popped", from, n, i>>
      states(i) == IF i = 0 THEN {n} ELSE DOMAIN tables.collection
      to == IF item.head = start THEN goal ELSE back
  IN  UNION {{P!Move(popped(i), <<None, m>>, popped(i + 1), None) : m \in states(i)} :
             i \in 0 .. length - 1}
        \cup UNION {CheckStack(popped(length), <<None, m>>, to, GotoState(tables, m, item.head)) :
                      m \in states(length)}

\* The transitions for a completed item of the state n: its body is popped, n first, and
\* the state for its head is pushed.
Reduction(tables, start, from, n, item, goal, back) ==
  LET length == Len(item.body)
      popped(i) == IF i = 0 THEN from ELSE <<"popped", from, n, i>>
      states(i) == IF i = 0 THEN {n} ELSE DOMAIN tables.collection
      to(m) == IF m = tables.start /\ item.head = start THEN goal ELSE back
  IN  UNION {{P!Move(popped(i), <<None, m>>, popped(i + 1), None) : m \in states(i)} :
             i \in 0 .. length - 1}
        \cup UNION {CheckStack(popped(length), <<None, m>>, to(m), GotoState(tables, m, item.head)) :
                      m \in states(length)}

DPDAOf(alphabet, tables, moves) ==
  [alphabet |-> alphabet, symbols |-> DOMAIN tables.collection,
   states |-> {m.from : m \in moves} \cup {m.to : m \in moves},
   start |-> Begin, final |-> {Accepting},
   rows |-> P!RowsOf(moves \cup {P!Move(Begin, P!Epsilon, Looping, tables.start)}), normalized |-> FALSE]

\* After the start symbol is reduced it goes on like before. A symbol of the alphabet that no
\* body uses is not in the goto table: MissesGoto.
DCFGToDPDA(g, alphabet, tables) ==
  LET completed(n) == CompletedItems(tables.collection[n])
      final == {n \in DOMAIN tables.collection : completed(n) # {}}
      item(n) == CHOOSE i \in completed(n) : TRUE
      shifts(from) == UNION {CheckStack(from, <<a, n>>, Looping, GotoState(tables, n, a)) :
                               a \in alphabet, n \in (DOMAIN tables.collection) \ final}
      reduces(from) == UNION {Reduction(tables, g.start, from, n, item(n), Accepting, Looping) : n \in final}
  IN  DPDAOf(alphabet, tables, UNION {shifts(from) \cup reduces(from) : from \in {Looping, Accepting}})

\* With a symbol read ahead the bodies are reduced it can follow, and then it is shifted,
\* be it into the reject state; the end marker always is.
CanonicalToDPDA(g, alphabet, tables) ==
  LET states == DOMAIN tables.collection
      ahead == alphabet \cup {EndMarker}
      reject == CHOOSE n \in states : tables.collection[n] = {}
      item(n, l) == {i \in CompletedItems(tables.collection[n]) : l \in i.ahead}
      shifted(n, l) == IF l = EndMarker THEN reject ELSE GotoState(tables, n, l)
      goal(l) == IF l = EndMarker THEN Accepting ELSE Reducing(l)
      moves(n, l) ==
        IF item(n, l) = {} THEN CheckStack(Reducing(l), <<None, n>>, Looping, shifted(n, l))
        ELSE Reduction(tables, g.start, Reducing(l), n, CHOOSE i \in item(n, l) : TRUE,
                       goal(l), Reducing(l))
  IN  DPDAOf(ahead, tables,
             UNION {moves(n, l) : n \in states, l \in ahead}
               \cup {P!Move(from, <<l, None>>, Reducing(l), None) :
                       from \in {Looping, Accepting}, l \in ahead})

-----------------------------------------------------------------------------

VARIABLES
  dpda,  \* what to_DPDA returned, or None
  state  \* of recognize; its stack and its place in the word are those of a parse

automaton == <<dpda, state>>
unchanging == <<object, table, entries, extended, threw, tree, calls>>
objectVars == <<vars, automaton>>

ObjectInit ==
  /\ Init
  /\ dpda = None
  /\ state = None

\* The alphabet the object was made with, which has the symbols bodies use; nothing but to_DPDA
\* goes over it.
IsAlphabet(alphabet) == Terminals(Grammars[object.grammar]) \subseteq alphabet

\* DCFG looks a shift up, by at(), for every symbol and every state that is not final, as the
\* reject state is not; canonical_LR_grammar takes the reject state if there is no entry.
MissesGoto(alphabet) ==
  object.kind = "DCFG" /\ ~ alphabet \subseteq Terminals(Grammars[object.grammar])

\* It changes nothing in the object that the next call would not compute. Bound: only as the
\* first call. canonical_LR_grammar makes a DK automaton anew, without the head made up.
ToDPDA(alphabet) ==
  /\ phase = "idle" /\ calls = 0
  /\ IsAlphabet(alphabet) /\ ~ MissesGoto(alphabet)
  /\ LET g == Grammars[object.grammar]
     IN  \/ object.kind = "DCFG" /\ dpda' = DCFGToDPDA(g, alphabet, T)
         \/ object.kind = "canonical"
            /\ dpda' = CanonicalToDPDA(g, alphabet, TablesFor(g, "canonical", MaxSteps))
  /\ phase' = "dpda"
  /\ UNCHANGED <<unchanging, state, word, at, stack, answer>>

\* std::out_of_range. The goto table is kept, the reduction table still empty, so that the next
\* parse constructs both.
ToDPDAThrows(alphabet) ==
  /\ phase = "idle" /\ calls = 0
  /\ IsAlphabet(alphabet) /\ MissesGoto(alphabet)
  /\ calls' = calls + 1
  /\ answer' = "throw"
  /\ UNCHANGED <<object, table, entries, extended, threw, tree, phase, word, at, stack, automaton>>

\* DPDA::recognize. The DPDA of a canonical LR grammar wants the end marker. Bound: one call.
Recognize(w) ==
  /\ phase = "dpda" /\ answer = "none"
  /\ word' = IF object.kind = "canonical" THEN Append(w, EndMarker) ELSE w
  /\ at' = 1
  /\ state' = dpda.start
  /\ stack' = <<>>
  /\ phase' = "recognize"
  /\ UNCHANGED <<unchanging, dpda, answer>>

Ended == at > Len(word)
Configuration == [state |-> state, stack |-> stack]
Reads == IF Ended THEN {} ELSE P!Go(dpda, Configuration, word[at])
Moves == IF Reads # {} THEN Reads ELSE P!Go(dpda, Configuration, None)
Recognized == Ended /\ state \in dpda.final

Move ==
  /\ phase = "recognize"
  /\ ~ Recognized
  /\ \E c \in Moves : state' = c.state /\ stack' = c.stack
  /\ at' = IF Reads # {} THEN at + 1 ELSE at
  /\ UNCHANGED <<unchanging, dpda, phase, word, answer>>

Return ==
  /\ phase = "recognize"
  /\ Recognized \/ Moves = {}
  /\ answer' = IF Recognized THEN "yes" ELSE "no"
  /\ phase' = "dpda"
  /\ UNCHANGED <<unchanging, automaton, word, at, stack>>

Recognizing == Move \/ Return

ObjectNext ==
  \/ Next /\ UNCHANGED automaton
  \/ \E alphabet \in Alphabets : ToDPDA(alphabet) \/ ToDPDAThrows(alphabet)
  \/ \E w \in Words : Recognize(w)
  \/ Recognizing

ObjectSpec == ObjectInit /\ [][ObjectNext]_objectVars

\* A call, once made, is run to its end.
ObjectFairSpec ==
  /\ ObjectSpec
  /\ WF_objectVars(Constructing /\ UNCHANGED automaton)
  /\ WF_objectVars(Parsing /\ UNCHANGED automaton)
  /\ WF_objectVars(Recognizing)

-----------------------------------------------------------------------------
\* No lookahead symbol leaves a choice.
Decided ==
  \A n \in DOMAIN T.collection : Enterable(ItemsOf(n)) /\ ~ ShiftConflict(T.collection[n])

\* What DPDAs are right about: a canonical LR grammar is made one without a test for conflicts.
Promised == ~ Cyclic(Grammars[object.grammar]) /\ (object.kind = "canonical" => Decided)

\* The DPDA has one move for everything it can read and pop, and accepts the words of the
\* grammar; that of a canonical LR grammar with the end marker, and none without it. (An end
\* marker in the middle of a word is passed over.)
AutomatonRight ==
  phase = "dpda" =>
    IF answer = "none" THEN P!Deterministic(dpda)
    ELSE LET w == IF object.kind = "canonical" THEN Front(word) ELSE word
         IN  Promised => (answer = "yes" <=> w \in WordsOf[object.grammar][Start])

\* The parser and the DPDA come to an end.
CallsEnd == ParseEnds /\ ((phase = "recognize" /\ Promised) ~> (phase = "dpda"))
=============================================================================

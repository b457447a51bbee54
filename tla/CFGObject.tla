------------------------------ MODULE CFGObject ------------------------------
(***************************************************************************)
(* What a caller may do with a grammar: transform it, turn it into a PDA   *)
(* and a PDA into a grammar again, or parse by recursive descent with what *)
(* the transformations have made of it.                                    *)
(***************************************************************************)
EXTENDS PushdownConversion, RecursiveDescent

objectVars == <<vars, descent>>

ObjectInit ==
  /\ Init
  /\ bodies = <<>>
  /\ text = <<>>
  /\ frames = <<>>
  /\ verdict = "none"

Descend(w) ==
  /\ phase = "grammar"
  /\ phase' = "descent"
  /\ circular' = Circular
  /\ Parse(rules, w)
  /\ UNCHANGED <<source, made, language, configurations, word>>

Descent == (MakeRoot(grammar.start) \/ Descending) /\ UNCHANGED vars

ObjectNext ==
  \/ Next /\ UNCHANGED descent
  \/ \E w \in BoundedSeq(Terminal, MaxWord) : Descend(w)
  \/ Descent

ObjectSpec == ObjectInit /\ [][ObjectNext]_objectVars

\* A call, of either recognizer, is run to its end once it is made. (For recursive descent
\* this is weak fairness: a step is possible as long as there is room for another call.)
Going == verdict = "parsing" /\ Len(frames) < MaxFrames

ObjectFairSpec ==
  /\ ObjectSpec
  /\ WF_objectVars(CloseRound /\ UNCHANGED descent)
  /\ []<>(~ Going) \/ []<><<Descent>>_objectVars

-----------------------------------------------------------------------------
\* Backtracking misses no tree and finds none that is not there, whatever the order of
\* the bodies: if recursive descent comes to an answer, it is that of the grammar.
DescentRight ==
  verdict \in {"yes", "no"} =>
    (verdict = "yes" <=> text \in LanguageOf(Grammar(grammar.start, rules), MaxWord))

\* Words derived by the grammar of a PDA, whose heads are many.
RECURSIVE Derived(_, _)
Derived(productions, L) ==
  LET words == UNION {{p.head} \X BodyWords(MaxWord, L, p.body) : p \in productions}
      more == [A \in DOMAIN L |-> {x[2] : x \in {y \in words : y[1] = A}}]
  IN  IF more = L THEN L ELSE Derived(productions, more)

\* The grammar of a PDA derives the words the PDA accepts: what leaves the stack as it was
\* is cut at the moves that push a symbol and take it away again. Words are lost only where a
\* final state had a move that the way to the empty stack takes the place of.
WayBackRight ==
  phase = "cfg" =>
    LET derived == Derived(rules, [A \in Heads(rules) |-> {}])[grammar.start]
    IN  derived \subseteq language /\ (kept => derived = language)

\* The closures of the PDA end, and so does recursive descent, unless there is a head that
\* begins with itself behind what may be empty: then a stack can grow for ever. (That
\* is no left recursion has_left_recursion could find.)
CallsEnd ==
  LET called == phase = "close" \/ verdict = "parsing"
  IN  (called /\ ~ circular) ~> ~ called
=============================================================================

---------------------------- MODULE LeftRecursion ----------------------------
(***************************************************************************)
(* CFG::eliminate_left_recursion and CFG::left_factoring, on sets of       *)
(* productions. The order of heads and bodies is that of hash tables, and  *)
(* is a parameter.                                                         *)
(***************************************************************************)
EXTENDS ContextFree, PrimedNames

Begin(bodies, A) == {body \in bodies : body # <<>> /\ body[1] = A}

\* The bodies of A that begin with B, with those of B in its place.
Substitute(rules, A, B) ==
  LET begin == Begin(Bodies(rules, A), B)
  IN  (rules \ Rules(A, begin))
        \cup Rules(A, {front \o Tail(body) : front \in Bodies(rules, B), body \in begin})

\* Mutant: the new head has no empty body.
EliminateImmediate_NoEnd(rules, A) ==
  LET new == NewHead(A, Heads(rules))
      bodies == Bodies(rules, A)
      begin == Begin(bodies, A)
      kept == (bodies \ begin) \cup {<<>>}
  IN  IF begin = {} THEN rules
      ELSE (rules \ Rules(A, bodies)) \cup Rules(A, {Append(body, new) : body \in kept})
             \cup Rules(new, {Append(Tail(body), new) : body \in begin})

\* Bodies of A that begin with A go to a new head. Each leaves an empty body behind.
EliminateImmediate(rules, A) ==
  LET new == NewHead(A, Heads(rules))
      bodies == Bodies(rules, A)
      begin == Begin(bodies, A)
      kept == (bodies \ begin) \cup {<<>>}
  IN  IF begin = {} THEN rules
      ELSE (rules \ Rules(A, bodies)) \cup Rules(A, {Append(body, new) : body \in kept})
             \cup Rules(new, {Append(Tail(body), new) : body \in begin} \cup {<<>>})

\* The bodies of the i-th head begin with no earlier one any more.
Substituted(rules, order, i) ==
  FoldLeft(LAMBDA P, j : Substitute(P, order[i], order[j]), rules, [j \in 1 .. i - 1 |-> j])

\* The productions after the first n heads.
Eliminated(rules, order, n) ==
  FoldLeft(LAMBDA P, i : EliminateImmediate(Substituted(P, order, i), order[i]),
           rules, [i \in 1 .. n |-> i])

EliminateLeftRecursion(start, rules, order) ==
  EliminateUselessSymbols(start, Eliminated(rules, order, Len(order)))

\* The heads that an empty body is left behind for, and had none.
GainEmptyBody(rules, order) ==
  {order[i] : i \in {k \in DOMAIN order :
     LET bodies == Bodies(Substituted(Eliminated(rules, order, k - 1), order, k), order[k])
     IN  Begin(bodies, order[k]) # {} /\ <<>> \notin bodies}}

-----------------------------------------------------------------------------
CommonLength(u, v) ==
  Max({n \in 0 .. Min({Len(u), Len(v)}) : SubSeq(u, 1, n) = SubSeq(v, 1, n)})

\* The first run of bodies with a common prefix, in the order the bodies come in: a
\* body that shares nothing with the prefix ends the run, or starts another one.
CommonRun(order) ==
  FoldLeft(LAMBDA run, body :
             LET n == CommonLength(run.prefix, body)
             IN  IF run.ended THEN run
                 ELSE IF n > 0
                   THEN [run EXCEPT !.prefix = SubSeq(body, 1, n), !.bodies = @ \cup {body}]
                 ELSE IF Cardinality(run.bodies) > 1 THEN [run EXCEPT !.ended = TRUE]
                 ELSE [run EXCEPT !.prefix = body, !.bodies = {body}],
           [prefix |-> Head(order), bodies |-> {Head(order)}, ended |-> FALSE], Tail(order))

\* The bodies of the run with their rests moved to a new head.
Factored(rules, A, run) ==
  LET new == NewHead(A, Heads(rules))
      rest(body) == SubSeq(body, Len(run.prefix) + 1, Len(body))
  IN  (rules \ Rules(A, run.bodies)) \cup Rules(A, {Append(run.prefix, new)})
        \cup Rules(new, {rest(body) : body \in run.bodies})
=============================================================================

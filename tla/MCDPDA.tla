------------------------------- MODULE MCDPDA -------------------------------
(***************************************************************************)
(* All DPDAs of two states over one input and one stack symbol, those with *)
(* two stack symbols that push in one state and pop in the other, and some *)
(* more: the one of the tests, one where what loops depends on the stack,  *)
(* one with a final state behind a final state, and one that has the end   *)
(* marker among its stack symbols.                                         *)
(***************************************************************************)
EXTENDS DPDAObject

CONSTANTS a, b, u, v, end, none

Q(i) == <<"q", i>>

\* A DPDA with the states 0 .. n - 1 and the start state 0.
Of(alphabet, symbols, n, final, Row0(_)) ==
  [alphabet |-> alphabet, states |-> {Q(i) : i \in 0 .. n - 1}, start |-> Q(0),
   final |-> {Q(i) : i \in final}, rows |-> [q \in {Q(i) : i \in 0 .. n - 1} |-> Row0(q[2])],
   symbols |-> symbols, normalized |-> FALSE]

On(input, pop, to, push) == <<input, pop>> :> <<Q(to), push>>

\* One move for each state, which may read or not, pop or not and push or not.
Small ==
  {[Of({a}, {u}, 2, {}, LAMBDA i : <<>>) EXCEPT !.final = final, !.rows = rows] :
     final \in {{Q(0)}, {Q(1)}, {Q(0), Q(1)}},
     rows \in [{Q(0), Q(1)} -> UNION {[{s} -> {Q(0), Q(1)} \X {none, u}] : s \in {a, none} \X {u, none}}]}

\* A state that pushes what it is told to as it reads, and one that reads or does
\* not as the stack says.
Telling ==
  {[Of({a}, {u, v}, 2, {}, LAMBDA i : <<>>) EXCEPT
      !.final = final,
      !.rows = Q(0) :> On(a, none, 1, u) @@ Q(1) :> (<<m[1], u>> :> m[2] @@ <<n[1], v>> :> n[2])] :
     final \in {{Q(0)}, {Q(1)}},
     m \in {a, none} \X ({Q(0), Q(1)} \X {none, u, v}),
     n \in {a, none} \X ({Q(0), Q(1)} \X {none, u, v})}

\* The DPDA of dpda_test.cpp: as many a as b after them. Its own end marker is u.
Test ==
  Of({a, b}, {u, v}, 5, {0, 3}, LAMBDA i :
     CASE i = 0 -> On(none, none, 1, u)
       [] i = 1 -> On(a, none, 1, v) @@ On(b, v, 2, none) @@ On(b, u, 4, none)
       [] i = 2 -> On(b, v, 2, none) @@ On(none, u, 3, none) @@ On(a, v, 4, none)
       [] i = 3 -> On(none, none, 4, none)
       [] i = 4 -> On(a, none, 4, none) @@ On(b, none, 4, none))

\* A final state behind a final state: a parallel state may get one of its own.
TwoFinal ==
  Of({a}, {u, v}, 3, {0, 1, 2}, LAMBDA i :
     CASE i = 0 -> On(none, none, 1, v)
       [] i = 1 -> On(a, u, 0, v) @@ On(a, v, 2, none)
       [] i = 2 -> On(none, u, 0, v) @@ On(none, v, 0, v))

\* States that read or do not, as the stack says; the length is odd.
Turns ==
  Of({a}, {u, v}, 3, {2}, LAMBDA i :
     CASE i = 0 -> On(none, none, 1, u)
       [] i = 1 -> On(a, u, 1, v) @@ On(none, v, 2, none)
       [] i = 2 -> On(a, none, 1, u))

\* 1 loops when u is on top, pushing, and not when v is.
Pushing ==
  Of({a}, {u, v}, 2, {}, LAMBDA i :
     CASE i = 0 -> On(a, none, 1, u)
       [] i = 1 -> On(none, u, 1, u) @@ On(a, v, 0, none))

Marked == [Pushing EXCEPT !.symbols = {u, v, end}, !.rows[Q(1)] = @ @@ On(a, end, 0, none)]

MCDPDAs == Small \cup Telling \cup {Test, TwoFinal, Turns, Pushing, Marked}

MCWords ==
  {<<>>, <<a>>, <<a, a>>, <<a, b>>, <<a, b, b>>, <<a, end>>, <<a, a, end>>, <<a, b, end>>}
=============================================================================

--------------------------- MODULE MCDFAOperations ---------------------------
(***************************************************************************)
(* DFAs of three states over two symbols whose second symbol goes on       *)
(* in a circle or stays, and some of two states to intersect them with. A  *)
(* product has six states, a product of a product twelve.                  *)
(***************************************************************************)
EXTENDS DFAOperations

CONSTANTS a, b, unknown

Of(states, final, delta) ==
  [states |-> states, start |-> 0, final |-> final, delta |-> delta, live |-> unknown]

MCDFAs ==
  {Of({0, 1, 2}, final, [s \in {0, 1, 2} \X {a, b} |-> IF s[2] = a THEN f[s[1]] ELSE IF turns THEN (s[1] + 1) % 3 ELSE s[1]]) :
     final \in {{0}, {1, 2}}, f \in {f \in [{0, 1, 2} -> {0, 1, 2}] : f[0] = 1}, turns \in BOOLEAN}

\* The second one of dfa_test.cpp, one that counts, one where 2 and 5 are states, and
\* one that accepts nothing after a b.
MCOthers ==
  {Of({0, 1}, {1}, [s \in {0, 1} \X {a, b} |-> IF s = <<0, a>> THEN 1 ELSE 0]),
   Of({0, 1}, {0}, [s \in {0, 1} \X {a, b} |-> 1 - s[1]]),
   [Of({2, 5}, {2, 5}, [s \in {2, 5} \X {a, b} |-> IF s[2] = b THEN 5 ELSE s[1]]) EXCEPT !.start = 2],
   Of({0, 1}, {0}, [s \in {0, 1} \X {a, b} |-> IF s[2] = b THEN 1 ELSE s[1]])}
=============================================================================

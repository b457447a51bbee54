----------------------------- MODULE PrimedNames -----------------------------
(***************************************************************************)
(* Nonterminals as names with a number of primes, and CFG::get_new_head,   *)
(* which makes up a name that is not taken.                                *)
(***************************************************************************)
EXTENDS Integers

CONSTANT MaxPrimes  \* bound: primes of a nonterminal

\* get_new_head: the name with as many primes more as it takes to be new.
NewHead(A, taken) ==
  <<A[1], CHOOSE k \in A[2] + 1 .. MaxPrimes :
            /\ <<A[1], k>> \notin taken
            /\ \A j \in A[2] + 1 .. k - 1 : <<A[1], j>> \in taken>>
=============================================================================

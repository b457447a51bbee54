------------------------------ MODULE RegexTree ------------------------------
(***************************************************************************)
(* The syntax trees of regular expressions: what they denote, how they are *)
(* simplified, Thompson's construction of an NFA, and the positions of     *)
(* McNaughton and Yamada.                                                  *)
(*                                                                         *)
(* A tree shares its nodes: the operator + puts one node in two places,    *)
(* and so does the elimination of states. Only a basic_node can tell, as   *)
(* it holds a position of its own: its number says which object it is.     *)
(***************************************************************************)
EXTENDS Integers, Sequences, FiniteSets, SequencesExt

CONSTANT EndMarker  \* ALPHABET::endmarker

EmptySet == [kind |-> "empty_set"]
Epsilon == [kind |-> "epsilon"]
Basic(n, a) == [kind |-> "basic", number |-> n, symbol |-> a]
Union(l, r) == [kind |-> "union", left |-> l, right |-> r]
Concat(l, r) == [kind |-> "concat", left |-> l, right |-> r]
Star(t) == [kind |-> "star", inner |-> t]

Binary == {"union", "concat"}

-----------------------------------------------------------------------------
(* The words of at most n symbols a tree denotes: the reference.           *)

Joined(U, V, n) == {w \in {u \o v : u \in U, v \in V} : Len(w) <= n}

RECURSIVE Words(_, _)
Words(t, n) ==
  CASE t.kind = "empty_set" -> {}
    [] t.kind = "epsilon" -> {<<>>}
    [] t.kind = "basic" -> {w \in {<<t.symbol>>} : n > 0}
    [] t.kind = "union" -> Words(t.left, n) \cup Words(t.right, n)
    [] t.kind = "concat" -> Joined(Words(t.left, n), Words(t.right, n), n)
    [] t.kind = "star" -> LET once == Words(t.inner, n)
                          IN  FoldLeft(LAMBDA W, i : W \cup Joined(W, once, n), {<<>>},
                                       [i \in 1 .. n |-> i])

\* Whether a node of some kinds is in a tree.
RECURSIVE HasNode(_, _)
HasNode(t, kinds) ==
  \/ t.kind \in kinds
  \/ t.kind \in Binary /\ (HasNode(t.left, kinds) \/ HasNode(t.right, kinds))
  \/ t.kind = "star" /\ HasNode(t.inner, kinds)

HasEmptySet(t) == HasNode(t, {"empty_set"})

-----------------------------------------------------------------------------
RECURSIVE IsEmptySetNode(_)
IsEmptySetNode(t) ==
  CASE t.kind = "union" -> IsEmptySetNode(t.left) /\ IsEmptySetNode(t.right)
    [] t.kind = "concat" -> IsEmptySetNode(t.left) \/ IsEmptySetNode(t.right)
    [] OTHER -> t.kind = "empty_set"

RECURSIVE IsEpsilonNode(_)
IsEpsilonNode(t) ==
  CASE t.kind = "union" -> \/ IsEpsilonNode(t.left)
                              /\ (IsEpsilonNode(t.right) \/ IsEmptySetNode(t.right))
                           \/ IsEpsilonNode(t.right) /\ IsEmptySetNode(t.left)
    [] t.kind = "concat" -> IsEpsilonNode(t.left) /\ IsEpsilonNode(t.right)
    [] t.kind = "star" -> IsEpsilonNode(t.inner) \/ IsEmptySetNode(t.inner)
    [] OTHER -> t.kind = "epsilon"

\* simplify, with the tree itself for a null pointer.
RECURSIVE Simplify(_)

SimplifyConcat(t) ==
  IF IsEmptySetNode(t) THEN EmptySet
  ELSE IF IsEpsilonNode(t.right) THEN Simplify(t.left)
  ELSE IF IsEpsilonNode(t.left) THEN Simplify(t.right)
  ELSE Concat(Simplify(t.left), Simplify(t.right))

SimplifyUnion(t) ==
  IF IsEmptySetNode(t.left) THEN Simplify(t.right)
  ELSE IF IsEmptySetNode(Simplify(t.right)) THEN Simplify(t.left)
  ELSE Union(Simplify(t.left), Simplify(t.right))

Simplify(t) ==
  CASE t.kind = "union" -> SimplifyUnion(t)
    [] t.kind = "concat" -> SimplifyConcat(t)
    [] t.kind = "star" -> IF IsEpsilonNode(t) THEN Epsilon ELSE Star(Simplify(t.inner))
    [] OTHER -> t

-----------------------------------------------------------------------------
(* to_NFA. An NFA has one final state here, the last of its numbers.       *)

NFA(states, delta, eps, start, final) ==
  [states |-> states, delta |-> delta, eps |-> eps, start |-> start, final |-> final]

\* replace_epsilon_transition(s, targets)
Replaced(eps, s, targets) == {e \in eps : e[1] # s} \cup {s} \X targets

UnionNFA(l, r, start) ==
  LET final == r.final + 1
      eps == UNION {l.eps, r.eps, {start} \X {l.start, r.start}}
  IN  NFA(UNION {l.states, r.states, {start, final}}, l.delta \cup r.delta,
          Replaced(Replaced(eps, l.final, {final}), r.final, {final}), start, final)

ConcatNFA(l, r) ==
  NFA(l.states \cup r.states, l.delta \cup r.delta, l.eps \cup r.eps, l.start, r.final)

\* Mutant: the inner automaton is left after one round.
StarNFA_Once(inner, start) ==
  LET final == inner.final + 1
      eps == inner.eps \cup {start} \X {inner.start, final}
  IN  NFA(inner.states \cup {start, final}, inner.delta,
          Replaced(eps, inner.final, {final}), start, final)

StarNFA(inner, start) ==
  LET final == inner.final + 1
      eps == inner.eps \cup {start} \X {inner.start, final}
  IN  NFA(inner.states \cup {start, final}, inner.delta,
          Replaced(eps, inner.final, {inner.start, final}), start, final)

RECURSIVE ToNFA(_, _)
ToNFA(t, start) ==
  CASE t.kind = "basic" ->
         NFA({start, start + 1}, {<<start, t.symbol, start + 1>>}, {}, start, start + 1)
    [] t.kind = "epsilon" ->
         NFA({start, start + 1}, {}, {<<start, start + 1>>}, start, start + 1)
    [] t.kind = "union" -> LET l == ToNFA(t.left, start + 1)
                           IN  UnionNFA(l, ToNFA(t.right, l.final + 1), start)
    [] t.kind = "concat" -> LET l == ToNFA(t.left, start)
                            IN  ConcatNFA(l, ToNFA(t.right, l.final))
    [] t.kind = "star" -> StarNFA(ToNFA(t.inner, start + 1), start)

-----------------------------------------------------------------------------
(* The positions.                                                          *)

\* The basic nodes in the order assign_position comes to them.
RECURSIVE Leaves(_)
Leaves(t) ==
  CASE t.kind = "basic" -> <<t>>
    [] t.kind \in Binary -> Leaves(t.left) \o Leaves(t.right)
    [] t.kind = "star" -> Leaves(t.inner)
    [] OTHER -> <<>>

\* Every node is in one place of the tree.
Unshared(t) == IsInjective(Leaves(t))

\* The position a node holds in the end: the one it was given last.
Position(leaves, node) == Max({i \in DOMAIN leaves : leaves[i] = node})

RECURSIVE IsNullable(_)
IsNullable(t) ==
  CASE t.kind = "union" -> IsNullable(t.left) \/ IsNullable(t.right)
    [] t.kind = "concat" -> IsNullable(t.left) /\ IsNullable(t.right)
    [] OTHER -> t.kind # "basic"

RECURSIVE FirstPos(_, _)
FirstPos(t, leaves) ==
  CASE t.kind = "basic" -> {Position(leaves, t)}
    [] t.kind = "union" -> FirstPos(t.left, leaves) \cup FirstPos(t.right, leaves)
    [] t.kind = "concat" -> FirstPos(t.left, leaves)
                              \cup IF IsNullable(t.left) THEN FirstPos(t.right, leaves) ELSE {}
    [] t.kind = "star" -> FirstPos(t.inner, leaves)
    [] OTHER -> {}

RECURSIVE LastPos(_, _)
LastPos(t, leaves) ==
  CASE t.kind = "basic" -> {Position(leaves, t)}
    [] t.kind = "union" -> LastPos(t.left, leaves) \cup LastPos(t.right, leaves)
    [] t.kind = "concat" -> LastPos(t.right, leaves)
                              \cup IF IsNullable(t.right) THEN LastPos(t.left, leaves) ELSE {}
    [] t.kind = "star" -> LastPos(t.inner, leaves)
    [] OTHER -> {}

\* The rows of a table with the positions of next added to those of last.
Linked(table, last, next) ==
  IF next = {} THEN table
  ELSE [p \in last |-> next \cup IF p \in DOMAIN table THEN table[p] ELSE {}] @@ table

\* follow_pos. The tables of two sides are merged by unordered_map::merge: of a row
\* both have, that of the left side stays.
RECURSIVE FollowPos(_, _)
FollowPos(t, leaves) ==
  CASE t.kind = "union" -> FollowPos(t.left, leaves) @@ FollowPos(t.right, leaves)
    [] t.kind = "concat" -> Linked(FollowPos(t.left, leaves) @@ FollowPos(t.right, leaves),
                                   LastPos(t.left, leaves), FirstPos(t.right, leaves))
    [] t.kind = "star" -> Linked(FollowPos(t.inner, leaves),
                                 LastPos(t.inner, leaves), FirstPos(t.inner, leaves))
    [] OTHER -> <<>>
=============================================================================

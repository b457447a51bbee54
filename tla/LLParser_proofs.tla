---------------------------- MODULE LLParser_proofs ----------------------------
(***************************************************************************)
(* That the stack of parse and the one of get_parse_tree keep step, and    *)
(* that a tree is one of a derivation of the word: for all grammars and    *)
(* words, also with a table that an exception left unfinished. That with a *)
(* table no exception left unfinished only words without a derivation are  *)
(* turned down. That DerivedWords has the words with a derivation, so that *)
(* the answers are those of the language. And that the FIRST sets are      *)
(* those of the words that are derived, which rests on the constructor's   *)
(* removal of useless symbols.                                             *)
(***************************************************************************)
EXTENDS LLParser, ContextFree_proofs

-----------------------------------------------------------------------------
(* Pieces on a stack.                                                      *)

\* steps has what is on the stack after every piece.
IsOnto(steps, pieces, rest, S) ==
  /\ steps \in [0 .. Len(pieces) -> Seq(S)]
  /\ steps[0] = rest
  /\ \A n \in 0 .. Len(pieces) - 1 : steps[n + 1] = pieces[Len(pieces) - n] \o steps[n]

\* The pieces are pushed one by one.
LEMMA OntoUnfolds ==
  ASSUME NEW S, NEW pieces \in Seq(Seq(S)), NEW rest \in Seq(S), NEW steps, IsOnto(steps, pieces, rest, S)
  PROVE  Onto(pieces, rest) = steps[Len(pieces)]
<1> USE DEF IsOnto
<1> DEFINE L == Len(pieces)
           Is(f) == f = [n \in 0 .. L |-> IF n = 0 THEN rest ELSE pieces[L - n + 1] \o f[n - 1]]
           onto == CHOOSE f : Is(f)
<1>0. L \in Nat
  OBVIOUS
<1>1. Is(steps)
  <2>1. ASSUME NEW n \in 0 .. L PROVE steps[n] = IF n = 0 THEN rest ELSE pieces[L - n + 1] \o steps[n - 1]
    <3>1. CASE n # 0
      <4>1. n - 1 \in 0 .. L - 1 /\ (n - 1) + 1 = n /\ L - (n - 1) = L - n + 1
        BY <3>1, <1>0
      <4> QED BY <4>1, <3>1
    <3> QED BY <3>1
  <2> QED BY <2>1
<1>2. Is(onto)
  <2> HIDE DEF Is
  <2> QED BY <1>1
<1> HIDE DEF onto
<1> DEFINE T == {n \in Nat : n <= L => onto[n] = steps[n]}
<1>3. 0 \in T
  BY <1>0, <1>2
<1>4. ASSUME NEW n \in Nat, n \in T PROVE n + 1 \in T
  <2> SUFFICES ASSUME n + 1 <= L PROVE onto[n + 1] = steps[n + 1]
    OBVIOUS
  <2>1. n \in 0 .. L - 1 /\ n + 1 \in 0 .. L /\ n + 1 # 0 /\ (n + 1) - 1 = n /\ L - (n + 1) + 1 = L - n
    BY <1>0
  <2>2. onto[n] = steps[n]
    BY <1>4, <2>1
  <2>3. onto[n + 1] = pieces[L - (n + 1) + 1] \o onto[(n + 1) - 1]
    BY <1>2, <2>1
  <2>4. steps[n + 1] = pieces[L - n] \o steps[n]
    BY <2>1
  <2> QED BY <2>1, <2>2, <2>3, <2>4
<1>5. Nat \subseteq T
  <2> HIDE DEF T
  <2> QED BY <1>3, <1>4, InductionOnNat
<1>6. onto[L] = steps[L]
  BY <1>5, <1>0
<1>7. Onto(pieces, rest) = onto[L]
  BY DEF Onto, onto
<1> QED BY <1>6, <1>7

\* And that is always possible.
LEMMA OntoExists ==
  ASSUME NEW S, NEW pieces \in Seq(Seq(S)), NEW rest \in Seq(S)
  PROVE  \E steps : IsOnto(steps, pieces, rest, S)
<1> DEFINE L == Len(pieces)
           F == [p \in Nat \X Seq(S) |-> IF p[1] < L THEN pieces[L - p[1]] \o p[2] ELSE p[2]]
<1>0. L \in Nat
  OBVIOUS
<1>1. StaysIn(Seq(S), rest, F)
  <2>1. ASSUME NEW n \in Nat, NEW x \in Seq(S) PROVE F[<<n, x>>] \in Seq(S)
    <3>1. CASE n < L
      <4>1. L - n \in 1 .. L
        BY <1>0, <3>1
      <4>2. pieces[L - n] \in Seq(S)
        BY <4>1
      <4>3. pieces[L - n] \o x \in Seq(S)
        BY <4>2
      <4> QED BY <4>3, <3>1
    <3> QED BY <3>1
  <2> HIDE DEF F
  <2> QED BY <2>1 DEF StaysIn
<1>2. PICK f : Iterates(f, Seq(S), rest, F)
  <2> HIDE DEF F
  <2> QED BY <1>1, RecursionOnNat
<1>3. f \in [Nat -> Seq(S)] /\ f[0] = rest /\ \A n \in Nat : f[n + 1] = F[<<n, f[n]>>]
  BY <1>2 DEF Iterates
<1> DEFINE steps == [n \in 0 .. L |-> f[n]]
<1>4. steps \in [0 .. L -> Seq(S)] /\ steps[0] = rest
  BY <1>0, <1>3
<1>5. ASSUME NEW n \in 0 .. L - 1 PROVE steps[n + 1] = pieces[L - n] \o steps[n]
  <2>1. n \in Nat /\ n < L /\ n \in 0 .. L /\ n + 1 \in 0 .. L
    BY <1>0
  <2>2. f[n + 1] = F[<<n, f[n]>>] /\ f[n] \in Seq(S)
    BY <1>3, <2>1
  <2>3. F[<<n, f[n]>>] = pieces[L - n] \o f[n]
    BY <2>1, <2>2
  <2> QED BY <2>1, <2>2, <2>3
<1>6. IsOnto(steps, pieces, rest, S)
  BY <1>4, <1>5 DEF IsOnto
<1> QED BY <1>6

\* What is on a stack after pieces of entries are pushed are entries.
LEMMA OntoInSeq ==
  ASSUME NEW S, NEW pieces \in Seq(Seq(S)), NEW rest \in Seq(S)
  PROVE  Onto(pieces, rest) \in Seq(S)
<1>1. PICK steps : IsOnto(steps, pieces, rest, S)
  BY OntoExists
<1>2. Onto(pieces, rest) = steps[Len(pieces)]
  BY <1>1, OntoUnfolds
<1> QED BY <1>1, <1>2 DEF IsOnto

\* Pieces on others are pushed after those.
LEMMA OntoConcatenates ==
  ASSUME NEW S, NEW p \in Seq(Seq(S)), NEW q \in Seq(Seq(S)), NEW rest \in Seq(S)
  PROVE  Onto(p \o q, rest) = Onto(p, Onto(q, rest))
<1> DEFINE m == Len(p)
           n == Len(q)
           below == Onto(q, rest)
<1>0. m \in Nat /\ n \in Nat /\ p \o q \in Seq(Seq(S)) /\ Len(p \o q) = m + n /\ below \in Seq(S)
  BY OntoInSeq
<1>1. PICK steps : IsOnto(steps, q, rest, S)
  BY OntoExists
<1>2. below = steps[n]
  BY <1>1, OntoUnfolds
<1>3. PICK on : IsOnto(on, p, below, S)
  BY <1>0, OntoExists
<1>4. Onto(p, below) = on[m]
  BY <1>0, <1>3, OntoUnfolds
<1> DEFINE all == [k \in 0 .. m + n |-> IF k <= n THEN steps[k] ELSE on[k - n]]
<1>5. all \in [0 .. m + n -> Seq(S)]
  <2>1. ASSUME NEW k \in 0 .. m + n PROVE all[k] \in Seq(S)
    <3>1. CASE k <= n
      <4>1. k \in 0 .. n
        BY <3>1, <1>0
      <4>2. steps[k] \in Seq(S)
        BY <4>1, <1>1 DEF IsOnto
      <4> QED BY <4>2, <3>1
    <3>2. CASE ~ (k <= n)
      <4>1. k - n \in 0 .. m
        BY <3>2, <1>0
      <4>2. on[k - n] \in Seq(S)
        BY <4>1, <1>3 DEF IsOnto
      <4> QED BY <4>2, <3>2
    <3> QED BY <3>1, <3>2
  <2> QED BY <2>1
<1>6. all[0] = rest
  BY <1>0, <1>1 DEF IsOnto
<1>7. ASSUME NEW k \in 0 .. (m + n) - 1 PROVE all[k + 1] = (p \o q)[(m + n) - k] \o all[k]
  <2>0. k \in 0 .. m + n /\ k + 1 \in 0 .. m + n
    BY <1>0
  <2>1. CASE k < n
    <3>1. k \in 0 .. n - 1 /\ k <= n /\ k + 1 <= n /\ (m + n) - k = m + (n - k) /\ n - k \in 1 .. n
      BY <1>0, <2>1
    <3>2. steps[k + 1] = q[n - k] \o steps[k]
      BY <1>1, <3>1 DEF IsOnto
    <3>3. (p \o q)[m + (n - k)] = q[n - k]
      BY <1>0, <3>1
    <3> QED BY <2>0, <3>1, <3>2, <3>3
  <2>2. CASE ~ (k < n)
    <3>1. k - n \in 0 .. m - 1 /\ ~ (k + 1 <= n) /\ (k + 1) - n = (k - n) + 1 /\ (m + n) - k = m - (k - n)
          /\ m - (k - n) \in 1 .. m
      BY <1>0, <2>2
    <3>2. on[(k - n) + 1] = p[m - (k - n)] \o on[k - n]
      BY <1>3, <3>1 DEF IsOnto
    <3>3. (p \o q)[m - (k - n)] = p[m - (k - n)]
      BY <1>0, <3>1
    <3>4. all[k] = on[k - n]
      <4>1. CASE k = n
        BY <4>1, <1>0, <1>2, <1>3, <2>0 DEF IsOnto
      <4>2. CASE k # n
        BY <4>2, <2>2, <2>0, <1>0
      <4> QED BY <4>1, <4>2
    <3>5. all[k + 1] = on[(k + 1) - n]
      BY <2>0, <3>1
    <3> QED BY <3>1, <3>2, <3>3, <3>4, <3>5
  <2> QED BY <2>1, <2>2
<1>8. all[m + n] = on[m]
  <2>1. CASE m = 0
    BY <2>1, <1>0, <1>2, <1>3 DEF IsOnto
  <2>2. CASE m # 0
    BY <2>2, <1>0
  <2> QED BY <2>1, <2>2
<1>9. IsOnto(all, p \o q, rest, S)
  <2> HIDE DEF all
  <2> QED BY <1>0, <1>5, <1>6, <1>7 DEF IsOnto
<1>10. Onto(p \o q, rest) = all[m + n]
  <2> HIDE DEF all
  <2> QED BY <1>0, <1>9, OntoUnfolds
<1> QED BY <1>4, <1>8, <1>10

AllEmpty(p) == \A i \in 1 .. Len(p) : p[i] = <<>>

\* Empty pieces change nothing.
LEMMA OntoNothing ==
  ASSUME NEW S, NEW p \in Seq(Seq(S)), AllEmpty(p), NEW rest \in Seq(S)
  PROVE  Onto(p, rest) = rest
<1> DEFINE steps == [n \in 0 .. Len(p) |-> rest]
<1>1. ASSUME NEW n \in 0 .. Len(p) - 1 PROVE steps[n + 1] = p[Len(p) - n] \o steps[n]
  <2>1. Len(p) - n \in 1 .. Len(p)
    OBVIOUS
  <2>2. p[Len(p) - n] = <<>>
    BY <2>1 DEF AllEmpty
  <2> QED BY <2>2
<1>2. IsOnto(steps, p, rest, S)
  <2>1. steps \in [0 .. Len(p) -> Seq(S)] /\ steps[0] = rest
    OBVIOUS
  <2> HIDE DEF steps
  <2> QED BY <1>1, <2>1 DEF IsOnto
<1>3. Onto(p, rest) = steps[Len(p)]
  <2> HIDE DEF steps
  <2> QED BY <1>2, OntoUnfolds
<1> QED BY <1>3

Single(p, x) == p = <<x>>

\* The first piece is on top of the others.
LEMMA OntoOfFirst ==
  ASSUME NEW S, NEW x \in Seq(S), NEW p, Single(p, x), NEW q \in Seq(Seq(S)), NEW rest \in Seq(S)
  PROVE  Onto(p \o q, rest) = x \o Onto(q, rest)
<1> DEFINE below == Onto(q, rest)
           steps == [n \in 0 .. 1 |-> IF n = 0 THEN below ELSE x \o below]
<1>1. below \in Seq(S) /\ p \in Seq(Seq(S)) /\ Len(p) = 1
  BY OntoInSeq DEF Single
<1> HIDE DEF below
<1>2. IsOnto(steps, p, below, S)
  BY <1>1 DEF IsOnto, Single
<1>3. Onto(p, below) = steps[1]
  <2> HIDE DEF steps
  <2> QED BY <1>1, <1>2, OntoUnfolds
<1>4. Onto(p \o q, rest) = Onto(p, below)
  <2> QED BY <1>1, OntoConcatenates DEF below
<1> QED BY <1>3, <1>4 DEF below

-----------------------------------------------------------------------------
(* What the stacks hold.                                                   *)

Symbols == GrammarSymbol \cup {EndMarker}

\* A stack entry, as parse pushes them for a set of productions.
EntriesOf(productions) ==
  {Symbol(X) : X \in Symbols}
    \cup UNION {{Callback(p.head, p.body, pos) : pos \in 0 .. Len(p.body)} : p \in productions}

\* The pieces of ToMatch.
Pieces(entries) == [i \in 1 .. Len(entries) |-> SymbolOf(entries[i])]

\* The symbols a stack still has to match.
Left(entries) == Onto(Pieces(entries), <<>>)

\* The start of a production is on top.
Starts(e) == e[1] = "callback" /\ e[4] = 0

\* What an entry has to match are symbols.
LEMMA SymbolOfEntry ==
  ASSUME NEW e \in EntriesOf(grammar.productions)
  PROVE  SymbolOf(e) \in Seq(Symbols)
<1>1. CASE \E X \in Symbols : e = Symbol(X)
  BY <1>1 DEF SymbolOf, Symbol
<1>2. CASE \E p \in grammar.productions : \E pos \in 0 .. Len(p.body) : e = Callback(p.head, p.body, pos)
  <2>1. e[1] = "callback"
    BY <1>2 DEF Callback
  <2> QED BY <2>1 DEF SymbolOf
<1> QED BY <1>1, <1>2 DEF EntriesOf

\* There is a piece for each entry of a stack.
LEMMA PiecesInSeq ==
  ASSUME NEW s \in Seq(EntriesOf(grammar.productions))
  PROVE  Pieces(s) \in Seq(Seq(Symbols)) /\ Len(Pieces(s)) = Len(s)
<1>1. ASSUME NEW i \in 1 .. Len(s) PROVE SymbolOf(s[i]) \in Seq(Symbols)
  <2> s[i] \in EntriesOf(grammar.productions)
    OBVIOUS
  <2> QED BY SymbolOfEntry
<1> QED BY <1>1 DEF Pieces

\* The pieces of a stack are those of its upper part and those of its lower part.
LEMMA PiecesConcatenate ==
  ASSUME NEW s \in Seq(EntriesOf(grammar.productions)), NEW t \in Seq(EntriesOf(grammar.productions))
  PROVE  Pieces(s \o t) = Pieces(s) \o Pieces(t)
<1>1. s \o t \in Seq(EntriesOf(grammar.productions)) /\ Len(s \o t) = Len(s) + Len(t)
  OBVIOUS
<1>2. /\ Pieces(s) \in Seq(Seq(Symbols)) /\ Pieces(t) \in Seq(Seq(Symbols)) /\ Pieces(s \o t) \in Seq(Seq(Symbols))
      /\ Len(Pieces(s)) = Len(s) /\ Len(Pieces(t)) = Len(t) /\ Len(Pieces(s \o t)) = Len(s) + Len(t)
  BY <1>1, PiecesInSeq
<1>4. /\ Len(Pieces(s) \o Pieces(t)) = Len(s) + Len(t) /\ Pieces(s) \o Pieces(t) \in Seq(Seq(Symbols))
      /\ \A i \in 1 .. Len(s) + Len(t) :
           (Pieces(s) \o Pieces(t))[i] = IF i <= Len(s) THEN Pieces(s)[i] ELSE Pieces(t)[i - Len(s)]
  BY <1>2, ConcatProperties
<1>3. ASSUME NEW i \in 1 .. Len(s) + Len(t) PROVE Pieces(s \o t)[i] = (Pieces(s) \o Pieces(t))[i]
  <2>1. Pieces(s \o t)[i] = SymbolOf((s \o t)[i])
    BY <1>1 DEF Pieces
  <2>2. CASE i <= Len(s)
    <3>1. (s \o t)[i] = s[i] /\ (Pieces(s) \o Pieces(t))[i] = Pieces(s)[i] /\ Pieces(s)[i] = SymbolOf(s[i])
      BY <1>4, <2>2 DEF Pieces
    <3> QED BY <2>1, <3>1
  <2>3. CASE ~ (i <= Len(s))
    <3>0. i - Len(s) \in 1 .. Len(t)
      BY <2>3
    <3>1. (s \o t)[i] = t[i - Len(s)]
      BY <2>3
    <3>2. (Pieces(s) \o Pieces(t))[i] = Pieces(t)[i - Len(s)]
      BY <1>4, <2>3
    <3>3. Pieces(t)[i - Len(s)] = SymbolOf(t[i - Len(s)])
      BY <3>0 DEF Pieces
    <3> QED BY <2>1, <3>1, <3>2, <3>3
  <2> QED BY <2>2, <2>3
<1> QED BY <1>2, <1>3, <1>4, SeqEqual

\* What is left below the top of a stack, and the symbol on top.
LEMMA LeftOfTop ==
  ASSUME NEW e \in EntriesOf(grammar.productions), NEW s \in Seq(EntriesOf(grammar.productions))
  PROVE  Left(<<e>> \o s) = SymbolOf(e) \o Left(s)
<1>1. Pieces(<<e>> \o s) = Pieces(<<e>>) \o Pieces(s)
  <2> <<e>> \in Seq(EntriesOf(grammar.productions))
    OBVIOUS
  <2> QED BY PiecesConcatenate
<1>2. Pieces(<<e>>) = <<SymbolOf(e)>>
  BY DEF Pieces
<1>3. SymbolOf(e) \in Seq(Symbols) /\ Pieces(s) \in Seq(Seq(Symbols)) /\ <<>> \in Seq(Symbols)
  BY PiecesInSeq, SymbolOfEntry
<1>4. Onto(<<SymbolOf(e)>> \o Pieces(s), <<>>) = SymbolOf(e) \o Onto(Pieces(s), <<>>)
  <2> DEFINE x == SymbolOf(e)
             q == Pieces(s)
             none == <<>>
             first == <<x>>
  <2>1. x \in Seq(Symbols) /\ q \in Seq(Seq(Symbols)) /\ none \in Seq(Symbols)
    BY <1>3
  <2>3. Single(first, x)
    BY DEF Single
  <2> HIDE DEF x, q, none, first
  <2>2. Onto(first \o q, none) = x \o Onto(q, none)
    BY <2>1, <2>3, OntoOfFirst
  <2> QED BY <2>2 DEF x, q, none, first
<1> QED BY <1>1, <1>2, <1>4 DEF Left

\* No production starts below the top.
StartsOnTop(entries) == \A i \in 2 .. Len(entries) : ~ Starts(entries[i])

\* What is pushed for a production leaves its body to match, and its start is on top.
LEMMA LeftOfPushed ==
  ASSUME NEW p \in grammar.productions, p.body \in Seq(GrammarSymbol),
         NEW s \in Seq(EntriesOf(grammar.productions)), \A i \in 1 .. Len(s) : ~ Starts(s[i])
  PROVE  LET pushed == Pushed(p.head, p.body, s)
         IN  /\ pushed \in Seq(EntriesOf(grammar.productions))
             /\ pushed # <<>> /\ Head(pushed) = Callback(p.head, p.body, 0)
             /\ StartsOnTop(pushed)
             /\ Left(pushed) = p.body \o Left(s)
<1> DEFINE body == p.body
           m == Len(body)
           Entr == EntriesOf(grammar.productions)
           C(i) == Callback(p.head, body, i)
           pieces == [i \in 1 .. m |-> <<C(i - 1), Symbol(body[i])>>]
           base == <<C(m)>> \o s
           rest == Left(s)
<1>0. m \in Nat /\ body \in Seq(Symbols) /\ \A i \in 1 .. m : body[i] \in Symbols
  BY DEF Symbols
<1>1. \A i \in 0 .. m : C(i) \in Entr /\ SymbolOf(C(i)) = <<>> /\ (Starts(C(i)) <=> i = 0)
  BY DEF EntriesOf, SymbolOf, Starts, Callback
<1>2. \A X \in Symbols : Symbol(X) \in Entr /\ SymbolOf(Symbol(X)) = <<X>> /\ ~ Starts(Symbol(X))
  BY DEF EntriesOf, SymbolOf, Starts, Symbol
<1> HIDE DEF C, Entr, body, m
<1>3. \A i \in 1 .. m : pieces[i] \in Seq(Entr)
  BY <1>0, <1>1, <1>2
<1>4. pieces \in Seq(Seq(Entr)) /\ Len(pieces) = m
  <2>1. \A i \in 1 .. m : <<C(i - 1), Symbol(body[i])>> \in Seq(Entr)
    BY <1>3
  <2> QED BY <2>1, <1>0
<1>5. s \in Seq(Entr) /\ base \in Seq(Entr) /\ rest \in Seq(Symbols)
  <2>1. s \in Seq(Entr)
    BY DEF Entr
  <2>2. C(m) \in Entr
    BY <1>0, <1>1
  <2>3. Pieces(s) \in Seq(Seq(Symbols)) /\ <<>> \in Seq(Symbols)
    BY PiecesInSeq
  <2>4. Onto(Pieces(s), <<>>) \in Seq(Symbols)
    BY <2>3, OntoInSeq
  <2> QED BY <2>1, <2>2, <2>4 DEF Left
<1>6. Left(base) = rest
  <2>1. Left(base) = SymbolOf(C(m)) \o rest
    BY <1>0, <1>1, LeftOfTop DEF Entr
  <2> HIDE DEF rest
  <2> QED BY <2>1, <1>0, <1>1, <1>5
<1>7. PICK steps : IsOnto(steps, pieces, base, Entr)
  <2> HIDE DEF pieces, base
  <2> QED BY <1>4, <1>5, OntoExists
<1>8. Pushed(p.head, body, s) = steps[m]
  <2>1. Onto(pieces, base) = steps[m]
    <3> HIDE DEF pieces, base
    <3> QED BY <1>4, <1>5, <1>7, OntoUnfolds
  <2> QED BY <2>1 DEF Pushed, C, m
<1> DEFINE Good(t, n) == /\ t \in Seq(Entr) /\ t # <<>> /\ t[1] = C(m - n)
                        /\ StartsOnTop(t)
                        /\ Left(t) = SubSeq(body, m - n + 1, m) \o rest
           T == {n \in Nat : n <= m => Good(steps[n], n)}
<1>9. 0 \in T
  <2>1. steps[0] = base
    BY <1>7 DEF IsOnto
  <2>2. SubSeq(body, m - 0 + 1, m) = <<>>
    BY <1>0
  <2>3. StartsOnTop(base)
    <3> SUFFICES ASSUME NEW i \in 2 .. Len(base) PROVE ~ Starts(base[i])
      BY DEF StartsOnTop
    <3>1. i - 1 \in 1 .. Len(s) /\ base[i] = s[i - 1]
      BY <1>5
    <3> QED BY <3>1
  <2>4. base # <<>> /\ base[1] = C(m - 0)
    BY <1>0, <1>5
  <2> HIDE DEF base, rest
  <2>5. <<>> \o rest = rest
    BY <1>5, ConcatEmptySeq
  <2>6. Good(steps[0], 0)
    BY <2>1, <2>2, <2>3, <2>4, <2>5, <1>5, <1>6
  <2> QED BY <2>6
<1>10. ASSUME NEW n \in Nat, n \in T PROVE n + 1 \in T
  <2> SUFFICES ASSUME n + 1 <= m PROVE Good(steps[n + 1], n + 1)
    <3> HIDE DEF Good
    <3> QED OBVIOUS
  <2> DEFINE t == steps[n]
             j == m - n
             X == body[j]
             lower == SubSeq(body, j + 1, m)
  <2>1. n \in 0 .. m - 1 /\ j \in 1 .. m /\ j - 1 \in 0 .. m /\ j \in 0 .. m /\ m - (n + 1) = j - 1 /\ j - 1 + 1 = j
    BY <1>0
  <2>2. Good(t, n)
    <3>1. n <= m
      BY <1>0
    <3> HIDE DEF Good
    <3> QED BY <1>10, <3>1
  <2>3. steps[n + 1] = <<C(j - 1), Symbol(X)>> \o t
    <3>1. steps[n + 1] = pieces[j] \o t
      <4> HIDE DEF pieces, base
      <4> QED BY <1>4, <1>7, <2>1 DEF IsOnto
    <3> QED BY <3>1, <2>1
  <2>4. X \in Symbols /\ C(j - 1) \in Entr /\ Symbol(X) \in Entr
    BY <1>0, <1>1, <1>2, <2>1
  <2>5. t \in Seq(Entr) /\ t # <<>> /\ t[1] = C(j) /\ StartsOnTop(t) /\ Left(t) = lower \o rest
    BY <2>2
  <2>6. lower \in Seq(Symbols)
    BY <1>0, <2>1, SubSeqProperties
  <2>7. SubSeq(body, j, m) = <<X>> \o lower
    BY <1>0, <2>1, SubSeqRecursiveFirst
  <2> DEFINE u == <<Symbol(X)>> \o t
  <2> HIDE DEF t, j, X, lower, rest
  <2>8. u \in Seq(Entr) /\ steps[n + 1] = <<C(j - 1)>> \o u
    BY <2>3, <2>4, <2>5
  <2>9. Left(u) = <<X>> \o (lower \o rest)
    <3>1. Left(u) = SymbolOf(Symbol(X)) \o Left(t)
      BY <2>4, <2>5, LeftOfTop DEF Entr
    <3> QED BY <3>1, <2>4, <2>5, <1>2
  <2>10. Left(steps[n + 1]) = Left(u)
    <3>1. Left(steps[n + 1]) = SymbolOf(C(j - 1)) \o Left(u)
      <4> HIDE DEF u
      <4> QED BY <2>4, <2>8, LeftOfTop DEF Entr
    <3>2. Left(u) \in Seq(Symbols)
      <4>1. <<X>> \in Seq(Symbols) /\ lower \o rest \in Seq(Symbols)
        BY <2>4, <2>6, <1>5
      <4>2. <<X>> \o (lower \o rest) \in Seq(Symbols)
        BY <4>1, ConcatProperties
      <4> QED BY <4>2, <2>9
    <3>3. SymbolOf(C(j - 1)) = <<>>
      BY <1>1, <2>1
    <3>4. <<>> \o Left(u) = Left(u)
      BY <3>2, ConcatEmptySeq
    <3> QED BY <3>1, <3>3, <3>4
  <2>11. <<X>> \o (lower \o rest) = (<<X>> \o lower) \o rest
    BY <2>4, <2>6, <1>5, ConcatAssociative
  <2>12. StartsOnTop(steps[n + 1])
    <3> SUFFICES ASSUME NEW i \in 2 .. Len(steps[n + 1]) PROVE ~ Starts(steps[n + 1][i])
      BY DEF StartsOnTop
    <3>1. CASE i = 2
      <4>1. steps[n + 1][2] = Symbol(X)
        BY <2>8, <2>5
      <4> QED BY <3>1, <4>1, <1>2, <2>4
    <3>2. CASE i = 3
      <4>1. steps[n + 1][3] = C(j)
        BY <2>8, <2>5, <3>2
      <4> QED BY <3>2, <4>1, <1>1, <2>1
    <3>3. CASE i # 2 /\ i # 3
      <4>1. i - 2 \in 2 .. Len(t) /\ steps[n + 1][i] = t[i - 2]
        <5>1. Len(u) = Len(t) + 1 /\ Len(t) \in Nat /\ \A k \in 1 .. Len(t) : u[k + 1] = t[k]
          BY <2>4, <2>5 DEF u
        <5> HIDE DEF u
        <5>2. Len(steps[n + 1]) = Len(u) + 1 /\ \A k \in 1 .. Len(u) : steps[n + 1][k + 1] = u[k]
          BY <2>8
        <5>3. i - 1 \in 1 .. Len(u) /\ (i - 1) + 1 = i /\ i - 2 \in 2 .. Len(t) /\ (i - 2) + 1 = i - 1
          BY <3>3, <5>1, <5>2
        <5>4. u[(i - 2) + 1] = t[i - 2]
          <6>1. i - 2 \in 1 .. Len(t)
            BY <5>1, <5>3
          <6> QED BY <5>1, <6>1
        <5>5. steps[n + 1][(i - 1) + 1] = u[i - 1]
          BY <5>2, <5>3
        <5> QED BY <5>3, <5>4, <5>5
      <4> QED BY <4>1, <2>5 DEF StartsOnTop
    <3> QED BY <3>1, <3>2, <3>3
  <2>13. steps[n + 1] \in Seq(Entr) /\ steps[n + 1] # <<>> /\ steps[n + 1][1] = C(j - 1)
    BY <2>8, <2>4
  <2> HIDE DEF u
  <2> QED BY <2>1, <2>7, <2>9, <2>10, <2>11, <2>12, <2>13
<1>11. Good(steps[m], m)
  <2>1. Nat \subseteq T
    <3> HIDE DEF T
    <3> QED BY <1>9, <1>10, InductionOnNat
  <2> QED BY <2>1, <1>0
<1>12. m - m = 0 /\ SubSeq(body, m - m + 1, m) = body
  BY <1>0, SubSeqFull DEF m
<1>13. steps[m] # <<>> /\ steps[m][1] = C(0) => Head(steps[m]) = C(0)
  OBVIOUS
<1> HIDE DEF rest
<1> QED BY <1>8, <1>11, <1>12, <1>13 DEF Entr, rest, C, body

-----------------------------------------------------------------------------
(* The open leaves of a tree.                                              *)

Numbers == Nat

\* The nonterminals of some leaves, by the leaves to the right of them.
OpenOf(leaves) == Onto(Children(leaves, 0), <<>>)

\* There is a child for each symbol.
LEMMA ChildrenInSeq ==
  ASSUME NEW u \in Seq(GrammarSymbol), NEW right \in Nat
  PROVE  Children(u, right) \in Seq(Seq(Numbers)) /\ Len(Children(u, right)) = Len(u)
<1>1. ASSUME NEW i \in 1 .. Len(u)
      PROVE  (IF u[i] \in NonTerminal THEN <<right + Len(u) - i>> ELSE <<>>) \in Seq(Numbers)
  <2>1. right + Len(u) - i \in Numbers
    BY DEF Numbers
  <2> QED BY <2>1
<1> QED BY <1>1 DEF Children

\* The children of a string are those of its two parts, the first with the second to their right.
LEMMA ChildrenConcatenate ==
  ASSUME NEW u \in Seq(GrammarSymbol), NEW v \in Seq(GrammarSymbol), NEW right \in Nat
  PROVE  Children(u \o v, right) = Children(u, right + Len(v)) \o Children(v, right)
<1> DEFINE a == Children(u, right + Len(v))
           b == Children(v, right)
           c == Children(u \o v, right)
<1>1. u \o v \in Seq(GrammarSymbol) /\ Len(u \o v) = Len(u) + Len(v) /\ right + Len(v) \in Nat
  OBVIOUS
<1>2. /\ a \in Seq(Seq(Numbers)) /\ b \in Seq(Seq(Numbers)) /\ c \in Seq(Seq(Numbers))
      /\ Len(a) = Len(u) /\ Len(b) = Len(v) /\ Len(c) = Len(u) + Len(v)
  BY <1>1, ChildrenInSeq
<1>3. ASSUME NEW i \in 1 .. Len(u) + Len(v)
      PROVE  c[i] = IF i <= Len(u) THEN a[i] ELSE b[i - Len(u)]
  <2>1. CASE i <= Len(u)
    <3>1. i \in 1 .. Len(u) /\ (u \o v)[i] = u[i] /\ right + (Len(u) + Len(v)) - i = (right + Len(v)) + Len(u) - i
      BY <2>1
    <3> QED BY <1>1, <2>1, <3>1 DEF Children
  <2>2. CASE ~ (i <= Len(u))
    <3>1. i - Len(u) \in 1 .. Len(v) /\ (u \o v)[i] = v[i - Len(u)]
          /\ right + (Len(u) + Len(v)) - i = right + Len(v) - (i - Len(u))
      BY <2>2
    <3> QED BY <1>1, <2>2, <3>1 DEF Children
  <2> QED BY <2>1, <2>2
<1> HIDE DEF a, b, c
<1>4. Len(a \o b) = Len(u) + Len(v) /\ a \o b \in Seq(Seq(Numbers))
      /\ \A i \in 1 .. Len(u) + Len(v) : (a \o b)[i] = IF i <= Len(u) THEN a[i] ELSE b[i - Len(u)]
  <2> DEFINE N == Seq(Numbers)
  <2>1. a \in Seq(N) /\ b \in Seq(N)
    BY <1>2
  <2> HIDE DEF N
  <2>2. /\ a \o b \in Seq(N) /\ Len(a \o b) = Len(a) + Len(b)
        /\ \A i \in 1 .. Len(a) + Len(b) : (a \o b)[i] = IF i <= Len(a) THEN a[i] ELSE b[i - Len(a)]
    BY <2>1, ConcatProperties
  <2> QED BY <2>2, <1>2 DEF N
<1>5. c = a \o b
  BY <1>2, <1>3, <1>4, SeqEqual
<1> QED BY <1>5 DEF a, b, c

\* The open leaves of a body that takes the place of a leaf are pushed on those to
\* the right of it, when there are terminals only to the left.
LEMMA OpenAround ==
  ASSUME NEW u \in Seq(Terminal), NEW body \in Seq(GrammarSymbol), NEW v \in Seq(GrammarSymbol)
  PROVE  /\ OpenOf(v) \in Seq(Numbers)
         /\ OpenOf(u \o (body \o v)) = Onto(Children(body, Len(v)), OpenOf(v))
<1> DEFINE w == body \o v
           none == <<>>
           cu == Children(u, 0 + Len(w))
           cb == Children(body, 0 + Len(v))
           cv == Children(v, 0)
<1>1. u \in Seq(GrammarSymbol) /\ w \in Seq(GrammarSymbol) /\ Len(w) \in Nat /\ Len(v) \in Nat /\ none \in Seq(Numbers)
      /\ 0 + Len(w) = Len(w) /\ 0 + Len(v) = Len(v)
  BY DEF GrammarSymbol
<1>2. cu \in Seq(Seq(Numbers)) /\ cb \in Seq(Seq(Numbers)) /\ cv \in Seq(Seq(Numbers)) /\ Len(cu) = Len(u)
  BY <1>1, ChildrenInSeq
<1>3. ASSUME NEW i \in 1 .. Len(cu) PROVE cu[i] = <<>>
  <2>1. u[i] \in Terminal
    BY <1>2
  <2>2. u[i] \notin NonTerminal
    BY <2>1, SymbolsAssumption
  <2> QED BY <1>2, <2>2 DEF Children
<1>4. Children(u \o w, 0) = cu \o Children(w, 0) /\ Children(w, 0) = cb \o cv
  <2> HIDE DEF w
  <2>1. Children(u \o w, 0) = cu \o Children(w, 0)
    <3> DEFINE zero == 0
    <3> zero \in Nat
      OBVIOUS
    <3> HIDE DEF zero
    <3>1. Children(u \o w, zero) = Children(u, zero + Len(w)) \o Children(w, zero)
      BY <1>1, ChildrenConcatenate
    <3> QED BY <3>1 DEF zero
  <2>2. Children(w, 0) = cb \o cv
    <3> DEFINE zero == 0
    <3> zero \in Nat
      OBVIOUS
    <3> HIDE DEF zero
    <3>1. Children(body \o v, zero) = Children(body, zero + Len(v)) \o Children(v, zero)
      BY <1>1, ChildrenConcatenate
    <3> QED BY <3>1 DEF zero, w
  <2> QED BY <2>1, <2>2
<1> HIDE DEF w, cu, cb, cv, none
<1>5. Onto(cv, none) \in Seq(Numbers)
  BY <1>1, <1>2, OntoInSeq
<1>6. Onto(cb \o cv, none) = Onto(cb, Onto(cv, none)) /\ Onto(cb \o cv, none) \in Seq(Numbers) /\ cb \o cv \in Seq(Seq(Numbers))
  <2>1. cb \o cv \in Seq(Seq(Numbers))
    BY <1>2
  <2> QED BY <2>1, <1>1, <1>2, OntoConcatenates, OntoInSeq
<1>7. Onto(cu \o (cb \o cv), none) = Onto(cb \o cv, none)
  <2> DEFINE q == cb \o cv
             rest == Onto(q, none)
  <2>1. q \in Seq(Seq(Numbers)) /\ rest \in Seq(Numbers) /\ AllEmpty(cu)
    BY <1>3, <1>6 DEF AllEmpty
  <2>2. Onto(cu \o q, none) = Onto(cu, rest)
    <3> HIDE DEF q
    <3> QED BY <1>1, <1>2, <2>1, OntoConcatenates
  <2>3. Onto(cu, rest) = rest
    <3> HIDE DEF rest
    <3> QED BY <1>2, <2>1, OntoNothing
  <2> QED BY <2>2, <2>3
<1>8. OpenOf(v) = Onto(cv, none) /\ OpenOf(u \o w) = Onto(Children(u \o w, 0), none)
  BY DEF OpenOf, cv, none
<1>9. cb = Children(body, Len(v))
  BY <1>1 DEF cb
<1> QED BY <1>4, <1>5, <1>6, <1>7, <1>8, <1>9 DEF w

\* With the leaf itself it is the first of them.
LEMMA OpenWithLeaf ==
  ASSUME NEW u \in Seq(Terminal), NEW A \in NonTerminal, NEW v \in Seq(GrammarSymbol)
  PROVE  OpenOf(u \o (<<A>> \o v)) = <<Len(v)>> \o OpenOf(v)
<1>1. <<A>> \in Seq(GrammarSymbol)
  BY DEF GrammarSymbol
<1>2. OpenOf(v) \in Seq(Numbers) /\ OpenOf(u \o (<<A>> \o v)) = Onto(Children(<<A>>, Len(v)), OpenOf(v))
  BY <1>1, OpenAround
<1> DEFINE first == Children(<<A>>, Len(v))
           x == <<Len(v)>>
           none == <<>>
           rest == OpenOf(v)
<1>3. Single(first, x)
  <2>1. Len(v) + 1 - 1 = Len(v)
    OBVIOUS
  <2> QED BY <2>1 DEF Single, Children
<1>4. x \in Seq(Numbers) /\ none \in Seq(Seq(Numbers)) /\ first \in Seq(Seq(Numbers)) /\ rest \in Seq(Numbers)
  <2>1. x \in Seq(Numbers)
    BY DEF Numbers
  <2>2. none \in Seq(Seq(Numbers))
    OBVIOUS
  <2>3. <<x>> \in Seq(Seq(Numbers))
    BY <2>1
  <2> HIDE DEF x, none, first, rest
  <2>4. first = <<x>>
    BY <1>3 DEF Single
  <2> QED BY <1>2, <2>1, <2>2, <2>3, <2>4 DEF rest
<1>5. first \o none = first
  BY <1>4, ConcatEmptySeq
<1>6. AllEmpty(none)
  BY DEF AllEmpty
<1> HIDE DEF first, x, none, rest
<1>7. Onto(first \o none, rest) = x \o Onto(none, rest) /\ Onto(none, rest) = rest
  BY <1>3, <1>4, <1>6, OntoOfFirst, OntoNothing
<1> QED BY <1>2, <1>5, <1>7 DEF first, x, rest

-----------------------------------------------------------------------------
(* What was read, and what is derived.                                     *)

\* The symbols read so far.
Read(w, k) == SubSeq(Append(w, EndMarker), 1, k - 1)

\* A string with an end marker, taken apart before the end.
LEMMA CutBeforeEnd ==
  ASSUME NEW s \in Seq(GrammarSymbol), NEW u \in Seq(Symbols), NEW m \in Seq(Symbols), m # <<>>,
         u \o m = Append(s, EndMarker)
  PROVE  LET v == SubSeq(m, 1, Len(m) - 1)
         IN  /\ u \in Seq(GrammarSymbol) /\ v \in Seq(GrammarSymbol)
             /\ s = u \o v /\ m = Append(v, EndMarker)
<1> DEFINE v == SubSeq(m, 1, Len(m) - 1)
           n == Len(m)
<1>1. n \in Nat /\ n >= 1 /\ Len(u) \in Nat /\ Len(s) \in Nat
  OBVIOUS
<1>2. /\ Len(u \o m) = Len(u) + n
      /\ \A i \in 1 .. Len(u) : (u \o m)[i] = u[i]
      /\ \A i \in 1 .. n : (u \o m)[Len(u) + i] = m[i]
  <2> DEFINE c == u \o m
  <2>1. Len(c) = Len(u) + n
        /\ \A i \in 1 .. Len(u) + n : c[i] = IF i <= Len(u) THEN u[i] ELSE m[i - Len(u)]
    BY ConcatProperties
  <2> HIDE DEF c
  <2>2. ASSUME NEW i \in 1 .. n PROVE c[Len(u) + i] = m[i]
    <3>1. Len(u) + i \in 1 .. Len(u) + n /\ ~ (Len(u) + i <= Len(u)) /\ (Len(u) + i) - Len(u) = i
      BY <1>1
    <3> QED BY <2>1, <3>1
  <2>3. ASSUME NEW i \in 1 .. Len(u) PROVE c[i] = u[i]
    <3>1. i \in 1 .. Len(u) + n
      BY <1>1
    <3> QED BY <2>1, <3>1
  <2> QED BY <2>1, <2>2, <2>3 DEF c
<1>3. /\ Len(Append(s, EndMarker)) = Len(s) + 1
      /\ \A i \in 1 .. Len(s) : Append(s, EndMarker)[i] = s[i]
      /\ Append(s, EndMarker)[Len(s) + 1] = EndMarker
  OBVIOUS
<1>4. Len(s) = Len(u) + (n - 1)
  BY <1>1, <1>2, <1>3
<1>5. \A i \in 1 .. Len(u) : u[i] = s[i]
  BY <1>1, <1>2, <1>3, <1>4
<1>6. \A i \in 1 .. n - 1 : m[i] = s[Len(u) + i]
  <2> SUFFICES ASSUME NEW i \in 1 .. n - 1 PROVE m[i] = s[Len(u) + i]
    OBVIOUS
  <2>1. Len(u) + i \in 1 .. Len(s) /\ i \in 1 .. n
    BY <1>1, <1>4
  <2> QED BY <2>1, <1>2, <1>3
<1>7. m[n] = EndMarker
  <2>1. n \in 1 .. n /\ Len(u) + n = Len(s) + 1
    BY <1>1, <1>4
  <2> QED BY <2>1, <1>2, <1>3
<1>8. u \in Seq(GrammarSymbol)
  <2>1. \A i \in 1 .. Len(u) : u[i] \in GrammarSymbol
    BY <1>1, <1>4, <1>5
  <2> QED BY <2>1
<1>9. /\ v \in Seq(GrammarSymbol) /\ Len(v) = n - 1 /\ \A i \in 1 .. n - 1 : v[i] = m[i]
  <2>1. \A i \in 1 .. n - 1 : m[i] \in GrammarSymbol
    <3> SUFFICES ASSUME NEW i \in 1 .. n - 1 PROVE m[i] \in GrammarSymbol
      OBVIOUS
    <3>1. Len(u) + i \in 1 .. Len(s)
      BY <1>1, <1>4
    <3>2. m[i] = s[Len(u) + i]
      BY <1>6
    <3>3. s[Len(u) + i] \in GrammarSymbol
      BY <3>1, ElementOfSeq
    <3> QED BY <3>2, <3>3
  <2>2. 1 \in Int /\ n - 1 \in Int /\ (n - 1) - 1 + 1 = n - 1 /\ \A i \in 1 .. n - 1 : 1 + i - 1 = i
    BY <1>1
  <2>3. v \in Seq(GrammarSymbol) /\ Len(v) = n - 1
    BY <2>1, <2>2, <1>1, SubSeqProperties
  <2>4. \A i \in 1 .. n - 1 : v[i] = m[i]
    BY <1>1
  <2> QED BY <2>3, <2>4
<1>10. s = u \o v
  <2>1. u \o v \in Seq(GrammarSymbol) /\ Len(u \o v) = Len(s)
    BY <1>1, <1>4, <1>8, <1>9
  <2>2. ASSUME NEW i \in 1 .. Len(s) PROVE (u \o v)[i] = s[i]
    <3>1. CASE i <= Len(u)
      BY <3>1, <1>1, <1>5, <1>8, <1>9
    <3>2. CASE ~ (i <= Len(u))
      <4>1. i - Len(u) \in 1 .. n - 1 /\ Len(u) + (i - Len(u)) = i
        BY <3>2, <1>1, <1>4
      <4>2. (u \o v)[i] = v[i - Len(u)]
        BY <3>2, <4>1, <1>1, <1>8, <1>9, <1>4
      <4> QED BY <4>1, <4>2, <1>6, <1>9
    <3> QED BY <3>1, <3>2
  <2> HIDE DEF v
  <2> QED BY <2>1, <2>2, SeqEqual
<1>11. m = Append(v, EndMarker)
  <2>1. Append(v, EndMarker) \in Seq(Symbols) /\ Len(Append(v, EndMarker)) = n
    BY <1>1, <1>9 DEF Symbols
  <2>2. ASSUME NEW i \in 1 .. n PROVE m[i] = Append(v, EndMarker)[i]
    <3>1. CASE i = n
      BY <3>1, <1>7, <1>9, <1>1
    <3>2. CASE i # n
      BY <3>2, <1>9, <1>1
    <3> QED BY <3>1, <3>2
  <2> HIDE DEF v
  <2> QED BY <2>1, <2>2, SeqEqual
<1> QED BY <1>8, <1>9, <1>10, <1>11

\* What was read is a part of the word, as long as the end marker is not among it.
LEMMA ReadInWord ==
  ASSUME NEW w \in Seq(Terminal), NEW k \in 1 .. Len(w) + 2
  PROVE  /\ Read(w, k) \in Seq(Symbols) /\ Len(Read(w, k)) = k - 1
         /\ k <= Len(w) + 1 => /\ Read(w, k) \in Seq(Terminal)
                               /\ Read(w, k + 1) = Append(Read(w, k), Append(w, EndMarker)[k])
         /\ k = Len(w) + 2 => Read(w, k) = Append(w, EndMarker)
         /\ Append(w, EndMarker) \in Seq(Symbols) /\ Len(Append(w, EndMarker)) = Len(w) + 1
<1> DEFINE all == Append(w, EndMarker)
<1>1. all \in Seq(Symbols) /\ Len(all) = Len(w) + 1 /\ \A i \in 1 .. Len(w) : all[i] = w[i]
  <2>1. w \in Seq(Symbols) /\ EndMarker \in Symbols
    BY DEF Symbols, GrammarSymbol
  <2> QED BY <2>1
<1> HIDE DEF all
<1>2. \A i \in 1 .. k - 1 : all[i] \in Symbols
  BY <1>1
<1>3. Read(w, k) \in Seq(Symbols) /\ Len(Read(w, k)) = k - 1
  BY <1>2, SubSeqProperties DEF Read, all
<1>4. ASSUME k <= Len(w) + 1 PROVE Read(w, k) \in Seq(Terminal)
  <2>1. \A i \in 1 .. k - 1 : all[i] \in Terminal
    BY <1>1, <1>4
  <2> QED BY <2>1, SubSeqProperties DEF Read, all
<1>5. ASSUME k <= Len(w) + 1 PROVE Read(w, k + 1) = Append(Read(w, k), all[k])
  <2>1. SubSeq(all, 1, k) = SubSeq(all, 1, k - 1) \o <<all[k]>>
    <3>1. 1 \in 1 .. Len(all) /\ k \in 1 .. Len(all)
      BY <1>1, <1>5
    <3> QED BY <1>1, <3>1, SubSeqRecursiveSecond
  <2>2. k + 1 - 1 = k /\ all[k] \in Symbols
    BY <1>1, <1>5
  <2>3. Append(Read(w, k), all[k]) = Read(w, k) \o <<all[k]>>
    BY <1>3, <2>2, AppendIsConcat
  <2>4. Read(w, k + 1) = SubSeq(all, 1, k)
    <3>1. Read(w, k + 1) = SubSeq(all, 1, (k + 1) - 1)
      BY DEF Read, all
    <3>2. (k + 1) - 1 = k
      OBVIOUS
    <3> QED BY <3>1, <3>2
  <2>5. Read(w, k) = SubSeq(all, 1, k - 1)
    BY DEF Read, all
  <2> QED BY <2>1, <2>3, <2>4, <2>5
<1>6. ASSUME k = Len(w) + 2 PROVE Read(w, k) = all
  <2>1. k - 1 = Len(all)
    BY <1>1, <1>6
  <2> QED BY <2>1, <1>1, SubSeqFull DEF Read, all
<1> QED BY <1>1, <1>3, <1>4, <1>5, <1>6 DEF all

\* The strings that the replacement of heads by bodies stays in.
Closed(F, productions) ==
  \A p \in productions : \A u, v \in Seq(GrammarSymbol) :
    u \o (<<p.head>> \o v) \in F => u \o (p.body \o v) \in F

\* The strings a grammar derives.
Forms(g) ==
  {f \in Seq(GrammarSymbol) :
     \A F \in SUBSET Seq(GrammarSymbol) : <<g.start>> \in F /\ Closed(F, g.productions) => f \in F}

\* The start symbol is a sentential form.
LEMMA FormsOfStart ==
  ASSUME NEW g, g.start \in NonTerminal
  PROVE  <<g.start>> \in Forms(g)
BY DEF Forms, GrammarSymbol

\* A production applied to a sentential form gives another one.
LEMMA FormsClosed ==
  ASSUME NEW g, NEW p \in g.productions, p.body \in Seq(GrammarSymbol),
         NEW u \in Seq(GrammarSymbol), NEW v \in Seq(GrammarSymbol), u \o (<<p.head>> \o v) \in Forms(g)
  PROVE  u \o (p.body \o v) \in Forms(g)
<1>1. u \o (p.body \o v) \in Seq(GrammarSymbol)
  BY ConcatProperties
<1>2. ASSUME NEW F \in SUBSET Seq(GrammarSymbol), <<g.start>> \in F, Closed(F, g.productions)
      PROVE  u \o (p.body \o v) \in F
  <2>1. u \o (<<p.head>> \o v) \in F
    BY <1>2 DEF Forms
  <2> QED BY <1>2, <2>1 DEF Closed
<1> QED BY <1>1, <1>2 DEF Forms

-----------------------------------------------------------------------------
(* The invariant.                                                          *)

\* The start of a production is what comes next.
Starting == stack # <<>> /\ Starts(Top)

\* The leaves to the left and to the right of the one that gets its children next.
\* What was read and what is left to match has them already.
AtStart(u, v) ==
  /\ frontier = u \o (<<Top[2]>> \o v)
  /\ Read(word, at) \o Left(stack) = Append(u \o (Top[3] \o v), EndMarker)

Reading ==
  phase # "idle" =>
    /\ answer = "none"
    /\ StartsOnTop(stack)
    /\ nodes = OpenOf(frontier)
    /\ frontier \in Forms(grammar)
    /\ Starting => \E u \in Seq(Terminal), v \in Seq(GrammarSymbol) : AtStart(u, v)
    /\ ~ Starting => Read(word, at) \o Left(stack) = Append(frontier, EndMarker)

\* A tree is given for a word that the grammar derives, and it is the tree of it.
TreeRight == answer = "tree" => frontier = word /\ word \in Forms(grammar)

IndInv == TypeOK /\ Reading /\ TreeRight

\* The types of a grammar's parts.
LEMMA GrammarTyped ==
  ASSUME grammar \in Grammars
  PROVE  /\ grammar.start \in NonTerminal
         /\ \A p \in grammar.productions : p \in Production /\ p.head \in NonTerminal /\ p.body \in Seq(GrammarSymbol)
BY GrammarsAssumption DEF IsGrammar, Heads, Production

\* What the stack may hold, by the productions.
LEMMA EntriesAreOf == Entries = EntriesOf(grammar.productions)
BY DEF Entries, EntriesOf, Symbols

\* The stack by its top.
LEMMA TopOfStack ==
  ASSUME stack \in Seq(Entries), stack # <<>>
  PROVE  /\ Top \in EntriesOf(grammar.productions)
         /\ Tail(stack) \in Seq(EntriesOf(grammar.productions))
         /\ Left(stack) = SymbolOf(Top) \o Left(Tail(stack))
         /\ Left(Tail(stack)) \in Seq(Symbols)
         /\ StartsOnTop(stack) => /\ \A i \in 1 .. Len(Tail(stack)) : ~ Starts(Tail(stack)[i])
                                  /\ StartsOnTop(Tail(stack))
                                  /\ Tail(stack) # <<>> => ~ Starts(Head(Tail(stack)))
<1> DEFINE E == EntriesOf(grammar.productions)
           t == Tail(stack)
<1>1. stack \in Seq(E)
  BY EntriesAreOf
<1> HIDE DEF E
<1>2. Top \in E /\ t \in Seq(E) /\ stack = <<Top>> \o t /\ Len(t) = Len(stack) - 1
      /\ \A i \in 1 .. Len(t) : t[i] = stack[i + 1]
  BY <1>1, HeadTailProperties DEF Top
<1>3. Left(stack) = SymbolOf(Top) \o Left(t)
  <2> DEFINE e == Top
  <2> HIDE DEF e, t
  <2>1. Left(<<e>> \o t) = SymbolOf(e) \o Left(t)
    BY <1>2, LeftOfTop DEF E, e
  <2> QED BY <2>1, <1>2 DEF e
<1>4. Left(t) \in Seq(Symbols)
  <2> HIDE DEF t
  <2>1. Pieces(t) \in Seq(Seq(Symbols)) /\ <<>> \in Seq(Symbols)
    BY <1>2, PiecesInSeq DEF E
  <2> QED BY <2>1, OntoInSeq DEF Left
<1>5. ASSUME StartsOnTop(stack) PROVE \A i \in 1 .. Len(t) : ~ Starts(t[i])
  <2> SUFFICES ASSUME NEW i \in 1 .. Len(t) PROVE ~ Starts(t[i])
    OBVIOUS
  <2>1. i + 1 \in 2 .. Len(stack) /\ t[i] = stack[i + 1]
    BY <1>1, <1>2
  <2> QED BY <2>1, <1>5 DEF StartsOnTop
<1>6. ASSUME StartsOnTop(stack) PROVE StartsOnTop(t) /\ (t # <<>> => ~ Starts(Head(t)))
  <2> HIDE DEF t
  <2>1. \A i \in 2 .. Len(t) : i \in 1 .. Len(t)
    BY <1>2
  <2>2. t # <<>> => 1 \in 1 .. Len(t) /\ Head(t) = t[1]
    BY <1>2
  <2> QED BY <1>5, <1>6, <2>1, <2>2 DEF StartsOnTop
<1> QED BY <1>2, <1>3, <1>4, <1>5, <1>6 DEF E

-----------------------------------------------------------------------------
(* The steps.                                                              *)

\* What a string of symbols starts with are terminals.
LEMMA FirstTerminalsTyped ==
  ASSUME firsts \in [NonTerminal -> SUBSET Terminal], nullable \subseteq NonTerminal,
         NEW body \in Seq(GrammarSymbol)
  PROVE  FirstTerminals(body) \subseteq Terminal
<1>1. ASSUME NEW i \in Leading(body) PROVE FirstOf(body[i]) \subseteq Terminal
  <2>1. body[i] \in GrammarSymbol
    BY DEF Leading
  <2> QED BY <2>1 DEF FirstOf, GrammarSymbol
<1> QED BY <1>1 DEF FirstTerminals

\* The entries of a production have its head.
LEMMA KeysTyped ==
  ASSUME TypeOK, NEW p \in grammar.productions
  PROVE  FollowKeys(p) \cup FirstKeys(p) \subseteq Lookahead \X {p.head}
<1>1. p.head \in NonTerminal /\ p.body \in Seq(GrammarSymbol)
  BY GrammarTyped DEF TypeOK
<1>2. FirstTerminals(p.body) \subseteq Terminal
  BY <1>1, FirstTerminalsTyped DEF TypeOK
<1>3. follows[p.head] \subseteq Lookahead
  BY <1>1 DEF TypeOK
<1> QED BY <1>2, <1>3 DEF FollowKeys, FirstKeys, Lookahead

\* A table with entries for a production added.
LEMMA WithEntriesTyped ==
  ASSUME TypeOK, NEW p \in grammar.productions, NEW K, K \subseteq FollowKeys(p) \cup FirstKeys(p),
         table' = WithEntries(K, p)
  PROVE  /\ DOMAIN table' \subseteq Lookahead \X NonTerminal
         /\ \A k \in DOMAIN table' : [head |-> k[2], body |-> table'[k]] \in grammar.productions
<1>1. p \in Production /\ p.head \in NonTerminal
  BY GrammarTyped DEF TypeOK
<1>2. K \subseteq Lookahead \X {p.head}
  BY KeysTyped
<1>3. DOMAIN table' = DOMAIN table \cup K
  BY DEF WithEntries
<1>4. DOMAIN table' \subseteq Lookahead \X NonTerminal
  BY <1>1, <1>2, <1>3 DEF TypeOK
<1>5. ASSUME NEW k \in DOMAIN table' PROVE [head |-> k[2], body |-> table'[k]] \in grammar.productions
  <2>1. CASE k \in K
    <3>1. k[2] = p.head /\ table'[k] = p.body
      BY <1>2, <1>3, <2>1 DEF WithEntries
    <3>2. [head |-> p.head, body |-> p.body] = p
      BY <1>1 DEF Production
    <3> QED BY <3>1, <3>2
  <2>2. CASE k \notin K
    <3>1. table'[k] = table[k] /\ k \in DOMAIN table
      BY <1>3, <2>2 DEF WithEntries
    <3> QED BY <3>1 DEF TypeOK
  <2> QED BY <2>1, <2>2
<1> QED BY <1>4, <1>5

\* The steps before the parse touch neither the stacks nor the tree.
LEMMA ComputingKeeps ==
  ASSUME IndInv, Computing
  PROVE  IndInv'
<1> USE DEF IndInv
<1>0. /\ UNCHANGED <<grammar, threw, word, at, stack, tree, answer, calls>> \/ phase' = "idle"
      /\ UNCHANGED <<grammar, word, at, stack, tree, calls>>
      /\ phase # "idle"
  BY DEF Computing, EndFirstPass, EndFollowPass, TableDone, VisitFirst, AddRow, Conflict, VisitFollow
<1>1. \A p \in grammar.productions : p.head \in NonTerminal /\ p.body \in Seq(GrammarSymbol)
  BY GrammarTyped DEF TypeOK
<1>2. grammar.start \in NonTerminal
  BY GrammarTyped DEF TypeOK
<1>3. ASSUME NEW x \in Occurrences
      PROVE  /\ x[1] \in grammar.productions /\ x[2] \in 1 .. Len(x[1].body) /\ x[1].body[x[2]] \in NonTerminal
             /\ SubSeq(x[1].body, x[2] + 1, Len(x[1].body)) \in Seq(GrammarSymbol)
  <2>1. x[1] \in grammar.productions /\ x[2] \in DOMAIN x[1].body /\ x[1].body[x[2]] \in NonTerminal
    BY DEF Occurrences
  <2>2. x[1].body \in Seq(GrammarSymbol)
    BY <1>1, <2>1
  <2>3. x[2] \in 1 .. Len(x[1].body)
    BY <2>1, <2>2
  <2>4. \A i \in x[2] + 1 .. Len(x[1].body) : x[1].body[i] \in GrammarSymbol
    BY <2>2, <2>3
  <2> QED BY <2>1, <2>2, <2>3, <2>4, SubSeqProperties
<1>4. TypeOK'
  <2>1. CASE EndFirstPass
    BY <2>1, <1>2 DEF EndFirstPass, TypeOK, Occurrences, Entries, tree, Lookahead
  <2>2. CASE EndFollowPass
    BY <2>2 DEF EndFollowPass, TypeOK, Occurrences, Entries, tree, sets
  <2>3. CASE TableDone
    BY <2>3 DEF TableDone, TypeOK, Occurrences, Entries, tree, sets
  <2>4. ASSUME NEW p \in grammar.productions, VisitFirst(p) PROVE TypeOK'
    <3>1. FirstTerminals(p.body) \subseteq Terminal /\ p.head \in NonTerminal
      BY <1>1, FirstTerminalsTyped DEF TypeOK
    <3>2. firsts' \in [NonTerminal -> SUBSET Terminal] /\ nullable' \subseteq NonTerminal
      BY <2>4, <3>1 DEF VisitFirst, TypeOK
    <3> QED BY <2>4, <3>2 DEF VisitFirst, TypeOK, Occurrences, Entries, tree
  <2>5. ASSUME NEW p \in grammar.productions, AddRow(p) PROVE TypeOK'
    <3>1. /\ DOMAIN table' \subseteq Lookahead \X NonTerminal
          /\ \A k \in DOMAIN table' : [head |-> k[2], body |-> table'[k]] \in grammar.productions
      <4> DEFINE K == FollowKeys(p) \cup FirstKeys(p)
      <4>1. table' = WithEntries(K, p) /\ K \subseteq FollowKeys(p) \cup FirstKeys(p)
        BY <2>5 DEF AddRow
      <4> HIDE DEF K
      <4> QED BY <4>1, WithEntriesTyped
    <3> QED BY <2>5, <3>1 DEF AddRow, TypeOK, Occurrences, Entries, tree, sets
  <2>6. ASSUME NEW p \in grammar.productions, Conflict(p) PROVE TypeOK'
    <3>1. PICK K : K \subseteq FollowKeys(p) \cup FirstKeys(p) /\ table' = WithEntries(K, p)
      <4>1. CASE FollowKeys(p) \cap DOMAIN table # {}
        <5>1. PICK K \in SUBSET (FollowKeys(p) \ DOMAIN table) : table' = WithEntries(K, p)
          BY <2>6, <4>1 DEF Conflict
        <5> QED BY <5>1
      <4>2. CASE ~ (FollowKeys(p) \cap DOMAIN table # {})
        <5>1. PICK K \in SUBSET (FirstKeys(p) \ DOMAIN table) : table' = WithEntries(FollowKeys(p) \cup K, p)
          BY <2>6, <4>2 DEF Conflict
        <5> QED BY <5>1
      <4> QED BY <4>1, <4>2
    <3>2. /\ DOMAIN table' \subseteq Lookahead \X NonTerminal
          /\ \A k \in DOMAIN table' : [head |-> k[2], body |-> table'[k]] \in grammar.productions
      BY <3>1, WithEntriesTyped
    <3>3. UNCHANGED <<grammar, sets, added, word, at, stack, tree, calls>> /\ phase' = "idle" /\ threw' = TRUE
          /\ answer' = "throw"
      BY <2>6 DEF Conflict
    <3> QED BY <3>2, <3>3 DEF TypeOK, Occurrences, Entries, tree, sets
  <2>7. ASSUME NEW x \in Occurrences, VisitFollow(x) PROVE TypeOK'
    <3> DEFINE p == x[1]
               rest == SubSeq(p.body, x[2] + 1, Len(p.body))
               A == p.body[x[2]]
    <3>1. FirstTerminals(rest) \subseteq Terminal /\ A \in NonTerminal /\ p.head \in NonTerminal
      BY <1>1, <1>3, FirstTerminalsTyped DEF TypeOK
    <3>2. phase = "follow" /\ phase' = "follow"
          /\ pending' = pending \ {x} /\ added' = (added \/ follows' # follows)
          /\ follows' = [follows EXCEPT ![A] =
                            @ \cup FirstTerminals(rest) \cup IF HasEpsilon(rest) THEN follows[p.head] ELSE {}]
          /\ UNCHANGED <<grammar, firsts, nullable, table, threw, word, at, stack, tree, answer, calls>>
      BY <2>7 DEF VisitFollow
    <3> HIDE DEF p, rest, A
    <3>3. follows' \in [NonTerminal -> SUBSET Lookahead]
      BY <3>1, <3>2 DEF TypeOK, Lookahead
    <3> QED BY <3>2, <3>3 DEF TypeOK, Occurrences, Entries, tree
  <2> QED BY <2>1, <2>2, <2>3, <2>4, <2>5, <2>6, <2>7 DEF Computing
<1>5. Reading'
  BY <1>0 DEF Reading, tree, StartsOnTop, Starts, OpenOf, Forms, Closed, Starting, AtStart, Read, Left, Pieces,
              SymbolOf, Top, Children
<1>6. TreeRight'
  <2>1. answer' = answer \/ answer' = "throw"
    BY DEF Computing, EndFirstPass, EndFollowPass, TableDone, VisitFirst, AddRow, Conflict, VisitFollow
  <2> QED BY <1>0, <2>1 DEF TreeRight, tree, Forms, Closed
<1> QED BY <1>4, <1>5, <1>6

\* Two strings of one symbol make one of two.
LEMMA TwoSymbols ==
  ASSUME NEW a, NEW b
  PROVE  <<a>> \o <<b>> = <<a, b>>
<1> DEFINE T == {a, b}
           x == <<a>>
           y == <<b>>
<1>1. x \in Seq(T) /\ y \in Seq(T) /\ Len(x) = 1 /\ Len(y) = 1 /\ x[1] = a /\ y[1] = b /\ <<a, b>> \in Seq(T)
  OBVIOUS
<1> HIDE DEF x, y
<1>2. x \o y \in Seq(T) /\ Len(x \o y) = 2 /\ (x \o y)[1] = a /\ (x \o y)[2] = b
  <2> HIDE DEF T
  <2>1. /\ x \o y \in Seq(T) /\ Len(x \o y) = Len(x) + Len(y)
        /\ \A i \in 1 .. Len(x) + Len(y) : (x \o y)[i] = IF i <= Len(x) THEN x[i] ELSE y[i - Len(x)]
    BY <1>1, ConcatProperties
  <2> QED BY <1>1, <2>1
<1>3. Len(<<a, b>>) = 2 /\ \A i \in 1 .. 2 : (x \o y)[i] = <<a, b>>[i]
  BY <1>2
<1>4. x \o y = <<a, b>>
  <2> DEFINE t == <<a, b>>
             c == x \o y
  <2>1. c \in Seq(T) /\ t \in Seq(T) /\ Len(c) = Len(t) /\ \A i \in 1 .. Len(c) : c[i] = t[i]
    BY <1>1, <1>2, <1>3
  <2> HIDE DEF t, c, T
  <2>2. c = t
    BY <2>1, SeqEqual
  <2> QED BY <2>2 DEF c, t
<1> QED BY <1>4 DEF x, y

\* What the stack of parse is set up with.
LEMMA LeftOfStart ==
  ASSUME NEW S \in NonTerminal
  PROVE  Left(<<Symbol(S), Symbol(EndMarker)>>) = <<S, EndMarker>>
<1> DEFINE E == EntriesOf(grammar.productions)
           none == <<>>
           a == Symbol(S)
           b == Symbol(EndMarker)
           t == <<b>>
<1>0. a \in E /\ b \in E
  BY DEF EntriesOf, Symbols, GrammarSymbol
<1>1. SymbolOf(a) = <<S>> /\ SymbolOf(b) = <<EndMarker>>
  BY DEF Symbol, SymbolOf
<1>2. <<a, b>> = <<a>> \o t
  <2> HIDE DEF a, b
  <2> QED BY TwoSymbols
<1>3. t = t \o none /\ <<EndMarker>> \o none = <<EndMarker>>
  OBVIOUS
<1>4. Left(none) = none
  <2>1. Pieces(none) \in Seq(Seq(Symbols)) /\ AllEmpty(Pieces(none)) /\ none \in Seq(Symbols)
    BY DEF Pieces, AllEmpty
  <2> HIDE DEF none
  <2>2. Onto(Pieces(none), none) = none
    BY <2>1, OntoNothing
  <2> QED BY <2>2 DEF Left, none
<1>5. t \in Seq(E) /\ none \in Seq(E)
  <2> HIDE DEF E, a, b
  <2> QED BY <1>0
<1> HIDE DEF a, b, none, E
<1>6. Left(<<b>> \o none) = SymbolOf(b) \o Left(none)
  BY <1>0, <1>5, LeftOfTop DEF E
<1>7. Left(t) = <<EndMarker>>
  BY <1>1, <1>3, <1>4, <1>6
<1> HIDE DEF t
<1>8. Left(<<a>> \o t) = SymbolOf(a) \o Left(t)
  BY <1>0, <1>5, LeftOfTop DEF E
<1>9. <<S>> \o <<EndMarker>> = <<S, EndMarker>>
  BY TwoSymbols
<1> QED BY <1>1, <1>2, <1>7, <1>8, <1>9 DEF a, b

\* A call puts the start symbol on both stacks.
LEMMA CallKeeps ==
  ASSUME IndInv, NEW w \in Words, Call(w)
  PROVE  IndInv'
<1> DEFINE S == grammar.start
           E == EntriesOf(grammar.productions)
<1>1. grammar \in Grammars /\ S \in NonTerminal /\ w \in Seq(Terminal) /\ S \in Symbols /\ EndMarker \in Symbols
      /\ S \in GrammarSymbol
  BY GrammarTyped, WordsAssumption DEF IndInv, TypeOK, Symbols, GrammarSymbol
<1>2. /\ stack' = <<Symbol(S), Symbol(EndMarker)>> /\ nodes' = <<0>> /\ frontier' = <<S>> /\ at' = 1
      /\ word' = w /\ answer' = "none" /\ calls' = calls + 1
      /\ UNCHANGED <<grammar, follows, table, added, threw>>
      /\ \/ phase' = "first" /\ pending' = grammar.productions /\ StartSets
         \/ phase' = "parse" /\ pending' = {} /\ UNCHANGED <<firsts, nullable>>
  BY DEF Call, StartStacks
<1>3. firsts' \in [NonTerminal -> SUBSET Terminal] /\ nullable' \subseteq NonTerminal
  BY <1>2 DEF StartSets, IndInv, TypeOK
<1>4. Symbol(S) \in E /\ Symbol(EndMarker) \in E
  BY <1>1 DEF EntriesOf
<1>5. TypeOK'
  <2>1. stack' \in Seq(Entries)'
    <3>1. Entries' = E
      BY <1>2 DEF Entries, EntriesOf, Symbols
    <3> QED BY <1>2, <1>4, <3>1
  <2>2. frontier' \in Seq(GrammarSymbol) /\ nodes' \in Seq(Nat) /\ at' \in 1 .. Len(w) + 2
    BY <1>1, <1>2
  <2>3. phase' \in {"first", "parse"} /\ (phase' = "first" => pending' = grammar.productions)
    BY <1>2
  <2> HIDE DEF E, S
  <2> QED BY <1>1, <1>2, <1>3, <2>1, <2>2, <2>3 DEF IndInv, TypeOK
<1>6. Reading'
  <2> DEFINE none == <<>>
  <2>1. StartsOnTop(stack') /\ ~ Starts(Head(stack'))
    BY <1>2 DEF StartsOnTop, Starts, Symbol
  <2>2. nodes' = OpenOf(frontier')
    <3>1. none \in Seq(Terminal) /\ none \in Seq(GrammarSymbol) /\ <<S>> \in Seq(GrammarSymbol)
      BY <1>1
    <3>2. OpenOf(none \o (<<S>> \o none)) = <<Len(none)>> \o OpenOf(none)
      <4> HIDE DEF none, S
      <4> QED BY <3>1, <1>1, OpenWithLeaf
    <3>3. none \o (<<S>> \o none) = <<S>>
      OBVIOUS
    <3>4. OpenOf(none) = none
      <4>1. Children(none, 0) \in Seq(Seq(Numbers)) /\ AllEmpty(Children(none, 0)) /\ none \in Seq(Numbers)
        BY DEF Children, AllEmpty
      <4> DEFINE c == Children(none, 0)
      <4> HIDE DEF c
      <4>2. Onto(c, none) = none
        <5> HIDE DEF none
        <5> QED BY <4>1, OntoNothing DEF c
      <4> QED BY <4>2 DEF OpenOf, c
    <3>5. <<Len(none)>> \o none = <<0>>
      OBVIOUS
    <3> HIDE DEF none, S
    <3> QED BY <3>2, <3>3, <3>4, <3>5, <1>2
  <2>3. frontier' \in Forms(grammar)
    BY <1>1, <1>2, FormsOfStart
  <2>4. Left(stack') = <<S, EndMarker>>
    BY <1>1, <1>2, LeftOfStart
  <2>5. Read(w, 1) = none
    BY SubSeqEmpty DEF Read
  <2>6. Read(word', at') \o Left(stack') = Append(frontier', EndMarker)
    <3>1. none \o <<S, EndMarker>> = Append(<<S>>, EndMarker)
      OBVIOUS
    <3> HIDE DEF none
    <3> QED BY <1>2, <2>4, <2>5, <3>1
  <2>7. ~ Starting'
    BY <2>1 DEF Starting, Top
  <2>8. grammar' = grammar /\ answer' = "none"
    BY <1>2
  <2> HIDE DEF none, E, S
  <2> QED BY <2>1, <2>2, <2>3, <2>6, <2>7, <2>8 DEF Reading
<1>7. TreeRight'
  BY <1>2 DEF TreeRight
<1> QED BY <1>5, <1>6, <1>7 DEF IndInv

\* The callback for the start of a production gives its leaf the children, and no
\* other callback does anything.
LEMMA RunCallbackKeeps ==
  ASSUME IndInv, RunCallback
  PROVE  IndInv'
<1> DEFINE E == EntriesOf(grammar.productions)
           body == Top[3]
           A == Top[2]
<1>1. /\ TypeOK /\ Reading /\ phase = "parse" /\ stack # <<>> /\ stack \in Seq(Entries)
      /\ Top[1] = "callback" /\ stack' = Tail(stack) /\ UNCHANGED <<parsing, phase, at, answer>>
      /\ Top[4] # 0 => UNCHANGED tree
      /\ Top[4] = 0 =>
           /\ frontier' = SubSeq(frontier, 1, (Len(frontier) - Head(nodes)) - 1) \o body
                            \o SubSeq(frontier, (Len(frontier) - Head(nodes)) + 1, Len(frontier))
           /\ nodes' = Onto(Children(body, Head(nodes)), Tail(nodes))
  BY DEF RunCallback, IndInv, TypeOK
<1>2. /\ Top \in E /\ Tail(stack) \in Seq(E)
      /\ Left(stack) = SymbolOf(Top) \o Left(Tail(stack)) /\ Left(Tail(stack)) \in Seq(Symbols)
      /\ StartsOnTop(Tail(stack))
      /\ Tail(stack) # <<>> => ~ Starts(Head(Tail(stack)))
  BY <1>1, TopOfStack DEF Reading
<1>3. PICK p \in grammar.productions : A = p.head /\ body = p.body
  <2>1. ~ \E X \in Symbols : Top = Symbol(X)
    BY <1>1 DEF Symbol
  <2>2. PICK p \in grammar.productions : \E pos \in 0 .. Len(p.body) : Top = Callback(p.head, p.body, pos)
    BY <1>2, <2>1 DEF EntriesOf
  <2> QED BY <2>2 DEF Callback
<1>4. A \in NonTerminal /\ body \in Seq(GrammarSymbol) /\ A \in GrammarSymbol
  BY <1>1, <1>3, GrammarTyped DEF TypeOK, GrammarSymbol
<1>5. Left(stack) = Left(stack')
  <2>1. SymbolOf(Top) = <<>>
    BY <1>1 DEF SymbolOf
  <2>2. <<>> \o Left(Tail(stack)) = Left(Tail(stack))
    BY <1>2, ConcatEmptySeq
  <2> QED BY <1>1, <1>2, <2>1, <2>2
<1>6. ~ Starting' /\ StartsOnTop(stack') /\ stack' \in Seq(Entries)'
  <2>1. Entries' = E
    BY <1>1 DEF parsing, Entries, EntriesOf, Symbols
  <2> HIDE DEF E
  <2> QED BY <1>1, <1>2, <2>1 DEF Starting, Top
<1>7. /\ frontier' \in Seq(GrammarSymbol) /\ nodes' \in Seq(Nat) /\ nodes' = OpenOf(frontier')
      /\ frontier' \in Forms(grammar)
      /\ Read(word, at) \o Left(stack) = Append(frontier', EndMarker)
  <2>1. CASE Top[4] # 0
    <3>1. ~ Starting
      BY <2>1 DEF Starting, Starts
    <3> QED BY <1>1, <2>1, <3>1 DEF Reading, tree, TypeOK
  <2>2. CASE Top[4] = 0
    <3>1. Starting
      BY <1>1, <2>2 DEF Starting, Starts
    <3>2. PICK u \in Seq(Terminal), v \in Seq(GrammarSymbol) : AtStart(u, v)
      BY <1>1, <3>1 DEF Reading
    <3>3. frontier = u \o (<<A>> \o v) /\ Read(word, at) \o Left(stack) = Append(u \o (body \o v), EndMarker)
      BY <3>2 DEF AtStart
    <3>4. nodes = <<Len(v)>> \o OpenOf(v) /\ OpenOf(v) \in Seq(Numbers)
      <4>1. OpenOf(u \o (<<A>> \o v)) = <<Len(v)>> \o OpenOf(v)
        BY <1>4, OpenWithLeaf
      <4>2. OpenOf(v) \in Seq(Numbers)
        BY <1>4, OpenAround
      <4> QED BY <1>1, <3>3, <4>1, <4>2 DEF Reading
    <3>5. Head(nodes) = Len(v) /\ Tail(nodes) = OpenOf(v)
      <4>1. <<Len(v)>> \in Seq(Numbers)
        BY DEF Numbers
      <4> QED BY <3>4, <4>1
    <3>6. u \in Seq(GrammarSymbol) /\ Len(u) \in Nat /\ Len(v) \in Nat
      BY DEF GrammarSymbol
    <3>7. Len(frontier) = Len(u) + 1 + Len(v) /\ frontier \in Seq(GrammarSymbol)
      BY <3>3, <3>6, <1>4
    <3>8. SubSeq(frontier, 1, (Len(frontier) - Head(nodes)) - 1) = u
      <4>1. (Len(frontier) - Head(nodes)) - 1 = Len(u)
        BY <3>5, <3>6, <3>7
      <4> DEFINE w == <<A>> \o v
      <4>2. w \in Seq(GrammarSymbol) /\ Len(w) = 1 + Len(v)
        BY <1>4
      <4>3. frontier = u \o w
        BY <3>3
      <4> HIDE DEF w
      <4>4. SubSeq(frontier, 1, Len(u)) = u
        <5>1. \A i \in 1 .. Len(u) : (u \o w)[i] = u[i]
          BY <3>6, <4>2
        <5>2. \A i \in 1 .. Len(u) : frontier[i] \in GrammarSymbol
          BY <3>6, <3>7
        <5>3. /\ SubSeq(frontier, 1, Len(u)) \in Seq(GrammarSymbol) /\ Len(SubSeq(frontier, 1, Len(u))) = Len(u)
              /\ \A i \in 1 .. Len(u) : SubSeq(frontier, 1, Len(u))[i] = frontier[i]
          BY <3>6, <5>2, SubSeqProperties
        <5> QED BY <3>6, <4>3, <5>1, <5>3, SeqEqual
      <4> QED BY <4>1, <4>4
    <3>9. SubSeq(frontier, (Len(frontier) - Head(nodes)) + 1, Len(frontier)) = v
      <4>1. (Len(frontier) - Head(nodes)) + 1 = Len(u) + 2
        BY <3>5, <3>6, <3>7
      <4> DEFINE c == SubSeq(frontier, Len(u) + 2, Len(frontier))
      <4>2. \A i \in 1 .. Len(v) : frontier[Len(u) + 1 + i] = v[i]
        <5> SUFFICES ASSUME NEW i \in 1 .. Len(v) PROVE frontier[Len(u) + 1 + i] = v[i]
          OBVIOUS
        <5> DEFINE w == <<A>> \o v
        <5>1. w \in Seq(GrammarSymbol) /\ Len(w) = 1 + Len(v) /\ w[1 + i] = v[i]
          BY <1>4
        <5> HIDE DEF w
        <5>2. (u \o w)[Len(u) + (1 + i)] = w[1 + i]
          BY <3>6, <5>1
        <5>3. Len(u) + (1 + i) = Len(u) + 1 + i
          BY <3>6
        <5> QED BY <3>3, <5>1, <5>2, <5>3 DEF w
      <4>3. \A i \in Len(u) + 2 .. Len(frontier) : frontier[i] \in GrammarSymbol
        BY <3>6, <3>7
      <4>4. /\ c \in Seq(GrammarSymbol) /\ Len(c) = Len(v)
            /\ \A i \in 1 .. Len(v) : c[i] = frontier[Len(u) + 1 + i]
        <5>1. /\ c \in Seq(GrammarSymbol)
              /\ Len(c) = IF Len(u) + 2 <= Len(frontier) THEN Len(frontier) - (Len(u) + 2) + 1 ELSE 0
              /\ \A i \in 1 .. Len(frontier) - (Len(u) + 2) + 1 : c[i] = frontier[Len(u) + 2 + i - 1]
          BY <3>6, <3>7, <4>3, SubSeqProperties
        <5>2. Len(frontier) - (Len(u) + 2) + 1 = Len(v) /\ \A i \in 1 .. Len(v) : Len(u) + 2 + i - 1 = Len(u) + 1 + i
          BY <3>6, <3>7
        <5>3. Len(c) = Len(v)
          BY <3>6, <3>7, <5>1
        <5> HIDE DEF c
        <5> QED BY <5>1, <5>2, <5>3
      <4> HIDE DEF c
      <4>5. c = v
        BY <4>2, <4>4, SeqEqual
      <4> QED BY <4>1, <4>5 DEF c
    <3>10. frontier' = u \o (body \o v)
      <4>1. frontier' = (u \o body) \o v
        BY <1>1, <2>2, <3>8, <3>9
      <4> HIDE DEF body
      <4>2. (u \o body) \o v = u \o (body \o v)
        BY <3>6, <1>4, ConcatAssociative
      <4> QED BY <4>1, <4>2
    <3>11. frontier' \in Forms(grammar)
      BY <1>1, <1>3, <1>4, <3>3, <3>6, <3>10, FormsClosed DEF Reading
    <3>12. nodes' = OpenOf(frontier')
      <4>1. nodes' = Onto(Children(body, Len(v)), OpenOf(v))
        BY <1>1, <2>2, <3>5
      <4>2. OpenOf(u \o (body \o v)) = Onto(Children(body, Len(v)), OpenOf(v))
        BY <1>4, OpenAround
      <4> QED BY <3>10, <4>1, <4>2
    <3>13. frontier' \in Seq(GrammarSymbol)
      BY <3>11 DEF Forms
    <3>14. nodes' \in Seq(Nat)
      <4> DEFINE c == Children(frontier', 0)
                 none == <<>>
      <4>1. c \in Seq(Seq(Numbers)) /\ none \in Seq(Numbers)
        BY <3>13, ChildrenInSeq
      <4> HIDE DEF c, none
      <4>2. Onto(c, none) \in Seq(Numbers)
        BY <4>1, OntoInSeq
      <4> QED BY <3>12, <4>2 DEF c, none, OpenOf, Numbers
    <3> QED BY <3>3, <3>10, <3>11, <3>12, <3>13, <3>14
  <2> QED BY <2>1, <2>2
<1>8. TypeOK'
  BY <1>1, <1>6, <1>7 DEF TypeOK, parsing, sets
<1>9. Reading'
  <2>1. grammar' = grammar /\ word' = word /\ at' = at /\ answer' = "none"
    BY <1>1 DEF Reading, parsing
  <2>2. Read(word', at') \o Left(stack') = Append(frontier', EndMarker)
    BY <1>5, <1>7, <2>1
  <2> QED BY <1>6, <1>7, <2>1, <2>2 DEF Reading
<1>10. TreeRight'
  BY <1>1 DEF Reading, TreeRight
<1> QED BY <1>8, <1>9, <1>10 DEF IndInv

\* A symbol that is on top, and what was read, when no production starts.
LEMMA OnTop ==
  ASSUME IndInv, NEW S, OnSymbol(S)
  PROVE  /\ Top[2] \in S \cap Symbols
         /\ Left(stack) = <<Top[2]>> \o Left(Tail(stack))
         /\ Read(word, at) \o Left(stack) = Append(frontier, EndMarker)
         /\ at <= Len(word) + 1
         /\ Read(word, at) \in Seq(Terminal)
         /\ \E v \in Seq(GrammarSymbol) : frontier = Read(word, at) \o v /\ Left(stack) = Append(v, EndMarker)
<1> DEFINE X == Top[2]
           rest == Left(Tail(stack))
           read == Read(word, at)
<1>1. /\ phase = "parse" /\ stack # <<>> /\ Top[1] = "symbol" /\ X \in S /\ stack \in Seq(Entries)
      /\ frontier \in Seq(GrammarSymbol) /\ word \in Seq(Terminal) /\ at \in 1 .. Len(word) + 2 /\ Reading
  BY DEF OnSymbol, IndInv, TypeOK
<1>2. /\ Top \in EntriesOf(grammar.productions)
      /\ Left(stack) = SymbolOf(Top) \o rest /\ rest \in Seq(Symbols)
  BY <1>1, TopOfStack
<1>3. X \in Symbols
  <2>1. PICK Y \in Symbols : Top = Symbol(Y)
    BY <1>1, <1>2 DEF EntriesOf, Callback
  <2> QED BY <2>1 DEF Symbol
<1>4. Left(stack) = <<X>> \o rest
  BY <1>1, <1>2 DEF SymbolOf
<1>5. ~ Starting
  BY <1>1 DEF Starting, Starts
<1>6. read \o Left(stack) = Append(frontier, EndMarker)
  BY <1>1, <1>5 DEF Reading
<1>7. read \in Seq(Symbols) /\ Len(read) = at - 1
  BY <1>1, ReadInWord
<1> DEFINE m == Left(stack)
           v == SubSeq(m, 1, Len(m) - 1)
<1>8. m \in Seq(Symbols) /\ m # <<>>
  <2> HIDE DEF X, rest
  <2> QED BY <1>2, <1>3, <1>4
<1> HIDE DEF m, read
<1>9. read \in Seq(GrammarSymbol) /\ v \in Seq(GrammarSymbol) /\ frontier = read \o v /\ m = Append(v, EndMarker)
  BY <1>1, <1>6, <1>7, <1>8, CutBeforeEnd DEF m
<1>10. at <= Len(word) + 1
  <2> SUFFICES ASSUME at = Len(word) + 2 PROVE FALSE
    BY <1>1
  <2>1. read = Append(word, EndMarker)
    BY <1>1, ReadInWord DEF read
  <2>2. Len(word) + 1 \in 1 .. Len(read) /\ read[Len(word) + 1] = EndMarker
    BY <1>1, <2>1
  <2>3. EndMarker \in GrammarSymbol
    BY <1>9, <2>2, ElementOfSeq
  <2> QED BY <2>3, SymbolsAssumption
<1>11. read \in Seq(Terminal)
  BY <1>1, <1>10, ReadInWord DEF read
<1> QED BY <1>1, <1>3, <1>4, <1>6, <1>9, <1>10, <1>11 DEF m, read

\* The stack without its top is one.
LEMMA TailTyped ==
  ASSUME TypeOK, stack # <<>>, stack' = Tail(stack), grammar' = grammar
  PROVE  (stack \in Seq(Entries))'
<1>1. Entries' = EntriesOf(grammar.productions)
  BY DEF Entries, EntriesOf, Symbols
<1>2. Tail(stack) \in Seq(EntriesOf(grammar.productions))
  BY TopOfStack DEF TypeOK
<1> QED BY <1>1, <1>2

\* A terminal that is matched was left to match before, and is read after.
LEMMA MatchTerminalKeeps ==
  ASSUME IndInv, MatchTerminal
  PROVE  IndInv'
<1> DEFINE X == Top[2]
           rest == Left(Tail(stack))
           read == Read(word, at)
<1>1. /\ OnSymbol(Lookahead) /\ Append(word, EndMarker)[at] = X /\ at' = at + 1 /\ stack' = Tail(stack)
      /\ UNCHANGED <<parsing, phase, tree, answer>>
      /\ phase = "parse" /\ stack # <<>> /\ TypeOK /\ Reading
  BY DEF MatchTerminal, OnSymbol, Input, IndInv
<1>2. /\ X \in Symbols /\ Left(stack) = <<X>> \o rest /\ read \o Left(stack) = Append(frontier, EndMarker)
      /\ at <= Len(word) + 1
  BY <1>1, OnTop
<1>3. /\ rest \in Seq(Symbols) /\ StartsOnTop(Tail(stack))
      /\ Tail(stack) # <<>> => ~ Starts(Head(Tail(stack)))
  BY <1>1, TopOfStack DEF TypeOK, Reading
<1>4. word \in Seq(Terminal) /\ at \in 1 .. Len(word) + 2
  BY <1>1 DEF TypeOK
<1>5. Read(word, at + 1) = Append(read, X) /\ read \in Seq(Symbols)
  BY <1>1, <1>2, <1>4, ReadInWord
<1>6. Read(word, at + 1) \o rest = read \o (<<X>> \o rest)
  <2> HIDE DEF X, rest, read
  <2>1. Append(read, X) = read \o <<X>> /\ <<X>> \in Seq(Symbols)
    BY <1>2, <1>5, AppendIsConcat
  <2>2. (read \o <<X>>) \o rest = read \o (<<X>> \o rest)
    BY <1>3, <1>5, <2>1, ConcatAssociative
  <2> QED BY <1>5, <2>1, <2>2
<1>7. TypeOK'
  <2>1. (stack \in Seq(Entries))'
    BY <1>1, TailTyped DEF parsing
  <2>2. at' \in 1 .. Len(word) + 2
    BY <1>1, <1>2, <1>4
  <2> QED BY <1>1, <2>1, <2>2 DEF TypeOK, parsing, sets, tree
<1>8. ~ Starting' /\ StartsOnTop(stack')
  BY <1>1, <1>3 DEF Starting, Top
<1>9. Read(word', at') \o Left(stack') = Append(frontier', EndMarker)
  BY <1>1, <1>2, <1>6 DEF parsing, tree
<1>10. Reading'
  BY <1>1, <1>8, <1>9 DEF Reading, parsing, tree
<1>11. TreeRight'
  BY <1>1 DEF Reading, TreeRight
<1> QED BY <1>7, <1>10, <1>11 DEF IndInv

\* A nonterminal on top is the first one of the leaves, and the body that is pushed is
\* one of its own.
LEMMA ExpandKeeps ==
  ASSUME IndInv, Expand
  PROVE  IndInv'
<1> DEFINE A == Top[2]
           key == <<Append(word, EndMarker)[at], A>>
           body == table[key]
           p == [head |-> A, body |-> body]
           rest == Left(Tail(stack))
           read == Read(word, at)
           E == EntriesOf(grammar.productions)
<1>1. /\ OnSymbol(NonTerminal) /\ key \in DOMAIN table /\ stack' = Pushed(A, body, Tail(stack))
      /\ UNCHANGED <<parsing, phase, at, tree, answer>>
      /\ phase = "parse" /\ stack # <<>> /\ TypeOK /\ Reading
  BY DEF Expand, OnSymbol, Input, IndInv
<1>2. /\ A \in NonTerminal /\ Left(stack) = <<A>> \o rest /\ read \o Left(stack) = Append(frontier, EndMarker)
      /\ read \in Seq(Terminal)
  BY <1>1, OnTop
<1>3. PICK m \in Seq(GrammarSymbol) : frontier = read \o m /\ Left(stack) = Append(m, EndMarker)
  BY <1>1, OnTop
<1>4. p \in grammar.productions
  BY <1>1 DEF TypeOK
<1>5. p.head = A /\ p.body = body /\ body \in Seq(GrammarSymbol)
  BY <1>1, <1>4, GrammarTyped DEF TypeOK
<1>6. /\ Tail(stack) \in Seq(E) /\ rest \in Seq(Symbols)
      /\ \A i \in 1 .. Len(Tail(stack)) : ~ Starts(Tail(stack)[i])
  BY <1>1, TopOfStack DEF TypeOK, Reading
<1>7. /\ stack' \in Seq(E) /\ stack' # <<>> /\ Head(stack') = Callback(A, body, 0)
      /\ StartsOnTop(stack') /\ Left(stack') = body \o rest
  <2> HIDE DEF p, body
  <2>1. LET pushed == Pushed(p.head, p.body, Tail(stack))
        IN  /\ pushed \in Seq(E)
            /\ pushed # <<>> /\ Head(pushed) = Callback(p.head, p.body, 0)
            /\ StartsOnTop(pushed)
            /\ Left(pushed) = p.body \o Left(Tail(stack))
    BY <1>4, <1>5, <1>6, LeftOfPushed
  <2> QED BY <1>1, <1>5, <2>1
<1> HIDE DEF E, p, body, key
<1>8. /\ Starting'
      /\ Top'[2] = A /\ Top'[3] = body
  BY <1>7 DEF Starting, Starts, Top, Callback
<1>9. PICK v \in Seq(GrammarSymbol) : rest = Append(v, EndMarker) /\ m = <<A>> \o v
  <2> DEFINE x == <<A>>
             w == SubSeq(rest, 1, Len(rest) - 1)
  <2>1. x \in Seq(Symbols) /\ rest \in Seq(Symbols) /\ x \o rest = Append(m, EndMarker)
    BY <1>2, <1>3, <1>6 DEF Symbols, GrammarSymbol
  <2>2. rest # <<>>
    <3> SUFFICES ASSUME rest = <<>> PROVE FALSE
      OBVIOUS
    <3>1. x \o rest = <<A>>
      BY <2>1, ConcatEmptySeq
    <3>2. Append(m, EndMarker)[Len(m) + 1] = EndMarker /\ Len(Append(m, EndMarker)) = Len(m) + 1
      OBVIOUS
    <3>3. Len(m) + 1 = 1 /\ <<A>>[1] = A
      BY <2>1, <3>1, <3>2
    <3>4. A = EndMarker
      BY <2>1, <3>1, <3>2, <3>3
    <3> QED BY <3>4, <1>2, SymbolsAssumption DEF GrammarSymbol
  <2> HIDE DEF x, rest
  <2>3. w \in Seq(GrammarSymbol) /\ m = x \o w /\ rest = Append(w, EndMarker)
    BY <2>1, <2>2, CutBeforeEnd
  <2> QED BY <2>3 DEF x
<1>10. AtStart(read, v)'
  <2>1. read \in Seq(GrammarSymbol) /\ EndMarker \in Symbols
        /\ read \in Seq(Symbols) /\ body \in Seq(Symbols) /\ v \in Seq(Symbols)
    BY <1>2, <1>5 DEF GrammarSymbol, Symbols
  <2>2. frontier' = read' \o (<<Top'[2]>> \o v) /\ read' = read
    BY <1>1, <1>3, <1>8, <1>9 DEF tree, parsing
  <2>3. read \o (body \o Append(v, EndMarker)) = Append(read \o (body \o v), EndMarker)
    <3> DEFINE e == <<EndMarker>>
    <3> HIDE DEF read, e
    <3>1. e \in Seq(Symbols) /\ body \o v \in Seq(Symbols) /\ read \o (body \o v) \in Seq(Symbols)
      BY <2>1 DEF e
    <3>2. Append(v, EndMarker) = v \o e /\ Append(read \o (body \o v), EndMarker) = (read \o (body \o v)) \o e
      BY <2>1, <3>1, AppendIsConcat DEF e
    <3>3. body \o (v \o e) = (body \o v) \o e
      BY <2>1, <3>1, ConcatAssociative
    <3>4. read \o ((body \o v) \o e) = (read \o (body \o v)) \o e
      BY <2>1, <3>1, ConcatAssociative
    <3> QED BY <3>2, <3>3, <3>4
  <2>4. read' \o Left(stack') = Append(read' \o (Top'[3] \o v), EndMarker)
    BY <1>7, <1>8, <1>9, <2>2, <2>3
  <2> HIDE DEF rest
  <2> QED BY <2>2, <2>4 DEF AtStart
<1>11. TypeOK'
  <2>1. (stack \in Seq(Entries))'
    <3>1. Entries' = E
      BY <1>1 DEF Entries, EntriesOf, Symbols, E, parsing
    <3> QED BY <1>7, <3>1
  <2> QED BY <1>1, <2>1 DEF TypeOK, parsing, sets, tree
<1>12. Reading'
  <2>1. read' \in Seq(Terminal)
    BY <1>1, <1>2 DEF parsing
  <2>2. \E u \in Seq(Terminal), z \in Seq(GrammarSymbol) : AtStart(u, z)'
    BY <1>10, <2>1
  <2>3. /\ frontier' = frontier /\ nodes' = nodes /\ grammar' = grammar /\ answer' = answer /\ phase' = phase
    BY <1>1 DEF parsing, tree
  <2> QED BY <1>1, <1>7, <1>8, <2>2, <2>3 DEF Reading
<1>13. TreeRight'
  BY <1>1 DEF Reading, TreeRight
<1> QED BY <1>11, <1>12, <1>13 DEF IndInv

\* When parse gives up, nothing but the answer changes.
LEMMA RejectKeeps ==
  ASSUME IndInv, Reject
  PROVE  IndInv'
BY DEF Reject, IndInv, TypeOK, Reading, TreeRight, parsing, sets, tree, Entries

\* When nothing is left to match, the word was read with its end, and is the leaves.
LEMMA AcceptKeeps ==
  ASSUME IndInv, Accept
  PROVE  IndInv'
<1>1. /\ phase = "parse" /\ stack = <<>> /\ phase' = "idle" /\ answer' = "tree"
      /\ UNCHANGED <<parsing, at, stack, tree>> /\ TypeOK /\ Reading
  BY DEF Accept, IndInv
<1> DEFINE read == Read(word, at)
           none == <<>>
<1>2. word \in Seq(Terminal) /\ at \in 1 .. Len(word) + 2 /\ frontier \in Seq(GrammarSymbol) /\ word \in Seq(GrammarSymbol)
  BY <1>1 DEF TypeOK, GrammarSymbol
<1>3. Left(stack) = none
  <2>1. Pieces(stack) \in Seq(Seq(Symbols)) /\ AllEmpty(Pieces(stack)) /\ none \in Seq(Symbols)
    BY <1>1 DEF Pieces, AllEmpty
  <2> HIDE DEF none
  <2>2. Onto(Pieces(stack), none) = none
    BY <2>1, OntoNothing
  <2> QED BY <2>2 DEF Left, none
<1>4. read = Append(frontier, EndMarker)
  <2>1. read \o none = Append(frontier, EndMarker)
    <3> HIDE DEF read, none
    <3>1. ~ Starting
      BY <1>1 DEF Starting
    <3> QED BY <1>1, <1>3, <3>1 DEF Reading, read
  <2>2. read \in Seq(Symbols)
    BY <1>2, ReadInWord
  <2> HIDE DEF read
  <2> QED BY <2>1, <2>2, ConcatEmptySeq
<1>5. read = Append(word, EndMarker)
  <2> SUFFICES ASSUME at <= Len(word) + 1 PROVE FALSE
    BY <1>2, ReadInWord
  <2>1. read \in Seq(Terminal)
    BY <1>2, ReadInWord
  <2>2. Len(frontier) + 1 \in 1 .. Len(read) /\ read[Len(frontier) + 1] = EndMarker
    BY <1>2, <1>4
  <2>3. EndMarker \in Terminal
    <3> HIDE DEF read
    <3> QED BY <2>1, <2>2, ElementOfSeq
  <2> QED BY <2>3, SymbolsAssumption DEF GrammarSymbol
<1>6. frontier = word
  <2> HIDE DEF read
  <2>1. Append(frontier, EndMarker) = Append(word, EndMarker)
    BY <1>4, <1>5
  <2>2. /\ Len(Append(frontier, EndMarker)) = Len(frontier) + 1 /\ Len(Append(word, EndMarker)) = Len(word) + 1
        /\ \A i \in 1 .. Len(frontier) : Append(frontier, EndMarker)[i] = frontier[i]
        /\ \A i \in 1 .. Len(word) : Append(word, EndMarker)[i] = word[i]
    BY <1>2
  <2>3. Len(frontier) = Len(word)
    BY <1>2, <2>1, <2>2
  <2>4. \A i \in 1 .. Len(frontier) : frontier[i] = word[i]
    BY <2>1, <2>2, <2>3
  <2> QED BY <1>2, <2>3, <2>4, SeqEqual
<1>7. TypeOK'
  BY <1>1 DEF TypeOK, parsing, sets, tree, Entries
<1>8. Reading'
  BY <1>1 DEF Reading
<1>9. TreeRight'
  BY <1>1, <1>6 DEF TreeRight, Reading, parsing, tree
<1> QED BY <1>7, <1>8, <1>9 DEF IndInv

\* Every reachable state has its types, reads what the leaves say, and has a tree only of the word.
THEOREM IndInvariant == Spec => []IndInv
<1>1. Init => IndInv
  <2> SUFFICES ASSUME Init PROVE IndInv
    OBVIOUS
  <2>1. TypeOK
    <3>1. DOMAIN table = {}
      BY DEF Init
    <3>2. stack \in Seq(Entries) /\ nodes \in Seq(Nat) /\ frontier \in Seq(GrammarSymbol) /\ word \in Seq(Terminal)
          /\ at \in 1 .. Len(word) + 2
      BY DEF Init
    <3>3. firsts \in [NonTerminal -> SUBSET Terminal] /\ follows \in [NonTerminal -> SUBSET Lookahead]
      BY DEF Init
    <3> QED BY <3>1, <3>2, <3>3 DEF Init, TypeOK
  <2> QED BY <2>1 DEF Init, IndInv, Reading, TreeRight
<1>2. IndInv /\ [Next]_vars => IndInv'
  <2> SUFFICES ASSUME IndInv, [Next]_vars PROVE IndInv'
    OBVIOUS
  <2>1. CASE Computing
    BY <2>1, ComputingKeeps
  <2>2. CASE RunCallback
    BY <2>2, RunCallbackKeeps
  <2>3. CASE MatchTerminal
    BY <2>3, MatchTerminalKeeps
  <2>4. CASE Expand
    BY <2>4, ExpandKeeps
  <2>5. CASE Reject
    BY <2>5, RejectKeeps
  <2>6. CASE Accept
    BY <2>6, AcceptKeeps
  <2>7. ASSUME NEW w \in Words, Call(w) PROVE IndInv'
    BY <2>7, CallKeeps
  <2>8. CASE UNCHANGED vars
    <3>1. TypeOK'
      BY <2>8 DEF IndInv, TypeOK, vars, sets, tree, Occurrences, Entries
    <3>2. Reading'
      BY <2>8 DEF IndInv, Reading, vars, tree, StartsOnTop, Starts, OpenOf, Forms, Closed, Starting, AtStart,
                  Read, Left, Pieces, SymbolOf, Top, Children
    <3>3. TreeRight'
      BY <2>8 DEF IndInv, TreeRight, vars, tree, Forms, Closed
    <3> QED BY <3>1, <3>2, <3>3 DEF IndInv
  <2> QED BY <2>1, <2>2, <2>3, <2>4, <2>5, <2>6, <2>7, <2>8 DEF Next, Parsing
<1> QED BY <1>1, <1>2, PTL DEF Spec

-----------------------------------------------------------------------------
\* What the object and its stacks hold is what parse and get_parse_tree push, and the
\* entries of the table are productions of the grammar under their heads.
THEOREM TypeCorrect == Spec => []TypeOK
<1>1. IndInv => TypeOK
  BY DEF IndInv
<1> QED BY <1>1, IndInvariant, PTL

\* Outside of the start of a production, what was read and what is left to match are
\* the leaves of the tree, and get_parse_tree holds the open ones from left to right.
THEOREM StacksInStep == Spec => []InStep
<1>1. IndInv => InStep
  <2> SUFFICES ASSUME IndInv, phase = "parse", ~ (stack # <<>> /\ Top[1] = "callback" /\ Top[4] = 0)
               PROVE  /\ SubSeq(Input, 1, at - 1) \o ToMatch = Append(frontier, EndMarker)
                      /\ nodes = OpenLeaves
    BY DEF InStep
  <2>1. ~ Starting
    BY DEF Starting, Starts
  <2>2. Read(word, at) \o Left(stack) = Append(frontier, EndMarker) /\ nodes = OpenOf(frontier)
    BY <2>1 DEF IndInv, Reading
  <2> QED BY <2>2 DEF Read, Input, ToMatch, Left, Pieces, OpenLeaves, OpenOf
<1> QED BY <1>1, IndInvariant, PTL

\* A tree is the tree of the word, and the grammar derives the word, also when the table
\* is one that an exception left unfinished.
THEOREM TreesAreDerivations == Spec => [](answer = "tree" => frontier = word /\ word \in Forms(grammar))
<1>1. IndInv => (answer = "tree" => frontier = word /\ word \in Forms(grammar))
  BY DEF IndInv, TreeRight
<1> QED BY <1>1, IndInvariant, PTL

-----------------------------------------------------------------------------
(* Leftmost derivations.                                                   *)

Pairs == Seq(Symbols) \X Seq(Lookahead)

\* Pairs of a string and a word it derives: a terminal derives itself, and a head what
\* a body of it does.
Derivational(D, productions) ==
  /\ <<<<>>, <<>>>> \in D
  /\ \A a \in Lookahead : \A f \in Seq(Symbols), w \in Seq(Lookahead) :
       <<f, w>> \in D => <<<<a>> \o f, <<a>> \o w>> \in D
  /\ \A p \in productions : \A f \in Seq(Symbols), w \in Seq(Lookahead) :
       <<p.body \o f, w>> \in D => <<<<p.head>> \o f, w>> \in D

Leftmost(productions) == {x \in Pairs : \A D \in SUBSET Pairs : Derivational(D, productions) => x \in D}

\* The symbols of productions are symbols.
LEMMA TypedInSymbols ==
  ASSUME NEW P, Typed(P)
  PROVE  \A q \in P : q.head \in Symbols /\ q.body \in Seq(Symbols)
<1> SUFFICES ASSUME NEW q \in P PROVE q.head \in Symbols /\ q.body \in Seq(Symbols)
  OBVIOUS
<1>1. q.head \in NonTerminal /\ q.body \in Seq(GrammarSymbol)
  BY DEF Typed
<1> DEFINE b == q.body
<1>2. b \in Seq(GrammarSymbol)
  BY <1>1
<1> HIDE DEF b
<1>3. b \in Seq(Symbols)
  BY <1>2 DEF Symbols
<1> QED BY <1>1, <1>3 DEF b, Symbols, GrammarSymbol

\* A string that is not empty has a first symbol and a rest.
LEMMA HeadAndTail ==
  ASSUME NEW t \in Seq(Symbols), t # <<>>
  PROVE  \E b \in Symbols, s \in Seq(Symbols) : t = <<b>> \o s
<1>1. Head(t) \in Symbols /\ Tail(t) \in Seq(Symbols) /\ t = <<Head(t)>> \o Tail(t)
  BY HeadTailProperties
<1> QED BY <1>1

\* What is read are symbols.
LEMMA LookaheadSymbols == \A a \in Lookahead : a \in Symbols
BY DEF Lookahead, Symbols, GrammarSymbol

\* Concatenation of three strings of symbols, and of three of terminals.
LEMMA SymbolsAssociate ==
  ASSUME NEW x \in Seq(Symbols), NEW y \in Seq(Symbols), NEW z \in Seq(Symbols)
  PROVE  x \o (y \o z) = (x \o y) \o z
BY ConcatAssociative

\* The same for words.
LEMMA WordsAssociate ==
  ASSUME NEW x \in Seq(Lookahead), NEW y \in Seq(Lookahead), NEW z \in Seq(Lookahead)
  PROVE  x \o (y \o z) = (x \o y) \o z
BY ConcatAssociative

\* Leftmost is contained in every relation that is closed under derivations.
LEMMA LeftmostLeast ==
  ASSUME NEW P, NEW D \in SUBSET Pairs, Derivational(D, P)
  PROVE  Leftmost(P) \subseteq D
BY DEF Leftmost

\* Leftmost itself is closed under derivations.
LEMMA LeftmostClosed ==
  ASSUME NEW P, Typed(P)
  PROVE  Derivational(Leftmost(P), P)
<1> DEFINE L == Leftmost(P)
<1>1. <<<<>>, <<>>>> \in L
  <2> DEFINE none == <<>>
  <2>1. <<none, none>> \in Pairs
    <3>1. none \in Seq(Symbols) /\ none \in Seq(Lookahead)
      OBVIOUS
    <3> HIDE DEF none
    <3> QED BY <3>1 DEF Pairs
  <2>2. \A D \in SUBSET Pairs : Derivational(D, P) => <<<<>>, <<>>>> \in D
    BY DEF Derivational
  <2> QED BY <2>1, <2>2 DEF Leftmost
<1>2. ASSUME NEW a \in Lookahead, NEW f \in Seq(Symbols), NEW w \in Seq(Lookahead), <<f, w>> \in L
      PROVE  <<<<a>> \o f, <<a>> \o w>> \in L
  <2>1. <<a>> \o f \in Seq(Symbols) /\ <<a>> \o w \in Seq(Lookahead)
    BY DEF Symbols, Lookahead, GrammarSymbol
  <2>2. ASSUME NEW D \in SUBSET Pairs, Derivational(D, P) PROVE <<<<a>> \o f, <<a>> \o w>> \in D
    <3>1. <<f, w>> \in D
      BY <1>2, <2>2, LeftmostLeast
    <3> QED BY <2>2, <3>1 DEF Derivational
  <2> QED BY <2>1, <2>2 DEF Leftmost, Pairs
<1>3. ASSUME NEW p \in P, NEW f \in Seq(Symbols), NEW w \in Seq(Lookahead), <<p.body \o f, w>> \in L
      PROVE  <<<<p.head>> \o f, w>> \in L
  <2>1. <<p.head>> \o f \in Seq(Symbols)
    BY DEF Typed, Symbols, GrammarSymbol
  <2>2. ASSUME NEW D \in SUBSET Pairs, Derivational(D, P) PROVE <<<<p.head>> \o f, w>> \in D
    <3>1. <<p.body \o f, w>> \in D
      BY <1>3, <2>2, LeftmostLeast
    <3> QED BY <2>2, <3>1 DEF Derivational
  <2> QED BY <2>1, <2>2 DEF Leftmost, Pairs
<1> QED BY <1>1, <1>2, <1>3 DEF Derivational

\* A string taken apart after its first symbol is taken apart in one way.
LEMMA FirstAndRest ==
  ASSUME NEW S, NEW x \in S, NEW y \in S, NEW f \in Seq(S), NEW g \in Seq(S), <<x>> \o f = <<y>> \o g
  PROVE  x = y /\ f = g
<1> DEFINE a == <<x>> \o f
           b == <<y>> \o g
<1>1. /\ Len(a) = 1 + Len(f) /\ a[1] = x /\ \A i \in 1 .. Len(f) : a[1 + i] = f[i]
      /\ Len(b) = 1 + Len(g) /\ b[1] = y /\ \A i \in 1 .. Len(g) : b[1 + i] = g[i]
  OBVIOUS
<1>2. a = b
  OBVIOUS
<1> HIDE DEF a, b
<1>3. Len(f) = Len(g) /\ \A i \in 1 .. Len(f) : f[i] = g[i]
  <2>1. Len(f) = Len(g)
    BY <1>1, <1>2
  <2> QED BY <1>1, <1>2, <2>1
<1>4. f = g
  BY <1>3, SeqEqual
<1> QED BY <1>1, <1>2, <1>4

SameFirstAndRest(x, f, y, g) == x = y /\ f = g

\* Two equal strings have the same first symbol and the same rest.
LEMMA SymbolAndRest ==
  ASSUME NEW x \in Symbols, NEW f \in Seq(Symbols), NEW y \in Symbols, NEW g \in Seq(Symbols), <<x>> \o f = <<y>> \o g
  PROVE  SameFirstAndRest(x, f, y, g)
BY FirstAndRest DEF SameFirstAndRest

\* How a string derives a word begins with its first symbol.
LEMMA LeftmostBegins ==
  ASSUME NEW P, Typed(P), NEW X \in Symbols, NEW m \in Seq(Symbols), NEW w \in Seq(Lookahead),
         <<<<X>> \o m, w>> \in Leftmost(P)
  PROVE  \/ /\ X \in Lookahead
            /\ \E v \in Seq(Lookahead) : w = <<X>> \o v /\ <<m, v>> \in Leftmost(P)
         \/ \E p \in P : p.head = X /\ <<p.body \o m, w>> \in Leftmost(P)
<1> DEFINE L == Leftmost(P)
           Begun(Y, f, u) == \/ /\ Y \in Lookahead
                               /\ \E v \in Seq(Lookahead) : u = <<Y>> \o v /\ <<f, v>> \in L
                            \/ \E p \in P : p.head = Y /\ <<p.body \o f, u>> \in L
           D == {x \in L : \A Y \in Symbols, f \in Seq(Symbols) : x[1] = <<Y>> \o f => Begun(Y, f, x[2])}
<1>0. L \in SUBSET Pairs /\ Derivational(L, P)
  BY LeftmostClosed DEF Leftmost
<1> HIDE DEF L
<1>1. <<<<>>, <<>>>> \in D
  <2>1. \A Y \in Symbols, f \in Seq(Symbols) : <<>> # <<Y>> \o f
    <3> SUFFICES ASSUME NEW Y \in Symbols, NEW f \in Seq(Symbols) PROVE <<>> # <<Y>> \o f
      OBVIOUS
    <3>1. Len(<<Y>> \o f) = 1 + Len(f) /\ Len(f) \in Nat
      OBVIOUS
    <3>2. Len(<<Y>> \o f) # 0
      BY <3>1
    <3>3. Len(<<>>) = 0
      OBVIOUS
    <3> QED BY <3>2, <3>3
  <2>2. <<<<>>, <<>>>> \in L
    BY <1>0 DEF Derivational
  <2> QED BY <2>1, <2>2
<1>2. ASSUME NEW a \in Lookahead, NEW f \in Seq(Symbols), NEW u \in Seq(Lookahead), <<f, u>> \in D
      PROVE  <<<<a>> \o f, <<a>> \o u>> \in D
  <2>1. <<f, u>> \in L
    BY <1>2
  <2>2. <<<<a>> \o f, <<a>> \o u>> \in L
    BY <1>0, <2>1 DEF Derivational
  <2>3. ASSUME NEW Y \in Symbols, NEW g \in Seq(Symbols), <<a>> \o f = <<Y>> \o g PROVE Begun(Y, g, <<a>> \o u)
    <3>1. a \in Symbols
      BY DEF Symbols, Lookahead, GrammarSymbol
    <3>2. a = Y /\ f = g
      BY <2>3, <3>1, FirstAndRest
    <3> QED BY <2>1, <3>2
  <2> HIDE DEF Begun
  <2> QED BY <2>2, <2>3
<1>3. ASSUME NEW p \in P, NEW f \in Seq(Symbols), NEW u \in Seq(Lookahead), <<p.body \o f, u>> \in D
      PROVE  <<<<p.head>> \o f, u>> \in D
  <2>1. <<p.body \o f, u>> \in L
    BY <1>3
  <2>2. <<<<p.head>> \o f, u>> \in L
    BY <1>0, <2>1 DEF Derivational
  <2>3. ASSUME NEW Y \in Symbols, NEW g \in Seq(Symbols), <<p.head>> \o f = <<Y>> \o g PROVE Begun(Y, g, u)
    <3>1. p.head \in Symbols
      BY DEF Typed, Symbols, GrammarSymbol
    <3>2. p.head = Y /\ f = g
      BY <2>3, <3>1, FirstAndRest
    <3> QED BY <2>1, <3>2
  <2> HIDE DEF Begun
  <2> QED BY <2>2, <2>3
<1>4. D \in SUBSET Pairs /\ Derivational(D, P)
  <2>1. D \in SUBSET Pairs
    BY <1>0
  <2> HIDE DEF D
  <2> QED BY <1>1, <1>2, <1>3, <2>1 DEF Derivational
<1>5. <<<<X>> \o m, w>> \in D
  <2> HIDE DEF D
  <2> QED BY <1>4, LeftmostLeast
<1> QED BY <1>5 DEF L

\* A head derives what its bodies derive, wherever it is.
LEMMA ReplaceInside ==
  ASSUME NEW P, Typed(P), NEW p \in P, NEW u \in Seq(Symbols), NEW v \in Seq(Symbols), NEW w \in Seq(Lookahead),
         <<u \o (p.body \o v), w>> \in Leftmost(P)
  PROVE  <<u \o (<<p.head>> \o v), w>> \in Leftmost(P)
<1> DEFINE L == Leftmost(P)
           z == p.body \o v
           y == <<p.head>> \o v
           D == {x \in L : \A t \in Seq(Symbols) : x[1] = t \o z => <<t \o y, x[2]>> \in L}
<1>0. L \in SUBSET Pairs /\ Derivational(L, P)
  BY LeftmostClosed DEF Leftmost
<1>q. \A q \in P : q.head \in Symbols /\ q.body \in Seq(Symbols)
  BY TypedInSymbols
<1>1. z \in Seq(Symbols) /\ y \in Seq(Symbols)
  BY <1>q
<1>2. ASSUME NEW r \in Seq(Lookahead), <<z, r>> \in L PROVE <<y, r>> \in L
  BY <1>0, <1>2 DEF Derivational
<1> HIDE DEF L, y, z
<1>3. ASSUME NEW t \in Seq(Symbols)
      PROVE  \/ t = <<>> /\ t \o z = z /\ t \o y = y
             \/ \E b \in Symbols, s \in Seq(Symbols) :
                  /\ t \o z = <<b>> \o (s \o z) /\ t \o y = <<b>> \o (s \o y)
  <2>1. CASE t = <<>>
    BY <1>1, <2>1, ConcatEmptySeq
  <2>2. CASE t # <<>>
    <3> PICK b \in Symbols, s \in Seq(Symbols) : t = <<b>> \o s
      BY <2>2, HeadAndTail
    <3> DEFINE x == <<b>>
    <3>1. b \in Symbols /\ s \in Seq(Symbols) /\ t = x \o s /\ x \in Seq(Symbols)
      OBVIOUS
    <3> HIDE DEF x
    <3>2. x \o (s \o z) = (x \o s) \o z
      BY <1>1, <3>1, SymbolsAssociate
    <3>3. x \o (s \o y) = (x \o s) \o y
      BY <1>1, <3>1, SymbolsAssociate
    <3>4. t \o z = x \o (s \o z) /\ t \o y = x \o (s \o y)
      BY <3>1, <3>2, <3>3
    <3> QED BY <3>1, <3>4 DEF x
  <2> QED BY <2>1, <2>2
<1>4. <<<<>>, <<>>>> \in D
  <2>1. <<<<>>, <<>>>> \in L
    BY <1>0 DEF Derivational
  <2>2. ASSUME NEW t \in Seq(Symbols), <<>> = t \o z PROVE <<t \o y, <<>>>> \in L
    <3>a. Len(t) + Len(z) = 0
      <4> DEFINE tz == t \o z
      <4>1. Len(tz) = Len(t) + Len(z)
        BY <1>1
      <4>2. tz = <<>>
        BY <2>2
      <4> HIDE DEF tz
      <4> QED BY <4>1, <4>2
    <3>1. t = <<>> /\ z = <<>>
      BY <1>1, <3>a, EmptySeq
    <3> DEFINE none == <<>>
    <3>2. <<z, none>> \in L /\ none \in Seq(Lookahead)
      BY <2>1, <3>1
    <3> HIDE DEF none
    <3>3. <<y, none>> \in L
      BY <1>2, <3>2
    <3>4. t \o y = y
      BY <1>1, <3>1, ConcatEmptySeq
    <3> QED BY <3>3, <3>4 DEF none
  <2> QED BY <2>1, <2>2
<1>5. ASSUME NEW a \in Lookahead, NEW f \in Seq(Symbols), NEW r \in Seq(Lookahead), <<f, r>> \in D
      PROVE  <<<<a>> \o f, <<a>> \o r>> \in D
  <2>1. <<f, r>> \in L /\ \A t \in Seq(Symbols) : f = t \o z => <<t \o y, r>> \in L
    BY <1>5
  <2>2. /\ <<<<a>> \o f, <<a>> \o r>> \in L
        /\ a \in Symbols /\ <<a>> \o r \in Seq(Lookahead)
    <3>1. <<<<a>> \o f, <<a>> \o r>> \in L
      BY <1>0, <2>1 DEF Derivational
    <3> QED BY <3>1, LookaheadSymbols
  <2>3. ASSUME NEW t \in Seq(Symbols), <<a>> \o f = t \o z PROVE <<t \o y, <<a>> \o r>> \in L
    <3>1. CASE t = <<>> /\ t \o z = z /\ t \o y = y
      <4>1. <<z, <<a>> \o r>> \in L
        BY <2>2, <2>3, <3>1
      <4> QED BY <1>2, <2>2, <3>1, <4>1
    <3>2. CASE \E b \in Symbols, s \in Seq(Symbols) : t \o z = <<b>> \o (s \o z) /\ t \o y = <<b>> \o (s \o y)
      <4>1. PICK b \in Symbols, s \in Seq(Symbols) : t \o z = <<b>> \o (s \o z) /\ t \o y = <<b>> \o (s \o y)
        BY <3>2
      <4>2. s \o z \in Seq(Symbols) /\ s \o y \in Seq(Symbols)
        BY <1>1, ConcatProperties
      <4>3. a = b /\ f = s \o z
        <5> DEFINE g == s \o z
        <5>1. <<a>> \o f = <<b>> \o g /\ g \in Seq(Symbols) /\ a \in Symbols /\ b \in Symbols
          BY <2>2, <2>3, <4>1, <4>2
        <5> HIDE DEF g
        <5>2. SameFirstAndRest(a, f, b, g)
          BY <2>2, <5>1, SymbolAndRest
        <5> QED BY <5>2 DEF g, SameFirstAndRest
      <4>4. <<s \o y, r>> \in L
        BY <2>1, <4>3
      <4>5. <<<<a>> \o (s \o y), <<a>> \o r>> \in L
        BY <1>0, <4>2, <4>4 DEF Derivational
      <4> QED BY <4>1, <4>3, <4>5
    <3> QED BY <1>3, <3>1, <3>2
  <2> QED BY <2>2, <2>3
<1>6. ASSUME NEW q \in P, NEW f \in Seq(Symbols), NEW r \in Seq(Lookahead), <<q.body \o f, r>> \in D
      PROVE  <<<<q.head>> \o f, r>> \in D
  <2>1. <<q.body \o f, r>> \in L /\ \A t \in Seq(Symbols) : q.body \o f = t \o z => <<t \o y, r>> \in L
    BY <1>6
  <2>2. <<<<q.head>> \o f, r>> \in L /\ q.head \in Symbols /\ q.body \in Seq(Symbols)
    BY <1>0, <1>q, <2>1 DEF Derivational
  <2>3. ASSUME NEW t \in Seq(Symbols), <<q.head>> \o f = t \o z PROVE <<t \o y, r>> \in L
    <3>1. CASE t = <<>> /\ t \o z = z /\ t \o y = y
      <4>1. <<z, r>> \in L
        BY <2>2, <2>3, <3>1
      <4> QED BY <1>2, <3>1, <4>1
    <3>2. CASE \E b \in Symbols, s \in Seq(Symbols) : t \o z = <<b>> \o (s \o z) /\ t \o y = <<b>> \o (s \o y)
      <4>1. PICK b \in Symbols, s \in Seq(Symbols) : t \o z = <<b>> \o (s \o z) /\ t \o y = <<b>> \o (s \o y)
        BY <3>2
      <4>2. s \o z \in Seq(Symbols) /\ s \o y \in Seq(Symbols) /\ q.body \o s \in Seq(Symbols)
        BY <1>1, <2>2, ConcatProperties
      <4>3. q.head = b /\ f = s \o z
        <5> DEFINE g == s \o z
                   h == q.head
        <5>1. <<h>> \o f = <<b>> \o g /\ g \in Seq(Symbols) /\ h \in Symbols /\ b \in Symbols
          BY <2>2, <2>3, <4>1, <4>2
        <5> HIDE DEF g, h
        <5>2. SameFirstAndRest(h, f, b, g)
          BY <5>1, SymbolAndRest
        <5> QED BY <5>2 DEF g, h, SameFirstAndRest
      <4>4. q.body \o (s \o z) = (q.body \o s) \o z /\ q.body \o (s \o y) = (q.body \o s) \o y
        <5> DEFINE h == q.body
        <5>1. h \in Seq(Symbols)
          BY <2>2
        <5> HIDE DEF h
        <5>2. h \o (s \o z) = (h \o s) \o z
          BY <1>1, <5>1, SymbolsAssociate
        <5>3. h \o (s \o y) = (h \o s) \o y
          BY <1>1, <5>1, SymbolsAssociate
        <5> QED BY <5>2, <5>3 DEF h
      <4>5. <<(q.body \o s) \o y, r>> \in L
        BY <2>1, <4>2, <4>3, <4>4
      <4>6. <<<<q.head>> \o (s \o y), r>> \in L
        BY <1>0, <4>2, <4>4, <4>5 DEF Derivational
      <4> QED BY <4>1, <4>3, <4>6
    <3> QED BY <1>3, <3>1, <3>2
  <2> QED BY <2>2, <2>3
<1>7. D \in SUBSET Pairs /\ Derivational(D, P)
  <2>1. D \in SUBSET Pairs
    BY <1>0
  <2> HIDE DEF D
  <2> QED BY <1>4, <1>5, <1>6, <2>1 DEF Derivational
<1>8. <<u \o z, w>> \in D
  <2>1. <<u \o z, w>> \in L
    BY DEF L, z
  <2> HIDE DEF D
  <2> QED BY <1>7, <2>1, LeftmostLeast DEF L
<1> QED BY <1>8 DEF L, z, y

\* A word derives itself.
LEMMA WordsDeriveThemselves ==
  ASSUME NEW P, Typed(P), NEW w \in Seq(Lookahead)
  PROVE  <<w, w>> \in Leftmost(P)
<1> DEFINE L == Leftmost(P)
           n == Len(w)
           end(k) == SubSeq(w, n - k + 1, n)
           T == {k \in Nat : k <= n => <<end(k), end(k)>> \in L}
<1>0. Derivational(L, P) /\ n \in Nat
  BY LeftmostClosed
<1> HIDE DEF L
<1>1. 0 \in T
  <2>1. end(0) = <<>>
    BY <1>0
  <2>2. <<<<>>, <<>>>> \in L
    BY <1>0 DEF Derivational
  <2> HIDE DEF end
  <2> QED BY <2>1, <2>2
<1>2. ASSUME NEW k \in Nat, k \in T PROVE k + 1 \in T
  <2> SUFFICES ASSUME k + 1 <= n PROVE <<end(k + 1), end(k + 1)>> \in L
    <3> DEFINE k1 == k + 1
    <3>1. k1 \in Nat
      OBVIOUS
    <3> HIDE DEF k1
    <3>2. (k1 <= n => <<end(k1), end(k1)>> \in L) => k1 \in T
      BY <3>1
    <3> QED BY <3>2 DEF k1
  <2>1. n - k \in 1 .. n /\ n - (k + 1) + 1 = n - k /\ n \in n - k .. n
    BY <1>0
  <2>2. end(k + 1) = <<w[n - k]>> \o end(k) /\ w[n - k] \in Lookahead
    BY <2>1, SubSeqRecursiveFirst, ElementOfSeq
  <2>3. end(k) \in Seq(Lookahead) /\ end(k) \in Seq(Symbols)
    <3>1. \A i \in n - k + 1 .. n : w[i] \in Lookahead /\ w[i] \in Symbols
      BY <2>1 DEF Lookahead, Symbols, GrammarSymbol
    <3>2. n - k + 1 \in Int /\ n \in Int
      BY <1>0
    <3> QED BY <3>1, <3>2, SubSeqProperties
  <2>4. <<end(k), end(k)>> \in L
    BY <1>2, <1>0
  <2> HIDE DEF end
  <2> QED BY <1>0, <2>2, <2>3, <2>4 DEF Derivational
<1>3. <<end(n), end(n)>> \in L
  <2>1. Nat \subseteq T
    <3> HIDE DEF T
    <3> QED BY <1>1, <1>2, InductionOnNat
  <2> QED BY <1>0, <2>1
<1>4. end(n) = w
  <2>1. n - n + 1 = 1
    BY <1>0
  <2> QED BY <2>1, SubSeqFull
<1> QED BY <1>3, <1>4 DEF L

\* What the start symbol derives in any order it derives leftmost.
LEMMA FormsLeftmost ==
  ASSUME NEW g, Typed(g.productions), g.start \in NonTerminal, NEW w \in Seq(Terminal), w \in Forms(g)
  PROVE  <<<<g.start>>, w>> \in Leftmost(g.productions)
<1> DEFINE P == g.productions
           L == Leftmost(P)
           F == {f \in Seq(GrammarSymbol) : \A r \in Seq(Lookahead) : <<f, r>> \in L => <<<<g.start>>, r>> \in L}
<1>1. <<g.start>> \in F
  BY DEF GrammarSymbol
<1>2. ASSUME NEW p \in P, NEW u \in Seq(GrammarSymbol), NEW v \in Seq(GrammarSymbol), u \o (<<p.head>> \o v) \in F
      PROVE  u \o (p.body \o v) \in F
  <2>1. u \in Seq(Symbols) /\ v \in Seq(Symbols) /\ p.body \in Seq(GrammarSymbol)
    BY DEF Symbols, Typed
  <2>2. u \o (p.body \o v) \in Seq(GrammarSymbol)
    BY <2>1, ConcatProperties
  <2>3. ASSUME NEW r \in Seq(Lookahead), <<u \o (p.body \o v), r>> \in L PROVE <<<<g.start>>, r>> \in L
    <3>1. <<u \o (<<p.head>> \o v), r>> \in L
      BY <2>1, <2>3, ReplaceInside
    <3> HIDE DEF L
    <3> QED BY <1>2, <3>1
  <2> HIDE DEF L
  <2> QED BY <2>2, <2>3
<1>3. w \in F
  <2>1. F \in SUBSET Seq(GrammarSymbol)
    OBVIOUS
  <2>2. Closed(F, P)
    <3> HIDE DEF F
    <3> QED BY <1>2 DEF Closed
  <2> HIDE DEF F
  <2> QED BY <1>1, <2>1, <2>2 DEF Forms
<1>4. <<w, w>> \in L /\ w \in Seq(Lookahead)
  BY WordsDeriveThemselves DEF Lookahead
<1> HIDE DEF L
<1> QED BY <1>3, <1>4 DEF L

\* With the end marker behind it a string derives what it did, with the end marker.
LEMMA LeftmostWithEnd ==
  ASSUME NEW P, Typed(P), NEW f \in Seq(Symbols), NEW w \in Seq(Lookahead), <<f, w>> \in Leftmost(P)
  PROVE  <<Append(f, EndMarker), Append(w, EndMarker)>> \in Leftmost(P)
<1> DEFINE L == Leftmost(P)
           e == <<EndMarker>>
           D == {x \in Pairs : <<x[1] \o e, x[2] \o e>> \in L}
<1>0. /\ Derivational(L, P) /\ e \in Seq(Symbols) /\ e \in Seq(Lookahead)
      /\ \A q \in P : <<q.head>> \in Seq(Symbols) /\ q.body \in Seq(Symbols)
  BY LeftmostClosed DEF Typed, Symbols, Lookahead, GrammarSymbol
<1>1. <<e, e>> \in L
  BY <1>0, WordsDeriveThemselves
<1> HIDE DEF L, e
<1>2. <<<<>>, <<>>>> \in D
  <2> DEFINE none == <<>>
  <2>1. none \in Seq(Symbols) /\ none \in Seq(Lookahead) /\ none \o e = e
    BY <1>0, ConcatEmptySeq
  <2> HIDE DEF none
  <2>2. <<none, none>> \in D
    BY <1>1, <2>1 DEF Pairs
  <2> QED BY <2>2 DEF none
<1>3. ASSUME NEW a \in Lookahead, NEW h \in Seq(Symbols), NEW r \in Seq(Lookahead), <<h, r>> \in D
      PROVE  <<<<a>> \o h, <<a>> \o r>> \in D
  <2> DEFINE x == <<a>>
  <2>1. x \in Seq(Symbols) /\ x \in Seq(Lookahead) /\ <<h \o e, r \o e>> \in L
    <3>1. a \in Symbols
      BY LookaheadSymbols
    <3>2. <<h \o e, r \o e>> \in L
      BY <1>3
    <3> QED BY <3>1, <3>2
  <2>2. h \o e \in Seq(Symbols) /\ r \o e \in Seq(Lookahead)
    BY <1>0, ConcatProperties
  <2>3. <<x \o (h \o e), x \o (r \o e)>> \in L
    BY <1>0, <2>1, <2>2 DEF Derivational
  <2> HIDE DEF x
  <2>4. x \o (h \o e) = (x \o h) \o e /\ x \o (r \o e) = (x \o r) \o e
    <3>1. x \o (h \o e) = (x \o h) \o e
      BY <1>0, <2>1, SymbolsAssociate
    <3>2. x \o (r \o e) = (x \o r) \o e
      BY <1>0, <2>1, WordsAssociate
    <3> QED BY <3>1, <3>2
  <2>5. x \o h \in Seq(Symbols) /\ x \o r \in Seq(Lookahead)
    BY <2>1, ConcatProperties
  <2> QED BY <2>3, <2>4, <2>5 DEF x, Pairs
<1>4. ASSUME NEW q \in P, NEW h \in Seq(Symbols), NEW r \in Seq(Lookahead), <<q.body \o h, r>> \in D
      PROVE  <<<<q.head>> \o h, r>> \in D
  <2> DEFINE x == <<q.head>>
             b == q.body
  <2>1. x \in Seq(Symbols) /\ b \in Seq(Symbols) /\ <<(b \o h) \o e, r \o e>> \in L
    BY <1>0, <1>4
  <2>2. h \o e \in Seq(Symbols) /\ r \o e \in Seq(Lookahead)
    BY <1>0, ConcatProperties
  <2> HIDE DEF x, b
  <2>3. b \o (h \o e) = (b \o h) \o e /\ x \o (h \o e) = (x \o h) \o e
    <3>1. b \o (h \o e) = (b \o h) \o e
      BY <1>0, <2>1, SymbolsAssociate
    <3>2. x \o (h \o e) = (x \o h) \o e
      BY <1>0, <2>1, SymbolsAssociate
    <3> QED BY <3>1, <3>2
  <2>4. <<x \o (h \o e), r \o e>> \in L
    BY <1>0, <2>1, <2>2, <2>3 DEF Derivational, x, b
  <2>5. x \o h \in Seq(Symbols)
    BY <2>1, ConcatProperties
  <2> QED BY <2>3, <2>4, <2>5 DEF x, Pairs
<1>5. D \in SUBSET Pairs /\ Derivational(D, P)
  <2>1. D \in SUBSET Pairs
    OBVIOUS
  <2> HIDE DEF D
  <2> QED BY <1>2, <1>3, <1>4, <2>1 DEF Derivational
<1>6. <<f, w>> \in D
  <2> HIDE DEF D
  <2> QED BY <1>5, LeftmostLeast
<1>7. f \o e = Append(f, EndMarker) /\ w \o e = Append(w, EndMarker)
  BY AppendIsConcat DEF e, Symbols, Lookahead
<1> QED BY <1>6, <1>7 DEF L

-----------------------------------------------------------------------------
(* What CFG::first and CFG::follow end with covers the derivations.        *)

\* What a concatenation starts with.
LEMMA FirstOfConcat ==
  ASSUME NEW u \in Seq(Symbols), NEW m \in Seq(Symbols)
  PROVE  /\ HasEpsilon(u \o m) <=> HasEpsilon(u) /\ HasEpsilon(m)
         /\ FirstTerminals(u \o m) = FirstTerminals(u) \cup IF HasEpsilon(u) THEN FirstTerminals(m) ELSE {}
<1> DEFINE s == u \o m
           n == Len(u)
           k == Len(m)
<1>1. /\ n \in Nat /\ k \in Nat /\ DOMAIN u = 1 .. n /\ DOMAIN m = 1 .. k
      /\ DOMAIN s = 1 .. n + k
      /\ \A i \in 1 .. n : s[i] = u[i]
      /\ \A i \in 1 .. k : s[n + i] = m[i]
  OBVIOUS
<1> HIDE DEF s, n, k
<1>2. \A i \in 1 .. n + k : i \in 1 .. n \/ (i - n \in 1 .. k /\ i = n + (i - n))
  BY <1>1
<1>3. \A i \in 1 .. k : n + i \in 1 .. n + k
  BY <1>1
<1>4. \A i \in 1 .. n : i \in 1 .. n + k
  BY <1>1
<1>5. HasEpsilon(s) <=> HasEpsilon(u) /\ HasEpsilon(m)
  <2>1. ASSUME HasEpsilon(s) PROVE HasEpsilon(u) /\ HasEpsilon(m)
    BY <1>1, <1>3, <1>4, <2>1 DEF HasEpsilon
  <2>2. ASSUME HasEpsilon(u), HasEpsilon(m) PROVE HasEpsilon(s)
    <3>1. ASSUME NEW i \in 1 .. n + k PROVE s[i] \in nullable
      <4>1. CASE i \in 1 .. n
        BY <1>1, <2>2, <4>1 DEF HasEpsilon
      <4>2. CASE i \notin 1 .. n
        <5> DEFINE q == i - n
        <5>1. q \in 1 .. k /\ i = n + q
          BY <1>1, <4>2
        <5> HIDE DEF q
        <5> QED BY <1>1, <2>2, <5>1 DEF HasEpsilon
      <4> QED BY <4>1, <4>2
    <3> QED BY <1>1, <3>1 DEF HasEpsilon
  <2> QED BY <2>1, <2>2
<1>6. ASSUME NEW t \in FirstTerminals(s) PROVE t \in FirstTerminals(u) \/ (HasEpsilon(u) /\ t \in FirstTerminals(m))
  <2>1. PICK i \in 1 .. n + k : (\A j \in 1 .. i - 1 : s[j] \in nullable) /\ t \in FirstOf(s[i])
    BY <1>1, <1>6 DEF FirstTerminals, Leading
  <2>2. CASE i \in 1 .. n
    <3>1. \A j \in 1 .. i - 1 : u[j] \in nullable
      BY <1>1, <2>1, <2>2
    <3>2. t \in FirstOf(u[i]) /\ i \in Leading(u)
      BY <1>1, <2>1, <2>2, <3>1 DEF Leading
    <3> QED BY <3>2 DEF FirstTerminals
  <2>3. CASE i - n \in 1 .. k
    <3> DEFINE q == i - n
    <3>1. q \in 1 .. k /\ i = n + q
      BY <1>1, <2>3
    <3> HIDE DEF q
    <3>2. HasEpsilon(u)
      <4>1. \A j \in 1 .. n : j \in 1 .. i - 1
        BY <1>1, <3>1
      <4> QED BY <1>1, <2>1, <4>1 DEF HasEpsilon
    <3>3. \A j \in 1 .. q - 1 : m[j] \in nullable
      <4>1. \A j \in 1 .. q - 1 : n + j \in 1 .. i - 1 /\ j \in 1 .. k
        BY <1>1, <3>1
      <4> QED BY <1>1, <2>1, <4>1
    <3>4. t \in FirstOf(m[q]) /\ q \in Leading(m)
      BY <1>1, <2>1, <3>1, <3>3 DEF Leading
    <3> QED BY <3>2, <3>4 DEF FirstTerminals
  <2> QED BY <1>2, <2>1, <2>2, <2>3
<1>7. ASSUME NEW t \in FirstTerminals(u) PROVE t \in FirstTerminals(s)
  <2>1. PICK i \in 1 .. n : (\A j \in 1 .. i - 1 : u[j] \in nullable) /\ t \in FirstOf(u[i])
    BY <1>1, <1>7 DEF FirstTerminals, Leading
  <2>2. \A j \in 1 .. i - 1 : s[j] \in nullable
    BY <1>1, <2>1
  <2>3. t \in FirstOf(s[i]) /\ i \in Leading(s)
    BY <1>1, <1>4, <2>1, <2>2 DEF Leading
  <2> QED BY <2>3 DEF FirstTerminals
<1>8. ASSUME NEW t \in FirstTerminals(m), HasEpsilon(u) PROVE t \in FirstTerminals(s)
  <2>1. PICK i \in 1 .. k : (\A j \in 1 .. i - 1 : m[j] \in nullable) /\ t \in FirstOf(m[i])
    BY <1>1, <1>8 DEF FirstTerminals, Leading
  <2>2. ASSUME NEW j \in 1 .. (n + i) - 1 PROVE s[j] \in nullable
    <3>1. CASE j \in 1 .. n
      BY <1>1, <1>8, <3>1 DEF HasEpsilon
    <3>2. CASE j \notin 1 .. n
      <4> DEFINE q == j - n
      <4>1. q \in 1 .. i - 1 /\ q \in 1 .. k /\ j = n + q
        BY <1>1, <2>1, <3>2
      <4> HIDE DEF q
      <4> QED BY <1>1, <2>1, <4>1
    <3> QED BY <3>1, <3>2
  <2>3. t \in FirstOf(s[n + i]) /\ n + i \in Leading(s)
    BY <1>1, <1>3, <2>1, <2>2 DEF Leading
  <2> QED BY <2>3 DEF FirstTerminals
<1>9. FirstTerminals(s) = FirstTerminals(u) \cup IF HasEpsilon(u) THEN FirstTerminals(m) ELSE {}
  BY <1>6, <1>7, <1>8
<1> QED BY <1>5, <1>9 DEF s

\* What one symbol starts with.
LEMMA FirstOfSymbol ==
  ASSUME NEW X
  PROVE  FirstTerminals(<<X>>) = FirstOf(X) /\ (HasEpsilon(<<X>>) <=> X \in nullable)
<1> DEFINE x == <<X>>
<1>1. DOMAIN x = {1} /\ x[1] = X
  OBVIOUS
<1> HIDE DEF x
<1>2. Leading(x) = {1}
  BY <1>1 DEF Leading
<1>3. FirstTerminals(x) = FirstOf(X)
  BY <1>1, <1>2 DEF FirstTerminals
<1>4. HasEpsilon(x) <=> X \in nullable
  BY <1>1 DEF HasEpsilon
<1> QED BY <1>3, <1>4 DEF x

\* FIRST of a string by its first symbol and its rest.
LEMMA FirstOfPair ==
  ASSUME NEW X \in Symbols, NEW m \in Seq(Symbols)
  PROVE  /\ HasEpsilon(<<X>> \o m) <=> X \in nullable /\ HasEpsilon(m)
         /\ FirstTerminals(<<X>> \o m) = FirstOf(X) \cup IF X \in nullable THEN FirstTerminals(m) ELSE {}
<1> DEFINE x == <<X>>
<1>1. x \in Seq(Symbols)
  OBVIOUS
<1>2. FirstTerminals(x) = FirstOf(X) /\ (HasEpsilon(x) <=> X \in nullable)
  BY FirstOfSymbol
<1> HIDE DEF x
<1>3. /\ HasEpsilon(x \o m) <=> HasEpsilon(x) /\ HasEpsilon(m)
      /\ FirstTerminals(x \o m) = FirstTerminals(x) \cup IF HasEpsilon(x) THEN FirstTerminals(m) ELSE {}
  BY <1>1, FirstOfConcat
<1> QED BY <1>2, <1>3 DEF x

\* What a production adds to the FIRST set of its head is there.
FirstDone(p) ==
  /\ FirstTerminals(p.body) \subseteq firsts[p.head]
  /\ HasEpsilon(p.body) => p.head \in nullable

\* How a word begins that a string derives.
Begins(f, w) == IF w = <<>> THEN HasEpsilon(f) ELSE w[1] \in FirstTerminals(f)

\* When a pass of CFG::first adds nothing, every word of a string begins as the sets say.
LEMMA FirstsComplete ==
  ASSUME NEW P, Typed(P), \A p \in P : FirstDone(p), NEW f \in Seq(Symbols), NEW w \in Seq(Lookahead),
         <<f, w>> \in Leftmost(P)
  PROVE  Begins(f, w)
<1> DEFINE D == {x \in Pairs : Begins(x[1], x[2])}
<1>1. <<<<>>, <<>>>> \in D
  <2> DEFINE none == <<>>
  <2>1. none \in Seq(Symbols) /\ none \in Seq(Lookahead) /\ Begins(none, none)
    BY DEF Begins, HasEpsilon
  <2> HIDE DEF none
  <2>2. <<none, none>> \in D
    BY <2>1 DEF Pairs
  <2> QED BY <2>2 DEF none
<1>2. ASSUME NEW a \in Lookahead, NEW h \in Seq(Symbols), NEW r \in Seq(Lookahead), <<h, r>> \in D
      PROVE  <<<<a>> \o h, <<a>> \o r>> \in D
  <2>1. a \in Symbols /\ a \notin NonTerminal
    BY LookaheadSymbols, SymbolsAssumption DEF Lookahead, GrammarSymbol
  <2>2. a \in FirstTerminals(<<a>> \o h)
    <3>1. FirstTerminals(<<a>> \o h) = FirstOf(a) \cup IF a \in nullable THEN FirstTerminals(h) ELSE {}
      BY <2>1, FirstOfPair
    <3> QED BY <2>1, <3>1 DEF FirstOf
  <2> DEFINE x == <<a>>
             xr == x \o r
             xh == x \o h
  <2>3. xr \in Seq(Lookahead) /\ xh \in Seq(Symbols) /\ Len(xr) # 0 /\ xr[1] = a
    BY <2>1
  <2>4. xr # <<>>
    <3> HIDE DEF xr
    <3> QED BY <2>3
  <2> HIDE DEF xr, xh
  <2>5. <<xh, xr>> \in D
    BY <2>2, <2>3, <2>4 DEF Begins, Pairs, xh
  <2> QED BY <2>5 DEF xr, xh
<1>3. ASSUME NEW q \in P, NEW h \in Seq(Symbols), NEW r \in Seq(Lookahead), <<q.body \o h, r>> \in D
      PROVE  <<<<q.head>> \o h, r>> \in D
  <2> DEFINE A == q.head
             b == q.body
  <2>1. A \in Symbols /\ A \in NonTerminal /\ b \in Seq(Symbols) /\ Begins(b \o h, r) /\ FirstDone(q)
    BY <1>3, TypedInSymbols DEF Typed
  <2>2. FirstTerminals(b) \subseteq firsts[A] /\ (HasEpsilon(b) => A \in nullable)
    BY <2>1 DEF FirstDone
  <2> HIDE DEF A, b
  <2>3. /\ HasEpsilon(b \o h) <=> HasEpsilon(b) /\ HasEpsilon(h)
        /\ FirstTerminals(b \o h) = FirstTerminals(b) \cup IF HasEpsilon(b) THEN FirstTerminals(h) ELSE {}
    BY <2>1, FirstOfConcat
  <2>4. /\ HasEpsilon(<<A>> \o h) <=> A \in nullable /\ HasEpsilon(h)
        /\ FirstTerminals(<<A>> \o h) = firsts[A] \cup IF A \in nullable THEN FirstTerminals(h) ELSE {}
    BY <2>1, FirstOfPair DEF FirstOf
  <2>5. Begins(<<A>> \o h, r)
    BY <2>1, <2>2, <2>3, <2>4 DEF Begins
  <2>6. <<A>> \o h \in Seq(Symbols)
    BY <2>1
  <2> QED BY <2>5, <2>6 DEF Pairs, A
<1>4. D \in SUBSET Pairs /\ Derivational(D, P)
  <2>1. D \in SUBSET Pairs
    OBVIOUS
  <2> HIDE DEF D
  <2> QED BY <1>1, <1>2, <1>3, <2>1 DEF Derivational
<1>5. <<f, w>> \in D
  <2> HIDE DEF D
  <2> QED BY <1>4, LeftmostLeast
<1> QED BY <1>5

\* What is behind a place of a concatenation: in its first part, and in its second.
LEMMA RestInFirst ==
  ASSUME NEW S, NEW u \in Seq(S), NEW m \in Seq(S), NEW i \in 1 .. Len(u)
  PROVE  Rest(u \o m, i) = Rest(u, i) \o m /\ Rest(u, i) \in Seq(S) /\ (u \o m)[i] = u[i]
<1> DEFINE s == u \o m
           n == Len(u)
           k == Len(m)
           a == SubSeq(s, i + 1, n + k)
           b == SubSeq(u, i + 1, n)
<1>1. /\ n \in Nat /\ k \in Nat /\ i \in 1 .. n
      /\ s \in Seq(S) /\ Len(s) = n + k
      /\ \A j \in 1 .. n : s[j] = u[j] /\ u[j] \in S
      /\ \A j \in 1 .. k : s[n + j] = m[j]
      /\ \A j \in 1 .. n + k : s[j] \in S
  OBVIOUS
<1>2. Rest(u \o m, i) = a /\ Rest(u, i) = b
  BY <1>1 DEF Rest
<1> HIDE DEF s
<1>3. a \in Seq(S) /\ Len(a) = n + k - i /\ \A j \in 1 .. n + k - i : a[j] = s[i + j]
  <2> HIDE DEF n, k
  <2>1. i + 1 \in Int /\ n + k \in Int /\ \A j \in i + 1 .. n + k : s[j] \in S
    BY <1>1
  <2>2. /\ a \in Seq(S) /\ Len(a) = IF i + 1 <= n + k THEN (n + k) - (i + 1) + 1 ELSE 0
        /\ \A j \in 1 .. (n + k) - (i + 1) + 1 : a[j] = s[(i + 1) + j - 1]
    BY <2>1, SubSeqProperties
  <2> HIDE DEF a
  <2>3. Len(a) = n + k - i
    BY <1>1, <2>2
  <2>4. ASSUME NEW j \in 1 .. n + k - i PROVE a[j] = s[i + j]
    <3>1. j \in 1 .. (n + k) - (i + 1) + 1 /\ (i + 1) + j - 1 = i + j
      BY <1>1
    <3> QED BY <2>2, <3>1
  <2> QED BY <2>2, <2>3, <2>4
<1>4. b \in Seq(S) /\ Len(b) = n - i /\ \A j \in 1 .. n - i : b[j] = u[i + j]
  <2> HIDE DEF n, k
  <2>1. i + 1 \in Int /\ n \in Int /\ \A j \in i + 1 .. n : u[j] \in S
    BY <1>1
  <2>2. /\ b \in Seq(S) /\ Len(b) = IF i + 1 <= n THEN n - (i + 1) + 1 ELSE 0
        /\ \A j \in 1 .. n - (i + 1) + 1 : b[j] = u[(i + 1) + j - 1]
    BY <2>1, SubSeqProperties
  <2> HIDE DEF b
  <2>3. Len(b) = n - i
    BY <1>1, <2>2
  <2>4. ASSUME NEW j \in 1 .. n - i PROVE b[j] = u[i + j]
    <3>1. j \in 1 .. n - (i + 1) + 1 /\ (i + 1) + j - 1 = i + j
      BY <1>1
    <3> QED BY <2>2, <3>1
  <2> QED BY <2>2, <2>3, <2>4
<1> HIDE DEF a, b
<1> DEFINE c == b \o m
<1>5. c \in Seq(S) /\ Len(c) = n - i + k
      /\ (\A j \in 1 .. n - i : c[j] = b[j]) /\ \A j \in 1 .. k : c[(n - i) + j] = m[j]
  <2>1. /\ c \in Seq(S) /\ Len(c) = Len(b) + Len(m)
        /\ \A j \in 1 .. Len(b) + Len(m) : c[j] = IF j <= Len(b) THEN b[j] ELSE m[j - Len(b)]
    BY <1>4, ConcatProperties
  <2>2. Len(b) = n - i /\ Len(m) = k /\ n - i \in Nat /\ k \in Nat
    BY <1>1, <1>4
  <2> HIDE DEF c, n, k
  <2>3. ASSUME NEW j \in 1 .. n - i PROVE c[j] = b[j]
    <3>1. j \in 1 .. Len(b) + Len(m) /\ j <= Len(b)
      BY <2>2
    <3> QED BY <2>1, <3>1
  <2>4. ASSUME NEW j \in 1 .. k PROVE c[(n - i) + j] = m[j]
    <3> DEFINE l == (n - i) + j
    <3>1. l \in 1 .. Len(b) + Len(m) /\ ~ (l <= Len(b)) /\ l - Len(b) = j
      BY <2>2
    <3> HIDE DEF l
    <3> QED BY <2>1, <3>1 DEF l
  <2> QED BY <2>1, <2>2, <2>3, <2>4
<1> HIDE DEF c, n, k
<1>6. ASSUME NEW j \in 1 .. Len(a) PROVE a[j] = c[j]
  <2>1. CASE j <= n - i
    <3>1. j \in 1 .. n - i /\ i + j \in 1 .. n /\ j \in 1 .. n + k - i
      BY <1>1, <1>3, <2>1
    <3> QED BY <1>1, <1>3, <1>4, <1>5, <3>1
  <2>2. CASE ~ (j <= n - i)
    <3> DEFINE q == j - (n - i)
    <3>1. q \in 1 .. k /\ j = (n - i) + q /\ i + j = n + q /\ j \in 1 .. n + k - i
      BY <1>1, <1>3, <2>2
    <3> HIDE DEF q
    <3> QED BY <1>1, <1>3, <1>5, <3>1
  <2> QED BY <2>1, <2>2
<1>7. a = c
  <2>1. Len(a) = Len(c)
    BY <1>1, <1>3, <1>5
  <2> QED BY <1>3, <1>5, <1>6, <2>1, SeqEqual
<1> QED BY <1>1, <1>2, <1>4, <1>7 DEF c, s, n

\* What is behind a place in the second of two strings.
LEMMA RestInSecond ==
  ASSUME NEW S, NEW u \in Seq(S), NEW m \in Seq(S), NEW i \in 0 .. Len(m)
  PROVE  Rest(u \o m, Len(u) + i) = Rest(m, i) /\ (i # 0 => (u \o m)[Len(u) + i] = m[i])
<1> DEFINE s == u \o m
           n == Len(u)
           k == Len(m)
           a == SubSeq(s, (n + i) + 1, n + k)
           b == SubSeq(m, i + 1, k)
<1>1. /\ n \in Nat /\ k \in Nat /\ i \in 0 .. k
      /\ s \in Seq(S) /\ Len(s) = n + k
      /\ \A j \in 1 .. k : s[n + j] = m[j] /\ m[j] \in S
      /\ \A j \in 1 .. n + k : s[j] \in S
  OBVIOUS
<1>2. Rest(u \o m, n + i) = a /\ Rest(m, i) = b
  BY <1>1 DEF Rest
<1> HIDE DEF s
<1>3. a \in Seq(S) /\ Len(a) = k - i /\ \A j \in 1 .. k - i : a[j] = s[(n + i) + j]
  <2> HIDE DEF n, k
  <2>1. (n + i) + 1 \in Int /\ n + k \in Int /\ \A j \in (n + i) + 1 .. n + k : s[j] \in S
    BY <1>1
  <2>2. /\ a \in Seq(S) /\ Len(a) = IF (n + i) + 1 <= n + k THEN (n + k) - ((n + i) + 1) + 1 ELSE 0
        /\ \A j \in 1 .. (n + k) - ((n + i) + 1) + 1 : a[j] = s[((n + i) + 1) + j - 1]
    BY <2>1, SubSeqProperties
  <2> HIDE DEF a
  <2>3. Len(a) = k - i
    BY <1>1, <2>2
  <2>4. ASSUME NEW j \in 1 .. k - i PROVE a[j] = s[(n + i) + j]
    <3>1. j \in 1 .. (n + k) - ((n + i) + 1) + 1 /\ ((n + i) + 1) + j - 1 = (n + i) + j
      BY <1>1
    <3> QED BY <2>2, <3>1
  <2> QED BY <2>2, <2>3, <2>4
<1>4. b \in Seq(S) /\ Len(b) = k - i /\ \A j \in 1 .. k - i : b[j] = m[i + j]
  <2> HIDE DEF n, k
  <2>1. i + 1 \in Int /\ k \in Int /\ \A j \in i + 1 .. k : m[j] \in S
    BY <1>1
  <2>2. /\ b \in Seq(S) /\ Len(b) = IF i + 1 <= k THEN k - (i + 1) + 1 ELSE 0
        /\ \A j \in 1 .. k - (i + 1) + 1 : b[j] = m[(i + 1) + j - 1]
    BY <2>1, SubSeqProperties
  <2> HIDE DEF b
  <2>3. Len(b) = k - i
    BY <1>1, <2>2
  <2>4. ASSUME NEW j \in 1 .. k - i PROVE b[j] = m[i + j]
    <3>1. j \in 1 .. k - (i + 1) + 1 /\ (i + 1) + j - 1 = i + j
      BY <1>1
    <3> QED BY <2>2, <3>1
  <2> QED BY <2>2, <2>3, <2>4
<1> HIDE DEF a, b, n, k
<1>6. ASSUME NEW j \in 1 .. Len(a) PROVE a[j] = b[j]
  <2>1. j \in 1 .. k - i /\ i + j \in 1 .. k /\ (n + i) + j = n + (i + j)
    BY <1>1, <1>3
  <2> QED BY <1>1, <1>3, <1>4, <2>1
<1>7. a = b
  <2>1. Len(a) = Len(b)
    BY <1>3, <1>4
  <2> QED BY <1>3, <1>4, <1>6, <2>1, SeqEqual
<1>8. i # 0 => s[n + i] = m[i]
  BY <1>1
<1> QED BY <1>2, <1>7, <1>8 DEF s, n

\* What may come behind a nonterminal of a string is in its FOLLOW set.
Fits(v) == \A i \in 1 .. Len(v) : v[i] \in NonTerminal => FirstTerminals(Rest(v, i)) \subseteq follows[v[i]]

\* What an occurrence of a nonterminal in a body adds to its FOLLOW set is there.
FollowDone(p, i) ==
  /\ FirstTerminals(Rest(p.body, i)) \subseteq follows[p.body[i]]
  /\ HasEpsilon(Rest(p.body, i)) => follows[p.head] \subseteq follows[p.body[i]]

\* Below the top everything fits that did before.
LEMMA FitsBelow ==
  ASSUME NEW X \in Symbols, NEW m \in Seq(Symbols), Fits(<<X>> \o m)
  PROVE  Fits(m) /\ (X \in NonTerminal => FirstTerminals(m) \subseteq follows[X])
<1> DEFINE x == <<X>>
           v == x \o m
<1>1. x \in Seq(Symbols) /\ Len(x) = 1 /\ x[1] = X
  OBVIOUS
<1>2. Len(v) = 1 + Len(m) /\ Len(m) \in Nat /\ v[1] = X
  BY <1>1
<1>3. Fits(v)
  OBVIOUS
<1>4. ASSUME NEW i \in 0 .. Len(m) PROVE Rest(v, 1 + i) = Rest(m, i) /\ (i # 0 => v[1 + i] = m[i])
  <2> HIDE DEF x
  <2>1. Rest(x \o m, Len(x) + i) = Rest(m, i) /\ (i # 0 => (x \o m)[Len(x) + i] = m[i])
    BY <1>1, RestInSecond
  <2> QED BY <1>1, <2>1
<1> HIDE DEF v
<1>5. Fits(m)
  <2> SUFFICES ASSUME NEW i \in 1 .. Len(m), m[i] \in NonTerminal PROVE FirstTerminals(Rest(m, i)) \subseteq follows[m[i]]
    BY DEF Fits
  <2>1. 1 + i \in 1 .. Len(v) /\ i \in 0 .. Len(m) /\ i # 0
    BY <1>2
  <2>2. Rest(v, 1 + i) = Rest(m, i) /\ v[1 + i] = m[i]
    BY <1>4, <2>1
  <2> QED BY <1>3, <2>1, <2>2 DEF Fits
<1>6. ASSUME X \in NonTerminal PROVE FirstTerminals(m) \subseteq follows[X]
  <2> DEFINE zero == 0
  <2>1. zero \in 0 .. Len(m) /\ 1 + zero = 1 /\ 1 \in 1 .. Len(v)
    BY <1>2
  <2>2. Rest(m, zero) = m
    <3>1. zero + 1 = 1
      OBVIOUS
    <3> QED BY <3>1, SubSeqFull DEF Rest
  <2> HIDE DEF zero
  <2>3. Rest(v, 1) = m
    BY <1>4, <2>1, <2>2
  <2> QED BY <1>2, <1>3, <1>6, <2>1, <2>3 DEF Fits
<1> QED BY <1>5, <1>6

\* And a body that replaces its head on top fits.
LEMMA FitsExpanded ==
  ASSUME NEW p, p.head \in NonTerminal, p.body \in Seq(Symbols), NEW m \in Seq(Symbols), Fits(<<p.head>> \o m),
         \A i \in 1 .. Len(p.body) : p.body[i] \in NonTerminal => FollowDone(p, i)
  PROVE  Fits(p.body \o m)
<1> DEFINE A == p.head
           b == p.body
           v == b \o m
<1>1. A \in Symbols /\ A \in NonTerminal /\ b \in Seq(Symbols) /\ Fits(<<A>> \o m)
  BY DEF Symbols, GrammarSymbol
<1>2. \A i \in 1 .. Len(b) : b[i] \in NonTerminal =>
        /\ FirstTerminals(Rest(b, i)) \subseteq follows[b[i]]
        /\ HasEpsilon(Rest(b, i)) => follows[A] \subseteq follows[b[i]]
  BY DEF FollowDone
<1> HIDE DEF A, b
<1>3. Fits(m) /\ FirstTerminals(m) \subseteq follows[A]
  BY <1>1, FitsBelow
<1>4. Len(v) = Len(b) + Len(m) /\ Len(b) \in Nat /\ Len(m) \in Nat
  BY <1>1
<1> SUFFICES ASSUME NEW i \in 1 .. Len(v), v[i] \in NonTerminal PROVE FirstTerminals(Rest(v, i)) \subseteq follows[v[i]]
  BY DEF Fits, A, b
<1>5. CASE i \in 1 .. Len(b)
  <2>1. Rest(v, i) = Rest(b, i) \o m /\ Rest(b, i) \in Seq(Symbols) /\ v[i] = b[i]
    BY <1>1, <1>5, RestInFirst
  <2> HIDE DEF v
  <2> DEFINE r == Rest(b, i)
  <2> HIDE DEF r
  <2>2. FirstTerminals(r \o m) = FirstTerminals(r) \cup IF HasEpsilon(r) THEN FirstTerminals(m) ELSE {}
    BY <2>1, FirstOfConcat DEF r
  <2>3. FirstTerminals(r) \subseteq follows[b[i]] /\ (HasEpsilon(r) => follows[A] \subseteq follows[b[i]])
    BY <1>2, <1>5, <2>1 DEF r
  <2> QED BY <1>3, <2>1, <2>2, <2>3 DEF r
<1>6. CASE i \notin 1 .. Len(b)
  <2> DEFINE q == i - Len(b)
  <2>1. q \in 1 .. Len(m) /\ q \in 0 .. Len(m) /\ q # 0 /\ i = Len(b) + q
    BY <1>4, <1>6
  <2> HIDE DEF q
  <2>2. Rest(v, i) = Rest(m, q) /\ v[i] = m[q]
    BY <1>1, <2>1, RestInSecond
  <2> HIDE DEF v
  <2> QED BY <1>3, <2>1, <2>2 DEF Fits
<1> QED BY <1>5, <1>6

-----------------------------------------------------------------------------
(* A finished table, and what is not read yet.                             *)

\* The entries of a production are there.
RowDone(p) == \A k \in FollowKeys(p) \cup FirstKeys(p) : k \in DOMAIN table /\ table[k] = p.body

FirstsDone == \A p \in grammar.productions : FirstDone(p)

FollowsDone ==
  /\ EndMarker \in follows[grammar.start]
  /\ \A x \in Occurrences : FollowDone(x[1], x[2])

RowsDone == \A p \in grammar.productions : RowDone(p)

\* No exception cut short what the parse goes by.
Finished == ~ threw /\ (phase = "parse" \/ (phase = "idle" /\ table # <<>>))

\* How far the sets and the table are.
Computed ==
  /\ phase = "first" => (~ added => \A p \in grammar.productions \ pending : FirstDone(p))
  /\ phase = "follow" => /\ FirstsDone
                         /\ EndMarker \in follows[grammar.start]
                         /\ ~ added => \A x \in Occurrences \ pending : FollowDone(x[1], x[2])
  /\ phase = "table" => FirstsDone /\ FollowsDone /\ \A p \in grammar.productions \ pending : RowDone(p)
  /\ Finished => FirstsDone /\ FollowsDone /\ RowsDone
  /\ phase \in {"first", "follow", "table"} =>
       at = 1 /\ stack = <<Symbol(grammar.start), Symbol(EndMarker)>>

\* The symbols not read yet.
Unread(w, k) == SubSeq(Append(w, EndMarker), k, Len(w) + 1)

\* What is left to match derives what is not read, if the grammar derives the word.
Derives ==
  phase = "parse" /\ ~ threw =>
    /\ Fits(Left(stack))
    /\ word \in Forms(grammar) => <<Left(stack), Unread(word, at)>> \in Leftmost(grammar.productions)

\* A word that is turned down is none of the grammar.
NullRight == answer = "null" /\ ~ threw => word \notin Forms(grammar)

Complete == Computed /\ Derives /\ NullRight

\* What is said of the sets and the table says the same as long as they stay.
LEMMA FirstDoneStays ==
  ASSUME firsts' = firsts, nullable' = nullable
  PROVE  /\ \A s : FirstTerminals(s)' = FirstTerminals(s) /\ (HasEpsilon(s)' <=> HasEpsilon(s))
         /\ \A p : FirstDone(p)' <=> FirstDone(p)
<1>1. ASSUME NEW s PROVE FirstTerminals(s)' = FirstTerminals(s) /\ (HasEpsilon(s)' <=> HasEpsilon(s))
  BY DEF FirstTerminals, HasEpsilon, Leading, FirstOf
<1>2. ASSUME NEW p PROVE FirstDone(p)' <=> FirstDone(p)
  BY <1>1 DEF FirstDone
<1> QED BY <1>1, <1>2

\* What is said of the FOLLOW sets stays as long as the sets do.
LEMMA FollowDoneStays ==
  ASSUME UNCHANGED sets
  PROVE  /\ \A p, i : FollowDone(p, i)' <=> FollowDone(p, i)
         /\ \A v : Fits(v)' <=> Fits(v)
         /\ \A p : FollowKeys(p)' = FollowKeys(p) /\ FirstKeys(p)' = FirstKeys(p)
<1>0. firsts' = firsts /\ nullable' = nullable /\ follows' = follows
  BY DEF sets
<1>1. ASSUME NEW p, NEW i PROVE FollowDone(p, i)' <=> FollowDone(p, i)
  BY <1>0, FirstDoneStays DEF FollowDone
<1>2. ASSUME NEW v PROVE Fits(v)' <=> Fits(v)
  BY <1>0, FirstDoneStays DEF Fits
<1>3. ASSUME NEW p PROVE FollowKeys(p)' = FollowKeys(p) /\ FirstKeys(p)' = FirstKeys(p)
  BY <1>0, FirstDoneStays DEF FollowKeys, FirstKeys
<1> QED BY <1>1, <1>2, <1>3

\* What is said of the sets and the table stays as long as these do.
LEMMA DoneStays ==
  ASSUME UNCHANGED <<grammar, sets>>
  PROVE  /\ FirstsDone' <=> FirstsDone
         /\ FollowsDone' <=> FollowsDone
         /\ Occurrences' = Occurrences
         /\ table' = table => \A p : RowDone(p)' <=> RowDone(p)
<1>0. firsts' = firsts /\ nullable' = nullable /\ follows' = follows /\ grammar' = grammar
  BY DEF sets
<1>1. FirstsDone' <=> FirstsDone
  BY <1>0, FirstDoneStays DEF FirstsDone
<1>2. Occurrences' = Occurrences
  BY <1>0 DEF Occurrences
<1>3. FollowsDone' <=> FollowsDone
  BY <1>0, <1>2, FollowDoneStays DEF FollowsDone
<1>4. ASSUME table' = table, NEW p PROVE RowDone(p)' <=> RowDone(p)
  BY <1>4, FollowDoneStays DEF RowDone
<1> QED BY <1>1, <1>2, <1>3, <1>4

\* A step of the parse leaves what it goes by.
LEMMA ParsingComputed ==
  ASSUME Computed, UNCHANGED parsing, phase = "parse", phase' \in {"parse", "idle"}
  PROVE  Computed'
<1>1. UNCHANGED <<grammar, sets>> /\ table' = table /\ threw' = threw
  BY DEF parsing
<1>2. Finished' => Finished
  BY <1>1 DEF Finished
<1>3. Finished' => (FirstsDone /\ FollowsDone /\ RowsDone)'
  BY <1>1, <1>2, DoneStays DEF Computed, RowsDone
<1> QED BY <1>3 DEF Computed

\* What is not read yet, symbol by symbol.
LEMMA UnreadSymbols ==
  ASSUME NEW w \in Seq(Terminal), NEW k \in 1 .. Len(w) + 1
  PROVE  /\ Unread(w, k) = <<Append(w, EndMarker)[k]>> \o Unread(w, k + 1)
         /\ Append(w, EndMarker)[k] \in Lookahead
         /\ Unread(w, k) \in Seq(Lookahead) /\ Unread(w, k + 1) \in Seq(Lookahead)
         /\ Unread(w, 1) = Append(w, EndMarker)
<1> DEFINE all == Append(w, EndMarker)
           n == Len(w) + 1
<1>1. all \in Seq(Lookahead) /\ Len(all) = n /\ n \in Nat /\ k \in 1 .. n
  <2>1. w \in Seq(Lookahead) /\ EndMarker \in Lookahead
    BY DEF Lookahead
  <2> QED BY <2>1
<1> HIDE DEF all, n
<1>2. \A i \in 1 .. n : all[i] \in Lookahead
  BY <1>1
<1>3. SubSeq(all, k, n) \in Seq(Lookahead) /\ SubSeq(all, k + 1, n) \in Seq(Lookahead)
  <2>1. k \in Int /\ k + 1 \in Int /\ n \in Int
    BY <1>1
  <2>2. (\A i \in k .. n : all[i] \in Lookahead) /\ (\A i \in k + 1 .. n : all[i] \in Lookahead)
    BY <1>1, <1>2
  <2>3. SubSeq(all, k, n) \in Seq(Lookahead)
    BY <2>1, <2>2, SubSeqProperties
  <2>4. SubSeq(all, k + 1, n) \in Seq(Lookahead)
    BY <2>1, <2>2, SubSeqProperties
  <2> QED BY <2>3, <2>4
<1>4. SubSeq(all, k, n) = <<all[k]>> \o SubSeq(all, k + 1, n)
  <2>1. k \in 1 .. Len(all) /\ n \in k .. Len(all)
    BY <1>1
  <2> QED BY <1>1, <2>1, SubSeqRecursiveFirst
<1>5. SubSeq(all, 1, n) = all
  BY <1>1, SubSeqFull
<1> QED BY <1>1, <1>2, <1>3, <1>4, <1>5 DEF Unread, all, n

\* What the stack is set up with fits, and derives the words of the grammar.
LEMMA StartDerives ==
  ASSUME grammar \in Grammars, EndMarker \in follows[grammar.start], nullable \subseteq NonTerminal,
         NEW w \in Seq(Terminal)
  PROVE  /\ Fits(<<grammar.start, EndMarker>>)
         /\ Unread(w, 1) = Append(w, EndMarker)
         /\ w \in Forms(grammar) => <<<<grammar.start, EndMarker>>, Append(w, EndMarker)>> \in Leftmost(grammar.productions)
<1> DEFINE S == grammar.start
           P == grammar.productions
           v == <<S, EndMarker>>
<1>1. S \in NonTerminal /\ Typed(P)
  BY GrammarTyped DEF Typed
<1>2. EndMarker \notin NonTerminal
  BY SymbolsAssumption DEF GrammarSymbol
<1>3. Fits(v)
  <2>1. Len(v) = 2 /\ v[1] = S /\ v[2] = EndMarker
    OBVIOUS
  <2>2. Rest(v, 1) = <<EndMarker>>
    <3> DEFINE x == <<S>>
               y == <<EndMarker>>
               zero == 0
    <3>1. v = x \o y
      BY TwoSymbols
    <3>2. x \in Seq(Symbols) /\ y \in Seq(Symbols) /\ Len(x) = 1 /\ zero \in 0 .. Len(y)
      BY <1>1 DEF Symbols, GrammarSymbol
    <3>3. Rest(y, zero) = y
      <4>1. zero + 1 = 1
        OBVIOUS
      <4> HIDE DEF y
      <4> QED BY <3>2, <4>1, SubSeqFull DEF Rest
    <3>4. Len(x) + zero = 1
      BY <3>2
    <3> HIDE DEF x, y, zero, v
    <3>5. Rest(x \o y, Len(x) + zero) = Rest(y, zero)
      BY <3>2, RestInSecond
    <3> QED BY <3>1, <3>3, <3>4, <3>5 DEF y
  <2>3. FirstTerminals(<<EndMarker>>) = {EndMarker}
    BY <1>2, FirstOfSymbol DEF FirstOf
  <2> HIDE DEF v
  <2>4. ASSUME NEW i \in 1 .. Len(v), v[i] \in NonTerminal PROVE FirstTerminals(Rest(v, i)) \subseteq follows[v[i]]
    <3>1. i = 1
      BY <1>2, <2>1, <2>4
    <3> QED BY <2>1, <2>2, <2>3, <3>1
  <2> QED BY <2>4 DEF Fits
<1>4. Unread(w, 1) = Append(w, EndMarker)
  <2>1. 1 \in 1 .. Len(w) + 1
    OBVIOUS
  <2> QED BY <2>1, UnreadSymbols
<1>5. ASSUME w \in Forms(grammar) PROVE <<v, Append(w, EndMarker)>> \in Leftmost(P)
  <2>1. <<<<S>>, w>> \in Leftmost(P)
    BY <1>1, <1>5, FormsLeftmost
  <2>2. <<S>> \in Seq(Symbols) /\ w \in Seq(Lookahead)
    BY <1>1 DEF Symbols, GrammarSymbol, Lookahead
  <2> DEFINE f == <<S>>
  <2> HIDE DEF f, P
  <2>3. <<Append(f, EndMarker), Append(w, EndMarker)>> \in Leftmost(P)
    BY <1>1, <2>1, <2>2, LeftmostWithEnd DEF f
  <2>4. Append(f, EndMarker) = v
    <3>1. Append(f, EndMarker) = f \o <<EndMarker>>
      BY <2>2, AppendIsConcat DEF f, Symbols
    <3> QED BY <3>1, TwoSymbols DEF f
  <2> QED BY <2>3, <2>4
<1> QED BY <1>3, <1>4, <1>5

\* A nonterminal on top derives what is not read by a body of its, and that body is in
\* the table at the next symbol.
LEMMA EntryFound ==
  ASSUME IndInv, Complete, ~ threw, OnSymbol(NonTerminal), word \in Forms(grammar)
  PROVE  LET key == <<Input[at], Top[2]>>
         IN  /\ key \in DOMAIN table
             /\ <<table[key] \o Left(Tail(stack)), Unread(word, at)>> \in Leftmost(grammar.productions)
<1> DEFINE A == Top[2]
           P == grammar.productions
           m == Left(Tail(stack))
           a == Append(word, EndMarker)[at]
           r == Unread(word, at)
           later == Unread(word, at + 1)
<1>1. phase = "parse" /\ A \in NonTerminal /\ stack # <<>> /\ TypeOK /\ stack \in Seq(Entries)
  BY DEF OnSymbol, IndInv, TypeOK
<1>2. A \in Symbols /\ Left(stack) = <<A>> \o m /\ at <= Len(word) + 1
  BY <1>1, OnTop
<1>3. m \in Seq(Symbols)
  BY <1>1, TopOfStack
<1>4. word \in Seq(Terminal) /\ at \in 1 .. Len(word) + 1
  BY <1>1, <1>2 DEF TypeOK
<1>5. r = <<a>> \o later /\ a \in Lookahead /\ r \in Seq(Lookahead) /\ later \in Seq(Lookahead)
  BY <1>4, UnreadSymbols
<1>6. Typed(P) /\ \A p \in P : p.head \in NonTerminal /\ p.body \in Seq(Symbols) /\ FirstDone(p) /\ RowDone(p)
  <2>1. Typed(P)
    BY <1>1, GrammarTyped DEF TypeOK, Typed
  <2>2. FirstsDone /\ RowsDone
    BY <1>1 DEF Complete, Computed, Finished
  <2> QED BY <2>1, <2>2, TypedInSymbols DEF Typed, FirstsDone, RowsDone
<1>7. <<<<A>> \o m, r>> \in Leftmost(P) /\ Fits(<<A>> \o m)
  BY <1>1, <1>2 DEF Complete, Derives
<1> HIDE DEF A, P, m, r, a, later
<1>8. PICK p \in P : p.head = A /\ <<p.body \o m, r>> \in Leftmost(P)
  <2>1. A \notin Lookahead
    BY <1>1, SymbolsAssumption DEF Lookahead, GrammarSymbol
  <2> QED BY <1>2, <1>3, <1>5, <1>6, <1>7, <2>1, LeftmostBegins
<1> DEFINE b == p.body
<1>9. b \in Seq(Symbols) /\ FirstDone(p) /\ RowDone(p)
  BY <1>6
<1>10. a \in FirstTerminals(b \o m)
  <2>1. Begins(b \o m, r)
    <3>1. b \o m \in Seq(Symbols)
      BY <1>3, <1>9
    <3> DEFINE f == b \o m
    <3> HIDE DEF f
    <3>2. Begins(f, r)
      BY <1>5, <1>6, <1>8, <3>1, FirstsComplete DEF f
    <3> QED BY <3>2 DEF f
  <2>2. Len(r) # 0 /\ r[1] = a
    BY <1>5
  <2>3. r # <<>>
    BY <2>2
  <2> QED BY <2>1, <2>2, <2>3 DEF Begins
<1>11. FirstTerminals(m) \subseteq follows[A]
  BY <1>1, <1>2, <1>3, <1>7, FitsBelow DEF A
<1>12. a \in FirstTerminals(b) \/ (HasEpsilon(b) /\ a \in follows[A])
  <2> HIDE DEF b
  <2>1. FirstTerminals(b \o m) = FirstTerminals(b) \cup IF HasEpsilon(b) THEN FirstTerminals(m) ELSE {}
    BY <1>3, <1>9, FirstOfConcat
  <2> QED BY <1>10, <1>11, <2>1
<1>13. <<a, A>> \in FollowKeys(p) \cup FirstKeys(p)
  BY <1>8, <1>12 DEF FollowKeys, FirstKeys
<1>14. <<a, A>> \in DOMAIN table /\ table[<<a, A>>] = b
  BY <1>9, <1>13 DEF RowDone
<1> QED BY <1>8, <1>14 DEF A, P, m, r, a, Input

\* A terminal on top, or the end, is the next symbol, and what is below derives the rest.
LEMMA TerminalFound ==
  ASSUME IndInv, Complete, ~ threw, OnSymbol(Lookahead), word \in Forms(grammar)
  PROVE  /\ Input[at] = Top[2]
         /\ <<Left(Tail(stack)), Unread(word, at + 1)>> \in Leftmost(grammar.productions)
<1> DEFINE X == Top[2]
           P == grammar.productions
           m == Left(Tail(stack))
           a == Append(word, EndMarker)[at]
           r == Unread(word, at)
           later == Unread(word, at + 1)
<1>1. phase = "parse" /\ X \in Lookahead /\ stack # <<>> /\ TypeOK /\ stack \in Seq(Entries)
  BY DEF OnSymbol, IndInv, TypeOK
<1>2. X \in Symbols /\ Left(stack) = <<X>> \o m /\ at <= Len(word) + 1
  BY <1>1, OnTop
<1>3. m \in Seq(Symbols)
  BY <1>1, TopOfStack
<1>4. word \in Seq(Terminal) /\ at \in 1 .. Len(word) + 1
  BY <1>1, <1>2 DEF TypeOK
<1>5. r = <<a>> \o later /\ a \in Lookahead /\ r \in Seq(Lookahead) /\ later \in Seq(Lookahead)
  BY <1>4, UnreadSymbols
<1>6. Typed(P) /\ X \notin NonTerminal /\ \A p \in P : p.head \in NonTerminal
  BY <1>1, GrammarTyped, SymbolsAssumption DEF TypeOK, Typed, Lookahead, GrammarSymbol
<1>7. <<<<X>> \o m, r>> \in Leftmost(P)
  BY <1>1, <1>2 DEF Complete, Derives
<1> HIDE DEF X, P, m, r, a, later
<1>8. PICK v \in Seq(Lookahead) : r = <<X>> \o v /\ <<m, v>> \in Leftmost(P)
  <2>1. ~ \E p \in P : p.head = X
    BY <1>6
  <2> QED BY <1>2, <1>3, <1>5, <1>6, <1>7, <2>1, LeftmostBegins
<1>9. X = a /\ v = later
  <2>1. <<X>> \o v = <<a>> \o later
    BY <1>5, <1>8
  <2> QED BY <1>1, <1>5, <2>1, FirstAndRest DEF X
<1> QED BY <1>8, <1>9 DEF X, P, m, a, later, Input

-----------------------------------------------------------------------------
(* The steps, once more.                                                   *)

\* A pass that ends, or a visit that adds nothing, has done what it had to.
LEMMA ComputingComplete ==
  ASSUME IndInv, Complete, Computing
  PROVE  Complete'
<1>0. /\ UNCHANGED <<grammar, word, at, stack, tree, calls>> /\ phase # "idle" /\ phase # "parse"
      /\ TypeOK
  BY DEF Computing, EndFirstPass, EndFollowPass, TableDone, VisitFirst, AddRow, Conflict, VisitFollow, IndInv
<1>1. /\ \A p \in grammar.productions : p.head \in NonTerminal
      /\ grammar.start \in NonTerminal
      /\ \A x \in Occurrences : x[1].body[x[2]] \in NonTerminal /\ x[1] \in grammar.productions
  BY <1>0, GrammarTyped DEF TypeOK, Occurrences
<1>2. /\ firsts \in [NonTerminal -> SUBSET Terminal]
      /\ follows \in [NonTerminal -> SUBSET Lookahead]
  BY <1>0 DEF TypeOK
<1>3. phase \in {"first", "follow", "table"} => at = 1 /\ stack = <<Symbol(grammar.start), Symbol(EndMarker)>>
  BY DEF Complete, Computed
<1>4. CASE EndFirstPass
  <2>1. /\ phase = "first" /\ pending = {} /\ added' = FALSE /\ UNCHANGED <<grammar, firsts, nullable, table, threw, word, at, stack, answer>>
        /\ \/ added /\ pending' = grammar.productions /\ phase' = phase /\ follows' = follows
           \/ ~ added /\ pending' = Occurrences /\ phase' = "follow"
              /\ follows' = [follows EXCEPT ![grammar.start] = @ \cup {EndMarker}]
    BY <1>4 DEF EndFirstPass
  <2>2. CASE added
    <3>1. phase' = "first" /\ pending' = grammar.productions
      BY <2>1, <2>2
    <3>2. Computed'
      BY <1>3, <2>1, <3>1 DEF Computed, Finished
    <3> QED BY <2>1, <3>1, <3>2 DEF Complete, Derives, NullRight, Forms, Closed
  <2>3. CASE ~ added
    <3>1. phase' = "follow" /\ pending' = Occurrences /\ EndMarker \in follows'[grammar.start]
      BY <1>1, <1>2, <2>1, <2>3
    <3>2. FirstsDone'
      <4>1. \A p \in grammar.productions : FirstDone(p)
        BY <2>1, <2>3 DEF Complete, Computed
      <4> QED BY <2>1, <4>1, FirstDoneStays DEF FirstsDone
    <3>3. Occurrences' = Occurrences
      BY <2>1 DEF Occurrences
    <3>4. Computed'
      BY <1>3, <2>1, <3>1, <3>2, <3>3 DEF Computed, Finished
    <3> QED BY <2>1, <3>1, <3>4 DEF Complete, Derives, NullRight, Forms, Closed
  <2> QED BY <2>2, <2>3
<1>5. ASSUME NEW p \in grammar.productions, VisitFirst(p) PROVE Complete'
  <2>1. /\ phase = "first" /\ p \in pending /\ pending' = pending \ {p}
        /\ firsts' = [firsts EXCEPT ![p.head] = @ \cup FirstTerminals(p.body)]
        /\ nullable' = IF HasEpsilon(p.body) THEN nullable \cup {p.head} ELSE nullable
        /\ added' = (added \/ firsts' # firsts \/ nullable' # nullable)
        /\ UNCHANGED <<grammar, follows, table, phase, threw, word, at, stack, answer>>
    BY <1>5 DEF VisitFirst
  <2>2. ASSUME ~ added', NEW q \in grammar.productions \ pending' PROVE FirstDone(q)'
    <3>1. ~ added /\ firsts' = firsts /\ nullable' = nullable
      BY <2>1, <2>2
    <3>2. CASE q = p
      <4>1. firsts'[p.head] = firsts[p.head] \cup FirstTerminals(p.body)
        BY <1>1, <1>2, <2>1
      <4>2. HasEpsilon(p.body) => p.head \in nullable'
        BY <2>1
      <4>3. FirstTerminals(p.body) \subseteq firsts[p.head] /\ (HasEpsilon(p.body) => p.head \in nullable)
        BY <3>1, <4>1, <4>2
      <4>4. FirstDone(p)
        BY <4>3 DEF FirstDone
      <4> QED BY <3>1, <3>2, <4>4, FirstDoneStays
    <3>3. CASE q # p
      <4>1. FirstDone(q)
        BY <2>1, <2>2, <3>1, <3>3 DEF Complete, Computed
      <4> QED BY <3>1, <4>1, FirstDoneStays
    <3> QED BY <3>2, <3>3
  <2>3. Computed'
    BY <1>3, <2>1, <2>2 DEF Computed, Finished
  <2> QED BY <2>1, <2>3 DEF Complete, Derives, NullRight, Forms, Closed
<1>6. ASSUME NEW x \in Occurrences, VisitFollow(x) PROVE Complete'
  <2> DEFINE p == x[1]
             i == x[2]
             B == p.body[i]
             rest == Rest(p.body, i)
  <2>1. /\ phase = "follow" /\ x \in pending /\ pending' = pending \ {x}
        /\ follows' = [follows EXCEPT ![B] = @ \cup FirstTerminals(rest)
                                               \cup IF HasEpsilon(rest) THEN follows[p.head] ELSE {}]
        /\ added' = (added \/ follows' # follows)
        /\ UNCHANGED <<grammar, firsts, nullable, table, phase, threw, word, at, stack, answer>>
    BY <1>6 DEF VisitFollow, Rest
  <2>2. B \in NonTerminal
    BY <1>1
  <2>3. follows'[B] = follows[B] \cup FirstTerminals(rest) \cup IF HasEpsilon(rest) THEN follows[p.head] ELSE {}
    BY <1>2, <2>1, <2>2
  <2>4. FirstsDone' /\ EndMarker \in follows'[grammar.start] /\ Occurrences' = Occurrences
    <3>1. FirstsDone /\ EndMarker \in follows[grammar.start]
      BY <2>1 DEF Complete, Computed
    <3>2. FirstsDone'
      BY <2>1, <3>1, FirstDoneStays DEF FirstsDone
    <3>3. follows[grammar.start] \subseteq follows'[grammar.start]
      <4> HIDE DEF B, rest, p
      <4>1. CASE grammar.start = B
        BY <2>3, <4>1
      <4>2. CASE grammar.start # B
        BY <1>1, <1>2, <2>1, <2>2, <4>2
      <4> QED BY <4>1, <4>2
    <3> QED BY <2>1, <3>1, <3>2, <3>3 DEF Occurrences
  <2>5. ASSUME ~ added', NEW y \in Occurrences \ pending' PROVE FollowDone(y[1], y[2])'
    <3>1. ~ added /\ follows' = follows /\ UNCHANGED sets
      BY <2>1, <2>5 DEF sets
    <3>2. CASE y = x
      <4>1. FollowDone(p, i)
        BY <2>3, <3>1 DEF FollowDone
      <4> QED BY <3>1, <3>2, <4>1, FollowDoneStays
    <3>3. CASE y # x
      <4>1. FollowDone(y[1], y[2])
        BY <2>1, <2>5, <3>1, <3>3 DEF Complete, Computed
      <4> QED BY <3>1, <4>1, FollowDoneStays
    <3> QED BY <3>2, <3>3
  <2> HIDE DEF p, i, B, rest
  <2>6. Computed'
    BY <1>3, <2>1, <2>4, <2>5 DEF Computed, Finished
  <2> QED BY <2>1, <2>6 DEF Complete, Derives, NullRight, Forms, Closed
<1>7. CASE EndFollowPass
  <2>1. /\ phase = "follow" /\ pending = {} /\ added' = FALSE /\ UNCHANGED <<grammar, sets, table, threw, word, at, stack, answer>>
        /\ \/ added /\ pending' = Occurrences /\ phase' = phase
           \/ ~ added /\ pending' = grammar.productions /\ phase' = "table"
    BY <1>7 DEF EndFollowPass
  <2>2. FirstsDone' /\ EndMarker \in follows'[grammar.start] /\ Occurrences' = Occurrences
    <3>1. FirstsDone /\ EndMarker \in follows[grammar.start]
      BY <2>1 DEF Complete, Computed
    <3> QED BY <2>1, <3>1, DoneStays DEF sets
  <2>3. CASE added
    <3>1. phase' = "follow" /\ pending' = Occurrences
      BY <2>1, <2>3
    <3>2. Computed'
      BY <1>3, <2>1, <2>2, <3>1 DEF Computed, Finished
    <3> QED BY <2>1, <3>1, <3>2 DEF Complete, Derives, NullRight, Forms, Closed
  <2>4. CASE ~ added
    <3>1. phase' = "table" /\ pending' = grammar.productions
      BY <2>1, <2>4
    <3>2. FollowsDone'
      <4>1. FollowsDone
        BY <2>1, <2>4 DEF Complete, Computed, FollowsDone
      <4> QED BY <2>1, <4>1, DoneStays
    <3>3. Computed'
      BY <1>3, <2>1, <2>2, <3>1, <3>2 DEF Computed, Finished
    <3> QED BY <2>1, <3>1, <3>3 DEF Complete, Derives, NullRight, Forms, Closed
  <2> QED BY <2>1, <2>3, <2>4
<1>8. ASSUME NEW p \in grammar.productions, AddRow(p) PROVE Complete'
  <2> DEFINE K == FollowKeys(p) \cup FirstKeys(p)
  <2>1. /\ phase = "table" /\ p \in pending /\ pending' = pending \ {p}
        /\ K \cap DOMAIN table = {} /\ table' = WithEntries(K, p)
        /\ UNCHANGED <<grammar, sets, phase, added, threw, word, at, stack, answer>>
    BY <1>8 DEF AddRow
  <2>2. FirstsDone' /\ FollowsDone'
    BY <2>1, DoneStays DEF Complete, Computed
  <2>3. ASSUME NEW q \in grammar.productions \ pending' PROVE RowDone(q)'
    <3>1. UNCHANGED sets
      BY <2>1
    <3>2. (FollowKeys(q) \cup FirstKeys(q))' = FollowKeys(q) \cup FirstKeys(q)
      BY <3>1, FollowDoneStays
    <3>3. ASSUME NEW k \in FollowKeys(q) \cup FirstKeys(q) PROVE k \in DOMAIN table' /\ table'[k] = q.body
      <4>1. CASE q = p
        BY <2>1, <3>3, <4>1 DEF WithEntries
      <4>2. CASE q # p
        <5>1. k \in DOMAIN table /\ table[k] = q.body
          BY <2>1, <2>3, <3>3, <4>2 DEF Complete, Computed, RowDone
        <5>2. k \notin K
          BY <2>1, <5>1
        <5> HIDE DEF K
        <5> QED BY <2>1, <5>1, <5>2 DEF WithEntries
      <4> QED BY <4>1, <4>2
    <3> QED BY <3>2, <3>3 DEF RowDone
  <2> HIDE DEF K
  <2>4. Computed'
    BY <1>3, <2>1, <2>2, <2>3 DEF Computed, Finished
  <2> QED BY <2>1, <2>4 DEF Complete, Derives, NullRight, Forms, Closed
<1>9. ASSUME NEW p \in grammar.productions, Conflict(p) PROVE Complete'
  <2>1. phase' = "idle" /\ threw' = TRUE
    BY <1>9 DEF Conflict
  <2> QED BY <2>1 DEF Complete, Computed, Finished, Derives, NullRight
<1>10. CASE TableDone
  <2>1. phase = "table" /\ pending = {} /\ phase' = "parse" /\ UNCHANGED <<grammar, sets, table, threw, word, at, stack, answer>>
    BY <1>10 DEF TableDone
  <2>2. FirstsDone /\ FollowsDone /\ RowsDone
    BY <2>1 DEF Complete, Computed, RowsDone
  <2>3. FirstsDone' /\ FollowsDone' /\ RowsDone'
    BY <2>1, <2>2, DoneStays DEF RowsDone
  <2>4. Computed'
    BY <2>1, <2>3 DEF Computed
  <2>5. Derives'
    <3> PICK v : v = <<grammar.start, EndMarker>>
      OBVIOUS
    <3>1. /\ Fits(v) /\ Unread(word, 1) = Append(word, EndMarker)
          /\ word \in Forms(grammar) => <<v, Append(word, EndMarker)>> \in Leftmost(grammar.productions)
      BY <1>0, <2>2, StartDerives DEF TypeOK, FollowsDone
    <3>2. at = 1 /\ Left(stack) = v
      BY <1>1, <1>3, <2>1, LeftOfStart
    <3>3. at' = 1 /\ Left(stack') = v /\ word' = word /\ grammar' = grammar
      BY <2>1, <3>2
    <3>4. Fits(v)'
      BY <2>1, <3>1, FollowDoneStays
    <3>5. Fits(Left(stack))'
      BY <3>3, <3>4 DEF Fits
    <3> QED BY <3>1, <3>3, <3>5 DEF Derives
  <2> QED BY <2>1, <2>4, <2>5 DEF Complete, NullRight, Forms, Closed
<1> QED BY <1>4, <1>5, <1>6, <1>7, <1>8, <1>9, <1>10 DEF Computing

\* A call goes by what is finished, or computes all of it.
LEMMA CallComplete ==
  ASSUME IndInv, Complete, NEW w \in Words, Call(w)
  PROVE  Complete'
<1>1. /\ phase = "idle" /\ word' = w /\ at' = 1 /\ answer' = "none"
      /\ stack' = <<Symbol(grammar.start), Symbol(EndMarker)>>
      /\ UNCHANGED <<grammar, follows, table, added, threw>>
      /\ \/ table = <<>> /\ phase' = "first" /\ pending' = grammar.productions
         \/ table # <<>> /\ phase' = "parse" /\ UNCHANGED <<firsts, nullable>>
  BY DEF Call, StartStacks
<1>2. grammar \in Grammars /\ nullable \subseteq NonTerminal /\ w \in Seq(Terminal) /\ grammar.start \in NonTerminal
  BY GrammarTyped, WordsAssumption DEF IndInv, TypeOK
<1>3. NullRight'
  BY <1>1 DEF NullRight
<1>4. CASE phase' = "first"
  <2>1. pending' = grammar.productions
    BY <1>1, <1>4
  <2>2. Computed'
    BY <1>1, <1>4, <2>1 DEF Computed, Finished
  <2> QED BY <1>3, <1>4, <2>2 DEF Complete, Derives
<1>5. CASE phase' = "parse"
  <2>1. table # <<>> /\ UNCHANGED <<grammar, sets>> /\ table' = table /\ threw' = threw
    BY <1>1, <1>5 DEF sets
  <2>2. Finished' => FirstsDone /\ FollowsDone /\ RowsDone
    BY <1>1, <2>1 DEF Finished, Complete, Computed
  <2>3. Computed'
    <3>1. Finished' => FirstsDone' /\ FollowsDone' /\ RowsDone'
      BY <2>1, <2>2, DoneStays DEF RowsDone
    <3> QED BY <1>5, <3>1 DEF Computed
  <2>4. Derives'
    <3> SUFFICES ASSUME ~ threw'
                 PROVE  /\ Fits(Left(stack))'
                        /\ w \in Forms(grammar) => <<Left(stack'), Unread(w, 1)>> \in Leftmost(grammar.productions)
      BY <1>1 DEF Derives
    <3> PICK v : v = <<grammar.start, EndMarker>>
      OBVIOUS
    <3>1. FollowsDone
      BY <1>5, <2>2 DEF Finished
    <3>2. /\ Fits(v) /\ Unread(w, 1) = Append(w, EndMarker)
          /\ w \in Forms(grammar) => <<v, Append(w, EndMarker)>> \in Leftmost(grammar.productions)
      BY <1>2, <3>1, StartDerives DEF FollowsDone
    <3>3. Left(stack') = v
      BY <1>1, <1>2, LeftOfStart
    <3>4. Fits(v)'
      BY <2>1, <3>2, FollowDoneStays
    <3>5. Fits(Left(stack))'
      BY <3>3, <3>4 DEF Fits
    <3> QED BY <3>2, <3>3, <3>5
  <2> QED BY <1>3, <2>3, <2>4 DEF Complete
<1> QED BY <1>1, <1>4, <1>5

\* A callback matches nothing.
LEMMA RunCallbackComplete ==
  ASSUME IndInv, Complete, RunCallback
  PROVE  Complete'
<1>1. /\ phase = "parse" /\ stack # <<>> /\ Top[1] = "callback" /\ stack' = Tail(stack)
      /\ UNCHANGED <<parsing, phase, at, answer>> /\ stack \in Seq(Entries)
  BY DEF RunCallback, IndInv, TypeOK
<1>2. Computed'
  BY <1>1, ParsingComputed DEF Complete
<1>3. Left(stack') = Left(stack)
  <2>1. Left(stack) = SymbolOf(Top) \o Left(Tail(stack)) /\ Left(Tail(stack)) \in Seq(Symbols)
    BY <1>1, TopOfStack
  <2>2. SymbolOf(Top) = <<>>
    BY <1>1 DEF SymbolOf
  <2> DEFINE m == Left(Tail(stack))
  <2> HIDE DEF m
  <2>3. <<>> \o m = m
    BY <2>1, ConcatEmptySeq DEF m
  <2> QED BY <1>1, <2>1, <2>2, <2>3 DEF m
<1>4. UNCHANGED sets /\ threw' = threw /\ word' = word /\ grammar' = grammar
  BY <1>1 DEF parsing
<1>5. Derives'
  <2> SUFFICES ASSUME ~ threw PROVE Fits(Left(stack))' /\ (word \in Forms(grammar) =>
                        <<Left(stack), Unread(word, at)>> \in Leftmost(grammar.productions))
    BY <1>1, <1>3, <1>4 DEF Derives
  <2> PICK v : v = Left(stack)
    OBVIOUS
  <2>1. Fits(v) /\ (word \in Forms(grammar) => <<Left(stack), Unread(word, at)>> \in Leftmost(grammar.productions))
    BY <1>1 DEF Complete, Derives
  <2>2. Fits(v)'
    BY <1>4, <2>1, FollowDoneStays
  <2> QED BY <1>3, <2>1, <2>2 DEF Fits
<1>6. NullRight'
  BY <1>1, <1>4 DEF Complete, NullRight
<1> QED BY <1>2, <1>5, <1>6 DEF Complete

\* When a terminal is matched, the rest of the stack derives the rest of the word.
LEMMA MatchTerminalComplete ==
  ASSUME IndInv, Complete, MatchTerminal
  PROVE  Complete'
<1>1. /\ phase = "parse" /\ stack # <<>> /\ OnSymbol(Lookahead) /\ stack' = Tail(stack) /\ at' = at + 1
      /\ UNCHANGED <<parsing, phase, answer>> /\ stack \in Seq(Entries)
  BY DEF MatchTerminal, OnSymbol, IndInv, TypeOK
<1>2. Computed'
  BY <1>1, ParsingComputed DEF Complete
<1>3. UNCHANGED sets /\ threw' = threw /\ word' = word /\ grammar' = grammar
  BY <1>1 DEF parsing
<1>4. Derives'
  <2> SUFFICES ASSUME ~ threw PROVE Fits(Left(stack))' /\ (word \in Forms(grammar) =>
                        <<Left(Tail(stack)), Unread(word, at + 1)>> \in Leftmost(grammar.productions))
    BY <1>1, <1>3 DEF Derives
  <2> PICK v : v = Left(Tail(stack))
    OBVIOUS
  <2>1. Fits(v)
    <3>1. Top[2] \in Symbols /\ Left(stack) = <<Top[2]>> \o v
      BY <1>1, OnTop
    <3>2. v \in Seq(Symbols)
      BY <1>1, TopOfStack
    <3>3. Fits(Left(stack))
      BY <1>1 DEF Complete, Derives
    <3> DEFINE X == Top[2]
    <3> HIDE DEF X
    <3>4. X \in Symbols /\ Fits(<<X>> \o v)
      BY <3>1, <3>3 DEF X
    <3> QED BY <3>2, <3>4, FitsBelow
  <2>2. Fits(v)'
    BY <1>3, <2>1, FollowDoneStays
  <2>3. word \in Forms(grammar) => <<Left(Tail(stack)), Unread(word, at + 1)>> \in Leftmost(grammar.productions)
    BY <1>1, TerminalFound
  <2> QED BY <1>1, <2>2, <2>3 DEF Fits
<1>5. NullRight'
  BY <1>1, <1>3 DEF Complete, NullRight
<1> QED BY <1>2, <1>4, <1>5 DEF Complete

\* The body that is pushed is the one that derives what is not read.
LEMMA ExpandComplete ==
  ASSUME IndInv, Complete, Expand
  PROVE  Complete'
<1> DEFINE A == Top[2]
           key == <<Append(word, EndMarker)[at], A>>
           body == table[key]
           p == [head |-> A, body |-> body]
           rest == Left(Tail(stack))
           E == EntriesOf(grammar.productions)
<1>1. /\ OnSymbol(NonTerminal) /\ key \in DOMAIN table /\ stack' = Pushed(A, body, Tail(stack))
      /\ UNCHANGED <<parsing, phase, at, answer>>
      /\ phase = "parse" /\ stack # <<>> /\ TypeOK /\ Reading /\ A \in NonTerminal
  BY DEF Expand, OnSymbol, Input, IndInv
<1>2. Computed'
  BY <1>1, ParsingComputed DEF Complete
<1>3. UNCHANGED sets /\ threw' = threw /\ word' = word /\ grammar' = grammar
  BY <1>1 DEF parsing
<1>4. p \in grammar.productions
  BY <1>1 DEF TypeOK
<1>5. p.head = A /\ p.body = body /\ body \in Seq(GrammarSymbol)
  BY <1>1, <1>4, GrammarTyped DEF TypeOK
<1>6. /\ Tail(stack) \in Seq(E) /\ rest \in Seq(Symbols)
      /\ \A i \in 1 .. Len(Tail(stack)) : ~ Starts(Tail(stack)[i])
  BY <1>1, TopOfStack DEF TypeOK, Reading
<1>7. Left(stack') = body \o rest
  <2> HIDE DEF p, body
  <2>1. LET pushed == Pushed(p.head, p.body, Tail(stack))
        IN  /\ pushed \in Seq(E)
            /\ pushed # <<>> /\ Head(pushed) = Callback(p.head, p.body, 0)
            /\ StartsOnTop(pushed)
            /\ Left(pushed) = p.body \o Left(Tail(stack))
    BY <1>4, <1>5, <1>6, LeftOfPushed
  <2> QED BY <1>1, <1>5, <2>1
<1>8. Derives'
  <2> SUFFICES ASSUME ~ threw PROVE Fits(Left(stack))' /\ (word \in Forms(grammar) =>
                        <<body \o rest, Unread(word, at)>> \in Leftmost(grammar.productions))
    BY <1>1, <1>3, <1>7 DEF Derives
  <2>1. Fits(body \o rest)
    <3>1. Fits(Left(stack)) /\ Left(stack) = <<A>> \o rest /\ FollowsDone
      BY <1>1, OnTop DEF Complete, Derives, Computed, Finished
    <3>2. \A i \in 1 .. Len(p.body) : p.body[i] \in NonTerminal => FollowDone(p, i)
      <4> SUFFICES ASSUME NEW i \in 1 .. Len(body), body[i] \in NonTerminal PROVE FollowDone(p, i)
        BY <1>5
      <4>1. i \in DOMAIN p.body
        <5>1. DOMAIN body = 1 .. Len(body)
          <6> HIDE DEF body
          <6> QED BY <1>5
        <5> QED BY <1>5, <5>1
      <4> DEFINE x == <<p, i>>
      <4>2. x \in {p} \X {j \in DOMAIN p.body : p.body[j] \in NonTerminal}
        BY <4>1, <1>5
      <4>3. x \in Occurrences
        BY <1>4, <4>2 DEF Occurrences
      <4>4. FollowDone(x[1], x[2])
        <5> HIDE DEF x
        <5> QED BY <3>1, <4>3 DEF FollowsDone
      <4> QED BY <4>4
    <3>3. p.body \in Seq(Symbols) /\ p.head \in NonTerminal
      <4> HIDE DEF body
      <4>1. body \in Seq(Symbols)
        BY <1>5 DEF Symbols
      <4> QED BY <1>1, <1>5, <4>1
    <3>4. Fits(<<p.head>> \o rest)
      BY <1>5, <3>1
    <3> HIDE DEF p, rest, A, body
    <3>5. Fits(p.body \o rest)
      BY <1>6, <3>2, <3>3, <3>4, FitsExpanded
    <3> QED BY <1>5, <3>5
  <2> PICK v : v = body \o rest
    OBVIOUS
  <2>2. Fits(v)'
    BY <1>3, <2>1, FollowDoneStays
  <2>3. word \in Forms(grammar) => <<body \o rest, Unread(word, at)>> \in Leftmost(grammar.productions)
    BY <1>1, EntryFound DEF Input
  <2> HIDE DEF body, rest
  <2> QED BY <1>7, <2>2, <2>3 DEF Fits
<1>9. NullRight'
  BY <1>1, <1>3 DEF Complete, NullRight
<1> QED BY <1>2, <1>8, <1>9 DEF Complete

\* Nothing is turned down that the grammar derives.
LEMMA RejectComplete ==
  ASSUME IndInv, Complete, Reject
  PROVE  Complete'
<1>1. /\ UNCHANGED parsing /\ phase' = "idle" /\ answer' = "null" /\ phase = "parse"
      /\ \/ OnSymbol(Lookahead) /\ Input[at] # Top[2]
         \/ OnSymbol(NonTerminal) /\ <<Input[at], Top[2]>> \notin DOMAIN table
  BY DEF Reject, OnSymbol
<1>2. Computed'
  BY <1>1, ParsingComputed DEF Complete
<1>3. ~ threw => word \notin Forms(grammar)
  BY <1>1, TerminalFound, EntryFound
<1>4. NullRight'
  <2>1. threw' = threw /\ word' = word /\ grammar' = grammar
    BY <1>1 DEF parsing
  <2> QED BY <1>3, <2>1 DEF NullRight
<1> QED BY <1>1, <1>2, <1>4 DEF Complete, Derives

\* An answer that is a tree changes nothing else.
LEMMA AcceptComplete ==
  ASSUME IndInv, Complete, Accept
  PROVE  Complete'
<1>1. UNCHANGED parsing /\ phase' = "idle" /\ answer' = "tree" /\ phase = "parse"
  BY DEF Accept
<1>2. Computed'
  BY <1>1, ParsingComputed DEF Complete
<1> QED BY <1>1, <1>2 DEF Complete, Derives, NullRight

\* How far the object is with its sets and its table, and what a finished table is for.
THEOREM CompleteInvariant == Spec => [](IndInv /\ Complete)
<1>1. Init => Complete
  BY DEF Init, Complete, Computed, Finished, Derives, NullRight
<1>2. IndInv /\ Complete /\ [Next]_vars => Complete'
  <2> SUFFICES ASSUME IndInv, Complete, [Next]_vars PROVE Complete'
    OBVIOUS
  <2>1. CASE Computing
    BY <2>1, ComputingComplete
  <2>2. CASE RunCallback
    BY <2>2, RunCallbackComplete
  <2>3. CASE MatchTerminal
    BY <2>3, MatchTerminalComplete
  <2>4. CASE Expand
    BY <2>4, ExpandComplete
  <2>5. CASE Reject
    BY <2>5, RejectComplete
  <2>6. CASE Accept
    BY <2>6, AcceptComplete
  <2>7. ASSUME NEW w \in Words, Call(w) PROVE Complete'
    BY <2>7, CallComplete
  <2>8. CASE UNCHANGED vars
    <3>1. UNCHANGED <<grammar, sets, table, phase, pending, added, threw, word, at, stack, answer>>
      BY <2>8 DEF vars
    <3>2. firsts' = firsts /\ nullable' = nullable /\ follows' = follows
      BY <3>1 DEF sets
    <3>3. Computed'
      BY <3>1, <3>2, DoneStays, FirstDoneStays, FollowDoneStays DEF Complete, Computed, Finished, RowsDone
    <3>4. Derives'
      <4> PICK v : v = Left(stack)
        OBVIOUS
      <4>1. Left(stack') = v /\ (Fits(v)' <=> Fits(v))
        BY <3>1, FollowDoneStays
      <4> QED BY <3>1, <4>1 DEF Complete, Derives, Fits
    <3> QED BY <3>1, <3>3, <3>4 DEF Complete, NullRight
  <2> QED BY <2>1, <2>2, <2>3, <2>4, <2>5, <2>6, <2>7, <2>8 DEF Next, Parsing
<1> QED BY <1>1, <1>2, IndInvariant, PTL DEF Spec

\* The answers of get_parse_tree: a tree for words of the grammar only, and, as long as no
\* call has thrown, for all of them.
THEOREM AnswersCorrect ==
  Spec => []( /\ answer = "tree" => frontier = word /\ word \in Forms(grammar)
              /\ answer = "null" /\ ~ threw => word \notin Forms(grammar) )
<1>1. IndInv /\ Complete => /\ answer = "tree" => frontier = word /\ word \in Forms(grammar)
                            /\ answer = "null" /\ ~ threw => word \notin Forms(grammar)
  BY DEF IndInv, TreeRight, Complete, NullRight
<1> QED BY <1>1, CompleteInvariant, PTL

-----------------------------------------------------------------------------
(* That they are the words which are derived.                              *)

\* What derives words one behind the other derives the words one behind the other.
LEMMA LeftmostConcatenates ==
  ASSUME NEW P, Typed(P), NEW e \in Seq(Symbols), NEW f \in Seq(Symbols), NEW u \in Seq(Lookahead), NEW v \in Seq(Lookahead),
         <<e, u>> \in Leftmost(P), <<f, v>> \in Leftmost(P)
  PROVE  <<e \o f, u \o v>> \in Leftmost(P)
<1> DEFINE L == Leftmost(P)
           D == {x \in Pairs : <<x[1] \o f, x[2] \o v>> \in L}
           none == <<>>
<1>0. Derivational(L, P)
  BY LeftmostClosed
<1>q. \A q \in P : q.head \in Symbols /\ q.body \in Seq(Symbols)
  BY TypedInSymbols
<1> HIDE DEF L
<1>1. <<none, none>> \in D
  <2>1. none \in Seq(Symbols) /\ none \in Seq(Lookahead) /\ none \o f = f /\ none \o v = v
    BY ConcatEmptySeq
  <2> HIDE DEF none
  <2>2. <<none, none>> \in Pairs
    BY <2>1 DEF Pairs
  <2>3. <<none \o f, none \o v>> \in L
    BY <2>1 DEF L
  <2> QED BY <2>2, <2>3
<1>2. ASSUME NEW a \in Lookahead, NEW g \in Seq(Symbols), NEW w \in Seq(Lookahead), <<g, w>> \in D
      PROVE  <<<<a>> \o g, <<a>> \o w>> \in D
  <2> DEFINE b == <<a>>
  <2>1. b \in Seq(Symbols) /\ b \in Seq(Lookahead)
    BY LookaheadSymbols
  <2>2. g \o f \in Seq(Symbols) /\ w \o v \in Seq(Lookahead) /\ <<g \o f, w \o v>> \in L
    <3>1. g \o f \in Seq(Symbols) /\ w \o v \in Seq(Lookahead)
      BY ConcatProperties
    <3>2. <<g \o f, w \o v>> \in L
      BY <1>2
    <3> QED BY <3>1, <3>2
  <2>3. <<b \o (g \o f), b \o (w \o v)>> \in L
    BY <1>0, <2>2 DEF Derivational
  <2> HIDE DEF b
  <2>4. b \o (g \o f) = (b \o g) \o f
    BY <2>1, SymbolsAssociate
  <2>5. b \o (w \o v) = (b \o w) \o v
    BY <2>1, WordsAssociate
  <2>6. <<b \o g, b \o w>> \in Pairs
    <3>1. b \o g \in Seq(Symbols) /\ b \o w \in Seq(Lookahead)
      BY <2>1
    <3> QED BY <3>1 DEF Pairs
  <2>7. <<b \o g, b \o w>> \in D
    BY <2>3, <2>4, <2>5, <2>6
  <2> QED BY <2>7 DEF b
<1>3. ASSUME NEW p \in P, NEW g \in Seq(Symbols), NEW w \in Seq(Lookahead), <<p.body \o g, w>> \in D
      PROVE  <<<<p.head>> \o g, w>> \in D
  <2> DEFINE b == p.body
             h == <<p.head>>
  <2>1. b \in Seq(Symbols) /\ h \in Seq(Symbols)
    BY <1>q
  <2>2. <<(b \o g) \o f, w \o v>> \in L /\ g \o f \in Seq(Symbols) /\ w \o v \in Seq(Lookahead)
    <3>1. g \o f \in Seq(Symbols) /\ w \o v \in Seq(Lookahead)
      BY ConcatProperties
    <3>2. <<(b \o g) \o f, w \o v>> \in L
      BY <1>3
    <3> QED BY <3>1, <3>2
  <2> HIDE DEF b, h
  <2>3. (b \o g) \o f = b \o (g \o f)
    BY <2>1, SymbolsAssociate
  <2>4. <<h \o (g \o f), w \o v>> \in L
    <3>1. <<b \o (g \o f), w \o v>> \in L
      BY <2>2, <2>3
    <3> QED BY <1>0, <2>2, <3>1 DEF Derivational, b, h
  <2>5. (h \o g) \o f = h \o (g \o f)
    BY <2>1, SymbolsAssociate
  <2>6. <<h \o g, w>> \in Pairs
    <3>1. h \o g \in Seq(Symbols)
      BY <2>1
    <3> QED BY <3>1 DEF Pairs
  <2>7. <<h \o g, w>> \in D
    BY <2>4, <2>5, <2>6
  <2> QED BY <2>7 DEF h
<1>4. <<e, u>> \in D
  <2>1. D \in SUBSET Pairs
    OBVIOUS
  <2>2. Derivational(D, P)
    <3> HIDE DEF D
    <3> QED BY <1>1, <1>2, <1>3 DEF Derivational
  <2>3. <<e, u>> \in L
    BY DEF L
  <2> HIDE DEF D
  <2> QED BY <2>1, <2>2, <2>3, LeftmostLeast DEF L
<1> QED BY <1>4 DEF L

\* Words that their heads derive.
Derived(L, P) == \A A \in DOMAIN L : \A w \in L[A] : <<<<A>>, w>> \in Leftmost(P)

\* Words and strings of symbols among the strings LLParser is about.
LEMMA TypesWithin ==
  /\ \A f \in Seq(GrammarSymbol) : f \in Seq(Symbols)
  /\ \A w \in Seq(Terminal) : w \in Seq(Lookahead) /\ w \in Seq(Symbols) /\ w \in Seq(GrammarSymbol)
BY DEF Symbols, Lookahead, GrammarSymbol

\* Then the words of a body are derived from it.
LEMMA BodyWordsDerived ==
  ASSUME NEW P, Typed(P), NEW L, WordsOfHeads(L), Derived(L, P), NEW n \in Nat, NEW body \in Seq(GrammarSymbol),
         NEW w \in BodyWords(n, L, body)
  PROVE  <<body, w>> \in Leftmost(P)
<1> DEFINE M == Leftmost(P)
           T == {f \in Seq(GrammarSymbol) : \A x \in BodyWords(n, L, f) : <<f, x>> \in M}
           none == <<>>
<1>0. Derivational(M, P)
  BY LeftmostClosed
<1>1. none \in T
  <2>1. BodyWords(n, L, none) = {none}
    BY BodyOfNothing
  <2>2. <<none, none>> \in M
    <3> HIDE DEF M
    <3> QED BY <1>0 DEF Derivational
  <2>3. none \in Seq(GrammarSymbol)
    OBVIOUS
  <2> HIDE DEF none, M
  <2> QED BY <2>1, <2>2, <2>3
<1>2. ASSUME NEW X \in GrammarSymbol, NEW f \in Seq(GrammarSymbol), f \in T PROVE <<X>> \o f \in T
  <2> DEFINE s == <<X>>
  <2>0. s \o f \in Seq(GrammarSymbol)
    OBVIOUS
  <2> SUFFICES ASSUME NEW x \in BodyWords(n, L, s \o f) PROVE <<s \o f, x>> \in M
    <3> HIDE DEF M, s
    <3> QED BY <2>0 DEF s
  <2>1. PICK u \in SymbolWords(L, X), v \in BodyWords(n, L, f) : x = u \o v /\ Len(x) <= n
    BY BodyTakenApart
  <2>2. u \in Seq(Terminal) /\ v \in Seq(Terminal)
    BY SymbolWordsTyped, BodyWordsTyped
  <2>3. u \in Seq(Lookahead) /\ v \in Seq(Lookahead) /\ s \in Seq(Symbols) /\ f \in Seq(Symbols)
    <3>1. s \in Seq(GrammarSymbol)
      OBVIOUS
    <3> HIDE DEF s
    <3> QED BY <2>2, <3>1, TypesWithin
  <2>4. <<f, v>> \in M
    <3> HIDE DEF M
    <3> QED BY <1>2
  <2>5. <<s, u>> \in M
    <3>1. CASE X \in Terminal
      <4>1. u = s
        BY <3>1 DEF SymbolWords
      <4> HIDE DEF s
      <4> QED BY <2>3, <4>1, WordsDeriveThemselves
    <3>2. CASE X \notin Terminal
      <4>1. X \in DOMAIN L /\ u \in L[X]
        BY <3>2 DEF SymbolWords
      <4> QED BY <4>1 DEF Derived
    <3> QED BY <3>1, <3>2
  <2> HIDE DEF s
  <2>6. <<s \o f, u \o v>> \in M
    BY <2>3, <2>4, <2>5, LeftmostConcatenates
  <2> QED BY <2>1, <2>6
<1>3. Seq(GrammarSymbol) \subseteq T
  <2> HIDE DEF T
  <2> QED BY <1>1, <1>2, FromTheFront
<1> HIDE DEF M
<1>4. <<body, w>> \in M
  BY <1>3
<1> QED BY <1>4 DEF M

\* What DerivedWords collects is derived.
LEMMA DerivedWordsSound ==
  ASSUME NEW g, Typed(g.productions), NEW n \in Nat
  PROVE  \A h \in Nat : Derived(WordsByHeight(g, n)[h], g.productions)
<1> DEFINE P == g.productions
           H == Heads(P)
           steps == WordsByHeight(g, n)
           T == {h \in Nat : Derived(steps[h], P)}
<1>0. IsByHeight(steps, g, n)
  BY WordsByHeightUnfold
<1> HIDE DEF steps
<1>1. 0 \in T
  BY <1>0 DEF IsByHeight, Derived
<1>2. ASSUME NEW h \in Nat, h \in T PROVE h + 1 \in T
  <2>1. steps[h + 1] = Higher(n, g, steps[h]) /\ WordsOfHeads(steps[h]) /\ h + 1 \in Nat
    BY <1>0 DEF IsByHeight
  <2>2. ASSUME NEW A \in DOMAIN Higher(n, g, steps[h]), NEW w \in Higher(n, g, steps[h])[A]
        PROVE  <<<<A>>, w>> \in Leftmost(P)
    <3>1. A \in H /\ \E body \in Bodies(P, A) : w \in BodyWords(n, steps[h], body)
      BY <2>2 DEF Higher
    <3>2. PICK p \in P : p.head = A /\ w \in BodyWords(n, steps[h], p.body)
      BY <3>1 DEF Bodies
    <3>3. p.body \in Seq(GrammarSymbol) /\ Derived(steps[h], P)
      BY <1>2 DEF Typed
    <3>4. <<p.body, w>> \in Leftmost(P) /\ w \in Seq(Terminal)
      BY <2>1, <3>2, <3>3, BodyWordsDerived, BodyWordsTyped
    <3> DEFINE b == p.body
               none == <<>>
               s == <<p.head>>
    <3>5. b \o none = b /\ s \o none = s /\ none \in Seq(Symbols) /\ w \in Seq(Lookahead)
      BY <3>3, <3>4, ConcatEmptySeq, TypesWithin
    <3>6. <<b, w>> \in Leftmost(P)
      BY <3>4
    <3> HIDE DEF b, none, s
    <3>7. <<b \o none, w>> \in Leftmost(P)
      BY <3>5, <3>6
    <3>8. <<s \o none, w>> \in Leftmost(P)
      BY <3>5, <3>7, LeftmostClosed DEF Derivational, b, s
    <3>9. <<s, w>> \in Leftmost(P)
      BY <3>5, <3>8
    <3> QED BY <3>2, <3>9 DEF s
  <2>3. Derived(Higher(n, g, steps[h]), P)
    BY <2>2 DEF Derived
  <2> QED BY <2>1, <2>3
<1>3. Nat \subseteq T
  <2> HIDE DEF T
  <2> QED BY <1>1, <1>2, InductionOnNat
<1> QED BY <1>3 DEF steps

Splits(n, L, b, f, w) == \E u \in BodyWords(n, L, b), v \in BodyWords(n, L, f) : w = u \o v

\* A word of two strings, one behind the other, is one of each.
LEMMA BodySplit ==
  ASSUME NEW L, WordsOfHeads(L), NEW n \in Nat, NEW b \in Seq(GrammarSymbol), NEW f \in Seq(GrammarSymbol),
         NEW w \in BodyWords(n, L, b \o f)
  PROVE  Splits(n, L, b, f, w)
<1> USE DEF Splits
<1> DEFINE T == {g \in Seq(GrammarSymbol) : \A x \in BodyWords(n, L, g \o f) : Splits(n, L, g, f, x)}
           none == <<>>
<1>1. none \in T
  <2>1. BodyWords(n, L, none) = {none}
    BY BodyOfNothing
  <2>2. none \in Seq(GrammarSymbol) /\ none \o f = f
    BY ConcatEmptySeq
  <2>3. ASSUME NEW x \in BodyWords(n, L, f) PROVE none \o x = x
    <3>1. x \in Seq(Terminal)
      BY BodyWordsTyped
    <3> QED BY <3>1, ConcatEmptySeq
  <2> HIDE DEF none
  <2> QED BY <2>1, <2>2, <2>3
<1>2. ASSUME NEW X \in GrammarSymbol, NEW g \in Seq(GrammarSymbol), g \in T PROVE <<X>> \o g \in T
  <2> DEFINE s == <<X>>
  <2>0. s \in Seq(GrammarSymbol) /\ s \o g \in Seq(GrammarSymbol) /\ g \o f \in Seq(GrammarSymbol)
    OBVIOUS
  <2> SUFFICES ASSUME NEW x \in BodyWords(n, L, (s \o g) \o f) PROVE Splits(n, L, s \o g, f, x)
    <3> HIDE DEF s
    <3> QED BY <2>0 DEF s
  <2>1. (s \o g) \o f = s \o (g \o f)
    <3> HIDE DEF s
    <3> QED BY <2>0, ConcatAssociative
  <2>2. PICK u \in SymbolWords(L, X), v \in BodyWords(n, L, g \o f) : x = u \o v /\ Len(x) <= n
    <3> x \in BodyWords(n, L, <<X>> \o (g \o f))
      BY <2>1
    <3> QED BY <2>0, BodyTakenApart
  <2>3. PICK y \in BodyWords(n, L, g), z \in BodyWords(n, L, f) : v = y \o z
    BY <1>2
  <2>4. u \in Seq(Terminal) /\ y \in Seq(Terminal) /\ z \in Seq(Terminal)
    BY SymbolWordsTyped, BodyWordsTyped
  <2>5. u \o (y \o z) = (u \o y) \o z
    BY <2>4, TypesWithin, WordsAssociate
  <2>6. Len(u \o y) <= n
    <3>1. /\ Len((u \o y) \o z) = Len(u \o y) + Len(z) /\ Len(u \o y) \in Nat /\ Len(z) \in Nat
      <4>1. u \o y \in Seq(Terminal)
        BY <2>4
      <4> DEFINE t == u \o y
      <4> HIDE DEF t
      <4>2. Len(t \o z) = Len(t) + Len(z) /\ Len(t) \in Nat /\ Len(z) \in Nat
        BY <2>4, <4>1 DEF t
      <4> QED BY <4>2 DEF t
    <3> QED BY <2>2, <2>3, <2>5, <3>1
  <2>7. u \o y \in BodyWords(n, L, s \o g)
    BY <2>6, BodyPutTogether
  <2> QED BY <2>2, <2>3, <2>5, <2>7
<1>3. Seq(GrammarSymbol) \subseteq T
  <2> HIDE DEF T
  <2> QED BY <1>1, <1>2, FromTheFront
<1> QED BY <1>3

\* What is left of a string over S without its first symbol.
LEMMA RestTyped ==
  ASSUME NEW S, NEW R, NEW a, NEW f \in Seq(R), <<a>> \o f \in Seq(S)
  PROVE  a \in S /\ f \in Seq(S)
<1> DEFINE g == <<a>> \o f
<1>1. Len(g) = Len(f) + 1 /\ Len(f) \in Nat /\ g[1] = a /\ \A i \in 1 .. Len(f) : g[i + 1] = f[i]
  OBVIOUS
<1>2. g \in Seq(S)
  OBVIOUS
<1> HIDE DEF g
<1>3. \A i \in 1 .. Len(g) : g[i] \in S
  BY <1>2, ElementOfSeq
<1>4. a \in S
  BY <1>1, <1>3
<1>5. ASSUME NEW i \in 1 .. Len(f) PROVE f[i] \in S
  <2>1. i + 1 \in 1 .. Len(g)
    BY <1>1
  <2> QED BY <1>1, <1>3, <2>1
<1>6. f \in Seq(S)
  <2>1. f = [i \in 1 .. Len(f) |-> f[i]]
    OBVIOUS
  <2>2. [i \in 1 .. Len(f) |-> f[i]] \in Seq(S)
    BY <1>1, <1>5, IsASeq
  <2> QED BY <2>1, <2>2
<1> QED BY <1>4, <1>6

\* All that is derived is collected.
LEMMA DerivedWordsComplete ==
  ASSUME NEW g, Typed(g.productions), IsFiniteSet(Heads(g.productions)), NEW n \in Nat,
         NEW body \in Seq(GrammarSymbol), NEW w \in Seq(Terminal), Len(w) <= n, <<body, w>> \in Leftmost(g.productions)
  PROVE  w \in BodyWords(n, DerivedWords(g, n), body)
<1> DEFINE P == g.productions
           L == DerivedWords(g, n)
           D == {x \in Pairs : x[1] \in Seq(GrammarSymbol) /\ x[2] \in Seq(Terminal) /\ Len(x[2]) <= n
                                 => x[2] \in BodyWords(n, L, x[1])}
           none == <<>>
<1>0. WordsOfHeads(L) /\ DOMAIN L = Heads(P)
  <2>1. (n + 1) * Cardinality(Heads(P)) \in Nat
    BY FS_CardinalityType
  <2> QED BY <2>1, WordsByHeightUnfold DEF DerivedWords, IsByHeight
<1>a. \A A \in Heads(P) : Higher(n, g, L)[A] \subseteq L[A]
  BY NothingNew
<1>q. \A q \in P : q.head \in Symbols /\ q.body \in Seq(Symbols)
  BY TypedInSymbols
<1> HIDE DEF L
<1>1. <<none, none>> \in D
  <2>1. none \in Seq(Symbols) /\ none \in Seq(Lookahead)
    OBVIOUS
  <2>2. BodyWords(n, L, none) = {none}
    BY <1>0, BodyOfNothing
  <2> HIDE DEF none
  <2> QED BY <2>1, <2>2 DEF Pairs
<1>2. ASSUME NEW a \in Lookahead, NEW f \in Seq(Symbols), NEW u \in Seq(Lookahead), <<f, u>> \in D
      PROVE  <<<<a>> \o f, <<a>> \o u>> \in D
  <2> DEFINE s == <<a>>
  <2>1. s \o f \in Seq(Symbols) /\ s \o u \in Seq(Lookahead)
    BY LookaheadSymbols
  <2> SUFFICES ASSUME s \o f \in Seq(GrammarSymbol), s \o u \in Seq(Terminal), Len(s \o u) <= n
               PROVE  s \o u \in BodyWords(n, L, s \o f)
    <3> HIDE DEF s
    <3> QED BY <2>1 DEF Pairs, s
  <2>2. a \in GrammarSymbol /\ f \in Seq(GrammarSymbol)
    BY RestTyped
  <2>3. a \in Terminal /\ u \in Seq(Terminal)
    BY RestTyped
  <2>4. Len(u) <= n
    <3>1. Len(s \o u) = 1 + Len(u) /\ Len(u) \in Nat
      OBVIOUS
    <3> HIDE DEF s
    <3> QED BY <3>1
  <2>5. u \in BodyWords(n, L, f)
    BY <1>2, <2>2, <2>3, <2>4
  <2>6. s \in SymbolWords(L, a)
    BY <2>3 DEF SymbolWords
  <2> QED BY <1>0, <2>2, <2>5, <2>6, BodyPutTogether
<1>3. ASSUME NEW p \in P, NEW f \in Seq(Symbols), NEW u \in Seq(Lookahead), <<p.body \o f, u>> \in D
      PROVE  <<<<p.head>> \o f, u>> \in D
  <2> DEFINE s == <<p.head>>
             b == p.body
  <2>1. s \o f \in Seq(Symbols)
    BY <1>q
  <2>0. p.head \in NonTerminal /\ b \in Seq(GrammarSymbol) /\ p.head \in GrammarSymbol /\ p.head \in Heads(P)
    BY DEF Typed, GrammarSymbol, Heads
  <2> SUFFICES ASSUME s \o f \in Seq(GrammarSymbol), u \in Seq(Terminal), Len(u) <= n
               PROVE  u \in BodyWords(n, L, s \o f)
    <3> HIDE DEF s
    <3> QED BY <2>1 DEF Pairs, s
  <2>2. f \in Seq(GrammarSymbol)
    BY RestTyped
  <2>3. u \in BodyWords(n, L, b \o f)
    <3>1. b \o f \in Seq(GrammarSymbol)
      BY <2>0, <2>2
    <3>2. <<b \o f, u>> \in D
      BY <1>3
    <3> HIDE DEF b
    <3> QED BY <3>1, <3>2
  <2>4. PICK x \in BodyWords(n, L, b), y \in BodyWords(n, L, f) : u = x \o y
    <3> HIDE DEF b
    <3>1. Splits(n, L, b, f, u)
      BY <1>0, <2>0, <2>2, <2>3, BodySplit
    <3> QED BY <3>1 DEF Splits
  <2>5. x \in L[p.head]
    <3>1. b \in Bodies(P, p.head)
      BY DEF Bodies
    <3>2. x \in Higher(n, g, L)[p.head]
      BY <2>0, <3>1 DEF Higher
    <3> QED BY <1>a, <2>0, <3>2
  <2>6. x \in SymbolWords(L, p.head)
    <3>1. p.head \notin Terminal
      BY <2>0, SymbolsAssumption
    <3> QED BY <1>0, <2>0, <2>5, <3>1 DEF SymbolWords
  <2> QED BY <1>0, <2>0, <2>2, <2>4, <2>6, BodyPutTogether
<1>4. <<body, w>> \in D
  <2>1. D \in SUBSET Pairs
    OBVIOUS
  <2>2. Derivational(D, P)
    <3> HIDE DEF D
    <3> QED BY <1>1, <1>2, <1>3 DEF Derivational
  <2> HIDE DEF D
  <2> QED BY <2>1, <2>2, LeftmostLeast
<1> QED BY <1>4 DEF L

\* The words of DerivedWords are the short words that are derived.
LEMMA DerivedWordsExact ==
  ASSUME NEW g, Typed(g.productions), IsFiniteSet(Heads(g.productions)), NEW n \in Nat,
         NEW A \in Heads(g.productions), NEW w \in Seq(Terminal), Len(w) <= n
  PROVE  w \in DerivedWords(g, n)[A] <=> <<<<A>>, w>> \in Leftmost(g.productions)
<1> DEFINE P == g.productions
           L == DerivedWords(g, n)
           s == <<A>>
           none == <<>>
<1>0. (n + 1) * Cardinality(Heads(P)) \in Nat
  BY FS_CardinalityType
<1>1. WordsOfHeads(L) /\ DOMAIN L = Heads(P) /\ Derived(L, P)
  BY <1>0, WordsByHeightUnfold, DerivedWordsSound DEF DerivedWords, IsByHeight
<1>2. A \in NonTerminal /\ A \in GrammarSymbol /\ A \notin Terminal
  BY SymbolsAssumption DEF Heads, Typed, GrammarSymbol
<1>3. ASSUME w \in L[A] PROVE <<s, w>> \in Leftmost(P)
  BY <1>1, <1>3 DEF Derived
<1>4. ASSUME <<s, w>> \in Leftmost(P) PROVE w \in L[A]
  <2>1. s \in Seq(GrammarSymbol) /\ none \in Seq(GrammarSymbol) /\ s \o none = s
    BY <1>2
  <2>2. w \in BodyWords(n, L, s)
    <3> HIDE DEF s
    <3> QED BY <1>4, <2>1, DerivedWordsComplete
  <2>3. PICK u \in SymbolWords(L, A), v \in BodyWords(n, L, none) : w = u \o v
    <3>1. w \in BodyWords(n, L, <<A>> \o none)
      BY <2>1, <2>2
    <3>2. none \in Seq(GrammarSymbol)
      OBVIOUS
    <3> HIDE DEF L, none
    <3>3. w \in InFront(n, L, A, BodyWords(n, L, none))
      BY <1>1, <1>2, <3>1, <3>2, BodyOfFirst
    <3> QED BY <3>3 DEF InFront, Short
  <2>4. v = none
    <3> HIDE DEF L
    <3>1. BodyWords(n, L, none) = {none}
      BY <1>1, BodyOfNothing
    <3> QED BY <3>1
  <2>5. u \in L[A]
    BY <1>1, <1>2 DEF SymbolWords
  <2>6. u \in Seq(Terminal)
    BY <1>1, <2>5 DEF WordsOfHeads
  <2> QED BY <2>3, <2>4, <2>5, <2>6, ConcatEmptySeq
<1> QED BY <1>3, <1>4

-----------------------------------------------------------------------------
(* The answers, in the terms of the run.                                   *)

\* What derives in any order derives leftmost, and the other way round.
LEMMA LeftmostIsForm ==
  ASSUME NEW g, Typed(g.productions), g.start \in NonTerminal, NEW w \in Seq(Terminal),
         <<<<g.start>>, w>> \in Leftmost(g.productions)
  PROVE  w \in Forms(g)
<1> DEFINE P == g.productions
           F == Forms(g)
           D == {x \in Pairs : x[1] \in Seq(GrammarSymbol) /\ x[2] \in Seq(Terminal)
                                 => \A u \in Seq(Terminal) : u \o x[1] \in F => u \o x[2] \in F}
           none == <<>>
<1>0. <<g.start>> \in F
  BY FormsOfStart
<1>a. \A q \in P, u \in Seq(GrammarSymbol), v \in Seq(GrammarSymbol) : u \o (<<q.head>> \o v) \in F => u \o (q.body \o v) \in F
  BY FormsClosed DEF Typed
<1>q. \A q \in P : q.head \in Symbols /\ q.body \in Seq(Symbols)
  BY TypedInSymbols
<1> HIDE DEF F
<1>1. <<none, none>> \in D
  <2>1. none \in Seq(Symbols) /\ none \in Seq(Lookahead)
    OBVIOUS
  <2> HIDE DEF none
  <2> QED BY <2>1 DEF Pairs
<1>2. ASSUME NEW a \in Lookahead, NEW f \in Seq(Symbols), NEW v \in Seq(Lookahead), <<f, v>> \in D
      PROVE  <<<<a>> \o f, <<a>> \o v>> \in D
  <2> DEFINE s == <<a>>
  <2>1. s \o f \in Seq(Symbols) /\ s \o v \in Seq(Lookahead)
    BY LookaheadSymbols
  <2> SUFFICES ASSUME s \o f \in Seq(GrammarSymbol), s \o v \in Seq(Terminal), NEW u \in Seq(Terminal), u \o (s \o f) \in F
               PROVE  u \o (s \o v) \in F
    <3> HIDE DEF s
    <3> QED BY <2>1 DEF Pairs, s
  <2>2. f \in Seq(GrammarSymbol)
    BY RestTyped
  <2>3. a \in Terminal /\ v \in Seq(Terminal)
    BY RestTyped
  <2>4. s \in Seq(Terminal) /\ s \in Seq(GrammarSymbol) /\ u \in Seq(GrammarSymbol) /\ v \in Seq(GrammarSymbol)
    <3>1. s \in Seq(Terminal)
      BY <2>3
    <3> HIDE DEF s
    <3> QED BY <2>3, <3>1, TypesWithin
  <2> HIDE DEF s
  <2>5. u \o (s \o f) = (u \o s) \o f
    BY <2>2, <2>4, ConcatAssociative
  <2>6. u \o (s \o v) = (u \o s) \o v
    BY <2>4, ConcatAssociative
  <2>7. u \o s \in Seq(Terminal)
    BY <2>4, ConcatProperties
  <2> QED BY <1>2, <2>2, <2>3, <2>5, <2>6, <2>7
<1>3. ASSUME NEW p \in P, NEW f \in Seq(Symbols), NEW v \in Seq(Lookahead), <<p.body \o f, v>> \in D
      PROVE  <<<<p.head>> \o f, v>> \in D
  <2> DEFINE s == <<p.head>>
             b == p.body
  <2>1. s \o f \in Seq(Symbols)
    BY <1>q
  <2> SUFFICES ASSUME s \o f \in Seq(GrammarSymbol), v \in Seq(Terminal), NEW u \in Seq(Terminal), u \o (s \o f) \in F
               PROVE  u \o v \in F
    <3> HIDE DEF s
    <3> QED BY <2>1 DEF Pairs, s
  <2>2. f \in Seq(GrammarSymbol)
    BY RestTyped
  <2>3. b \in Seq(GrammarSymbol) /\ u \in Seq(GrammarSymbol)
    BY TypesWithin DEF Typed
  <2>4. u \o (b \o f) \in F
    BY <1>a, <2>2, <2>3
  <2>5. b \o f \in Seq(GrammarSymbol)
    BY <2>2, <2>3, ConcatProperties
  <2>6. <<b \o f, v>> \in D
    BY <1>3
  <2> HIDE DEF b
  <2> QED BY <2>4, <2>5, <2>6
<1>4. <<<<g.start>>, w>> \in D
  <2>1. D \in SUBSET Pairs
    OBVIOUS
  <2>2. Derivational(D, P)
    <3> HIDE DEF D
    <3> QED BY <1>1, <1>2, <1>3 DEF Derivational
  <2> HIDE DEF D
  <2> QED BY <2>1, <2>2, LeftmostLeast
<1>5. none \o <<g.start>> = <<g.start>> /\ none \o w = w /\ <<g.start>> \in Seq(GrammarSymbol) /\ none \in Seq(Terminal)
  BY ConcatEmptySeq DEF GrammarSymbol
<1> HIDE DEF none
<1> QED BY <1>0, <1>4, <1>5 DEF F

\* The word is one of Words when there is something to say of it.
Asked == (phase = "idle" /\ answer = "none") \/ word \in Words

\* A word that is parsed is one of those a caller may ask for.
LEMMA AskedInvariant == Spec => []Asked
<1>1. Init => Asked
  BY DEF Init, Asked
<1>2. Asked /\ [Next]_vars => Asked'
  <2> SUFFICES ASSUME Asked, [Next]_vars PROVE Asked'
    OBVIOUS
  <2>1. CASE Computing
    <3>1. ASSUME NEW p \in grammar.productions, VisitFirst(p) \/ AddRow(p) \/ Conflict(p) PROVE Asked'
      BY <3>1 DEF Asked, VisitFirst, AddRow, Conflict
    <3>2. ASSUME NEW x \in Occurrences, VisitFollow(x) PROVE Asked'
      BY <3>2 DEF Asked, VisitFollow
    <3>3. ASSUME EndFirstPass \/ EndFollowPass \/ TableDone PROVE Asked'
      BY <3>3 DEF Asked, EndFirstPass, EndFollowPass, TableDone
    <3> QED BY <2>1, <3>1, <3>2, <3>3 DEF Computing
  <2>2. CASE Parsing
    BY <2>2 DEF Asked, Parsing, RunCallback, MatchTerminal, Expand, Reject, Accept, OnSymbol, parsing
  <2>3. ASSUME NEW w \in Words, Call(w) PROVE Asked'
    BY <2>3 DEF Asked, Call
  <2>4. CASE UNCHANGED vars
    BY <2>4 DEF Asked, vars
  <2> QED BY <2>1, <2>2, <2>3, <2>4 DEF Next
<1> QED BY <1>1, <1>2, PTL DEF Spec

\* No word is longer than the longest one.
LEMMA LongestOfWords ==
  ASSUME NEW w \in Words
  PROVE  Longest \in Nat /\ Len(w) <= Longest
<1> DEFINE S == {Len(v) : v \in Words}
<1>1. IsFiniteSet(S)
  <2> DEFINE f == [v \in Words |-> Len(v)]
  <2>1. f \in Surjection(Words, S)
    BY DEF Surjection
  <2> HIDE DEF f, S
  <2> QED BY <2>1, WordsAssumption, FS_Surjection
<1>2. S \in SUBSET Nat /\ Len(w) \in S
  BY WordsAssumption
<1> HIDE DEF S
<1>3. PICK m \in S : \A k \in S : k <= m
  BY <1>1, <1>2, FiniteSetHasGreatest
<1>4. \E x \in S : \A y \in S : x >= y
  BY <1>2, <1>3
<1>5. Longest = CHOOSE x \in S : \A y \in S : x >= y
  BY DEF Longest, Max, S
<1>6. Longest \in S /\ \A y \in S : Longest >= y
  BY <1>4, <1>5
<1> QED BY <1>2, <1>6

\* The words the run compares with are the words of the grammar.
LEMMA WordsOfGrammar ==
  ASSUME grammar \in Grammars, word \in Words
  PROVE  word \in WordsOf[grammar][grammar.start] <=> word \in Forms(grammar)
<1> DEFINE g == grammar
           P == g.productions
<1>1. IsGrammar(g) /\ Typed(P) /\ g.start \in Heads(P) /\ g.start \in NonTerminal /\ IsFiniteSet(P)
  BY GrammarsAssumption, GrammarTyped DEF IsGrammar, Typed
<1>2. IsFiniteSet(Heads(P))
  <2> DEFINE f == [p \in P |-> p.head]
  <2>1. f \in Surjection(P, Heads(P))
    BY DEF Surjection, Heads
  <2> HIDE DEF f
  <2> QED BY <1>1, <2>1, FS_Surjection
<1>3. word \in Seq(Terminal) /\ Longest \in Nat /\ Len(word) <= Longest
  BY LongestOfWords, WordsAssumption
<1>4. WordsOf[g] = DerivedWords(g, Longest)
  BY DEF WordsOf
<1>5. word \in DerivedWords(g, Longest)[g.start] <=> <<<<g.start>>, word>> \in Leftmost(P)
  BY <1>1, <1>2, <1>3, DerivedWordsExact
<1>6. <<<<g.start>>, word>> \in Leftmost(P) <=> word \in Forms(g)
  BY <1>1, <1>3, LeftmostIsForm, FormsLeftmost
<1> QED BY <1>4, <1>5, <1>6

\* A tree is given for words of the grammar only, and with a finished table for all of them:
\* compared with the words of DerivedWords, as the run does.
THEOREM AnswersRight == Spec => []AnswerRight
<1>1. IndInv /\ Complete /\ Asked => AnswerRight
  <2> SUFFICES ASSUME IndInv, Complete, Asked PROVE AnswerRight
    OBVIOUS
  <2>1. /\ answer = "tree" => frontier = word /\ word \in Forms(grammar)
        /\ answer = "null" /\ ~ threw => word \notin Forms(grammar)
        /\ grammar \in Grammars
    BY DEF IndInv, TypeOK, TreeRight, Complete, NullRight
  <2>2. answer # "none" => word \in Words
    BY DEF Asked
  <2> QED BY <2>1, <2>2, WordsOfGrammar DEF AnswerRight
<1> QED BY <1>1, CompleteInvariant, AskedInvariant, PTL

-----------------------------------------------------------------------------
(* The FIRST sets.                                                         *)

\* A string derives a word; one that begins with a; the empty one.
Productive(P, f) == \E w \in Seq(Terminal) : <<f, w>> \in Leftmost(P)
BeginsWith(P, f, a) == \E v \in Seq(Terminal) : <<f, <<a>> \o v>> \in Leftmost(P)
Vanishes(P, f) == <<f, <<>>>> \in Leftmost(P)

\* What the symbols of a string derive, one after the other, the string derives.
LEMMA OneAfterTheOther ==
  ASSUME NEW P, Typed(P), NEW X \in GrammarSymbol, NEW f \in Seq(GrammarSymbol), NEW u \in Seq(Terminal), NEW v \in Seq(Terminal),
         <<<<X>>, u>> \in Leftmost(P), <<f, v>> \in Leftmost(P)
  PROVE  <<<<X>> \o f, u \o v>> \in Leftmost(P)
<1> DEFINE s == <<X>>
<1>1. s \in Seq(GrammarSymbol)
  OBVIOUS
<1> HIDE DEF s
<1>2. s \in Seq(Symbols) /\ f \in Seq(Symbols) /\ u \in Seq(Lookahead) /\ v \in Seq(Lookahead)
  BY <1>1, TypesWithin
<1>3. <<s, u>> \in Leftmost(P)
  BY DEF s
<1>4. <<s \o f, u \o v>> \in Leftmost(P)
  BY <1>2, <1>3, LeftmostConcatenates
<1> QED BY <1>4 DEF s

\* What the body of a production derives, its head derives.
LEMMA HeadDerives ==
  ASSUME NEW P, Typed(P), NEW p \in P, NEW w \in Seq(Terminal), <<p.body, w>> \in Leftmost(P)
  PROVE  <<<<p.head>>, w>> \in Leftmost(P)
<1> DEFINE none == <<>>
           s == <<p.head>>
<1>1. none \in Seq(Symbols)
  OBVIOUS
<1>2. p.body \in Seq(GrammarSymbol) /\ p.head \in GrammarSymbol
  BY DEF Typed, GrammarSymbol
<1>3. p.body \o none = p.body /\ s \o none = s
  BY <1>2
<1>4. w \in Seq(Lookahead) /\ <<p.body \o none, w>> \in Leftmost(P)
  BY <1>3, TypesWithin
<1>5. <<s \o none, w>> \in Leftmost(P)
  <2> HIDE DEF none
  <2> QED BY <1>1, <1>4, LeftmostClosed DEF Derivational, s
<1> QED BY <1>3, <1>5

\* The empty string and a terminal derive themselves.
LEMMA ThemselvesDerived ==
  ASSUME NEW P, Typed(P)
  PROVE  Vanishes(P, <<>>) /\ \A a \in Terminal : <<<<a>>, <<a>>>> \in Leftmost(P)
<1> DEFINE none == <<>>
<1>1. none \in Seq(Lookahead)
  OBVIOUS
<1>2. <<none, none>> \in Leftmost(P)
  <2> HIDE DEF none
  <2> QED BY <1>1, WordsDeriveThemselves
<1>3. ASSUME NEW a \in Terminal PROVE <<<<a>>, <<a>>>> \in Leftmost(P)
  <2> DEFINE s == <<a>>
  <2>1. s \in Seq(Lookahead)
    BY DEF Lookahead
  <2> HIDE DEF s
  <2>2. <<s, s>> \in Leftmost(P)
    BY <2>1, WordsDeriveThemselves
  <2> QED BY <2>2 DEF s
<1> QED BY <1>2, <1>3 DEF Vanishes

\* A string of terminals and of heads that derive words derives a word.
LEMMA StringsProductive ==
  ASSUME NEW P, Typed(P), NEW H \in SUBSET NonTerminal, \A A \in H : Productive(P, <<A>>),
         NEW f \in Seq(Terminal \cup H)
  PROVE  Productive(P, f)
<1> DEFINE S == Terminal \cup H
           T == {e \in Seq(S) : Productive(P, e)}
           none == <<>>
<1>1. none \in T
  <2>1. none \in Seq(S) /\ none \in Seq(Terminal)
    OBVIOUS
  <2>2. <<none, none>> \in Leftmost(P)
    BY ThemselvesDerived DEF Vanishes
  <2> HIDE DEF none
  <2> QED BY <2>1, <2>2 DEF Productive
<1>2. ASSUME NEW X \in S, NEW e \in Seq(S), e \in T PROVE <<X>> \o e \in T
  <2>1. X \in GrammarSymbol /\ \A s \in S : s \in GrammarSymbol
    BY DEF GrammarSymbol
  <2>2. e \in Seq(GrammarSymbol)
    BY <2>1
  <2>3. PICK v \in Seq(Terminal) : <<e, v>> \in Leftmost(P)
    BY <1>2 DEF Productive
  <2>4. PICK u \in Seq(Terminal) : <<<<X>>, u>> \in Leftmost(P)
    <3>1. CASE X \in Terminal
      <4> DEFINE s == <<X>>
      <4>1. s \in Seq(Terminal)
        BY <3>1
      <4>2. <<s, s>> \in Leftmost(P)
        BY <3>1, ThemselvesDerived
      <4> HIDE DEF s
      <4>3. \E u \in Seq(Terminal) : <<s, u>> \in Leftmost(P)
        BY <4>1, <4>2
      <4> QED BY <4>3 DEF s
    <3>2. CASE X \in H
      BY <3>2 DEF Productive
    <3> QED BY <3>1, <3>2
  <2>5. <<<<X>> \o e, u \o v>> \in Leftmost(P)
    BY <2>1, <2>2, <2>3, <2>4, OneAfterTheOther
  <2>6. u \o v \in Seq(Terminal)
    BY ConcatProperties
  <2>7. <<X>> \o e \in Seq(S)
    OBVIOUS
  <2> QED BY <2>5, <2>6, <2>7 DEF Productive
<1>3. Seq(S) \subseteq T
  <2> HIDE DEF T, S
  <2> QED BY <1>1, <1>2, FromTheFront
<1> QED BY <1>3

\* A body has terminals and heads only, and every head derives a word.
LEMMA HeadsProductive ==
  ASSUME NEW g, IsGrammar(g), Typed(g.productions)
  PROVE  /\ Heads(g.productions) \subseteq NonTerminal
         /\ \A p \in g.productions : p.head \in Heads(g.productions) /\ p.body \in Seq(Terminal \cup Heads(g.productions))
         /\ \A A \in Heads(g.productions) : Productive(g.productions, <<A>>)
<1> DEFINE P == g.productions
           H == Heads(P)
           W == {A \in H : Productive(P, <<A>>)}
<1>1. H \subseteq NonTerminal /\ \A p \in P : p.head \in H /\ p.body \in Seq(GrammarSymbol)
  BY DEF Heads, Typed
<1>2. ASSUME NEW p \in P, NEW V, NonTerminalsOf(p.body) \subseteq V PROVE p.body \in Seq(Terminal \cup V)
  <2>1. ASSUME NEW i \in 1 .. Len(p.body) PROVE p.body[i] \in Terminal \cup V
    <3>1. p.body[i] \in GrammarSymbol /\ i \in DOMAIN p.body
      BY <1>1
    <3> QED BY <1>2, <3>1 DEF NonTerminalsOf, SymbolsOf, GrammarSymbol
  <2>2. p.body \in Seq(GrammarSymbol)
    BY <1>1
  <2> QED BY <2>1, <2>2
<1>3. ASSUME NEW p \in P, NonTerminalsOf(p.body) \subseteq W PROVE p.head \in W
  <2>1. p.body \in Seq(Terminal \cup W)
    BY <1>2, <1>3
  <2>2. W \in SUBSET NonTerminal /\ \A A \in W : Productive(P, <<A>>)
    BY <1>1
  <2>3. Productive(P, p.body)
    <3> HIDE DEF W
    <3> QED BY <2>1, <2>2, StringsProductive
  <2>4. Productive(P, <<p.head>>)
    BY <2>3, HeadDerives DEF Productive
  <2> QED BY <1>1, <2>4
<1>4. W \in SUBSET H
  OBVIOUS
<1>5. InUse(P) \subseteq W /\ InUse(P) \subseteq H
  <2> HIDE DEF W
  <2> QED BY <1>3, <1>4, InUseIsSmallest
<1>6. \A p \in P : NonTerminalsOf(p.body) \subseteq InUse(P)
  BY NothingUseless
<1>7. ASSUME NEW A \in H PROVE Productive(P, <<A>>)
  <2>1. PICK p \in P : p.head = A
    BY DEF Heads
  <2>2. A \in InUse(P)
    BY <1>6, <2>1, InUseIsSmallest
  <2> QED BY <1>5, <2>2
<1>8. ASSUME NEW p \in P PROVE p.body \in Seq(Terminal \cup H)
  <2>1. NonTerminalsOf(p.body) \subseteq H
    BY <1>5, <1>6
  <2> HIDE DEF H
  <2> QED BY <1>2, <2>1
<1> QED BY <1>1, <1>7, <1>8

\* What the FIRST sets hold is there: words begin so, and the empty word is derived.
FirstsSound ==
  /\ \A A \in NonTerminal : \A a \in firsts[A] : BeginsWith(grammar.productions, <<A>>, a)
  /\ \A A \in nullable : Vanishes(grammar.productions, <<A>>)

\* What a string begins with is at the beginning of one of its words, if the sets are sound.
LEMMA FirstTerminalsSound ==
  ASSUME NEW f \in Seq(Terminal \cup Heads(grammar.productions)), TypeOK, FirstsSound
  PROVE  /\ \A a \in FirstTerminals(f) : BeginsWith(grammar.productions, f, a)
         /\ HasEpsilon(f) => Vanishes(grammar.productions, f)
<1> DEFINE P == grammar.productions
           H == Heads(P)
           S == Terminal \cup H
           T == {e \in Seq(S) : /\ \A a \in FirstTerminals(e) : BeginsWith(P, e, a)
                                /\ HasEpsilon(e) => Vanishes(P, e)}
           none == <<>>
<1>1. Typed(P) /\ IsGrammar(grammar)
  BY GrammarsAssumption, GrammarTyped DEF TypeOK, Typed
<1>2. H \in SUBSET NonTerminal /\ \A A \in H : Productive(P, <<A>>)
  BY <1>1, HeadsProductive
<1>3. firsts \in [NonTerminal -> SUBSET Terminal] /\ nullable \subseteq NonTerminal
  BY DEF TypeOK
<1>4. \A s \in S : s \in GrammarSymbol /\ s \in Symbols
  BY <1>2 DEF GrammarSymbol, Symbols
<1>5. none \in T
  <2>1. none \in Seq(S) /\ DOMAIN none = {}
    OBVIOUS
  <2>2. FirstTerminals(none) = {}
    BY <2>1 DEF FirstTerminals, Leading
  <2>3. Vanishes(P, none)
    BY <1>1, ThemselvesDerived
  <2> HIDE DEF none, P
  <2> QED BY <2>1, <2>2, <2>3
<1>6. ASSUME NEW X \in S, NEW e \in Seq(S), e \in T PROVE <<X>> \o e \in T
  <2> DEFINE c == <<X>> \o e
  <2>1. X \in GrammarSymbol /\ X \in Symbols /\ e \in Seq(GrammarSymbol) /\ e \in Seq(Symbols)
    BY <1>4
  <2>2. /\ HasEpsilon(c) <=> X \in nullable /\ HasEpsilon(e)
        /\ FirstTerminals(c) = FirstOf(X) \cup IF X \in nullable THEN FirstTerminals(e) ELSE {}
    BY <2>1, FirstOfPair
  <2>3. PICK w \in Seq(Terminal) : <<e, w>> \in Leftmost(P)
    <3>1. Productive(P, e)
      <4> HIDE DEF H, P
      <4> QED BY <1>1, <1>2, StringsProductive
    <3> QED BY <3>1 DEF Productive
  <2>4. ASSUME NEW a \in FirstOf(X) PROVE BeginsWith(P, c, a)
    <3>1. PICK v \in Seq(Terminal) : a \in Terminal /\ <<<<X>>, <<a>> \o v>> \in Leftmost(P)
      <4>1. CASE X \in NonTerminal
        <5>1. a \in firsts[X] /\ a \in Terminal
          BY <1>3, <2>4, <4>1 DEF FirstOf
        <5> QED BY <4>1, <5>1 DEF FirstsSound, BeginsWith
      <4>2. CASE X \notin NonTerminal
        <5>1. a = X /\ a \in Terminal
          BY <1>2, <2>4, <4>2 DEF FirstOf
        <5>2. <<<<a>>, <<a>>>> \in Leftmost(P)
          BY <1>1, <5>1, ThemselvesDerived
        <5> DEFINE s == <<a>>
        <5>3. s \o none = s /\ none \in Seq(Terminal)
          BY <5>1
        <5>4. <<s, s \o none>> \in Leftmost(P)
          BY <5>2, <5>3
        <5> HIDE DEF none
        <5> QED BY <5>1, <5>3, <5>4
      <4> QED BY <4>1, <4>2
    <3> DEFINE s == <<a>>
    <3>2. s \in Seq(Terminal) /\ s \o v \in Seq(Terminal) /\ v \o w \in Seq(Terminal)
      BY <3>1
    <3>3. <<c, (s \o v) \o w>> \in Leftmost(P)
      <4> HIDE DEF s
      <4>1. <<<<X>>, s \o v>> \in Leftmost(P)
        BY <3>1 DEF s
      <4> QED BY <1>1, <2>1, <2>3, <3>2, <4>1, OneAfterTheOther
    <3>4. (s \o v) \o w = s \o (v \o w)
      BY <3>2, ConcatAssociative
    <3>5. <<c, s \o (v \o w)>> \in Leftmost(P)
      BY <3>3, <3>4
    <3> HIDE DEF c
    <3> QED BY <3>2, <3>5 DEF BeginsWith
  <2>5. ASSUME X \in nullable, NEW a \in FirstTerminals(e) PROVE BeginsWith(P, c, a)
    <3>1. Vanishes(P, <<X>>)
      BY <2>5 DEF FirstsSound
    <3>2. PICK v \in Seq(Terminal) : <<e, <<a>> \o v>> \in Leftmost(P)
      BY <1>6, <2>5 DEF BeginsWith
    <3>3. a \in Terminal
      <4>1. PICK i \in DOMAIN e : a \in FirstOf(e[i])
        BY <2>5 DEF FirstTerminals, Leading
      <4>2. e[i] \in S
        OBVIOUS
      <4> QED BY <1>2, <1>3, <4>1, <4>2 DEF FirstOf
    <3> DEFINE s == <<a>>
    <3>4. s \o v \in Seq(Terminal) /\ none \in Seq(Terminal) /\ none \o (s \o v) = s \o v
      BY <3>3
    <3>5. <<c, none \o (s \o v)>> \in Leftmost(P)
      <4>1. <<<<X>>, none>> \in Leftmost(P)
        BY <3>1 DEF Vanishes
      <4>2. <<e, s \o v>> \in Leftmost(P)
        BY <3>2
      <4> HIDE DEF s, none
      <4> QED BY <1>1, <2>1, <3>4, <4>1, <4>2, OneAfterTheOther
    <3>6. <<c, s \o v>> \in Leftmost(P)
      BY <3>4, <3>5
    <3> HIDE DEF c
    <3> QED BY <3>6 DEF BeginsWith
  <2>6. ASSUME HasEpsilon(c) PROVE Vanishes(P, c)
    <3>1. X \in nullable /\ HasEpsilon(e)
      BY <2>2, <2>6
    <3>2. <<<<X>>, none>> \in Leftmost(P) /\ <<e, none>> \in Leftmost(P)
      BY <1>6, <3>1 DEF FirstsSound, Vanishes
    <3>3. none \in Seq(Terminal) /\ none \o none = none
      OBVIOUS
    <3>4. <<c, none \o none>> \in Leftmost(P)
      <4> HIDE DEF none
      <4> QED BY <1>1, <2>1, <3>2, <3>3, OneAfterTheOther
    <3> QED BY <3>3, <3>4 DEF Vanishes
  <2>7. c \in Seq(S)
    OBVIOUS
  <2>8. \A a \in FirstTerminals(c) : BeginsWith(P, c, a)
    <3> HIDE DEF c, P
    <3> QED BY <2>2, <2>4, <2>5
  <2> HIDE DEF c, P
  <2> QED BY <2>6, <2>7, <2>8 DEF c
<1>7. Seq(S) \subseteq T
  <2> HIDE DEF T, S
  <2> QED BY <1>5, <1>6, FromTheFront
<1> QED BY <1>7

\* The call that computes the sets starts from the symbols bodies begin with.
LEMMA StartSetsSound ==
  ASSUME TypeOK, StartSets, grammar' = grammar
  PROVE  FirstsSound'
<1> DEFINE P == grammar.productions
           S == Terminal \cup Heads(P)
<1>1. Typed(P) /\ IsGrammar(grammar)
  BY GrammarsAssumption, GrammarTyped DEF TypeOK, Typed
<1>2. /\ Heads(P) \in SUBSET NonTerminal
      /\ \A p \in P : p.body \in Seq(S)
      /\ \A A \in Heads(P) : Productive(P, <<A>>)
  BY <1>1, HeadsProductive
<1>3. ASSUME NEW A \in NonTerminal, NEW a \in firsts'[A] PROVE BeginsWith(P, <<A>>, a)
  <2>1. PICK p \in P : p.head = A /\ p.body # <<>> /\ p.body[1] = a /\ a \in Terminal
    BY <1>3 DEF StartSets
  <2> DEFINE s == <<a>>
             e == Tail(p.body)
  <2>2. e \in Seq(S) /\ p.body = s \o e
    <3>1. p.body \in Seq(S)
      BY <1>2
    <3>2. Head(p.body) = a /\ p.body = <<Head(p.body)>> \o e /\ e \in Seq(S)
      BY <2>1, <3>1, HeadTailProperties
    <3> QED BY <3>2
  <2> HIDE DEF e
  <2>3. PICK w \in Seq(Terminal) : <<e, w>> \in Leftmost(P)
    <3>1. Productive(P, e)
      BY <1>1, <1>2, <2>2, StringsProductive
    <3> QED BY <3>1 DEF Productive
  <2>4. s \in Seq(Terminal) /\ s \o w \in Seq(Terminal) /\ <<s, s>> \in Leftmost(P)
    BY <1>1, <2>1, ThemselvesDerived
  <2>5. <<s \o e, s \o w>> \in Leftmost(P)
    <3>1. a \in GrammarSymbol /\ \A x \in S : x \in GrammarSymbol
      BY <1>2, <2>1 DEF GrammarSymbol
    <3>2. e \in Seq(GrammarSymbol)
      BY <2>2, <3>1
    <3> QED BY <1>1, <2>3, <2>4, <3>1, <3>2, OneAfterTheOther
  <2>6. <<<<A>>, s \o w>> \in Leftmost(P)
    <3> HIDE DEF s
    <3> QED BY <1>1, <2>1, <2>2, <2>4, <2>5, HeadDerives
  <2> QED BY <2>6 DEF BeginsWith
<1>4. ASSUME NEW A \in nullable' PROVE Vanishes(P, <<A>>)
  <2> DEFINE none == <<>>
             p == [head |-> A, body |-> none]
  <2>1. p \in P
    BY <1>4 DEF StartSets
  <2>2. <<none, none>> \in Leftmost(P) /\ none \in Seq(Terminal)
    BY <1>1, ThemselvesDerived DEF Vanishes
  <2>3. p.head = A /\ p.body = none
    OBVIOUS
  <2> HIDE DEF none, p
  <2>4. <<<<A>>, none>> \in Leftmost(P)
    BY <1>1, <2>1, <2>2, <2>3, HeadDerives
  <2> QED BY <2>4 DEF Vanishes, none
<1> QED BY <1>3, <1>4 DEF FirstsSound

\* A pass of CFG::first adds what the productions say.
LEMMA VisitFirstSound ==
  ASSUME TypeOK, FirstsSound, NEW p \in grammar.productions, VisitFirst(p)
  PROVE  FirstsSound'
<1> DEFINE P == grammar.productions
<1>1. Typed(P) /\ IsGrammar(grammar) /\ p.head \in NonTerminal
  BY GrammarsAssumption, GrammarTyped DEF TypeOK, Typed
<1>2. p.body \in Seq(Terminal \cup Heads(P)) /\ Heads(P) \subseteq NonTerminal
  BY <1>1, HeadsProductive
<1>3. /\ \A a \in FirstTerminals(p.body) : BeginsWith(P, p.body, a)
      /\ HasEpsilon(p.body) => Vanishes(P, p.body)
  BY <1>2, FirstTerminalsSound
<1>4. /\ grammar' = grammar
      /\ firsts' = [firsts EXCEPT ![p.head] = @ \cup FirstTerminals(p.body)]
      /\ nullable' = IF HasEpsilon(p.body) THEN nullable \cup {p.head} ELSE nullable
  BY DEF VisitFirst
<1>5. firsts \in [NonTerminal -> SUBSET Terminal]
  BY DEF TypeOK
<1>6. ASSUME NEW a \in FirstTerminals(p.body) PROVE BeginsWith(P, <<p.head>>, a)
  <2>1. PICK v \in Seq(Terminal) : <<p.body, <<a>> \o v>> \in Leftmost(P)
    BY <1>3, <1>6 DEF BeginsWith
  <2>2. a \in Terminal
    <3>1. PICK i \in DOMAIN p.body : a \in FirstOf(p.body[i])
      BY <1>6 DEF FirstTerminals, Leading
    <3>2. p.body[i] \in Terminal \cup Heads(P)
      BY <1>2, <3>1
    <3> QED BY <1>2, <1>5, <3>1, <3>2 DEF FirstOf
  <2> DEFINE w == <<a>> \o v
  <2>3. w \in Seq(Terminal)
    BY <2>2
  <2>4. <<<<p.head>>, w>> \in Leftmost(P)
    <3>1. <<p.body, w>> \in Leftmost(P)
      BY <2>1
    <3> HIDE DEF w
    <3> QED BY <1>1, <2>3, <3>1, HeadDerives
  <2> QED BY <2>4 DEF BeginsWith
<1>7. ASSUME HasEpsilon(p.body) PROVE Vanishes(P, <<p.head>>)
  <2> DEFINE none == <<>>
  <2>1. none \in Seq(Terminal) /\ <<p.body, none>> \in Leftmost(P)
    BY <1>3, <1>7 DEF Vanishes
  <2> HIDE DEF none
  <2>2. <<<<p.head>>, none>> \in Leftmost(P)
    BY <1>1, <2>1, HeadDerives
  <2> QED BY <2>2 DEF Vanishes, none
<1>8. ASSUME NEW A \in NonTerminal, NEW a \in firsts'[A] PROVE BeginsWith(P, <<A>>, a)
  <2>1. a \in firsts[A] \/ (A = p.head /\ a \in FirstTerminals(p.body))
    BY <1>4, <1>5, <1>8
  <2> QED BY <1>6, <2>1 DEF FirstsSound
<1>9. ASSUME NEW A \in nullable' PROVE Vanishes(P, <<A>>)
  <2>1. A \in nullable \/ (A = p.head /\ HasEpsilon(p.body))
    BY <1>4, <1>9
  <2> QED BY <1>7, <2>1 DEF FirstsSound
<1> QED BY <1>4, <1>8, <1>9 DEF FirstsSound

\* Once the passes of CFG::first are over, no pass would add anything, whatever is thrown later.
FirstsFinal ==
  (phase \in {"follow", "table", "parse"} \/ (phase = "idle" /\ table # <<>>)) => FirstsDone

\* The sets are sound in every state, and complete once they are computed.
FirstsInvariant == FirstsSound /\ FirstsFinal

\* The invariant of the FIRST sets, with the one of the tables for the end of the passes.
LEMMA FirstsInvariantHolds == Spec => []FirstsInvariant
<1>1. Init => FirstsInvariant
  <2> SUFFICES ASSUME Init PROVE FirstsInvariant
    OBVIOUS
  <2>1. nullable = {} /\ \A A \in NonTerminal : firsts[A] = {}
    BY DEF Init
  <2>2. phase = "idle" /\ table = <<>>
    BY DEF Init
  <2> QED BY <2>1, <2>2 DEF FirstsInvariant, FirstsSound, FirstsFinal
<1>2. IndInv /\ Complete /\ FirstsInvariant /\ [Next]_vars => FirstsInvariant'
  <2> SUFFICES ASSUME IndInv, Complete, FirstsInvariant, [Next]_vars PROVE FirstsInvariant'
    OBVIOUS
  <2>1. TypeOK /\ FirstsSound /\ FirstsFinal
    BY DEF IndInv, FirstsInvariant
  <2>2. ASSUME UNCHANGED <<grammar, firsts, nullable>>
        PROVE  FirstsSound' /\ (FirstsDone' <=> FirstsDone)
    <3>1. FirstsSound'
      BY <2>1, <2>2 DEF FirstsSound
    <3>2. FirstsDone' <=> FirstsDone
      BY <2>2, FirstDoneStays DEF FirstsDone
    <3> QED BY <3>1, <3>2
  <2>3. ASSUME NEW w \in Words, Call(w) PROVE FirstsInvariant'
    <3>1. CASE table = <<>>
      <4>1. StartSets /\ grammar' = grammar /\ phase' = "first"
        BY <2>3, <3>1 DEF Call
      <4>2. FirstsSound'
        BY <2>1, <4>1, StartSetsSound
      <4> QED BY <4>1, <4>2 DEF FirstsInvariant, FirstsFinal
    <3>2. CASE table # <<>>
      <4>1. UNCHANGED <<grammar, firsts, nullable>> /\ phase = "idle"
        BY <2>3, <3>2 DEF Call
      <4>2. FirstsDone
        BY <2>1, <3>2, <4>1 DEF FirstsFinal
      <4> QED BY <2>2, <4>1, <4>2 DEF FirstsInvariant, FirstsFinal
    <3> QED BY <3>1, <3>2
  <2>4. ASSUME NEW p \in grammar.productions, VisitFirst(p) PROVE FirstsInvariant'
    <3>1. phase' = "first"
      BY <2>4 DEF VisitFirst
    <3>2. FirstsSound'
      BY <2>1, <2>4, VisitFirstSound
    <3> QED BY <3>1, <3>2 DEF FirstsInvariant, FirstsFinal
  <2>5. CASE EndFirstPass
    <3>1. UNCHANGED <<grammar, firsts, nullable>> /\ phase = "first" /\ pending = {} /\ (added => phase' = "first")
      BY <2>5 DEF EndFirstPass
    <3>2. ~ added => FirstsDone
      BY <3>1 DEF Complete, Computed, FirstsDone
    <3> QED BY <2>2, <3>1, <3>2 DEF FirstsInvariant, FirstsFinal
  <2>6. ASSUME UNCHANGED <<grammar, firsts, nullable>>, phase \in {"follow", "table", "parse"} PROVE FirstsInvariant'
    <3>1. FirstsDone
      BY <2>1, <2>6 DEF FirstsFinal
    <3> QED BY <2>2, <2>6, <3>1 DEF FirstsInvariant, FirstsFinal
  <2>7. ASSUME NEW x \in Occurrences, VisitFollow(x) PROVE FirstsInvariant'
    <3>1. UNCHANGED <<grammar, firsts, nullable>> /\ phase = "follow"
      BY <2>7 DEF VisitFollow
    <3> QED BY <2>6, <3>1
  <2>8. ASSUME NEW p \in grammar.productions, AddRow(p) \/ Conflict(p) PROVE FirstsInvariant'
    <3>1. UNCHANGED <<grammar, firsts, nullable>> /\ phase = "table"
      BY <2>8 DEF AddRow, Conflict, sets
    <3> QED BY <2>6, <3>1
  <2>9. CASE EndFollowPass \/ TableDone
    <3>1. UNCHANGED <<grammar, firsts, nullable>> /\ phase \in {"follow", "table"}
      BY <2>9 DEF EndFollowPass, TableDone, sets
    <3> QED BY <2>6, <3>1
  <2>10. CASE Parsing
    <3>1. UNCHANGED <<grammar, firsts, nullable>> /\ phase = "parse"
      BY <2>10 DEF Parsing, RunCallback, MatchTerminal, Expand, Reject, Accept, OnSymbol, parsing, sets
    <3> QED BY <2>6, <3>1
  <2>11. CASE UNCHANGED vars
    <3>1. UNCHANGED <<grammar, firsts, nullable>> /\ phase' = phase /\ table' = table
      BY <2>11 DEF vars, sets
    <3> QED BY <2>1, <2>2, <3>1 DEF FirstsInvariant, FirstsFinal
  <2> QED BY <2>3, <2>4, <2>5, <2>7, <2>8, <2>9, <2>10, <2>11 DEF Next, Computing
<1> QED BY <1>1, <1>2, CompleteInvariant, PTL DEF Spec

\* The words a head derives, of any length.
DerivedFrom(g, A) == {w \in Seq(Terminal) : <<<<A>>, w>> \in Leftmost(g.productions)}

\* What FIRST is.
FirstOfWords(words) == {w[1] : w \in words \ {<<>>}}

\* In every state in which the sets are read, they are those of the words of the heads.
LEMMA FirstsOfHeads ==
  ASSUME IndInv, FirstsInvariant, phase \in {"follow", "table", "parse"}, NEW A \in Heads(grammar.productions)
  PROVE  /\ firsts[A] = FirstOfWords(DerivedFrom(grammar, A))
         /\ A \in nullable <=> <<>> \in DerivedFrom(grammar, A)
<1> DEFINE P == grammar.productions
           s == <<A>>
           none == <<>>
<1>1. Typed(P) /\ A \in NonTerminal /\ firsts \in [NonTerminal -> SUBSET Terminal]
  <2>1. Typed(P)
    BY GrammarTyped DEF IndInv, TypeOK, Typed
  <2> QED BY <2>1 DEF Heads, Typed, IndInv, TypeOK
<1>2. \A p \in P : FirstDone(p)
  BY DEF FirstsInvariant, FirstsFinal, FirstsDone
<1>3. s \in Seq(Symbols) /\ FirstTerminals(s) = firsts[A] /\ (HasEpsilon(s) <=> A \in nullable)
  <2>1. A \in Symbols
    BY <1>1 DEF Symbols, GrammarSymbol
  <2>2. s \in Seq(Symbols)
    BY <2>1
  <2>3. FirstOf(A) = firsts[A]
    BY <1>1 DEF FirstOf
  <2>4. FirstTerminals(s) = FirstOf(A) /\ (HasEpsilon(s) <=> A \in nullable)
    BY FirstOfSymbol
  <2> QED BY <2>2, <2>3, <2>4
<1>4. ASSUME NEW w \in DerivedFrom(grammar, A) PROVE Begins(s, w)
  <2>1. w \in Seq(Lookahead) /\ <<s, w>> \in Leftmost(P)
    BY <1>4, TypesWithin DEF DerivedFrom
  <2> HIDE DEF s
  <2> QED BY <1>1, <1>2, <1>3, <2>1, FirstsComplete
<1>5. ASSUME NEW a \in firsts[A] PROVE a \in FirstOfWords(DerivedFrom(grammar, A))
  <2>1. PICK v \in Seq(Terminal) : <<s, <<a>> \o v>> \in Leftmost(P)
    BY <1>1, <1>5 DEF FirstsInvariant, FirstsSound, BeginsWith
  <2> DEFINE w == <<a>> \o v
  <2>2. w \in Seq(Terminal) /\ w # <<>> /\ w[1] = a
    BY <1>1, <1>5
  <2>3. w \in DerivedFrom(grammar, A)
    BY <2>1, <2>2 DEF DerivedFrom
  <2> HIDE DEF w
  <2> QED BY <2>2, <2>3 DEF FirstOfWords
<1>6. ASSUME NEW w \in DerivedFrom(grammar, A), w # <<>> PROVE w[1] \in firsts[A]
  BY <1>3, <1>4, <1>6 DEF Begins
<1>7. none \in DerivedFrom(grammar, A) => A \in nullable
  BY <1>3, <1>4 DEF Begins
<1>8. A \in nullable => none \in DerivedFrom(grammar, A)
  <2>1. none \in Seq(Terminal)
    OBVIOUS
  <2> QED BY <2>1 DEF FirstsInvariant, FirstsSound, Vanishes, DerivedFrom
<1> QED BY <1>5, <1>6, <1>7, <1>8 DEF FirstOfWords

\* The FIRST sets CFG::first ends with are those of the words the heads derive, however long
\* these are, and stay so, also after a call has thrown.
THEOREM FirstSetsCorrect ==
  Spec => [](phase \in {"follow", "table", "parse"} =>
               \A A \in Heads(grammar.productions) :
                 /\ firsts[A] = FirstOfWords(DerivedFrom(grammar, A))
                 /\ A \in nullable <=> <<>> \in DerivedFrom(grammar, A))
<1>1. IndInv /\ FirstsInvariant => (phase \in {"follow", "table", "parse"} =>
               \A A \in Heads(grammar.productions) :
                 /\ firsts[A] = FirstOfWords(DerivedFrom(grammar, A))
                 /\ A \in nullable <=> <<>> \in DerivedFrom(grammar, A))
  BY FirstsOfHeads
<1> QED BY <1>1, IndInvariant, FirstsInvariantHolds, PTL

\* No word begins otherwise than one that is no longer than Words has them.
LongEnough ==
  \A g \in Grammars : \A A \in Heads(g.productions) : \A n \in Nat :
    FirstOfWords(DerivedWords(g, n)[A]) \subseteq FirstOfWords(DerivedWords(g, Longest)[A])

\* The sets are exact as the run states it, with the words it collects: provided that what a
\* longer word begins with a shorter one does, too.
THEOREM FirstSetsRight ==
  ASSUME LongEnough, Words # {}
  PROVE  Spec => []FirstSetsExact
<1>1. ASSUME IndInv, FirstsInvariant PROVE FirstSetsExact
  <2> SUFFICES ASSUME phase \in {"follow", "table", "parse"}, NEW A \in Heads(grammar.productions)
               PROVE  /\ firsts[A] = FirstOfWords(WordsOf[grammar][A])
                      /\ A \in nullable <=> <<>> \in WordsOf[grammar][A]
    BY DEF FirstSetsExact, FirstOfWords
  <2> DEFINE P == grammar.productions
             D == DerivedFrom(grammar, A)
             L(n) == DerivedWords(grammar, n)[A]
             none == <<>>
  <2>1. grammar \in Grammars /\ Typed(P) /\ IsFiniteSet(P)
    BY <1>1, GrammarTyped, GrammarsAssumption DEF IndInv, TypeOK, Typed, IsGrammar
  <2>2. IsFiniteSet(Heads(P))
    <3> DEFINE f == [p \in P |-> p.head]
    <3>1. f \in Surjection(P, Heads(P))
      BY DEF Surjection, Heads
    <3> HIDE DEF f
    <3> QED BY <2>1, <3>1, FS_Surjection
  <2>3. Longest \in Nat
    BY LongestOfWords
  <2>4. WordsOf[grammar][A] = L(Longest)
    BY <2>1 DEF WordsOf
  <2>5. \A n \in Nat, w \in Seq(Terminal) : Len(w) <= n => (w \in L(n) <=> w \in D)
    BY <2>1, <2>2, DerivedWordsExact DEF DerivedFrom
  <2>6. \A w \in L(Longest) : w \in D
    <3>1. (Longest + 1) * Cardinality(Heads(P)) \in Nat
      BY <2>2, <2>3, FS_CardinalityType
    <3>2. Derived(DerivedWords(grammar, Longest), P) /\ WordsOfHeads(DerivedWords(grammar, Longest))
          /\ DOMAIN DerivedWords(grammar, Longest) = Heads(P)
      BY <2>1, <2>3, <3>1, WordsByHeightUnfold, DerivedWordsSound DEF DerivedWords, IsByHeight
    <3> QED BY <3>2 DEF Derived, WordsOfHeads, DerivedFrom
  <2> HIDE DEF L
  <2>7. firsts[A] = FirstOfWords(D) /\ (A \in nullable <=> none \in D)
    BY <1>1, FirstsOfHeads
  <2>8. none \in D <=> none \in L(Longest)
    <3>1. none \in Seq(Terminal) /\ Len(none) <= Longest
      BY <2>3
    <3> HIDE DEF none, D
    <3> QED BY <2>3, <2>5, <3>1
  <2>9. FirstOfWords(L(Longest)) \subseteq FirstOfWords(D)
    BY <2>6 DEF FirstOfWords
  <2>10. ASSUME NEW w \in D, w # none PROVE w[1] \in FirstOfWords(L(Longest))
    <3>1. w \in Seq(Terminal) /\ Len(w) \in Nat
      BY <2>10 DEF DerivedFrom
    <3>2. w \in L(Len(w))
      BY <2>5, <3>1
    <3>3. w[1] \in FirstOfWords(L(Len(w)))
      BY <2>10, <3>2 DEF FirstOfWords
    <3> QED BY <2>1, <3>1, <3>3 DEF LongEnough, L
  <2>11. FirstOfWords(D) \subseteq FirstOfWords(L(Longest))
    BY <2>10 DEF FirstOfWords
  <2>12. FirstOfWords(D) = FirstOfWords(L(Longest))
    BY <2>9, <2>11
  <2> HIDE DEF D
  <2> QED BY <2>4, <2>7, <2>8, <2>12
<1> QED BY <1>1, IndInvariant, FirstsInvariantHolds, PTL
=============================================================================

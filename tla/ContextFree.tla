---------------------------- MODULE ContextFree ----------------------------
(***************************************************************************)
(* Context-free grammars as class CFG keeps them, what its constructor     *)
(* makes of the productions it is given, and what grammars derive.         *)
(***************************************************************************)
EXTENDS Integers, Sequences, FiniteSets, SequencesExt

CONSTANTS Terminal, NonTerminal,
          EndMarker  \* ALPHABET::endmarker

GrammarSymbol == Terminal \cup NonTerminal

Production == [head : NonTerminal, body : Seq(GrammarSymbol)]

Grammar(start, productions) == [start |-> start, productions |-> productions]

Heads(productions) == {p.head : p \in productions}
Bodies(productions, A) == {p.body : p \in {o \in productions : o.head = A}}
Rules(A, bodies) == {[head |-> A, body |-> body] : body \in bodies}

SymbolsOf(body) == {body[i] : i \in DOMAIN body}
NonTerminalsOf(body) == SymbolsOf(body) \cap NonTerminal

\* The pieces, the first one on top, on a stack with its top first: pushed from the last on.
Onto(pieces, rest) ==
  LET onto[n \in 0 .. Len(pieces)] == IF n = 0 THEN rest ELSE pieces[Len(pieces) - n + 1] \o onto[n - 1]
  IN  onto[Len(pieces)]

-----------------------------------------------------------------------------
(* The constructor: eliminate_useless_symbols. Its three loops add heads   *)
(* to a set until nothing is added, that is, up to the smallest closed set.*)

Smallest(U, Closed(_)) ==
  CHOOSE V \in SUBSET U : Closed(V) /\ \A W \in SUBSET U : Closed(W) => V \subseteq W

\* reachable_heads
Reachable(start, productions) ==
  Smallest(Heads(productions) \cup {start},
           LAMBDA V : /\ start \in V
                      /\ \A p \in productions :
                           p.head \in V => SymbolsOf(p.body) \cap Heads(productions) \subseteq V)

\* in_use_heads: the heads that derive a word.
InUse(productions) ==
  Smallest(Heads(productions),
           LAMBDA V : \A p \in productions : NonTerminalsOf(p.body) \subseteq V => p.head \in V)

\* non_empty_heads: the heads that derive a word other than the empty one.
NonEmpty(productions) ==
  Smallest(Heads(productions),
           LAMBDA V : \A p \in productions : SymbolsOf(p.body) \cap (Terminal \cup V) # {}
                                              => p.head \in V)

EliminateUselessSymbols(start, productions) ==
  LET reachable == Reachable(start, productions)
      reached == {p \in productions : p.head \in reachable}
      inUse == InUse(reached)
      used == {p \in reached : NonTerminalsOf(p.body) \subseteq inUse}
      empty == (Heads(used) \ NonEmpty(used)) \ {start}
      without(p) == [p EXCEPT !.body = SelectSeq(@, LAMBDA X : X \notin empty)]
  IN  {p \in {without(o) : o \in {u \in used : u.head \notin empty}} : p.body # <<p.head>>}

\* A grammar the constructor accepts and leaves as it is.
IsGrammar(g) ==
  /\ IsFiniteSet(g.productions)
  /\ \A p \in g.productions : p \in Production
  /\ g.start \in Heads(g.productions)
  /\ EliminateUselessSymbols(g.start, g.productions) = g.productions

-----------------------------------------------------------------------------
(* What the passes of CFG::first and CFG::follow end with. (LLParser goes  *)
(* through them pass by pass.)                                             *)

NullableHeads(productions) ==
  Smallest(Heads(productions),
           LAMBDA V : \A p \in productions : SymbolsOf(p.body) \subseteq V => p.head \in V)

Nullable(g, body) == SymbolsOf(body) \subseteq NullableHeads(g.productions)

\* The symbols of a body up to the first that derives no epsilon.
Leaders(g, body) == {body[i] : i \in {j \in DOMAIN body : Nullable(g, SubSeq(body, 1, j - 1))}}

First(g, body) ==
  LET leaders(p) == Leaders(g, p.body)
      begins == Smallest(Heads(g.productions),
                         LAMBDA V : /\ Leaders(g, body) \cap NonTerminal \subseteq V
                                    /\ \A p \in g.productions :
                                         p.head \in V => leaders(p) \cap NonTerminal \subseteq V)
  IN  (Leaders(g, body) \cup UNION {leaders(p) : p \in {q \in g.productions : q.head \in begins}})
        \cap Terminal

Rest(body, i) == SubSeq(body, i + 1, Len(body))

Follow(g, A) ==
  LET ends == Smallest(Heads(g.productions),
                       LAMBDA V : /\ A \in V
                                  /\ \A p \in g.productions : \A i \in DOMAIN p.body :
                                       p.body[i] \in V /\ Nullable(g, Rest(p.body, i))
                                         => p.head \in V)
      after(p) == {i \in DOMAIN p.body : p.body[i] \in ends}
  IN  (UNION {UNION {First(g, Rest(p.body, i)) : i \in after(p)} : p \in g.productions})
        \cup IF g.start \in ends THEN {EndMarker} ELSE {}

-----------------------------------------------------------------------------
(* The words of at most n symbols that the nonterminals derive.            *)

Short(n, W) == {w \in W : Len(w) <= n}

\* The words of a symbol and of a body, when those of the heads are given by L.
SymbolWords(L, X) == IF X \in Terminal THEN {<<X>>} ELSE IF X \in DOMAIN L THEN L[X] ELSE {}

BodyWords(n, L, body) ==
  LET words[k \in Nat] ==
        IF k = 0 THEN {<<>>}
        ELSE LET behind == words[k - 1]
             IN  Short(n, {u \o v : u \in SymbolWords(L, body[Len(body) - k + 1]), v \in behind})
  IN  words[Len(body)]

\* The words with a tree of at most the height h.
WordsByHeight(g, n) ==
  LET words[h \in Nat] ==
        IF h = 0 THEN [A \in Heads(g.productions) |-> {}]
        ELSE LET lower == words[h - 1]
             IN  [A \in Heads(g.productions) |->
                    UNION {BodyWords(n, lower, body) : body \in Bodies(g.productions, A)}]
  IN  words

\* A tree of such a word that is as low as possible has on a path no nonterminal
\* twice over the same part of the word.
DerivedWords(g, n) == WordsByHeight(g, n)[(n + 1) * Cardinality(Heads(g.productions))]

LanguageOf(g, n) ==
  IF g.start \in Heads(g.productions) THEN DerivedWords(g, n)[g.start] ELSE {}

\* What the words of a body begin with: words of some of its symbols, which L gives, and
\* then what the words of the next begin with, which B gives. What is behind derives a word
\* too, as the constructor leaves no symbol that derives none.
BodyBeginnings(n, L, B, body) ==
  {<<>>} \cup UNION {Short(n, {u \o v : u \in BodyWords(n, L, SubSeq(body, 1, k - 1)),
                                      v \in SymbolWords(B, body[k])}) : k \in DOMAIN body}

\* What trees of at most the height h begin with, up to n symbols.
BeginningsByHeight(g, n) ==
  LET words == DerivedWords(g, n)
      begin[h \in Nat] ==
        IF h = 0 THEN [A \in Heads(g.productions) |-> {}]
        ELSE LET lower == begin[h - 1]
             IN  [A \in Heads(g.productions) |->
                    UNION {BodyBeginnings(n, words, lower, body) : body \in Bodies(g.productions, A)}]
  IN  begin

\* All beginnings, up to n symbols, of words, however long these are.
Beginnings(g, n) == BeginningsByHeight(g, n)[(n + 1) * Cardinality(Heads(g.productions))]
=============================================================================

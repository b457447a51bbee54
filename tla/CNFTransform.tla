---------------------------- MODULE CNFTransform ----------------------------
(***************************************************************************)
(* CFG::to_CNF with what it calls (nullable, eliminate_epsilon_productions,*)
(* eliminate_single_productions), on a grammar as its constructor leaves   *)
(* it; and CNF::valid and CNF::parse on what comes out.                    *)
(*                                                                         *)
(* The passes go over the heads in the order of a hash table, the same in  *)
(* every pass, and over the bodies of a head in any order. A nonterminal   *)
(* is a name with a number of primes.                                      *)
(***************************************************************************)
EXTENDS ContextFree, PrimedNames

CONSTANTS Names,      \* the names of nonterminals without their primes
          Given,      \* the start symbols and productions given to the constructor
          Longest     \* bound: the length of the words compared

\* "T_" + std::to_string(s), the name to_CNF makes for a terminal
TName(s) == <<"T_", s>>

ASSUME NonTerminalAssumption ==
  NonTerminal = (Names \cup {TName(s) : s \in Terminal}) \X (0 .. MaxPrimes)
ASSUME GivenAssumption == \A g \in Given : \A p \in g.productions : p \in Production

VARIABLES
  given,       \* what the constructor was given
  grammar,     \* start_symbol, productions
  phase,       \* "given", "thrown", "idle", "nullable", "epsilon", "single", "split" or "done"
  order, pos,  \* the heads in the order of the hash table, the next one to visit
  changed,     \* has_new_nullable_nonterminals, flag
  null,        \* nullable_nonterminals
  deleted,     \* deleted_single_productions
  heads,       \* heads of to_CNF, the names taken
  terminals,   \* terminal_to_nonterminal
  fresh,       \* new_productions
  shortened    \* history: the grammar without epsilon productions

pass == <<order, pos, changed>>
names == <<heads, terminals, fresh>>
vars == <<given, grammar, phase, pass, null, deleted, names, shortened>>

Productions == grammar.productions
Orders(S) == SetToSeqs(S)

-----------------------------------------------------------------------------
Init ==
  /\ given \in Given
  /\ grammar = given
  /\ phase = "given"
  /\ order = <<>> /\ pos = 1 /\ changed = FALSE
  /\ null = {}
  /\ deleted = {}
  /\ heads = {} /\ terminals = <<>> /\ fresh = {}
  /\ shortened = given

\* The constructor, which throws if the start symbol has no productions left.
Construct ==
  LET useful == EliminateUselessSymbols(given.start, given.productions)
  IN  /\ phase = "given"
      /\ grammar' = [grammar EXCEPT !.productions = useful]
      /\ phase' = IF given.start \in Heads(useful) THEN "idle" ELSE "thrown"
      /\ UNCHANGED <<given, pass, null, deleted, names, shortened>>

\* to_CNF puts a new start symbol in front of the old one, and nullable starts.
Call ==
  LET new == NewHead(grammar.start, Heads(Productions))
      added == Productions \cup Rules(new, {<<grammar.start>>})
  IN  /\ phase = "idle"
      /\ grammar' = Grammar(new, added)
      /\ order' \in Orders(Heads(added))
      /\ pos' = 1
      /\ changed' = FALSE
      /\ null' = {}
      /\ phase' = "nullable"
      /\ UNCHANGED <<given, deleted, names, shortened>>

\* nullable visits the bodies of a head. Each that is nullable sets the flag to
\* whether the head is new, so the last of them decides: a second one clears it.
VisitNullable ==
  LET A == order[pos]
      nullable(N) == {body \in Bodies(Productions, A) : SymbolsOf(body) \subseteq N}
  IN  /\ phase = "nullable"
      /\ pos \in DOMAIN order
      /\ pos' = pos + 1
      /\ IF nullable(null) = {}
           THEN UNCHANGED <<null, changed>>
           ELSE /\ null' = null \cup {A}
                /\ changed' \in IF A \in null \/ Cardinality(nullable(null)) > 1 THEN {FALSE}
                                ELSE IF nullable(null') = nullable(null) THEN {TRUE}
                                ELSE BOOLEAN
      /\ UNCHANGED <<given, grammar, phase, order, deleted, names, shortened>>

EndNullablePass ==
  /\ phase = "nullable"
  /\ pos \notin DOMAIN order
  /\ pos' = 1
  /\ changed' = FALSE
  /\ phase' = IF changed THEN "nullable" ELSE "epsilon"
  /\ UNCHANGED <<given, grammar, order, null, deleted, names, shortened>>

\* The bodies with and without the nullable nonterminals. (They start from no
\* partial body and not from an empty one: what the body begins with is lost
\* while it is nullable.)
Variants(body, N) ==
  FoldLeft(LAMBDA partial, X :
             IF X \in N THEN {Append(w, X) : w \in partial} \cup partial
             ELSE IF partial = {} THEN {<<X>>}
             ELSE {Append(w, X) : w \in partial},
           {}, body)

EliminateEpsilon ==
  LET variants(p) == IF SymbolsOf(p.body) \cap null = {} THEN {}
                     ELSE Rules(p.head, Variants(p.body, null))
      nonempty == {p \in Productions \cup UNION {variants(q) : q \in Productions} :
                     p.body # <<>>}
      epsilon == IF grammar.start \in null THEN Rules(grammar.start, {<<>>}) ELSE {}
  IN  /\ phase = "epsilon"
      /\ grammar' = [grammar EXCEPT !.productions =
                       IF null = {} THEN Productions ELSE nonempty \cup epsilon]
      /\ shortened' = grammar'
      /\ deleted' = {}
      /\ phase' = "single"
      /\ UNCHANGED <<given, pass, null, names>>

\* Single productions of A are replaced by the productions of B, but for single
\* ones that were deleted of A before.
ReplaceSingle(A, done, B) ==
  LET gone == done.deleted \cup {<<A, B>>}
      kept == {body \in Bodies(Productions, B) :
                 ~ \E C \in NonTerminal : body = <<C>> /\ <<A, C>> \in gone}
  IN  [deleted |-> gone, bodies |-> IF A = B THEN done.bodies ELSE done.bodies \cup kept]

VisitSingle ==
  LET A == order[pos]
      bodies == Bodies(Productions, A)
      singles == {B \in NonTerminal : <<B>> \in bodies}
  IN  /\ phase = "single"
      /\ pos \in DOMAIN order
      /\ pos' = pos + 1
      /\ changed' = (changed \/ singles # {})
      /\ \E seq \in Orders(singles) :
           LET done == FoldLeft(LAMBDA d, B : ReplaceSingle(A, d, B),
                                [deleted |-> deleted, bodies |-> bodies \ {<<B>> : B \in singles}],
                                seq)
           IN  /\ deleted' = done.deleted
               /\ grammar' = [grammar EXCEPT !.productions =
                                {p \in @ : p.head # A} \cup Rules(A, done.bodies)]
      /\ UNCHANGED <<given, phase, order, null, names, shortened>>

\* Mutant: the flag is not reset at the start of a pass.
EndSinglePass_NoReset ==
  /\ phase = "single"
  /\ pos \notin DOMAIN order
  /\ pos' = 1
  /\ UNCHANGED changed
  /\ IF changed
       THEN UNCHANGED <<phase, names>>
       ELSE /\ phase' = "split"
            /\ heads' = Heads(Productions)
            /\ terminals' = <<>>
            /\ fresh' = {}
  /\ UNCHANGED <<given, grammar, order, null, deleted, shortened>>

\* The last pass is followed by the loop of to_CNF.
EndSinglePass ==
  /\ phase = "single"
  /\ pos \notin DOMAIN order
  /\ pos' = 1
  /\ changed' = FALSE
  /\ IF changed
       THEN UNCHANGED <<phase, names>>
       ELSE /\ phase' = "split"
            /\ heads' = Heads(Productions)
            /\ terminals' = <<>>
            /\ fresh' = {}
  /\ UNCHANGED <<given, grammar, order, null, deleted, shortened>>

\* get_terminal_head for the terminals of a body that have no head yet.
WithTerminals(done, body) ==
  LET new == (SymbolsOf(body) \cap Terminal) \ DOMAIN done.terminals
      heads1 == [s \in new |-> NewHead(<<TName(s), 0>>, done.heads)]
  IN  [done EXCEPT !.terminals = heads1 @@ @, !.heads = @ \cup {heads1[s] : s \in new}]

\* Mutant: the new head is not inserted into heads.
SplitBody_Free(A, done0, body) ==
  LET done == WithTerminals(done0, body)
      ofHeads == [i \in DOMAIN body |-> IF body[i] \in Terminal THEN done.terminals[body[i]]
                                                                ELSE body[i]]
      new == NewHead(A, done.heads)
  IN  IF Len(body) = 2
        THEN [done EXCEPT !.bodies = @ \cup {ofHeads}]
        ELSE [done EXCEPT !.bodies = @ \cup {<<ofHeads[1], new>>},
                          !.fresh = @ \cup Rules(new, {Tail(ofHeads)})]

\* A body of more than one symbol: heads in place of its terminals, and of a body
\* of more than two symbols the first one and a new head for the rest.
SplitBody(A, done0, body) ==
  LET done == WithTerminals(done0, body)
      ofHeads == [i \in DOMAIN body |-> IF body[i] \in Terminal THEN done.terminals[body[i]]
                                                                ELSE body[i]]
      new == NewHead(A, done.heads)
  IN  IF Len(body) = 2
        THEN [done EXCEPT !.bodies = @ \cup {ofHeads}]
        ELSE [done EXCEPT !.bodies = @ \cup {<<ofHeads[1], new>>},
                          !.heads = @ \cup {new},
                          !.fresh = @ \cup Rules(new, {Tail(ofHeads)})]

VisitSplit ==
  LET A == order[pos]
      bodies == Bodies(Productions, A)
      long == {body \in bodies : Len(body) > 1}
  IN  /\ phase = "split"
      /\ pos \in DOMAIN order
      /\ pos' = pos + 1
      /\ \E seq \in Orders(long) :
           LET done == FoldLeft(LAMBDA d, body : SplitBody(A, d, body),
                                [heads |-> heads, terminals |-> terminals, fresh |-> fresh,
                                 bodies |-> bodies \ long],
                                seq)
           IN  /\ heads' = done.heads
               /\ terminals' = done.terminals
               /\ fresh' = done.fresh
               /\ grammar' = [grammar EXCEPT !.productions =
                                {p \in @ : p.head # A} \cup Rules(A, done.bodies)]
      /\ UNCHANGED <<given, phase, order, changed, null, deleted, shortened>>

\* The new productions are visited in the next pass, which leaves the others as
\* they are; when there are none the heads of terminals get their productions.
EndSplitPass ==
  /\ phase = "split"
  /\ pos \notin DOMAIN order
  /\ pos' = 1
  /\ order' \in Orders(Heads(fresh))
  /\ fresh' = {}
  /\ IF fresh # {}
       THEN /\ grammar' = [grammar EXCEPT !.productions = @ \cup fresh]
            /\ UNCHANGED phase
       ELSE /\ grammar' = [grammar EXCEPT !.productions =
                             @ \cup UNION {Rules(terminals[s], {<<s>>}) : s \in DOMAIN terminals}]
            /\ phase' = "done"
  /\ UNCHANGED <<given, changed, null, deleted, heads, terminals, shortened>>

Next ==
  \/ Construct \/ Call
  \/ VisitNullable \/ EndNullablePass \/ EliminateEpsilon
  \/ VisitSingle \/ EndSinglePass
  \/ VisitSplit \/ EndSplitPass

Spec == Init /\ [][Next]_vars

\* A call, once made, is run to its end.
FairSpec == Spec /\ WF_vars(Next)

-----------------------------------------------------------------------------
(* CNF: the check of the constructor and the parser of Cocke, Younger and  *)
(* Kasami.                                                                 *)

Valid(g) ==
  \A p \in g.productions :
    /\ Len(p.body) = 0 => p.head = g.start
    /\ Len(p.body) = 1 => p.body[1] \in Terminal
    /\ Len(p.body) = 2 => SymbolsOf(p.body) \subseteq NonTerminal \ {g.start}
    /\ Len(p.body) <= 2

\* reverse_productions
HeadsOf(g, body) == {p.head : p \in {q \in g.productions : q.body = body}}

\* Mutant: the last place to split a part of the word at is left out.
Parse_Short(g, w) ==
  LET table[n \in 1 .. Len(w)] ==
        [i \in 1 .. Len(w) - n + 1 |->
           IF n = 1 THEN HeadsOf(g, <<w[i]>>)
           ELSE UNION {UNION {HeadsOf(g, <<A, B>>) : A \in table[k][i], B \in table[n - k][i + k]} :
                         k \in 1 .. n - 2}]
  IN  g.start \in IF w = <<>> THEN HeadsOf(g, <<>>) ELSE table[Len(w)][1]

Parse(g, w) ==
  LET table[n \in 1 .. Len(w)] ==
        [i \in 1 .. Len(w) - n + 1 |->
           IF n = 1 THEN HeadsOf(g, <<w[i]>>)
           ELSE UNION {UNION {HeadsOf(g, <<A, B>>) : A \in table[k][i], B \in table[n - k][i + k]} :
                         k \in 1 .. n - 1}]
  IN  g.start \in IF w = <<>> THEN HeadsOf(g, <<>>) ELSE table[Len(w)][1]

-----------------------------------------------------------------------------
Language(g) == LanguageOf(g, Longest)

\* nullable has found all the heads there are to find, and where a body begins with one
\* of them it is the only one in the body: then the variants are all there.
Lossless ==
  LET productions == EliminateUselessSymbols(given.start, given.productions)
      nullable == NullableHeads(productions)
      start == NewHead(given.start, Heads(productions))
  IN  /\ nullable \cup {A \in {start} : given.start \in nullable} \subseteq null
      /\ \A p \in productions :
           p.body # <<>> /\ p.body[1] \in nullable => NonTerminalsOf(Tail(p.body)) \cap nullable = {}

\* The constructor keeps the language, with all that it takes away, and throws for
\* grammars of the empty language only. The transformation adds no word, though names
\* are made up in three of its places. It may lose some where it takes the epsilon
\* productions away, in the cases Lossless leaves out, but nowhere after that.
WordsKept ==
  /\ phase \in {"thrown", "idle"} => Language(grammar) = Language(given)
  /\ phase = "thrown" => Language(given) = {}
  /\ phase = "done" =>
       /\ Language(grammar) = Language(shortened)
       /\ Language(grammar) \subseteq Language(given)
       /\ Lossless => Language(grammar) = Language(given)

\* What comes out is in normal form, so that the table of the parser, which splits a
\* word in two for each body of two heads, answers for the language of the grammar.
NormalForm ==
  phase = "done" =>
    /\ Valid(grammar)
    /\ \A w \in UNION {[1 .. n -> Terminal] : n \in 0 .. Longest} :
         Parse(grammar, w) <=> w \in Language(grammar)

\* What to_CNF promises: the same words, in a form the parser of CNF can use.
NormalFormRight == WordsKept /\ NormalForm

\* The passes come to an end.
TransformEnds == (phase = "nullable") ~> (phase = "done")

=============================================================================

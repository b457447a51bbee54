------------------------------ MODULE LLParser ------------------------------
(***************************************************************************)
(* LL_grammar: calls of get_parse_tree on one grammar object. The first    *)
(* call computes the FIRST and FOLLOW sets and the parsing table, which    *)
(* the object keeps; when the grammar is not LL(1) that throws, and leaves *)
(* the entries made so far to the next call, which takes a table that is   *)
(* not empty for a finished one.                                           *)
(*                                                                         *)
(* The passes that compute FIRST and FOLLOW and the rounds that fill the   *)
(* table go over hash tables: their order is left open. The FIRST sets are *)
(* computed before the FOLLOW sets, as nothing is read of them earlier.    *)
(* The tree under construction is modelled by its frontier, the symbols at *)
(* its leaves.                                                             *)
(***************************************************************************)
EXTENDS ContextFree

CONSTANTS Grammars,  \* the grammars: records [start, productions]
          Words,     \* the words that are parsed
          MaxCalls,  \* bound: calls on one object
          MaxStack   \* bound: what the stack may grow to when a parse never ends

ASSUME GrammarsAssumption == \A g \in Grammars : IsGrammar(g)
ASSUME WordsAssumption == Words \subseteq Seq(Terminal) /\ IsFiniteSet(Words)
ASSUME SymbolsAssumption == Terminal \cap NonTerminal = {} /\ EndMarker \notin GrammarSymbol

VARIABLES
  grammar,
  firsts,   \* first_sets: the terminals
  nullable, \* first_sets: the nonterminals with epsilon_in_first
  follows,  \* follow_sets
  table,    \* parsing_table
  phase,    \* "idle", "first", "follow", "table" or "parse"
  pending,  \* what the pass or the round has not visited yet
  added,    \* add_new_terminal, has_add
  threw,    \* whether a call has thrown no_LL_grammar
  word, at, \* the word and the index of the next symbol, endmarker included
  stack,    \* the stack of parse, its top first
  nodes,    \* the stack of get_parse_tree, its top first: leaves to the right of each
  frontier, \* the leaves of the tree
  answer,   \* what the last call gave: "none", "tree", "null" or "throw"
  calls

sets == <<firsts, nullable, follows>>
tree == <<nodes, frontier>>
vars == <<grammar, sets, table, phase, pending, added, threw, word, at, stack, tree,
          answer, calls>>

Lookahead == Terminal \cup {EndMarker}
Input == Append(word, EndMarker)

\* What the stack holds: symbols, and callbacks for a production and a position.
Symbol(X) == <<"symbol", X>>
Callback(A, body, pos) == <<"callback", A, body, pos>>

-----------------------------------------------------------------------------
Init ==
  /\ grammar \in Grammars
  /\ firsts = [A \in NonTerminal |-> {}]
  /\ nullable = {}
  /\ follows = [A \in NonTerminal |-> {}]
  /\ table = <<>>
  /\ phase = "idle"
  /\ pending = {}
  /\ added = FALSE
  /\ threw = FALSE
  /\ word = <<>>
  /\ at = 1
  /\ stack = <<>>
  /\ nodes = <<>>
  /\ frontier = <<>>
  /\ answer = "none"
  /\ calls = 0

\* The stacks of parse and of get_parse_tree as they are set up.
StartStacks ==
  /\ stack' = <<Symbol(grammar.start), Symbol(EndMarker)>>
  /\ nodes' = <<0>>
  /\ frontier' = <<grammar.start>>
  /\ at' = 1

\* What CFG::first starts from: the bodies that are empty or start with a terminal.
StartSets ==
  /\ firsts' = [A \in NonTerminal |->
                 {a \in Terminal : \E p \in grammar.productions :
                                     p.head = A /\ p.body # <<>> /\ p.body[1] = a}]
  /\ nullable' = {A \in NonTerminal : [head |-> A, body |-> <<>>] \in grammar.productions}

\* A call of get_parse_tree. A table that is not empty is used as it is.
Call(w) ==
  /\ phase = "idle"
  /\ calls < MaxCalls
  /\ calls' = calls + 1
  /\ word' = w
  /\ answer' = "none"
  /\ StartStacks
  /\ IF table = <<>>
       THEN phase' = "first" /\ pending' = grammar.productions /\ StartSets
       ELSE phase' = "parse" /\ pending' = {} /\ UNCHANGED <<firsts, nullable>>
  /\ UNCHANGED <<grammar, follows, table, added, threw>>

\* The symbols of a body up to the first that is no nonterminal with epsilon.
Leading(body) == {i \in DOMAIN body : \A j \in 1 .. i - 1 : body[j] \in nullable}
FirstOf(X) == IF X \in NonTerminal THEN firsts[X] ELSE {X}

\* CFG::first of a string of symbols.
FirstTerminals(body) == UNION {FirstOf(body[i]) : i \in Leading(body)}
HasEpsilon(body) == \A i \in DOMAIN body : body[i] \in nullable

\* Mutant: a pass that found only epsilon is taken for one that added nothing.
VisitFirst_NoFlag(p) ==
  /\ phase = "first"
  /\ p \in pending
  /\ pending' = pending \ {p}
  /\ firsts' = [firsts EXCEPT ![p.head] = @ \cup FirstTerminals(p.body)]
  /\ nullable' = IF HasEpsilon(p.body) THEN nullable \cup {p.head} ELSE nullable
  /\ added' = (added \/ firsts' # firsts)
  /\ UNCHANGED <<grammar, follows, table, phase, threw, word, at, stack, tree, answer, calls>>

\* A pass of CFG::first visits a production.
VisitFirst(p) ==
  /\ phase = "first"
  /\ p \in pending
  /\ pending' = pending \ {p}
  /\ firsts' = [firsts EXCEPT ![p.head] = @ \cup FirstTerminals(p.body)]
  /\ nullable' = IF HasEpsilon(p.body) THEN nullable \cup {p.head} ELSE nullable
  /\ added' = (added \/ firsts' # firsts \/ nullable' # nullable)
  /\ UNCHANGED <<grammar, follows, table, phase, threw, word, at, stack, tree, answer, calls>>

\* The nonterminals of the bodies, by production and index.
Occurrences ==
  UNION {{p} \X {i \in DOMAIN p.body : p.body[i] \in NonTerminal} : p \in grammar.productions}

\* A pass that added something is followed by another; the last pass of
\* CFG::first is followed by CFG::follow.
EndFirstPass ==
  /\ phase = "first"
  /\ pending = {}
  /\ added' = FALSE
  /\ IF added
       THEN pending' = grammar.productions /\ UNCHANGED <<phase, follows>>
       ELSE /\ pending' = Occurrences
            /\ phase' = "follow"
            /\ follows' = [follows EXCEPT ![grammar.start] = @ \cup {EndMarker}]
  /\ UNCHANGED <<grammar, firsts, nullable, table, threw, word, at, stack, tree, answer, calls>>

\* A pass of CFG::follow visits a nonterminal of a body.
VisitFollow(x) ==
  LET p == x[1]
      rest == SubSeq(p.body, x[2] + 1, Len(p.body))
  IN  /\ phase = "follow"
      /\ x \in pending
      /\ pending' = pending \ {x}
      /\ follows' = [follows EXCEPT ![p.body[x[2]]] =
                       @ \cup FirstTerminals(rest)
                         \cup IF HasEpsilon(rest) THEN follows[p.head] ELSE {}]
      /\ added' = (added \/ follows' # follows)
      /\ UNCHANGED <<grammar, firsts, nullable, table, phase, threw, word, at, stack, tree,
                     answer, calls>>

EndFollowPass ==
  /\ phase = "follow"
  /\ pending = {}
  /\ added' = FALSE
  /\ IF added THEN pending' = Occurrences /\ UNCHANGED phase
              ELSE pending' = grammar.productions /\ phase' = "table"
  /\ UNCHANGED <<grammar, sets, table, threw, word, at, stack, tree, answer, calls>>

\* Mutant: the symbols that follow the head are left out.
FollowKeys_None(p) == {}

\* The entries a production makes: first those for the symbols that follow its
\* head, if it derives epsilon, then those for the symbols it starts with.
FollowKeys(p) == IF HasEpsilon(p.body) THEN follows[p.head] \X {p.head} ELSE {}
FirstKeys(p) == FirstTerminals(p.body) \X {p.head}

\* The table with entries for a production added.
WithEntries(K, p) == [k \in DOMAIN table \cup K |-> IF k \in K THEN p.body ELSE table[k]]

\* A production whose entries are all new.
AddRow(p) ==
  /\ phase = "table"
  /\ p \in pending
  /\ FollowKeys(p) \cap FirstKeys(p) = {}
  /\ (FollowKeys(p) \cup FirstKeys(p)) \cap DOMAIN table = {}
  /\ table' = WithEntries(FollowKeys(p) \cup FirstKeys(p), p)
  /\ pending' = pending \ {p}
  /\ UNCHANGED <<grammar, sets, phase, added, threw, word, at, stack, tree, answer, calls>>

\* Mutant: the entry that is there already is kept, and nothing is thrown.
Conflict_Ignored(p) ==
  /\ phase = "table"
  /\ p \in pending
  /\ (FollowKeys(p) \cup FirstKeys(p)) \cap DOMAIN table # {}
  /\ table' = WithEntries((FollowKeys(p) \cup FirstKeys(p)) \ DOMAIN table, p)
  /\ pending' = pending \ {p}
  /\ UNCHANGED <<grammar, sets, phase, added, threw, word, at, stack, tree, answer, calls>>

\* A production with an entry that is there already: the call throws, and the
\* entries it made before that one stay.
Conflict(p) ==
  /\ phase = "table"
  /\ p \in pending
  /\ IF FollowKeys(p) \cap DOMAIN table # {}
       THEN \E K \in SUBSET (FollowKeys(p) \ DOMAIN table) : table' = WithEntries(K, p)
       ELSE /\ FirstKeys(p) \cap (DOMAIN table \cup FollowKeys(p)) # {}
            /\ \E K \in SUBSET (FirstKeys(p) \ DOMAIN table) :
                 table' = WithEntries(FollowKeys(p) \cup K, p)
  /\ phase' = "idle"
  /\ threw' = TRUE
  /\ answer' = "throw"
  /\ pending' = {}
  /\ UNCHANGED <<grammar, sets, added, word, at, stack, tree, calls>>

TableDone ==
  /\ phase = "table"
  /\ pending = {}
  /\ phase' = "parse"
  /\ UNCHANGED <<grammar, sets, table, pending, added, threw, word, at, stack, tree, answer,
                 calls>>

-----------------------------------------------------------------------------
Top == Head(stack)
OnSymbol(S) == phase = "parse" /\ stack # <<>> /\ Top[1] = "symbol" /\ Top[2] \in S

parsing == <<grammar, sets, table, pending, added, threw, word, calls>>

\* For each symbol the leaf to push: a nonterminal, by the leaves to the right of it.
Children(symbols, right) ==
  [i \in 1 .. Len(symbols) |->
     IF symbols[i] \in NonTerminal THEN <<right + Len(symbols) - i>> ELSE <<>>]

\* Mutant: the children that are nonterminals are pushed in the order of the body.
RunCallback_Reversed ==
  /\ phase = "parse"
  /\ stack # <<>>
  /\ Top[1] = "callback"
  /\ LET body == Top[3]
         place == Len(frontier) - Head(nodes)
     IN  IF Top[4] = 0
           THEN /\ frontier' = SubSeq(frontier, 1, place - 1) \o body
                                 \o SubSeq(frontier, place + 1, Len(frontier))
                /\ nodes' = Onto(Reverse(Children(body, Head(nodes))), Tail(nodes))
           ELSE UNCHANGED tree
  /\ stack' = Tail(stack)
  /\ UNCHANGED <<parsing, phase, at, answer>>

\* The callback for the start of a production: the node on top of the stack of
\* get_parse_tree gets its children, and those that are nonterminals are pushed.
\* At other positions the callback of get_parse_tree does nothing.
RunCallback ==
  /\ phase = "parse"
  /\ stack # <<>>
  /\ Top[1] = "callback"
  /\ LET body == Top[3]
         place == Len(frontier) - Head(nodes)
     IN  IF Top[4] = 0
           THEN /\ frontier' = SubSeq(frontier, 1, place - 1) \o body
                                 \o SubSeq(frontier, place + 1, Len(frontier))
                /\ nodes' = Onto(Children(body, Head(nodes)), Tail(nodes))
           ELSE UNCHANGED tree
  /\ stack' = Tail(stack)
  /\ UNCHANGED <<parsing, phase, at, answer>>

MatchTerminal ==
  /\ OnSymbol(Lookahead)
  /\ Input[at] = Top[2]
  /\ at' = at + 1
  /\ stack' = Tail(stack)
  /\ UNCHANGED <<parsing, phase, tree, answer>>

\* What is pushed for a production, the callback for its end first.
Pushed(A, body, rest) ==
  Onto([i \in 1 .. Len(body) |-> <<Callback(A, body, i - 1), Symbol(body[i])>>],
       <<Callback(A, body, Len(body))>> \o rest)

Expand ==
  /\ OnSymbol(NonTerminal)
  /\ <<Input[at], Top[2]>> \in DOMAIN table
  /\ Len(stack) < MaxStack
  /\ stack' = Pushed(Top[2], table[<<Input[at], Top[2]>>], Tail(stack))
  /\ UNCHANGED <<parsing, phase, at, tree, answer>>

\* The terminal is another one, or the table has no entry: parse returns false.
Reject ==
  /\ \/ OnSymbol(Lookahead) /\ Input[at] # Top[2]
     \/ OnSymbol(NonTerminal) /\ <<Input[at], Top[2]>> \notin DOMAIN table
  /\ phase' = "idle"
  /\ answer' = "null"
  /\ UNCHANGED <<parsing, at, stack, tree>>

Accept ==
  /\ phase = "parse"
  /\ stack = <<>>
  /\ phase' = "idle"
  /\ answer' = "tree"
  /\ UNCHANGED <<parsing, at, stack, tree>>

Computing ==
  \/ EndFirstPass \/ EndFollowPass \/ TableDone
  \/ \E p \in grammar.productions : VisitFirst(p) \/ AddRow(p) \/ Conflict(p)
  \/ \E x \in Occurrences : VisitFollow(x)

Parsing == RunCallback \/ MatchTerminal \/ Expand \/ Reject \/ Accept

Next == Computing \/ Parsing \/ \E w \in Words : Call(w)

Spec == Init /\ [][Next]_vars

\* A call, once made, is run to its end.
FairSpec == Spec /\ WF_vars(Computing) /\ WF_vars(Parsing)

-----------------------------------------------------------------------------
\* What the stack of parse may hold.
Entries ==
  {Symbol(X) : X \in GrammarSymbol \cup {EndMarker}}
    \cup UNION {{Callback(p.head, p.body, pos) : pos \in 0 .. Len(p.body)} : p \in grammar.productions}

TypeOK ==
  /\ grammar \in Grammars
  /\ firsts \in [NonTerminal -> SUBSET Terminal]
  /\ nullable \subseteq NonTerminal
  /\ follows \in [NonTerminal -> SUBSET Lookahead]
  /\ DOMAIN table \subseteq Lookahead \X NonTerminal
  /\ \A k \in DOMAIN table : [head |-> k[2], body |-> table[k]] \in grammar.productions
  /\ phase \in {"idle", "first", "follow", "table", "parse"}
  /\ phase \in {"first", "table"} => pending \subseteq grammar.productions
  /\ phase = "follow" => pending \subseteq Occurrences
  /\ added \in BOOLEAN /\ threw \in BOOLEAN
  /\ word \in Seq(Terminal) /\ at \in 1 .. Len(word) + 2
  /\ stack \in Seq(Entries)
  /\ nodes \in Seq(Nat)
  /\ frontier \in Seq(GrammarSymbol)
  /\ answer \in {"none", "tree", "null", "throw"}
  /\ calls \in Nat

\* The symbols the stack of parse still has to match.
SymbolOf(e) == IF e[1] = "symbol" THEN <<e[2]>> ELSE <<>>
ToMatch == Onto([i \in 1 .. Len(stack) |-> SymbolOf(stack[i])], <<>>)

\* The nonterminals of the frontier, by the leaves to the right of them.
OpenLeaves == Onto(Children(frontier, 0), <<>>)

\* The tree and the parse keep step, though one is built by the callbacks of the
\* other: outside of the start of a production, what was read and what is left to
\* match are the leaves of the tree, and the stack of get_parse_tree holds its
\* open leaves from left to right.
InStep ==
  phase = "parse" /\ ~ (stack # <<>> /\ Top[1] = "callback" /\ Top[4] = 0) =>
    /\ SubSeq(Input, 1, at - 1) \o ToMatch = Append(frontier, EndMarker)
    /\ nodes = OpenLeaves

\* The words of the nonterminals, as long as the longest word.
Longest == Max({Len(w) : w \in Words})
WordsOf == [g \in Grammars |-> DerivedWords(g, Longest)]

\* A tree is given for words of the grammar only, even by a table an exception
\* left unfinished, and a finished table gives one for all of them.
AnswerRight ==
  /\ answer = "tree" => word \in WordsOf[grammar][grammar.start] /\ frontier = word
  /\ answer = "null" /\ ~ threw => word \notin WordsOf[grammar][grammar.start]

\* The FIRST sets are exact when the passes end: the terminals are those that words
\* of the nonterminal start with, and epsilon is there when it is such a word. (A
\* set too large is a conflict in the table of a grammar that is LL(1).)
FirstSetsExact ==
  phase \in {"follow", "table", "parse"} =>
    \A A \in Heads(grammar.productions) :
      LET words == WordsOf[grammar][A]
      IN  /\ firsts[A] = {w[1] : w \in words \ {<<>>}}
          /\ A \in nullable <=> <<>> \in words

\* With a finished table every parse comes to its end. (A table left unfinished
\* by an exception may expand a left-recursive nonterminal for ever.)
ParseEnds == (phase = "parse" /\ ~ threw) ~> (phase = "idle")
=============================================================================

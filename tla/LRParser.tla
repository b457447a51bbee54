------------------------------ MODULE LRParser ------------------------------
(***************************************************************************)
(* LR_0_grammar (as DCFG) and LR_1_grammar (as SLR_grammar, LALR_grammar   *)
(* and canonical_LR_grammar): calls of get_parse_tree on one grammar       *)
(* object. The first call constructs the parsing table, which the object   *)
(* keeps; on a conflict that throws, and leaves the entries made so far to *)
(* the next call, which takes a table that is not empty for a finished one.*)
(*                                                                         *)
(* The shift entries, which are all made before the first reduce entry,    *)
(* are read off the goto table. The trees are modelled by their root and   *)
(* the word at their leaves.                                               *)
(***************************************************************************)
EXTENDS LRItems

CONSTANTS Grammars,  \* a sequence of grammars: records [start, productions]
          Words,     \* the words that are parsed
          MaxCalls,  \* bound: calls on one object
          MaxSteps,  \* bound: symbols on the way to a state of a DK automaton
          MaxStack   \* bound: what the stack may grow to when a parse never ends

ASSUME GrammarsAssumption ==
  \A i \in DOMAIN Grammars : /\ IsGrammar(Grammars[i])
                            /\ StartSymbol \notin Heads(Grammars[i].productions)
ASSUME WordsAssumption == Words \subseteq Seq(Terminal) /\ IsFiniteSet(Words)
ASSUME SymbolsAssumption ==
  IsFiniteSet(GrammarSymbol) /\ Terminal \cap NonTerminal = {} /\ EndMarker \notin GrammarSymbol
ASSUME StartSymbolAssumption == StartSymbol \in NonTerminal

\* The bound leaves out no state of a DK automaton.
ASSUME StepsAssumption ==
  /\ MaxSteps \in Nat
  /\ \A i \in DOMAIN Grammars, kind \in Kinds : IsWhole(Normalized(Grammars[i], kind), kind, MaxSteps)

\* The grammar objects, each with what its get_collection gives. The constructor of
\* DCFG throws when its grammar fails the test.
Objects ==
  {o \in {[grammar |-> i, kind |-> k, tables |-> TablesOf(Grammars[i], k, MaxSteps)] :
            i \in DOMAIN Grammars, k \in Kinds} :
     o.kind = "DCFG" => DKTest(o.tables)}

VARIABLES
  object,   \* the number of its grammar, its kind and its tables
  table,    \* action_table or reduction_table: "empty", "unfinished" or "finished"
  entries,  \* its reduce entries: state, lookahead symbol, completed item
  extended, \* whether normalize_start_symbol has put a new head before the start symbol
  phase,    \* "idle", "construct" or "parse"
  threw,    \* whether a call of get_parse_tree has thrown
  word, at, \* the word and the index of the next symbol, endmarker included
  stack,    \* the stack of parse, its top last
  viable,   \* viable_prefix of get_parse_tree: trees
  parent,   \* parent of get_parse_tree: no tree, or one
  answer,   \* what the last call gave: "none", "tree", "null" or "throw"
  calls

vars == <<object, table, entries, extended, phase, threw, word, at, stack, viable, parent,
          answer, calls>>
tree == <<viable, parent>>
constructed == <<object, table, entries, extended, threw, word, calls>>

T == object.tables
ItemsOf(n) == CompletedItems(T.collection[n])
Start == Grammars[object.grammar].start
Input == Append(word, EndMarker)
Tree(X, yield) == [symbol |-> X, yield |-> yield]

-----------------------------------------------------------------------------
Init ==
  /\ object \in Objects
  /\ table = "empty"
  /\ entries = {}
  /\ extended = FALSE
  /\ phase = "idle"
  /\ threw = FALSE
  /\ word = <<>>
  /\ at = 1
  /\ stack = <<>>
  /\ viable = <<>>
  /\ parent = <<>>
  /\ answer = "none"
  /\ calls = 0

\* A call of get_parse_tree. A table that is not empty is used as it is.
Call(w) ==
  /\ phase = "idle"
  /\ calls < MaxCalls
  /\ calls' = calls + 1
  /\ word' = w
  /\ at' = 1
  /\ stack' = <<T.start>>
  /\ viable' = <<>>
  /\ parent' = <<>>
  /\ answer' = "none"
  /\ phase' = IF table = "empty" THEN "construct" ELSE "parse"
  /\ UNCHANGED <<object, table, entries, extended, threw>>

\* An exception leaves the new head in the grammar; the next construction of a table
\* finds it there and puts no other.
Throw ==
  /\ phase' = "idle"
  /\ threw' = TRUE
  /\ extended' = TRUE
  /\ answer' = "throw"
  /\ word' = <<>>
  /\ stack' = <<>>
  /\ UNCHANGED <<object, at, tree, calls>>

\* DK_1_test fails: nothing is in the action table yet.
TestFails ==
  /\ phase = "construct"
  /\ object.kind # "DCFG"
  /\ DK1TestMayFail(T)
  /\ Throw
  /\ UNCHANGED <<table, entries>>

\* The states that have completed items, and no conflict.
Enterable(items) == \A i, j \in items : ~ Overlap(i, j)
Harmless == {n \in DOMAIN T.collection : ItemsOf(n) # {} /\ Enterable(ItemsOf(n))}

EntriesOf(n, items) == UNION {Entries(n, item) : item \in items}
EntriesIn(states) == UNION {EntriesOf(n, ItemsOf(n)) : n \in states}

\* A conflict that DK_1_test let pass is met in some state n: other states have been
\* entered, some items of n, and the item in conflict in part.
Conflict ==
  /\ phase = "construct"
  /\ object.kind # "DCFG"
  /\ ~ DK1TestMustFail(T)
  /\ \E n \in (DOMAIN T.collection) \ Harmless, done \in SUBSET Harmless :
     \E before \in SUBSET ItemsOf(n) :
     \E item \in ItemsOf(n) \ before :
       /\ Enterable(before)
       /\ \E i \in before : Overlap(i, item)
       /\ \E part \in SUBSET (item.ahead \ UNION {i.ahead : i \in before}) :
            entries' = UNION {EntriesIn(done), EntriesOf(n, before), {<<n, l, item>> : l \in part}}
  /\ table' = "unfinished"
  /\ Throw

TableDone ==
  /\ phase = "construct"
  /\ object.kind # "DCFG" => ~ DK1TestMustFail(T)
  /\ \A n \in DOMAIN T.collection : Enterable(ItemsOf(n))
  /\ entries' = EntriesIn(DOMAIN T.collection)
  /\ table' = "finished"
  /\ extended' = FALSE
  /\ phase' = "parse"
  /\ UNCHANGED <<object, threw, word, at, stack, tree, answer, calls>>

-----------------------------------------------------------------------------
Top == stack[Len(stack)]
Ahead == Input[at]

\* The item to reduce by, if the table has one for the top of the stack.
Found == {e[3] : e \in {f \in entries : f[1] = Top /\ f[2] = Ahead}}

\* Mutant: the reject state of the DK automaton is a state like the others.
CanShift_Reject ==
  Ahead \in Terminal /\ Found = {}

\* LR_0 shifts into the reject state too, if the grammar uses the symbol; LR_1 makes no
\* entries for it.
CanShift ==
  /\ Ahead \in Terminal
  /\ Found = {}
  /\ IF object.kind = "DCFG" THEN Ahead \in Terminals(Grammars[object.grammar])
     ELSE GotoState(T, Top, Ahead) \in LiveStates(T)

\* Mutant: the symbol that was shifted is read again.
Shift_Stay ==
  /\ phase = "parse"
  /\ CanShift
  /\ Len(stack) < MaxStack
  /\ stack' = Append(stack, GotoState(T, Top, Ahead))
  /\ viable' = Append(viable, Tree(Ahead, <<Ahead>>))
  /\ UNCHANGED <<constructed, phase, at, parent, answer>>

Shift ==
  /\ phase = "parse"
  /\ CanShift
  /\ Len(stack) < MaxStack
  /\ stack' = Append(stack, GotoState(T, Top, Ahead))
  /\ viable' = Append(viable, Tree(Ahead, <<Ahead>>))
  /\ at' = at + 1
  /\ UNCHANGED <<constructed, phase, parent, answer>>

\* The sequence without its last n elements, and these elements.
Without(seq, n) == SubSeq(seq, 1, Len(seq) - n)
LastOf(seq, n) == SubSeq(seq, Len(seq) - n + 1, Len(seq))

\* The callback for a reduction: the children of the new node are the last nodes
\* of the viable prefix.
MakeNode(item) ==
  LET children == LastOf(viable, Len(item.body))
      node == Tree(item.head, FlattenSeq([i \in DOMAIN children |-> children[i].yield]))
  IN  /\ parent' = <<node>>
      /\ viable' = Append(Without(viable, Len(item.body)), node)

\* LR_0 is done when a reduction leaves the start state only, and all is read.
LR0Done(popped) == object.kind = "DCFG" /\ Len(popped) = 1 /\ Ahead = EndMarker

\* Mutant: the state a reduction goes to is looked up before the body is popped.
Reduce_Early ==
  /\ phase = "parse"
  /\ \E item \in Found :
       LET popped == Without(stack, Len(item.body))
       IN  /\ item.head # StartSymbol
           /\ MakeNode(item)
           /\ IF LR0Done(popped)
                THEN phase' = "idle" /\ answer' = "tree" /\ stack' = popped
                ELSE /\ Len(popped) < MaxStack
                     /\ stack' = Append(popped, GotoState(T, Top, item.head))
                     /\ UNCHANGED <<phase, answer>>
  /\ UNCHANGED <<constructed, at>>

Reduce ==
  /\ phase = "parse"
  /\ \E item \in Found :
       LET popped == Without(stack, Len(item.body))
       IN  /\ item.head # StartSymbol
           /\ MakeNode(item)
           /\ IF LR0Done(popped)
                THEN phase' = "idle" /\ answer' = "tree" /\ stack' = popped
                ELSE /\ Len(popped) < MaxStack
                     /\ stack' = Append(popped, GotoState(T, popped[Len(popped)], item.head))
                     /\ UNCHANGED <<phase, answer>>
  /\ UNCHANGED <<constructed, at>>

\* The item of the start symbol LR_1 made up is not reduced: its entry accepts.
Accept ==
  /\ phase = "parse"
  /\ \E item \in Found : item.head = StartSymbol
  /\ phase' = "idle"
  /\ answer' = "tree"
  /\ UNCHANGED <<constructed, at, stack, tree>>

\* No action for the state and the symbol.
Reject ==
  /\ phase = "parse"
  /\ Found = {}
  /\ ~ CanShift
  /\ phase' = "idle"
  /\ answer' = "null"
  /\ UNCHANGED <<constructed, at, stack, tree>>

Constructing == TestFails \/ Conflict \/ TableDone
Parsing == Shift \/ Reduce \/ Accept \/ Reject

Next == Constructing \/ Parsing \/ \E w \in Words : Call(w)

Spec == Init /\ [][Next]_vars

\* A call, once made, is run to its end.
FairSpec == Spec /\ WF_vars(Constructing) /\ WF_vars(Parsing)

-----------------------------------------------------------------------------
\* The words of the nonterminals, up to the longest that is parsed, and what can be continued
\* to a word of the grammar, however long.
Longest == Max({Len(w) : w \in Words})
WordsOf == [i \in DOMAIN Grammars |-> DerivedWords(Grammars[i], Longest)]
PrefixesOf == [i \in DOMAIN Grammars |-> Beginnings(Grammars[i], Longest)[Grammars[i].start]]

Derives(t) ==
  IF t.symbol \in Terminal THEN t.yield = <<t.symbol>>
  ELSE t.yield \in WordsOf[object.grammar][t.symbol]

\* The stack of parse and the viable prefix of get_parse_tree, which the callbacks
\* fill, keep step: the states are those the DK automaton goes through on the
\* symbols of the prefix, each tree of the prefix derives its word, and these words
\* make up what was read. This holds for a table an exception left unfinished too.
InStep ==
  phase = "parse" =>
    /\ Len(stack) = Len(viable) + 1
    /\ stack[1] = T.start
    /\ \A i \in DOMAIN viable : /\ stack[i + 1] = GotoState(T, stack[i], viable[i].symbol)
                                /\ Derives(viable[i])
    /\ FlattenSeq([i \in DOMAIN viable |-> viable[i].yield]) = SubSeq(word, 1, at - 1)

\* A tree is a tree of the word that was parsed, of all of it, even with a table an
\* exception left unfinished; LR_1 gives one of the start symbol. With a finished
\* table a word that is turned down is no word of the grammar.
AnswerRight ==
  /\ answer = "tree" => /\ parent[1].yield = word
                        /\ Derives(parent[1])
                        /\ object.kind # "DCFG" => parent[1].symbol = Start
  /\ answer = "null" /\ ~ threw => word \notin WordsOf[object.grammar][Start]

\* LR_1 shifts no symbol past an error: what it has shifted is the beginning of some
\* word of the grammar, though SLR and LALR may reduce before they see the error.
ErrorsFoundAtOnce ==
  phase = "parse" /\ object.kind # "DCFG" =>
    SubSeq(word, 1, at - 1) \in PrefixesOf[object.grammar]

\* The symbols a production leads to when the rest of its body derives epsilon.
Alone(g, p) ==
  {p.body[i] : i \in {j \in DOMAIN p.body :
                       \A k \in DOMAIN p.body \ {j} : Nullable(g, <<p.body[k]>>)}}

\* Whether some head derives itself, in one step or more.
Cyclic(g) ==
  \E V \in (SUBSET Heads(g.productions)) \ {{}} :
    \A A \in V : \E p \in g.productions : p.head = A /\ Alone(g, p) \cap V # {}

\* With a finished table every parse comes to its end, unless a head of the grammar
\* derives itself: DK_test lets such a grammar pass, and parse may then reduce round
\* and round. (So it may by a table an exception left unfinished.)
ParseEnds ==
  (phase = "parse" /\ ~ threw /\ ~ Cyclic(Grammars[object.grammar])) ~> (phase = "idle")

=============================================================================

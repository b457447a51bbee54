--------------------------- MODULE RegexConversion ---------------------------
(***************************************************************************)
(* From automata to regular expressions and back. A GNFA is made from a    *)
(* DFA and its states are removed one by one until one transition is left, *)
(* whose label is an expression of the DFA. That expression, or one that   *)
(* regex::parse makes of a text, is turned into an NFA (Thompson) and into *)
(* a DFA (McNaughton and Yamada), and both read a word.                    *)
(*                                                                         *)
(* The DFA of regex::to_DFA is followed on the sets of positions its       *)
(* states stand for. The grammar of an expression is made of those of its  *)
(* parts: each part gets a start symbol that its neighbour on the left     *)
(* does not use.                                                           *)
(***************************************************************************)
EXTENDS RegexParse, PrimedNames

CONSTANTS Symbol,  \* the alphabet
          DFAs     \* the automata GNFAs are made from

IsDFA(d) ==
  /\ d.states \subseteq Nat /\ d.states # {} /\ IsFiniteSet(d.states)
  /\ d.delta \in [d.states \X Symbol -> d.states]
  /\ d.start \in d.states
  /\ d.final \subseteq d.states

ASSUME SymbolAssumption == IsFiniteSet(Symbol) /\ EndMarker \notin Symbol
ASSUME DFAsAssumption == \A d \in DFAs : IsDFA(d)

VARIABLES
  source,      \* the DFA a GNFA was made from, if the expression is of one
  states,      \* states of the GNFA
  transition,  \* transition_function of the GNFA
  phase,       \* "text", "gnfa", "regex", "read", "grammar", or "unsupported" when to_NFA throws
  tree,        \* the expression
  nfa,         \* what to_NFA makes of it
  follow,      \* follow_pos_table of to_DFA
  grammar,     \* what to_CFG makes of it
  word,        \* the word read
  T,           \* the states of nfa the word leads to
  P            \* the positions the state of the DFA stands for

gnfa == <<source, states, transition>>
automata == <<nfa, follow, grammar>>
conversionVars == <<gnfa, phase, tree, automata, word, T, P>>
vars == <<parseVars, conversionVars>>

NoDFA == [states |-> {}]
NoNFA == NFA({}, {}, {}, 0, 0)

\* The states the constructor of GNFA adds.
Start == Max(source.states) + 1
Final == Max(source.states) + 2

-----------------------------------------------------------------------------
(* Grammars of expressions.                                                *)

CF == INSTANCE ContextFree WITH Terminal <- Symbol, NonTerminal <- {"S"} \X (0 .. MaxPrimes)

FirstName == <<"S", 0>>

\* The constructor of CFG. Without a production for the start symbol it throws.
Made(start, productions) == CF!Grammar(start, CF!EliminateUselessSymbols(start, productions))
Threw(g) == g.start \notin CF!Heads(g.productions)

\* unordered_map::merge: what is there for a head stays.
Merge(productions, g) ==
  productions \cup {p \in g.productions : p.head \notin CF!Heads(productions)}

\* A name for the right part. Mutant: the same.
RightName_Same(start, left) == start
RightName(start, left) == NewHead(start, CF!Heads(left.productions))

\* A new start symbol for two parts, which is not among the heads of the right one.
Joint(left, right, bodies) ==
  LET start == NewHead(right.start, CF!Heads(right.productions))
  IN  IF Threw(left) THEN left
      ELSE IF Threw(right) THEN right
      ELSE Made(start, Merge(Merge(CF!Rules(start, bodies), left), right))

\* The grammar of a star has no productions but its own two.
StarGrammar(inner, start) ==
  LET parent == NewHead(inner.start, CF!Heads(inner.productions))
  IN  IF Threw(inner) THEN inner ELSE Made(parent, CF!Rules(parent, {<<inner.start, start>>, <<>>}))

\* to_CFG, of a tree without an empty_set_node.
RECURSIVE ToCFG(_, _)
ToCFG(t, start) ==
  CASE t.kind = "basic" -> Made(start, CF!Rules(start, {<<t.symbol>>}))
    [] t.kind = "epsilon" -> Made(start, CF!Rules(start, {<<>>}))
    [] t.kind = "union" ->
         LET left == ToCFG(t.left, start)
             right == ToCFG(t.right, RightName(start, left))
         IN  Joint(left, right, {<<left.start>>, <<right.start>>})
    [] t.kind = "concat" ->
         LET left == ToCFG(t.left, start)
             right == ToCFG(t.right, RightName(start, left))
         IN  Joint(left, right, {<<left.start, right.start>>})
    [] t.kind = "star" -> StarGrammar(ToCFG(t.inner, start), start)

-----------------------------------------------------------------------------
\* The label of the transitions of d from p to q, in the order of the hash table.
Label(d, p, q, order) ==
  LET read == SelectSeq(order, LAMBDA a : d.delta[<<p, a>>] = q)
      basic == [i \in DOMAIN read |-> Basic(p, read[i])]
  IN  FoldLeft(LAMBDA t, node : Union(t, node), Head(basic), Tail(basic))

Init ==
  /\ \/ \E d \in DFAs, order \in SetToSeqs(Symbol) :
          LET start == Max(d.states) + 1
              final == Max(d.states) + 2
          IN  /\ source = d
              /\ states = d.states \cup {start, final}
              /\ transition =
                   [x \in {<<p, d.delta[<<p, a>>]>> : p \in d.states, a \in Symbol} |->
                      Label(d, x[1], x[2], order)]
                     @@ [x \in {<<start, d.start>>} \cup d.final \X {final} |-> Epsilon]
              /\ phase = "gnfa"
              /\ NoText
     \/ /\ source = NoDFA
        /\ states = {}
        /\ transition = <<>>
        /\ phase = "text"
        /\ ParseInit
  /\ Unparsed
  /\ tree = EmptySet
  /\ nfa = NoNFA
  /\ follow = <<>>
  /\ grammar = CF!Grammar(FirstName, {})
  /\ word = <<>>
  /\ T = {}
  /\ P = {}

\* The expression that was parsed. Bound: one over Symbol.
FromText ==
  /\ phase = "text"
  /\ stage = "tree"
  /\ alphabet.symbols = Symbol /\ {leaf.symbol : leaf \in ToSet(Leaves(Head(nodes)))} \subseteq Symbol
  /\ tree' = Head(nodes)
  /\ phase' = "regex"
  /\ UNCHANGED <<gnfa, automata, word, T, P>>

LabelOf(p, q) == IF <<p, q>> \in DOMAIN transition THEN transition[<<p, q>>] ELSE EmptySet

\* Mutant: the loops of the state are left out.
Bypass_NoLoop(p, s, q) ==
  Simplify(Union(LabelOf(p, q), Concat(LabelOf(p, s), LabelOf(s, q))))

\* From p to q, also through s.
Bypass(p, s, q) ==
  Simplify(Union(LabelOf(p, q),
                 Concat(LabelOf(p, s), Concat(Star(LabelOf(s, s)), LabelOf(s, q)))))

\* remove_state, of the first state to_regex meets.
RemoveState ==
  /\ phase = "gnfa"
  /\ states # {Start, Final}
  /\ LET s == Min(states \ {Start, Final})
     IN  /\ states' = states \ {s}
         /\ transition' = [x \in (states' \ {Final}) \X (states' \ {Start}) |->
                             Bypass(x[1], s, x[2])]
  /\ UNCHANGED <<source, phase, tree, automata, word, T, P>>

\* The one transition that is left.
ToRegex ==
  /\ phase = "gnfa"
  /\ states = {Start, Final}
  /\ tree' = transition[<<Start, Final>>]
  /\ phase' = "regex"
  /\ UNCHANGED <<gnfa, automata, word, T, P>>

\* The states epsilon transitions lead to.
RECURSIVE Closed(_, _)
Closed(eps, S) ==
  LET more == S \cup {e[2] : e \in {d \in eps : d[1] \in S}}
  IN  IF more = S THEN S ELSE Closed(eps, more)

\* The tree with the node for the end of the word, whose position is the last.
Marked == Concat(tree, Basic(0, EndMarker))

Convert ==
  /\ phase = "regex"
  /\ ~ HasEmptySet(tree)
  /\ nfa' = ToNFA(tree, 0)
  /\ T' = Closed(nfa'.eps, {nfa'.start})
  /\ follow' = FollowPos(Marked, Leaves(Marked))
  /\ P' = FirstPos(Marked, Leaves(Marked))
  /\ phase' = "read"
  /\ UNCHANGED <<gnfa, tree, grammar, word>>

\* regex::to_CFG. Bound: the expression of a DFA is too long to compare.
MakeGrammar ==
  /\ phase = "regex"
  /\ source = NoDFA
  /\ grammar' = ToCFG(tree, FirstName)
  /\ phase' = "grammar"
  /\ UNCHANGED <<gnfa, tree, nfa, follow, word, T, P>>

\* All conversions throw at an empty_set_node.
Unsupported ==
  /\ phase = "regex"
  /\ HasEmptySet(tree)
  /\ phase' = "unsupported"
  /\ UNCHANGED <<gnfa, tree, automata, word, T, P>>

\* The positions after the symbol a.
NextPositions(S, a) ==
  LET leaves == Leaves(Marked)
  IN  UNION {follow[p] : p \in {r \in S \cap DOMAIN follow : leaves[r].symbol = a}}

Read(a) ==
  /\ phase = "read"
  /\ Len(word) < MaxWord
  /\ word' = Append(word, a)
  /\ T' = Closed(nfa.eps, {d[3] : d \in {e \in nfa.delta : e[1] \in T /\ e[2] = a}})
  /\ P' = NextPositions(P, a)
  /\ UNCHANGED <<gnfa, phase, tree, automata>>

Converting ==
  \/ RemoveState \/ ToRegex \/ FromText \/ Convert \/ MakeGrammar \/ Unsupported
  \/ \E a \in Symbol : Read(a)

Next ==
  \/ ParseNext /\ UNCHANGED conversionVars
  \/ Converting /\ UNCHANGED parseVars

Spec == Init /\ [][Next]_vars

-----------------------------------------------------------------------------
AllWords == BoundedSeq(Symbol, MaxWord)

WordsOfDFA(d) ==
  {w \in AllWords : FoldLeft(LAMBDA q, a : d.delta[<<q, a>>], d.start, w) \in d.final}

\* The words the labels of a GNFA spell on the way from a state to the final one:
\* pairs of a state and a word, and edges with the words of their labels.
Edges == UNION {{<<x[1], x[2], w>> : w \in Words(transition[x], MaxWord)} : x \in DOMAIN transition}

RECURSIVE Spelt(_, _)
Spelt(edges, L) ==
  LET longer == {<<e[1], e[3] \o x[2]>> : <<e, x>> \in {y \in edges \X L : y[1][2] = y[2][1]}}
      more == L \cup {x \in longer : Len(x[2]) <= MaxWord}
  IN  IF more = L THEN L ELSE Spelt(edges, more)

WordsOfGNFA == {w \in AllWords : <<Start, w>> \in Spelt(Edges, {<<Final, <<>>>>})}

\* Removing states keeps the language, and so does simplifying the labels; the empty
\* set is left in no label but one that denotes nothing, so that an expression of a
\* DFA that accepts some word can be converted.
RemovalKeepsLanguage ==
  source # NoDFA =>
    /\ phase = "gnfa" =>
         /\ WordsOfGNFA = WordsOfDFA(source)
         /\ \A x \in DOMAIN transition : transition[x] = EmptySet \/ ~ HasEmptySet(transition[x])
    /\ phase = "regex" => Words(tree, MaxWord) = WordsOfDFA(source)
    /\ phase = "unsupported" => WordsOfDFA(source) = {}

\* Thompson's automaton accepts the words of the expression. So does the automaton of
\* positions, also where the parser shares the nodes of an operand of +, but not
\* where the removal of states does.
ConversionsAgree ==
  phase = "read" =>
    /\ nfa.final \in T <=> word \in Words(tree, MaxWord)
    /\ source = NoDFA \/ Unshared(tree) =>
         (Len(Leaves(Marked)) \in P <=> word \in Words(tree, MaxWord))

\* The grammar of an expression without stars and epsilons derives the words it denotes:
\* its parts do not get at each other's productions. (They may when a part denotes the
\* empty word only, as its heads are gone when the next name is made up.) The grammar
\* of a star has lost the productions of what is inside.
GrammarRight ==
  phase = "grammar" =>
    LET derived == CF!LanguageOf(grammar, MaxWord)
    IN  /\ ~ HasNode(tree, {"star", "epsilon"}) => derived = Words(tree, MaxWord)
        /\ tree.kind = "star" => derived \in {{}, {<<>>}}
=============================================================================

------------------------------ MODULE LRItems ------------------------------
(***************************************************************************)
(* The items of LR grammars, the DK automata over sets of items, and the   *)
(* collections the four kinds of LR grammars take their tables from. The   *)
(* states are the sets of items, numbered: how the subset construction     *)
(* numbers them is settled in SubsetConstruction.                          *)
(***************************************************************************)
EXTENDS ContextFree

CONSTANTS StartSymbol  \* the head normalize_start_symbol makes up

Lookahead == Terminal \cup {EndMarker}
Kinds == {"DCFG", "SLR", "LALR", "canonical"}

\* Whether the DK automaton of a kind has items with lookahead symbols.
WithAhead(kind) == kind \in {"LALR", "canonical"}

\* normalize_start_symbol, for the grammars with an action table.
Normalized(g, kind) ==
  IF kind = "DCFG" THEN g
  ELSE Grammar(StartSymbol, g.productions \cup Rules(StartSymbol, {<<g.start>>}))

Item(A, body, dot, ahead) == [head |-> A, body |-> body, dot |-> dot, ahead |-> ahead]
ProductionOf(item) == [head |-> item.head, body |-> item.body]

Completed(item) == item.dot = Len(item.body)
UnderDot(item) == item.body[item.dot + 1]
Go(item) == [item EXCEPT !.dot = @ + 1]

\* Mutant: the lookahead symbols of the item are not handed on.
FollowOfDot_Own(g, item) == First(g, Rest(item.body, item.dot + 1))

\* follow_of_dot
FollowOfDot(g, item) ==
  LET rest == Rest(item.body, item.dot + 1)
  IN  First(g, rest) \cup IF Nullable(g, rest) THEN item.ahead ELSE {}

\* The items an item leads to by epsilon transitions of the NFA of items.
Predicted(g, kind, item) ==
  IF Completed(item) \/ UnderDot(item) \in Terminal THEN {}
  ELSE LET ahead == IF WithAhead(kind) THEN FollowOfDot(g, item) ELSE {}
       IN  {Item(UnderDot(item), body, 0, ahead) :
              body \in Bodies(g.productions, UnderDot(item))}

\* An item is reached over each head and, from where its lookahead symbols are set
\* anew, once more around the heads for every symbol the set gains.
Closure(g, kind, items) ==
  LET rounds == Cardinality(Heads(g.productions)) * (Cardinality(Lookahead) + 2)
      closure[n \in 0 .. rounds] ==
        IF n = 0 THEN items
        ELSE LET before == closure[n - 1]
             IN  before \cup UNION {Predicted(g, kind, item) : item \in before}
  IN  closure[rounds]

StartState(g, kind) ==
  LET ahead == IF WithAhead(kind) THEN {EndMarker} ELSE {}
  IN  Closure(g, kind, {Item(g.start, body, 0, ahead) : body \in Bodies(g.productions, g.start)})

\* A transition of the DK automaton; the empty set is its reject state.
Goto(g, kind, state, X) ==
  Closure(g, kind, {Go(item) : item \in {i \in state : ~ Completed(i) /\ UnderDot(i) = X}})

\* The states of the DK automaton that can be reached within a number of steps.
ReachedStates(g, kind, steps) ==
  LET step[n \in 0 .. steps] ==
        IF n = 0 THEN [seen |-> {}, new |-> {StartState(g, kind)}]
        ELSE LET before == step[n - 1]
                 seen == before.seen \cup before.new
             IN  [seen |-> seen,
                  new |-> {Goto(g, kind, I, X) : I \in before.new, X \in GrammarSymbol} \ seen]
  IN  step[steps].seen

\* Whether these are all of them.
IsWhole(g, kind, steps) ==
  LET states == ReachedStates(g, kind, steps)
  IN  StartState(g, kind) \in states /\ \A I \in states, X \in GrammarSymbol : Goto(g, kind, I, X) \in states

-----------------------------------------------------------------------------
(* The collections.                                                        *)

Core(state) == {[head |-> item.head, body |-> item.body, dot |-> item.dot] : item \in state}

\* What the grammar of a kind makes of a state of its DK automaton: SLR puts the
\* follow set of the head to the completed items, LALR merges the states that
\* differ in their lookahead symbols only, and DCFG reduces whatever comes next.
Collected(g, kind, states, state) ==
  CASE kind \in {"SLR", "DCFG"} ->
         {IF ~ Completed(item) THEN item
          ELSE [item EXCEPT !.ahead = IF kind = "SLR" THEN Follow(g, item.head) ELSE Lookahead] :
            item \in state}
    [] kind = "LALR" -> UNION {I \in states : Core(I) = Core(state)}
    [] OTHER -> state

\* The elements of a set, each once.
Numbered(S) ==
  LET first[n \in 0 .. Cardinality(S)] ==
        IF n = 0 THEN <<>>
        ELSE LET before == first[n - 1]
             IN  Append(before, CHOOSE x \in S : x \notin SymbolsOf(before))
  IN  first[Cardinality(S)]

\* The collection and the goto table of a grammar. States are numbers from here on.
TablesFor(g, kind, steps) ==
  LET states == ReachedStates(g, kind, steps)
      collected == {<<I, Collected(g, kind, states, I)>> : I \in states}
      collection == Numbered({c[2] : c \in collected})
      number(I) == CHOOSE n \in DOMAIN collection : <<I, collection[n]>> \in collected
      member(n) == CHOOSE I \in states : <<I, collection[n]>> \in collected
  IN  [start |-> number(StartState(g, kind)),
       collection |-> collection,
       goto |-> {<<n, X, number(Goto(g, kind, member(n), X))>> :
                   n \in DOMAIN collection, X \in GrammarSymbol}]

\* Those of an object.
TablesOf(g, kind, steps) == TablesFor(Normalized(g, kind), kind, steps)

\* What the goto table has for a state and a symbol.
GotoState(tables, n, X) == (CHOOSE t \in tables.goto : t[1] = n /\ t[2] = X)[3]

\* get_terminals: those that bodies use. The DK automaton, made over the full alphabet of a
\* grammar, has no transitions for other symbols, and the goto table no entries; the reject
\* state, where they lead to here, is told from these by who looks them up.
Terminals(g) == (UNION {SymbolsOf(p.body) : p \in g.productions}) \cap Terminal

\* The states, but the reject state.
LiveStates(tables) == {n \in DOMAIN tables.collection : tables.collection[n] # {}}

CompletedItems(state) == {item \in state : Completed(item)}
ShiftTerminals(state) == {UnderDot(item) : item \in state \ CompletedItems(state)} \cap Terminal

\* DK_test of DCFG: a completed item is the only one, and no terminal can follow.
DKTest(tables) ==
  \A I \in SymbolsOf(tables.collection) :
    CompletedItems(I) # {} => Cardinality(CompletedItems(I)) = 1 /\ ShiftTerminals(I) = {}

\* DK_1_test compares the lookahead sets of two items with std::ranges::includes,
\* which wants sorted ranges and gets hash sets: an inclusion is surely found
\* between equal sets of one symbol only, and maybe found whenever there is one.
SurelyIncludes(state) ==
  \E i, j \in CompletedItems(state) :
    i # j /\ i.ahead = j.ahead /\ Cardinality(i.ahead) = 1
MaybeIncludes(state) ==
  \E i, j \in CompletedItems(state) : i # j /\ i.ahead \subseteq j.ahead

ShiftConflict(state) ==
  \E item \in CompletedItems(state) : item.ahead \cap ShiftTerminals(state) # {}

DK1TestMustFail(tables) ==
  \E I \in SymbolsOf(tables.collection) : ShiftConflict(I) \/ SurelyIncludes(I)
DK1TestMayFail(tables) ==
  \E I \in SymbolsOf(tables.collection) : ShiftConflict(I) \/ MaybeIncludes(I)

\* The entries of the action table for a completed item: state, symbol and item.
Entries(n, item) == {<<n, l, item>> : l \in item.ahead}

\* The items of a state that cannot be entered both.
Overlap(i, j) == i # j /\ i.ahead \cap j.ahead # {}
=============================================================================

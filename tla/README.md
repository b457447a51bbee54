# A verification of cyyever/computation in TLA+

The repository is a C++ library of the automata, grammars and machines of two textbooks
(Sipser, *Introduction to the Theory of Computation*; Aho, Lam, Sethi and Ullman,
*Compilers*) and of the algorithms on them. This directory models its algorithms in
TLA+, checks them with TLC on small instances, and proves some of them with TLAPS for
every value of the constants. Paths below are relative to `src/src/` of the repository.

Nothing in the library runs concurrently and nothing is stored. What makes its code hard
is of another kind, and this is what the modules are about:

- *caches behind `const`*: closures, FIRST sets, parsing tables and live states are
  computed by the first query and kept in `mutable` members, while other members change
  what they were computed from;
- *exceptions* that leave a half-made table or a changed start symbol in an object that
  can still be used;
- *the order of hash tables*: nearly every loop goes over an `unordered_map` or
  `unordered_set`, and its answer must not depend on the order;
- *loops until nothing changes*, which must end, and must not end too early;
- *callbacks* that keep a structure of their own in step with the loop that calls them;
- *names and numbers made up* (states, primed nonterminals), which must be new.

## 1. Inventory

What each part keeps, does and has to get right. The last column names the modules; "-"
is a part that is not modelled.

| Part | State | Operations | Correct when | Modules |
|---|---|---|---|---|
| `finite_automaton` (`automaton/`) | states, start state, final states | add, replace and remove states, numbered products | numbers are new; final states are states | DFAOperations, EpsilonClosure, SubsetConstruction (not `remove_state`, which nothing calls) |
| NFA: epsilon closures (`regular_lang/nfa.*`) | two transition tables; caches `epsilon_closures`, `epsilon_closure_refresh` | add and replace epsilon transitions, `add_sub_NFA`, `get_epsilon_closure` | what is served from the cache is the closure | EpsilonClosure |
| NFA: recognition, subset construction | the table of sets and numbers | `recognize`, `go`, `to_DFA_with_mapping` | the DFA accepts the same words | Recognizer, SubsetConstruction |
| DFA: minimization (`regular_lang/dfa.*`) | groups and marks | `minimize` | same words, fewest states | DFAMinimize |
| DFA: equivalence | the mapping of states | `equivalent_with` | yes for renamings only | DFAEquivalence |
| DFA: live states, product, complement | cache `live_states_opt` | `mark_live_states`, `intersect`, `complement` | the cache is not stale; products accept the words of both | DFAOperations |
| GNFA (`regular_lang/gnfa.*`) | transitions labelled by expressions | remove a state, `to_regex` | the language is kept | RegexTree, RegexConversion |
| regular expressions: trees and automata (`regex.*`, `regex_syntax_node.cpp`) | shared trees, positions written into their leaves | `simplify`, `to_NFA`, `to_DFA`, `to_CFG` | all have the language of the tree | RegexTree, RegexConversion |
| regular expressions: parser (`regex_parse.cpp`) | grammars in a table, by the name of the alphabet; the callback's stack and character class | `parse` | the tree denotes what the text does | RegexSyntax, RegexParse |
| CFG (`context_free_lang/cfg*`) | productions, start symbol, cache `first_sets` | constructor, `first`, `follow`, left recursion, left factoring, new heads | each keeps the language; sets are exact | ContextFree, LLParser, LeftRecursion |
| Chomsky normal form (`cnf*`) | the grammar being transformed | `to_CNF`, CYK `parse` | the language is kept; the form is reached | CNFTransform, PrimedNames |
| LL(1) (`ll_grammar.*`) | cache `parsing_table` | table, `parse` with callbacks, `get_parse_tree` | answers and trees of the language | LLParser |
| recursive descent (`cfg_recursive_descent_parse.cpp`) | a tree grown and cut | backtracking | ends; finds a tree if there is one | RecursiveDescent, CFGObject |
| DK automata (`dk*`, `lr_*_item.*`) | items, sets of items | closure, moves | the sets of valid items | LRItems |
| LR(0)/DCFG, SLR, LALR, canonical LR (`lr_*`, `slr_*`, `lalr_*`, `canonical_*`, `dcfg.*`) | caches `goto_table`, `reduction_table`, `action_table` | tests for conflicts, tables, `parse`, `get_parse_tree`, `to_DPDA` | as LL(1); nothing shifted past an error; the DPDA accepts the same words | LRItems, LRParser, LRObject |
| PDA (`pda.*`) | transitions; sets of configurations | `recognize`, `prepare_CFG_conversion`, `intersect` | accepts the words it should; closures end | PushdownConversion |
| DPDA (`dpda.*`) | transitions, a stack, the flag `normalized` | `recognize`, `normalize`, looping situations, `complement` | ends on every word; complements | DPDA, DPDAObject |
| endmarked DPDA (`endmarked_dpda.*`) | a DPDA with an end marker in its input | constructor, `normalize_transitions`, `prepare_DCFG_conversion`, `to_DPDA` | same words with the end marker | EndmarkedDPDA, DPDAObject (not `to_DPDA`) |
| conversions (`model_transform.*`, `common_grammar.*`) | - | `CFG_to_PDA`, `PDA_to_CFG`, `DPDA_to_DCFG`, `NFA_to_CFG` | the language is kept | PushdownConversion, CFGObject; EndmarkedDPDA, DPDAObject (`DPDA_to_DCFG` but for the DK test) |
| Turing machines (`turing_*`, `ntm.*`, `single_tape_*`) | transition functions; tape, head, sets of configurations | `add_moving_...`, constructors, `recognize` | as with a tape that has no end | TuringComputations, TuringMachine |
| multi-tape machines | - | - | no file includes the header | - |
| grammar symbols, parse trees | values | - | - | as model values, and trees by their frontier or yield |
| alphabets and graphs (`cyy::algorithm`) | outside of the repository | depth-first search with a callback | - | EpsilonClosure, marked external |
| drawing and printing | - | `MMA_draw`, `operator<<` | nothing reads what they write | - |
| tests, fuzzing, build files | - | - | - | the instances come from the tests |

How the parts meet. A regular expression becomes an NFA through `add_sub_NFA` and
`replace_epsilon_transition`, which is where the closure cache is mutated; the NFA
becomes a DFA through `get_epsilon_closure`; DFAs are minimized, compared, and turned
into expressions again. The DK automaton of a grammar is an NFA of items put through the
same subset construction. LL and LR parsing are grammars with a cached table; `first`,
`follow` and the constructor of CFG are below all of them. The parser of regular
expressions is an LL grammar of its own with a callback. A DPDA is made of an LR
grammar, and grammars of NFAs, PDAs and DPDAs.

`PROJECT.json` lists the hazards at their lines, with the properties that would catch
each of them.

## 2. Modules

    EpsilonClosure      NFA: epsilon transitions and the closure caches
    Recognizer          abstract: an NFA reads a word
    SubsetConstruction  to_DFA_with_mapping, the two recognizers  -> implements Recognizer
    DFAMinimize         DFA::minimize
    DFAEquivalence      DFA::equivalent_with
    DFAOperations       mutators, live states, intersect, complement
    ContextFree         grammars: derived words, the constructor, FIRST, FOLLOW
     |- LLParser        LL_grammar
     |- LRItems         items, DK automata, collections, tests for conflicts
     |   |- LRParser    DCFG, SLR_grammar, LALR_grammar, canonical_LR_grammar
     |   `- LRObject    DCFG::to_DPDA, canonical_LR_grammar::to_DPDA (over EndmarkedDPDA):
     |                  parse, or make a DPDA and let it recognize
     |- CNFTransform    to_CNF and the parser of CNF    (and PrimedNames)
     |- RecursiveDescent  CFG::recursive_descent_parse
     `- LeftRecursion   left recursion, left factoring  (and PrimedNames)
         `- PushdownConversion   CFG_to_PDA, PDA, PDA_to_CFG, NFA_to_CFG
             `- CFGObject        with RecursiveDescent: what a caller may do with a grammar
    DPDA                normalize and complement, as operators on automata
     `- EndmarkedDPDA   the end marker, cut transitions, DPDA_to_DCFG
         `- DPDAObject  a DPDA object: the calls, the passes of the loops, recognize
    RegexTree           syntax trees: words, simplify, Thompson, positions
     |- RegexSyntax     the grammar of regular expressions and its LL table
     |- RegexParse      regex::parse                    (over RegexSyntax)
     `- RegexConversion parsed texts and GNFAs, to_NFA, to_DFA, to_CFG  (and PrimedNames)
    TuringComputations  abstract: computations on a tape without an end
    TuringMachine       Turing_machine and NTM          -> implements TuringComputations
    MC<module>          model values and instances for the runs
    <module>_proofs     theorems (DFA_proofs: of DFAEquivalence and DFAOperations)
    ContextFree_proofs  what they share: induction and recursion on the naturals, sequences,
                        derivations, that DerivedWords is exact and Beginnings complete

Every definition that stands for code is in the map of `PROJECT.json` with its lines.
Where a module has `X` and `X_Something`, the second is a mutant of the first: a
plausible mistake in that code, with which TLC finds the property violated that the
mutant is listed for. No specification uses a mutant.

Conventions: one action per operation or per visit of a loop; a loop over a hash table
takes its elements in any order (`\E x \in pending`), or in an order that is drawn once
(`order`, `Orders`) where the code goes over the same table again and again; an
exception is an action that leaves the object as the throw leaves it.

### EpsilonClosure (`nfa.hpp:21-131`, `nfa.cpp:102-148`)

`get_epsilon_closure` returns `epsilon_closures[s]` if `s` is in
`epsilon_closure_refresh`, and otherwise searches the graph of epsilon transitions
depth-first, with a callback on every edge that merges the closure of the far end into
that of the near end. A vertex that has been visited already is not entered again, so a
closure inside of a cycle is cut short; the code notices (`has_cycle`) and marks only
the root as refreshed, but keeps the partial closures for later searches to build on.
The search is one action per edge (`Descend`, `VisitSeen`, `Return`) with any order
among the edges. Mutators are `AddEpsilonTransition`, `ReplaceEpsilonTransition`,
`ReplaceThrows`, `AddSubNFA`. The history variable `drift` tells that edges were added
(`add_sub_NFA`) or removed (a replacement that threw) without the caches being cleared:
what the properties promise depends on it, and says so.

### Recognizer, SubsetConstruction (`nfa.cpp:14-75`, `dfa.hpp:39-58`)

`Expand` is one symbol of a row of `DFA_transition_function`, `NextRow` the step of
`dfa_state`, `Construct` the end with the constructor of DFA and its count of
transitions. Then both recognizers read one word, symbol by symbol, and the word may end
anywhere. `Recognizer` is what a recognizer promises; `Implements` maps the DFA onto it:
its state stands for `subsets[q + 1]`. The epsilon closures are a constant function of
the machine, since EpsilonClosure settles how they come about.

### DFAMinimize (`dfa.cpp:71-157`)

A round marks the states with the index of their group (`Mark`), passes the groups no
symbol splits (`Keep`), and ends at the first split (`Split`, the parts in any order).
`Assemble` reads the first state of every group; for an empty group that is undefined
behaviour, `AssembleUndefined`. Then the two DFAs read the same word.

### DFAEquivalence (`dfa.cpp:13-69`)

Passes over the transitions extend `state_map` (`Follow`, `Skip`) until a pass adds
nothing (`NextPass`, `Decide`). An answer no is named after the check that gave it.

### DFAOperations (`automaton.hpp`, `automaton.cpp`, `dfa.cpp:159-218`, `dfa.hpp`)

One object, on which mutators of the base class, `intersect` and `complement` are called
in any order; the new automaton takes the place of the old one. `get_live_states` keeps
what it found in `live_states_opt` (`Marked`), which mutators do not clear: `changed`
tells that one was called since. A product numbers its pairs in the order of two sorted
sets (`PairNumber`). The property compares with `words`, what the calls are meant to
accept. `GotoTable` is what the DK automata make of live states.

### ContextFree, LLParser (`cfg.cpp`, `ll_grammar.cpp`)

ContextFree holds the reference definitions beside what the code computes. The words of
up to n symbols that the heads derive are collected by the height of their trees
(`WordsByHeight`), and `DerivedWords` stops at the height (n + 1) times the number of
heads: a tree as low as possible has on a path no head twice over the same part of the
word. `Beginnings` has in the same way what words, of any length, begin with.
`IsGrammar` is a grammar the constructor leaves as it is, with finitely many
productions; `Onto` is a sequence of pieces pushed from the last to the first, as both
stacks of the parser are filled.

LLParser is an object on which `get_parse_tree` is called repeatedly: the first call
computes FIRST and FOLLOW in passes (`VisitFirst`, `EndFirstPass`, ...), fills the table
(`AddRow`), or throws in the middle of it (`Conflict`). The parser's stack holds symbols
and callbacks (`Symbol`, `Callback`); `RunCallback` is `match_callback`, which builds the
tree over a stack of its own, `nodes`. The tree is modelled by its frontier, and a leaf
on `nodes` by the number of leaves to the right of it.

### LRItems, LRParser (`lr_*.cpp`, `dk*.cpp`, `slr_grammar.cpp`, `lalr_grammar.cpp`, `dcfg.cpp`)

LRItems computes, for each kind of grammar, the collection of sets of items and the goto
table. LRParser constructs the table (`TableDone`), fails `DK_1_test` (`TestFails`) or
throws on a conflict inside of the table (`Conflict`, with every set of entries that the
orders of the hash tables can leave), and parses (`Shift`, `Reduce`, `Accept`,
`Reject`). `DK_1_test` uses `std::ranges::includes` on hash sets, which wants sorted
ranges: whether it finds an inclusion is left open except where every order gives the
same result. The DK automaton has transitions for the symbols that bodies use
(`Terminals`); the module leads the others to the reject state, and `CanShift` tells them
from those LR(0) shifts into it.

### LRObject (`dcfg.cpp:45-117`, `canonical_lr_grammar.cpp:15-104`)

The DPDA keeps the states of the DK automaton on its stack: `Reduction` pops a body and
pushes the state for its head, `CheckStack` looks at the top by popping it and putting
it back. The one of a canonical LR grammar has a state for every symbol read ahead
(`Reducing`). In LRObject a grammar object is either parsed with (LRParser) or made a
DPDA, which then reads a word. Its DK automaton is made of the grammar as it was given,
without the head a parsing table would add. `to_DPDA` goes over the alphabet of the
object, `alphabet`, which may have symbols no body uses: DCFG then throws
(`ToDPDAThrows`) and can be parsed with as before; the canonical LR grammar takes the
reject state.

### CNFTransform, PrimedNames (`cnf_transform.cpp`, `cnf.cpp`)

The constructor with `eliminate_useless_symbols`, then `nullable`, the epsilon and
single productions and the splitting of bodies, each pass head by head in an order drawn
once, and the CYK table as a recursive function. Names are a name and a number of
primes, as `get_new_head` makes them.

### RegexTree, RegexSyntax, RegexParse (`regex_parse.cpp`, `regex.hpp`)

A leaf of a tree carries the number of the node object it is: `operator+` and the
removal of states put one object in two places, and a `basic_node` holds only the
position it was given last. RegexSyntax is the grammar `get_grammar` makes of an
alphabet, with its LL(1) table. RegexParse is the driver of `LL_grammar::parse` on it,
one step at a time, with the callback at the end of every body: a stack of trees, the
character class with its pending range, and flags for where in a class the parser is. A
text ends as a tree, as a null pointer, or with an exception. The grammar is found by
the *name* of the alphabet (`factory`), so a first expression for another alphabet of
that name is part of the initial state.

### RegexConversion (`regex*.cpp`, `gnfa.cpp`)

RegexConversion makes a GNFA of a DFA and removes its states, or takes the tree of a
text that was parsed, and converts the expression into Thompson's NFA and the automaton
of positions, which read a word side by side, or into a grammar. `ToCFG` gives every
part a start symbol its neighbour on the left does not use; what is made of a star, and
names that meet all the same, are the code's.

### LeftRecursion, PushdownConversion (`cfg.cpp:219-346`, `model_transform.cpp`, `pda.cpp`)

A grammar is transformed up to `MaxCalls` times, turned into a PDA by `CFG_to_PDA` and
optionally prepared for the way back or intersected with a DFA. Recognition is one
action per round of the epsilon closure and one per symbol. `ToCFG` is `PDA_to_CFG` with
the preparation it calls; `FromNFA` is `NFA_to_CFG`, for a PDA that leaves its stack
alone.

### RecursiveDescent, CFGObject (`cfg_recursive_descent_parse.cpp`)

A frame is a call of `match_nonterminal`: the node it was called on, the view, and the
views its children have left. The steps are those of the function: a body skipped
because it has too many terminals (`SkipBody`), begun, a terminal matched, a child
called, success, and `Backtrack`, which asks the children from the right for a next body
and cuts the views back. The order of the bodies of each head is drawn once
(`Orderings`). `MakeRoot` fails to return for grammars whose first bodies contain
themselves (`Constructible`). CFGObject lets a caller transform a grammar, then parse,
or go on to a PDA.

### DPDA, EndmarkedDPDA, DPDAObject (`dpda.cpp`, `endmarked_dpda.cpp`, `model_transform.cpp:201-277`)

DPDA and EndmarkedDPDA hold what each step makes of a transition function; DPDAObject
has the calls and their loops: the passes over looping situations (`VisitLooping`,
`VisitPair`, `EndPass`), the final states and the redirection of their moves
(`VisitFinal`, `Redirect`), where the order of hash tables shows. `debug` is the build:
without `NDEBUG` the automaton is checked after each step and the moves handed on to
reading states are erased. States that are made are named by what they are made for.
`ToGrammar` is `DPDA_to_DCFG` up to the constructor of DCFG.

### TuringComputations, TuringMachine (`turing_*`, `ntm.*`, `single_tape_turing_machine.hpp`)

Calls of `add_moving_transition` and its overloads build the transition functions of a
deterministic machine (`try_emplace`: the first stays) and a nondeterministic one
(`emplace`: all stay); then both recognize one word side by side. `TuringComputations`
is the machine of the textbook, with a set of computations; `One` and `All` map the two
onto it, the vector of the tape continued with blanks.

## 3. Runs

Each run takes less than three minutes on two cores.

| Run | Instance | Shows |
|---|---|---|
| `closure_cache` | 3 states, all edges between them, all mutations and queries in any sequence, 2 automata to construct or merge | `Sound`, `Complete`: what is cached and what is served; `ServedIsStable`: references handed out stay as they are; `SearchEnds` |
| `subset_construction` | every NFA of 2 states over 2 symbols with every epsilon relation and every set of final states | `Simulation`, `SameAnswer`; `Implements`: refinement of Recognizer |
| `dfa_minimize` | 500 DFAs of 5 states over 2 symbols, two initial partitions | `Coarsest` (never splits too far), `SameAnswer` (far enough) |
| `dfa_equivalence` | pairs of DFAs of 2 and 3 states, all orders of the passes | `MapIsForced`, `NoIsRight` |
| `dfa_operations` | DFAs of 3 states, four to intersect with, 3 calls in any order | `OperationsRight`: products, complements and mutations accept what they should; `LiveStatesRight`: the cached live states and the goto table made of them, unless a mutator ran behind the cache |
| `ll_parser` | 9 grammars (LL(1), left recursive, two kinds of conflict), all words up to 3, two calls | `InStep`, `AnswerRight`, `FirstSetsExact`, `ParseEnds` |
| `lr_parser` | 11 grammars as all four kinds, words up to 3 over 3 symbols, two calls of the parser or one of `to_DPDA` with an alphabet of 1, 2 or 3 symbols, and one of the parser after a `to_DPDA` that threw | `InStep`, `AnswerRight` (parser), `AutomatonRight` (DPDA), `ErrorsFoundAtOnce`, `CallsEnd` |
| `cnf_transform` | 11 grammars, all orders of heads, words up to 3 | `NormalFormRight`: no word is added, and none lost but at one place (`WordsKept`), and the parser of CNF can use the result (`NormalForm`); `TransformEnds` |
| `regex_conversion` | texts of up to 3 symbols out of 10, classes of up to 3, two operators, chosen texts, 4 alphabets; all DFAs of 2 states, 81 of 3; words up to 3 | `ParseRight`, `RemovalKeepsLanguage`, `ConversionsAgree`, `GrammarRight` |
| `cfg_object` | 9 grammars, up to 2 transformations in any order of heads, recursive descent with bodies in any order, 3 PDAs, an NFA, 2 DFAs, words up to 3 | `TransformRight`, `PDARight`, `WayBackRight` (grammars of PDAs and NFAs), `DescentRight`, `CallsEnd` |
| `dpda` | all DPDAs of 2 states with one move each over one input and one stack symbol, 288 with two stack symbols, 5 chosen, both builds | `LanguageKept`, `ComplementRight`, `EndmarkedRight` (up to the grammar), `CallsEnd` |
| `turing_machine` | every pair of machines two calls build over 4 states, a symbol and the blank | `MachinesImplement`: both refine TuringComputations; `WithinChoices`: the deterministic one within the other; `AcceptanceFound` |

All twelve pass. None expects a violation: what the code does otherwise than one would
wish is stated in the properties, as the case they leave out, and listed in section 4.

### Bounds, and why they are enough

- *States.* Three states hold every shape the closure search distinguishes: a chain, a
  cycle with a tail, a cycle entered from two sides. What holds for more is proved. Two
  states give the subset construction four sets, the empty one among them. Five states
  are the least with which one symbol splits a group into three.
- *Words.* Length 3 is enough for each grammar chosen to be taken wrongly: every loop of
  it is walked at least once with something before or after it. The comparisons of
  languages are comparisons up to that length.
- *`MaxCalls`*: two calls on a parser are the table made by the first and used by the
  second, which is where exceptions matter; two transformations are left factoring after
  left recursion and the other way round; three calls on a DFA are a mutation, a product
  and a complement; two calls build a Turing machine of four transitions, or two choices
  at each of two.
- *`MaxComplements`* (2): the complement of a complement is the language again.
- *`MaxStack`* (LL 12, LR 8, PDA and DPDA 9), *`MaxEndless`* (5), *`MaxFrames`* (12) and
  *`MaxSteps`* of a Turing machine (5) stop the runs where the code would not stop:
  parsing with a table an exception left, closures that grow for ever, calls inside of
  calls, a machine that runs on. A computation stopped by one of them never gets to its
  answer, so it counts as one that does not end: the liveness properties hold only
  because the computations they promise an end for stay below it.
- *`MaxStates`* (16) keeps `DPDA_to_DCFG` to the prepared automata whose grammar, with a
  head for each pair of states, has at most 256 heads.
- *`MaxPrimes`* (8, 4 and 20) bounds the names; TLC would report a name beyond it, as
  `CHOOSE` finds none.
- *`MaxSteps`* of LRItems (7) is the number of symbols on the way to a state of a DK
  automaton. If a state were missing, `TablesOf` would find no number for it, and TLC
  would stop.

Deadlock is not checked where a run ends: when the word is read, the answer given, or a
bound met. It is checked in `closure_cache`, where something can always be called. There
is no symmetry reduction and no state constraint.

### Fairness

The library is sequential: a call, once made, runs to its end, and nothing makes a
caller call. So `FairSpec` asks weak fairness of the steps inside of a call
(`SearchStep`; `Computing` and `Parsing`; `Constructing`, `Parsing` and `Recognizing`;
`CloseRound` and `Descent`; `Running` of a DPDA and of each Turing machine; and for
CNFTransform, whose one behaviour is one call, `Next`) and none of the calls. No
fairness is asked between the steps of one loop over a hash table: the order stays open.
(For `Descent` it is written out: infinitely often nothing is going on, or infinitely
often a step is taken. Each step is possible while a call goes on and there is room for
a frame.) The liveness properties are that calls return:

- `SearchEnds`: the search of the closures, over all cycles;
- `ParseEnds` (LL): unless an earlier call threw, since a left-recursive head may then
  be expanded again and again with the table that was left behind;
- `CallsEnd` (LR): the same, and unless a head derives itself, which DK_test and
  DK_1_test let pass; and `recognize` of the DPDA, unless a head derives itself or a
  canonical LR grammar has a conflict;
- `TransformEnds`: the passes of `to_CNF`, single productions in cycles included;
- `CallsEnd` (CFGObject): the closures of a PDA and recursive descent, unless a head of
  the grammar begins with itself behind what may be empty; then the stack grows without
  bound;
- `CallsEnd` (DPDAObject): every call on a DPDA without cycles of epsilon moves, and
  `recognize` on every DPDA that is normalized, which is what normalize is for;
- `AcceptanceFound`: a word that some computation accepts is accepted, though other
  computations go on for ever.

## 4. Observations

What the code does that a reader may not expect. Each was met while modelling, and a
property states what holds around it.

Regular languages:

- A state whose epsilon row holds only itself, or nothing, has no edge in the graph that
  is searched: its closure comes out empty (`nfa.cpp:113`). `Complete` and
  `ServedIsStable` leave such rows out (`Hollow`), and say so.
- `add_sub_NFA` and a replacement that throws change epsilon rows and leave the caches.
  `Sound` and `Complete` name these two cases by `drift`.
- `live_states_opt` is kept by all mutators (`dfa.hpp:60`): `LiveStatesRight` holds
  until one is called after a query.
- `minimize` reads the first state of an empty group for a DFA without final states, or
  with no other states (`dfa.cpp:148`): `UndefinedOnlyIfOneSided`.
- `equivalent_with` compares the final states without going through the mapping it has
  built (`dfa.cpp:67`): DFAs that differ in their numbering only can be told apart, and
  others found equivalent. It also says no for a DFA with an unreachable state and
  itself. `NoIsRight` is about the answers given before.
- Two occurrences of one `basic_node` share a position, so that `regex(alphabet,
  GNFA(dfa).to_regex())` may convert to a DFA of another language
  (`regex_syntax_node.cpp:37`). `ConversionsAgree` holds for Thompson's construction
  always, and for positions where the leaves are not shared, or shared by the parser's
  `+`.
- `to_CFG` of a star derives the empty word only (`regex_syntax_node.cpp:329`), and the
  names of two sides can meet when one of them denotes only the empty word, as in
  `(a|())b`. `GrammarRight` says both.
- The grammar of regular expressions is kept by the name of an alphabet
  (`regex_parse.cpp:101`). With another alphabet of that name expressions may be
  refused, or name its characters; none is taken for another (`ParseRight`). A range in
  a class takes in the characters between its ends, in the alphabet or not; a class that
  no character is left in makes a null node; `a|` and `a**` are refused.

Context-free languages:

- `eliminate_left_recursion` (`cfg.cpp:233-241`) moves a body out of the set it goes
  over and leaves an empty body behind, which the new head is appended to as well: of `S
  -> S a | b` it makes `S -> b S' | S'`, which derives words without `b`. With `S -> S S
  | a` left recursion is left. `TransformRight` shows that no word is lost, and that
  words are added only where a head gets an empty body it had not.
- `get_head_dependency` (`cfg.cpp:487`) does not ask whether what is in front of a head
  may be empty, so `has_left_recursion` lets hidden left recursion pass, and recursive
  descent does not end. Whether `recursive_descent_parse_node` can be constructed
  depends on which body the hash table holds first
  (`cfg_recursive_descent_parse.cpp:163`).
- `to_CNF` can lose words. The flag of the passes of `nullable` is overwritten by every
  nullable body (`cnf_transform.cpp:79`), so that they may stop early; and a nullable
  nonterminal at the front of a body is not kept among the variants of the body
  (`cnf_transform.cpp:33-50`). `Lossless` is the exact condition, in `WordsKept`.
- `LR_0_grammar::parse` (`lr_0_grammar.cpp:53`) accepts when one state is left and the
  word is read, whatever head was reduced: the root need not be the start symbol.
  `AnswerRight` shows that it is a tree of that head, and that LR(1) is right.
- After `no_LR_1_grammar` the start symbol made up for the table stays in the grammar.
  Trees are right all the same (`AnswerRight`, `InStep`).
- `DCFG::to_DPDA` (`dcfg.cpp:68`) looks up a shift for every symbol of the alphabet in a
  goto table that has only the symbols bodies use (`cfg.cpp:573-579`): with `S -> S a | b`
  over an alphabet of a, b and c it throws `std::out_of_range`, and there is no DPDA.
  `AutomatonRight` is about those it returns.
- `canonical_LR_grammar::to_DPDA` makes no test for conflicts, and its DPDA passes over
  an end marker in the middle of a word: `AutomatonRight` is about grammars without
  conflicts and words with one end marker, at their end.
- `prepare_CFG_conversion` overwrites the epsilon moves of final states
  (`pda.cpp:89-91`), and words may be lost with them: `kept`.
- `DPDA::get_looping_situations` may go on for ever on cyclic epsilon moves: the flag is
  set though nothing was added (`dpda.cpp:348`). Situations that pop without pushing are
  over-approximated, so a cyclic DPDA may lose words, depending on the order of hash
  tables. The properties of languages are about acyclic ones; `CallsEnd` says that what
  comes out of `normalize` ends.
- A parallel state of a parallel state gets no row: with assertions the constructor
  throws (`dpda.cpp:155`), without them `recognize` does, or the language changes
  (`NoneStuck`).
- Under `NDEBUG` `complement` leaves the moves it has handed on to reading states
  (`dpda.cpp:431`). They do no harm in the complement, but the endmarked DPDA made of it
  is wrong. `complement` may also ask for the value of an empty optional (`:413`).
- `prepare_DCFG_conversion` loses words for which the end marker was popped by
  `normalize`'s own moves before the stack is cleared (`EndmarkedRight`), and a second
  call loses them all.

Turing machines:

- The constructor does not exclude that the accept state is the reject state: then the
  deterministic machine accepts in it, and the nondeterministic one never gets there.

## 5. Proofs

Eight components have theorems. They state `Spec => []P` for properties P
that runs check and for the invariants these rest on, the refinements `Spec =>
Implements` and `Spec => MachinesImplement`, and what needs no bound on words, which no
run can check. They assume only the named assumptions of the modules: that what is given
is well formed (`AutomataAssumption`, `MachinesAssumption`, `DFAsAssumption`,
`PartitionsAssumption`, `PairsAssumption`, `GrammarsAssumption`, `WordsAssumption`,
`MachineAssumption`), that alphabets and sets are finite where something is counted
(`StateAssumption`, `SymbolAssumption`, `BoundsAssumption`), that symbols of different
kinds differ (`SymbolsAssumption`, `UnknownAssumption`, `StartSymbolAssumption`), and
that the bound on the symbols on the way to a state of a DK automaton leaves none out
(`StepsAssumption`: for a finite grammar there is such a bound, since its items are
finitely many; the bound stands in for the end of the code's loop). TLC evaluates them in
the runs.

The bounds `MaxCalls`, `MaxStack` and `MaxSteps` are arbitrary in the theorems: they hold
for however many calls and steps.

- **EpsilonClosure_proofs.** `TypeCorrect`; `SearchCorrect` (`IndInv == TypeOK /\
  SearchInv`); `SoundClosures`, `CompleteClosures`, `ServedStays`. Neither `Sound` nor
  `Complete` is inductive: between two edges the closures are partial. `SearchInv` says
  what a search keeps in between: the stack is a path from the root (`PathInv`), no edge
  out of a visited vertex is forgotten (`FrontierInv`), everything visited is on the
  stack or in the closure of a vertex on it (`CoverInv`), the component holds what the
  callback has seen (`TopInv`, `ComponentInv`). At the end only the root is on the
  stack, so its closure is closed under edges, hence complete; and without a cycle
  noticed everything below the root has no edges of its own, so the rest of the
  component may be marked too. `Reach` is the least closed set, so soundness is the
  induction over the merges and completeness is leastness; no recursion is needed.
- **SubsetConstruction_proofs.** `Inv == TypeOK /\ Numbering /\ Simulation` is
  inductive; `AnswersAgree` and `RecognizesAsNFA` follow. The latter shows that initial
  states map to initial states and each step to a step of Recognizer or a stutter. The
  number of transitions the constructor of DFA compares is a cardinality of a product.
- **DFAMinimize_proofs.** The groups are a partition (`Parted`), the marks agree with
  them except between a split and the next round (`Marked`), the groups passed are whole
  (`Passed`), and no congruence is split (`Coarsest`, inductive with these).
  `SameAnswer` follows: at the end all groups are whole, so that the successors of a
  group are in one group.
- **DFA_proofs, of DFAEquivalence.** `MapIsForced` is stated over all relations that follow
  words through both DFAs, which makes it inductive with no recursion; `Mapped` says
  that in a pass that has added nothing the transitions passed are kept. That a no is
  right follows from both.
- **DFA_proofs, of DFAOperations.** `OperationsCorrect`: what the object accepts is what the
  calls are meant to make it accept, after any calls. The lemmas are about one operation
  each: a walk in a product is a pair of walks, whatever order the two sorted sets give
  the numbers; a complement ends outside of the final states; the goto table leads to
  the same states as long as one is live. `LiveStatesCorrect`: the rounds of
  `mark_live_states` end, after at most as many as there are states, with the least set
  that holds the final states and their predecessors. The invariant is that the cache
  holds this set unless a mutator ran since (`CacheRight`), and that what was served is
  what is cached (`ServedIsCached`).
- **TuringMachine_proofs.** `ComputeAsMachines` is the refinement, of both machines, by
  the tape that has no end: a step at the end of the vector, where it grows by a blank,
  is a step there, too. `AcceptsNoMore` (`WithinChoices`) needs the invariant
  `Following`: the computation of the deterministic machine is written down as a
  function of the number of steps, its configuration is the one after `steps` of them,
  and those after `rounds` rounds are among the configurations of the other machine,
  which therefore has not said no.
- **LLParser_proofs.** `IndInvariant`: `IndInv` says that what is read and what the stack
  has still to match are the leaves of the tree (`Reading`), with the case in between,
  where a production's callback has not run yet, and that a tree is a derivation of its
  word (`TreeRight`). `InStep` follows (`StacksInStep`); all of it with any table,
  finished or not. `CompleteInvariant` is about tables no exception left unfinished:
  `Computed` says of each loop that what it has passed is done, so that at its end FIRST,
  FOLLOW and the table are closed under the productions; `Derives` says that what is
  left to match derives what is not read, if the grammar derives the word, and that
  lookaheads below the top are in FOLLOW (`Fits`). Then an entry is always found when
  there is a derivation, so `null` is right. `AnswersCorrect` states both halves for words
  of any length and for sentential forms (`Forms`) or leftmost derivations (`Leftmost`),
  which are least closed sets. `AnswersRight` is the property of the run, and needs that
  `DerivedWords` is exact (`DerivedWordsExact`): at every height below the last new one a
  word is new, which comes from a new word no longer than it at the height below, and in
  a chain of these no head comes twice with the same word, so that there are at most as
  many heights as heads for each length. `FirstSetsCorrect`: whenever FIRST is read, it
  is FIRST of the words that are derived. That the sets are not too small is in
  `Computed`; that they are not too large rests on every head deriving a word, which
  follows from `eliminate_useless_symbols` changing nothing (`HeadsProductive`).
  `FirstSetsRight` is the run's `FirstSetsExact`. Its hypothesis `LongEnough` is that no
  word begins with a symbol that none of the words collected begins with: without it the
  bound on words makes the statement false, as for a grammar whose shortest word with
  some beginning is longer than the bound.

- **LRParser_proofs.** One proof for the four kinds of LR grammars. The DK automata come
  first: a closure adds only items that predict (`ClosureStaysIn`, `PredictedFresh`), so
  that a state reached over a symbol holds only items with that symbol in front of their
  dot (`GotoItems`), and merging by cores, as SLR and LALR do, keeps this, since it is
  about cores (`CollectedCores`, `TablesFollow`). `TablesRight` says it of the tables of
  each kind, as `RightItems`: an item in a state is preceded by what is in front of its
  dot. Then `HandleOnTop`: if the states of the stack are those the automaton goes through
  on the symbols of the prefix (`OnPath`), the last symbols of the prefix are those of
  the item in the table, so `MakeNode` gets the children that belong to it, and the start
  state is never popped. This is what makes `InStep` inductive with `EntriesRight` (each
  entry is of a completed item of the state it is for, in a table an exception left
  unfinished too), `ParseRight` and `TreeRight`, together `IndInv`. `StacksInStep` is the
  property of the run; `TreesAreRight` is the first half of its `AnswerRight`: a tree has
  the word at its leaves and is one that is derived, and LR(1) gives one of the start
  symbol, though the start symbol made up by a call that threw is still in the grammar.
  That a subtree is in `DerivedWords`, which has words up to `Longest` only, needs that no
  yield is longer than the word that is read. `ReadMayGoOn` is about errors: an item in a
  state fits the symbols that lead to the state, in that whatever is derived from these
  symbols and what is behind the item's dot begins a word of the grammar (`FitsBehind`).
  Closures and gotos keep this, and so does the merging of cores, which is why SLR and
  LALR, too, shift nothing past an error (`TablesFit`, `PathFits`); what can be continued
  after a reduction can be since it was before (`ReduceGoesOn`), and the constructor
  leaves no symbol that derives nothing, so that there is a word to go on with
  (`WordsGoOn`). `ErrorsAtOnce` is the property of the run, `ErrorsFoundAtOnce`, which
  looks the beginnings up in `Beginnings`; that this has all of them is
  `BeginningsAreAll` in ContextFree_proofs: the beginnings of the words with a tree of
  some height are found at that height (`HeightsBegin`), and the ends of one beginning,
  which are all that it is found by, do not grow on when they have not grown once
  (`FoundStops`, `ChainStops`).

  `AnswersAreRight` is the property `AnswerRight`. Its second half, that `null` is
  answered for no word of the grammar, is about what is *not* missing from the tables,
  and needs two least sets, so that nothing is said of derivations. `Valid(g)` has the
  items of one lookahead symbol that are valid behind some symbols, as Knuth defines
  them: the first ones, and those that `Go` and prediction lead to. `Parsable(G)` has the
  configurations, of symbols on the stack and a word to be read, from which a parser can
  succeed: the start symbol with nothing to read, and what a reduction or a shift leads
  to one of. Each word of `DerivedWords` is parsable with an empty stack, by induction on
  the height (`HeadsRead`, `WordsParsable`); and in each parsable configuration some item
  is valid with the next symbol (`ParsableMet`). `ValidCovered` says that every valid item
  is in the last state of every path, for SLR without lookahead symbols, for merged
  states since sets with equal cores go to sets with equal cores (`CollectedTogether`); it
  rests on `ClosureHasPredictions`, that the rounds of a closure, of which there are
  `Rounds(g)`, come to an end. So `CompletedItems` has the item of the reduction, with
  the next symbol, which for SLR is in FOLLOW (`ValidFollows`, `DoneInTables`), and the
  action table has the shift, to a state that is not the reject state (`ShiftInTables`).
  Since a table that is finished has no two reductions for a symbol, and none where a
  shift is possible, the step the parser takes is the one that is possible
  (`ReducesWhereMay`, `ShiftsWhereMay`), and what it leads to is parsable again. The
  invariant is `ComesThrough`, on top of `IndInv`: without an exception the table is
  finished (`TableRight`); while a word of the grammar is parsed the configuration is
  parsable, and for LR(0), which is done with the last reduction, not the final one
  (`ParsableRight`); and `null` was answered for no such word (`NullRight`).

**Induction.** The theorems of the library that take a predicate cannot be used with the
provers at hand. `InductionOnNat` is about a set that holds 0 and successors, and is
proved from the well-foundedness of the naturals; `RecursionOnNat` gives the function
that iterates another one. With these, what a recursive function computes (`Onto`, `Way`,
`WordsByHeight`, `Computation`) is proved for all inputs: its equations are those of the
function `RecursionOnNat` gives, and the induction goes over the set of inputs for which
the claim holds.

What stays with TLC:

- all liveness, and with it the fairness conditions: no prover here deals with `ENABLED`;
- RegexTree, RegexParse, RegexConversion, RecursiveDescent, CFGObject, DPDAObject,
  PushdownConversion, DPDA and EndmarkedDPDA: the first six use RECURSIVE operators, about
  which nothing can be proved; the others are about languages up to a length and chains
  of conversions;
- LRObject's DPDAs and CNFTransform, whose proofs are not written (section 7);
- that FOLLOW is not larger than it should be, hence that an exception is thrown for
  grammars only that are not LL(1).

## 6. Not modelled, and why

- *Alphabets, symbols, printing and drawing*: values, or output nothing reads.
- *`cyy::algorithm`*: outside of the repository; the search is modelled as it is used.
- *`endmarked_DPDA::to_DPDA`*: it keeps sets of states on its stack, which are 2^n
  symbols for n states; and n is not small once a DPDA is normalized.
- *The DK test of the grammar `DPDA_to_DCFG` makes*: it has a head for each pair of
  states.
- *Multi-tape machines*: no file includes the header.
- *Debug-only checks*: assertions are not modelled, except in DPDAObject, which has both
  builds.
- *Memory*: a parsing table holds references to bodies, and `eliminate_left_recursion`
  on an object that has a table already would leave them dangling. The models do not mix
  the two.
- *`left_factoring`'s completeness*: it factors only the first run of each head, in an
  order a hash table decides. The language is kept (`TransformRight`); that the result
  is left-factored is not claimed.

## 7. Plan

The components are modelled but for what section 6 names. What is left is to prove more
of it.

Theorems next: FOLLOW of LLParser as exact as FIRST (that a symbol in it follows in a
sentential form, with `Reachable` in the place of `InUse`), and from both that `Conflict`
happens only when two derivations begin alike, so that no LL(1) grammar is refused;
`AutomatonRight` of LRObject from what is proved of the tables; `TypeOK` of CNFTransform with the freshness of
its names, and that `NewHead` is new as a lemma on PrimedNames; soundness of `Prepared`
and `Intersected` of PushdownConversion as simulations of the PDA they are made from.

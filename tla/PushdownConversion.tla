------------------------- MODULE PushdownConversion -------------------------
(***************************************************************************)
(* From grammars to pushdown automata: a grammar loses its left recursion  *)
(* or is left-factored, CFG_to_PDA makes a PDA of it, the PDA is prepared  *)
(* for the way back (prepare_CFG_conversion) or intersected with a DFA,    *)
(* and PDA::recognize reads a word. PDAs and NFAs are made grammars.       *)
(*                                                                         *)
(* The states CFG_to_PDA adds for the middle of a body are named by the    *)
(* body and what is left to push. A stack is the sequence of its symbols,  *)
(* the top first: two stack_nodes are equal when these are.                *)
(***************************************************************************)
EXTENDS LeftRecursion

CONSTANTS None,      \* no input symbol, nothing to pop or to push
          Grammars,  \* the grammars
          PDAs,      \* automata given, with the words they accept
          DFAs,      \* the automata to intersect with
          MaxCalls,  \* bound: transformations of a grammar and its PDA
          MaxWord,   \* bound: the length of the words read
          MaxStack,  \* bound: what a stack may grow to
          MaxEndless \* bound: the same, when a closure may never end

ASSUME GrammarsAssumption == \A g \in Grammars : IsGrammar(g)

VARIABLES
  grammar,   \* the grammar in the beginning
  rules,     \* its productions now
  emptied,   \* heads eliminate_left_recursion has given an empty body
  heads,     \* the heads left_factoring still has to visit
  head,      \* the one it is at, or None
  calls,
  pda,
  kept,      \* history: it has lost no move of a final state
  language,  \* the words up to MaxWord the PDA has to accept
  phase,     \* "grammar", "factor", "pda", "close" or "read"
  circular,  \* history: a head of what is read with begins with itself
  configurations,
  word       \* the symbols read

factoring == <<heads, head>>
source == <<grammar, rules, emptied, factoring, calls>>
reading == <<circular, configurations, word>>
made == <<pda, kept>>
vars == <<source, made, language, phase, reading>>

Orders(S) == SetToSeqs(S)

-----------------------------------------------------------------------------
(* Pushdown automata. A transition reads, pops and pushes a symbol or None.*)

T(from, input, pop, to, push) ==
  [from |-> from, input |-> input, pop |-> pop, to |-> to, push |-> push]

PDA(start, final, trans) == [start |-> start, final |-> final, trans |-> trans]
NoPDA == PDA(None, {}, {})

Start == <<"start">>
Loop == <<"loop">>
Final == <<"final">>

\* The state with the first i symbols of a body left to push.
Middle(p, i) == IF i = 0 THEN Loop ELSE <<"middle", p, i>>

\* What pushes the symbols of p.body from the i-th to the first, the last of them first.
Pushes(p, i) == {T(Middle(p, k), None, None, Middle(p, k - 1), p.body[k]) : k \in 1 .. i}

\* The transitions for a production: its head is popped when the first is pushed.
Transitions(p) ==
  LET n == Len(p.body)
  IN  IF n = 0 THEN {T(Loop, None, p.head, Loop, None)}
      ELSE {T(Loop, None, p.head, Middle(p, n - 1), p.body[n])} \cup Pushes(p, n - 1)

\* CFG_to_PDA numbers the stack symbols anew, the end marker too.
Bottom == <<EndMarker>>

PDAOf(start, P) ==
  LET terminals == Terminal \cap UNION {SymbolsOf(p.body) : p \in P}
      first == [head |-> None, body |-> <<start>>]
  IN  PDA(Start, {Final},
          UNION {Transitions(p) : p \in P}
            \cup {T(Start, None, None, Middle(first, 1), Bottom)} \cup Pushes(first, 1)
            \cup {T(Loop, a, a, Loop, None) : a \in terminals}
            \cup {T(Loop, None, Bottom, Final, None)})

StackSymbols(trans) == ({t.pop : t \in trans} \cup {t.push : t \in trans}) \ {None}

\* transition_function[situation] = {...}: the actions there were are replaced.
Assigned(trans, new) ==
  {t \in trans : \A n \in new : <<t.from, t.input, t.pop>> # <<n.from, n.input, n.pop>>} \cup new

\* A transition that pops and pushes, or does neither, is cut in two.
Cut(t, placeholder) ==
  LET new == <<"cut", t.from, t.input, t.pop, t.to, t.push>>
  IN  IF (t.pop = None) # (t.push = None) THEN {t}
      ELSE IF t.pop # None
        THEN {T(t.from, t.input, t.pop, new, None), T(new, None, None, t.to, t.push)}
      ELSE {T(t.from, t.input, None, new, placeholder), T(new, None, placeholder, t.to, None)}

NewStart == <<"new start">>
Clearing == <<"clearing">>
NewFinal == <<"new final">>

\* prepare_CFG_conversion: an end marker under the stack, and a way from the final
\* states to one that is reached with an empty stack.
Prepared(m, placeholder) ==
  LET opened == m.trans \cup {T(NewStart, None, None, m.start, EndMarker)}
      left == Assigned(opened, {T(f, None, None, Clearing, None) : f \in m.final})
      cleared == Assigned(left, {T(Clearing, None, X, Clearing, None) : X \in StackSymbols(left)})
      closed == Assigned(cleared, {T(Clearing, None, EndMarker, NewFinal, None)})
  IN  PDA(NewStart, {NewFinal}, UNION {Cut(t, placeholder) : t \in closed})

\* PDA_to_CFG, for a PDA that is prepared: the head <<q, r>> derives what leads from q to
\* r and leaves the stack as it was.
StatesOf(m) == {m.start} \cup m.final \cup UNION {{t.from, t.to} : t \in m.trans}

\* Mutant: what is read with the symbol that is popped is forgotten.
Between_PushOnly(t, u) ==
  (IF t.input = None THEN <<>> ELSE <<t.input>>) \o <<<<t.to, u.from>>>>

Between(t, u) ==
  LET read(x) == IF x.input = None THEN <<>> ELSE <<x.input>>
  IN  read(t) \o <<<<t.to, u.from>>>> \o read(u)

CFGOf(m) ==
  LET states == StatesOf(m)
      matching == {x \in m.trans \X m.trans : x[1].pop = None /\ x[1].push = x[2].pop}
      final == CHOOSE q \in m.final : TRUE
  IN  Grammar(<<m.start, final>>,
              UNION {Rules(<<x[1].from, x[2].to>>, {Between(x[1], x[2])}) : x \in matching}
                \cup UNION {Rules(<<x[1], x[3]>>, {<<<<x[1], x[2]>>, <<x[2], x[3]>>>>}) :
                              x \in states \X states \X states}
                \cup UNION {Rules(<<q, q>>, {<<>>}) : q \in states})

\* NFA_to_CFG: the head for a state derives what leads from it to a final state.
RightLinear(m) ==
  Grammar(m.start,
          UNION {Rules(t.from, {IF t.input = None THEN <<t.to>> ELSE <<t.input, t.to>>}) : t \in m.trans}
            \cup UNION {Rules(q, {<<>>}) : q \in m.final})

\* intersect: pairs of states.
Intersected(m, d) ==
  LET next(s, input) == IF input = None THEN s ELSE d.delta[<<s, input>>]
  IN  PDA(<<m.start, d.start>>, m.final \X d.final,
          {T(<<t.from, s>>, t.input, t.pop, <<t.to, next(s, t.input)>>, t.push) :
             t \in m.trans, s \in d.states})

-----------------------------------------------------------------------------
Init ==
  /\ \/ /\ grammar \in Grammars
        /\ pda = NoPDA
        /\ language = {}
        /\ phase = "grammar"
     \/ /\ \E given \in PDAs : pda = given.pda /\ language = given.words
        /\ grammar = Grammar(None, {})
        /\ phase = "pda"
  /\ rules = grammar.productions
  /\ kept = TRUE
  /\ emptied = {}
  /\ heads = {}
  /\ head = None
  /\ calls = 0
  /\ circular = FALSE
  /\ configurations = {}
  /\ word = <<>>

Eliminate(order) ==
  /\ rules' = EliminateLeftRecursion(grammar.start, rules, order)
  /\ emptied' = emptied \cup GainEmptyBody(rules, order)
  /\ UNCHANGED <<grammar, factoring, reading>>

CallEliminate ==
  /\ phase = "grammar"
  /\ calls < MaxCalls
  /\ calls' = calls + 1
  /\ \E order \in Orders(Heads(rules)) : Eliminate(order)
  /\ UNCHANGED <<made, language, phase>>

CallFactor ==
  /\ phase = "grammar"
  /\ calls < MaxCalls
  /\ calls' = calls + 1
  /\ phase' = "factor"
  /\ heads' = Heads(rules)
  /\ UNCHANGED <<grammar, rules, emptied, head, made, language, reading>>

NextHead(A) ==
  /\ phase = "factor"
  /\ head = None
  /\ A \in heads
  /\ head' = A
  /\ heads' = heads \ {A}
  /\ UNCHANGED <<grammar, rules, emptied, calls, made, language, phase, reading>>

\* A head is factored, and then the head that is new, until none is made.
FactorHead ==
  /\ phase = "factor"
  /\ head # None
  /\ \E order \in Orders(Bodies(rules, head)) :
       LET run == CommonRun(order)
       IN  IF Cardinality(run.bodies) > 1
             THEN /\ rules' = Factored(rules, head, run)
                  /\ head' = NewHead(head, Heads(rules))
             ELSE head' = None /\ UNCHANGED rules
  /\ UNCHANGED <<grammar, emptied, heads, calls, made, language, phase, reading>>

EndFactor ==
  /\ phase = "factor"
  /\ head = None
  /\ heads = {}
  /\ phase' = "grammar"
  /\ UNCHANGED <<source, made, language, reading>>

ToPDA ==
  /\ phase = "grammar"
  /\ \E order \in Orders(Heads(rules)) : Eliminate(order)
  /\ pda' = PDAOf(grammar.start, rules')
  /\ language' = LanguageOf(Grammar(grammar.start, rules'), MaxWord)
  /\ phase' = "pda"
  /\ UNCHANGED <<kept, calls>>

\* The states Prepare adds have fixed names: a PDA is prepared once.
PrepareConversion ==
  /\ phase = "pda"
  /\ pda.start # NewStart
  /\ \E placeholder \in StackSymbols(pda.trans) : pda' = Prepared(pda, placeholder)
  /\ kept' = (kept /\ \A t \in pda.trans : t.input = None /\ t.pop = None => t.from \notin pda.final)
  /\ UNCHANGED <<emptied, factoring, language, reading>>

Prepare ==
  /\ calls < MaxCalls
  /\ calls' = calls + 1
  /\ PrepareConversion
  /\ UNCHANGED <<grammar, rules, phase>>

\* PDA_to_CFG. The constructor of CFG would leave out what is useless. Bound: of a given PDA;
\* others have too many states.
ToCFG ==
  /\ grammar.start = None /\ calls = 0
  /\ PrepareConversion
  /\ grammar' = CFGOf(pda')
  /\ rules' = grammar'.productions
  /\ phase' = "cfg"
  /\ UNCHANGED calls

\* NFA_to_CFG. An NFA is a PDA that leaves its stack alone.
FromNFA ==
  /\ phase = "pda" /\ grammar.start = None /\ calls = 0
  /\ StackSymbols(pda.trans) = {}
  /\ grammar' = RightLinear(pda)
  /\ rules' = grammar'.productions
  /\ phase' = "cfg"
  /\ UNCHANGED <<emptied, factoring, calls, made, language, reading>>

WordsOfDFA(d) ==
  {w \in BoundedSeq(Terminal, MaxWord) :
     FoldLeft(LAMBDA s, a : d.delta[<<s, a>>], d.start, w) \in d.final}

Intersect(d) ==
  /\ phase = "pda"
  /\ calls < MaxCalls
  /\ calls' = calls + 1
  /\ pda' = Intersected(pda, d)
  /\ language' = language \cap WordsOfDFA(d)
  /\ UNCHANGED <<grammar, rules, emptied, factoring, kept, phase, reading>>

-----------------------------------------------------------------------------
Applies(t, stack) == t.pop = None \/ (stack # <<>> /\ Head(stack) = t.pop)

\* Mutant: what is pushed is put on top of what was to be popped.
Applied_OnTop(t, stack) ==
  IF t.push = None THEN IF t.pop = None THEN stack ELSE Tail(stack)
  ELSE <<t.push>> \o stack

\* What a transition makes of a stack: pop_and_push, or push.
Applied(t, stack) ==
  LET popped == IF t.pop = None THEN stack ELSE Tail(stack)
  IN  IF t.push = None THEN popped ELSE <<t.push>> \o popped

\* Where the transitions that read the symbol, or nothing, lead from C.
Moves(C, input) ==
  UNION {{<<t.to, Applied(t, c[2])>> :
            t \in {u \in pda.trans : u.from = c[1] /\ u.input = input /\ Applies(u, c[2])}} :
         c \in C}

\* What a head can begin with, behind what derives the empty word.
BeginsWithItself(A) ==
  LET g == Grammar(grammar.start, rules)
  IN  A \in Smallest(Heads(rules),
                     LAMBDA V : \A p \in rules : p.head \in V \cup {A}
                                  => Leaders(g, p.body) \cap NonTerminal \subseteq V)
Circular == \E A \in Heads(rules) : BeginsWithItself(A)

\* PDA::recognize begins with the closure of the start.
Recognize ==
  /\ phase = "pda"
  /\ configurations' = {<<pda.start, <<>>>>}
  /\ circular' = Circular
  /\ phase' = "close"
  /\ UNCHANGED <<source, made, language, word>>

Deep(C) == \E c \in C : Len(c[2]) > IF circular THEN MaxEndless ELSE MaxStack

\* Mutant: the rounds go on as long as there are moves.
CloseRound_WhileMoves ==
  LET new == Moves(configurations, None)
  IN  /\ phase = "close"
      /\ ~ Deep(configurations)
      /\ configurations' = configurations \cup new
      /\ phase' = IF new = {} THEN "read" ELSE "close"
      /\ UNCHANGED <<source, made, language, circular, word>>

\* A round of the closure under moves that read nothing. The last adds nothing.
CloseRound ==
  LET new == Moves(configurations, None)
  IN  /\ phase = "close"
      /\ ~ Deep(configurations)
      /\ configurations' = configurations \cup new
      /\ phase' = IF new \subseteq configurations THEN "read" ELSE "close"
      /\ UNCHANGED <<source, made, language, circular, word>>

\* The next symbol. Without configurations recognize returns before it.
Read(a) ==
  /\ phase = "read"
  /\ configurations # {}
  /\ Len(word) < MaxWord
  /\ word' = Append(word, a)
  /\ configurations' = Moves(configurations, a)
  /\ phase' = "close"
  /\ UNCHANGED <<source, made, language, circular>>

Transform ==
  \/ CallEliminate \/ CallFactor \/ FactorHead \/ EndFactor
  \/ \E A \in heads : NextHead(A)
  \/ ToPDA \/ Prepare \/ ToCFG \/ FromNFA \/ \E d \in DFAs : Intersect(d)

Next == Transform \/ Recognize \/ CloseRound \/ \E a \in Terminal : Read(a)

Spec == Init /\ [][Next]_vars

-----------------------------------------------------------------------------
\* Neither transformation loses a word. None is added but through the empty bodies
\* eliminate_left_recursion leaves behind for heads that had none.
TransformRight ==
  phase \in {"grammar", "pda"} /\ grammar.start # None =>
    LET before == LanguageOf(grammar, MaxWord)
        after == LanguageOf(Grammar(grammar.start, rules), MaxWord)
    IN  /\ before \subseteq after
        /\ emptied = {} => after = before

\* The PDA, also a prepared or an intersected one, accepts the words it has to, and
\* has configurations left as long as one can still come.
PDARight ==
  phase = "read" =>
    LET accepted == \E c \in configurations : c[1] \in pda.final
    IN  /\ accepted => word \in language
        /\ kept /\ word \in language => accepted
        /\ kept /\ configurations = {} => \A w \in language : ~ IsPrefix(word, w)
=============================================================================

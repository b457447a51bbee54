----------------------------- MODULE DPDAObject -----------------------------
(***************************************************************************)
(* A DPDA object: normalize, complement, which normalizes a copy, the      *)
(* constructor of an endmarked_DPDA, which normalizes what it is given,    *)
(* and what that can do; at the end recognize, which changes nothing.      *)
(* get_looping_situations goes in passes over hash tables and normalize    *)
(* over the final states and their rows: their order is left open. A build *)
(* is with or without NDEBUG: the first checks less and leaves more        *)
(* transitions.                                                            *)
(***************************************************************************)
EXTENDS EndmarkedDPDA

CONSTANTS DPDAs,          \* the automata: records [alphabet, states, start, final, rows, symbols, normalized]
          Words,          \* the words recognize is called with
          MaxComplements, \* bound: calls of complement
          MaxStack,       \* bound: what a stack may grow to when recognize never ends
          MaxStates       \* bound: the states of what is made a grammar

ASSUME DPDAsAssumption == \A d \in DPDAs : Deterministic(d) /\ ~ d.normalized

VARIABLES
  acyclic, language, \* of the DPDA in the beginning: the language is kept of acyclic ones
  debug,       \* whether the build is one without NDEBUG
  dpda,        \* the object
  complements, \* how often it is a complement
  phase,       \* "idle", "search", "parallel", "complement", "endmark", "recognize", "grammar" or "threw"
  goal,        \* what normalize was called for: "idle", "complement" or "endmark"
  form,        \* what the object is: "DPDA", "endmarked", "cut" or "prepared"
  looping, fresh, flag,  \* looping_situations, new_looping_situations, flag
  parallel,    \* parallel_states and new_transitions
  todo, current, left, \* the states a loop still has to visit, the one it is at, what is left there
  word, at, state, stack, \* the argument of recognize, the next symbol, the configuration
  answer       \* what recognize returned: "none", "yes" or "no"

search == <<looping, fresh, flag>>
loop == <<todo, current, left>>
configuration == <<at, state, stack>>
call == <<word, configuration, answer>>
original == <<acyclic, language>>
vars == <<original, debug, dpda, complements, phase, goal, form, search, parallel, loop, call>>

-----------------------------------------------------------------------------
(* What the DPDA accepts. *)

\* No state can be come back to without reading.
Acyclic(d) ==
  \A q \in d.states : \A s \in EpsilonMoves(d.rows[q]) : q \notin Reached(d.rows, d.rows[q][s][1], {})

Longest == Max({Len(w) : w \in Words})

\* The language of such a DPDA up to the longest word: runs [state, stack, read]
\* that take any move there is, and no order among the moves.
Language(d) ==
  LET applies(s, r) == /\ UsesInput(s) => Len(r.read) < Longest
                       /\ HasPop(s) => r.stack # <<>> /\ Last(r.stack) = s[2]
      after(s, r) ==
        [state |-> d.rows[r.state][s][1],
         stack |-> Pushed(IF HasPop(s) THEN Front(r.stack) ELSE r.stack, d.rows[r.state][s][2]),
         read |-> IF UsesInput(s) THEN Append(r.read, s[1]) ELSE r.read]
      next(r) == {after(s, r) : s \in {s \in DOMAIN d.rows[r.state] : applies(s, r)}}
      runs[n \in Nat] ==
        IF n = 0 THEN {[state |-> d.start, stack |-> <<>>, read |-> <<>>]}
        ELSE LET before == runs[n - 1] IN before \cup UNION {next(r) : r \in before}
  IN  {r.read : r \in {r \in runs[(Longest + 1) * (Cardinality(d.states) + 1)] : r.state \in d.final}}

Init ==
  /\ debug \in BOOLEAN
  /\ dpda \in DPDAs
  /\ acyclic = Acyclic(dpda)
  /\ language = IF acyclic THEN Language(dpda) ELSE {}
  /\ complements = 0
  /\ phase = "idle"
  /\ goal = "idle"
  /\ form = "DPDA"
  /\ looping = <<>> /\ fresh = <<>> /\ flag = FALSE
  /\ parallel = <<>>
  /\ todo = {} /\ current = None /\ left = {}
  /\ word = <<>> /\ at = 0 /\ state = None /\ stack = <<>> /\ answer = "none"

-----------------------------------------------------------------------------
(* normalize and complement.                                               *)

BeginSearch ==
  /\ IF EndMarker \in dpda.symbols
       THEN phase' = "threw" /\ UNCHANGED <<search, loop>>
       ELSE /\ phase' = "search"
            /\ looping' = Candidates(dpda)
            /\ fresh' = looping'
            /\ flag' = FALSE
            /\ todo' = DOMAIN looping'
            /\ UNCHANGED <<current, left>>
  /\ UNCHANGED <<original, debug, dpda, parallel>>

CallNormalize ==
  /\ phase = "idle" /\ answer = "none"
  /\ ~ dpda.normalized
  /\ BeginSearch
  /\ goal' = "idle"
  /\ UNCHANGED <<complements, form, call>>

\* Some call made it a normalized one: the next goes on at once.
NormalizeFor(next) ==
  /\ goal' = next
  /\ IF dpda.normalized
       THEN phase' = next /\ UNCHANGED <<original, debug, dpda, search, parallel, loop>>
       ELSE BeginSearch

CallComplement ==
  /\ phase = "idle" /\ answer = "none" /\ form = "DPDA"
  /\ complements < MaxComplements
  /\ complements' = complements + 1
  /\ NormalizeFor("complement")
  /\ UNCHANGED <<form, call>>

\* endmarked_DPDA(dpda).
CallEndmark ==
  /\ phase = "idle" /\ answer = "none" /\ form = "DPDA"
  /\ NormalizeFor("endmark")
  /\ form' = "endmarked"
  /\ UNCHANGED <<complements, call>>

\* The loop comes to the state q, of those it still has to visit.
ComesTo(q) == left = {} /\ q \in todo /\ todo' = todo \ {q}

VisitLooping(q) ==
  /\ phase = "search"
  /\ ComesTo(q)
  /\ IF Epsilon \in DOMAIN dpda.rows[q]
       THEN /\ fresh' = FollowEpsilon(dpda, fresh, q)
            /\ flag' = (flag \/ fresh' # fresh)
            /\ UNCHANGED <<current, left>>
       ELSE current' = q /\ left' = looping[q] /\ UNCHANGED <<fresh, flag>>
  /\ UNCHANGED <<original, debug, dpda, complements, phase, goal, form, looping, parallel, call>>

VisitPair(pair) ==
  /\ phase = "search"
  /\ pair \in left
  /\ left' = left \ {pair}
  /\ LET visited == FollowPop(dpda, fresh, current, pair)
     IN  fresh' = visited[1] /\ flag' = (flag \/ visited[2])
  /\ UNCHANGED <<original, debug, dpda, complements, phase, goal, form, looping, parallel, todo, current, call>>

\* Another pass, or on to the parallel states.
EndPass ==
  /\ phase = "search"
  /\ todo = {} /\ left = {}
  /\ looping' = Left(fresh)
  /\ fresh' = looping'
  /\ flag' = FALSE
  /\ phase' = IF flag THEN "search" ELSE "parallel"
  /\ todo' = IF flag THEN DOMAIN looping' ELSE dpda.final
  /\ current' = None
  /\ UNCHANGED <<original, debug, dpda, complements, goal, form, parallel, left, call>>

VisitFinal(f) ==
  /\ phase = "parallel"
  /\ ComesTo(f)
  /\ current' = f
  /\ dpda' = [dpda EXCEPT !.rows = @ @@ (f :> <<>>)]
  /\ left' = EpsilonMoves(Row(dpda.rows, f))
  /\ UNCHANGED <<original, debug, complements, phase, goal, form, search, parallel, call>>

\* A move of a final state is led to a parallel state: the rows of the states from
\* there on are copied as they are now.
Redirect(s) ==
  /\ phase = "parallel"
  /\ s \in left
  /\ left' = left \ {s}
  /\ LET action == dpda.rows[current][s]
         new == Reached(dpda.rows, action[1], DOMAIN parallel)
     IN  /\ parallel' = parallel @@ [q \in new |-> ParallelRow(Row(dpda.rows, q))]
         /\ dpda' = [dpda EXCEPT !.rows =
                       [@ EXCEPT ![current][s] = <<Parallel(action[1]), action[2]>>]
                         @@ [q \in new |-> <<>>]]
  /\ UNCHANGED <<original, debug, complements, phase, goal, form, search, todo, current, call>>

EndNormalize ==
  /\ phase = "parallel"
  /\ todo = {} /\ left = {}
  /\ LET d == WithParallels(dpda, parallel)
         normal == Normalized(d, looping)
     IN  IF debug /\ ~ (Deterministic(d) /\ AssertsHold(d, looping) /\ Deterministic(normal))
           THEN phase' = "threw" /\ UNCHANGED dpda
           ELSE dpda' = normal /\ phase' = goal
  /\ current' = None
  /\ looping' = <<>> /\ fresh' = <<>> /\ parallel' = <<>>
  /\ UNCHANGED <<original, debug, complements, goal, form, flag, todo, left, call>>

EndComplement ==
  /\ phase = "complement"
  /\ LET d == Complement(dpda, debug)
     IN  IF NoSymbol(dpda) \/ (debug /\ ~ Deterministic(d))
           THEN phase' = "threw" /\ UNCHANGED dpda
           ELSE phase' = "idle" /\ dpda' = d
  /\ goal' = "idle"
  /\ UNCHANGED <<original, debug, complements, form, search, parallel, loop, call>>

\* A build without NDEBUG checks what it made.
Becomes(d, right) ==
  IF debug /\ ~ right THEN phase' = "threw" /\ UNCHANGED dpda ELSE phase' = "idle" /\ dpda' = d

EndEndmark ==
  /\ phase = "endmark"
  /\ LET d == Endmarked(dpda) IN Becomes(d, Deterministic(d))
  /\ goal' = "idle"
  /\ UNCHANGED <<original, debug, complements, form, search, parallel, loop, call>>

NormalizeTransitions ==
  /\ phase = "idle" /\ answer = "none" /\ form = "endmarked"
  /\ form' = "cut"
  /\ LET d == ReadsCut(dpda)
         cut == TransitionsNormalized(dpda)
     IN  Becomes(cut, /\ ReadsAsserted(dpda) /\ OneThing(cut)
                      /\ \A e \in {dpda, d, cut} : Deterministic(e))
  /\ UNCHANGED <<original, debug, complements, goal, search, parallel, loop, call>>

PrepareConversion ==
  /\ phase = "idle" /\ answer = "none" /\ form \in {"endmarked", "cut"}
  /\ form' = "prepared"
  /\ LET d == Prepared(dpda)
     IN  Becomes(d, /\ Cardinality(dpda.final) = 1 /\ PopsOrPushes(d)
                    /\ Deterministic(ClearedAtEnd(dpda)) /\ Deterministic(d))
  /\ UNCHANGED <<original, debug, complements, goal, search, parallel, loop, call>>

\* DPDA_to_DCFG, but for the DK test of what it made.
ToGrammar ==
  /\ phase = "idle" /\ answer = "none" /\ form \in {"endmarked", "cut"}
  /\ LET d == Prepared(dpda)
     IN  /\ Cardinality(d.states) <= MaxStates
         /\ IF debug /\ ~ (PopsOrPushes(d) /\ Deterministic(d))
              THEN phase' = "threw" /\ UNCHANGED dpda
              ELSE phase' = "grammar" /\ dpda' = [productions |-> Productions(d)] @@ d
  /\ UNCHANGED <<original, debug, complements, goal, form, search, parallel, loop, call>>

-----------------------------------------------------------------------------
(* recognize.                                                              *)

Config == [state |-> state, stack |-> stack]
Ended == at > Len(word)

\* The move that reads the next symbol: it is tried first.
ReadingMove == IF Ended THEN {} ELSE Go(dpda, Config, word[at])

Recognize(w) ==
  /\ phase = "idle" /\ answer = "none"
  /\ phase' = "recognize"
  /\ word' = w
  /\ at' = 1
  /\ state' = dpda.start
  /\ stack' = <<>>
  /\ UNCHANGED <<original, debug, dpda, complements, goal, form, search, parallel, loop, answer>>

Moving == phase = "recognize" /\ ~ (Ended /\ state \in dpda.final)

Read ==
  /\ Moving
  /\ \E c \in ReadingMove : state' = c.state /\ stack' = c.stack
  /\ at' = at + 1
  /\ UNCHANGED <<original, debug, dpda, complements, phase, goal, form, search, parallel, loop, word, answer>>

MoveOn ==
  /\ Moving
  /\ ReadingMove = {}
  /\ Len(stack) < MaxStack
  /\ \E c \in Go(dpda, Config, None) : state' = c.state /\ stack' = c.stack
  /\ UNCHANGED <<original, debug, dpda, complements, phase, goal, form, search, parallel, loop, word, at, answer>>

\* No move applies, or go throws as the state has no row.
Stop ==
  /\ Moving
  /\ ReadingMove = {}
  /\ Go(dpda, Config, None) = {}
  /\ IF state \in DOMAIN dpda.rows
       THEN phase' = "idle" /\ answer' = "no"
       ELSE phase' = "threw" /\ UNCHANGED answer
  /\ UNCHANGED <<original, debug, dpda, complements, goal, form, search, parallel, loop, word, configuration>>

Accept ==
  /\ phase = "recognize"
  /\ Ended /\ state \in dpda.final
  /\ phase' = "idle"
  /\ answer' = "yes"
  /\ UNCHANGED <<original, debug, dpda, complements, goal, form, search, parallel, loop, word, configuration>>

Calls ==
  \/ CallNormalize \/ CallComplement \/ CallEndmark \/ NormalizeTransitions \/ PrepareConversion
  \/ ToGrammar
  \/ \E w \in Words : (\A i \in 1 .. Len(w) : w[i] \in dpda.alphabet) /\ Recognize(w)

Running ==
  \/ \E q \in todo : VisitLooping(q) \/ VisitFinal(q)
  \/ \E x \in left : VisitPair(x) \/ Redirect(x)
  \/ EndPass \/ EndNormalize \/ EndComplement \/ EndEndmark
  \/ Read \/ MoveOn \/ Stop \/ Accept

Next == Calls \/ Running

Spec == Init /\ [][Next]_vars

\* A call, once made, is run as long as it runs.
FairSpec == Spec /\ WF_vars(Running)

-----------------------------------------------------------------------------
\* Every state has moves. A parallel state of a parallel state would have none; a
\* build without NDEBUG throws on it.
NoneStuck == \A q \in dpda.states : DOMAIN Row(dpda.rows, q) # {}

Answered == phase = "idle" /\ answer # "none" /\ acyclic /\ NoneStuck

\* A DPDA accepts its language, before normalize and after: parallel states, the end
\* marker under the stack and the ways out of loops change nothing.
LanguageKept ==
  Answered /\ form = "DPDA" /\ complements = 0 => (answer = "yes" <=> word \in language)

\* complement accepts the other words, whether the build erases the moves that were
\* handed on to reading states or not, and its complement the words again.
ComplementRight ==
  Answered /\ form = "DPDA" /\ complements > 0 =>
    (answer = "yes" <=> (word \in language) = (complements % 2 = 0))

\* endmarked_DPDA accepts the same words, each followed by the end marker, and keeps
\* doing so when its transitions are cut and when it is prepared for the grammar; but
\* then a word is lost when the end marker has been popped before the stack is cleared.
\* (Not that of a complement made under NDEBUG: the constructor looks at the states
\* that kept their moves, and those are not final.)
MarkedWordsRight ==
  Answered /\ form # "DPDA" /\ (debug \/ complements = 0) =>
    LET right == /\ word # <<>> /\ Last(word) = EndMarker
                 /\ (Front(word) \in language) = (complements % 2 = 0)
    IN  IF right THEN answer = "yes" \/ (form = "prepared" /\ state = Clearing /\ stack = <<>>)
        ELSE answer = "no"

\* The heads that derive words, and these words.
RECURSIVE Deriving(_, _), Derived(_, _)
Deriving(productions, A) ==
  LET more == {p.head : p \in {p \in productions :
                \A i \in DOMAIN p.body : p.body[i] \in dpda.alphabet \cup A}}
  IN  IF more = A THEN A ELSE Deriving(productions, more)
Derived(productions, L) ==
  LET words(X) == IF X \in dpda.alphabet THEN {<<X>>} ELSE L[X]
      joined(U, V) == {u \o v : u \in U, v \in V}
      of(body) == FoldLeft(LAMBDA W, X : {w \in joined(W, words(X)) : Len(w) <= Longest}, {<<>>}, body)
      more == [A \in DOMAIN L |-> UNION {of(p.body) : p \in {p \in productions : p.head = A}}]
  IN  IF more = L THEN L ELSE Derived(productions, more)

\* The grammar derives the words that what was prepared accepts.
GrammarRight ==
  phase = "grammar" /\ acyclic =>
    LET heads == Deriving(dpda.productions, {})
        used == {p \in dpda.productions : \A i \in DOMAIN p.body : p.body[i] \in dpda.alphabet \cup heads}
        start == <<dpda.start, Cleared>>
    IN  Language(dpda) =
          IF start \in heads THEN Derived(used, [A \in heads |-> {}])[start] ELSE {}

\* What is made of a DPDA with an end marker is right, up to the grammar.
EndmarkedRight == MarkedWordsRight /\ GrammarRight

\* Every call comes to its end on a DPDA without cycles of moves that read nothing;
\* and recognize does on any DPDA that is normalized: that is what the looping
\* situations are for. (normalize itself may go on for ever.)
CallsEnd ==
  (phase \notin {"idle", "grammar", "threw"}
     /\ (acyclic \/ (phase = "recognize" /\ dpda.normalized)))
    ~> (phase \in {"idle", "grammar", "threw"})
=============================================================================

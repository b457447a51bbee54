-------------------------------- MODULE DPDA --------------------------------
(***************************************************************************)
(* Deterministic pushdown automata and what DPDA::normalize and            *)
(* DPDA::complement make of them.                                          *)
(*                                                                         *)
(* transition_function is a function from states to rows, a row one from   *)
(* situations <<input symbol, stack symbol>> to actions <<state, pushed    *)
(* symbol>>, with None for a symbol that is not there. The numbers of the  *)
(* states are left out: the states that are added are named by what they   *)
(* are added for, and the order of a set of states is any order. The top   *)
(* of a stack is its last element.                                         *)
(***************************************************************************)
EXTENDS Naturals, Sequences, FiniteSets, SequencesExt

CONSTANTS None,      \* no input symbol, nothing to pop or to push
          EndMarker  \* ALPHABET::endmarker

ASSUME SymbolsAssumption == None # EndMarker

Epsilon == <<None, None>>
UsesInput(s) == s[1] # None
HasPop(s) == s[2] # None

\* The situations of a row that read nothing.
EpsilonMoves(row) == {s \in DOMAIN row : ~ UsesInput(s)}

\* operator[]: the row of a state, an empty one when there was none.
Row(rows, q) == IF q \in DOMAIN rows THEN rows[q] ELSE <<>>

Pushed(stack, x) == IF x = None THEN stack ELSE Append(stack, x)

\* go with an input symbol, or with None: the configuration after the move, if one
\* applies. The move that looks at the stack comes second.
Go(d, c, a) ==
  LET row == Row(d.rows, c.state)
      After(s, stack) == {[state |-> row[s][1], stack |-> Pushed(stack, row[s][2])]}
  IN  IF <<a, None>> \in DOMAIN row THEN After(<<a, None>>, c.stack)
      ELSE IF c.stack # <<>> /\ <<a, Last(c.stack)>> \in DOMAIN row
        THEN After(<<a, Last(c.stack)>>, Front(c.stack))
      ELSE {}

\* check_transition_fuction: exactly one branch for all that can be read and popped.
Deterministic(d) ==
  \A q \in d.states :
    /\ q \in DOMAIN d.rows
    /\ \A a \in d.alphabet, x \in d.symbols :
         Cardinality({Epsilon, <<a, None>>, <<None, x>>, <<a, x>>} \cap DOMAIN d.rows[q]) = 1

-----------------------------------------------------------------------------
(* get_looping_situations.                                                 *)

\* Candidates without the moves that do not look at the stack.
Candidates_Popping(d) ==
  [q \in {q \in DOMAIN d.rows : \E s \in EpsilonMoves(d.rows[q]) : HasPop(s)} |->
     {<<s[2], d.rows[q][s][1] \in d.final>> : s \in EpsilonMoves(d.rows[q])}]

\* The states with moves that read nothing, and what these pop: any symbol if
\* nothing. The second of a pair says whether the move leads to a final state.
Candidates(d) ==
  [q \in {q \in DOMAIN d.rows : EpsilonMoves(d.rows[q]) # {}} |->
     UNION {(IF HasPop(s) THEN {s[2]} ELSE d.symbols) \X {d.rows[q][s][1] \in d.final} :
            s \in EpsilonMoves(d.rows[q])}]

Without(f, q) == [p \in DOMAIN f \ {q} |-> f[p]]

\* The pairs of a state with the symbol that was pushed: those with false are asked first.
Found(pairs, x) ==
  IF <<x, FALSE>> \in pairs THEN {FALSE} ELSE IF <<x, TRUE>> \in pairs THEN {TRUE} ELSE {}

\* What a pass makes of a state whose move neither reads nor pops.
FollowEpsilon(d, fresh, q) ==
  LET t == d.rows[q][Epsilon][1]
      x == d.rows[q][Epsilon][2]
  IN  IF t \notin DOMAIN fresh THEN Without(fresh, q)
      ELSE IF x = None THEN [fresh EXCEPT ![q] = fresh[t]]
      ELSE IF Found(fresh[t], x) = {} THEN Without(fresh, q)
      ELSE IF Found(fresh[t], x) = {TRUE} THEN [fresh EXCEPT ![q] = {p[1] : p \in @} \X {TRUE}]
      ELSE fresh

\* What it makes of one pair of another state, and whether it sets flag: also when
\* the pair that is added has been there before.
FollowPop(d, fresh, q, pair) ==
  IF <<None, pair[1]>> \notin DOMAIN d.rows[q] THEN <<fresh, FALSE>>
  ELSE LET t == d.rows[q][<<None, pair[1]>>][1]
           x == d.rows[q][<<None, pair[1]>>][2]
           erased == <<[fresh EXCEPT ![q] = @ \ {pair}], pair \in fresh[q]>>
       IN  IF t \notin DOMAIN fresh THEN erased
           ELSE IF x = None THEN <<fresh, FALSE>>
           ELSE IF Found(fresh[t], x) = {} THEN erased
           ELSE IF ~ pair[2] /\ Found(fresh[t], x) = {TRUE}
             THEN <<[fresh EXCEPT ![q] = @ \cup {<<pair[1], TRUE>>}], TRUE>>
           ELSE <<fresh, FALSE>>

\* erase_if at the end of a pass.
Left(fresh) == [q \in {q \in DOMAIN fresh : fresh[q] # {}} |-> fresh[q]]

-----------------------------------------------------------------------------
(* normalize.                                                              *)

Start == <<"start">>
Accepting == <<"accept">>
Rejecting == <<"reject">>
Parallel(q) == <<"parallel", q>>
Reading(q, x) == <<"reading", q, x>>

\* The states create_parallel_state goes to from q, leaving out those in done.
Reached(rows, q, done) ==
  LET next(p) == {Row(rows, p)[s][1] : s \in EpsilonMoves(Row(rows, p))}
      reach[n \in Nat] ==
        IF n = 0 THEN {q} \ done
        ELSE LET before == reach[n - 1] IN before \cup (UNION {next(p) : p \in before} \ done)
  IN  reach[Cardinality(DOMAIN rows) + 1]

\* A parallel state that stays among them when it reads.
ParallelRow_Stay(row) == [s \in DOMAIN row |-> <<Parallel(row[s][1]), row[s][2]>>]

\* The row of a parallel state: the moves that read leave the parallel states.
ParallelRow(row) ==
  [s \in DOMAIN row |-> IF UsesInput(s) THEN row[s] ELSE <<Parallel(row[s][1]), row[s][2]>>]

\* The DPDA with the parallel states: their rows are merged, and an empty row that
\* transition_function[s] has made stays.
WithParallels(d, parallel) ==
  LET rows == [p \in {Parallel(q) : q \in {q \in DOMAIN parallel : DOMAIN parallel[q] # {}}} |-> parallel[p[2]]]
      names == {Parallel(q) : q \in DOMAIN parallel}
  IN  [d EXCEPT !.states = @ \cup names, !.final = @ \cup names, !.rows = @ @@ rows]

\* The moves on the end marker: a state that has to pop is out of symbols.
AtEnd(d, q) ==
  LET popping == {s \in DOMAIN d.rows[q] : HasPop(s)}
  IN  IF popping \cap EpsilonMoves(d.rows[q]) # {}
        THEN <<None, EndMarker>> :> <<IF q \in d.final THEN Accepting ELSE Rejecting, None>>
      ELSE [s \in {<<s[1], EndMarker>> : s \in popping} |-> <<Rejecting, None>>]

\* The row of a state that loops without reading: to accept or to reject at once.
Unlooped(row, pairs) ==
  LET To(found) == <<IF FALSE \in found THEN Rejecting ELSE Accepting, None>>
  IN  IF pairs = {} THEN row
      ELSE IF Epsilon \in DOMAIN row THEN [row EXCEPT ![Epsilon] = To({p[2] : p \in pairs})]
      ELSE [s \in {<<None, p[1]>> : p \in pairs} |->
              To({p[2] : p \in {p \in pairs : p[1] = s[2]}})] @@ row

\* The rest of normalize, after the parallel states are there. The asserts hold when
\* a state that does not look at the stack loops for every symbol, accepting or not.
Normalized(d, looping) ==
  LET rows == [q \in DOMAIN d.rows |->
                 Unlooped(d.rows[q] @@ AtEnd(d, q), IF q \in DOMAIN looping THEN looping[q] ELSE {})]
      reject == [s \in d.alphabet \X {None} |-> <<Rejecting, None>>]
  IN  [d EXCEPT !.states = @ \cup {Start, Rejecting, Accepting},
                !.start = Start,
                !.final = @ \cup {Accepting},
                !.rows = (Start :> (Epsilon :> <<d.start, EndMarker>>)) @@ (Rejecting :> reject)
                           @@ (Accepting :> reject) @@ rows,
                !.symbols = @ \cup {EndMarker},
                !.normalized = TRUE]

AssertsHold(d, looping) ==
  \A q \in DOMAIN looping : Epsilon \in DOMAIN Row(d.rows, q) =>
    \A found \in BOOLEAN :
      LET symbols == {p[1] : p \in {p \in looping[q] : p[2] = found}}
      IN  symbols = {} \/ Cardinality(symbols) = Cardinality(d.symbols)

-----------------------------------------------------------------------------
(* complement, of a DPDA that is normalized.                               *)

\* The states that read, or do not, as the symbol on top of the stack says.
Mixed(d) ==
  {q \in DOMAIN d.rows : EpsilonMoves(d.rows[q]) \notin {{}, DOMAIN d.rows[q]}}

\* stack_symbol.value() throws when a mixed state reads without a look at the stack.
NoSymbol(d) ==
  d.final # {} /\ \E q \in Mixed(d) : \E s \in DOMAIN d.rows[q] : UsesInput(s) /\ ~ HasPop(s)

\* What the moves of a state that read something pop.
ReadAt(row) == {s[2] : s \in DOMAIN row \ EpsilonMoves(row)}

\* A state for each symbol a mixed state reads at, and all the states that only read.
Readers(d) == UNION {{Reading(q, x) : x \in ReadAt(d.rows[q])} : q \in Mixed(d)}
ReadingStates(d) == {q \in DOMAIN d.rows : EpsilonMoves(d.rows[q]) = {}} \cup Readers(d)

\* The reading states of a final state not taken for final.
NewFinal_Mixed(d) == ReadingStates(d) \ d.final

\* set_difference: a state made for a final state is final at first.
NewFinal(d) == ReadingStates(d) \ (d.final \cup {r \in Readers(d) : r[2] \in d.final})

\* A mixed state pops, and the reading state gets the moves. Under NDEBUG the mixed
\* state keeps them too.
MixedRow(q, row, debug) ==
  [s \in IF debug THEN EpsilonMoves(row) ELSE DOMAIN row |-> row[s]]
    @@ [s \in {<<None, x>> : x \in ReadAt(row)} |-> <<Reading(q, s[2]), None>>]

ReadingRow(row, x) ==
  [s \in {<<m[1], None>> : m \in {m \in DOMAIN row : UsesInput(m) /\ m[2] = x}} |-> row[<<s[1], x>>]]

Complement(d, debug) ==
  IF d.final = {} THEN [d EXCEPT !.final = d.states]
  ELSE [d EXCEPT
          !.states = @ \cup Readers(d),
          !.final = NewFinal(d),
          !.rows = [q \in DOMAIN @ |-> IF q \in Mixed(d) THEN MixedRow(q, @[q], debug) ELSE @[q]]
                     @@ [r \in Readers(d) |-> ReadingRow(@[r[2]], r[3])]]
=============================================================================

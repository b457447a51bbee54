---------------------------- MODULE EndmarkedDPDA ----------------------------
(***************************************************************************)
(* endmarked_DPDA: a DPDA that is made to accept by reading an end marker, *)
(* its transitions cut into ones that do one thing each, and its way to a  *)
(* grammar, which needs an empty stack at the end.                         *)
(***************************************************************************)
EXTENDS DPDA

EndAccept == <<"end accept">>
Clearing == <<"clearing">>
Cleared == <<"cleared">>

\* The state made by a loop in the middle of a transition of q.
Cut(by, q, s) == <<by, q, s>>

OnlyInput(s) == <<s[1], None>>
OnlyPop(s) == <<None, s[2]>>

\* A transition function as the set of its transitions [from, on, to, push], and back.
Move(q, s, to, push) == [from |-> q, on |-> s, to |-> to, push |-> push]
Moves(rows) ==
  UNION {{Move(q, s, rows[q][s][1], rows[q][s][2]) : s \in DOMAIN rows[q]} : q \in DOMAIN rows}
RowsOf(moves) ==
  [q \in {m.from : m \in moves} |->
     [s \in {m.on : m \in {m \in moves : m.from = q}} |->
        LET m == CHOOSE m \in moves : m.from = q /\ m.on = s IN <<m.to, m.push>>]]

\* The states that are new have moves only.
WithMoves(d, moves) ==
  [d EXCEPT !.states = @ \cup {m.from : m \in moves}, !.rows = RowsOf(moves) @@ [q \in DOMAIN @ |-> <<>>]]

-----------------------------------------------------------------------------
\* A state that reads takes the marker too.
EndmarkedRow_Mixed(d, q) ==
  LET next == <<IF q \in d.final THEN EndAccept ELSE Rejecting, None>>
  IN  IF EpsilonMoves(d.rows[q]) = {} THEN (<<EndMarker, None>> :> next) @@ d.rows[q] ELSE d.rows[q]

\* The end marker leads a final state to the one that accepts, any other to the one
\* that rejects: a mixed state where it takes other symbols.
EndmarkedRow(d, q) ==
  LET row == d.rows[q]
      next == <<IF q \in d.final THEN EndAccept ELSE Rejecting, None>>
  IN  IF Epsilon \in DOMAIN row THEN row
      ELSE IF EpsilonMoves(row) = {} THEN (<<EndMarker, None>> :> next) @@ row
      ELSE row @@ [s \in {<<EndMarker, x>> : x \in ReadAt(row)} |-> next]

\* The constructor, of a DPDA that is normalized.
Endmarked(d) ==
  LET alphabet == d.alphabet \cup {EndMarker}
  IN  [d EXCEPT !.alphabet = alphabet,
                !.states = @ \cup {EndAccept},
                !.final = {EndAccept},
                !.rows = (EndAccept :> [s \in alphabet \X {None} |-> <<Rejecting, None>>])
                           @@ [q \in DOMAIN @ |-> EndmarkedRow(d, q)]]

-----------------------------------------------------------------------------
(* normalize_transitions: every transition reads, pops or pushes.          *)

\* A mixed state pops and then reads, another one reads and then pops or pushes.
ReadAlone(row, m) ==
  LET popped == Cut("popped", m.from, OnlyPop(m.on))
      both == Cut("both", m.from, m.on)
      read == Cut("read", m.from, OnlyInput(m.on))
  IN  IF ~ UsesInput(m.on) THEN {m}
      ELSE IF EpsilonMoves(row) # {} THEN
        {Move(m.from, OnlyPop(m.on), popped, None)} \cup
        (IF m.push = None THEN {Move(popped, OnlyInput(m.on), m.to, None)}
         ELSE {Move(popped, OnlyInput(m.on), both, None), Move(both, Epsilon, m.to, m.push)})
      ELSE IF ~ HasPop(m.on) /\ m.push = None THEN {m}
      ELSE {Move(m.from, OnlyInput(m.on), read, None), Move(read, OnlyPop(m.on), m.to, m.push)}

\* Of pop and push exactly one: a transition that does neither pushes any symbol
\* first and pops it.
StackAlone(by, symbols, m) ==
  LET new == Cut(by, m.from, m.on)
  IN  IF HasPop(m.on) # (m.push # None) THEN {m}
      ELSE IF HasPop(m.on) THEN {Move(m.from, m.on, new, None), Move(new, Epsilon, m.to, m.push)}
      ELSE {Move(m.from, m.on, new, CHOOSE x \in symbols : TRUE)}
             \cup {Move(new, <<None, x>>, m.to, None) : x \in symbols}

\* What assert says of the rows before.
ReadsAsserted(d) ==
  \A q \in DOMAIN d.rows : \A s \in DOMAIN d.rows[q] :
    UsesInput(s) => IF EpsilonMoves(d.rows[q]) # {} THEN HasPop(s)
                    ELSE \E r \in DOMAIN d.rows[q] : ~ HasPop(r)

ReadsCut(d) == WithMoves(d, UNION {ReadAlone(d.rows[m.from], m) : m \in Moves(d.rows)})

StackCut(d) ==
  WithMoves(d, UNION {IF UsesInput(m.on) /\ ~ HasPop(m.on) THEN {m} ELSE StackAlone("stack", d.symbols, m) :
                      m \in Moves(d.rows)})

TransitionsNormalized(d) == StackCut(ReadsCut(d))

\* One thing each, as an assert says at the end.
OneThing(d) ==
  \A m \in Moves(d.rows) :
    Cardinality({k \in 1 .. 3 : <<m.on[1], m.on[2], m.push>>[k] # None}) = 1

-----------------------------------------------------------------------------
(* prepare_DCFG_conversion.                                                *)

\* From the final state the stack is cleared, down to the end marker.
ClearedAtEnd(d) ==
  LET clear == [s \in {None} \X (d.symbols \cup {EndMarker}) |->
                  <<IF s[2] = EndMarker THEN Cleared ELSE Clearing, None>>]
  IN  [d EXCEPT !.states = @ \cup {Clearing, Cleared},
                !.final = {Cleared},
                !.rows = [f \in d.final |-> Epsilon :> <<Clearing, None>>]
                           @@ (Clearing :> clear)
                           @@ (Cleared :> [s \in d.alphabet \X {None} |-> <<Rejecting, None>>]) @@ @]

Prepared(d) ==
  LET cleared == ClearedAtEnd(d)
  IN  WithMoves(cleared, UNION {StackAlone("prepared", cleared.symbols, m) : m \in Moves(cleared.rows)})

\* Every transition pops or pushes, as an assert says at the end.
PopsOrPushes(d) == \A m \in Moves(d.rows) : HasPop(m.on) # (m.push # None)

\* DPDA_to_DCFG, for what is prepared: the head <<q, r>> derives what leads from q to r and
\* leaves the stack as it was, its last part from where a symbol is pushed to where it is popped.
Productions(d) ==
  LET read(m) == IF m.on[1] = None THEN <<>> ELSE <<m.on[1]>>
      matching == {x \in Moves(d.rows) \X Moves(d.rows) : x[1].push # None /\ x[1].push = x[2].on[2]}
      body(q, x) == <<<<q, x[1].from>>>> \o read(x[1]) \o <<<<x[1].to, x[2].from>>>> \o read(x[2])
  IN  {[head |-> <<y[1], y[2][2].to>>, body |-> body(y[1], y[2])] : y \in d.states \X matching}
        \cup {[head |-> <<q, q>>, body |-> <<>>] : q \in d.states}
=============================================================================

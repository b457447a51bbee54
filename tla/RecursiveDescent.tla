-------------------------- MODULE RecursiveDescent --------------------------
(***************************************************************************)
(* CFG::recursive_descent_parse: backtracking over a tree whose nodes go   *)
(* through the bodies of their symbols, in the order of a hash table. Each *)
(* call of match_nonterminal is a frame with the node it was called on; it *)
(* is put back into its parent when the call returns. A view is given by   *)
(* the number of symbols in front of it.                                   *)
(***************************************************************************)
EXTENDS ContextFree, FiniteSetsExt, TLC

CONSTANT MaxFrames  \* bound: calls inside of each other, when they never end

VARIABLES
  bodies,  \* the bodies of each head, in their order
  text,
  frames,  \* records [node, view, views], the innermost call last
  verdict  \* "none", "parsing", "yes", "no", "left recursion", or "overflow" of the stack

descent == <<bodies, text, frames, verdict>>

\* head_dependency goes by what is in front only.
DependsOnItself(productions, A) ==
  A \in Smallest(Heads(productions),
                 LAMBDA V : \A p \in productions :
                              p.head \in V \cup {A} /\ p.body # <<>>
                                => {p.body[1]} \cap NonTerminal \subseteq V)

HasLeftRecursion(productions) == \E A \in Heads(productions) : DependsOnItself(productions, A)

-----------------------------------------------------------------------------
(* recursive_descent_parse_node. The constructor makes the children for    *)
(* the first body, by constructors: of some heads it never ends.           *)

Constructible ==
  Smallest(DOMAIN bodies,
           LAMBDA V : \A A \in DOMAIN bodies : NonTerminalsOf(bodies[A][1]) \subseteq V => A \in V)

RECURSIVE Node(_)

\* A node in its n-th body. After the last there are no children.
InBody(X, n) ==
  LET body == IF n > Len(bodies[X]) THEN <<>> ELSE bodies[X][n]
  IN  [symbol |-> X, at |-> n, children |-> [i \in DOMAIN body |-> Node(body[i])]]

Node(X) == IF X \in Terminal THEN [symbol |-> X, at |-> 0, children |-> <<>>] ELSE InBody(X, 1)

HasBody(node) == node.symbol \in NonTerminal /\ node.at <= Len(bodies[node.symbol])
BodyOf(node) == bodies[node.symbol][node.at]

\* Whether use_next_body would say yes.
RECURSIVE CanMove(_)
CanMove(node) ==
  /\ HasBody(node)
  /\ \/ node.at < Len(bodies[node.symbol])
     \/ \E i \in DOMAIN node.children : CanMove(node.children[i])

\* Which of the first n children would.
Movable(node, n) == {i \in 1 .. n : CanMove(node.children[i])}

\* The node that goes on to its next body: one below the last such child, or the node.
RECURSIVE Moving(_, _)
Moving(node, n) ==
  IF Movable(node, n) = {} THEN node
  ELSE LET child == node.children[Max(Movable(node, n))]
       IN  Moving(child, Len(child.children))

RECURSIVE UseNextBody(_, _)
UseNextBody(node, n) ==
  LET last == Max(Movable(node, n))
      moved(i, child) == IF i < last THEN child
                         ELSE IF i > last THEN Node(child.symbol)
                         ELSE UseNextBody(child, Len(child.children))
  IN  IF Movable(node, n) = {} THEN InBody(node.symbol, node.at + 1)
      ELSE [node EXCEPT !.children = [i \in DOMAIN @ |-> moved(i, @[i])]]

\* Whether the children for that body can be made.
Overflows(node, n) ==
  LET moving == Moving(node, n)
  IN  /\ moving.at < Len(bodies[moving.symbol])
      /\ ~ NonTerminalsOf(bodies[moving.symbol][moving.at + 1]) \subseteq Constructible

-----------------------------------------------------------------------------
(* match_nonterminal. views holds the views before each symbol of the body *)
(* that was matched, and the one that is left; it is empty between bodies. *)

Call(node, view) == [node |-> node, view |-> view, views |-> <<>>]

Frame == Last(frames)
Body == BodyOf(Frame.node)
Place == Len(Frame.views)
Matching == verdict = "parsing" /\ frames # <<>>
InBodyNow == Matching /\ HasBody(Frame.node)
MatchAll == Len(frames) = 1

\* Mutant: every symbol of a body stands for one of the text at least.
TooLong_EverySymbol ==
  \/ Len(Body) > Len(text) - Frame.view
  \/ Body = <<>> /\ MatchAll /\ Frame.view < Len(text)

\* Bodies that are passed over.
TooLong ==
  \/ Cardinality({i \in DOMAIN Body : Body[i] \in Terminal}) > Len(text) - Frame.view
  \/ Body = <<>> /\ MatchAll /\ Frame.view < Len(text)

\* A frame goes on with the next choice of its first n symbols, or the next body.
Backtrack(callers, frame, n) ==
  LET movable == Movable(frame.node, n)
      kept == IF movable = {} THEN 0 ELSE Min({Max(movable), Len(frame.views)})
  IN  IF Overflows(frame.node, n)
        THEN verdict' = "overflow" /\ UNCHANGED frames
        ELSE /\ frames' = Append(callers, [frame EXCEPT !.node = UseNextBody(@, n),
                                                        !.views = SubSeq(@, 1, kept)])
             /\ UNCHANGED verdict

SkipBody ==
  /\ InBodyNow /\ Place = 0
  /\ TooLong
  /\ Backtrack(Front(frames), Frame, 0)

BeginBody ==
  /\ InBodyNow /\ Place = 0
  /\ ~ TooLong
  /\ Body # <<>>
  /\ frames' = Append(Front(frames), [Frame EXCEPT !.views = <<Frame.view>>])
  /\ UNCHANGED verdict

MatchTerminal ==
  /\ InBodyNow /\ Place \in DOMAIN Body
  /\ Body[Place] \in Terminal
  /\ LET read == Last(Frame.views)
     IN  IF read < Len(text) /\ text[read + 1] = Body[Place]
           THEN /\ frames' = Append(Front(frames), [Frame EXCEPT !.views = Append(@, read + 1)])
                /\ UNCHANGED verdict
           ELSE Backtrack(Front(frames), Frame, Place)

CallChild ==
  /\ InBodyNow /\ Place \in DOMAIN Body
  /\ Body[Place] \in NonTerminal
  /\ Len(frames) < MaxFrames
  /\ frames' = Append(frames, Call(Frame.node.children[Place], Last(Frame.views)))
  /\ UNCHANGED verdict

\* The caller, with the node of the call it made.
Callers == Front(Front(frames))
Caller ==
  LET caller == Last(Front(frames))
  IN  [caller EXCEPT !.node.children[Len(caller.views)] = Frame.node]

\* A body is matched. At the root the whole text has to be read; if it is not, all is
\* tried again with the next choice.
Succeed ==
  /\ InBodyNow
  /\ IF Body = <<>> THEN ~ TooLong ELSE Place > Len(Body)
  /\ LET view == IF Body = <<>> THEN Frame.view ELSE Last(Frame.views)
         children == Len(Frame.node.children)
     IN  IF ~ MatchAll
           THEN /\ frames' = Append(Callers, [Caller EXCEPT !.views = Append(@, view)])
                /\ UNCHANGED verdict
         ELSE IF view = Len(text) THEN verdict' = "yes" /\ UNCHANGED frames
         ELSE IF ~ CanMove(Frame.node) THEN verdict' = "no" /\ UNCHANGED frames
         ELSE Backtrack(<<>>, [Frame EXCEPT !.views = <<>>], children)

\* No body is left.
Exhausted ==
  /\ Matching
  /\ ~ HasBody(Frame.node)
  /\ IF MatchAll THEN verdict' = "no" /\ UNCHANGED frames
     ELSE Backtrack(Callers, Caller, Len(Caller.views))

\* The orders hash tables can have.
Orderings(productions) ==
  FoldSet(LAMBDA A, F : {f @@ (A :> order) : f \in F, order \in SetToSeqs(Bodies(productions, A))},
          {<<>>}, Heads(productions))

\* The call, for a text.
Parse(productions, w) ==
  /\ verdict = "none"
  /\ text' = w
  /\ bodies' \in Orderings(productions)
  /\ LET known == Terminal \cap UNION {SymbolsOf(p.body) : p \in productions}
     IN  verdict' = IF HasLeftRecursion(productions) THEN "left recursion"
                    ELSE IF ToSet(w) \subseteq known THEN "parsing" ELSE "no"
  /\ UNCHANGED frames

MakeRoot(start) ==
  /\ verdict = "parsing"
  /\ frames = <<>>
  /\ IF start \in Constructible
       THEN frames' = <<Call(InBody(start, 1), 0)>> /\ UNCHANGED verdict
       ELSE verdict' = "overflow" /\ UNCHANGED frames
  /\ UNCHANGED <<bodies, text>>

Descending ==
  /\ SkipBody \/ BeginBody \/ MatchTerminal \/ CallChild \/ Succeed \/ Exhausted
  /\ UNCHANGED <<bodies, text>>
=============================================================================

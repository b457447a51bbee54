----------------------------- MODULE RegexSyntax -----------------------------
(***************************************************************************)
(* The grammar regex::get_grammar makes of an alphabet, with the table of  *)
(* LL_grammar for it. Characters are strings, and so are the heads.        *)
(***************************************************************************)
EXTENDS Integers, Sequences, FiniteSets, SequencesExt

CONSTANTS Codes,     \* all characters, in the order of their codes
          EndMarker  \* ALPHABET::endmarker

operators == {"|", "*", "(", "\\", ")", "+", "?", "[", "]", ".", "^", "-"}
Letters == ToSet(Codes)

SyntaxHeads ==
  {"rexpr", "rexpr'", "rterm", "rterm'", "rfactor", "rfactor'", "closure-operator", "rprimary",
   "character-class", "character-class'", "character-class-element", "escape-sequence", "symbol"}

G == INSTANCE ContextFree WITH Terminal <- Letters, NonTerminal <- SyntaxHeads

\* The bodies of a head, for an alphabet.
SyntaxBodies(alphabet) ==
  LET alone(S) == {<<s>> : s \in S}
  IN  [A \in SyntaxHeads |->
         CASE A = "rexpr" -> {<<"rterm", "rexpr'">>, <<>>}
           [] A = "rexpr'" -> {<<"|", "rterm", "rexpr'">>, <<>>}
           [] A = "rterm" -> {<<"rfactor", "rterm'">>}
           [] A = "rterm'" -> {<<"rfactor", "rterm'">>, <<>>}
           [] A = "rfactor" -> {<<"rprimary", "rfactor'">>}
           [] A = "rfactor'" -> {<<"closure-operator">>, <<>>}
           [] A = "closure-operator" -> alone({"*", "+", "?"})
           [] A = "rprimary" -> {<<"escape-sequence">>, <<"(", "rexpr", ")">>,
                                 <<"[", "character-class", "]">>}
                                  \cup alone({"."} \cup (alphabet \ operators))
           [] A = "character-class" -> {<<"character-class-element", "character-class'">>,
                                        <<"^", "character-class'">>}
           [] A = "character-class'" -> {<<"-", "character-class-element", "character-class'">>,
                                         <<"character-class-element", "character-class'">>, <<>>}
           [] A = "character-class-element" -> {<<"escape-sequence">>}
                                                 \cup alone(alphabet \ {"\\", "]", "-", "^"})
           [] A = "escape-sequence" -> {<<"\\", "symbol">>}
           [] A = "symbol" -> alone(alphabet)]

SyntaxOf(alphabet) ==
  G!Grammar("rexpr", UNION {G!Rules(A, SyntaxBodies(alphabet)[A]) : A \in SyntaxHeads})

-----------------------------------------------------------------------------
(* FIRST, FOLLOW and the table, as the passes end with them: relations     *)
(* between heads and terminals. In FIRST the empty string is epsilon.      *)

FirstOf(firsts, body) ==
  LET first(X) == IF X \in SyntaxHeads THEN {x[2] : x \in {y \in firsts : y[1] = X}} ELSE {X}
      leading == {i \in DOMAIN body : \A j \in 1 .. i - 1 : "" \in first(body[j])}
  IN  UNION {first(body[i]) \ {""} : i \in leading}
        \cup {e \in {""} : \A i \in DOMAIN body : "" \in first(body[i])}

\* Passes enough for the sets to be complete.
Passes == [i \in 1 .. Cardinality(SyntaxHeads) |-> i]

Firsts(g) ==
  FoldLeft(LAMBDA firsts, i : UNION {{p.head} \X FirstOf(firsts, p.body) : p \in g.productions},
           {}, Passes)

Follows(g, firsts) ==
  LET places == UNION {{p} \X {i \in DOMAIN p.body : p.body[i] \in SyntaxHeads} : p \in g.productions}
      after(x) == FirstOf(firsts, SubSeq(x[1].body, x[2] + 1, Len(x[1].body)))
      own == {<<g.start, EndMarker>>}
               \cup UNION {{x[1].body[x[2]]} \X (after(x) \ {""}) : x \in places}
      inherits == {<<x[1].head, x[1].body[x[2]]>> : x \in {y \in places : "" \in after(y)}}
  IN  FoldLeft(LAMBDA follows, i :
                 follows \cup {<<x[1][2], x[2][2]>> : x \in {y \in inherits \X follows : y[1][1] = y[2][1]}},
               own, Passes)

\* The entries: a terminal, a head and a body.
Entries(g) ==
  LET firsts == Firsts(g)
      follows == Follows(g, firsts)
      first(p) == FirstOf(firsts, p.body)
      after(p) == IF "" \in first(p) THEN {x[2] : x \in {y \in follows : y[1] = p.head}} ELSE {}
      keys == UNION {((first(p) \ {""}) \cup after(p)) \X {p} : p \in g.productions}
  IN  {<<x[1], x[2].head, x[2].body>> : x \in keys}
=============================================================================

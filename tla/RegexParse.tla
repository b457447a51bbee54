----------------------------- MODULE RegexParse -----------------------------
(***************************************************************************)
(* regex::parse: the parser of LL_grammar on a grammar of the alphabet,    *)
(* with a callback that keeps a stack of syntax trees and the character    *)
(* class it is in. The grammar comes from a table that goes by the name of *)
(* the alphabet only.                                                      *)
(***************************************************************************)
EXTENDS RegexTree

CONSTANTS Codes,      \* all characters, in the order of their codes
          Escapes,    \* what a backslash makes of f, n, r, t and v
          Breaks,     \* the two characters that end a line
          Alphabets,  \* records [name, symbols, ascii]
          Texts,      \* what is parsed: records [alphabet, text]
          MaxWord     \* bound: the length of the words compared

INSTANCE RegexSyntax

ASSUME CodesAssumption ==
  /\ IsInjective(Codes)
  /\ operators \subseteq Letters
  /\ SyntaxHeads \cap Letters = {}
  /\ EndMarker \notin Letters \cup SyntaxHeads
  /\ Escapes \in [DOMAIN Escapes -> Letters] /\ DOMAIN Escapes \subseteq Letters

ASSUME AlphabetsAssumption == \A al \in Alphabets : al.symbols \subseteq Letters /\ al.symbols # {}
ASSUME TextsAssumption == \A t \in Texts : t.alphabet \in Alphabets /\ t.text \in Seq(Letters)

VARIABLES
  factory,     \* the alphabets of the grammars in factory, by their names
  alphabet, text,
  table,       \* the entries of the grammar in use
  stage,       \* "text", "parse", "tree", "null" for a null pointer, "failed"; or "none"
  at, stack,   \* of LL_grammar::parse: the next symbol, the stack with its top first
  nodes,       \* node_stack, its top first
  made,        \* history: how many basic nodes there are
  cls,         \* the character class: content, last_symbol, range_begin, in_range
  in_class, in_complemented_class, in_escape_sequence

driver == <<at, stack>>
class == <<cls, in_class, in_complemented_class, in_escape_sequence>>
trees == <<nodes, made>>
given == <<factory, table, alphabet, text>>
parseVars == <<given, stage, driver, trees, class>>

Null == [kind |-> "null"]
NoClass == [content |-> {}, last_symbol |-> "", range_begin |-> "", in_range |-> FALSE]

\* The first expression for an alphabet of this name, or one after another.
ParseInit ==
  /\ \E t \in Texts : alphabet = t.alphabet /\ text = t.text
  /\ factory \in {<<>>} \cup {al.name :> al.symbols : al \in {o \in Alphabets : o.name = alphabet.name}}
  /\ stage = "text"

NoText ==
  /\ alphabet = [name |-> "", symbols |-> {}, ascii |-> FALSE]
  /\ text = <<>>
  /\ factory = <<>>
  /\ stage = "none"

Unparsed ==
  /\ table = {}
  /\ at = 1 /\ stack = <<>>
  /\ nodes = <<>> /\ made = 0
  /\ cls = NoClass
  /\ in_class = FALSE /\ in_complemented_class = FALSE /\ in_escape_sequence = FALSE

-----------------------------------------------------------------------------
(* LL_grammar::parse. The stack holds symbols, and callbacks for a         *)
(* production and a position.                                              *)

\* The callback does nothing at these positions.
Silent(A, body, pos) ==
  /\ A # "escape-sequence"
  /\ pos = 0 => ~ (A = "rexpr" /\ body = <<>>) /\ ~ (A = "character-class" /\ body[1] = "^")
  /\ pos = 1 => /\ A \notin {"symbol", "closure-operator", "rterm'"}
               /\ ~ (A = "character-class'" /\ body[1] = "-")
               /\ ~ (A = "character-class-element" /\ body[1] \in Letters)
               /\ ~ (A = "rprimary" /\ body[1] \in Letters \ {"("})
  /\ pos = 2 => A # "rexpr'"
  /\ pos = 3 => ~ (A = "rprimary" /\ body[1] = "[")

\* What is pushed for a production, but for callbacks that do nothing.
ToMatch(X) == <<"symbol", X>>
Pushed(A, body) ==
  LET all == [k \in 1 .. 2 * Len(body) + 1 |->
                IF k % 2 = 1 THEN <<"callback", A, body, k \div 2>> ELSE ToMatch(body[k \div 2])]
  IN  SelectSeq(all, LAMBDA e : e[1] = "symbol" \/ ~ Silent(A, body, e[4]))

Input == Append(text, EndMarker)
Top == Head(stack)
OnSymbol(S) == stage = "parse" /\ stack # <<>> /\ Top[1] = "symbol" /\ Top[2] \in S
Predicted == {e \in table : e[1] = Input[at] /\ e[2] = Top[2]}

\* get_grammar makes a grammar for a name it does not know.
GetGrammar ==
  /\ stage = "text"
  /\ factory' = factory @@ (alphabet.name :> alphabet.symbols)
  /\ table' = Entries(SyntaxOf(factory'[alphabet.name]))
  /\ stack' = <<ToMatch("rexpr"), ToMatch(EndMarker)>>
  /\ stage' = "parse"
  /\ UNCHANGED <<alphabet, text, at, trees, class>>

MatchTerminal ==
  /\ OnSymbol(Letters \cup {EndMarker})
  /\ Input[at] = Top[2]
  /\ at' = at + 1
  /\ stack' = Tail(stack)
  /\ UNCHANGED <<given, stage, trees, class>>

Expand ==
  /\ OnSymbol(SyntaxHeads)
  /\ \E entry \in Predicted : stack' = Pushed(entry[2], entry[3]) \o Tail(stack)
  /\ UNCHANGED <<given, stage, at, trees, class>>

Fail ==
  /\ stage' = "failed"
  /\ UNCHANGED <<given, driver, trees, class>>

\* parse returns false and regex::parse throws.
Reject ==
  /\ \/ OnSymbol(Letters \cup {EndMarker}) /\ Input[at] # Top[2]
     \/ OnSymbol(SyntaxHeads) /\ Predicted = {}
  /\ Fail

Accept ==
  /\ stage = "parse"
  /\ stack = <<>>
  /\ stage' = IF Head(nodes) = Null THEN "null" ELSE "tree"
  /\ UNCHANGED <<given, driver, trees, class>>

-----------------------------------------------------------------------------
(* The callback.                                                           *)

\* It is called for a production and a position of the body; and at the end of it.
At(A, pos) == stage = "parse" /\ stack # <<>> /\ Top[1] = "callback" /\ Top[2] = A /\ Top[4] = pos
Body == Top[3]

Called == stack' = Tail(stack) /\ UNCHANGED <<given, stage, at>>

Push(t) == nodes' = <<t>> \o nodes
PushBasic(s) == Push(Basic(made + 1, s)) /\ made' = made + 1

Code(s) == CHOOSE i \in DOMAIN Codes : Codes[i] = s
Between(s, e) == {Codes[i] : i \in Code(s) .. Code(e)}

\* character_class::add_symbol, which throws if a range goes backwards.
CanAdd(s) == cls.in_range => cls.content # {} /\ Code(cls.range_begin) <= Code(s)
AddSymbol(s) ==
  cls' = [cls EXCEPT !.content = @ \cup {s} \cup IF cls.in_range THEN Between(cls.range_begin, s) ELSE {},
                     !.in_range = FALSE,
                     !.last_symbol = s]
AddToClass(s) ==
  IF CanAdd(s)
    THEN AddSymbol(s) /\ Called /\ UNCHANGED <<trees, in_class, in_complemented_class, in_escape_sequence>>
    ELSE Fail

\* escape_symbol
Escaped(s) == IF alphabet.ascii /\ s \in DOMAIN Escapes THEN Escapes[s] ELSE s

\* symbol -> 'symbol'
SymbolInClass ==
  /\ At("symbol", 1) /\ in_class
  /\ AddToClass(IF in_escape_sequence THEN Escaped(Body[1]) ELSE Body[1])

SymbolAlone ==
  /\ At("symbol", 1) /\ ~ in_class
  /\ PushBasic(IF in_escape_sequence THEN Escaped(Body[1]) ELSE Body[1])
  /\ Called
  /\ UNCHANGED class

EscapeSequence ==
  /\ \E pos \in 0 .. 2 : At("escape-sequence", pos) /\ in_escape_sequence' = (pos = 1)
  /\ Called
  /\ UNCHANGED <<trees, cls, in_class, in_complemented_class>>

ElementOfClass ==
  /\ At("character-class-element", 1) /\ Body[1] \in Letters
  /\ AddToClass(Body[1])

ComplementClass ==
  /\ At("character-class", 0) /\ Body[1] = "^"
  /\ in_complemented_class' = TRUE
  /\ Called
  /\ UNCHANGED <<trees, cls, in_class, in_escape_sequence>>

\* set_last_symbol_in_range
BeginRange ==
  /\ At("character-class'", 1) /\ Body[1] = "-"
  /\ IF cls.in_range \/ cls.content = {}
       THEN Fail
       ELSE /\ cls' = [cls EXCEPT !.in_range = TRUE, !.range_begin = cls.last_symbol]
            /\ Called
            /\ UNCHANGED <<trees, in_class, in_complemented_class, in_escape_sequence>>

\* Mutant: what an earlier class held stays.
BeginClass_Kept ==
  /\ At("rprimary", 1) /\ Body[1] = "["
  /\ in_class' = TRUE
  /\ in_complemented_class' = FALSE
  /\ Called
  /\ UNCHANGED <<trees, cls, in_escape_sequence>>

BeginClass ==
  /\ At("rprimary", 1) /\ Body[1] = "["
  /\ cls' = NoClass
  /\ in_class' = TRUE
  /\ in_complemented_class' = FALSE
  /\ Called
  /\ UNCHANGED <<trees, in_escape_sequence>>

\* make_character_class, for the symbols in one of the orders. Of no symbol it makes a
\* null pointer.
PushUnion(symbols) ==
  LET order == SelectSeq(Codes, LAMBDA s : s \in symbols)
      basic == [i \in DOMAIN order |-> Basic(made + i, order[i])]
  IN  /\ Push(IF symbols = {} THEN Null
              ELSE FoldLeft(LAMBDA t, node : Union(t, node), Head(basic), Tail(basic)))
      /\ made' = made + Cardinality(symbols)

EndClass ==
  /\ At("rprimary", 3) /\ Body[1] = "["
  /\ IF cls.content = {}
       THEN Fail
       ELSE /\ in_class' = FALSE
            /\ PushUnion(IF in_complemented_class THEN alphabet.symbols \ cls.content ELSE cls.content)
            /\ Called
            /\ UNCHANGED <<cls, in_complemented_class, in_escape_sequence>>

\* What "." does not stand for.
Excluded == IF alphabet.ascii THEN Breaks ELSE {}

\* rprimary -> 'non-operator-symbol' and rprimary -> '.'
SymbolPrimary ==
  /\ At("rprimary", 1) /\ Len(Body) = 1 /\ Body[1] \in Letters
  /\ IF Body[1] = "."
       THEN PushUnion(alphabet.symbols \ Excluded)
       ELSE PushBasic(Body[1])
  /\ Called
  /\ UNCHANGED class

\* With assertions the program ends where there is no symbol left.
Abort ==
  /\ \/ At("rprimary", 3) /\ Body[1] = "[" /\ in_complemented_class /\ alphabet.symbols \subseteq cls.content
     \/ At("rprimary", 1) /\ Body = <<".">> /\ alphabet.symbols \subseteq Excluded
  /\ Fail

\* The node of an operator. It throws for a null pointer.
Replace(n, t) ==
  IF \E i \in 1 .. n : nodes[i] = Null
    THEN Fail
    ELSE nodes' = <<t>> \o SubSeq(nodes, n + 1, Len(nodes)) /\ Called /\ UNCHANGED <<made, class>>

CloseOperand ==
  /\ At("closure-operator", 1)
  /\ LET inner == Head(nodes)
     IN  Replace(1, CASE Body[1] = "*" -> Star(inner)
                      [] Body[1] = "+" -> Concat(inner, Star(inner))
                      [] Body[1] = "?" -> Union(Epsilon, inner))

\* rterm' -> rfactor rterm', after the factor
Concatenate ==
  /\ At("rterm'", 1) /\ Len(Body) = 2
  /\ Replace(2, Concat(nodes[2], nodes[1]))

\* rexpr' -> '|' rterm rexpr', after the term
Alternate ==
  /\ At("rexpr'", 2) /\ Len(Body) = 3
  /\ Replace(2, Union(nodes[2], nodes[1]))

EmptyExpression ==
  /\ At("rexpr", 0) /\ Body = <<>>
  /\ Push(Epsilon)
  /\ Called
  /\ UNCHANGED <<made, class>>

Driving == GetGrammar \/ MatchTerminal \/ Expand \/ Reject \/ Accept

Callback ==
  \/ SymbolInClass \/ SymbolAlone \/ EscapeSequence
  \/ ElementOfClass \/ ComplementClass \/ BeginRange \/ BeginClass \/ EndClass \/ Abort
  \/ SymbolPrimary \/ CloseOperand \/ Concatenate \/ Alternate \/ EmptyExpression

ParseNext == Driving \/ Callback

-----------------------------------------------------------------------------
(* The reference: the languages a text denotes, cut into parts in every    *)
(* way there is. A text that is no expression denotes none.                *)

Halves(w) == {<<SubSeq(w, 1, i), SubSeq(w, i + 1, Len(w))>> : i \in 1 .. Len(w) - 1}
Inner(w) == SubSeq(w, 2, Len(w) - 1)
Encloses(l, w, r) == Len(w) > 1 /\ w[1] = l /\ Last(w) = r

\* One character of a class, or what a backslash makes of one.
Elements(w) ==
  IF Len(w) = 1 THEN {w[1]} \cap (alphabet.symbols \ {"\\", "]", "-", "^"})
  ELSE {Escaped(s) : s \in {c \in alphabet.symbols : w = <<"\\", c>>}}

\* What classes hold: pairs of a content and the last element.
RECURSIVE Contents(_)
Contents(w) ==
  LET alone(v, s) == {<<x[1] \cup {s}, s>> : x \in Contents(v)}
      ranges(v, s) == {<<x[1] \cup Between(x[2], s), s>> :
                         x \in {y \in Contents(Front(v)) : Code(y[2]) <= Code(s)}}
  IN  {<<{s}, s>> : s \in Elements(w)} \cup
      UNION {UNION {alone(h[1], s) \cup IF Last(h[1]) = "-" THEN ranges(h[1], s) ELSE {} :
                      s \in Elements(h[2])} : h \in Halves(w)}

ClassLanguages(w) ==
  LET chosen(x) == IF w[1] = "^" THEN alphabet.symbols \ x[1] ELSE alphabet.symbols \cap x[1]
      classes == Contents(IF w[1] = "^" THEN Tail(w) ELSE w)
  IN  {{<<s>> : s \in chosen(x)} : x \in {y \in classes : w[1] = "^" => chosen(y) # {}}}

Repeated(L) ==
  FoldLeft(LAMBDA W, i : W \cup Joined(W, L, MaxWord), {<<>>}, [i \in 1 .. MaxWord |-> i])

\* What a word denotes as a primary, a factor, a term and a union, given its parts.
Primaries(parts, w) ==
  LET any == alphabet.symbols \ Excluded
  IN  UNION {{{<<s>>} : s \in {c \in alphabet.symbols \ operators : w = <<c>>}},
             {{<<s>> : s \in any} : dot \in {c \in {"."} : w = <<c>> /\ any # {}}},
             {{<<Escaped(s)>>} \cap {<<c>> : c \in alphabet.symbols} :
                s \in {c \in alphabet.symbols : w = <<"\\", c>>}},
             IF Encloses("(", w, ")") THEN parts[Inner(w)].union ELSE {},
             IF Encloses("[", w, "]") /\ Len(w) > 2 THEN ClassLanguages(Inner(w)) ELSE {}}

Factors(parts, w) ==
  IF Len(w) = 1 \/ Last(w) \notin {"*", "+", "?"} THEN {}
  ELSE {CASE Last(w) = "*" -> Repeated(L)
          [] Last(w) = "+" -> Joined(L, Repeated(L), MaxWord)
          [] Last(w) = "?" -> L \cup {<<>>} : L \in parts[Front(w)].primary}

Terms(parts, w) ==
  UNION {{Joined(L, M, MaxWord) : L \in parts[h[1]].term, M \in parts[h[2]].factor} : h \in Halves(w)}

Unions(parts, w) ==
  UNION {{L \cup M : L \in parts[Front(h[1])].union, M \in parts[h[2]].term} :
           h \in {g \in Halves(w) : Len(g[1]) > 1 /\ Last(g[1]) = "|"}}

Denotation(parts, w) ==
  LET primary == Primaries(parts, w)
      factor == primary \cup Factors(parts, w)
      term == factor \cup Terms(parts, w)
  IN  [primary |-> primary, factor |-> factor, term |-> term, union |-> term \cup Unions(parts, w)]

Languages ==
  LET nothing == [primary |-> {}, factor |-> {}, term |-> {}, union |-> {{<<>>}}]
      words(n) == {SubSeq(text, i, i + n - 1) : i \in 1 .. Len(text) - n + 1}
      parts[n \in 0 .. Len(text)] ==
        IF n = 0 THEN <<>> :> nothing
        ELSE LET shorter == parts[n - 1] IN [w \in words(n) |-> Denotation(shorter, w)] @@ shorter
  IN  parts[Len(text)][text].union

\* What a text is taken for is what it denotes, and only what denotes nothing is refused:
\* classes with ranges, escapes and complements, and the operators as they bind. (A range
\* may bring in characters that are not in the alphabet; a class no character is left in
\* makes no tree.) With the grammar of an earlier alphabet that has the same name
\* expressions may be refused, or name characters of that alphabet, but none is taken
\* for another.
ParseRight ==
  stage \in {"tree", "null", "failed"} =>
    LET denoted == Languages
        taken == {w \in Words(Head(nodes), MaxWord) : ToSet(w) \subseteq alphabet.symbols}
    IN  /\ stage = "tree" => Len(nodes) = 1 /\ denoted \subseteq {taken}
        /\ factory[alphabet.name] = alphabet.symbols => (stage = "tree" <=> denoted # {})
=============================================================================

\* Two calls of get_parse_tree on an LL_grammar. After the last call, and when the
\* bound on the stack is met, nothing more happens.
CONSTANTS
  S = S
  A = A
  B = B
  a = a
  b = b
  end = end
  Terminal <- MCTerminal
  NonTerminal <- MCNonTerminal
  EndMarker = end
  Grammars <- MCGrammars
  Words <- MCWords
  MaxCalls = 2
  MaxStack = 12
SPECIFICATION FairSpec
INVARIANTS
  InStep
  AnswerRight
  FirstSetsExact
PROPERTIES
  ParseEnds
CHECK_DEADLOCK FALSE

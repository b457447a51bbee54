\* Two calls of get_parse_tree on an LR grammar of every kind, or to_DPDA. After the last call,
\* and when the bound on the stack is met, nothing more happens.
CONSTANTS
  S = S
  A = A
  B = B
  start = start
  a = a
  b = b
  c = c
  end = end
  none = none
  Terminal <- MCTerminal
  NonTerminal <- MCNonTerminal
  EndMarker = end
  StartSymbol = start
  Grammars <- MCGrammars
  Words <- MCWords
  MaxCalls = 2
  MaxSteps = 7
  MaxStack = 8
  None = none
  Alphabets <- MCAlphabets
SPECIFICATION ObjectFairSpec
INVARIANTS
  InStep
  AnswerRight
  AutomatonRight
  ErrorsFoundAtOnce
PROPERTIES
  CallsEnd
CHECK_DEADLOCK FALSE

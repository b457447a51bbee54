\* Grammars, pushdown automata and what recognize and recursive descent make of them. When the longest
\* words are read nothing more happens.
CONSTANTS
  s = s
  t = t
  a = a
  b = b
  end = end
  none = none
  Terminal <- MCTerminal
  NonTerminal <- MCNonTerminal
  EndMarker = end
  None = none
  MaxPrimes = 4
  Grammars <- MCGrammars
  PDAs <- MCPDAs
  DFAs <- MCDFAs
  MaxCalls = 2
  MaxWord = 3
  MaxFrames = 12
  MaxStack = 9
  MaxEndless = 5
SPECIFICATION ObjectFairSpec
INVARIANTS
  TransformRight
  PDARight
  DescentRight
  WayBackRight
PROPERTIES
  CallsEnd
CHECK_DEADLOCK FALSE

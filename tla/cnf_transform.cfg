\* The constructor and to_CNF. When they are done nothing more happens.
CONSTANTS
  s = s
  r = r
  a = a
  b = b
  end = end
  Terminal <- MCTerminal
  NonTerminal <- MCNonTerminal
  EndMarker = end
  Names <- MCNames
  MaxPrimes = 8
  Given <- MCGiven
  Longest = 3
SPECIFICATION FairSpec
INVARIANTS
  NormalFormRight
PROPERTIES
  TransformEnds
CHECK_DEADLOCK FALSE

\* DFA::equivalent_with. An answer is the end of the call.
CONSTANTS
  s1 = s1
  s2 = s2
  s3 = s3
  a = a
  b = b
  State <- MCState
  Symbol <- MCSymbol
  Pairs <- MCPairs
SPECIFICATION EquivalenceSpec
INVARIANTS
  MapIsForced
  NoIsRight
CHECK_DEADLOCK FALSE

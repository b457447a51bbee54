CONSTANTS
  a = a
  b = b
  c = c
  State = {a, b, c}
  Automata <- MCAutomata
SPECIFICATION FairSpec
INVARIANTS Sound Complete
PROPERTIES ServedIsStable SearchEnds

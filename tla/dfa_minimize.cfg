\* DFA::minimize and DFA::recognize. A minimization that has run into undefined
\* behaviour does nothing more.
CONSTANTS
  s1 = s1
  s2 = s2
  s3 = s3
  s4 = s4
  s5 = s5
  a = a
  b = b
  State <- MCState
  Symbol <- MCSymbol
  DFAs <- MCDFAs
  Partitions <- MCPartitions
SPECIFICATION Spec
INVARIANTS
  Coarsest
  SameAnswer
CHECK_DEADLOCK FALSE

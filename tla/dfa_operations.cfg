\* An object that was changed as often as it may be has nothing more to do.
CONSTANTS
  a = a
  b = b
  unknown = unknown
  DFAs <- MCDFAs
  Others <- MCOthers
  Symbols = {a, b}
  Wanted = {0, 2, 3}
  Unknown = unknown
  Longest = 3
  MaxCalls = 3
SPECIFICATION Spec
INVARIANTS
  OperationsRight
  LiveStatesRight
CHECK_DEADLOCK FALSE

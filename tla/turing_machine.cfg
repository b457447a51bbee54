\* A machine that is built, and one that was not, has nothing more to do at the end.
CONSTANTS
  s0 = s0
  s1 = s1
  accept = accept
  reject = reject
  a = a
  blank = blank
  States = {s0, s1, accept, reject}
  StartState = s0
  AcceptState = accept
  RejectState = reject
  InputSymbols = {a}
  Blank = blank
  Words <- MCWords
  MaxCalls = 2
  MaxSteps = 5
SPECIFICATION FairSpec
INVARIANTS
  WithinChoices
PROPERTIES
  MachinesImplement
  AcceptanceFound
CHECK_DEADLOCK FALSE

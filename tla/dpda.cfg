\* All small DPDAs, as they are, normalized, complemented and complemented again.
\* The program ends with an exception or an answer.
CONSTANTS
  a = a
  b = b
  u = u
  v = v
  end = end
  none = none
  None = none
  EndMarker = end
  DPDAs <- MCDPDAs
  Words <- MCWords
  MaxComplements = 2
  MaxStack = 9
  MaxStates = 16
SPECIFICATION FairSpec
INVARIANTS
  LanguageKept
  ComplementRight
  EndmarkedRight
PROPERTIES
  CallsEnd
CHECK_DEADLOCK FALSE

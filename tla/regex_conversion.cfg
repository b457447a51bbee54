\* Texts parsed, and DFAs and regular expressions converted. When the longest words
\* are read, or a text is refused, nothing more happens.
CONSTANTS
  a = a
  b = b
  c = c
  n = n
  newline = newline
  return = return
  end = end
  Symbol = {a, b}
  EndMarker = end
  DFAs <- MCDFAs
  Codes <- MCCodes
  Escapes <- MCEscapes
  Breaks <- MCBreaks
  Alphabets <- MCAlphabets
  Texts <- MCTexts
  MaxWord = 3
  MaxPrimes = 20
SPECIFICATION Spec
INVARIANTS
  RemovalKeepsLanguage
  ConversionsAgree
  GrammarRight
  ParseRight
CHECK_DEADLOCK FALSE

SPECIFICATION Spec
CONSTANTS
  Keys = {a, b}
  PageSize = 2
  DigitKeys = 2
  UndoCap = 4
  MaxKeys = 4
  MaxWords = 4
  MaxCandidates = 3
  MergesAi = FALSE
  EnglishMarks = FALSE
  Reconnects = FALSE
INVARIANTS
  NoPanic

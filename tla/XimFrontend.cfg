SPECIFICATION XimSpec
CONSTANTS
  Keys = {a}
  PageSize = 2
  DigitKeys = 2
  UndoCap = 4
  MaxKeys = 3
  MaxWords = 2
  MaxCandidates = 3
  MergesAi = FALSE
  EnglishMarks = TRUE
  Reconnects = FALSE
  Contexts <- TwoContexts
INVARIANTS OneContext ShowsTheEngine

SPECIFICATION Spec
CONSTANTS
  Keys = {a, b}
  PageSize = 1
  DigitKeys = 2
  UndoCap = 4
  MaxKeys = 4
  MaxWords = 4
  MaxCandidates = 2
  MergesAi = FALSE
  EnglishMarks = FALSE
  Reconnects = FALSE
PROPERTIES
  IsKeyLine

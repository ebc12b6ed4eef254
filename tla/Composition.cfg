SPECIFICATION Spec
CONSTANTS
  Keys = {a, b}
  PageSize = 2
  DigitKeys = 3
  UndoCap = 1
  MaxKeys = 3
  MaxWords = 2
  MaxCandidates = 3
  MergesAi = TRUE
  EnglishMarks = TRUE
  Reconnects = TRUE
SYMMETRY KeySymmetry
INVARIANTS
  CommitEndsUndo
  TypeOK
  CursorInLetters
  UndoMatchesWords
  EnglishIsIdle

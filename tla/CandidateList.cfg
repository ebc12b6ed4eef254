SPECIFICATION ListSpec
CONSTANTS
  Keys = {1, 2, 3}
  Syllables <- AllSyllables
  Pair <- Scheme
  Fuzzy <- Doubles
  Near <- Neighbours
  English <- Latins
  CandidateLimit = 3
  TriggerMin = 2
  Beam = 2
  LongSpan = 1
  SpanCandidates = 2
  MaxSpans = 5
  Cost <- CostOf
  UnknownCost = 60
  Score <- ScoreOf
  Inputs <- Typing
  Sources <- OneSource
  Later <- NoLines
  Learnable <- Chosen
  Boost = 2
  TopK = 4
  Queries <- None
  Initials <- None
  Limits <- None
  MaxLearns = 2
  MaxImports = 0
INVARIANTS BestSentences SpaceTakesTheBest SomethingToPick
CHECK_DEADLOCK FALSE

SPECIFICATION Spec
CONSTANTS
  Sources <- ManyAndFew
  Later <- Raise
  Learnable <- Chosen
  Queries <- Asked
  Initials <- Shortened
  Limits <- ShortLists
  Boost = 2
  TopK = 4
  MaxLearns = 3
  MaxImports = 1
INVARIANTS SameAnswers ReopenChangesNothing LayersApart CompletionsReachable
CHECK_DEADLOCK FALSE

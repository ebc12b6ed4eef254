SPECIFICATION LiveSpec
CONSTANTS
  Words <- TwoWords
  BaseFreq <- Freqs
  Stores = {TRUE, FALSE}
  QueueCap = 2
  Contended = TRUE
  Imports <- Files
  Breaks = TRUE
  MaxUses = 2
  MaxSessions = 2
INVARIANTS TypeOK CountsAscend AddedOnce CloseKeepsAll
PROPERTIES CountNeverFalls CloseEnds
CHECK_DEADLOCK FALSE

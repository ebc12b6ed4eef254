SPECIFICATION Spec
CONSTANTS
  Vocab <- Entries
  TextOf <- Readings
  Canonical <- FirstReading
  Records <- Kinds
  MinAdmission = 2
  PhraseAdmission = 3
  Budget = 1
  Gates = {TRUE, FALSE}
  Miners = {m1, m2}
  MaxCommits = 3
  MaxRounds = 3
SYMMETRY MinerSymmetry
INVARIANTS TypoStaysOut CountedOnce NothingLost
PROPERTY UnusedFades
CHECK_DEADLOCK FALSE

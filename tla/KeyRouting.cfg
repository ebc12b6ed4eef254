SPECIFICATION LiveSpec
CONSTANTS
  Letters <- F
  Edits <- Backspace
  Picks <- NoKeys
  Marks <- Comma
  Others <- NoKeys
  Shifts <- OneShift
  ClipKeys <- NoKeys
  ClipMoves <- NoKeys
  ClipLeaves <- Backspace
  Repeatable <- EditAndF
  MaxDown = 2
  MaxFocus = 3
  MaxQueue = 2
  LosesConnection = TRUE
INVARIANTS TypeOK Accounts
PROPERTY RepeatStops

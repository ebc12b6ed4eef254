SPECIFICATION Spec
CONSTANTS
  Letters <- J
  Edits <- Backspace
  Picks <- Space
  Marks <- Comma
  Others <- Arrow
  Shifts <- OneShift
  ClipKeys <- ClipKey
  ClipMoves <- J
  ClipLeaves <- LeaveKeys
  Repeatable <- Backspace
  MaxDown = 3
  MaxFocus = 1
  MaxQueue = 2
  LosesConnection = FALSE
INVARIANTS NoStuckKey NoBareRelease

------------------------------ MODULE KeyLine ------------------------------
(***************************************************************************)
(* What the composition promises to the user, without words, candidates,   *)
(* pages or an undo chain: the typed keys are one line. A key is inserted  *)
(* or erased somewhere, the whole line is delivered as text, or the whole  *)
(* line is given up. No key is lost, doubled or moved in between.          *)
(***************************************************************************)
EXTENDS Integers, Sequences, SequencesExt

CONSTANTS
  Keys,    \* the letters that can be typed
  MaxKeys  \* bound: keys on the line

VARIABLES
  line,  \* the keys typed and not delivered
  sent   \* the keys of the text the last step delivered, if it did

Init == line = <<>> /\ sent = <<>>

Insert ==
  /\ Len(line) < MaxKeys
  /\ \E i \in 1..(Len(line) + 1), k \in Keys : line' = InsertAt(line, i, k)
  /\ sent' = <<>>

Erase ==
  /\ \E i \in 1..Len(line) : line' = RemoveAt(line, i)
  /\ sent' = <<>>

Deliver ==
  /\ line # <<>>
  /\ sent' = line
  /\ line' = <<>>

(* Esc, or the end of the process.                                         *)
GiveUp == line' = <<>> /\ sent' = <<>>

(* A step on the composition that is not one on the line.                  *)
Arrange == sent' = <<>> /\ UNCHANGED line

Next == Insert \/ Erase \/ Deliver \/ GiveUp \/ Arrange

Spec == Init /\ [][Next]_<<line, sent>>
=============================================================================

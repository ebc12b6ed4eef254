---------------------------- MODULE MCKeyRouting ----------------------------
(* Values of the key classes for the runs of KeyRouting.                   *)
EXTENDS KeyRouting

NoKeys == {}
OneShift == {"shiftL"}
J == {"j"}
F == {"f"}
Backspace == {"backspace"}
Space == {"space"}
Comma == {"comma"}
Arrow == {"arrow"}
ClipKey == {"C-semicolon"}
EditAndF == {"backspace", "f"}
LeaveKeys == {"backspace", "space"}
=============================================================================

----------------------------- MODULE MCSession -----------------------------
(* Values for the run of Session: a badge of the one size it asks for, and *)
(* a global the input method needs and one the badge needs that come late. *)
EXTENDS Session

OneWidth == {1}
LateGlobals == {"seat", "layer_shell"}
BadgeImages == {"zh", "en"}
Drawn == [x \in BOOLEAN \X OneWidth |-> IF x[1] THEN "zh" ELSE "en"]
Unit == [i \in BadgeImages |-> 1]
=============================================================================

--------------------------- MODULE MCPopupCanvas ---------------------------
(* Images for the runs of PopupCanvas: two pages of different widths, the  *)
(* two flashes, which have the same size, and the hidden frame.            *)
EXTENDS PopupCanvas

TwoPages == {"short", "long"}
Modes == {"zh", "en"}
AllImages == TwoPages \cup Modes \cup {"hidden"}
Sizes ==
  [i \in AllImages |->
     CASE i = "hidden" -> 1 [] i \in Modes -> 2 [] i = "short" -> 3 [] OTHER -> 4]
=============================================================================

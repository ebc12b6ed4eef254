--------------------------- MODULE MCXimFrontend ---------------------------
(* Values for the run of XimFrontend.                                      *)
EXTENDS XimFrontend

TwoContexts == {"ic1", "ic2"}
=============================================================================

--------------------------- MODULE MCComposition ---------------------------
(* Composition for TLC. The letters are interchangeable: every operation   *)
(* moves keys about and none looks at which letter a key is.               *)
EXTENDS Composition

KeySymmetry == Permutations(Keys)
=============================================================================

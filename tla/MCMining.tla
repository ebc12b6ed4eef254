------------------------------ MODULE MCMining ------------------------------
(* Words and commits for the runs of Mining.                               *)
EXTENDS Mining, TLC

R(c, w, t) == [ctx |-> c, text |-> w, tail |-> t]

\* Words with their texts; b2 is a second reading of the text b.
Entries == {"a", "b", "b2", "c"}
Readings == [v \in Entries |-> IF v = "b2" THEN "b" ELSE v]
FirstReading == [t \in {"a", "b", "c"} |-> t]

\* After a, with a tail, with one that ends otherwise and without one, in
\* either reading; the first word of a session, with a tail or nothing; a tail
\* that no dictionary word can be split from.
Kinds ==
  {R("a", "b", "a"), R("a", "b", "none"), R("a", "b", "c"), R("a", "b", "opaque"),
   R("a", "b2", "a"), R("none", "b", "a"), R("none", "b", "none")}
MinerSymmetry == Permutations(Miners)
=============================================================================

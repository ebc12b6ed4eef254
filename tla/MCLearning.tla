----------------------------- MODULE MCLearning -----------------------------
(* Words and frequencies for the runs of Learning: one word the dictionary *)
(* has and one it does not have; an import that raises the one and adds    *)
(* the other, and a transaction without rows of theirs.                    *)
EXTENDS Learning

TwoWords == {"known", "new"}
Freqs == [w \in TwoWords |-> IF w = "known" THEN 1 ELSE 0]
Files == {[w \in TwoWords |-> 0], [w \in TwoWords |-> Freqs[w] + 1]}
=============================================================================

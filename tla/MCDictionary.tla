---------------------------- MODULE MCDictionary ----------------------------
(* Values for the run of Dictionary: a reading a, the longer syllable ab,  *)
(* readings that go on behind a quote, and another first letter. Text 1 has *)
(* two readings.                                                           *)
EXTENDS Dictionary

a == <<1>>
ab == <<1, 2>>
a_a == <<1, 0, 1>>
a_b == <<1, 0, 2>>
ab_a == <<1, 2, 0, 1>>
b == <<2>>

L(key, t, f) == [pinyin |-> key, text |-> t, freq |-> f]
W(key, t) == [pinyin |-> key, text |-> t]

Many == {L(a, 1, 5), L(a, 2, 3), L(a, 3, 3), L(ab, 4, 4), L(ab, 1, 2), L(a_a, 5, 3),
         L(a_b, 8, 4), L(ab_a, 6, 2), L(b, 7, 1)}
Few == {L(a, 1, 2), L(ab, 4, 3), L(a_a, 1, 6), L(ab_a, 5, 7)}
ManyAndFew == {Many, Few}
Raise == {L(a, 3, 6), L(ab, 10, 3)}
Chosen == {W(a, 3), W(ab, 1), W(a_a, 9), W(a_a, 1)}
Asked == {a, ab, a_a, ab_a, b}
Shortened == {<<1>>, <<1, 1>>, <<1, 2>>}
ShortLists == {1, 2, 4}
=============================================================================

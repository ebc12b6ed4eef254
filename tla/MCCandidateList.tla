--------------------------- MODULE MCCandidateList ---------------------------
(* Values for the run of CandidateList: two keys; syllables a, ab, b and ba,*)
(* so that aba is a-ba and ab-a; words of one and of two syllables. 41,     *)
(* once learned, and 14 give a-ab-a the text 141 in two ways, and the one   *)
(* met second, 14 and 1, is the cheaper one; 141 is also the text of a      *)
(* longer word, which the limit of three then cuts off the list.            *)
EXTENDS CandidateList

a == <<1>>
ab == <<1, 2>>
b == <<2>>
ba == <<2, 1>>
Then(x, y) == x \o <<0>> \o y

L(key, t, f) == [pinyin |-> key, text |-> t, freq |-> f]
W(key, t) == [pinyin |-> key, text |-> t]

AllSyllables == {a, ab, b, ba}
Scheme == (<<1, 1>> :> a) @@ (<<1, 3>> :> ab) @@ (<<2, 1>> :> ba) @@ (<<2, 2>> :> b)
            @@ (<<3, 1>> :> a) @@ (<<3, 2>> :> b)
Doubles == << <<b, ba>> >>
Neighbours == << <<2>>, <<1>>, <<2>> >>
Latins == << [text |-> 8, pinyin |-> <<1, 2>>, freq |-> 0, eff |-> 0],
             [text |-> 88, pinyin |-> <<1, 2, 2>>, freq |-> 1, eff |-> 1] >>

Words == {L(a, 1, 5), L(a, 2, 3), L(b, 3, 4), L(ab, 4, 2),
          L(Then(a, ba), 15, 2), L(Then(ab, a), 61, 1), L(Then(a, ab), 14, 6),
          L(Then(a, Then(ab, ab)), 141, 1)}
OneSource == {Words}
NoLines == {}
Chosen == {W(a, 2), W(Then(ab, a), 41), W(<<1, 2>>, 8)}

None == {}

Beginnings(s) == {SubSeq(s, 1, n) : n \in 1..Len(s)}
Typing == UNION {Beginnings(s) : s \in {<<1, 2, 1>>, <<1, 1, 2, 1>>, <<1, 3, 2, 1>>, <<1, 1, 3>>}}

CostOf(e) == 30 - e
ScoreOf(product, words) == IF words = 0 THEN 1 ELSE IF product > 6 THEN 6 ELSE product
=============================================================================

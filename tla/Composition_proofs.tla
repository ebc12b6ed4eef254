------------------------- MODULE Composition_proofs -------------------------
(***************************************************************************)
(* The composition invariants hold for every alphabet, page size, undo cap *)
(* and bound, with and without AI answers, English marks and reconnects;   *)
(* without those, the engine implements one line of keys. The last part is *)
(* about the X11 front end, which drives the engine: for any number of     *)
(* clients, what is composed belongs to the client that has the focus, and *)
(* window and client show it.                                              *)
(***************************************************************************)
EXTENDS XimFrontend, SequenceTheorems, WellFoundedInduction, TLAPS

----------------------------------------------------------------------------
(* What the operators the actions are built from return.                   *)

(* A lookup lists candidates that read a key, and none without letters.    *)
LEMMA LookupsFacts ==
  ASSUME NEW ls \in Word, NEW s \in Lookups(ls)
  PROVE  /\ s \in Seq(Nat)
         /\ \A i \in 1..Len(s) : s[i] # NoReading
         /\ ls = <<>> => s = <<>>
<1>1. CASE ls = <<>>
  BY <1>1 DEF Lookups
<1>2. CASE ls # <<>>
  <2>1. PICK n \in 0..MaxCandidates : s \in [1..n -> 1..Len(ls)]
    BY <1>2 DEF Lookups
  <2>2. n \in Nat /\ Len(ls) \in Nat
    BY BoundAssumption DEF Word
  <2>3. s \in Seq(1..Len(ls)) /\ Len(s) = n
    BY <2>1, <2>2
  <2>4. 1..Len(ls) \subseteq Nat
    BY <2>2
  <2>5. s \in Seq(Nat)
    BY <2>3, <2>4
  <2>6. \A i \in 1..Len(s) : s[i] \in 1..Len(ls)
    BY <2>1, <2>3
  <2> QED
    BY <1>2, <2>5, <2>6, <2>2 DEF NoReading
<1> QED
  BY <1>1, <1>2

(* Staging consumes a prefix of the letters, and a non-empty one when the  *)
(* candidate reads a key.                                                  *)
LEMMA CoveredFacts ==
  ASSUME letters \in Word, NEW c \in Nat, NEW n \in Covered(c)
  PROVE  /\ n \in 0..Len(letters)
         /\ c # NoReading /\ letters # <<>> => n # 0
BY DEF Covered, Word, NoReading

(* The consumed keys and the remaining letters are key strings.            *)
LEMMA SplitFacts ==
  ASSUME letters \in Word, NEW n \in 0..Len(letters)
  PROVE  /\ Taken(n) \in Word
         /\ Len(Taken(n)) = n
         /\ Rest(n) \in Word
         /\ Len(Rest(n)) = Len(letters) - n
BY DEF Taken, Rest, Word

(* The outcomes without text are outcomes, and none of them is a Commit.   *)
LEMMA PlainOutcomes ==
  ASSUME NEW o \in {Ignored, Consumed, Panic}
  PROVE  o \in OutcomeType /\ o.kind # "Commit"
<1>1. <<>> \in Seq(Word) /\ <<>> \in Word
  BY DEF Word
<1>2. CASE o = Ignored
  BY <1>1, <1>2 DEF Ignored, Outcome, OutcomeType
<1>3. CASE o = Consumed
  BY <1>1, <1>3 DEF Consumed, Outcome, OutcomeType
<1>4. CASE o = Panic
  BY <1>1, <1>4 DEF Panic, Outcome, OutcomeType
<1> QED
  BY <1>2, <1>3, <1>4

(* A non-empty sequence without its last element.                          *)
LEMMA FrontFacts ==
  ASSUME NEW S, NEW s \in Seq(S), s # <<>>
  PROVE  /\ Front(s) \in Seq(S)
         /\ Len(s) \in Nat \ {0}
         /\ Len(Front(s)) = Len(s) - 1
         /\ \A i \in 1..(Len(s) - 1) : Front(s)[i] = s[i]
         /\ Last(s) \in S
<1>1. Len(s) \in Nat \ {0}
  OBVIOUS
<1> DEFINE m == Len(s) - 1
<1>2. m \in Nat /\ \A i \in 1..m : s[i] \in S
  BY <1>1
<1>3. /\ SubSeq(s, 1, m) \in Seq(S)
      /\ Len(SubSeq(s, 1, m)) = IF 1 <= m THEN m - 1 + 1 ELSE 0
      /\ \A i \in 1..(m - 1 + 1) : SubSeq(s, 1, m)[i] = s[1 + i - 1]
  <2> HIDE DEF m
  <2>1. m \in Int /\ 1 \in Int
    BY <1>2
  <2> QED
    BY <1>2, <2>1, SubSeqProperties
<1>4. Len(SubSeq(s, 1, m)) = m
  <2> HIDE DEF m
  <2> QED
    BY <1>2, <1>3
<1>5. ASSUME NEW i \in 1..m PROVE SubSeq(s, 1, m)[i] = s[i]
  <2>1. i \in 1..(m - 1 + 1) /\ 1 + i - 1 = i
    BY <1>1
  <2> QED
    BY <1>3, <2>1
<1> QED
  BY <1>1, <1>3, <1>4, <1>5 DEF Front, Last

(* Inserting and removing one key keep a key string and move its length    *)
(* by one.                                                                 *)
LEMMA InsertFacts ==
  ASSUME NEW s \in Word, NEW k \in Keys, NEW i \in 1..(Len(s) + 1)
  PROVE  /\ InsertAt(s, i, k) \in Word
         /\ Len(InsertAt(s, i, k)) = Len(s) + 1
<1> DEFINE l == SubSeq(s, 1, i - 1)
           r == SubSeq(s, i, Len(s))
<1>1. s \in Seq(Keys) /\ Len(s) \in Nat /\ i \in Int
  BY DEF Word
<1>2. l \in Seq(Keys) /\ Len(l) = i - 1
  BY <1>1
<1>3. r \in Seq(Keys) /\ Len(r) = Len(s) - i + 1
  BY <1>1
<1>4. <<k>> \in Seq(Keys) /\ Len(<<k>>) = 1
  OBVIOUS
<1> HIDE DEF l, r
<1>5. l \o <<k>> \in Seq(Keys) /\ Len(l \o <<k>>) = i
  BY <1>1, <1>2, <1>4
<1>6. (l \o <<k>>) \o r \in Seq(Keys) /\ Len((l \o <<k>>) \o r) = Len(s) + 1
  BY <1>1, <1>3, <1>5
<1> QED
  BY <1>6 DEF InsertAt, Word, l, r

LEMMA RemoveFacts ==
  ASSUME NEW s \in Word, NEW i \in 1..Len(s)
  PROVE  /\ RemoveAt(s, i) \in Word
         /\ Len(RemoveAt(s, i)) = Len(s) - 1
<1> DEFINE l == SubSeq(s, 1, i - 1)
           r == SubSeq(s, i + 1, Len(s))
<1>1. s \in Seq(Keys) /\ Len(s) \in Nat /\ i \in Int
  BY DEF Word
<1>2. l \in Seq(Keys) /\ Len(l) = i - 1
  BY <1>1
<1>3. r \in Seq(Keys) /\ Len(r) = Len(s) - i
  BY <1>1
<1> HIDE DEF l, r
<1>4. l \o r \in Seq(Keys) /\ Len(l \o r) = Len(s) - 1
  BY <1>1, <1>2, <1>3
<1> QED
  BY <1>4 DEF RemoveAt, Word, l, r

(* Pushing the keys of a new word keeps the chain no longer than the words *)
(* and in step with them.                                                  *)
LEMMA PushFacts ==
  ASSUME IndInv, NEW w \in Word, w # <<>> \/ ai
  PROVE  /\ PushUndo(w) \in Seq(Word)
         /\ Len(PushUndo(w)) <= Len(Append(pending, w))
         /\ ~ai =>
              \A i \in 1..Len(PushUndo(w)) :
                PushUndo(w)[i] =
                  Append(pending, w)[Len(Append(pending, w)) - Len(PushUndo(w)) + i]
<1> DEFINE pushed == Append(undo, w)
           words == Append(pending, w)
           Follows(u) ==
             /\ u \in Seq(Word)
             /\ Len(u) <= Len(words)
             /\ ~ai => \A i \in 1..Len(u) : u[i] = words[Len(words) - Len(u) + i]
<1> SUFFICES Follows(PushUndo(w))
  OBVIOUS
<1>1. undo \in Seq(Word) /\ pending \in Seq(Word) /\ Len(undo) <= Len(pending)
  BY DEF IndInv, TypeOK, UndoNotLonger
<1>2. /\ pushed \in Seq(Word) /\ Len(pushed) = Len(undo) + 1
      /\ words \in Seq(Word) /\ Len(words) = Len(pending) + 1
  BY <1>1
<1>3. ~ai => \A i \in 1..Len(undo) : undo[i] = pending[Len(pending) - Len(undo) + i]
  BY DEF IndInv, UndoMatchesWords
<1>4. ~ai => \A i \in 1..Len(pushed) : pushed[i] = words[Len(words) - Len(pushed) + i]
  <2> SUFFICES ASSUME ~ai, NEW i \in 1..Len(pushed)
               PROVE  pushed[i] = words[Len(words) - Len(pushed) + i]
    OBVIOUS
  <2>1. CASE i = Len(undo) + 1
    BY <2>1, <1>1, <1>2
  <2>2. CASE i # Len(undo) + 1
    <3>1. i \in 1..Len(undo)
      BY <2>2, <1>1, <1>2
    <3>2. Len(pending) - Len(undo) + i \in 1..Len(pending)
      BY <3>1, <1>1
    <3>3. pushed[i] = undo[i]
      BY <3>1, <1>1
    <3>4. words[Len(pending) - Len(undo) + i] = pending[Len(pending) - Len(undo) + i]
      BY <3>2, <1>1
    <3>5. Len(words) - Len(pushed) + i = Len(pending) - Len(undo) + i
      BY <1>1, <1>2
    <3> QED
      BY <1>3, <3>1, <3>3, <3>4, <3>5
  <2> QED
    BY <2>1, <2>2
<1>5. CASE w = <<>>
  BY <1>5, <1>1, <1>2 DEF PushUndo
<1>6. CASE w # <<>> /\ ~(Len(pushed) > UndoCap)
  <2>1. PushUndo(w) = pushed
    BY <1>6 DEF PushUndo
  <2> HIDE DEF pushed, words
  <2>2. Follows(pushed)
    BY <1>1, <1>2, <1>4
  <2> QED
    BY <2>1, <2>2
<1>7. CASE w # <<>> /\ Len(pushed) > UndoCap
  <2>1. PushUndo(w) = Tail(pushed)
    BY <1>7 DEF PushUndo
  <2>2. /\ Tail(pushed) \in Seq(Word)
        /\ Len(Tail(pushed)) = Len(undo)
        /\ \A i \in 1..Len(undo) : Tail(pushed)[i] = pushed[i + 1]
    BY <1>1, <1>2
  <2> HIDE DEF pushed, words
  <2>3. ~ai => \A i \in 1..Len(undo) :
           Tail(pushed)[i] = words[Len(words) - Len(undo) + i]
    <3> SUFFICES ASSUME ~ai, NEW i \in 1..Len(undo)
                 PROVE  Tail(pushed)[i] = words[Len(words) - Len(undo) + i]
      OBVIOUS
    <3>1. i + 1 \in 1..Len(pushed)
      BY <1>1, <1>2
    <3>2. Len(words) - Len(pushed) + (i + 1) = Len(words) - Len(undo) + i
      BY <1>1, <1>2
    <3> QED
      BY <1>4, <2>2, <3>1, <3>2
  <2> DEFINE tail == Tail(pushed)
  <2>4. /\ tail \in Seq(Word) /\ Len(tail) = Len(undo)
        /\ ~ai => \A i \in 1..Len(tail) : tail[i] = words[Len(words) - Len(tail) + i]
        /\ PushUndo(w) = tail
    BY <2>1, <2>2, <2>3
  <2> HIDE DEF tail
  <2>5. Follows(tail)
    BY <2>4, <1>1, <1>2
  <2> QED
    BY <2>4, <2>5
<1> QED
  BY <1>5, <1>6, <1>7

----------------------------------------------------------------------------
(* The inductive invariant, one action at a time.                          *)

(* Steps that end the composition keep it whatever they deliver.           *)
LEMMA ClearKeeps ==
  ASSUME IndInv, ClearComposition,
         chinese' \in BOOLEAN, chinesePunct' \in BOOLEAN, ai' \in BOOLEAN,
         outcome' \in OutcomeType
  PROVE  IndInv'
BY DEF IndInv, TypeOK, CursorInLetters, UndoNotLonger, UndoMatchesWords,
       EnglishIsIdle, CommitEndsUndo, CandidatesNeedLetters, CandidatesRead,
       WordsHaveKeys, ClearComposition, Idle, Word

(* Steps that only change the letters and look them up again.              *)
LEMMA LettersKeep ==
  ASSUME IndInv, Typing, letters' \in Word, candidates' \in Lookups(letters'),
         cursor' \in Nat, cursor' <= Len(letters'), pageIndex' \in Nat,
         outcome' = Consumed, UNCHANGED <<modes, pending, undo>>
  PROVE  IndInv'
<1>1. /\ candidates' \in Seq(Nat)
      /\ \A i \in 1..Len(candidates') : candidates'[i] # NoReading
      /\ letters' = <<>> => candidates' = <<>>
  BY LookupsFacts
<1>2. outcome' \in OutcomeType
  BY PlainOutcomes
<1> QED
  BY <1>1, <1>2
  DEF IndInv, TypeOK, CursorInLetters, UndoNotLonger, UndoMatchesWords,
      EnglishIsIdle, CommitEndsUndo, CandidatesNeedLetters, CandidatesRead,
      WordsHaveKeys, Consumed, Outcome, modes, Typing

(* Steps that leave letters, candidates, words and chain as they are.      *)
LEMMA RestKeeps ==
  ASSUME IndInv, UNCHANGED <<letters, candidates, pending, undo, chinese, ai>>,
         chinesePunct' \in BOOLEAN, pageIndex' \in Nat,
         cursor' \in Nat, cursor' <= Len(letters),
         outcome' \in {Ignored, Consumed, Panic}
  PROVE  IndInv'
<1>1. outcome' \in OutcomeType /\ outcome'.kind # "Commit"
  BY PlainOutcomes
<1> QED
  BY <1>1
  DEF IndInv, TypeOK, CursorInLetters, UndoNotLonger, UndoMatchesWords,
      EnglishIsIdle, CommitEndsUndo, CandidatesNeedLetters, CandidatesRead,
      WordsHaveKeys, Idle

(* Steps that release the words and leave no chain behind.                 *)
LEMMA ReleaseKeeps ==
  ASSUME IndInv, pending' = <<>>, undo' = <<>>, outcome' = Commit(pending, <<>>),
         UNCHANGED <<modes, letters, cursor, candidates, pageIndex>>
  PROVE  IndInv'
<1>1. outcome' \in OutcomeType
  BY DEF IndInv, TypeOK, Commit, Outcome, OutcomeType, Word
<1> QED
  BY <1>1
  DEF IndInv, TypeOK, CursorInLetters, UndoNotLonger, UndoMatchesWords,
      EnglishIsIdle, CommitEndsUndo, CandidatesNeedLetters, CandidatesRead,
      WordsHaveKeys, Idle, modes

(* Choosing a candidate that leaves letters over.                          *)
LEMMA SelectPartKeeps ==
  ASSUME IndInv, Typing, NEW c \in Nat,
         ~ai => c # NoReading /\ letters # <<>>,
         SelectPart(c), UNCHANGED modes
  PROVE  IndInv'
<1>1. PICK n \in Covered(c) :
        /\ n < Len(letters)
        /\ pending' = Append(pending, Taken(n))
        /\ undo' = PushUndo(Taken(n))
        /\ letters' = Rest(n)
        /\ cursor' = Len(Rest(n))
        /\ pageIndex' = 0
        /\ candidates' \in Lookups(Rest(n))
        /\ outcome' = Consumed
  BY DEF SelectPart
<1>2. letters \in Word /\ pending \in Seq(Word)
  BY DEF IndInv, TypeOK
<1>3. /\ n \in 0..Len(letters)
      /\ Taken(n) \in Word /\ Len(Taken(n)) = n
      /\ Rest(n) \in Word /\ Len(Rest(n)) = Len(letters) - n
  BY <1>2, CoveredFacts, SplitFacts
<1>4. Taken(n) # <<>> \/ ai
  BY <1>2, <1>3, CoveredFacts
<1>5. TypeOK'
  <2>1. candidates' \in Seq(Nat)
    BY <1>1, <1>3, LookupsFacts
  <2>2. undo' \in Seq(Word)
    BY <1>1, <1>3, <1>4, PushFacts
  <2>3. outcome' \in OutcomeType
    BY <1>1, PlainOutcomes
  <2>4. cursor' \in Nat /\ pageIndex' \in Nat
    BY <1>1, <1>3 DEF Word
  <2>5. pending' \in Seq(Word) /\ letters' \in Word
    BY <1>1, <1>2, <1>3
  <2> QED
    BY <2>1, <2>2, <2>3, <2>4, <2>5 DEF TypeOK, IndInv, modes
<1>6. CursorInLetters'
  BY <1>1, <1>3 DEF CursorInLetters, Word
<1>mode. ai' = ai
  BY DEF modes
<1>7. UndoNotLonger' /\ UndoMatchesWords'
  BY <1>1, <1>3, <1>4, <1>mode, PushFacts DEF UndoNotLonger, UndoMatchesWords
<1>8. EnglishIsIdle' /\ CommitEndsUndo'
  BY <1>1 DEF EnglishIsIdle, CommitEndsUndo, Consumed, Outcome, Typing, modes
<1>9. CandidatesNeedLetters' /\ CandidatesRead'
  BY <1>1, <1>3, LookupsFacts DEF CandidatesNeedLetters, CandidatesRead
<1>10. WordsHaveKeys'
  BY <1>1, <1>2, <1>3, <1>4, <1>mode DEF WordsHaveKeys, IndInv
<1> QED
  BY <1>5, <1>6, <1>7, <1>8, <1>9, <1>10 DEF IndInv

(* Taking the last word back into the composition.                         *)
LEMMA BackspaceWordKeeps ==
  ASSUME IndInv, BackspaceWord
  PROVE  IndInv'
<1> DEFINE entry == IF undo = <<>> THEN <<>> ELSE Last(undo)
<1>1. /\ letters \in Word /\ pending \in Seq(Word) /\ undo \in Seq(Word)
      /\ pending # <<>> /\ Len(undo) <= Len(pending)
  BY DEF IndInv, TypeOK, UndoNotLonger, BackspaceWord
<1>2. /\ letters' = entry \o letters /\ cursor' = Len(entry \o letters)
      /\ candidates' \in Lookups(entry \o letters)
      /\ undo' = IF undo = <<>> THEN <<>> ELSE Front(undo)
      /\ pending' = Front(pending)
      /\ pageIndex' = 0 /\ outcome' = Consumed /\ UNCHANGED modes
  BY DEF BackspaceWord
<1>3. entry \in Word
  BY <1>1, FrontFacts DEF Word
<1> HIDE DEF entry
<1>4. entry \o letters \in Word /\ Len(entry \o letters) \in Nat
  BY <1>1, <1>3 DEF Word
<1>5. /\ pending' \in Seq(Word) /\ Len(pending') = Len(pending) - 1
      /\ \A i \in 1..(Len(pending) - 1) : pending'[i] = pending[i]
  BY <1>1, <1>2, FrontFacts
<1>6. /\ candidates' \in Seq(Nat)
      /\ \A i \in 1..Len(candidates') : candidates'[i] # NoReading
      /\ letters' = <<>> => candidates' = <<>>
  BY <1>2, <1>4, LookupsFacts
<1>7. chinese' /\ chinesePunct' \in BOOLEAN /\ ai' = ai /\ ai \in BOOLEAN
  BY <1>2 DEF BackspaceWord, Typing, IndInv, TypeOK, modes
<1>8. outcome' \in OutcomeType /\ outcome'.kind # "Commit"
  BY <1>2, PlainOutcomes
<1>9. /\ CursorInLetters' /\ EnglishIsIdle' /\ CommitEndsUndo'
      /\ CandidatesNeedLetters' /\ CandidatesRead'
  BY <1>2, <1>4, <1>6, <1>7, <1>8
  DEF CursorInLetters, EnglishIsIdle, CommitEndsUndo, CandidatesNeedLetters,
      CandidatesRead
<1>10. WordsHaveKeys'
  BY <1>5, <1>7, <1>1 DEF WordsHaveKeys, IndInv
<1>11. undo' \in Seq(Word) => TypeOK'
  BY <1>2, <1>4, <1>5, <1>6, <1>7, <1>8 DEF TypeOK
<1>12. CASE undo = <<>>
  <2>1. undo' = <<>>
    BY <1>2, <1>12
  <2>2. undo' \in Seq(Word) /\ UndoNotLonger' /\ UndoMatchesWords'
    BY <1>1, <1>5, <2>1 DEF UndoNotLonger, UndoMatchesWords
  <2> QED
    BY <1>9, <1>10, <1>11, <2>2 DEF IndInv
<1>13. CASE undo # <<>>
  <2>1. /\ undo' \in Seq(Word) /\ Len(undo') = Len(undo) - 1
        /\ \A i \in 1..(Len(undo) - 1) : undo'[i] = undo[i]
    BY <1>1, <1>2, <1>13, FrontFacts
  <2>2. UndoMatchesWords'
    <3> SUFFICES ASSUME ~ai, NEW i \in 1..Len(undo')
                 PROVE  undo'[i] = pending'[Len(pending') - Len(undo') + i]
      BY <1>7 DEF UndoMatchesWords
    <3>1. i \in 1..Len(undo) /\ undo'[i] = undo[i]
      BY <2>1, <1>1
    <3>2. undo[i] = pending[Len(pending) - Len(undo) + i]
      BY <3>1 DEF IndInv, UndoMatchesWords
    <3>3. /\ Len(pending') - Len(undo') + i = Len(pending) - Len(undo) + i
          /\ Len(pending) - Len(undo) + i \in 1..(Len(pending) - 1)
      BY <1>1, <1>5, <2>1
    <3> QED
      BY <3>1, <3>2, <3>3, <1>5
  <2>3. UndoNotLonger'
    BY <1>1, <1>5, <2>1 DEF UndoNotLonger
  <2> QED
    BY <1>9, <1>10, <1>11, <2>1, <2>2, <2>3 DEF IndInv
<1> QED
  BY <1>12, <1>13

(* A non-empty list has at least one page.                                 *)
LEMMA QuotientPositive ==
  ASSUME NEW p \in Nat \ {0}, NEW n \in Nat, n >= p
  PROVE  n \div p \in Nat \ {0}
OBVIOUS

LEMMA InitKeeps == Init => IndInv
<1> SUFFICES ASSUME Init PROVE IndInv
  OBVIOUS
<1>1. outcome \in OutcomeType /\ outcome.kind # "Commit"
  BY PlainOutcomes DEF Init
<1>2. chinesePunct \in BOOLEAN /\ ai \in BOOLEAN
  BY SwitchAssumption DEF Init
<1> QED
  BY <1>1, <1>2
  DEF Init, IndInv, TypeOK, CursorInLetters, UndoNotLonger, UndoMatchesWords,
      EnglishIsIdle, CommitEndsUndo, CandidatesNeedLetters, CandidatesRead,
      WordsHaveKeys, Word

(* A selection, whichever way it ends.                                     *)
LEMMA SelectKeeps ==
  ASSUME IndInv, Typing, NEW i \in 1..Len(candidates),
         Select(candidates[i]), UNCHANGED modes
  PROVE  IndInv'
<1>1. /\ candidates[i] \in Nat
      /\ ~ai => candidates[i] # NoReading /\ letters # <<>>
  BY DEF IndInv, TypeOK, CandidatesRead, CandidatesNeedLetters
<1>2. CASE SelectAll(candidates[i])
  <2>1. letters \in Word /\ pending \in Seq(Word)
    BY DEF IndInv, TypeOK
  <2>2. outcome' \in OutcomeType
    BY <1>2, <2>1 DEF SelectAll, Commit, OutcomeType, Outcome, Word
  <2>3. chinese' \in BOOLEAN /\ chinesePunct' \in BOOLEAN /\ ai' \in BOOLEAN
    BY DEF IndInv, TypeOK, modes
  <2> QED
    BY <1>2, <2>2, <2>3, ClearKeeps DEF SelectAll
<1>3. CASE SelectPart(candidates[i])
  BY <1>1, <1>3, SelectPartKeeps
<1> QED
  BY <1>2, <1>3 DEF Select

(* Every step keeps the inductive invariant.                               *)
LEMMA NextKeeps == IndInv /\ [Next]_vars => IndInv'
<1> SUFFICES ASSUME IndInv, [Next]_vars
             PROVE  IndInv'
  OBVIOUS
<1>1. /\ letters \in Word /\ cursor \in Nat /\ cursor <= Len(letters)
      /\ candidates \in Seq(Nat) /\ pageIndex \in Nat
      /\ pending \in Seq(Word) /\ undo \in Seq(Word)
      /\ chinese \in BOOLEAN /\ chinesePunct \in BOOLEAN /\ ai \in BOOLEAN
      /\ outcome \in OutcomeType
      /\ Len(letters) \in Nat /\ Len(candidates) \in Nat
  BY DEF IndInv, TypeOK, CursorInLetters, Word
<1>2. Commit(pending, letters) \in OutcomeType
  BY <1>1 DEF Commit, Outcome, OutcomeType
<1>3. Ignored \in OutcomeType /\ Consumed \in OutcomeType /\ Panic \in OutcomeType
  BY PlainOutcomes
<1>4. CASE ShiftToggle
  BY <1>4, <1>1, <1>3
  DEF ShiftToggle, IndInv, TypeOK, CursorInLetters, UndoNotLonger,
      UndoMatchesWords, EnglishIsIdle, CommitEndsUndo, CandidatesNeedLetters,
      CandidatesRead, WordsHaveKeys, Idle, Consumed, Outcome
<1>5. CASE ShiftFlush
  BY <1>5, <1>1, <1>2, ClearKeeps DEF ShiftFlush
<1>6. CASE PassThrough
  BY <1>6, <1>1, RestKeeps DEF PassThrough, modes
<1>7. CASE BackspaceWord
  BY <1>7, BackspaceWordKeeps
<1>8. ASSUME NEW i \in 1..Len(letters), Erase(i)
      PROVE  /\ letters' \in Word /\ Len(letters') = Len(letters) - 1
             /\ candidates' \in Lookups(letters') /\ pageIndex' = 0
  BY <1>8, <1>1, RemoveFacts DEF Erase
<1>9. CASE BackspaceLetter
  <2>1. CASE cursor > 0 /\ Erase(cursor) /\ cursor' = cursor - 1
    BY <2>1, <1>9, <1>1, <1>8, LettersKeep DEF BackspaceLetter
  <2>2. CASE cursor = 0 /\ candidates' \in Lookups(letters) /\ pageIndex' = 0
             /\ UNCHANGED <<letters, cursor>>
    BY <2>2, <1>9, <1>1, LettersKeep DEF BackspaceLetter
  <2> QED
    BY <1>9, <2>1, <2>2 DEF BackspaceLetter
<1>10. CASE Esc
  BY <1>10, <1>1, <1>3, ClearKeeps DEF Esc, modes
<1>11. CASE PrevPage
  BY <1>11, <1>1, RestKeeps DEF PrevPage, TurnPage, modes
<1>12. CASE NextPage
  <2>1. Len(candidates) > 0 /\ PageSize \in Nat \ {0}
    BY <1>12, <1>1, PageAssumption DEF NextPage, TurnPage
  <2>2. TotalPages \in Nat \ {0}
    <3>1. /\ Len(candidates) + PageSize - 1 \in Nat
          /\ Len(candidates) + PageSize - 1 >= PageSize
      BY <2>1, <1>1
    <3> QED
      BY <2>1, <3>1, QuotientPositive DEF TotalPages
  <2>3. pageIndex' \in Nat
    BY <1>12, <2>2, <1>1 DEF NextPage, TurnPage
  <2> QED
    BY <1>12, <2>3, <1>1, RestKeeps DEF NextPage, TurnPage, modes
<1>13. CASE CtrlB
  BY <1>13, <1>1, RestKeeps DEF CtrlB, MoveCursor, modes
<1>14. CASE CtrlF
  BY <1>14, <1>1, RestKeeps DEF CtrlF, MoveCursor, modes
<1>15. CASE CtrlH
  <2>1. CASE cursor > 0 /\ Erase(cursor) /\ cursor' = cursor - 1
    BY <2>1, <1>15, <1>1, <1>8, LettersKeep DEF CtrlH
  <2>2. CASE cursor = 0 /\ UNCHANGED <<letters, cursor, candidates, pageIndex>>
    BY <2>2, <1>15, <1>1, RestKeeps DEF CtrlH, modes
  <2> QED
    BY <1>15, <2>1, <2>2 DEF CtrlH
<1>16. CASE DeleteForward
  <2>1. CASE cursor < Len(letters) /\ Erase(cursor + 1) /\ UNCHANGED cursor
    BY <2>1, <1>16, <1>1, <1>8, LettersKeep DEF DeleteForward
  <2>2. CASE cursor = Len(letters) /\ UNCHANGED <<letters, cursor, candidates, pageIndex>>
    BY <2>2, <1>16, <1>1, RestKeeps DEF DeleteForward, modes
  <2> QED
    BY <1>16, <2>1, <2>2 DEF DeleteForward
<1>17. Highlight \in Nat
  BY <1>1, PageAssumption DEF Highlight
<1>18. CASE SpaceSelect
  <2>1. Highlight + 1 \in 1..Len(candidates)
    BY <1>18, <1>1, <1>17 DEF SpaceSelect
  <2> QED
    BY <1>18, <2>1, SelectKeeps DEF SpaceSelect
<1>19. CASE IndexPanic
  BY <1>19, <1>1, RestKeeps DEF IndexPanic, modes
<1>20. CASE Restart
  BY <1>20, <1>3, SwitchAssumption, ClearKeeps DEF Restart
<1>21. CASE SpaceRelease
  BY <1>21, <1>1, <1>2, ClearKeeps DEF SpaceRelease, modes
<1>22. CASE CtrlDot
  BY <1>22, <1>1, RestKeeps DEF CtrlDot
<1>23. CASE EnglishMark
  <2>1. outcome' \in OutcomeType
    BY <1>23 DEF EnglishMark, Commit, Outcome, OutcomeType, Word
  <2> QED
    BY <1>23, <1>1, <2>1
    DEF EnglishMark, IndInv, TypeOK, CursorInLetters, UndoNotLonger,
        UndoMatchesWords, EnglishIsIdle, CommitEndsUndo,
        CandidatesNeedLetters, CandidatesRead, WordsHaveKeys, Idle, modes
<1>24. CASE MarkRelease
  BY <1>24, ReleaseKeeps DEF MarkRelease
<1>25. CASE MarkTop
  <2>1. Highlight + 1 \in 1..Len(candidates)
    BY <1>25, <1>1, <1>17 DEF MarkTop
  <2>2. PICK n \in Covered(candidates[Highlight + 1]) :
          outcome' = Commit(Append(pending, Taken(n)), Rest(n))
    BY <1>25 DEF MarkTop
  <2>3. n \in 0..Len(letters)
    BY <2>1, <2>2, <1>1, CoveredFacts
  <2>4. Taken(n) \in Word /\ Rest(n) \in Word
    BY <2>3, <1>1, SplitFacts
  <2>5. outcome' \in OutcomeType
    BY <2>2, <2>4, <1>1 DEF Commit, Outcome, OutcomeType
  <2> QED
    BY <1>25, <2>5, <1>1, ClearKeeps DEF MarkTop, modes
<1>26. CASE MarkRaw
  BY <1>26, <1>1, <1>2, ClearKeeps DEF MarkRaw, modes
<1>27. ASSUME NEW k \in Keys, Letter(k)
       PROVE  IndInv'
  <2>1. /\ letters' \in Word /\ Len(letters') = Len(letters) + 1
    BY <1>27, <1>1, InsertFacts DEF Letter
  <2> QED
    BY <1>27, <2>1, <1>1, LettersKeep DEF Letter
<1>28. ASSUME NEW d \in 0..(DigitKeys - 1), Digit(d)
       PROVE  IndInv'
  <2>1. d \in Nat /\ Highlight + d + 1 \in 1..Len(candidates)
    BY <1>28, <1>1, <1>17, PageAssumption DEF Digit
  <2> QED
    BY <1>28, <2>1, SelectKeeps DEF Digit
<1>29. CASE EnterRaw
  BY <1>29, <1>1, <1>2, ClearKeeps DEF EnterRaw, modes
<1>30. CASE EnterRelease
  BY <1>30, ReleaseKeeps DEF EnterRelease
<1>31. CASE ContextRefresh
  <2>1. /\ candidates' \in Seq(Nat)
        /\ \A i \in 1..Len(candidates') : candidates'[i] # NoReading
        /\ letters = <<>> => candidates' = <<>>
    BY <1>31, <1>1, LookupsFacts DEF ContextRefresh
  <2> QED
    BY <1>31, <2>1, <1>1
    DEF ContextRefresh, IndInv, TypeOK, CursorInLetters, UndoNotLonger,
        UndoMatchesWords, EnglishIsIdle, CommitEndsUndo,
        CandidatesNeedLetters, CandidatesRead, WordsHaveKeys, Idle, modes
<1>32. CASE ClearUndo
  BY <1>32, <1>1
  DEF ClearUndo, IndInv, TypeOK, CursorInLetters, UndoNotLonger,
      UndoMatchesWords, EnglishIsIdle, CommitEndsUndo, CandidatesNeedLetters,
      CandidatesRead, WordsHaveKeys, Idle, modes
<1>33. ASSUME NEW c \in 0..MaxKeys, MergeAi(c)
       PROVE  IndInv'
  <2>1. candidates' \in Seq(Nat)
    BY <1>33, <1>1, BoundAssumption DEF MergeAi
  <2> QED
    BY <1>33, <2>1, <1>1
    DEF MergeAi, IndInv, TypeOK, CursorInLetters, UndoNotLonger,
        UndoMatchesWords, EnglishIsIdle, CommitEndsUndo,
        CandidatesNeedLetters, CandidatesRead, WordsHaveKeys, Idle, modes
<1>34. CASE UNCHANGED vars
  BY <1>34
  DEF vars, IndInv, TypeOK, CursorInLetters, UndoNotLonger,
      UndoMatchesWords, EnglishIsIdle, CommitEndsUndo, CandidatesNeedLetters,
      CandidatesRead, WordsHaveKeys, Idle
<1> QED
  BY <1>4, <1>5, <1>6, <1>7, <1>9, <1>10, <1>11, <1>12, <1>13, <1>14, <1>15,
     <1>16, <1>18, <1>19, <1>20, <1>21, <1>22, <1>23, <1>24, <1>25, <1>26,
     <1>27, <1>28, <1>29, <1>30, <1>31, <1>32, <1>33, <1>34 DEF Next

(* Every reachable state satisfies the inductive invariant.                *)
LEMMA Invariance == Spec => []IndInv
<1>1. Init => IndInv
  BY InitKeeps
<1>2. IndInv /\ [Next]_vars => IndInv'
  BY NextKeeps
<1> QED
  BY <1>1, <1>2, PTL DEF Spec

----------------------------------------------------------------------------
(* The engine's fields keep their types: letters, words, chain and the     *)
(* text of a Commit are made of typed keys, whatever keys come in.         *)
THEOREM TypeCorrect == Spec => []TypeOK
<1>1. IndInv => TypeOK
  BY DEF IndInv
<1> QED
  BY <1>1, Invariance, PTL

(* The cursor stays inside the letters, so that no insert, remove or caret *)
(* computation of Engine::key leaves the string.                           *)
THEOREM CursorSafe == Spec => []CursorInLetters
<1>1. IndInv => CursorInLetters
  BY DEF IndInv
<1> QED
  BY <1>1, Invariance, PTL

(* Without AI answers, every entry of the undo chain belongs to the word   *)
(* it is popped with, however entries were dropped by the cap of           *)
(* stage_candidate, an English mark or clear_undo.                         *)
THEOREM UndoInStep == Spec => []UndoMatchesWords
<1>1. IndInv => UndoMatchesWords
  BY DEF IndInv
<1> QED
  BY <1>1, Invariance, PTL

(* English mode is entered and kept only with an empty composition, AI     *)
(* answers included.                                                       *)
THEOREM EnglishModeIdle == Spec => []EnglishIsIdle
<1>1. IndInv => EnglishIsIdle
  BY DEF IndInv
<1> QED
  BY <1>1, Invariance, PTL

(* No Commit of Engine::key leaves an undo entry behind.                   *)
THEOREM CommitFinal == Spec => []CommitEndsUndo
<1>1. IndInv => CommitEndsUndo
  BY DEF IndInv
<1> QED
  BY <1>1, Invariance, PTL

----------------------------------------------------------------------------
(* Induction over the natural numbers, for a set.                          *)
LEMMA NatSet ==
  ASSUME NEW T \in SUBSET Nat, 0 \in T, \A n \in T : n + 1 \in T
  PROVE  T = Nat
<1> DEFINE Bad == Nat \ T
           R == {ss \in Nat \X Nat : ss[1] < ss[2]}
<1> SUFFICES ASSUME Bad # {} PROVE FALSE
  OBVIOUS
<1>1. IsWellFoundedOn(R, Nat)
  BY NatLessThanWellFounded DEF OpToRel
<1> HIDE DEF R
<1>2. PICK x \in Bad : \A y \in Bad : ~(<<y, x>> \in R)
  BY <1>1, WFMin
<1> USE DEF R
<1>3. x \in Nat \ {0} /\ x \notin T
  BY <1>2
<1>4. x - 1 \in Nat /\ x - 1 < x /\ (x - 1) + 1 = x
  BY <1>3
<1>5. <<x - 1, x>> \in R
  BY <1>3, <1>4
<1>6. x - 1 \in T
  BY <1>2, <1>4, <1>5
<1> QED
  BY <1>3, <1>4, <1>6

(* The recursion of FlattenSeq, up to its n-th word.                       *)
Flattens(g, s, n) == g = [i \in 1..n |-> IF i = 1 THEN s[i] ELSE g[i - 1] \o s[i]]

(* It has a solution.                                                      *)
LEMMA FlattenExists ==
  ASSUME NEW s, NEW n \in Nat
  PROVE  \E g : Flattens(g, s, n)
<1> DEFINE T == {m \in Nat : \E g : Flattens(g, s, m)}
<1>1. 0 \in T
  <2>1. Flattens(<<>>, s, 0)
    BY DEF Flattens
  <2> QED
    BY <2>1
<1>2. ASSUME NEW m \in T PROVE m + 1 \in T
  <2>1. m \in Nat
    OBVIOUS
  <2>2. PICK g : Flattens(g, s, m)
    OBVIOUS
  <2> DEFINE last == IF m + 1 = 1 THEN s[m + 1] ELSE g[m] \o s[m + 1]
             h == [i \in 1..(m + 1) |-> IF i = m + 1 THEN last ELSE g[i]]
             v(i) == IF i = 1 THEN s[i] ELSE h[i - 1] \o s[i]
  <2>3. \A i \in 1..m : i # m + 1 /\ i \in 1..(m + 1) /\ (i # 1 => i - 1 \in 1..m /\ i - 1 # m + 1)
    BY <2>1
  <2>4. \A i \in 1..m : h[i] = g[i]
    BY <2>3
  <2>5. ASSUME NEW i \in 1..(m + 1)
        PROVE  h[i] = v(i)
    <3>1. CASE i = m + 1
      <4>1. h[i] = last
        BY <3>1
      <4>2. m # 0 => m \in 1..m /\ m + 1 # 1 /\ (m + 1) - 1 = m
        BY <2>1
      <4>3. CASE m = 0
        BY <3>1, <4>1, <4>3
      <4>4. CASE m # 0
        <5>1. h[m] = g[m]
          BY <2>4, <4>2, <4>4
        <5> HIDE DEF h
        <5> QED
          BY <3>1, <4>1, <4>2, <4>4, <5>1
      <4> QED
        BY <4>3, <4>4
    <3>2. CASE i # m + 1
      <4>1. i \in 1..m
        BY <2>1, <3>2
      <4>2. h[i] = g[i] /\ (i # 1 => h[i - 1] = g[i - 1])
        BY <2>3, <2>4, <4>1
      <4>3. g[i] = IF i = 1 THEN s[i] ELSE g[i - 1] \o s[i]
        BY <2>2, <4>1 DEF Flattens
      <4> HIDE DEF h
      <4> QED
        BY <4>2, <4>3
    <3> QED
      BY <3>1, <3>2
  <2>6. h = [i \in 1..(m + 1) |-> v(i)]
    <3>1. h = [i \in 1..(m + 1) |-> h[i]]
      OBVIOUS
    <3> HIDE DEF h, v
    <3> QED
      BY <2>5, <3>1
  <2>7. Flattens(h, s, m + 1)
    BY <2>6 DEF Flattens
  <2> QED
    BY <2>1, <2>7
<1> HIDE DEF T
<1>3. T = Nat
  <2>1. T \in SUBSET Nat
    BY DEF T
  <2> QED
    BY <1>1, <1>2, <2>1, NatSet
<1> QED
  BY <1>3 DEF T

(* Two solutions agree on the words that are the same.                     *)
LEMMA FlattenAgree ==
  ASSUME NEW S, NEW s \in Seq(Seq(S)), NEW t, NEW n \in Nat, n = Len(s), NEW m \in Nat, n <= m,
         \A i \in 1..n : s[i] = t[i],
         NEW g, Flattens(g, s, n), NEW h, Flattens(h, t, m)
  PROVE  \A k \in 1..n : g[k] = h[k] /\ g[k] \in Seq(S)
<1> DEFINE T == {k \in Nat : k \in 1..n => g[k] = h[k] /\ g[k] \in Seq(S)}
<1>1. 0 \in T
  OBVIOUS
<1>2. ASSUME NEW k \in T PROVE k + 1 \in T
  <2>1. k \in Nat
    OBVIOUS
  <2> SUFFICES ASSUME k + 1 \in 1..n
               PROVE  g[k + 1] = h[k + 1] /\ g[k + 1] \in Seq(S)
    BY <2>1
  <2>2. k + 1 \in 1..m /\ s[k + 1] = t[k + 1] /\ s[k + 1] \in Seq(S) /\ (k + 1) - 1 = k
    BY <2>1
  <2>3. g[k + 1] = IF k + 1 = 1 THEN s[k + 1] ELSE g[k] \o s[k + 1]
    BY <2>2 DEF Flattens
  <2>4. h[k + 1] = IF k + 1 = 1 THEN t[k + 1] ELSE h[k] \o t[k + 1]
    BY <2>2 DEF Flattens
  <2>5. CASE k = 0
    BY <2>2, <2>3, <2>4, <2>5
  <2>6. CASE k # 0
    <3>1. k \in 1..n /\ k + 1 # 1
      BY <2>1, <2>6
    <3>2. g[k] = h[k] /\ g[k] \in Seq(S)
      BY <3>1
    <3>3. g[k + 1] = g[k] \o s[k + 1] /\ h[k + 1] = g[k] \o s[k + 1]
      BY <2>2, <2>3, <2>4, <3>1, <3>2
    <3>4. g[k] \o s[k + 1] \in Seq(S)
      BY <2>2, <3>2, ConcatProperties
    <3> QED
      BY <3>3, <3>4
  <2> QED
    BY <2>5, <2>6
<1> HIDE DEF T
<1>3. T = Nat
  <2>1. T \in SUBSET Nat
    BY DEF T
  <2> QED
    BY <1>1, <1>2, <2>1, NatSet
<1>4. \A k \in 1..n : k \in T
  BY <1>3
<1> QED
  BY <1>4 DEF T

(* FlattenSeq joins the words: word by word, from the left.                *)
LEMMA FlattenFacts ==
  ASSUME NEW S, NEW s \in Seq(Seq(S))
  PROVE  /\ FlattenSeq(s) \in Seq(S)
         /\ s = <<>> => FlattenSeq(s) = <<>>
         /\ \A w \in Seq(S) : FlattenSeq(Append(s, w)) = FlattenSeq(s) \o w
<1> DEFINE Sol(u, n) == CHOOSE g : Flattens(g, u, n)
<1>1. PICK n \in Nat : n = Len(s)
  OBVIOUS
<1>2. \A u, k : Len(u) = k /\ k \in Nat /\ k # 0 => FlattenSeq(u) = Sol(u, k)[k]
  BY DEF FlattenSeq, Flattens
<1>3. \A u : \A k \in Nat : Flattens(Sol(u, k), u, k)
  BY FlattenExists
<1>4. (n = 0 => s = <<>>) /\ (s = <<>> => FlattenSeq(s) = <<>>)
  BY <1>1, EmptySeq DEF FlattenSeq
<1> HIDE DEF Sol
<1>5. \A k \in 1..n : Sol(s, n)[k] \in Seq(S)
  BY <1>1, <1>3, FlattenAgree
<1>6. FlattenSeq(s) \in Seq(S)
  <2>1. CASE n = 0
    BY <1>1, <1>4, <2>1, EmptySeq
  <2>2. CASE n # 0
    BY <1>1, <1>2, <1>5, <2>2
  <2> QED
    BY <2>1, <2>2
<1>7. ASSUME NEW w \in Seq(S)
      PROVE  FlattenSeq(Append(s, w)) = FlattenSeq(s) \o w
  <2>1. PICK t : t = Append(s, w)
    OBVIOUS
  <2>2. /\ t \in Seq(Seq(S)) /\ Len(t) = n + 1 /\ t[n + 1] = w
        /\ \A i \in 1..n : s[i] = t[i]
    BY <1>1, <2>1
  <2>3. FlattenSeq(t) = Sol(t, n + 1)[n + 1]
    BY <1>2, <2>2
  <2>4. Sol(t, n + 1)[n + 1] =
          IF n + 1 = 1 THEN t[n + 1] ELSE Sol(t, n + 1)[n] \o t[n + 1]
    <3> DEFINE h == Sol(t, n + 1)
    <3>1. Flattens(h, t, n + 1) /\ n + 1 \in 1..(n + 1) /\ (n + 1) - 1 = n
      BY <1>3
    <3> HIDE DEF h
    <3>2. h[n + 1] = IF n + 1 = 1 THEN t[n + 1] ELSE h[(n + 1) - 1] \o t[n + 1]
      BY <3>1 DEF Flattens
    <3> QED
      BY <3>1, <3>2 DEF h
  <2>5. CASE n = 0
    <3>1. FlattenSeq(s) = <<>>
      BY <1>1, <1>4, <2>5
    <3>2. FlattenSeq(t) = w
      BY <2>2, <2>3, <2>4, <2>5
    <3> QED
      BY <2>1, <3>1, <3>2, ConcatEmptySeq
  <2>6. CASE n # 0
    <3>1. n \in 1..n /\ n <= n + 1 /\ n + 1 # 1 /\ n + 1 \in Nat
      BY <2>6
    <3>2. Sol(s, n)[n] = Sol(t, n + 1)[n]
      <4> DEFINE g == Sol(s, n)
                 h == Sol(t, n + 1)
      <4>1. Flattens(g, s, n) /\ Flattens(h, t, n + 1)
        BY <1>3, <3>1
      <4> HIDE DEF g, h
      <4>2. \A k \in 1..n : g[k] = h[k] /\ g[k] \in Seq(S)
        BY <1>1, <2>2, <3>1, <4>1, FlattenAgree
      <4> QED
        BY <3>1, <4>2 DEF g, h
    <3>3. FlattenSeq(s) = Sol(s, n)[n]
      BY <1>1, <1>2, <2>6
    <3> QED
      BY <2>1, <2>2, <2>3, <2>4, <3>1, <3>2, <3>3
  <2> QED
    BY <2>5, <2>6
<1> QED
  BY <1>4, <1>6, <1>7

----------------------------------------------------------------------------
(* The keys of a string with one more, or one less.                        *)
LEMMA InsertElements ==
  ASSUME NEW s \in Word, NEW k \in Keys, NEW i \in 1..(Len(s) + 1)
  PROVE  \A j \in 1..(Len(s) + 1) :
           InsertAt(s, i, k)[j] = IF j < i THEN s[j] ELSE IF j = i THEN k ELSE s[j - 1]
<1> DEFINE l == SubSeq(s, 1, i - 1)
           r == SubSeq(s, i, Len(s))
<1>1. s \in Seq(Keys) /\ Len(s) \in Nat /\ i \in Int
  BY DEF Word
<1>2. PICK n \in Nat : n = Len(s)
  BY <1>1
<1>3. l \in Seq(Keys) /\ Len(l) = i - 1 /\ \A j \in 1..(i - 1) : l[j] = s[j]
  BY <1>1
<1>4. r \in Seq(Keys) /\ Len(r) = n - i + 1 /\ \A j \in 1..(n - i + 1) : r[j] = s[i + j - 1]
  BY <1>1, <1>2
<1>5. <<k>> \in Seq(Keys) /\ Len(<<k>>) = 1 /\ <<k>>[1] = k
  OBVIOUS
<1>6. InsertAt(s, i, k) = (l \o <<k>>) \o r
  BY DEF InsertAt
<1> HIDE DEF l, r
<1>7. /\ l \o <<k>> \in Seq(Keys) /\ Len(l \o <<k>>) = i
      /\ \A j \in 1..(i - 1) : (l \o <<k>>)[j] = s[j]
      /\ (l \o <<k>>)[i] = k
  BY <1>1, <1>3, <1>5
<1> DEFINE m == l \o <<k>>
<1> HIDE DEF m
<1>8. ASSUME NEW j \in 1..(n + 1)
      PROVE  (m \o r)[j] = IF j < i THEN s[j] ELSE IF j = i THEN k ELSE s[j - 1]
  <2>1. m \in Seq(Keys) /\ Len(m) = i
    BY <1>7 DEF m
  <2>2. (m \o r)[j] = IF j <= i THEN m[j] ELSE r[j - i]
    BY <1>1, <1>2, <1>4, <2>1, ConcatProperties
  <2>3. CASE j < i
    BY <1>1, <1>7, <2>2, <2>3 DEF m
  <2>4. CASE j = i
    BY <1>1, <1>7, <2>2, <2>4 DEF m
  <2>5. CASE j > i
    <3>1. j - i \in 1..(n - i + 1) /\ i + (j - i) - 1 = j - 1
      BY <1>1, <1>2, <2>5
    <3>2. r[j - i] = s[i + (j - i) - 1]
      BY <1>4, <3>1
    <3> QED
      BY <1>1, <2>2, <2>5, <3>1, <3>2
  <2>6. j < i \/ j = i \/ j > i
    BY <1>1
  <2> QED
    BY <1>1, <2>3, <2>4, <2>5, <2>6
<1> QED
  BY <1>2, <1>6, <1>8 DEF m

(* One key less: the keys before it stay, those after it move up.          *)
LEMMA RemoveElements ==
  ASSUME NEW s \in Word, NEW i \in 1..Len(s)
  PROVE  \A j \in 1..(Len(s) - 1) :
           RemoveAt(s, i)[j] = IF j < i THEN s[j] ELSE s[j + 1]
<1> DEFINE l == SubSeq(s, 1, i - 1)
           r == SubSeq(s, i + 1, Len(s))
<1>1. s \in Seq(Keys) /\ Len(s) \in Nat /\ i \in Int
  BY DEF Word
<1>2. PICK n \in Nat : n = Len(s)
  BY <1>1
<1>3. l \in Seq(Keys) /\ Len(l) = i - 1 /\ \A j \in 1..(i - 1) : l[j] = s[j]
  BY <1>1
<1>4. r \in Seq(Keys) /\ Len(r) = n - i /\ \A j \in 1..(n - i) : r[j] = s[i + j]
  BY <1>1, <1>2
<1>5. RemoveAt(s, i) = l \o r
  BY DEF RemoveAt
<1> HIDE DEF l, r
<1>6. ASSUME NEW j \in 1..(n - 1)
      PROVE  (l \o r)[j] = IF j < i THEN s[j] ELSE s[j + 1]
  <2>1. (l \o r)[j] = IF j <= i - 1 THEN l[j] ELSE r[j - (i - 1)]
    BY <1>1, <1>2, <1>3, <1>4, ConcatProperties
  <2>2. CASE j < i
    BY <1>1, <1>3, <2>1, <2>2
  <2>3. CASE ~(j < i)
    <3>1. j - (i - 1) \in 1..(n - i) /\ i + (j - (i - 1)) = j + 1
      BY <1>1, <1>2, <2>3
    <3> QED
      BY <1>1, <1>4, <2>1, <2>3, <3>1
  <2> QED
    BY <2>2, <2>3
<1> QED
  BY <1>2, <1>5, <1>6

(* A key inserted into, or erased from, the letters is one inserted into,  *)
(* or erased from, the line.                                               *)
LEMMA InsertBehind ==
  ASSUME NEW w \in Word, NEW s \in Word, NEW k \in Keys, NEW i \in 1..(Len(s) + 1)
  PROVE  /\ Len(w) + i \in 1..(Len(w \o s) + 1)
         /\ w \o InsertAt(s, i, k) = InsertAt(w \o s, Len(w) + i, k)
<1>1. PICK m \in Nat, n \in Nat : m = Len(w) /\ n = Len(s)
  BY DEF Word
<1> DEFINE ws == w \o s
           x == InsertAt(s, i, k)
           y == InsertAt(ws, m + i, k)
<1>2. /\ ws \in Word /\ Len(ws) = m + n
      /\ \A j \in 1..(m + n) : ws[j] = IF j <= m THEN w[j] ELSE s[j - m]
  BY <1>1, ConcatProperties DEF Word
<1>3. m + i \in 1..(m + n + 1) /\ i \in Int
  BY <1>1
<1>4. /\ x \in Word /\ Len(x) = n + 1
      /\ \A j \in 1..(n + 1) : x[j] = IF j < i THEN s[j] ELSE IF j = i THEN k ELSE s[j - 1]
  BY <1>1, InsertFacts, InsertElements
<1> HIDE DEF ws
<1>5. /\ y \in Word /\ Len(y) = m + n + 1
      /\ \A j \in 1..(m + n + 1) :
            y[j] = IF j < m + i THEN ws[j] ELSE IF j = m + i THEN k ELSE ws[j - 1]
  <2>1. m + i \in 1..(Len(ws) + 1) /\ Len(ws) + 1 = m + n + 1
    BY <1>1, <1>2, <1>3
  <2> QED
    <3> DEFINE p == m + i
    <3>1. p \in 1..(Len(ws) + 1)
      BY <2>1
    <3> HIDE DEF p
    <3>2. InsertAt(ws, p, k) \in Word /\ Len(InsertAt(ws, p, k)) = Len(ws) + 1
      BY <1>2, <3>1, InsertFacts
    <3>3. \A j \in 1..(Len(ws) + 1) :
            InsertAt(ws, p, k)[j] = IF j < p THEN ws[j] ELSE IF j = p THEN k ELSE ws[j - 1]
      <4>1. \A u \in Word : \A q \in 1..(Len(u) + 1) : \A j \in 1..(Len(u) + 1) :
              InsertAt(u, q, k)[j] = IF j < q THEN u[j] ELSE IF j = q THEN k ELSE u[j - 1]
        BY InsertElements
      <4> QED
        BY <1>2, <3>1, <4>1
    <3>4. y = InsertAt(ws, p, k)
      BY DEF p
    <3>5. p = m + i
      BY DEF p
    <3> HIDE DEF y
    <3> QED
      BY <2>1, <3>2, <3>3, <3>4, <3>5
<1> HIDE DEF x, y
<1>6. /\ w \o x \in Word /\ Len(w \o x) = m + n + 1
      /\ \A j \in 1..(m + n + 1) : (w \o x)[j] = IF j <= m THEN w[j] ELSE x[j - m]
  <2>1. Len(w) + Len(x) = m + n + 1
    BY <1>1, <1>4
  <2>2. w \in Seq(Keys) /\ x \in Seq(Keys)
    BY <1>4 DEF Word
  <2> QED
    BY <1>1, <2>1, <2>2, ConcatProperties DEF Word
<1>7. ASSUME NEW j \in 1..(m + n + 1)
      PROVE  (w \o x)[j] = y[j]
  <2>1. CASE j <= m
    BY <1>1, <1>2, <1>3, <1>5, <1>6, <2>1
  <2>2. CASE ~(j <= m)
    <3>1. j - m \in 1..(n + 1) /\ j \in Int
      BY <1>1, <2>2
    <3>2. (w \o x)[j] = IF j - m < i THEN s[j - m] ELSE IF j - m = i THEN k ELSE s[j - m - 1]
      BY <1>4, <1>6, <2>2, <3>1
    <3>3. CASE j - m < i
      BY <1>1, <1>2, <1>3, <1>5, <2>2, <3>1, <3>2, <3>3
    <3>4. CASE j - m = i
      BY <1>1, <1>3, <1>5, <3>1, <3>2, <3>4
    <3>5. CASE j - m > i
      <4>1. j - 1 \in 1..(m + n) /\ ~(j - 1 <= m) /\ (j - 1) - m = j - m - 1
        BY <1>1, <1>3, <3>1, <3>5
      <4>2. y[j] = ws[j - 1]
        BY <1>1, <1>3, <1>5, <3>1, <3>5
      <4>3. ws[j - 1] = s[(j - 1) - m]
        BY <1>2, <4>1
      <4> QED
        BY <1>1, <1>3, <3>1, <3>2, <3>5, <4>1, <4>2, <4>3
    <3>6. j - m < i \/ j - m = i \/ j - m > i
      BY <1>1, <1>3, <3>1
    <3> QED
      BY <3>3, <3>4, <3>5, <3>6
  <2> QED
    BY <2>1, <2>2
<1>8. w \o x = y
  BY <1>5, <1>6, <1>7, SeqEqual DEF Word
<1> QED
  BY <1>1, <1>2, <1>3, <1>8 DEF x, y, ws

(* The same for an erased key.                                             *)
LEMMA RemoveBehind ==
  ASSUME NEW w \in Word, NEW s \in Word, NEW i \in 1..Len(s)
  PROVE  /\ Len(w) + i \in 1..Len(w \o s)
         /\ w \o RemoveAt(s, i) = RemoveAt(w \o s, Len(w) + i)
<1>1. PICK m \in Nat, n \in Nat : m = Len(w) /\ n = Len(s)
  BY DEF Word
<1> DEFINE ws == w \o s
           x == RemoveAt(s, i)
           y == RemoveAt(ws, m + i)
<1>2. /\ ws \in Word /\ Len(ws) = m + n
      /\ \A j \in 1..(m + n) : ws[j] = IF j <= m THEN w[j] ELSE s[j - m]
  BY <1>1, ConcatProperties DEF Word
<1>3. m + i \in 1..(m + n) /\ i \in Int
  BY <1>1
<1>4. /\ x \in Word /\ Len(x) = n - 1
      /\ \A j \in 1..(n - 1) : x[j] = IF j < i THEN s[j] ELSE s[j + 1]
  BY <1>1, RemoveFacts, RemoveElements
<1> HIDE DEF ws
<1>5. /\ y \in Word /\ Len(y) = m + n - 1
      /\ \A j \in 1..(m + n - 1) : y[j] = IF j < m + i THEN ws[j] ELSE ws[j + 1]
  <2>1. m + i \in 1..Len(ws) /\ Len(ws) - 1 = m + n - 1
    BY <1>1, <1>2, <1>3
  <2> QED
    BY <1>2, <2>1, RemoveFacts, RemoveElements
<1> HIDE DEF x, y
<1>6. /\ w \o x \in Word /\ Len(w \o x) = m + n - 1
      /\ \A j \in 1..(m + n - 1) : (w \o x)[j] = IF j <= m THEN w[j] ELSE x[j - m]
  <2>1. Len(w) + Len(x) = m + n - 1
    BY <1>1, <1>4
  <2>2. w \in Seq(Keys) /\ x \in Seq(Keys)
    BY <1>4 DEF Word
  <2> QED
    BY <1>1, <2>1, <2>2, ConcatProperties DEF Word
<1>7. ASSUME NEW j \in 1..(m + n - 1)
      PROVE  (w \o x)[j] = y[j]
  <2>1. CASE j <= m
    BY <1>1, <1>2, <1>3, <1>5, <1>6, <2>1
  <2>2. CASE ~(j <= m)
    <3>1. j - m \in 1..(n - 1) /\ j \in Int
      BY <1>1, <2>2
    <3>2. (w \o x)[j] = IF j - m < i THEN s[j - m] ELSE s[j - m + 1]
      BY <1>4, <1>6, <2>2, <3>1
    <3>3. CASE j - m < i
      BY <1>1, <1>2, <1>3, <1>5, <2>2, <3>1, <3>2, <3>3
    <3>4. CASE ~(j - m < i)
      <4>1. j + 1 \in 1..(m + n) /\ ~(j + 1 <= m) /\ (j + 1) - m = j - m + 1
        BY <1>1, <1>3, <2>2, <3>1, <3>4
      <4>2. y[j] = ws[j + 1]
        BY <1>1, <1>3, <1>5, <3>1, <3>4
      <4>3. ws[j + 1] = s[(j + 1) - m]
        BY <1>2, <4>1
      <4> QED
        BY <3>2, <3>4, <4>1, <4>2, <4>3
    <3> QED
      BY <3>3, <3>4
  <2> QED
    BY <2>1, <2>2
<1>8. w \o x = y
  BY <1>5, <1>6, <1>7, SeqEqual DEF Word
<1> QED
  BY <1>1, <1>2, <1>3, <1>8 DEF x, y, ws

----------------------------------------------------------------------------
(* The line of keys.                                                       *)

(* The words and letters of a composition, read as one string.             *)
LEMMA KeyStringFacts ==
  ASSUME NEW ws \in Seq(Word), NEW ls \in Word
  PROVE  /\ FlattenSeq(ws) \in Word /\ KeyString(ws, ls) \in Word
         /\ KeyString(<<>>, ls) = ls
         /\ \A w \in Word : KeyString(Append(ws, w), ls) = KeyString(ws, w \o ls)
<1>1. FlattenSeq(ws) \in Word /\ KeyString(ws, ls) \in Word
  BY FlattenFacts, ConcatProperties DEF KeyString, Word
<1>2. KeyString(<<>>, ls) = ls
  <2>1. <<>> \in Seq(Word)
    OBVIOUS
  <2>2. FlattenSeq(<<>>) = <<>>
    BY <2>1, FlattenFacts DEF Word
  <2> QED
    BY <2>2, ConcatEmptySeq DEF KeyString, Word
<1>3. ASSUME NEW w \in Word
      PROVE  KeyString(Append(ws, w), ls) = KeyString(ws, w \o ls)
  <2>1. FlattenSeq(Append(ws, w)) = FlattenSeq(ws) \o w
    BY FlattenFacts DEF Word
  <2>2. (FlattenSeq(ws) \o w) \o ls = FlattenSeq(ws) \o (w \o ls)
    BY <1>1, ConcatAssociative DEF Word
  <2> QED
    BY <2>1, <2>2 DEF KeyString
<1> QED
  BY <1>1, <1>2, <1>3

(* Letters cut in two are the same letters.                                *)
LEMMA TakenAndRest ==
  ASSUME letters \in Word, NEW n \in 0..Len(letters)
  PROVE  Taken(n) \o Rest(n) = letters
<1>1. letters \in Seq(Keys) /\ Len(letters) \in Nat /\ n \in Nat
  BY DEF Word
<1>2. /\ 1 \in 1..(Len(letters) + 1) /\ n \in (1 - 1)..Len(letters)
      /\ Len(letters) \in n..Len(letters)
  BY <1>1
<1>3. SubSeq(letters, 1, n) \o SubSeq(letters, n + 1, Len(letters)) = SubSeq(letters, 1, Len(letters))
  BY <1>1, <1>2, ConcatAdjacentSubSeq
<1> QED
  BY <1>1, <1>3, SubSeqFull DEF Taken, Rest

(* A sequence is its front with its last element behind.                   *)
LEMMA FrontAndLast ==
  ASSUME NEW S, NEW s \in Seq(S), s # <<>>
  PROVE  Append(Front(s), Last(s)) = s
<1>1. /\ Front(s) \in Seq(S) /\ Len(s) \in Nat \ {0} /\ Len(Front(s)) = Len(s) - 1
      /\ \A i \in 1..(Len(s) - 1) : Front(s)[i] = s[i]
      /\ Last(s) \in S /\ Last(s) = s[Len(s)]
  BY FrontFacts DEF Last
<1> DEFINE f == Front(s)
           l == Last(s)
           n == Len(s)
<1> HIDE DEF f, l
<1>2. /\ Append(f, l) \in Seq(S) /\ Len(Append(f, l)) = n
      /\ \A i \in 1..(n - 1) : Append(f, l)[i] = s[i]
      /\ Append(f, l)[n] = s[n]
  BY <1>1, AppendProperties DEF f, l
<1>3. \A i \in 1..n : i \in 1..(n - 1) \/ i = n
  BY <1>1
<1>4. \A i \in 1..Len(Append(f, l)) : Append(f, l)[i] = s[i]
  BY <1>2, <1>3
<1>5. Append(f, l) = s
  BY <1>2, <1>4, SeqEqual
<1> QED
  BY <1>5 DEF f, l

----------------------------------------------------------------------------
(* The engine implements one line of keys.                                 *)

(* The settings and sizes for which it does: no AI sentences, no English   *)
(* marks, no reconnect in a composition, and no more pending words than    *)
(* the undo chain keeps.                                                   *)
PlainLine == MaxWords <= UndoCap /\ ~MergesAi /\ ~EnglishMarks /\ ~Reconnects

(* There the undo chain is complete, so that a Backspace never loses keys. *)
LineInv ==
  /\ IndInv /\ ~ai /\ chinesePunct
  /\ Len(pending) <= MaxWords /\ Len(undo) = Len(pending)

(* A complete chain that agrees with the words is the words.               *)
LEMMA UndoIsPending ==
  ASSUME LineInv
  PROVE  undo = pending
<1>1. undo \in Seq(Word) /\ pending \in Seq(Word) /\ Len(undo) = Len(pending)
  BY DEF LineInv, IndInv, TypeOK
<1>2. \A i \in 1..Len(undo) : undo[i] = pending[Len(pending) - Len(undo) + i]
  BY DEF LineInv, IndInv, UndoMatchesWords
<1>3. \A i \in 1..Len(undo) : Len(pending) - Len(undo) + i = i
  BY <1>1
<1>4. \A i \in 1..Len(undo) : undo[i] = pending[i]
  BY <1>2, <1>3
<1> QED
  BY <1>1, <1>4, SeqEqual

(* A step of the abstract line, or none of it.                             *)
LineStep == [KeyLine!Next]_<<Line, Delivered>>

(* A step that keeps the line, or gives it up, and delivers nothing.       *)
LEMMA Silent ==
  ASSUME outcome'.kind # "Commit", Line' = Line \/ Line' = <<>>
  PROVE  LineStep
<1>1. Delivered' = <<>>
  BY DEF Delivered
<1> QED
  BY <1>1 DEF LineStep, KeyLine!Next, KeyLine!Arrange, KeyLine!GiveUp

(* A delivery of the whole line.                                           *)
LEMMA Whole ==
  ASSUME NEW ws, NEW ls, outcome' = Commit(ws, ls), KeyString(ws, ls) = Line, Line' = <<>>
  PROVE  LineStep
<1>1. Delivered' = Line
  BY DEF Delivered, Commit, Outcome
<1>2. CASE Line = <<>>
  BY <1>1, <1>2 DEF LineStep, KeyLine!Next, KeyLine!Arrange
<1>3. CASE Line # <<>>
  BY <1>1, <1>3 DEF LineStep, KeyLine!Next, KeyLine!Deliver
<1> QED
  BY <1>2, <1>3

(* The composition is given up or delivered.                               *)
LEMMA Cleared ==
  ASSUME LineInv, letters' = <<>>, pending' = <<>>
  PROVE  Line' = <<>>
<1>1. <<>> \in Word /\ <<>> \in Seq(Word)
  BY DEF Word
<1> QED
  BY <1>1, KeyStringFacts DEF Line

(* Staging moves the border between words and letters, no key.             *)
LEMMA StagedLine ==
  ASSUME LineInv, NEW n \in 0..Len(letters)
  PROVE  /\ KeyString(Append(pending, Taken(n)), Rest(n)) = Line
         /\ KeyString(Append(pending, letters), <<>>) = Line
<1>1. letters \in Word /\ pending \in Seq(Word)
  BY DEF LineInv, IndInv, TypeOK
<1>2. Taken(n) \in Word /\ Rest(n) \in Word /\ <<>> \in Word
  BY <1>1, SplitFacts DEF Word
<1>3. KeyString(Append(pending, Taken(n)), Rest(n)) = KeyString(pending, Taken(n) \o Rest(n))
  BY <1>1, <1>2, KeyStringFacts
<1>4. KeyString(Append(pending, letters), <<>>) = KeyString(pending, letters \o <<>>)
  BY <1>1, <1>2, KeyStringFacts
<1>5. letters \o <<>> = letters
  BY <1>1, ConcatEmptySeq DEF Word
<1> QED
  BY <1>1, <1>3, <1>4, <1>5, TakenAndRest DEF Line

(* Selecting delivers the line, or moves its border and grows the chain.   *)
LEMMA SelectIsLine ==
  ASSUME LineInv, NEW c \in Nat, c # NoReading, Select(c), PlainLine
  PROVE  LineStep /\ Len(pending') <= MaxWords /\ Len(undo') = Len(pending')
<1>1. letters \in Word /\ pending \in Seq(Word) /\ MaxWords \in Nat
  BY BoundAssumption DEF LineInv, IndInv, TypeOK
<1>2. CASE SelectAll(c)
  <2>1. letters' = <<>> /\ pending' = <<>> /\ undo' = <<>> /\ outcome' = Commit(Append(pending, letters), <<>>)
    BY <1>2 DEF SelectAll, ClearComposition
  <2>2. 0 \in 0..Len(letters)
    BY <1>1 DEF Word
  <2>3. KeyString(Append(pending, letters), <<>>) = Line
    BY <2>2, StagedLine
  <2> QED
    BY <1>1, <2>1, <2>3, Cleared, Whole
<1>3. CASE SelectPart(c)
  <2>1. PICK n \in Covered(c) :
          /\ n < Len(letters) /\ Len(pending) < MaxWords
          /\ pending' = Append(pending, Taken(n)) /\ undo' = PushUndo(Taken(n))
          /\ letters' = Rest(n) /\ outcome' = Consumed
    BY <1>3 DEF SelectPart
  <2>2. n \in 0..Len(letters) /\ Taken(n) \in Word /\ Len(Taken(n)) = n
    BY <1>1, <2>1, CoveredFacts, SplitFacts
  <2>3. letters # <<>> /\ n # 0 /\ Taken(n) # <<>>
    <3>1. letters # <<>>
      BY <1>1, <2>1, <2>2 DEF Word
    <3>2. n # 0
      BY <1>1, <3>1, CoveredFacts
    <3> QED
      BY <2>2, <3>1, <3>2
  <2>4. Line' = Line /\ outcome'.kind # "Commit"
    <3>1. Line' = KeyString(Append(pending, Taken(n)), Rest(n))
      BY <2>1 DEF Line
    <3> QED
      BY <2>1, <2>2, <3>1, StagedLine, PlainOutcomes
  <2> DEFINE pushed == Append(undo, Taken(n))
             words == Append(pending, Taken(n))
  <2>5. /\ undo = pending /\ words \in Seq(Word) /\ Len(words) = Len(pending) + 1
    BY <1>1, <2>2, UndoIsPending
  <2>6. Len(words) <= UndoCap /\ Len(words) <= MaxWords
    BY <1>1, <2>1, <2>5, PageAssumption DEF PlainLine
  <2>7. pushed = words
    BY <2>5
  <2> HIDE DEF words
  <2>8. PushUndo(Taken(n)) = words
    BY <2>3, <2>5, <2>6, <2>7, PageAssumption DEF PushUndo
  <2>9. pending' = words
    BY <2>1 DEF words
  <2> QED
    BY <2>1, <2>4, <2>6, <2>8, <2>9, Silent
<1> QED
  BY <1>2, <1>3 DEF Select

(* A key erased from the letters.                                          *)
LEMMA EraseIsLine ==
  ASSUME LineInv, NEW i \in 1..Len(letters), Erase(i), outcome' = Consumed,
         UNCHANGED pending
  PROVE  LineStep
<1>1. letters \in Word /\ pending \in Seq(Word)
  BY DEF LineInv, IndInv, TypeOK
<1> DEFINE w == FlattenSeq(pending)
<1>2. w \in Word
  BY <1>1, KeyStringFacts
<1>3. Line = w \o letters /\ Line' = w \o RemoveAt(letters, i)
  BY DEF Line, KeyString, Erase
<1> HIDE DEF w
<1>4. Len(w) + i \in 1..Len(Line) /\ Line' = RemoveAt(Line, Len(w) + i)
  BY <1>1, <1>2, <1>3, RemoveBehind
<1>5. Delivered' = <<>>
  BY PlainOutcomes DEF Delivered
<1>6. KeyLine!Erase
  BY <1>4, <1>5 DEF KeyLine!Erase, KeyLine!RemoveAt, RemoveAt
<1> QED
  BY <1>6 DEF LineStep, KeyLine!Next

(* A letter is a key inserted into the line.                               *)
LEMMA LetterIsLine ==
  ASSUME LineInv, NEW k \in Keys, Letter(k)
  PROVE  LineStep
<1>1. letters \in Word /\ pending \in Seq(Word) /\ cursor \in Nat /\ cursor <= Len(letters)
  BY DEF LineInv, IndInv, TypeOK, CursorInLetters
<1> DEFINE w == FlattenSeq(pending)
<1>2. w \in Word /\ cursor + 1 \in 1..(Len(letters) + 1)
  <2>1. Len(letters) \in Nat
    BY <1>1 DEF Word
  <2>2. w \in Word
    BY <1>1, KeyStringFacts
  <2> QED
    BY <1>1, <2>1, <2>2
<1>3. Line = w \o letters /\ Line' = w \o InsertAt(letters, cursor + 1, k)
  BY DEF Line, KeyString, Letter
<1> HIDE DEF w
<1>4. PICK i \in 1..(Len(letters) + 1) : i = cursor + 1
  BY <1>2
<1>5. Len(w) + i \in 1..(Len(Line) + 1) /\ Line' = InsertAt(Line, Len(w) + i, k)
  BY <1>1, <1>2, <1>3, <1>4, InsertBehind
<1>6. Delivered' = <<>> /\ Len(Line) < MaxKeys
  BY PlainOutcomes DEF Delivered, Letter, KeysHeld, Line
<1>7. KeyLine!Insert
  BY <1>5, <1>6 DEF KeyLine!Insert, KeyLine!InsertAt, InsertAt
<1> QED
  BY <1>7 DEF LineStep, KeyLine!Next

(* A Backspace on a word puts its keys in front of the letters.            *)
LEMMA BackspaceIsLine ==
  ASSUME LineInv, BackspaceWord
  PROVE  LineStep /\ Len(undo') = Len(pending') /\ Len(pending') <= MaxWords
<1>1. letters \in Word /\ pending \in Seq(Word) /\ pending # <<>> /\ undo = pending
  BY UndoIsPending DEF LineInv, IndInv, TypeOK, BackspaceWord
<1>2. /\ letters' = Last(pending) \o letters /\ undo' = Front(pending)
      /\ pending' = Front(pending) /\ outcome' = Consumed
  BY <1>1 DEF BackspaceWord
<1>3. /\ Front(pending) \in Seq(Word) /\ Last(pending) \in Word
      /\ Len(Front(pending)) = Len(pending) - 1 /\ Len(pending) \in Nat
  BY <1>1, FrontFacts
<1>4. Append(Front(pending), Last(pending)) = pending
  BY <1>1, FrontAndLast
<1>5. KeyString(Append(Front(pending), Last(pending)), letters)
        = KeyString(Front(pending), Last(pending) \o letters)
  BY <1>1, <1>3, KeyStringFacts
<1>6. Line' = Line
  BY <1>2, <1>4, <1>5 DEF Line
<1>7. Len(pending') <= MaxWords
  BY <1>2, <1>3, BoundAssumption DEF LineInv
<1> QED
  BY <1>2, <1>6, <1>7, Silent, PlainOutcomes

(* A step that leaves words and letters alone and delivers nothing.        *)
LEMMA StillLine ==
  ASSUME UNCHANGED <<letters, pending>>, outcome' \in {Ignored, Consumed, Panic}
  PROVE  LineStep
<1>1. Line' = Line
  BY DEF Line
<1> QED
  BY <1>1, Silent, PlainOutcomes

(* The whole composition is delivered with the words ws and letters ls.    *)
LEMMA AllDelivered ==
  ASSUME LineInv, ClearComposition, NEW ws, NEW ls, outcome' = Commit(ws, ls),
         KeyString(ws, ls) = Line
  PROVE  LineStep
<1>1. Line' = <<>>
  BY Cleared DEF ClearComposition
<1> QED
  BY <1>1, Whole

(* The words alone are delivered, when there are no letters.               *)
LEMMA WordsDelivered ==
  ASSUME LineInv, letters = <<>>, letters' = letters, pending' = <<>>,
         outcome' = Commit(pending, <<>>)
  PROVE  LineStep
<1>1. Line' = <<>>
  BY Cleared
<1>2. KeyString(pending, <<>>) = Line
  BY DEF Line
<1> QED
  BY <1>1, <1>2, Whole

(* Every step keeps the chain complete and is one of the line.             *)
LEMMA LineStepKeeps ==
  ASSUME PlainLine, LineInv, [Next]_vars
  PROVE  LineInv' /\ LineStep
<1> DEFINE Complete ==
      ~ai' /\ chinesePunct' /\ Len(pending') <= MaxWords /\ Len(undo') = Len(pending')
<1> SUFFICES Complete /\ LineStep
  BY NextKeeps DEF LineInv
<1>1. /\ ~ai /\ chinesePunct /\ Len(pending) <= MaxWords /\ Len(undo) = Len(pending)
      /\ letters \in Word /\ pending \in Seq(Word) /\ candidates \in Seq(Nat)
      /\ cursor \in Nat /\ cursor <= Len(letters) /\ Len(letters) \in Nat
      /\ \A i \in 1..Len(candidates) : candidates[i] # NoReading
  BY DEF LineInv, IndInv, TypeOK, CursorInLetters, CandidatesRead, Word
<1>2. Len(<<>>) <= MaxWords
  BY BoundAssumption
<1>3. KeyString(pending, letters) = Line
  BY DEF Line
<1>23. ASSUME UNCHANGED <<ai, chinesePunct, letters, pending, undo>>,
               outcome' \in {Ignored, Consumed, Panic}
        PROVE  Complete /\ LineStep
  <2>1. LineStep
    BY <1>23, StillLine
  <2> QED
    BY <1>1, <1>23, <2>1
<1>24. ASSUME UNCHANGED <<ai, chinesePunct>>, ClearComposition, outcome' = Commit(pending, letters)
        PROVE  Complete /\ LineStep
  <2>1. LineStep
    BY <1>3, <1>24, AllDelivered
  <2>2. pending' = <<>> /\ undo' = <<>>
    BY <1>24 DEF ClearComposition
  <2> QED
    BY <1>1, <1>2, <1>24, <2>1, <2>2
<1>4. CASE ShiftToggle
  BY <1>4, <1>23 DEF ShiftToggle
<1>25. CASE PassThrough
  BY <1>25, <1>23 DEF PassThrough, modes
<1>26. CASE CtrlDot
  BY <1>26 DEF CtrlDot, PlainLine
<1>5. CASE ShiftFlush \/ SpaceRelease \/ MarkRaw \/ EnterRaw
  <2>1. UNCHANGED <<ai, chinesePunct>> /\ ClearComposition /\ outcome' = Commit(pending, letters)
    BY <1>5 DEF ShiftFlush, SpaceRelease, MarkRaw, EnterRaw, modes
  <2> QED
    BY <1>24, <2>1
<1>6. CASE BackspaceWord
  BY <1>1, <1>6, BackspaceIsLine DEF BackspaceWord, modes
<1>7. CASE BackspaceLetter
  <2>1. Complete /\ outcome' = Consumed /\ UNCHANGED pending
    BY <1>1, <1>7 DEF BackspaceLetter, modes
  <2>2. CASE cursor > 0 /\ Erase(cursor)
    <3>1. cursor \in 1..Len(letters)
      BY <1>1, <2>2
    <3> QED
      BY <2>1, <2>2, <3>1, EraseIsLine
  <2>3. CASE UNCHANGED letters
    BY <2>1, <2>3, StillLine
  <2> QED
    BY <1>7, <2>2, <2>3 DEF BackspaceLetter
<1>8. CASE Esc
  <2>1. Line' = <<>>
    BY <1>8, Cleared DEF Esc, ClearComposition
  <2> QED
    BY <1>1, <1>2, <1>8, <2>1, Silent, PlainOutcomes DEF Esc, ClearComposition, modes
<1>9. CASE PrevPage \/ NextPage \/ CtrlB \/ CtrlF
  <2>1. /\ UNCHANGED <<ai, chinesePunct, letters, pending, undo>>
        /\ outcome' \in {Ignored, Consumed, Panic}
    BY <1>9 DEF PrevPage, NextPage, TurnPage, CtrlB, CtrlF, MoveCursor, modes
  <2> QED
    BY <1>23, <2>1
<1>10. CASE CtrlH
  <2>1. Complete /\ outcome' = Consumed /\ UNCHANGED pending
    BY <1>1, <1>10 DEF CtrlH, modes
  <2>2. CASE cursor > 0 /\ Erase(cursor)
    <3>1. cursor \in 1..Len(letters)
      BY <1>1, <2>2
    <3> QED
      BY <2>1, <2>2, <3>1, EraseIsLine
  <2>3. CASE UNCHANGED letters
    BY <2>1, <2>3, StillLine
  <2> QED
    BY <1>10, <2>2, <2>3 DEF CtrlH
<1>11. CASE DeleteForward
  <2>1. Complete /\ outcome' = Consumed /\ UNCHANGED pending
    BY <1>1, <1>11 DEF DeleteForward, modes
  <2>2. CASE cursor < Len(letters) /\ Erase(cursor + 1)
    <3>1. cursor + 1 \in 1..Len(letters)
      BY <1>1, <2>2
    <3> QED
      BY <2>1, <2>2, <3>1, EraseIsLine
  <2>3. CASE UNCHANGED letters
    BY <2>1, <2>3, StillLine
  <2> QED
    BY <1>11, <2>2, <2>3 DEF DeleteForward
<1>12. ASSUME NEW i \in Nat, i < Len(candidates), Select(candidates[i + 1]), UNCHANGED modes
       PROVE  Complete /\ LineStep
  <2>1. i + 1 \in 1..Len(candidates)
    BY <1>1, <1>12
  <2>2. candidates[i + 1] \in Nat /\ candidates[i + 1] # NoReading
    BY <1>1, <2>1
  <2>3. LineStep /\ Len(pending') <= MaxWords /\ Len(undo') = Len(pending')
    BY <1>12, <2>2, SelectIsLine
  <2> QED
    BY <1>1, <1>12, <2>3 DEF modes
<1>13. pageIndex \in Nat /\ PageSize \in Nat /\ Highlight \in Nat
  BY PageAssumption DEF LineInv, IndInv, TypeOK, Highlight
<1>14. CASE SpaceSelect
  BY <1>12, <1>13, <1>14 DEF SpaceSelect
<1>15. ASSUME NEW d \in 0..(DigitKeys - 1), Digit(d) PROVE Complete /\ LineStep
  <2>1. Highlight + d \in Nat
    BY <1>13, PageAssumption
  <2> QED
    BY <1>12, <1>15, <2>1 DEF Digit
<1>16. CASE IndexPanic
  BY <1>1, <1>16, StillLine DEF IndexPanic, modes
<1>17. CASE Restart
  <2>1. Line' = <<>>
    BY <1>17, Cleared DEF Restart, ClearComposition
  <2>2. Complete
    <3>1. ai' \in {FALSE, MergesAi} /\ chinesePunct' \in {TRUE, ~EnglishMarks}
      BY <1>17 DEF Restart
    <3>2. (MergesAi = FALSE) /\ ((~EnglishMarks) = TRUE)
      BY SwitchAssumption DEF PlainLine
    <3>6. ai' = FALSE /\ chinesePunct' = TRUE
      BY <3>1, <3>2
    <3>3. pending' = <<>> /\ undo' = <<>>
      BY <1>17 DEF Restart, ClearComposition
    <3> QED
      BY <1>2, <3>6, <3>3
  <2> QED
    BY <1>17, <2>1, <2>2, Silent, PlainOutcomes DEF Restart
<1>18. CASE EnglishMark \/ ClearUndo \/ \E c \in 0..MaxKeys : MergeAi(c)
  BY <1>1, <1>18 DEF EnglishMark, ClearUndo, MergeAi, PlainLine
<1>19. CASE MarkRelease \/ EnterRelease
  <2>1. /\ letters = <<>> /\ UNCHANGED <<ai, chinesePunct, letters>>
        /\ pending' = <<>> /\ undo' = <<>> /\ outcome' = Commit(pending, <<>>)
    BY <1>19 DEF MarkRelease, EnterRelease, modes
  <2>2. LineStep
    BY <2>1, WordsDelivered
  <2> QED
    BY <1>1, <1>2, <2>1, <2>2
<1>20. CASE MarkTop
  <2>1. PICK n \in Covered(candidates[Highlight + 1]) :
          outcome' = Commit(Append(pending, Taken(n)), Rest(n))
    BY <1>20 DEF MarkTop
  <2>2. candidates[Highlight + 1] \in Nat
    <3>1. Highlight + 1 \in 1..Len(candidates)
      BY <1>1, <1>13, <1>20 DEF MarkTop
    <3> QED
      BY <1>1, <3>1
  <2>3. n \in 0..Len(letters)
    BY <1>1, <2>1, <2>2, CoveredFacts
  <2>4. KeyString(Append(pending, Taken(n)), Rest(n)) = Line
    BY <2>3, StagedLine
  <2>5. ClearComposition /\ Complete
    BY <1>1, <1>2, <1>20 DEF MarkTop, ClearComposition, modes
  <2> QED
    BY <2>1, <2>4, <2>5, AllDelivered
<1>21. ASSUME NEW k \in Keys, Letter(k) PROVE Complete /\ LineStep
  <2>1. Complete
    BY <1>1, <1>21 DEF Letter, modes
  <2> QED
    BY <1>21, <2>1, LetterIsLine
<1>22. CASE ContextRefresh \/ UNCHANGED vars
  <2>1. UNCHANGED <<letters, pending, undo, outcome, ai, chinesePunct>>
    BY <1>22 DEF ContextRefresh, vars, modes
  <2>2. UNCHANGED <<Line, Delivered>>
    BY <2>1 DEF Line, Delivered
  <2> QED
    BY <1>1, <2>1, <2>2 DEF LineStep
<1> QED
  BY <1>4, <1>5, <1>6, <1>7, <1>8, <1>9, <1>10, <1>11, <1>14, <1>15, <1>16, <1>17,
     <1>18, <1>19, <1>20, <1>21, <1>22, <1>25, <1>26 DEF Next

(* Engine::key implements KeyLine: through selections, Backspaces on a     *)
(* chosen word, page turns and edits the typed keys stay one line, in      *)
(* order, until it is delivered whole, once, or given up. For any letters, *)
(* page size and undo cap, and any number of words within the cap.         *)
THEOREM KeysStayInLine ==
  ASSUME PlainLine
  PROVE  Spec => IsKeyLine
<1>1. Init => LineInv /\ KeyLine!Init
  <2> SUFFICES ASSUME Init PROVE LineInv /\ KeyLine!Init
    OBVIOUS
  <2>1. LineInv
    <3>1. ai \in {FALSE, MergesAi} /\ chinesePunct \in {TRUE, ~EnglishMarks}
      BY DEF Init
    <3>2. (MergesAi = FALSE) /\ ((~EnglishMarks) = TRUE)
      BY SwitchAssumption DEF PlainLine
    <3>6. ai = FALSE /\ chinesePunct = TRUE
      BY <3>1, <3>2
    <3>3. IndInv
      BY InitKeeps
    <3>4. pending = <<>> /\ undo = <<>>
      BY DEF Init
    <3>5. Len(pending) <= MaxWords /\ Len(undo) = Len(pending)
      BY <3>4, BoundAssumption
    <3> QED
      BY <3>6, <3>3, <3>5 DEF LineInv
  <2>2. Line = <<>>
    <3>1. <<>> \in Word /\ <<>> \in Seq(Word)
      BY DEF Word
    <3> QED
      BY <3>1, KeyStringFacts DEF Line, Init
  <2>3. Delivered = <<>>
    BY PlainOutcomes DEF Delivered, Init
  <2> QED
    BY <2>1, <2>2, <2>3 DEF KeyLine!Init
<1>2. LineInv /\ [Next]_vars => LineInv' /\ [KeyLine!Next]_<<Line, Delivered>>
  BY LineStepKeeps DEF LineStep
<1> QED
  BY <1>1, <1>2, PTL DEF Spec, IsKeyLine, KeyLine!Spec

----------------------------------------------------------------------------
(* The X11 front end: the inductive invariant.                             *)

(* No sentence of the AI client reaches this engine, so candidates are     *)
(* always those of the letters, with config.ai_realtime as without.        *)
ListNeedsLetters == letters = <<>> => candidates = <<>>

XimTypes ==
  /\ focus \in Contexts \cup {"none"} /\ ghost \in BOOLEAN
  /\ drawn \in [Contexts -> Seq(Word) \X Word]

XimInv == IndInv /\ ListNeedsLetters /\ XimTypes /\ OneContext /\ ShowsTheEngine

----------------------------------------------------------------------------
(* What a key does to the engine, whichever branch it takes.               *)

(* The branches of Engine::key are steps of the engine.                    *)
LEMMA KeyIsStep == EngineKey => Next /\ Alive
BY DEF EngineKey, Next, ShiftToggle, ShiftFlush, PassThrough, BackspaceWord,
       BackspaceLetter, Esc, PrevPage, NextPage, TurnPage, CtrlB, CtrlF, MoveCursor,
       CtrlH, DeleteForward, SpaceSelect, IndexPanic, SpaceRelease, CtrlDot,
       EnglishMark, MarkRelease, MarkTop, MarkRaw, Letter, Digit, EnterRaw,
       EnterRelease, Typing

(* A selection lists candidates for the letters it leaves.                 *)
LEMMA SelectLists ==
  ASSUME NEW c, Select(c)
  PROVE  ListNeedsLetters' /\ outcome'.kind \in {"Consumed", "Commit"}
<1>1. CASE SelectAll(c)
  BY <1>1 DEF SelectAll, ClearComposition, ListNeedsLetters, Commit, Outcome
<1>2. CASE SelectPart(c)
  BY <1>2 DEF SelectPart, Lookups, ListNeedsLetters, Consumed, Outcome
<1> QED
  BY <1>1, <1>2 DEF Select

(* After a key the candidates are those of the letters; a key the engine   *)
(* ignores changes nothing that is shown.                                  *)
LEMMA KeyLists ==
  ASSUME ListNeedsLetters, EngineKey
  PROVE  /\ ListNeedsLetters'
         /\ outcome'.kind = "Ignored" =>
              UNCHANGED <<letters, candidates, pageIndex, pending>>
<1> USE DEF Ignored, Consumed, Commit, Panic, Outcome, ListNeedsLetters
<1>1. CASE ShiftToggle \/ PassThrough \/ PrevPage \/ NextPage \/ CtrlB \/ CtrlF
  BY <1>1 DEF ShiftToggle, PassThrough, PrevPage, NextPage, TurnPage, CtrlB, CtrlF,
     MoveCursor
<1>2. CASE IndexPanic \/ CtrlDot \/ EnglishMark \/ MarkRelease \/ EnterRelease
  BY <1>2 DEF IndexPanic, CtrlDot, EnglishMark, MarkRelease, EnterRelease
<1>3. CASE ShiftFlush \/ Esc \/ SpaceRelease \/ MarkTop \/ MarkRaw \/ EnterRaw
  BY <1>3 DEF ShiftFlush, Esc, SpaceRelease, MarkTop, MarkRaw, EnterRaw, ClearComposition
<1>4. CASE BackspaceWord
  <2>1. candidates' \in Lookups(letters') /\ outcome'.kind = "Consumed"
    BY <1>4 DEF BackspaceWord
  <2> QED
    BY <2>1 DEF Lookups
<1>5. CASE BackspaceLetter \/ CtrlH \/ DeleteForward
  <2>1. \/ candidates' \in Lookups(letters')
        \/ UNCHANGED <<letters, candidates, pageIndex>>
    BY <1>5 DEF BackspaceLetter, CtrlH, DeleteForward, Erase
  <2>2. outcome'.kind = "Consumed"
    BY <1>5 DEF BackspaceLetter, CtrlH, DeleteForward
  <2> QED
    BY <2>1, <2>2 DEF Lookups
<1>6. ASSUME NEW k \in Keys, Letter(k)
      PROVE  ListNeedsLetters' /\ outcome'.kind = "Consumed"
  <2>1. candidates' \in Lookups(letters') /\ outcome'.kind = "Consumed"
    BY <1>6 DEF Letter
  <2> QED
    BY <2>1 DEF Lookups
<1>7. CASE SpaceSelect
  BY <1>7, SelectLists DEF SpaceSelect
<1>8. ASSUME NEW d \in 0..(DigitKeys - 1), Digit(d)
      PROVE  ListNeedsLetters' /\ outcome'.kind \in {"Consumed", "Commit"}
  BY <1>8, SelectLists DEF Digit
<1> QED
  BY <1>1, <1>2, <1>3, <1>4, <1>5, <1>6, <1>7, <1>8 DEF EngineKey

(* Nothing composed is an empty list and an empty preedit.                 *)
LEMMA IdleShowsNothing ==
  ASSUME ListNeedsLetters, letters = <<>>
  PROVE  PageRows(candidates, pageIndex) = {}
<1>1. Len(candidates) = 0
  BY DEF ListNeedsLetters
<1> QED
  BY <1>1 DEF PageRows

(* clear_composition clears: in English mode there is nothing to clear, and*)
(* in Chinese mode the Esc reaches the engine.                             *)
LEMMA ClearClears ==
  ASSUME IndInv, ListNeedsLetters, Alive, ClearComposed
  PROVE  /\ IndInv' /\ ListNeedsLetters' /\ origin' = {}
         /\ Preedit' = NoPreedit /\ PageRows(candidates', pageIndex') = {}
<1>1. CASE Typing /\ ~Idle
  <2>1. Esc /\ origin' = {}
    BY <1>1 DEF ClearComposed
  <2>2. IndInv'
    BY <2>1, NextKeeps DEF Next
  <2>3. letters' = <<>> /\ candidates' = <<>> /\ pending' = <<>>
    BY <2>1 DEF Esc, ClearComposition
  <2>4. Len(candidates') = 0
    BY <2>3
  <2> QED
    BY <2>1, <2>2, <2>3, <2>4 DEF ListNeedsLetters, Preedit, NoPreedit, PageRows
<1>2. CASE ~(Typing /\ ~Idle)
  <2>1. PassThrough /\ origin' = {}
    BY <1>2 DEF ClearComposed
  <2>2. IndInv'
    BY <2>1, NextKeeps DEF Next
  <2>3. Idle
    BY <1>2 DEF Typing, IndInv, EnglishIsIdle
  <2>4. letters' = <<>> /\ candidates' = <<>> /\ pending' = <<>>
    BY <2>1, <2>3 DEF PassThrough, Idle, ListNeedsLetters
  <2>5. Len(candidates') = 0
    BY <2>4
  <2> QED
    BY <2>1, <2>2, <2>4, <2>5 DEF ListNeedsLetters, Preedit, NoPreedit, PageRows
<1> QED
  BY <1>1, <1>2

(* The empty preedit is one.                                               *)
LEMMA PreeditType == NoPreedit \in Seq(Word) \X Word
<1>1. <<>> \in Seq(Word) /\ <<>> \in Word
  BY DEF Word
<1> QED
  BY <1>1 DEF NoPreedit

----------------------------------------------------------------------------
(* The requests.                                                           *)

(* Every request that ends the composition leaves it ended and drawn so.   *)
LEMMA EndKeeps ==
  ASSUME XimInv, Alive, NEW ic \in Contexts, EndComposition(ic)
  PROVE  /\ IndInv' /\ ListNeedsLetters' /\ origin' = {}
         /\ drawn' \in [Contexts -> Seq(Word) \X Word]
         /\ drawn' = [drawn EXCEPT ![ic] = NoPreedit]
         /\ Preedit' = NoPreedit
         /\ mapped' = FALSE /\ rows' = {} /\ PageRows(candidates', pageIndex') = {}
<1>1. ClearComposed
  BY DEF EndComposition
<1>2. drawn' \in [Contexts -> Seq(Word) \X Word]
  BY PreeditType DEF EndComposition, XimInv, XimTypes
<1> QED
  BY <1>1, <1>2, ClearClears DEF EndComposition, XimInv, Hide

(* A request of the client that has the focus, or of one that takes it.    *)
LEMMA OwnEndKeeps ==
  ASSUME XimInv, Alive, NEW ic \in Contexts, EndComposition(ic),
         focus' \in {ic, "none"}, ghost' \in BOOLEAN
  PROVE  XimInv'
<1>1. focus' # "none" => drawn'[focus'] = Preedit'
  BY EndKeeps DEF XimInv, XimTypes
<1> QED
  BY <1>1, EndKeeps DEF XimInv, XimTypes, OneContext, ShowsTheEngine

(* A request of another client: what the focused one shows is stale, and   *)
(* the history says so.                                                    *)
LEMMA OtherEndKeeps ==
  ASSUME XimInv, Alive, NEW ic \in Contexts, EndComposition(ic),
         focus' = focus, focus # ic, ghost' = GhostLeft(ic)
  PROVE  XimInv'
<1>1. ghost' \in BOOLEAN
  BY DEF XimInv, XimTypes, GhostLeft
<1>2. ASSUME focus # "none", ~ghost' PROVE drawn'[focus] = Preedit'
  <2>1. ~ghost /\ Idle
    BY <1>2 DEF GhostLeft
  <2>2. drawn[focus] = Preedit
    BY <1>2, <2>1 DEF XimInv, ShowsTheEngine
  <2>3. Preedit = NoPreedit
    BY <2>1 DEF Idle, Preedit, NoPreedit
  <2>4. drawn'[focus] = drawn[focus]
    BY <1>2, EndKeeps DEF XimInv, XimTypes
  <2> QED
    BY <2>2, <2>3, <2>4, EndKeeps
<1> QED
  BY <1>1, <1>2, EndKeeps DEF XimInv, XimTypes, OneContext, ShowsTheEngine

(* A forwarded key: the client and the window are told what the engine     *)
(* holds now, unless the key was ignored and nothing changed.              *)
LEMMA KeyKeeps ==
  ASSUME XimInv, NEW ic \in Contexts, HandleForwardEvent(ic)
  PROVE  XimInv'
<1>1. EngineKey /\ ic = focus /\ React(ic) /\ focus' = focus
  BY DEF HandleForwardEvent
<1>2. IndInv' /\ Alive
  BY <1>1, KeyIsStep, NextKeeps DEF XimInv
<1>3. ListNeedsLetters'
  BY <1>1, KeyLists DEF XimInv
<1>4. OneContext'
  BY DEF HandleForwardEvent, OneContext, XimInv
<1>5. Preedit' \in Seq(Word) \X Word
  <2>1. pending' \in Seq(Word) /\ letters' \in Word
    BY <1>2 DEF IndInv, TypeOK
  <2> QED
    BY <2>1 DEF Preedit
<1>6. ghost' \in BOOLEAN
  BY DEF HandleForwardEvent, XimInv, XimTypes
<1>7. outcome'.kind \in {"Ignored", "Consumed", "Commit", "Panic"}
  BY <1>2 DEF IndInv, TypeOK, OutcomeType
<1>8. CASE outcome'.kind = "Consumed"
  <2>1. drawn' = [drawn EXCEPT ![ic] = Preedit'] /\ UpdateWindow
    BY <1>1, <1>8 DEF React
  <2>2. drawn' \in [Contexts -> Seq(Word) \X Word] /\ drawn'[ic] = Preedit'
    BY <1>5, <2>1 DEF XimInv, XimTypes
  <2>3. mapped' = (rows' # {}) /\ rows' = PageRows(candidates', pageIndex')
    BY <2>1 DEF UpdateWindow, ShowCandidates
  <2> QED
    BY <1>1, <1>2, <1>3, <1>4, <1>6, <2>2, <2>3
       DEF XimInv, XimTypes, ShowsTheEngine, PageRows
<1>9. CASE outcome'.kind = "Commit"
  <2>1. /\ drawn' = [drawn EXCEPT ![ic] = Preedit']
        /\ IF Preedit' # NoPreedit THEN UpdateWindow ELSE Hide
    BY <1>1, <1>9 DEF React
  <2>2. drawn' \in [Contexts -> Seq(Word) \X Word] /\ drawn'[ic] = Preedit'
    BY <1>5, <2>1 DEF XimInv, XimTypes
  <2>3. mapped' = (rows' # {}) /\ rows' = PageRows(candidates', pageIndex')
    <3>1. CASE Preedit' # NoPreedit
      BY <2>1, <3>1 DEF UpdateWindow, ShowCandidates
    <3>2. CASE Preedit' = NoPreedit
      <4>1. letters' = <<>>
        BY <3>2 DEF Preedit, NoPreedit
      <4>2. Len(candidates') = 0
        BY <1>3, <4>1 DEF ListNeedsLetters
      <4>3. PageRows(candidates', pageIndex') = {}
        BY <4>2 DEF PageRows
      <4> QED
        BY <2>1, <3>2, <4>3 DEF Hide
    <3> QED
      BY <3>1, <3>2
  <2> QED
    BY <1>1, <1>2, <1>3, <1>4, <1>6, <2>2, <2>3
       DEF XimInv, XimTypes, ShowsTheEngine, PageRows
<1>10. CASE outcome'.kind = "Ignored"
  <2>1. UNCHANGED <<letters, candidates, pageIndex, pending>>
    BY <1>1, <1>10, KeyLists DEF XimInv
  <2>2. ghost' = ghost /\ UNCHANGED shown
    BY <1>1, <1>10 DEF HandleForwardEvent, React, XimInv, XimTypes
  <2> QED
    BY <1>1, <1>2, <1>3, <1>4, <1>6, <2>1, <2>2
       DEF XimInv, XimTypes, ShowsTheEngine, PageRows, Preedit, shown
<1>11. CASE outcome'.kind = "Panic"
  <2>1. ~Alive' /\ UNCHANGED shown
    BY <1>1, <1>11 DEF React, Alive
  <2> QED
    BY <1>1, <1>2, <1>3, <1>4, <1>6, <2>1
       DEF XimInv, XimTypes, ShowsTheEngine, shown
<1> QED
  BY <1>7, <1>8, <1>9, <1>10, <1>11

(* The server is started again.                                            *)
LEMMA StartAgainKeeps ==
  ASSUME XimInv, StartAgain
  PROVE  XimInv'
<1>1. Restart
  BY DEF StartAgain
<1>2. IndInv'
  BY <1>1, NextKeeps DEF XimInv, Next
<1>3. letters' = <<>> /\ candidates' = <<>>
  BY <1>1 DEF Restart, ClearComposition
<1>4. Len(candidates') = 0
  BY <1>3
<1>5. drawn' \in [Contexts -> Seq(Word) \X Word]
  BY PreeditType DEF StartAgain
<1>6. ListNeedsLetters' /\ XimTypes' /\ OneContext'
  BY <1>3, <1>5 DEF StartAgain, ListNeedsLetters, XimTypes, OneContext
<1>7. PageRows(candidates', pageIndex') = {}
  BY <1>4 DEF PageRows
<1>8. focus' = "none" /\ mapped' = FALSE /\ rows' = {}
  BY DEF StartAgain, Hide
<1>9. ShowsTheEngine'
  BY <1>7, <1>8 DEF ShowsTheEngine
<1> QED
  BY <1>2, <1>6, <1>9 DEF XimInv

LEMMA XimStart == XimInit => XimInv
<1> SUFFICES ASSUME XimInit PROVE XimInv
  OBVIOUS
<1>1. IndInv /\ candidates = <<>>
  BY InitKeeps DEF XimInit, Init
<1>2. Len(candidates) = 0
  BY <1>1
<1>3. drawn \in [Contexts -> Seq(Word) \X Word]
  BY PreeditType DEF XimInit
<1>4. ListNeedsLetters /\ XimTypes /\ OneContext
  BY <1>1, <1>3 DEF XimInit, ListNeedsLetters, XimTypes, OneContext
<1>5. PageRows(candidates, pageIndex) = {}
  BY <1>2 DEF PageRows
<1>6. focus = "none" /\ mapped = FALSE /\ rows = {}
  BY DEF XimInit
<1>7. ShowsTheEngine
  BY <1>5, <1>6 DEF ShowsTheEngine
<1> QED
  BY <1>1, <1>4, <1>7 DEF XimInv

LEMMA XimStep == XimInv /\ [XimNext]_ximVars => XimInv'
<1> SUFFICES ASSUME XimInv, [XimNext]_ximVars PROVE XimInv'
  OBVIOUS
<1>1. ASSUME NEW ic \in Contexts, CreateIc(ic) PROVE XimInv'
  <2>1. IndInv'
    BY <1>1, NextKeeps DEF CreateIc, XimInv
  <2> QED
    BY <1>1, <2>1
       DEF CreateIc, vars, modes, shown, XimInv, ListNeedsLetters, XimTypes, OneContext,
           ShowsTheEngine, Alive, Preedit, PageRows
<1>2. ASSUME NEW ic \in Contexts, HandleDestroyIc(ic) PROVE XimInv'
  <2>1. CASE focus = ic
    BY <1>2, <2>1, OwnEndKeeps DEF HandleDestroyIc
  <2>2. CASE focus # ic
    <3>1. ghost' = GhostLeft(ic)
      BY <1>2, <2>2 DEF HandleDestroyIc, GhostLeft, XimInv, XimTypes
    <3> QED
      BY <1>2, <2>2, <3>1, OtherEndKeeps DEF HandleDestroyIc
  <2> QED
    BY <2>1, <2>2
<1>3. ASSUME NEW ic \in Contexts, HandleSetFocus(ic) PROVE XimInv'
  BY <1>3, OwnEndKeeps DEF HandleSetFocus
<1>4. ASSUME NEW ic \in Contexts, HandleUnsetFocus(ic) \/ HandleResetIc(ic) PROVE XimInv'
  <2>1. /\ Alive /\ EndComposition(ic) /\ focus' = focus
        /\ ghost' = (focus # ic /\ GhostLeft(ic))
    BY <1>4 DEF HandleUnsetFocus, HandleResetIc
  <2>2. CASE focus = ic
    BY <2>1, <2>2, OwnEndKeeps
  <2>3. CASE focus # ic
    <3>1. ghost' = GhostLeft(ic)
      BY <2>1, <2>3 DEF GhostLeft, XimInv, XimTypes
    <3> QED
      BY <2>1, <2>3, <3>1, OtherEndKeeps
  <2> QED
    BY <2>2, <2>3
<1>5. ASSUME NEW ic \in Contexts, HandleForwardEvent(ic) PROVE XimInv'
  BY <1>5, KeyKeeps
<1>6. CASE StartAgain
  BY <1>6, StartAgainKeeps
<1>7. CASE UNCHANGED ximVars
  <2>1. IndInv'
    BY <1>7, NextKeeps DEF ximVars, XimInv
  <2> QED
    BY <1>7, <2>1
       DEF ximVars, vars, shown, XimInv, ListNeedsLetters, XimTypes, OneContext,
           ShowsTheEngine, Alive, Preedit, PageRows
<1> QED
  BY <1>1, <1>2, <1>3, <1>4, <1>5, <1>6, <1>7 DEF XimNext

----------------------------------------------------------------------------
(* The theorems.                                                           *)

(* The inductive invariant of the front end: the engine's own, candidates  *)
(* only for letters, and the two properties.                               *)
THEOREM XimInvariant == XimSpec => []XimInv
BY XimStart, XimStep, PTL DEF XimSpec

(* SET_FOCUS ends whatever was composed, so the keys of a composition all  *)
(* come from the client it is delivered to, however late UNSET_FOCUS is.   *)
THEOREM OneContextOnly == XimSpec => []OneContext
<1>1. XimInv => OneContext
  BY DEF XimInv
<1> QED
  BY <1>1, XimInvariant, PTL

(* update_window and the preedit follow every outcome of a key, the empty  *)
(* ones too: the window shows the page of the engine, the focused client   *)
(* its preedit.                                                            *)
THEOREM EngineIsShown == XimSpec => []ShowsTheEngine
<1>1. XimInv => ShowsTheEngine
  BY DEF XimInv
<1> QED
  BY <1>1, XimInvariant, PTL

(* Behind the X11 front end too the engine is in English mode only with    *)
(* nothing composed, its cursor is inside its letters and its undo chain   *)
(* in step: the requests of the clients are keys to it.                    *)
THEOREM EngineKeepsItsWord == XimSpec => [](EnglishIsIdle /\ CursorInLetters /\ UndoMatchesWords)
<1>1. XimInv => EnglishIsIdle /\ CursorInLetters /\ UndoMatchesWords
  BY DEF XimInv, IndInv
<1> QED
  BY <1>1, XimInvariant, PTL
=============================================================================

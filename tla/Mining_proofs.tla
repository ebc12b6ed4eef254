---------------------------- MODULE Mining_proofs ----------------------------
(***************************************************************************)
(* The offline language model for every vocabulary, log, threshold, budget *)
(* and number of minings: a pair seen too seldom never gets in, and while  *)
(* no two minings overlap nothing is counted twice and no evidence is lost *)
(* but that of another reading of a merged pair; a pair without new        *)
(* evidence fades in every round.                                          *)
(***************************************************************************)
EXTENDS Mining, FiniteSetTheorems, FunctionTheorems, SequenceTheorems,
        WellFoundedInduction, TLAPS

----------------------------------------------------------------------------
(* The inductive invariant.                                                *)

(* A commit has at most one row.                                           *)
OneRowEach(S) == \A r, q \in S : r.id = q.id => r = q

LogOK == IsFiniteSet(log) /\ OneRowEach(log)
PlanOK == \A m \in Miners : IsFiniteSet(plan[m]) /\ OneRowEach(plan[m])

(* While no two minings overlap, the rows a miner planned with are still   *)
(* there when it comes to its transaction, and a row that is there was     *)
(* counted on neither path.                                                *)
AloneOK ==
  alone =>
    /\ \A m, n \in Miners : at[m] # "idle" /\ at[n] # "idle" => m = n
    /\ \A m \in Miners : at[m] \in {"planned", "ready"} => plan[m] \subseteq log
    /\ \A r \in log : credit[r.id].ctx = 0 /\ credit[r.id].tail = 0

MiningInv ==
  TypeOK /\ LogOK /\ PlanOK /\ AloneOK /\ TypoStaysOut /\ CountedOnce /\ NothingLost

----------------------------------------------------------------------------
(* Finite sets.                                                            *)

(* A finite set of numbers has a largest one.                              *)
LEMMA FiniteMax ==
  ASSUME NEW S \in SUBSET Nat, IsFiniteSet(S), S # {}
  PROVE  Max(S) \in S /\ \A y \in S : Max(S) >= y
<1> DEFINE Top(U) == \E x \in U : \A y \in U : x >= y
           Bad == {U \in FiniteSubsetsOf(Nat) : U # {} /\ ~Top(U)}
           R == StrictSubsetOrdering(Nat)
<1>1. Bad = {}
  <2> SUFFICES ASSUME Bad # {} PROVE FALSE
    OBVIOUS
  <2>1. IsWellFoundedOn(R, FiniteSubsetsOf(Nat)) /\ Bad \subseteq FiniteSubsetsOf(Nat)
    BY FS_StrictSubsetOrderingWellFounded
  <2> HIDE DEF Bad, R
  <2>2. PICK U \in Bad : \A V \in Bad : ~(<<V, U>> \in R)
    BY <2>1, WFMin
  <2> USE DEF Bad, R
  <2>3. U \in SUBSET Nat /\ IsFiniteSet(U) /\ U # {} /\ ~Top(U)
    BY <2>2 DEF FiniteSubsetsOf
  <2>4. PICK x : x \in U
    BY <2>3
  <2> DEFINE V == U \ {x}
  <2>5. V \in FiniteSubsetsOf(Nat) /\ V \subseteq U /\ V # U
    BY <2>3, <2>4, FS_RemoveElement DEF FiniteSubsetsOf
  <2>6. <<V, U>> \in R
    BY <2>3, <2>5 DEF StrictSubsetOrdering
  <2>7. V = {} \/ Top(V)
    BY <2>2, <2>5, <2>6
  <2>8. CASE V = {}
    <3>1. U = {x} /\ x \in Nat
      BY <2>3, <2>4, <2>8
    <3> QED
      BY <2>3, <3>1
  <2>9. CASE Top(V)
    <3>1. PICK b \in V : \A y \in V : b >= y
      BY <2>9
    <3>2. x \in Nat /\ b \in Nat /\ \A y \in U : y = x \/ y \in V
      BY <2>3, <2>4
    <3>3. CASE b >= x
      BY <2>3, <3>1, <3>2, <3>3
    <3>4. CASE ~(b >= x)
      <4>1. \A y \in U : x >= y
        BY <2>3, <3>1, <3>2, <3>4
      <4> QED
        BY <2>3, <2>4, <4>1
    <3> QED
      BY <3>3, <3>4
  <2> QED
    BY <2>7, <2>8, <2>9
<1>2. S \in FiniteSubsetsOf(Nat)
  BY DEF FiniteSubsetsOf
<1>3. Top(S)
  BY <1>1, <1>2
<1> QED
  BY <1>3 DEF Max

(* INTEGER PRIMARY KEY: the rowid of a new row is that of no row.          *)
LEMMA NewRowid ==
  ASSUME TypeOK, LogOK, NEW n, n = 1 + Max({r.rowid : r \in log} \cup {0})
  PROVE  n \in Nat \ {0} /\ \A r \in log : r.rowid # n
<1> DEFINE T == {r.rowid : r \in log}
           f == [r \in log |-> r.rowid]
<1>1. log \subseteq Rows
  BY DEF TypeOK
<1>2. T \in SUBSET Nat
  BY <1>1 DEF Rows
<1>3. f \in [log -> T] /\ \A t \in T : \E r \in log : f[r] = t
  OBVIOUS
<1>4. f \in Surjection(log, T)
  BY <1>3, Fun_IsSurj
<1>5. IsFiniteSet(T)
  BY <1>4, FS_Surjection DEF LogOK
<1>6. IsFiniteSet(T \cup {0})
  BY <1>5, FS_AddElement
<1> DEFINE U == T \cup {0}
<1>7. U \in SUBSET Nat /\ IsFiniteSet(U) /\ U # {} /\ \A r \in log : r.rowid \in U
  BY <1>2, <1>6
<1> HIDE DEF U
<1>8. Max(U) \in U /\ \A y \in U : Max(U) >= y
  BY <1>7, FiniteMax
<1>9. n = 1 + Max(U)
  BY DEF U
<1>10. PICK t \in Nat : t = Max(U)
  BY <1>7, <1>8
<1>11. \A r \in log : t >= r.rowid /\ r.rowid \in Nat
  BY <1>7, <1>8, <1>10
<1>12. n = 1 + t
  BY <1>9, <1>10
<1>13. \A a, b \in Nat : a >= b => b # 1 + a
  OBVIOUS
<1> QED
  BY <1>10, <1>11, <1>12, <1>13
----------------------------------------------------------------------------
(* What a transaction admits was seen often enough.                        *)

(* Rows of different commits that show a pair are no more than the commits *)
(* that showed it.                                                         *)
LEMMA RowsAreCommits ==
  ASSUME TypeOK, NEW p, NEW S \in SUBSET Rows, OneRowEach(S),
         \A r \in S : Shows(Rec(r), p)
  PROVE  Cardinality(S) <= Cardinality(Showed(p)) /\ IsFiniteSet(Showed(p))
<1>1. Len(commits) \in Nat /\ DOMAIN commits = 1..Len(commits)
  BY DEF TypeOK
<1>2. IsFiniteSet(DOMAIN commits)
  BY <1>1, FS_Interval
<1>3. IsFiniteSet(Showed(p))
  BY <1>2, FS_Subset DEF Showed
<1> DEFINE f == [r \in S |-> r.id]
<1>4. \A r \in S : r.id \in Showed(p)
  BY DEF Rows, Showed, Rec
<1>5. f \in [S -> Showed(p)] /\ \A r, q \in S : f[r] = f[q] => r = q
  BY <1>4 DEF OneRowEach
<1>6. f \in Injection(S, Showed(p))
  BY <1>5, Fun_IsInj
<1> QED
  BY <1>3, <1>6, FS_Injection

(* A pair that the transaction merges was shown by MinAdmission commits,   *)
(* and its count is that of some rows.                                     *)
LEMMA AdmittedWasShown ==
  ASSUME TypeOK, LogOK, PlanOK, NEW m \in Miners
  PROVE  /\ \A p \in CtxAdmitted(m) :
              p \in Pairs /\ Cardinality(CtxRows(p)) \in Nat \ {0}
                /\ Cardinality(Showed(p)) >= MinAdmission
         /\ \A p \in TailAdmitted(m) :
              p \in Pairs /\ Cardinality(TailRows(m, p)) \in Nat \ {0}
                /\ Cardinality(Showed(p)) >= MinAdmission
<1>1. MinAdmission \in Nat \ {0} /\ "none" \notin Vocab
  BY MiningAssumption
<1>2. log \subseteq Rows /\ plan[m] \subseteq Rows
  BY DEF TypeOK
<1>3. ASSUME NEW p \in Pairs, NEW S \in SUBSET Rows, IsFiniteSet(S), OneRowEach(S),
             \A r \in S : Shows(Rec(r), p), Cardinality(S) >= MinAdmission
      PROVE  Cardinality(S) \in Nat \ {0} /\ Cardinality(Showed(p)) >= MinAdmission
  <2>1. Cardinality(S) <= Cardinality(Showed(p)) /\ IsFiniteSet(Showed(p))
    BY <1>3, RowsAreCommits
  <2>2. Cardinality(S) \in Nat /\ Cardinality(Showed(p)) \in Nat
    BY <1>3, <2>1, FS_CardinalityType
  <2>3. \A a, b \in Nat, c \in Nat \ {0} : a >= c /\ a <= b => a \in Nat \ {0} /\ b >= c
    OBVIOUS
  <2> QED
    BY <1>1, <1>3, <2>1, <2>2, <2>3
<1>4. ASSUME NEW p \in CtxAdmitted(m)
      PROVE  p \in Pairs /\ Cardinality(CtxRows(p)) \in Nat \ {0}
               /\ Cardinality(Showed(p)) >= MinAdmission
  <2>1. p \in Pairs /\ Cardinality(CtxRows(p)) >= MinAdmission
    BY DEF CtxAdmitted, Pairs
  <2>2. CtxRows(p) \in SUBSET Rows /\ IsFiniteSet(CtxRows(p)) /\ OneRowEach(CtxRows(p))
    BY <1>2, FS_Subset DEF CtxRows, LogOK, OneRowEach
  <2>3. \A r \in CtxRows(p) : Shows(Rec(r), p)
    BY <1>1, <2>1 DEF CtxRows, Shows, HasCtx, CtxPair, Pairs
  <2> QED
    BY <1>3, <2>1, <2>2, <2>3
<1>5. ASSUME NEW p \in TailAdmitted(m)
      PROVE  p \in Pairs /\ Cardinality(TailRows(m, p)) \in Nat \ {0}
               /\ Cardinality(Showed(p)) >= MinAdmission
  <2>1. p \in Pairs /\ Cardinality(TailRows(m, p)) >= MinAdmission
    BY DEF TailAdmitted, Pairs
  <2>2. /\ TailRows(m, p) \in SUBSET Rows /\ IsFiniteSet(TailRows(m, p))
        /\ OneRowEach(TailRows(m, p))
    BY <1>2, FS_Subset DEF TailRows, PlanOK, OneRowEach
  <2>3. \A r \in TailRows(m, p) : Shows(Rec(r), p)
    BY DEF TailRows, Shows
  <2> QED
    BY <1>3, <2>1, <2>2, <2>3
<1> QED
  BY <1>4, <1>5

----------------------------------------------------------------------------
(* The table of counts.                                                    *)

(* Aging, merging and eviction keep the counts positive.                   *)
LEMMA HalvedCounts ==
  ASSUME TypeOK
  PROVE  \E D \in SUBSET (DOMAIN bigram) : Halved \in CountsOver(D)
<1> DEFINE D == {q \in DOMAIN bigram : bigram[q] \div 2 > 0}
<1>1. \A q \in DOMAIN bigram : bigram[q] \in Nat
  BY DEF TypeOK, CountsOver
<1>2. \A n \in Nat : n \div 2 > 0 => n \div 2 \in Nat \ {0}
  OBVIOUS
<1>3. \A q \in D : bigram[q] \div 2 \in Nat \ {0}
  BY <1>1, <1>2
<1>4. Halved = [q \in D |-> bigram[q] \div 2]
  BY DEF Halved
<1>5. Halved \in CountsOver(D)
  BY <1>3, <1>4 DEF CountsOver
<1> QED
  BY <1>5

LEMMA MergedCounts ==
  ASSUME NEW D, NEW E, NEW b \in CountsOver(D), NEW more \in CountsOver(E)
  PROVE  Merged(b, more) \in CountsOver(D \cup E)
<1> DEFINE v(p) == (IF p \in D THEN b[p] ELSE 0) + (IF p \in E THEN more[p] ELSE 0)
<1>1. \A p \in D \cup E : v(p) \in Nat \ {0}
  <2> SUFFICES ASSUME NEW p \in D \cup E PROVE v(p) \in Nat \ {0}
    OBVIOUS
  <2>1. (p \in D => b[p] \in Nat \ {0}) /\ (p \in E => more[p] \in Nat \ {0})
    BY DEF CountsOver
  <2> QED
    BY <2>1
<1>2. DOMAIN b = D /\ DOMAIN more = E
  BY DEF CountsOver
<1>3. Merged(b, more) = [p \in D \cup E |-> v(p)]
  BY <1>2 DEF Merged
<1> HIDE DEF v
<1> QED
  BY <1>1, <1>3 DEF CountsOver

LEMMA EvictedCounts ==
  ASSUME NEW D, NEW b \in CountsOver(D), NEW e \in Evicted(b)
  PROVE  \E E \in SUBSET D : e \in CountsOver(E)
<1>1. DOMAIN b = D
  BY DEF CountsOver
<1>2. PICK E \in SUBSET D : e = Restrict(b, E)
  BY <1>1 DEF Evicted
<1>3. e \in CountsOver(E)
  BY <1>2 DEF Restrict, CountsOver
<1> QED
  BY <1>3

(* What is in the table after a transaction was there or was admitted.     *)
LEMMA TransactCounts ==
  ASSUME TypeOK, LogOK, PlanOK, NEW m \in Miners, Transact(m)
  PROVE  /\ bigram' \in CountsOver(DOMAIN bigram')
         /\ DOMAIN bigram' \subseteq DOMAIN bigram \cup CtxAdmitted(m) \cup TailAdmitted(m)
<1>1. PICK kept \in Evicted(Merged(Halved, CtxCounts(m))) :
        bigram' = Merged(kept, TailCounts(m))
  BY DEF Transact
<1>2. PICK D \in SUBSET (DOMAIN bigram) : Halved \in CountsOver(D)
  BY HalvedCounts
<1>3. CtxCounts(m) \in CountsOver(CtxAdmitted(m))
  BY AdmittedWasShown DEF CtxCounts, CountsOver
<1>4. TailCounts(m) \in CountsOver(TailAdmitted(m))
  BY AdmittedWasShown DEF TailCounts, CountsOver
<1>5. Merged(Halved, CtxCounts(m)) \in CountsOver(D \cup CtxAdmitted(m))
  BY <1>2, <1>3, MergedCounts
<1>6. PICK E \in SUBSET (D \cup CtxAdmitted(m)) : kept \in CountsOver(E)
  BY <1>5, EvictedCounts
<1>7. bigram' \in CountsOver(E \cup TailAdmitted(m))
  BY <1>1, <1>4, <1>6, MergedCounts
<1>8. DOMAIN bigram' = E \cup TailAdmitted(m)
  BY <1>7 DEF CountsOver
<1> QED
  BY <1>7, <1>8
----------------------------------------------------------------------------
(* What a transaction counts and deletes.                                  *)

Credits == [ctx : Nat, tail : Nat]

(* Rows the two paths count for a commit.                                  *)
CtxCounted(m, i) == \E r \in log : r.id = i /\ CtxPair(Rec(r)) \in CtxAdmitted(m)
TailCounted(m, i) ==
  \E r \in plan[m] : r.id = i /\ HasTail(Rec(r)) /\ TailPair(Rec(r)) \in TailAdmitted(m)

(* A transaction adds one to the credit of what it counted on each path.   *)
LEMMA CreditedFacts ==
  ASSUME TypeOK, NEW m \in Miners
  PROVE  /\ Credited(m) \in [DOMAIN commits -> Credits]
         /\ \A i \in DOMAIN commits :
              /\ Credited(m)[i].ctx = IF CtxCounted(m, i) THEN credit[i].ctx + 1 ELSE credit[i].ctx
              /\ Credited(m)[i].tail = IF TailCounted(m, i) THEN credit[i].tail + 1 ELSE credit[i].tail
<1>1. DOMAIN credit = DOMAIN commits
  BY DEF TypeOK
<1>2. \A i \in DOMAIN commits : credit[i].ctx \in Nat /\ credit[i].tail \in Nat
  BY DEF TypeOK
<1> DEFINE c(i) == credit[i].ctx + (IF CtxCounted(m, i) THEN 1 ELSE 0)
           t(i) == credit[i].tail + (IF TailCounted(m, i) THEN 1 ELSE 0)
<1>3. Credited(m) = [i \in DOMAIN commits |-> [ctx |-> c(i), tail |-> t(i)]]
  BY <1>1 DEF Credited, CtxCounted, TailCounted
<1>4. \A i \in DOMAIN commits :
        /\ c(i) = IF CtxCounted(m, i) THEN credit[i].ctx + 1 ELSE credit[i].ctx
        /\ t(i) = IF TailCounted(m, i) THEN credit[i].tail + 1 ELSE credit[i].tail
        /\ c(i) \in Nat /\ t(i) \in Nat
  BY <1>2
<1> HIDE DEF c, t
<1> QED
  BY <1>3, <1>4 DEF Credits

(* A planned row that goes with a merged pair is counted, or another one   *)
(* is, of the same texts and another reading of the second.                *)
LEMMA GoesWith ==
  ASSUME TypeOK, LogOK, PlanOK, NEW m \in Miners,
         NEW q \in plan[m], HasTail(Rec(q)), NEW p \in TailAdmitted(m),
         TextPair(TailPair(Rec(q))) = TextPair(p)
  PROVE  \E s \in plan[m] :
           /\ HasTail(Rec(s)) /\ TailPair(Rec(s)) = p
           /\ TailPair(Rec(q)) = p \/ Rec(s).text # Rec(q).text
<1>1. Cardinality(TailRows(m, p)) \in Nat \ {0}
  BY AdmittedWasShown
<1>2. TailRows(m, p) # {}
  BY <1>1, FS_EmptySet
<1>3. PICK s \in plan[m] : HasTail(Rec(s)) /\ TailPair(Rec(s)) = p
  BY <1>2 DEF TailRows
<1>4. TextPair(TailPair(Rec(q))) = TextPair(TailPair(Rec(s)))
  BY <1>3
<1>5. \A x, y, u, v : TextPair(<<x, y>>) = TextPair(<<u, v>>) => TextOf[x] = TextOf[u]
  BY DEF TextPair
<1>6. TextOf[Canonical[Rec(q).tail]] = TextOf[Canonical[Rec(s).tail]]
  BY <1>4, <1>5 DEF TailPair
<1>7. Rec(q).tail = Rec(s).tail
  BY <1>3, <1>6, MiningAssumption DEF HasTail
<1>8. Rec(s).text = Rec(q).text => TailPair(Rec(q)) = p
  BY <1>3, <1>7 DEF TailPair
<1> QED
  BY <1>3, <1>8

(* Credits only grow.                                                      *)
LEMMA CreditsGrow ==
  ASSUME TypeOK, NEW m \in Miners, NEW i \in DOMAIN commits
  PROVE  /\ credit[i].ctx + credit[i].tail > 0
              => Credited(m)[i].ctx + Credited(m)[i].tail > 0
         /\ credit[i].tail > 0 => Credited(m)[i].tail > 0
         /\ CtxCounted(m, i) \/ TailCounted(m, i)
              => Credited(m)[i].ctx + Credited(m)[i].tail > 0
         /\ TailCounted(m, i) => Credited(m)[i].tail > 0
<1>1. credit[i].ctx \in Nat /\ credit[i].tail \in Nat
  BY DEF TypeOK
<1>2. \A a, b \in Nat : /\ a + b > 0 => (a + 1) + b > 0 /\ a + (b + 1) > 0 /\ (a + 1) + (b + 1) > 0
                        /\ (a + 1) + b > 0 /\ a + (b + 1) > 0 /\ b + 1 > 0 /\ (a + 1) + (b + 1) > 0
  OBVIOUS
<1> QED
  BY <1>1, <1>2, CreditedFacts

(* While no two minings overlap: a row that stays was counted on neither   *)
(* path, no commit is counted twice, and none that shows a pair is lost.   *)
LEMMA TransactAlone ==
  ASSUME MiningInv, alone, NEW m \in Miners, Transact(m)
  PROVE  /\ \A r \in log' : Credited(m)[r.id].ctx = 0 /\ Credited(m)[r.id].tail = 0
         /\ \A i \in DOMAIN commits : Credited(m)[i].ctx <= 1 /\ Credited(m)[i].tail <= 1
         /\ \A i \in DOMAIN commits :
              HasCtx(commits[i]) \/ commits[i].tail # "none" =>
                \/ \E r \in log' : r.id = i
                \/ Credited(m)[i].ctx + Credited(m)[i].tail > 0
                \/ HasTail(commits[i]) /\ \E j \in DOMAIN commits :
                      /\ HasTail(commits[j]) /\ Credited(m)[j].tail > 0
                      /\ commits[j].text # commits[i].text
                      /\ TextPair(TailPair(commits[j])) = TextPair(TailPair(commits[i]))
<1> USE DEF MiningInv
<1>1. log' = log \ (CtxPurged(m) \cup TailPurged(m)) /\ plan[m] \subseteq log
  BY DEF Transact, AloneOK
<1>2. /\ \A r \in log : credit[r.id].ctx = 0 /\ credit[r.id].tail = 0
      /\ \A r \in log : r.id \in DOMAIN commits
      /\ \A r, q \in log : r.id = q.id \/ r.rowid = q.rowid => r = q
  BY DEF AloneOK, TypeOK, Rows, LogOK, OneRowEach
<1>3. ASSUME NEW r \in log'
      PROVE  Credited(m)[r.id].ctx = 0 /\ Credited(m)[r.id].tail = 0
  <2>1. r \in log /\ r \notin CtxPurged(m) /\ r \notin TailPurged(m)
    BY <1>1
  <2>2. ~CtxCounted(m, r.id)
    <3>1. CtxPair(Rec(r)) \notin CtxAdmitted(m)
      BY <2>1 DEF CtxPurged
    <3> QED
      BY <1>2, <2>1, <3>1 DEF CtxCounted
  <2>3. ~TailCounted(m, r.id)
    <3> SUFFICES ASSUME NEW q \in plan[m], q.id = r.id, HasTail(Rec(q)),
                        TailPair(Rec(q)) \in TailAdmitted(m)
                 PROVE  FALSE
      BY DEF TailCounted
    <3>1. q = r
      BY <1>1, <1>2, <2>1
    <3> QED
      BY <2>1, <3>1 DEF TailPurged
  <2> QED
    BY <1>2, <2>1, <2>2, <2>3, CreditedFacts
<1>4. ASSUME NEW i \in DOMAIN commits
      PROVE  Credited(m)[i].ctx <= 1 /\ Credited(m)[i].tail <= 1
  <2>1. CASE \E r \in log : r.id = i
    <3>1. credit[i].ctx = 0 /\ credit[i].tail = 0
      BY <1>2, <2>1
    <3> QED
      BY <3>1, CreditedFacts
  <2>2. CASE ~\E r \in log : r.id = i
    <3>1. ~CtxCounted(m, i) /\ ~TailCounted(m, i)
      BY <1>1, <2>2 DEF CtxCounted, TailCounted
    <3>2. credit[i].ctx <= 1 /\ credit[i].tail <= 1
      BY DEF CountedOnce, TypeOK
    <3> QED
      BY <3>1, <3>2, CreditedFacts
  <2> QED
    BY <2>1, <2>2
<1>5. ASSUME NEW i \in DOMAIN commits, HasCtx(commits[i]) \/ commits[i].tail # "none"
      PROVE  \/ \E r \in log' : r.id = i
             \/ Credited(m)[i].ctx + Credited(m)[i].tail > 0
             \/ HasTail(commits[i]) /\ \E j \in DOMAIN commits :
                   /\ HasTail(commits[j]) /\ Credited(m)[j].tail > 0
                   /\ commits[j].text # commits[i].text
                   /\ TextPair(TailPair(commits[j])) = TextPair(TailPair(commits[i]))
  <2>1. CASE \E r \in log : r.id = i
    <3>1. PICK r \in log : r.id = i
      BY <2>1
    <3>2. Rec(r) = commits[i]
      BY <3>1 DEF Rec
    <3>3. CASE r \in log'
      BY <3>1, <3>3
    <3>4. CASE r \in CtxPurged(m)
      <4>1. CtxPair(Rec(r)) \in CtxAdmitted(m)
        BY <1>5, <3>2, <3>4 DEF CtxPurged
      <4>2. CtxCounted(m, i)
        BY <3>1, <4>1 DEF CtxCounted
      <4> QED
        BY <4>2, CreditsGrow
    <3>5. CASE r \in TailPurged(m)
      <4>1. PICK q \in plan[m] :
              /\ q.rowid = r.rowid /\ HasTail(Rec(q))
              /\ \E p \in TailAdmitted(m) : TextPair(TailPair(Rec(q))) = TextPair(p)
        BY <3>5 DEF TailPurged
      <4>2. q = r
        BY <1>1, <1>2, <4>1
      <4>3. PICK p \in TailAdmitted(m) : TextPair(TailPair(Rec(q))) = TextPair(p)
        BY <4>1
      <4>4. PICK s \in plan[m] :
              /\ HasTail(Rec(s)) /\ TailPair(Rec(s)) = p
              /\ TailPair(Rec(q)) = p \/ Rec(s).text # Rec(q).text
        BY <4>1, <4>3, GoesWith
      <4>5. CASE TailPair(Rec(q)) = p
        <5>1. TailCounted(m, i)
          BY <3>1, <4>1, <4>2, <4>5 DEF TailCounted
        <5> QED
          BY <5>1, CreditsGrow
      <4>6. CASE Rec(s).text # Rec(q).text
        <5>1. s.id \in DOMAIN commits /\ Rec(s) = commits[s.id]
          BY <1>1, <1>2 DEF Rec
        <5>2. TailCounted(m, s.id)
          BY <4>4 DEF TailCounted
        <5>3. Credited(m)[s.id].tail > 0
          BY <5>1, <5>2, CreditsGrow
        <5>4. Rec(q) = commits[i]
          BY <3>2, <4>2
        <5>5. TextPair(TailPair(commits[s.id])) = TextPair(TailPair(commits[i]))
          BY <4>3, <4>4, <5>1, <5>4
        <5> QED
          BY <4>1, <4>4, <4>6, <5>1, <5>3, <5>4, <5>5
      <4> QED
        BY <4>4, <4>5, <4>6
    <3> QED
      BY <1>1, <3>3, <3>4, <3>5
  <2>2. CASE credit[i].ctx + credit[i].tail > 0
    BY <2>2, CreditsGrow
  <2>3. CASE TakenAlong(i)
    <3>1. PICK j \in DOMAIN commits :
            /\ HasTail(commits[j]) /\ credit[j].tail > 0 /\ commits[j].text # commits[i].text
            /\ TextPair(TailPair(commits[j])) = TextPair(TailPair(commits[i]))
      BY <2>3 DEF TakenAlong
    <3>2. Credited(m)[j].tail > 0
      BY <3>1, CreditsGrow
    <3> QED
      BY <2>3, <3>1, <3>2 DEF TakenAlong
  <2> QED
    BY <1>5, <2>1, <2>2, <2>3 DEF NothingLost
<1> QED
  BY <1>3, <1>4, <1>5

----------------------------------------------------------------------------
(* Each action keeps the invariant.                                        *)

(* The invariant holds at first.                                           *)
LEMMA MiningStart ==
  ASSUME Init
  PROVE  MiningInv
<1>1. DOMAIN commits = {} /\ commits \in Seq(Records)
  BY DEF Init
<1>2. DOMAIN bigram = {}
  BY DEF Init
<1>3. TypeOK
  <2>1. bigram \in CountsOver(DOMAIN bigram)
    BY <1>2 DEF Init, CountsOver
  <2>2. credit \in [DOMAIN commits -> [ctx : Nat, tail : Nat]]
    BY <1>1 DEF Init
  <2>3. at \in [Miners -> Stages] /\ alone \in BOOLEAN
    BY DEF Init, Stages
  <2>4. plan \in [Miners -> SUBSET Rows] /\ accepted \in [Miners -> SUBSET TextPairs]
    BY DEF Init
  <2> QED
    BY <1>1, <1>2, <2>1, <2>2, <2>3, <2>4 DEF Init, TypeOK
<1>4. LogOK /\ PlanOK
  BY FS_EmptySet DEF Init, LogOK, PlanOK, OneRowEach
<1>5. AloneOK
  BY DEF Init, AloneOK
<1>6. TypoStaysOut /\ CountedOnce /\ NothingLost
  BY <1>1, <1>2, <1>3 DEF TypoStaysOut, CountedOnce, NothingLost, TypeOK
<1> QED
  BY <1>3, <1>4, <1>5, <1>6 DEF MiningInv

(* persist_commit_log: the new row is of a commit not counted yet, under a *)
(* rowid of its own.                                                       *)
LEMMA WriteKeeps ==
  ASSUME MiningInv, NEW c \in Records, WriteLog(c)
  PROVE  MiningInv'
<1> DEFINE new == [rowid |-> 1 + Max({r.rowid : r \in log} \cup {0}), id |-> Len(commits) + 1]
<1>1. PICK n \in Nat : n = Len(commits) /\ DOMAIN commits = 1..n
  BY DEF MiningInv, TypeOK
<1>2. /\ commits' \in Seq(Records) /\ DOMAIN commits' = 1..(n + 1)
      /\ \A i \in 1..n : commits'[i] = commits[i]
      /\ commits'[n + 1] = c
  <2>1. commits \in Seq(Records) /\ commits' = Append(commits, c)
    BY DEF MiningInv, TypeOK, WriteLog
  <2> QED
    BY <1>1, <2>1
<1>3. /\ credit' \in [1..(n + 1) -> Credits]
      /\ \A i \in 1..n : credit'[i] = credit[i]
      /\ credit'[n + 1].ctx = 0 /\ credit'[n + 1].tail = 0
  <2> DEFINE zeros == [ctx |-> 0, tail |-> 0]
  <2>1. credit' = Append(credit, zeros) /\ zeros \in Credits /\ zeros.ctx = 0 /\ zeros.tail = 0
    BY DEF WriteLog, Credits
  <2> HIDE DEF zeros
  <2>2. credit \in [1..n -> Credits]
    BY <1>1 DEF MiningInv, TypeOK, Credits
  <2> HIDE DEF MiningInv
  <2>3. credit \in Seq(Credits) /\ Len(credit) = n
    BY <2>2
  <2>4. /\ credit' \in Seq(Credits) /\ Len(credit') = n + 1
        /\ \A i \in 1..n : credit'[i] = credit[i]
        /\ credit'[n + 1] = zeros
    BY <2>1, <2>3
  <2>5. credit' \in [1..(n + 1) -> Credits]
    BY <2>4
  <2> QED
    BY <2>1, <2>4, <2>5
<1>4. /\ log' = log \cup {new} /\ new.id = n + 1
      /\ new.rowid \in Nat \ {0} /\ \A r \in log : r.rowid # new.rowid
  <2>1. log' = log \cup {new} /\ new.id = n + 1
    BY <1>1 DEF WriteLog
  <2> QED
    BY <2>1, NewRowid DEF MiningInv
<1>5. /\ Rows \subseteq Rows' /\ new \in Rows'
      /\ \A r \in Rows : r.id \in 1..n
  BY <1>1, <1>2, <1>4 DEF Rows
<1> HIDE DEF new
<1>6. UNCHANGED <<bigram, phrases, generation, miners, alone>>
  BY DEF WriteLog
<1>7. log \subseteq Rows /\ \A r \in log : r.id # new.id
  BY <1>4, <1>5 DEF MiningInv, TypeOK
<1>8. TypeOK'
  <2>1. log' \subseteq Rows'
    BY <1>4, <1>5, <1>7
  <2>2. \A r, q \in log' : r.rowid = q.rowid => r = q
    BY <1>4 DEF MiningInv, TypeOK
  <2>3. plan' \in [Miners -> SUBSET Rows']
    BY <1>5, <1>6 DEF MiningInv, TypeOK, miners
  <2>4. credit' \in [DOMAIN commits' -> [ctx : Nat, tail : Nat]]
    BY <1>2, <1>3 DEF Credits
  <2> QED
    BY <1>2, <1>6, <2>1, <2>2, <2>3, <2>4 DEF MiningInv, TypeOK, miners
<1>9. LogOK'
  <2>1. IsFiniteSet(log')
    BY <1>4, FS_AddElement DEF MiningInv, LogOK
  <2>2. OneRowEach(log')
    BY <1>4, <1>7 DEF MiningInv, LogOK, OneRowEach
  <2> QED
    BY <2>1, <2>2 DEF LogOK
<1>10. PlanOK'
  BY <1>6 DEF MiningInv, PlanOK, miners
<1>11. AloneOK'
  <2>1. \A r \in log' : alone => credit'[r.id].ctx = 0 /\ credit'[r.id].tail = 0
    BY <1>3, <1>4, <1>5, <1>7 DEF MiningInv, AloneOK
  <2> QED
    BY <1>4, <1>6, <2>1 DEF MiningInv, AloneOK, miners
<1>12. TypoStaysOut'
  <2> SUFFICES ASSUME NEW p \in DOMAIN bigram
               PROVE  Cardinality(Showed(p)') >= MinAdmission
    BY <1>6 DEF TypoStaysOut
  <2>1. Showed(p) \subseteq Showed(p)'
    BY <1>1, <1>2 DEF Showed
  <2>2. IsFiniteSet(Showed(p)')
    <3>1. IsFiniteSet(1..(n + 1))
      BY FS_Interval
    <3>2. Showed(p)' \subseteq 1..(n + 1)
      BY <1>2 DEF Showed
    <3> QED
      BY <3>1, <3>2, FS_Subset
  <2>3. IsFiniteSet(Showed(p)) /\ Cardinality(Showed(p)) <= Cardinality(Showed(p)')
    BY <2>1, <2>2, FS_Subset
  <2>4. Cardinality(Showed(p)) \in Nat /\ Cardinality(Showed(p)') \in Nat
    BY <2>2, <2>3, FS_CardinalityType
  <2>5. Cardinality(Showed(p)) >= MinAdmission /\ MinAdmission \in Nat
    BY MiningAssumption DEF MiningInv, TypoStaysOut
  <2>6. \A a, b, d \in Nat : a >= d /\ a <= b => b >= d
    OBVIOUS
  <2> QED
    BY <2>3, <2>4, <2>5, <2>6
<1>13. CountedOnce'
  <2>1. \A i \in 1..n : alone => credit[i].ctx <= 1 /\ credit[i].tail <= 1
    BY <1>1 DEF MiningInv, CountedOnce, TypeOK
  <2>2. \A i \in 1..(n + 1) : i \in 1..n \/ i = n + 1
    OBVIOUS
  <2>3. DOMAIN credit' = 1..(n + 1)
    BY <1>3
  <2>4. \A i \in 1..(n + 1) : alone => credit'[i].ctx <= 1 /\ credit'[i].tail <= 1
    <3> SUFFICES ASSUME NEW i \in 1..(n + 1), alone
                 PROVE  credit'[i].ctx <= 1 /\ credit'[i].tail <= 1
      OBVIOUS
    <3>1. CASE i \in 1..n
      BY <1>3, <2>1, <3>1
    <3>2. CASE i = n + 1
      BY <1>3, <3>2
    <3> QED
      BY <2>2, <3>1, <3>2
  <2> QED
    BY <1>6, <2>3, <2>4 DEF CountedOnce
<1>14. NothingLost'
  <2> SUFFICES ASSUME alone, NEW i \in 1..(n + 1),
                      (HasCtx(commits[i]) \/ commits[i].tail # "none")'
               PROVE  \/ \E r \in log' : r.id = i
                      \/ credit'[i].ctx + credit'[i].tail > 0
                      \/ TakenAlong(i)'
    BY <1>2, <1>6 DEF NothingLost
  <2>1. CASE i = n + 1
    BY <1>4, <2>1
  <2>2. CASE i \in 1..n
    <3>1. commits'[i] = commits[i] /\ credit'[i] = credit[i]
      BY <1>2, <1>3, <2>2
    <3>2. \/ \E r \in log : r.id = i
          \/ credit[i].ctx + credit[i].tail > 0
          \/ TakenAlong(i)
      BY <1>1, <2>2, <3>1 DEF MiningInv, NothingLost, HasCtx
    <3>3. ASSUME TakenAlong(i) PROVE TakenAlong(i)'
      <4>1. PICK j \in 1..n :
              /\ HasTail(commits[j]) /\ credit[j].tail > 0
              /\ commits[j].text # commits[i].text
              /\ TextPair(TailPair(commits[j])) = TextPair(TailPair(commits[i]))
        BY <1>1, <3>3 DEF TakenAlong
      <4>2. commits'[j] = commits[j] /\ credit'[j] = credit[j] /\ j \in DOMAIN commits'
        BY <1>2, <1>3
      <4>3. HasTail(commits[i])
        BY <3>3 DEF TakenAlong
      <4> QED
        BY <3>1, <4>1, <4>2, <4>3 DEF TakenAlong
    <3> QED
      BY <1>4, <3>1, <3>2, <3>3
  <2>3. i = n + 1 \/ i \in 1..n
    OBVIOUS
  <2> QED
    BY <2>1, <2>2, <2>3
<1> QED
  BY <1>8, <1>9, <1>10, <1>11, <1>12, <1>13, <1>14 DEF MiningInv

(* A step that leaves the log, the table of counts and the history alone   *)
(* has only its miners' stages and plans to answer for.                    *)
MinersOK ==
  /\ \A m, n \in Miners : at[m] # "idle" /\ at[n] # "idle" => m = n
  /\ \A m \in Miners : at[m] \in {"planned", "ready"} => plan[m] \subseteq log

LEMMA QuietKeeps ==
  ASSUME MiningInv, UNCHANGED <<log, bigram, commits, credit>>,
         alone' \in BOOLEAN, alone' => alone,
         phrases' \subseteq Pairs, generation' \in Nat, rounds' \in Nat,
         at' \in [Miners -> Stages], plan' \in [Miners -> SUBSET Rows],
         accepted' \in [Miners -> SUBSET TextPairs],
         PlanOK', alone' => MinersOK'
  PROVE  MiningInv'
<1>1. Rows' = Rows /\ \A p : Showed(p)' = Showed(p)
  BY DEF Rows, Showed
<1>2. TypeOK'
  BY <1>1 DEF MiningInv, TypeOK
<1>3. LogOK' /\ AloneOK'
  BY DEF MiningInv, LogOK, AloneOK, MinersOK
<1>4. TypoStaysOut' /\ CountedOnce'
  BY <1>1 DEF MiningInv, TypoStaysOut, CountedOnce
<1>5. NothingLost'
  <2>1. \A i : TakenAlong(i)' = TakenAlong(i)
    BY DEF TakenAlong
  <2> QED
    BY <2>1 DEF MiningInv, NothingLost
<1> QED
  BY <1>2, <1>3, <1>4, <1>5 DEF MiningInv

(* plan_tail_pairs: the rows it keeps are in the log, and a mining that    *)
(* starts beside another one ends the history without overlap.             *)
LEMMA StartKeeps ==
  ASSUME MiningInv, NEW m \in Miners, Start(m)
  PROVE  MiningInv'
<1> DEFINE chosen == {r \in log : Rec(r).tail # "none"}
<1>1. PICK gated \in Gates :
        /\ accepted' = [accepted EXCEPT ![m] = IF gated THEN {} ELSE TextPairs]
        /\ at' = [at EXCEPT ![m] = IF gated THEN "planned" ELSE "ready"]
  BY DEF Start
<1>2. plan' = [plan EXCEPT ![m] = chosen] /\ chosen \subseteq log
  BY DEF Start
<1>3. /\ IsFiniteSet(chosen) /\ OneRowEach(chosen)
      /\ chosen \in SUBSET Rows
  BY <1>2, FS_Subset DEF MiningInv, LogOK, OneRowEach, TypeOK
<1> HIDE DEF chosen
<1>4. /\ at' \in [Miners -> Stages] /\ accepted' \in [Miners -> SUBSET TextPairs]
      /\ plan' \in [Miners -> SUBSET Rows]
  BY <1>1, <1>2, <1>3 DEF MiningInv, TypeOK, Stages
<1>5. PlanOK'
  BY <1>2, <1>3 DEF MiningInv, PlanOK, TypeOK
<1>6. alone' => MinersOK'
  <2> SUFFICES ASSUME alone' PROVE MinersOK'
    OBVIOUS
  <2>1. \A n \in Miners : at[n] = "idle" /\ log' = log
    BY DEF Start, database
  <2>2. \A n \in Miners : n # m => at'[n] = "idle"
    BY <1>1, <2>1 DEF MiningInv, TypeOK
  <2>3. plan'[m] \subseteq log
    BY <1>2 DEF MiningInv, TypeOK
  <2> QED
    BY <2>1, <2>2, <2>3 DEF MinersOK
<1>7. alone' \in BOOLEAN /\ (alone' => alone)
  BY DEF Start, MiningInv, TypeOK
<1>8. rounds' \in Nat /\ phrases' \subseteq Pairs /\ generation' \in Nat
  BY DEF Start, MiningInv, TypeOK, database
<1> QED
  BY <1>4, <1>5, <1>6, <1>7, <1>8, QuietKeeps DEF Start, database

(* A miner that moves on keeps the rows it planned with or drops them, and *)
(* starts nothing.                                                         *)
LEMMA MoveKeeps ==
  ASSUME MiningInv, NEW m \in Miners, NEW stage \in Stages,
         at' = [at EXCEPT ![m] = stage], at[m] # "idle",
         stage \in {"planned", "ready"} => at[m] \in {"planned", "ready"},
         plan' = plan \/ plan' = [plan EXCEPT ![m] = {}],
         accepted' \in [Miners -> SUBSET TextPairs],
         phrases' \subseteq Pairs, generation' \in Nat,
         UNCHANGED <<log, bigram, commits, credit, rounds, alone>>
  PROVE  MiningInv'
<1>1. \A n \in Miners : plan'[n] \in {plan[n], {}}
  BY DEF MiningInv, TypeOK
<1>2. plan' \in [Miners -> SUBSET Rows] /\ at' \in [Miners -> Stages]
  BY DEF MiningInv, TypeOK
<1>3. PlanOK'
  BY <1>1, FS_EmptySet DEF MiningInv, PlanOK, OneRowEach
<1>4. alone' => MinersOK'
  <2> SUFFICES ASSUME alone PROVE MinersOK'
    OBVIOUS
  <2>1. MinersOK
    BY DEF MiningInv, AloneOK, MinersOK
  <2>2. \A n \in Miners : /\ at'[n] # "idle" => at[n] # "idle"
                          /\ at'[n] \in {"planned", "ready"} => at[n] \in {"planned", "ready"}
    BY DEF MiningInv, TypeOK
  <2> QED
    BY <1>1, <2>1, <2>2 DEF MinersOK
<1>5. alone' \in BOOLEAN /\ rounds' \in Nat
  BY DEF MiningInv, TypeOK
<1> QED
  BY <1>2, <1>3, <1>4, <1>5, QuietKeeps

(* The gate lets through some of the candidates.                           *)
LEMMA GateKeeps ==
  ASSUME MiningInv, NEW m \in Miners, Gate(m)
  PROVE  MiningInv'
<1>1. PICK a \in SUBSET Candidates(m) : accepted' = [accepted EXCEPT ![m] = a]
  BY DEF Gate
<1>2. Candidates(m) \subseteq TextPairs
  BY MiningAssumption DEF Candidates, TextPair, TextPairs
<1>3. accepted' \in [Miners -> SUBSET TextPairs]
  BY <1>1, <1>2 DEF MiningInv, TypeOK
<1>4. "ready" \in Stages /\ phrases' \subseteq Pairs /\ generation' \in Nat
  BY DEF Gate, database, MiningInv, TypeOK, Stages
<1> QED
  BY <1>3, <1>4, MoveKeeps DEF Gate, database

(* mine_phrases: what it learns are pairs of the table.                    *)
LEMMA LearnKeeps ==
  ASSUME MiningInv, NEW m \in Miners, LearnPhrases(m)
  PROVE  MiningInv'
<1>1. phrases' \subseteq Pairs
  BY DEF LearnPhrases, Frequent, MiningInv, TypeOK
<1>2. accepted' \in [Miners -> SUBSET TextPairs] /\ generation' \in Nat /\ "learned" \in Stages
  BY DEF LearnPhrases, MiningInv, TypeOK, Stages
<1> QED
  BY <1>1, <1>2, MoveKeeps DEF LearnPhrases

(* The new generation, or an early end: the miner is idle again.           *)
LEMMA EndKeeps ==
  ASSUME MiningInv, NEW m \in Miners, Bump(m) \/ Fail(m)
  PROVE  MiningInv'
<1>1. /\ at' = [at EXCEPT ![m] = "idle"] /\ plan' = [plan EXCEPT ![m] = {}]
      /\ accepted' = [accepted EXCEPT ![m] = {}] /\ at[m] # "idle"
  BY DEF Bump, Fail, Finished
<1>2. accepted' \in [Miners -> SUBSET TextPairs] /\ "idle" \in Stages
  BY <1>1 DEF MiningInv, TypeOK, Stages
<1>3. phrases' \subseteq Pairs /\ generation' \in Nat
  BY DEF Bump, Fail, database, MiningInv, TypeOK
<1>4. UNCHANGED <<log, bigram, commits, credit, rounds, alone>>
  BY DEF Bump, Fail, database
<1> QED
  BY <1>1, <1>2, <1>3, <1>4, MoveKeeps

(* BEGIN IMMEDIATE ... COMMIT.                                             *)
LEMMA TransactKeeps ==
  ASSUME MiningInv, NEW m \in Miners, Transact(m)
  PROVE  MiningInv'
<1>1. /\ log' \subseteq log /\ credit' = Credited(m)
      /\ at' = [at EXCEPT ![m] = "committed"] /\ at[m] = "ready"
      /\ UNCHANGED <<phrases, generation, plan, accepted, rounds, commits, alone>>
  BY DEF Transact
<1>2. Rows' = Rows /\ \A p : Showed(p)' = Showed(p)
  BY <1>1 DEF Rows, Showed
<1>3. /\ bigram' \in CountsOver(DOMAIN bigram')
      /\ DOMAIN bigram' \subseteq DOMAIN bigram \cup CtxAdmitted(m) \cup TailAdmitted(m)
  BY TransactCounts DEF MiningInv
<1>4. /\ \A p \in CtxAdmitted(m) : p \in Pairs /\ Cardinality(Showed(p)) >= MinAdmission
      /\ \A p \in TailAdmitted(m) : p \in Pairs /\ Cardinality(Showed(p)) >= MinAdmission
  BY AdmittedWasShown DEF MiningInv
<1>5. TypeOK'
  <2>1. DOMAIN bigram' \subseteq Pairs
    BY <1>3, <1>4 DEF MiningInv, TypeOK
  <2>2. at' \in [Miners -> Stages]
    BY <1>1 DEF MiningInv, TypeOK, Stages
  <2>3. credit' \in [DOMAIN commits' -> [ctx : Nat, tail : Nat]]
    BY <1>1, CreditedFacts DEF MiningInv, Credits
  <2>4. log' \subseteq Rows' /\ \A r, q \in log' : r.rowid = q.rowid => r = q
    BY <1>1, <1>2 DEF MiningInv, TypeOK
  <2> QED
    BY <1>1, <1>2, <1>3, <2>1, <2>2, <2>3, <2>4 DEF MiningInv, TypeOK
<1>6. LogOK' /\ PlanOK'
  BY <1>1, FS_Subset DEF MiningInv, LogOK, PlanOK, OneRowEach
<1>7. TypoStaysOut'
  BY <1>2, <1>3, <1>4 DEF MiningInv, TypoStaysOut
<1>8. AloneOK'
  <2> SUFFICES ASSUME alone
               PROVE  /\ \A k, n \in Miners : at'[k] # "idle" /\ at'[n] # "idle" => k = n
                      /\ \A k \in Miners : at'[k] \in {"planned", "ready"} => plan[k] \subseteq log'
                      /\ \A r \in log' : credit'[r.id].ctx = 0 /\ credit'[r.id].tail = 0
    BY <1>1 DEF AloneOK
  <2>1. \A k \in Miners : /\ at'[k] # "idle" => at[k] # "idle"
                          /\ k # m => at'[k] = at[k]
    BY <1>1 DEF MiningInv, TypeOK
  <2>2. at'[m] = "committed"
    BY <1>1 DEF MiningInv, TypeOK
  <2>3. \A k, n \in Miners : at[k] # "idle" /\ at[n] # "idle" => k = n
    BY DEF MiningInv, AloneOK
  <2>4. \A r \in log' : credit'[r.id].ctx = 0 /\ credit'[r.id].tail = 0
    BY <1>1, TransactAlone
  <2>5. \A k, n \in Miners : at'[k] # "idle" /\ at'[n] # "idle" => k = n
    BY <2>1, <2>3
  <2>6. \A k \in Miners : at'[k] \notin {"planned", "ready"}
    <3> SUFFICES ASSUME NEW k \in Miners, k # m
                 PROVE  at'[k] \notin {"planned", "ready"}
      BY <2>2
    <3> QED
      BY <1>1, <2>1, <2>3
  <2> QED
    BY <2>4, <2>5, <2>6
<1>9. CountedOnce'
  <2>1. DOMAIN credit' = DOMAIN commits
    BY <1>1, CreditedFacts DEF MiningInv
  <2> QED
    BY <1>1, <2>1, TransactAlone DEF CountedOnce
<1>10. NothingLost'
  <2> SUFFICES ASSUME alone, NEW i \in DOMAIN commits,
                      HasCtx(commits[i]) \/ commits[i].tail # "none"
               PROVE  \/ \E r \in log' : r.id = i
                      \/ credit'[i].ctx + credit'[i].tail > 0
                      \/ TakenAlong(i)'
    BY <1>1 DEF NothingLost, HasCtx
  <2>1. TakenAlong(i)' <=>
          HasTail(commits[i]) /\ \E j \in DOMAIN commits :
            /\ HasTail(commits[j]) /\ credit'[j].tail > 0
            /\ commits[j].text # commits[i].text
            /\ TextPair(TailPair(commits[j])) = TextPair(TailPair(commits[i]))
    BY <1>1 DEF TakenAlong
  <2> QED
    BY <1>1, <2>1, TransactAlone
<1> QED
  BY <1>5, <1>6, <1>7, <1>8, <1>9, <1>10 DEF MiningInv

(* Every step keeps the invariant.                                         *)
LEMMA MiningStep ==
  ASSUME MiningInv, [Next]_vars
  PROVE  MiningInv'
<1>1. CASE \E c \in Records : WriteLog(c)
  BY <1>1, WriteKeeps
<1>2. ASSUME NEW m \in Miners,
             Start(m) \/ Gate(m) \/ Transact(m) \/ LearnPhrases(m) \/ Bump(m) \/ Fail(m)
      PROVE  MiningInv'
  BY <1>2, StartKeeps, GateKeeps, TransactKeeps, LearnKeeps, EndKeeps
<1>3. CASE UNCHANGED vars
  <2>1. UNCHANGED <<log, bigram, phrases, generation, at, plan, accepted, rounds,
                    commits, credit, alone>>
    BY <1>3 DEF vars, database, miners
  <2>2. alone => MinersOK
    BY DEF MiningInv, AloneOK, MinersOK
  <2>3. PlanOK' /\ (alone' => MinersOK')
    BY <2>1, <2>2 DEF MiningInv, PlanOK, MinersOK
  <2> QED
    BY <2>1, <2>3, QuietKeeps DEF MiningInv, TypeOK
<1> QED
  BY <1>1, <1>2, <1>3 DEF Next

----------------------------------------------------------------------------
(* The credit of a pair is a sum over the commits.                         *)

(* Induction over the natural numbers, for a set.                          *)
LEMMA NatSet ==
  ASSUME NEW T \in SUBSET Nat, 0 \in T, \A n \in T : n + 1 \in T
  PROVE  T = Nat
<1> DEFINE Bad == Nat \ T
           R == {ss \in Nat \X Nat : ss[1] < ss[2]}
<1> SUFFICES ASSUME Bad # {} PROVE FALSE
  OBVIOUS
<1>1. IsWellFoundedOn(R, Nat)
  BY NatLessThanWellFounded DEF OpToRel
<1> HIDE DEF R
<1>2. PICK x \in Bad : \A y \in Bad : ~(<<y, x>> \in R)
  BY <1>1, WFMin
<1> USE DEF R
<1>3. x \in Nat \ {0} /\ x \notin T
  BY <1>2
<1>4. x - 1 \in Nat /\ x - 1 < x /\ (x - 1) + 1 = x
  BY <1>3
<1>5. <<x - 1, x>> \in R
  BY <1>3, <1>4
<1>6. x - 1 \in T
  BY <1>2, <1>4, <1>5
<1> QED
  BY <1>3, <1>4, <1>6

(* The element that a sum over s takes next, and the recursion of the sum. *)
Pick(s) == CHOOSE x \in s : TRUE
Sums(it, f, S) ==
  it = [s \in SUBSET S |-> IF s = {} THEN 0 ELSE f[Pick(s)] + it[s \ {Pick(s)}]]

(* Taking an element away leaves one less.                                 *)
LEMMA PickOne ==
  ASSUME NEW s, IsFiniteSet(s), s # {}
  PROVE  /\ Pick(s) \in s /\ IsFiniteSet(s \ {Pick(s)})
         /\ Cardinality(s) \in Nat \ {0}
         /\ Cardinality(s \ {Pick(s)}) = Cardinality(s) - 1
<1>1. Pick(s) \in s
  BY DEF Pick
<1>2. Cardinality(s) \in Nat /\ Cardinality(s) # 0
  BY FS_CardinalityType, FS_EmptySet
<1> QED
  BY <1>1, <1>2, FS_RemoveElement

(* The sum exists.                                                         *)
LEMMA SumExists ==
  ASSUME NEW S, IsFiniteSet(S), NEW f
  PROVE  \E it : Sums(it, f, S)
<1> DEFINE UpTo(it, n) ==
      it = [s \in SUBSET S |-> IF s = {} \/ Cardinality(s) > n THEN 0
                               ELSE f[Pick(s)] + it[s \ {Pick(s)}]]
           T == {n \in Nat : \E it : UpTo(it, n)}
<1>1. \A s \in SUBSET S : IsFiniteSet(s) /\ Cardinality(s) \in Nat
  BY FS_Subset, FS_CardinalityType
<1>2. \A s \in SUBSET S : s # {} => Cardinality(s) > 0
  <2> SUFFICES ASSUME NEW s \in SUBSET S, s # {} PROVE Cardinality(s) > 0
    OBVIOUS
  <2>1. Cardinality(s) \in Nat \ {0}
    BY <1>1, PickOne
  <2> QED
    BY <2>1
<1>3. 0 \in T
  <2> DEFINE it == [s \in SUBSET S |-> 0]
  <2>1. UpTo(it, 0)
    BY <1>2
  <2> QED
    BY <2>1
<1>4. ASSUME NEW n \in T PROVE n + 1 \in T
  <2>1. PICK it : UpTo(it, n)
    OBVIOUS
  <2> DEFINE next == [s \in SUBSET S |-> IF Cardinality(s) = n + 1
                                         THEN f[Pick(s)] + it[s \ {Pick(s)}] ELSE it[s]]
             new(s) == IF s = {} \/ Cardinality(s) > n + 1 THEN 0
                       ELSE f[Pick(s)] + next[s \ {Pick(s)}]
  <2>2. ASSUME NEW s \in SUBSET S PROVE next[s] = new(s)
    <3>1. it[s] = IF s = {} \/ Cardinality(s) > n THEN 0 ELSE f[Pick(s)] + it[s \ {Pick(s)}]
      BY <2>1
    <3>2. CASE s = {}
      <4>1. Cardinality(s) = 0
        BY <3>2, FS_EmptySet
      <4> QED
        BY <3>1, <3>2, <4>1
    <3>3. CASE s # {}
      <4> DEFINE r == s \ {Pick(s)}
      <4>1. r \in SUBSET S /\ Cardinality(r) = Cardinality(s) - 1 /\ Cardinality(s) \in Nat \ {0}
        BY <1>1, <3>3, PickOne
      <4>2. Cardinality(s) <= n + 1 => next[r] = it[r]
        BY <4>1
      <4> HIDE DEF r
      <4>3. next[s] = IF Cardinality(s) = n + 1 THEN f[Pick(s)] + it[r] ELSE it[s]
        BY DEF r
      <4>4. it[s] = IF Cardinality(s) > n THEN 0 ELSE f[Pick(s)] + it[r]
        BY <3>1, <3>3 DEF r
      <4>5. new(s) = IF Cardinality(s) > n + 1 THEN 0 ELSE f[Pick(s)] + next[r]
        BY <3>3 DEF r
      <4> HIDE DEF next, new
      <4> QED
        BY <4>1, <4>2, <4>3, <4>4, <4>5
    <3> QED
      BY <3>2, <3>3
  <2>3. next = [s \in SUBSET S |-> next[s]]
    OBVIOUS
  <2>4. next = [s \in SUBSET S |-> new(s)]
    BY <2>2, <2>3
  <2>5. UpTo(next, n + 1)
    BY <2>4
  <2> HIDE DEF UpTo, next
  <2> QED
    BY <2>5
<1>5. T = Nat
  <2> HIDE DEF T
  <2>1. T \in SUBSET Nat
    BY DEF T
  <2> QED
    BY <1>3, <1>4, <2>1, NatSet
<1>6. PICK it : UpTo(it, Cardinality(S))
  BY <1>1, <1>5
<1>7. \A s \in SUBSET S : ~(Cardinality(s) > Cardinality(S))
  <2> SUFFICES ASSUME NEW s \in SUBSET S PROVE ~(Cardinality(s) > Cardinality(S))
    OBVIOUS
  <2>1. Cardinality(s) <= Cardinality(S)
    BY FS_Subset
  <2> QED
    BY <1>1, <2>1
<1>8. Sums(it, f, S)
  BY <1>6, <1>7 DEF Sums
<1> QED
  BY <1>8

(* It grows when no part gets less, strictly so when one gets more.        *)
LEMMA SumsGrow ==
  ASSUME NEW S, IsFiniteSet(S), NEW f \in [S -> Nat], NEW g \in [S -> Nat],
         NEW it, NEW jt, Sums(it, f, S), Sums(jt, g, S), \A x \in S : f[x] <= g[x]
  PROVE  it[S] \in Nat /\ jt[S] \in Nat /\ it[S] <= jt[S]
           /\ ((\E x \in S : f[x] < g[x]) => it[S] < jt[S])
<1> DEFINE Grows(s) == it[s] \in Nat /\ jt[s] \in Nat /\ it[s] <= jt[s]
                         /\ ((\E x \in s : f[x] < g[x]) => it[s] < jt[s])
           T == {n \in Nat : \A s \in SUBSET S : Cardinality(s) = n => Grows(s)}
<1>1. \A s \in SUBSET S : IsFiniteSet(s) /\ Cardinality(s) \in Nat
  BY FS_Subset, FS_CardinalityType
<1>2. 0 \in T
  <2>1. \A s \in SUBSET S : Cardinality(s) = 0 => s = {}
    BY <1>1, FS_EmptySet
  <2>2. Grows({})
    BY DEF Sums
  <2> QED
    BY <2>1, <2>2
<1>3. ASSUME NEW n \in T PROVE n + 1 \in T
  <2> SUFFICES ASSUME NEW s \in SUBSET S, Cardinality(s) = n + 1 PROVE Grows(s)
    OBVIOUS
  <2> DEFINE x == Pick(s)
             r == s \ {x}
  <2>1. s # {}
    BY FS_EmptySet
  <2>2. x \in s /\ r \in SUBSET S /\ Cardinality(r) = n
    BY <1>1, <2>1, PickOne
  <2>3. it[s] = f[x] + it[r] /\ jt[s] = g[x] + jt[r]
    BY <2>1 DEF Sums
  <2>4. Grows(r)
    BY <2>2
  <2>5. \A y \in s : y = x \/ y \in r
    OBVIOUS
  <2>6. f[x] \in Nat /\ g[x] \in Nat /\ f[x] <= g[x]
    BY <2>2
  <2> HIDE DEF x, r
  <2>7. it[s] \in Nat /\ jt[s] \in Nat /\ it[s] <= jt[s]
    BY <2>3, <2>4, <2>6
  <2>8. ASSUME NEW y \in s, f[y] < g[y] PROVE it[s] < jt[s]
    <3>1. CASE y = x
      BY <2>3, <2>4, <2>6, <2>8, <3>1
    <3>2. CASE y \in r
      <4>1. it[r] < jt[r]
        BY <2>4, <2>8, <3>2
      <4> QED
        BY <2>3, <2>4, <2>6, <4>1
    <3> QED
      BY <2>5, <3>1, <3>2
  <2> QED
    BY <2>7, <2>8
<1>4. T = Nat
  <2> HIDE DEF T
  <2>1. T \in SUBSET Nat
    BY DEF T
  <2> QED
    BY <1>2, <1>3, <2>1, NatSet
<1>5. Cardinality(S) \in T
  BY <1>1, <1>4
<1>6. Grows(S)
  BY <1>5
<1> QED
  BY <1>6

(* What commit i adds to the credit of p.                                  *)
Part(p, cr, i) ==
  (IF CtxPair(commits[i]) = p THEN cr[i].ctx ELSE 0) +
  (IF HasTail(commits[i]) /\ TailPair(commits[i]) = p THEN cr[i].tail ELSE 0)

Parts(p, cr) == [i \in DOMAIN cr |-> Part(p, cr, i)]

(* CreditOf is the sum of these parts.                                     *)
LEMMA CreditIsSum ==
  ASSUME NEW p, NEW cr, IsFiniteSet(DOMAIN cr)
  PROVE  \E it : Sums(it, Parts(p, cr), DOMAIN cr) /\ CreditOf(p, cr) = it[DOMAIN cr]
<1> DEFINE S == DOMAIN cr
           Fold(it) == it = [s \in SUBSET S |-> IF s = {} THEN 0
                               ELSE Part(p, cr, Pick(s)) + it[s \ {Pick(s)}]]
<1>1. CreditOf(p, cr) = (CHOOSE it : Fold(it))[S]
  BY DEF CreditOf, MapThenSumSet, MapThenFoldSet, Pick, Part
<1>2. \A s \in SUBSET S : s # {} => Pick(s) \in S
  BY DEF Pick
<1>3. \A it : Fold(it) <=> Sums(it, Parts(p, cr), S)
  BY <1>2 DEF Sums, Parts
<1>4. \E it : Fold(it)
  BY <1>3, SumExists
<1>5. Fold(CHOOSE it : Fold(it))
  BY <1>4
<1> QED
  BY <1>1, <1>3, <1>5

(* A transaction that counts a commit for p raises the credit of p.        *)
LEMMA CountingRaises ==
  ASSUME TypeOK, NEW m \in Miners, NEW p, NEW i \in DOMAIN commits,
         \/ CtxPair(commits[i]) = p /\ CtxCounted(m, i)
         \/ HasTail(commits[i]) /\ TailPair(commits[i]) = p /\ TailCounted(m, i)
  PROVE  CreditOf(p, credit) # CreditOf(p, Credited(m))
<1> DEFINE D == DOMAIN commits
           f == Parts(p, credit)
           g == Parts(p, Credited(m))
<1>1. DOMAIN credit = D /\ DOMAIN Credited(m) = D /\ IsFiniteSet(D)
  <2>1. Len(commits) \in Nat /\ D = 1..Len(commits)
    BY DEF TypeOK
  <2>2. IsFiniteSet(D)
    BY <2>1, FS_Interval
  <2>3. DOMAIN credit = D
    BY DEF TypeOK
  <2>4. Credited(m) \in [D -> Credits]
    BY CreditedFacts
  <2> QED
    BY <2>2, <2>3, <2>4
<1>2. \A j \in D : /\ credit[j].ctx \in Nat /\ credit[j].tail \in Nat
                  /\ Credited(m)[j].ctx \in {credit[j].ctx, credit[j].ctx + 1}
                  /\ Credited(m)[j].tail \in {credit[j].tail, credit[j].tail + 1}
  BY CreditedFacts DEF TypeOK
<1>3. /\ CtxCounted(m, i) => Credited(m)[i].ctx = credit[i].ctx + 1
      /\ TailCounted(m, i) => Credited(m)[i].tail = credit[i].tail + 1
  BY CreditedFacts
<1>4. \A j \in D : f[j] = Part(p, credit, j) /\ g[j] = Part(p, Credited(m), j)
  BY <1>1 DEF Parts
<1>5. \A j \in D : f[j] \in Nat /\ g[j] \in Nat /\ f[j] <= g[j]
  BY <1>2, <1>4 DEF Part
<1>6. f[i] < g[i]
  BY <1>2, <1>3, <1>4 DEF Part
<1>7. f \in [D -> Nat] /\ g \in [D -> Nat]
  BY <1>1, <1>5 DEF Parts
<1>8. PICK it : Sums(it, f, D) /\ CreditOf(p, credit) = it[D]
  BY <1>1, CreditIsSum
<1>9. PICK jt : Sums(jt, g, D) /\ CreditOf(p, Credited(m)) = jt[D]
  BY <1>1, CreditIsSum
<1> HIDE DEF f, g
<1>10. it[D] \in Nat /\ jt[D] \in Nat /\ it[D] < jt[D]
  BY <1>1, <1>5, <1>6, <1>7, <1>8, <1>9, SumsGrow
<1> QED
  BY <1>8, <1>9, <1>10

(* So a pair whose credit stays as it was is not among those that merge,   *)
(* and its count is halved.                                                *)
LEMMA TransactFades ==
  ASSUME MiningInv, NEW m \in Miners, Transact(m),
         NEW p \in DOMAIN bigram', p \in DOMAIN bigram,
         CreditOf(p, credit') = CreditOf(p, credit)
  PROVE  bigram'[p] < bigram[p]
<1>1. TypeOK /\ LogOK /\ PlanOK /\ log \subseteq Rows /\ plan[m] \subseteq Rows
  BY DEF MiningInv, TypeOK
<1>2. credit' = Credited(m)
  BY DEF Transact
<1>3. p \notin CtxAdmitted(m)
  <2> SUFFICES ASSUME p \in CtxAdmitted(m) PROVE FALSE
    OBVIOUS
  <2>1. CtxRows(p) # {}
    BY <1>1, AdmittedWasShown, FS_EmptySet
  <2>2. PICK r \in log : CtxPair(Rec(r)) = p
    BY <2>1 DEF CtxRows
  <2>3. r.id \in DOMAIN commits /\ CtxPair(commits[r.id]) = p /\ CtxCounted(m, r.id)
    BY <1>1, <2>2 DEF Rows, Rec, CtxCounted
  <2> QED
    BY <1>1, <1>2, <2>3, CountingRaises
<1>4. p \notin TailAdmitted(m)
  <2> SUFFICES ASSUME p \in TailAdmitted(m) PROVE FALSE
    OBVIOUS
  <2>1. TailRows(m, p) # {}
    BY <1>1, AdmittedWasShown, FS_EmptySet
  <2>2. PICK r \in plan[m] : HasTail(Rec(r)) /\ TailPair(Rec(r)) = p
    BY <2>1 DEF TailRows
  <2>3. /\ r.id \in DOMAIN commits /\ HasTail(commits[r.id])
        /\ TailPair(commits[r.id]) = p /\ TailCounted(m, r.id)
    BY <1>1, <2>2 DEF Rows, Rec, TailCounted
  <2> QED
    BY <1>1, <1>2, <2>3, CountingRaises
<1> DEFINE b == Merged(Halved, CtxCounts(m))
<1>5. PICK kept \in Evicted(b) : bigram' = Merged(kept, TailCounts(m))
  BY DEF Transact
<1>6. DOMAIN TailCounts(m) = TailAdmitted(m) /\ DOMAIN CtxCounts(m) = CtxAdmitted(m)
  BY DEF TailCounts, CtxCounts
<1>7. PICK E \in SUBSET (DOMAIN b) : kept = Restrict(b, E)
  BY <1>5 DEF Evicted
<1>8. p \in DOMAIN kept /\ bigram'[p] = kept[p] + 0
  BY <1>4, <1>5, <1>6 DEF Merged
<1>9. p \in DOMAIN b /\ kept[p] = b[p]
  BY <1>7, <1>8 DEF Restrict
<1>10. p \in DOMAIN Halved /\ b[p] = Halved[p] + 0
  BY <1>3, <1>6, <1>9 DEF Merged
<1>11. Halved[p] = bigram[p] \div 2
  BY <1>10 DEF Halved
<1>12. bigram[p] \in Nat \ {0}
  BY <1>1 DEF TypeOK, CountsOver
<1>13. \A n \in Nat \ {0} : (n \div 2) + 0 + 0 < n
  OBVIOUS
<1> HIDE DEF b
<1> QED
  BY <1>8, <1>9, <1>10, <1>11, <1>12, <1>13

----------------------------------------------------------------------------
(* The invariant holds throughout, whatever is logged and however minings, *)
(* failures and new rows interleave.                                       *)
THEOREM MiningInvariant == Spec => []MiningInv
<1>1. Init => MiningInv
  BY MiningStart
<1>2. MiningInv /\ [Next]_vars => MiningInv'
  BY MiningStep
<1> QED
  BY <1>1, <1>2, PTL DEF Spec

(* Every variable keeps its type: rowids stay unique although a number     *)
(* comes back once the largest row is deleted, and counts stay positive.   *)
THEOREM MiningTypes == Spec => []TypeOK
<1>1. MiningInv => TypeOK
  BY DEF MiningInv
<1> QED
  BY <1>1, MiningInvariant, PTL

(* "A word mistyped once never gets in" (apply_tail_plan, mine_gated): a   *)
(* pair is in the table only when MinAdmission commits showed it, with any *)
(* number of minings at once.                                              *)
THEOREM TypoNeverIn == Spec => []TypoStaysOut
<1>1. MiningInv => TypoStaysOut
  BY DEF MiningInv
<1> QED
  BY <1>1, MiningInvariant, PTL

(* A round deletes what it counted: while no two minings overlap, no       *)
(* commit is counted twice on the same path.                               *)
THEOREM CountedOnceOnly == Spec => []CountedOnce
<1>1. MiningInv => CountedOnce
  BY DEF MiningInv
<1> QED
  BY <1>1, MiningInvariant, PTL

(* A commit that shows a pair stays in the log until it is counted, or     *)
(* goes with another reading of a merged pair.                             *)
THEOREM EvidenceKept == Spec => []NothingLost
<1>1. MiningInv => NothingLost
  BY DEF MiningInv
<1> QED
  BY <1>1, MiningInvariant, PTL

(* Forgetting (mine_gated halves every count first): a pair that no commit *)
(* is counted for in a round goes down, however often it was seen before.  *)
THEOREM UnusedFadeAway == Spec => UnusedFades
<1> DEFINE Fades ==
      bigram' # bigram =>
        \A p \in DOMAIN bigram' :
          p \in DOMAIN bigram /\ CreditOf(p, credit') = CreditOf(p, credit)
            => bigram'[p] < bigram[p]
<1>1. MiningInv /\ [Next]_vars => [Fades]_vars
  <2> SUFFICES ASSUME MiningInv, [Next]_vars, bigram' # bigram PROVE Fades
    OBVIOUS
  <2>1. PICK m \in Miners : Transact(m)
    BY DEF Next, WriteLog, Start, Gate, LearnPhrases, Bump, Fail, vars, database
  <2> QED
    BY <2>1, TransactFades
<1> QED
  BY <1>1, MiningInvariant, PTL DEF Spec, UnusedFades
=============================================================================

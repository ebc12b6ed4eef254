-------------------------- MODULE Dictionary_proofs --------------------------
(***************************************************************************)
(* The dictionary for every set of words, uses, imports and builds: what   *)
(* the vectors, the file and the overlay hold, that memory answers as a    *)
(* fresh open does, that the layers of a prefix lookup keep apart, that the*)
(* file with its overlay answers as the vectors do, and that the words that*)
(* go on from a syllable being typed keep half of the list.                *)
(*                                                                         *)
(* In order: orders and lists that enumerate a set; filters and sorts;     *)
(* vectors in order of reading and what a use does to them; answers of     *)
(* vectors with the same entries; prefixes; merges; folds step by step;    *)
(* the file; the homes of a word together; the layers over the file; lists *)
(* that lead a set (Leads), first merged, then kept by a heap over blocks  *)
(* (Best), then read from the hot table (Hot); the two homes compared;     *)
(* what a list of two layers reaches.                                      *)
(***************************************************************************)
EXTENDS Dictionary, FiniteSetTheorems, FunctionTheorems, SequenceTheorems,
        WellFoundedInduction, TLAPS

----------------------------------------------------------------------------
(* Orders. below[x] is what comes before x.                                *)

WeakOrder(below, S) ==
  /\ below \in [S -> SUBSET S]
  /\ \A x \in S : x \notin below[x]
  /\ \A x, y \in S : y \in below[x] => below[y] \subseteq below[x]
  /\ \A x, y, z \in S : x \in below[z] => x \in below[y] \/ y \in below[z]

TotalOrder(below, S) ==
  /\ WeakOrder(below, S)
  /\ \A x, y \in S : x = y \/ x \in below[y] \/ y \in below[x]

(* A list with every member of a set, each once.                           *)
Enumerates(s, S) ==
  /\ s \in Seq(S)
  /\ \A i, j \in 1..Len(s) : s[i] = s[j] => i = j
  /\ \A x \in S : \E i \in 1..Len(s) : s[i] = x

Ascends(s, below) ==
  \A i, j \in 1..Len(s) : i < j => s[i] \in below[s[j]]

LEMMA EnumeratesCounts ==
  ASSUME NEW S, NEW s, Enumerates(s, S)
  PROVE  /\ IsFiniteSet(S) /\ Len(s) = Cardinality(S)
         /\ Len(s) \in Nat /\ DOMAIN s = 1..Len(s)
         /\ \A i \in 1..Len(s) : s[i] \in S
<1>1. Len(s) \in Nat /\ s \in [1..Len(s) -> S]
  BY DEF Enumerates
<1>2. s \in Bijection(1..Len(s), S)
  BY <1>1 DEF Enumerates, Bijection, Injection, Surjection, IsInjective
<1>3. IsFiniteSet(1..Len(s)) /\ Cardinality(1..Len(s)) = Len(s)
  BY <1>1, FS_Interval
<1>4. ExistsBijection(1..Len(s), S)
  BY <1>2 DEF ExistsBijection
<1> QED
  BY <1>1, <1>3, <1>4, FS_Bijection

(* Members of a finite set in a total order have 0, 1, ... before them.    *)
LEMMA Ranks ==
  ASSUME NEW S, IsFiniteSet(S), NEW below, TotalOrder(below, S)
  PROVE  /\ Cardinality(S) \in Nat
         /\ \A x \in S : Cardinality(below[x]) \in 0..(Cardinality(S) - 1)
         /\ \A x, y \in S : x \in below[y] => Cardinality(below[x]) < Cardinality(below[y])
         /\ \A x, y \in S : Cardinality(below[x]) = Cardinality(below[y]) => x = y
         /\ \A i \in 1..Cardinality(S) : \E x \in S : Cardinality(below[x]) = i - 1
<1> DEFINE n == Cardinality(S)
           f == [x \in S |-> Cardinality(below[x]) + 1]
<1>1. n \in Nat
  BY FS_CardinalityType
<1>2. ASSUME NEW x \in S
      PROVE  /\ IsFiniteSet(below[x]) /\ Cardinality(below[x]) \in 0..(n - 1)
             /\ below[x] \subseteq S
  <2>1. below[x] \in SUBSET (S \ {x})
    BY DEF TotalOrder, WeakOrder
  <2>2. IsFiniteSet(S \ {x}) /\ Cardinality(S \ {x}) = n - 1
    BY FS_RemoveElement
  <2>3. IsFiniteSet(below[x]) /\ Cardinality(below[x]) <= n - 1
    BY <2>1, <2>2, FS_Subset
  <2> QED
    BY <1>1, <2>1, <2>3, FS_CardinalityType
<1>3. ASSUME NEW x \in S, NEW y \in S, x \in below[y]
      PROVE  Cardinality(below[x]) < Cardinality(below[y])
  <2>1. below[x] \in SUBSET below[y] /\ below[x] # below[y]
    BY <1>3 DEF TotalOrder, WeakOrder
  <2>2. Cardinality(below[x]) <= Cardinality(below[y]) /\ Cardinality(below[x]) # Cardinality(below[y])
    BY <1>2, <2>1, FS_Subset
  <2> QED
    BY <1>2, <2>2
<1>4. ASSUME NEW x \in S, NEW y \in S, Cardinality(below[x]) = Cardinality(below[y])
      PROVE  x = y
  <2>1. Cardinality(below[x]) \in Nat /\ Cardinality(below[y]) \in Nat
    BY <1>1, <1>2
  <2> QED
    BY <1>3, <1>4, <2>1 DEF TotalOrder
<1>5. f \in Injection(S, 1..n)
  <2>1. \A x \in S : f[x] = Cardinality(below[x]) + 1 /\ Cardinality(below[x]) \in 0..(n - 1)
    BY <1>2
  <2>2. f \in [S -> 1..n]
    BY <1>1, <2>1
  <2>3. \A x, y \in S : f[x] = f[y] => x = y
    BY <1>1, <2>1, <1>4
  <2> QED
    BY <2>2, <2>3 DEF Injection, IsInjective
<1>6. IsFiniteSet(1..n) /\ Cardinality(1..n) = n
  BY <1>1, FS_Interval
<1>7. f \in Surjection(S, 1..n)
  BY <1>5, <1>6, FS_Injection
<1>8. ASSUME NEW i \in 1..n PROVE \E x \in S : Cardinality(below[x]) = i - 1
  <2>1. PICK x \in S : f[x] = i
    BY <1>7 DEF Surjection
  <2>2. Cardinality(below[x]) \in 0..(n - 1) /\ Cardinality(below[x]) + 1 = i
    BY <1>2, <2>1
  <2> QED
    BY <1>1, <2>2
<1> QED
  BY <1>1, <1>2, <1>3, <1>4, <1>8

LEMMA OrderingFacts ==
  ASSUME NEW S, IsFiniteSet(S), NEW below, TotalOrder(below, S),
         NEW o, o = Ordering(S, below)
  PROVE  Enumerates(o, S) /\ Len(o) = Cardinality(S) /\ Ascends(o, below)
<1> DEFINE n == Cardinality(S)
<1>1. n \in Nat /\ o = [i \in 1..n |-> CHOOSE x \in S : Cardinality(below[x]) = i - 1]
  BY Ranks DEF Ordering
<1>2. ASSUME NEW i \in 1..n PROVE o[i] \in S /\ Cardinality(below[o[i]]) = i - 1
  <2>1. \E x \in S : Cardinality(below[x]) = i - 1
    BY Ranks
  <2>2. o[i] = CHOOSE x \in S : Cardinality(below[x]) = i - 1
    BY <1>1
  <2> QED
    BY <2>1, <2>2
<1> HIDE DEF n
<1>3. o \in Seq(S) /\ Len(o) = n
  <2>1. o \in [1..n -> S]
    BY <1>1, <1>2
  <2> QED
    BY <1>1, <2>1
<1>4. \A i, j \in 1..n : o[i] = o[j] => i = j
  BY <1>1, <1>2
<1>5. ASSUME NEW x \in S PROVE \E i \in 1..n : o[i] = x
  <2>1. Cardinality(below[x]) \in 0..(n - 1)
    BY Ranks DEF n
  <2>2. Cardinality(below[x]) + 1 \in 1..n /\ (Cardinality(below[x]) + 1) - 1 = Cardinality(below[x])
    BY <1>1, <2>1
  <2>3. o[Cardinality(below[x]) + 1] = x
    BY <1>2, <2>2, Ranks
  <2> QED
    BY <2>2, <2>3
<1>6. ASSUME NEW i \in 1..n, NEW j \in 1..n, i < j PROVE o[i] \in below[o[j]]
  <2>1. o[i] \in S /\ o[j] \in S /\ Cardinality(below[o[i]]) = i - 1
        /\ Cardinality(below[o[j]]) = j - 1
    BY <1>2
  <2>2. o[j] \in below[o[i]] => j - 1 < i - 1
    BY <2>1, Ranks
  <2>3. o[i] # o[j]
    <3>1. n \in Nat
      BY <1>1
    <3>2. i # j
      BY <1>6, <3>1
    <3> QED
      BY <1>4, <3>2
  <2> QED
    BY <1>1, <1>6, <2>1, <2>2, <2>3 DEF TotalOrder
<1> QED
  BY <1>3, <1>4, <1>5, <1>6 DEF Enumerates, Ascends, n

(* A set has one ascending list.                                           *)
LEMMA OneOrdering ==
  ASSUME NEW S, NEW below, TotalOrder(below, S),
         NEW s, Enumerates(s, S), Ascends(s, below)
  PROVE  s = Ordering(S, below)
<1> DEFINE n == Cardinality(S)
           o == Ordering(S, below)
<1>1. /\ IsFiniteSet(S) /\ Len(s) = n /\ n \in Nat /\ DOMAIN s = 1..n
      /\ \A i \in 1..n : s[i] \in S
  BY EnumeratesCounts
<1>2. ASSUME NEW i \in 1..n PROVE Cardinality(below[s[i]]) = i - 1
  <2> DEFINE T == 1..(i - 1)
             g == [k \in T |-> s[k]]
  <2>1. T \subseteq 1..n /\ i - 1 \in Nat
    BY <1>1
  <2>2. \A k \in T : s[k] \in below[s[i]]
    BY <1>1, <2>1 DEF Ascends
  <2>3. ASSUME NEW y \in below[s[i]] PROVE \E k \in T : s[k] = y
    <3>1. y \in S /\ s[i] \in S
      BY <1>1 DEF TotalOrder, WeakOrder
    <3>2. PICK k \in 1..n : s[k] = y
      BY <1>1, <3>1 DEF Enumerates
    <3>3. k # i
      BY <3>1, <3>2 DEF TotalOrder, WeakOrder
    <3>4. ~(i < k)
      <4>1. i < k => s[i] \in below[s[k]]
        BY <1>1 DEF Ascends
      <4>2. s[k] \in below[s[i]] /\ s[i] \in below[s[k]] => s[k] \in below[s[k]]
        BY <3>1, <3>2 DEF TotalOrder, WeakOrder
      <4>3. s[k] \notin below[s[k]]
        BY <3>1, <3>2 DEF TotalOrder, WeakOrder
      <4> QED
        BY <3>2, <4>1, <4>2, <4>3
    <3> QED
      BY <1>1, <3>2, <3>3, <3>4
  <2>4. g \in Bijection(T, below[s[i]])
    <3>1. g \in [T -> below[s[i]]]
      BY <2>2
    <3>2. \A k, l \in T : g[k] = g[l] => k = l
      BY <1>1, <2>1 DEF Enumerates
    <3>3. \A y \in below[s[i]] : \E k \in T : g[k] = y
      BY <2>3
    <3> QED
      BY <3>1, <3>2, <3>3 DEF Bijection, Injection, Surjection, IsInjective
  <2>5. IsFiniteSet(T) /\ Cardinality(T) = i - 1
    BY <2>1, FS_Interval
  <2>6. ExistsBijection(T, below[s[i]])
    BY <2>4 DEF ExistsBijection
  <2> QED
    BY <2>5, <2>6, FS_Bijection
<1>3. Enumerates(o, S) /\ Len(o) = n
  BY <1>1, OrderingFacts
<1>4. ASSUME NEW i \in 1..n PROVE s[i] = o[i]
  <2>1. o[i] = CHOOSE x \in S : Cardinality(below[x]) = i - 1
    BY DEF Ordering
  <2>2. o[i] \in S /\ Cardinality(below[o[i]]) = i - 1
    BY <1>1, <1>2, <2>1
  <2> QED
    BY <1>1, <1>2, <2>2, Ranks
<1>5. s \in Seq(S) /\ o \in Seq(S)
  BY <1>3 DEF Enumerates
<1> QED
  BY <1>1, <1>3, <1>4, <1>5, SeqEqual

----------------------------------------------------------------------------
(* Filters and sorts. at says which positions a list was made from.        *)

MadeFrom(t, s, at) ==
  /\ Len(t) = Len(at) /\ DOMAIN t = 1..Len(t)
  /\ \A n \in 1..Len(t) : t[n] = s[at[n]]

Increases(at) == \A m, n \in 1..Len(at) : m < n => at[m] < at[n]

LEMMA PicksFacts ==
  ASSUME NEW S, NEW s \in Seq(S), NEW P \in SUBSET (1..Len(s))
  PROVE  /\ Picks(s, P) \in Seq(S)
         /\ \E at : Enumerates(at, P) /\ Increases(at) /\ MadeFrom(Picks(s, P), s, at)
<1> DEFINE below == [i \in P |-> {j \in P : j < i}]
           at == Ordering(P, below)
<1>1. P \subseteq Nat /\ IsFiniteSet(P) /\ Len(s) \in Nat
  <2>1. Len(s) \in Nat
    OBVIOUS
  <2>2. IsFiniteSet(1..Len(s))
    BY <2>1, FS_Interval
  <2>3. P \subseteq Nat
    BY <2>1
  <2> QED
    BY <2>1, <2>2, <2>3, FS_Subset
<1>2. TotalOrder(below, P)
  <2>1. below \in [P -> SUBSET P]
    OBVIOUS
  <2>2. \A i, j \in P : j \in below[i] <=> j < i
    OBVIOUS
  <2> HIDE DEF below
  <2>3. WeakOrder(below, P)
    <3>1. \A x, y \in P : y \in below[x] => below[y] \subseteq below[x]
      BY <1>1, <2>1, <2>2
    <3> QED
      BY <1>1, <2>1, <2>2, <3>1 DEF WeakOrder
  <2> QED
    BY <1>1, <2>2, <2>3 DEF TotalOrder
<1>3. InOrder(P, <) = at
  BY DEF InOrder
<1>4. Enumerates(at, P) /\ Ascends(at, below)
  BY <1>1, <1>2, OrderingFacts
<1>5. /\ Len(at) \in Nat /\ DOMAIN at = 1..Len(at) /\ \A n \in 1..Len(at) : at[n] \in P
  BY <1>4, EnumeratesCounts
<1>6. Picks(s, P) = [n \in DOMAIN at |-> s[at[n]]]
  BY <1>3 DEF Picks
<1> HIDE DEF at
<1>7. Picks(s, P) = [n \in 1..Len(at) |-> s[at[n]]]
  BY <1>5, <1>6
<1>8. Picks(s, P) \in Seq(S) /\ MadeFrom(Picks(s, P), s, at)
  <2>1. \A n \in 1..Len(at) : s[at[n]] \in S
    <3>1. \A i \in 1..Len(s) : s[i] \in S
      OBVIOUS
    <3> QED
      BY <1>5, <3>1
  <2>2. Picks(s, P) \in [1..Len(at) -> S]
    BY <1>7, <2>1
  <2>3. Picks(s, P) \in Seq(S) /\ Len(Picks(s, P)) = Len(at)
    BY <1>5, <2>2
  <2> QED
    BY <1>5, <1>7, <2>3 DEF MadeFrom
<1>9. Increases(at)
  BY <1>4, <1>5 DEF Ascends, Increases
<1> QED
  BY <1>4, <1>8, <1>9

(* A filter of a list of different members.                                *)
LEMMA PicksEnumerates ==
  ASSUME NEW S, NEW s, Enumerates(s, S), NEW P \in SUBSET (1..Len(s))
  PROVE  Enumerates(Picks(s, P), {s[i] : i \in P})
<1> DEFINE t == Picks(s, P)
           T == {s[i] : i \in P}
<1>1. s \in Seq(S) /\ Len(s) \in Nat
  BY EnumeratesCounts DEF Enumerates
<1>2. PICK at : Enumerates(at, P) /\ Increases(at) /\ MadeFrom(t, s, at)
  BY <1>1, PicksFacts
<1>3. t \in Seq(S) /\ Len(t) \in Nat /\ Len(t) = Len(at)
  BY <1>1, <1>2, PicksFacts DEF MadeFrom
<1>4. \A n \in 1..Len(t) : at[n] \in P /\ t[n] = s[at[n]]
  BY <1>2, <1>3, EnumeratesCounts DEF MadeFrom
<1> HIDE DEF t
<1>5. t \in Seq(T)
  <2>1. \A n \in 1..Len(t) : t[n] \in T
    BY <1>4
  <2>2. t = [n \in 1..Len(t) |-> t[n]]
    BY <1>3
  <2> HIDE DEF T
  <2>3. t \in [1..Len(t) -> T]
    BY <2>1, <2>2
  <2> QED
    BY <1>3, <2>3
<1>6. \A m, n \in 1..Len(t) : t[m] = t[n] => m = n
  <2>1. \A i, j \in P : s[i] = s[j] => i = j
    BY DEF Enumerates
  <2>2. \A m, n \in 1..Len(t) : at[m] = at[n] => m = n
    BY <1>2, <1>3 DEF Enumerates
  <2>3. ASSUME NEW m \in 1..Len(t), NEW n \in 1..Len(t), t[m] = t[n] PROVE m = n
    <3>1. at[m] \in P /\ at[n] \in P /\ s[at[m]] = s[at[n]]
      BY <1>4, <2>3
    <3>2. at[m] = at[n]
      BY <2>1, <3>1
    <3> QED
      BY <2>2, <3>2
  <2> QED
    BY <2>3
<1>7. ASSUME NEW x \in T PROVE \E n \in 1..Len(t) : t[n] = x
  <2>1. PICK i \in P : x = s[i]
    OBVIOUS
  <2>2. PICK n \in 1..Len(at) : at[n] = i
    BY <1>2 DEF Enumerates
  <2> QED
    BY <1>3, <1>4, <2>1, <2>2
<1> QED
  BY <1>5, <1>6, <1>7 DEF Enumerates, t

(* What a stable sort puts before each position.                           *)
Stable(s, below) ==
  [j \in 1..Len(s) |->
     {i \in 1..Len(s) : s[i] \in below[s[j]] \/ (s[j] \notin below[s[i]] /\ i < j)}]

LEMMA StableIsTotal ==
  ASSUME NEW S, NEW s \in Seq(S), NEW below, WeakOrder(below, S)
  PROVE  TotalOrder(Stable(s, below), 1..Len(s))
<1> DEFINE n == Len(s)
           B == Stable(s, below)
<1>1. n \in Nat /\ \A i \in 1..n : s[i] \in S
  OBVIOUS
<1>2. \A i, j \in 1..n : i \in B[j] <=> s[i] \in below[s[j]] \/ (s[j] \notin below[s[i]] /\ i < j)
  BY DEF Stable
<1>3. B \in [1..n -> SUBSET (1..n)]
  BY DEF Stable
<1> HIDE DEF B
<1>4. \A i \in 1..n : i \notin B[i]
  BY <1>1, <1>2 DEF WeakOrder
<1>5. ASSUME NEW i \in 1..n, NEW j \in 1..n, NEW k \in 1..n, i \in B[j], j \in B[k]
      PROVE  i \in B[k]
  <2>1. s[i] \in S /\ s[j] \in S /\ s[k] \in S
    BY <1>1
  <2>2. s[i] \in below[s[j]] /\ s[j] \in below[s[k]] => s[i] \in below[s[k]]
    BY <2>1 DEF WeakOrder
  <2>3. s[k] \in below[s[i]] => s[k] \in below[s[j]] \/ s[j] \in below[s[i]]
    BY <2>1 DEF WeakOrder
  <2>4. s[i] \in below[s[j]] => s[i] \in below[s[k]] \/ s[k] \in below[s[j]]
    BY <2>1 DEF WeakOrder
  <2>5. s[j] \in below[s[k]] => s[j] \in below[s[i]] \/ s[i] \in below[s[k]]
    BY <2>1 DEF WeakOrder
  <2>6. \A a, b \in S : ~(a \in below[b] /\ b \in below[a])
    BY DEF WeakOrder
  <2>7. CASE s[i] \in below[s[k]]
    BY <1>2, <2>7
  <2>8. CASE s[i] \notin below[s[k]]
    <3>1. s[k] \notin below[s[i]] /\ i < j /\ j < k
      BY <1>2, <1>5, <2>1, <2>2, <2>3, <2>4, <2>5, <2>6, <2>8
    <3> QED
      BY <1>1, <1>2, <3>1
  <2> QED
    BY <2>7, <2>8
<1>6. \A i, j \in 1..n : i = j \/ i \in B[j] \/ j \in B[i]
  BY <1>1, <1>2
<1>7. \A i, j, k \in 1..n : i \in B[k] => i \in B[j] \/ j \in B[k]
  BY <1>5, <1>6
<1>8. \A k, j \in 1..n : j \in B[k] => B[j] \subseteq B[k]
  BY <1>3, <1>5
<1> QED
  BY <1>3, <1>4, <1>6, <1>7, <1>8 DEF TotalOrder, WeakOrder, B

Arrangement(s, below) ==
  LET at == Ordering(1..Len(s), Stable(s, below))
  IN  [n \in DOMAIN at |-> s[at[n]]]

LEMMA StableSort ==
  ASSUME NEW S, NEW s \in Seq(S), NEW below, WeakOrder(below, S)
  PROVE  /\ Arrangement(s, below) \in Seq(S) /\ Len(Arrangement(s, below)) = Len(s)
         /\ \E at :
              /\ Enumerates(at, 1..Len(s)) /\ MadeFrom(Arrangement(s, below), s, at)
              /\ \A m, n \in 1..Len(s) : m < n =>
                   LET x == Arrangement(s, below)[m]
                       y == Arrangement(s, below)[n]
                   IN  x \in below[y] \/ (y \notin below[x] /\ at[m] < at[n])
<1> DEFINE at == Ordering(1..Len(s), Stable(s, below))
           t == Arrangement(s, below)
<1> DEFINE n == Len(s)
<1>1. n \in Nat /\ \A i \in 1..n : s[i] \in S
  OBVIOUS
<1>2. IsFiniteSet(1..n) /\ Cardinality(1..n) = n
  <2>1. n \in Nat
    OBVIOUS
  <2> HIDE DEF n
  <2> QED
    BY <2>1, FS_Interval
<1>3. Enumerates(at, 1..n) /\ Len(at) = n /\ Ascends(at, Stable(s, below))
  BY <1>2, StableIsTotal, OrderingFacts
<1>4. DOMAIN at = 1..n /\ \A k \in 1..n : at[k] \in 1..n
  BY <1>3, EnumeratesCounts
<1>5. t = [k \in 1..n |-> s[at[k]]]
  BY <1>4 DEF Arrangement
<1> HIDE DEF t, at
<1>6. t \in [1..n -> S]
  BY <1>1, <1>4, <1>5
<1>7. t \in Seq(S) /\ Len(t) = n /\ DOMAIN t = 1..n
  BY <1>1, <1>6
<1>8. MadeFrom(t, s, at)
  BY <1>3, <1>5, <1>7 DEF MadeFrom
<1>9. ASSUME NEW k \in 1..n, NEW l \in 1..n, k < l
      PROVE  t[k] \in below[t[l]] \/ (t[l] \notin below[t[k]] /\ at[k] < at[l])
  <2>1. at[k] \in Stable(s, below)[at[l]]
    BY <1>3, <1>9 DEF Ascends
  <2>2. at[k] \in 1..n /\ at[l] \in 1..n /\ t[k] = s[at[k]] /\ t[l] = s[at[l]]
    BY <1>4, <1>5
  <2> QED
    BY <2>1, <2>2 DEF Stable
<1> QED
  BY <1>3, <1>7, <1>8, <1>9 DEF t

----------------------------------------------------------------------------
(* The orders of the dictionary.                                           *)

LEMMA BeforeIrreflexive ==
  ASSUME NEW s \in Seq(Nat)
  PROVE  ~Before(s, s)
BY DEF Before

LEMMA LessIsTransitive ==
  ASSUME NEW a \in Nat, NEW b \in Nat, NEW c \in Nat, a < b, b < c
  PROVE  a < c
OBVIOUS

LEMMA BeforeTransitive ==
  ASSUME NEW s \in Seq(Nat), NEW t \in Seq(Nat), NEW u \in Seq(Nat),
         Before(s, t), Before(t, u)
  PROVE  Before(s, u)
<1>1. PICK i \in 1..Len(t) :
        /\ \A k \in 1..(i - 1) : k <= Len(s) /\ s[k] = t[k]
        /\ i > Len(s) \/ s[i] < t[i]
  BY DEF Before
<1>2. PICK j \in 1..Len(u) :
        /\ \A k \in 1..(j - 1) : k <= Len(t) /\ t[k] = u[k]
        /\ j > Len(t) \/ t[j] < u[j]
  BY DEF Before
<1>3. /\ Len(s) \in Nat /\ Len(t) \in Nat /\ Len(u) \in Nat
      /\ \A k \in 1..Len(s) : s[k] \in Nat
      /\ \A k \in 1..Len(t) : t[k] \in Nat
      /\ \A k \in 1..Len(u) : u[k] \in Nat
  OBVIOUS
<1>4. CASE i < j
  <2>1. i \in 1..Len(u) /\ i \in 1..(j - 1)
    BY <1>1, <1>2, <1>3, <1>4
  <2>2. t[i] = u[i] /\ \A k \in 1..(i - 1) : k <= Len(s) /\ s[k] = u[k]
    BY <1>1, <1>2, <1>3, <1>4, <2>1
  <2> QED
    BY <1>1, <2>1, <2>2 DEF Before
<1>5. CASE j < i
  <2>1. j \in 1..(i - 1) /\ j <= Len(t) /\ j \in 1..Len(s)
    BY <1>1, <1>2, <1>3, <1>5
  <2>2. s[j] = t[j] /\ t[j] < u[j]
    BY <1>1, <1>2, <1>3, <2>1
  <2>3. \A k \in 1..(j - 1) : k <= Len(s) /\ s[k] = u[k]
    <3>1. \A k \in 1..(j - 1) : k \in 1..(i - 1)
      BY <1>5
    <3> QED
      BY <1>1, <1>2, <3>1
  <2> QED
    BY <1>2, <2>2, <2>3 DEF Before
<1>6. CASE i = j
  <2>1. t[i] < u[i]
    BY <1>1, <1>2, <1>3, <1>6
  <2>2. i > Len(s) \/ s[i] < u[i]
    <3>1. i > Len(s) \/ (i \in 1..Len(s) /\ s[i] < t[i])
      BY <1>1, <1>3
    <3>2. i \in 1..Len(u) /\ i \in 1..Len(t)
      BY <1>2, <1>6
    <3>3. ASSUME i \in 1..Len(s), s[i] < t[i] PROVE s[i] < u[i]
      <4>1. t[i] \in Nat /\ u[i] \in Nat /\ s[i] \in Nat
        BY <1>3, <3>2, <3>3
      <4> QED
        BY <2>1, <3>3, <4>1, LessIsTransitive
    <3> QED
      BY <3>1, <3>3
  <2>3. \A k \in 1..(i - 1) : k <= Len(s) /\ s[k] = u[k]
    BY <1>1, <1>2, <1>6
  <2> QED
    BY <1>2, <1>6, <2>2, <2>3 DEF Before
<1> QED
  BY <1>1, <1>2, <1>4, <1>5, <1>6

LEMMA LeastOf ==
  ASSUME NEW D \in SUBSET Nat, D # {}
  PROVE  \E i \in D : \A k \in D : i <= k
<1> DEFINE R == {ss \in Nat \X Nat : ss[1] < ss[2]}
<1>1. IsWellFoundedOn(R, Nat)
  BY NatLessThanWellFounded DEF OpToRel
<1> HIDE DEF R
<1>2. PICK i \in D : \A k \in D : ~(<<k, i>> \in R)
  BY <1>1, WFMin
<1> USE DEF R
<1>3. \A k \in D : ~(k < i)
  BY <1>2
<1> QED
  BY <1>3

LEMMA BeforeTotal ==
  ASSUME NEW s \in Seq(Nat), NEW t \in Seq(Nat)
  PROVE  s = t \/ Before(s, t) \/ Before(t, s)
<1> DEFINE D == {i \in Nat : i > 0 /\ (i > Len(s) \/ i > Len(t) \/ s[i] # t[i])}
<1>1. /\ Len(s) \in Nat /\ Len(t) \in Nat
      /\ \A k \in 1..Len(s) : s[k] \in Nat
      /\ \A k \in 1..Len(t) : t[k] \in Nat
  OBVIOUS
<1>2. D \in SUBSET Nat /\ Len(s) + 1 \in D
  BY <1>1
<1>3. PICK i \in D : \A k \in D : i <= k
  <2> HIDE DEF D
  <2> QED
    BY <1>2, LeastOf
<1>4. \A k \in 1..(i - 1) : k <= Len(s) /\ k <= Len(t) /\ s[k] = t[k]
  <2>1. ASSUME NEW k \in 1..(i - 1) PROVE k \notin D
    BY <1>3
  <2> QED
    BY <1>1, <2>1
<1>5. CASE i <= Len(s) /\ i <= Len(t)
  <2>1. s[i] < t[i] \/ t[i] < s[i]
    BY <1>1, <1>3, <1>5
  <2>2. i \in 1..Len(s) /\ i \in 1..Len(t)
    BY <1>1, <1>3, <1>5
  <2> QED
    BY <1>4, <2>1, <2>2 DEF Before
<1>6. CASE i > Len(s) /\ i <= Len(t)
  <2>1. i \in 1..Len(t)
    BY <1>1, <1>3, <1>6
  <2> QED
    BY <1>4, <1>6, <2>1 DEF Before
<1>7. CASE i <= Len(s) /\ i > Len(t)
  <2>1. i \in 1..Len(s)
    BY <1>1, <1>3, <1>7
  <2> QED
    BY <1>4, <1>7, <2>1 DEF Before
<1>8. CASE i > Len(s) /\ i > Len(t)
  <2>1. Len(s) = Len(t)
    <3>1. ~(Len(s) < Len(t))
      BY <1>1, <1>4, <1>8
    <3>2. ~(Len(t) < Len(s))
      BY <1>1, <1>4, <1>8
    <3> QED
      BY <1>1, <3>1, <3>2
  <2>2. \A k \in 1..Len(s) : s[k] = t[k]
    BY <1>1, <1>3, <1>4, <1>8
  <2> QED
    BY <2>1, <2>2, SeqEqual
<1> QED
  BY <1>1, <1>3, <1>5, <1>6, <1>7, <1>8

Below(S, Less(_, _)) == [x \in S |-> {y \in S : Less(y, x)}]

LEMMA RankIsWeak ==
  ASSUME NEW S, \A x \in S : x.eff \in Nat /\ x.text \in Nat
  PROVE  WeakOrder(Below(S, ByRank), S)
<1>1. Below(S, ByRank) \in [S -> SUBSET S]
  BY DEF Below
<1>2. \A x, y \in S : y \in Below(S, ByRank)[x] <=> ByRank(y, x)
  BY DEF Below
<1>3. \A x \in S : ~ByRank(x, x)
  BY DEF ByRank
<1>4. \A x, y, z \in S : ByRank(x, y) /\ ByRank(y, z) => ByRank(x, z)
  BY DEF ByRank
<1>5. \A x, y, z \in S : ByRank(x, z) => ByRank(x, y) \/ ByRank(y, z)
  BY DEF ByRank
<1> QED
  BY <1>1, <1>2, <1>3, <1>4, <1>5 DEF WeakOrder

LEMMA PinyinFreqIsTotal ==
  ASSUME NEW S,
         \A x \in S : x.pinyin \in Seq(Nat) /\ x.freq \in Nat /\ x.text \in Nat,
         \A x, y \in S : Word(x) = Word(y) => x = y
  PROVE  TotalOrder(Below(S, ByPinyinFreq), S)
<1> DEFINE B == Below(S, ByPinyinFreq)
<1>1. B \in [S -> SUBSET S]
  BY DEF Below
<1>2. \A x, y \in S : y \in B[x] <=> ByPinyinFreq(y, x)
  BY DEF Below
<1>3. \A x \in S : ~ByPinyinFreq(x, x)
  BY BeforeIrreflexive DEF ByPinyinFreq, ByFreq
<1>4. ASSUME NEW x \in S, NEW y \in S, NEW z \in S, ByPinyinFreq(x, y), ByPinyinFreq(y, z)
      PROVE  ByPinyinFreq(x, z)
  <2>1. Before(x.pinyin, y.pinyin) /\ Before(y.pinyin, z.pinyin) => Before(x.pinyin, z.pinyin)
    BY BeforeTransitive
  <2>2. ByFreq(x, y) /\ ByFreq(y, z) => ByFreq(x, z)
    BY DEF ByFreq
  <2> QED
    BY <1>4, <2>1, <2>2 DEF ByPinyinFreq
<1>5. ASSUME NEW x \in S, NEW y \in S PROVE x = y \/ ByPinyinFreq(x, y) \/ ByPinyinFreq(y, x)
  <2>1. x.pinyin = y.pinyin \/ Before(x.pinyin, y.pinyin) \/ Before(y.pinyin, x.pinyin)
    BY BeforeTotal
  <2>2. x.text = y.text \/ ByFreq(x, y) \/ ByFreq(y, x)
    BY DEF ByFreq
  <2> QED
    BY <2>1, <2>2 DEF ByPinyinFreq, Word
<1> HIDE DEF B
<1>6. WeakOrder(B, S)
  BY <1>1, <1>2, <1>3, <1>4, <1>5 DEF WeakOrder
<1> QED
  BY <1>2, <1>5, <1>6 DEF TotalOrder, B

(* Sorting by rank.                                                        *)
LEMMA SortedByRank ==
  ASSUME NEW S, \A x \in S : x.eff \in Nat /\ x.text \in Nat, NEW s \in Seq(S)
  PROVE  /\ Sorted(s, ByRank) \in Seq(S) /\ Len(Sorted(s, ByRank)) = Len(s)
         /\ \E at : /\ Enumerates(at, 1..Len(s)) /\ MadeFrom(Sorted(s, ByRank), s, at)
                    /\ \A m, n \in 1..Len(s) : m < n =>
                         LET x == Sorted(s, ByRank)[m]
                             y == Sorted(s, ByRank)[n]
                         IN  ByRank(x, y) \/ (~ByRank(y, x) /\ at[m] < at[n])
<1> DEFINE B == Below(S, ByRank)
           t == Arrangement(s, B)
<1>1. WeakOrder(B, S)
  BY RankIsWeak
<1>2. DOMAIN s = 1..Len(s) /\ \A i \in 1..Len(s) : s[i] \in S
  OBVIOUS
<1>3. \A x, y \in S : y \in B[x] <=> ByRank(y, x)
  BY DEF Below
<1>4. Stable(s, B) = [j \in DOMAIN s |-> {i \in DOMAIN s :
                        ByRank(s[i], s[j]) \/ (~ByRank(s[j], s[i]) /\ i < j)}]
  <2>1. \A i, j \in 1..Len(s) : /\ s[i] \in B[s[j]] <=> ByRank(s[i], s[j])
                                /\ s[j] \in B[s[i]] <=> ByRank(s[j], s[i])
    BY <1>2, <1>3
  <2>2. \A j \in 1..Len(s) :
          {i \in 1..Len(s) : s[i] \in B[s[j]] \/ (s[j] \notin B[s[i]] /\ i < j)}
            = {i \in 1..Len(s) : ByRank(s[i], s[j]) \/ (~ByRank(s[j], s[i]) /\ i < j)}
    BY <2>1
  <2> QED
    BY <1>2, <2>2 DEF Stable
<1>5. Sorted(s, ByRank) = t
  BY <1>2, <1>4 DEF Sorted, Arrangement
<1> HIDE DEF B
<1>6. /\ t \in Seq(S) /\ Len(t) = Len(s)
      /\ \E at : /\ Enumerates(at, 1..Len(s)) /\ MadeFrom(t, s, at)
                 /\ \A m, n \in 1..Len(s) : m < n =>
                      t[m] \in B[t[n]] \/ (t[n] \notin B[t[m]] /\ at[m] < at[n])
  BY <1>1, StableSort
<1> HIDE DEF t
<1>7. \A n \in 1..Len(s) : t[n] \in S
  BY <1>6
<1>8. \A m, n \in 1..Len(s) : /\ t[m] \in B[t[n]] <=> ByRank(t[m], t[n])
                              /\ t[n] \in B[t[m]] <=> ByRank(t[n], t[m])
  BY <1>3, <1>7
<1> QED
  BY <1>5, <1>6, <1>8

----------------------------------------------------------------------------
(* The vectors. A list of entries in order of pinyin; the entries of a     *)
(* reading that is not excepted in order of rank.                          *)

EntryType == [pinyin : Seq(Nat), text : Nat, freq : Nat, user : BOOLEAN, eff : Nat]

(* A word has one entry.                                                   *)
Unique(S) == \A x, y \in S : Word(x) = Word(y) => x = y

ByReading(s) == \A i, j \in 1..Len(s) : i < j => ~Before(s[j].pinyin, s[i].pinyin)

Ranked(s, except) ==
  \A i, j \in 1..Len(s) :
    (i < j /\ s[i].pinyin = s[j].pinyin) => (s[i].pinyin \in except \/ ByRank(s[i], s[j]))

IndexOK(s, except, S) == Enumerates(s, S) /\ ByReading(s) /\ Ranked(s, except)

LEMMA PicksIndexed ==
  ASSUME NEW S, NEW s, NEW except, IndexOK(s, except, S), NEW P \in SUBSET (1..Len(s))
  PROVE  IndexOK(Picks(s, P), except, {s[i] : i \in P})
<1> DEFINE t == Picks(s, P)
<1>1. Enumerates(s, S) /\ s \in Seq(S) /\ Len(s) \in Nat
  BY EnumeratesCounts DEF Enumerates, IndexOK
<1>2. Enumerates(t, {s[i] : i \in P})
  BY <1>1, PicksEnumerates
<1>3. PICK at : Enumerates(at, P) /\ Increases(at) /\ MadeFrom(t, s, at)
  BY <1>1, PicksFacts
<1> HIDE DEF t
<1>4. Len(t) = Len(at) /\ \A n \in 1..Len(t) : t[n] = s[at[n]] /\ at[n] \in 1..Len(s)
  BY <1>3, EnumeratesCounts DEF MadeFrom
<1>5. \A m, n \in 1..Len(t) : m < n => at[m] < at[n]
  BY <1>3, <1>4 DEF Increases
<1>6. ByReading(t) /\ Ranked(t, except)
  <2>1. ByReading(s) /\ Ranked(s, except)
    BY DEF IndexOK
  <2>2. ByReading(t)
    BY <1>4, <1>5, <2>1 DEF ByReading
  <2>3. Ranked(t, except)
    BY <1>4, <1>5, <2>1 DEF Ranked
  <2> QED
    BY <2>2, <2>3
<1> QED
  BY <1>2, <1>6 DEF IndexOK, t

LEMMA SubSeqEnumerates ==
  ASSUME NEW S, NEW s, Enumerates(s, S), NEW a \in 1..(Len(s) + 1), NEW b \in (a - 1)..Len(s)
  PROVE  /\ Enumerates(SubSeq(s, a, b), {s[i] : i \in a..b})
         /\ Len(SubSeq(s, a, b)) = b - a + 1
         /\ \A n \in 1..(b - a + 1) : SubSeq(s, a, b)[n] = s[a + n - 1]
<1> DEFINE t == SubSeq(s, a, b)
           T == {s[i] : i \in a..b}
<1>1. Len(s) \in Nat /\ a \in Nat /\ b \in Nat /\ a \in Int /\ b \in Int
  BY EnumeratesCounts
<1>2. \A i \in a..b : s[i] \in T
  OBVIOUS
<1> HIDE DEF T
<1>3. /\ t \in Seq(T) /\ Len(t) = b - a + 1
      /\ \A n \in 1..(b - a + 1) : t[n] = s[a + n - 1]
  BY <1>1, <1>2, SubSeqProperties
<1> HIDE DEF t
<1>4. \A m, n \in 1..Len(t) : t[m] = t[n] => m = n
  <2>1. \A n \in 1..Len(t) : a + n - 1 \in 1..Len(s) /\ t[n] = s[a + n - 1]
    BY <1>1, <1>3
  <2>2. \A m, n \in 1..Len(t) : a + m - 1 = a + n - 1 => m = n
    BY <1>1
  <2>3. \A i, j \in 1..Len(s) : s[i] = s[j] => i = j
    BY DEF Enumerates
  <2> QED
    BY <2>1, <2>2, <2>3
<1>5. \A x \in T : \E n \in 1..Len(t) : t[n] = x
  <2>1. ASSUME NEW x \in T PROVE \E n \in 1..Len(t) : t[n] = x
    <3>1. PICK i \in a..b : x = s[i]
      BY DEF T
    <3>2. i - a + 1 \in 1..(b - a + 1) /\ a + (i - a + 1) - 1 = i
      BY <1>1
    <3> QED
      BY <1>3, <3>1, <3>2
  <2> QED
    BY <2>1
<1> QED
  BY <1>3, <1>4, <1>5 DEF Enumerates, t, T

LEMMA SubSeqIndexed ==
  ASSUME NEW S, NEW s, NEW except, IndexOK(s, except, S),
         NEW a \in 1..(Len(s) + 1), NEW b \in (a - 1)..Len(s)
  PROVE  IndexOK(SubSeq(s, a, b), except, {s[i] : i \in a..b})
<1> DEFINE t == SubSeq(s, a, b)
<1>1. Enumerates(s, S) /\ Len(s) \in Nat
  BY EnumeratesCounts DEF IndexOK
<1>2. /\ Enumerates(t, {s[i] : i \in a..b})
      /\ Len(t) = b - a + 1 /\ \A n \in 1..(b - a + 1) : t[n] = s[a + n - 1]
  BY <1>1, SubSeqEnumerates
<1> HIDE DEF t
<1>3. \A n \in 1..Len(t) : t[n] = s[a + n - 1] /\ a + n - 1 \in 1..Len(s)
  BY <1>1, <1>2
<1>4. \A m, n \in 1..Len(t) : m < n => a + m - 1 < a + n - 1
  BY <1>1, <1>2
<1>5. ByReading(t) /\ Ranked(t, except)
  BY <1>3, <1>4 DEF IndexOK, ByReading, Ranked
<1> QED
  BY <1>2, <1>5 DEF IndexOK, t

LEMMA ConcatEnumerates ==
  ASSUME NEW A, NEW B, NEW a, NEW b, Enumerates(a, A), Enumerates(b, B), A \cap B = {}
  PROVE  /\ Enumerates(a \o b, A \cup B)
         /\ Len(a \o b) = Len(a) + Len(b)
         /\ \A i \in 1..Len(a) : (a \o b)[i] = a[i] /\ a[i] \in A
         /\ \A i \in 1..Len(b) : (a \o b)[i + Len(a)] = b[i] /\ b[i] \in B
<1> DEFINE t == a \o b
           T == A \cup B
           k == Len(a)
           l == Len(b)
<1>1. /\ k \in Nat /\ l \in Nat
      /\ \A i \in 1..k : a[i] \in A
      /\ \A i \in 1..l : b[i] \in B
  BY EnumeratesCounts
<1>2. a \in Seq(T) /\ b \in Seq(T)
  <2>1. a \in Seq(A) /\ b \in Seq(B)
    BY DEF Enumerates
  <2> QED
    BY <2>1, SeqMonotonic
<1>3. /\ t \in Seq(T) /\ Len(t) = k + l
      /\ \A i \in 1..(k + l) : t[i] = IF i <= k THEN a[i] ELSE b[i - k]
  BY <1>2, ConcatProperties
<1> HIDE DEF t, T, k, l
<1>4. \A i \in 1..k : i \in 1..(k + l) /\ t[i] = a[i]
  BY <1>1, <1>3
<1>5. \A i \in 1..l : i + k \in 1..(k + l) /\ t[i + k] = b[i]
  <2>1. ASSUME NEW i \in 1..l PROVE i + k \in 1..(k + l) /\ t[i + k] = b[i]
    <3>1. i + k \in 1..(k + l) /\ ~(i + k <= k) /\ (i + k) - k = i
      BY <1>1
    <3>2. t[i + k] = IF i + k <= k THEN a[i + k] ELSE b[(i + k) - k]
      BY <1>3, <3>1
    <3> QED
      BY <3>1, <3>2
  <2> QED
    BY <2>1
<1>6. \A i \in 1..(k + l) : i \in 1..k \/ (i - k \in 1..l /\ (i - k) + k = i)
  BY <1>1
<1>7. \A x \in T : \E i \in 1..Len(t) : t[i] = x
  <2>1. ASSUME NEW x \in A PROVE \E i \in 1..(k + l) : t[i] = x
    <3>1. PICK i \in 1..k : a[i] = x
      BY DEF Enumerates, k
    <3> QED
      BY <1>4, <3>1
  <2>2. ASSUME NEW x \in B PROVE \E i \in 1..(k + l) : t[i] = x
    <3>1. PICK i \in 1..l : b[i] = x
      BY DEF Enumerates, l
    <3> QED
      BY <1>5, <3>1
  <2> QED
    BY <1>3, <2>1, <2>2 DEF T
<1>8. ASSUME NEW i \in 1..(k + l), NEW j \in 1..(k + l), t[i] = t[j] PROVE i = j
  <2>1. CASE i \in 1..k /\ j \in 1..k
    BY <1>4, <1>8, <2>1 DEF Enumerates, k
  <2>2. CASE i - k \in 1..l /\ j - k \in 1..l /\ (i - k) + k = i /\ (j - k) + k = j
    <3>1. t[i] = b[i - k] /\ t[j] = b[j - k]
      BY <1>5, <2>2
    <3>2. i - k = j - k
      BY <1>8, <2>2, <3>1 DEF Enumerates, l
    <3> QED
      BY <2>2, <3>2
  <2>3. CASE i \in 1..k /\ j - k \in 1..l /\ (j - k) + k = j
    <3>1. t[i] = a[i] /\ t[j] = b[j - k]
      BY <1>4, <1>5, <2>3
    <3> QED
      BY <1>1, <1>8, <2>3, <3>1
  <2>4. CASE i - k \in 1..l /\ (i - k) + k = i /\ j \in 1..k
    <3>1. t[i] = b[i - k] /\ t[j] = a[j]
      BY <1>4, <1>5, <2>4
    <3> QED
      BY <1>1, <1>8, <2>4, <3>1
  <2> QED
    BY <1>6, <2>1, <2>2, <2>3, <2>4
<1> QED
  BY <1>1, <1>3, <1>4, <1>5, <1>7, <1>8 DEF Enumerates, t, T, k, l

LEMMA ConcatIndexed ==
  ASSUME NEW A, NEW B, NEW a, NEW b, NEW except,
         IndexOK(a, except, A), IndexOK(b, except, B),
         \A x \in A, y \in B :
            \/ Before(x.pinyin, y.pinyin)
            \/ x.pinyin = y.pinyin /\ x.pinyin \in except /\ x # y,
         \A x \in A \cup B : x.pinyin \in Seq(Nat)
  PROVE  IndexOK(a \o b, except, A \cup B)
<1> DEFINE t == a \o b
           k == Len(a)
           l == Len(b)
<1>1. \A x \in A, y \in B : ~Before(y.pinyin, x.pinyin) /\ x # y
  <2>1. ASSUME NEW x \in A, NEW y \in B PROVE ~Before(y.pinyin, x.pinyin) /\ x # y
    <3>1. x.pinyin \in Seq(Nat) /\ y.pinyin \in Seq(Nat)
      OBVIOUS
    <3>2. ~Before(x.pinyin, x.pinyin)
      BY <3>1, BeforeIrreflexive
    <3>3. Before(x.pinyin, y.pinyin) /\ Before(y.pinyin, x.pinyin) => Before(x.pinyin, x.pinyin)
      BY <3>1, BeforeTransitive
    <3> QED
      BY <3>2, <3>3
  <2> QED
    BY <2>1
<1>2. \A x \in A, y \in B : x.pinyin = y.pinyin => x.pinyin \in except
  BY BeforeIrreflexive
<1>3. k \in Nat /\ l \in Nat
  BY EnumeratesCounts DEF IndexOK
<1>4. /\ Enumerates(t, A \cup B) /\ Len(t) = k + l
      /\ \A i \in 1..k : t[i] = a[i] /\ a[i] \in A
      /\ \A i \in 1..l : t[i + k] = b[i] /\ b[i] \in B
  <2>1. A \cap B = {} /\ Enumerates(a, A) /\ Enumerates(b, B)
    BY <1>1 DEF IndexOK
  <2>2. Enumerates(t, A \cup B)
    BY <2>1, ConcatEnumerates, Zenon
  <2>5. Len(t) = k + l
    <3>1. a \in Seq(A \cup B) /\ b \in Seq(A \cup B)
      BY <2>1, SeqMonotonic DEF Enumerates
    <3> QED
      BY <3>1, ConcatProperties
  <2>3. \A i \in 1..k : t[i] = a[i] /\ a[i] \in A
    BY <2>1, ConcatEnumerates
  <2>4. \A i \in 1..l : t[i + k] = b[i] /\ b[i] \in B
    BY <2>1, ConcatEnumerates
  <2> QED
    BY <2>2, <2>3, <2>4, <2>5
<1> HIDE DEF t, k, l
<1>5. \A i \in 1..(k + l) : i \in 1..k \/ (i - k \in 1..l /\ (i - k) + k = i)
  BY <1>3
<1>6. ASSUME NEW i \in 1..(k + l), NEW j \in 1..(k + l), i < j
      PROVE  /\ ~Before(t[j].pinyin, t[i].pinyin)
             /\ t[i].pinyin = t[j].pinyin => (t[i].pinyin \in except \/ ByRank(t[i], t[j]))
  <2>1. CASE i \in 1..k /\ j \in 1..k
    BY <1>4, <1>6, <2>1 DEF IndexOK, ByReading, Ranked, k
  <2>2. CASE i - k \in 1..l /\ j - k \in 1..l /\ (i - k) + k = i /\ (j - k) + k = j
    <3>1. t[i] = b[i - k] /\ t[j] = b[j - k]
      BY <1>4, <2>2
    <3>2. i - k < j - k
      BY <1>3, <1>6
    <3> QED
      BY <2>2, <3>1, <3>2 DEF IndexOK, ByReading, Ranked, l
  <2>3. CASE i \in 1..k /\ j - k \in 1..l /\ (j - k) + k = j
    <3>1. t[i] \in A /\ t[j] \in B
      BY <1>4, <2>3
    <3> QED
      BY <1>1, <1>2, <3>1
  <2>4. CASE i - k \in 1..l /\ (i - k) + k = i /\ j \in 1..k
    BY <1>3, <1>6, <2>4
  <2> QED
    BY <1>5, <2>1, <2>2, <2>3, <2>4
<1> QED
  BY <1>4, <1>6 DEF IndexOK, ByReading, Ranked, t

LEMMA CountOf ==
  ASSUME NEW S, NEW s, Enumerates(s, S), NEW T \in SUBSET S
  PROVE  Cardinality({i \in 1..Len(s) : s[i] \in T}) = Cardinality(T)
<1> DEFINE P == {i \in 1..Len(s) : s[i] \in T}
           f == [i \in P |-> s[i]]
<1>1. Len(s) \in Nat
  BY EnumeratesCounts
<1>2. IsFiniteSet(P)
  <2>1. IsFiniteSet(1..Len(s)) /\ P \subseteq 1..Len(s)
    BY <1>1, FS_Interval
  <2> QED
    BY <2>1, FS_Subset
<1>3. f \in Bijection(P, T)
  <2>1. f \in [P -> T]
    OBVIOUS
  <2>2. \A i, j \in P : f[i] = f[j] => i = j
    BY DEF Enumerates
  <2>3. \A x \in T : \E i \in P : f[i] = x
    BY DEF Enumerates
  <2> QED
    BY <2>1, <2>2, <2>3 DEF Bijection, Injection, Surjection, IsInjective
<1>4. ExistsBijection(P, T)
  BY <1>3 DEF ExistsBijection
<1> QED
  BY <1>2, <1>4, FS_Bijection

(* Positions with all that come before them are the first so many.         *)
LEMMA FirstPositions ==
  ASSUME NEW n \in Nat, NEW P \in SUBSET (1..n),
         \A i \in P, j \in 1..n : j < i => j \in P
  PROVE  Cardinality(P) \in 0..n /\ P = 1..Cardinality(P)
<1>1. CASE P = 1..n
  <2>1. Cardinality(1..n) = n
    BY FS_Interval
  <2> QED
    BY <1>1, <2>1
<1>2. CASE P # 1..n
  <2> DEFINE D == (1..n) \ P
  <2>1. D \in SUBSET Nat /\ D # {}
    <3>1. 1..n \subseteq Nat
      OBVIOUS
    <3>2. D # {}
      BY <1>2, Zenon
    <3> QED
      BY <3>1, <3>2
  <2>2. PICK m \in D : \A k \in D : m <= k
    <3> HIDE DEF D
    <3> QED
      BY <2>1, LeastOf
  <2>3. P = 1..(m - 1)
    <3>1. ASSUME NEW k \in P PROVE k \in 1..(m - 1)
      <4>1. k \in 1..n /\ m \in 1..n /\ m \notin P
        BY <2>2
      <4>2. ~(m < k) /\ m # k
        BY <4>1
      <4> QED
        BY <4>1, <4>2
    <3>2. ASSUME NEW k \in 1..(m - 1) PROVE k \in P
      <4>1. k \in 1..n /\ ~(m <= k)
        BY <2>2
      <4> QED
        BY <2>2, <4>1
    <3> QED
      BY <3>1, <3>2
  <2>4. m \in 1..n
    BY <2>2
  <2>5. Cardinality(1..(m - 1)) = m - 1
    BY <2>4, FS_Interval
  <2> QED
    BY <2>3, <2>4, <2>5
<1> QED
  BY <1>1, <1>2

(* Where the block of a reading begins (partition_point).                  *)
Position(s, p) == Cardinality({i \in DOMAIN s : Before(s[i].pinyin, p)})

LEMMA PositionFacts ==
  ASSUME NEW S, NEW s, Enumerates(s, S), ByReading(s),
         \A x \in S : x.pinyin \in Seq(Nat), NEW p \in Seq(Nat)
  PROVE  /\ Position(s, p) \in 0..Len(s)
         /\ \A i \in 1..Len(s) : i <= Position(s, p) <=> Before(s[i].pinyin, p)
         /\ Position(s, p) = Cardinality({x \in S : Before(x.pinyin, p)})
<1> DEFINE P == {i \in 1..Len(s) : Before(s[i].pinyin, p)}
           T == {x \in S : Before(x.pinyin, p)}
<1>1. /\ Len(s) \in Nat /\ DOMAIN s = 1..Len(s)
      /\ \A i \in 1..Len(s) : s[i] \in S
  BY EnumeratesCounts
<1>2. Position(s, p) = Cardinality(P)
  BY <1>1 DEF Position
<1>3. ASSUME NEW i \in P, NEW j \in 1..Len(s), j < i PROVE j \in P
  <2>1. i \in 1..Len(s) /\ ~Before(s[i].pinyin, s[j].pinyin) /\ Before(s[i].pinyin, p)
    BY <1>1, <1>3 DEF ByReading
  <2>2. s[i].pinyin \in Seq(Nat) /\ s[j].pinyin \in Seq(Nat)
    BY <1>1, <2>1
  <2>3. s[i].pinyin = s[j].pinyin \/ Before(s[j].pinyin, s[i].pinyin)
    BY <2>1, <2>2, BeforeTotal
  <2>4. Before(s[j].pinyin, p)
    BY <2>1, <2>2, <2>3, BeforeTransitive
  <2> QED
    BY <2>4
<1>4. Cardinality(P) \in 0..Len(s) /\ P = 1..Cardinality(P)
  <2>1. P \in SUBSET (1..Len(s))
    OBVIOUS
  <2> HIDE DEF P
  <2> QED
    BY <1>1, <1>3, <2>1, FirstPositions
<1>5. \A i \in 1..Len(s) : i <= Cardinality(P) <=> Before(s[i].pinyin, p)
  <2>1. \A i \in 1..Len(s) : i \in P <=> Before(s[i].pinyin, p)
    OBVIOUS
  <2> HIDE DEF P
  <2> QED
    BY <1>4, <2>1
<1>6. Cardinality(P) = Cardinality(T)
  <2>1. P = {i \in 1..Len(s) : s[i] \in T}
    BY <1>1
  <2>2. T \in SUBSET S
    OBVIOUS
  <2> HIDE DEF T, P
  <2> QED
    BY <2>1, <2>2, CountOf
<1> QED
  BY <1>2, <1>4, <1>5, <1>6

LEMMA PinyinRankIsWeak ==
  ASSUME NEW S,
         \A x \in S : x.pinyin \in Seq(Nat) /\ x.eff \in Nat /\ x.text \in Nat
  PROVE  WeakOrder(Below(S, ByPinyinRank), S)
<1> DEFINE B == Below(S, ByPinyinRank)
<1>1. B \in [S -> SUBSET S]
  BY DEF Below
<1>2. \A x, y \in S : y \in B[x] <=> ByPinyinRank(y, x)
  BY DEF Below
<1>3. \A x \in S : ~ByPinyinRank(x, x)
  BY BeforeIrreflexive DEF ByPinyinRank, ByRank
<1>4. ASSUME NEW x \in S, NEW y \in S, NEW z \in S, ByPinyinRank(x, y), ByPinyinRank(y, z)
      PROVE  ByPinyinRank(x, z)
  <2>1. Before(x.pinyin, y.pinyin) /\ Before(y.pinyin, z.pinyin) => Before(x.pinyin, z.pinyin)
    BY BeforeTransitive
  <2>2. ByRank(x, y) /\ ByRank(y, z) => ByRank(x, z)
    BY DEF ByRank
  <2> QED
    BY <1>4, <2>1, <2>2 DEF ByPinyinRank
<1>5. ASSUME NEW x \in S, NEW y \in S, NEW z \in S, ByPinyinRank(x, z)
      PROVE  ByPinyinRank(x, y) \/ ByPinyinRank(y, z)
  <2>1. x.pinyin = y.pinyin \/ Before(x.pinyin, y.pinyin) \/ Before(y.pinyin, x.pinyin)
    BY BeforeTotal
  <2>2. Before(y.pinyin, x.pinyin) /\ Before(x.pinyin, z.pinyin) => Before(y.pinyin, z.pinyin)
    BY BeforeTransitive
  <2>3. ByRank(x, z) => ByRank(x, y) \/ ByRank(y, z)
    BY DEF ByRank
  <2> QED
    BY <1>5, <2>1, <2>2, <2>3 DEF ByPinyinRank
<1> HIDE DEF B
<1>6. WeakOrder(B, S)
  BY <1>1, <1>2, <1>3, <1>4, <1>5 DEF WeakOrder
<1> QED
  BY <1>6 DEF B

LEMMA Rearranged ==
  ASSUME NEW S, NEW s, Enumerates(s, S), NEW at, Enumerates(at, 1..Len(s)),
         NEW t \in Seq(S), MadeFrom(t, s, at)
  PROVE  Enumerates(t, S) /\ Len(t) = Len(s)
<1> DEFINE n == Len(s)
<1>1. n \in Nat /\ \A i \in 1..n : s[i] \in S
  BY EnumeratesCounts
<1>2. IsFiniteSet(1..n) /\ Cardinality(1..n) = n
  <2> HIDE DEF n
  <2> QED
    BY <1>1, FS_Interval
<1>3. Len(at) = n /\ \A i \in 1..n : at[i] \in 1..n
  <2>1. Len(at) = Cardinality(1..n) /\ \A i \in 1..Len(at) : at[i] \in 1..n
    BY EnumeratesCounts
  <2> QED
    BY <1>2, <2>1
<1>4. Len(t) = n /\ \A i \in 1..n : t[i] = s[at[i]]
  BY <1>3 DEF MadeFrom
<1>5. ASSUME NEW i \in 1..n, NEW j \in 1..n, t[i] = t[j] PROVE i = j
  <2>1. s[at[i]] = s[at[j]] /\ at[i] \in 1..n /\ at[j] \in 1..n
    BY <1>3, <1>4, <1>5
  <2>2. at[i] = at[j]
    <3>1. \A k, l \in 1..n : s[k] = s[l] => k = l
      BY DEF Enumerates
    <3> QED
      BY <2>1, <3>1
  <2> QED
    BY <1>3, <2>2 DEF Enumerates
<1>6. ASSUME NEW x \in S PROVE \E i \in 1..n : t[i] = x
  <2>1. PICK k \in 1..n : s[k] = x
    BY DEF Enumerates
  <2>2. PICK i \in 1..Len(at) : at[i] = k
    BY DEF Enumerates
  <2> QED
    BY <1>3, <1>4, <2>1, <2>2
<1> QED
  BY <1>4, <1>5, <1>6 DEF Enumerates

LEMMA ArrangementEnumerates ==
  ASSUME NEW S, NEW s, Enumerates(s, S), NEW below, WeakOrder(below, S)
  PROVE  /\ Enumerates(Arrangement(s, below), S) /\ Len(Arrangement(s, below)) = Len(s)
         /\ \A m, n \in 1..Len(s) : m < n =>
              Arrangement(s, below)[n] \notin below[Arrangement(s, below)[m]]
<1> DEFINE t == Arrangement(s, below)
<1>1. s \in Seq(S) /\ Len(s) \in Nat
  BY EnumeratesCounts DEF Enumerates
<1>2. /\ t \in Seq(S) /\ Len(t) = Len(s)
      /\ \E at :
           /\ Enumerates(at, 1..Len(s)) /\ MadeFrom(t, s, at)
           /\ \A m, n \in 1..Len(s) : m < n =>
                t[m] \in below[t[n]] \/ (t[n] \notin below[t[m]] /\ at[m] < at[n])
  BY <1>1, StableSort
<1> HIDE DEF t
<1>3. PICK at :
        /\ Enumerates(at, 1..Len(s)) /\ MadeFrom(t, s, at)
        /\ \A m, n \in 1..Len(s) : m < n =>
             t[m] \in below[t[n]] \/ (t[n] \notin below[t[m]] /\ at[m] < at[n])
  BY <1>2
<1>4. Enumerates(t, S)
  BY <1>2, <1>3, Rearranged
<1>5. \A x, y \in S : ~(x \in below[y] /\ y \in below[x])
  BY DEF WeakOrder
<1>6. \A n \in 1..Len(s) : t[n] \in S
  BY <1>2
<1> QED
  BY <1>2, <1>3, <1>4, <1>5, <1>6 DEF t

LEMMA SortedByPinyinRank ==
  ASSUME NEW S,
         \A x \in S : x.pinyin \in Seq(Nat) /\ x.eff \in Nat /\ x.text \in Nat,
         NEW s, Enumerates(s, S)
  PROVE  /\ Enumerates(Sorted(s, ByPinyinRank), S)
         /\ \A m, n \in 1..Len(Sorted(s, ByPinyinRank)) : m < n =>
              ~ByPinyinRank(Sorted(s, ByPinyinRank)[n], Sorted(s, ByPinyinRank)[m])
<1> DEFINE B == Below(S, ByPinyinRank)
           t == Arrangement(s, B)
<1>1. WeakOrder(B, S)
  BY PinyinRankIsWeak
<1>2. DOMAIN s = 1..Len(s) /\ \A i \in 1..Len(s) : s[i] \in S
  BY EnumeratesCounts
<1>3. \A x, y \in S : y \in B[x] <=> ByPinyinRank(y, x)
  BY DEF Below
<1>4. Stable(s, B) = [j \in DOMAIN s |-> {i \in DOMAIN s :
                        ByPinyinRank(s[i], s[j]) \/ (~ByPinyinRank(s[j], s[i]) /\ i < j)}]
  <2>1. \A i, j \in 1..Len(s) : /\ s[i] \in B[s[j]] <=> ByPinyinRank(s[i], s[j])
                                /\ s[j] \in B[s[i]] <=> ByPinyinRank(s[j], s[i])
    BY <1>2, <1>3
  <2>2. \A j \in 1..Len(s) :
          {i \in 1..Len(s) : s[i] \in B[s[j]] \/ (s[j] \notin B[s[i]] /\ i < j)}
            = {i \in 1..Len(s) : ByPinyinRank(s[i], s[j]) \/ (~ByPinyinRank(s[j], s[i]) /\ i < j)}
    BY <2>1
  <2> QED
    BY <1>2, <2>2 DEF Stable
<1>5. Sorted(s, ByPinyinRank) = t
  BY <1>2, <1>4 DEF Sorted, Arrangement
<1> HIDE DEF B
<1>6. Enumerates(t, S) /\ Len(t) = Len(s)
  BY <1>1, ArrangementEnumerates
<1>7. \A m, n \in 1..Len(s) : m < n => t[n] \notin B[t[m]]
  BY <1>1, ArrangementEnumerates
<1> HIDE DEF t
<1>8. \A n \in 1..Len(s) : t[n] \in S
  BY <1>6, EnumeratesCounts
<1> QED
  BY <1>3, <1>5, <1>6, <1>7, <1>8

LEMMA AbbrevIsString ==
  ASSUME NEW key \in Seq(Nat)
  PROVE  AbbrevOf(key) \in Seq(Nat)
<1> DEFINE P == {i \in 1..Len(key) : key[i] # 0 /\ (i = 1 \/ key[i - 1] = 0)}
<1>1. P \in SUBSET (1..Len(key))
  OBVIOUS
<1>2. AbbrevOf(key) = Picks(key, P)
  BY DEF AbbrevOf
<1> HIDE DEF P
<1> QED
  BY <1>1, <1>2, PicksFacts

LEMMA AbbrevRankIsWeak ==
  ASSUME NEW S,
         \A x \in S : x.pinyin \in Seq(Nat) /\ x.eff \in Nat /\ x.text \in Nat
  PROVE  WeakOrder(Below(S, ByAbbrevRank), S)
<1> DEFINE B == Below(S, ByAbbrevRank)
<1>1. B \in [S -> SUBSET S]
  BY DEF Below
<1>2. \A x, y \in S : y \in B[x] <=> ByAbbrevRank(y, x)
  BY DEF Below
<1>0. \A x \in S : AbbrevOf(x.pinyin) \in Seq(Nat)
  BY AbbrevIsString
<1>3. \A x \in S : ~ByAbbrevRank(x, x)
  BY <1>0, BeforeIrreflexive DEF ByAbbrevRank, ByRank
<1>4. ASSUME NEW x \in S, NEW y \in S, NEW z \in S, ByAbbrevRank(x, y), ByAbbrevRank(y, z)
      PROVE  ByAbbrevRank(x, z)
  <2>1. Before(AbbrevOf(x.pinyin), AbbrevOf(y.pinyin)) /\ Before(AbbrevOf(y.pinyin), AbbrevOf(z.pinyin))
          => Before(AbbrevOf(x.pinyin), AbbrevOf(z.pinyin))
    BY <1>0, BeforeTransitive
  <2>2. ByRank(x, y) /\ ByRank(y, z) => ByRank(x, z)
    BY DEF ByRank
  <2> QED
    BY <1>4, <2>1, <2>2 DEF ByAbbrevRank
<1>5. ASSUME NEW x \in S, NEW y \in S, NEW z \in S, ByAbbrevRank(x, z)
      PROVE  ByAbbrevRank(x, y) \/ ByAbbrevRank(y, z)
  <2>1. \/ AbbrevOf(x.pinyin) = AbbrevOf(y.pinyin)
        \/ Before(AbbrevOf(x.pinyin), AbbrevOf(y.pinyin))
        \/ Before(AbbrevOf(y.pinyin), AbbrevOf(x.pinyin))
    BY <1>0, BeforeTotal
  <2>2. Before(AbbrevOf(y.pinyin), AbbrevOf(x.pinyin)) /\ Before(AbbrevOf(x.pinyin), AbbrevOf(z.pinyin))
          => Before(AbbrevOf(y.pinyin), AbbrevOf(z.pinyin))
    BY <1>0, BeforeTransitive
  <2>3. ByRank(x, z) => ByRank(x, y) \/ ByRank(y, z)
    BY DEF ByRank
  <2> QED
    BY <1>5, <2>1, <2>2, <2>3 DEF ByAbbrevRank
<1> HIDE DEF B
<1>6. WeakOrder(B, S)
  BY <1>1, <1>2, <1>3, <1>4, <1>5 DEF WeakOrder
<1> QED
  BY <1>6 DEF B

LEMMA SortedByAbbrevRank ==
  ASSUME NEW S,
         \A x \in S : x.pinyin \in Seq(Nat) /\ x.eff \in Nat /\ x.text \in Nat,
         NEW s, Enumerates(s, S)
  PROVE  Enumerates(Sorted(s, ByAbbrevRank), S)
<1> DEFINE B == Below(S, ByAbbrevRank)
<1>1. WeakOrder(B, S)
  BY AbbrevRankIsWeak
<1>2. DOMAIN s = 1..Len(s) /\ \A i \in 1..Len(s) : s[i] \in S
  BY EnumeratesCounts
<1>3. \A x, y \in S : y \in B[x] <=> ByAbbrevRank(y, x)
  BY DEF Below
<1>4. Stable(s, B) = [j \in DOMAIN s |-> {i \in DOMAIN s :
                        ByAbbrevRank(s[i], s[j]) \/ (~ByAbbrevRank(s[j], s[i]) /\ i < j)}]
  <2>1. \A i, j \in 1..Len(s) : /\ s[i] \in B[s[j]] <=> ByAbbrevRank(s[i], s[j])
                                /\ s[j] \in B[s[i]] <=> ByAbbrevRank(s[j], s[i])
    BY <1>2, <1>3
  <2>2. \A j \in 1..Len(s) :
          {i \in 1..Len(s) : s[i] \in B[s[j]] \/ (s[j] \notin B[s[i]] /\ i < j)}
            = {i \in 1..Len(s) : ByAbbrevRank(s[i], s[j]) \/ (~ByAbbrevRank(s[j], s[i]) /\ i < j)}
    BY <2>1
  <2> QED
    BY <1>2, <2>2 DEF Stable
<1>5. Sorted(s, ByAbbrevRank) = Arrangement(s, B)
  BY <1>2, <1>4 DEF Sorted, Arrangement
<1> HIDE DEF B
<1> QED
  BY <1>1, <1>5, ArrangementEnumerates

(* What Learn does to a vector: the entry of a word is replaced, or a new  *)
(* one goes to the front of its block; then the block is sorted.           *)
With(s, new) == [i \in DOMAIN s |-> IF Word(s[i]) = Word(new) THEN new ELSE s[i]]

Replaced(S, new) == {x \in S : Word(x) # Word(new)} \cup {new}

Resorted(s, p) ==
  LET others == Picks(s, {i \in DOMAIN s : s[i].pinyin # p})
  IN  SubSeq(others, 1, Position(s, p))
        \o Sorted(Picks(s, {i \in DOMAIN s : s[i].pinyin = p}), ByPinyinRank)
        \o SubSeq(others, Position(s, p) + 1, Len(others))

LEMMA WithEnumerates ==
  ASSUME NEW S, Unique(S), NEW s, Enumerates(s, S), NEW new,
         NEW i0 \in DOMAIN s, Word(s[i0]) = Word(new)
  PROVE  Enumerates(With(s, new), Replaced(S, new)) /\ Len(With(s, new)) = Len(s)
<1> DEFINE t == With(s, new)
           T == Replaced(S, new)
           n == Len(s)
<1>1. n \in Nat /\ DOMAIN s = 1..n /\ \A i \in 1..n : s[i] \in S
  BY EnumeratesCounts
<1>2. \A i, j \in 1..n : s[i] = s[j] => i = j
  BY DEF Enumerates
<1>3. t = [i \in 1..n |-> IF Word(s[i]) = Word(new) THEN new ELSE s[i]]
  BY <1>1 DEF With
<1>4. \A i \in 1..n : t[i] = IF Word(s[i]) = Word(new) THEN new ELSE s[i]
  BY <1>3
<1>5. t \in Seq(T) /\ Len(t) = n
  <2>1. t \in [1..n -> T]
    BY <1>1, <1>3 DEF Replaced
  <2> HIDE DEF t, T, n
  <2> QED
    BY <1>1, <2>1
<1> HIDE DEF t
<1>6. ASSUME NEW i \in 1..n, NEW j \in 1..n, t[i] = t[j] PROVE i = j
  <2>1. Word(s[i]) = Word(s[j])
    BY <1>4, <1>6
  <2>2. s[i] = s[j]
    BY <1>1, <2>1 DEF Unique
  <2> QED
    BY <1>2, <2>2
<1>7. ASSUME NEW x \in T PROVE \E i \in 1..n : t[i] = x
  <2>1. CASE x = new
    BY <1>1, <1>4, <2>1
  <2>2. CASE x \in S /\ Word(x) # Word(new)
    <3>1. PICK i \in 1..n : s[i] = x
      BY <2>2 DEF Enumerates
    <3> QED
      BY <1>4, <2>2, <3>1
  <2> QED
    BY <2>1, <2>2 DEF Replaced
<1> QED
  BY <1>5, <1>6, <1>7 DEF Enumerates, t

LEMMA WithIndexed ==
  ASSUME NEW S, Unique(S), NEW s, NEW except, IndexOK(s, except, S), NEW new,
         NEW i0 \in DOMAIN s, Word(s[i0]) = Word(new)
  PROVE  IndexOK(With(s, new), except \cup {new.pinyin}, Replaced(S, new))
<1> DEFINE t == With(s, new)
<1>1. Enumerates(t, Replaced(S, new)) /\ Len(t) = Len(s)
  BY WithEnumerates DEF IndexOK
<1>2. DOMAIN s = 1..Len(s)
  BY EnumeratesCounts DEF IndexOK
<1>3. \A i \in 1..Len(s) : t[i] = IF Word(s[i]) = Word(new) THEN new ELSE s[i]
  BY <1>2 DEF With
<1> HIDE DEF t
<1>4. \A i \in 1..Len(s) : t[i].pinyin = s[i].pinyin /\ (t[i] = s[i] \/ t[i].pinyin = new.pinyin)
  BY <1>3 DEF Word
<1>5. ByReading(t)
  BY <1>1, <1>4 DEF IndexOK, ByReading
<1>6. Ranked(t, except \cup {new.pinyin})
  BY <1>1, <1>4 DEF IndexOK, Ranked
<1> QED
  BY <1>1, <1>5, <1>6 DEF IndexOK, t

LEMMA OneIndexed ==
  ASSUME NEW new, NEW except
  PROVE  IndexOK(<<new>>, except, {new})
<1>1. Len(<<new>>) = 1 /\ <<new>>[1] = new /\ <<new>> \in Seq({new})
  OBVIOUS
<1>2. \A i \in 1..1 : i = 1
  OBVIOUS
<1>3. Enumerates(<<new>>, {new})
  BY <1>1, <1>2 DEF Enumerates
<1>4. \A i, j \in 1..1 : ~(i < j)
  BY <1>2
<1> QED
  BY <1>1, <1>3, <1>4 DEF IndexOK, ByReading, Ranked

LEMMA InsertEnumerates ==
  ASSUME NEW S, NEW s, Enumerates(s, S), NEW new, new \notin S, NEW k \in 1..(Len(s) + 1)
  PROVE  Enumerates(InsertAt(s, k, new), S \cup {new})
<1> DEFINE A == {s[i] : i \in 1..(k - 1)}
           C == {s[i] : i \in k..Len(s)}
           a == SubSeq(s, 1, k - 1)
           c == SubSeq(s, k, Len(s))
<1>1. Len(s) \in Nat /\ k \in Nat /\ \A i \in 1..Len(s) : s[i] \in S
  BY EnumeratesCounts
<1>2. 1 \in 1..(Len(s) + 1) /\ k - 1 \in (1 - 1)..Len(s) /\ Len(s) \in (k - 1)..Len(s)
  BY <1>1
<1>3. Enumerates(a, A)
  BY <1>2, SubSeqEnumerates
<1>4. Enumerates(c, C)
  BY <1>2, SubSeqEnumerates
<1>5. Enumerates(<<new>>, {new})
  BY OneIndexed DEF IndexOK
<1>6. A \subseteq S /\ C \subseteq S /\ A \cup C = S
  <2>1. \A x \in S : \E i \in 1..Len(s) : s[i] = x
    BY DEF Enumerates
  <2>2. \A i \in 1..Len(s) : i \in 1..(k - 1) \/ i \in k..Len(s)
    BY <1>1
  <2>3. \A i \in 1..(k - 1) : i \in 1..Len(s)
    BY <1>1
  <2>4. \A i \in k..Len(s) : i \in 1..Len(s)
    BY <1>1
  <2> QED
    BY <1>1, <2>1, <2>2, <2>3, <2>4
<1>7. A \cap C = {}
  <2>1. ASSUME NEW i \in 1..(k - 1), NEW j \in k..Len(s), s[i] = s[j] PROVE FALSE
    <3>1. i \in 1..Len(s) /\ j \in 1..Len(s) /\ i # j
      BY <1>1
    <3> QED
      BY <2>1, <3>1 DEF Enumerates
  <2> QED
    BY <2>1
<1> HIDE DEF A, C, a, c
<1>8. Enumerates(a \o <<new>>, A \cup {new})
  <2>1. A \cap {new} = {}
    BY <1>6
  <2> QED
    BY <1>3, <1>5, <2>1, ConcatEnumerates
<1>9. Enumerates((a \o <<new>>) \o c, (A \cup {new}) \cup C)
  <2>1. (A \cup {new}) \cap C = {}
    BY <1>6, <1>7
  <2> QED
    BY <1>4, <1>8, <2>1, ConcatEnumerates
<1>10. (A \cup {new}) \cup C = S \cup {new}
  BY <1>6
<1>11. InsertAt(s, k, new) = (a \o <<new>>) \o c
  BY DEF InsertAt, a, c
<1> QED
  BY <1>9, <1>10, <1>11

LEMMA FewerExcepted ==
  ASSUME NEW S, NEW s, NEW except, NEW fewer, IndexOK(s, except, S),
         \A x \in S : x.pinyin \in except => x.pinyin \in fewer
  PROVE  IndexOK(s, fewer, S)
<1>1. \A i \in 1..Len(s) : s[i] \in S
  BY EnumeratesCounts DEF IndexOK
<1> QED
  BY <1>1 DEF IndexOK, Ranked

LEMMA InsertIndexed ==
  ASSUME NEW S, \A x \in S : x.pinyin \in Seq(Nat), NEW s, NEW except, IndexOK(s, except, S),
         NEW new, new.pinyin \in Seq(Nat), new \notin S
  PROVE  IndexOK(InsertAt(s, Position(s, new.pinyin) + 1, new),
                 except \cup {new.pinyin}, S \cup {new})
<1> DEFINE k == Position(s, new.pinyin)
           more == except \cup {new.pinyin}
           A == {s[i] : i \in 1..k}
           C == {s[i] : i \in (k + 1)..Len(s)}
           a == SubSeq(s, 1, k)
           c == SubSeq(s, k + 1, Len(s))
<1>1. Enumerates(s, S) /\ ByReading(s) /\ Len(s) \in Nat /\ \A i \in 1..Len(s) : s[i] \in S
  BY EnumeratesCounts DEF IndexOK
<1>2. k \in 0..Len(s) /\ \A i \in 1..Len(s) : i <= k <=> Before(s[i].pinyin, new.pinyin)
  BY <1>1, PositionFacts
<1>3. IndexOK(s, more, S)
  BY FewerExcepted
<1> HIDE DEF k
<1>4. 1 \in 1..(Len(s) + 1) /\ k \in (1 - 1)..Len(s) /\ k + 1 \in 1..(Len(s) + 1)
      /\ Len(s) \in ((k + 1) - 1)..Len(s) /\ k = (k + 1) - 1
  BY <1>1, <1>2
<1> HIDE DEF more
<1>5. IndexOK(a, more, A)
  BY <1>3, <1>4, SubSeqIndexed
<1>6. IndexOK(c, more, C)
  BY <1>3, <1>4, SubSeqIndexed
<1>7. IndexOK(<<new>>, more, {new})
  BY OneIndexed
<1>8. A \subseteq S /\ C \subseteq S /\ A \cup C = S
  <2>1. \A x \in S : \E i \in 1..Len(s) : s[i] = x
    BY <1>1 DEF Enumerates
  <2>2. \A i \in 1..Len(s) : i \in 1..k \/ i \in (k + 1)..Len(s)
    BY <1>1, <1>2
  <2>3. \A i \in 1..k : i \in 1..Len(s)
    BY <1>1, <1>2
  <2>4. \A i \in (k + 1)..Len(s) : i \in 1..Len(s)
    BY <1>1, <1>2
  <2> QED
    BY <1>1, <2>1, <2>2, <2>3, <2>4
<1>9. \A x \in A : Before(x.pinyin, new.pinyin)
  BY <1>1, <1>2
<1>10. \A y \in C : Before(new.pinyin, y.pinyin) \/ new.pinyin = y.pinyin
  <2>1. ASSUME NEW i \in (k + 1)..Len(s)
        PROVE  Before(new.pinyin, s[i].pinyin) \/ new.pinyin = s[i].pinyin
    <3>1. i \in 1..Len(s) /\ ~(i <= k)
      BY <1>1, <1>2
    <3>2. ~Before(s[i].pinyin, new.pinyin) /\ s[i].pinyin \in Seq(Nat)
      BY <1>1, <1>2, <3>1
    <3> QED
      BY <3>2, BeforeTotal
  <2> QED
    BY <2>1
<1> HIDE DEF A, C, a, c
<1>11. IndexOK(a \o <<new>>, more, A \cup {new})
  <2>1. \A x \in A, y \in {new} : Before(x.pinyin, y.pinyin)
    BY <1>9
  <2>2. \A x \in A \cup {new} : x.pinyin \in Seq(Nat)
    BY <1>8
  <2> QED
    BY <1>5, <1>7, <2>1, <2>2, ConcatIndexed
<1>12. IndexOK((a \o <<new>>) \o c, more, (A \cup {new}) \cup C)
  <2>1. ASSUME NEW x \in A \cup {new}, NEW y \in C
        PROVE  \/ Before(x.pinyin, y.pinyin)
               \/ x.pinyin = y.pinyin /\ x.pinyin \in more /\ x # y
    <3>1. x.pinyin \in Seq(Nat) /\ y.pinyin \in Seq(Nat)
      BY <1>8
    <3>2. CASE x \in A
      BY <1>9, <1>10, <3>1, <3>2, BeforeTransitive
    <3>3. CASE x = new
      BY <1>8, <1>10, <3>3 DEF more
    <3> QED
      BY <3>2, <3>3
  <2>2. \A x \in (A \cup {new}) \cup C : x.pinyin \in Seq(Nat)
    BY <1>8
  <2> QED
    BY <1>6, <1>11, <2>1, <2>2, ConcatIndexed
<1>13. (A \cup {new}) \cup C = S \cup {new}
  BY <1>8
<1>14. InsertAt(s, k + 1, new) = (a \o <<new>>) \o c
  BY <1>4 DEF InsertAt, a, c
<1> QED
  BY <1>12, <1>13, <1>14 DEF k, more

LEMMA ResortedIndexed ==
  ASSUME NEW S, \A x \in S : x.pinyin \in Seq(Nat) /\ x.eff \in Nat /\ x.text \in Nat,
         Unique(S), NEW p \in Seq(Nat), NEW s, NEW except, IndexOK(s, except \cup {p}, S)
  PROVE  IndexOK(Resorted(s, p), except, S)
<1> DEFINE PO == {i \in 1..Len(s) : s[i].pinyin # p}
           PB == {i \in 1..Len(s) : s[i].pinyin = p}
           O == {x \in S : x.pinyin # p}
           B == {x \in S : x.pinyin = p}
           o == Picks(s, PO)
           b == Sorted(Picks(s, PB), ByPinyinRank)
           k == Position(s, p)
           A == {o[i] : i \in 1..k}
           C == {o[i] : i \in (k + 1)..Len(o)}
           a == SubSeq(o, 1, k)
           c == SubSeq(o, k + 1, Len(o))
<1>1. /\ Enumerates(s, S) /\ ByReading(s) /\ Len(s) \in Nat /\ DOMAIN s = 1..Len(s)
      /\ \A i \in 1..Len(s) : s[i] \in S
  BY EnumeratesCounts DEF IndexOK
<1>2. \A x \in S : \E i \in 1..Len(s) : s[i] = x
  BY <1>1 DEF Enumerates
<1>3. IndexOK(o, except, O)
  <2>1. PO \in SUBSET (1..Len(s)) /\ {s[i] : i \in PO} = O
    BY <1>1, <1>2
  <2> HIDE DEF PO, O
  <2>2. IndexOK(o, except \cup {p}, O)
    BY <2>1, PicksIndexed
  <2> QED
    BY <2>2, FewerExcepted DEF O
<1>4. Enumerates(b, B) /\ \A m, n \in 1..Len(b) : m < n => ~ByPinyinRank(b[n], b[m])
  <2>1. PB \in SUBSET (1..Len(s)) /\ {s[i] : i \in PB} = B
    BY <1>1, <1>2
  <2>2. \A x \in B : x.pinyin \in Seq(Nat) /\ x.eff \in Nat /\ x.text \in Nat
    OBVIOUS
  <2> HIDE DEF PB, B
  <2>3. Enumerates(Picks(s, PB), B)
    BY <1>1, <2>1, PicksEnumerates
  <2> QED
    BY <2>2, <2>3, SortedByPinyinRank
<1>5. k = Position(o, p)
  <2>1. k = Cardinality({x \in S : Before(x.pinyin, p)})
    BY <1>1, PositionFacts
  <2>2. Enumerates(o, O) /\ ByReading(o) /\ \A x \in O : x.pinyin \in Seq(Nat)
    BY <1>3 DEF IndexOK
  <2>3. {x \in S : Before(x.pinyin, p)} = {x \in O : Before(x.pinyin, p)}
    BY BeforeIrreflexive
  <2> HIDE DEF o, O, k
  <2>4. Position(o, p) = Cardinality({x \in O : Before(x.pinyin, p)})
    BY <2>2, PositionFacts
  <2> QED
    BY <2>1, <2>3, <2>4
<1>6. /\ Len(o) \in Nat /\ k \in 0..Len(o) /\ \A i \in 1..Len(o) : o[i] \in O
      /\ \A i \in 1..Len(o) : i <= k <=> Before(o[i].pinyin, p)
  <2>1. Enumerates(o, O) /\ ByReading(o) /\ \A x \in O : x.pinyin \in Seq(Nat)
    BY <1>3 DEF IndexOK
  <2> HIDE DEF o, O, k
  <2> QED
    BY <1>5, <2>1, PositionFacts, EnumeratesCounts
<1>7. \A x \in O : x \in S /\ x.pinyin # p /\ x.pinyin \in Seq(Nat)
  OBVIOUS
<1>8. \A x \in B : x \in S /\ x.pinyin = p
  OBVIOUS
<1>9. O \cup B = S
  OBVIOUS
<1>10. Resorted(s, p) = (a \o b) \o c
  BY <1>1 DEF Resorted
<1> HIDE DEF PO, PB, O, B, o, b, k
<1>11. IndexOK(b, except, B)
  <2>1. Len(b) \in Nat /\ \A i \in 1..Len(b) : b[i] \in B
    BY <1>4, EnumeratesCounts
  <2>2. ASSUME NEW i \in 1..Len(b), NEW j \in 1..Len(b), i < j
        PROVE  ByRank(b[i], b[j]) /\ ~Before(b[j].pinyin, b[i].pinyin)
    <3>1. b[i] \in S /\ b[j] \in S /\ b[i].pinyin = p /\ b[j].pinyin = p
      BY <1>8, <2>1
    <3>2. ~ByRank(b[j], b[i])
      BY <1>4, <2>2, <3>1 DEF ByPinyinRank
    <3>3. b[i] # b[j]
      <4>1. i # j
        BY <2>1, <2>2
      <4> QED
        BY <1>4, <4>1 DEF Enumerates
    <3>4. b[i].text # b[j].text
      BY <3>1, <3>3 DEF Unique, Word
    <3> QED
      BY <3>1, <3>2, <3>4, BeforeIrreflexive DEF ByRank
  <2> QED
    BY <1>4, <2>2 DEF IndexOK, ByReading, Ranked
<1>12. 1 \in 1..(Len(o) + 1) /\ k \in (1 - 1)..Len(o) /\ k + 1 \in 1..(Len(o) + 1)
      /\ Len(o) \in ((k + 1) - 1)..Len(o)
  BY <1>6
<1>13. IndexOK(a, except, A)
  BY <1>3, <1>12, SubSeqIndexed
<1>14. IndexOK(c, except, C)
  BY <1>3, <1>12, SubSeqIndexed
<1>15. A \subseteq O /\ C \subseteq O /\ A \cup C = O
  <2>1. \A x \in O : \E i \in 1..Len(o) : o[i] = x
    BY <1>3 DEF Enumerates, IndexOK
  <2>2. \A i \in 1..Len(o) : i \in 1..k \/ i \in (k + 1)..Len(o)
    BY <1>6
  <2>3. \A i \in 1..k : i \in 1..Len(o)
    BY <1>6
  <2>4. \A i \in (k + 1)..Len(o) : i \in 1..Len(o)
    BY <1>6
  <2> QED
    BY <1>6, <2>1, <2>2, <2>3, <2>4
<1>16. \A x \in A : Before(x.pinyin, p)
  BY <1>6
<1>17. \A y \in C : Before(p, y.pinyin)
  <2>1. ASSUME NEW i \in (k + 1)..Len(o) PROVE Before(p, o[i].pinyin)
    <3>1. i \in 1..Len(o) /\ ~(i <= k)
      BY <1>6
    <3>2. ~Before(o[i].pinyin, p) /\ o[i].pinyin \in Seq(Nat) /\ o[i].pinyin # p
      BY <1>6, <1>7, <3>1
    <3> QED
      BY <3>2, BeforeTotal
  <2> QED
    BY <2>1
<1> HIDE DEF A, C, a, c
<1>18. IndexOK(a \o b, except, A \cup B)
  <2>1. \A x \in A, y \in B : Before(x.pinyin, y.pinyin)
    BY <1>8, <1>16
  <2>2. \A x \in A \cup B : x.pinyin \in Seq(Nat)
    BY <1>7, <1>8, <1>15
  <2> QED
    BY <1>11, <1>13, <2>1, <2>2, ConcatIndexed
<1>19. IndexOK((a \o b) \o c, except, (A \cup B) \cup C)
  <2>1. ASSUME NEW x \in A \cup B, NEW y \in C PROVE Before(x.pinyin, y.pinyin)
    <3>1. x.pinyin \in Seq(Nat) /\ y.pinyin \in Seq(Nat)
      BY <1>7, <1>8, <1>15
    <3> QED
      BY <1>8, <1>16, <1>17, <3>1, BeforeTransitive
  <2>2. \A x \in (A \cup B) \cup C : x.pinyin \in Seq(Nat)
    BY <1>7, <1>8, <1>15
  <2> QED
    BY <1>14, <1>18, <2>1, <2>2, ConcatIndexed
<1>20. (A \cup B) \cup C = S
  BY <1>9, <1>15
<1> QED
  BY <1>10, <1>19, <1>20

----------------------------------------------------------------------------
(* Rows, uses and the vectors made from them.                              *)

RowType == [pinyin : Seq(Nat), text : Nat, freq : Nat, user : BOOLEAN]
WordType == [pinyin : Seq(Nat), text : Nat]

(* A word has one row, and a row of the user was used.                     *)
RowsOK(rows, uses) ==
  /\ rows \subseteq RowType /\ IsFiniteSet(rows) /\ Unique(rows)
  /\ DOMAIN uses \subseteq WordType /\ \A w \in DOMAIN uses : uses[w] \in Nat
  /\ \A r \in rows : r.user => Word(r) \in DOMAIN uses

EntrySet(rows, uses) == {Entry(r, uses) : r \in rows}

ReadingsUsed(uses) == {w.pinyin : w \in DOMAIN uses}

LEMMA EntryFacts ==
  ASSUME NEW uses, \A w \in DOMAIN uses : uses[w] \in Nat, NEW r \in RowType
  PROVE  /\ Entry(r, uses) \in EntryType /\ Word(Entry(r, uses)) = Word(r)
         /\ Entry(r, uses).pinyin = r.pinyin /\ Entry(r, uses).text = r.text
         /\ Entry(r, uses).freq = r.freq /\ Entry(r, uses).user = r.user
         /\ ~r.user => Entry(r, uses).eff = r.freq
<1>1. UserBonus(uses, Word(r)) \in Nat
  <2>1. Boost \in Nat
    BY DictionaryAssumption
  <2>2. \A n \in Nat : n * Boost \in Nat
    BY <2>1
  <2> QED
    BY <2>2 DEF UserBonus
<1>2. r.freq \in Nat /\ r.pinyin \in Seq(Nat) /\ r.text \in Nat /\ r.user \in BOOLEAN
  BY DEF RowType
<1>3. r.freq + (IF r.user THEN UserBonus(uses, Word(r)) ELSE 0) \in Nat
  BY <1>1, <1>2
<1> QED
  BY <1>2, <1>3 DEF Entry, EntryType, Word

LEMMA EntrySetFacts ==
  ASSUME NEW rows, NEW uses, RowsOK(rows, uses)
  PROVE  /\ EntrySet(rows, uses) \subseteq EntryType
         /\ IsFiniteSet(EntrySet(rows, uses))
         /\ Unique(EntrySet(rows, uses))
         /\ \A x \in EntrySet(rows, uses) :
              x.pinyin \notin ReadingsUsed(uses) => x.eff = x.freq
<1> DEFINE E == EntrySet(rows, uses)
           f == [r \in rows |-> Entry(r, uses)]
<1>1. \A r \in rows : /\ Entry(r, uses) \in EntryType /\ Word(Entry(r, uses)) = Word(r)
                      /\ Entry(r, uses).pinyin = r.pinyin /\ Entry(r, uses).freq = r.freq
                      /\ ~r.user => Entry(r, uses).eff = r.freq
  BY EntryFacts DEF RowsOK
<1>2. IsFiniteSet(E)
  <2>1. f \in Surjection(rows, E)
    BY DEF Surjection, EntrySet
  <2> QED
    BY <2>1, FS_Surjection DEF RowsOK
<1>3. Unique(E)
  BY <1>1 DEF RowsOK, Unique, EntrySet
<1>4. ASSUME NEW r \in rows, r.pinyin \notin ReadingsUsed(uses) PROVE ~r.user
  <2>1. Word(r).pinyin = r.pinyin
    BY DEF Word
  <2> QED
    BY <1>4, <2>1 DEF RowsOK, ReadingsUsed
<1> QED
  BY <1>1, <1>2, <1>3, <1>4 DEF EntrySet

(* What an open loads is such a vector.                                    *)
LEMMA EntriesIndexed ==
  ASSUME NEW rows, NEW uses, RowsOK(rows, uses)
  PROVE  /\ IndexOK(Entries(rows, uses), ReadingsUsed(uses), EntrySet(rows, uses))
         /\ Enumerates(Sorted(Entries(rows, uses), ByAbbrevRank), EntrySet(rows, uses))
<1> DEFINE E == EntrySet(rows, uses)
           B == Below(E, ByPinyinFreq)
           s == Entries(rows, uses)
<1>1. /\ E \subseteq EntryType /\ IsFiniteSet(E) /\ Unique(E)
      /\ \A x \in E : x.pinyin \notin ReadingsUsed(uses) => x.eff = x.freq
  BY EntrySetFacts
<1>2. \A x \in E : /\ x.pinyin \in Seq(Nat) /\ x.freq \in Nat /\ x.text \in Nat
                   /\ x.eff \in Nat
  BY <1>1 DEF EntryType
<1>3. TotalOrder(B, E)
  <2> HIDE DEF E
  <2> QED
    BY <1>1, <1>2, PinyinFreqIsTotal DEF Unique
<1>4. s = Ordering(E, B)
  BY DEF Entries, InOrder, EntrySet, Below
<1>5. Enumerates(s, E) /\ Ascends(s, B)
  <2> HIDE DEF E, B, s
  <2> QED
    BY <1>1, <1>3, <1>4, OrderingFacts
<1>6. \A x, y \in E : y \in B[x] <=> ByPinyinFreq(y, x)
  BY DEF Below
<1> HIDE DEF E, B, s
<1>7. \A i \in 1..Len(s) : s[i] \in E
  BY <1>5, EnumeratesCounts
<1>8. ASSUME NEW i \in 1..Len(s), NEW j \in 1..Len(s), i < j
      PROVE  /\ ~Before(s[j].pinyin, s[i].pinyin)
             /\ s[i].pinyin = s[j].pinyin =>
                  (s[i].pinyin \in ReadingsUsed(uses) \/ ByRank(s[i], s[j]))
  <2>1. ByPinyinFreq(s[i], s[j])
    BY <1>5, <1>6, <1>7, <1>8 DEF Ascends
  <2>2. s[i].pinyin \in Seq(Nat) /\ s[j].pinyin \in Seq(Nat)
    BY <1>2, <1>7
  <2>3. ~Before(s[i].pinyin, s[i].pinyin)
    BY <2>2, BeforeIrreflexive
  <2>4. ~Before(s[j].pinyin, s[i].pinyin)
    BY <2>1, <2>2, <2>3, BeforeTransitive DEF ByPinyinFreq
  <2>5. s[i].pinyin = s[j].pinyin => ByFreq(s[i], s[j])
    BY <2>1, <2>3 DEF ByPinyinFreq
  <2> QED
    BY <1>1, <1>7, <2>4, <2>5 DEF ByFreq, ByRank
<1>9. IndexOK(s, ReadingsUsed(uses), E)
  BY <1>5, <1>8 DEF IndexOK, ByReading, Ranked
<1>10. Enumerates(Sorted(s, ByAbbrevRank), E)
  BY <1>2, <1>5, SortedByAbbrevRank
<1> QED
  BY <1>9, <1>10 DEF s, E

(* The rows after an import and after a use.                               *)
LEMMA UpsertedOK ==
  ASSUME NEW rows, NEW uses, RowsOK(rows, uses), NEW line \in Line
  PROVE  RowsOK(Upserted(rows, line), uses)
<1> DEFINE same == {r \in rows : Word(r) = Word(line)}
           new == [pinyin |-> line.pinyin, text |-> line.text, freq |-> line.freq, user |-> FALSE]
<1>1. new \in RowType /\ Word(new) = Word(line) /\ ~new.user
  BY DEF Line, RowType, Word
<1>2. IsFiniteSet((rows \ same) \cup {new})
  BY FS_Difference, FS_AddElement DEF RowsOK
<1>3. \A r \in rows \ same : Word(r) # Word(new)
  BY <1>1
<1>4. RowsOK((rows \ same) \cup {new}, uses)
  <2> HIDE DEF same, new
  <2>1. (rows \ same) \cup {new} \subseteq RowType
    BY <1>1 DEF RowsOK
  <2>2. Unique((rows \ same) \cup {new})
    BY <1>3 DEF RowsOK, Unique
  <2> QED
    BY <1>1, <1>2, <2>1, <2>2 DEF RowsOK
<1> QED
  BY <1>4 DEF Upserted

Counted(w) == [x \in DOMAIN stats \cup {w} |-> IF x = w THEN Uses(w) + 1 ELSE stats[x]]

NewEntry(w) == Entry(CHOOSE r \in Persisted(w) : Word(r) = w, Counted(w))

LEMMA PersistedOK ==
  ASSUME RowsOK(phrase, stats), NEW w \in WordType
  PROVE  /\ RowsOK(Persisted(w), Counted(w))
         /\ NewEntry(w) \in EntryType /\ Word(NewEntry(w)) = w
         /\ NewEntry(w).pinyin = w.pinyin
         /\ EntrySet(Persisted(w), Counted(w)) = Replaced(EntrySet(phrase, stats), NewEntry(w))
<1> DEFINE same == {r \in phrase : Word(r) = w}
           freq == IF same = {} THEN 0 ELSE (CHOOSE r \in same : TRUE).freq
           new == [pinyin |-> w.pinyin, text |-> w.text, freq |-> freq + 1, user |-> TRUE]
<1>1. freq \in Nat
  <2>1. \A r \in same : r.freq \in Nat
    BY DEF RowsOK, RowType
  <2> HIDE DEF same
  <2> QED
    BY <2>1
<1> HIDE DEF freq
<1>2. new \in RowType /\ Word(new) = w /\ new.user /\ new.pinyin = w.pinyin
  BY <1>1 DEF WordType, RowType, Word
<1>3. Persisted(w) = (phrase \ same) \cup {new}
  BY DEF Persisted, freq
<1>4. \A r \in phrase \ same : Word(r) # w
  OBVIOUS
<1> HIDE DEF new
<1>5. (CHOOSE r \in Persisted(w) : Word(r) = w) = new
  BY <1>2, <1>3
<1>6. /\ DOMAIN Counted(w) = DOMAIN stats \cup {w}
      /\ \A x \in DOMAIN stats : x # w => Counted(w)[x] = stats[x]
      /\ \A x \in DOMAIN Counted(w) : Counted(w)[x] \in Nat
  BY DEF Counted, Uses, RowsOK
<1>7. RowsOK(Persisted(w), Counted(w))
  <2>1. IsFiniteSet((phrase \ same) \cup {new})
    BY FS_Difference, FS_AddElement DEF RowsOK
  <2>2. (phrase \ same) \cup {new} \subseteq RowType
    BY <1>2 DEF RowsOK
  <2>3. Unique((phrase \ same) \cup {new})
    BY <1>2, <1>4 DEF RowsOK, Unique
  <2>4. \A r \in (phrase \ same) \cup {new} : r.user => Word(r) \in DOMAIN Counted(w)
    BY <1>2, <1>6 DEF RowsOK
  <2> QED
    BY <1>3, <1>6, <2>1, <2>2, <2>3, <2>4 DEF RowsOK
<1>8. NewEntry(w) = Entry(new, Counted(w))
  BY <1>5 DEF NewEntry
<1>9. NewEntry(w) \in EntryType /\ Word(NewEntry(w)) = w /\ NewEntry(w).pinyin = w.pinyin
  BY <1>2, <1>6, <1>8, EntryFacts
<1>10. ASSUME NEW r \in phrase, Word(r) # w PROVE Entry(r, Counted(w)) = Entry(r, stats)
  <2>1. UserBonus(Counted(w), Word(r)) = UserBonus(stats, Word(r))
    BY <1>6, <1>10 DEF UserBonus
  <2> QED
    BY <2>1 DEF Entry
<1>11. \A r \in phrase : Word(Entry(r, stats)) = Word(r)
  BY EntryFacts DEF RowsOK
<1>12. EntrySet(Persisted(w), Counted(w)) = Replaced(EntrySet(phrase, stats), NewEntry(w))
  <2>1. EntrySet(Persisted(w), Counted(w))
          = {Entry(r, Counted(w)) : r \in phrase \ same} \cup {NewEntry(w)}
    BY <1>3, <1>8 DEF EntrySet
  <2>2. {Entry(r, Counted(w)) : r \in phrase \ same} = {Entry(r, stats) : r \in phrase \ same}
    BY <1>4, <1>10
  <2>3. {Entry(r, stats) : r \in phrase \ same} = {x \in EntrySet(phrase, stats) : Word(x) # w}
    BY <1>11 DEF EntrySet
  <2> QED
    BY <1>9, <2>1, <2>2, <2>3 DEF Replaced
<1> QED
  BY <1>7, <1>9, <1>12

----------------------------------------------------------------------------
(* The invariant of the vectors.                                           *)

VectorsInv ==
  /\ RowsOK(phrase, stats)
  /\ IndexOK(index, userPinyins, EntrySet(phrase, stats))
  /\ Enumerates(abbrevIndex, EntrySet(phrase, stats))
  /\ userPinyins \subseteq ReadingsUsed(stats)

LEMMA OpenedOK ==
  ASSUME NEW rows, NEW uses, RowsOK(rows, uses), Opened(rows, uses)
  PROVE  /\ IndexOK(index', userPinyins', EntrySet(rows, uses))
         /\ Enumerates(abbrevIndex', EntrySet(rows, uses))
         /\ userPinyins' = ReadingsUsed(uses)
<1>1. /\ index' = Entries(rows, uses)
      /\ abbrevIndex' = Sorted(Entries(rows, uses), ByAbbrevRank)
      /\ userPinyins' = ReadingsUsed(uses)
  BY DEF Opened, Loaded, ReadingsUsed
<1> QED
  BY <1>1, EntriesIndexed

LEMMA LearnIndexOK ==
  ASSUME VectorsInv, NEW w \in WordType, LearnIndex(w, Counted(w))
  PROVE  /\ IndexOK(index', userPinyins, EntrySet(Persisted(w), Counted(w)))
         /\ Enumerates(abbrevIndex', EntrySet(Persisted(w), Counted(w)))
<1> DEFINE new == NewEntry(w)
           E == EntrySet(phrase, stats)
           E2 == EntrySet(Persisted(w), Counted(w))
           more == userPinyins \cup {w.pinyin}
           there == \E i \in DOMAIN index : Word(index[i]) = w
<1>1. /\ RowsOK(Persisted(w), Counted(w)) /\ new \in EntryType /\ Word(new) = w
      /\ new.pinyin = w.pinyin /\ E2 = Replaced(E, new)
  BY PersistedOK DEF VectorsInv
<1>2. E \subseteq EntryType /\ Unique(E)
  BY EntrySetFacts DEF VectorsInv
<1>3. E2 \subseteq EntryType /\ Unique(E2)
  BY <1>1, EntrySetFacts, Zenon
<1> DEFINE Raised(ix) == [i \in DOMAIN ix |-> IF Word(ix[i]) = w THEN new ELSE ix[i]]
           before == Cardinality({i \in DOMAIN abbrevIndex :
                       Before(AbbrevOf(abbrevIndex[i].pinyin), AbbrevOf(w.pinyin))})
<1>4. /\ there => /\ index' = Resorted(Raised(index), w.pinyin)
                  /\ abbrevIndex' = Raised(abbrevIndex)
      /\ ~there => /\ index' = Resorted(InsertAt(index, Position(index, w.pinyin) + 1, new), w.pinyin)
                   /\ abbrevIndex' = InsertAt(abbrevIndex, before + 1, new)
  BY Zenon DEF LearnIndex, Resorted, Position, Kept, NewEntry
<1>5. With(index, new) = Raised(index) /\ With(abbrevIndex, new) = Raised(abbrevIndex)
  BY <1>1, Zenon DEF With
<1> HIDE DEF Raised, before
<1> HIDE DEF new, E, E2
<1>6. IndexOK(index, userPinyins, E) /\ Enumerates(index, E) /\ Enumerates(abbrevIndex, E)
  BY DEF VectorsInv, IndexOK, E
<1>7. w.pinyin \in Seq(Nat)
  BY DEF WordType
<1>8. ASSUME NEW s, IndexOK(s, more, E2)
      PROVE  IndexOK(Resorted(s, w.pinyin), userPinyins, E2)
  <2>1. \A x \in E2 : x.pinyin \in Seq(Nat) /\ x.eff \in Nat /\ x.text \in Nat
    BY <1>3 DEF EntryType
  <2> QED
    BY <1>3, <1>7, <1>8, <2>1, ResortedIndexed
<1>9. CASE there
  <2>1. PICK i \in DOMAIN index : Word(index[i]) = w
    BY <1>9
  <2>2. IndexOK(With(index, new), more, E2)
    BY <1>1, <1>2, <1>6, <2>1, WithIndexed
  <2>3. index[i] \in E /\ DOMAIN abbrevIndex = 1..Len(abbrevIndex)
    BY <1>6, EnumeratesCounts
  <2>4. PICK j \in DOMAIN abbrevIndex : abbrevIndex[j] = index[i]
    BY <1>6, <2>3 DEF Enumerates
  <2>5. Enumerates(With(abbrevIndex, new), E2)
    BY <1>1, <1>2, <1>6, <2>1, <2>4, WithEnumerates
  <2> QED
    BY <1>4, <1>5, <1>8, <1>9, <2>2, <2>5 DEF E2
<1>10. CASE ~there
  <2>1. DOMAIN index = 1..Len(index)
    BY <1>6, EnumeratesCounts
  <2>2. \A x \in E : Word(x) # w
    BY <1>6, <1>10, <2>1 DEF Enumerates
  <2>3. new \notin E /\ E2 = E \cup {new}
    BY <1>1, <2>2 DEF Replaced
  <2>4. \A x \in E : x.pinyin \in Seq(Nat)
    BY <1>2 DEF EntryType
  <2>5. IndexOK(InsertAt(index, Position(index, new.pinyin) + 1, new),
                userPinyins \cup {new.pinyin}, E \cup {new})
    BY <1>1, <1>6, <1>7, <2>3, <2>4, InsertIndexed
  <2>7. before + 1 \in 1..(Len(abbrevIndex) + 1)
    <3> DEFINE P == {i \in DOMAIN abbrevIndex :
                       Before(AbbrevOf(abbrevIndex[i].pinyin), AbbrevOf(w.pinyin))}
    <3>1. Len(abbrevIndex) \in Nat /\ DOMAIN abbrevIndex = 1..Len(abbrevIndex)
      BY <1>6, EnumeratesCounts
    <3>2. P \in SUBSET (1..Len(abbrevIndex))
      BY <3>1
    <3> HIDE DEF P
    <3>3. IsFiniteSet(1..Len(abbrevIndex)) /\ Cardinality(1..Len(abbrevIndex)) = Len(abbrevIndex)
      <4> DEFINE n == Len(abbrevIndex)
      <4>1. n \in Nat
        BY <3>1
      <4> HIDE DEF n
      <4>2. IsFiniteSet(1..n) /\ Cardinality(1..n) = n
        BY <4>1, FS_Interval
      <4> QED
        BY <4>2 DEF n
    <3>4. IsFiniteSet(P) /\ Cardinality(P) <= Len(abbrevIndex)
      BY <3>2, <3>3, FS_Subset
    <3>5. Cardinality(P) \in Nat
      BY <3>4, FS_CardinalityType
    <3> QED
      BY <3>1, <3>4, <3>5 DEF P, before
  <2>8. Enumerates(abbrevIndex', E2)
    BY <1>4, <1>6, <1>10, <2>3, <2>7, InsertEnumerates
  <2> QED
    BY <1>1, <1>4, <1>8, <1>10, <2>3, <2>5, <2>8 DEF E2
<1> QED
  BY <1>9, <1>10

LEMMA VectorsInitially ==
  ASSUME Init
  PROVE  VectorsInv
<1>1. PICK source \in Sources :
        phrase = {[pinyin |-> l.pinyin, text |-> l.text, freq |-> l.freq, user |-> FALSE] : l \in source}
  BY DEF Init
<1> DEFINE f == [l \in source |->
                   [pinyin |-> l.pinyin, text |-> l.text, freq |-> l.freq, user |-> FALSE]]
<1>2. /\ source \subseteq Line /\ IsFiniteSet(source)
      /\ \A l, m \in source : l.pinyin = m.pinyin /\ l.text = m.text => l = m
  BY DictionaryAssumption
<1>3. IsFiniteSet(phrase)
  <2>1. f \in Surjection(source, phrase)
    BY <1>1 DEF Surjection
  <2> QED
    BY <1>2, <2>1, FS_Surjection
<1>4. phrase \subseteq RowType /\ \A r \in phrase : ~r.user
  <2>1. ASSUME NEW r \in phrase PROVE r \in RowType /\ ~r.user
    <3>1. PICK l \in source :
            r = [pinyin |-> l.pinyin, text |-> l.text, freq |-> l.freq, user |-> FALSE]
      BY <1>1
    <3>2. l \in Line
      BY <1>2
    <3> QED
      BY <3>1, <3>2 DEF Line, RowType
  <2> QED
    BY <2>1
<1>5. Unique(phrase)
  <2>1. ASSUME NEW r \in phrase, NEW q \in phrase, Word(r) = Word(q) PROVE r = q
    <3>1. PICK l \in source :
            r = [pinyin |-> l.pinyin, text |-> l.text, freq |-> l.freq, user |-> FALSE]
      BY <1>1
    <3>2. PICK m \in source :
            q = [pinyin |-> m.pinyin, text |-> m.text, freq |-> m.freq, user |-> FALSE]
      BY <1>1
    <3>3. l.pinyin = m.pinyin /\ l.text = m.text
      BY <2>1, <3>1, <3>2 DEF Word
    <3>4. l = m
      BY <1>2, <3>3
    <3> QED
      BY <3>1, <3>2, <3>4
  <2> QED
    BY <2>1 DEF Unique
<1>6. DOMAIN stats = {} /\ index = Entries(phrase, stats) /\ userPinyins = {}
      /\ abbrevIndex = Sorted(Entries(phrase, stats), ByAbbrevRank)
  BY DEF Init
<1>7. RowsOK(phrase, stats)
  BY <1>3, <1>4, <1>5, <1>6 DEF RowsOK
<1>8. ReadingsUsed(stats) = {}
  BY <1>6 DEF ReadingsUsed
<1> QED
  BY <1>6, <1>7, <1>8, EntriesIndexed DEF VectorsInv

LEMMA VectorsKept ==
  ASSUME VectorsInv, [Next]_vars
  PROVE  VectorsInv'
<1>1. ASSUME NEW w \in Learnable, Learn(w) PROVE VectorsInv'
  <2>1. w \in WordType
    BY DictionaryAssumption DEF WordType
  <2>2. stats' = Counted(w) /\ phrase' = Persisted(w) /\ userPinyins' = userPinyins
    BY <1>1 DEF Learn, Counted
  <2>3. LearnIndex(w, Counted(w))
    BY <1>1, <2>2 DEF Learn
  <2>4. RowsOK(phrase', stats')
    BY <2>1, <2>2, PersistedOK DEF VectorsInv
  <2>5. /\ IndexOK(index', userPinyins', EntrySet(phrase', stats'))
        /\ Enumerates(abbrevIndex', EntrySet(phrase', stats'))
    BY <2>1, <2>2, <2>3, LearnIndexOK
  <2>6. userPinyins' \subseteq ReadingsUsed(stats')
    <3>1. DOMAIN stats \subseteq DOMAIN stats'
      BY <2>2 DEF Counted
    <3> QED
      BY <2>2, <3>1 DEF VectorsInv, ReadingsUsed
  <2> QED
    BY <2>4, <2>5, <2>6 DEF VectorsInv
<1>2. ASSUME RowsOK(phrase', stats'), Opened(phrase', stats') PROVE VectorsInv'
  BY <1>2, OpenedOK DEF VectorsInv
<1>3. CASE Import
  <2>1. PICK line \in Later : phrase' = Upserted(phrase, line)
    BY <1>3 DEF Import
  <2>2. stats' = stats /\ line \in Line /\ Opened(phrase', stats)
    BY <1>3, DictionaryAssumption DEF Import
  <2>3. RowsOK(phrase', stats')
    BY <2>1, <2>2, UpsertedOK DEF VectorsInv
  <2> QED
    BY <1>2, <2>2, <2>3
<1>4. CASE Build \/ Reopen
  <2>1. phrase' = phrase /\ stats' = stats /\ Opened(phrase, stats)
    BY <1>4 DEF Build, Reopen
  <2> QED
    BY <1>2, <2>1 DEF VectorsInv
<1>5. CASE UNCHANGED vars
  BY <1>5 DEF VectorsInv, vars
<1> QED
  BY <1>1, <1>3, <1>4, <1>5 DEF Next

----------------------------------------------------------------------------
(* What is looked up in such a vector depends on its entries alone.        *)

CandidateType == [text : Nat, pinyin : Seq(Nat), freq : Nat, eff : Nat]

CandidateSet(S) == {Candidate(x) : x \in S}

LEMMA CandidateSetFacts ==
  ASSUME NEW S, S \subseteq EntryType, Unique(S)
  PROVE  /\ CandidateSet(S) \subseteq CandidateType /\ Unique(CandidateSet(S))
         /\ \A x \in S : /\ Candidate(x) \in CandidateType
                         /\ Candidate(x).pinyin = x.pinyin /\ Candidate(x).text = x.text
                         /\ Candidate(x).eff = x.eff /\ Candidate(x).freq = x.freq
         /\ \A x, y \in S : Candidate(x) = Candidate(y) => x = y
<1>1. \A x \in S : /\ Candidate(x) \in CandidateType
                   /\ Candidate(x).pinyin = x.pinyin /\ Candidate(x).text = x.text
                   /\ Candidate(x).eff = x.eff /\ Candidate(x).freq = x.freq
  BY DEF Candidate, CandidateType, EntryType
<1>2. ASSUME NEW x \in S, NEW y \in S,
             Candidate(x).pinyin = Candidate(y).pinyin, Candidate(x).text = Candidate(y).text
      PROVE  x = y
  <2>1. Word(x) = Word(y)
    BY <1>1, <1>2 DEF Word
  <2> QED
    BY <2>1 DEF Unique
<1>3. \A x, y \in S : Candidate(x) = Candidate(y) => x = y
  BY <1>2
<1>4. Unique(CandidateSet(S))
  BY <1>2 DEF Unique, Word, CandidateSet
<1> QED
  BY <1>1, <1>3, <1>4 DEF CandidateSet

LEMMA CandidatesEnumerate ==
  ASSUME NEW S, S \subseteq EntryType, Unique(S), NEW s, Enumerates(s, S)
  PROVE  /\ Enumerates(Candidates(s), CandidateSet(S)) /\ Len(Candidates(s)) = Len(s)
         /\ \A i \in 1..Len(s) : Candidates(s)[i] = Candidate(s[i])
<1> DEFINE t == Candidates(s)
           n == Len(s)
           C == CandidateSet(S)
<1>1. n \in Nat /\ DOMAIN s = 1..n /\ \A i \in 1..n : s[i] \in S
  BY EnumeratesCounts
<1>2. t = [i \in 1..n |-> Candidate(s[i])]
  BY <1>1 DEF Candidates
<1>3. \A i \in 1..n : t[i] = Candidate(s[i]) /\ t[i] \in C
  BY <1>1, <1>2 DEF CandidateSet
<1>4. t \in Seq(C) /\ Len(t) = n
  <2>1. t \in [1..n -> C]
    BY <1>2, <1>3
  <2> HIDE DEF t, n, C
  <2> QED
    BY <1>1, <1>2, <2>1
<1> HIDE DEF t, n, C
<1>5. \A i, j \in 1..n : t[i] = t[j] => i = j
  <2>1. \A x, y \in S : Candidate(x) = Candidate(y) => x = y
    BY CandidateSetFacts
  <2>2. \A i, j \in 1..n : s[i] = s[j] => i = j
    BY DEF Enumerates, n
  <2> QED
    BY <1>1, <1>3, <2>1, <2>2
<1>6. \A x \in C : \E i \in 1..n : t[i] = x
  <2>1. ASSUME NEW e \in S PROVE \E i \in 1..n : t[i] = Candidate(e)
    <3>1. PICK i \in 1..n : s[i] = e
      BY DEF Enumerates, n
    <3> QED
      BY <1>3, <3>1
  <2> QED
    BY <2>1 DEF C, CandidateSet
<1> QED
  BY <1>3, <1>4, <1>5, <1>6 DEF Enumerates, t, n, C

LEMMA CandidatesIndexed ==
  ASSUME NEW S, S \subseteq EntryType, Unique(S), NEW s, NEW except, IndexOK(s, except, S)
  PROVE  IndexOK(Candidates(s), except, CandidateSet(S))
<1> DEFINE t == Candidates(s)
           n == Len(s)
           C == CandidateSet(S)
<1>1. Enumerates(s, S) /\ \A i \in 1..n : s[i] \in S
  BY EnumeratesCounts DEF IndexOK
<1>2. Enumerates(t, C) /\ Len(t) = n /\ \A i \in 1..n : t[i] = Candidate(s[i])
  BY <1>1, CandidatesEnumerate
<1> HIDE DEF t, C
<1>3. \A i \in 1..n : /\ t[i].pinyin = s[i].pinyin /\ t[i].text = s[i].text
                      /\ t[i].eff = s[i].eff
  BY <1>1, <1>2, CandidateSetFacts
<1>4. \A i, j \in 1..n : ByRank(s[i], s[j]) => ByRank(t[i], t[j])
  BY <1>3 DEF ByRank
<1>5. ByReading(t) /\ Ranked(t, except)
  BY <1>2, <1>3, <1>4 DEF IndexOK, ByReading, Ranked
<1> QED
  BY <1>2, <1>5 DEF IndexOK, t, C

(* Texts of one reading differ: there is one order by rank.                *)
LEMMA RankIsTotal ==
  ASSUME NEW C, C \subseteq CandidateType, Unique(C), NEW p, \A x \in C : x.pinyin = p
  PROVE  TotalOrder(Below(C, ByRank), C)
<1>1. \A x \in C : x.eff \in Nat /\ x.text \in Nat
  BY DEF CandidateType
<1>2. WeakOrder(Below(C, ByRank), C)
  BY <1>1, RankIsWeak
<1>3. \A x, y \in C : x.text = y.text => x = y
  BY DEF Unique, Word
<1>4. \A x, y \in C : x = y \/ ByRank(x, y) \/ ByRank(y, x)
  BY <1>1, <1>3 DEF ByRank
<1>5. \A x, y \in C : x = y \/ x \in Below(C, ByRank)[y] \/ y \in Below(C, ByRank)[x]
  BY <1>4 DEF Below
<1> QED
  BY <1>2, <1>5 DEF TotalOrder

(* A sort by rank keeps the members.                                       *)
LEMMA SortedEnumerates ==
  ASSUME NEW C, C \subseteq CandidateType, NEW s, Enumerates(s, C)
  PROVE  /\ Enumerates(Sorted(s, ByRank), C) /\ Len(Sorted(s, ByRank)) = Len(s)
         /\ \E at : /\ Enumerates(at, 1..Len(s)) /\ MadeFrom(Sorted(s, ByRank), s, at)
                    /\ \A m, n \in 1..Len(s) : m < n =>
                         LET x == Sorted(s, ByRank)[m]
                             y == Sorted(s, ByRank)[n]
                         IN  ByRank(x, y) \/ (~ByRank(y, x) /\ at[m] < at[n])
<1> DEFINE t == Sorted(s, ByRank)
<1>1. \A x \in C : x.eff \in Nat /\ x.text \in Nat
  BY DEF CandidateType
<1>2. s \in Seq(C)
  BY DEF Enumerates
<1>3. /\ t \in Seq(C) /\ Len(t) = Len(s)
      /\ \E at : /\ Enumerates(at, 1..Len(s)) /\ MadeFrom(t, s, at)
                 /\ \A m, n \in 1..Len(s) : m < n =>
                      ByRank(t[m], t[n]) \/ (~ByRank(t[n], t[m]) /\ at[m] < at[n])
  BY <1>1, <1>2, SortedByRank
<1> HIDE DEF t
<1>4. Enumerates(t, C)
  BY <1>3, Rearranged
<1> QED
  BY <1>3, <1>4 DEF t

BlockSet(E, key) == CandidateSet({x \in E : x.pinyin = key})

ByRankOf(C) == Ordering(C, Below(C, ByRank))

(* The first layer: the block of a reading in order of rank. One that was  *)
(* not used before the opening stands in that order already.               *)
LEMMA BlockOrder ==
  ASSUME NEW E, E \subseteq EntryType, Unique(E), NEW ix, NEW used, IndexOK(ix, used, E),
         NEW key
  PROVE  /\ Sorted(Block(ix, key), ByRank) = ByRankOf(BlockSet(E, key))
         /\ key \notin used => Block(ix, key) = ByRankOf(BlockSet(E, key))
<1> DEFINE P == {i \in 1..Len(ix) : ix[i].pinyin = key}
           S == {x \in E : x.pinyin = key}
           C == CandidateSet(S)
           k == Picks(ix, P)
           b == Candidates(k)
           B == Below(C, ByRank)
<1>1. /\ DOMAIN ix = 1..Len(ix) /\ \A i \in 1..Len(ix) : ix[i] \in E
      /\ \A x \in E : \E i \in 1..Len(ix) : ix[i] = x
  <2>1. Enumerates(ix, E)
    BY DEF IndexOK
  <2> QED
    BY <2>1, EnumeratesCounts DEF Enumerates
<1>2. Block(ix, key) = b
  BY <1>1 DEF Block, Kept
<1>3. IndexOK(k, used, S)
  <2>1. P \in SUBSET (1..Len(ix)) /\ {ix[i] : i \in P} = S
    BY <1>1
  <2> HIDE DEF P, S
  <2> QED
    BY <2>1, PicksIndexed
<1>4. S \subseteq EntryType /\ Unique(S) /\ \A x \in S : x.pinyin = key
  BY DEF Unique
<1> HIDE DEF S, k
<1>5. IndexOK(b, used, C)
  BY <1>3, <1>4, CandidatesIndexed
<1>6. C \subseteq CandidateType /\ Unique(C) /\ \A x \in C : x.pinyin = key
  <2>1. \A x \in S : Candidate(x).pinyin = key
    BY <1>4, CandidateSetFacts
  <2> QED
    BY <1>4, <2>1, CandidateSetFacts DEF CandidateSet
<1> HIDE DEF C, b
<1>7. TotalOrder(B, C)
  BY <1>6, RankIsTotal
<1>8. \A x, y \in C : y \in B[x] <=> ByRank(y, x)
  BY DEF Below
<1> HIDE DEF B
<1>9. Enumerates(b, C) /\ \A i \in 1..Len(b) : b[i] \in C
  BY <1>5, EnumeratesCounts DEF IndexOK
<1>10. Sorted(b, ByRank) = Ordering(C, B)
  <2> DEFINE t == Sorted(b, ByRank)
  <2>1. /\ Enumerates(t, C) /\ Len(t) = Len(b)
        /\ \E at : \A m, n \in 1..Len(b) : m < n =>
             ByRank(t[m], t[n]) \/ (~ByRank(t[n], t[m]) /\ at[m] < at[n])
    BY <1>6, <1>9, SortedEnumerates
  <2> HIDE DEF t
  <2>2. \A m \in 1..Len(t) : t[m] \in C
    BY <2>1, EnumeratesCounts
  <2>3. ASSUME NEW m \in 1..Len(t), NEW n \in 1..Len(t), m < n PROVE t[m] \in B[t[n]]
    <3>1. ~ByRank(t[n], t[m]) \/ ByRank(t[m], t[n])
      BY <2>1, <2>3
    <3>2. t[m] # t[n]
      <4>1. m # n
        BY <2>1, <2>3, EnumeratesCounts
      <4> QED
        BY <2>1, <4>1 DEF Enumerates
    <3> QED
      BY <1>7, <1>8, <2>2, <3>1, <3>2 DEF TotalOrder
  <2>4. Ascends(t, B)
    BY <2>3 DEF Ascends
  <2> QED
    BY <1>7, <2>1, <2>4, OneOrdering DEF t
<1>11. ASSUME key \notin used PROVE b = Ordering(C, B)
  <2>1. \A i, j \in 1..Len(b) : i < j => ByRank(b[i], b[j])
    BY <1>5, <1>6, <1>9, <1>11 DEF IndexOK, Ranked
  <2>2. Ascends(b, B)
    BY <1>8, <1>9, <2>1 DEF Ascends
  <2> QED
    BY <1>7, <1>9, <2>2, OneOrdering
<1> QED
  BY <1>2, <1>10, <1>11 DEF ByRankOf, BlockSet, C, B, S

LEMMA MaxOf ==
  ASSUME NEW n \in Nat, NEW D \in SUBSET (1..n), D # {}
  PROVE  Max(D) \in D /\ \A k \in D : k <= Max(D)
<1> DEFINE U == {m \in Nat : \A k \in D : k <= m}
<1>1. U \in SUBSET Nat /\ n \in U
  OBVIOUS
<1>2. PICK m \in U : \A k \in U : m <= k
  <2> HIDE DEF U
  <2> QED
    BY <1>1, LeastOf
<1>3. m \in D
  <2>1. SUFFICES ASSUME m \notin D PROVE FALSE
    OBVIOUS
  <2>2. \A k \in D : k \in Nat /\ k >= 1 /\ k <= m - 1
    BY <1>2, <2>1
  <2>3. m - 1 \in Nat
    <3>1. PICK k \in D : TRUE
      OBVIOUS
    <3>2. k \in Nat /\ k >= 1 /\ k <= m - 1 /\ m \in Nat
      BY <1>2, <2>2
    <3> QED
      BY <3>2
  <2>4. m - 1 \in U
    BY <2>2, <2>3
  <2> QED
    BY <1>2, <2>4
<1>4. \A k \in D : m >= k
  BY <1>2
<1>5. \E x \in D : \A y \in D : x >= y
  BY <1>3, <1>4
<1>6. Max(D) \in D /\ \A y \in D : Max(D) >= y
  BY <1>5 DEF Max
<1> QED
  BY <1>6

(* The last entry of a text in order of reading is the one of the greatest *)
(* reading.                                                                *)
LEMMA RaisedAgree ==
  ASSUME NEW O, O \subseteq EntryType, Unique(O),
         NEW s, NEW x1, IndexOK(s, x1, O), NEW t, NEW x2, IndexOK(t, x2, O), NEW list
  PROVE  RaisedBy(list, s) = RaisedBy(list, t)
<1> DEFINE OfS(c) == {i \in DOMAIN s : s[i].text = c}
           OfT(c) == {i \in DOMAIN t : t[i].text = c}
<1>1. /\ Len(s) \in Nat /\ DOMAIN s = 1..Len(s) /\ \A i \in 1..Len(s) : s[i] \in O
      /\ \A x \in O : \E i \in 1..Len(s) : s[i] = x
  <2>1. Enumerates(s, O)
    BY DEF IndexOK
  <2> QED
    BY <2>1, EnumeratesCounts DEF Enumerates
<1>2. /\ Len(t) \in Nat /\ DOMAIN t = 1..Len(t) /\ \A i \in 1..Len(t) : t[i] \in O
      /\ \A x \in O : \E i \in 1..Len(t) : t[i] = x
  <2>1. Enumerates(t, O)
    BY DEF IndexOK
  <2> QED
    BY <2>1, EnumeratesCounts DEF Enumerates
<1>3. ASSUME NEW c PROVE (OfS(c) = {}) <=> (OfT(c) = {})
  <2>1. OfS(c) # {} => OfT(c) # {}
    BY <1>1, <1>2
  <2>2. OfT(c) # {} => OfS(c) # {}
    BY <1>1, <1>2
  <2> QED
    BY <2>1, <2>2
<1>4. ASSUME NEW c, OfS(c) # {} PROVE s[Max(OfS(c))] = t[Max(OfT(c))]
  <2> DEFINE DS == OfS(c)
             DT == OfT(c)
  <2>1. DS \in SUBSET (1..Len(s)) /\ DT \in SUBSET (1..Len(t)) /\ DS # {} /\ DT # {}
    BY <1>1, <1>2, <1>3, <1>4
  <2>2. \A i \in 1..Len(s) : i \in DS <=> s[i].text = c
    BY <1>1
  <2>3. \A i \in 1..Len(t) : i \in DT <=> t[i].text = c
    BY <1>2
  <2> HIDE DEF DS, DT
  <2>4. Max(DS) \in DS /\ \A k \in DS : k <= Max(DS)
    BY <1>1, <2>1, MaxOf
  <2>5. Max(DT) \in DT /\ \A k \in DT : k <= Max(DT)
    BY <1>2, <2>1, MaxOf
  <2> DEFINE a == s[Max(DS)]
             b == t[Max(DT)]
  <2>6. a \in O /\ b \in O /\ a.text = c /\ b.text = c
    BY <1>1, <1>2, <2>1, <2>2, <2>3, <2>4, <2>5
  <2>7. PICK i \in 1..Len(s) : s[i] = b
    BY <1>1, <2>6
  <2>8. PICK j \in 1..Len(t) : t[j] = a
    BY <1>2, <2>6
  <2>9. i \in DS /\ i <= Max(DS) /\ j \in DT /\ j <= Max(DT)
    BY <2>2, <2>3, <2>4, <2>5, <2>6, <2>7, <2>8
  <2>10. Max(DS) \in 1..Len(s) /\ Max(DT) \in 1..Len(t)
    BY <2>1, <2>4, <2>5
  <2>11. i = Max(DS) \/ ~Before(a.pinyin, b.pinyin)
    <3>1. i = Max(DS) \/ i < Max(DS)
      BY <1>1, <2>9, <2>10
    <3> QED
      BY <2>7, <2>10, <3>1 DEF IndexOK, ByReading
  <2>12. j = Max(DT) \/ ~Before(b.pinyin, a.pinyin)
    <3>1. j = Max(DT) \/ j < Max(DT)
      BY <1>2, <2>9, <2>10
    <3> QED
      BY <2>8, <2>10, <3>1 DEF IndexOK, ByReading
  <2> HIDE DEF a, b
  <2>13. a = b \/ a.pinyin = b.pinyin
    <3>1. a = b \/ (~Before(a.pinyin, b.pinyin) /\ ~Before(b.pinyin, a.pinyin))
      BY <2>7, <2>8, <2>11, <2>12 DEF a, b
    <3>2. a.pinyin \in Seq(Nat) /\ b.pinyin \in Seq(Nat)
      BY <2>6 DEF EntryType
    <3> QED
      BY <3>1, <3>2, BeforeTotal
  <2>14. a = b
    BY <2>6, <2>13 DEF Unique, Word
  <2> QED
    BY <2>14 DEF a, b, DS, DT
<1>5. \A i \in DOMAIN list :
        (IF OfS(list[i].text) = {} THEN list[i]
         ELSE [list[i] EXCEPT !.freq = s[Max(OfS(list[i].text))].freq])
        = (IF OfT(list[i].text) = {} THEN list[i]
           ELSE [list[i] EXCEPT !.freq = t[Max(OfT(list[i].text))].freq])
  BY <1>3, <1>4
<1> HIDE DEF OfS, OfT
<1>6. RaisedBy(list, s) = [i \in DOMAIN list |->
        IF OfS(list[i].text) = {} THEN list[i]
        ELSE [list[i] EXCEPT !.freq = s[Max(OfS(list[i].text))].freq]]
  BY DEF RaisedBy, OfS
<1>7. RaisedBy(list, t) = [i \in DOMAIN list |->
        IF OfT(list[i].text) = {} THEN list[i]
        ELSE [list[i] EXCEPT !.freq = t[Max(OfT(list[i].text))].freq]]
  BY DEF RaisedBy, OfT
<1> QED
  BY <1>5, <1>6, <1>7

(* The second layer: by rank, then by reading.                             *)
ByRankReading(a, b) == ByRank(a, b) \/ (~ByRank(b, a) /\ Before(a.pinyin, b.pinyin))

LEMMA RankReadingIsTotal ==
  ASSUME NEW C, C \subseteq CandidateType, Unique(C)
  PROVE  TotalOrder(Below(C, ByRankReading), C)
<1> DEFINE B == Below(C, ByRankReading)
<1>0. \A x \in C : x.pinyin \in Seq(Nat) /\ x.eff \in Nat /\ x.text \in Nat
  BY DEF CandidateType
<1>1. B \in [C -> SUBSET C]
  BY DEF Below
<1>2. \A x, y \in C : y \in B[x] <=> ByRankReading(y, x)
  BY DEF Below
<1>3. \A x \in C : ~ByRankReading(x, x)
  BY <1>0, BeforeIrreflexive DEF ByRankReading, ByRank
<1>4. ASSUME NEW x \in C, NEW y \in C, NEW z \in C, ByRankReading(x, y), ByRankReading(y, z)
      PROVE  ByRankReading(x, z)
  <2>1. Before(x.pinyin, y.pinyin) /\ Before(y.pinyin, z.pinyin) => Before(x.pinyin, z.pinyin)
    BY <1>0, BeforeTransitive
  <2>2. /\ ByRank(x, y) /\ ByRank(y, z) => ByRank(x, z)
        /\ ByRank(z, x) => ByRank(z, y) \/ ByRank(y, x)
        /\ ByRank(x, y) => ByRank(x, z) \/ ByRank(z, y)
        /\ ByRank(y, z) => ByRank(y, x) \/ ByRank(x, z)
        /\ ~(ByRank(x, y) /\ ByRank(y, x)) /\ ~(ByRank(y, z) /\ ByRank(z, y))
    BY <1>0 DEF ByRank
  <2> QED
    BY <1>4, <2>1, <2>2 DEF ByRankReading
<1>5. ASSUME NEW x \in C, NEW y \in C
      PROVE  x = y \/ ByRankReading(x, y) \/ ByRankReading(y, x)
  <2>1. x.pinyin = y.pinyin \/ Before(x.pinyin, y.pinyin) \/ Before(y.pinyin, x.pinyin)
    BY <1>0, BeforeTotal
  <2>2. x.text = y.text \/ ByRank(x, y) \/ ByRank(y, x)
    BY <1>0 DEF ByRank
  <2>3. x.pinyin = y.pinyin /\ x.text = y.text => x = y
    BY DEF Unique, Word
  <2> QED
    BY <2>1, <2>2, <2>3 DEF ByRankReading
<1> HIDE DEF B
<1>6. WeakOrder(B, C)
  BY <1>1, <1>2, <1>3, <1>4, <1>5 DEF WeakOrder
<1> QED
  BY <1>2, <1>5, <1>6 DEF TotalOrder, B

LEMMA SecondLayer ==
  ASSUME NEW G, G \subseteq EntryType, Unique(G), NEW s, NEW except, IndexOK(s, except, G),
         NEW T, NEW R, R = {x \in CandidateSet(G) : x.text \notin T}
  PROVE  Sorted(Without(Candidates(s), T), ByRank) = Ordering(R, Below(R, ByRankReading))
<1> DEFINE C == CandidateSet(G)
           c == Candidates(s)
           P == {i \in 1..Len(c) : c[i].text \notin T}
           w == Picks(c, P)
           t == Sorted(w, ByRank)
           B == Below(R, ByRankReading)
<1>1. IndexOK(c, except, C)
  BY CandidatesIndexed
<1>2. /\ DOMAIN c = 1..Len(c) /\ \A i \in 1..Len(c) : c[i] \in C
      /\ \A x \in C : \E i \in 1..Len(c) : c[i] = x
  <2> HIDE DEF c, C
  <2>1. Enumerates(c, C)
    BY <1>1 DEF IndexOK
  <2> QED
    BY <2>1, EnumeratesCounts DEF Enumerates
<1>3. Without(c, T) = w
  BY <1>2 DEF Without, Kept
<1>4. IndexOK(w, except, R)
  <2>1. P \in SUBSET (1..Len(c)) /\ {c[i] : i \in P} = R
    BY <1>2
  <2> HIDE DEF P, c
  <2> QED
    BY <1>1, <2>1, PicksIndexed
<1>5. R \subseteq CandidateType /\ Unique(R)
  <2>1. C \subseteq CandidateType /\ Unique(C) /\ R \subseteq C
    BY CandidateSetFacts
  <2> HIDE DEF C
  <2> QED
    BY <2>1 DEF Unique
<1> HIDE DEF w, c
<1>6. TotalOrder(B, R)
  BY <1>5, RankReadingIsTotal
<1>7. \A x, y \in R : y \in B[x] <=> ByRankReading(y, x)
  BY DEF Below
<1> HIDE DEF B
<1>8. Enumerates(w, R) /\ \A i \in 1..Len(w) : w[i] \in R
  BY <1>4, EnumeratesCounts DEF IndexOK
<1>9. /\ Enumerates(t, R) /\ Len(t) = Len(w)
      /\ \E at : /\ Enumerates(at, 1..Len(w)) /\ MadeFrom(t, w, at)
                 /\ \A m, n \in 1..Len(w) : m < n =>
                      ByRank(t[m], t[n]) \/ (~ByRank(t[n], t[m]) /\ at[m] < at[n])
  BY <1>5, <1>8, SortedEnumerates
<1> HIDE DEF t
<1>10. PICK at :
         /\ Enumerates(at, 1..Len(w)) /\ MadeFrom(t, w, at)
         /\ \A m, n \in 1..Len(w) : m < n =>
              ByRank(t[m], t[n]) \/ (~ByRank(t[n], t[m]) /\ at[m] < at[n])
  BY <1>9
<1>11. \A m \in 1..Len(t) : t[m] \in R /\ t[m] = w[at[m]] /\ at[m] \in 1..Len(w)
  BY <1>9, <1>10, EnumeratesCounts DEF MadeFrom
<1>12. ASSUME NEW m \in 1..Len(t), NEW n \in 1..Len(t), m < n PROVE ByRankReading(t[m], t[n])
  <2>1. CASE ByRank(t[m], t[n])
    BY <2>1 DEF ByRankReading
  <2>2. CASE ~ByRank(t[n], t[m]) /\ at[m] < at[n] /\ ~ByRank(t[m], t[n])
    <3>1. ~Before(t[n].pinyin, t[m].pinyin)
      BY <1>4, <1>11, <2>2 DEF IndexOK, ByReading
    <3>2. t[m] # t[n]
      <4>1. m # n
        BY <1>9, <1>12, EnumeratesCounts
      <4> QED
        BY <1>9, <4>1 DEF Enumerates
    <3>3. t[m].text = t[n].text
      <4>1. t[m].eff \in Nat /\ t[m].text \in Nat /\ t[n].eff \in Nat /\ t[n].text \in Nat
        BY <1>5, <1>11 DEF CandidateType
      <4> QED
        BY <2>2, <4>1 DEF ByRank
    <3>4. t[m].pinyin # t[n].pinyin
      BY <1>5, <1>11, <3>2, <3>3 DEF Unique, Word
    <3>5. t[m].pinyin \in Seq(Nat) /\ t[n].pinyin \in Seq(Nat)
      BY <1>5, <1>11 DEF CandidateType
    <3> QED
      BY <2>2, <3>1, <3>4, <3>5, BeforeTotal DEF ByRankReading
  <2> QED
    BY <1>9, <1>10, <1>12, <2>1, <2>2
<1>13. Ascends(t, B)
  BY <1>7, <1>11, <1>12 DEF Ascends
<1>14. t = Ordering(R, B)
  BY <1>6, <1>9, <1>13, OneOrdering
<1> QED
  BY <1>3, <1>14 DEF t, c, B

(* lookup_prefix without the file, part by part.                           *)
RangeOf(ix, key, open) ==
  LET prefix == IF open THEN key ELSE key \o <<0>>
  IN  Picks(ix, {i \in DOMAIN ix : /\ ~Before(ix[i].pinyin, prefix)
                                   /\ Before(ix[i].pinyin, IncrementPrefix(prefix))
                                   /\ ix[i].pinyin # key})

OwnOf(range) == Picks(range, {i \in DOMAIN range : range[i].user})

ShownOf(ix, used, key, open, n) ==
  Take(IF key \in used THEN Sorted(Block(ix, key), ByRank) ELSE Block(ix, key), Cap(open, n))

FirstLayer(shown, own) ==
  IF RaisedBy(shown, own) = shown THEN shown ELSE Sorted(RaisedBy(shown, own), ByRank)

LayersOf(first, range, n) ==
  first \o Take(Sorted(Without(Candidates(range), Texts(first)), ByRank), n - Len(first))

LEMMA PrefixParts ==
  ASSUME NEW ix, NEW used, NEW key, NEW open, NEW n
  PROVE  IndexLookupPrefix(ix, used, key, open, n)
           = LayersOf(FirstLayer(ShownOf(ix, used, key, open, n), OwnOf(RangeOf(ix, key, open))),
                      RangeOf(ix, key, open), n)
BY DEF IndexLookupPrefix, LayersOf, FirstLayer, ShownOf, OwnOf, RangeOf, Kept

RangeSet(E, key, open) ==
  LET prefix == IF open THEN key ELSE key \o <<0>>
  IN  {x \in E : /\ ~Before(x.pinyin, prefix)
                 /\ Before(x.pinyin, IncrementPrefix(prefix)) /\ x.pinyin # key}

LEMMA RangeIndexed ==
  ASSUME NEW E, NEW ix, NEW used, IndexOK(ix, used, E), NEW key, NEW open
  PROVE  /\ IndexOK(RangeOf(ix, key, open), used, RangeSet(E, key, open))
         /\ IndexOK(OwnOf(RangeOf(ix, key, open)), used, {x \in RangeSet(E, key, open) : x.user})
<1> DEFINE prefix == IF open THEN key ELSE key \o <<0>>
           P == {i \in 1..Len(ix) : /\ ~Before(ix[i].pinyin, prefix)
                                    /\ Before(ix[i].pinyin, IncrementPrefix(prefix))
                                    /\ ix[i].pinyin # key}
           G == RangeSet(E, key, open)
           r == RangeOf(ix, key, open)
<1>1. ASSUME NEW s, NEW S, IndexOK(s, used, S)
      PROVE  /\ DOMAIN s = 1..Len(s) /\ \A i \in 1..Len(s) : s[i] \in S
             /\ \A x \in S : \E i \in 1..Len(s) : s[i] = x
  <2>1. Enumerates(s, S)
    BY <1>1 DEF IndexOK
  <2> QED
    BY <2>1, EnumeratesCounts DEF Enumerates
<1>2. r = Picks(ix, P)
  BY <1>1 DEF RangeOf
<1>3. P \in SUBSET (1..Len(ix)) /\ {ix[i] : i \in P} = G
  <2> HIDE DEF prefix
  <2>1. P \in SUBSET (1..Len(ix))
    OBVIOUS
  <2>2. G = {x \in E : /\ ~Before(x.pinyin, prefix)
                       /\ Before(x.pinyin, IncrementPrefix(prefix)) /\ x.pinyin # key}
    BY DEF RangeSet, prefix
  <2>3. \A i \in 1..Len(ix) : ix[i] \in E
    BY <1>1
  <2>4. \A x \in E : \E i \in 1..Len(ix) : ix[i] = x
    BY <1>1
  <2> QED
    BY <2>1, <2>2, <2>3, <2>4
<1> HIDE DEF P, G, r
<1>4. IndexOK(r, used, G)
  BY <1>2, <1>3, PicksIndexed
<1> DEFINE Q == {i \in 1..Len(r) : r[i].user}
<1>5. OwnOf(r) = Picks(r, Q)
  BY <1>1, <1>4 DEF OwnOf
<1>6. Q \in SUBSET (1..Len(r)) /\ {r[i] : i \in Q} = {x \in G : x.user}
  <2>1. \A i \in 1..Len(r) : r[i] \in G
    BY <1>1, <1>4
  <2>2. \A x \in G : \E i \in 1..Len(r) : r[i] = x
    BY <1>1, <1>4
  <2> QED
    BY <2>1, <2>2
<1> HIDE DEF Q
<1>7. IndexOK(OwnOf(r), used, {x \in G : x.user})
  BY <1>4, <1>5, <1>6, PicksIndexed
<1> QED
  BY <1>4, <1>7 DEF r, G

(* Two vectors of the same entries answer alike.                           *)
LEMMA PrefixAgrees ==
  ASSUME NEW E, E \subseteq EntryType, Unique(E), NEW s, NEW u1, IndexOK(s, u1, E),
         NEW t, NEW u2, IndexOK(t, u2, E), NEW key, NEW open, NEW n
  PROVE  IndexLookupPrefix(s, u1, key, open, n) = IndexLookupPrefix(t, u2, key, open, n)
<1> DEFINE G == RangeSet(E, key, open)
           O == {x \in G : x.user}
           rs == RangeOf(s, key, open)
           rt == RangeOf(t, key, open)
           shown == ShownOf(s, u1, key, open, n)
           first == FirstLayer(shown, OwnOf(rs))
           R == {x \in CandidateSet(G) : x.text \notin Texts(first)}
<1>1. ShownOf(t, u2, key, open, n) = shown
  BY BlockOrder DEF ShownOf
<1>2. IndexOK(rs, u1, G) /\ IndexOK(rt, u2, G) /\ IndexOK(OwnOf(rs), u1, O) /\ IndexOK(OwnOf(rt), u2, O)
  BY RangeIndexed
<1>3. G \subseteq EntryType /\ Unique(G) /\ O \subseteq EntryType /\ Unique(O)
  BY DEF RangeSet, Unique
<1> HIDE DEF G, O, rs, rt, shown
<1>4. FirstLayer(shown, OwnOf(rt)) = first
  <2>1. RaisedBy(shown, OwnOf(rs)) = RaisedBy(shown, OwnOf(rt))
    BY <1>2, <1>3, RaisedAgree
  <2> QED
    BY <2>1 DEF FirstLayer
<1> HIDE DEF first
<1>5. Sorted(Without(Candidates(rs), Texts(first)), ByRank) = Ordering(R, Below(R, ByRankReading))
  BY <1>2, <1>3, SecondLayer
<1>6. Sorted(Without(Candidates(rt), Texts(first)), ByRank) = Ordering(R, Below(R, ByRankReading))
  BY <1>2, <1>3, SecondLayer
<1>7. LayersOf(first, rs, n) = LayersOf(first, rt, n)
  BY <1>5, <1>6 DEF LayersOf
<1>8. IndexLookupPrefix(s, u1, key, open, n) = LayersOf(first, rs, n)
  BY PrefixParts DEF first, shown, rs
<1>9. IndexLookupPrefix(t, u2, key, open, n) = LayersOf(FirstLayer(ShownOf(t, u2, key, open, n), OwnOf(rt)), rt, n)
  BY PrefixParts DEF rt
<1> QED
  BY <1>1, <1>4, <1>7, <1>8, <1>9

(* Lists of the same members in a weak order have equivalent members at    *)
(* every position.                                                         *)
LEMMA WeaklyAgree ==
  ASSUME NEW S, NEW below, WeakOrder(below, S), NEW s, Enumerates(s, S), NEW t, Enumerates(t, S),
         \A i, j \in 1..Len(s) : i < j => s[j] \notin below[s[i]],
         \A i, j \in 1..Len(t) : i < j => t[j] \notin below[t[i]],
         NEW i \in 1..Len(s)
  PROVE  s[i] \notin below[t[i]]
<1> DEFINE n == Len(s)
<1>1. /\ n \in Nat /\ Len(t) = n /\ i \in 1..n
      /\ \A k \in 1..n : s[k] \in S /\ t[k] \in S
  BY EnumeratesCounts
<1>2. SUFFICES ASSUME s[i] \in below[t[i]] PROVE FALSE
  OBVIOUS
<1> DEFINE at(k) == CHOOSE j \in 1..n : s[j] = t[k]
           f == [k \in i..n |-> at(k)]
<1>3. \A k \in 1..n : at(k) \in 1..n /\ s[at(k)] = t[k]
  <2>1. ASSUME NEW k \in 1..n PROVE \E j \in 1..n : s[j] = t[k]
    BY <1>1 DEF Enumerates
  <2> QED
    BY <2>1
<1> HIDE DEF at
<1>4. ASSUME NEW k \in i..n PROVE at(k) \in (i + 1)..n
  <2>1. k \in 1..n
    BY <1>1
  <2>2. k = i \/ t[k] \notin below[t[i]]
    <3>1. k = i \/ i < k
      BY <1>1
    <3> QED
      BY <1>1, <2>1, <3>1
  <2>3. s[i] \in below[t[k]]
    BY <1>1, <1>2, <2>1, <2>2 DEF WeakOrder
  <2>4. at(k) \in 1..n /\ s[i] \in below[s[at(k)]]
    BY <1>3, <2>1, <2>3
  <2>5. ~(at(k) < i)
    BY <1>1, <2>4
  <2>6. at(k) # i
    BY <1>1, <2>4 DEF WeakOrder
  <2> QED
    BY <1>1, <2>4, <2>5, <2>6
<1>5. f \in [i..n -> (i + 1)..n]
  BY <1>4
<1>6. /\ IsFiniteSet(i..n) /\ Cardinality(i..n) = n - i + 1
      /\ IsFiniteSet((i + 1)..n) /\ Cardinality((i + 1)..n) = n - i
  <2>1. i \in Int /\ n \in Int /\ i + 1 \in Int /\ i <= n
    BY <1>1
  <2> HIDE DEF n
  <2>2. Cardinality(i..n) = n - i + 1 /\ IsFiniteSet(i..n)
    BY <2>1, FS_Interval
  <2>3. IsFiniteSet((i + 1)..n) /\ Cardinality((i + 1)..n) = IF i + 1 > n THEN 0 ELSE n - (i + 1) + 1
    BY <2>1, FS_Interval
  <2> QED
    BY <2>1, <2>2, <2>3
<1>7. Cardinality((i + 1)..n) < Cardinality(i..n)
  BY <1>1, <1>6
<1> HIDE DEF f, n
<1>8. PICK k, l \in i..n : k # l /\ f[k] = f[l]
  BY <1>5, <1>6, <1>7, FS_PigeonHole
<1>9. at(k) = at(l) /\ k \in 1..n /\ l \in 1..n
  BY <1>1, <1>8 DEF f
<1>10. t[k] = t[l]
  BY <1>3, <1>9
<1> QED
  BY <1>1, <1>8, <1>9, <1>10 DEF Enumerates

LEMMA TakeFacts ==
  ASSUME NEW S, NEW s \in Seq(S), NEW n \in Nat
  PROVE  /\ Take(s, n) \in Seq(S)
         /\ Len(Take(s, n)) = (IF n < Len(s) THEN n ELSE Len(s))
         /\ \A i \in 1..Len(Take(s, n)) : Take(s, n)[i] = s[i] /\ i \in 1..Len(s)
<1> DEFINE m == IF n < Len(s) THEN n ELSE Len(s)
<1>1. m \in 0..Len(s) /\ Len(s) \in Nat /\ 1 \in Int /\ m \in Int
  OBVIOUS
<1>2. \A i \in 1..m : s[i] \in S /\ i \in 1..Len(s)
  BY <1>1, ElementOfSeq
<1>3. Take(s, n) = SubSeq(s, 1, m)
  BY DEF Take
<1> HIDE DEF m
<1>4. /\ Take(s, n) \in Seq(S) /\ Len(Take(s, n)) = (IF 1 <= m THEN m - 1 + 1 ELSE 0)
      /\ \A i \in 1..(m - 1 + 1) : Take(s, n)[i] = s[1 + i - 1]
  BY <1>1, <1>2, <1>3, SubSeqProperties
<1>5. Len(Take(s, n)) = m
  BY <1>1, <1>4
<1>6. \A i \in 1..m : Take(s, n)[i] = s[i]
  <2>1. \A i \in 1..m : 1 + i - 1 = i /\ i \in 1..(m - 1 + 1)
    BY <1>1
  <2> QED
    BY <1>4, <2>1
<1> QED
  BY <1>2, <1>4, <1>5, <1>6 DEF m

LEMMA AbbrevAgrees ==
  ASSUME NEW E, E \subseteq EntryType, Unique(E), NEW s, Enumerates(s, E),
         NEW t, Enumerates(t, E), NEW initials, NEW n \in Nat
  PROVE  TextsInOrder(IndexLookupAbbrev(s, initials, n))
           = TextsInOrder(IndexLookupAbbrev(t, initials, n))
<1> DEFINE F == {x \in E : IsPrefix(initials, AbbrevOf(x.pinyin))}
           C == CandidateSet(F)
           Fitting(v) == Picks(v, {i \in DOMAIN v : IsPrefix(initials, AbbrevOf(v[i].pinyin))})
           List(v) == Sorted(Candidates(Fitting(v)), ByRank)
           B == Below(C, ByRank)
<1>1. F \subseteq EntryType /\ Unique(F)
  BY DEF Unique
<1>2. C \subseteq CandidateType
  BY <1>1, CandidateSetFacts
<1>3. ASSUME NEW v, Enumerates(v, E)
      PROVE  /\ Enumerates(List(v), C)
             /\ \A i, j \in 1..Len(List(v)) : i < j => ~ByRank(List(v)[j], List(v)[i])
  <2> DEFINE P == {i \in 1..Len(v) : IsPrefix(initials, AbbrevOf(v[i].pinyin))}
  <2>1. /\ DOMAIN v = 1..Len(v) /\ \A i \in 1..Len(v) : v[i] \in E
        /\ \A x \in E : \E i \in 1..Len(v) : v[i] = x
    BY <1>3, EnumeratesCounts DEF Enumerates
  <2>2. Fitting(v) = Picks(v, P)
    BY <2>1
  <2>3. P \in SUBSET (1..Len(v)) /\ {v[i] : i \in P} = F
    <3>1. P \in SUBSET (1..Len(v))
      OBVIOUS
    <3>2. \A i \in P : v[i] \in F
      BY <2>1
    <3>3. \A x \in F : \E i \in P : v[i] = x
      BY <2>1
    <3> HIDE DEF P, F
    <3> QED
      BY <3>1, <3>2, <3>3
  <2> HIDE DEF P, F, Fitting
  <2>4. Enumerates(Fitting(v), F)
    BY <1>3, <2>2, <2>3, PicksEnumerates
  <2>5. Enumerates(Candidates(Fitting(v)), C)
    BY <1>1, <2>4, CandidatesEnumerate
  <2> HIDE DEF C
  <2>6. /\ Enumerates(List(v), C) /\ Len(List(v)) = Len(Candidates(Fitting(v)))
        /\ \E at : \A k, l \in 1..Len(Candidates(Fitting(v))) : k < l =>
             \/ ByRank(List(v)[k], List(v)[l])
             \/ ~ByRank(List(v)[l], List(v)[k]) /\ at[k] < at[l]
    BY <1>2, <2>5, SortedEnumerates
  <2> HIDE DEF List
  <2>7. \A i \in 1..Len(List(v)) : List(v)[i].eff \in Nat /\ List(v)[i].text \in Nat
    <3>1. \A i \in 1..Len(List(v)) : List(v)[i] \in C
      BY <2>6, EnumeratesCounts
    <3> QED
      BY <1>2, <3>1 DEF CandidateType
  <2>8. ASSUME NEW i \in 1..Len(List(v)), NEW j \in 1..Len(List(v)), i < j
        PROVE  ~ByRank(List(v)[j], List(v)[i])
    <3>1. \/ ByRank(List(v)[i], List(v)[j])
          \/ ~ByRank(List(v)[j], List(v)[i])
      BY <2>6, <2>8
    <3> QED
      BY <2>7, <3>1 DEF ByRank
  <2> QED
    BY <2>6, <2>8
<1> DEFINE a == List(s)
           b == List(t)
<1>4. Enumerates(a, C) /\ \A i, j \in 1..Len(a) : i < j => ~ByRank(a[j], a[i])
  BY <1>3
<1>5. Enumerates(b, C) /\ \A i, j \in 1..Len(b) : i < j => ~ByRank(b[j], b[i])
  BY <1>3
<1>6. /\ IndexLookupAbbrev(s, initials, n) = Take(a, n)
      /\ IndexLookupAbbrev(t, initials, n) = Take(b, n)
  BY DEF IndexLookupAbbrev, Kept
<1> HIDE DEF a, b, C, List
<1>7. /\ Len(a) = Len(b) /\ Len(a) \in Nat /\ a \in Seq(C) /\ b \in Seq(C)
      /\ \A i \in 1..Len(a) : a[i] \in C /\ b[i] \in C
  <2>1. Len(a) = Cardinality(C) /\ Len(a) \in Nat /\ \A i \in 1..Len(a) : a[i] \in C
    BY <1>4, EnumeratesCounts
  <2>2. Len(b) = Cardinality(C) /\ \A i \in 1..Len(b) : b[i] \in C
    BY <1>5, EnumeratesCounts
  <2>3. a \in Seq(C) /\ b \in Seq(C)
    BY <1>4, <1>5 DEF Enumerates
  <2> QED
    BY <2>1, <2>2, <2>3
<1>8. WeakOrder(B, C)
  BY <1>2, RankIsWeak DEF CandidateType
<1>9. \A x, y \in C : y \in B[x] <=> ByRank(y, x)
  BY DEF Below
<1> HIDE DEF B
<1>10. \A i, j \in 1..Len(a) : i < j => a[j] \notin B[a[i]]
  BY <1>4, <1>7, <1>9
<1>11. \A i, j \in 1..Len(b) : i < j => b[j] \notin B[b[i]]
  BY <1>5, <1>7, <1>9
<1>12. ASSUME NEW i \in 1..Len(a) PROVE a[i].text = b[i].text
  <2>1. a[i] \notin B[b[i]]
    BY <1>4, <1>5, <1>8, <1>10, <1>11, WeaklyAgree
  <2>2. i \in 1..Len(b)
    BY <1>7
  <2>3. b[i] \notin B[a[i]]
    BY <1>4, <1>5, <1>8, <1>10, <1>11, <2>2, WeaklyAgree
  <2>4. ~ByRank(a[i], b[i]) /\ ~ByRank(b[i], a[i])
    BY <1>7, <1>9, <2>1, <2>3
  <2>5. a[i].eff \in Nat /\ a[i].text \in Nat /\ b[i].eff \in Nat /\ b[i].text \in Nat
    BY <1>2, <1>7 DEF CandidateType
  <2> QED
    BY <2>4, <2>5 DEF ByRank
<1>13. /\ Take(a, n) \in Seq(C) /\ Take(b, n) \in Seq(C) /\ Len(Take(a, n)) = Len(Take(b, n))
       /\ \A i \in 1..Len(Take(a, n)) : Take(a, n)[i] = a[i] /\ i \in 1..Len(a)
       /\ \A i \in 1..Len(Take(b, n)) : Take(b, n)[i] = b[i]
  BY <1>7, TakeFacts
<1>14. DOMAIN Take(a, n) = DOMAIN Take(b, n) /\ DOMAIN Take(a, n) = 1..Len(Take(a, n))
  BY <1>13
<1>15. \A i \in DOMAIN Take(a, n) : Take(a, n)[i].text = Take(b, n)[i].text
  BY <1>12, <1>13, <1>14
<1> QED
  BY <1>6, <1>14, <1>15 DEF TextsInOrder

----------------------------------------------------------------------------
(* The vectors are the rows: every row has one entry with the rank of its  *)
(* uses in each, the readings are in order, and the entries of a reading   *)
(* that was not used before the opening are in order of rank (Dict::open,  *)
(* learn_mem).                                                             *)
THEOREM VectorsCurrent == Spec => []VectorsInv
<1>1. Init => VectorsInv
  BY VectorsInitially
<1>2. VectorsInv /\ [Next]_vars => VectorsInv'
  BY VectorsKept
<1> QED
  BY <1>1, <1>2, PTL DEF Spec

LEMMA VectorsAgree ==
  ASSUME VectorsInv
  PROVE  ReopenChangesNothing
<1> DEFINE E == EntrySet(phrase, stats)
           opened == Entries(phrase, stats)
           used == ReadingsUsed(stats)
           byAbbrev == Sorted(opened, ByAbbrevRank)
<1>1. E \subseteq EntryType /\ Unique(E)
  BY EntrySetFacts DEF VectorsInv
<1>2. IndexOK(index, userPinyins, E) /\ Enumerates(abbrevIndex, E)
  BY DEF VectorsInv
<1>3. IndexOK(opened, used, E) /\ Enumerates(byAbbrev, E)
  BY EntriesIndexed DEF VectorsInv
<1> HIDE DEF E, opened, byAbbrev
<1>4. ASSUME NEW n \in Limits, NEW key \in Queries
      PROVE  IndexLookup(index, key, n) = IndexLookup(opened, key, n)
  BY <1>1, <1>2, <1>3, BlockOrder DEF IndexLookup
<1>5. ASSUME NEW n \in Limits, NEW key \in Queries, NEW open \in BOOLEAN
      PROVE  IndexLookupPrefix(index, userPinyins, key, open, n)
               = IndexLookupPrefix(opened, used, key, open, n)
  BY <1>1, <1>2, <1>3, PrefixAgrees
<1>6. ASSUME NEW n \in Limits, NEW initials \in Initials
      PROVE  TextsInOrder(IndexLookupAbbrev(abbrevIndex, initials, n))
               = TextsInOrder(IndexLookupAbbrev(byAbbrev, initials, n))
  <2>1. n \in Nat
    BY DictionaryAssumption
  <2> QED
    BY <1>1, <1>2, <1>3, <2>1, AbbrevAgrees
<1> QED
  BY <1>4, <1>5, <1>6 DEF ReopenChangesNothing, opened, byAbbrev, ReadingsUsed

(* engine.rs, learn_or_warn: a use raises a word at once. In every state   *)
(* the vectors kept in memory answer like those that an open would load    *)
(* now (lookup, lookup_prefix, lookup_abbrev without the file), for every  *)
(* reading, abbreviation and length.                                       *)
THEOREM ReopenIsSilent == Spec => []ReopenChangesNothing
<1>1. VectorsInv => ReopenChangesNothing
  BY VectorsAgree
<1> QED
  BY <1>1, VectorsCurrent, PTL

----------------------------------------------------------------------------
(* Prefixes.                                                               *)

LEMMA PrefixMeans ==
  ASSUME NEW p \in Seq(Nat), NEW k \in Seq(Nat)
  PROVE  IsPrefix(p, k) <=> (Len(p) <= Len(k) /\ \A i \in 1..Len(p) : k[i] = p[i])
<1>1. /\ Len(p) \in Nat /\ Len(k) \in Nat /\ 1 \in Int /\ Len(p) \in Int
      /\ \A i \in 1..Len(p) : p[i] \in Nat
      /\ \A i \in 1..Len(k) : k[i] \in Nat
  OBVIOUS
<1>2. ASSUME Len(p) <= Len(k)
      PROVE  (SubSeq(p, 1, Len(p)) = SubSeq(k, 1, Len(p))) <=> \A i \in 1..Len(p) : k[i] = p[i]
  <2>1. SubSeq(p, 1, Len(p)) = p
    BY SubSeqFull
  <2>2. /\ SubSeq(k, 1, Len(p)) \in Seq(Nat)
        /\ Len(SubSeq(k, 1, Len(p))) = IF 1 <= Len(p) THEN Len(p) - 1 + 1 ELSE 0
        /\ \A i \in 1..(Len(p) - 1 + 1) : SubSeq(k, 1, Len(p))[i] = k[1 + i - 1]
    <3>1. \A i \in 1..Len(p) : k[i] \in Nat
      BY <1>1, <1>2
    <3> QED
      BY <1>1, <3>1, SubSeqProperties
  <2>3. /\ Len(SubSeq(k, 1, Len(p))) = Len(p)
        /\ \A i \in 1..Len(p) : SubSeq(k, 1, Len(p))[i] = k[i]
    <3>1. \A i \in 1..Len(p) : 1 + i - 1 = i /\ i \in 1..(Len(p) - 1 + 1)
      BY <1>1
    <3> QED
      BY <1>1, <2>2, <3>1
  <2>4. (\A i \in 1..Len(p) : k[i] = p[i]) => p = SubSeq(k, 1, Len(p))
    <3> SUFFICES ASSUME \A i \in 1..Len(p) : k[i] = p[i] PROVE p = SubSeq(k, 1, Len(p))
      OBVIOUS
    <3> DEFINE q == SubSeq(k, 1, Len(p))
    <3>1. q \in Seq(Nat) /\ Len(p) = Len(q) /\ \A i \in 1..Len(p) : p[i] = q[i]
      BY <2>2, <2>3
    <3> HIDE DEF q
    <3>2. p = q
      BY <3>1, SeqEqual
    <3> QED
      BY <3>2 DEF q
  <2>5. p = SubSeq(k, 1, Len(p)) => \A i \in 1..Len(p) : k[i] = p[i]
    BY <2>3
  <2> QED
    BY <2>1, <2>4, <2>5
<1> QED
  BY <1>2 DEF IsPrefix

(* The keys from a prefix up to the next one are those that begin with it. *)
LEMMA PrefixRange ==
  ASSUME NEW p \in Seq(Nat), NEW k \in Seq(Nat)
  PROVE  (~Before(k, p) /\ Before(k, IncrementPrefix(p))) <=> (IsPrefix(p, k) /\ p # <<>>)
<1> DEFINE q == IncrementPrefix(p)
           m == Len(p)
<1>1. /\ m \in Nat /\ Len(k) \in Nat
      /\ \A i \in 1..m : p[i] \in Nat
      /\ \A i \in 1..Len(k) : k[i] \in Nat
  OBVIOUS
<1>2. CASE m = 0
  <2>1. p = <<>>
    BY <1>2
  <2>2. IncrementPrefix(<<>>) = <<>>
    BY DEF IncrementPrefix
  <2>3. ~Before(k, <<>>)
    BY DEF Before
  <2> QED
    BY <2>1, <2>2, <2>3
<1>3. CASE m # 0
  <2>1. m \in 1..m /\ p # <<>>
    BY <1>1, <1>3
  <2>2. q = [p EXCEPT ![m] = p[m] + 1]
    BY DEF IncrementPrefix
  <2>3. p[m] + 1 \in Nat
    BY <1>1, <2>1
  <2>4. Len(q) = m /\ \A i \in 1..m : q[i] = IF i = m THEN p[m] + 1 ELSE p[i]
    BY <2>1, <2>2, <2>3, ExceptSeq
  <2> HIDE DEF q, m
  <2>5. ASSUME ~Before(k, p), Before(k, q) PROVE m <= Len(k) /\ \A i \in 1..m : k[i] = p[i]
    <3>1. PICK i \in 1..m : /\ \A j \in 1..(i - 1) : j <= Len(k) /\ k[j] = q[j]
                            /\ i > Len(k) \/ k[i] < q[i]
      BY <2>4, <2>5 DEF Before
    <3>2. \A j \in 1..(i - 1) : j <= Len(k) /\ k[j] = p[j]
      <4>1. \A j \in 1..(i - 1) : j \in 1..m /\ j # m
        BY <1>1
      <4> QED
        BY <2>4, <3>1, <4>1
    <3>3. ~(i > Len(k)) /\ ~(k[i] < p[i])
      BY <2>5, <3>1, <3>2 DEF Before, m
    <3>4. i \in 1..Len(k)
      BY <1>1, <3>3
    <3>5. k[i] < q[i] /\ k[i] \in Nat /\ p[i] \in Nat
      BY <1>1, <3>1, <3>3, <3>4
    <3>6. i = m
      BY <2>4, <3>3, <3>5
    <3>7. k[m] = p[m]
      BY <2>4, <3>3, <3>5, <3>6
    <3>8. \A j \in 1..m : j = m \/ j \in 1..(i - 1)
      BY <1>1, <3>6
    <3> QED
      BY <3>2, <3>4, <3>6, <3>7, <3>8
  <2>6. ASSUME m <= Len(k), \A i \in 1..m : k[i] = p[i] PROVE ~Before(k, p) /\ Before(k, q)
    <3>1. ~Before(k, p)
      <4>1. \A i \in 1..m : ~(i > Len(k)) /\ ~(k[i] < p[i])
        BY <1>1, <2>6
      <4> QED
        BY <4>1 DEF Before, m
    <3>2. \A j \in 1..(m - 1) : j \in 1..m /\ j # m /\ j <= Len(k)
      BY <1>1, <2>6
    <3>3. k[m] < q[m]
      BY <1>1, <2>1, <2>4, <2>6
    <3>4. \A j \in 1..(m - 1) : j <= Len(k) /\ k[j] = q[j]
      BY <2>4, <2>6, <3>2
    <3>5. m \in 1..Len(q)
      BY <2>1, <2>4
    <3> QED
      BY <3>1, <3>3, <3>4, <3>5 DEF Before
  <2> QED
    BY <2>1, <2>5, <2>6, PrefixMeans DEF m, q
<1> QED
  BY <1>2, <1>3

(* What goes on behind a quote goes on from the reading.                   *)
LEMMA QuotedPrefix ==
  ASSUME NEW p \in Seq(Nat), NEW k \in Seq(Nat), IsPrefix(p \o << 0 >>, k)
  PROVE  IsPrefix(p, k) /\ p # k
<1> DEFINE q == p \o <<0>>
           m == Len(p)
<1>1. <<0>> \in Seq(Nat) /\ Len(<<0>>) = 1
  OBVIOUS
<1>2. /\ q \in Seq(Nat) /\ Len(q) = Len(p) + Len(<<0>>)
      /\ \A i \in 1..(Len(p) + Len(<<0>>)) : q[i] = IF i <= Len(p) THEN p[i] ELSE <<0>>[i - Len(p)]
  BY <1>1, ConcatProperties
<1>3. m \in Nat /\ Len(k) \in Nat
  OBVIOUS
<1> HIDE DEF q, m
<1>4. Len(q) = m + 1 /\ \A i \in 1..m : q[i] = p[i]
  <2>1. \A i \in 1..m : i \in 1..(Len(p) + Len(<<0>>)) /\ i <= Len(p)
    BY <1>1, <1>3 DEF m
  <2> QED
    BY <1>1, <1>2, <2>1 DEF m
<1>5. m + 1 <= Len(k) /\ \A i \in 1..(m + 1) : k[i] = q[i]
  <2>1. IsPrefix(q, k)
    BY DEF q
  <2>2. Len(q) <= Len(k) /\ \A i \in 1..Len(q) : k[i] = q[i]
    BY <1>2, <2>1, PrefixMeans
  <2> QED
    BY <1>4, <2>2
<1>6. m <= Len(k) /\ m # Len(k) /\ \A i \in 1..m : k[i] = p[i]
  <2>1. \A i \in 1..m : i \in 1..(m + 1)
    BY <1>3
  <2> QED
    BY <1>3, <1>4, <1>5, <2>1
<1> QED
  BY <1>6, PrefixMeans DEF m

LEMMA FirstSegmentFacts ==
  ASSUME NEW k \in Seq(Nat)
  PROVE  /\ FirstSegment(k) \in Seq(Nat) /\ IsPrefix(FirstSegment(k), k)
         /\ 0 \notin ToSet(k) => FirstSegment(k) = k
         /\ \A i \in 1..Len(FirstSegment(k)) : FirstSegment(k)[i] # 0
         /\ \A i \in 0..(Len(FirstSegment(k)) - 1) : k[i + 1] # 0
         /\ Len(FirstSegment(k)) < Len(k) => k[Len(FirstSegment(k)) + 1] = 0
<1> DEFINE ends == {i \in 0..Len(k) : i = Len(k) \/ k[i + 1] = 0}
           e == CHOOSE i \in ends : \A j \in ends : i <= j
           f == FirstSegment(k)
<1>1. Len(k) \in Nat /\ \A i \in 1..Len(k) : k[i] \in Nat
  OBVIOUS
<1>2. e \in ends /\ \A j \in ends : e <= j
  <2>1. ends \in SUBSET Nat /\ Len(k) \in ends
    BY <1>1
  <2> HIDE DEF ends
  <2>2. \E i \in ends : \A j \in ends : i <= j
    BY <2>1, LeastOf
  <2> QED
    BY <2>2
<1>3. f = SubSeq(k, 1, e)
  BY DEF FirstSegment
<1> HIDE DEF e, f
<1>4. e \in 0..Len(k) /\ (e = Len(k) \/ k[e + 1] = 0)
  BY <1>2
<1>5. \A i \in 0..(e - 1) : k[i + 1] # 0
  <2>1. ASSUME NEW i \in 0..(e - 1), k[i + 1] = 0 PROVE FALSE
    <3>1. i \in 0..Len(k) /\ i < e
      BY <1>1, <1>4
    <3>2. i \in ends
      BY <2>1, <3>1
    <3> QED
      BY <1>1, <1>2, <1>4, <3>1, <3>2
  <2> QED
    BY <2>1
<1>6. f \in Seq(Nat) /\ Len(f) = e /\ \A i \in 1..e : f[i] = k[i]
  <2>1. \A i \in 1..e : k[i] \in Nat
    BY <1>1, <1>4
  <2>2. 1 \in Int /\ e \in Int
    BY <1>4
  <2>3. /\ f \in Seq(Nat) /\ Len(f) = IF 1 <= e THEN e - 1 + 1 ELSE 0
        /\ \A i \in 1..(e - 1 + 1) : f[i] = k[1 + i - 1]
    BY <1>3, <2>1, <2>2, SubSeqProperties
  <2>4. \A i \in 1..e : 1 + i - 1 = i /\ i \in 1..(e - 1 + 1)
    BY <1>4
  <2> QED
    BY <1>4, <2>3, <2>4
<1>7. IsPrefix(f, k)
  BY <1>1, <1>4, <1>6, PrefixMeans
<1>8. ASSUME 0 \notin ToSet(k) PROVE f = k
  <2>1. \A i \in 1..Len(k) : k[i] # 0
    BY <1>8 DEF ToSet
  <2>2. e = Len(k)
    <3>1. e # Len(k) => e + 1 \in 1..Len(k)
      BY <1>1, <1>4
    <3> QED
      BY <1>4, <2>1, <3>1
  <2> QED
    BY <1>3, <2>2, SubSeqFull
<1>9. \A i \in 1..e : f[i] # 0
  <2>1. \A i \in 1..e : i - 1 \in 0..(e - 1) /\ (i - 1) + 1 = i
    BY <1>4
  <2> QED
    BY <1>5, <1>6, <2>1
<1>10. e < Len(k) => k[e + 1] = 0
  BY <1>1, <1>4
<1> QED
  BY <1>5, <1>6, <1>7, <1>8, <1>9, <1>10 DEF f

----------------------------------------------------------------------------
(* What the members of a list are made of.                                 *)

LEMMA TakeMembers ==
  ASSUME NEW S, NEW s \in Seq(S), NEW n \in Int
  PROVE  Take(s, n) \in Seq(S)
<1>1. CASE n \in Nat
  BY <1>1, TakeFacts
<1>2. CASE n \notin Nat
  <2>1. n < 1 /\ n < Len(s)
    BY <1>2
  <2>2. SubSeq(s, 1, n) = <<>>
    BY <2>1, SubSeqEmpty
  <2>3. Take(s, n) = <<>>
    BY <2>1, <2>2 DEF Take
  <2> QED
    BY <2>3, EmptySeq
<1> QED
  BY <1>1, <1>2

LEMMA PicksMembers ==
  ASSUME NEW S, NEW s \in Seq(S), NEW P \in SUBSET (1..Len(s)), NEW T, \A i \in P : s[i] \in T
  PROVE  Picks(s, P) \in Seq(T)
<1> DEFINE t == Picks(s, P)
<1>1. PICK at : Enumerates(at, P) /\ Increases(at) /\ MadeFrom(t, s, at)
  BY PicksFacts
<1>2. t \in Seq(S)
  BY PicksFacts
<1> HIDE DEF t
<1>3. Len(t) \in Nat /\ \A n \in 1..Len(t) : t[n] \in T
  BY <1>1, <1>2, EnumeratesCounts DEF MadeFrom
<1>4. t = [n \in 1..Len(t) |-> t[n]]
  BY <1>2
<1>5. t \in [1..Len(t) -> T]
  BY <1>3, <1>4
<1> QED
  BY <1>3, <1>5 DEF t

LEMMA WithoutMembers ==
  ASSUME NEW S, NEW s \in Seq(S), NEW T
  PROVE  Without(s, T) \in Seq({x \in S : x.text \notin T})
<1> DEFINE P == {i \in 1..Len(s) : s[i].text \notin T}
           R == {x \in S : x.text \notin T}
<1>1. DOMAIN s = 1..Len(s) /\ \A i \in 1..Len(s) : s[i] \in S
  OBVIOUS
<1>2. Without(s, T) = Picks(s, P)
  BY <1>1 DEF Without, Kept
<1>3. P \in SUBSET (1..Len(s)) /\ \A i \in P : s[i] \in R
  BY <1>1
<1> HIDE DEF P, R
<1>4. Without(s, T) \in Seq(R)
  BY <1>2, <1>3, PicksMembers
<1> QED
  BY <1>4 DEF R

LEMMA CandidatesMembers ==
  ASSUME NEW S, NEW s \in Seq(S)
  PROVE  Candidates(s) \in Seq({Candidate(x) : x \in S})
<1> DEFINE C == {Candidate(x) : x \in S}
           n == Len(s)
           t == Candidates(s)
<1>1. n \in Nat /\ DOMAIN s = 1..n /\ \A i \in 1..n : s[i] \in S
  OBVIOUS
<1>2. t = [i \in 1..n |-> Candidate(s[i])]
  BY <1>1 DEF Candidates
<1>3. \A i \in 1..n : Candidate(s[i]) \in C
  BY <1>1
<1> HIDE DEF n, C, t
<1>4. t \in [1..n -> C]
  BY <1>2, <1>3
<1>5. t \in Seq(C)
  BY <1>1, <1>4
<1> QED
  BY <1>5 DEF t, C

LEMMA RaisedMembers ==
  ASSUME NEW C \in SUBSET CandidateType, \A c \in C : \A f \in Nat : [c EXCEPT !.freq = f] \in C,
         NEW list \in Seq(C), NEW F, \A x \in F : x.freq \in Nat, NEW own \in Seq(F)
  PROVE  RaisedBy(list, own) \in Seq(C)
<1> DEFINE n == Len(list)
           of(i) == {k \in DOMAIN own : own[k].text = list[i].text}
           t == RaisedBy(list, own)
           raised(i) == IF of(i) = {} THEN list[i] ELSE [list[i] EXCEPT !.freq = own[Max(of(i))].freq]
<1>1. /\ n \in Nat /\ DOMAIN list = 1..n /\ \A i \in 1..n : list[i] \in C
      /\ Len(own) \in Nat /\ DOMAIN own = 1..Len(own) /\ \A k \in 1..Len(own) : own[k] \in F
  OBVIOUS
<1>2. t = [i \in 1..n |-> raised(i)]
  BY <1>1 DEF RaisedBy
<1>3. ASSUME NEW i \in 1..n PROVE raised(i) \in C
  <2> DEFINE D == of(i)
  <2>1. CASE D = {}
    BY <1>1, <2>1
  <2>2. CASE D # {}
    <3>1. D \in SUBSET (1..Len(own))
      BY <1>1
    <3> HIDE DEF D
    <3>2. Max(D) \in 1..Len(own)
      BY <1>1, <2>2, <3>1, MaxOf
    <3>3. own[Max(D)].freq \in Nat
      BY <1>1, <3>2
    <3>4. [list[i] EXCEPT !.freq = own[Max(D)].freq] \in C
      BY <1>1, <3>3
    <3> QED
      BY <2>2, <3>4 DEF D
  <2> QED
    BY <2>1, <2>2
<1> HIDE DEF raised, t, n
<1>4. t \in [1..n -> C]
  BY <1>2, <1>3
<1>5. t \in Seq(C)
  BY <1>1, <1>4
<1> QED
  BY <1>5 DEF t

LEMMA TextsAre ==
  ASSUME NEW S, NEW s \in Seq(S)
  PROVE  Texts(s) = {s[i].text : i \in 1..Len(s)}
BY DEF Texts

LEMMA LayersShape ==
  ASSUME NEW key, NEW A, NEW a \in Seq(A), NEW B, NEW b \in Seq(B),
         \A x \in A : x.pinyin = key,
         \A x \in B : x.pinyin # key /\ IsPrefix(key, x.pinyin) /\ x.text \notin Texts(a)
  PROVE  InLayers(key, a \o b)
<1> DEFINE t == a \o b
           m == Len(a)
           l == Len(b)
<1>1. a \in Seq(A \cup B) /\ b \in Seq(A \cup B)
  BY SeqMonotonic
<1>2. /\ t \in Seq(A \cup B) /\ Len(t) = m + l
      /\ \A i \in 1..(m + l) : t[i] = IF i <= m THEN a[i] ELSE b[i - m]
  BY <1>1, ConcatProperties
<1>3. m \in Nat /\ l \in Nat /\ (\A i \in 1..m : a[i] \in A) /\ (\A i \in 1..l : b[i] \in B)
  OBVIOUS
<1>4. \A i \in 1..m : a[i].text \in Texts(a)
  BY TextsAre
<1> HIDE DEF t, m, l
<1>5. \A i \in 1..m : t[i] = a[i]
  <2>1. \A i \in 1..m : i \in 1..(m + l) /\ i <= m
    BY <1>3
  <2> QED
    BY <1>2, <2>1
<1>6. ASSUME NEW i \in (m + 1)..(m + l) PROVE t[i] \in B
  <2>1. i \in 1..(m + l) /\ ~(i <= m) /\ i - m \in 1..l
    BY <1>3
  <2> QED
    BY <1>2, <1>3, <2>1
<1>7. \A i \in 1..m : t[i].pinyin = key
  BY <1>3, <1>5
<1>8. \A i \in (m + 1)..(m + l) :
        /\ t[i].pinyin # key /\ IsPrefix(key, t[i].pinyin)
        /\ \A j \in 1..m : t[i].text # t[j].text
  BY <1>4, <1>5, <1>6
<1>9. m \in 0..(m + l)
  BY <1>3
<1> QED
  BY <1>2, <1>7, <1>8, <1>9 DEF InLayers, t

(* The layers without the file.                                            *)
LEMMA RangeGoesOn ==
  ASSUME NEW E, E \subseteq EntryType, NEW key \in Seq(Nat), NEW open, NEW x \in RangeSet(E, key, open)
  PROVE  x \in E /\ x.pinyin # key /\ IsPrefix(key, x.pinyin)
<1> DEFINE prefix == IF open THEN key ELSE key \o <<0>>
<1>1. /\ x \in E /\ ~Before(x.pinyin, prefix) /\ Before(x.pinyin, IncrementPrefix(prefix))
      /\ x.pinyin # key
  BY DEF RangeSet
<1>2. x.pinyin \in Seq(Nat) /\ prefix \in Seq(Nat)
  <2>1. <<0>> \in Seq(Nat)
    OBVIOUS
  <2>2. key \o <<0>> \in Seq(Nat)
    BY <2>1, ConcatProperties
  <2> QED
    BY <1>1, <2>2 DEF EntryType
<1> HIDE DEF prefix
<1>3. IsPrefix(prefix, x.pinyin)
  BY <1>1, <1>2, PrefixRange
<1>4. IsPrefix(key, x.pinyin)
  BY <1>2, <1>3, QuotedPrefix DEF prefix
<1> QED
  BY <1>1, <1>4

Homophones(key) == {c \in CandidateType : c.pinyin = key}

LEMMA IndexLayersApart ==
  ASSUME NEW E, E \subseteq EntryType, Unique(E), NEW ix, NEW used, IndexOK(ix, used, E),
         NEW key \in Seq(Nat), NEW open, NEW n \in Nat
  PROVE  InLayers(key, IndexLookupPrefix(ix, used, key, open, n))
<1> DEFINE C == Homophones(key)
           G == RangeSet(E, key, open)
           range == RangeOf(ix, key, open)
           own == OwnOf(range)
           shown == ShownOf(ix, used, key, open, n)
           first == FirstLayer(shown, own)
           rest == Take(Sorted(Without(Candidates(range), Texts(first)), ByRank), n - Len(first))
<1>1. /\ C \subseteq CandidateType /\ \A c \in C : c.eff \in Nat /\ c.text \in Nat /\ c.pinyin = key
      /\ \A c \in C : \A f \in Nat : [c EXCEPT !.freq = f] \in C
  BY DEF Homophones, CandidateType
<1>2. Block(ix, key) \in Seq(C)
  <2> DEFINE P == {i \in 1..Len(ix) : ix[i].pinyin = key}
             S == {x \in E : x.pinyin = key}
  <2>1. /\ ix \in Seq(E) /\ DOMAIN ix = 1..Len(ix) /\ \A i \in 1..Len(ix) : ix[i] \in E
    BY EnumeratesCounts DEF IndexOK, Enumerates
  <2>2. P \in SUBSET (1..Len(ix)) /\ \A i \in P : ix[i] \in S
    BY <2>1
  <2>3. Block(ix, key) = Candidates(Picks(ix, P))
    BY <2>1 DEF Block, Kept
  <2>4. {Candidate(x) : x \in S} \subseteq C
    BY DEF Candidate, CandidateType, EntryType, Homophones
  <2> HIDE DEF P, S, C
  <2>5. Picks(ix, P) \in Seq(S)
    BY <2>1, <2>2, PicksMembers
  <2>6. Candidates(Picks(ix, P)) \in Seq({Candidate(x) : x \in S})
    BY <2>5, CandidatesMembers
  <2> QED
    BY <2>3, <2>4, <2>6, SeqMonotonic
<1> HIDE DEF C
<1>3. \A s \in Seq(C) : Sorted(s, ByRank) \in Seq(C)
  BY <1>1, SortedByRank
<1>4. shown \in Seq(C)
  <2>1. Cap(open, n) \in Int
    BY DEF Cap
  <2> QED
    BY <1>2, <1>3, <2>1, TakeMembers DEF ShownOf
<1>5. IndexOK(range, used, G) /\ IndexOK(own, used, {x \in G : x.user})
  BY RangeIndexed
<1>6. \A x \in G : x \in EntryType /\ x.pinyin # key /\ IsPrefix(key, x.pinyin)
  BY RangeGoesOn
<1> HIDE DEF range, own, G, shown
<1>7. range \in Seq(G) /\ own \in Seq({x \in G : x.user})
  BY <1>5 DEF IndexOK, Enumerates
<1>8. RaisedBy(shown, own) \in Seq(C)
  <2>1. \A x \in {y \in G : y.user} : x.freq \in Nat
    BY <1>6 DEF EntryType
  <2> QED
    BY <1>1, <1>4, <1>7, <2>1, RaisedMembers
<1>9. first \in Seq(C)
  BY <1>3, <1>4, <1>8 DEF FirstLayer
<1> HIDE DEF first
<1> DEFINE D == {Candidate(x) : x \in G}
           R == {x \in D : x.text \notin Texts(first)}
<1>10. Candidates(range) \in Seq(D)
  BY <1>7, CandidatesMembers
<1>11. \A x \in D : x.eff \in Nat /\ x.text \in Nat /\ x.pinyin # key /\ IsPrefix(key, x.pinyin)
  <2>1. ASSUME NEW e \in G
        PROVE  /\ Candidate(e).eff \in Nat /\ Candidate(e).text \in Nat
               /\ Candidate(e).pinyin # key /\ IsPrefix(key, Candidate(e).pinyin)
    <3>1. e \in EntryType /\ e.pinyin # key /\ IsPrefix(key, e.pinyin)
      BY <1>6
    <3>2. Candidate(e).pinyin = e.pinyin /\ Candidate(e).eff = e.eff /\ Candidate(e).text = e.text
      BY DEF Candidate
    <3>3. e.eff \in Nat /\ e.text \in Nat
      BY <3>1 DEF EntryType
    <3> QED
      BY <3>1, <3>2, <3>3
  <2> QED
    BY <2>1
<1> HIDE DEF D
<1>12. Without(Candidates(range), Texts(first)) \in Seq(R)
  BY <1>10, WithoutMembers
<1>13. /\ \A x \in R : x.eff \in Nat /\ x.text \in Nat
       /\ \A x \in R : x.pinyin # key /\ IsPrefix(key, x.pinyin) /\ x.text \notin Texts(first)
  BY <1>11
<1> HIDE DEF R
<1>14. Sorted(Without(Candidates(range), Texts(first)), ByRank) \in Seq(R)
  BY <1>12, <1>13, SortedByRank
<1>15. rest \in Seq(R)
  <2>1. n - Len(first) \in Int
    BY <1>9
  <2> QED
    BY <1>14, <2>1, TakeMembers
<1>16. \A x \in C : x.pinyin = key
  BY <1>1
<1> HIDE DEF rest
<1>17. InLayers(key, first \o rest)
  BY <1>9, <1>13, <1>15, <1>16, LayersShape
<1>18. IndexLookupPrefix(ix, used, key, open, n) = LayersOf(first, range, n)
  BY PrefixParts DEF first, shown, own, range
<1> QED
  BY <1>17, <1>18 DEF LayersOf, rest

(* One entry for each text.                                                *)
Distinct(s) == \A i, j \in 1..Len(s) : s[i].text = s[j].text => i = j

(* m has every text once, in order of rank, the user's before the base's.  *)
Merges(m, base, user) ==
  /\ Distinct(m) /\ Texts(m) = Texts(user) \cup Texts(base)
  /\ \A i \in 1..Len(m) : \/ \E j \in 1..Len(user) : m[i] = user[j]
                          \/ /\ \E j \in 1..Len(base) : m[i] = base[j]
                             /\ m[i].text \notin Texts(user)
  /\ \A i, j \in 1..Len(m) : i < j => ByRank(m[i], m[j])

LEMMA MergeFacts ==
  ASSUME NEW S, S \subseteq CandidateType, NEW base \in Seq(S), NEW user \in Seq(S),
         user # <<>>, NEW limit
  PROVE  \E m : /\ MergeOverlay(base, user, limit) = Take(m, limit)
                /\ m \in Seq(S) /\ Merges(m, base, user)
<1> DEFINE FirstOf(t) == CHOOSE i \in DOMAIN base :
                           base[i].text = t /\ \A j \in 1..(i - 1) : base[j].text # t
           LastOf(t) == CHOOSE i \in DOMAIN user :
                          user[i].text = t /\ \A j \in (i + 1)..Len(user) : user[j].text # t
           TU == Texts(user)
           TB == Texts(base)
           merged == {user[LastOf(t)] : t \in TU} \cup {base[FirstOf(t)] : t \in TB \ TU}
           B == Below(merged, ByRank)
           m == Ordering(merged, B)
<1>1. /\ Len(base) \in Nat /\ DOMAIN base = 1..Len(base) /\ \A i \in 1..Len(base) : base[i] \in S
      /\ Len(user) \in Nat /\ DOMAIN user = 1..Len(user) /\ \A i \in 1..Len(user) : user[i] \in S
  OBVIOUS
<1>2. ASSUME NEW t \in TB PROVE FirstOf(t) \in 1..Len(base) /\ base[FirstOf(t)].text = t
  <2> DEFINE D == {i \in 1..Len(base) : base[i].text = t}
  <2>1. D # {} /\ D \in SUBSET Nat
    BY <1>1 DEF Texts
  <2>2. PICK i \in D : \A k \in D : i <= k
    <3> HIDE DEF D
    <3> QED
      BY <2>1, LeastOf
  <2>3. ASSUME NEW j \in 1..(i - 1) PROVE base[j].text # t
    <3>1. j \in 1..Len(base) /\ ~(i <= j)
      BY <1>1, <2>2
    <3> QED
      BY <2>2, <3>1
  <2>4. \E k \in DOMAIN base : base[k].text = t /\ \A j \in 1..(k - 1) : base[j].text # t
    BY <1>1, <2>2, <2>3
  <2> QED
    BY <1>1, <2>4
<1>3. ASSUME NEW t \in TU PROVE LastOf(t) \in 1..Len(user) /\ user[LastOf(t)].text = t
  <2> DEFINE D == {i \in 1..Len(user) : user[i].text = t}
  <2>1. D # {} /\ D \in SUBSET (1..Len(user))
    BY <1>1 DEF Texts
  <2>2. Max(D) \in D /\ \A k \in D : k <= Max(D)
    <3> HIDE DEF D
    <3> QED
      BY <1>1, <2>1, MaxOf
  <2>3. ASSUME NEW j \in (Max(D) + 1)..Len(user) PROVE user[j].text # t
    <3>1. j \in 1..Len(user) /\ ~(j <= Max(D))
      BY <1>1, <2>2
    <3> QED
      BY <2>2, <3>1
  <2>4. \E k \in DOMAIN user : user[k].text = t /\ \A j \in (k + 1)..Len(user) : user[j].text # t
    BY <1>1, <2>2, <2>3
  <2> QED
    BY <1>1, <2>4
<1> HIDE DEF FirstOf, LastOf
<1>4. ASSUME NEW x \in merged
      PROVE  /\ x \in S /\ x.text \in TU \cup TB
             /\ \/ \E j \in 1..Len(user) : x = user[j]
                \/ (\E j \in 1..Len(base) : x = base[j]) /\ x.text \notin TU
             /\ x.text \in TU => x = user[LastOf(x.text)]
             /\ x.text \notin TU => x = base[FirstOf(x.text)]
  <2>1. CASE \E t \in TU : x = user[LastOf(t)]
    BY <1>1, <1>3, <2>1
  <2>2. CASE \E t \in TB \ TU : x = base[FirstOf(t)]
    BY <1>1, <1>2, <2>2
  <2> QED
    BY <2>1, <2>2
<1>5. ASSUME NEW t \in TU \cup TB PROVE \E x \in merged : x.text = t
  <2>1. CASE t \in TU
    BY <1>3, <2>1
  <2>2. CASE t \in TB \ TU
    BY <1>2, <2>2
  <2> QED
    BY <2>1, <2>2
<1>6. IsFiniteSet(TU \cup TB)
  <2>1. ASSUME NEW s \in Seq(S) PROVE IsFiniteSet(Texts(s))
    <3> DEFINE f == [i \in 1..Len(s) |-> s[i].text]
    <3>1. Texts(s) = {s[i].text : i \in 1..Len(s)}
      BY TextsAre
    <3>2. f \in Surjection(1..Len(s), Texts(s))
      BY <3>1 DEF Surjection
    <3>3. IsFiniteSet(1..Len(s))
      <4>1. Len(s) \in Nat
        OBVIOUS
      <4> QED
        BY <4>1, FS_Interval
    <3> QED
      BY <3>2, <3>3, FS_Surjection
  <2>2. IsFiniteSet(TU) /\ IsFiniteSet(TB)
    BY <2>1
  <2> QED
    BY <2>2, FS_Union
<1> HIDE DEF merged, TU, TB
<1>7. IsFiniteSet(merged)
  <2> DEFINE g == [x \in merged |-> x.text]
  <2>1. g \in Injection(merged, TU \cup TB)
    BY <1>4 DEF Injection, IsInjective
  <2> QED
    BY <1>6, <2>1, FS_Injection
<1>8. \A x \in merged : x.eff \in Nat /\ x.text \in Nat
  BY <1>4 DEF CandidateType
<1>9. TotalOrder(B, merged)
  <2>1. WeakOrder(B, merged)
    BY <1>8, RankIsWeak
  <2>2. \A x, y \in merged : x.text = y.text => x = y
    BY <1>4
  <2>3. \A x, y \in merged : x = y \/ ByRank(x, y) \/ ByRank(y, x)
    BY <1>8, <2>2 DEF ByRank
  <2>4. \A x, y \in merged : y \in B[x] <=> ByRank(y, x)
    BY DEF Below
  <2> HIDE DEF B
  <2> QED
    BY <2>1, <2>3, <2>4 DEF TotalOrder
<1>10. MergeOverlay(base, user, limit) = Take(m, limit)
  <2>1. InOrder(merged, ByRank) = m
    BY DEF InOrder, Below
  <2> QED
    BY <2>1 DEF MergeOverlay, merged, TU, TB, FirstOf, LastOf
<1> HIDE DEF B
<1>11. Enumerates(m, merged) /\ Ascends(m, B)
  BY <1>7, <1>9, OrderingFacts
<1> HIDE DEF m
<1>12. /\ m \in Seq(merged) /\ \A i \in 1..Len(m) : m[i] \in merged
       /\ \A x \in merged : \E i \in 1..Len(m) : m[i] = x
       /\ \A i, j \in 1..Len(m) : m[i] = m[j] => i = j
  BY <1>11, EnumeratesCounts DEF Enumerates
<1>13. m \in Seq(S)
  <2>1. merged \subseteq S
    BY <1>4
  <2> QED
    BY <1>12, <2>1, SeqMonotonic
<1>14. Distinct(m)
  <2>1. \A x, y \in merged : x.text = y.text => x = y
    BY <1>4
  <2>2. ASSUME NEW i \in 1..Len(m), NEW j \in 1..Len(m), m[i].text = m[j].text PROVE i = j
    <3>1. m[i] \in merged /\ m[j] \in merged
      BY <1>12
    <3>2. m[i] = m[j]
      BY <2>1, <2>2, <3>1
    <3> QED
      BY <1>12, <3>2
  <2> QED
    BY <2>2 DEF Distinct
<1>15. Texts(m) = TU \cup TB
  <2>1. Texts(m) = {m[i].text : i \in 1..Len(m)}
    BY <1>13, TextsAre
  <2> QED
    <3>1. {m[i].text : i \in 1..Len(m)} = {x.text : x \in merged}
      <4>1. ASSUME NEW i \in 1..Len(m) PROVE m[i].text \in {x.text : x \in merged}
        BY <1>12
      <4>2. ASSUME NEW x \in merged PROVE x.text \in {m[i].text : i \in 1..Len(m)}
        BY <1>12
      <4> QED
        BY <4>1, <4>2
    <3>2. {x.text : x \in merged} = TU \cup TB
      BY <1>4, <1>5
    <3> QED
      BY <2>1, <3>1, <3>2
<1>16. \A i \in 1..Len(m) : \/ \E j \in 1..Len(user) : m[i] = user[j]
                            \/ (\E j \in 1..Len(base) : m[i] = base[j]) /\ m[i].text \notin TU
  BY <1>4, <1>12
<1>17. \A i, j \in 1..Len(m) : i < j => ByRank(m[i], m[j])
  BY <1>11, <1>12 DEF Ascends, B, Below
<1> QED
  BY <1>10, <1>13, <1>14, <1>15, <1>16, <1>17 DEF Merges, TU, TB

LEMMA MergeMembers ==
  ASSUME NEW S, S \subseteq CandidateType, NEW base \in Seq(S), NEW user \in Seq(S),
         NEW limit \in Int
  PROVE  MergeOverlay(base, user, limit) \in Seq(S)
<1>1. CASE user = <<>>
  <2>1. MergeOverlay(base, user, limit) = Take(base, limit)
    BY <1>1 DEF MergeOverlay
  <2> QED
    BY <2>1, TakeMembers
<1>2. CASE user # <<>>
  <2>1. PICK m : MergeOverlay(base, user, limit) = Take(m, limit) /\ m \in Seq(S)
    BY <1>2, MergeFacts
  <2> QED
    BY <2>1, TakeMembers
<1> QED
  BY <1>1, <1>2

----------------------------------------------------------------------------
(* Folds. FoldLeft recurs over sets of positions; step by step it is a     *)
(* trace h from the base through every position.                           *)

LEMMA MaxOfInterval ==
  ASSUME NEW m \in Nat
  PROVE  Max(1..(m + 1)) = m + 1 /\ (1..(m + 1)) \ {m + 1} = 1..m
<1> DEFINE D == 1..(m + 1)
<1>1. m + 1 \in Nat /\ D \in SUBSET (1..(m + 1)) /\ D # {} /\ m + 1 \in D
  OBVIOUS
<1> HIDE DEF D
<1>2. Max(D) \in D /\ \A k \in D : k <= Max(D)
  BY <1>1, MaxOf
<1> USE DEF D
<1>3. Max(D) = m + 1
  BY <1>1, <1>2
<1>4. (1..(m + 1)) \ {m + 1} = 1..m
  OBVIOUS
<1> QED
  BY <1>3, <1>4

LEMMA NatSet ==
  ASSUME NEW T \in SUBSET Nat, 0 \in T, \A m \in T : m + 1 \in T
  PROVE  T = Nat
<1>1. SUFFICES ASSUME NEW n \in Nat, n \notin T PROVE FALSE
  OBVIOUS
<1> DEFINE D == Nat \ T
<1>2. PICK i \in D : \A k \in D : i <= k
  <2>1. D \in SUBSET Nat /\ D # {}
    BY <1>1
  <2> HIDE DEF D
  <2> QED
    BY <2>1, LeastOf
<1>3. i \in Nat /\ i # 0 /\ i \notin T
  BY <1>2
<1>4. i - 1 \in Nat /\ ~(i <= i - 1)
  BY <1>3
<1>5. i - 1 \in T
  BY <1>2, <1>4
<1>6. (i - 1) + 1 \in T
  BY <1>5
<1> QED
  BY <1>3, <1>6

(* The recursion, for steps F, and the trace it leaves.                    *)
Recurs(g, base, n, F) ==
  \A s \in SUBSET (1..n) :
    /\ s = {} => g[s] = base
    /\ s # {} => Max(s) \in s /\ g[s] = F[<<g[s \ {Max(s)}], Max(s)>>]

RecursWithin(g, Q, base, n, F) ==
  /\ g[{}] = base
  /\ \A s \in SUBSET (1..n) :
       s # {} /\ g[s \ {Max(s)}] \in Q /\ Max(s) \in 1..n
         => g[s] = F[<<g[s \ {Max(s)}], Max(s)>>]

Traces(h, base, last, n, F) ==
  /\ h[0] = base /\ h[n] = last
  /\ \A m \in 1..n : h[m] = F[<<h[m - 1], m>>]

(* A solution, for steps that stay in Q.                                   *)
LEMMA FoldExists ==
  ASSUME NEW Q, NEW base \in Q, NEW n \in Nat, NEW F, F \in [Q \X (1..n) -> Q]
  PROVE  \E g \in [SUBSET (1..n) -> Q] : Recurs(g, base, n, F)
<1> DEFINE Solves(g, m) ==
             \A s \in SUBSET (1..m) :
               /\ s = {} => g[s] = base
               /\ s # {} => Max(s) \in s /\ g[s] = F[<<g[s \ {Max(s)}], Max(s)>>]
           T == {m \in Nat : m <= n => \E g \in [SUBSET (1..m) -> Q] : Solves(g, m)}
<1>1. 0 \in T
  <2> DEFINE g == [s \in SUBSET (1..0) |-> base]
  <2>1. \A s \in SUBSET (1..0) : s = {}
    OBVIOUS
  <2>2. g \in [SUBSET (1..0) -> Q] /\ \A s \in SUBSET (1..0) : g[s] = base
    OBVIOUS
  <2> HIDE DEF g
  <2>3. Solves(g, 0)
    BY <2>1, <2>2
  <2> QED
    BY <2>2, <2>3
<1>2. ASSUME NEW m \in T PROVE m + 1 \in T
  <2>1. SUFFICES ASSUME m + 1 <= n
                 PROVE  \E g \in [SUBSET (1..(m + 1)) -> Q] : Solves(g, m + 1)
    <3>1. m \in Nat /\ m + 1 \in Nat
      OBVIOUS
    <3> HIDE DEF Solves
    <3> QED
      BY <3>1
  <2>2. m \in Nat /\ m <= n /\ m + 1 \in Nat /\ m + 1 \in 1..n
    BY <2>1
  <2>3. PICK g \in [SUBSET (1..m) -> Q] : Solves(g, m)
    BY <2>2
  <2> DEFINE h == [s \in SUBSET (1..(m + 1)) |->
                     IF m + 1 \in s THEN F[<<g[s \ {m + 1}], m + 1>>] ELSE g[s]]
  <2>4. \A s \in SUBSET (1..(m + 1)) :
          /\ s \ {m + 1} \in SUBSET (1..m)
          /\ m + 1 \notin s => s \in SUBSET (1..m)
    <3>1. (1..(m + 1)) \ {m + 1} = 1..m
      BY <2>2, MaxOfInterval
    <3> QED
      BY <3>1
  <2>5. \A s \in SUBSET (1..(m + 1)) :
          h[s] = IF m + 1 \in s THEN F[<<g[s \ {m + 1}], m + 1>>] ELSE g[s]
    OBVIOUS
  <2>6. h \in [SUBSET (1..(m + 1)) -> Q]
    <3>1. ASSUME NEW s \in SUBSET (1..(m + 1))
          PROVE  (IF m + 1 \in s THEN F[<<g[s \ {m + 1}], m + 1>>] ELSE g[s]) \in Q
      <4>1. g[s \ {m + 1}] \in Q
        BY <2>3, <2>4
      <4>2. <<g[s \ {m + 1}], m + 1>> \in Q \X (1..n)
        BY <2>2, <4>1
      <4>3. F[<<g[s \ {m + 1}], m + 1>>] \in Q
        BY <4>2
      <4> QED
        BY <2>3, <2>4, <4>3
    <3> QED
      BY <3>1
  <2> HIDE DEF h
  <2>7. ASSUME NEW s \in SUBSET (1..(m + 1))
        PROVE  /\ s = {} => h[s] = base
               /\ s # {} => Max(s) \in s /\ h[s] = F[<<h[s \ {Max(s)}], Max(s)>>]
    <3>1. CASE m + 1 \in s
      <4>1. Max(s) \in s /\ \A k \in s : k <= Max(s)
        BY <2>2, <3>1, MaxOf
      <4>2. Max(s) = m + 1
        <5>1. Max(s) \in 1..(m + 1) /\ m + 1 <= Max(s)
          BY <3>1, <4>1
        <5> HIDE DEF Solves
        <5> QED
          BY <2>2, <5>1
      <4>3. s \ {m + 1} \in SUBSET (1..(m + 1)) /\ m + 1 \notin s \ {m + 1}
        OBVIOUS
      <4>4. h[s \ {m + 1}] = g[s \ {m + 1}]
        BY <2>5, <4>3
      <4> QED
        BY <2>5, <3>1, <4>1, <4>2, <4>4
    <3>2. CASE m + 1 \notin s
      <4>1. s \in SUBSET (1..m) /\ h[s] = g[s]
        BY <2>4, <2>5, <3>2
      <4>2. CASE s = {}
        BY <2>3, <4>1, <4>2
      <4>3. CASE s # {}
        <5>1. Max(s) \in s /\ g[s] = F[<<g[s \ {Max(s)}], Max(s)>>]
          BY <2>3, <4>1, <4>3
        <5>2. s \ {Max(s)} \in SUBSET (1..(m + 1)) /\ m + 1 \notin s \ {Max(s)}
          BY <3>2
        <5>3. h[s \ {Max(s)}] = g[s \ {Max(s)}]
          BY <2>5, <5>2
        <5> QED
          BY <4>1, <4>3, <5>1, <5>3
      <4> QED
        BY <4>2, <4>3
    <3> QED
      BY <3>1, <3>2
  <2> QED
    BY <2>6, <2>7
<1> HIDE DEF T
<1>3. T = Nat
  <2>1. T \in SUBSET Nat
    BY DEF T
  <2> QED
    BY <1>1, <1>2, <2>1, NatSet
<1>4. n \in T /\ n <= n
  BY <1>3
<1>5. PICK g \in [SUBSET (1..n) -> Q] : Solves(g, n)
  <2> HIDE DEF Solves
  <2> QED
    BY <1>4 DEF T
<1> QED
  BY <1>5 DEF Recurs

(* The values that any solution takes at the first so many positions.      *)
LEMMA FoldTrace ==
  ASSUME NEW Q, NEW base \in Q, NEW n \in Nat, NEW F, F \in [Q \X (1..n) -> Q], NEW g,
         RecursWithin(g, Q, base, n, F)
  PROVE  \E h \in [0..n -> Q] : Traces(h, base, g[1..n], n, F)
<1> DEFINE T == {m \in Nat : m <= n => g[1..m] \in Q /\ (m # 0 => g[1..m] = F[<<g[1..(m - 1)], m>>])}
<1> USE DEF RecursWithin
<1>1. 0 \in T
  <2>1. 1..0 = {}
    OBVIOUS
  <2> QED
    BY <2>1
<1>2. ASSUME NEW m \in T PROVE m + 1 \in T
  <2>1. SUFFICES ASSUME m + 1 <= n
                 PROVE  g[1..(m + 1)] \in Q /\ g[1..(m + 1)] = F[<<g[1..m], m + 1>>]
    <3>1. (m + 1) - 1 = m /\ m + 1 \in Nat
      OBVIOUS
    <3> QED
      BY <3>1
  <2>2. m \in Nat /\ m <= n /\ m + 1 \in 1..n
    BY <2>1
  <2>3. g[1..m] \in Q
    BY <2>2
  <2>4. Max(1..(m + 1)) = m + 1 /\ (1..(m + 1)) \ {m + 1} = 1..m
    BY <2>2, MaxOfInterval
  <2>5. 1..(m + 1) \in SUBSET (1..n) /\ 1..(m + 1) # {}
    <3>1. m + 1 \in 1..(m + 1) /\ \A i \in 1..(m + 1) : i \in 1..n
      BY <2>2
    <3> HIDE DEF T
    <3> QED
      BY <3>1
  <2>6. g[1..(m + 1)] = F[<<g[1..m], m + 1>>]
    BY <2>2, <2>3, <2>4, <2>5
  <2>7. <<g[1..m], m + 1>> \in Q \X (1..n)
    BY <2>2, <2>3
  <2> QED
    BY <2>6, <2>7
<1>3. T = Nat
  <2>1. T \in SUBSET Nat
    OBVIOUS
  <2> HIDE DEF T
  <2> QED
    BY <1>1, <1>2, <2>1, NatSet
<1>4. \A m \in 0..n : g[1..m] \in Q /\ (m # 0 => g[1..m] = F[<<g[1..(m - 1)], m>>])
  <2>1. ASSUME NEW m \in 0..n PROVE m \in T /\ m <= n
    BY <1>3
  <2> QED
    BY <2>1
<1> DEFINE h == [m \in 0..n |-> g[1..m]]
<1>5. h \in [0..n -> Q] /\ \A m \in 0..n : h[m] = g[1..m]
  BY <1>4
<1>6. h[0] = base
  <2>1. 1..0 = {} /\ 0 \in 0..n
    OBVIOUS
  <2> QED
    BY <1>5, <2>1
<1> HIDE DEF h, T
<1>7. \A m \in 1..n : h[m] = F[<<h[m - 1], m>>]
  <2>1. \A m \in 1..n : m \in 0..n /\ m - 1 \in 0..n /\ m # 0
    OBVIOUS
  <2> QED
    BY <1>4, <1>5, <2>1
<1>8. n \in 0..n
  OBVIOUS
<1> QED
  BY <1>5, <1>6, <1>7, <1>8 DEF Traces

----------------------------------------------------------------------------
(* The walk over blocks.                                                   *)

LEMMA FreqIsWeak ==
  ASSUME NEW S, \A x \in S : x.freq \in Nat /\ x.text \in Nat
  PROVE  WeakOrder(Below(S, ByFreq), S)
<1>1. Below(S, ByFreq) \in [S -> SUBSET S]
  BY DEF Below
<1>2. \A x, y \in S : y \in Below(S, ByFreq)[x] <=> ByFreq(y, x)
  BY DEF Below
<1>3. \A x \in S : ~ByFreq(x, x)
  BY DEF ByFreq
<1>4. \A x, y, z \in S : ByFreq(x, y) /\ ByFreq(y, z) => ByFreq(x, z)
  BY DEF ByFreq
<1>5. \A x, y, z \in S : ByFreq(x, z) => ByFreq(x, y) \/ ByFreq(y, z)
  BY DEF ByFreq
<1> QED
  BY <1>1, <1>2, <1>3, <1>4, <1>5 DEF WeakOrder

LEMMA SortedByFreq ==
  ASSUME NEW S, \A x \in S : x.freq \in Nat /\ x.text \in Nat, NEW s \in Seq(S)
  PROVE  /\ Sorted(s, ByFreq) \in Seq(S) /\ Len(Sorted(s, ByFreq)) = Len(s)
         /\ \E at : /\ Enumerates(at, 1..Len(s)) /\ MadeFrom(Sorted(s, ByFreq), s, at)
                    /\ \A m, n \in 1..Len(s) : m < n =>
                         LET x == Sorted(s, ByFreq)[m]
                             y == Sorted(s, ByFreq)[n]
                         IN  ByFreq(x, y) \/ (~ByFreq(y, x) /\ at[m] < at[n])
<1> DEFINE B == Below(S, ByFreq)
           t == Arrangement(s, B)
<1>1. WeakOrder(B, S)
  BY FreqIsWeak
<1>2. DOMAIN s = 1..Len(s) /\ \A i \in 1..Len(s) : s[i] \in S
  OBVIOUS
<1>3. \A x, y \in S : y \in B[x] <=> ByFreq(y, x)
  BY DEF Below
<1>4. Stable(s, B) = [j \in DOMAIN s |-> {i \in DOMAIN s :
                        ByFreq(s[i], s[j]) \/ (~ByFreq(s[j], s[i]) /\ i < j)}]
  <2>1. \A i, j \in 1..Len(s) : /\ s[i] \in B[s[j]] <=> ByFreq(s[i], s[j])
                                /\ s[j] \in B[s[i]] <=> ByFreq(s[j], s[i])
    BY <1>2, <1>3
  <2>2. \A j \in 1..Len(s) :
          {i \in 1..Len(s) : s[i] \in B[s[j]] \/ (s[j] \notin B[s[i]] /\ i < j)}
            = {i \in 1..Len(s) : ByFreq(s[i], s[j]) \/ (~ByFreq(s[j], s[i]) /\ i < j)}
    BY <2>1
  <2> QED
    BY <1>2, <2>2 DEF Stable
<1>5. Sorted(s, ByFreq) = t
  BY <1>2, <1>4 DEF Sorted, Arrangement
<1> HIDE DEF B
<1>6. /\ t \in Seq(S) /\ Len(t) = Len(s)
      /\ \E at : /\ Enumerates(at, 1..Len(s)) /\ MadeFrom(t, s, at)
                 /\ \A m, n \in 1..Len(s) : m < n =>
                      t[m] \in B[t[n]] \/ (t[n] \notin B[t[m]] /\ at[m] < at[n])
  BY <1>1, StableSort
<1> HIDE DEF t
<1>7. \A n \in 1..Len(s) : t[n] \in S
  BY <1>6
<1>8. \A m, n \in 1..Len(s) : /\ t[m] \in B[t[n]] <=> ByFreq(t[m], t[n])
                              /\ t[n] \in B[t[m]] <=> ByFreq(t[n], t[m])
  BY <1>3, <1>7
<1> QED
  BY <1>5, <1>6, <1>8

(* One entry pushed on the heap.                                           *)
PushOn(t, c, limit) ==
  IF Len(t) # limit \/ ByFreq(c, t[limit])
  THEN Sorted(Append(IF Len(t) = limit THEN Front(t) ELSE t, c), ByFreq)
  ELSE t

LEMMA PushMembers ==
  ASSUME NEW A, \A x \in A : x.freq \in Nat /\ x.text \in Nat,
         NEW t \in Seq(A), NEW c \in A, NEW limit \in Nat \ {0}
  PROVE  PushOn(t, c, limit) \in Seq(A)
<1> DEFINE u == IF Len(t) = limit THEN Front(t) ELSE t
<1>1. u \in Seq(A)
  <2>1. CASE Len(t) = limit
    <3>1. Len(t) \in Nat /\ Len(t) >= 1 /\ \A j \in 1..Len(t) : t[j] \in A
      BY <2>1
    <3>2. Front(t) = SubSeq(t, 1, Len(t) - 1)
      BY DEF Front
    <3>3. SubSeq(t, 1, Len(t) - 1) \in Seq(A)
      BY <3>1
    <3> QED
      BY <2>1, <3>2, <3>3
  <2> QED
    BY <2>1
<1> HIDE DEF u
<1>2. Append(u, c) \in Seq(A)
  BY <1>1
<1>3. Sorted(Append(u, c), ByFreq) \in Seq(A)
  BY <1>2, SortedByFreq
<1> QED
  BY <1>3 DEF PushOn, u

(* The first values of a fold, each from the one before it.                *)
LEMMA CollectTrace ==
  ASSUME NEW A, \A x \in A : x.freq \in Nat /\ x.text \in Nat,
         NEW top \in Seq(A), NEW limit \in Nat \ {0}, NEW i, DecodeBlock(i, limit) \in Seq(A)
  PROVE  \E h \in [0..Len(DecodeBlock(i, limit)) -> Seq(A)] :
           /\ h[0] = top /\ h[Len(DecodeBlock(i, limit))] = CollectBlock(top, i, limit)
           /\ \A m \in 1..Len(DecodeBlock(i, limit)) :
                h[m] = PushOn(h[m - 1], DecodeBlock(i, limit)[m], limit)
<1> DEFINE s == DecodeBlock(i, limit)
           n == Len(s)
           Q == Seq(A)
           F == [x \in Q \X (1..n) |-> PushOn(x[1], s[x[2]], limit)]
           step(f, d) == IF d = {} THEN top ELSE PushOn(f[d \ {Max(d)}], s[Max(d)], limit)
           g == CHOOSE f : f = [d \in SUBSET DOMAIN s |-> step(f, d)]
<1>1. CollectBlock(top, i, limit) = g[DOMAIN s]
  <2> HIDE DEF s
  <2> QED
    BY DEF CollectBlock, FoldLeft, MapThenFoldSet, PushOn, s
<1> HIDE DEF s
<1>2. n \in Nat /\ DOMAIN s = 1..n /\ \A m \in 1..n : s[m] \in A
  BY DEF s
<1> HIDE DEF n
<1>3. \A x \in Q, m \in 1..n : PushOn(x, s[m], limit) \in Q
  BY <1>2, PushMembers
<1>4. F \in [Q \X (1..n) -> Q] /\ \A x \in Q, m \in 1..n : F[<<x, m>>] = PushOn(x, s[m], limit)
  BY <1>3
<1> HIDE DEF Q, F
<1>5. top \in Q
  BY DEF Q
<1>20. n \in Nat /\ F \in [Q \X (1..n) -> Q] /\ top \in Q
  BY <1>2, <1>4, <1>5
<1>21. \E f \in [SUBSET (1..n) -> Q] : Recurs(f, top, n, F)
  BY <1>20, FoldExists
<1>6. PICK f \in [SUBSET (1..n) -> Q] :
        \A d \in SUBSET (1..n) :
             /\ d = {} => f[d] = top
             /\ d # {} => Max(d) \in d /\ f[d] = F[<<f[d \ {Max(d)}], Max(d)>>]
  BY <1>21 DEF Recurs
<1>7. \A d \in SUBSET (1..n) : f[d] = step(f, d)
  <2>1. ASSUME NEW d \in SUBSET (1..n) PROVE f[d] = step(f, d)
    <3>1. CASE d = {}
      BY <1>6, <3>1
    <3>2. CASE d # {}
      <4>1. Max(d) \in 1..n /\ d \ {Max(d)} \in SUBSET (1..n)
        BY <1>6, <3>2
      <4>2. f[d \ {Max(d)}] \in Q
        BY <4>1
      <4> QED
        BY <1>4, <1>6, <3>2, <4>1, <4>2
    <3> QED
      BY <3>1, <3>2
  <2> QED
    BY <2>1
<1>8. f = [d \in SUBSET (1..n) |-> step(f, d)]
  <2>1. f = [d \in SUBSET (1..n) |-> f[d]]
    BY <1>6
  <2> HIDE DEF step
  <2> QED
    BY <1>7, <2>1
<1>9. g = [d \in SUBSET (1..n) |-> step(g, d)]
  <2> HIDE DEF step
  <2> QED
    BY <1>2, <1>8
<1>10. \A d \in SUBSET (1..n) : g[d] = step(g, d)
  <2> HIDE DEF step, g
  <2> QED
    BY <1>9
<1> HIDE DEF g
<1>11. g[{}] = top
  BY <1>10
<1>12. ASSUME NEW d \in SUBSET (1..n), d # {}, g[d \ {Max(d)}] \in Q, Max(d) \in 1..n
       PROVE  g[d] = F[<<g[d \ {Max(d)}], Max(d)>>]
  BY <1>4, <1>10, <1>12
<1>22. RecursWithin(g, Q, top, n, F)
  BY <1>11, <1>12 DEF RecursWithin
<1> DEFINE last == g[1..n]
<1>24. \E h \in [0..n -> Q] : Traces(h, top, last, n, F)
  BY <1>20, <1>22, FoldTrace
<1> HIDE DEF last
<1>23. PICK h \in [0..n -> Q] : Traces(h, top, last, n, F)
  BY <1>24
<1>13. h[0] = top /\ h[n] = last /\ \A m \in 1..n : h[m] = F[<<h[m - 1], m>>]
  BY <1>23 DEF Traces
<1>14. \A m \in 1..n : h[m] = PushOn(h[m - 1], s[m], limit)
  <2>1. \A m \in 1..n : h[m - 1] \in Q
    <3>1. \A m \in 1..n : m - 1 \in 0..n
      BY <1>2
    <3> QED
      BY <3>1
  <2> QED
    BY <1>4, <1>13, <1>23, <2>1
<1> QED
  BY <1>1, <1>2, <1>13, <1>14, <1>23 DEF n, s, Q, last

LEMMA CollectMembers ==
  ASSUME NEW A, \A x \in A : x.freq \in Nat /\ x.text \in Nat,
         NEW top \in Seq(A), NEW limit \in Nat \ {0}, NEW i, DecodeBlock(i, limit) \in Seq(A)
  PROVE  CollectBlock(top, i, limit) \in Seq(A)
<1> DEFINE s == DecodeBlock(i, limit)
<1>1. PICK h \in [0..Len(s) -> Seq(A)] : h[Len(s)] = CollectBlock(top, i, limit)
  BY CollectTrace
<1>2. Len(s) \in 0..Len(s)
  <2>1. Len(s) \in Nat
    OBVIOUS
  <2> QED
    BY <2>1
<1> QED
  BY <1>1, <1>2

(* The blocks w one after the other.                                       *)
Walk(w, limit) ==
  LET Collect(top, i) == CollectBlock(top, i, limit)
  IN  FoldLeft(Collect, <<>>, w)

LEMMA WalkTrace ==
  ASSUME NEW A, \A x \in A : x.freq \in Nat /\ x.text \in Nat,
         NEW limit \in Nat \ {0}, NEW D, NEW w \in Seq(D),
         \A i \in D : DecodeBlock(i, limit) \in Seq(A)
  PROVE  \E h \in [0..Len(w) -> Seq(A)] :
           /\ h[0] = <<>> /\ h[Len(w)] = Walk(w, limit)
           /\ \A m \in 1..Len(w) : h[m] = CollectBlock(h[m - 1], w[m], limit)
<1> DEFINE n == Len(w)
           Q == Seq(A)
           F == [x \in Q \X (1..n) |-> CollectBlock(x[1], w[x[2]], limit)]
           step(f, d) == IF d = {} THEN <<>> ELSE CollectBlock(f[d \ {Max(d)}], w[Max(d)], limit)
           g == CHOOSE f : f = [d \in SUBSET DOMAIN w |-> step(f, d)]
<1>1. Walk(w, limit) = g[DOMAIN w]
  BY DEF Walk, FoldLeft, MapThenFoldSet
<1>2. n \in Nat /\ DOMAIN w = 1..n /\ \A m \in 1..n : w[m] \in D
  OBVIOUS
<1> HIDE DEF n
<1>3. \A x \in Q, m \in 1..n : CollectBlock(x, w[m], limit) \in Q
  BY <1>2, CollectMembers
<1>4. F \in [Q \X (1..n) -> Q] /\ \A x \in Q, m \in 1..n : F[<<x, m>>] = CollectBlock(x, w[m], limit)
  BY <1>3
<1>5. <<>> \in Q
  OBVIOUS
<1> HIDE DEF Q, F
<1>6. n \in Nat /\ F \in [Q \X (1..n) -> Q] /\ <<>> \in Q
  BY <1>2, <1>4, <1>5
<1>7. \E f \in [SUBSET (1..n) -> Q] : Recurs(f, <<>>, n, F)
  BY <1>6, FoldExists
<1>8. PICK f \in [SUBSET (1..n) -> Q] :
        \A d \in SUBSET (1..n) :
             /\ d = {} => f[d] = <<>>
             /\ d # {} => Max(d) \in d /\ f[d] = F[<<f[d \ {Max(d)}], Max(d)>>]
  BY <1>7 DEF Recurs
<1>9. ASSUME NEW d \in SUBSET (1..n) PROVE f[d] = step(f, d)
  <2>1. CASE d = {}
    BY <1>8, <2>1
  <2>2. CASE d # {}
    <3>1. Max(d) \in 1..n /\ d \ {Max(d)} \in SUBSET (1..n)
      BY <1>8, <2>2
    <3>2. f[d \ {Max(d)}] \in Q
      BY <3>1
    <3> QED
      BY <1>4, <1>8, <2>2, <3>1, <3>2
  <2> QED
    BY <2>1, <2>2
<1>10. f = [d \in SUBSET (1..n) |-> step(f, d)]
  <2>1. f = [d \in SUBSET (1..n) |-> f[d]]
    BY <1>8
  <2> HIDE DEF step
  <2> QED
    BY <1>9, <2>1
<1>11. g = [d \in SUBSET (1..n) |-> step(g, d)]
  <2> HIDE DEF step
  <2> QED
    BY <1>2, <1>10
<1>12. \A d \in SUBSET (1..n) : g[d] = step(g, d)
  <2> HIDE DEF step, g
  <2> QED
    BY <1>11
<1> HIDE DEF g
<1>13. RecursWithin(g, Q, <<>>, n, F)
  <2>1. g[{}] = <<>>
    BY <1>12
  <2>2. ASSUME NEW d \in SUBSET (1..n), d # {}, g[d \ {Max(d)}] \in Q, Max(d) \in 1..n
        PROVE  g[d] = F[<<g[d \ {Max(d)}], Max(d)>>]
    BY <1>4, <1>12, <2>2
  <2> QED
    BY <2>1, <2>2 DEF RecursWithin
<1> DEFINE last == g[1..n]
<1>14. \E h \in [0..n -> Q] : Traces(h, <<>>, last, n, F)
  BY <1>6, <1>13, FoldTrace
<1> HIDE DEF last
<1>15. PICK h \in [0..n -> Q] : Traces(h, <<>>, last, n, F)
  BY <1>14
<1>16. h[0] = <<>> /\ h[n] = last /\ \A m \in 1..n : h[m] = F[<<h[m - 1], m>>]
  BY <1>15 DEF Traces
<1>17. \A m \in 1..n : h[m] = CollectBlock(h[m - 1], w[m], limit)
  <2>1. \A m \in 1..n : m - 1 \in 0..n
    BY <1>2
  <2>2. \A m \in 1..n : h[m - 1] \in Q
    BY <1>15, <2>1
  <2> QED
    BY <1>4, <1>16, <2>2
<1> QED
  BY <1>1, <1>2, <1>15, <1>16, <1>17 DEF n, Q, last

LEMMA WalkMembers ==
  ASSUME NEW A, \A x \in A : x.freq \in Nat /\ x.text \in Nat,
         NEW limit \in Nat \ {0}, NEW D, NEW w \in Seq(D),
         \A i \in D : DecodeBlock(i, limit) \in Seq(A)
  PROVE  Walk(w, limit) \in Seq(A)
<1>1. PICK h \in [0..Len(w) -> Seq(A)] : h[Len(w)] = Walk(w, limit)
  BY WalkTrace
<1>2. Len(w) \in 0..Len(w)
  <2>1. Len(w) \in Nat
    OBVIOUS
  <2> QED
    BY <2>1
<1> QED
  BY <1>1, <1>2

(* The blocks of a range in order.                                         *)
RangeOfKeys(prefix, exclude) ==
  {i \in DOMAIN bin.keys : /\ ~Before(bin.keys[i], prefix)
                           /\ Before(bin.keys[i], IncrementPrefix(prefix))
                           /\ bin.keys[i] # exclude}

LEMMA ScanIsWalk ==
  ASSUME NEW prefix, NEW exclude, NEW limit
  PROVE  ScanRange(prefix, limit, exclude) = Walk(InOrder(RangeOfKeys(prefix, exclude), <), limit)
  BY DEF ScanRange, Walk, RangeOfKeys

(* Positions in order.                                                     *)
LEMMA PositionsInOrder ==
  ASSUME NEW n \in Nat, NEW P \in SUBSET (1..n)
  PROVE  Enumerates(InOrder(P, <), P) /\ Increases(InOrder(P, <))
<1> DEFINE below == [i \in P |-> {j \in P : j < i}]
           at == Ordering(P, below)
<1>1. P \subseteq Nat /\ IsFiniteSet(P)
  <2>1. IsFiniteSet(1..n)
    BY FS_Interval
  <2>2. P \in SUBSET (1..n) /\ P \subseteq Nat
    OBVIOUS
  <2> QED
    BY <2>1, <2>2, FS_Subset
<1>2. TotalOrder(below, P)
  <2>1. \A i \in P : i \in Nat
    BY <1>1
  <2>2. below \in [P -> SUBSET P] /\ \A i \in P : below[i] = {j \in P : j < i}
    OBVIOUS
  <2> HIDE DEF below
  <2>3. \A i, j \in P : j \in below[i] <=> j < i
    BY <2>2
  <2>5. \A i, j \in P : j \in below[i] => below[j] \subseteq below[i]
    <3>1. ASSUME NEW i \in P, NEW j \in P, j < i, NEW k \in below[j] PROVE k \in below[i]
      <4>1. k \in P /\ k < j /\ k < i
        BY <2>1, <2>2, <2>3, <3>1
      <4> QED
        BY <2>3, <4>1
    <3> QED
      BY <2>3, <3>1
  <2>6. WeakOrder(below, P)
    BY <2>1, <2>2, <2>3, <2>5 DEF WeakOrder
  <2>4. \A i, j \in P : i = j \/ i \in below[j] \/ j \in below[i]
    BY <2>1, <2>3
  <2> QED
    BY <2>4, <2>6 DEF TotalOrder
<1>3. InOrder(P, <) = at
  BY DEF InOrder
<1> HIDE DEF below
<1>4. Enumerates(at, P) /\ Ascends(at, below)
  <2> HIDE DEF at
  <2> QED
    BY <1>1, <1>2, OrderingFacts DEF at
<1> HIDE DEF at
<1>5. \A k \in 1..Len(at) : at[k] \in P
  BY <1>4, EnumeratesCounts
<1>6. \A i, j \in P : i \in below[j] <=> i < j
  BY DEF below
<1>7. Increases(at)
  BY <1>4, <1>5, <1>6 DEF Increases, Ascends
<1> QED
  BY <1>3, <1>4, <1>7

----------------------------------------------------------------------------
(* The file.                                                               *)

LEMMA TotalFrom ==
  ASSUME NEW S, NEW B, B \in [S -> SUBSET S], \A x \in S : x \notin B[x],
         \A x, y, z \in S : x \in B[y] /\ y \in B[z] => x \in B[z],
         \A x, y \in S : x = y \/ x \in B[y] \/ y \in B[x]
  PROVE  TotalOrder(B, S)
<1>1. ASSUME NEW x \in S, NEW y \in S, y \in B[x] PROVE B[y] \subseteq B[x]
  <2>1. \A z \in B[y] : z \in S
    OBVIOUS
  <2> QED
    BY <1>1, <2>1
<1>2. ASSUME NEW x \in S, NEW y \in S, NEW z \in S, x \in B[z]
      PROVE  x \in B[y] \/ y \in B[z]
  BY <1>2
<1> QED
  BY <1>1, <1>2 DEF TotalOrder, WeakOrder

(* A set in a total order, as a list.                                      *)
LEMMA Listed ==
  ASSUME NEW S, IsFiniteSet(S), NEW B, B \in [S -> SUBSET S], \A x \in S : x \notin B[x],
         \A x, y, z \in S : x \in B[y] /\ y \in B[z] => x \in B[z],
         \A x, y \in S : x = y \/ x \in B[y] \/ y \in B[x]
  PROVE  /\ Enumerates(Ordering(S, B), S)
         /\ \A i, j \in 1..Len(Ordering(S, B)) : i < j => Ordering(S, B)[i] \in B[Ordering(S, B)[j]]
<1> DEFINE o == Ordering(S, B)
<1>1. TotalOrder(B, S)
  BY TotalFrom
<1>2. o = Ordering(S, B)
  OBVIOUS
<1> HIDE DEF o
<1>3. Enumerates(o, S) /\ Ascends(o, B)
  BY <1>1, <1>2, OrderingFacts
<1> QED
  BY <1>3 DEF o, Ascends

LEMMA KeysListed ==
  ASSUME NEW K, K \subseteq Seq(Nat), IsFiniteSet(K)
  PROVE  /\ Enumerates(InOrder(K, Before), K)
         /\ \A i, j \in 1..Len(InOrder(K, Before)) :
              i < j => Before(InOrder(K, Before)[i], InOrder(K, Before)[j])
<1> DEFINE B == Below(K, Before)
           o == Ordering(K, B)
<1>1. InOrder(K, Before) = o
  BY DEF InOrder, Below
<1>2. B \in [K -> SUBSET K] /\ \A x, y \in K : y \in B[x] <=> Before(y, x)
  BY DEF Below
<1> HIDE DEF B
<1>3. \A x \in K : x \notin B[x]
  BY <1>2, BeforeIrreflexive
<1>4. \A x, y, z \in K : x \in B[y] /\ y \in B[z] => x \in B[z]
  BY <1>2, BeforeTransitive
<1>5. \A x, y \in K : x = y \/ x \in B[y] \/ y \in B[x]
  BY <1>2, BeforeTotal
<1>6. Enumerates(o, K) /\ \A i, j \in 1..Len(o) : i < j => o[i] \in B[o[j]]
  BY <1>2, <1>3, <1>4, <1>5, Listed
<1> HIDE DEF o
<1>7. \A i \in 1..Len(o) : o[i] \in K
  BY <1>6, EnumeratesCounts
<1>8. \A i, j \in 1..Len(o) : i < j => Before(o[i], o[j])
  BY <1>2, <1>6, <1>7
<1> QED
  BY <1>1, <1>6, <1>8

LEMMA FreqListed ==
  ASSUME NEW S, IsFiniteSet(S), \A x \in S : x.freq \in Nat /\ x.text \in Nat,
         \A x, y \in S : x.text = y.text => x = y
  PROVE  /\ Enumerates(InOrder(S, ByFreq), S)
         /\ \A i, j \in 1..Len(InOrder(S, ByFreq)) :
              i < j => ByFreq(InOrder(S, ByFreq)[i], InOrder(S, ByFreq)[j])
<1> DEFINE B == Below(S, ByFreq)
           o == Ordering(S, B)
<1>1. InOrder(S, ByFreq) = o
  BY DEF InOrder, Below
<1>2. B \in [S -> SUBSET S] /\ \A x, y \in S : y \in B[x] <=> ByFreq(y, x)
  BY DEF Below
<1> HIDE DEF B
<1>3. \A x \in S : x \notin B[x]
  BY <1>2 DEF ByFreq
<1>4. \A x, y, z \in S : ByFreq(x, y) /\ ByFreq(y, z) => ByFreq(x, z)
  BY DEF ByFreq
<1>5. \A x, y, z \in S : x \in B[y] /\ y \in B[z] => x \in B[z]
  BY <1>2, <1>4
<1>6. \A x, y \in S : x = y \/ ByFreq(x, y) \/ ByFreq(y, x)
  BY DEF ByFreq
<1>7. \A x, y \in S : x = y \/ x \in B[y] \/ y \in B[x]
  BY <1>2, <1>6
<1>8. Enumerates(o, S) /\ \A i, j \in 1..Len(o) : i < j => o[i] \in B[o[j]]
  BY <1>2, <1>3, <1>5, <1>7, Listed
<1> HIDE DEF o
<1>9. \A i \in 1..Len(o) : o[i] \in S
  BY <1>8, EnumeratesCounts
<1>10. \A i, j \in 1..Len(o) : i < j => ByFreq(o[i], o[j])
  BY <1>2, <1>8, <1>9
<1> QED
  BY <1>1, <1>8, <1>10

HotType == [text : Nat, freq : Nat, key : Nat]

ByFreqKey(a, b) == ByFreq(a, b) \/ (a.freq = b.freq /\ a.text = b.text /\ a.key < b.key)

LEMMA HotListed ==
  ASSUME NEW S, IsFiniteSet(S), S \subseteq HotType
  PROVE  /\ Enumerates(InOrder(S, ByFreqKey), S)
         /\ \A i, j \in 1..Len(InOrder(S, ByFreqKey)) :
              i < j => ByFreqKey(InOrder(S, ByFreqKey)[i], InOrder(S, ByFreqKey)[j])
<1> DEFINE B == Below(S, ByFreqKey)
           o == Ordering(S, B)
<1>1. InOrder(S, ByFreqKey) = o
  BY DEF InOrder, Below
<1>2. B \in [S -> SUBSET S] /\ \A x, y \in S : y \in B[x] <=> ByFreqKey(y, x)
  BY DEF Below
<1> HIDE DEF B
<1>3. /\ \A x \in S : x.freq \in Nat /\ x.text \in Nat /\ x.key \in Nat
      /\ \A x, y \in S : x.freq = y.freq /\ x.text = y.text /\ x.key = y.key => x = y
  BY DEF HotType
<1>4. \A x \in S : x \notin B[x]
  BY <1>2, <1>3 DEF ByFreq, ByFreqKey
<1>5. \A x, y, z \in S : ByFreqKey(x, y) /\ ByFreqKey(y, z) => ByFreqKey(x, z)
  BY <1>3 DEF ByFreq, ByFreqKey
<1>6. \A x, y, z \in S : x \in B[y] /\ y \in B[z] => x \in B[z]
  BY <1>2, <1>5
<1>7. \A x, y \in S : x = y \/ ByFreqKey(x, y) \/ ByFreqKey(y, x)
  BY <1>3 DEF ByFreq, ByFreqKey
<1>8. \A x, y \in S : x = y \/ x \in B[y] \/ y \in B[x]
  BY <1>2, <1>7
<1>9. Enumerates(o, S) /\ \A i, j \in 1..Len(o) : i < j => o[i] \in B[o[j]]
  BY <1>2, <1>4, <1>6, <1>8, Listed
<1> HIDE DEF o
<1>10. \A i \in 1..Len(o) : o[i] \in S
  BY <1>9, EnumeratesCounts
<1>11. \A i, j \in 1..Len(o) : i < j => ByFreqKey(o[i], o[j])
  BY <1>2, <1>9, <1>10
<1> QED
  BY <1>1, <1>9, <1>11

Readings(rows) == {r.pinyin : r \in rows}

TextsOf(rows, key) ==
  {[text |-> r.text, freq |-> r.freq] : r \in {x \in rows : x.pinyin = key}}

Syllables(rows) ==
  UNION {{SubSeq(FirstSegment(k), 1, n) : n \in 1..Len(FirstSegment(k))} : k \in Readings(rows)}

(* The entries under the beginning of a syllable.                          *)
HotSet(b, p) ==
  {x \in HotType :
     /\ x.key \in DOMAIN b.keys /\ IsPrefix(p, FirstSegment(b.keys[x.key]))
     /\ [text |-> x.text, freq |-> x.freq] \in ToSet(b.blocks[x.key])}

RowsFine(rows) == rows \subseteq RowType /\ IsFiniteSet(rows) /\ Unique(rows)

KeysOK(b, rows) ==
  /\ Enumerates(b.keys, Readings(rows))
  /\ \A i, j \in 1..Len(b.keys) : i < j => Before(b.keys[i], b.keys[j])

BlocksOK(b, rows) ==
  /\ DOMAIN b.blocks = 1..Len(b.keys)
  /\ \A k \in 1..Len(b.keys) :
       /\ Enumerates(b.blocks[k], TextsOf(rows, b.keys[k]))
       /\ \A i, j \in 1..Len(b.blocks[k]) : i < j => ByFreq(b.blocks[k][i], b.blocks[k][j])

TopOK(b, rows) ==
  /\ DOMAIN b.topk = Syllables(rows)
  /\ \A p \in DOMAIN b.topk :
       \E all : /\ Enumerates(all, HotSet(b, p))
                /\ \A i, j \in 1..Len(all) : i < j => ByFreqKey(all[i], all[j])
                /\ b.topk[p] = Take(all, TopK)

BuiltOK(b, rows) ==
  /\ KeysOK(b, rows) /\ BlocksOK(b, rows) /\ TopOK(b, rows)
  /\ Enumerates(b.abbrevs, 1..Len(b.keys))

LEMMA ReadingsFacts ==
  ASSUME NEW rows, RowsFine(rows)
  PROVE  Readings(rows) \subseteq Seq(Nat) /\ IsFiniteSet(Readings(rows))
<1> DEFINE f == [r \in rows |-> r.pinyin]
           K == Readings(rows)
<1>1. \A r \in rows : r.pinyin \in Seq(Nat)
  BY DEF RowsFine, RowType
<1>2. f \in Surjection(rows, K)
  BY DEF Readings, Surjection
<1> HIDE DEF f, K
<1>3. IsFiniteSet(K)
  BY <1>2, FS_Surjection DEF RowsFine
<1> QED
  BY <1>1, <1>3 DEF Readings, K

LEMMA TextsOfFacts ==
  ASSUME NEW rows, RowsFine(rows), NEW key
  PROVE  /\ IsFiniteSet(TextsOf(rows, key))
         /\ TextsOf(rows, key) \subseteq [text : Nat, freq : Nat]
         /\ \A x \in TextsOf(rows, key) : x.freq \in Nat /\ x.text \in Nat
         /\ \A x, y \in TextsOf(rows, key) : x.text = y.text => x = y
<1> DEFINE R == {x \in rows : x.pinyin = key}
           f == [r \in R |-> [text |-> r.text, freq |-> r.freq]]
           T == TextsOf(rows, key)
<1>1. R \in SUBSET rows /\ IsFiniteSet(R)
  BY FS_Subset DEF RowsFine
<1>2. f \in Surjection(R, T)
  BY DEF TextsOf, Surjection
<1>3. \A x \in T : \E r \in R : x = [text |-> r.text, freq |-> r.freq]
  BY DEF TextsOf
<1>4. \A r \in R : r.text \in Nat /\ r.freq \in Nat /\ r \in rows /\ r.pinyin = key
  BY DEF RowsFine, RowType
<1> HIDE DEF f, T, R
<1>5. IsFiniteSet(T)
  BY <1>1, <1>2, FS_Surjection
<1>6. \A x \in T : x \in [text : Nat, freq : Nat] /\ x.freq \in Nat /\ x.text \in Nat
  BY <1>3, <1>4
<1>7. ASSUME NEW x \in T, NEW y \in T, x.text = y.text PROVE x = y
  <2>1. PICK r \in R : x = [text |-> r.text, freq |-> r.freq]
    BY <1>3
  <2>2. PICK s \in R : y = [text |-> s.text, freq |-> s.freq]
    BY <1>3
  <2>3. r \in rows /\ s \in rows /\ r.text = s.text /\ r.pinyin = s.pinyin
    BY <1>4, <1>7, <2>1, <2>2
  <2>4. r = s
    BY <2>3 DEF RowsFine, Unique, Word
  <2> QED
    BY <2>1, <2>2, <2>4
<1> QED
  BY <1>5, <1>6, <1>7 DEF T

LEMMA HotSetFinite ==
  ASSUME NEW rows, RowsFine(rows), NEW b, KeysOK(b, rows), BlocksOK(b, rows), NEW p
  PROVE  IsFiniteSet(HotSet(b, p)) /\ HotSet(b, p) \subseteq HotType
<1> DEFINE H == HotSet(b, p)
           U == rows \X (1..Len(b.keys))
           f == [u \in U |-> [text |-> u[1].text, freq |-> u[1].freq, key |-> u[2]]]
           I == {f[u] : u \in U}
<1>1. Enumerates(b.keys, Readings(rows))
  BY DEF KeysOK
<1>2. Len(b.keys) \in Nat /\ DOMAIN b.keys = 1..Len(b.keys)
  BY <1>1, EnumeratesCounts
<1>3. IsFiniteSet(U)
  <2>1. IsFiniteSet(1..Len(b.keys)) /\ IsFiniteSet(rows)
    BY <1>2, FS_Interval DEF RowsFine
  <2> QED
    BY <2>1, FS_Product
<1>4. IsFiniteSet(I)
  <2>1. f \in Surjection(U, I)
    BY DEF Surjection
  <2> HIDE DEF f, I, U
  <2> QED
    BY <1>3, <2>1, FS_Surjection
<1>5. ASSUME NEW x \in H PROVE x \in I
  <2>1. /\ x \in HotType /\ x.key \in 1..Len(b.keys)
        /\ [text |-> x.text, freq |-> x.freq] \in ToSet(b.blocks[x.key])
    BY <1>2 DEF HotSet
  <2>2. Enumerates(b.blocks[x.key], TextsOf(rows, b.keys[x.key]))
    BY <2>1 DEF BlocksOK
  <2>3. [text |-> x.text, freq |-> x.freq] \in TextsOf(rows, b.keys[x.key])
    BY <2>1, <2>2, EnumeratesCounts DEF ToSet
  <2>4. PICK r \in rows : [text |-> x.text, freq |-> x.freq] = [text |-> r.text, freq |-> r.freq]
    BY <2>3 DEF TextsOf
  <2>5. x.text = r.text /\ x.freq = r.freq
    BY <2>4
  <2>6. x = [text |-> r.text, freq |-> r.freq, key |-> x.key]
    BY <2>1, <2>5 DEF HotType
  <2>7. <<r, x.key>> \in U /\ f[<<r, x.key>>] = [text |-> r.text, freq |-> r.freq, key |-> x.key]
    BY <2>1
  <2> HIDE DEF f, U
  <2> QED
    BY <2>6, <2>7
<1>6. H \in SUBSET I
  BY <1>5
<1> HIDE DEF I
<1> QED
  BY <1>4, <1>6, FS_Subset DEF HotSet

LEMMA BuiltFacts ==
  ASSUME NEW rows, RowsFine(rows)
  PROVE  BuiltOK(Built(rows), rows)
<1> DEFINE b == Built(rows)
           keys == InOrder(Readings(rows), Before)
           blocks == [i \in DOMAIN keys |-> InOrder(TextsOf(rows, keys[i]), ByFreq)]
           Under(p) == UNION {{[text |-> x.text, freq |-> x.freq, key |-> i] : x \in ToSet(blocks[i])} :
                              i \in {j \in DOMAIN keys : IsPrefix(p, FirstSegment(keys[j]))}}
           ByAbbrev(i, j) ==
             LET a == AbbrevOf(keys[i])
                 c == AbbrevOf(keys[j])
             IN  Before(a, c) \/ (a = c /\ i < j)
<1>1. /\ b.keys = keys /\ b.blocks = blocks
      /\ b.topk = [p \in Syllables(rows) |-> Take(InOrder(Under(p), ByFreqKey), TopK)]
      /\ b.abbrevs = InOrder(DOMAIN keys, ByAbbrev)
  BY DEF Built, Readings, TextsOf, Syllables, ByFreqKey
<1>2. Readings(rows) \subseteq Seq(Nat) /\ IsFiniteSet(Readings(rows))
  BY ReadingsFacts
<1>3. /\ Enumerates(keys, Readings(rows))
      /\ \A i, j \in 1..Len(keys) : i < j => Before(keys[i], keys[j])
  BY <1>2, KeysListed
<1>4. /\ Len(keys) \in Nat /\ DOMAIN keys = 1..Len(keys)
      /\ \A i \in 1..Len(keys) : keys[i] \in Seq(Nat)
  BY <1>2, <1>3, EnumeratesCounts
<1> HIDE DEF b, keys
<1>5. KeysOK(b, rows)
  BY <1>1, <1>3 DEF KeysOK
<1>6. ASSUME NEW k \in 1..Len(keys)
      PROVE  /\ Enumerates(blocks[k], TextsOf(rows, keys[k]))
             /\ \A i, j \in 1..Len(blocks[k]) : i < j => ByFreq(blocks[k][i], blocks[k][j])
  <2>1. blocks[k] = InOrder(TextsOf(rows, keys[k]), ByFreq)
    BY <1>4
  <2> DEFINE T == TextsOf(rows, keys[k])
  <2>2. /\ IsFiniteSet(T) /\ \A x \in T : x.freq \in Nat /\ x.text \in Nat
        /\ \A x, y \in T : x.text = y.text => x = y
    BY TextsOfFacts
  <2> HIDE DEF T, blocks
  <2>3. /\ Enumerates(InOrder(T, ByFreq), T)
        /\ \A i, j \in 1..Len(InOrder(T, ByFreq)) :
             i < j => ByFreq(InOrder(T, ByFreq)[i], InOrder(T, ByFreq)[j])
    BY <2>2, FreqListed
  <2> QED
    BY <2>1, <2>3 DEF T
<1>7. DOMAIN blocks = 1..Len(keys)
  BY <1>4
<1>8. BlocksOK(b, rows)
  <2> HIDE DEF blocks
  <2> QED
    BY <1>1, <1>6, <1>7 DEF BlocksOK
<1>9. ASSUME NEW p PROVE Under(p) = HotSet(b, p)
  <2>1. ASSUME NEW i \in 1..Len(keys)
        PROVE  ToSet(blocks[i]) = TextsOf(rows, keys[i]) /\ ToSet(blocks[i]) \subseteq [text : Nat, freq : Nat]
    <3>1. Enumerates(blocks[i], TextsOf(rows, keys[i]))
      BY <1>6
    <3>2. TextsOf(rows, keys[i]) \subseteq [text : Nat, freq : Nat]
      BY TextsOfFacts
    <3> HIDE DEF blocks
    <3> DEFINE s == blocks[i]
               T == TextsOf(rows, keys[i])
    <3> HIDE DEF s, T
    <3>3. DOMAIN s = 1..Len(s) /\ (\A m \in 1..Len(s) : s[m] \in T) /\ \A x \in T : \E m \in 1..Len(s) : s[m] = x
      BY <3>1, EnumeratesCounts DEF Enumerates, s, T
    <3>4. ToSet(s) = T
      BY <3>3 DEF ToSet
    <3> QED
      BY <3>2, <3>4 DEF s, T
  <2> HIDE DEF blocks
  <2>2. ASSUME NEW y \in Under(p) PROVE y \in HotSet(b, p)
    <3>1. PICK i \in DOMAIN keys : /\ IsPrefix(p, FirstSegment(keys[i]))
                                   /\ \E x \in ToSet(blocks[i]) : y = [text |-> x.text, freq |-> x.freq, key |-> i]
      BY <2>2
    <3>2. PICK x \in ToSet(blocks[i]) : y = [text |-> x.text, freq |-> x.freq, key |-> i]
      BY <3>1
    <3>3. i \in 1..Len(keys) /\ i \in Nat /\ x \in [text : Nat, freq : Nat]
      BY <1>4, <2>1, <3>1, <3>2
    <3>4. y.text = x.text /\ y.freq = x.freq /\ y.key = i
      BY <3>2
    <3>5. y \in HotType
      BY <3>2, <3>3 DEF HotType
    <3>6. [text |-> y.text, freq |-> y.freq] = x
      BY <3>3, <3>4
    <3> QED
      BY <1>1, <3>1, <3>2, <3>4, <3>5, <3>6 DEF HotSet
  <2>3. ASSUME NEW y \in HotSet(b, p) PROVE y \in Under(p)
    <3>1. /\ y \in HotType /\ y.key \in DOMAIN keys /\ IsPrefix(p, FirstSegment(keys[y.key]))
          /\ [text |-> y.text, freq |-> y.freq] \in ToSet(blocks[y.key])
      BY <1>1, <2>3 DEF HotSet
    <3> DEFINE x == [text |-> y.text, freq |-> y.freq]
               i == y.key
    <3>2. y = [text |-> x.text, freq |-> x.freq, key |-> i]
      BY <3>1 DEF HotType
    <3> HIDE DEF x, i
    <3>3. /\ i \in {j \in DOMAIN keys : IsPrefix(p, FirstSegment(keys[j]))}
          /\ x \in ToSet(blocks[i])
      BY <3>1 DEF x, i
    <3>4. y \in {[text |-> z.text, freq |-> z.freq, key |-> i] : z \in ToSet(blocks[i])}
      BY <3>2, <3>3
    <3> QED
      BY <3>3, <3>4
  <2> HIDE DEF Under
  <2> QED
    BY <2>2, <2>3
<1>10. TopOK(b, rows)
  <2> HIDE DEF blocks
  <2>1. DOMAIN b.topk = Syllables(rows)
    BY <1>1
  <2>2. ASSUME NEW p \in DOMAIN b.topk
        PROVE  \E all : /\ Enumerates(all, HotSet(b, p))
                        /\ \A i, j \in 1..Len(all) : i < j => ByFreqKey(all[i], all[j])
                        /\ b.topk[p] = Take(all, TopK)
    <3> DEFINE H == HotSet(b, p)
               all == InOrder(H, ByFreqKey)
    <3>1. IsFiniteSet(H) /\ H \subseteq HotType
      BY <1>5, <1>8, HotSetFinite
    <3>2. b.topk[p] = Take(all, TopK)
      <4>1. Under(p) = H
        BY <1>9
      <4> HIDE DEF H, Under
      <4> QED
        BY <1>1, <2>1, <4>1
    <3> HIDE DEF H
    <3>3. Enumerates(all, H) /\ \A i, j \in 1..Len(all) : i < j => ByFreqKey(all[i], all[j])
      BY <3>1, HotListed
    <3> HIDE DEF all
    <3> QED
      BY <3>2, <3>3 DEF H
  <2> QED
    BY <2>1, <2>2 DEF TopOK
<1>11. Enumerates(b.abbrevs, 1..Len(keys))
  <2> DEFINE S == 1..Len(keys)
             B == Below(S, ByAbbrev)
             a == [i \in S |-> AbbrevOf(keys[i])]
  <2>1. b.abbrevs = Ordering(S, B)
    BY <1>1, <1>4 DEF InOrder, Below
  <2>2. /\ B \in [S -> SUBSET S]
        /\ \A i, j \in S : i \in B[j] <=> (Before(a[i], a[j]) \/ (a[i] = a[j] /\ i < j))
    BY DEF Below
  <2>3. \A i \in S : a[i] \in Seq(Nat) /\ i \in Nat
    BY <1>4, AbbrevIsString
  <2>4. IsFiniteSet(S)
    BY <1>4, FS_Interval
  <2> HIDE DEF S, a, B, ByAbbrev
  <2>5. \A i \in S : i \notin B[i]
    BY <2>2, <2>3, BeforeIrreflexive
  <2>6. \A i, j, k \in S : i \in B[j] /\ j \in B[k] => i \in B[k]
    BY <2>2, <2>3, BeforeTransitive
  <2>7. \A i, j \in S : i = j \/ i \in B[j] \/ j \in B[i]
    BY <2>2, <2>3, BeforeTotal
  <2>8. Enumerates(Ordering(S, B), S)
    BY <2>2, <2>4, <2>5, <2>6, <2>7, Listed
  <2> QED
    BY <2>1, <2>8 DEF S
<1> QED
  BY <1>1, <1>5, <1>8, <1>10, <1>11 DEF BuiltOK, b

----------------------------------------------------------------------------
(* What stays true of the file and of the user's words.                    *)

Grows(old, new) ==
  \A r \in old : \E q \in new : Word(q) = Word(r) /\ q.freq >= r.freq

(* The file holds rows as they once were.                                  *)
FileInv ==
  \E rows : RowsFine(rows) /\ BuiltOK(bin, rows) /\ Grows(rows, phrase)

(* The overlay holds the user's words with the frequencies they have, in   *)
(* order of pinyin; their ranks may be old.                                *)
OverlayOK(list, rows) ==
  \E own :
    /\ own \subseteq EntryType /\ Unique(own) /\ IndexOK(list, Seq(Nat), own)
    /\ \A x \in own : x.user /\ \E r \in rows : r.user /\ Word(r) = Word(x) /\ r.freq = x.freq
    /\ \A r \in rows : r.user => \E x \in own : Word(x) = Word(r)

HomesInv == VectorsInv /\ FileInv /\ OverlayOK(overlay, phrase)

LEMMA UpsertedGrows ==
  ASSUME NEW rows, RowsFine(rows), NEW line \in Line
  PROVE  /\ Grows(rows, Upserted(rows, line))
         /\ \A r \in rows : r.user => r \in Upserted(rows, line)
         /\ \A r \in Upserted(rows, line) : r.user => r \in rows
<1> DEFINE same == {r \in rows : Word(r) = Word(line)}
           new == [pinyin |-> line.pinyin, text |-> line.text, freq |-> line.freq, user |-> FALSE]
           more == (rows \ same) \cup {new}
<1>1. CASE \E r \in same : r.user \/ r.freq >= line.freq
  <2>1. Upserted(rows, line) = rows
    BY <1>1 DEF Upserted
  <2>2. \A r \in rows : r.freq >= r.freq
    BY DEF RowsFine, RowType
  <2> QED
    BY <2>1, <2>2 DEF Grows
<1>2. CASE ~(\E r \in same : r.user \/ r.freq >= line.freq)
  <2>1. Upserted(rows, line) = more
    BY <1>2 DEF Upserted
  <2>2. new.freq = line.freq /\ Word(new) = Word(line) /\ ~new.user /\ new.freq \in Nat
    BY DEF Line, Word
  <2>3. \A r \in same : ~r.user /\ ~(r.freq >= new.freq) /\ r.freq \in Nat /\ Word(r) = Word(new)
    BY <1>2, <2>2 DEF RowsFine, RowType
  <2>4. \A r \in rows : r.freq \in Nat
    BY DEF RowsFine, RowType
  <2>5. \A r \in rows : r \in more \/ r \in same
    OBVIOUS
  <2>6. \A r \in more : r \in rows \/ r = new
    OBVIOUS
  <2>7. new \in more
    OBVIOUS
  <2> HIDE DEF more, same, new
  <2>8. Grows(rows, more)
    <3>1. ASSUME NEW r \in rows PROVE \E q \in more : Word(q) = Word(r) /\ q.freq >= r.freq
      <4>1. CASE r \in same
        <5>1. Word(new) = Word(r) /\ new.freq >= r.freq
          BY <2>2, <2>3, <4>1
        <5> QED
          BY <2>7, <5>1
      <4>2. CASE r \in more
        BY <2>4, <4>2
      <4> QED
        BY <2>5, <4>1, <4>2
    <3> QED
      BY <3>1 DEF Grows
  <2> QED
    BY <2>1, <2>2, <2>3, <2>5, <2>6, <2>8
<1> QED
  BY <1>1, <1>2

LEMMA PersistedRow ==
  ASSUME RowsOK(phrase, stats), NEW w \in WordType
  PROVE  \E new : /\ new \in RowType /\ Word(new) = w /\ new.user
                  /\ Persisted(w) = {r \in phrase : Word(r) # w} \cup {new}
                  /\ (CHOOSE r \in Persisted(w) : Word(r) = w) = new
                  /\ \A r \in phrase : Word(r) = w => new.freq = r.freq + 1
<1> DEFINE same == {r \in phrase : Word(r) = w}
           freq == IF same = {} THEN 0 ELSE (CHOOSE r \in same : TRUE).freq
           new == [pinyin |-> w.pinyin, text |-> w.text, freq |-> freq + 1, user |-> TRUE]
<1>1. freq \in Nat
  <2>1. \A r \in same : r.freq \in Nat
    BY DEF RowsOK, RowType
  <2> HIDE DEF same
  <2> QED
    BY <2>1
<1>2. ASSUME NEW r \in phrase, Word(r) = w PROVE freq = r.freq
  <2>1. r \in same
    BY <1>2
  <2>2. \A q \in same : q = r
    BY <1>2 DEF RowsOK, Unique
  <2> HIDE DEF same
  <2>3. (CHOOSE q \in same : TRUE) = r
    BY <2>1, <2>2
  <2> QED
    BY <2>1, <2>3
<1> HIDE DEF freq
<1>3. /\ new \in RowType /\ Word(new) = w /\ new.user /\ new.freq = freq + 1
  BY <1>1 DEF WordType, RowType, Word
<1>4. Persisted(w) = (phrase \ same) \cup {new}
  BY DEF Persisted, freq
<1> HIDE DEF new
<1>5. Persisted(w) = {r \in phrase : Word(r) # w} \cup {new}
  BY <1>4
<1>6. (CHOOSE r \in Persisted(w) : Word(r) = w) = new
  BY <1>3, <1>5
<1> QED
  BY <1>2, <1>3, <1>5, <1>6

LEMMA OpenedOverlayOK ==
  ASSUME NEW rows, NEW uses, RowsOK(rows, uses)
  PROVE  OverlayOK(OverlayOf(rows, uses), rows)
<1> DEFINE U == {r \in rows : r.user}
           own == EntrySet(U, uses)
<1>1. RowsOK(U, uses)
  <2>1. IsFiniteSet(U)
    <3>1. U \in SUBSET rows
      OBVIOUS
    <3> QED
      BY <3>1, FS_Subset DEF RowsOK
  <2> QED
    BY <2>1 DEF RowsOK, Unique
<1>2. U \subseteq RowType /\ (\A w \in DOMAIN uses : uses[w] \in Nat) /\ U \subseteq rows /\ \A r \in U : r.user
  BY DEF RowsOK
<1> HIDE DEF U
<1>3. own \subseteq EntryType /\ Unique(own) /\ IndexOK(Entries(U, uses), ReadingsUsed(uses), own)
  BY <1>1, EntrySetFacts, EntriesIndexed
<1>4. \A r \in U : /\ Entry(r, uses) \in own /\ Word(Entry(r, uses)) = Word(r)
                   /\ Entry(r, uses).freq = r.freq /\ Entry(r, uses).user
  BY <1>2, EntryFacts DEF EntrySet
<1>5. \A x \in own : \E r \in U : x = Entry(r, uses)
  BY DEF EntrySet
<1> HIDE DEF own
<1>6. \A x \in own : x.pinyin \in Seq(Nat)
  BY <1>3 DEF EntryType
<1>7. IndexOK(Entries(U, uses), Seq(Nat), own)
  BY <1>3, <1>6, FewerExcepted
<1>8. OverlayOf(rows, uses) = Entries(U, uses)
  BY DEF OverlayOf, U
<1>9. \A x \in own : x.user /\ \E r \in rows : r.user /\ Word(r) = Word(x) /\ r.freq = x.freq
  BY <1>2, <1>4, <1>5
<1>10. \A r \in rows : r.user => \E x \in own : Word(x) = Word(r)
  BY <1>4 DEF U
<1> QED
  BY <1>3, <1>7, <1>8, <1>9, <1>10 DEF OverlayOK

LEMMA LearnOverlayOK ==
  ASSUME HomesInv, NEW w \in WordType, LearnOverlay(w, Counted(w))
  PROVE  OverlayOK(overlay', Persisted(w))
<1>1. RowsOK(phrase, stats)
  BY DEF HomesInv, VectorsInv
<1>2. PICK row : /\ row \in RowType /\ Word(row) = w /\ row.user
                 /\ Persisted(w) = {r \in phrase : Word(r) # w} \cup {row}
                 /\ (CHOOSE r \in Persisted(w) : Word(r) = w) = row
                 /\ \A r \in phrase : Word(r) = w => row.freq = r.freq + 1
  BY <1>1, PersistedRow
<1>3. PICK own :
        /\ own \subseteq EntryType /\ Unique(own) /\ IndexOK(overlay, Seq(Nat), own)
        /\ \A x \in own : x.user /\ \E r \in phrase : r.user /\ Word(r) = Word(x) /\ r.freq = x.freq
        /\ \A r \in phrase : r.user => \E x \in own : Word(x) = Word(r)
  BY DEF HomesInv, OverlayOK
<1>4. /\ Enumerates(overlay, own) /\ DOMAIN overlay = 1..Len(overlay)
      /\ \A i \in 1..Len(overlay) : overlay[i] \in own
      /\ \A x \in own : \E i \in 1..Len(overlay) : overlay[i] = x
  <2>1. Enumerates(overlay, own)
    BY <1>3 DEF IndexOK
  <2> QED
    BY <2>1, EnumeratesCounts DEF Enumerates
<1> DEFINE there == \E i \in DOMAIN overlay : Word(overlay[i]) = w
<1>5. w.pinyin \in Seq(Nat) /\ row.pinyin = w.pinyin
  BY <1>2 DEF WordType, Word
<1>6. ASSUME NEW new \in EntryType, Word(new) = w, new.user, new.freq = row.freq,
             IndexOK(overlay', Seq(Nat) \cup {w.pinyin}, Replaced(own, new))
      PROVE  OverlayOK(overlay', Persisted(w))
  <2> DEFINE own2 == Replaced(own, new)
  <2>1. own2 \subseteq EntryType /\ Unique(own2)
    BY <1>3, <1>6 DEF Replaced, Unique
  <2>2. Seq(Nat) \cup {w.pinyin} = Seq(Nat)
    BY <1>5
  <2>3. ASSUME NEW x \in own2
        PROVE  x.user /\ \E r \in Persisted(w) : r.user /\ Word(r) = Word(x) /\ r.freq = x.freq
    <3>1. CASE x = new
      BY <1>2, <1>6, <3>1
    <3>2. CASE x \in own /\ Word(x) # w
      <4>1. PICK r \in phrase : r.user /\ Word(r) = Word(x) /\ r.freq = x.freq
        BY <1>3, <3>2
      <4> QED
        BY <1>2, <1>3, <3>2, <4>1
    <3> QED
      BY <1>6, <3>1, <3>2 DEF Replaced
  <2>4. ASSUME NEW r \in Persisted(w), r.user PROVE \E x \in own2 : Word(x) = Word(r)
    <3>1. CASE Word(r) = w
      BY <1>6, <3>1 DEF Replaced
    <3>2. CASE Word(r) # w
      <4>1. r \in phrase
        BY <1>2, <3>2
      <4>2. PICK x \in own : Word(x) = Word(r)
        BY <1>3, <2>4, <4>1
      <4> QED
        BY <1>6, <3>2, <4>2 DEF Replaced
    <3> QED
      BY <3>1, <3>2
  <2> HIDE DEF own2
  <2> QED
    <3>1. IndexOK(overlay', Seq(Nat), own2)
      BY <1>6, <2>2 DEF own2
    <3> QED
      BY <2>1, <2>3, <2>4, <3>1, Zenon DEF OverlayOK
<1>7. CASE there
  <2>1. PICK i \in 1..Len(overlay) : Word(overlay[i]) = w
    BY <1>4, <1>7
  <2> DEFINE old == overlay[i]
             new == [old EXCEPT !.freq = @ + 1]
  <2>2. old \in own /\ old \in EntryType /\ old.user
    BY <1>3, <1>4
  <2>3. PICK r \in phrase : r.user /\ Word(r) = Word(old) /\ r.freq = old.freq
    BY <1>3, <2>2
  <2>4. row.freq = old.freq + 1
    BY <1>2, <2>1, <2>3
  <2>5. new \in EntryType /\ new.user /\ new.freq = row.freq /\ Word(new) = w
    <3>1. old.freq + 1 \in Nat
      BY <2>2 DEF EntryType
    <3>2. new \in EntryType
      BY <2>2, <3>1 DEF EntryType
    <3>3. new.user = old.user /\ new.freq = old.freq + 1
      BY <2>2 DEF EntryType
    <3>4. new.pinyin = old.pinyin /\ new.text = old.text
      BY <2>2 DEF EntryType
    <3>5. Word(new) = Word(old)
      BY <3>4 DEF Word
    <3> HIDE DEF new
    <3> QED
      BY <2>1, <2>2, <2>4, <3>2, <3>3, <3>5
  <2>6. \A j \in 1..Len(overlay) : Word(overlay[j]) = w => overlay[j] = old
    BY <1>3, <1>4, <2>1, <2>2 DEF Unique
  <2>7. overlay' = [j \in DOMAIN overlay |->
                      IF Word(overlay[j]) = w THEN [overlay[j] EXCEPT !.freq = @ + 1]
                      ELSE overlay[j]]
    BY <1>7 DEF LearnOverlay
  <2>8. \A j \in DOMAIN overlay : (IF Word(overlay[j]) = w THEN [overlay[j] EXCEPT !.freq = @ + 1] ELSE overlay[j])
                                   = IF Word(overlay[j]) = Word(new) THEN new ELSE overlay[j]
    BY <1>4, <2>5, <2>6
  <2> HIDE DEF new
  <2>9. overlay' = With(overlay, new)
    BY <2>7, <2>8 DEF With
  <2>10. new.pinyin = w.pinyin
    BY <2>5 DEF Word
  <2>11. i \in DOMAIN overlay /\ Word(overlay[i]) = Word(new)
    BY <1>4, <2>1, <2>5
  <2>12. IndexOK(With(overlay, new), Seq(Nat) \cup {new.pinyin}, Replaced(own, new))
    BY <1>3, <2>11, WithIndexed
  <2> QED
    BY <1>6, <2>5, <2>9, <2>10, <2>12
<1>8. CASE ~there
  <2> DEFINE new == NewEntry(w)
  <2>1. new = Entry(row, Counted(w))
    BY <1>2 DEF NewEntry
  <2>2. \A x \in DOMAIN Counted(w) : Counted(w)[x] \in Nat
    BY <1>1, PersistedOK DEF RowsOK
  <2>3. new \in EntryType /\ Word(new) = w /\ new.user /\ new.freq = row.freq /\ new.pinyin = w.pinyin
    <3> DEFINE uses == Counted(w)
    <3>1. \A x \in DOMAIN uses : uses[x] \in Nat
      BY <2>2
    <3>2. row \in RowType /\ new = Entry(row, uses)
      BY <1>2, <2>1
    <3> HIDE DEF uses, new
    <3>3. /\ Entry(row, uses) \in EntryType /\ Word(Entry(row, uses)) = Word(row)
          /\ Entry(row, uses).pinyin = row.pinyin
          /\ Entry(row, uses).freq = row.freq /\ Entry(row, uses).user = row.user
      BY <3>1, <3>2, EntryFacts
    <3> QED
      BY <1>2, <1>5, <3>2, <3>3
  <2>4. overlay' = InsertAt(overlay, Position(overlay, w.pinyin) + 1, new)
    <3>1. overlay' = InsertOverlay(Entry(CHOOSE r \in Persisted(w) : Word(r) = w, Counted(w)))
      BY <1>8 DEF LearnOverlay
    <3>2. overlay' = InsertOverlay(new)
      BY <3>1 DEF NewEntry
    <3> HIDE DEF new
    <3> QED
      BY <2>3, <3>2 DEF InsertOverlay, Position
  <2> HIDE DEF new
  <2>5. \A x \in own : Word(x) # w
    BY <1>4, <1>8
  <2>6. new \notin own /\ Replaced(own, new) = own \cup {new}
    BY <2>3, <2>5 DEF Replaced
  <2>7. \A x \in own : x.pinyin \in Seq(Nat)
    BY <1>3 DEF EntryType
  <2>8. IndexOK(InsertAt(overlay, Position(overlay, new.pinyin) + 1, new),
                Seq(Nat) \cup {new.pinyin}, own \cup {new})
    BY <1>3, <1>5, <2>3, <2>6, <2>7, InsertIndexed
  <2> QED
    BY <1>6, <2>3, <2>4, <2>6, <2>8
<1> QED
  BY <1>7, <1>8

LEMMA HomesInitially ==
  ASSUME Init
  PROVE  HomesInv
<1>1. VectorsInv
  BY VectorsInitially
<1>2. RowsFine(phrase) /\ \A r \in phrase : r.freq \in Nat
  BY <1>1 DEF VectorsInv, RowsOK, RowsFine, RowType
<1>3. bin = Built(phrase) /\ overlay = <<>> /\ DOMAIN stats = {}
  BY DEF Init
<1>4. FileInv
  <2>1. Grows(phrase, phrase)
    BY <1>2 DEF Grows
  <2> QED
    BY <1>2, <1>3, <2>1, BuiltFacts DEF FileInv
<1>5. \A r \in phrase : ~r.user
  BY <1>1, <1>3 DEF VectorsInv, RowsOK
<1>6. OverlayOK(overlay, phrase)
  <2>1. IndexOK(<<>>, Seq(Nat), {})
    BY DEF IndexOK, Enumerates, ByReading, Ranked
  <2>2. Unique({})
    BY DEF Unique
  <2> QED
    BY <1>3, <1>5, <2>1, <2>2 DEF OverlayOK
<1> QED
  BY <1>1, <1>4, <1>6 DEF HomesInv

LEMMA HomesKept ==
  ASSUME HomesInv, [Next]_vars
  PROVE  HomesInv'
<1>1. VectorsInv /\ VectorsInv'
  BY VectorsKept DEF HomesInv
<1>2. /\ RowsOK(phrase, stats) /\ RowsOK(phrase', stats')
      /\ RowsFine(phrase) /\ RowsFine(phrase')
  BY <1>1 DEF VectorsInv, RowsOK, RowsFine
<1>3. PICK rows : RowsFine(rows) /\ BuiltOK(bin, rows) /\ Grows(rows, phrase)
  BY DEF HomesInv, FileInv
<1>4. ASSUME bin' = bin, Grows(phrase, phrase') PROVE FileInv'
  <2>1. Grows(rows, phrase')
    <3>1. ASSUME NEW r \in rows PROVE \E q \in phrase' : Word(q) = Word(r) /\ q.freq >= r.freq
      <4>1. PICK p \in phrase : Word(p) = Word(r) /\ p.freq >= r.freq
        BY <1>3 DEF Grows
      <4>2. PICK q \in phrase' : Word(q) = Word(p) /\ q.freq >= p.freq
        BY <1>4 DEF Grows
      <4>3. r.freq \in Nat /\ p.freq \in Nat /\ q.freq \in Nat
        BY <1>2, <1>3 DEF RowsFine, RowType
      <4> QED
        BY <4>1, <4>2, <4>3
    <3> QED
      BY <3>1 DEF Grows
  <2> QED
    BY <1>3, <1>4, <2>1 DEF FileInv
<1>5. ASSUME Opened(phrase', stats') PROVE OverlayOK(overlay', phrase')
  <2>1. overlay' = OverlayOf(phrase', stats')
    BY <1>5 DEF Opened
  <2> QED
    BY <1>2, <2>1, OpenedOverlayOK
<1>6. Grows(phrase, phrase)
  BY <1>2 DEF Grows, RowsFine, RowType
<1>7. ASSUME NEW w \in Learnable, Learn(w) PROVE HomesInv'
  <2>1. w \in WordType
    BY DictionaryAssumption DEF WordType
  <2>2. stats' = Counted(w) /\ phrase' = Persisted(w) /\ bin' = bin
    BY <1>7 DEF Learn, Counted
  <2>3. LearnOverlay(w, Counted(w))
    BY <1>7, <2>2 DEF Learn
  <2>4. OverlayOK(overlay', phrase')
    BY <2>1, <2>2, <2>3, LearnOverlayOK
  <2>5. Grows(phrase, phrase')
    <3>1. PICK row : /\ row \in RowType /\ Word(row) = w
                     /\ Persisted(w) = {r \in phrase : Word(r) # w} \cup {row}
                     /\ \A r \in phrase : Word(r) = w => row.freq = r.freq + 1
      BY <1>2, <2>1, PersistedRow
    <3>2. ASSUME NEW r \in phrase PROVE \E q \in phrase' : Word(q) = Word(r) /\ q.freq >= r.freq
      <4>1. r.freq \in Nat
        BY <1>2 DEF RowsFine, RowType
      <4>2. CASE Word(r) = w
        <5>1. row \in phrase' /\ row.freq = r.freq + 1
          BY <2>2, <3>1, <4>2
        <5> QED
          BY <3>1, <4>1, <4>2, <5>1
      <4>3. CASE Word(r) # w
        <5>1. r \in phrase' /\ r.freq >= r.freq
          BY <2>2, <3>1, <4>1, <4>3
        <5> QED
          BY <5>1
      <4> QED
        BY <4>2, <4>3
    <3> QED
      BY <3>2 DEF Grows
  <2> QED
    BY <1>1, <1>4, <2>2, <2>4, <2>5 DEF HomesInv
<1>8. CASE Import
  <2>1. PICK line \in Later : phrase' = Upserted(phrase, line)
    BY <1>8 DEF Import
  <2>2. stats' = stats /\ bin' = bin /\ line \in Line /\ Opened(phrase', stats')
    BY <1>8, DictionaryAssumption DEF Import
  <2>3. Grows(phrase, phrase')
    BY <1>2, <2>1, <2>2, UpsertedGrows
  <2> QED
    BY <1>1, <1>4, <1>5, <2>2, <2>3 DEF HomesInv
<1>9. CASE Build
  <2>1. phrase' = phrase /\ stats' = stats /\ bin' = Built(phrase) /\ Opened(phrase', stats')
    BY <1>9 DEF Build
  <2>2. FileInv'
    BY <1>2, <1>6, <2>1, BuiltFacts DEF FileInv
  <2> QED
    BY <1>1, <1>5, <2>1, <2>2 DEF HomesInv
<1>10. CASE Reopen
  <2>1. phrase' = phrase /\ bin' = bin /\ Opened(phrase', stats')
    BY <1>10 DEF Reopen
  <2> QED
    BY <1>1, <1>4, <1>5, <1>6, <2>1 DEF HomesInv
<1>11. CASE UNCHANGED vars
  <2>1. overlay' = overlay /\ phrase' = phrase /\ bin' = bin
    BY <1>11 DEF vars
  <2>2. OverlayOK(overlay', phrase')
    BY <2>1 DEF HomesInv
  <2> QED
    BY <1>1, <1>4, <1>6, <2>1, <2>2 DEF HomesInv
<1> QED
  BY <1>7, <1>8, <1>9, <1>10, <1>11 DEF Next

(* The homes of the words stay in agreement: what stays true of the file   *)
(* and of the user's words.                                                *)
THEOREM HomesCurrent == Spec => []HomesInv
<1>1. Init => HomesInv
  BY HomesInitially
<1>2. HomesInv /\ [Next]_vars => HomesInv'
  BY HomesKept
<1> QED
  BY <1>1, <1>2, PTL DEF Spec

----------------------------------------------------------------------------
(* The layers over the file.                                               *)

GoingOn(key) == {c \in CandidateType : c.pinyin # key /\ IsPrefix(key, c.pinyin)}

LEMMA PrefixTransitive ==
  ASSUME NEW p \in Seq(Nat), NEW q \in Seq(Nat), NEW k \in Seq(Nat), IsPrefix(p, q), IsPrefix(q, k)
  PROVE  IsPrefix(p, k)
<1>1. /\ Len(p) <= Len(q) /\ \A i \in 1..Len(p) : q[i] = p[i]
      /\ Len(q) <= Len(k) /\ \A i \in 1..Len(q) : k[i] = q[i]
  BY PrefixMeans
<1>2. Len(p) \in Nat /\ Len(q) \in Nat /\ Len(k) \in Nat
  OBVIOUS
<1>3. Len(p) <= Len(k) /\ \A i \in 1..Len(p) : k[i] = p[i]
  <2>1. \A i \in 1..Len(p) : i \in 1..Len(q)
    BY <1>1, <1>2
  <2> QED
    BY <1>1, <1>2, <2>1
<1> QED
  BY <1>3, PrefixMeans

LEMMA KeyFacts ==
  ASSUME NEW rows, RowsFine(rows), BuiltOK(bin, rows)
  PROVE  /\ Len(bin.keys) \in Nat /\ DOMAIN bin.keys = 1..Len(bin.keys)
         /\ \A i \in 1..Len(bin.keys) : bin.keys[i] \in Seq(Nat) /\ bin.keys[i] \in Readings(rows)
         /\ \A i, j \in 1..Len(bin.keys) : bin.keys[i] = bin.keys[j] => i = j
         /\ \A k \in Readings(rows) : \E i \in 1..Len(bin.keys) : bin.keys[i] = k
<1>1. Enumerates(bin.keys, Readings(rows))
  BY DEF BuiltOK, KeysOK
<1>2. Readings(rows) \subseteq Seq(Nat)
  BY ReadingsFacts
<1> QED
  BY <1>1, <1>2, EnumeratesCounts DEF Enumerates

LEMMA BlockFacts ==
  ASSUME NEW rows, RowsFine(rows), BuiltOK(bin, rows), NEW k \in 1..Len(bin.keys)
  PROVE  /\ bin.blocks[k] \in Seq([text : Nat, freq : Nat])
         /\ Len(bin.blocks[k]) \in Nat /\ DOMAIN bin.blocks[k] = 1..Len(bin.blocks[k])
         /\ \A i \in 1..Len(bin.blocks[k]) : bin.blocks[k][i] \in TextsOf(rows, bin.keys[k])
         /\ \A x \in TextsOf(rows, bin.keys[k]) :
              \E i \in 1..Len(bin.blocks[k]) : bin.blocks[k][i] = x
         /\ \A i, j \in 1..Len(bin.blocks[k]) : i < j => ByFreq(bin.blocks[k][i], bin.blocks[k][j])
<1> DEFINE s == bin.blocks[k]
           T == TextsOf(rows, bin.keys[k])
<1>1. Enumerates(s, T) /\ \A i, j \in 1..Len(s) : i < j => ByFreq(s[i], s[j])
  BY DEF BuiltOK, BlocksOK
<1>2. T \subseteq [text : Nat, freq : Nat]
  BY TextsOfFacts
<1> HIDE DEF s, T
<1>3. /\ Len(s) \in Nat /\ DOMAIN s = 1..Len(s) /\ s \in Seq(T)
      /\ (\A i \in 1..Len(s) : s[i] \in T) /\ \A x \in T : \E i \in 1..Len(s) : s[i] = x
  BY <1>1, EnumeratesCounts DEF Enumerates
<1>4. s \in Seq([text : Nat, freq : Nat])
  <2> DEFINE U == [text : Nat, freq : Nat]
  <2>1. T \subseteq U
    BY <1>2
  <2> HIDE DEF U
  <2>2. s \in Seq(U)
    BY <1>3, <2>1
  <2> QED
    BY <2>2 DEF U
<1> QED
  BY <1>1, <1>3, <1>4 DEF s, T

LEMMA StoredIs ==
  ASSUME NEW key \in Seq(Nat), NEW b, b.text \in Nat, b.freq \in Nat
  PROVE  /\ Stored(key, b) \in CandidateType /\ Stored(key, b).pinyin = key
         /\ Stored(key, b).text = b.text /\ Stored(key, b).freq = b.freq
         /\ Stored(key, b).eff = b.freq
  BY DEF Stored, CandidateType

LEMMA DecodeFacts ==
  ASSUME NEW rows, RowsFine(rows), BuiltOK(bin, rows), NEW k \in 1..Len(bin.keys), NEW limit \in Nat
  PROVE  /\ DecodeBlock(k, limit) \in Seq(Homophones(bin.keys[k]))
         /\ Len(DecodeBlock(k, limit))
              = (IF limit < Len(bin.blocks[k]) THEN limit ELSE Len(bin.blocks[k]))
         /\ \A i \in 1..Len(DecodeBlock(k, limit)) :
              /\ i \in 1..Len(bin.blocks[k])
              /\ DecodeBlock(k, limit)[i] = Stored(bin.keys[k], bin.blocks[k][i])
<1> DEFINE s == bin.blocks[k]
           key == bin.keys[k]
           t == Take(s, limit)
           d == DecodeBlock(k, limit)
           H == Homophones(key)
<1>1. s \in Seq([text : Nat, freq : Nat])
  BY BlockFacts
<1>2. key \in Seq(Nat)
  BY KeyFacts
<1>3. d = [i \in DOMAIN t |-> Stored(key, s[i])]
  BY DEF DecodeBlock
<1> HIDE DEF s, key, d
<1>4. /\ t \in Seq([text : Nat, freq : Nat])
      /\ Len(t) = (IF limit < Len(s) THEN limit ELSE Len(s))
      /\ \A i \in 1..Len(t) : i \in 1..Len(s)
  BY <1>1, TakeFacts
<1> HIDE DEF t
<1>5. Len(t) \in Nat /\ DOMAIN t = 1..Len(t)
  BY <1>4
<1>6. \A i \in 1..Len(s) : s[i].text \in Nat /\ s[i].freq \in Nat
  <2> DEFINE U == [text : Nat, freq : Nat]
  <2>1. \A u \in U : u.text \in Nat /\ u.freq \in Nat
    OBVIOUS
  <2> HIDE DEF U
  <2>2. s \in Seq(U)
    BY <1>1 DEF U
  <2>3. \A i \in 1..Len(s) : s[i] \in U
    BY <2>2
  <2> QED
    BY <2>1, <2>3
<1>7. \A i \in 1..Len(t) : Stored(key, s[i]) \in H
  BY <1>2, <1>4, <1>6, StoredIs DEF Homophones
<1> HIDE DEF H
<1>8. d \in [1..Len(t) -> H] /\ \A i \in 1..Len(t) : d[i] = Stored(key, s[i])
  BY <1>3, <1>5, <1>7
<1>9. d \in Seq(H) /\ Len(d) = Len(t)
  BY <1>5, <1>8
<1> QED
  BY <1>4, <1>8, <1>9 DEF d, H, key, s

LEMMA ExactMembers ==
  ASSUME FileInv, NEW key, NEW limit \in Nat
  PROVE  StoreExact(key, limit) \in Seq(Homophones(key))
<1>1. PICK rows : RowsFine(rows) /\ BuiltOK(bin, rows)
  BY DEF FileInv
<1>2. CASE \E i \in DOMAIN bin.keys : bin.keys[i] = key
  <2> DEFINE k == CHOOSE i \in DOMAIN bin.keys : bin.keys[i] = key
  <2>1. k \in 1..Len(bin.keys) /\ bin.keys[k] = key
    BY <1>1, <1>2, KeyFacts
  <2>2. StoreExact(key, limit) = DecodeBlock(k, limit)
    BY <1>2 DEF StoreExact
  <2> HIDE DEF k
  <2> QED
    BY <1>1, <2>1, <2>2, DecodeFacts
<1>3. CASE ~(\E i \in DOMAIN bin.keys : bin.keys[i] = key)
  <2>1. StoreExact(key, limit) = <<>>
    BY <1>3 DEF StoreExact
  <2> QED
    BY <2>1
<1> QED
  BY <1>2, <1>3

(* What a scan brings together.                                            *)
Scanned(prefix, exclude) ==
  {c \in CandidateType :
     /\ IsPrefix(prefix, c.pinyin) /\ prefix # <<>> /\ c.pinyin # exclude
     /\ \E i \in DOMAIN bin.keys : bin.keys[i] = c.pinyin}

LEMMA ScanMembers ==
  ASSUME FileInv, NEW prefix \in Seq(Nat), NEW exclude, NEW limit \in Nat \ {0}
  PROVE  ScanRange(prefix, limit, exclude) \in Seq(Scanned(prefix, exclude))
<1>1. PICK rows : RowsFine(rows) /\ BuiltOK(bin, rows)
  BY DEF FileInv
<1> DEFINE P == RangeOfKeys(prefix, exclude)
           n == Len(bin.keys)
           A == Scanned(prefix, exclude)
           w == InOrder(P, <)
<1>2. n \in Nat /\ DOMAIN bin.keys = 1..n /\ \A i \in 1..n : bin.keys[i] \in Seq(Nat)
  BY <1>1, KeyFacts
<1>3. P \in SUBSET (1..n) /\ \A i \in P : /\ IsPrefix(prefix, bin.keys[i]) /\ prefix # <<>>
                                          /\ bin.keys[i] # exclude
  <2>1. \A i \in P : /\ i \in 1..n /\ ~Before(bin.keys[i], prefix)
                     /\ Before(bin.keys[i], IncrementPrefix(prefix)) /\ bin.keys[i] # exclude
    BY <1>2 DEF RangeOfKeys
  <2> HIDE DEF P, n
  <2> QED
    BY <1>2, <2>1, PrefixRange
<1>4. \A x \in A : x.freq \in Nat /\ x.text \in Nat
  BY DEF Scanned, CandidateType
<1>5. ASSUME NEW i \in P PROVE DecodeBlock(i, limit) \in Seq(A)
  <2>1. i \in 1..Len(bin.keys) /\ limit \in Nat
    BY <1>3
  <2>2. DecodeBlock(i, limit) \in Seq(Homophones(bin.keys[i]))
    BY <1>1, <2>1, DecodeFacts
  <2>3. Homophones(bin.keys[i]) \subseteq A
    <3>1. i \in DOMAIN bin.keys
      BY <1>2, <2>1
    <3> HIDE DEF P
    <3> QED
      BY <1>3, <3>1 DEF Homophones, Scanned
  <2> HIDE DEF A
  <2> QED
    BY <2>2, <2>3
<1>6. ScanRange(prefix, limit, exclude) = Walk(w, limit)
  BY ScanIsWalk
<1> HIDE DEF P, A, n
<1>7. w \in Seq(P)
  <2>1. Enumerates(w, P)
    BY <1>2, <1>3, PositionsInOrder
  <2> QED
    BY <2>1 DEF Enumerates
<1> HIDE DEF w
<1>8. Walk(w, limit) \in Seq(A)
  BY <1>4, <1>5, <1>7, WalkMembers
<1> QED
  BY <1>6, <1>8 DEF A

LEMMA HotMembers ==
  ASSUME FileInv, NEW prefix \in DOMAIN bin.topk, prefix \in Seq(Nat), NEW limit \in Nat
  PROVE  FetchTopK(prefix, limit) \in Seq({c \in CandidateType : IsPrefix(prefix, c.pinyin)})
<1>1. PICK rows : RowsFine(rows) /\ BuiltOK(bin, rows)
  BY DEF FileInv
<1>2. PICK all : Enumerates(all, HotSet(bin, prefix)) /\ bin.topk[prefix] = Take(all, TopK)
  BY <1>1 DEF BuiltOK, TopOK
<1> DEFINE H == HotSet(bin, prefix)
           t == Take(bin.topk[prefix], limit)
           C == {c \in CandidateType : IsPrefix(prefix, c.pinyin)}
           f == FetchTopK(prefix, limit)
<1>3. f = [i \in DOMAIN t |-> Stored(bin.keys[t[i].key], t[i])]
  BY DEF FetchTopK
<1>4. \A x \in H : x.text \in Nat /\ x.freq \in Nat /\ Stored(bin.keys[x.key], x) \in C
  <2>1. ASSUME NEW x \in H
        PROVE  x.text \in Nat /\ x.freq \in Nat /\ Stored(bin.keys[x.key], x) \in C
    <3>1. /\ x \in HotType /\ x.key \in DOMAIN bin.keys
          /\ IsPrefix(prefix, FirstSegment(bin.keys[x.key]))
      BY DEF HotSet
    <3>2. x.text \in Nat /\ x.freq \in Nat
      BY <3>1 DEF HotType
    <3> DEFINE k == bin.keys[x.key]
    <3>3. k \in Seq(Nat)
      BY <1>1, <3>1, KeyFacts
    <3>4. IsPrefix(prefix, FirstSegment(k))
      BY <3>1
    <3> HIDE DEF k
    <3>5. FirstSegment(k) \in Seq(Nat) /\ IsPrefix(FirstSegment(k), k)
      BY <3>3, FirstSegmentFacts
    <3>6. IsPrefix(prefix, k)
      BY <3>3, <3>4, <3>5, PrefixTransitive
    <3>7. Stored(k, x) \in CandidateType /\ Stored(k, x).pinyin = k
      BY <3>2, <3>3, StoredIs
    <3>8. Stored(k, x) \in C
      BY <3>6, <3>7
    <3> QED
      BY <3>2, <3>8 DEF k
  <2> QED
    BY <2>1
<1>5. t \in Seq(H)
  <2>1. all \in Seq(H) /\ TopK \in Int /\ limit \in Int
    BY <1>2, DictionaryAssumption DEF Enumerates
  <2> HIDE DEF H
  <2>2. bin.topk[prefix] \in Seq(H)
    BY <1>2, <2>1, TakeMembers
  <2> QED
    BY <2>1, <2>2, TakeMembers
<1> HIDE DEF t, H, C, f
<1>6. Len(t) \in Nat /\ DOMAIN t = 1..Len(t) /\ \A i \in 1..Len(t) : t[i] \in H
  BY <1>5
<1>7. f = [i \in 1..Len(t) |-> Stored(bin.keys[t[i].key], t[i])]
  BY <1>3, <1>6
<1>8. \A i \in 1..Len(t) : Stored(bin.keys[t[i].key], t[i]) \in C
  BY <1>4, <1>6
<1>9. f \in [1..Len(t) -> C]
  BY <1>7, <1>8
<1>10. f \in Seq(C)
  BY <1>6, <1>9
<1> QED
  BY <1>10 DEF f, C

LEMMA CompletionMembers ==
  ASSUME FileInv, NEW key \in Seq(Nat), NEW open, NEW limit \in Nat \ {0}
  PROVE  StoreCompletions(key, open, limit) \in Seq(GoingOn(key))
<1>1. PICK rows : RowsFine(rows) /\ BuiltOK(bin, rows)
  BY DEF FileInv
<1> DEFINE G == GoingOn(key)
<1>2. ASSUME NEW prefix \in Seq(Nat), NEW exclude, Scanned(prefix, exclude) \subseteq G
      PROVE  ScanRange(prefix, limit, exclude) \in Seq(G)
  <2>1. ScanRange(prefix, limit, exclude) \in Seq(Scanned(prefix, exclude))
    BY ScanMembers
  <2> HIDE DEF G
  <2> QED
    BY <1>2, <2>1
<1>3. CASE ~open
  <2>1. <<0>> \in Seq(Nat)
    OBVIOUS
  <2>2. key \o <<0>> \in Seq(Nat)
    BY <2>1, ConcatProperties
  <2>3. Scanned(key \o <<0>>, <<>>) \subseteq G
    <3>1. ASSUME NEW c \in Scanned(key \o << 0 >>, <<>>) PROVE c \in G
      <4>1. c \in CandidateType /\ c.pinyin \in Seq(Nat) /\ IsPrefix(key \o <<0>>, c.pinyin)
        BY DEF Scanned, CandidateType
      <4>2. IsPrefix(key, c.pinyin) /\ key # c.pinyin
        BY <4>1, QuotedPrefix
      <4> QED
        BY <4>1, <4>2 DEF GoingOn
    <3> QED
      BY <3>1
  <2>4. StoreCompletions(key, open, limit) = ScanRange(key \o <<0>>, limit, <<>>)
    BY <1>3 DEF StoreCompletions
  <2> HIDE DEF G
  <2> QED
    BY <1>2, <2>2, <2>3, <2>4 DEF G
<1>4. CASE open /\ 0 \notin ToSet(key) /\ limit <= TopK
  <2>1. CASE key \in DOMAIN bin.topk
    <3> DEFINE s == FetchTopK(key, TopK)
               C == {c \in CandidateType : IsPrefix(key, c.pinyin)}
               P == {i \in 1..Len(s) : s[i].pinyin # key}
    <3>1. StoreCompletions(key, open, limit) = Take(Picks(s, {i \in DOMAIN s : s[i].pinyin # key}), limit)
      BY <1>4, <2>1 DEF StoreCompletions, Kept
    <3>2. TopK \in Nat
      BY DictionaryAssumption
    <3>3. s \in Seq(C)
      BY <2>1, <3>2, HotMembers
    <3>4. \A c \in C : c.pinyin # key => c \in G
      BY DEF GoingOn
    <3> HIDE DEF s, C, G
    <3>5. DOMAIN s = 1..Len(s) /\ \A i \in 1..Len(s) : s[i] \in C
      BY <3>3
    <3>6. P \in SUBSET (1..Len(s)) /\ \A i \in P : s[i] \in G
      BY <3>4, <3>5
    <3>7. StoreCompletions(key, open, limit) = Take(Picks(s, P), limit)
      BY <3>1, <3>5
    <3> HIDE DEF P
    <3>8. Picks(s, P) \in Seq(G)
      BY <3>3, <3>6, PicksMembers
    <3>9. Take(Picks(s, P), limit) \in Seq(G)
      BY <3>8, TakeMembers
    <3> QED
      BY <3>7, <3>9 DEF G
  <2>2. CASE key \notin DOMAIN bin.topk
    <3>1. StoreCompletions(key, open, limit) = ScanRange(key, limit, <<>>)
      BY <1>4, <2>2 DEF StoreCompletions
    <3>2. DOMAIN bin.topk = Syllables(rows)
      BY <1>1 DEF BuiltOK, TopOK
    <3>3. ASSUME NEW c \in Scanned(key, <<>>) PROVE c \in G
      <4>1. /\ c \in CandidateType /\ IsPrefix(key, c.pinyin) /\ key # <<>>
            /\ \E i \in DOMAIN bin.keys : bin.keys[i] = c.pinyin
        BY DEF Scanned
      <4>2. c.pinyin \in Readings(rows)
        BY <1>1, <4>1, KeyFacts
      <4>3. ASSUME c.pinyin = key PROVE FALSE
        <5>1. FirstSegment(key) = key
          BY <1>4, FirstSegmentFacts
        <5>2. Len(key) \in 1..Len(key) /\ SubSeq(key, 1, Len(key)) = key
          <6>1. Len(key) \in Nat /\ Len(key) # 0
            BY <4>1, EmptySeq
          <6>2. Len(key) \in 1..Len(key)
            BY <6>1
          <6>3. SubSeq(key, 1, Len(key)) = key
            BY SubSeqFull
          <6> QED
            BY <6>2, <6>3
        <5>3. key \in {SubSeq(FirstSegment(key), 1, n) : n \in 1..Len(FirstSegment(key))}
          BY <5>1, <5>2
        <5>4. key \in Syllables(rows)
          BY <4>2, <4>3, <5>3 DEF Syllables
        <5> QED
          BY <2>2, <3>2, <5>4
      <4> QED
        BY <4>1, <4>3 DEF GoingOn
    <3>4. Scanned(key, <<>>) \subseteq G
      BY <3>3
    <3> HIDE DEF G
    <3> QED
      BY <1>2, <3>1, <3>4 DEF G
  <2> QED
    BY <2>1, <2>2
<1>5. CASE open /\ ~(0 \notin ToSet(key) /\ limit <= TopK)
  <2>1. StoreCompletions(key, open, limit) = ScanRange(key, limit, key)
    BY <1>5 DEF StoreCompletions
  <2>2. Scanned(key, key) \subseteq G
    BY DEF Scanned, GoingOn
  <2> HIDE DEF G
  <2> QED
    BY <1>2, <2>1, <2>2 DEF G
<1> QED
  BY <1>3, <1>4, <1>5

LEMMA OverlayMembers ==
  ASSUME NEW rows, OverlayOK(overlay, rows), NEW key \in Seq(Nat), NEW open
  PROVE  /\ OverlayExact(key) \in Seq(Homophones(key))
         /\ OverlayCompletions(key, open) \in Seq(GoingOn(key))
<1>1. PICK own : own \subseteq EntryType /\ IndexOK(overlay, Seq(Nat), own)
  BY DEF OverlayOK
<1>2. Enumerates(overlay, own) /\ overlay \in Seq(own)
  BY <1>1 DEF IndexOK, Enumerates
<1>3. DOMAIN overlay = 1..Len(overlay) /\ \A i \in 1..Len(overlay) : overlay[i] \in own
  BY <1>2, EnumeratesCounts
<1>4. \A x \in own : Candidate(x) \in CandidateType /\ Candidate(x).pinyin = x.pinyin
  BY <1>1 DEF EntryType, CandidateType, Candidate
<1>5. OverlayExact(key) \in Seq(Homophones(key))
  <2> DEFINE P == {i \in 1..Len(overlay) : overlay[i].pinyin = key}
             S == {x \in own : x.pinyin = key}
             C == {Candidate(x) : x \in S}
  <2>1. OverlayExact(key) = Candidates(Picks(overlay, P))
    BY <1>3 DEF OverlayExact, Kept
  <2>2. P \in SUBSET (1..Len(overlay)) /\ \A i \in P : overlay[i] \in S
    BY <1>3
  <2>3. C \subseteq Homophones(key)
    BY <1>4 DEF Homophones
  <2> HIDE DEF P, S
  <2>4. Picks(overlay, P) \in Seq(S)
    BY <1>2, <2>2, PicksMembers
  <2>5. Candidates(Picks(overlay, P)) \in Seq(C)
    BY <2>4, CandidatesMembers
  <2> HIDE DEF C
  <2> QED
    BY <2>1, <2>3, <2>5
<1>6. OverlayCompletions(key, open) \in Seq(GoingOn(key))
  <2> DEFINE S == RangeSet(own, key, open)
             C == {Candidate(x) : x \in S}
             r == RangeOf(overlay, key, open)
  <2>1. OverlayCompletions(key, open) = Candidates(r)
    BY DEF OverlayCompletions, RangeOf, Kept
  <2>2. \A x \in S : x \in own /\ x.pinyin # key /\ IsPrefix(key, x.pinyin)
    BY <1>1, RangeGoesOn
  <2>3. r \in Seq(S)
    BY <1>1, RangeIndexed DEF IndexOK, Enumerates
  <2>4. C \subseteq GoingOn(key)
    BY <1>4, <2>2 DEF GoingOn
  <2> HIDE DEF r, S
  <2>5. Candidates(r) \in Seq(C)
    BY <2>3, CandidatesMembers
  <2> HIDE DEF C
  <2> QED
    BY <2>1, <2>4, <2>5
<1> QED
  BY <1>5, <1>6

LEMMA FileLayersApart ==
  ASSUME HomesInv, NEW key \in Seq(Nat), NEW open, NEW n \in Nat \ {0}
  PROVE  InLayers(key, FstLookupPrefix(key, open, n))
<1> DEFINE C == Homophones(key)
           G == GoingOn(key)
           exact == StoreExact(key, n)
           comps == OverlayCompletions(key, open)
           layer1 == MergeOverlay(Sorted(RaisedBy(exact, comps), ByRank), OverlayExact(key), Cap(open, n))
           R == {x \in G : x.text \notin Texts(layer1)}
           base == Without(StoreCompletions(key, open, n), Texts(layer1))
           user == Without(comps, Texts(exact) \cup Texts(layer1))
           layer2 == MergeOverlay(base, user, n - Len(layer1))
<1>1. FstLookupPrefix(key, open, n) = layer1 \o layer2
  BY DEF FstLookupPrefix
<1>2. /\ exact \in Seq(C) /\ StoreCompletions(key, open, n) \in Seq(G)
      /\ OverlayExact(key) \in Seq(C) /\ comps \in Seq(G)
  BY ExactMembers, CompletionMembers, OverlayMembers DEF HomesInv
<1>3. /\ C \subseteq CandidateType /\ \A c \in C : c.eff \in Nat /\ c.text \in Nat /\ c.pinyin = key
      /\ \A c \in C : \A f \in Nat : [c EXCEPT !.freq = f] \in C
  BY DEF Homophones, CandidateType
<1>4. /\ G \subseteq CandidateType /\ \A x \in G : x.freq \in Nat
      /\ \A x \in G : x.pinyin # key /\ IsPrefix(key, x.pinyin)
  BY DEF GoingOn, CandidateType
<1> HIDE DEF C, G, exact, comps
<1>5. RaisedBy(exact, comps) \in Seq(C)
  BY <1>2, <1>3, <1>4, RaisedMembers
<1>6. Sorted(RaisedBy(exact, comps), ByRank) \in Seq(C)
  BY <1>3, <1>5, SortedByRank
<1>7. Cap(open, n) \in Int
  BY DEF Cap
<1>8. layer1 \in Seq(C)
  BY <1>2, <1>3, <1>6, <1>7, MergeMembers
<1> HIDE DEF layer1
<1>9. base \in Seq(R)
  BY <1>2, WithoutMembers
<1>10. user \in Seq(R)
  <2> DEFINE T == Texts(exact) \cup Texts(layer1)
             R2 == {x \in G : x.text \notin T}
  <2>1. user \in Seq(R2)
    BY <1>2, WithoutMembers
  <2>2. R2 \subseteq R
    OBVIOUS
  <2> HIDE DEF R2, R, user
  <2> QED
    BY <2>1, <2>2
<1>11. R \subseteq CandidateType /\ \A x \in R : /\ x.pinyin # key /\ IsPrefix(key, x.pinyin)
                                                 /\ x.text \notin Texts(layer1)
  BY <1>4
<1> HIDE DEF base, user, R
<1>12. n - Len(layer1) \in Int
  BY <1>8
<1>13. layer2 \in Seq(R)
  BY <1>9, <1>10, <1>11, <1>12, MergeMembers
<1> HIDE DEF layer2
<1>14. \A x \in C : x.pinyin = key
  BY <1>3
<1>15. InLayers(key, layer1 \o layer2)
  BY <1>8, <1>11, <1>13, <1>14, LayersShape
<1> QED
  BY <1>1, <1>15

LEMMA LayersAreApart ==
  ASSUME HomesInv
  PROVE  LayersApart
<1>1. Queries \subseteq Seq(Nat) /\ Limits \subseteq Nat \ {0}
  BY DictionaryAssumption
<1>2. VectorsInv
  BY DEF HomesInv
<1> DEFINE E == EntrySet(phrase, stats)
<1>3. E \subseteq EntryType /\ Unique(E) /\ IndexOK(index, userPinyins, E)
  BY <1>2, EntrySetFacts DEF VectorsInv
<1> HIDE DEF E
<1>4. ASSUME NEW key \in Queries, NEW open \in BOOLEAN, NEW n \in Limits
      PROVE  /\ InLayers(key, FstLookupPrefix(key, open, n))
             /\ InLayers(key, IndexLookupPrefix(index, userPinyins, key, open, n))
  <2>1. key \in Seq(Nat) /\ n \in Nat \ {0} /\ n \in Nat
    BY <1>1
  <2>2. InLayers(key, FstLookupPrefix(key, open, n))
    BY <2>1, FileLayersApart
  <2>3. InLayers(key, IndexLookupPrefix(index, userPinyins, key, open, n))
    BY <1>3, <2>1, IndexLayersApart
  <2> QED
    BY <2>2, <2>3
<1> QED
  BY <1>4 DEF LayersApart

(* The words of the reading stand before those that go on from it, and no  *)
(* text of the first layer comes again in the second: lookup_prefix, over  *)
(* the file and without it.                                                *)
THEOREM LayersStayApart == Spec => []LayersApart
<1>1. HomesInv => LayersApart
  BY LayersAreApart
<1> QED
  BY <1>1, HomesCurrent, PTL

----------------------------------------------------------------------------
(* The best of a set: a list t of its first members by rank, at least n of *)
(* them or all.                                                            *)

OneText(X) == \A x, y \in X : x.text = y.text => x = y

Leads(t, X, n) ==
  /\ t \in Seq(X)
  /\ \A i, j \in 1..Len(t) : i < j => ByRank(t[i], t[j])
  /\ \A x \in X : \/ \E i \in 1..Len(t) : t[i] = x
                  \/ Len(t) >= n /\ \A i \in 1..Len(t) : ByRank(t[i], x)

LEMMA RankOrder ==
  ASSUME NEW X, X \subseteq CandidateType
  PROVE  /\ \A x \in X : ~ByRank(x, x)
         /\ \A x, y \in X : ByRank(x, y) => ~ByRank(y, x)
         /\ \A x, y, z \in X : ByRank(x, y) /\ ByRank(y, z) => ByRank(x, z)
         /\ OneText(X) => \A x, y \in X : x = y \/ ByRank(x, y) \/ ByRank(y, x)
<1>1. \A x \in X : x.eff \in Nat /\ x.text \in Nat
  BY DEF CandidateType
<1> QED
  BY <1>1 DEF ByRank, OneText

LEMMA TextRankIsTotal ==
  ASSUME NEW X, X \subseteq CandidateType, OneText(X)
  PROVE  TotalOrder(Below(X, ByRank), X)
<1>1. \A x \in X : x.eff \in Nat /\ x.text \in Nat
  BY DEF CandidateType
<1>2. WeakOrder(Below(X, ByRank), X)
  BY <1>1, RankIsWeak
<1>3. \A x, y \in X : x = y \/ x \in Below(X, ByRank)[y] \/ y \in Below(X, ByRank)[x]
  BY RankOrder DEF Below
<1> QED
  BY <1>2, <1>3 DEF TotalOrder

(* A list sorted by rank.                                                  *)
LEMMA SortLeads ==
  ASSUME NEW X, X \subseteq CandidateType, OneText(X), NEW s, Enumerates(s, X), NEW n
  PROVE  Leads(Sorted(s, ByRank), X, n)
<1> DEFINE t == Sorted(s, ByRank)
<1>1. /\ Enumerates(t, X) /\ Len(t) = Len(s)
      /\ \A i, j \in 1..Len(s) : i < j => ~ByRank(t[j], t[i])
  <2>1. Enumerates(t, X) /\ Len(t) = Len(s)
    BY SortedEnumerates
  <2>2. PICK at : \A i, j \in 1..Len(s) : i < j =>
                    ByRank(t[i], t[j]) \/ (~ByRank(t[j], t[i]) /\ at[i] < at[j])
    BY SortedEnumerates
  <2> HIDE DEF t
  <2>3. \A i \in 1..Len(t) : t[i] \in X
    BY <2>1 DEF Enumerates
  <2>4. \A x, y \in X : ByRank(x, y) => ~ByRank(y, x)
    BY RankOrder
  <2> QED
    BY <2>1, <2>2, <2>3, <2>4
<1> HIDE DEF t
<1>2. t \in Seq(X) /\ \A x \in X : \E i \in 1..Len(t) : t[i] = x
  BY <1>1 DEF Enumerates
<1>3. \A i \in 1..Len(t) : t[i] \in X
  BY <1>2
<1>4. \A i, j \in 1..Len(t) : i < j => t[i] # t[j]
  <2>1. ASSUME NEW i \in 1..Len(t), NEW j \in 1..Len(t), i < j, t[i] = t[j] PROVE FALSE
    <3>1. i = j
      BY <1>1, <2>1 DEF Enumerates
    <3> QED
      BY <2>1, <3>1
  <2> QED
    BY <2>1
<1>5. \A i, j \in 1..Len(t) : i < j => ByRank(t[i], t[j])
  BY <1>1, <1>3, <1>4, RankOrder
<1> QED
  BY <1>2, <1>5 DEF Leads, t

(* Two of them begin alike.                                                *)
LEMMA LeadsAlike ==
  ASSUME NEW X, X \subseteq CandidateType, NEW n \in Nat,
         NEW s, Leads(s, X, n), NEW t, Leads(t, X, n), NEW m \in Nat, m + 1 <= n,
         \A i \in 1..m : i <= Len(s) => i <= Len(t) /\ s[i] = t[i],
         m + 1 <= Len(s)
  PROVE  m + 1 <= Len(t) /\ (t[m + 1] = s[m + 1] \/ ByRank(t[m + 1], s[m + 1]))
<1>1. /\ Len(s) \in Nat /\ Len(t) \in Nat
      /\ \A i \in 1..Len(s) : s[i] \in X
      /\ \A i \in 1..Len(t) : t[i] \in X
  BY DEF Leads
<1>2. \A i, j \in 1..Len(s) : i < j => ByRank(s[i], s[j])
  BY DEF Leads
<1>3. \A i, j \in 1..Len(t) : i < j => ByRank(t[i], t[j])
  BY DEF Leads
<1>4. m + 1 \in 1..Len(s)
  BY <1>1
<1> DEFINE x == s[m + 1]
<1>5. x \in X
  BY <1>1, <1>4
<1>6. \/ \E i \in 1..Len(t) : t[i] = x
      \/ Len(t) >= n /\ \A i \in 1..Len(t) : ByRank(t[i], x)
  BY <1>5 DEF Leads
<1>7. CASE \E i \in 1..Len(t) : t[i] = x
  <2>1. PICK i \in 1..Len(t) : t[i] = x
    BY <1>7
  <2>2. i >= m + 1
    <3>1. SUFFICES ASSUME i <= m PROVE FALSE
      BY <1>1, <2>1
    <3>2. i \in 1..m /\ i \in 1..Len(s) /\ i < m + 1
      BY <1>1, <3>1
    <3>3. s[i] = x
      BY <2>1, <3>2
    <3>4. ByRank(s[i], s[m + 1])
      BY <1>2, <1>4, <3>2
    <3> QED
      BY <1>5, <3>3, <3>4, RankOrder
  <2>3. m + 1 \in 1..Len(t)
    BY <1>1, <2>2
  <2>4. CASE i = m + 1
    BY <2>1, <2>3, <2>4
  <2>5. CASE i > m + 1
    <3>1. ByRank(t[m + 1], t[i])
      BY <1>3, <2>3, <2>5
    <3> QED
      BY <2>1, <2>3, <3>1
  <2> QED
    BY <2>2, <2>4, <2>5
<1>8. CASE Len(t) >= n /\ \A i \in 1..Len(t) : ByRank(t[i], x)
  <2>1. m + 1 \in 1..Len(t)
    BY <1>1, <1>8
  <2> QED
    BY <1>8, <2>1
<1> QED
  BY <1>6, <1>7, <1>8

LEMMA LeadsAgree ==
  ASSUME NEW X, X \subseteq CandidateType, NEW n \in Nat,
         NEW s, Leads(s, X, n), NEW t, Leads(t, X, n)
  PROVE  Take(s, n) = Take(t, n)
<1> DEFINE Same(m) == \A i \in 1..m : /\ i <= Len(s) <=> i <= Len(t)
                                      /\ i <= Len(s) => s[i] = t[i]
           T == {m \in Nat : m <= n => Same(m)}
<1>1. /\ Len(s) \in Nat /\ Len(t) \in Nat /\ s \in Seq(X) /\ t \in Seq(X)
      /\ \A i \in 1..Len(s) : s[i] \in X
      /\ \A i \in 1..Len(t) : t[i] \in X
  BY DEF Leads
<1>2. 0 \in T
  OBVIOUS
<1>3. ASSUME NEW m \in T PROVE m + 1 \in T
  <2>1. SUFFICES ASSUME m + 1 <= n PROVE Same(m + 1)
    BY <1>3
  <2>2. m \in Nat /\ Same(m)
    BY <1>3, <2>1
  <2>3. m + 1 <= Len(s) => m + 1 <= Len(t) /\ (t[m + 1] = s[m + 1] \/ ByRank(t[m + 1], s[m + 1]))
    <3>1. \A i \in 1..m : i <= Len(s) => i <= Len(t) /\ s[i] = t[i]
      BY <2>2
    <3> QED
      BY <2>1, <2>2, <3>1, LeadsAlike
  <2>4. m + 1 <= Len(t) => m + 1 <= Len(s) /\ (s[m + 1] = t[m + 1] \/ ByRank(s[m + 1], t[m + 1]))
    <3>1. \A i \in 1..m : i <= Len(t) => i <= Len(s) /\ t[i] = s[i]
      BY <2>2
    <3> QED
      BY <2>1, <2>2, <3>1, LeadsAlike
  <2>5. m + 1 <= Len(s) => s[m + 1] = t[m + 1]
    <3>1. SUFFICES ASSUME m + 1 <= Len(s) PROVE s[m + 1] = t[m + 1]
      OBVIOUS
    <3>2. m + 1 \in 1..Len(s) /\ m + 1 \in 1..Len(t)
      BY <1>1, <2>2, <2>3, <3>1
    <3>3. s[m + 1] \in X /\ t[m + 1] \in X
      BY <1>1, <3>2
    <3> QED
      <4>1. ByRank(t[m + 1], s[m + 1]) => ~ByRank(s[m + 1], t[m + 1])
        BY <3>3, RankOrder
      <4>2. m + 1 <= Len(t)
        BY <2>3, <3>1
      <4> QED
        BY <2>3, <2>4, <3>1, <4>1, <4>2
  <2>6. ASSUME NEW i \in 1..(m + 1) PROVE i \in 1..m \/ i = m + 1
    BY <2>2
  <2> QED
    BY <2>2, <2>3, <2>4, <2>5, <2>6
<1>4. T = Nat
  BY <1>2, <1>3, NatSet
<1>5. Same(n)
  <2>1. n \in T /\ n <= n
    BY <1>4
  <2> QED
    BY <2>1
<1> HIDE DEF T
<1>6. (IF n < Len(s) THEN n ELSE Len(s)) = (IF n < Len(t) THEN n ELSE Len(t))
  <2>1. CASE n < Len(s) \/ n < Len(t)
    <3>1. n = 0 \/ n \in 1..n
      OBVIOUS
    <3>2. n <= Len(s) /\ n <= Len(t)
      BY <1>1, <1>5, <2>1, <3>1
    <3> QED
      BY <1>1, <3>2
  <2>2. CASE ~(n < Len(s)) /\ ~(n < Len(t))
    <3>1. Len(s) = 0 \/ Len(s) \in 1..n
      BY <1>1, <2>2
    <3>2. Len(t) = 0 \/ Len(t) \in 1..n
      BY <1>1, <2>2
    <3>3. Len(s) <= Len(t) /\ Len(t) <= Len(s)
      BY <1>1, <1>5, <3>1, <3>2
    <3> QED
      BY <1>1, <2>2, <3>3
  <2> QED
    BY <2>1, <2>2
<1>7. /\ Take(s, n) \in Seq(X) /\ Len(Take(s, n)) = (IF n < Len(s) THEN n ELSE Len(s))
      /\ \A i \in 1..Len(Take(s, n)) : Take(s, n)[i] = s[i] /\ i \in 1..Len(s)
  BY <1>1, TakeFacts
<1>8. /\ Take(t, n) \in Seq(X) /\ Len(Take(t, n)) = (IF n < Len(t) THEN n ELSE Len(t))
      /\ \A i \in 1..Len(Take(t, n)) : Take(t, n)[i] = t[i] /\ i \in 1..Len(t)
  BY <1>1, TakeFacts
<1>9. Len(Take(s, n)) = Len(Take(t, n))
  BY <1>6, <1>7, <1>8
<1>10. \A i \in 1..Len(Take(s, n)) : Take(s, n)[i] = Take(t, n)[i]
  <2>1. ASSUME NEW i \in 1..Len(Take(s, n)) PROVE Take(s, n)[i] = Take(t, n)[i]
    <3>1. i \in 1..n /\ i <= Len(s)
      BY <1>1, <1>7
    <3>2. s[i] = t[i]
      BY <1>5, <3>1
    <3>3. i \in 1..Len(Take(t, n))
      BY <1>9
    <3> QED
      BY <1>7, <1>8, <3>2, <3>3
  <2> QED
    BY <2>1
<1> DEFINE u == Take(s, n)
           v == Take(t, n)
<1>11. u \in Seq(X) /\ v \in Seq(X) /\ Len(u) = Len(v) /\ \A i \in 1..Len(u) : u[i] = v[i]
  BY <1>7, <1>8, <1>9, <1>10
<1> HIDE DEF u, v
<1>12. u = v
  BY <1>11
<1> QED
  BY <1>12 DEF u, v

(* Its first members, and it leads for less.                               *)
LEMMA TakeLeads ==
  ASSUME NEW X, X \subseteq CandidateType, NEW n \in Nat, NEW t, Leads(t, X, n),
         NEW k \in Nat, k >= n, NEW m \in Nat, m <= n
  PROVE  Leads(Take(t, k), X, m) /\ Leads(t, X, m)
<1> DEFINE u == Take(t, k)
<1>1. /\ t \in Seq(X) /\ Len(t) \in Nat
      /\ \A i \in 1..Len(t) : t[i] \in X
      /\ \A i, j \in 1..Len(t) : i < j => ByRank(t[i], t[j])
  BY DEF Leads
<1>2. /\ u \in Seq(X) /\ Len(u) = (IF k < Len(t) THEN k ELSE Len(t))
      /\ \A i \in 1..Len(u) : u[i] = t[i] /\ i \in 1..Len(t)
  BY <1>1, TakeFacts
<1> HIDE DEF u
<1>3. \A i, j \in 1..Len(u) : i < j => ByRank(u[i], u[j])
  BY <1>1, <1>2
<1>4. ASSUME NEW x \in X
      PROVE  \/ \E i \in 1..Len(u) : u[i] = x
             \/ Len(u) >= m /\ \A i \in 1..Len(u) : ByRank(u[i], x)
  <2>1. \/ \E i \in 1..Len(t) : t[i] = x
        \/ Len(t) >= n /\ \A i \in 1..Len(t) : ByRank(t[i], x)
    BY DEF Leads
  <2>2. CASE \E i \in 1..Len(t) : t[i] = x
    <3>1. PICK i \in 1..Len(t) : t[i] = x
      BY <2>2
    <3>2. CASE i <= Len(u)
      <4>1. i \in 1..Len(u)
        BY <1>1, <1>2, <3>2
      <4> QED
        BY <1>2, <3>1, <4>1
    <3>3. CASE i > Len(u)
      <4>1. Len(u) = k
        BY <1>1, <1>2, <3>3
      <4>2. \A j \in 1..Len(u) : j < i
        BY <1>1, <1>2, <3>3
      <4>3. \A j \in 1..Len(u) : ByRank(u[j], x)
        BY <1>1, <1>2, <3>1, <4>2
      <4> QED
        BY <4>1, <4>3
    <3> QED
      BY <1>1, <1>2, <3>2, <3>3
  <2>3. CASE Len(t) >= n /\ \A i \in 1..Len(t) : ByRank(t[i], x)
    <3>1. Len(u) >= m
      BY <1>1, <1>2, <2>3
    <3> QED
      BY <1>2, <2>3, <3>1
  <2> QED
    BY <2>1, <2>2, <2>3
<1>5. Leads(u, X, m)
  BY <1>2, <1>3, <1>4 DEF Leads
<1>6. Leads(t, X, m)
  <2>1. \A x \in X : \/ \E i \in 1..Len(t) : t[i] = x
                     \/ Len(t) >= m /\ \A i \in 1..Len(t) : ByRank(t[i], x)
    BY <1>1 DEF Leads
  <2> QED
    BY <1>1, <2>1 DEF Leads
<1> QED
  BY <1>5, <1>6 DEF u

(* A larger set: what it has more comes behind n members of the smaller.   *)
Outranked(y, X, n) ==
  \E u \in Seq(X) :
    /\ Len(u) >= n /\ \A i, j \in 1..Len(u) : u[i] = u[j] => i = j
    /\ \A i \in 1..Len(u) : ByRank(u[i], y)

LEMMA Pigeons ==
  ASSUME NEW n \in Nat, NEW m \in Nat, NEW p \in [1..n -> 1..m],
         \A i, j \in 1..n : p[i] = p[j] => i = j
  PROVE  n <= m
<1>1. p \in Injection(1..n, 1..m)
  BY DEF Injection, IsInjective
<1>2. /\ IsFiniteSet(1..n) /\ Cardinality(1..n) = n
      /\ IsFiniteSet(1..m) /\ Cardinality(1..m) = m
  BY FS_Interval
<1>3. Cardinality(1..n) <= Cardinality(1..m)
  BY <1>1, <1>2, FS_Injection
<1> QED
  BY <1>2, <1>3

LEMMA OutrankedBehind ==
  ASSUME NEW S, S \subseteq CandidateType, OneText(S), NEW X \in SUBSET S, NEW n \in Nat,
         NEW t, Leads(t, X, n), NEW y \in S, y \notin X, Outranked(y, X, n)
  PROVE  Len(t) >= n /\ \A i \in 1..Len(t) : i <= n => ByRank(t[i], y)
<1>1. /\ Len(t) \in Nat
      /\ \A i \in 1..Len(t) : t[i] \in X /\ t[i] \in S
      /\ \A i, j \in 1..Len(t) : i < j => ByRank(t[i], t[j])
      /\ \A x \in X : \/ \E i \in 1..Len(t) : t[i] = x
                      \/ Len(t) >= n /\ \A i \in 1..Len(t) : ByRank(t[i], x)
  BY DEF Leads
<1>2. PICK u \in Seq(X) : /\ Len(u) >= n /\ \A i, j \in 1..Len(u) : u[i] = u[j] => i = j
                          /\ \A i \in 1..Len(u) : ByRank(u[i], y)
  BY DEF Outranked
<1>3. /\ Len(u) \in Nat /\ \A i \in 1..Len(u) : u[i] \in X /\ u[i] \in S
      /\ \A i \in 1..n : i \in 1..Len(u)
  BY <1>2
<1>4. /\ \A a, b, c \in S : ByRank(a, b) /\ ByRank(b, c) => ByRank(a, c)
      /\ \A a, b \in S : a = b \/ ByRank(a, b) \/ ByRank(b, a)
      /\ \A a, b \in S : ByRank(a, b) => ~ByRank(b, a)
      /\ \A a \in S : ~ByRank(a, a)
  BY RankOrder
<1>5. CASE \E k \in 1..n : ~\E i \in 1..Len(t) : t[i] = u[k]
  <2>1. PICK k \in 1..n : ~\E i \in 1..Len(t) : t[i] = u[k]
    BY <1>5
  <2>2. u[k] \in X /\ u[k] \in S /\ ByRank(u[k], y)
    BY <1>2, <1>3
  <2>3. Len(t) >= n /\ \A i \in 1..Len(t) : ByRank(t[i], u[k])
    BY <1>1, <2>1, <2>2
  <2> QED
    BY <1>1, <1>4, <2>2, <2>3
<1>6. CASE \A k \in 1..n : \E i \in 1..Len(t) : t[i] = u[k]
  <2> DEFINE p == [k \in 1..n |-> CHOOSE i \in 1..Len(t) : t[i] = u[k]]
  <2>1. \A k \in 1..n : p[k] \in 1..Len(t) /\ t[p[k]] = u[k]
    BY <1>6
  <2>2. p \in [1..n -> 1..Len(t)]
    BY <2>1
  <2> HIDE DEF p
  <2>3. \A i, j \in 1..n : p[i] = p[j] => i = j
    <3>1. ASSUME NEW i \in 1..n, NEW j \in 1..n, p[i] = p[j] PROVE i = j
      <4>1. u[i] = u[j]
        BY <2>1, <3>1
      <4> QED
        BY <1>2, <1>3, <4>1
    <3> QED
      BY <3>1
  <2>4. n <= Len(t)
    BY <1>1, <2>2, <2>3, Pigeons
  <2>5. ASSUME NEW i \in 1..Len(t), i <= n, ~ByRank(t[i], y) PROVE FALSE
    <3>1. t[i] \in S /\ t[i] # y
      BY <1>1
    <3>2. ByRank(y, t[i])
      BY <1>4, <2>5, <3>1
    <3>3. ASSUME NEW k \in 1..n PROVE p[k] \in 1..(i - 1)
      <4>1. u[k] \in S /\ ByRank(u[k], t[i])
        <5>1. u[k] \in S /\ ByRank(u[k], y)
          BY <1>2, <1>3
        <5> QED
          BY <1>4, <3>1, <3>2, <5>1
      <4>2. p[k] \in 1..Len(t) /\ t[p[k]] = u[k]
        BY <2>1
      <4>3. p[k] # i
        BY <1>4, <3>1, <4>1, <4>2
      <4>4. ~(i < p[k])
        BY <1>1, <1>4, <3>1, <4>1, <4>2
      <4> QED
        BY <1>1, <4>2, <4>3, <4>4
    <3>4. p \in [1..n -> 1..(i - 1)]
      BY <2>2, <3>3
    <3>5. i - 1 \in Nat
      BY <1>1
    <3>6. n <= i - 1
      BY <2>3, <3>4, <3>5, Pigeons
    <3> QED
      BY <1>1, <2>5, <3>6
  <2> QED
    BY <2>4, <2>5
<1> QED
  BY <1>5, <1>6

LEMMA Widened ==
  ASSUME NEW S, S \subseteq CandidateType, OneText(S), NEW X \in SUBSET S, NEW n \in Nat,
         NEW t, Leads(t, X, n), \A y \in S : y \notin X => Outranked(y, X, n)
  PROVE  Leads(Take(t, n), S, n)
<1> DEFINE v == Take(t, n)
<1>1. /\ t \in Seq(X) /\ Len(t) \in Nat
  BY DEF Leads
<1>2. Leads(v, X, n)
  <2>1. X \subseteq CandidateType
    OBVIOUS
  <2> QED
    BY <2>1, TakeLeads
<1>3. /\ Len(v) = (IF n < Len(t) THEN n ELSE Len(t))
      /\ \A i \in 1..Len(v) : v[i] = t[i] /\ i \in 1..Len(t)
  BY <1>1, TakeFacts
<1> HIDE DEF v
<1>4. v \in Seq(S)
  <2>1. v \in Seq(X)
    BY <1>2 DEF Leads
  <2> QED
    BY <2>1, SeqMonotonic
<1>5. ASSUME NEW y \in S
      PROVE  \/ \E i \in 1..Len(v) : v[i] = y
             \/ Len(v) >= n /\ \A i \in 1..Len(v) : ByRank(v[i], y)
  <2>1. CASE y \in X
    BY <1>2, <2>1 DEF Leads
  <2>2. CASE y \notin X
    <3>1. Len(t) >= n /\ \A i \in 1..Len(t) : i <= n => ByRank(t[i], y)
      BY <2>2, OutrankedBehind
    <3>2. Len(v) = n
      BY <1>1, <1>3, <3>1
    <3> QED
      BY <1>3, <3>1, <3>2
  <2> QED
    BY <2>1, <2>2
<1>6. \A i, j \in 1..Len(v) : i < j => ByRank(v[i], v[j])
  BY <1>2 DEF Leads
<1> QED
  BY <1>4, <1>5, <1>6 DEF Leads, v

(* A merge of the best of the file with words of the user is the best of   *)
(* both together: a text of the user stands for that of the file.          *)
Merged(F, U) == U \cup {f \in F : \A u \in U : u.text # f.text}

Outdone(F, U) == \A f \in F, u \in U : u.text = f.text => u.eff >= f.eff

LEMMA MergedFacts ==
  ASSUME NEW F, F \subseteq CandidateType, OneText(F), NEW U, U \subseteq CandidateType, OneText(U)
  PROVE  /\ Merged(F, U) \subseteq CandidateType /\ OneText(Merged(F, U))
BY DEF Merged, OneText

LEMMA LeadsFacts ==
  ASSUME NEW X, X \subseteq CandidateType, NEW n, NEW t, Leads(t, X, n)
  PROVE  /\ t \in Seq(X) /\ Len(t) \in Nat /\ DOMAIN t = 1..Len(t)
         /\ \A i \in 1..Len(t) : t[i] \in X
         /\ \A i, j \in 1..Len(t) : t[i] = t[j] => i = j
         /\ OneText(X) => Distinct(t)
<1>1. /\ t \in Seq(X) /\ Len(t) \in Nat /\ DOMAIN t = 1..Len(t)
      /\ \A i \in 1..Len(t) : t[i] \in X
      /\ \A i, j \in 1..Len(t) : i < j => ByRank(t[i], t[j])
  BY DEF Leads
<1>2. \A i, j \in 1..Len(t) : t[i] = t[j] => i = j
  <2>1. ASSUME NEW i \in 1..Len(t), NEW j \in 1..Len(t), t[i] = t[j], i < j PROVE FALSE
    <3>1. ByRank(t[i], t[i]) /\ t[i] \in X
      BY <1>1, <2>1
    <3> QED
      BY <3>1, RankOrder
  <2>2. \A i, j \in 1..Len(t) : i = j \/ i < j \/ j < i
    BY <1>1
  <2> QED
    BY <2>1, <2>2
<1>3. OneText(X) => Distinct(t)
  BY <1>1, <1>2 DEF OneText, Distinct
<1> QED
  BY <1>1, <1>2, <1>3

LEMMA MergeLeads ==
  ASSUME NEW F, F \subseteq CandidateType, OneText(F), NEW U, U \subseteq CandidateType, OneText(U),
         Outdone(F, U), NEW n \in Nat, NEW base, Leads(base, F, n), NEW user, Enumerates(user, U)
  PROVE  Leads(MergeOverlay(base, user, n), Merged(F, U), n)
<1> DEFINE M == Merged(F, U)
<1>1. /\ base \in Seq(F) /\ Len(base) \in Nat
      /\ \A i \in 1..Len(base) : base[i] \in F
      /\ \A i, j \in 1..Len(base) : base[i] = base[j] => i = j
  BY LeadsFacts
<1>2. /\ user \in Seq(U) /\ Len(user) \in Nat /\ \A i \in 1..Len(user) : user[i] \in U
      /\ \A x \in U : \E i \in 1..Len(user) : user[i] = x
  BY EnumeratesCounts DEF Enumerates
<1>3. CASE user = <<>>
  <2>1. U = {}
    BY <1>2, <1>3
  <2>2. M = F
    BY <2>1 DEF Merged
  <2>3. MergeOverlay(base, user, n) = Take(base, n)
    BY <1>3 DEF MergeOverlay
  <2>4. Leads(Take(base, n), F, n)
    BY TakeLeads
  <2> QED
    BY <2>2, <2>3, <2>4
<1>4. CASE user # <<>>
  <2> DEFINE S == F \cup U
  <2>1. base \in Seq(S) /\ user \in Seq(S) /\ S \subseteq CandidateType
    BY <1>1, <1>2, SeqMonotonic
  <2>20. PICK m : /\ MergeOverlay(base, user, n) = Take(m, n)
                  /\ m \in Seq(S) /\ Merges(m, base, user)
    <3> HIDE DEF S
    <3> QED
      BY <1>4, <2>1, MergeFacts
  <2>2. /\ MergeOverlay(base, user, n) = Take(m, n)
        /\ m \in Seq(S) /\ Distinct(m)
        /\ Texts(m) = Texts(user) \cup Texts(base)
        /\ \A i \in 1..Len(m) : \/ \E j \in 1..Len(user) : m[i] = user[j]
                                \/ /\ \E j \in 1..Len(base) : m[i] = base[j]
                                   /\ m[i].text \notin Texts(user)
        /\ \A i, j \in 1..Len(m) : i < j => ByRank(m[i], m[j])
    BY <2>20 DEF Merges
  <2> DEFINE X == {m[i] : i \in 1..Len(m)}
  <2>3. /\ Texts(user) = {user[i].text : i \in 1..Len(user)}
        /\ Texts(base) = {base[i].text : i \in 1..Len(base)}
        /\ Texts(m) = {m[i].text : i \in 1..Len(m)}
    BY <2>1, <2>2, TextsAre
  <2>4. \A u \in U : u.text \in Texts(user)
    BY <1>2, <2>3
  <2>5. X \in SUBSET M
    <3>1. ASSUME NEW i \in 1..Len(m) PROVE m[i] \in M
      <4>1. CASE \E j \in 1..Len(user) : m[i] = user[j]
        BY <1>2, <4>1 DEF Merged
      <4>2. CASE (\E j \in 1..Len(base) : m[i] = base[j]) /\ m[i].text \notin Texts(user)
        <5>1. m[i] \in F /\ \A u \in U : u.text # m[i].text
          BY <1>1, <2>4, <4>2
        <5> QED
          BY <5>1 DEF Merged
      <4> QED
        BY <2>2, <4>1, <4>2
    <3> QED
      BY <3>1
  <2>6. M \subseteq CandidateType /\ OneText(M)
    BY MergedFacts
  <2>7. \A t \in Texts(user) \cup Texts(base) : \E x \in X : x.text = t
    <3>1. ASSUME NEW t \in Texts(m) PROVE \E x \in X : x.text = t
      <4>1. PICK i \in 1..Len(m) : t = m[i].text
        BY <2>3
      <4> QED
        BY <4>1
    <3> QED
      BY <2>2, <3>1
  <2>8. Leads(m, X, n)
    <3>1. m \in Seq(X)
      BY <2>2
    <3> QED
      BY <2>2, <3>1 DEF Leads
  <2>9. ASSUME NEW y \in M, y \notin X PROVE Outranked(y, X, n)
    <3> HIDE DEF X
    <3>1. y \in F
      <4>1. SUFFICES ASSUME y \in U PROVE FALSE
        BY <2>9 DEF Merged
      <4>2. PICK x \in X : x.text = y.text
        BY <2>4, <2>7, <4>1
      <4>3. x = y
        BY <2>5, <2>6, <4>2 DEF OneText
      <4> QED
        BY <2>9, <4>2, <4>3
    <3>2. ~\E j \in 1..Len(base) : base[j] = y
      <4>1. SUFFICES ASSUME NEW j \in 1..Len(base), base[j] = y PROVE FALSE
        OBVIOUS
      <4>2. y.text \in Texts(base)
        BY <2>3, <4>1
      <4>3. PICK x \in X : x.text = y.text
        BY <2>7, <4>2
      <4>4. x = y
        BY <2>5, <2>6, <4>3 DEF OneText
      <4> QED
        BY <2>9, <4>3, <4>4
    <3>3. Len(base) >= n /\ \A i \in 1..Len(base) : ByRank(base[i], y)
      BY <3>1, <3>2 DEF Leads
    <3> DEFINE u == [i \in 1..Len(base) |-> CHOOSE x \in X : x.text = base[i].text]
    <3>4. \A i \in 1..Len(base) : u[i] \in X /\ u[i].text = base[i].text
      <4>1. ASSUME NEW i \in 1..Len(base) PROVE \E x \in X : x.text = base[i].text
        BY <2>3, <2>7
      <4> QED
        BY <4>1
    <3>5. u \in Seq(X) /\ Len(u) = Len(base)
      BY <1>1, <3>4
    <3> HIDE DEF u
    <3>6. \A i, j \in 1..Len(u) : u[i] = u[j] => i = j
      <4>1. ASSUME NEW i \in 1..Len(base), NEW j \in 1..Len(base), u[i] = u[j] PROVE i = j
        <5>1. base[i].text = base[j].text
          BY <3>4, <4>1
        <5>2. base[i] = base[j]
          BY <1>1, <5>1 DEF OneText
        <5> QED
          BY <1>1, <5>2
      <4> QED
        BY <3>5, <4>1
    <3>7. \A i \in 1..Len(u) : ByRank(u[i], y)
      <4>1. ASSUME NEW i \in 1..Len(base) PROVE ByRank(u[i], y)
        <5>1. u[i] \in M /\ u[i].text = base[i].text /\ base[i] \in F /\ u[i] \in CandidateType
          BY <1>1, <2>5, <2>6, <3>4
        <5>2. u[i].eff >= base[i].eff
          <6>1. CASE u[i] \in U
            BY <5>1, <6>1 DEF Outdone
          <6>2. CASE u[i] \in F
            <7>1. u[i] = base[i]
              BY <5>1, <6>2 DEF OneText
            <7>2. base[i].eff \in Nat
              BY <5>1 DEF CandidateType
            <7> QED
              BY <7>1, <7>2
          <6> QED
            BY <5>1, <6>1, <6>2 DEF Merged
        <5>3. base[i].eff \in Nat /\ u[i].eff \in Nat /\ y.eff \in Nat /\ base[i].text \in Nat /\ y.text \in Nat
          BY <3>1, <5>1 DEF CandidateType
        <5>4. ByRank(base[i], y)
          BY <3>3
        <5> QED
          BY <5>1, <5>2, <5>3, <5>4 DEF ByRank
      <4> QED
        BY <3>5, <4>1
    <3>8. u \in Seq(X) /\ Len(u) >= n
      BY <3>3, <3>5
    <3> QED
      BY <3>6, <3>7, <3>8 DEF Outranked
  <2>10. Leads(Take(m, n), M, n)
    <3> HIDE DEF X, M
    <3> QED
      BY <2>5, <2>6, <2>8, <2>9, Widened
  <2> QED
    BY <2>2, <2>10
<1> QED
  BY <1>3, <1>4

(* The heap of a scan, where ranks are frequencies: after every entry it   *)
(* has the best of what was pushed.                                        *)
Plain(X) == \A x \in X : x.eff = x.freq

Best(t, X, n) == Leads(t, X, n) /\ Len(t) <= n

LEMMA AppendEnumerates ==
  ASSUME NEW X, NEW s, Enumerates(s, X), NEW c, c \notin X
  PROVE  Enumerates(Append(s, c), X \cup {c}) /\ Len(Append(s, c)) = Len(s) + 1
<1> DEFINE t == Append(s, c)
<1>1. /\ Len(s) \in Nat /\ \A i \in 1..Len(s) : s[i] \in X
      /\ \A i, j \in 1..Len(s) : s[i] = s[j] => i = j
      /\ \A x \in X : \E i \in 1..Len(s) : s[i] = x
      /\ s \in Seq(X)
  BY EnumeratesCounts DEF Enumerates
<1>2. /\ t \in Seq(X \cup {c}) /\ Len(t) = Len(s) + 1
      /\ \A i \in 1..Len(s) : t[i] = s[i]
      /\ t[Len(s) + 1] = c
  <2>1. s \in Seq(X \cup {c})
    BY <1>1, SeqMonotonic
  <2> QED
    BY <1>1, <2>1
<1> HIDE DEF t
<1>3. \A i \in 1..Len(t) : i \in 1..Len(s) \/ i = Len(s) + 1
  BY <1>1, <1>2
<1>4. \A i, j \in 1..Len(t) : t[i] = t[j] => i = j
  <2>1. ASSUME NEW i \in 1..Len(t), NEW j \in 1..Len(t), t[i] = t[j] PROVE i = j
    <3>1. CASE i \in 1..Len(s) /\ j \in 1..Len(s)
      <4>1. s[i] = s[j]
        BY <1>2, <2>1, <3>1
      <4> QED
        BY <1>1, <3>1, <4>1
    <3>2. CASE i \in 1..Len(s) /\ j = Len(s) + 1
      <4>1. s[i] = c /\ s[i] \in X
        BY <1>1, <1>2, <2>1, <3>2
      <4> QED
        BY <4>1
    <3>3. CASE j \in 1..Len(s) /\ i = Len(s) + 1
      <4>1. s[j] = c /\ s[j] \in X
        BY <1>1, <1>2, <2>1, <3>3
      <4> QED
        BY <4>1
    <3> QED
      BY <1>3, <3>1, <3>2, <3>3
  <2> QED
    BY <2>1
<1>5. ASSUME NEW x \in X \cup {c} PROVE \E i \in 1..Len(t) : t[i] = x
  <2>1. CASE x \in X
    <3>1. PICK i \in 1..Len(s) : s[i] = x
      BY <1>1, <2>1
    <3>2. i \in 1..Len(t)
      BY <1>1, <1>2
    <3> QED
      BY <1>2, <3>1, <3>2
  <2>2. CASE x = c
    <3>1. Len(s) + 1 \in 1..Len(t)
      BY <1>1, <1>2
    <3> QED
      BY <1>2, <2>2, <3>1
  <2> QED
    BY <2>1, <2>2
<1> QED
  BY <1>2, <1>4, <1>5 DEF Enumerates, t

LEMMA FreqSortLeads ==
  ASSUME NEW X, X \subseteq CandidateType, OneText(X), Plain(X), NEW s, Enumerates(s, X), NEW n
  PROVE  Leads(Sorted(s, ByFreq), X, n) /\ Len(Sorted(s, ByFreq)) = Len(s)
<1> DEFINE t == Sorted(s, ByFreq)
<1>1. s \in Seq(X) /\ \A x \in X : x.freq \in Nat /\ x.text \in Nat
  BY DEF Enumerates, CandidateType
<1>2. /\ t \in Seq(X) /\ Len(t) = Len(s)
      /\ \E at : /\ Enumerates(at, 1..Len(s)) /\ MadeFrom(t, s, at)
                 /\ \A m, k \in 1..Len(s) : m < k =>
                      ByFreq(t[m], t[k]) \/ (~ByFreq(t[k], t[m]) /\ at[m] < at[k])
  BY <1>1, SortedByFreq
<1> HIDE DEF t
<1>3. PICK at : /\ Enumerates(at, 1..Len(s)) /\ MadeFrom(t, s, at)
                /\ \A m, k \in 1..Len(s) : m < k =>
                     ByFreq(t[m], t[k]) \/ (~ByFreq(t[k], t[m]) /\ at[m] < at[k])
  BY <1>2
<1>4. Enumerates(t, X)
  BY <1>2, <1>3, Rearranged
<1>5. /\ \A i \in 1..Len(t) : t[i] \in X
      /\ \A x \in X : \E i \in 1..Len(t) : t[i] = x
      /\ \A i, j \in 1..Len(t) : t[i] = t[j] => i = j
      /\ Len(t) \in Nat
  BY <1>4, EnumeratesCounts DEF Enumerates
<1>6. \A x, y \in X : ByFreq(x, y) <=> ByRank(x, y)
  BY DEF Plain, ByFreq, ByRank
<1>7. ASSUME NEW i \in 1..Len(t), NEW j \in 1..Len(t), i < j PROVE ByRank(t[i], t[j])
  <2>1. ~ByRank(t[j], t[i])
    <3>1. ByFreq(t[i], t[j]) \/ ~ByFreq(t[j], t[i])
      BY <1>2, <1>3, <1>7
    <3> QED
      BY <1>5, <1>6, <3>1, RankOrder
  <2>2. t[i] # t[j]
    BY <1>5, <1>7
  <2> QED
    BY <1>5, <2>1, <2>2, RankOrder
<1>8. Leads(t, X, n)
  BY <1>2, <1>5, <1>7 DEF Leads
<1> QED
  BY <1>2, <1>8 DEF t

LEMMA LeadsEnumerate ==
  ASSUME NEW X, X \subseteq CandidateType, NEW n \in Nat, NEW t, Leads(t, X, n), Len(t) < n
  PROVE  Enumerates(t, X)
<1>1. Len(t) \in Nat /\ \A i, j \in 1..Len(t) : t[i] = t[j] => i = j
  BY LeadsFacts
<1> QED
  BY <1>1 DEF Leads, Enumerates

LEMMA PushBest ==
  ASSUME NEW S, S \subseteq CandidateType, OneText(S), Plain(S), NEW X \in SUBSET S,
         NEW c \in S, c \notin X, NEW n \in Nat \ {0}, NEW t, Best(t, X, n)
  PROVE  Best(PushOn(t, c, n), X \cup {c}, n)
<1> DEFINE Y == X \cup {c}
<1>1. /\ X \subseteq CandidateType /\ OneText(X)
      /\ Y \subseteq CandidateType /\ OneText(Y) /\ Plain(Y)
  BY DEF OneText, Plain
<1>2. /\ Leads(t, X, n) /\ Len(t) <= n /\ t \in Seq(X) /\ Len(t) \in Nat
      /\ \A i \in 1..Len(t) : t[i] \in X /\ t[i] \in S
      /\ \A i, j \in 1..Len(t) : t[i] = t[j] => i = j
      /\ \A i, j \in 1..Len(t) : i < j => ByRank(t[i], t[j])
      /\ \A x \in X : \/ \E i \in 1..Len(t) : t[i] = x
                      \/ Len(t) >= n /\ \A i \in 1..Len(t) : ByRank(t[i], x)
  <2>1. Leads(t, X, n) /\ Len(t) <= n
    BY DEF Best
  <2>2. /\ t \in Seq(X) /\ Len(t) \in Nat
        /\ \A i \in 1..Len(t) : t[i] \in X
        /\ \A i, j \in 1..Len(t) : t[i] = t[j] => i = j
    BY <1>1, <2>1, LeadsFacts
  <2>3. \A i \in 1..Len(t) : t[i] \in S
    BY <2>2
  <2> QED
    BY <2>1, <2>2, <2>3 DEF Leads
<1>3. \A x, y \in S : ByFreq(x, y) <=> ByRank(x, y)
  BY DEF Plain, ByFreq, ByRank
<1>4. /\ \A x, y, z \in S : ByRank(x, y) /\ ByRank(y, z) => ByRank(x, z)
      /\ \A x, y \in S : x = y \/ ByRank(x, y) \/ ByRank(y, x)
  BY RankOrder
<1>5. CASE Len(t) < n
  <2>1. PushOn(t, c, n) = Sorted(Append(t, c), ByFreq)
    <3>1. Len(t) # n
      BY <1>2, <1>5
    <3> QED
      BY <3>1 DEF PushOn
  <2>2. Enumerates(t, X)
    BY <1>1, <1>2, <1>5, LeadsEnumerate
  <2>3. Enumerates(Append(t, c), Y) /\ Len(Append(t, c)) = Len(t) + 1
    BY <2>2, AppendEnumerates
  <2>4. Leads(Sorted(Append(t, c), ByFreq), Y, n) /\ Len(Sorted(Append(t, c), ByFreq)) = Len(t) + 1
    <3> HIDE DEF Y
    <3> QED
      BY <1>1, <2>3, FreqSortLeads
  <2>5. Len(t) + 1 <= n
    BY <1>2, <1>5
  <2> QED
    BY <2>1, <2>4, <2>5 DEF Best
<1>6. CASE Len(t) = n /\ ByFreq(c, t[n])
  <2> DEFINE u == SubSeq(t, 1, n - 1)
             T == {t[i] : i \in 1..(n - 1)}
             s == Sorted(Append(u, c), ByFreq)
  <2>1. n \in 1..Len(t) /\ t[n] \in S /\ ByRank(c, t[n])
    <3>1. n \in 1..Len(t)
      BY <1>6
    <3> QED
      BY <1>2, <1>3, <1>6, <3>1
  <2>2. PushOn(t, c, n) = s
    <3>1. Front(t) = u
      BY <1>6 DEF Front
    <3> QED
      BY <1>6, <3>1 DEF PushOn
  <2>3. Enumerates(u, T) /\ Len(u) = n - 1
    <3> DEFINE X0 == {t[i] : i \in 1..Len(t)}
    <3>1. Enumerates(t, X0)
      <4>1. t \in Seq(X0)
        <5>1. \A i \in 1..Len(t) : t[i] \in X0
          OBVIOUS
        <5>2. t = [i \in 1..Len(t) |-> t[i]]
          BY <1>2
        <5> HIDE DEF X0
        <5> QED
          BY <1>2, <5>1, <5>2
      <4> QED
        BY <1>2, <4>1 DEF Enumerates
    <3>2. 1 \in 1..(Len(t) + 1) /\ n - 1 \in (1 - 1)..Len(t)
      BY <1>6
    <3> HIDE DEF X0
    <3>3. Enumerates(u, {t[i] : i \in 1..(n - 1)}) /\ Len(u) = (n - 1) - 1 + 1
      BY <3>1, <3>2, SubSeqEnumerates
    <3> QED
      BY <3>3
  <2>4. T \subseteq X /\ c \notin T
    BY <1>2, <1>6
  <2>5. Enumerates(Append(u, c), T \cup {c}) /\ Len(Append(u, c)) = n
    <3> HIDE DEF T, u
    <3>1. Len(Append(u, c)) = Len(u) + 1 /\ Enumerates(Append(u, c), T \cup {c})
      BY <2>3, <2>4, AppendEnumerates
    <3> QED
      BY <2>3, <3>1
  <2>6. T \cup {c} \subseteq CandidateType /\ OneText(T \cup {c}) /\ Plain(T \cup {c})
    <3> HIDE DEF T
    <3> QED
      BY <1>1, <2>4 DEF OneText, Plain
  <2>7. Leads(s, T \cup {c}, n) /\ Len(s) = n
    <3> HIDE DEF T, u
    <3> QED
      BY <2>5, <2>6, FreqSortLeads
  <2>8. ASSUME NEW x \in Y, x \notin T \cup {c} PROVE x = t[n] \/ ByRank(t[n], x)
    <3>1. x \in X
      BY <2>8
    <3>2. CASE \E i \in 1..Len(t) : t[i] = x
      <4>1. PICK i \in 1..Len(t) : t[i] = x
        BY <3>2
      <4>2. ~(i \in 1..(n - 1))
        BY <2>8, <4>1
      <4>3. i = n
        BY <1>6, <4>2
      <4> QED
        BY <4>1, <4>3
    <3>3. CASE \A i \in 1..Len(t) : ByRank(t[i], x)
      BY <2>1, <3>3
    <3> QED
      BY <1>2, <3>1, <3>2, <3>3
  <2>9. \A y \in T \cup {c} : ByRank(y, t[n])
    <3>1. ASSUME NEW i \in 1..(n - 1) PROVE ByRank(t[i], t[n])
      <4>1. i \in 1..Len(t) /\ i < n
        BY <1>6
      <4> QED
        BY <1>2, <2>1, <4>1
    <3> QED
      BY <2>1, <3>1
  <2> HIDE DEF s, T, u
  <2>10. \A i \in 1..Len(s) : s[i] \in T \cup {c} /\ s[i] \in S
    <3>1. \A i \in 1..Len(s) : s[i] \in T \cup {c}
      BY <2>6, <2>7, LeadsFacts
    <3> QED
      BY <2>4, <3>1
  <2>11. ASSUME NEW x \in Y
         PROVE  \/ \E i \in 1..Len(s) : s[i] = x
                \/ Len(s) >= n /\ \A i \in 1..Len(s) : ByRank(s[i], x)
    <3>1. CASE x \in T \cup {c}
      BY <1>2, <2>7, <3>1 DEF Leads, Y
    <3>2. CASE x \notin T \cup {c}
      <4>1. x \in S /\ (x = t[n] \/ ByRank(t[n], x))
        BY <2>8, <3>2
      <4>2. \A i \in 1..Len(s) : ByRank(s[i], x)
        BY <1>4, <2>1, <2>9, <2>10, <4>1
      <4> QED
        BY <2>7, <4>2
    <3> QED
      BY <3>1, <3>2
  <2>12. s \in Seq(Y) /\ \A i, j \in 1..Len(s) : i < j => ByRank(s[i], s[j])
    <3>1. s \in Seq(T \cup {c}) /\ T \cup {c} \subseteq Y
      BY <2>4, <2>7 DEF Leads
    <3>2. s \in Seq(Y)
      BY <3>1, SeqMonotonic
    <3> QED
      BY <2>7, <3>2 DEF Leads
  <2>13. Leads(s, Y, n)
    BY <2>11, <2>12 DEF Leads
  <2>14. Len(s) <= n
    BY <2>7
  <2> QED
    BY <2>2, <2>13, <2>14 DEF Best
<1>7. CASE Len(t) = n /\ ~ByFreq(c, t[n])
  <2>1. PushOn(t, c, n) = t
    BY <1>7 DEF PushOn
  <2>2. n \in 1..Len(t) /\ t[n] \in S /\ t[n] \in X
    <3>1. n \in 1..Len(t)
      BY <1>7
    <3> QED
      BY <1>2, <3>1
  <2>3. ByRank(t[n], c)
    BY <1>3, <1>4, <1>7, <2>2
  <2>4. \A i \in 1..Len(t) : ByRank(t[i], c)
    <3>1. ASSUME NEW i \in 1..Len(t), i # n PROVE ByRank(t[i], c)
      <4>1. i < n
        BY <1>7, <3>1
      <4>2. ByRank(t[i], t[n]) /\ t[i] \in S
        BY <1>2, <2>2, <4>1
      <4> QED
        BY <1>4, <2>2, <2>3, <4>2
    <3> QED
      BY <2>3, <3>1
  <2>5. t \in Seq(Y)
    <3>1. X \subseteq Y
      OBVIOUS
    <3> QED
      BY <1>2, <3>1, SeqMonotonic
  <2>6. ASSUME NEW x \in Y
        PROVE  \/ \E i \in 1..Len(t) : t[i] = x
               \/ Len(t) >= n /\ \A i \in 1..Len(t) : ByRank(t[i], x)
    BY <1>2, <1>7, <2>4, <2>6
  <2>7. Leads(t, Y, n)
    <3> HIDE DEF Y
    <3> QED
      BY <1>2, <2>5, <2>6 DEF Leads
  <2> QED
    BY <1>2, <2>1, <2>7 DEF Best
<1> QED
  BY <1>2, <1>5, <1>6, <1>7

(* The candidates of a block, and of the blocks at some positions.         *)
BlockCands(i) == {Stored(bin.keys[i], bin.blocks[i][j]) : j \in 1..Len(bin.blocks[i])}

BlocksCands(P) == {c \in CandidateType : \E i \in P : c \in BlockCands(i)}

LEMMA BlockLeads ==
  ASSUME NEW rows, RowsFine(rows), BuiltOK(bin, rows), NEW k \in 1..Len(bin.keys), NEW n \in Nat
  PROVE  /\ BlockCands(k) \subseteq CandidateType /\ OneText(BlockCands(k)) /\ Plain(BlockCands(k))
         /\ \A c \in BlockCands(k) : c.pinyin = bin.keys[k]
         /\ Leads(DecodeBlock(k, n), BlockCands(k), n) /\ Len(DecodeBlock(k, n)) <= n
<1> DEFINE B == bin.blocks[k]
           d == DecodeBlock(k, n)
           f == [j \in 1..Len(B) |-> Stored(bin.keys[k], B[j])]
<1>1. /\ Len(B) \in Nat
      /\ \A j \in 1..Len(B) : B[j] \in TextsOf(rows, bin.keys[k]) /\ B[j].text \in Nat /\ B[j].freq \in Nat
      /\ \A i, j \in 1..Len(B) : i < j => ByFreq(B[i], B[j])
  <2>1. \A x \in TextsOf(rows, bin.keys[k]) : x.freq \in Nat /\ x.text \in Nat
    BY TextsOfFacts
  <2> QED
    BY <2>1, BlockFacts
<1>2. bin.keys[k] \in Seq(Nat)
  BY KeyFacts
<1> HIDE DEF B
<1>3. \A j \in 1..Len(B) : /\ f[j] \in CandidateType /\ f[j].pinyin = bin.keys[k]
                           /\ f[j].text = B[j].text /\ f[j].freq = B[j].freq /\ f[j].eff = B[j].freq
  BY <1>1, <1>2, StoredIs
<1>4. BlockCands(k) = {f[j] : j \in 1..Len(B)}
  BY DEF BlockCands, B
<1>5. /\ d \in Seq(Homophones(bin.keys[k]))
      /\ Len(d) = (IF n < Len(B) THEN n ELSE Len(B))
      /\ \A i \in 1..Len(d) : i \in 1..Len(B) /\ d[i] = f[i]
  BY DecodeFacts DEF B
<1> HIDE DEF d
<1> HIDE DEF f
<1>6. \A i, j \in 1..Len(B) : i < j => ByRank(f[i], f[j])
  BY <1>1, <1>3 DEF ByFreq, ByRank
<1>7. BlockCands(k) \subseteq CandidateType /\ Plain(BlockCands(k))
  BY <1>3, <1>4 DEF Plain
<1>8. OneText(BlockCands(k))
  <2>1. ASSUME NEW i \in 1..Len(B), NEW j \in 1..Len(B), f[i].text = f[j].text PROVE f[i] = f[j]
    <3>1. B[i].text = B[j].text
      BY <1>3, <2>1
    <3>2. B[i] = B[j]
      BY <1>1, <3>1, TextsOfFacts
    <3> QED
      BY <3>2 DEF f
  <2> QED
    BY <1>4, <2>1 DEF OneText
<1>9. d \in Seq(BlockCands(k))
  <2>1. \A i \in 1..Len(d) : d[i] \in BlockCands(k)
    BY <1>4, <1>5
  <2> QED
    BY <1>5, <2>1
<1>10. \A i, j \in 1..Len(d) : i < j => ByRank(d[i], d[j])
  BY <1>5, <1>6
<1>11. ASSUME NEW x \in BlockCands(k)
       PROVE  \/ \E i \in 1..Len(d) : d[i] = x
              \/ Len(d) >= n /\ \A i \in 1..Len(d) : ByRank(d[i], x)
  <2>1. PICK j \in 1..Len(B) : x = f[j]
    BY <1>4
  <2>2. CASE j <= Len(d)
    <3>1. j \in 1..Len(d)
      BY <1>5, <2>2
    <3> QED
      BY <1>5, <2>1, <3>1
  <2>3. CASE ~(j <= Len(d))
    <3>1. Len(d) = n /\ \A i \in 1..Len(d) : i < j
      BY <1>1, <1>5, <2>3
    <3> QED
      BY <1>5, <1>6, <2>1, <3>1
  <2> QED
    BY <2>2, <2>3
<1>12. Len(d) <= n
  BY <1>1, <1>5
<1> QED
  BY <1>3, <1>4, <1>7, <1>8, <1>9, <1>10, <1>11, <1>12 DEF Leads, d

LEMMA BestWidened ==
  ASSUME NEW S, S \subseteq CandidateType, OneText(S), NEW X \in SUBSET S, NEW n \in Nat,
         NEW t, Best(t, X, n), \A y \in S : y \notin X => Outranked(y, X, n)
  PROVE  Best(t, S, n)
<1>1. Leads(t, X, n) /\ Len(t) <= n /\ t \in Seq(X) /\ Len(t) \in Nat
  BY DEF Best, Leads
<1>2. Leads(Take(t, n), S, n)
  BY <1>1, Widened, Zenon
<1>3. Take(t, n) = t
  <2>1. (IF n < Len(t) THEN n ELSE Len(t)) = Len(t)
    BY <1>1
  <2>2. SubSeq(t, 1, Len(t)) = t
    BY <1>1, SubSeqFull
  <2> QED
    BY <2>1, <2>2, Zenon DEF Take
<1> QED
  BY <1>1, <1>2, <1>3 DEF Best

(* The folds over a block and over blocks, where all can be compared.      *)
Comparable(A) == \A x \in A : x.freq \in Nat /\ x.text \in Nat

Collected(top, i, limit, h) ==
  /\ h[0] = top /\ h[Len(DecodeBlock(i, limit))] = CollectBlock(top, i, limit)
  /\ \A m \in 1..Len(DecodeBlock(i, limit)) :
       h[m] = PushOn(h[m - 1], DecodeBlock(i, limit)[m], limit)

LEMMA CollectedFrom ==
  ASSUME NEW A, Comparable(A), NEW top \in Seq(A), NEW limit \in Nat \ {0}, NEW i,
         DecodeBlock(i, limit) \in Seq(A)
  PROVE  \E h \in [0..Len(DecodeBlock(i, limit)) -> Seq(A)] : Collected(top, i, limit, h)
BY CollectTrace DEF Comparable, Collected

LEMMA CollectBest ==
  ASSUME NEW rows, RowsFine(rows), BuiltOK(bin, rows), NEW k \in 1..Len(bin.keys),
         NEW n \in Nat \ {0}, NEW X, X \subseteq CandidateType, Plain(X),
         OneText(X \cup BlockCands(k)), X \cap BlockCands(k) = {}, NEW top, Best(top, X, n)
  PROVE  Best(CollectBlock(top, k, n), X \cup BlockCands(k), n)
<1> DEFINE B == BlockCands(k)
           S == X \cup B
           d == DecodeBlock(k, n)
           Done(m) == X \cup {d[i] : i \in 1..m}
<1>1. /\ B \subseteq CandidateType /\ Plain(B)
      /\ Leads(d, B, n) /\ Len(d) <= n
  BY BlockLeads
<1>2. S \subseteq CandidateType /\ OneText(S) /\ Plain(S) /\ n \in Nat /\ X \cap B = {}
  BY <1>1 DEF Plain
<1>3. /\ d \in Seq(B) /\ Len(d) \in Nat /\ \A i \in 1..Len(d) : d[i] \in B
      /\ \A i, j \in 1..Len(d) : d[i] = d[j] => i = j
      /\ \A i, j \in 1..Len(d) : i < j => ByRank(d[i], d[j])
      /\ \A x \in B : \/ \E i \in 1..Len(d) : d[i] = x
                      \/ Len(d) >= n /\ \A i \in 1..Len(d) : ByRank(d[i], x)
  <2>1. /\ d \in Seq(B) /\ Len(d) \in Nat /\ \A i \in 1..Len(d) : d[i] \in B
        /\ \A i, j \in 1..Len(d) : d[i] = d[j] => i = j
    <3> HIDE DEF B, d
    <3> QED
      BY <1>1, <1>2, LeadsFacts
  <2> QED
    BY <1>1, <2>1 DEF Leads
<1> HIDE DEF B
<1>4. \E h \in [0..Len(d) -> Seq(S)] :
        /\ h[0] = top /\ h[Len(d)] = CollectBlock(top, k, n)
        /\ \A m \in 1..Len(d) : h[m] = PushOn(h[m - 1], d[m], n)
  <2>1. \A x \in S : x.freq \in Nat /\ x.text \in Nat
    BY <1>2 DEF CandidateType
  <2>2. top \in Seq(S)
    <3>1. top \in Seq(X) /\ X \subseteq S
      BY DEF Best, Leads
    <3> QED
      BY <3>1, SeqMonotonic
  <2>3. DecodeBlock(k, n) \in Seq(S)
    <3>1. B \subseteq S
      OBVIOUS
    <3> QED
      BY <1>3, <3>1, SeqMonotonic
  <2> HIDE DEF S, d
  <2>4. Comparable(S)
    BY <2>1 DEF Comparable
  <2>5. \E h \in [0..Len(DecodeBlock(k, n)) -> Seq(S)] : Collected(top, k, n, h)
    BY <2>2, <2>3, <2>4, CollectedFrom
  <2> QED
    BY <2>5 DEF d, Collected
<1> HIDE DEF d
<1>5. PICK h \in [0..Len(d) -> Seq(S)] :
        /\ h[0] = top /\ h[Len(d)] = CollectBlock(top, k, n)
        /\ \A m \in 1..Len(d) : h[m] = PushOn(h[m - 1], d[m], n)
  BY <1>4
<1> DEFINE T == {m \in Nat : m <= Len(d) => Best(h[m], Done(m), n)}
<1>6. 0 \in T
  <2>1. Done(0) = X
    OBVIOUS
  <2> HIDE DEF Done
  <2> QED
    BY <1>5, <2>1
<1>7. ASSUME NEW m \in T PROVE m + 1 \in T
  <2>1. m \in Nat
    BY <1>7
  <2> SUFFICES ASSUME m + 1 <= Len(d) PROVE Best(h[m + 1], Done(m + 1), n)
    BY <2>1
  <2>2. m + 1 \in 1..Len(d) /\ (m + 1) - 1 = m /\ m <= Len(d)
    BY <1>3, <2>1
  <2>3. Best(h[m], Done(m), n)
    BY <1>7, <2>2
  <2>4. h[m + 1] = PushOn(h[m], d[m + 1], n)
    BY <1>5, <2>2
  <2>5. \A i \in 1..m : i \in 1..Len(d) /\ i # m + 1
    BY <1>3, <2>1, <2>2
  <2>6. Done(m) \in SUBSET S /\ d[m + 1] \in S /\ d[m + 1] \notin Done(m)
    <3>1. d[m + 1] \in B /\ d[m + 1] \notin X
      BY <1>2, <1>3, <2>2
    <3>2. \A i \in 1..m : d[i] \in B /\ d[i] # d[m + 1]
      BY <1>3, <2>2, <2>5
    <3> QED
      BY <3>1, <3>2
  <2>7. Done(m + 1) = Done(m) \cup {d[m + 1]}
    <3>1. 1..(m + 1) = (1..m) \cup {m + 1}
      BY <2>1
    <3> QED
      BY <3>1
  <2> HIDE DEF Done, S
  <2> QED
    BY <1>2, <2>3, <2>4, <2>6, <2>7, PushBest
<1>8. T = Nat
  <2> HIDE DEF T
  <2>1. T \in SUBSET Nat
    BY DEF T
  <2> QED
    BY <1>6, <1>7, <2>1, NatSet
<1>9. Best(h[Len(d)], Done(Len(d)), n)
  <2>1. Len(d) \in T
    <3> HIDE DEF T
    <3> QED
      BY <1>3, <1>8
  <2>2. Len(d) <= Len(d)
    BY <1>3
  <2> QED
    BY <2>1, <2>2
<1>10. Done(Len(d)) \in SUBSET S
  BY <1>3
<1>11. ASSUME NEW y \in S, y \notin Done(Len(d)) PROVE Outranked(y, Done(Len(d)), n)
  <2>1. y \in B /\ ~\E i \in 1..Len(d) : d[i] = y
    BY <1>11
  <2>2. Len(d) >= n /\ \A i \in 1..Len(d) : ByRank(d[i], y)
    BY <1>3, <2>1
  <2>3. d \in Seq(Done(Len(d)))
    <3>1. \A i \in 1..Len(d) : d[i] \in Done(Len(d))
      OBVIOUS
    <3> QED
      BY <1>3, <3>1
  <2> QED
    BY <1>3, <2>2, <2>3 DEF Outranked
<1>12. Best(h[Len(d)], S, n)
  <2> DEFINE D == Done(Len(d))
  <2>1. D \in SUBSET S /\ Best(h[Len(d)], D, n) /\ \A y \in S : y \notin D => Outranked(y, D, n)
    BY <1>9, <1>10, <1>11
  <2> HIDE DEF D, S
  <2> QED
    BY <1>2, <2>1, BestWidened
<1> QED
  BY <1>5, <1>12 DEF B

LEMMA BlocksTogether ==
  ASSUME NEW rows, RowsFine(rows), BuiltOK(bin, rows), NEW P \in SUBSET (1..Len(bin.keys)),
         NEW k \in 1..Len(bin.keys), k \notin P
  PROVE  /\ BlocksCands(P \cup {k}) = BlocksCands(P) \cup BlockCands(k)
         /\ BlocksCands(P) \cap BlockCands(k) = {}
         /\ BlocksCands(P) \subseteq CandidateType /\ Plain(BlocksCands(P))
<1>1. \A i \in 1..Len(bin.keys) :
        /\ BlockCands(i) \subseteq CandidateType /\ Plain(BlockCands(i))
        /\ \A c \in BlockCands(i) : c.pinyin = bin.keys[i]
  <2>1. 1 \in Nat
    OBVIOUS
  <2> QED
    BY <2>1, BlockLeads
<1>2. \A i, j \in 1..Len(bin.keys) : bin.keys[i] = bin.keys[j] => i = j
  BY KeyFacts
<1>3. BlocksCands(P \cup {k}) = BlocksCands(P) \cup BlockCands(k)
  BY <1>1 DEF BlocksCands
<1>4. BlocksCands(P) \cap BlockCands(k) = {}
  <2> SUFFICES ASSUME NEW i \in P, NEW c \in BlockCands(i), c \in BlockCands(k) PROVE FALSE
    BY DEF BlocksCands
  <2>1. c.pinyin = bin.keys[i] /\ c.pinyin = bin.keys[k]
    BY <1>1
  <2> QED
    BY <1>2, <2>1
<1>5. BlocksCands(P) \subseteq CandidateType /\ Plain(BlocksCands(P))
  BY <1>1 DEF BlocksCands, Plain
<1> QED
  BY <1>3, <1>4, <1>5

Walked(w, limit, h) ==
  /\ h[0] = <<>> /\ h[Len(w)] = Walk(w, limit)
  /\ \A m \in 1..Len(w) : h[m] = CollectBlock(h[m - 1], w[m], limit)

Decodable(D, limit, A) == \A i \in D : DecodeBlock(i, limit) \in Seq(A)

LEMMA WalkedFrom ==
  ASSUME NEW A, Comparable(A), NEW limit \in Nat \ {0}, NEW D, NEW w \in Seq(D),
         Decodable(D, limit, A)
  PROVE  \E h \in [0..Len(w) -> Seq(A)] : Walked(w, limit, h)
BY WalkTrace DEF Comparable, Walked, Decodable

(* The best of the blocks walked, whatever the order.                      *)
LEMMA WalkBest ==
  ASSUME NEW rows, RowsFine(rows), BuiltOK(bin, rows), NEW P \in SUBSET (1..Len(bin.keys)),
         NEW w, Enumerates(w, P), NEW n \in Nat \ {0}, OneText(BlocksCands(P))
  PROVE  Best(Walk(w, n), BlocksCands(P), n)
<1> DEFINE A == BlocksCands(P)
           Upto(m) == {w[j] : j \in 1..m}
<1>1. /\ w \in Seq(P) /\ Len(w) \in Nat /\ \A i \in 1..Len(w) : w[i] \in P
      /\ \A i, j \in 1..Len(w) : w[i] = w[j] => i = j
      /\ \A x \in P : \E i \in 1..Len(w) : w[i] = x
  BY EnumeratesCounts DEF Enumerates
<1>2. \A i \in P : /\ BlockCands(i) \subseteq A
                   /\ Leads(DecodeBlock(i, n), BlockCands(i), n)
  <2> TAKE i \in P
  <2>1. n \in Nat /\ i \in 1..Len(bin.keys)
    OBVIOUS
  <2>2. BlockCands(i) \subseteq CandidateType /\ Leads(DecodeBlock(i, n), BlockCands(i), n)
    BY <2>1, BlockLeads
  <2> QED
    BY <2>2 DEF BlocksCands
<1>3. Decodable(P, n, A)
  <2> SUFFICES ASSUME NEW i \in P PROVE DecodeBlock(i, n) \in Seq(A)
    BY DEF Decodable
  <2> HIDE DEF A
  <2>1. DecodeBlock(i, n) \in Seq(BlockCands(i)) /\ BlockCands(i) \subseteq A
    BY <1>2 DEF Leads
  <2> QED
    BY <2>1, SeqMonotonic
<1>4. A \subseteq CandidateType /\ Comparable(A)
  BY DEF BlocksCands, Comparable, CandidateType
<1>5. PICK h \in [0..Len(w) -> Seq(A)] : Walked(w, n, h)
  <2> HIDE DEF A
  <2> QED
    BY <1>1, <1>3, <1>4, WalkedFrom
<1> DEFINE T == {m \in Nat : m <= Len(w) => Best(h[m], BlocksCands(Upto(m)), n)}
<1>6. 0 \in T
  <2>1. BlocksCands(Upto(0)) = {} /\ h[0] = <<>>
    BY <1>5 DEF BlocksCands, Walked
  <2> HIDE DEF Upto
  <2> QED
    BY <2>1 DEF Best, Leads
<1>7. ASSUME NEW m \in T PROVE m + 1 \in T
  <2>1. m \in Nat
    BY <1>7
  <2> SUFFICES ASSUME m + 1 <= Len(w) PROVE Best(h[m + 1], BlocksCands(Upto(m + 1)), n)
    BY <2>1
  <2>2. m + 1 \in 1..Len(w) /\ (m + 1) - 1 = m /\ m <= Len(w)
    BY <1>1, <2>1
  <2>3. Best(h[m], BlocksCands(Upto(m)), n)
    BY <1>7, <2>2
  <2>4. h[m + 1] = CollectBlock(h[m], w[m + 1], n)
    BY <1>5, <2>2 DEF Walked
  <2>5. \A i \in 1..m : i \in 1..Len(w) /\ i # m + 1
    BY <1>1, <2>1, <2>2
  <2>6. Upto(m) \in SUBSET P /\ w[m + 1] \in P /\ w[m + 1] \notin Upto(m)
    BY <1>1, <2>2, <2>5
  <2>7. Upto(m + 1) = Upto(m) \cup {w[m + 1]}
    <3>1. 1..(m + 1) = (1..m) \cup {m + 1}
      BY <2>1
    <3> QED
      BY <3>1
  <2> DEFINE Q == Upto(m)
             k == w[m + 1]
  <2>8. Q \in SUBSET (1..Len(bin.keys)) /\ k \in 1..Len(bin.keys) /\ k \notin Q
    BY <2>6
  <2>9. Best(h[m], BlocksCands(Q), n) /\ h[m + 1] = CollectBlock(h[m], k, n)
    BY <2>3, <2>4
  <2>10. Upto(m + 1) = Q \cup {k} /\ Q \cup {k} \in SUBSET P
    BY <2>6, <2>7
  <2> HIDE DEF Q, k, Upto
  <2>11. /\ BlocksCands(Q \cup {k}) = BlocksCands(Q) \cup BlockCands(k)
         /\ BlocksCands(Q) \cap BlockCands(k) = {}
         /\ BlocksCands(Q) \subseteq CandidateType /\ Plain(BlocksCands(Q))
    BY <2>8, BlocksTogether
  <2>12. OneText(BlocksCands(Q) \cup BlockCands(k))
    <3>1. BlocksCands(Q \cup {k}) \subseteq BlocksCands(P)
      BY <2>10 DEF BlocksCands
    <3> QED
      BY <2>11, <3>1 DEF OneText
  <2>13. Best(CollectBlock(h[m], k, n), BlocksCands(Q) \cup BlockCands(k), n)
    BY <2>8, <2>9, <2>11, <2>12, CollectBest
  <2> QED
    BY <2>9, <2>10, <2>11, <2>13
<1>8. T = Nat
  <2> HIDE DEF T
  <2>1. T \in SUBSET Nat
    BY DEF T
  <2> QED
    BY <1>6, <1>7, <2>1, NatSet
<1>9. Len(w) \in T /\ Len(w) <= Len(w)
  <2> HIDE DEF T
  <2> QED
    BY <1>1, <1>8
<1>10. Best(h[Len(w)], BlocksCands(Upto(Len(w))), n)
  BY <1>9
<1>11. Upto(Len(w)) = P
  BY <1>1
<1> QED
  BY <1>5, <1>10, <1>11 DEF Walked

----------------------------------------------------------------------------
(* What the file holds of some readings.                                   *)
FileRow(r) == [text |-> r.text, pinyin |-> r.pinyin, freq |-> r.freq, eff |-> r.freq]

FileSet(rows, K) == {FileRow(r) : r \in {x \in rows : x.pinyin \in K}}

KeysIn(K) == {i \in DOMAIN bin.keys : bin.keys[i] \in K}

LEMMA FileRowFacts ==
  ASSUME NEW r \in RowType
  PROVE  /\ FileRow(r) \in CandidateType /\ FileRow(r).text = r.text
         /\ FileRow(r).pinyin = r.pinyin /\ FileRow(r).freq = r.freq /\ FileRow(r).eff = r.freq
BY DEF FileRow, RowType, CandidateType

LEMMA FileSetFacts ==
  ASSUME NEW rows, RowsFine(rows), NEW K
  PROVE  /\ FileSet(rows, K) \subseteq CandidateType /\ Plain(FileSet(rows, K))
         /\ IsFiniteSet(FileSet(rows, K))
         /\ \A c \in FileSet(rows, K) : c.pinyin \in K
<1> DEFINE R == {x \in rows : x.pinyin \in K}
<1>1. IsFiniteSet(R) /\ R \subseteq RowType
  <2>1. R \subseteq rows /\ IsFiniteSet(rows) /\ rows \subseteq RowType
    BY DEF RowsFine
  <2> QED
    BY <2>1, FS_Subset
<1>2. \A r \in R : FileRow(r) \in CandidateType /\ FileRow(r).eff = FileRow(r).freq /\ FileRow(r).pinyin \in K
  BY <1>1, FileRowFacts
<1>3. FileSet(rows, K) = {FileRow(r) : r \in R}
  BY DEF FileSet
<1> HIDE DEF R
<1>4. IsFiniteSet({FileRow(r) : r \in R})
  <2> DEFINE f == [r \in R |-> FileRow(r)]
  <2>1. f \in Surjection(R, {FileRow(r) : r \in R})
    BY DEF Surjection
  <2> QED
    BY <1>1, <2>1, FS_Surjection
<1> QED
  BY <1>2, <1>3, <1>4 DEF Plain

LEMMA BlockRows ==
  ASSUME NEW rows, RowsFine(rows), BuiltOK(bin, rows), NEW k \in 1..Len(bin.keys)
  PROVE  BlockCands(k) = {FileRow(r) : r \in {x \in rows : x.pinyin = bin.keys[k]}}
<1> DEFINE B == bin.blocks[k]
           key == bin.keys[k]
<1>1. /\ \A j \in 1..Len(B) : B[j] \in TextsOf(rows, key)
      /\ \A x \in TextsOf(rows, key) : \E j \in 1..Len(B) : B[j] = x
  BY BlockFacts
<1>2. BlockCands(k) = {Stored(key, B[j]) : j \in 1..Len(B)}
  BY DEF BlockCands
<1> HIDE DEF B, key
<1>3. BlockCands(k) = {Stored(key, x) : x \in TextsOf(rows, key)}
  BY <1>1, <1>2
<1>4. ASSUME NEW r \in rows, r.pinyin = key
      PROVE  Stored(key, [text |-> r.text, freq |-> r.freq]) = FileRow(r)
  BY <1>4 DEF Stored, FileRow
<1>5. {Stored(key, x) : x \in TextsOf(rows, key)} = {FileRow(r) : r \in {x \in rows : x.pinyin = key}}
  BY <1>4 DEF TextsOf
<1> QED
  BY <1>3, <1>5 DEF key

LEMMA BlocksAreRows ==
  ASSUME NEW rows, RowsFine(rows), BuiltOK(bin, rows), NEW K
  PROVE  /\ KeysIn(K) \in SUBSET (1..Len(bin.keys))
         /\ BlocksCands(KeysIn(K)) = FileSet(rows, K)
<1>1. /\ DOMAIN bin.keys = 1..Len(bin.keys)
      /\ \A k \in Readings(rows) : \E i \in 1..Len(bin.keys) : bin.keys[i] = k
  BY KeyFacts
<1>2. KeysIn(K) \in SUBSET (1..Len(bin.keys))
  BY <1>1 DEF KeysIn
<1>3. \A i \in 1..Len(bin.keys) :
        BlockCands(i) = {FileRow(r) : r \in {x \in rows : x.pinyin = bin.keys[i]}}
  BY BlockRows
<1>4. ASSUME NEW c \in BlocksCands(KeysIn(K)) PROVE c \in FileSet(rows, K)
  <2>1. PICK i \in KeysIn(K) : c \in BlockCands(i)
    BY DEF BlocksCands
  <2>2. i \in 1..Len(bin.keys) /\ bin.keys[i] \in K
    BY <1>2, <2>1 DEF KeysIn
  <2>3. PICK r \in rows : r.pinyin = bin.keys[i] /\ c = FileRow(r)
    BY <1>3, <2>1, <2>2
  <2> QED
    BY <2>2, <2>3 DEF FileSet
<1>5. ASSUME NEW c \in FileSet(rows, K) PROVE c \in BlocksCands(KeysIn(K))
  <2>1. PICK r \in rows : r.pinyin \in K /\ c = FileRow(r)
    BY DEF FileSet
  <2>2. r.pinyin \in Readings(rows)
    BY DEF Readings
  <2>3. PICK i \in 1..Len(bin.keys) : bin.keys[i] = r.pinyin
    BY <1>1, <2>2
  <2>4. i \in KeysIn(K)
    BY <1>1, <2>1, <2>3 DEF KeysIn
  <2>5. c \in BlockCands(i)
    BY <1>3, <2>1, <2>3
  <2>6. c \in CandidateType
    BY FileSetFacts
  <2> QED
    BY <2>4, <2>5, <2>6 DEF BlocksCands
<1> QED
  BY <1>2, <1>4, <1>5

(* Lookups in the file.                                                    *)
LEMMA ExactLeads ==
  ASSUME NEW rows, RowsFine(rows), BuiltOK(bin, rows), NEW key, NEW n \in Nat
  PROVE  /\ Leads(StoreExact(key, n), FileSet(rows, {key}), n)
         /\ OneText(FileSet(rows, {key})) /\ Len(StoreExact(key, n)) <= n
<1>1. /\ DOMAIN bin.keys = 1..Len(bin.keys)
      /\ \A k \in Readings(rows) : \E i \in 1..Len(bin.keys) : bin.keys[i] = k
      /\ \A i, j \in 1..Len(bin.keys) : bin.keys[i] = bin.keys[j] => i = j
  BY KeyFacts
<1>2. CASE \E i \in DOMAIN bin.keys : bin.keys[i] = key
  <2> DEFINE k == CHOOSE i \in DOMAIN bin.keys : bin.keys[i] = key
  <2>1. k \in 1..Len(bin.keys) /\ bin.keys[k] = key
    BY <1>1, <1>2
  <2>2. StoreExact(key, n) = DecodeBlock(k, n)
    BY <1>2 DEF StoreExact
  <2> HIDE DEF k
  <2>3. FileSet(rows, {key}) = BlockCands(k)
    <3>1. BlockCands(k) = {FileRow(r) : r \in {x \in rows : x.pinyin = bin.keys[k]}}
      BY <2>1, BlockRows
    <3> QED
      BY <2>1, <3>1 DEF FileSet
  <2>4. /\ OneText(BlockCands(k)) /\ Leads(DecodeBlock(k, n), BlockCands(k), n)
        /\ Len(DecodeBlock(k, n)) <= n
    BY <2>1, BlockLeads
  <2> QED
    BY <2>2, <2>3, <2>4
<1>3. CASE ~(\E i \in DOMAIN bin.keys : bin.keys[i] = key)
  <2>1. StoreExact(key, n) = <<>>
    BY <1>3 DEF StoreExact
  <2>2. FileSet(rows, {key}) = {}
    <3>1. \A r \in rows : r.pinyin # key
      BY <1>1, <1>3 DEF Readings
    <3> QED
      BY <3>1 DEF FileSet
  <2>3. StoreExact(key, n) \in Seq({}) /\ Len(StoreExact(key, n)) = 0
    BY <2>1
  <2>4. OneText({}) /\ Leads(StoreExact(key, n), {}, n)
    BY <2>3 DEF Leads, OneText
  <2>5. Len(StoreExact(key, n)) <= n
    BY <2>3
  <2> QED
    BY <2>2, <2>4, <2>5, Zenon
<1> QED
  BY <1>2, <1>3

(* The readings of a scan.                                                 *)
BeginWith(prefix, exclude) ==
  {k \in Seq(Nat) : IsPrefix(prefix, k) /\ prefix # <<>> /\ k # exclude}

LEMMA ScanLeads ==
  ASSUME NEW rows, RowsFine(rows), BuiltOK(bin, rows), NEW prefix \in Seq(Nat), NEW exclude,
         NEW n \in Nat \ {0}, OneText(FileSet(rows, BeginWith(prefix, exclude)))
  PROVE  /\ Leads(ScanRange(prefix, n, exclude), FileSet(rows, BeginWith(prefix, exclude)), n)
         /\ Len(ScanRange(prefix, n, exclude)) <= n
<1> DEFINE K == BeginWith(prefix, exclude)
           P == KeysIn(K)
<1>1. /\ Len(bin.keys) \in Nat /\ DOMAIN bin.keys = 1..Len(bin.keys)
      /\ \A i \in 1..Len(bin.keys) : bin.keys[i] \in Seq(Nat)
  BY KeyFacts
<1>2. RangeOfKeys(prefix, exclude) = P
  <2>1. ASSUME NEW i \in DOMAIN bin.keys
        PROVE  i \in RangeOfKeys(prefix, exclude) <=> i \in P
    <3> DEFINE k == bin.keys[i]
    <3>1. k \in Seq(Nat)
      BY <1>1, <2>1
    <3>2. i \in P <=> k \in K
      BY <2>1 DEF KeysIn
    <3>3. i \in RangeOfKeys(prefix, exclude)
            <=> (~Before(k, prefix) /\ Before(k, IncrementPrefix(prefix)) /\ k # exclude)
      BY <2>1 DEF RangeOfKeys
    <3> HIDE DEF k, P
    <3>4. (~Before(k, prefix) /\ Before(k, IncrementPrefix(prefix))) <=> (IsPrefix(prefix, k) /\ prefix # <<>>)
      BY <3>1, PrefixRange
    <3> QED
      BY <3>1, <3>2, <3>3, <3>4 DEF BeginWith
  <2> QED
    BY <2>1 DEF RangeOfKeys, KeysIn
<1>3. P \in SUBSET (1..Len(bin.keys)) /\ BlocksCands(P) = FileSet(rows, K)
  BY BlocksAreRows
<1> HIDE DEF P, K
<1>4. Enumerates(InOrder(P, <), P)
  BY <1>1, <1>3, PositionsInOrder
<1>5. ScanRange(prefix, n, exclude) = Walk(InOrder(P, <), n)
  BY <1>2, ScanIsWalk
<1>6. OneText(BlocksCands(P))
  BY <1>3 DEF K
<1>7. Best(Walk(InOrder(P, <), n), BlocksCands(P), n)
  BY <1>3, <1>4, <1>6, WalkBest
<1> QED
  BY <1>3, <1>5, <1>7 DEF Best, K

----------------------------------------------------------------------------
(* The hot table. A bucket holds the first entries of its prefix; where    *)
(* texts repeat their readings decide.                                     *)
Hot(s, X, m) ==
  /\ s \in Seq(X)
  /\ \A i, j \in 1..Len(s) : i < j => s[i] # s[j] /\ ~ByRank(s[j], s[i])
  /\ \A x \in X : \/ \E i \in 1..Len(s) : s[i] = x
                  \/ Len(s) >= m /\ \A i \in 1..Len(s) : ~ByRank(x, s[i])

StartsWith(p) == {k \in Seq(Nat) : IsPrefix(p, FirstSegment(k))}

HotStored(x) == Stored(bin.keys[x.key], x)

LEMMA HotStoredFacts ==
  ASSUME NEW rows, RowsFine(rows), BuiltOK(bin, rows), NEW p
  PROVE  /\ \A x \in HotSet(bin, p) :
              /\ HotStored(x) \in FileSet(rows, StartsWith(p))
              /\ x.freq \in Nat /\ x.text \in Nat /\ x.key \in DOMAIN bin.keys
              /\ HotStored(x).text = x.text /\ HotStored(x).eff = x.freq
              /\ HotStored(x).pinyin = bin.keys[x.key]
         /\ \A c \in FileSet(rows, StartsWith(p)) : \E x \in HotSet(bin, p) : HotStored(x) = c
<1>1. /\ DOMAIN bin.keys = 1..Len(bin.keys)
      /\ \A i \in 1..Len(bin.keys) : bin.keys[i] \in Seq(Nat)
      /\ \A k \in Readings(rows) : \E i \in 1..Len(bin.keys) : bin.keys[i] = k
  BY KeyFacts
<1>2. ASSUME NEW i \in 1..Len(bin.keys)
      PROVE  ToSet(bin.blocks[i]) = TextsOf(rows, bin.keys[i])
  <2>1. /\ DOMAIN bin.blocks[i] = 1..Len(bin.blocks[i])
        /\ \A j \in 1..Len(bin.blocks[i]) : bin.blocks[i][j] \in TextsOf(rows, bin.keys[i])
        /\ \A x \in TextsOf(rows, bin.keys[i]) :
             \E j \in 1..Len(bin.blocks[i]) : bin.blocks[i][j] = x
    BY BlockFacts
  <2> QED
    BY <2>1 DEF ToSet
<1>3. ASSUME NEW x \in HotSet(bin, p)
      PROVE  /\ HotStored(x) \in FileSet(rows, StartsWith(p))
             /\ x.freq \in Nat /\ x.text \in Nat /\ x.key \in DOMAIN bin.keys
             /\ HotStored(x).text = x.text /\ HotStored(x).eff = x.freq
             /\ HotStored(x).pinyin = bin.keys[x.key]
  <2>1. /\ x \in HotType /\ x.key \in 1..Len(bin.keys)
        /\ IsPrefix(p, FirstSegment(bin.keys[x.key]))
        /\ [text |-> x.text, freq |-> x.freq] \in TextsOf(rows, bin.keys[x.key])
    BY <1>1, <1>2 DEF HotSet
  <2> DEFINE k == bin.keys[x.key]
  <2>2. PICK r \in rows : r.pinyin = k /\ [text |-> x.text, freq |-> x.freq] = [text |-> r.text, freq |-> r.freq]
    BY <2>1 DEF TextsOf
  <2>3. x.text = r.text /\ x.freq = r.freq
    BY <2>2
  <2>4. HotStored(x) = FileRow(r)
    BY <2>2, <2>3 DEF HotStored, Stored, FileRow
  <2>5. k \in StartsWith(p)
    BY <1>1, <2>1 DEF StartsWith
  <2>6. FileRow(r) \in FileSet(rows, StartsWith(p))
    BY <2>2, <2>5 DEF FileSet
  <2>7. x.freq \in Nat /\ x.text \in Nat
    BY <2>1 DEF HotType
  <2> QED
    BY <1>1, <2>1, <2>4, <2>6, <2>7 DEF HotStored, Stored
<1>4. ASSUME NEW c \in FileSet(rows, StartsWith(p))
      PROVE  \E x \in HotSet(bin, p) : HotStored(x) = c
  <2>1. PICK r \in rows : r.pinyin \in StartsWith(p) /\ c = FileRow(r)
    BY DEF FileSet
  <2>2. PICK i \in 1..Len(bin.keys) : bin.keys[i] = r.pinyin
    BY <1>1 DEF Readings
  <2> DEFINE x == [text |-> r.text, freq |-> r.freq, key |-> i]
  <2>3. r.text \in Nat /\ r.freq \in Nat
    BY DEF RowsFine, RowType
  <2>4. i \in Nat
    OBVIOUS
  <2>5. x \in HotType
    BY <2>3, <2>4 DEF HotType
  <2>6. [text |-> r.text, freq |-> r.freq] \in TextsOf(rows, bin.keys[i])
    BY <2>2 DEF TextsOf
  <2>7. [text |-> x.text, freq |-> x.freq] \in ToSet(bin.blocks[x.key])
    BY <1>2, <2>6
  <2>8. IsPrefix(p, FirstSegment(bin.keys[x.key])) /\ x.key \in DOMAIN bin.keys
    BY <1>1, <2>1, <2>2 DEF StartsWith
  <2>9. x \in HotSet(bin, p)
    BY <2>5, <2>7, <2>8 DEF HotSet
  <2>10. HotStored(x) = c
    BY <2>1, <2>2 DEF HotStored, Stored, FileRow
  <2> QED
    BY <2>9, <2>10
<1> QED
  BY <1>3, <1>4

LEMMA HotIs ==
  ASSUME NEW rows, RowsFine(rows), BuiltOK(bin, rows), NEW p \in DOMAIN bin.topk,
         NEW m \in Nat, m <= TopK
  PROVE  /\ Hot(FetchTopK(p, m), FileSet(rows, StartsWith(p)), m)
         /\ Len(FetchTopK(p, m)) <= m
         /\ Len(bin.topk[p]) \in Nat /\ Len(bin.topk[p]) <= TopK
         /\ Len(FetchTopK(p, m)) = (IF m < Len(bin.topk[p]) THEN m ELSE Len(bin.topk[p]))
         /\ \A i \in 1..Len(FetchTopK(p, m)) :
              FetchTopK(p, m)[i].pinyin = bin.keys[bin.topk[p][i].key]
<1> DEFINE H == HotSet(bin, p)
           X == FileSet(rows, StartsWith(p))
           f == FetchTopK(p, m)
           b == bin.topk[p]
<1>1. PICK all : /\ Enumerates(all, H)
                 /\ \A i, j \in 1..Len(all) : i < j => ByFreqKey(all[i], all[j])
                 /\ b = Take(all, TopK)
  BY DEF BuiltOK, TopOK
<1>2. /\ Len(all) \in Nat /\ all \in Seq(H) /\ \A i \in 1..Len(all) : all[i] \in H
      /\ \A x \in H : \E i \in 1..Len(all) : all[i] = x
  BY <1>1, EnumeratesCounts DEF Enumerates
<1>3. TopK \in Nat
  BY DictionaryAssumption
<1>4. /\ \A x \in H : /\ HotStored(x) \in X /\ x.freq \in Nat /\ x.text \in Nat
                      /\ HotStored(x).text = x.text /\ HotStored(x).eff = x.freq
                      /\ HotStored(x).pinyin = bin.keys[x.key] /\ x.key \in DOMAIN bin.keys
      /\ \A c \in X : \E x \in H : HotStored(x) = c
  BY HotStoredFacts
<1>5. \A i, j \in DOMAIN bin.keys : bin.keys[i] = bin.keys[j] => i = j
  BY KeyFacts
<1> DEFINE t == Take(b, m)
<1>6. f = [i \in DOMAIN t |-> HotStored(t[i])]
  <2>1. FetchTopK(p, m) = [i \in DOMAIN t |-> Stored(bin.keys[t[i].key], t[i])]
    BY DEF FetchTopK
  <2> HIDE DEF t
  <2> QED
    BY <2>1 DEF HotStored
<1> HIDE DEF H, X, f, b
<1>7. /\ b \in Seq(H) /\ Len(b) = (IF TopK < Len(all) THEN TopK ELSE Len(all))
      /\ \A i \in 1..Len(b) : b[i] = all[i] /\ i \in 1..Len(all)
  BY <1>1, <1>2, <1>3, TakeFacts
<1>8. /\ t \in Seq(H) /\ Len(t) = (IF m < Len(b) THEN m ELSE Len(b))
      /\ \A i \in 1..Len(t) : t[i] = b[i] /\ i \in 1..Len(b)
  BY <1>7, TakeFacts
<1>9. Len(b) \in Nat /\ Len(t) \in Nat /\ DOMAIN t = 1..Len(t)
  BY <1>7, <1>8
<1> HIDE DEF t
<1>10. \A i \in 1..Len(t) : t[i] = all[i] /\ i \in 1..Len(all) /\ t[i] \in H /\ t[i] = b[i]
  BY <1>2, <1>7, <1>8
<1>11. f \in Seq(X) /\ Len(f) = Len(t) /\ \A i \in 1..Len(t) : f[i] = HotStored(t[i])
  <2>1. f \in [1..Len(t) -> X]
    BY <1>4, <1>6, <1>9, <1>10
  <2>2. f \in Seq(X) /\ Len(f) = Len(t)
    BY <1>9, <2>1
  <2> QED
    BY <1>6, <1>9, <2>2
<1>12. ASSUME NEW x \in H, NEW y \in H, ByFreqKey(x, y)
       PROVE  HotStored(x) # HotStored(y) /\ ~ByRank(HotStored(y), HotStored(x))
  <2>1. /\ x.freq \in Nat /\ x.text \in Nat /\ y.freq \in Nat /\ y.text \in Nat
        /\ HotStored(x).text = x.text /\ HotStored(x).eff = x.freq
        /\ HotStored(y).text = y.text /\ HotStored(y).eff = y.freq
        /\ HotStored(x).pinyin = bin.keys[x.key] /\ x.key \in DOMAIN bin.keys
        /\ HotStored(y).pinyin = bin.keys[y.key] /\ y.key \in DOMAIN bin.keys
    BY <1>4
  <2>2. ~ByRank(HotStored(y), HotStored(x))
    BY <1>12, <2>1 DEF ByFreqKey, ByFreq, ByRank
  <2>3. ASSUME HotStored(x) = HotStored(y) PROVE FALSE
    <3>1. x.key = y.key /\ x.freq = y.freq /\ x.text = y.text
      BY <1>5, <2>1, <2>3
    <3>2. x.key < y.key
      BY <1>12, <2>1, <3>1 DEF ByFreqKey, ByFreq
    <3>3. x.key \in Nat /\ DOMAIN bin.keys = 1..Len(bin.keys)
      BY <2>1, KeyFacts
    <3> QED
      BY <3>1, <3>2, <3>3
  <2> QED
    BY <2>2, <2>3
<1>13. \A i, j \in 1..Len(f) : i < j => f[i] # f[j] /\ ~ByRank(f[j], f[i])
  BY <1>1, <1>10, <1>11, <1>12
<1>14. ASSUME NEW c \in X
       PROVE  \/ \E i \in 1..Len(f) : f[i] = c
              \/ Len(f) >= m /\ \A i \in 1..Len(f) : ~ByRank(c, f[i])
  <2>1. PICK x \in H : HotStored(x) = c
    BY <1>4
  <2>2. PICK j \in 1..Len(all) : all[j] = x
    BY <1>2
  <2>3. CASE j <= Len(t)
    <3>1. j \in 1..Len(t)
      BY <1>9, <2>3
    <3> QED
      BY <1>10, <1>11, <2>1, <2>2, <3>1
  <2>4. CASE ~(j <= Len(t))
    <3>0. Len(t) = m /\ Len(t) < j
      <4>1. j \in Nat /\ j <= Len(all) /\ Len(t) < j
        BY <1>2, <1>9, <2>4
      <4>2. Len(b) = (IF TopK < Len(all) THEN TopK ELSE Len(all))
        BY <1>7
      <4>3. Len(t) = (IF m < Len(b) THEN m ELSE Len(b))
        BY <1>8
      <4> QED
        <5>1. Len(all) \in Nat /\ Len(b) \in Nat /\ m \in Nat /\ m <= TopK
          BY <1>2, <1>3, <4>2
        <5> HIDE DEF t, b
        <5> QED
          BY <1>3, <4>1, <4>2, <4>3, <5>1
    <3>1. Len(t) = m /\ \A i \in 1..Len(t) : i < j
      BY <1>9, <3>0
    <3>2. \A i \in 1..Len(t) : ByFreqKey(t[i], x)
      BY <1>1, <1>10, <2>2, <3>1
    <3>3. \A i \in 1..Len(t) : ~ByRank(c, f[i])
      BY <1>10, <1>11, <1>12, <2>1, <3>2
    <3> QED
      BY <1>9, <1>11, <3>1, <3>3
  <2> QED
    BY <2>3, <2>4
<1>15. Hot(f, X, m)
  BY <1>11, <1>13, <1>14 DEF Hot
<1>16. \A i \in 1..Len(f) : f[i].pinyin = bin.keys[b[i].key]
  BY <1>4, <1>10, <1>11
<1>17. Len(f) <= m /\ Len(b) <= TopK /\ Len(f) = (IF m < Len(b) THEN m ELSE Len(b))
  BY <1>2, <1>3, <1>7, <1>8, <1>9, <1>11
<1> QED
  BY <1>9, <1>15, <1>16, <1>17 DEF f, X, b

LEMMA HotLeads ==
  ASSUME NEW X, X \subseteq CandidateType, OneText(X), NEW m \in Nat, NEW s, Hot(s, X, m)
  PROVE  Leads(s, X, m)
<1>1. /\ s \in Seq(X)
      /\ \A i, j \in 1..Len(s) : i < j => s[i] # s[j] /\ ~ByRank(s[j], s[i])
      /\ \A x \in X : \/ \E i \in 1..Len(s) : s[i] = x
                      \/ Len(s) >= m /\ \A i \in 1..Len(s) : ~ByRank(x, s[i])
  BY DEF Hot
<1>2. \A i \in 1..Len(s) : s[i] \in X
  BY <1>1
<1>3. \A x, y \in X : x = y \/ ByRank(x, y) \/ ByRank(y, x)
  BY RankOrder
<1>4. \A i, j \in 1..Len(s) : i < j => ByRank(s[i], s[j])
  BY <1>1, <1>2, <1>3
<1>5. ASSUME NEW x \in X
      PROVE  \/ \E i \in 1..Len(s) : s[i] = x
             \/ Len(s) >= m /\ \A i \in 1..Len(s) : ByRank(s[i], x)
  <2>1. CASE \E i \in 1..Len(s) : s[i] = x
    BY <2>1
  <2>2. CASE ~\E i \in 1..Len(s) : s[i] = x
    <3>1. Len(s) >= m /\ \A i \in 1..Len(s) : ~ByRank(x, s[i])
      BY <1>1, <2>2
    <3>2. \A i \in 1..Len(s) : ByRank(s[i], x)
      BY <1>2, <1>3, <2>2, <3>1
    <3> QED
      BY <3>1, <3>2
  <2> QED
    BY <2>1, <2>2
<1> QED
  BY <1>1, <1>4, <1>5 DEF Leads

(* A bucket without the entries of one reading.                            *)
OfOthers(X, key) == {x \in X : x.pinyin # key}

AtOthers(s, key) == {i \in 1..Len(s) : s[i].pinyin # key}

LEMMA HotKept ==
  ASSUME NEW X, X \subseteq CandidateType, NEW m \in Nat, NEW s, Hot(s, X, m), NEW key,
         NEW Y, Y = OfOthers(X, key), OneText(Y), NEW n \in Nat,
         NEW P, P = AtOthers(s, key),
         Len(s) < m \/ Cardinality(P) >= n
  PROVE  Leads(Picks(s, P), Y, n)
<1> DEFINE t == Picks(s, P)
<1>1. /\ s \in Seq(X) /\ Len(s) \in Nat /\ \A i \in 1..Len(s) : s[i] \in X
      /\ \A i, j \in 1..Len(s) : i < j => s[i] # s[j] /\ ~ByRank(s[j], s[i])
      /\ \A x \in X : \/ \E i \in 1..Len(s) : s[i] = x
                      \/ Len(s) >= m /\ \A i \in 1..Len(s) : ~ByRank(x, s[i])
  <2>1. /\ s \in Seq(X)
        /\ \A i, j \in 1..Len(s) : i < j => s[i] # s[j] /\ ~ByRank(s[j], s[i])
        /\ \A x \in X : \/ \E i \in 1..Len(s) : s[i] = x
                        \/ Len(s) >= m /\ \A i \in 1..Len(s) : ~ByRank(x, s[i])
    BY DEF Hot
  <2>2. Len(s) \in Nat /\ \A i \in 1..Len(s) : s[i] \in X
    BY <2>1
  <2> QED
    BY <2>1, <2>2
<1>2. P \in SUBSET (1..Len(s)) /\ \A i \in P : s[i] \in Y
  BY <1>1 DEF OfOthers, AtOthers
<1>3. PICK at : Enumerates(at, P) /\ Increases(at) /\ MadeFrom(t, s, at)
  BY <1>1, <1>2, PicksFacts
<1>4. /\ Len(at) \in Nat /\ Len(at) = Cardinality(P) /\ \A i \in 1..Len(at) : at[i] \in P
      /\ \A x \in P : \E i \in 1..Len(at) : at[i] = x
  BY <1>3, EnumeratesCounts DEF Enumerates
<1>5. t \in Seq(Y)
  BY <1>1, <1>2, PicksMembers
<1>6. /\ Len(t) = Len(at) /\ \A i \in 1..Len(t) : t[i] = s[at[i]]
      /\ \A i, j \in 1..Len(at) : i < j => at[i] < at[j]
  BY <1>3 DEF MadeFrom, Increases
<1> HIDE DEF t
<1>7. \A i \in 1..Len(t) : t[i] \in Y /\ at[i] \in 1..Len(s) /\ t[i] = s[at[i]]
  BY <1>2, <1>4, <1>6
<1>8. Y \subseteq CandidateType /\ OneText(Y) /\ Y \subseteq X
  BY DEF OfOthers
<1>9. Hot(t, Y, n)
  <2>1. \A i, j \in 1..Len(t) : i < j => t[i] # t[j] /\ ~ByRank(t[j], t[i])
    BY <1>1, <1>6, <1>7
  <2>2. ASSUME NEW x \in Y
        PROVE  \/ \E i \in 1..Len(t) : t[i] = x
               \/ Len(t) >= n /\ \A i \in 1..Len(t) : ~ByRank(x, t[i])
    <3>1. x \in X /\ x.pinyin # key
      BY DEF OfOthers
    <3>2. CASE \E i \in 1..Len(s) : s[i] = x
      <4>1. PICK i \in 1..Len(s) : s[i] = x
        BY <3>2
      <4>2. i \in P
        BY <3>1, <4>1 DEF AtOthers
      <4>3. PICK j \in 1..Len(at) : at[j] = i
        BY <1>4, <4>2
      <4> QED
        BY <1>6, <4>1, <4>3
    <3>3. CASE ~\E i \in 1..Len(s) : s[i] = x
      <4>1. Len(s) >= m /\ \A i \in 1..Len(s) : ~ByRank(x, s[i])
        BY <1>1, <3>1, <3>3
      <4>2. Len(t) >= n
        BY <1>1, <1>4, <1>6, <4>1
      <4>3. \A i \in 1..Len(t) : ~ByRank(x, t[i])
        BY <1>7, <4>1
      <4> QED
        BY <4>2, <4>3
    <3> QED
      BY <3>2, <3>3
  <2> QED
    BY <1>5, <2>1, <2>2 DEF Hot
<1>10. Leads(t, Y, n)
  BY <1>8, <1>9, HotLeads
<1> QED
  BY <1>10 DEF t

(* A prefix within a syllable.                                             *)
LEMMA SyllablePrefix ==
  ASSUME NEW p \in Seq(Nat), NEW k \in Seq(Nat), 0 \notin ToSet(p)
  PROVE  IsPrefix(p, FirstSegment(k)) <=> IsPrefix(p, k)
<1> DEFINE f == FirstSegment(k)
<1>1. /\ f \in Seq(Nat) /\ IsPrefix(f, k)
      /\ Len(f) < Len(k) => k[Len(f) + 1] = 0
  BY FirstSegmentFacts
<1> HIDE DEF f
<1>2. Len(f) \in Nat /\ Len(p) \in Nat /\ Len(k) \in Nat
  BY <1>1
<1>3. ASSUME IsPrefix(p, f) PROVE IsPrefix(p, k)
  BY <1>1, <1>3, PrefixTransitive
<1>4. ASSUME IsPrefix(p, k) PROVE IsPrefix(p, f)
  <2>1. Len(p) <= Len(k) /\ \A i \in 1..Len(p) : k[i] = p[i]
    BY <1>4, PrefixMeans
  <2>2. Len(f) <= Len(k) /\ \A i \in 1..Len(f) : k[i] = f[i]
    BY <1>1, PrefixMeans
  <2>3. \A i \in 1..Len(p) : p[i] # 0
    BY DEF ToSet
  <2>4. Len(p) <= Len(f)
    <3> SUFFICES ASSUME Len(f) < Len(p) PROVE FALSE
      BY <1>2
    <3>1. Len(f) + 1 \in 1..Len(p) /\ Len(f) < Len(k)
      BY <1>2, <2>1
    <3> QED
      BY <1>1, <2>1, <2>3, <3>1
  <2>5. \A i \in 1..Len(p) : f[i] = p[i]
    BY <1>2, <2>1, <2>2, <2>4
  <2> QED
    BY <1>1, <2>4, <2>5, PrefixMeans
<1> QED
  BY <1>3, <1>4 DEF f

(* The first letter of a reading that does not begin with a quote.         *)
LEMMA FirstLetter ==
  ASSUME NEW k \in Seq(Nat), ~IsPrefix(<< 0 >>, k), NEW a \in Nat
  PROVE  IsPrefix(<<a>>, FirstSegment(k)) <=> IsPrefix(<<a>>, AbbrevOf(k))
<1> DEFINE P == {i \in 1..Len(k) : k[i] # 0 /\ (i = 1 \/ k[i - 1] = 0)}
           b == AbbrevOf(k)
           f == FirstSegment(k)
<1>1. Len(k) \in Nat /\ DOMAIN k = 1..Len(k)
  OBVIOUS
<1>2. \A c \in Nat, t \in Seq(Nat) : IsPrefix(<<c>>, t) <=> (Len(t) >= 1 /\ t[1] = c)
  <2> TAKE c \in Nat, t \in Seq(Nat)
  <2>1. <<c>> \in Seq(Nat) /\ Len(<<c>>) = 1 /\ <<c>>[1] = c
    OBVIOUS
  <2>2. IsPrefix(<<c>>, t) <=> (Len(<<c>>) <= Len(t) /\ \A i \in 1..Len(<<c>>) : t[i] = <<c>>[i])
    BY <2>1, PrefixMeans
  <2>3. Len(t) \in Nat /\ \A i : i \in 1..1 <=> i = 1
    OBVIOUS
  <2> QED
    BY <2>1, <2>2, <2>3
<1>3. Len(k) >= 1 => k[1] # 0
  BY <1>2
<1>4. P \in SUBSET (1..Len(k)) /\ b = Picks(k, P)
  BY DEF AbbrevOf
<1>5. PICK at : Enumerates(at, P) /\ Increases(at) /\ MadeFrom(b, k, at)
  BY <1>4, PicksFacts
<1>6. /\ Len(at) \in Nat /\ \A i \in 1..Len(at) : at[i] \in P
      /\ \A x \in P : \E i \in 1..Len(at) : at[i] = x
      /\ Len(b) = Len(at) /\ \A i \in 1..Len(b) : b[i] = k[at[i]]
      /\ \A i, j \in 1..Len(at) : i < j => at[i] < at[j]
  BY <1>5, EnumeratesCounts DEF Enumerates, MadeFrom, Increases
<1>7. b \in Seq(Nat) /\ f \in Seq(Nat) /\ Len(f) \in Nat /\ Len(b) \in Nat
  <2>1. b \in Seq(Nat) /\ f \in Seq(Nat)
    BY AbbrevIsString, FirstSegmentFacts
  <2> HIDE DEF b, f
  <2> QED
    BY <2>1
<1>8. /\ IsPrefix(f, k) /\ (Len(f) < Len(k) => k[Len(f) + 1] = 0)
  BY FirstSegmentFacts
<1> HIDE DEF b, f
<1>9. Len(f) <= Len(k) /\ \A i \in 1..Len(f) : k[i] = f[i]
  BY <1>7, <1>8, PrefixMeans
<1>10. CASE Len(k) = 0
  <2>1. Len(f) = 0
    BY <1>1, <1>7, <1>9, <1>10
  <2>2. Len(b) = 0
    <3> SUFFICES ASSUME Len(b) >= 1 PROVE FALSE
      BY <1>7
    <3>1. 1 \in 1..Len(at)
      BY <1>6, <1>7
    <3>2. at[1] \in 1..Len(k)
      BY <1>4, <1>6, <3>1
    <3> QED
      BY <1>10, <3>2
  <2> QED
    BY <1>2, <1>7, <2>1, <2>2 DEF b, f
<1>11. CASE Len(k) >= 1
  <2>1. k[1] # 0 /\ 1 \in 1..Len(k)
    BY <1>1, <1>3, <1>11
  <2>2. Len(f) >= 1
    <3> SUFFICES ASSUME Len(f) = 0 PROVE FALSE
      BY <1>7
    <3> QED
      BY <1>8, <1>11, <2>1
  <2>3. f[1] = k[1]
    BY <1>7, <1>9, <2>2
  <2>4. 1 \in P
    BY <2>1
  <2>5. PICK i \in 1..Len(at) : at[i] = 1
    BY <1>6, <2>4
  <2>6. i = 1
    <3> SUFFICES ASSUME 1 < i PROVE FALSE
      BY <1>6
    <3>1. 1 \in 1..Len(at)
      BY <1>6
    <3>2. at[1] < at[i] /\ at[1] \in 1..Len(k)
      BY <1>4, <1>6, <3>1
    <3> QED
      BY <2>5, <3>2
  <2>7. Len(b) >= 1 /\ b[1] = k[1]
    BY <1>6, <2>5, <2>6
  <2> QED
    BY <1>2, <1>7, <2>2, <2>3, <2>7 DEF b, f
<1> QED
  BY <1>1, <1>10, <1>11

(* The readings that go on from a finished one or one still being typed.   *)
Onward(key, open) == BeginWith(IF open THEN key ELSE key \o << 0 >>, key)

LEMMA OnwardFacts ==
  ASSUME NEW key \in Seq(Nat)
  PROVE  /\ Onward(key, TRUE) = {k \in Seq(Nat) : IsPrefix(key, k) /\ key # <<>> /\ k # key}
         /\ Onward(key, FALSE) = BeginWith(key \o << 0 >>, <<>>)
         /\ \A open \in BOOLEAN : \A k \in Onward(key, open) : IsPrefix(key, k) /\ k # key
<1>1. key \o << 0 >> \in Seq(Nat) /\ key \o << 0 >> # <<>>
  <2>1. << 0 >> \in Seq(Nat) /\ Len(<< 0 >>) = 1
    OBVIOUS
  <2>2. key \o << 0 >> \in Seq(Nat) /\ Len(key \o << 0 >>) = Len(key) + 1
    BY <2>1, ConcatProperties
  <2>3. Len(key) \in Nat
    OBVIOUS
  <2> QED
    BY <2>2, <2>3
<1>2. ASSUME NEW k \in Seq(Nat), IsPrefix(key \o << 0 >>, k)
      PROVE  IsPrefix(key, k) /\ k # key /\ k # <<>>
  <2>1. IsPrefix(key, k) /\ key # k
    BY <1>2, QuotedPrefix
  <2>2. Len(key \o << 0 >>) <= Len(k) /\ Len(key \o << 0 >>) = Len(key) + 1
    <3>1. << 0 >> \in Seq(Nat) /\ Len(<< 0 >>) = 1
      OBVIOUS
    <3>2. Len(key \o << 0 >>) = Len(key) + 1
      BY <3>1, ConcatProperties
    <3> DEFINE q == key \o << 0 >>
    <3>3. q \in Seq(Nat) /\ IsPrefix(q, k)
      BY <1>1, <1>2
    <3> HIDE DEF q
    <3>4. Len(q) <= Len(k)
      BY <3>3, PrefixMeans
    <3> QED
      BY <3>2, <3>4 DEF q
  <2>3. Len(key) \in Nat
    OBVIOUS
  <2> QED
    BY <2>1, <2>2, <2>3
<1>3. Onward(key, TRUE) = {k \in Seq(Nat) : IsPrefix(key, k) /\ key # <<>> /\ k # key}
  BY DEF Onward, BeginWith
<1> DEFINE q == key \o << 0 >>
<1>4. Onward(key, FALSE) = BeginWith(q, key)
  BY DEF Onward
<1> HIDE DEF q
<1>5. BeginWith(q, key) = BeginWith(q, <<>>)
  <2>1. \A k \in Seq(Nat) : IsPrefix(q, k) => k # key /\ k # <<>>
    BY <1>2 DEF q
  <2> QED
    BY <2>1 DEF BeginWith
<1>6. \A k \in BeginWith(q, key) : IsPrefix(key, k) /\ k # key
  BY <1>2 DEF BeginWith, q
<1> QED
  BY <1>3, <1>4, <1>5, <1>6 DEF q

LEMMA HotCompletions ==
  ASSUME NEW rows, RowsFine(rows), BuiltOK(bin, rows), NEW key \in Seq(Nat), 0 \notin ToSet(key),
         NEW n \in Nat \ {0}, n <= TopK, key \in DOMAIN bin.topk, Deep(key, n),
         OneText(FileSet(rows, Onward(key, TRUE)))
  PROVE  Leads(StoreCompletions(key, TRUE, n), FileSet(rows, Onward(key, TRUE)), n)
<1> DEFINE s == FetchTopK(key, TopK)
           b == bin.topk[key]
           X == FileSet(rows, StartsWith(key))
           Y == {x \in X : x.pinyin # key}
           P == {i \in 1..Len(s) : s[i].pinyin # key}
<1>1. TopK \in Nat /\ TopK <= TopK
  BY DictionaryAssumption
<1>2. /\ Hot(s, X, TopK) /\ Len(b) \in Nat /\ Len(b) <= TopK
      /\ Len(s) = (IF TopK < Len(b) THEN TopK ELSE Len(b))
      /\ \A i \in 1..Len(s) : s[i].pinyin = bin.keys[b[i].key]
  BY <1>1, HotIs
<1>3. X \subseteq CandidateType
  BY FileSetFacts
<1>4. StoreCompletions(key, TRUE, n) = Take(Picks(s, {i \in DOMAIN s : s[i].pinyin # key}), n)
  BY DEF StoreCompletions, Kept
<1>5. key # <<>>
  <2>1. key \in Syllables(rows)
    BY DEF BuiltOK, TopOK
  <2>0. PICK k \in Readings(rows) :
          \E m \in 1..Len(FirstSegment(k)) : key = SubSeq(FirstSegment(k), 1, m)
    BY <2>1 DEF Syllables
  <2>2. PICK m \in 1..Len(FirstSegment(k)) : key = SubSeq(FirstSegment(k), 1, m)
    BY <2>0
  <2>3. k \in Seq(Nat)
    BY ReadingsFacts
  <2>4. FirstSegment(k) \in Seq(Nat)
    BY <2>3, FirstSegmentFacts
  <2> DEFINE f == FirstSegment(k)
  <2>5. f \in Seq(Nat) /\ Len(f) \in Nat /\ m \in 1..Len(f) /\ \A i \in 1..Len(f) : f[i] \in Nat
    <3> HIDE DEF f
    <3> QED
      BY <2>2, <2>4 DEF f
  <2> HIDE DEF f
  <2>6. 1 \in Int /\ m \in Int /\ 1 <= m /\ \A i \in 1..m : f[i] \in Nat
    BY <2>5
  <2>7. Len(SubSeq(f, 1, m)) = IF 1 <= m THEN m - 1 + 1 ELSE 0
    BY <2>6, SubSeqProperties
  <2> QED
    BY <2>2, <2>6, <2>7 DEF f
<1>6. FileSet(rows, Onward(key, TRUE)) = Y
  <2>1. ASSUME NEW r \in rows
        PROVE  r.pinyin \in Onward(key, TRUE) <=> (r.pinyin \in StartsWith(key) /\ r.pinyin # key)
    <3>1. r.pinyin \in Seq(Nat)
      BY DEF RowsFine, RowType
    <3>2. IsPrefix(key, FirstSegment(r.pinyin)) <=> IsPrefix(key, r.pinyin)
      BY <3>1, SyllablePrefix
    <3>3. r.pinyin \in Onward(key, TRUE) <=> (IsPrefix(key, r.pinyin) /\ r.pinyin # key)
      BY <1>5, <3>1, OnwardFacts
    <3> QED
      BY <3>1, <3>2, <3>3 DEF StartsWith
  <2>2. \A r \in rows : FileRow(r).pinyin = r.pinyin
    BY DEF FileRow
  <2> QED
    BY <2>1, <2>2 DEF FileSet
<1> HIDE DEF s, b, X
<1>7. s \in Seq(X) /\ DOMAIN s = 1..Len(s) /\ Len(s) \in Nat /\ Len(s) = Len(b)
  <2>1. s \in Seq(X)
    BY <1>2 DEF Hot
  <2> QED
    BY <1>1, <1>2, <2>1
<1>8. Len(s) < TopK \/ Cardinality(P) >= n
  <2> DEFINE D == {i \in DOMAIN b : bin.keys[b[i].key] # key}
  <2>0. Len(b) < TopK \/ Len(Picks(b, D)) >= n
    <3>1. Len(b) < TopK \/ Len(Picks(b, D)) >= n \/ n > TopK
      BY DEF Deep, Kept, b
    <3> HIDE DEF D
    <3> QED
      BY <1>1, <3>1
  <2>1. CASE Len(b) < TopK
    BY <1>7, <2>1
  <2>2. CASE Len(Picks(b, D)) >= n
    <3>2. b \in Seq(HotSet(bin, key))
      <4>1. PICK all : Enumerates(all, HotSet(bin, key)) /\ b = Take(all, TopK)
        BY DEF BuiltOK, TopOK, b
      <4>2. all \in Seq(HotSet(bin, key)) /\ TopK \in Int
        BY <1>1, <4>1 DEF Enumerates
      <4> QED
        BY <4>1, <4>2, TakeMembers
    <3>3. DOMAIN b = 1..Len(b)
      BY <3>2
    <3>4. D = P /\ D \in SUBSET (1..Len(b))
      BY <1>2, <1>7, <3>3
    <3> HIDE DEF D, P
    <3>5. PICK at : Enumerates(at, D) /\ MadeFrom(Picks(b, D), b, at)
      BY <3>2, <3>4, PicksFacts
    <3>6. Len(Picks(b, D)) = Cardinality(D)
      BY <3>5, EnumeratesCounts DEF MadeFrom
    <3> QED
      BY <2>2, <3>4, <3>6 DEF D
  <2> HIDE DEF D, P
  <2> QED
    BY <2>0, <2>1, <2>2
<1>9. Leads(Picks(s, P), Y, n)
  <2>1. n \in Nat /\ OneText(Y)
    BY <1>6
  <2>2. Y = OfOthers(X, key) /\ P = AtOthers(s, key)
    BY DEF OfOthers, AtOthers
  <2> HIDE DEF Y, P
  <2> QED
    BY <1>1, <1>2, <1>3, <1>8, <2>1, <2>2, HotKept
<1>10. Y \subseteq CandidateType /\ n \in Nat /\ n >= n /\ n <= n
  BY <1>3
<1>11. StoreCompletions(key, TRUE, n) = Take(Picks(s, P), n)
  BY <1>4, <1>7 DEF s
<1> HIDE DEF Y, P
<1>12. Leads(Take(Picks(s, P), n), Y, n)
  BY <1>9, <1>10, TakeLeads
<1> QED
  BY <1>6, <1>11, <1>12

LEMMA CompletionLeads ==
  ASSUME NEW rows, RowsFine(rows), BuiltOK(bin, rows), NEW key \in Seq(Nat), NEW open \in BOOLEAN,
         NEW n \in Nat \ {0}, open => Deep(key, n), OneText(FileSet(rows, Onward(key, open)))
  PROVE  Leads(StoreCompletions(key, open, n), FileSet(rows, Onward(key, open)), n)
<1>1. CASE ~open
  <2> DEFINE q == key \o << 0 >>
  <2>1. q \in Seq(Nat)
    <3>1. << 0 >> \in Seq(Nat)
      OBVIOUS
    <3> QED
      BY <3>1, ConcatProperties
  <2>2. StoreCompletions(key, open, n) = ScanRange(q, n, <<>>)
    BY <1>1 DEF StoreCompletions
  <2>3. Onward(key, open) = BeginWith(q, <<>>)
    BY <1>1, OnwardFacts
  <2> HIDE DEF q
  <2> QED
    BY <2>1, <2>2, <2>3, ScanLeads
<1>2. CASE open /\ 0 \notin ToSet(key) /\ n <= TopK
  <2>1. CASE key \in DOMAIN bin.topk
    BY <1>2, <2>1, HotCompletions
  <2>2. CASE key \notin DOMAIN bin.topk
    <3>1. StoreCompletions(key, open, n) = ScanRange(key, n, <<>>)
      BY <1>2, <2>2 DEF StoreCompletions
    <3>2. ASSUME NEW r \in rows, IsPrefix(key, r.pinyin), key # <<>> PROVE FALSE
      <4>1. r.pinyin \in Seq(Nat) /\ r.pinyin \in Readings(rows)
        BY DEF RowsFine, RowType, Readings
      <4> DEFINE f == FirstSegment(r.pinyin)
      <4>2. f \in Seq(Nat) /\ IsPrefix(key, f)
        BY <1>2, <3>2, <4>1, SyllablePrefix, FirstSegmentFacts
      <4>3. f = FirstSegment(r.pinyin)
        OBVIOUS
      <4> HIDE DEF f
      <4>4. Len(f) \in Nat /\ Len(key) \in Nat /\ Len(key) >= 1
        BY <3>2, <4>2
      <4>5. Len(key) <= Len(f) /\ \A i \in 1..Len(key) : f[i] = key[i]
        BY <4>2, PrefixMeans
      <4>6. SubSeq(f, 1, Len(key)) = key
        <5>1. 1 \in Int /\ Len(key) \in Int /\ \A i \in 1..Len(key) : f[i] \in Nat
          BY <4>2, <4>4, <4>5
        <5>2. /\ SubSeq(f, 1, Len(key)) \in Seq(Nat)
              /\ Len(SubSeq(f, 1, Len(key))) = IF 1 <= Len(key) THEN Len(key) - 1 + 1 ELSE 0
              /\ \A i \in 1..(Len(key) - 1 + 1) : SubSeq(f, 1, Len(key))[i] = f[1 + i - 1]
          BY <5>1, SubSeqProperties
        <5>3. Len(SubSeq(f, 1, Len(key))) = Len(key)
          BY <4>4, <5>2
        <5>4. \A i \in 1..Len(key) : SubSeq(f, 1, Len(key))[i] = key[i]
          BY <4>4, <4>5, <5>2
        <5> QED
          BY <5>2, <5>3, <5>4, SeqEqual
      <4>7. Len(key) \in 1..Len(f)
        <5>1. Len(key) <= Len(f)
          BY <4>5, Zenon
        <5> QED
          BY <4>4, <5>1
      <4>8. \E k \in Readings(rows) :
              \E m \in 1..Len(FirstSegment(k)) : key = SubSeq(FirstSegment(k), 1, m)
        BY <4>1, <4>3, <4>6, <4>7
      <4>9. key \in Syllables(rows)
        BY <4>8 DEF Syllables
      <4> QED
        BY <2>2, <4>9 DEF BuiltOK, TopOK
    <3>3. FileSet(rows, BeginWith(key, <<>>)) = {} /\ FileSet(rows, Onward(key, open)) = {}
      <4>1. \A r \in rows : r.pinyin \notin BeginWith(key, <<>>) /\ r.pinyin \notin Onward(key, open)
        <5>1. ASSUME NEW r \in rows PROVE r.pinyin \notin BeginWith(key, <<>>)
          BY <3>2 DEF BeginWith
        <5>2. Onward(key, open) = {k \in Seq(Nat) : IsPrefix(key, k) /\ key # <<>> /\ k # key}
          BY <1>2, OnwardFacts
        <5>3. ASSUME NEW r \in rows PROVE r.pinyin \notin Onward(key, open)
          BY <3>2, <5>2
        <5> QED
          BY <5>1, <5>3
      <4> QED
        BY <4>1 DEF FileSet
    <3>4. OneText(FileSet(rows, BeginWith(key, <<>>)))
      BY <3>3
    <3>5. Leads(ScanRange(key, n, <<>>), FileSet(rows, BeginWith(key, <<>>)), n)
      BY <3>4, ScanLeads
    <3> QED
      BY <3>1, <3>3, <3>5
  <2> QED
    BY <2>1, <2>2
<1>3. CASE open /\ ~(0 \notin ToSet(key) /\ n <= TopK)
  <2>1. StoreCompletions(key, open, n) = ScanRange(key, n, key)
    BY <1>3 DEF StoreCompletions
  <2>2. Onward(key, open) = BeginWith(key, key)
    BY <1>3 DEF Onward
  <2> QED
    BY <2>1, <2>2, ScanLeads
<1> QED
  BY <1>1, <1>2, <1>3

(* No reading begins with a quote.                                         *)
Headed(rows) == \A r \in rows : ~IsPrefix(<< 0 >>, r.pinyin)

Abbreviating(initials) == {k \in Seq(Nat) : IsPrefix(initials, AbbrevOf(k))}

LEMMA HotAbbrev ==
  ASSUME NEW rows, RowsFine(rows), BuiltOK(bin, rows), Headed(rows),
         NEW initials \in Seq(Nat), Len(initials) = 1, NEW n \in Nat \ {0}, n <= TopK,
         initials \in DOMAIN bin.topk, OneText(FileSet(rows, Abbreviating(initials)))
  PROVE  Leads(FetchTopK(initials, n), FileSet(rows, Abbreviating(initials)), n)
<1> DEFINE X == FileSet(rows, StartsWith(initials))
<1>1. Hot(FetchTopK(initials, n), X, n)
  BY HotIs
<1>2. X \subseteq CandidateType
  BY FileSetFacts
<1>3. PICK a \in Nat : initials = <<a>>
  <2> DEFINE a == initials[1]
  <2>1. a \in Nat
    OBVIOUS
  <2>2. \A i \in 1..Len(initials) : initials[i] = a
    OBVIOUS
  <2> HIDE DEF a
  <2>3. <<a>> \in Seq(Nat) /\ Len(<<a>>) = 1 /\ \A i \in 1..1 : <<a>>[i] = a
    BY <2>1
  <2>4. initials = <<a>>
    BY <2>2, <2>3, SeqEqual
  <2> QED
    BY <2>1, <2>4
<1>4. ASSUME NEW r \in rows
      PROVE  r.pinyin \in StartsWith(initials) <=> r.pinyin \in Abbreviating(initials)
  <2>1. r.pinyin \in Seq(Nat) /\ ~IsPrefix(<< 0 >>, r.pinyin)
    BY DEF RowsFine, RowType, Headed
  <2>2. IsPrefix(<<a>>, FirstSegment(r.pinyin)) <=> IsPrefix(<<a>>, AbbrevOf(r.pinyin))
    BY <2>1, FirstLetter
  <2> QED
    BY <1>3, <2>1, <2>2 DEF StartsWith, Abbreviating
<1>5. FileSet(rows, Abbreviating(initials)) = X
  BY <1>4 DEF FileSet
<1> HIDE DEF X
<1> QED
  BY <1>1, <1>2, <1>5, HotLeads

LEMMA WalkedAbbrev ==
  ASSUME NEW rows, RowsFine(rows), BuiltOK(bin, rows), NEW initials \in Seq(Nat), NEW n \in Nat \ {0},
         OneText(FileSet(rows, Abbreviating(initials))),
         NEW w, w = Picks(bin.abbrevs, {j \in DOMAIN bin.abbrevs :
                                          IsPrefix(initials, AbbrevOf(bin.keys[bin.abbrevs[j]]))})
  PROVE  Leads(Walk(w, n), FileSet(rows, Abbreviating(initials)), n)
<1> DEFINE K == Abbreviating(initials)
           P == KeysIn(K)
           v == bin.abbrevs
           J == {j \in 1..Len(v) : IsPrefix(initials, AbbrevOf(bin.keys[v[j]]))}
<1>1. /\ Len(bin.keys) \in Nat /\ DOMAIN bin.keys = 1..Len(bin.keys)
      /\ \A i \in 1..Len(bin.keys) : bin.keys[i] \in Seq(Nat)
  BY KeyFacts
<1>2. Enumerates(v, 1..Len(bin.keys))
  BY DEF BuiltOK
<1>3. /\ Len(v) \in Nat /\ DOMAIN v = 1..Len(v)
      /\ \A j \in 1..Len(v) : v[j] \in 1..Len(bin.keys)
      /\ \A i \in 1..Len(bin.keys) : \E j \in 1..Len(v) : v[j] = i
  BY <1>2, EnumeratesCounts DEF Enumerates
<1>4. P \in SUBSET (1..Len(bin.keys)) /\ BlocksCands(P) = FileSet(rows, K)
  BY BlocksAreRows
<1>5. \A i \in 1..Len(bin.keys) : i \in P <=> IsPrefix(initials, AbbrevOf(bin.keys[i]))
  BY <1>1 DEF KeysIn, Abbreviating
<1>6. w = Picks(v, J) /\ J \in SUBSET (1..Len(v))
  BY <1>3
<1> HIDE DEF v, P, K
<1>7. {v[j] : j \in J} = P
  BY <1>3, <1>4, <1>5
<1> HIDE DEF J
<1>8. Enumerates(w, P)
  BY <1>2, <1>6, <1>7, PicksEnumerates
<1>9. OneText(BlocksCands(P))
  BY <1>4 DEF K
<1>10. Best(Walk(w, n), BlocksCands(P), n)
  BY <1>4, <1>8, <1>9, WalkBest
<1> QED
  BY <1>4, <1>10 DEF Best, K

LEMMA AbbrevLeads ==
  ASSUME NEW rows, RowsFine(rows), BuiltOK(bin, rows), Headed(rows),
         NEW initials \in Seq(Nat), NEW n \in Nat \ {0},
         OneText(FileSet(rows, Abbreviating(initials)))
  PROVE  Leads(StoreAbbrev(initials, n), FileSet(rows, Abbreviating(initials)), n)
<1>1. CASE Len(initials) = 1 /\ n <= TopK /\ initials \in DOMAIN bin.topk
  <2>1. StoreAbbrev(initials, n) = FetchTopK(initials, n)
    BY <1>1 DEF StoreAbbrev
  <2> QED
    BY <1>1, <2>1, HotAbbrev
<1>2. CASE ~(Len(initials) = 1 /\ n <= TopK /\ initials \in DOMAIN bin.topk)
  <2> DEFINE w == Picks(bin.abbrevs, {j \in DOMAIN bin.abbrevs :
                                        IsPrefix(initials, AbbrevOf(bin.keys[bin.abbrevs[j]]))})
  <2>1. StoreAbbrev(initials, n) = Walk(w, n)
    BY <1>2 DEF StoreAbbrev, Walk, Kept
  <2> QED
    BY <2>1, WalkedAbbrev
<1> QED
  BY <1>1, <1>2

(* The entries of some readings: all, and the user's.                      *)
AllCands(K) == CandidateSet({x \in EntrySet(phrase, stats) : x.pinyin \in K})

Own == {x \in EntrySet(phrase, stats) : x.user}

OwnCands(K) == CandidateSet({x \in Own : x.pinyin \in K})

LEMMA AllCandsFacts ==
  ASSUME RowsOK(phrase, stats), NEW K
  PROVE  /\ AllCands(K) \subseteq CandidateType /\ OwnCands(K) \subseteq AllCands(K)
         /\ EntrySet(phrase, stats) \subseteq EntryType /\ Unique(EntrySet(phrase, stats))
         /\ Own \subseteq EntryType /\ Unique(Own)
<1>1. EntrySet(phrase, stats) \subseteq EntryType /\ Unique(EntrySet(phrase, stats))
  BY EntrySetFacts
<1> DEFINE S == {x \in EntrySet(phrase, stats) : x.pinyin \in K}
<1>2. S \subseteq EntryType /\ Unique(S)
  BY <1>1 DEF Unique
<1>3. AllCands(K) = CandidateSet(S)
  BY DEF AllCands
<1> HIDE DEF S
<1>4. CandidateSet(S) \subseteq CandidateType
  BY <1>2, CandidateSetFacts
<1>5. OwnCands(K) \subseteq AllCands(K)
  BY DEF OwnCands, AllCands, CandidateSet, Own
<1>6. Own \subseteq EntryType /\ Unique(Own)
  BY <1>1 DEF Own, Unique
<1> QED
  BY <1>1, <1>3, <1>4, <1>5, <1>6

(* As rows: an entry of a row as a candidate.                              *)
RowCand(r) == Candidate(Entry(r, stats))

LEMMA RowCandFacts ==
  ASSUME RowsOK(phrase, stats)
  PROVE  /\ \A r \in phrase : /\ RowCand(r) \in CandidateType
                              /\ RowCand(r).text = r.text /\ RowCand(r).pinyin = r.pinyin
                              /\ RowCand(r).freq = r.freq /\ RowCand(r).eff >= r.freq
                              /\ ~r.user => RowCand(r).eff = r.freq
         /\ \A K : AllCands(K) = {RowCand(r) : r \in {x \in phrase : x.pinyin \in K}}
         /\ \A K : OwnCands(K) = {RowCand(r) : r \in {x \in phrase : x.pinyin \in K /\ x.user}}
<1>1. ASSUME NEW r \in phrase
      PROVE  /\ Entry(r, stats) \in EntryType
             /\ Entry(r, stats).pinyin = r.pinyin /\ Entry(r, stats).text = r.text
             /\ Entry(r, stats).freq = r.freq /\ Entry(r, stats).user = r.user
             /\ ~r.user => Entry(r, stats).eff = r.freq
             /\ Entry(r, stats).eff >= r.freq
  <2>1. r \in RowType /\ \A w \in DOMAIN stats : stats[w] \in Nat
    BY DEF RowsOK
  <2>2. /\ Entry(r, stats) \in EntryType
        /\ Entry(r, stats).pinyin = r.pinyin /\ Entry(r, stats).text = r.text
        /\ Entry(r, stats).freq = r.freq /\ Entry(r, stats).user = r.user
        /\ ~r.user => Entry(r, stats).eff = r.freq
    BY <2>1, EntryFacts
  <2>3. r.freq \in Nat
    BY <2>1 DEF RowType
  <2> DEFINE bonus == IF r.user THEN UserBonus(stats, Word(r)) ELSE 0
  <2>4. bonus \in Nat
    <3>1. Boost \in Nat
      BY DictionaryAssumption
    <3>2. UserBonus(stats, Word(r)) \in Nat
      <4>1. CASE Word(r) \in DOMAIN stats
        <5>1. stats[Word(r)] \in Nat
          BY <2>1, <4>1
        <5> QED
          BY <3>1, <4>1, <5>1 DEF UserBonus
      <4>2. CASE Word(r) \notin DOMAIN stats
        BY <4>2 DEF UserBonus
      <4> QED
        BY <4>1, <4>2
    <3> QED
      BY <3>2
  <2>5. Entry(r, stats).eff = r.freq + bonus
    BY DEF Entry
  <2> HIDE DEF bonus
  <2>6. Entry(r, stats).eff >= r.freq
    BY <2>3, <2>4, <2>5
  <2> QED
    BY <2>2, <2>6
<1>2. \A r \in phrase : /\ RowCand(r) \in CandidateType
                        /\ RowCand(r).text = r.text /\ RowCand(r).pinyin = r.pinyin
                        /\ RowCand(r).freq = r.freq /\ RowCand(r).eff >= r.freq
                        /\ ~r.user => RowCand(r).eff = r.freq
  BY <1>1 DEF RowCand, Candidate, EntryType, CandidateType
<1>3. ASSUME NEW K PROVE AllCands(K) = {RowCand(r) : r \in {x \in phrase : x.pinyin \in K}}
  BY <1>1 DEF AllCands, CandidateSet, EntrySet, RowCand
<1>4. ASSUME NEW K PROVE OwnCands(K) = {RowCand(r) : r \in {x \in phrase : x.pinyin \in K /\ x.user}}
  BY <1>1 DEF OwnCands, Own, CandidateSet, EntrySet, RowCand
<1> QED
  BY <1>2, <1>3, <1>4

(* The file and the user's words together are the dictionary's words.      *)
LEMMA Together ==
  ASSUME RowsOK(phrase, stats), NEW rows, RowsFine(rows), BuiltOK(bin, rows), Grows(rows, phrase),
         Current, NEW K, OneText(AllCands(K))
  PROVE  /\ OneText(FileSet(rows, K)) /\ OneText(OwnCands(K))
         /\ Outdone(FileSet(rows, K), OwnCands(K))
         /\ Merged(FileSet(rows, K), OwnCands(K)) = AllCands(K)
<1> DEFINE F == FileSet(rows, K)
           U == OwnCands(K)
           A == AllCands(K)
<1>1. /\ \A r \in phrase : /\ RowCand(r) \in CandidateType
                           /\ RowCand(r).text = r.text /\ RowCand(r).pinyin = r.pinyin
                           /\ RowCand(r).freq = r.freq /\ RowCand(r).eff >= r.freq
                           /\ ~r.user => RowCand(r).eff = r.freq
      /\ A = {RowCand(r) : r \in {x \in phrase : x.pinyin \in K}}
      /\ U = {RowCand(r) : r \in {x \in phrase : x.pinyin \in K /\ x.user}}
  BY RowCandFacts
<1>2. F = {FileRow(r) : r \in {x \in rows : x.pinyin \in K}}
  BY DEF FileSet
<1> HIDE DEF F, U, A
<1>3. \A x, y \in A : x.text = y.text => x = y
  BY DEF OneText, A
<1>4. /\ \A r \in rows : r \in RowType /\ FileRow(r) \in CandidateType
                         /\ FileRow(r).text = r.text /\ FileRow(r).pinyin = r.pinyin
                         /\ FileRow(r).freq = r.freq /\ FileRow(r).eff = r.freq
      /\ \A r \in phrase : r \in RowType
  BY FileRowFacts DEF RowsFine, RowsOK
<1>5. /\ \A r1, r2 \in rows : r1.pinyin = r2.pinyin /\ r1.text = r2.text => r1 = r2
      /\ \A r1, r2 \in phrase : r1.pinyin = r2.pinyin /\ r1.text = r2.text => r1 = r2
  BY DEF RowsFine, RowsOK, Unique, Word
<1>6. ASSUME NEW r \in rows
      PROVE  \E q \in phrase : q.pinyin = r.pinyin /\ q.text = r.text /\ q.freq >= r.freq
  <2>1. PICK q \in phrase : Word(q) = Word(r) /\ q.freq >= r.freq
    BY DEF Grows
  <2> QED
    BY <2>1 DEF Word
<1>7. ASSUME NEW q \in phrase, ~q.user
      PROVE  \E r \in rows : r.pinyin = q.pinyin /\ r.text = q.text /\ r.freq = q.freq
  <2>1. PICK i \in DOMAIN bin.keys :
          bin.keys[i] = q.pinyin /\ [text |-> q.text, freq |-> q.freq] \in ToSet(bin.blocks[i])
    BY <1>7 DEF Current
  <2>2. i \in 1..Len(bin.keys)
    BY <2>1, KeyFacts
  <2>3. /\ DOMAIN bin.blocks[i] = 1..Len(bin.blocks[i])
        /\ \A j \in 1..Len(bin.blocks[i]) : bin.blocks[i][j] \in TextsOf(rows, bin.keys[i])
    BY <2>2, BlockFacts
  <2>4. [text |-> q.text, freq |-> q.freq] \in TextsOf(rows, q.pinyin)
    BY <2>1, <2>3 DEF ToSet
  <2>5. PICK r \in rows : r.pinyin = q.pinyin
                          /\ [text |-> q.text, freq |-> q.freq] = [text |-> r.text, freq |-> r.freq]
    BY <2>4 DEF TextsOf
  <2>6. r.text = q.text /\ r.freq = q.freq
    BY <2>5
  <2> QED
    BY <2>5, <2>6
<1>8. ASSUME NEW r \in rows, NEW q \in phrase, ~q.user,
             r.pinyin = q.pinyin, r.text = q.text
      PROVE  FileRow(r) = RowCand(q)
  <2>1. PICK r1 \in rows : r1.pinyin = q.pinyin /\ r1.text = q.text /\ r1.freq = q.freq
    BY <1>7, <1>8
  <2>2. r1 = r
    BY <1>5, <1>8, <2>1
  <2>3. /\ FileRow(r) \in CandidateType /\ RowCand(q) \in CandidateType
        /\ FileRow(r).text = RowCand(q).text /\ FileRow(r).pinyin = RowCand(q).pinyin
        /\ FileRow(r).freq = RowCand(q).freq /\ FileRow(r).eff = RowCand(q).eff
    BY <1>1, <1>4, <1>8, <2>1, <2>2
  <2> HIDE DEF FileRow, RowCand
  <2> QED
    BY <2>3 DEF CandidateType
<1>9. ASSUME NEW f \in F
      PROVE  \E r \in rows, q \in phrase :
               /\ f = FileRow(r) /\ r.pinyin \in K /\ q.pinyin = r.pinyin /\ q.text = r.text
               /\ q.freq >= r.freq /\ RowCand(q) \in A
  <2>1. PICK r \in rows : r.pinyin \in K /\ f = FileRow(r)
    BY <1>2
  <2>2. PICK q \in phrase : q.pinyin = r.pinyin /\ q.text = r.text /\ q.freq >= r.freq
    BY <1>6
  <2>3. RowCand(q) \in A
    BY <1>1, <2>1, <2>2
  <2> QED
    BY <2>1, <2>2, <2>3
<1>10. U \subseteq A
  BY <1>1
<1>11. OneText(F)
  <2> SUFFICES ASSUME NEW f \in F, NEW g \in F, f.text = g.text PROVE f = g
    BY DEF OneText
  <2>1. PICK r1 \in rows, q1 \in phrase :
          f = FileRow(r1) /\ q1.pinyin = r1.pinyin /\ q1.text = r1.text /\ RowCand(q1) \in A
    BY <1>9
  <2>2. PICK r2 \in rows, q2 \in phrase :
          g = FileRow(r2) /\ q2.pinyin = r2.pinyin /\ q2.text = r2.text /\ RowCand(q2) \in A
    BY <1>9
  <2>3. RowCand(q1).text = RowCand(q2).text
    BY <1>1, <1>4, <2>1, <2>2
  <2>4. RowCand(q1) = RowCand(q2)
    BY <1>3, <2>1, <2>2, <2>3
  <2>5. q1.pinyin = q2.pinyin
    BY <1>1, <2>4
  <2>6. r1 = r2
    <3>1. q1.text = q2.text
      BY <1>1, <2>3
    <3>2. r1.pinyin = r2.pinyin /\ r1.text = r2.text
      BY <2>1, <2>2, <2>5, <3>1
    <3> QED
      BY <1>5, <3>2
  <2> QED
    BY <2>1, <2>2, <2>6
<1>12. OneText(U)
  BY <1>3, <1>10 DEF OneText
<1>13. Outdone(F, U)
  <2> SUFFICES ASSUME NEW f \in F, NEW u \in U, u.text = f.text PROVE u.eff >= f.eff
    BY DEF Outdone
  <2>1. PICK r \in rows, q \in phrase :
          f = FileRow(r) /\ q.text = r.text /\ q.freq >= r.freq /\ RowCand(q) \in A
    BY <1>9
  <2>2. RowCand(q).text = u.text
    BY <1>1, <1>4, <2>1
  <2>3. u = RowCand(q)
    BY <1>3, <1>10, <2>1, <2>2
  <2>4. /\ RowCand(q).eff >= q.freq /\ f.eff = r.freq
        /\ r.freq \in Nat /\ q.freq \in Nat /\ RowCand(q).eff \in Nat
    <3>1. r \in RowType /\ q \in RowType /\ RowCand(q) \in CandidateType
      BY <1>1, <1>4
    <3>2. r.freq \in Nat /\ q.freq \in Nat /\ RowCand(q).eff \in Nat
      BY <3>1 DEF RowType, CandidateType
    <3> QED
      BY <1>1, <1>4, <2>1, <3>2
  <2> QED
    BY <2>1, <2>3, <2>4
<1>14. ASSUME NEW c \in A PROVE c \in Merged(F, U)
  <2>1. PICK q \in phrase : q.pinyin \in K /\ c = RowCand(q)
    BY <1>1
  <2>2. CASE q.user
    <3>1. c \in U
      BY <1>1, <2>1, <2>2
    <3> QED
      BY <3>1 DEF Merged
  <2>3. CASE ~q.user
    <3>1. PICK r \in rows : r.pinyin = q.pinyin /\ r.text = q.text
      BY <1>7, <2>3
    <3>2. c = FileRow(r)
      BY <1>8, <2>1, <2>3, <3>1
    <3>3. c \in F
      BY <1>2, <2>1, <3>1, <3>2
    <3>4. \A u \in U : u.text # c.text
      <4> SUFFICES ASSUME NEW u \in U, u.text = c.text PROVE FALSE
        OBVIOUS
      <4>1. u = c
        BY <1>3, <1>10
      <4>2. PICK q2 \in phrase : q2.user /\ u = RowCand(q2)
        BY <1>1
      <4>3. q2.pinyin = q.pinyin /\ q2.text = q.text
        BY <1>1, <2>1, <4>1, <4>2
      <4> QED
        BY <1>5, <2>3, <4>2, <4>3
    <3> QED
      BY <3>3, <3>4 DEF Merged
  <2> QED
    BY <2>2, <2>3
<1>15. ASSUME NEW c \in Merged(F, U) PROVE c \in A
  <2>1. CASE c \in U
    BY <1>10, <2>1
  <2>2. CASE c \in F /\ \A u \in U : u.text # c.text
    <3>1. PICK r \in rows, q \in phrase :
            /\ c = FileRow(r) /\ r.pinyin \in K /\ q.pinyin = r.pinyin /\ q.text = r.text
            /\ RowCand(q) \in A
      BY <1>9, <2>2
    <3>2. ~q.user
      <4> SUFFICES ASSUME q.user PROVE FALSE
        OBVIOUS
      <4>1. RowCand(q) \in U
        BY <1>1, <3>1
      <4>2. RowCand(q).text = c.text
        BY <1>1, <1>4, <3>1
      <4> QED
        BY <2>2, <4>1, <4>2
    <3>3. c = RowCand(q)
      BY <1>8, <3>1, <3>2
    <3> QED
      BY <3>1, <3>3
  <2> QED
    BY <2>1, <2>2 DEF Merged
<1> QED
  BY <1>11, <1>12, <1>13, <1>14, <1>15 DEF F, U, A

(* Every text taken out costs one entry.                                   *)
LEMMA WithoutLeads ==
  ASSUME NEW X, X \subseteq CandidateType, OneText(X), NEW n \in Nat, NEW s, Leads(s, X, n),
         NEW L, NEW shown \in Seq(L), Len(shown) <= n,
         NEW Y, Y = {x \in X : x.text \notin Texts(shown)}
  PROVE  Leads(Without(s, Texts(shown)), Y, n - Len(shown))
<1> DEFINE T == Texts(shown)
           P == {i \in 1..Len(s) : s[i].text \notin T}
           R == {i \in 1..Len(s) : s[i].text \in T}
           t == Picks(s, P)
<1>1. /\ s \in Seq(X) /\ Len(s) \in Nat /\ DOMAIN s = 1..Len(s)
      /\ \A i \in 1..Len(s) : s[i] \in X
      /\ \A i, j \in 1..Len(s) : s[i].text = s[j].text => i = j
  <2>1. /\ s \in Seq(X) /\ Len(s) \in Nat /\ DOMAIN s = 1..Len(s)
        /\ \A i \in 1..Len(s) : s[i] \in X
        /\ Distinct(s)
    BY LeadsFacts
  <2> QED
    BY <2>1 DEF Distinct
<1>2. /\ \A i, j \in 1..Len(s) : i < j => ByRank(s[i], s[j])
      /\ \A x \in X : \/ \E i \in 1..Len(s) : s[i] = x
                      \/ Len(s) >= n /\ \A i \in 1..Len(s) : ByRank(s[i], x)
  BY DEF Leads
<1>3. Len(shown) \in Nat /\ T = {shown[i].text : i \in 1..Len(shown)}
  BY TextsAre
<1>4. Without(s, T) = t
  BY <1>1 DEF Without, Kept
<1>5. P \in SUBSET (1..Len(s)) /\ R \in SUBSET (1..Len(s)) /\ \A i \in P : s[i] \in Y
  BY <1>1
<1>6. Cardinality(P) >= Len(s) - Len(shown) /\ Cardinality(P) \in Nat
  <2> DEFINE f == [i \in R |-> CHOOSE j \in 1..Len(shown) : shown[j].text = s[i].text]
  <2>1. \A i \in R : \E j \in 1..Len(shown) : shown[j].text = s[i].text
    BY <1>3
  <2>2. \A i \in R : f[i] \in 1..Len(shown) /\ shown[f[i]].text = s[i].text
    BY <2>1
  <2>3. f \in [R -> 1..Len(shown)]
    BY <2>2
  <2> HIDE DEF f
  <2>4. \A i, j \in R : f[i] = f[j] => i = j
    BY <1>1, <2>2
  <2>5. f \in Injection(R, 1..Len(shown))
    BY <2>3, <2>4 DEF Injection, IsInjective
  <2> DEFINE I == 1..Len(s)
             J == 1..Len(shown)
  <2>6. /\ IsFiniteSet(J) /\ Cardinality(J) = Len(shown)
        /\ IsFiniteSet(I) /\ Cardinality(I) = Len(s)
    <3>1. ASSUME NEW m \in Nat PROVE IsFiniteSet(1..m) /\ Cardinality(1..m) = m
      BY FS_Interval
    <3>2. Len(shown) \in Nat /\ Len(s) \in Nat
      BY <1>1, <1>3
    <3> QED
      BY <3>1, <3>2
  <2>7. P = I \ R /\ I \cap R = R
    OBVIOUS
  <2> HIDE DEF P, R, I, J
  <2>8. IsFiniteSet(R) /\ Cardinality(R) <= Len(shown)
    <3>1. f \in Injection(R, J)
      BY <2>5 DEF J
    <3> QED
      BY <2>6, <3>1, FS_Injection
  <2>9. IsFiniteSet(P) /\ Cardinality(P) = Len(s) - Cardinality(R)
    <3>1. IsFiniteSet(I \ R) /\ Cardinality(I \ R) = Cardinality(I) - Cardinality(I \cap R)
      BY <2>6, FS_Difference
    <3> QED
      BY <2>6, <2>7, <3>1
  <2>10. Cardinality(P) \in Nat /\ Cardinality(R) \in Nat
    BY <2>8, <2>9, FS_CardinalityType
  <2> QED
    BY <1>1, <1>3, <2>8, <2>9, <2>10
<1>7. PICK at : Enumerates(at, P) /\ Increases(at) /\ MadeFrom(t, s, at)
  BY <1>1, <1>5, PicksFacts
<1>8. /\ Len(at) \in Nat /\ Len(at) = Cardinality(P) /\ \A i \in 1..Len(at) : at[i] \in P
      /\ \A x \in P : \E i \in 1..Len(at) : at[i] = x
  BY <1>7, EnumeratesCounts DEF Enumerates
<1>9. t \in Seq(Y)
  BY <1>1, <1>5, PicksMembers
<1>10. /\ Len(t) = Len(at) /\ \A i \in 1..Len(t) : t[i] = s[at[i]]
       /\ \A i, j \in 1..Len(at) : i < j => at[i] < at[j]
  BY <1>7 DEF MadeFrom, Increases
<1> HIDE DEF t
<1>11. \A i \in 1..Len(t) : at[i] \in 1..Len(s) /\ t[i] = s[at[i]]
  BY <1>5, <1>8, <1>10
<1>12. \A i, j \in 1..Len(t) : i < j => ByRank(t[i], t[j])
  BY <1>2, <1>10, <1>11
<1>13. ASSUME NEW x \in Y
       PROVE  \/ \E i \in 1..Len(t) : t[i] = x
              \/ Len(t) >= n - Len(shown) /\ \A i \in 1..Len(t) : ByRank(t[i], x)
  <2>1. x \in X /\ x.text \notin T
    OBVIOUS
  <2>2. CASE \E i \in 1..Len(s) : s[i] = x
    <3>1. PICK i \in 1..Len(s) : s[i] = x
      BY <2>2
    <3>2. i \in P
      BY <2>1, <3>1
    <3>3. PICK j \in 1..Len(at) : at[j] = i
      BY <1>8, <3>2
    <3> QED
      BY <1>10, <3>1, <3>3
  <2>3. CASE ~\E i \in 1..Len(s) : s[i] = x
    <3>1. Len(s) >= n /\ \A i \in 1..Len(s) : ByRank(s[i], x)
      BY <1>2, <2>1, <2>3
    <3>2. Len(t) >= n - Len(shown)
      <4>1. Len(t) = Cardinality(P)
        BY <1>8, <1>10
      <4> HIDE DEF P
      <4> QED
        BY <1>1, <1>3, <1>6, <3>1, <4>1
    <3>3. \A i \in 1..Len(t) : ByRank(t[i], x)
      BY <1>11, <3>1, Zenon
    <3> QED
      BY <3>2, <3>3
  <2> QED
    BY <2>2, <2>3
<1> HIDE DEF T
<1> QED
  BY <1>4, <1>9, <1>12, <1>13 DEF Leads, T

(* A list in order of rank stays as it is.                                 *)
LEMMA SortedAlready ==
  ASSUME NEW X, X \subseteq CandidateType, OneText(X), NEW n \in Nat, NEW t, Leads(t, X, n)
  PROVE  Sorted(t, ByRank) = t
<1> DEFINE M == {t[i] : i \in 1..Len(t)}
           u == Sorted(t, ByRank)
           m == Len(t)
<1>1. /\ t \in Seq(X) /\ Len(t) \in Nat
      /\ \A i \in 1..Len(t) : t[i] \in X
      /\ \A i, j \in 1..Len(t) : t[i] = t[j] => i = j
      /\ \A i, j \in 1..Len(t) : i < j => ByRank(t[i], t[j])
  <2>1. /\ t \in Seq(X) /\ Len(t) \in Nat
        /\ \A i \in 1..Len(t) : t[i] \in X
        /\ \A i, j \in 1..Len(t) : t[i] = t[j] => i = j
    BY LeadsFacts
  <2>2. \A i, j \in 1..Len(t) : i < j => ByRank(t[i], t[j])
    BY DEF Leads
  <2> QED
    BY <2>1, <2>2
<1>2. M \subseteq CandidateType /\ OneText(M)
  BY <1>1 DEF OneText
<1>3. Enumerates(t, M) /\ Leads(t, M, m)
  <2>1. t \in Seq(M)
    <3>1. \A i \in 1..Len(t) : t[i] \in M
      OBVIOUS
    <3> HIDE DEF M
    <3> QED
      BY <1>1, <3>1
  <2> QED
    BY <1>1, <2>1 DEF Enumerates, Leads
<1> HIDE DEF M, u, m
<1>4. Leads(u, M, m) /\ Len(u) = Len(t) /\ u \in Seq(M)
  <2>1. Leads(u, M, m)
    BY <1>2, <1>3, SortLeads DEF u
  <2>2. Enumerates(u, M) /\ Len(u) = Len(t)
    BY <1>2, <1>3, SortedEnumerates DEF u
  <2> QED
    BY <2>1, <2>2 DEF Enumerates
<1>5. Take(u, m) = Take(t, m)
  <2>1. m \in Nat
    BY <1>1 DEF m
  <2> QED
    BY <1>2, <1>3, <1>4, <2>1, LeadsAgree
<1>6. Take(t, m) = t
  <2>1. Take(t, m) = SubSeq(t, 1, Len(t))
    BY <1>1 DEF Take, m
  <2>2. SubSeq(t, 1, Len(t)) = t
    BY <1>1, SubSeqFull
  <2> QED
    BY <2>1, <2>2
<1>7. Take(u, m) = u
  <2>1. Take(u, m) = SubSeq(u, 1, Len(u))
    BY <1>1, <1>4 DEF Take, m
  <2>2. SubSeq(u, 1, Len(u)) = u
    BY <1>4, SubSeqFull
  <2> QED
    BY <2>1, <2>2
<1> QED
  BY <1>5, <1>6, <1>7, Zenon DEF u

(* A filtered vector.                                                      *)
LEMMA FilteredEnumerates ==
  ASSUME NEW E, E \subseteq EntryType, Unique(E), NEW ix, Enumerates(ix, E), NEW F \in SUBSET E,
         NEW P, \A i \in DOMAIN ix : i \in P <=> ix[i] \in F, P \subseteq DOMAIN ix
  PROVE  Enumerates(Candidates(Picks(ix, P)), CandidateSet(F))
<1>1. /\ DOMAIN ix = 1..Len(ix) /\ \A i \in 1..Len(ix) : ix[i] \in E
      /\ \A x \in E : \E i \in 1..Len(ix) : ix[i] = x
  BY EnumeratesCounts DEF Enumerates
<1>2. P \in SUBSET (1..Len(ix))
  BY <1>1
<1>3. {ix[i] : i \in P} = F
  <2>1. \A i \in P : ix[i] \in F
    BY <1>1
  <2>2. \A x \in F : \E i \in P : ix[i] = x
    BY <1>1
  <2> QED
    BY <2>1, <2>2
<1>4. Enumerates(Picks(ix, P), F)
  BY <1>2, <1>3, PicksEnumerates
<1>5. F \subseteq EntryType /\ Unique(F)
  BY DEF Unique
<1> QED
  BY <1>4, <1>5, CandidatesEnumerate

LEMMA RangeIsOnward ==
  ASSUME NEW key \in Seq(Nat), NEW open \in BOOLEAN, NEW k \in Seq(Nat),
         NEW q, q = IF open THEN key ELSE key \o << 0 >>
  PROVE  (/\ ~Before(k, q) /\ Before(k, IncrementPrefix(q)) /\ k # key) <=> k \in Onward(key, open)
<1>1. q \in Seq(Nat)
  <2>1. << 0 >> \in Seq(Nat)
    OBVIOUS
  <2>2. key \o << 0 >> \in Seq(Nat)
    BY <2>1, ConcatProperties
  <2> QED
    BY <2>2
<1>2. (~Before(k, q) /\ Before(k, IncrementPrefix(q))) <=> (IsPrefix(q, k) /\ q # <<>>)
  BY <1>1, PrefixRange
<1>3. Onward(key, open) = BeginWith(q, key)
  BY DEF Onward
<1> QED
  BY <1>2, <1>3 DEF BeginWith

LEMMA OwnListed ==
  ASSUME RowsOK(phrase, stats), OverlayOK(overlay, phrase), RanksCurrent
  PROVE  Enumerates(overlay, Own)
<1>1. PICK own :
        /\ own \subseteq EntryType /\ IndexOK(overlay, Seq(Nat), own)
        /\ \A x \in own : x.user /\ \E r \in phrase : r.user /\ Word(r) = Word(x) /\ r.freq = x.freq
        /\ \A r \in phrase : r.user => \E x \in own : Word(x) = Word(r)
  BY DEF OverlayOK
<1>2. Enumerates(overlay, own)
  BY <1>1 DEF IndexOK
<1>3. /\ DOMAIN overlay = 1..Len(overlay)
      /\ \A x \in own : \E i \in 1..Len(overlay) : overlay[i] = x
  BY <1>2, EnumeratesCounts DEF Enumerates
<1>4. \A r \in phrase : /\ Entry(r, stats) \in EntryType
                        /\ Entry(r, stats).pinyin = r.pinyin /\ Entry(r, stats).text = r.text
                        /\ Entry(r, stats).freq = r.freq /\ Entry(r, stats).user = r.user
  <2>1. \A r \in phrase : r \in RowType
    BY DEF RowsOK
  <2>2. \A w \in DOMAIN stats : stats[w] \in Nat
    BY DEF RowsOK
  <2> QED
    BY <2>1, <2>2, EntryFacts
<1>5. ASSUME NEW x \in own
      PROVE  \E r \in phrase : r.user /\ Word(r) = Word(x) /\ x = Entry(r, stats)
  <2>1. PICK r \in phrase : r.user /\ Word(r) = Word(x) /\ r.freq = x.freq
    BY <1>1
  <2>2. PICK i \in 1..Len(overlay) : overlay[i] = x
    BY <1>3
  <2>3. x.eff = Entry(r, stats).eff
    BY <1>3, <2>1, <2>2 DEF RanksCurrent
  <2>4. r.pinyin = x.pinyin /\ r.text = x.text
    BY <2>1 DEF Word
  <2>5. x.user \in BOOLEAN /\ x.user /\ r.user
    BY <1>1, <2>1 DEF EntryType
  <2>6. r.user \in BOOLEAN
    BY DEF RowsOK, RowType
  <2>7. x.user = r.user
    BY <2>5, <2>6
  <2>8. /\ x \in EntryType /\ Entry(r, stats) \in EntryType
        /\ x.pinyin = Entry(r, stats).pinyin /\ x.text = Entry(r, stats).text
        /\ x.freq = Entry(r, stats).freq /\ x.user = Entry(r, stats).user
        /\ x.eff = Entry(r, stats).eff
    BY <1>1, <1>4, <2>1, <2>3, <2>4, <2>7
  <2>9. x = Entry(r, stats)
    BY <2>8 DEF EntryType
  <2> QED
    BY <2>1, <2>9
<1>6. own = Own
  <2>1. ASSUME NEW x \in own PROVE x \in Own
    <3>1. PICK r \in phrase : r.user /\ x = Entry(r, stats)
      BY <1>5
    <3>2. x.user = r.user
      BY <1>4, <3>1
    <3> QED
      BY <3>1, <3>2 DEF Own, EntrySet
  <2>2. ASSUME NEW y \in Own PROVE y \in own
    <3>1. PICK r \in phrase : y = Entry(r, stats)
      BY DEF Own, EntrySet
    <3>2. r.user
      BY <1>4, <3>1 DEF Own
    <3>3. PICK x \in own : Word(x) = Word(r)
      BY <1>1, <3>2
    <3>4. PICK q \in phrase : Word(q) = Word(x) /\ x = Entry(q, stats)
      BY <1>5
    <3>5. q = r
      BY <3>3, <3>4 DEF RowsOK, Unique
    <3> QED
      BY <3>1, <3>4, <3>5
  <2> QED
    BY <2>1, <2>2
<1> QED
  BY <1>2, <1>6

(* The user's words for each lookup.                                       *)
LEMMA OverlayLists ==
  ASSUME RowsOK(phrase, stats), Enumerates(overlay, Own), NEW key \in Seq(Nat)
  PROVE  /\ Enumerates(OverlayExact(key), OwnCands({key}))
         /\ \A open \in BOOLEAN : Enumerates(OverlayCompletions(key, open), OwnCands(Onward(key, open)))
         /\ Enumerates(OverlayAbbrev(key), OwnCands(Abbreviating(key)))
<1>1. Own \subseteq EntryType /\ Unique(Own)
  BY AllCandsFacts
<1>2. \A i \in DOMAIN overlay : overlay[i] \in Own /\ overlay[i].pinyin \in Seq(Nat)
  <2>1. \A i \in DOMAIN overlay : overlay[i] \in Own
    BY EnumeratesCounts
  <2> QED
    BY <1>1, <2>1 DEF EntryType
<1>3. Enumerates(OverlayExact(key), OwnCands({key}))
  <2> DEFINE F == {x \in Own : x.pinyin \in {key}}
             P == {i \in DOMAIN overlay : overlay[i].pinyin = key}
  <2>1. OverlayExact(key) = Candidates(Picks(overlay, P)) /\ OwnCands({key}) = CandidateSet(F)
    BY DEF OverlayExact, Kept, OwnCands
  <2>2. /\ F \in SUBSET Own /\ P \subseteq DOMAIN overlay
        /\ \A i \in DOMAIN overlay : i \in P <=> overlay[i] \in F
    BY <1>2
  <2> HIDE DEF F, P
  <2> QED
    BY <1>1, <2>1, <2>2, FilteredEnumerates
<1>4. ASSUME NEW open \in BOOLEAN
      PROVE  Enumerates(OverlayCompletions(key, open), OwnCands(Onward(key, open)))
  <2> DEFINE q == IF open THEN key ELSE key \o << 0 >>
             K == Onward(key, open)
             F == {x \in Own : x.pinyin \in K}
             P == {i \in DOMAIN overlay : /\ ~Before(overlay[i].pinyin, q)
                                          /\ Before(overlay[i].pinyin, IncrementPrefix(q))
                                          /\ overlay[i].pinyin # key}
  <2>1. OverlayCompletions(key, open) = Candidates(Picks(overlay, P)) /\ OwnCands(K) = CandidateSet(F)
    BY DEF OverlayCompletions, Kept, OwnCands
  <2>2. ASSUME NEW k \in Seq(Nat)
        PROVE  (~Before(k, q) /\ Before(k, IncrementPrefix(q)) /\ k # key) <=> k \in K
    BY RangeIsOnward
  <2> HIDE DEF q, K
  <2>3. /\ F \in SUBSET Own /\ P \subseteq DOMAIN overlay
        /\ \A i \in DOMAIN overlay : i \in P <=> overlay[i] \in F
    BY <1>2, <2>2
  <2> HIDE DEF F, P
  <2>4. Enumerates(OverlayCompletions(key, open), OwnCands(K))
    BY <1>1, <2>1, <2>3, FilteredEnumerates
  <2> QED
    BY <2>4 DEF K
<1>5. Enumerates(OverlayAbbrev(key), OwnCands(Abbreviating(key)))
  <2> DEFINE K == Abbreviating(key)
             F == {x \in Own : x.pinyin \in K}
             P == {i \in DOMAIN overlay : IsPrefix(key, AbbrevOf(overlay[i].pinyin))}
  <2>1. OverlayAbbrev(key) = Candidates(Picks(overlay, P)) /\ OwnCands(K) = CandidateSet(F)
    BY DEF OverlayAbbrev, Kept, OwnCands
  <2>2. \A k \in Seq(Nat) : IsPrefix(key, AbbrevOf(k)) <=> k \in K
    BY DEF Abbreviating
  <2> HIDE DEF K
  <2>3. /\ F \in SUBSET Own /\ P \subseteq DOMAIN overlay
        /\ \A i \in DOMAIN overlay : i \in P <=> overlay[i] \in F
    BY <1>2, <2>2
  <2> HIDE DEF F, P
  <2>4. Enumerates(OverlayAbbrev(key), OwnCands(K))
    BY <1>1, <2>1, <2>3, FilteredEnumerates
  <2> QED
    BY <2>4 DEF K
<1> QED
  BY <1>3, <1>4, <1>5

(* All words for each lookup.                                              *)
LEMMA IndexLists ==
  ASSUME RowsOK(phrase, stats), NEW ix, Enumerates(ix, EntrySet(phrase, stats)), NEW key \in Seq(Nat)
  PROVE  /\ Enumerates(Block(ix, key), AllCands({key}))
         /\ \A open \in BOOLEAN : Enumerates(Candidates(RangeOf(ix, key, open)), AllCands(Onward(key, open)))
         /\ Enumerates(Candidates(Picks(ix, {i \in DOMAIN ix : IsPrefix(key, AbbrevOf(ix[i].pinyin))})),
                       AllCands(Abbreviating(key)))
         /\ Enumerates(Candidates(Picks(ix, {i \in DOMAIN ix : ix[i].user})), CandidateSet(Own))
<1> DEFINE E == EntrySet(phrase, stats)
<1>1. E \subseteq EntryType /\ Unique(E)
  BY AllCandsFacts
<1> HIDE DEF E
<1>2. \A i \in DOMAIN ix : ix[i] \in E /\ ix[i].pinyin \in Seq(Nat)
  <2>1. \A i \in DOMAIN ix : ix[i] \in E
    BY EnumeratesCounts DEF E
  <2> QED
    BY <1>1, <2>1 DEF EntryType
<1>3. Enumerates(ix, E)
  BY DEF E
<1>4. Enumerates(Block(ix, key), AllCands({key}))
  <2> DEFINE F == {x \in E : x.pinyin \in {key}}
             P == {i \in DOMAIN ix : ix[i].pinyin = key}
  <2>1. Block(ix, key) = Candidates(Picks(ix, P)) /\ AllCands({key}) = CandidateSet(F)
    BY DEF Block, Kept, AllCands, E
  <2>2. /\ F \in SUBSET E /\ P \subseteq DOMAIN ix
        /\ \A i \in DOMAIN ix : i \in P <=> ix[i] \in F
    BY <1>2
  <2> HIDE DEF F, P
  <2> QED
    BY <1>1, <1>3, <2>1, <2>2, FilteredEnumerates
<1>5. ASSUME NEW open \in BOOLEAN
      PROVE  Enumerates(Candidates(RangeOf(ix, key, open)), AllCands(Onward(key, open)))
  <2> DEFINE q == IF open THEN key ELSE key \o << 0 >>
             K == Onward(key, open)
             F == {x \in E : x.pinyin \in K}
             P == {i \in DOMAIN ix : /\ ~Before(ix[i].pinyin, q)
                                     /\ Before(ix[i].pinyin, IncrementPrefix(q))
                                     /\ ix[i].pinyin # key}
  <2>1. Candidates(RangeOf(ix, key, open)) = Candidates(Picks(ix, P)) /\ AllCands(K) = CandidateSet(F)
    BY DEF RangeOf, AllCands, E
  <2>2. ASSUME NEW k \in Seq(Nat)
        PROVE  (~Before(k, q) /\ Before(k, IncrementPrefix(q)) /\ k # key) <=> k \in K
    BY RangeIsOnward
  <2> HIDE DEF q, K
  <2>3. /\ F \in SUBSET E /\ P \subseteq DOMAIN ix
        /\ \A i \in DOMAIN ix : i \in P <=> ix[i] \in F
    BY <1>2, <2>2
  <2> HIDE DEF F, P
  <2>4. Enumerates(Candidates(RangeOf(ix, key, open)), AllCands(K))
    BY <1>1, <1>3, <2>1, <2>3, FilteredEnumerates
  <2> QED
    BY <2>4 DEF K
<1>6. Enumerates(Candidates(Picks(ix, {i \in DOMAIN ix : IsPrefix(key, AbbrevOf(ix[i].pinyin))})),
                 AllCands(Abbreviating(key)))
  <2> DEFINE K == Abbreviating(key)
             F == {x \in E : x.pinyin \in K}
             P == {i \in DOMAIN ix : IsPrefix(key, AbbrevOf(ix[i].pinyin))}
  <2>1. AllCands(K) = CandidateSet(F)
    BY DEF AllCands, E
  <2>2. \A k \in Seq(Nat) : IsPrefix(key, AbbrevOf(k)) <=> k \in K
    BY DEF Abbreviating
  <2> HIDE DEF K
  <2>3. /\ F \in SUBSET E /\ P \subseteq DOMAIN ix
        /\ \A i \in DOMAIN ix : i \in P <=> ix[i] \in F
    BY <1>2, <2>2
  <2> HIDE DEF F, P
  <2>4. Enumerates(Candidates(Picks(ix, P)), AllCands(K))
    BY <1>1, <1>3, <2>1, <2>3, FilteredEnumerates
  <2> QED
    BY <2>4 DEF K, P
<1>7. Enumerates(Candidates(Picks(ix, {i \in DOMAIN ix : ix[i].user})), CandidateSet(Own))
  <2> DEFINE P == {i \in DOMAIN ix : ix[i].user}
  <2>1. Own = {x \in E : x.user}
    BY DEF Own, E
  <2>2. /\ Own \in SUBSET E /\ P \subseteq DOMAIN ix
        /\ \A i \in DOMAIN ix : i \in P <=> ix[i] \in Own
    BY <1>2, <2>1
  <2> HIDE DEF P
  <2>3. Enumerates(Candidates(Picks(ix, P)), CandidateSet(Own))
    BY <1>1, <1>3, <2>2, FilteredEnumerates
  <2> QED
    BY <2>3 DEF P
<1> QED
  BY <1>4, <1>5, <1>6, <1>7

----------------------------------------------------------------------------
(* Both homes: what the file and the overlay come to is what sorting all   *)
(* rows gives.                                                             *)
LEMMA TakeTwice ==
  ASSUME NEW S, NEW s \in Seq(S), NEW n \in Nat
  PROVE  /\ Len(Take(s, n)) \in Nat /\ Len(Take(s, n)) <= n
         /\ Take(Take(s, n), n) = Take(s, n)
<1> DEFINE t == Take(s, n)
<1>1. t \in Seq(S) /\ Len(t) = (IF n < Len(s) THEN n ELSE Len(s)) /\ Len(s) \in Nat
  BY TakeFacts
<1>2. Len(t) \in Nat /\ Len(t) <= n
  BY <1>1
<1> HIDE DEF t
<1>3. Take(t, n) = SubSeq(t, 1, Len(t))
  BY <1>2 DEF Take
<1>4. SubSeq(t, 1, Len(t)) = t
  BY <1>1
<1> QED
  BY <1>2, <1>3, <1>4 DEF t

LEMMA MergeLength ==
  ASSUME NEW S, S \subseteq CandidateType, NEW base \in Seq(S), NEW user \in Seq(S), NEW n \in Nat
  PROVE  /\ Take(MergeOverlay(base, user, n), n) = MergeOverlay(base, user, n)
         /\ Len(MergeOverlay(base, user, n)) \in Nat /\ Len(MergeOverlay(base, user, n)) <= n
<1>1. CASE user = <<>>
  <2>1. MergeOverlay(base, user, n) = Take(base, n)
    BY <1>1 DEF MergeOverlay
  <2> QED
    BY <2>1, TakeTwice
<1>2. CASE user # <<>>
  <2>1. PICK m : MergeOverlay(base, user, n) = Take(m, n) /\ m \in Seq(S)
    BY <1>2, MergeFacts
  <2> QED
    BY <2>1, TakeTwice
<1> QED
  BY <1>1, <1>2

LEMMA MergedAlike ==
  ASSUME NEW F, F \subseteq CandidateType, OneText(F), NEW U, U \subseteq CandidateType, OneText(U),
         Outdone(F, U), NEW n \in Nat, NEW base, Leads(base, F, n), NEW user, Enumerates(user, U),
         NEW all, Enumerates(all, Merged(F, U))
  PROVE  /\ MergeOverlay(base, user, n) = Take(Sorted(all, ByRank), n)
         /\ Len(MergeOverlay(base, user, n)) \in Nat /\ Len(MergeOverlay(base, user, n)) <= n
         /\ MergeOverlay(base, user, n) \in Seq(Merged(F, U))
<1>1. Merged(F, U) \subseteq CandidateType /\ OneText(Merged(F, U))
  BY MergedFacts
<1>2. Leads(MergeOverlay(base, user, n), Merged(F, U), n)
  BY MergeLeads
<1>3. Leads(Sorted(all, ByRank), Merged(F, U), n)
  BY <1>1, SortLeads
<1>4. Take(MergeOverlay(base, user, n), n) = Take(Sorted(all, ByRank), n)
  BY <1>1, <1>2, <1>3, LeadsAgree
<1>5. base \in Seq(CandidateType) /\ user \in Seq(CandidateType)
  <2>1. base \in Seq(F) /\ user \in Seq(U)
    BY DEF Leads, Enumerates
  <2> QED
    BY <2>1
<1>6. /\ Take(MergeOverlay(base, user, n), n) = MergeOverlay(base, user, n)
      /\ Len(MergeOverlay(base, user, n)) \in Nat /\ Len(MergeOverlay(base, user, n)) <= n
  BY <1>5, MergeLength
<1>7. MergeOverlay(base, user, n) \in Seq(Merged(F, U))
  BY <1>2 DEF Leads
<1> QED
  BY <1>4, <1>6, <1>7

(* Where no text has two readings.                                         *)
LEMMA NoTextTwice ==
  ASSUME RowsOK(phrase, stats), NEW key \in Seq(Nat)
  PROVE  /\ OneText(AllCands({key}))
         /\ Unambiguous(Behind(key)) => \A open \in BOOLEAN : OneText(AllCands(Onward(key, open)))
         /\ Unambiguous(Abbreviated(key)) => OneText(AllCands(Abbreviating(key)))
<1>1. /\ \A r \in phrase : RowCand(r).text = r.text
      /\ \A K : AllCands(K) = {RowCand(r) : r \in {x \in phrase : x.pinyin \in K}}
      /\ phrase \subseteq RowType /\ Unique(phrase)
  BY RowCandFacts DEF RowsOK
<1>2. ASSUME NEW K, \A r, q \in phrase : r.pinyin \in K /\ q.pinyin \in K /\ r.text = q.text => r = q
      PROVE  OneText(AllCands(K))
  <2> SUFFICES ASSUME NEW x \in AllCands(K), NEW y \in AllCands(K), x.text = y.text
               PROVE  x = y
    BY DEF OneText
  <2>1. PICK r \in phrase : r.pinyin \in K /\ x = RowCand(r)
    BY <1>1
  <2>2. PICK q \in phrase : q.pinyin \in K /\ y = RowCand(q)
    BY <1>1
  <2> QED
    BY <1>1, <1>2, <2>1, <2>2
<1>3. OneText(AllCands({key}))
  <2>1. ASSUME NEW r \in phrase, NEW q \in phrase, r.pinyin \in {key}, q.pinyin \in {key}, r.text = q.text
        PROVE  r = q
    BY <1>1, <2>1 DEF Unique, Word
  <2> QED
    BY <2>1, <1>2
<1>4. ASSUME Unambiguous(Behind(key)), NEW open \in BOOLEAN
      PROVE  OneText(AllCands(Onward(key, open)))
  <2>1. ASSUME NEW r \in phrase, r.pinyin \in Onward(key, open)
        PROVE  r.pinyin \in Behind(key)
    BY <2>1, OnwardFacts DEF Behind
  <2> QED
    BY <1>2, <1>4, <2>1 DEF Unambiguous
<1>5. ASSUME Unambiguous(Abbreviated(key))
      PROVE  OneText(AllCands(Abbreviating(key)))
  <2>1. ASSUME NEW r \in phrase, r.pinyin \in Abbreviating(key)
        PROVE  r.pinyin \in Abbreviated(key)
    BY <2>1 DEF Abbreviating, Abbreviated
  <2> QED
    BY <1>2, <1>5, <2>1 DEF Unambiguous
<1> QED
  BY <1>3, <1>4, <1>5

(* A filter by text.                                                       *)
LEMMA WithoutEnumerates ==
  ASSUME NEW X, NEW s, Enumerates(s, X), NEW T, NEW Y, Y = {x \in X : x.text \notin T}
  PROVE  Enumerates(Without(s, T), Y)
<1> DEFINE P == {i \in DOMAIN s : s[i].text \notin T}
<1>1. Len(s) \in Nat /\ DOMAIN s = 1..Len(s) /\ \A i \in 1..Len(s) : s[i] \in X
  BY EnumeratesCounts
<1>2. Without(s, T) = Picks(s, P)
  BY DEF Without, Kept
<1>3. P \in SUBSET (1..Len(s))
  BY <1>1
<1>4. Enumerates(Picks(s, P), {s[i] : i \in P})
  BY <1>3, PicksEnumerates
<1>5. {s[i] : i \in P} = Y
  <2>1. ASSUME NEW i \in P PROVE s[i] \in Y
    BY <1>1
  <2>2. ASSUME NEW y \in Y PROVE \E i \in P : s[i] = y
    <3>1. PICK i \in 1..Len(s) : s[i] = y
      BY DEF Enumerates
    <3> QED
      BY <1>1, <3>1
  <2> QED
    BY <2>1, <2>2
<1> QED
  BY <1>2, <1>4, <1>5

(* Frequencies stay where no text is another's.                            *)
LEMMA NotRaised ==
  ASSUME NEW S, NEW list \in Seq(S), NEW own,
         \A x \in S : \A i \in DOMAIN own : own[i].text # x.text
  PROVE  RaisedBy(list, own) = list
<1> DEFINE Of(t) == {i \in DOMAIN own : own[i].text = t}
           Raised(c, at) == IF at = {} THEN c ELSE [c EXCEPT !.freq = own[Max(at)].freq]
<1>1. RaisedBy(list, own) = [i \in DOMAIN list |-> Raised(list[i], Of(list[i].text))]
  BY DEF RaisedBy
<1>2. ASSUME NEW i \in DOMAIN list PROVE Raised(list[i], Of(list[i].text)) = list[i]
  <2>1. list[i] \in S
    OBVIOUS
  <2>2. Of(list[i].text) = {}
    BY <2>1
  <2> QED
    BY <2>2
<1> HIDE DEF Raised, Of
<1>3. [i \in DOMAIN list |-> Raised(list[i], Of(list[i].text))] = [i \in DOMAIN list |-> list[i]]
  BY <1>2
<1>4. [i \in DOMAIN list |-> list[i]] = list
  OBVIOUS
<1> QED
  BY <1>1, <1>3, <1>4

(* The user's words of the second layer have no text of the first.         *)
LEMMA LayersDiffer ==
  ASSUME RowsOK(phrase, stats), NEW rows, RowsFine(rows), Grows(rows, phrase),
         NEW key \in Seq(Nat), ChosenHere(key), NEW open \in BOOLEAN,
         NEW u \in OwnCands(Onward(key, open))
  PROVE  /\ \A c \in FileSet(rows, {key}) : c.text # u.text
         /\ \A c \in AllCands({key}) : c.text # u.text
<1>1. /\ \A r \in phrase : RowCand(r).text = r.text
      /\ \A K : AllCands(K) = {RowCand(r) : r \in {x \in phrase : x.pinyin \in K}}
      /\ \A K : OwnCands(K) = {RowCand(r) : r \in {x \in phrase : x.pinyin \in K /\ x.user}}
  BY RowCandFacts
<1>2. PICK q \in phrase : q.pinyin \in Onward(key, open) /\ q.user /\ u = RowCand(q)
  BY <1>1
<1>3. q.pinyin \in Behind(key)
  BY <1>2, OnwardFacts DEF Behind
<1>4. ASSUME NEW r \in phrase, r.pinyin = key
      PROVE  r.text # u.text
  BY <1>1, <1>2, <1>3, <1>4 DEF ChosenHere
<1>5. ASSUME NEW c \in AllCands({key})
      PROVE  c.text # u.text
  <2>1. PICK r \in phrase : r.pinyin \in {key} /\ c = RowCand(r)
    BY <1>1
  <2> QED
    BY <1>1, <1>4, <2>1
<1>6. ASSUME NEW c \in FileSet(rows, {key})
      PROVE  c.text # u.text
  <2>1. PICK r \in rows : r.pinyin \in {key} /\ c = FileRow(r)
    BY DEF FileSet
  <2>2. PICK q1 \in phrase : Word(q1) = Word(r)
    BY DEF Grows
  <2>3. q1.pinyin = key /\ q1.text = r.text
    BY <2>1, <2>2 DEF Word
  <2>4. c.text = r.text
    BY <2>1 DEF FileRow
  <2> QED
    BY <1>4, <2>3, <2>4
<1> QED
  BY <1>5, <1>6

LEMMA CapFacts ==
  ASSUME NEW open \in BOOLEAN, NEW n \in Nat \ {0}
  PROVE  Cap(open, n) \in Nat /\ Cap(open, n) <= n
BY DEF Cap

(* The first layer: no word of the user raises it, and it is the best of   *)
(* the words of the reading.                                               *)
LEMMA FirstLayerOfFile ==
  ASSUME VectorsInv, Enumerates(overlay, Own), Current,
         NEW rows, RowsFine(rows), BuiltOK(bin, rows), Grows(rows, phrase),
         NEW key \in Seq(Nat), ChosenHere(key), NEW open \in BOOLEAN, NEW n \in Nat \ {0},
         NEW first,
         first = MergeOverlay(Sorted(RaisedBy(StoreExact(key, n), OverlayCompletions(key, open)), ByRank),
                              OverlayExact(key), Cap(open, n))
  PROVE  /\ first = Take(Sorted(Block(index, key), ByRank), Cap(open, n))
         /\ Len(first) \in Nat /\ Len(first) <= Cap(open, n) /\ first \in Seq(AllCands({key}))
<1> DEFINE F == FileSet(rows, {key})
           U == OwnCands({key})
           exact == StoreExact(key, n)
           comps == OverlayCompletions(key, open)
           O == OwnCands(Onward(key, open))
<1>0. RowsOK(phrase, stats)
  BY DEF VectorsInv
<1>1. Leads(exact, F, n) /\ OneText(F) /\ F \subseteq CandidateType
  BY ExactLeads, FileSetFacts
<1>2. Enumerates(comps, O) /\ Enumerates(OverlayExact(key), U)
  BY <1>0, OverlayLists
<1>3. RaisedBy(exact, comps) = exact
  <2>1. exact \in Seq(F)
    BY <1>1 DEF Leads
  <2>2. DOMAIN comps = 1..Len(comps) /\ \A i \in 1..Len(comps) : comps[i] \in O
    BY <1>2, EnumeratesCounts
  <2>3. \A x \in F : \A i \in DOMAIN comps : comps[i].text # x.text
    <3> SUFFICES ASSUME NEW x \in F, NEW i \in DOMAIN comps
                 PROVE  comps[i].text # x.text
      OBVIOUS
    <3>1. comps[i] \in O
      BY <2>2
    <3> QED
      BY <1>0, <3>1, LayersDiffer
  <2> HIDE DEF exact, comps, F, O
  <2> QED
    BY <2>1, <2>3, NotRaised
<1>4. Sorted(exact, ByRank) = exact
  BY <1>1, SortedAlready
<1>5. first = MergeOverlay(exact, OverlayExact(key), Cap(open, n))
  BY <1>3, <1>4
<1>6. Cap(open, n) \in Nat /\ Cap(open, n) <= n
  BY CapFacts
<1>7. Leads(exact, F, Cap(open, n))
  <2> HIDE DEF exact, F
  <2>1. n \in Nat /\ n >= n
    OBVIOUS
  <2> QED
    BY <1>1, <1>6, <2>1, TakeLeads
<1>8. OneText(AllCands({key}))
  BY <1>0, NoTextTwice
<1>9. OneText(U) /\ Outdone(F, U) /\ Merged(F, U) = AllCands({key}) /\ U \subseteq CandidateType
  BY <1>0, <1>8, Together, AllCandsFacts
<1>10. Enumerates(Block(index, key), AllCands({key}))
  BY <1>0, IndexLists DEF VectorsInv, IndexOK
<1> HIDE DEF F, U, exact
<1> QED
  BY <1>1, <1>2, <1>5, <1>6, <1>7, <1>9, <1>10, MergedAlike

(* The same without the file.                                              *)
LEMMA FirstLayerOfIndex ==
  ASSUME VectorsInv, NEW key \in Seq(Nat), ChosenHere(key), NEW open \in BOOLEAN, NEW n \in Nat \ {0}
  PROVE  FirstLayer(ShownOf(index, userPinyins, key, open, n), OwnOf(RangeOf(index, key, open)))
           = Take(Sorted(Block(index, key), ByRank), Cap(open, n))
<1> DEFINE E == EntrySet(phrase, stats)
           shown == ShownOf(index, userPinyins, key, open, n)
           own == OwnOf(RangeOf(index, key, open))
<1>1. IndexOK(index, userPinyins, E) /\ RowsOK(phrase, stats)
  BY DEF VectorsInv
<1>2. E \subseteq EntryType /\ Unique(E)
  BY <1>1, AllCandsFacts
<1>3. shown = Take(Sorted(Block(index, key), ByRank), Cap(open, n))
  <2>1. /\ Sorted(Block(index, key), ByRank) = ByRankOf(BlockSet(E, key))
        /\ key \notin userPinyins => Block(index, key) = ByRankOf(BlockSet(E, key))
    BY <1>1, <1>2, BlockOrder
  <2> QED
    BY <2>1 DEF ShownOf
<1>4. shown \in Seq(AllCands({key}))
  <2>1. Enumerates(Block(index, key), AllCands({key})) /\ AllCands({key}) \subseteq CandidateType
    BY <1>1, IndexLists, AllCandsFacts DEF IndexOK
  <2>2. Sorted(Block(index, key), ByRank) \in Seq(AllCands({key}))
    BY <2>1, SortedEnumerates DEF Enumerates
  <2> QED
    BY <1>3, <2>2, CapFacts, TakeFacts
<1>5. \A x \in AllCands({key}) : \A i \in DOMAIN own : own[i].text # x.text
  <2> SUFFICES ASSUME NEW x \in AllCands({key}), NEW i \in DOMAIN own
               PROVE  own[i].text # x.text
    OBVIOUS
  <2>1. IndexOK(own, userPinyins, {e \in RangeSet(E, key, open) : e.user})
    BY <1>1, RangeIndexed
  <2>2. own[i] \in {e \in RangeSet(E, key, open) : e.user}
    BY <2>1, EnumeratesCounts DEF IndexOK
  <2>3. own[i] \in E /\ own[i].user /\ own[i].pinyin \in Onward(key, open)
    <3>1. own[i] \in E /\ own[i].pinyin \in Seq(Nat)
      BY <1>2, <2>2 DEF RangeSet, EntryType
    <3>2. \E q : /\ q = IF open THEN key ELSE key \o << 0 >>
                 /\ ~Before(own[i].pinyin, q) /\ Before(own[i].pinyin, IncrementPrefix(q))
                 /\ own[i].pinyin # key
      BY <2>2 DEF RangeSet
    <3> HIDE DEF own
    <3> QED
      BY <2>2, <3>1, <3>2, RangeIsOnward
  <2>4. Candidate(own[i]) \in OwnCands(Onward(key, open)) /\ Candidate(own[i]).text = own[i].text
    BY <2>3 DEF OwnCands, CandidateSet, Own, Candidate
  <2>5. RowsFine(phrase) /\ Grows(phrase, phrase)
    <3>1. RowsFine(phrase)
      BY <1>1 DEF RowsOK, RowsFine
    <3>2. \A r \in phrase : r.freq \in Nat
      BY <1>1 DEF RowsOK, RowType
    <3> QED
      BY <3>1, <3>2 DEF Grows
  <2> QED
    BY <1>1, <2>4, <2>5, LayersDiffer
<1>6. RaisedBy(shown, own) = shown
  <2> HIDE DEF shown, own
  <2> QED
    BY <1>4, <1>5, NotRaised
<1> QED
  BY <1>3, <1>6 DEF FirstLayer

(* The second layer: what the first shows is taken out of both.            *)
LEMMA SecondLayerAlike ==
  ASSUME VectorsInv, Enumerates(overlay, Own), Current,
         NEW rows, RowsFine(rows), BuiltOK(bin, rows), Grows(rows, phrase),
         NEW key \in Seq(Nat), ChosenHere(key), NEW open \in BOOLEAN, NEW n \in Nat \ {0},
         open => Deep(key, n), OneText(AllCands(Onward(key, open))),
         NEW first \in Seq(AllCands({key})), Len(first) \in Nat, Len(first) <= n
  PROVE  MergeOverlay(Without(StoreCompletions(key, open, n), Texts(first)),
                      Without(OverlayCompletions(key, open), Texts(StoreExact(key, n)) \cup Texts(first)),
                      n - Len(first))
           = Take(Sorted(Without(Candidates(RangeOf(index, key, open)), Texts(first)), ByRank), n - Len(first))
<1> DEFINE K == Onward(key, open)
           T == Texts(first)
           F == FileSet(rows, K)
           U == OwnCands(K)
           G == {f \in F : f.text \notin T}
           range == Candidates(RangeOf(index, key, open))
           comps == OverlayCompletions(key, open)
           base == StoreCompletions(key, open, n)
           all == Without(range, T)
<1>0. RowsOK(phrase, stats) /\ Enumerates(index, EntrySet(phrase, stats))
  BY DEF VectorsInv, IndexOK
<1>1. /\ OneText(F) /\ OneText(U) /\ Outdone(F, U) /\ Merged(F, U) = AllCands(K)
      /\ F \subseteq CandidateType /\ U \subseteq CandidateType
  BY <1>0, Together, AllCandsFacts, FileSetFacts
<1>2. Leads(base, F, n)
  BY <1>1, CompletionLeads
<1>3. Leads(Without(base, T), G, n - Len(first))
  <2> HIDE DEF base, F
  <2> QED
    BY <1>1, <1>2, WithoutLeads
<1>4. \A u \in U : /\ \A c \in FileSet(rows, {key}) : c.text # u.text
                   /\ \A c \in AllCands({key}) : c.text # u.text
  <2> SUFFICES ASSUME NEW u \in OwnCands(Onward(key, open))
               PROVE  /\ \A c \in FileSet(rows, {key}) : c.text # u.text
                      /\ \A c \in AllCands({key}) : c.text # u.text
    OBVIOUS
  <2> QED
    BY <1>0, LayersDiffer
<1>5. \A u \in U : u.text \notin T /\ u.text \notin Texts(StoreExact(key, n))
  <2>1. T = {first[i].text : i \in 1..Len(first)} /\ \A i \in 1..Len(first) : first[i] \in AllCands({key})
    <3>1. Texts(first) = {first[i].text : i \in 1..Len(first)}
      BY TextsAre
    <3> QED
      BY <3>1
  <2>2. StoreExact(key, n) \in Seq(FileSet(rows, {key}))
    BY ExactLeads DEF Leads
  <2>3. /\ Texts(StoreExact(key, n)) = {StoreExact(key, n)[i].text : i \in 1..Len(StoreExact(key, n))}
        /\ \A i \in 1..Len(StoreExact(key, n)) : StoreExact(key, n)[i] \in FileSet(rows, {key})
    BY <2>2, TextsAre
  <2> HIDE DEF T, U
  <2> QED
    BY <1>4, <2>1, <2>3
<1>6. Enumerates(Without(comps, Texts(StoreExact(key, n)) \cup T), U)
  <2>1. Enumerates(comps, U)
    BY <1>0, OverlayLists
  <2>2. U = {x \in U : x.text \notin Texts(StoreExact(key, n)) \cup T}
    BY <1>5
  <2> HIDE DEF comps, U, T
  <2> QED
    BY <2>1, <2>2, WithoutEnumerates
<1>7. Enumerates(range, Merged(F, U))
  BY <1>0, <1>1, IndexLists
<1>8. Merged(G, U) = {x \in Merged(F, U) : x.text \notin T}
  <2> HIDE DEF U, F, T
  <2>1. \A u \in U : u.text \notin T
    BY <1>5
  <2> QED
    BY <2>1 DEF Merged
<1>9. Enumerates(all, Merged(G, U))
  <2> HIDE DEF range, G, F, U, T
  <2> QED
    BY <1>7, <1>8, WithoutEnumerates
<1>10. G \subseteq CandidateType /\ OneText(G) /\ Outdone(G, U)
  <2> HIDE DEF U, F, T
  <2> QED
    BY <1>1 DEF OneText, Outdone
<1>11. n - Len(first) \in Nat
  OBVIOUS
<1> HIDE DEF all, G, U, T, F, base, comps
<1>12. MergeOverlay(Without(base, T), Without(comps, Texts(StoreExact(key, n)) \cup T), n - Len(first))
         = Take(Sorted(all, ByRank), n - Len(first))
  BY <1>1, <1>3, <1>6, <1>9, <1>10, <1>11, MergedAlike
<1> QED
  BY <1>12 DEF all, base, comps, T

LEMMA PrefixAlike ==
  ASSUME HomesInv, Current, RanksCurrent, NEW key \in Seq(Nat), NEW n \in Nat \ {0},
         Unambiguous(Behind(key)), ChosenHere(key), NEW open \in BOOLEAN, open => Deep(key, n)
  PROVE  FstLookupPrefix(key, open, n) = IndexLookupPrefix(index, userPinyins, key, open, n)
<1> DEFINE first == MergeOverlay(Sorted(RaisedBy(StoreExact(key, n), OverlayCompletions(key, open)), ByRank),
                                 OverlayExact(key), Cap(open, n))
           range == RangeOf(index, key, open)
           exact == StoreExact(key, n)
           comps == OverlayCompletions(key, open)
           base == StoreCompletions(key, open, n)
<1>1. VectorsInv /\ FileInv /\ OverlayOK(overlay, phrase)
  BY DEF HomesInv
<1>2. RowsOK(phrase, stats)
  BY <1>1 DEF VectorsInv
<1>3. Enumerates(overlay, Own)
  BY <1>1, <1>2, OwnListed
<1>4. PICK rows : RowsFine(rows) /\ BuiltOK(bin, rows) /\ Grows(rows, phrase)
  BY <1>1 DEF FileInv
<1>5. /\ first = Take(Sorted(Block(index, key), ByRank), Cap(open, n))
      /\ Len(first) \in Nat /\ Len(first) <= Cap(open, n) /\ first \in Seq(AllCands({key}))
  BY <1>1, <1>3, <1>4, FirstLayerOfFile
<1>6. FirstLayer(ShownOf(index, userPinyins, key, open, n), OwnOf(range)) = first
  BY <1>1, <1>5, FirstLayerOfIndex
<1>7. Cap(open, n) \in Nat /\ Cap(open, n) <= n
  BY CapFacts
<1>8. OneText(AllCands(Onward(key, open)))
  BY <1>2, NoTextTwice
<1>9. FstLookupPrefix(key, open, n)
        = first \o MergeOverlay(Without(base, Texts(first)), Without(comps, Texts(exact) \cup Texts(first)),
                                n - Len(first))
  BY DEF FstLookupPrefix
<1>10. IndexLookupPrefix(index, userPinyins, key, open, n)
         = first \o Take(Sorted(Without(Candidates(range), Texts(first)), ByRank), n - Len(first))
  BY <1>6, PrefixParts DEF LayersOf
<1> HIDE DEF first
<1>11. Len(first) <= n
  BY <1>5, <1>7
<1>12. MergeOverlay(Without(base, Texts(first)), Without(comps, Texts(exact) \cup Texts(first)), n - Len(first))
         = Take(Sorted(Without(Candidates(range), Texts(first)), ByRank), n - Len(first))
  BY <1>1, <1>3, <1>4, <1>5, <1>8, <1>11, SecondLayerAlike
<1> QED
  BY <1>9, <1>10, <1>12

LEMMA ExactAlike ==
  ASSUME HomesInv, Current, RanksCurrent, NEW key \in Seq(Nat), NEW n \in Nat
  PROVE  FstLookup(key, n) = IndexLookup(index, key, n)
<1>1. VectorsInv /\ FileInv /\ OverlayOK(overlay, phrase) /\ RowsOK(phrase, stats)
      /\ Enumerates(index, EntrySet(phrase, stats))
  BY DEF HomesInv, VectorsInv, IndexOK
<1>2. Enumerates(overlay, Own)
  BY <1>1, OwnListed
<1>3. PICK rows : RowsFine(rows) /\ BuiltOK(bin, rows) /\ Grows(rows, phrase)
  BY <1>1 DEF FileInv
<1> DEFINE F == FileSet(rows, {key})
           U == OwnCands({key})
           exact == StoreExact(key, n)
<1>4. Leads(exact, F, n) /\ F \subseteq CandidateType
  BY <1>3, ExactLeads, FileSetFacts
<1>5. OneText(AllCands({key}))
  BY <1>1, NoTextTwice
<1>6. OneText(F) /\ OneText(U) /\ Outdone(F, U) /\ Merged(F, U) = AllCands({key}) /\ U \subseteq CandidateType
  BY <1>1, <1>3, <1>5, Together, AllCandsFacts
<1>7. Enumerates(OverlayExact(key), U)
  BY <1>1, <1>2, OverlayLists
<1>8. Enumerates(Block(index, key), Merged(F, U))
  BY <1>1, <1>6, IndexLists
<1> HIDE DEF F, U, exact
<1>9. MergeOverlay(exact, OverlayExact(key), n) = Take(Sorted(Block(index, key), ByRank), n)
  BY <1>4, <1>6, <1>7, <1>8, MergedAlike
<1> QED
  BY <1>9 DEF FstLookup, IndexLookup, exact

LEMMA AbbrevAlike ==
  ASSUME HomesInv, Headed(phrase), Current, RanksCurrent, NEW initials \in Seq(Nat), NEW n \in Nat \ {0},
         Unambiguous(Abbreviated(initials))
  PROVE  FstLookupAbbrev(initials, n) = IndexLookupAbbrev(abbrevIndex, initials, n)
<1>1. VectorsInv /\ FileInv /\ OverlayOK(overlay, phrase) /\ RowsOK(phrase, stats)
      /\ Enumerates(abbrevIndex, EntrySet(phrase, stats))
  BY DEF HomesInv, VectorsInv
<1>2. Enumerates(overlay, Own)
  BY <1>1, OwnListed
<1>3. PICK rows : RowsFine(rows) /\ BuiltOK(bin, rows) /\ Grows(rows, phrase)
  BY <1>1 DEF FileInv
<1>4. Headed(rows)
  <2> SUFFICES ASSUME NEW r \in rows PROVE ~IsPrefix(<< 0 >>, r.pinyin)
    BY DEF Headed
  <2>1. PICK q \in phrase : Word(q) = Word(r)
    BY <1>3 DEF Grows
  <2>2. q.pinyin = r.pinyin
    BY <2>1 DEF Word
  <2> QED
    BY <2>2 DEF Headed
<1> DEFINE K == Abbreviating(initials)
           F == FileSet(rows, K)
           U == OwnCands(K)
           base == StoreAbbrev(initials, n)
           all == Candidates(Picks(abbrevIndex, {i \in DOMAIN abbrevIndex :
                                                  IsPrefix(initials, AbbrevOf(abbrevIndex[i].pinyin))}))
<1>5. OneText(AllCands(K))
  BY <1>1, NoTextTwice
<1>6. /\ OneText(F) /\ OneText(U) /\ Outdone(F, U) /\ Merged(F, U) = AllCands(K)
      /\ F \subseteq CandidateType /\ U \subseteq CandidateType
  BY <1>1, <1>3, <1>5, Together, AllCandsFacts, FileSetFacts
<1>7. Leads(base, F, n)
  BY <1>3, <1>4, <1>6, AbbrevLeads
<1>8. Enumerates(OverlayAbbrev(initials), U)
  BY <1>1, <1>2, OverlayLists
<1>9. Enumerates(all, Merged(F, U))
  BY <1>1, <1>6, IndexLists
<1> HIDE DEF F, U, base, all
<1>10. MergeOverlay(base, OverlayAbbrev(initials), n) = Take(Sorted(all, ByRank), n)
  BY <1>6, <1>7, <1>8, <1>9, MergedAlike
<1>11. IndexLookupAbbrev(abbrevIndex, initials, n) = Take(Sorted(all, ByRank), n)
  BY DEF IndexLookupAbbrev, Kept, all
<1> QED
  BY <1>10, <1>11 DEF FstLookupAbbrev, base

(* Lists of the same candidates, by frequency.                             *)
LEMMA TopAgrees ==
  ASSUME NEW C, C \subseteq CandidateType, NEW s, Enumerates(s, C), NEW t, Enumerates(t, C),
         NEW n \in Nat
  PROVE  TextsInOrder(Take(Sorted(s, ByFreq), n)) = TextsInOrder(Take(Sorted(t, ByFreq), n))
<1> DEFINE a == Sorted(s, ByFreq)
           b == Sorted(t, ByFreq)
           B == Below(C, ByFreq)
<1>1. \A x \in C : x.freq \in Nat /\ x.text \in Nat
  BY DEF CandidateType
<1>2. ASSUME NEW v, Enumerates(v, C)
      PROVE  /\ Enumerates(Sorted(v, ByFreq), C)
             /\ \A i, j \in 1..Len(Sorted(v, ByFreq)) : i < j => ~ByFreq(Sorted(v, ByFreq)[j], Sorted(v, ByFreq)[i])
  <2> DEFINE w == Sorted(v, ByFreq)
  <2>1. v \in Seq(C)
    BY <1>2 DEF Enumerates
  <2>2. /\ w \in Seq(C) /\ Len(w) = Len(v)
        /\ \E at : /\ Enumerates(at, 1..Len(v)) /\ MadeFrom(w, v, at)
                   /\ \A k, l \in 1..Len(v) : k < l =>
                        ByFreq(w[k], w[l]) \/ (~ByFreq(w[l], w[k]) /\ at[k] < at[l])
    BY <1>1, <2>1, SortedByFreq
  <2> HIDE DEF w
  <2>3. Enumerates(w, C)
    BY <1>2, <2>2, Rearranged
  <2>4. ASSUME NEW i \in 1..Len(w), NEW j \in 1..Len(w), i < j PROVE ~ByFreq(w[j], w[i])
    <3>1. ByFreq(w[i], w[j]) \/ ~ByFreq(w[j], w[i])
      BY <2>2, <2>4
    <3>2. w[i].freq \in Nat /\ w[i].text \in Nat /\ w[j].freq \in Nat /\ w[j].text \in Nat
      BY <1>1, <2>2
    <3> QED
      BY <3>1, <3>2 DEF ByFreq
  <2> QED
    BY <2>3, <2>4 DEF w
<1>4. Enumerates(a, C) /\ \A i, j \in 1..Len(a) : i < j => ~ByFreq(a[j], a[i])
  BY <1>2
<1>5. Enumerates(b, C) /\ \A i, j \in 1..Len(b) : i < j => ~ByFreq(b[j], b[i])
  BY <1>2
<1> HIDE DEF a, b
<1>7. /\ Len(a) = Len(b) /\ Len(a) \in Nat /\ a \in Seq(C) /\ b \in Seq(C)
      /\ \A i \in 1..Len(a) : a[i] \in C /\ b[i] \in C
  <2>1. Len(a) = Cardinality(C) /\ Len(a) \in Nat /\ \A i \in 1..Len(a) : a[i] \in C
    BY <1>4, EnumeratesCounts
  <2>2. Len(b) = Cardinality(C) /\ \A i \in 1..Len(b) : b[i] \in C
    BY <1>5, EnumeratesCounts
  <2>3. a \in Seq(C) /\ b \in Seq(C)
    BY <1>4, <1>5 DEF Enumerates
  <2> QED
    BY <2>1, <2>2, <2>3
<1>8. WeakOrder(B, C)
  BY <1>1, FreqIsWeak
<1>9. \A x, y \in C : y \in B[x] <=> ByFreq(y, x)
  BY DEF Below
<1> HIDE DEF B
<1>10. \A i, j \in 1..Len(a) : i < j => a[j] \notin B[a[i]]
  BY <1>4, <1>7, <1>9
<1>11. \A i, j \in 1..Len(b) : i < j => b[j] \notin B[b[i]]
  BY <1>5, <1>7, <1>9
<1>12. ASSUME NEW i \in 1..Len(a) PROVE a[i].text = b[i].text
  <2>1. a[i] \notin B[b[i]]
    BY <1>4, <1>5, <1>8, <1>10, <1>11, WeaklyAgree
  <2>2. i \in 1..Len(b)
    BY <1>7
  <2>3. b[i] \notin B[a[i]]
    BY <1>4, <1>5, <1>8, <1>10, <1>11, <2>2, WeaklyAgree
  <2>4. ~ByFreq(a[i], b[i]) /\ ~ByFreq(b[i], a[i])
    BY <1>7, <1>9, <2>1, <2>3
  <2>5. a[i].freq \in Nat /\ a[i].text \in Nat /\ b[i].freq \in Nat /\ b[i].text \in Nat
    BY <1>1, <1>7
  <2> QED
    BY <2>4, <2>5 DEF ByFreq
<1>13. /\ Take(a, n) \in Seq(C) /\ Take(b, n) \in Seq(C) /\ Len(Take(a, n)) = Len(Take(b, n))
       /\ \A i \in 1..Len(Take(a, n)) : Take(a, n)[i] = a[i] /\ i \in 1..Len(a)
       /\ \A i \in 1..Len(Take(b, n)) : Take(b, n)[i] = b[i]
  BY <1>7, TakeFacts
<1>14. DOMAIN Take(a, n) = DOMAIN Take(b, n) /\ DOMAIN Take(a, n) = 1..Len(Take(a, n))
  BY <1>13
<1>15. \A i \in DOMAIN Take(a, n) : Take(a, n)[i].text = Take(b, n)[i].text
  BY <1>12, <1>13, <1>14
<1>16. TextsInOrder(Take(a, n)) = TextsInOrder(Take(b, n))
  BY <1>14, <1>15 DEF TextsInOrder
<1> QED
  BY <1>16 DEF a, b

LEMMA TopUserAlike ==
  ASSUME HomesInv, RanksCurrent, NEW n \in Nat
  PROVE  TextsInOrder(FstTopUser(n)) = TextsInOrder(IndexTopUser(index, n))
<1>1. /\ RowsOK(phrase, stats) /\ OverlayOK(overlay, phrase)
      /\ Enumerates(index, EntrySet(phrase, stats))
  BY DEF HomesInv, VectorsInv, IndexOK
<1>2. Enumerates(overlay, Own)
  BY <1>1, OwnListed
<1>3. Own \subseteq EntryType /\ Unique(Own)
  BY <1>1, AllCandsFacts
<1> DEFINE C == CandidateSet(Own)
           s == Candidates(overlay)
           t == Candidates(Picks(index, {i \in DOMAIN index : index[i].user}))
<1>4. C \subseteq CandidateType
  BY <1>3, CandidateSetFacts
<1>5. Enumerates(s, C)
  BY <1>2, <1>3, CandidatesEnumerate
<1>6. Enumerates(t, C)
  <2>1. << >> \in Seq(Nat)
    OBVIOUS
  <2> QED
    BY <1>1, <2>1, IndexLists
<1>7. FstTopUser(n) = Take(Sorted(s, ByFreq), n) /\ IndexTopUser(index, n) = Take(Sorted(t, ByFreq), n)
  BY DEF FstTopUser, IndexTopUser, Kept
<1> HIDE DEF C, s, t
<1>8. TextsInOrder(Take(Sorted(s, ByFreq), n)) = TextsInOrder(Take(Sorted(t, ByFreq), n))
  BY <1>4, <1>5, <1>6, TopAgrees
<1> QED
  BY <1>7, <1>8

LEMMA AllAlike ==
  ASSUME HomesInv, Headed(phrase)
  PROVE  SameAnswers
<1> SUFFICES ASSUME Current, RanksCurrent, NEW n \in Limits
             PROVE  /\ \A key \in Queries :
                         /\ TextsInOrder(FstLookup(key, n)) = TextsInOrder(IndexLookup(index, key, n))
                         /\ Unambiguous(Behind(key)) /\ ChosenHere(key) =>
                              \A open \in BOOLEAN : (open => Deep(key, n)) =>
                                TextsInOrder(FstLookupPrefix(key, open, n))
                                  = TextsInOrder(IndexLookupPrefix(index, userPinyins, key, open, n))
                    /\ \A initials \in Initials : Unambiguous(Abbreviated(initials)) =>
                         TextsInOrder(FstLookupAbbrev(initials, n))
                           = TextsInOrder(IndexLookupAbbrev(abbrevIndex, initials, n))
                    /\ TextsInOrder(FstTopUser(n)) = TextsInOrder(IndexTopUser(index, n))
  BY DEF SameAnswers
<1>1. n \in Nat \ {0} /\ Queries \subseteq Seq(Nat) /\ Initials \subseteq Seq(Nat)
  BY DictionaryAssumption
<1>2. ASSUME NEW key \in Queries
      PROVE  TextsInOrder(FstLookup(key, n)) = TextsInOrder(IndexLookup(index, key, n))
  <2>1. key \in Seq(Nat)
    BY <1>1
  <2>2. FstLookup(key, n) = IndexLookup(index, key, n)
    BY <1>1, <2>1, ExactAlike
  <2> QED
    BY <2>2
<1>3. ASSUME NEW key \in Queries, Unambiguous(Behind(key)), ChosenHere(key),
             NEW open \in BOOLEAN, open => Deep(key, n)
      PROVE  TextsInOrder(FstLookupPrefix(key, open, n))
               = TextsInOrder(IndexLookupPrefix(index, userPinyins, key, open, n))
  <2>1. key \in Seq(Nat)
    BY <1>1
  <2>2. FstLookupPrefix(key, open, n) = IndexLookupPrefix(index, userPinyins, key, open, n)
    BY <1>1, <1>3, <2>1, PrefixAlike
  <2> QED
    BY <2>2
<1>4. ASSUME NEW initials \in Initials, Unambiguous(Abbreviated(initials))
      PROVE  TextsInOrder(FstLookupAbbrev(initials, n))
               = TextsInOrder(IndexLookupAbbrev(abbrevIndex, initials, n))
  <2>1. initials \in Seq(Nat)
    BY <1>1
  <2>2. FstLookupAbbrev(initials, n) = IndexLookupAbbrev(abbrevIndex, initials, n)
    BY <1>1, <1>4, <2>1, AbbrevAlike
  <2> QED
    BY <2>2
<1>5. TextsInOrder(FstTopUser(n)) = TextsInOrder(IndexTopUser(index, n))
  BY <1>1, TopUserAlike
<1> QED
  BY <1>2, <1>3, <1>4, <1>5

(* Readings begin with a letter.                                           *)
LEMMA HeadedInitially ==
  ASSUME Init
  PROVE  Headed(phrase)
<1>1. PICK source \in Sources :
        phrase = {[pinyin |-> l.pinyin, text |-> l.text, freq |-> l.freq, user |-> FALSE] : l \in source}
  BY DEF Init
<1> SUFFICES ASSUME NEW r \in phrase PROVE ~IsPrefix(<< 0 >>, r.pinyin)
  BY DEF Headed
<1>2. PICK l \in source : r = [pinyin |-> l.pinyin, text |-> l.text, freq |-> l.freq, user |-> FALSE]
  BY <1>1
<1>3. r.pinyin = l.pinyin /\ l \in (UNION Sources) \cup Later \cup Learnable
  BY <1>2
<1>4. \A w \in (UNION Sources) \cup Later \cup Learnable : ~IsPrefix(<< 0 >>, w.pinyin)
  BY DictionaryAssumption
<1> QED
  BY <1>3, <1>4

LEMMA HeadedKept ==
  ASSUME Headed(phrase), [Next]_vars
  PROVE  Headed(phrase)'
<1>0. \A w \in (UNION Sources) \cup Later \cup Learnable : ~IsPrefix(<< 0 >>, w.pinyin)
  BY DictionaryAssumption
<1>1. ASSUME NEW w \in Learnable, Learn(w) PROVE Headed(phrase')
  <2>1. phrase' = Persisted(w)
    BY <1>1 DEF Learn
  <2>2. ASSUME NEW r \in Persisted(w) PROVE r \in phrase \/ r.pinyin = w.pinyin
    BY DEF Persisted
  <2>3. ~IsPrefix(<< 0 >>, w.pinyin)
    <3>1. w \in (UNION Sources) \cup Later \cup Learnable
      OBVIOUS
    <3> QED
      BY <1>0, <3>1
  <2> QED
    BY <2>1, <2>2, <2>3 DEF Headed
<1>2. CASE Import
  <2>1. PICK line \in Later : phrase' = Upserted(phrase, line)
    BY <1>2 DEF Import
  <2>2. ASSUME NEW r \in Upserted(phrase, line) PROVE r \in phrase \/ r.pinyin = line.pinyin
    BY DEF Upserted
  <2>3. ~IsPrefix(<< 0 >>, line.pinyin)
    <3>1. line \in (UNION Sources) \cup Later \cup Learnable
      OBVIOUS
    <3> QED
      BY <1>0, <3>1
  <2> QED
    BY <2>1, <2>2, <2>3 DEF Headed
<1>3. CASE Build
  BY <1>3 DEF Build, Headed
<1>4. CASE Reopen
  BY <1>4 DEF Reopen, Headed
<1>5. CASE UNCHANGED vars
  BY <1>5 DEF vars, Headed
<1> QED
  BY <1>1, <1>2, <1>3, <1>4, <1>5 DEF Next, Headed

(* dict.rs, lookup_prefix: the path over the file and the path over the    *)
(* index must mean the same. In every state the two homes of a word give   *)
(* the same texts in the same order to every lookup, under the conditions  *)
(* SameAnswers names: the hot table, the walk that passes blocks over and  *)
(* the merge with the user's words come to what sorting all rows gives.    *)
THEOREM BothHomesAnswerAlike == Spec => []SameAnswers
<1>1. Init => HomesInv /\ Headed(phrase)
  BY HomesInitially, HeadedInitially
<1>2. HomesInv /\ Headed(phrase) /\ [Next]_vars => (HomesInv /\ Headed(phrase))'
  BY HomesKept, HeadedKept
<1>3. HomesInv /\ Headed(phrase) => SameAnswers
  BY AllAlike
<1> QED
  BY <1>1, <1>2, <1>3, PTL DEF Spec

----------------------------------------------------------------------------
(* Room for the second layer. Different texts, counted.                    *)
LEMMA TextsCounted ==
  ASSUME NEW S, NEW s \in Seq(S), Distinct(s)
  PROVE  IsFiniteSet(Texts(s)) /\ Cardinality(Texts(s)) = Len(s)
<1> DEFINE u == [i \in 1..Len(s) |-> s[i].text]
<1>1. Len(s) \in Nat /\ DOMAIN s = 1..Len(s) /\ Texts(s) = {s[i].text : i \in 1..Len(s)}
  BY TextsAre
<1>2. u \in Seq(Texts(s)) /\ Len(u) = Len(s)
  BY <1>1
<1>3. \A i, j \in 1..Len(u) : u[i] = u[j] => i = j
  BY <1>2 DEF Distinct
<1>4. \A x \in Texts(s) : \E i \in 1..Len(u) : u[i] = x
  <2> SUFFICES ASSUME NEW x \in Texts(s) PROVE \E i \in 1..Len(u) : u[i] = x
    OBVIOUS
  <2>1. PICK i \in 1..Len(s) : s[i].text = x
    BY <1>1
  <2> QED
    BY <1>2, <2>1
<1>5. Enumerates(u, Texts(s))
  BY <1>2, <1>3, <1>4 DEF Enumerates
<1> QED
  BY <1>2, <1>5, EnumeratesCounts

LEMMA TakeDistinct ==
  ASSUME NEW S, NEW s \in Seq(S), Distinct(s), NEW n \in Nat
  PROVE  /\ Distinct(Take(s, n)) /\ Len(Take(s, n)) \in Nat
         /\ Texts(Take(s, n)) \subseteq Texts(s)
         /\ Len(Take(s, n)) >= n \/ Take(s, n) = s
<1> DEFINE t == Take(s, n)
<1>1. /\ t \in Seq(S) /\ Len(t) = (IF n < Len(s) THEN n ELSE Len(s)) /\ Len(s) \in Nat
      /\ \A i \in 1..Len(t) : t[i] = s[i] /\ i \in 1..Len(s)
  BY TakeFacts
<1>2. Len(t) >= n \/ t = s
  <2>1. CASE n < Len(s)
    BY <1>1, <2>1
  <2>2. CASE ~(n < Len(s))
    BY <2>2 DEF Take
  <2> QED
    BY <2>1, <2>2
<1> HIDE DEF t
<1>3. Distinct(t)
  BY <1>1 DEF Distinct
<1>4. Texts(t) \subseteq Texts(s)
  <2>1. Texts(t) = {t[i].text : i \in 1..Len(t)} /\ Texts(s) = {s[i].text : i \in 1..Len(s)}
    BY <1>1, TextsAre
  <2> QED
    BY <1>1, <2>1
<1>5. Len(t) \in Nat
  BY <1>1
<1> QED
  BY <1>2, <1>3, <1>4, <1>5 DEF t

(* A merge is as long as it may be or has every text.                      *)
LEMMA MergeReaches ==
  ASSUME NEW S, S \subseteq CandidateType, NEW base \in Seq(S), Distinct(base),
         NEW user \in Seq(S), NEW n \in Nat
  PROVE  /\ MergeOverlay(base, user, n) \in Seq(S) /\ Distinct(MergeOverlay(base, user, n))
         /\ \/ Len(MergeOverlay(base, user, n)) >= n
            \/ /\ Texts(MergeOverlay(base, user, n)) = Texts(user) \cup Texts(base)
               /\ Len(base) < n
<1>1. \E m : /\ MergeOverlay(base, user, n) = Take(m, n) /\ m \in Seq(S) /\ Distinct(m)
             /\ Texts(m) = Texts(user) \cup Texts(base)
  <2>1. CASE user = <<>>
    <3>1. MergeOverlay(base, user, n) = Take(base, n)
      BY <2>1 DEF MergeOverlay
    <3>2. Texts(user) = {}
      BY <2>1 DEF Texts
    <3> QED
      BY <3>1, <3>2
  <2>2. CASE user # <<>>
    <3>1. \E m : /\ MergeOverlay(base, user, n) = Take(m, n)
                 /\ m \in Seq(S) /\ Merges(m, base, user)
      BY <2>2, MergeFacts
    <3>2. \A m : Merges(m, base, user) => Distinct(m) /\ Texts(m) = Texts(user) \cup Texts(base)
      BY DEF Merges
    <3> QED
      BY <3>1, <3>2
  <2> QED
    BY <2>1, <2>2
<1>2. PICK m : /\ MergeOverlay(base, user, n) = Take(m, n) /\ m \in Seq(S) /\ Distinct(m)
               /\ Texts(m) = Texts(user) \cup Texts(base)
  BY <1>1
<1>3. /\ Take(m, n) \in Seq(S) /\ Distinct(Take(m, n)) /\ Len(Take(m, n)) \in Nat
      /\ Len(Take(m, n)) >= n \/ Take(m, n) = m
  BY <1>2, TakeDistinct, TakeFacts
<1>4. Len(base) <= Len(m) /\ Len(base) \in Nat /\ Len(m) \in Nat
  <2>1. IsFiniteSet(Texts(m)) /\ Cardinality(Texts(m)) = Len(m)
    BY <1>2, TextsCounted
  <2>2. IsFiniteSet(Texts(base)) /\ Cardinality(Texts(base)) = Len(base)
    BY TextsCounted
  <2>3. Cardinality(Texts(base)) <= Cardinality(Texts(m))
    BY <1>2, <2>1, FS_Subset
  <2> QED
    BY <1>2, <2>1, <2>2, <2>3
<1>5. Take(m, n) = m /\ ~(Len(m) >= n) => Texts(Take(m, n)) = Texts(user) \cup Texts(base) /\ Len(base) < n
  BY <1>2, <1>4
<1> QED
  BY <1>2, <1>3, <1>5

(* What a list of two layers reaches.                                      *)
Further(key) == {r.text : r \in {x \in phrase : x.pinyin \in Behind(key)}}

LEMMA LayersReach ==
  ASSUME NEW key, NEW A, NEW a \in Seq(A), NEW B, NEW b \in Seq(B),
         \A x \in A : x.pinyin = key, \A x \in B : x.pinyin # key,
         Distinct(b), Texts(a) \cap Texts(b) = {}, NEW n \in Nat,
         Len(b) >= n \div 2 \/ Further(key) \subseteq Texts(a) \cup Texts(b)
  PROVE  Reaches(key, a \o b, n)
<1> DEFINE list == a \o b
           shown == {list[i].text : i \in {j \in DOMAIN list : list[j].pinyin = key}}
<1>1. /\ Len(a) \in Nat /\ Len(b) \in Nat /\ Len(list) = Len(a) + Len(b) /\ DOMAIN list = 1..(Len(a) + Len(b))
      /\ \A i \in 1..Len(a) : list[i] = a[i] /\ a[i] \in A
      /\ \A i \in 1..Len(b) : list[i + Len(a)] = b[i] /\ b[i] \in B
  OBVIOUS
<1>2. Texts(a) = {a[i].text : i \in 1..Len(a)} /\ Texts(b) = {b[i].text : i \in 1..Len(b)}
  BY TextsAre
<1>3. \A i \in DOMAIN list : \/ i \in 1..Len(a)
                             \/ \E j \in 1..Len(b) : i = j + Len(a)
  <2> SUFFICES ASSUME NEW i \in DOMAIN list, i \notin 1..Len(a)
               PROVE  \E j \in 1..Len(b) : i = j + Len(a)
    OBVIOUS
  <2>1. i - Len(a) \in 1..Len(b) /\ i = (i - Len(a)) + Len(a)
    BY <1>1
  <2> QED
    BY <2>1
<1>4. \A i \in 1..Len(a) : i \in DOMAIN list
  BY <1>1
<1>5. \A i \in 1..Len(b) : i + Len(a) \in DOMAIN list
  BY <1>1
<1> HIDE DEF list
<1>6. shown = Texts(a)
  <2>1. ASSUME NEW i \in DOMAIN list, list[i].pinyin = key PROVE list[i].text \in Texts(a)
    BY <1>1, <1>2, <1>3, <2>1
  <2>2. ASSUME NEW t \in Texts(a) PROVE t \in shown
    <3>1. PICK i \in 1..Len(a) : a[i].text = t
      BY <1>2
    <3>2. i \in DOMAIN list /\ list[i].pinyin = key /\ list[i].text = t
      BY <1>1, <1>4, <3>1
    <3> QED
      BY <3>2
  <2> QED
    BY <2>1, <2>2
<1>7. Texts(list) = Texts(a) \cup Texts(b)
  <2>1. ASSUME NEW i \in DOMAIN list PROVE list[i].text \in Texts(a) \cup Texts(b)
    <3>1. CASE i \in 1..Len(a)
      BY <1>1, <1>2, <3>1
    <3>2. ASSUME NEW j \in 1..Len(b), i = j + Len(a) PROVE list[i].text \in Texts(b)
      BY <1>1, <1>2, <3>2
    <3> QED
      BY <1>3, <3>1, <3>2
  <2>2. ASSUME NEW t \in Texts(a) PROVE t \in Texts(list)
    <3>1. PICK i \in 1..Len(a) : a[i].text = t
      BY <1>2
    <3> QED
      BY <1>1, <1>4, <3>1 DEF Texts
  <2>3. ASSUME NEW t \in Texts(b) PROVE t \in Texts(list)
    <3>1. PICK i \in 1..Len(b) : b[i].text = t
      BY <1>2
    <3> QED
      BY <1>1, <1>5, <3>1 DEF Texts
  <2>4. Texts(list) \subseteq Texts(a) \cup Texts(b)
    BY <2>1 DEF Texts
  <2> QED
    BY <2>2, <2>3, <2>4
<1> HIDE DEF shown
<1>8. Texts(list) \ shown = Texts(b)
  BY <1>6, <1>7
<1>9. Cardinality(Texts(list) \ shown) = Len(b)
  BY <1>8, TextsCounted
<1>10. Cardinality(Texts(list) \ shown) >= n \div 2 \/ Further(key) \ shown \subseteq Texts(list)
  BY <1>7, <1>9
<1> QED
  BY <1>10 DEF Reaches, Further, shown, list

LEMMA FurtherFacts ==
  ASSUME RowsOK(phrase, stats), NEW key \in Seq(Nat) \ {<<>>}, NEW t \in Further(key)
  PROVE  \E r \in phrase : r.text = t /\ r.pinyin \in Onward(key, TRUE) /\ r \in RowType
<1>1. PICK r \in phrase : r.text = t /\ r.pinyin \in Behind(key)
  BY DEF Further
<1>2. r \in RowType /\ r.pinyin \in Seq(Nat)
  BY DEF RowsOK, RowType
<1>3. PICK q \in phrase : IsPrefix(key, q.pinyin) /\ r.pinyin = q.pinyin /\ r.pinyin # key
  BY <1>1 DEF Behind
<1>4. Onward(key, TRUE) = {k \in Seq(Nat) : IsPrefix(key, k) /\ key # <<>> /\ k # key}
  BY OnwardFacts
<1>5. r.pinyin \in Onward(key, TRUE)
  BY <1>2, <1>3, <1>4
<1> QED
  BY <1>1, <1>2, <1>5

LEMMA HalfLeft ==
  ASSUME NEW n \in Nat \ {0}, NEW m \in Nat, m <= Cap(TRUE, n)
  PROVE  n - m \in Nat /\ n - m >= n \div 2
BY DEF Cap

(* The first layer leaves the other half, whatever raises it.              *)
LEMMA FirstLayerSize ==
  ASSUME VectorsInv, NEW key \in Seq(Nat), NEW n \in Nat \ {0}, NEW first,
         first = FirstLayer(ShownOf(index, userPinyins, key, TRUE, n), OwnOf(RangeOf(index, key, TRUE)))
  PROVE  first \in Seq(Homophones(key)) /\ Len(first) \in Nat /\ Len(first) <= Cap(TRUE, n)
<1> DEFINE E == EntrySet(phrase, stats)
           C == Homophones(key)
           shown == ShownOf(index, userPinyins, key, TRUE, n)
           own == OwnOf(RangeOf(index, key, TRUE))
           raised == RaisedBy(shown, own)
<1>1. IndexOK(index, userPinyins, E) /\ RowsOK(phrase, stats)
  BY DEF VectorsInv
<1>2. E \subseteq EntryType /\ Unique(E)
  BY <1>1, AllCandsFacts
<1>3. /\ C \subseteq CandidateType /\ \A c \in C : c.eff \in Nat /\ c.text \in Nat
      /\ \A c \in C : \A f \in Nat : [c EXCEPT !.freq = f] \in C
  BY DEF Homophones, CandidateType
<1>4. AllCands({key}) \subseteq C
  <2>1. AllCands({key}) = {RowCand(r) : r \in {x \in phrase : x.pinyin \in {key}}}
    BY <1>1, RowCandFacts
  <2>2. \A r \in phrase : RowCand(r) \in CandidateType /\ RowCand(r).pinyin = r.pinyin
    BY <1>1, RowCandFacts
  <2> QED
    BY <2>1, <2>2 DEF Homophones
<1> HIDE DEF C
<1>5. Block(index, key) \in Seq(C)
  <2>1. Block(index, key) \in Seq(AllCands({key}))
    BY <1>1, IndexLists DEF IndexOK, Enumerates
  <2> QED
    BY <1>4, <2>1, SeqMonotonic
<1>6. Cap(TRUE, n) \in Nat
  BY CapFacts
<1>7. shown \in Seq(C) /\ Len(shown) \in Nat /\ Len(shown) <= Cap(TRUE, n)
  <2>1. Sorted(Block(index, key), ByRank) \in Seq(C)
    BY <1>3, <1>5, SortedByRank
  <2> QED
    BY <1>5, <1>6, <2>1, TakeFacts, TakeTwice DEF ShownOf
<1>8. own \in Seq(EntryType)
  <2>1. IndexOK(own, userPinyins, {e \in RangeSet(E, key, TRUE) : e.user})
    BY <1>1, RangeIndexed
  <2>2. own \in Seq({e \in RangeSet(E, key, TRUE) : e.user})
    BY <2>1 DEF IndexOK, Enumerates
  <2>3. {e \in RangeSet(E, key, TRUE) : e.user} \subseteq EntryType
    BY <1>2 DEF RangeSet
  <2> QED
    BY <2>2, <2>3, SeqMonotonic
<1>9. raised \in Seq(C)
  <2>1. \A x \in EntryType : x.freq \in Nat
    BY DEF EntryType
  <2> HIDE DEF shown, own
  <2> QED
    BY <1>3, <1>7, <1>8, <2>1, RaisedMembers
<1>10. Len(raised) = Len(shown)
  <2>1. DOMAIN raised = DOMAIN shown
    BY DEF RaisedBy
  <2> HIDE DEF raised, shown
  <2> QED
    BY <1>7, <1>9, <2>1
<1> HIDE DEF raised, shown
<1>11. Sorted(raised, ByRank) \in Seq(C) /\ Len(Sorted(raised, ByRank)) = Len(raised)
  BY <1>3, <1>9, SortedByRank
<1>12. first = shown \/ first = Sorted(raised, ByRank)
  BY DEF FirstLayer, raised, shown
<1> QED
  BY <1>7, <1>10, <1>11, <1>12 DEF C

LEMMA IndexReaches ==
  ASSUME VectorsInv, NEW key \in Seq(Nat) \ {<<>>}, NEW n \in Nat \ {0},
         OneText(AllCands(Onward(key, TRUE)))
  PROVE  Reaches(key, IndexLookupPrefix(index, userPinyins, key, TRUE, n), n)
<1> DEFINE K == Onward(key, TRUE)
           range == RangeOf(index, key, TRUE)
           first == FirstLayer(ShownOf(index, userPinyins, key, TRUE, n), OwnOf(range))
           Y == {x \in AllCands(K) : x.text \notin Texts(first)}
           w == Sorted(Without(Candidates(range), Texts(first)), ByRank)
           second == Take(w, n - Len(first))
<1>1. RowsOK(phrase, stats) /\ Enumerates(index, EntrySet(phrase, stats))
  BY DEF VectorsInv, IndexOK
<1>2. first \in Seq(Homophones(key)) /\ Len(first) \in Nat /\ Len(first) <= Cap(TRUE, n)
  BY FirstLayerSize
<1>3. n - Len(first) \in Nat /\ n - Len(first) >= n \div 2
  BY <1>2, HalfLeft
<1>4. IndexLookupPrefix(index, userPinyins, key, TRUE, n) = first \o second
  BY PrefixParts DEF LayersOf
<1> HIDE DEF first
<1>5. Enumerates(Candidates(range), AllCands(K)) /\ AllCands(K) \subseteq CandidateType
  BY <1>1, IndexLists, AllCandsFacts
<1> HIDE DEF range
<1>6. Enumerates(w, Y)
  <2>1. Enumerates(Without(Candidates(range), Texts(first)), Y)
    BY <1>5, WithoutEnumerates
  <2>2. Y \subseteq CandidateType
    BY <1>5
  <2> HIDE DEF Y
  <2> QED
    BY <2>1, <2>2, SortedEnumerates
<1>7. /\ Len(w) \in Nat /\ \A i \in 1..Len(w) : w[i] \in Y
      /\ w \in Seq(Y) /\ \A i, j \in 1..Len(w) : w[i] = w[j] => i = j
      /\ \A y \in Y : \E i \in 1..Len(w) : w[i] = y
  BY <1>6, EnumeratesCounts DEF Enumerates
<1>8. /\ \A x \in AllCands(K) : x.pinyin # key
      /\ \A r \in phrase : r.pinyin \in K => RowCand(r) \in AllCands(K) /\ RowCand(r).text = r.text
  <2>1. AllCands(K) = {RowCand(r) : r \in {x \in phrase : x.pinyin \in K}}
    BY <1>1, RowCandFacts
  <2>2. \A r \in phrase : RowCand(r).text = r.text /\ RowCand(r).pinyin = r.pinyin
    BY <1>1, RowCandFacts
  <2>3. \A k \in K : k # key
    BY OnwardFacts
  <2> HIDE DEF K
  <2> QED
    BY <2>1, <2>2, <2>3
<1> HIDE DEF K
<1>9. Distinct(w)
  <2>1. \A x, y \in Y : x.text = y.text => x = y
    BY DEF OneText, K
  <2> HIDE DEF Y, w
  <2> QED
    BY <1>7, <2>1 DEF Distinct
<1>10. /\ \A x \in Y : x.pinyin # key /\ x.text \notin Texts(first)
  BY <1>8
<1>11. Further(key) \subseteq Texts(first) \cup Texts(w)
  <2> SUFFICES ASSUME NEW t \in Further(key), t \notin Texts(first)
               PROVE  t \in Texts(w)
    OBVIOUS
  <2>1. PICK r \in phrase : r.text = t /\ r.pinyin \in K
    BY <1>1, FurtherFacts DEF K
  <2>2. RowCand(r) \in Y
    BY <1>8, <2>1
  <2>3. PICK i \in 1..Len(w) : w[i] = RowCand(r)
    BY <1>7, <2>2
  <2>4. Texts(w) = {w[j].text : j \in 1..Len(w)}
    BY <1>7, TextsAre
  <2> QED
    BY <1>8, <2>1, <2>3, <2>4
<1> HIDE DEF Y, w
<1>12. /\ second \in Seq(Y) /\ Distinct(second) /\ Len(second) \in Nat /\ Texts(second) \subseteq Texts(w)
       /\ Len(second) >= n - Len(first) \/ second = w
  BY <1>3, <1>7, <1>9, TakeFacts, TakeDistinct
<1> HIDE DEF second
<1>13. Texts(first) \cap Texts(second) = {}
  <2>1. Texts(second) = {second[i].text : i \in 1..Len(second)} /\ \A i \in 1..Len(second) : second[i] \in Y
    <3>1. Texts(second) = {second[i].text : i \in 1..Len(second)}
      BY <1>12, TextsAre
    <3> QED
      BY <1>12, <3>1
  <2> QED
    BY <1>10, <2>1
<1>14. Len(second) >= n \div 2 \/ Further(key) \subseteq Texts(first) \cup Texts(second)
  <2>1. n \div 2 \in Int
    OBVIOUS
  <2>2. CASE Len(second) >= n - Len(first)
    <3>1. Len(second) >= n \div 2
      BY <1>2, <1>3, <1>12, <2>1, <2>2
    <3> QED
      BY <3>1
  <2>3. CASE second = w
    BY <1>11, <2>3
  <2> QED
    BY <1>12, <2>2, <2>3
<1>15. \A x \in Homophones(key) : x.pinyin = key
  BY DEF Homophones
<1>16. Reaches(key, first \o second, n)
  BY <1>2, <1>10, <1>12, <1>13, <1>14, <1>15, LayersReach
<1> QED
  BY <1>4, <1>16

(* Every user's word that goes on from a reading is among those that the   *)
(* overlay gives, whatever its rank.                                       *)
LEMMA OverlayHas ==
  ASSUME RowsOK(phrase, stats), OverlayOK(overlay, phrase), NEW key \in Seq(Nat),
         NEW r \in phrase, r.user, r.pinyin \in Onward(key, TRUE)
  PROVE  r.text \in Texts(OverlayCompletions(key, TRUE))
<1>1. PICK own : /\ own \subseteq EntryType /\ Unique(own) /\ IndexOK(overlay, Seq(Nat), own)
                 /\ \A q \in phrase : q.user => \E x \in own : Word(x) = Word(q)
  BY DEF OverlayOK
<1>2. Enumerates(overlay, own)
  BY <1>1 DEF IndexOK
<1>3. PICK x \in own : Word(x) = Word(r)
  BY <1>1
<1>4. x.pinyin = r.pinyin /\ x.text = r.text
  BY <1>3 DEF Word
<1> DEFINE K == Onward(key, TRUE)
           F == {y \in own : y.pinyin \in K}
           P == {i \in DOMAIN overlay : /\ ~Before(overlay[i].pinyin, key)
                                        /\ Before(overlay[i].pinyin, IncrementPrefix(key))
                                        /\ overlay[i].pinyin # key}
<1>5. OverlayCompletions(key, TRUE) = Candidates(Picks(overlay, P))
  BY DEF OverlayCompletions, Kept
<1>6. ASSUME NEW k \in Seq(Nat)
      PROVE  (~Before(k, key) /\ Before(k, IncrementPrefix(key)) /\ k # key) <=> k \in K
  BY RangeIsOnward
<1>7. \A i \in DOMAIN overlay : overlay[i] \in own /\ overlay[i].pinyin \in Seq(Nat)
  <2>1. \A i \in DOMAIN overlay : overlay[i] \in own
    BY <1>2, EnumeratesCounts
  <2> QED
    BY <1>1, <2>1 DEF EntryType
<1>8. x \in F
  BY <1>4
<1> HIDE DEF K
<1>9. /\ F \in SUBSET own /\ P \subseteq DOMAIN overlay
      /\ \A i \in DOMAIN overlay : i \in P <=> overlay[i] \in F
  BY <1>6, <1>7
<1> HIDE DEF F, P
<1>10. Enumerates(OverlayCompletions(key, TRUE), CandidateSet(F))
  BY <1>1, <1>2, <1>5, <1>9, FilteredEnumerates
<1>11. Candidate(x) \in CandidateSet(F) /\ Candidate(x).text = r.text
  BY <1>4, <1>8 DEF CandidateSet, Candidate
<1>12. /\ OverlayCompletions(key, TRUE) \in Seq(CandidateSet(F))
       /\ \E i \in 1..Len(OverlayCompletions(key, TRUE)) : OverlayCompletions(key, TRUE)[i] = Candidate(x)
  BY <1>10, <1>11 DEF Enumerates
<1>13. Texts(OverlayCompletions(key, TRUE))
         = {OverlayCompletions(key, TRUE)[i].text : i \in 1..Len(OverlayCompletions(key, TRUE))}
  BY <1>12, TextsAre
<1> QED
  BY <1>11, <1>12, <1>13

LEMMA WithoutTexts ==
  ASSUME NEW S, NEW s \in Seq(S), NEW T, NEW t \in Texts(s), t \notin T
  PROVE  t \in Texts(Without(s, T))
<1> DEFINE P == {i \in DOMAIN s : s[i].text \notin T}
<1>1. Without(s, T) = Picks(s, P)
  BY DEF Without, Kept
<1>2. P \in SUBSET (1..Len(s))
  OBVIOUS
<1>3. PICK i \in 1..Len(s) : s[i].text = t
  BY TextsAre
<1>4. i \in P
  BY <1>3
<1> HIDE DEF P
<1>5. /\ Picks(s, P) \in Seq(S)
      /\ \E at : Enumerates(at, P) /\ Increases(at) /\ MadeFrom(Picks(s, P), s, at)
  BY <1>2, PicksFacts
<1>6. PICK at : Enumerates(at, P) /\ MadeFrom(Picks(s, P), s, at)
  BY <1>5
<1>7. PICK n \in 1..Len(at) : at[n] = i
  BY <1>4, <1>6 DEF Enumerates
<1>8. n \in 1..Len(Picks(s, P)) /\ Picks(s, P)[n] = s[i]
  BY <1>6, <1>7 DEF MadeFrom
<1>9. Texts(Picks(s, P)) = {Picks(s, P)[k].text : k \in 1..Len(Picks(s, P))}
  BY <1>5, TextsAre
<1> QED
  BY <1>1, <1>3, <1>8, <1>9

LEMMA FileReaches ==
  ASSUME HomesInv, Current, NEW key \in Seq(Nat) \ {<<>>}, NEW n \in Nat \ {0},
         OneText(AllCands(Onward(key, TRUE))), ChosenHere(key), Deep(key, n)
  PROVE  Reaches(key, FstLookupPrefix(key, TRUE, n), n)
<1> DEFINE C == Homophones(key)
           G == GoingOn(key)
           K == Onward(key, TRUE)
           exact == StoreExact(key, n)
           comps == OverlayCompletions(key, TRUE)
           first == MergeOverlay(Sorted(RaisedBy(exact, comps), ByRank), OverlayExact(key), Cap(TRUE, n))
           T == Texts(first)
           R == {x \in G : x.text \notin T}
           store == StoreCompletions(key, TRUE, n)
           base == Without(store, T)
           user == Without(comps, Texts(exact) \cup T)
           second == MergeOverlay(base, user, n - Len(first))
<1>0. /\ VectorsInv /\ FileInv /\ OverlayOK(overlay, phrase) /\ RowsOK(phrase, stats)
  BY DEF HomesInv, VectorsInv
<1>1. PICK rows : RowsFine(rows) /\ BuiltOK(bin, rows) /\ Grows(rows, phrase)
  BY <1>0 DEF FileInv
<1>2. FstLookupPrefix(key, TRUE, n) = first \o second
  BY DEF FstLookupPrefix
<1>3. exact \in Seq(C) /\ store \in Seq(G) /\ OverlayExact(key) \in Seq(C) /\ comps \in Seq(G)
  BY <1>0, ExactMembers, CompletionMembers, OverlayMembers
<1>4. /\ C \subseteq CandidateType /\ \A c \in C : c.eff \in Nat /\ c.text \in Nat /\ c.pinyin = key
      /\ \A c \in C : \A f \in Nat : [c EXCEPT !.freq = f] \in C
  BY DEF Homophones, CandidateType
<1>5. /\ G \subseteq CandidateType /\ \A x \in G : x.freq \in Nat
      /\ \A x \in G : x.pinyin # key /\ IsPrefix(key, x.pinyin)
  BY DEF GoingOn, CandidateType
<1>6. \A c \in FileSet(rows, {key}) : \A r \in phrase : r.user /\ r.pinyin \in K => c.text # r.text
  <2> SUFFICES ASSUME NEW c \in FileSet(rows, {key}), NEW r \in phrase, r.user, r.pinyin \in Onward(key, TRUE)
               PROVE  c.text # r.text
    OBVIOUS
  <2>1. RowCand(r).text = r.text /\ RowCand(r) \in OwnCands(Onward(key, TRUE))
    BY <1>0, RowCandFacts
  <2> QED
    BY <1>0, <1>1, <2>1, LayersDiffer
<1>7. exact \in Seq(FileSet(rows, {key}))
  BY <1>1, ExactLeads DEF Leads
<1>8. Leads(store, FileSet(rows, K), n) /\ OneText(FileSet(rows, K)) /\ FileSet(rows, K) \subseteq CandidateType
  <2>1. OneText(FileSet(rows, K))
    BY <1>0, <1>1, Together
  <2>2. FileSet(rows, K) \subseteq CandidateType
    BY <1>1, FileSetFacts
  <2>3. Leads(store, FileSet(rows, K), n)
    BY <1>1, <2>1, CompletionLeads
  <2> QED
    BY <2>1, <2>2, <2>3
<1>9. \A r \in phrase : r.user /\ r.pinyin \in K => r.text \in Texts(comps)
  BY <1>0, OverlayHas
<1>10. \A r \in phrase : ~r.user => \E q \in rows : Word(q) = Word(r)
  <2> SUFFICES ASSUME NEW r \in phrase, ~r.user PROVE \E q \in rows : Word(q) = Word(r)
    OBVIOUS
  <2>1. PICK i \in DOMAIN bin.keys :
          bin.keys[i] = r.pinyin /\ [text |-> r.text, freq |-> r.freq] \in ToSet(bin.blocks[i])
    BY DEF Current
  <2>2. i \in 1..Len(bin.keys)
    BY <1>1, <2>1, KeyFacts
  <2>3. \A j \in DOMAIN bin.blocks[i] : bin.blocks[i][j] \in TextsOf(rows, bin.keys[i])
    BY <1>1, <2>2, BlockFacts
  <2>4. [text |-> r.text, freq |-> r.freq] \in TextsOf(rows, r.pinyin)
    BY <2>1, <2>3 DEF ToSet
  <2>5. PICK q \in rows : q.pinyin = r.pinyin /\ [text |-> r.text, freq |-> r.freq] = [text |-> q.text, freq |-> q.freq]
    BY <2>4 DEF TextsOf
  <2> QED
    BY <2>5 DEF Word
<1> HIDE DEF C, G, exact, comps, store, K
<1>11. RaisedBy(exact, comps) \in Seq(C)
  BY <1>3, <1>4, <1>5, RaisedMembers
<1>12. Sorted(RaisedBy(exact, comps), ByRank) \in Seq(C)
  BY <1>4, <1>11, SortedByRank
<1>13. Cap(TRUE, n) \in Nat
  BY CapFacts
<1>14. first \in Seq(C) /\ Len(first) \in Nat /\ Len(first) <= Cap(TRUE, n)
  <2>1. Cap(TRUE, n) \in Int
    BY DEF Cap
  <2>2. first \in Seq(C)
    BY <1>3, <1>4, <1>12, <2>1, MergeMembers
  <2>3. Len(first) \in Nat /\ Len(first) <= Cap(TRUE, n)
    BY <1>3, <1>4, <1>12, <1>13, MergeLength
  <2> QED
    BY <2>2, <2>3
<1> HIDE DEF first
<1>15. n - Len(first) \in Nat /\ n - Len(first) >= n \div 2 /\ Len(first) <= n
  <2>1. n - Len(first) \in Nat /\ n - Len(first) >= n \div 2
    BY <1>14, HalfLeft
  <2> QED
    BY <1>14, <2>1
<1>16. Leads(base, {x \in FileSet(rows, K) : x.text \notin T}, n - Len(first))
  BY <1>8, <1>14, <1>15, WithoutLeads
<1>17. base \in Seq(R) /\ user \in Seq(R)
  <2>1. base \in Seq(R)
    BY <1>3, WithoutMembers
  <2> DEFINE R2 == {x \in G : x.text \notin Texts(exact) \cup T}
  <2>2. user \in Seq(R2)
    BY <1>3, WithoutMembers
  <2>3. R2 \subseteq R
    OBVIOUS
  <2> HIDE DEF R2, R, user
  <2> QED
    BY <2>1, <2>2, <2>3, SeqMonotonic
<1>18. R \subseteq CandidateType /\ \A x \in R : x.pinyin # key /\ x.text \notin T
  BY <1>5
<1>19. Distinct(base)
  <2> DEFINE Y == {x \in FileSet(rows, K) : x.text \notin T}
  <2>1. Y \subseteq CandidateType /\ OneText(Y)
    BY <1>8 DEF OneText
  <2> HIDE DEF Y, base
  <2>2. Leads(base, Y, n - Len(first))
    BY <1>16 DEF Y
  <2> QED
    BY <2>1, <2>2, LeadsFacts
<1>20. \/ Len(base) >= n - Len(first)
       \/ Further(key) \subseteq T \cup Texts(user) \cup Texts(base)
  <2> SUFFICES ASSUME ~(Len(base) >= n - Len(first)), NEW t \in Further(key), t \notin T
               PROVE  t \in Texts(user) \cup Texts(base)
    OBVIOUS
  <2>1. PICK r \in phrase : r.text = t /\ r.pinyin \in K /\ r \in RowType
    BY <1>0, FurtherFacts DEF K
  <2>2. CASE r.user
    <3>1. t \in Texts(comps)
      BY <1>9, <2>1, <2>2
    <3>2. t \notin Texts(exact)
      <4>1. Texts(exact) = {exact[i].text : i \in 1..Len(exact)}
        BY <1>7, TextsAre
      <4>2. \A i \in 1..Len(exact) : exact[i] \in FileSet(rows, {key})
        BY <1>7
      <4> QED
        BY <1>6, <2>1, <2>2, <4>1, <4>2, Zenon
    <3> QED
      BY <1>3, <3>1, <3>2, WithoutTexts
  <2>3. CASE ~r.user
    <3>1. PICK q \in rows : Word(q) = Word(r)
      BY <1>10, <2>3
    <3>2. q.pinyin = r.pinyin /\ q.text = t
      BY <2>1, <3>1 DEF Word
    <3>3. FileRow(q) \in FileSet(rows, K) /\ FileRow(q).text = t
      BY <2>1, <3>2 DEF FileSet, FileRow
    <3>4. PICK i \in 1..Len(base) : base[i] = FileRow(q)
      <4> DEFINE Y == {x \in FileSet(rows, K) : x.text \notin T}
      <4>1. FileRow(q) \in Y
        BY <3>3
      <4> HIDE DEF Y, base
      <4>2. Leads(base, Y, n - Len(first))
        BY <1>16 DEF Y
      <4>3. \/ \E i \in 1..Len(base) : base[i] = FileRow(q)
            \/ Len(base) >= n - Len(first)
        BY <4>1, <4>2 DEF Leads
      <4> QED
        BY <4>3
    <3>5. Texts(base) = {base[j].text : j \in 1..Len(base)}
      BY <1>17, TextsAre
    <3> QED
      BY <3>3, <3>4, <3>5
  <2> QED
    BY <2>2, <2>3
<1> HIDE DEF base, user, R
<1>21. /\ second \in Seq(R) /\ Distinct(second)
       /\ \/ Len(second) >= n - Len(first)
          \/ Texts(second) = Texts(user) \cup Texts(base) /\ Len(base) < n - Len(first)
  BY <1>15, <1>17, <1>18, <1>19, MergeReaches
<1> HIDE DEF second
<1>22. Len(base) \in Nat /\ Len(second) \in Nat /\ n \div 2 \in Int
  BY <1>17, <1>21
<1>23. Len(second) >= n \div 2 \/ Further(key) \subseteq T \cup Texts(second)
  <2>1. CASE Len(second) >= n - Len(first)
    BY <1>14, <1>15, <1>22, <2>1
  <2>2. CASE Texts(second) = Texts(user) \cup Texts(base) /\ Len(base) < n - Len(first)
    <3>1. ~(Len(base) >= n - Len(first))
      BY <1>15, <1>22, <2>2
    <3> QED
      BY <1>20, <2>2, <3>1
  <2> QED
    BY <1>21, <2>1, <2>2
<1>24. T \cap Texts(second) = {}
  <2>1. Texts(second) = {second[i].text : i \in 1..Len(second)}
    BY <1>21, TextsAre
  <2>2. \A i \in 1..Len(second) : second[i] \in R
    BY <1>21
  <2> HIDE DEF T
  <2> QED
    BY <1>18, <2>1, <2>2
<1>25. \A x \in C : x.pinyin = key
  BY <1>4
<1>26. Reaches(key, first \o second, n)
  BY <1>14, <1>18, <1>21, <1>23, <1>24, <1>25, LayersReach
<1> QED
  BY <1>2, <1>26

LEMMA AllReach ==
  ASSUME HomesInv
  PROVE  CompletionsReachable
<1> SUFFICES ASSUME NEW key \in Queries, NEW n \in Limits, Unambiguous(Behind(key))
             PROVE  /\ Reaches(key, IndexLookupPrefix(index, userPinyins, key, TRUE, n), n)
                    /\ Current /\ Deep(key, n) /\ ChosenHere(key) => Reaches(key, FstLookupPrefix(key, TRUE, n), n)
  BY DEF CompletionsReachable
<1>1. n \in Nat \ {0} /\ key \in Seq(Nat) \ {<<>>}
  BY DictionaryAssumption
<1>2. VectorsInv /\ RowsOK(phrase, stats)
  BY DEF HomesInv, VectorsInv
<1>3. OneText(AllCands(Onward(key, TRUE)))
  BY <1>1, <1>2, NoTextTwice
<1> QED
  BY <1>1, <1>2, <1>3, IndexReaches, FileReaches

(* dict.rs, lookup_prefix: "mi must still reach min and ming". In every    *)
(* state, while a syllable is being typed, the words that go on from it    *)
(* have half of the list or are all in it, whatever the user has chosen:   *)
(* without the file, and over a current one where the user chose no text   *)
(* of the first layer under a longer reading.                              *)
THEOREM LongerStayReachable == Spec => []CompletionsReachable
<1>1. HomesInv => CompletionsReachable
  BY AllReach
<1> QED
  BY <1>1, HomesCurrent, PTL
=============================================================================

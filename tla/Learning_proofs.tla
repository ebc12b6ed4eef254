-------------------------- MODULE Learning_proofs --------------------------
(***************************************************************************)
(* No choice of a word is forgotten by a later one, for every number of    *)
(* words, every channel, and every mix of drops, failed writes, kills and  *)
(* restarts; and an orderly shutdown keeps all of them.                    *)
(***************************************************************************)
EXTENDS Learning, SequenceTheorems, TLAPS

----------------------------------------------------------------------------
(* The inductive invariant.                                                *)

(* What each state of the thread and of the process leaves empty.          *)
Shape ==
  /\ worker \in {"unborn", "dead"} => queue = <<>>
  /\ phase # "up" => choosing = "none"
  /\ phase = "closed" => worker \in {"unborn", "dead"}
  /\ worker = "half" => hand.kind = "Learn"

(* A row is never below the frequency the dict.bin was built with.         *)
Grown == \A w \in Words : BaseFreq[w] <= db[w].freq

(* What this instance knows of, or has brought to, a stored frequency.     *)
Own(w) == db[w].freq - outside[w]

(* CountsAscend, in memory the process has given up as well.               *)
Ascending(w) ==
  /\ db[w].n <= mem[w].n
  /\ \A p \in InFlight(w) :
       /\ db[w].n < JobAt(p).n /\ JobAt(p).n <= mem[w].n
       /\ \A q \in InFlight(w) : p < q => JobAt(p).n < JobAt(q).n

(* The jobs whose frequency is still to be written: the phrase row of the  *)
(* job in hand is, once the worker is half way through it.                 *)
Unwritten(w) == {p \in InFlight(w) : p # 0 \/ worker = "busy"}

(* A word that is no user row has no job and its frequency is the stored   *)
(* one, but for what others wrote. Of any other, each unwritten job has its*)
(* own step of the frequency still to go:                                  *)
(* mem[w].freq - mem[w].n + JobAt(p).n is what memory held when the job    *)
(* was sent.                                                               *)
Behind(w) ==
  /\ ~mem[w].user => InFlight(w) = {} /\ Own(w) = mem[w].freq
  /\ Own(w) <= mem[w].freq
  /\ \A p \in Unwritten(w) : Own(w) - JobAt(p).n < mem[w].freq - mem[w].n

(* As long as nothing was lost, every count between the stored one and the *)
(* one in memory is in flight, and frequency and count are as far apart in *)
(* the database as in memory, but for the count half a job has to write    *)
(* and for what others wrote.                                              *)
HalfOf(w) == IF worker = "half" /\ hand.word = w THEN 1 ELSE 0

Complete(w) ==
  /\ \A m \in (db[w].n + 1)..mem[w].n : \E p \in InFlight(w) : JobAt(p).n = m
  /\ mem[w].freq - mem[w].n = (Own(w) - HalfOf(w)) - db[w].n

LearnInv ==
  /\ TypeOK /\ Shape /\ Grown
  /\ \A w \in Words : Ascending(w) /\ Behind(w) /\ (lossless => Complete(w))

----------------------------------------------------------------------------
(* What a step does to the jobs in flight.                                 *)

(* A job in flight is a learn job of its word.                             *)
LEMMA FlightTypes ==
  ASSUME TypeOK, NEW w \in Words
  PROVE  /\ InFlight(w) \subseteq 0..Len(queue)
         /\ \A p \in InFlight(w) : JobAt(p) \in Jobs /\ JobAt(p).n \in Nat
         /\ 0 \in InFlight(w) <=> hand.kind = "Learn" /\ hand.word = w
<1>1. \A p \in 1..Len(queue) : queue[p] \in Jobs
  BY DEF TypeOK
<1>2. hand.kind = "Learn" => hand \in Jobs
  BY DEF TypeOK, NoJob, Job
<1>3. Len(queue) \in Nat
  BY DEF TypeOK
<1> QED
  BY <1>1, <1>2, <1>3 DEF InFlight, JobAt, Jobs

(* Nothing moves.                                                          *)
LEMMA Still ==
  ASSUME UNCHANGED <<queue, hand>>
  PROVE  /\ \A w : InFlight(w)' = InFlight(w)
         /\ \A p : JobAt(p)' = JobAt(p)
BY DEF InFlight, JobAt

(* A job is sent: it stands behind all others.                             *)
LEMMA Sent ==
  ASSUME TypeOK, NEW job \in Jobs, NEW w \in Words,
         queue' = Append(queue, job), hand' = hand
  PROVE  /\ \A p \in InFlight(w) : p \in InFlight(w)' /\ JobAt(p)' = JobAt(p)
         /\ \A p \in InFlight(w)' :
              \/ p \in InFlight(w)
              \/ p = Len(queue) + 1 /\ job.kind = "Learn" /\ job.word = w
         /\ \A p : p = Len(queue) + 1 =>
              /\ JobAt(p)' = job
              /\ job.kind = "Learn" /\ job.word = w => p \in InFlight(w)'
<1>1. queue \in Seq(Jobs) /\ Len(queue) \in Nat
  BY DEF TypeOK
<1>2. /\ Len(queue') = Len(queue) + 1
      /\ \A p \in 1..Len(queue) : queue'[p] = queue[p]
      /\ queue'[Len(queue) + 1] = job
  BY <1>1
<1>3. \A p \in 0..Len(queue) : JobAt(p)' = JobAt(p)
  BY <1>1, <1>2 DEF JobAt
<1>4. \A p : p = Len(queue) + 1 => JobAt(p)' = job
  BY <1>1, <1>2 DEF JobAt
<1>5. 0..Len(queue') = 0..Len(queue) \cup {Len(queue) + 1}
  BY <1>1, <1>2
<1>6. InFlight(w)' =
        {p \in 0..Len(queue') : JobAt(p)'.kind = "Learn" /\ JobAt(p)'.word = w}
  BY DEF InFlight
<1> QED
  BY <1>3, <1>4, <1>5, <1>6 DEF InFlight

(* The first job is taken: all others move up by one.                      *)
LEMMA Taken ==
  ASSUME TypeOK, NEW w \in Words, hand = NoJob, queue # <<>>,
         hand' = Head(queue), queue' = Tail(queue)
  PROVE  /\ \A p \in InFlight(w)' :
              p \in Nat /\ p + 1 \in InFlight(w) /\ JobAt(p)' = JobAt(p + 1)
         /\ \A p \in InFlight(w) :
              p # 0 /\ p - 1 \in InFlight(w)' /\ JobAt(p - 1)' = JobAt(p)
<1>1. queue \in Seq(Jobs) /\ Len(queue) \in Nat \ {0}
  BY DEF TypeOK
<1>2. /\ Len(queue') = Len(queue) - 1
      /\ \A p \in 1..Len(queue) - 1 : queue'[p] = queue[p + 1]
      /\ hand' = queue[1]
  BY <1>1
<1>3. \A p \in 0..Len(queue') : JobAt(p)' = JobAt(p + 1)
  BY <1>1, <1>2 DEF JobAt
<1>4. JobAt(0).kind # "Learn"
  BY DEF JobAt, NoJob, Job
<1>5. InFlight(w)' =
        {p \in 0..Len(queue') : JobAt(p)'.kind = "Learn" /\ JobAt(p)'.word = w}
  BY DEF InFlight
<1>6. ASSUME NEW p \in InFlight(w)'
      PROVE  p \in Nat /\ p + 1 \in InFlight(w) /\ JobAt(p)' = JobAt(p + 1)
  BY <1>1, <1>2, <1>3, <1>5, <1>6 DEF InFlight
<1>7. ASSUME NEW p \in InFlight(w)
      PROVE  p # 0 /\ p - 1 \in InFlight(w)' /\ JobAt(p - 1)' = JobAt(p)
  <2>1. p \in 1..Len(queue)
    BY <1>1, <1>4 DEF InFlight
  <2>2. p - 1 \in 0..Len(queue') /\ (p - 1) + 1 = p
    BY <1>1, <1>2, <2>1
  <2> QED
    BY <1>3, <1>5, <2>1, <2>2 DEF InFlight
<1> QED
  BY <1>6, <1>7

(* The job in hand is done or given up.                                    *)
LEMMA Done ==
  ASSUME TypeOK, NEW w \in Words, hand' = NoJob, queue' = queue
  PROVE  /\ InFlight(w)' = InFlight(w) \ {0}
         /\ \A p \in InFlight(w)' : JobAt(p)' = JobAt(p)
<1>1. JobAt(0)'.kind # "Learn"
  BY DEF JobAt, NoJob, Job
<1>2. \A p \in 0..Len(queue) : p # 0 => JobAt(p)' = JobAt(p)
  BY DEF JobAt
<1>3. InFlight(w)' =
        {p \in 0..Len(queue) : JobAt(p)'.kind = "Learn" /\ JobAt(p)'.word = w}
  BY DEF InFlight
<1> QED
  BY <1>1, <1>2, <1>3 DEF InFlight

(* The channel is empty and no job is in hand.                             *)
LEMMA NoneLeft ==
  ASSUME NEW w \in Words, hand = NoJob, queue = <<>>
  PROVE  InFlight(w) = {}
BY DEF InFlight, JobAt, NoJob, Job

----------------------------------------------------------------------------
(* The types, and what each state leaves empty.                            *)

(* Submit puts the job into the channel or leaves the channel alone.       *)
LEMMA SubmitTypes ==
  ASSUME TypeOK, Shape, NEW job \in Jobs, Submit(job)
  PROVE  /\ queue' \in Seq(Jobs) /\ Len(queue') <= QueueCap
         /\ lossless' \in BOOLEAN
         /\ worker' \in {"unborn", "opening", "idle", "busy", "half", "dead"}
         /\ worker' # worker => worker = "unborn" /\ worker' = "opening"
         /\ worker' \in {"unborn", "dead"} => queue' = <<>>
<1>1. queue \in Seq(Jobs) /\ Len(queue) \in Nat /\ QueueCap \in Nat
  BY LearningAssumption DEF TypeOK
<1>2. CASE /\ worker # "dead" /\ Len(queue) < QueueCap
           /\ queue' = Append(queue, job)
           /\ worker' = (IF worker = "unborn" THEN "opening" ELSE worker)
           /\ lossless' = lossless
  <2>1. queue' \in Seq(Jobs) /\ Len(queue') = Len(queue) + 1
    BY <1>1, <1>2
  <2> QED
    BY <1>1, <1>2, <2>1 DEF TypeOK
<1>3. CASE lossless' = FALSE /\ UNCHANGED <<queue, worker>>
  BY <1>3 DEF TypeOK, Shape
<1> QED
  BY <1>2, <1>3 DEF Submit

(* The types hold after every step.                                        *)
LEMMA TypeStep ==
  ASSUME TypeOK, Shape, Grown, [Next]_vars
  PROVE  TypeOK'
<1> USE LearningAssumption
<1>1. \A w \in Words : mem[w] \in Row /\ db[w] \in Row /\ outside[w] \in Nat
  BY DEF TypeOK
<1>0. <<>> \in Seq(Jobs) /\ Len(<<>>) <= QueueCap
  OBVIOUS
<1>2. ASSUME NEW w \in Words, LogCommit(w) PROVE TypeOK'
  <2>1. Job("Log", w, 0) \in Jobs
    BY DEF Job, Jobs
  <2> QED
    BY <1>2, <2>1, SubmitTypes DEF LogCommit, TypeOK
<1>3. CASE Learn
  <2>1. choosing \in Words
    BY <1>3 DEF Learn, TypeOK
  <2>2. Raised(choosing) \in Row
    BY <1>1, <2>1 DEF Raised, Row
  <2>3. Job("Learn", choosing, Raised(choosing).n) \in Jobs
    BY <2>1, <2>2 DEF Job, Jobs, Row
  <2> QED
    <3>1. outside' \in [Words -> Nat]
      BY <1>3 DEF Learn, TypeOK
    <3> QED
      BY <1>3, <2>1, <2>2, <2>3, <3>1, SubmitTypes DEF Learn, TypeOK
<1>4. CASE LearnFails
  <2>1. choosing \in Words
    BY <1>4 DEF LearnFails, TypeOK
  <2>2. [mem[choosing] EXCEPT !.n = @ + 1] \in Row
    BY <1>1, <2>1 DEF Row
  <2>3. mem' = [mem EXCEPT ![choosing] = [mem[choosing] EXCEPT !.n = @ + 1]]
    BY <1>4 DEF LearnFails
  <2>4. mem' \in [Words -> Row]
    BY <2>1, <2>2, <2>3 DEF TypeOK
  <2> QED
    BY <1>4, <2>4 DEF LearnFails, TypeOK
<1>5. CASE WorkerOpen
  BY <1>0, <1>5 DEF WorkerOpen, TypeOK, keyPath
<1>6. CASE WorkerTake
  <2>1. /\ queue \in Seq(Jobs) /\ Len(queue) \in Nat \ {0}
        /\ Head(queue) \in Jobs /\ Tail(queue) \in Seq(Jobs)
        /\ Len(Tail(queue)) = Len(queue) - 1
    BY <1>6 DEF WorkerTake, TypeOK
  <2>2. NoJob \notin Jobs
    BY DEF NoJob, Job, Jobs
  <2> QED
    BY <1>6, <2>1, <2>2 DEF WorkerTake, TypeOK, keyPath
<1>7. CASE WritePhrase
  <2>1. hand \in Jobs /\ hand.word \in Words
    BY <1>7 DEF WritePhrase, TypeOK, Jobs
  <2>2. ASSUME NEW r \in Row
        PROVE  [r EXCEPT !.freq = @ + 1, !.user = TRUE] \in Row
    <3>1. [r EXCEPT !.freq = @ + 1] \in Row
      BY DEF Row
    <3>2. [[r EXCEPT !.freq = @ + 1] EXCEPT !.user = TRUE] \in Row
      BY <3>1 DEF Row
    <3> QED
      BY <3>2, Zenon
  <2>3. db' = [db EXCEPT ![hand.word] =
                 [db[hand.word] EXCEPT !.freq = @ + 1, !.user = TRUE]]
    BY <1>7, <2>1 DEF WritePhrase, TypeOK
  <2>4. db' \in [Words -> Row]
    BY <1>1, <2>1, <2>2, <2>3 DEF TypeOK
  <2> QED
    BY <1>7, <2>4 DEF WritePhrase, TypeOK, keyPath
<1>8. CASE WriteCount
  <2>1. hand \in Jobs /\ hand.word \in Words /\ hand.n \in Nat
    BY <1>8 DEF WriteCount, TypeOK, Jobs
  <2>2. [db[hand.word] EXCEPT !.n = hand.n] \in Row
    BY <1>1, <2>1, SMTT(30) DEF Row
  <2>3. db' = [db EXCEPT ![hand.word] = [db[hand.word] EXCEPT !.n = hand.n]]
    BY <1>8 DEF WriteCount
  <2>4. db' \in [Words -> Row]
    BY <2>1, <2>2, <2>3 DEF TypeOK
  <2> QED
    BY <1>8, <2>4 DEF WriteCount, TypeOK, keyPath
<1>9. CASE WriteLog
  BY <1>9 DEF WriteLog, TypeOK, keyPath
<1>10. CASE WriteFails
  BY <1>10 DEF WriteFails, TypeOK, keyPath
<1>11. CASE WorkerEnds
  BY <1>11 DEF WorkerEnds, TypeOK, keyPath
<1>12. CASE Close
  BY <1>12 DEF Close, TypeOK
<1>13. CASE Joined
  BY <1>13 DEF Joined, TypeOK
<1>14. CASE Killed
  BY <1>0, <1>14 DEF Killed, TypeOK
<1>15. CASE Open
  <2>1. worker \in {"unborn", "dead"} => worker' = "unborn"
    BY <1>15 DEF Open
  <2>2. fst' \in BOOLEAN
    BY <1>15 DEF Open
  <2>3. ASSUME NEW w \in Words
        PROVE  Loaded(w, fst') \in Row /\ db[w].freq - Loaded(w, fst').freq \in Nat
    <3>1. BaseFreq[w] \in Nat /\ db[w] \in Row
      BY <1>1
    <3>2. CASE fst' /\ ~db[w].user
      <4>1. /\ Loaded(w, fst') = [db[w] EXCEPT !.freq = BaseFreq[w]]
            /\ BaseFreq[w] <= db[w].freq
        BY <3>2 DEF Loaded, Grown
      <4> QED
        BY <3>1, <4>1 DEF Row
    <3>3. CASE ~(fst' /\ ~db[w].user)
      BY <3>1, <3>3 DEF Loaded, Row
    <3> QED
      BY <3>2, <3>3
  <2>4. mem' \in [Words -> Row] /\ outside' \in [Words -> Nat]
    <3>1. mem' = [w \in Words |-> Loaded(w, fst')]
      BY <1>15 DEF Open
    <3>2. outside' = [w \in Words |-> db[w].freq - Loaded(w, fst').freq]
      BY <1>15, <3>1 DEF Open
    <3> QED
      BY <2>3, <3>1, <3>2
  <2> QED
    BY <1>15, <2>1, <2>2, <2>4 DEF Open, TypeOK, Shape
<1>16. CASE Lock
  BY <1>16 DEF Lock, TypeOK, keyPath
<1>17. CASE UNCHANGED vars
  BY <1>17 DEF vars, keyPath, TypeOK
<1>18. CASE Commit
  <2>1. PICK listed \in Imports :
          db' = [w \in Words |->
                   IF ~db[w].user /\ db[w].freq < listed[w]
                   THEN [db[w] EXCEPT !.freq = listed[w]] ELSE db[w]]
    BY <1>18 DEF Commit
  <2>2. listed \in [Words -> Nat]
    OBVIOUS
  <2>3. ASSUME NEW w \in Words
        PROVE  db'[w] \in Row /\ db'[w].freq >= db[w].freq
    BY <1>1, <2>1, <2>2 DEF Row
  <2>4. db' \in [Words -> Row]
    BY <2>1, <2>3
  <2>5. ASSUME NEW w \in Words
        PROVE  outside[w] + (db'[w].freq - db[w].freq) \in Nat
    BY <1>1, <2>3 DEF Row
  <2>6. outside' \in [Words -> Nat]
    BY <1>18, <2>5 DEF Commit
  <2> QED
    BY <1>18, <2>4, <2>6 DEF Commit, TypeOK, keyPath
<1>19. ASSUME NEW w \in Words, MinePhrase(w) PROVE TypeOK'
  <2>1. db' = [db EXCEPT ![w] = [[db[w] EXCEPT !.freq = 1] EXCEPT !.user = TRUE]]
    BY <1>19 DEF MinePhrase, TypeOK
  <2>2. [db[w] EXCEPT !.freq = 1] \in Row
    BY <1>1 DEF Row
  <2>3. [[db[w] EXCEPT !.freq = 1] EXCEPT !.user = TRUE] \in Row
    BY <2>2 DEF Row
  <2>4. db' \in [Words -> Row]
    BY <1>1, <2>1, <2>3 DEF TypeOK
  <2>5. outside' \in [Words -> Nat]
    BY <1>19 DEF MinePhrase, TypeOK
  <2> QED
    BY <1>19, <2>4, <2>5 DEF MinePhrase, TypeOK, keyPath
<1> QED
  BY <1>2, <1>3, <1>4, <1>5, <1>6, <1>7, <1>8, <1>9, <1>10, <1>11, <1>12,
     <1>13, <1>14, <1>15, <1>16, <1>17, <1>18, <1>19 DEF Next, Worker

(* So does the shape.                                                      *)
LEMMA ShapeStep ==
  ASSUME TypeOK, Shape, [Next]_vars
  PROVE  Shape'
<1>1. ASSUME NEW w \in Words, LogCommit(w) PROVE Shape'
  <2>1. Job("Log", w, 0) \in Jobs
    BY DEF Job, Jobs
  <2> QED
    BY <1>1, <2>1, SubmitTypes DEF LogCommit, Shape
<1>2. CASE Learn
  <2>1. Job("Learn", choosing, Raised(choosing).n) \in Jobs
    BY <1>2 DEF Learn, Raised, Job, Jobs, TypeOK, Row
  <2> QED
    BY <1>2, <2>1, SubmitTypes DEF Learn, Shape
<1>3. CASE LearnFails
  BY <1>3 DEF LearnFails, Shape
<1>4. CASE Worker
  BY <1>4 DEF Worker, WorkerOpen, WorkerTake, WritePhrase, WriteCount, WriteLog,
     WriteFails, WorkerEnds, keyPath, Shape
<1>5. CASE Close \/ Joined \/ Killed \/ Open \/ Lock \/ Commit
  BY <1>5 DEF Close, Joined, Killed, Open, Lock, Commit, keyPath, Shape
<1>6. CASE UNCHANGED vars
  BY <1>6 DEF vars, keyPath, Shape
<1>7. ASSUME NEW w \in Words, MinePhrase(w) PROVE Shape'
  BY <1>7 DEF MinePhrase, keyPath, Shape
<1> QED
  BY <1>1, <1>2, <1>3, <1>4, <1>5, <1>6, <1>7 DEF Next

(* Whoever writes beside the instance takes nothing from a row: its count  *)
(* and what the instance brought to its frequency are as they were.        *)
LEMMA Outsiders ==
  ASSUME TypeOK, NEW w \in Words,
         Lock \/ Commit \/ \E v \in Words : MinePhrase(v)
  PROVE  /\ UNCHANGED <<keyPath, mem, queue, worker, hand, lossless>>
         /\ db'[w].n = db[w].n /\ db[w].freq <= db'[w].freq /\ db'[w].freq \in Nat
         /\ Own(w)' = Own(w)
<1>1. db[w].n \in Nat /\ db[w].freq \in Nat /\ outside[w] \in Nat
  BY DEF TypeOK, Row
<1>2. CASE Lock
  BY <1>1, <1>2 DEF Lock, keyPath, Own
<1>3. CASE Commit
  <2>1. PICK listed \in Imports :
          db' = [v \in Words |->
                   IF ~db[v].user /\ db[v].freq < listed[v]
                   THEN [db[v] EXCEPT !.freq = listed[v]] ELSE db[v]]
    BY <1>3 DEF Commit
  <2>2. listed \in [Words -> Nat]
    BY LearningAssumption
  <2>3. /\ db'[w].n = db[w].n /\ db[w].freq <= db'[w].freq /\ db'[w].freq \in Nat
    <3>1. listed[w] \in Nat
      BY <2>2
    <3>2. CASE ~db[w].user /\ db[w].freq < listed[w]
      <4>1. db'[w] = [db[w] EXCEPT !.freq = listed[w]]
        BY <2>1, <3>2
      <4>2. db'[w].n = db[w].n /\ db'[w].freq = listed[w]
        BY <4>1 DEF TypeOK, Row
      <4> QED
        BY <1>1, <3>1, <3>2, <4>2
    <3>3. CASE ~(~db[w].user /\ db[w].freq < listed[w])
      <4>1. db'[w] = db[w]
        BY <2>1, <3>3
      <4> QED
        BY <1>1, <4>1
    <3> QED
      BY <3>2, <3>3
  <2>4. outside'[w] = outside[w] + (db'[w].freq - db[w].freq)
    BY <1>3 DEF Commit
  <2>5. \A a, b, c \in Nat : a - (c + (a - b)) = b - c
    OBVIOUS
  <2>6. Own(w)' = Own(w)
    BY <1>1, <2>3, <2>4, <2>5 DEF Own
  <2> QED
    BY <1>3, <2>3, <2>6 DEF Commit, keyPath
<1>4. ASSUME NEW v \in Words, MinePhrase(v)
      PROVE  /\ UNCHANGED <<keyPath, mem, queue, worker, hand, lossless>>
             /\ db'[w].n = db[w].n /\ db[w].freq <= db'[w].freq /\ db'[w].freq \in Nat
             /\ Own(w)' = Own(w)
  <2>1. CASE w = v
    <3>1. /\ db[w].freq = 0 /\ db'[w].freq = 1 /\ db'[w].n = db[w].n
          /\ outside'[w] = outside[w] + 1
      BY <1>4, <2>1 DEF MinePhrase, TypeOK, Row
    <3> QED
      BY <1>1, <1>4, <3>1 DEF MinePhrase, keyPath, Own
  <2>2. CASE w # v
    <3>1. db'[w] = db[w] /\ outside'[w] = outside[w]
      BY <1>4, <2>2 DEF MinePhrase, TypeOK
    <3>2. Own(w)' = Own(w)
      BY <3>1 DEF Own
    <3>3. UNCHANGED <<keyPath, mem, queue, worker, hand, lossless>>
      BY <1>4 DEF MinePhrase, keyPath
    <3> QED
      BY <1>1, <3>1, <3>2, <3>3
  <2> QED
    BY <2>1, <2>2
<1> QED
  BY <1>2, <1>3, <1>4

(* No row falls below the frequency of the dict.bin.                       *)
LEMMA GrownStep ==
  ASSUME TypeOK, Grown, [Next]_vars
  PROVE  Grown'
<1> SUFFICES ASSUME NEW w \in Words PROVE BaseFreq[w] <= db'[w].freq
  BY DEF Grown
<1>1. BaseFreq[w] \in Nat /\ db[w].freq \in Nat /\ BaseFreq[w] <= db[w].freq
  BY LearningAssumption DEF TypeOK, Row, Grown
<1>2. CASE WritePhrase
  <2>1. db'[w].freq = db[w].freq \/ db'[w].freq = db[w].freq + 1
    BY <1>2 DEF WritePhrase, TypeOK, Row
  <2> QED
    BY <1>1, <2>1
<1>3. CASE WriteCount
  BY <1>1, <1>3 DEF WriteCount, TypeOK, Row
<1>4. CASE Lock \/ Commit \/ \E v \in Words : MinePhrase(v)
  <2>1. db[w].freq <= db'[w].freq /\ db'[w].freq \in Nat
    BY <1>4, Outsiders
  <2> QED
    BY <1>1, <2>1
<1>5. ASSUME ~WritePhrase, ~WriteCount, ~Lock, ~Commit,
             ~\E v \in Words : MinePhrase(v)
      PROVE  db' = db
  BY <1>5 DEF Next, LogCommit, Learn, LearnFails, Worker, WorkerOpen, WorkerTake,
     WriteLog, WriteFails, WorkerEnds, Close, Joined, Killed, Open, vars, keyPath
<1> QED
  BY <1>1, <1>2, <1>3, <1>4, <1>5

----------------------------------------------------------------------------
(* The counts.                                                             *)

(* What Learn leaves in memory, and the job it sends.                      *)
LEMMA LearnRaises ==
  ASSUME TypeOK, Learn
  PROVE  /\ choosing \in Words
         /\ mem' = [mem EXCEPT ![choosing] = Raised(choosing)]
         /\ Job("Learn", choosing, Raised(choosing).n) \in Jobs
         /\ Submit(Job("Learn", choosing, Raised(choosing).n))
         /\ Raised(choosing).n = mem[choosing].n + 1 /\ Raised(choosing).user
         /\ Raised(choosing).freq =
              (IF fst /\ ~mem[choosing].user THEN db[choosing].freq + 1
                                            ELSE mem[choosing].freq + 1)
         /\ outside' = (IF fst /\ ~mem[choosing].user
                        THEN [outside EXCEPT ![choosing] = 0] ELSE outside)
         /\ UNCHANGED <<hand, db>>
BY DEF Learn, Raised, Job, Jobs, TypeOK, Row

(* What each row holds.                                                    *)
LEMMA RowTypes ==
  ASSUME TypeOK, NEW w \in Words
  PROVE  /\ mem[w].n \in Nat /\ mem[w].freq \in Nat /\ mem[w].user \in BOOLEAN
         /\ db[w].n \in Nat /\ db[w].freq \in Nat /\ db[w].user \in BOOLEAN
         /\ outside[w] \in Nat /\ Own(w) \in Int
BY SMTT(30) DEF TypeOK, Row, Own

(* What Dict::open leaves in memory.                                       *)
LEMMA OpenLoads ==
  ASSUME TypeOK, NEW w \in Words, Open
  PROVE  /\ db' = db /\ mem'[w].n = db[w].n
         /\ mem'[w].freq \in Nat /\ Own(w)' = mem'[w].freq
<1>1. mem'[w] = Loaded(w, fst') /\ db' = db
  BY DEF Open
<1>2. outside'[w] = db[w].freq - mem'[w].freq
  BY DEF Open
<1>3. mem'[w].n = db[w].n /\ mem'[w].freq \in Nat
  <2>1. db[w] \in Row /\ BaseFreq[w] \in Nat
    BY LearningAssumption DEF TypeOK
  <2> QED
    BY <1>1, <2>1 DEF Loaded, Row
<1>4. \A a, b \in Nat : a - (a - b) = b
  OBVIOUS
<1> QED
  BY <1>1, <1>2, <1>3, <1>4, RowTypes DEF Own

(* The counts of every word stay in order.                                 *)
LEMMA AscendStep ==
  ASSUME TypeOK, Shape, NEW w \in Words, Ascending(w), [Next]_vars
  PROVE  Ascending(w)'
<1> USE RowTypes, FlightTypes
<1>1. ASSUME UNCHANGED <<queue, hand>>, UNCHANGED <<mem, db>> PROVE Ascending(w)'
  BY <1>1, Still DEF Ascending
<1>2. ASSUME NEW v \in Words, LogCommit(v) PROVE Ascending(w)'
  <2>1. Job("Log", v, 0) \in Jobs /\ Job("Log", v, 0).kind # "Learn"
    BY DEF Job, Jobs
  <2>2. CASE queue' = Append(queue, Job("Log", v, 0))
    <3>1. UNCHANGED <<hand, mem, db>>
      BY <1>2 DEF LogCommit
    <3>2. /\ \A p \in InFlight(w)' : p \in InFlight(w)
          /\ \A p \in InFlight(w) : JobAt(p)' = JobAt(p)
      BY <2>1, <2>2, <3>1, Sent
    <3> QED
      BY <3>1, <3>2 DEF Ascending
  <2>3. CASE UNCHANGED queue
    BY <1>1, <1>2, <2>3 DEF LogCommit
  <2> QED
    BY <1>2, <2>2, <2>3 DEF LogCommit, Submit
<1>3. CASE Learn
  <2> DEFINE n == Raised(choosing).n
             job == Job("Learn", choosing, n)
  <2>1. /\ choosing \in Words /\ n = mem[choosing].n + 1
        /\ job \in Jobs /\ Submit(job) /\ UNCHANGED <<hand, db>>
    BY <1>3, LearnRaises
  <2>2. mem'[w].n = IF w = choosing THEN n ELSE mem[w].n
    BY <1>3, <2>1, LearnRaises DEF TypeOK
  <2>3. mem[w].n <= mem'[w].n
    BY <2>1, <2>2
  <2>4. CASE queue' = Append(queue, job)
    <3> HIDE DEF n
    <3>1. job.kind = "Learn" /\ job.word = choosing /\ job.n = n
      BY DEF Job
    <3> HIDE DEF job
    <3>2. /\ \A p \in InFlight(w) : p \in 0..Len(queue) /\ JobAt(p)' = JobAt(p)
          /\ \A p \in InFlight(w)' :
               p \in InFlight(w) \/ (p = Len(queue) + 1 /\ choosing = w)
          /\ \A p : p = Len(queue) + 1 => JobAt(p)' = job
      BY <2>1, <2>4, <3>1, Sent
    <3>3. Len(queue) \in Nat
      BY DEF TypeOK
    <3>4. \A p \in InFlight(w) : JobAt(p)'.n <= mem[w].n /\ db[w].n < JobAt(p)'.n
      BY <3>2 DEF Ascending
    <3>5. \A p \in InFlight(w)' : p \notin InFlight(w) =>
            JobAt(p)'.n = mem[w].n + 1 /\ mem'[w].n = mem[w].n + 1
      BY <2>1, <2>2, <3>1, <3>2
    <3>6. \A p \in InFlight(w)' : db[w].n < JobAt(p)'.n /\ JobAt(p)'.n <= mem'[w].n
      <4>1. \A p \in InFlight(w) : JobAt(p)'.n \in Nat
        BY <3>2
      <4> QED
        BY <2>1, <2>2, <2>3, <3>4, <3>5, <4>1 DEF Ascending
    <3>7. ASSUME NEW p \in InFlight(w)', NEW q \in InFlight(w)', p < q
          PROVE  JobAt(p)'.n < JobAt(q)'.n
      <4>1. CASE q \in InFlight(w)
        BY <3>2, <3>3, <3>7, <4>1 DEF Ascending
      <4>2. CASE q \notin InFlight(w)
        <5>1. p \in InFlight(w) /\ JobAt(p)'.n \in Nat
          BY <3>2, <3>3, <3>7, <4>2
        <5> QED
          BY <3>4, <3>5, <4>2, <5>1
      <4> QED
        BY <4>1, <4>2
    <3> QED
      BY <2>1, <2>2, <2>3, <3>6, <3>7 DEF Ascending
  <2>5. CASE UNCHANGED queue
    BY <2>1, <2>2, <2>3, <2>5, Still DEF Ascending
  <2> QED
    BY <2>1, <2>4, <2>5 DEF Submit
<1>4. CASE LearnFails
  <2>1. /\ choosing \in Words /\ UNCHANGED <<queue, hand, db>>
        /\ mem' = [mem EXCEPT ![choosing].n = @ + 1]
    BY <1>4 DEF LearnFails, TypeOK
  <2>2. mem'[w].n \in Nat /\ mem[w].n <= mem'[w].n
    BY <2>1, SMTT(30) DEF TypeOK, Row
  <2> QED
    BY <2>1, <2>2, Still DEF Ascending
<1>5. CASE WorkerOpen \/ Killed
  <2>1. UNCHANGED <<mem, db>>
    BY <1>5 DEF WorkerOpen, Killed, keyPath
  <2>2. CASE queue' = <<>> /\ hand' = NoJob
    <3>1. InFlight(w)' = {}
      BY <2>2 DEF InFlight, JobAt, NoJob, Job
    <3> QED
      BY <2>1, <3>1 DEF Ascending
  <2>3. CASE UNCHANGED <<queue, hand>>
    BY <1>1, <2>1, <2>3
  <2> QED
    BY <1>5, <2>2, <2>3 DEF WorkerOpen, Killed, TypeOK
<1>6. CASE WorkerTake
  <2>1. /\ hand = NoJob /\ queue # <<>> /\ hand' = Head(queue) /\ queue' = Tail(queue)
        /\ UNCHANGED <<mem, db>>
    BY <1>6 DEF WorkerTake, TypeOK, keyPath
  <2>2. \A p \in InFlight(w)' :
          p \in Nat /\ p + 1 \in InFlight(w) /\ JobAt(p)' = JobAt(p + 1)
    BY <2>1, Taken
  <2>3. \A p, q \in Nat : p < q => p + 1 < q + 1
    OBVIOUS
  <2> QED
    BY <2>1, <2>2, <2>3 DEF Ascending
<1>7. CASE WritePhrase
  <2>1. UNCHANGED <<queue, hand, mem>> /\ db'[w].n = db[w].n
    BY <1>7, SMTT(30) DEF WritePhrase, keyPath, TypeOK, Row
  <2> QED
    BY <2>1, Still DEF Ascending
<1>8. CASE WriteCount
  <2>1. /\ queue' = queue /\ hand' = NoJob /\ mem' = mem
        /\ db' = [db EXCEPT ![hand.word].n = hand.n]
    BY <1>8 DEF WriteCount, keyPath
  <2>2. /\ InFlight(w)' = InFlight(w) \ {0}
        /\ \A p \in InFlight(w)' : JobAt(p)' = JobAt(p)
    BY <2>1, Done
  <2>3. CASE w = hand.word
    <3>1. 0 \in InFlight(w) /\ JobAt(0) = hand
      BY <1>8, <2>3 DEF WriteCount, Shape, JobAt
    <3>2. db'[w].n = hand.n
      BY <2>1, <2>3 DEF TypeOK, Row
    <3>3. \A p \in InFlight(w) : p # 0 => 0 < p /\ JobAt(0).n < JobAt(p).n
      BY <3>1 DEF Ascending
    <3> QED
      BY <2>1, <2>2, <3>1, <3>2, <3>3 DEF Ascending
  <2>4. CASE w # hand.word
    <3>1. db'[w] = db[w]
      BY <2>1, <2>4 DEF TypeOK
    <3> QED
      BY <2>1, <2>2, <3>1 DEF Ascending
  <2> QED
    BY <2>3, <2>4
<1>9. CASE WriteLog \/ WriteFails
  <2>1. queue' = queue /\ hand' = NoJob /\ UNCHANGED <<mem, db>>
    BY <1>9 DEF WriteLog, WriteFails, keyPath
  <2> QED
    BY <2>1, Done DEF Ascending
<1>10. CASE Open
  <2>1. hand = NoJob /\ queue = <<>> /\ UNCHANGED <<queue, hand>>
    BY <1>10 DEF Open, TypeOK, Shape
  <2>2. mem'[w].n = db[w].n /\ db' = db
    BY <1>10, OpenLoads
  <2>3. InFlight(w)' = {}
    BY <2>1, NoneLeft, Still
  <2> QED
    BY <2>2, <2>3 DEF Ascending
<1>11. CASE WorkerEnds \/ Close \/ Joined \/ UNCHANGED vars
  BY <1>1, <1>11 DEF WorkerEnds, Close, Joined, vars, keyPath
<1>12. CASE Lock \/ Commit \/ \E v \in Words : MinePhrase(v)
  <2>1. UNCHANGED <<queue, hand, mem>> /\ db'[w].n = db[w].n
    BY <1>12, Outsiders
  <2> QED
    BY <2>1, Still DEF Ascending
<1> QED
  BY <1>2, <1>3, <1>4, <1>5, <1>6, <1>7, <1>8, <1>9, <1>10, <1>11, <1>12
  DEF Next, Worker

----------------------------------------------------------------------------
(* The frequencies.                                                        *)

(* A step that leaves memory and what the instance brought to the database *)
(* as they are, and sends at most a job that is not of word w.             *)
LEMMA BehindKept ==
  ASSUME TypeOK, NEW w \in Words, Behind(w),
         mem'[w] = mem[w], Own(w)' = Own(w),
         InFlight(w)' \subseteq InFlight(w), Unwritten(w)' \subseteq Unwritten(w),
         \A p \in InFlight(w)' : JobAt(p)' = JobAt(p)
  PROVE  Behind(w)'
<1>1. Unwritten(w)' \subseteq InFlight(w)'
  BY DEF Unwritten
<1>2. \A p \in Unwritten(w)' : Own(w) - JobAt(p)'.n < mem[w].freq - mem[w].n
  BY <1>1 DEF Behind
<1> QED
  BY <1>2 DEF Behind

(* The frequency in the database stays behind the one in memory.           *)
LEMMA BehindStep ==
  ASSUME TypeOK, Shape, NEW w \in Words, Ascending(w), Behind(w), [Next]_vars
  PROVE  Behind(w)'
<1> USE RowTypes, FlightTypes
<1>0. UNCHANGED <<db, outside>> => Own(w)' = Own(w)
  BY DEF Own
<1>1. ASSUME NEW v \in Words, LogCommit(v) PROVE Behind(w)'
  <2>1. Job("Log", v, 0) \in Jobs /\ Job("Log", v, 0).kind # "Learn"
    BY DEF Job, Jobs
  <2>2. /\ UNCHANGED <<hand, mem>> /\ Own(w)' = Own(w)
        /\ worker' = "busy" => worker = "busy"
    BY <1>0, <1>1 DEF LogCommit, Submit
  <2>3. CASE queue' = Append(queue, Job("Log", v, 0))
    <3>1. /\ \A p \in InFlight(w)' : p \in InFlight(w)
          /\ \A p \in InFlight(w) : JobAt(p)' = JobAt(p)
      BY <2>1, <2>2, <2>3, Sent
    <3> QED
      BY <2>2, <3>1, BehindKept DEF Unwritten
  <2>4. CASE UNCHANGED queue
    BY <2>2, <2>4, Still, BehindKept DEF Unwritten
  <2> QED
    BY <1>1, <2>3, <2>4 DEF LogCommit, Submit
<1>2. CASE Learn
  <2> DEFINE r == Raised(choosing)
             job == Job("Learn", choosing, r.n)
  <2>1. /\ choosing \in Words /\ r.n = mem[choosing].n + 1 /\ r.user
        /\ r.freq = (IF fst /\ ~mem[choosing].user THEN db[choosing].freq + 1
                                                  ELSE mem[choosing].freq + 1)
        /\ outside' = (IF fst /\ ~mem[choosing].user
                       THEN [outside EXCEPT ![choosing] = 0] ELSE outside)
        /\ job \in Jobs /\ Submit(job) /\ UNCHANGED <<hand, db>>
    BY <1>2, LearnRaises
  <2>2. mem'[w] = IF w = choosing THEN r ELSE mem[w]
    BY <1>2, <2>1, LearnRaises DEF TypeOK
  <2>3. worker' = "busy" => worker = "busy"
    BY <2>1 DEF Submit
  <2>4. job.kind = "Learn" /\ job.word = choosing /\ job.n = r.n
    BY DEF Job
  <2> HIDE DEF r, job
  <2>5. /\ \A p \in InFlight(w) : p \in InFlight(w)' /\ JobAt(p)' = JobAt(p)
        /\ \A p \in InFlight(w)' : p \notin InFlight(w) =>
             w = choosing /\ JobAt(p)' = job
    <3>1. CASE queue' = Append(queue, job)
      BY <2>1, <2>4, <3>1, Sent
    <3>2. CASE UNCHANGED queue
      BY <2>1, <3>2, Still
    <3> QED
      BY <2>1, <3>1, <3>2 DEF Submit
  <2>6. CASE w # choosing
    <3>1. Own(w)' = Own(w)
      BY <2>1, <2>6 DEF Own, TypeOK
    <3> QED
      BY <2>2, <2>3, <2>5, <2>6, <3>1, BehindKept DEF Unwritten
  <2>7. CASE w = choosing
    <3>1. mem'[w].user /\ mem'[w].n = mem[w].n + 1 /\ mem'[w].freq \in Nat
      BY <2>1, <2>2, <2>7
    <3>2. mem[w].user => mem'[w].freq = mem[w].freq + 1 /\ Own(w)' = Own(w)
      BY <2>1, <2>2, <2>7 DEF Own
    <3>3. ~mem[w].user => Own(w)' < mem'[w].freq /\ Own(w)' \in Int
      <4>1. CASE fst /\ ~mem[w].user
        <5>1. outside'[w] = 0 /\ db' = db /\ mem'[w].freq = db[w].freq + 1
          BY <2>1, <2>2, <2>7, <4>1 DEF TypeOK
        <5>2. \A a \in Nat : a - 0 < a + 1 /\ a - 0 \in Int
          OBVIOUS
        <5> QED
          BY <5>1, <5>2 DEF Own
      <4>2. CASE ~fst /\ ~mem[w].user
        <5>1. Own(w)' = Own(w) /\ mem'[w].freq = mem[w].freq + 1
          BY <2>1, <2>2, <2>7, <4>2 DEF Own
        <5> QED
          BY <4>2, <5>1 DEF Behind
      <4> QED
        BY <4>1, <4>2
    <3>4. Own(w)' < mem'[w].freq /\ Own(w)' \in Int
      BY <3>1, <3>2, <3>3 DEF Behind
    <3>5. ASSUME NEW p \in Unwritten(w)'
          PROVE  Own(w)' - JobAt(p)'.n < mem'[w].freq - mem'[w].n
      <4>1. p \in InFlight(w)' /\ (p # 0 \/ worker = "busy")
        BY <2>3 DEF Unwritten
      <4>2. CASE p \in InFlight(w)
        <5>1. p \in Unwritten(w) /\ mem[w].user /\ JobAt(p)' = JobAt(p)
          BY <2>5, <4>1, <4>2 DEF Unwritten, Behind
        <5>2. Own(w) - JobAt(p).n < mem[w].freq - mem[w].n /\ JobAt(p).n \in Nat
          BY <4>2, <5>1 DEF Behind
        <5> QED
          BY <3>1, <3>2, <5>1, <5>2, SMTT(30)
      <4>3. CASE p \notin InFlight(w)
        <5>1. JobAt(p)'.n = mem'[w].n
          BY <2>1, <2>4, <2>5, <2>7, <3>1, <4>1, <4>3
        <5> QED
          BY <3>1, <3>4, <5>1
      <4> QED
        BY <4>2, <4>3
    <3> QED
      BY <3>1, <3>4, <3>5 DEF Behind
  <2> QED
    BY <2>6, <2>7
<1>3. CASE LearnFails
  <2>1. /\ choosing \in Words /\ ~mem[choosing].user /\ UNCHANGED <<queue, hand>>
        /\ mem' = [mem EXCEPT ![choosing].n = @ + 1] /\ Own(w)' = Own(w)
    BY <1>0, <1>3 DEF LearnFails, TypeOK
  <2>2. CASE w = choosing
    <3>1. mem'[w].freq = mem[w].freq /\ mem'[w].user = mem[w].user
      BY <2>1, SMTT(30) DEF TypeOK, Row
    <3>2. InFlight(w)' = {} /\ Unwritten(w)' = {}
      BY <2>1, <2>2, Still DEF Behind, Unwritten
    <3> QED
      BY <2>1, <2>2, <3>1, <3>2 DEF Behind
  <2>3. CASE w # choosing
    <3>1. mem'[w] = mem[w] /\ worker' = worker
      BY <1>3, <2>1, <2>3 DEF LearnFails, TypeOK
    <3> QED
      BY <2>1, <3>1, Still, BehindKept DEF Unwritten
  <2> QED
    BY <2>2, <2>3
<1>4. CASE WorkerOpen \/ Killed
  <2>1. mem' = mem /\ Own(w)' = Own(w)
    BY <1>0, <1>4 DEF WorkerOpen, Killed, keyPath
  <2>2. CASE queue' = <<>> /\ hand' = NoJob
    <3>1. InFlight(w)' = {}
      BY <2>2 DEF InFlight, JobAt, NoJob, Job
    <3> QED
      BY <2>1, <3>1, BehindKept DEF Unwritten
  <2>3. CASE UNCHANGED <<queue, hand>> /\ worker' = "idle"
    BY <2>1, <2>3, Still, BehindKept DEF Unwritten
  <2> QED
    BY <1>4, <2>2, <2>3 DEF WorkerOpen, Killed, TypeOK
<1>5. CASE WorkerTake
  <2>1. /\ hand = NoJob /\ queue # <<>> /\ hand' = Head(queue) /\ queue' = Tail(queue)
        /\ mem' = mem /\ Own(w)' = Own(w)
    BY <1>0, <1>5 DEF WorkerTake, TypeOK, keyPath
  <2>2. \A p \in InFlight(w)' :
          p \in Nat /\ p + 1 \in InFlight(w) /\ JobAt(p)' = JobAt(p + 1)
    BY <2>1, Taken
  <2>3. \A p \in Unwritten(w)' :
          p + 1 \in Unwritten(w) /\ JobAt(p)' = JobAt(p + 1)
    BY <2>2 DEF Unwritten
  <2>4. \A p \in Unwritten(w)' : Own(w) - JobAt(p)'.n < mem[w].freq - mem[w].n
    BY <2>3 DEF Behind
  <2> QED
    BY <2>1, <2>2, <2>4 DEF Behind
<1>6. CASE WritePhrase
  <2>1. /\ UNCHANGED <<queue, hand, mem>> /\ worker = "busy" /\ worker' = "half"
        /\ hand.kind = "Learn" /\ hand \in Jobs
        /\ db' = [db EXCEPT ![hand.word].freq = @ + 1, ![hand.word].user = TRUE]
        /\ outside' = outside
    BY <1>6 DEF WritePhrase, keyPath, TypeOK, NoJob, Job
  <2>2. Unwritten(w)' = InFlight(w) \ {0}
    BY <2>1, Still DEF Unwritten
  <2>3. CASE w = hand.word
    <3>1. 0 \in Unwritten(w) /\ 0 \in InFlight(w) /\ JobAt(0) = hand /\ hand.n \in Nat
      BY <2>1, <2>3 DEF Unwritten, JobAt, Jobs
    <3>2. mem[w].user /\ Own(w) - hand.n < mem[w].freq - mem[w].n
      BY <3>1 DEF Behind
    <3>3. hand.n <= mem[w].n
      BY <3>1 DEF Ascending
    <3>4. Own(w)' = Own(w) + 1
      <4>1. db'[w].freq = db[w].freq + 1
        BY <2>1, <2>3 DEF TypeOK, Row
      <4> QED
        BY <2>1, <4>1 DEF Own
    <3>5. ASSUME NEW p \in Unwritten(w)'
          PROVE  Own(w)' - JobAt(p)'.n < mem[w].freq - mem[w].n
      <4>1. p \in InFlight(w) /\ 0 < p /\ JobAt(p)' = JobAt(p)
        BY <2>1, <2>2, Still
      <4>2. hand.n < JobAt(p).n /\ JobAt(p).n \in Nat
        BY <3>1, <4>1 DEF Ascending
      <4> QED
        <5>1. Own(w) \in Int /\ mem[w].freq - mem[w].n \in Int
          BY RowTypes
        <5>2. \A a, b, c, d \in Int : a - b < d /\ b < c => (a + 1) - c < d
          OBVIOUS
        <5> QED
          BY <3>1, <3>2, <3>4, <4>1, <4>2, <5>1, <5>2
    <3>6. Own(w)' <= mem[w].freq /\ mem' = mem
      <4>1. \A a, b, c, d \in Int : a - b < c - d /\ b <= d => a + 1 <= c
        OBVIOUS
      <4> QED
        BY <2>1, <3>1, <3>2, <3>3, <3>4, <4>1, RowTypes
    <3> QED
      BY <3>2, <3>5, <3>6 DEF Behind
  <2>4. CASE w # hand.word
    <3>1. Own(w)' = Own(w)
      BY <2>1, <2>4 DEF TypeOK, Own
    <3> QED
      BY <2>1, <2>2, <3>1, Still, BehindKept DEF Unwritten
  <2> QED
    BY <2>3, <2>4
<1>7. CASE WriteCount \/ WriteLog \/ WriteFails
  <2>1. queue' = queue /\ hand' = NoJob /\ mem' = mem /\ worker' = "idle"
    BY <1>7 DEF WriteCount, WriteLog, WriteFails, keyPath
  <2>2. Own(w)' = Own(w)
    <3>1. CASE WriteCount
      BY <3>1, SMTT(30) DEF WriteCount, TypeOK, Row, Own
    <3>2. CASE WriteLog \/ WriteFails
      BY <1>0, <3>2 DEF WriteLog, WriteFails
    <3> QED
      BY <1>7, <3>1, <3>2
  <2>3. /\ InFlight(w)' = InFlight(w) \ {0}
        /\ \A p \in InFlight(w)' : JobAt(p)' = JobAt(p)
    BY <2>1, Done
  <2>4. Unwritten(w)' \subseteq Unwritten(w) /\ Unwritten(w)' \subseteq InFlight(w)'
    BY <2>3 DEF Unwritten
  <2>5. \A p \in Unwritten(w)' : Own(w) - JobAt(p)'.n < mem[w].freq - mem[w].n
    BY <2>3, <2>4 DEF Behind
  <2> QED
    BY <2>1, <2>2, <2>3, <2>5 DEF Behind
<1>8. CASE Open
  <2>1. hand = NoJob /\ queue = <<>> /\ UNCHANGED <<queue, hand>>
    BY <1>8 DEF Open, TypeOK, Shape
  <2>2. mem'[w].freq \in Nat /\ Own(w)' = mem'[w].freq
    BY <1>8, OpenLoads
  <2>3. InFlight(w)' = {} /\ Unwritten(w)' = {}
    BY <2>1, NoneLeft, Still DEF Unwritten
  <2> QED
    BY <2>2, <2>3 DEF Behind
<1>9. CASE WorkerEnds \/ Close \/ Joined \/ UNCHANGED vars
  <2>1. /\ UNCHANGED <<queue, hand, mem>> /\ Own(w)' = Own(w)
        /\ worker' = "busy" => worker = "busy"
    BY <1>0, <1>9 DEF WorkerEnds, Close, Joined, vars, keyPath
  <2> QED
    BY <2>1, Still, BehindKept DEF Unwritten
<1>10. CASE Lock \/ Commit \/ \E v \in Words : MinePhrase(v)
  <2>1. UNCHANGED <<queue, hand, mem, worker>> /\ Own(w)' = Own(w)
    BY <1>10, Outsiders
  <2> QED
    BY <2>1, Still, BehindKept DEF Unwritten
<1> QED
  BY <1>1, <1>2, <1>3, <1>4, <1>5, <1>6, <1>7, <1>8, <1>9, <1>10 DEF Next, Worker

----------------------------------------------------------------------------
(* Nothing is lost.                                                        *)

(* A step that loses no job in flight and leaves the rows as they are.     *)
LEMMA CompleteKept ==
  ASSUME NEW w \in Words, Complete(w),
         mem'[w] = mem[w], db'[w].n = db[w].n, Own(w)' = Own(w),
         HalfOf(w)' = HalfOf(w),
         \A p \in InFlight(w) : \E q \in InFlight(w)' : JobAt(q)' = JobAt(p)
  PROVE  Complete(w)'
<1>1. ASSUME NEW m \in (db[w].n + 1)..mem[w].n
      PROVE  \E q \in InFlight(w)' : JobAt(q)'.n = m
  <2>1. PICK p \in InFlight(w) : JobAt(p).n = m
    BY DEF Complete
  <2> QED
    BY <2>1
<1> QED
  BY <1>1 DEF Complete

(* As long as nothing is lost, what is not yet stored is in flight.        *)
LEMMA CompleteStep ==
  ASSUME TypeOK, Shape, NEW w \in Words, Ascending(w), Behind(w),
         lossless => Complete(w), [Next]_vars, lossless'
  PROVE  Complete(w)'
<1> USE RowTypes, FlightTypes
<1>0. lossless
  BY DEF Next, LogCommit, Learn, LearnFails, Submit, Worker, WorkerOpen, WorkerTake,
     WritePhrase, WriteCount, WriteLog, WriteFails, WorkerEnds, Close, Joined,
     Killed, Open, Lock, Commit, MinePhrase, vars, keyPath
<1> USE <1>0
<1>9. UNCHANGED <<db, outside>> => db'[w].n = db[w].n /\ Own(w)' = Own(w)
  BY DEF Own
<1>1. ASSUME NEW v \in Words, LogCommit(v) PROVE Complete(w)'
  <2>1. /\ Job("Log", v, 0) \in Jobs /\ Job("Log", v, 0).kind # "Learn"
        /\ queue' = Append(queue, Job("Log", v, 0))
        /\ UNCHANGED <<hand, mem, db, outside>>
        /\ worker' = "half" <=> worker = "half"
    BY <1>1 DEF LogCommit, Submit, Job, Jobs
  <2>2. \A p \in InFlight(w) : p \in InFlight(w)' /\ JobAt(p)' = JobAt(p)
    BY <2>1, Sent
  <2> QED
    BY <1>9, <2>1, <2>2, CompleteKept DEF HalfOf
<1>2. CASE Learn
  <2> DEFINE r == Raised(choosing)
             job == Job("Learn", choosing, r.n)
  <2>1. /\ choosing \in Words /\ r.n = mem[choosing].n + 1
        /\ r.freq = (IF fst /\ ~mem[choosing].user THEN db[choosing].freq + 1
                                                  ELSE mem[choosing].freq + 1)
        /\ outside' = (IF fst /\ ~mem[choosing].user
                       THEN [outside EXCEPT ![choosing] = 0] ELSE outside)
        /\ job \in Jobs /\ Submit(job) /\ UNCHANGED <<hand, db>>
    BY <1>2, LearnRaises
  <2>2. mem'[w] = IF w = choosing THEN r ELSE mem[w]
    BY <1>2, <2>1, LearnRaises DEF TypeOK
  <2>3. HalfOf(w)' = HalfOf(w)
    BY <2>1 DEF Submit, HalfOf
  <2>4. job.kind = "Learn" /\ job.word = choosing /\ job.n = r.n
    BY DEF Job
  <2>5. queue' = Append(queue, job)
    BY <2>1 DEF Submit
  <2> HIDE DEF r, job
  <2>6. /\ \A p \in InFlight(w) : p \in InFlight(w)' /\ JobAt(p)' = JobAt(p)
        /\ w = choosing => \A p : p = Len(queue) + 1 => p \in InFlight(w)' /\ JobAt(p)' = job
    BY <2>1, <2>4, <2>5, Sent
  <2>7. CASE w # choosing
    <3>1. Own(w)' = Own(w)
      BY <2>1, <2>7 DEF Own, TypeOK
    <3> QED
      BY <2>1, <2>2, <2>3, <2>6, <2>7, <3>1, CompleteKept
  <2>8. CASE w = choosing
    <3>1. mem'[w].n = mem[w].n + 1
      BY <2>1, <2>2, <2>8
    <3>2. ASSUME NEW m \in (db[w].n + 1)..mem'[w].n
          PROVE  \E p \in InFlight(w)' : JobAt(p)'.n = m
      <4>1. CASE m = mem'[w].n
        BY <2>1, <2>2, <2>4, <2>6, <2>8, <4>1
      <4>2. CASE m # mem'[w].n
        <5>1. m \in (db[w].n + 1)..mem[w].n
          BY <3>1, <4>2
        <5>2. PICK p \in InFlight(w) : JobAt(p).n = m
          BY <5>1 DEF Complete
        <5> QED
          BY <2>6, <5>2
      <4> QED
        BY <4>1, <4>2
    (* Whatever others wrote, one more in memory is one more to come.      *)
    <3>3. mem'[w].freq - Own(w)' = (mem[w].freq - Own(w)) + 1 /\ Own(w)' \in Int
      <4>1. CASE fst /\ ~mem[w].user
        <5>1. outside'[w] = 0 /\ db' = db /\ mem'[w].freq = db[w].freq + 1
          BY <2>1, <2>2, <2>8, <4>1 DEF TypeOK
        <5>2. Own(w) = mem[w].freq
          BY <4>1 DEF Behind
        <5>3. \A a, b \in Nat : (a + 1) - (a - 0) = (b - b) + 1 /\ a - 0 \in Int
          OBVIOUS
        <5> QED
          BY <5>1, <5>2, <5>3 DEF Own
      <4>2. CASE ~(fst /\ ~mem[w].user)
        <5>1. Own(w)' = Own(w) /\ mem'[w].freq = mem[w].freq + 1
          BY <2>1, <2>2, <2>8, <4>2 DEF Own
        <5> QED
          BY <5>1
      <4> QED
        BY <4>1, <4>2
    <3>4. mem'[w].freq \in Nat
      BY <2>1, <2>2, <2>8
    <3>5. mem'[w].freq - mem'[w].n = (Own(w)' - HalfOf(w)) - db[w].n
      <4>1. mem[w].freq - mem[w].n = (Own(w) - HalfOf(w)) - db[w].n
        BY DEF Complete
      <4>2. HalfOf(w) \in Int
        BY DEF HalfOf
      <4>3. /\ mem[w].freq \in Int /\ mem[w].n \in Int /\ Own(w) \in Int
            /\ db[w].n \in Int /\ mem'[w].freq \in Int /\ Own(w)' \in Int
        BY <3>3, <3>4, RowTypes
      <4>4. mem'[w].freq - (mem[w].n + 1) = (Own(w)' - HalfOf(w)) - db[w].n
        <5> HIDE RowTypes, FlightTypes
        <5>1. mem[w].freq - Own(w) = (mem[w].n - HalfOf(w)) - db[w].n
          BY <4>1, <4>2, <4>3
        <5>2. mem'[w].freq - Own(w)' = ((mem[w].n - HalfOf(w)) - db[w].n) + 1
          BY <3>3, <5>1
        <5> QED
          BY <4>2, <4>3, <5>2
      <4> QED
        BY <3>1, <4>4
    <3> QED
      BY <2>1, <2>3, <3>2, <3>5 DEF Complete
  <2> QED
    BY <2>7, <2>8
<1>3. CASE WorkerTake
  <2>1. /\ hand = NoJob /\ queue # <<>> /\ hand' = Head(queue) /\ queue' = Tail(queue)
        /\ UNCHANGED <<mem, db, outside>>
    BY <1>3 DEF WorkerTake, TypeOK, keyPath
  <2>2. \A p \in InFlight(w) : p - 1 \in InFlight(w)' /\ JobAt(p - 1)' = JobAt(p)
    BY <2>1, Taken
  <2>3. HalfOf(w)' = HalfOf(w)
    BY <1>3 DEF WorkerTake, HalfOf
  <2> QED
    BY <1>9, <2>1, <2>2, <2>3, CompleteKept
<1>4. CASE WritePhrase
  <2>1. /\ UNCHANGED <<queue, hand, mem>> /\ worker = "busy" /\ worker' = "half"
        /\ hand \in Jobs /\ outside' = outside
        /\ db' = [db EXCEPT ![hand.word].freq = @ + 1, ![hand.word].user = TRUE]
    BY <1>4 DEF WritePhrase, keyPath, TypeOK, NoJob, Job
  <2>2. InFlight(w)' = InFlight(w) /\ \A p : JobAt(p)' = JobAt(p)
    BY <2>1, Still
  <2>3. CASE w = hand.word
    <3>1. HalfOf(w) = 0 /\ HalfOf(w)' = 1
      BY <2>1, <2>3 DEF HalfOf
    <3>2. Own(w)' = Own(w) + 1 /\ db'[w].n = db[w].n
      <4>1. db'[w].freq = db[w].freq + 1 /\ db'[w].n = db[w].n
        BY <2>1, <2>3 DEF TypeOK, Row
      <4> QED
        BY <2>1, <4>1, SMTT(30) DEF Own
    <3>3. mem[w].freq - mem[w].n = (Own(w)' - 1) - db'[w].n
      BY <3>1, <3>2 DEF Complete
    <3> QED
      BY <2>1, <2>2, <3>1, <3>2, <3>3 DEF Complete
  <2>4. CASE w # hand.word
    <3>1. db'[w] = db[w] /\ Own(w)' = Own(w) /\ HalfOf(w)' = HalfOf(w)
      BY <2>1, <2>4 DEF TypeOK, HalfOf, Own
    <3> QED
      BY <2>1, <2>2, <3>1, CompleteKept
  <2> QED
    BY <2>3, <2>4
<1>5. CASE WriteCount
  <2>1. /\ queue' = queue /\ hand' = NoJob /\ mem' = mem
        /\ worker = "half" /\ worker' = "idle"
        /\ db' = [db EXCEPT ![hand.word].n = hand.n]
        /\ hand.kind = "Learn" /\ hand \in Jobs /\ outside' = outside
    BY <1>5 DEF WriteCount, keyPath, Shape, TypeOK
  <2>2. /\ InFlight(w)' = InFlight(w) \ {0}
        /\ \A p \in InFlight(w)' : JobAt(p)' = JobAt(p)
    BY <2>1, Done
  <2>3. CASE w = hand.word
    <3>1. /\ 0 \in InFlight(w) /\ JobAt(0) = hand
          /\ hand.n \in Nat /\ db[w].n < hand.n /\ hand.n <= mem[w].n
      BY <2>1, <2>3 DEF JobAt, Jobs, Ascending
    <3>2. db'[w].n = hand.n /\ Own(w)' = Own(w)
      BY <2>1, <2>3 DEF TypeOK, Row, Own
    (* The job in hand brings the next count: the job of that count is in  *)
    (* flight, and the one in hand is the first.                           *)
    <3>3. hand.n = db[w].n + 1
      <4>0. db[w].n + 1 \in (db[w].n + 1)..mem[w].n
        BY <3>1, RowTypes
      <4>1. PICK p \in InFlight(w) : JobAt(p).n = db[w].n + 1
        BY <4>0 DEF Complete
      <4>2. p # 0 => hand.n < JobAt(p).n
        BY <3>1 DEF Ascending
      <4> QED
        BY <3>1, <4>1, <4>2
    <3>4. HalfOf(w) = 1 /\ HalfOf(w)' = 0
      BY <2>1, <2>3 DEF HalfOf
    <3>5. mem[w].freq - mem[w].n = (Own(w)' - 0) - db'[w].n
      <4>1. mem[w].freq - mem[w].n = (Own(w) - 1) - db[w].n
        BY <3>4 DEF Complete
      <4>2. \A a, b \in Int : (a - 1) - b = (a - 0) - (b + 1)
        OBVIOUS
      <4> QED
        <5>1. (Own(w) - 1) - db[w].n = (Own(w) - 0) - (db[w].n + 1)
          BY <4>2, RowTypes
        <5> QED
          BY <3>2, <3>3, <4>1, <5>1
    <3>6. ASSUME NEW m \in (hand.n + 1)..mem[w].n
          PROVE  \E p \in InFlight(w)' : JobAt(p)'.n = m
      <4>1. m \in (db[w].n + 1)..mem[w].n /\ m # hand.n
        BY <3>1
      <4>2. PICK p \in InFlight(w) : JobAt(p).n = m
        BY <4>1 DEF Complete
      <4> QED
        BY <2>2, <3>1, <4>1, <4>2
    <3> QED
      BY <2>1, <3>2, <3>4, <3>5, <3>6 DEF Complete
  <2>4. CASE w # hand.word
    <3>1. /\ db'[w] = db[w] /\ Own(w)' = Own(w)
          /\ HalfOf(w)' = HalfOf(w) /\ 0 \notin InFlight(w)
      BY <2>1, <2>4 DEF TypeOK, HalfOf, Own
    <3> QED
      BY <2>1, <2>2, <3>1, CompleteKept
  <2> QED
    BY <2>3, <2>4
<1>6. CASE WriteLog
  <2>1. /\ queue' = queue /\ hand' = NoJob /\ UNCHANGED <<mem, db, outside>>
        /\ worker = "busy" /\ worker' = "idle" /\ hand.kind = "Log"
    BY <1>6 DEF WriteLog, keyPath
  <2>2. \A p \in InFlight(w) : p \in InFlight(w)' /\ JobAt(p)' = JobAt(p)
    BY <2>1, Done
  <2>3. HalfOf(w)' = HalfOf(w)
    BY <2>1 DEF HalfOf
  <2> QED
    BY <1>9, <2>1, <2>2, <2>3, CompleteKept
<1>7. CASE Open
  <2>1. hand = NoJob /\ queue = <<>> /\ UNCHANGED <<queue, hand>>
    BY <1>7 DEF Open, TypeOK, Shape
  <2>2. /\ mem'[w].n = db[w].n /\ db' = db /\ worker' = "unborn"
        /\ mem'[w].freq \in Nat /\ Own(w)' = mem'[w].freq
    BY <1>7, OpenLoads DEF Open
  <2>3. HalfOf(w)' = 0 /\ (db[w].n + 1)..db[w].n = {}
    BY <2>2 DEF HalfOf
  <2>4. mem'[w].freq - mem'[w].n = (Own(w)' - 0) - db'[w].n
    BY <2>2
  <2> QED
    BY <2>2, <2>3, <2>4 DEF Complete
<1>8. CASE WorkerOpen \/ WorkerEnds \/ Close \/ Joined \/ UNCHANGED vars
  <2>1. /\ UNCHANGED <<queue, hand, mem, db, outside>>
        /\ worker' = "half" <=> worker = "half"
    BY <1>8 DEF WorkerOpen, WorkerEnds, Close, Joined, vars, keyPath
  <2> QED
    BY <1>9, <2>1, Still, CompleteKept DEF HalfOf
<1>10. CASE Lock \/ Commit \/ \E v \in Words : MinePhrase(v)
  <2>1. /\ UNCHANGED <<queue, hand, mem, worker>>
        /\ db'[w].n = db[w].n /\ Own(w)' = Own(w)
    BY <1>10, Outsiders
  <2> QED
    BY <2>1, Still, CompleteKept DEF HalfOf
<1> QED
  BY <1>1, <1>2, <1>3, <1>4, <1>5, <1>6, <1>7, <1>8, <1>10
  DEF Next, Worker, LearnFails, WriteFails, Killed

----------------------------------------------------------------------------
(* The theorems.                                                           *)

(* The dictionary is opened with what the database holds.                  *)
LEMMA LearnInit == Init => LearnInv
<1> SUFFICES ASSUME Init PROVE LearnInv
  OBVIOUS
<1> USE LearningAssumption
<1>1. db \in [Words -> Row] /\ mem = db
  BY DEF Init, Row
<1>2. TypeOK
  <2>1. <<>> \in Seq(Jobs) /\ Len(<<>>) <= QueueCap /\ 1 \in Nat
    OBVIOUS
  <2> QED
    BY <1>1, <2>1 DEF Init, TypeOK, NoJob, Job
<1>3. Shape /\ Grown
  BY DEF Init, Shape, Grown
<1>4. ASSUME NEW w \in Words PROVE Ascending(w) /\ Behind(w) /\ Complete(w)
  <2>1. InFlight(w) = {} /\ HalfOf(w) = 0
    BY NoneLeft DEF Init, HalfOf
  <2>2. mem[w] = db[w] /\ (db[w].n + 1)..mem[w].n = {}
    BY <1>1, <1>2, RowTypes
  <2>3. Own(w) = db[w].freq
    BY <1>2, RowTypes DEF Init, Own
  <2> QED
    BY <1>2, <2>1, <2>2, <2>3, RowTypes DEF Ascending, Behind, Unwritten, Complete
<1> QED
  BY <1>2, <1>3, <1>4 DEF LearnInv

(* Every step keeps it.                                                    *)
LEMMA LearnStep == LearnInv /\ [Next]_vars => LearnInv'
<1> SUFFICES ASSUME LearnInv, [Next]_vars PROVE LearnInv'
  OBVIOUS
<1>1. TypeOK' /\ Shape' /\ Grown'
  BY TypeStep, ShapeStep, GrownStep DEF LearnInv
<1>2. ASSUME NEW w \in Words
      PROVE  Ascending(w)' /\ Behind(w)' /\ (lossless' => Complete(w)')
  BY AscendStep, BehindStep, CompleteStep DEF LearnInv
<1> QED
  BY <1>1, <1>2 DEF LearnInv

(* The inductive invariant of the way a choice takes to the database.      *)
THEOREM LearningInvariant == Spec => []LearnInv
BY LearnInit, LearnStep, PTL DEF Spec

(* Types: submit, the worker's two statements, Drop and Dict::open keep    *)
(* the channel within its capacity and every row a row.                    *)
THEOREM LearningTypes == Spec => []TypeOK
<1>1. LearnInv => TypeOK
  BY DEF LearnInv
<1> QED
  BY <1>1, LearningInvariant, PTL

(* The counts of a word, from the row of kime_kv over the job in hand and  *)
(* the channel to user_stats, are in ascending order: a job that is lost   *)
(* is made good by the next one.                                           *)
THEOREM CountsInOrder == Spec => []CountsAscend
<1>1. LearnInv => CountsAscend
  BY DEF LearnInv, CountsAscend, Ascending
<1> QED
  BY <1>1, LearningInvariant, PTL

(* persist_learn adds one per job and learn_mem one per choice: no choice  *)
(* is added twice, though a job may fail in between and whatever the miner *)
(* and an import write into the same row meanwhile.                        *)
THEOREM ChoicesAddedOnce == Spec => []AddedOnce
<1>1. LearnInv => AddedOnce
  BY DEF LearnInv, AddedOnce, Behind, Own
<1> QED
  BY <1>1, LearningInvariant, PTL

(* Drop drains the channel: after it the database holds what memory held   *)
(* and what others added on top, if no job was dropped, failed or lost in  *)
(* this or an earlier session.                                             *)
THEOREM ShutdownKeepsAll == Spec => []CloseKeepsAll
<1>1. LearnInv => CloseKeepsAll
  <2> SUFFICES ASSUME LearnInv, phase = "closed", lossless, NEW w \in Words
               PROVE  db[w].n = mem[w].n /\ db[w].freq = mem[w].freq + outside[w]
    BY DEF CloseKeepsAll
  <2>1. TypeOK /\ Shape /\ Ascending(w) /\ Complete(w)
    BY DEF LearnInv
  <2>2. InFlight(w) = {} /\ HalfOf(w) = 0
    BY <2>1, NoneLeft DEF Shape, TypeOK, HalfOf
  <2>3. db[w].n = mem[w].n
    <3>1. (db[w].n + 1)..mem[w].n = {}
      BY <2>1, <2>2 DEF Complete
    <3>2. db[w].n < mem[w].n => mem[w].n \in (db[w].n + 1)..mem[w].n
      BY <2>1, RowTypes
    <3> QED
      BY <2>1, <3>1, <3>2, RowTypes DEF Ascending
  <2>4. mem[w].freq - mem[w].n = (Own(w) - 0) - db[w].n
    BY <2>1, <2>2 DEF Complete
  <2>5. \A a, b, c, d \in Nat : a - b = ((c - d) - 0) - b => c = a + d
    OBVIOUS
  <2> QED
    BY <2>1, <2>3, <2>4, <2>5, RowTypes DEF Own
<1> QED
  BY <1>1, LearningInvariant, PTL

(* No step replaces a stored count by a smaller one: the absolute value of *)
(* a job in hand is above the stored one, across kills and restarts.       *)
THEOREM StoredCountGrows == Spec => CountNeverFalls
<1>1. LearnInv /\ [Next]_vars => [\A w \in Words : db'[w].n >= db[w].n]_vars
  <2> SUFFICES ASSUME LearnInv, Next, NEW w \in Words PROVE db'[w].n >= db[w].n
    OBVIOUS
  <2>1. TypeOK /\ Shape /\ Ascending(w)
    BY DEF LearnInv
  <2>2. CASE WriteCount
    <3>1. w = hand.word => 0 \in InFlight(w) /\ JobAt(0) = hand /\ hand.n \in Nat
      BY <2>1, <2>2, FlightTypes DEF WriteCount, Shape, JobAt, TypeOK, Jobs, NoJob, Job
    <3>2. db'[w].n = IF w = hand.word THEN hand.n ELSE db[w].n
      BY <2>1, <2>2 DEF WriteCount, TypeOK, Row
    <3> QED
      BY <2>1, <3>1, <3>2, RowTypes DEF Ascending
  <2>3. CASE WritePhrase
    <3>1. db'[w].n = db[w].n
      BY <2>1, <2>3 DEF WritePhrase, TypeOK, Row
    <3> QED
      BY <2>1, <3>1, RowTypes
  <2>4. CASE Lock \/ Commit \/ \E v \in Words : MinePhrase(v)
    BY <2>1, <2>4, Outsiders, RowTypes
  <2>5. ASSUME ~WriteCount, ~WritePhrase, ~Lock, ~Commit,
               ~\E v \in Words : MinePhrase(v)
        PROVE  db' = db
    BY <2>5 DEF Next, LogCommit, Learn, LearnFails, Worker, WorkerOpen, WorkerTake,
       WriteLog, WriteFails, WorkerEnds, Close, Joined, Killed, Open, keyPath
  <2> QED
    BY <2>1, <2>2, <2>3, <2>4, <2>5, RowTypes
<1> QED
  BY <1>1, LearningInvariant, PTL DEF Spec, CountNeverFalls
=============================================================================

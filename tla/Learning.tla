------------------------------ MODULE Learning ------------------------------
(***************************************************************************)
(* What becomes of a chosen word: learn_mem raises it in memory at once,   *)
(* LearnWriter queues a job, the writer thread brings it to SQLite, and    *)
(* the next Dict::open loads it again.                                     *)
(*                                                                         *)
(* Modelled whole: learn_or_warn's calls of the dictionary, submit and     *)
(* ensure_running, the worker thread from its connection to its end, the   *)
(* two statements of persist_learn, Drop, and the loading of user rows.    *)
(* Abstracted: the text and the reading of a word; the day, which stands   *)
(* still (no decay); the rank baked from frequency and count (Dictionary   *)
(* ranks); the rows of commit_log.                                         *)
(* Assumed: one input method writes the counts of kime_kv. A second one on *)
(* the same database would write its own, whatever the first has stored.   *)
(* External: whoever else writes the database. The offline miner and       *)
(* `kime import` hold SQLite's write lock in a transaction of their own,   *)
(* and both write phrase rows: the miner adds its phrases one by one, an   *)
(* import raises rows that are no user rows. Dictionary has `kime build`.  *)
(***************************************************************************)
EXTENDS Integers, Sequences

CONSTANTS
  Words,       \* the words that are chosen
  BaseFreq,    \* the frequency of each in table and dict.bin, 0 without a row
  Stores,      \* whether a dict.bin is present: user rows are then an overlay
  QueueCap,    \* jobs the channel holds (QUEUE_CAPACITY, 256 in the code)
  Contended,   \* the miner and an import write the database as well
  Imports,     \* what a transaction of theirs lists: a frequency per word, or 0
  Breaks,      \* the process may be killed, the thread or its connection fail
  MaxUses,     \* bound: times a word is chosen
  MaxSessions  \* bound: times the dictionary is opened

ASSUME LearningAssumption ==
  /\ BaseFreq \in [Words -> Nat]
  /\ QueueCap \in Nat \ {0} /\ MaxUses \in Nat /\ MaxSessions \in Nat
  /\ Imports \subseteq [Words -> Nat]
  /\ Stores \subseteq BOOLEAN /\ Contended \in BOOLEAN /\ Breaks \in BOOLEAN
  /\ "none" \notin Words

VARIABLES
  fst,       \* the dictionary is opened over a dict.bin
  \* the key path
  phase,     \* "up", "closing" (in Drop), "closed"
  session,   \* number of times the dictionary was opened
  choosing,  \* the word whose log job is sent, its learn_mem still to come
  mem,       \* user_stats and the index or overlay, per word
  \* channel and thread
  queue,     \* jobs in the channel
  worker,    \* "unborn", "opening", "idle", "busy", "half", "dead"
  hand,      \* the job the worker took
  \* database
  db,        \* phrase and kime_kv, per word
  locked,    \* somebody else holds the write lock
  \* history
  lossless,  \* no job was dropped, failed or lost with the process
  outside    \* what others added to a stored frequency that memory has not read

keyPath == <<fst, phase, session, choosing, mem>>
vars == <<keyPath, queue, worker, hand, db, locked, lossless, outside>>

Job(kind, w, n) == [kind |-> kind, word |-> w, n |-> n]
NoJob == Job("none", "none", 0)

----------------------------------------------------------------------------
(* Mutant: the channel has no bound.                                       *)
SubmitUnbounded(job) ==
  /\ worker # "dead"
  /\ queue' = Append(queue, job)
  /\ worker' = IF worker = "unborn" THEN "opening" ELSE worker
  /\ UNCHANGED lossless

(* submit: the first job starts the thread. A full channel, a thread that  *)
(* cannot be started and one that ended drop the job.                      *)
Submit(job) ==
  \/ /\ worker # "dead"
     /\ Len(queue) < QueueCap
     /\ queue' = Append(queue, job)
     /\ worker' = IF worker = "unborn" THEN "opening" ELSE worker
     /\ UNCHANGED lossless
  \/ /\ \/ worker = "dead"
        \/ Len(queue) >= QueueCap
        \/ worker = "unborn" /\ Breaks
     /\ lossless' = FALSE
     /\ UNCHANGED <<queue, worker>>

(* A word is chosen: its commit_log job goes first.                        *)
LogCommit(w) ==
  /\ phase = "up"
  /\ choosing = "none"
  /\ mem[w].n < MaxUses
  /\ choosing' = w
  /\ Submit(Job("Log", w, 0))
  /\ UNCHANGED <<fst, phase, session, mem, hand, db, locked, outside>>

(* Mutant: the count stays as it was loaded.                               *)
RaisedWithoutCount(w) ==
  LET m == mem[w]
  IN  [n |-> IF m.n = 0 THEN 1 ELSE m.n, freq |-> m.freq + 1, user |-> TRUE]

(* learn_mem. A word that was not a user row takes its frequency from the  *)
(* database in FST mode; any other has the one in memory raised.           *)
Raised(w) ==
  LET m == mem[w]
      freq == IF fst /\ ~m.user THEN db[w].freq + 1 ELSE m.freq + 1
  IN  [n |-> m.n + 1, freq |-> freq, user |-> TRUE]

Learn ==
  /\ choosing # "none"
  /\ choosing' = "none"
  /\ LET raised == Raised(choosing)
     IN  /\ mem' = [mem EXCEPT ![choosing] = raised]
         /\ Submit(Job("Learn", choosing, raised.n))
  /\ outside' = IF fst /\ ~mem[choosing].user
                THEN [outside EXCEPT ![choosing] = 0] ELSE outside
  /\ UNCHANGED <<fst, phase, session, hand, db, locked>>

(* learn_mem cannot read the frequency of a word that is not a user row:   *)
(* its count is raised, nothing else, and no job is sent.                  *)
LearnFails ==
  /\ choosing # "none"
  /\ Breaks /\ fst /\ ~mem[choosing].user
  /\ choosing' = "none"
  /\ mem' = [mem EXCEPT ![choosing].n = @ + 1]
  /\ lossless' = FALSE
  /\ UNCHANGED <<fst, phase, session, queue, worker, hand, db, locked, outside>>

----------------------------------------------------------------------------
(* run_worker.                                                             *)

WorkerOpen ==
  /\ worker = "opening"
  /\ \/ worker' = "idle" /\ UNCHANGED <<queue, lossless>>
     \/ Breaks /\ worker' = "dead" /\ queue' = <<>> /\ lossless' = FALSE
  /\ UNCHANGED <<keyPath, hand, db, locked, outside>>

WorkerTake ==
  /\ worker = "idle"
  /\ queue # <<>>
  /\ hand' = Head(queue)
  /\ queue' = Tail(queue)
  /\ worker' = "busy"
  /\ UNCHANGED <<keyPath, db, locked, lossless, outside>>

(* The phrase row: one more than it was, whatever the job says.            *)
WritePhrase ==
  /\ worker = "busy" /\ hand.kind = "Learn" /\ ~locked
  /\ db' = [db EXCEPT ![hand.word].freq = @ + 1, ![hand.word].user = TRUE]
  /\ worker' = "half"
  /\ UNCHANGED <<keyPath, queue, hand, locked, lossless, outside>>

(* The count in kime_kv: the absolute value of the job.                    *)
WriteCount ==
  /\ worker = "half" /\ ~locked
  /\ db' = [db EXCEPT ![hand.word].n = hand.n]
  /\ worker' = "idle"
  /\ hand' = NoJob
  /\ UNCHANGED <<keyPath, queue, locked, lossless, outside>>

WriteLog ==
  /\ worker = "busy" /\ hand.kind = "Log" /\ ~locked
  /\ worker' = "idle"
  /\ hand' = NoJob
  /\ UNCHANGED <<keyPath, queue, db, locked, lossless, outside>>

(* Mutant: a failed job is tried again from its first statement.           *)
WriteFailsRetried ==
  /\ worker \in {"busy", "half"} /\ locked
  /\ worker' = "busy"
  /\ UNCHANGED <<keyPath, queue, hand, db, locked, lossless, outside>>

(* Mutant: without a timeout a statement waits for the lock.               *)
WriteFailsNever ==
  /\ worker \in {"busy", "half"} /\ locked
  /\ phase = "up"
  /\ worker' = "idle"
  /\ hand' = NoJob
  /\ lossless' = FALSE
  /\ UNCHANGED <<keyPath, queue, db, locked, outside>>

(* The lock was not given up within busy_timeout: 5 s, or nothing once the *)
(* thread drains. The job is lost with what it had left to write.          *)
WriteFails ==
  /\ worker \in {"busy", "half"} /\ locked
  /\ worker' = "idle"
  /\ hand' = NoJob
  /\ lossless' = FALSE
  /\ UNCHANGED <<keyPath, queue, db, locked, outside>>

(* Mutant: the thread ends as soon as it sees the stop flag.               *)
WorkerStops ==
  /\ worker = "idle"
  /\ phase = "closing"
  /\ worker' = "dead"
  /\ queue' = <<>>
  /\ UNCHANGED <<keyPath, hand, db, locked, lossless, outside>>

(* recv fails only when the channel is closed and empty.                   *)
WorkerEnds ==
  /\ worker = "idle"
  /\ phase = "closing"
  /\ queue = <<>>
  /\ worker' = "dead"
  /\ UNCHANGED <<keyPath, queue, hand, db, locked, lossless, outside>>

----------------------------------------------------------------------------
(* The process.                                                            *)

(* Drop: the stop flag, the closed channel, and then join.                 *)
Close ==
  /\ phase = "up"
  /\ choosing = "none"
  /\ phase' = "closing"
  /\ UNCHANGED <<fst, session, choosing, mem, queue, worker, hand, db, locked, lossless, outside>>

Joined ==
  /\ phase = "closing"
  /\ worker \in {"unborn", "dead"}
  /\ phase' = "closed"
  /\ UNCHANGED <<fst, session, choosing, mem, queue, worker, hand, db, locked, lossless, outside>>

Killed ==
  /\ Breaks
  /\ phase \in {"up", "closing"}
  /\ phase' = "closed"
  /\ choosing' = "none"
  /\ queue' = <<>>
  /\ hand' = NoJob
  /\ worker' = "dead"
  /\ lossless' = FALSE
  /\ UNCHANGED <<fst, session, mem, db, locked, outside>>

(* What Dict::open loads: all rows, or over a dict.bin the user rows; the  *)
(* others have the frequency the dict.bin was built with.                  *)
Loaded(w, store) ==
  IF store /\ ~db[w].user THEN [db[w] EXCEPT !.freq = BaseFreq[w]] ELSE db[w]

(* Mutant: the counts of kime_kv are not loaded.                           *)
OpenWithoutStats ==
  /\ phase = "closed"
  /\ session < MaxSessions
  /\ session' = session + 1
  /\ fst' \in Stores
  /\ phase' = "up"
  /\ mem' = [w \in Words |-> [Loaded(w, fst') EXCEPT !.n = 0]]
  /\ outside' = [w \in Words |-> db[w].freq - mem'[w].freq]
  /\ worker' = "unborn"
  /\ UNCHANGED <<choosing, queue, hand, db, locked, lossless>>

Open ==
  /\ phase = "closed"
  /\ session < MaxSessions
  /\ session' = session + 1
  /\ fst' \in Stores
  /\ phase' = "up"
  /\ mem' = [w \in Words |-> Loaded(w, fst')]
  /\ outside' = [w \in Words |-> db[w].freq - mem'[w].freq]
  /\ worker' = "unborn"
  /\ UNCHANGED <<choosing, queue, hand, db, locked, lossless>>

----------------------------------------------------------------------------
(* The other writers.                                                      *)

(* A transaction begins: the miner's main one, or an import.               *)
Lock ==
  /\ Contended /\ ~locked
  /\ locked' = TRUE
  /\ UNCHANGED <<keyPath, queue, worker, hand, db, lossless, outside>>

(* It commits. An import has raised the rows its file lists higher, unless *)
(* they are user rows, and added those that were missing. A miner, and a   *)
(* transaction that is rolled back, lists none of these words.             *)
Commit ==
  /\ locked
  /\ locked' = FALSE
  /\ \E listed \in Imports :
       db' = [w \in Words |->
                IF ~db[w].user /\ db[w].freq < listed[w]
                THEN [db[w] EXCEPT !.freq = listed[w]] ELSE db[w]]
  /\ outside' = [w \in Words |-> outside[w] + (db'[w].freq - db[w].freq)]
  /\ UNCHANGED <<keyPath, queue, worker, hand, lossless>>

(* mine_phrases adds a phrase that has no row, in a statement of its own   *)
(* after the main transaction.                                             *)
MinePhrase(w) ==
  /\ Contended /\ ~locked
  /\ db[w].freq = 0
  /\ db' = [db EXCEPT ![w].freq = 1, ![w].user = TRUE]
  /\ outside' = [outside EXCEPT ![w] = @ + 1]
  /\ UNCHANGED <<keyPath, queue, worker, hand, locked, lossless>>

----------------------------------------------------------------------------
Init ==
  /\ fst \in Stores
  /\ db = [w \in Words |-> [freq |-> BaseFreq[w], n |-> 0, user |-> FALSE]]
  /\ mem = db
  /\ phase = "up" /\ session = 1 /\ choosing = "none"
  /\ queue = <<>> /\ worker = "unborn" /\ hand = NoJob
  /\ locked = FALSE /\ lossless = TRUE /\ outside = [w \in Words |-> 0]

Worker ==
  \/ WorkerOpen \/ WorkerTake
  \/ WritePhrase \/ WriteCount \/ WriteLog \/ WriteFails
  \/ WorkerEnds

Next ==
  \/ \E w \in Words : LogCommit(w)
  \/ Learn \/ LearnFails
  \/ Worker
  \/ Close \/ Joined \/ Killed \/ Open
  \/ Lock \/ Commit
  \/ \E w \in Words : MinePhrase(w)

Spec == Init /\ [][Next]_vars

(* The thread is scheduled, a statement that waits for the lock is given   *)
(* up after busy_timeout, and join returns when the thread has ended.      *)
LiveSpec ==
  /\ Spec
  /\ WF_vars(WorkerOpen) /\ WF_vars(WorkerTake)
  /\ WF_vars(WritePhrase \/ WriteCount \/ WriteLog \/ WriteFails)
  /\ WF_vars(WorkerEnds) /\ WF_vars(Joined)

----------------------------------------------------------------------------
Row == [freq : Nat, n : Nat, user : BOOLEAN]
Jobs == [kind : {"Log", "Learn"}, word : Words, n : Nat]

TypeOK ==
  /\ fst \in BOOLEAN
  /\ phase \in {"up", "closing", "closed"}
  /\ session \in Nat
  /\ choosing \in Words \cup {"none"}
  /\ mem \in [Words -> Row]
  /\ queue \in Seq(Jobs) /\ Len(queue) <= QueueCap
  /\ worker \in {"unborn", "opening", "idle", "busy", "half", "dead"}
  /\ hand \in Jobs \cup {NoJob}
  /\ (worker \in {"busy", "half"}) <=> (hand # NoJob)
  /\ db \in [Words -> Row]
  /\ locked \in BOOLEAN /\ lossless \in BOOLEAN
  /\ outside \in [Words -> Nat]

(* The jobs on their way to the database, oldest first: 0 is the one in    *)
(* hand. InFlight(w): where the counts of word w stand.                    *)
JobAt(p) == IF p = 0 THEN hand ELSE queue[p]

InFlight(w) ==
  {p \in 0..Len(queue) : JobAt(p).kind = "Learn" /\ JobAt(p).word = w}

(* The count of a word only grows, on its whole way: what is stored, what  *)
(* is in flight and what memory holds are in ascending order, across drops,*)
(* failed writes and restarts of the one instance that writes counts. So   *)
(* whatever job is lost, a later one brings the newest count.              *)
CountsAscend ==
  phase # "closed" =>
    \A w \in Words :
      /\ db[w].n <= mem[w].n
      /\ \A p \in InFlight(w) :
           /\ db[w].n < JobAt(p).n /\ JobAt(p).n <= mem[w].n
           /\ \A q \in InFlight(w) : p < q => JobAt(p).n < JobAt(q).n

(* A stored count is never replaced by a smaller one, as long as only one  *)
(* instance writes counts.                                                 *)
CountNeverFalls == [][\A w \in Words : db'[w].n >= db[w].n]_vars

(* No choice is added twice to a stored frequency: each job adds one, may  *)
(* fail between its statements, and the row may be raised or created by    *)
(* the miner or an import in the meantime. Without what those added that   *)
(* memory has not read, the database is never above memory. (With it, it   *)
(* may be: the index gives a phrase that was just mined the frequency 1    *)
(* when it is chosen, and its row becomes 2.)                              *)
AddedOnce ==
  phase # "closed" =>
    \A w \in Words : db[w].freq - outside[w] <= mem[w].freq

(* After an orderly shutdown in which no job was dropped and no write      *)
(* failed, the database holds what memory held, and what others added on   *)
(* top of it: Drop lets the thread drain the channel before join returns.  *)
CloseKeepsAll ==
  phase = "closed" /\ lossless =>
    \A w \in Words : db[w].n = mem[w].n /\ db[w].freq = mem[w].freq + outside[w]

(* Drop returns, whoever holds the lock.                                   *)
CloseEnds == phase = "closing" ~> phase = "closed"
=============================================================================

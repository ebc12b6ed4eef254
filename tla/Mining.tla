------------------------------- MODULE Mining -------------------------------
(***************************************************************************)
(* The offline language model (kime_core::lm): the writer thread logs each *)
(* chosen word with the word before it, `kime mine-lm` counts the pairs    *)
(* that repeat into bigram, deletes the rows it counted, learns frequent   *)
(* pairs as words, and moves a generation number on for the input method.  *)
(*                                                                         *)
(* Modelled whole: mine_gated with both of its paths (ctx_id, and tail_ctx *)
(* through TailPlan), the jev gate, aging, eviction, the purge, and        *)
(* mine_phrases. The statements between BEGIN IMMEDIATE and COMMIT are one *)
(* step, because SQLite lets no other writer in between them.              *)
(* Abstracted: the tail text, to the dictionary word that its split ends   *)
(* with; last_seen, so that a tie of the eviction may go either way; the   *)
(* scores of the gate, which may accept any pair.                          *)
(***************************************************************************)
EXTENDS Integers, Sequences, FiniteSets, FiniteSetsExt, Functions

CONSTANTS
  Vocab,           \* rows of vocab: a text with a reading
  TextOf,          \* the text of each
  Canonical,       \* the row a text of a tail is counted for (vocab_id_for_text)
  Records,         \* the records [ctx, text, tail] that may be logged
  MinAdmission,    \* MIN_ADMISSION, 2 in the code
  PhraseAdmission, \* PHRASE_ADMISSION, 5 in the code
  Budget,          \* BIGRAM_BUDGET, 500 000 in the code
  Gates,           \* whether mine-lm is called with --jev
  Miners,          \* processes that mine
  MaxCommits,      \* bound: words logged
  MaxRounds        \* bound: minings started

Texts == Range(TextOf)

(* "none" is NULL; "opaque" is a tail no dictionary word can be split from. *)
ASSUME MiningAssumption ==
  /\ TextOf \in [Vocab -> Texts]
  /\ Canonical \in [Texts -> Vocab] /\ \A t \in Texts : TextOf[Canonical[t]] = t
  /\ "none" \notin Vocab \cup Texts /\ "opaque" \notin Texts
  /\ Records \subseteq [ctx : Vocab \cup {"none"}, text : Vocab,
                        tail : Texts \cup {"none", "opaque"}]
  /\ MinAdmission \in Nat \ {0} /\ PhraseAdmission \in Nat /\ Budget \in Nat
  /\ MaxCommits \in Nat /\ MaxRounds \in Nat /\ Gates \subseteq BOOLEAN

VARIABLES
  \* database
  log,        \* commit_log: the rows, each a rowid and the commit it records
  bigram,     \* count of each admitted pair
  phrases,    \* pairs learned as words
  generation, \* kime_kv 'lm_generation'
  \* the miners
  at,         \* "idle", "planned", "ready", "committed", "learned"
  plan,       \* TailPlan: the rows with a tail, as they were read
  accepted,   \* pairs of texts the gate let through
  rounds,     \* number of minings started
  \* history
  commits,    \* every record logged, in order
  credit,     \* how often each was counted, by path
  alone       \* no mining was started while another one ran

database == <<log, bigram, phrases, generation>>
miners == <<at, plan, accepted, rounds>>
vars == <<database, miners, commits, credit, alone>>

TextPairs == Texts \X Texts
TextPair(p) == <<TextOf[p[1]], TextOf[p[2]]>>

(* The pair a record shows on either path, if any.                         *)
HasCtx(c) == c.ctx # "none"
HasTail(c) == c.tail \in Texts
CtxPair(c) == <<c.ctx, c.text>>
TailPair(c) == <<Canonical[c.tail], c.text>>

Rec(r) == commits[r.id]

----------------------------------------------------------------------------
(* persist_commit_log. A rowid is one more than the largest in the table.  *)
WriteLog(c) ==
  /\ Len(commits) < MaxCommits
  /\ commits' = Append(commits, c)
  /\ credit' = Append(credit, [ctx |-> 0, tail |-> 0])
  /\ log' = log \cup {[rowid |-> 1 + Max({r.rowid : r \in log} \cup {0}),
                       id |-> Len(commits) + 1]}
  /\ UNCHANGED <<bigram, phrases, generation, miners, alone>>

----------------------------------------------------------------------------
(* plan_tail_pairs reads before the transaction.                           *)
Start(m) ==
  /\ at[m] = "idle"
  /\ rounds < MaxRounds
  /\ rounds' = rounds + 1
  /\ plan' = [plan EXCEPT ![m] = {r \in log : Rec(r).tail # "none"}]
  /\ \E gated \in Gates :
       /\ accepted' = [accepted EXCEPT ![m] = IF gated THEN {} ELSE TextPairs]
       /\ at' = [at EXCEPT ![m] = IF gated THEN "planned" ELSE "ready"]
  /\ alone' = (alone /\ \A other \in Miners : at[other] = "idle")
  /\ UNCHANGED <<database, commits, credit>>

CtxRows(p) == {r \in log : CtxPair(Rec(r)) = p}
TailRows(m, p) == {r \in plan[m] : HasTail(Rec(r)) /\ TailPair(Rec(r)) = p}

(* gate_candidates reads the log again; a batch without an answer passes   *)
(* whole.                                                                  *)
Candidates(m) ==
  {TextPair(p) : p \in {q \in Vocab \X Vocab :
     \/ Cardinality(CtxRows(q)) >= MinAdmission
     \/ Cardinality(TailRows(m, q)) >= MinAdmission}}

Gate(m) ==
  /\ at[m] = "planned"
  /\ \E a \in SUBSET Candidates(m) : accepted' = [accepted EXCEPT ![m] = a]
  /\ at' = [at EXCEPT ![m] = "ready"]
  /\ UNCHANGED <<database, plan, rounds, commits, credit, alone>>

----------------------------------------------------------------------------
(* The statements of the transaction.                                      *)

(* Mutant: halves are rounded up.                                          *)
HalvedUp ==
  LET Half(p) == (bigram[p] + 1) \div 2
  IN  [p \in {q \in DOMAIN bigram : Half(q) > 0} |-> Half(p)]

(* Aging: all counts are halved and the rows that come to nothing deleted. *)
Halved ==
  LET Half(p) == bigram[p] \div 2
  IN  [p \in {q \in DOMAIN bigram : Half(q) > 0} |-> Half(p)]

Merged(b, more) ==
  [p \in DOMAIN b \cup DOMAIN more |->
     (IF p \in DOMAIN b THEN b[p] ELSE 0) + (IF p \in DOMAIN more THEN more[p] ELSE 0)]

(* Mutant: one occurrence is enough.                                       *)
CtxAdmittedAtOnce(m) ==
  {p \in Vocab \X Vocab : CtxRows(p) # {} /\ TextPair(p) \in accepted[m]}

CtxAdmitted(m) ==
  {p \in Vocab \X Vocab :
     Cardinality(CtxRows(p)) >= MinAdmission /\ TextPair(p) \in accepted[m]}

TailAdmitted(m) ==
  {p \in Vocab \X Vocab :
     Cardinality(TailRows(m, p)) >= MinAdmission /\ TextPair(p) \in accepted[m]}

CtxCounts(m) == [p \in CtxAdmitted(m) |-> Cardinality(CtxRows(p))]
TailCounts(m) == [p \in TailAdmitted(m) |-> Cardinality(TailRows(m, p))]

(* Over the budget the smallest counts go.                                 *)
Evicted(b) ==
  {Restrict(b, kept) : kept \in
     {k \in SUBSET (DOMAIN b) :
        /\ Cardinality(k) = Min({Budget, Cardinality(DOMAIN b)})
        /\ \A p \in k, q \in DOMAIN b \ k : b[q] <= b[p]}}

(* Mutant: the gate is not asked when rows are deleted.                    *)
CtxPurgedUngated(m) ==
  {r \in log : \/ ~HasCtx(Rec(r)) /\ Rec(r).tail = "none"
               \/ Cardinality(CtxRows(CtxPair(Rec(r)))) >= MinAdmission}

(* Rows the ctx path merged, and rows that show nothing.                   *)
CtxPurged(m) ==
  {r \in log : \/ ~HasCtx(Rec(r)) /\ Rec(r).tail = "none"
               \/ CtxPair(Rec(r)) \in CtxAdmitted(m)}

(* Mutant: merged rows stay for the next round.                            *)
TailPurgedNone(m) == {}

(* Rows with the rowid of a planned row whose pair, by its texts, merged.  *)
TailPurged(m) ==
  {r \in log : \E q \in plan[m] :
     /\ q.rowid = r.rowid
     /\ HasTail(Rec(q))
     /\ \E p \in TailAdmitted(m) : TextPair(TailPair(Rec(q))) = TextPair(p)}

Credited(m) ==
  [i \in DOMAIN credit |->
     [ctx |-> credit[i].ctx +
        IF \E r \in log : r.id = i /\ CtxPair(Rec(r)) \in CtxAdmitted(m) THEN 1 ELSE 0,
      tail |-> credit[i].tail +
        IF \E r \in plan[m] : r.id = i /\ HasTail(Rec(r))
                              /\ TailPair(Rec(r)) \in TailAdmitted(m) THEN 1 ELSE 0]]

(* BEGIN IMMEDIATE ... COMMIT: the budget is looked at between the paths.  *)
Transact(m) ==
  /\ at[m] = "ready"
  /\ \E kept \in Evicted(Merged(Halved, CtxCounts(m))) :
       bigram' = Merged(kept, TailCounts(m))
  /\ log' = log \ (CtxPurged(m) \cup TailPurged(m))
  /\ credit' = Credited(m)
  /\ at' = [at EXCEPT ![m] = "committed"]
  /\ UNCHANGED <<phrases, generation, plan, accepted, rounds, commits, alone>>

----------------------------------------------------------------------------
(* mine_phrases, row by row: the gate may refuse a pair, and a write that  *)
(* fails ends it early.                                                    *)
Frequent == {p \in DOMAIN bigram : bigram[p] >= PhraseAdmission}

LearnPhrases(m) ==
  /\ at[m] = "committed"
  /\ \E learned \in SUBSET Frequent : phrases' = phrases \cup learned
  /\ at' = [at EXCEPT ![m] = "learned"]
  /\ UNCHANGED <<log, bigram, generation, plan, accepted, rounds, commits, credit, alone>>

Finished(m) ==
  /\ at' = [at EXCEPT ![m] = "idle"]
  /\ plan' = [plan EXCEPT ![m] = {}]
  /\ accepted' = [accepted EXCEPT ![m] = {}]

Bump(m) ==
  /\ at[m] = "learned"
  /\ generation' = generation + 1
  /\ Finished(m)
  /\ UNCHANGED <<log, bigram, phrases, rounds, commits, credit, alone>>

(* The process ends early, or a statement fails: an open transaction is    *)
(* rolled back with its connection.                                        *)
Fail(m) ==
  /\ at[m] # "idle"
  /\ Finished(m)
  /\ UNCHANGED <<database, rounds, commits, credit, alone>>

----------------------------------------------------------------------------
Init ==
  /\ log = {} /\ bigram = <<>> /\ phrases = {} /\ generation = 0
  /\ at = [m \in Miners |-> "idle"]
  /\ plan = [m \in Miners |-> {}]
  /\ accepted = [m \in Miners |-> {}]
  /\ rounds = 0
  /\ commits = <<>> /\ credit = <<>> /\ alone = TRUE

Next ==
  \/ \E c \in Records : WriteLog(c)
  \/ \E m \in Miners :
       Start(m) \/ Gate(m) \/ Transact(m) \/ LearnPhrases(m) \/ Bump(m) \/ Fail(m)

Spec == Init /\ [][Next]_vars
----------------------------------------------------------------------------
Stages == {"idle", "planned", "ready", "committed", "learned"}
Rows == [rowid : Nat \ {0}, id : DOMAIN commits]
Pairs == Vocab \X Vocab
CountsOver(S) == [S -> Nat \ {0}]

TypeOK ==
  /\ commits \in Seq(Records)
  /\ log \subseteq Rows
  /\ \A r, q \in log : r.rowid = q.rowid => r = q
  /\ DOMAIN bigram \subseteq Pairs /\ bigram \in CountsOver(DOMAIN bigram)
  /\ phrases \subseteq Pairs
  /\ generation \in Nat /\ rounds \in Nat /\ alone \in BOOLEAN
  /\ at \in [Miners -> Stages]
  /\ plan \in [Miners -> SUBSET Rows]
  /\ accepted \in [Miners -> SUBSET TextPairs]
  /\ credit \in [DOMAIN commits -> [ctx : Nat, tail : Nat]]

(* The commits that showed pair p, and what was counted of them.           *)
Shows(c, p) == (HasCtx(c) /\ CtxPair(c) = p) \/ (HasTail(c) /\ TailPair(c) = p)
Showed(p) == {i \in DOMAIN commits : Shows(commits[i], p)}

CreditOf(p, cr) ==
  MapThenSumSet(LAMBDA i :
      (IF CtxPair(commits[i]) = p THEN cr[i].ctx ELSE 0) +
      (IF HasTail(commits[i]) /\ TailPair(commits[i]) = p THEN cr[i].tail ELSE 0),
    DOMAIN cr)

(* "A word mistyped once never gets in": a pair is admitted only when at   *)
(* least MinAdmission different commits showed it, however rows come and   *)
(* go between the plan, the gate and the transaction.                      *)
TypoStaysOut ==
  \A p \in DOMAIN bigram : Cardinality(Showed(p)) >= MinAdmission

(* No commit is counted twice on the same path, in one round or several:   *)
(* what was merged has left the log. Two minings at once break it.         *)
CountedOnce ==
  alone => \A i \in DOMAIN credit : credit[i].ctx <= 1 /\ credit[i].tail <= 1

(* Rows are deleted by the texts of a merged pair: a row of another reading *)
(* of its second word goes with those that were counted.                   *)
TakenAlong(i) ==
  HasTail(commits[i]) /\ \E j \in DOMAIN commits :
    /\ HasTail(commits[j]) /\ credit[j].tail > 0 /\ commits[j].text # commits[i].text
    /\ TextPair(TailPair(commits[j])) = TextPair(TailPair(commits[i]))

(* No other evidence is lost: a commit that shows a pair is in the log     *)
(* until it has been counted, through refusals of the gate, failures and   *)
(* aborts, as long as no two minings overlap.                              *)
NothingLost ==
  alone => \A i \in DOMAIN commits :
    HasCtx(commits[i]) \/ commits[i].tail # "none" =>
      \/ \E r \in log : r.id = i
      \/ credit[i].ctx + credit[i].tail > 0
      \/ TakenAlong(i)

(* Forgetting: whenever the table is rewritten, a pair keeps or raises its *)
(* count only by new evidence.                                             *)
UnusedFades ==
  [][bigram' # bigram =>
       \A p \in DOMAIN bigram' :
         p \in DOMAIN bigram /\ CreditOf(p, credit') = CreditOf(p, credit)
           => bigram'[p] < bigram[p]]_vars
=============================================================================

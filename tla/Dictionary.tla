----------------------------- MODULE Dictionary -----------------------------
(***************************************************************************)
(* Words and their two homes. Dict answers every lookup either from sorted *)
(* vectors it loaded out of SQLite (index, abbrev_index) or, when a        *)
(* dict.bin lies beside the database, from that file (FstStore, written by *)
(* builder::build) merged with the user's words (user_overlay). Here two   *)
(* dictionaries go through the same history over the same rows, one with   *)
(* the file and one without, so that their answers can be compared.        *)
(*                                                                         *)
(* A key is a reading with its syllables joined: a sequence over 0, the    *)
(* quote, and the letters 1, 2, ..., so the order of strings is the order  *)
(* of sequences. A text is a number. Abstracted: the bytes of dict.bin,    *)
(* its offsets and their validation (a file that does not validate is no   *)
(* file); days, so a use counts the same later on; the context boost of    *)
(* set_lm_context, which is 0; upper case. The writer thread is in         *)
(* Learning: here a word is learned and stored in one step (Dict::learn).  *)
(***************************************************************************)
EXTENDS Integers, FiniteSets, SequencesExt

CONSTANTS
  Sources,     \* what the first import may bring: sets of source lines
  Later,       \* lines a later import may bring
  Learnable,   \* [pinyin, text] of the words that may be chosen
  Boost,       \* USER_BOOST
  TopK,        \* entries of a bucket of the hot table (TOPK)
  Queries,     \* readings that are looked up, finished or still being typed
  Initials,    \* abbreviations that are looked up
  Limits,      \* lengths the lists may have
  MaxLearns,   \* bound: words chosen
  MaxImports   \* bound: later imports

Line == [pinyin : Seq(Nat), text : Nat, freq : Nat]

(* No reading begins with a quote: import joins what split_whitespace finds*)
(* in a column of letters and spaces, a choice the syllables of a reading; *)
(* and none is looked up that is empty (lookup_prefix returns at once).    *)
ASSUME DictionaryAssumption ==
  /\ \A s \in Sources :
       /\ s \subseteq Line /\ IsFiniteSet(s)
       /\ \A l, m \in s : l.pinyin = m.pinyin /\ l.text = m.text => l = m
  /\ Later \subseteq Line /\ Learnable \subseteq [pinyin : Seq(Nat), text : Nat]
  /\ Queries \subseteq Seq(Nat) \ {<<>>} /\ Initials \subseteq Seq(Nat) /\ Limits \subseteq Nat \ {0}
  /\ \A w \in (UNION Sources) \cup Later \cup Learnable : ~IsPrefix(<< 0 >>, w.pinyin)
  /\ Boost \in Nat /\ TopK \in Nat \ {0} /\ MaxLearns \in Nat /\ MaxImports \in Nat

VARIABLES
  phrase,      \* the table: a set of [pinyin, text, freq, user]
  stats,       \* user_stats and kime_kv: uses of each [pinyin, text]
  \* without dict.bin
  index,       \* by (pinyin, rank)
  abbrevIndex, \* by (abbrev, rank)
  userPinyins, \* readings that had been used when the dictionary was opened
  \* with dict.bin
  bin,         \* the file
  overlay,     \* the user's words, by pinyin
  imports      \* later imports made

vars == <<phrase, stats, index, abbrevIndex, userPinyins, bin, overlay, imports>>

----------------------------------------------------------------------------
(* Orders and sorting. Filter and sort go by positions: what SelectSeq and *)
(* SortSeq compute, in a form that can be proved about. A sort that the    *)
(* code does with sort_by is stable.                                       *)

(* The members of a set, given those before each.                          *)
Ordering(S, before) ==
  [i \in 1..Cardinality(S) |-> CHOOSE x \in S : Cardinality(before[x]) = i - 1]

InOrder(S, Less(_, _)) == Ordering(S, [x \in S |-> {y \in S : Less(y, x)}])

(* A list at some of its positions.                                        *)
Picks(s, P) ==
  LET at == InOrder(P, <)
  IN  [n \in DOMAIN at |-> s[at[n]]]

Kept(s, Test(_)) == Picks(s, {i \in DOMAIN s : Test(s[i])})

Sorted(s, Less(_, _)) ==
  LET Earlier(i, j) == Less(s[i], s[j]) \/ (~Less(s[j], s[i]) /\ i < j)
      at == Ordering(DOMAIN s, [j \in DOMAIN s |-> {i \in DOMAIN s : Earlier(i, j)}])
  IN  [n \in DOMAIN at |-> s[at[n]]]

Take(s, n) == SubSeq(s, 1, IF n < Len(s) THEN n ELSE Len(s))

----------------------------------------------------------------------------
(* Strings.                                                                *)

Before(s, t) ==
  \E i \in 1..Len(t) :
    /\ \A k \in 1..(i - 1) : k <= Len(s) /\ s[k] = t[k]
    /\ i > Len(s) \/ s[i] < t[i]

(* The first string behind all those that begin with s.                    *)
IncrementPrefix(s) == [s EXCEPT ![Len(s)] = @ + 1]

(* The first segment of a key: its first syllable.                         *)
FirstSegment(key) ==
  LET ends == {i \in 0..Len(key) : i = Len(key) \/ key[i + 1] = 0}
  IN  SubSeq(key, 1, CHOOSE i \in ends : \A j \in ends : i <= j)

(* The first letter of every syllable.                                     *)
AbbrevOf(key) ==
  Picks(key, {i \in 1..Len(key) : key[i] # 0 /\ (i = 1 \/ key[i - 1] = 0)})

----------------------------------------------------------------------------
(* The orders of words.                                                    *)

ByFreq(a, b) == a.freq > b.freq \/ (a.freq = b.freq /\ a.text < b.text)

(* cand_cmp.                                                               *)
ByRank(a, b) == a.eff > b.eff \/ (a.eff = b.eff /\ a.text < b.text)

(* entry_cmp.                                                              *)
ByPinyinRank(a, b) ==
  Before(a.pinyin, b.pinyin) \/ (a.pinyin = b.pinyin /\ ByRank(a, b))

(* ORDER BY pinyin ASC, freq DESC, text ASC.                               *)
ByPinyinFreq(a, b) ==
  Before(a.pinyin, b.pinyin) \/ (a.pinyin = b.pinyin /\ ByFreq(a, b))

ByAbbrevRank(a, b) ==
  \/ Before(AbbrevOf(a.pinyin), AbbrevOf(b.pinyin))
  \/ AbbrevOf(a.pinyin) = AbbrevOf(b.pinyin) /\ ByRank(a, b)

Candidate(e) == [text |-> e.text, pinyin |-> e.pinyin, freq |-> e.freq, eff |-> e.eff]
Candidates(entries) == [i \in DOMAIN entries |-> Candidate(entries[i])]

Texts(list) == {list[i].text : i \in DOMAIN list}

----------------------------------------------------------------------------
(* Rows, uses and ranks.                                                   *)

Word(e) == [pinyin |-> e.pinyin, text |-> e.text]

(* user_bonus_of, on the day of the use.                                   *)
UserBonus(uses, w) == IF w \in DOMAIN uses THEN uses[w] * Boost ELSE 0

Entry(row, uses) ==
  [pinyin |-> row.pinyin, text |-> row.text, freq |-> row.freq, user |-> row.user,
   eff |-> row.freq + IF row.user THEN UserBonus(uses, Word(row)) ELSE 0]

Entries(rows, uses) ==
  InOrder({Entry(r, uses) : r \in rows}, ByPinyinFreq)

(* load_user_overlay.                                                      *)
OverlayOf(rows, uses) == Entries({r \in rows : r.user}, uses)

----------------------------------------------------------------------------
(* The file: what the builder writes.                                      *)

(* The keys in order, the block of each, the hot table (the best TopK of   *)
(* every prefix of a first syllable) and the abbreviations in order.       *)
Built(rows) ==
  LET keys == InOrder({r.pinyin : r \in rows}, Before)
      blocks == [i \in DOMAIN keys |->
                   InOrder({[text |-> r.text, freq |-> r.freq] :
                                   r \in {x \in rows : x.pinyin = keys[i]}}, ByFreq)]
      prefixes == UNION {{SubSeq(FirstSegment(k), 1, n) : n \in 1..Len(FirstSegment(k))} :
                           k \in {r.pinyin : r \in rows}}
      Under(p) == UNION {{[text |-> b.text, freq |-> b.freq, key |-> i] : b \in ToSet(blocks[i])} :
                           i \in {j \in DOMAIN keys : IsPrefix(p, FirstSegment(keys[j]))}}
      ByFreqKey(a, b) == ByFreq(a, b) \/ (a.freq = b.freq /\ a.text = b.text /\ a.key < b.key)
      ByAbbrev(i, j) ==
        LET a == AbbrevOf(keys[i])
            b == AbbrevOf(keys[j])
        IN  Before(a, b) \/ (a = b /\ i < j)
  IN  [keys |-> keys, blocks |-> blocks,
       topk |-> [p \in prefixes |-> Take(InOrder(Under(p), ByFreqKey), TopK)],
       abbrevs |-> InOrder(DOMAIN keys, ByAbbrev)]

----------------------------------------------------------------------------
(* FstStore.                                                               *)

Stored(key, b) == [text |-> b.text, pinyin |-> key, freq |-> b.freq, eff |-> b.freq]

(* decode_block: the first entries of the block of a key.                  *)
DecodeBlock(i, limit) ==
  [n \in DOMAIN Take(bin.blocks[i], limit) |-> Stored(bin.keys[i], bin.blocks[i][n])]

(* lookup_exact.                                                           *)
StoreExact(key, limit) ==
  IF \E i \in DOMAIN bin.keys : bin.keys[i] = key
  THEN DecodeBlock(CHOOSE i \in DOMAIN bin.keys : bin.keys[i] = key, limit)
  ELSE <<>>

(* Mutant: a block is passed over by its length and not by its best entry. *)
CollectBlockAny(top, i, limit) ==
  IF Len(top) = limit THEN top ELSE Take(top \o DecodeBlock(i, limit), limit)

(* collect_block: a heap that keeps the best so far, here as a sorted list.*)
(* A block whose best entry does not beat the worst one kept is passed over*)
(* and its walk ends at the first entry that does not.                     *)
CollectBlock(top, i, limit) ==
  LET Full(t) == Len(t) = limit
      Beats(c, t) == ~Full(t) \/ ByFreq(c, t[limit])
      Push(t, c) == IF Beats(c, t)
                    THEN Sorted(Append(IF Full(t) THEN Front(t) ELSE t, c), ByFreq)
                    ELSE t
  IN  FoldLeft(Push, top, DecodeBlock(i, limit))

(* scan_range_excluding: the best of all blocks whose key begins with      *)
(* prefix, except that of one key.                                         *)
ScanRange(prefix, limit, exclude) ==
  LET InRange(i) == /\ ~Before(bin.keys[i], prefix)
                    /\ Before(bin.keys[i], IncrementPrefix(prefix))
                    /\ bin.keys[i] # exclude
      Collect(top, i) == CollectBlock(top, i, limit)
  IN  FoldLeft(Collect, <<>>, InOrder({i \in DOMAIN bin.keys : InRange(i)}, <))

(* fetch_topk.                                                             *)
FetchTopK(prefix, limit) ==
  LET bucket == Take(bin.topk[prefix], limit)
  IN  [n \in DOMAIN bucket |-> Stored(bin.keys[bucket[n].key], bucket[n])]

(* The second layer of lookup_prefix_layers. A finished syllable goes on   *)
(* only behind a quote; one still being typed goes on in any way, and while*)
(* it is the first one the hot table knows the answer.                     *)
StoreCompletions(key, open, limit) ==
  LET Other(c) == c.pinyin # key
  IN  IF ~open THEN ScanRange(key \o <<0>>, limit, <<>>)
      ELSE IF 0 \notin ToSet(key) /\ limit <= TopK
           THEN IF key \in DOMAIN bin.topk
                THEN Take(Kept(FetchTopK(key, TopK), Other), limit)
                ELSE ScanRange(key, limit, <<>>)
           ELSE ScanRange(key, limit, key)

(* lookup_abbrev of the store: one letter is a bucket of the hot table.    *)
StoreAbbrev(initials, limit) ==
  IF Len(initials) = 1 /\ limit <= TopK /\ initials \in DOMAIN bin.topk
  THEN FetchTopK(initials, limit)
  ELSE LET Fits(i) == IsPrefix(initials, AbbrevOf(bin.keys[i]))
           Collect(top, i) == CollectBlock(top, i, limit)
       IN  FoldLeft(Collect, <<>>, Kept(bin.abbrevs, Fits))

----------------------------------------------------------------------------
(* Dict over dict.bin.                                                     *)

OverlayExact(key) ==
  LET Same(e) == e.pinyin = key
  IN  Candidates(Kept(overlay, Same))

(* overlay_comps: the two ways of going on, as in the store.               *)
OverlayCompletions(key, open) ==
  LET prefix == IF open THEN key ELSE key \o <<0>>
      GoesOn(e) == /\ ~Before(e.pinyin, prefix)
                   /\ Before(e.pinyin, IncrementPrefix(prefix))
                   /\ e.pinyin # key
  IN  Candidates(Kept(overlay, GoesOn))

(* merge_overlay: one entry for each text, the user's before the base's;   *)
(* without a word of the user the base stays as it is.                     *)
MergeOverlay(base, user, limit) ==
  LET FirstOf(t) == CHOOSE i \in DOMAIN base :
                      base[i].text = t /\ \A j \in 1..(i - 1) : base[j].text # t
      LastOf(t) == CHOOSE i \in DOMAIN user :
                     user[i].text = t /\ \A j \in (i + 1)..Len(user) : user[j].text # t
      merged == {user[LastOf(t)] : t \in Texts(user)}
                \cup {base[FirstOf(t)] : t \in Texts(base) \ Texts(user)}
  IN  IF user = <<>> THEN Take(base, limit) ELSE Take(InOrder(merged, ByRank), limit)

(* Mutant: the first layer may take the whole list.                        *)
CapWhole(open, limit) == limit

(* Room for the first layer: half of the list while a syllable is open.    *)
Cap(open, limit) == IF open THEN (limit + 1) \div 2 ELSE limit

Without(list, texts) ==
  LET New(c) == c.text \notin texts
  IN  Kept(list, New)

(* lookup over the file.                                                   *)
FstLookup(key, limit) == MergeOverlay(StoreExact(key, limit), OverlayExact(key), limit)

(* An entry takes the frequency of the last of the user's words that has   *)
(* its text.                                                               *)
RaisedBy(list, own) ==
  LET Of(t) == {i \in DOMAIN own : own[i].text = t}
      Raised(c, at) == IF at = {} THEN c ELSE [c EXCEPT !.freq = own[Max(at)].freq]
  IN  [i \in DOMAIN list |-> Raised(list[i], Of(list[i].text))]

(* Mutant: what the first layer shows is not taken out of the second.      *)
FstLookupPrefixTwice(key, open, limit) ==
  LET Layers(layer1) ==
        layer1 \o MergeOverlay(StoreCompletions(key, open, limit),
                               OverlayCompletions(key, open), limit - Len(layer1))
  IN  Layers(MergeOverlay(StoreExact(key, limit), OverlayExact(key), Cap(open, limit)))

(* lookup_prefix over the file. A completion of the user whose text is in  *)
(* the first layer gives that entry its frequency and goes.                *)
FstLookupPrefix(key, open, limit) ==
  LET exact == StoreExact(key, limit)
      comps == OverlayCompletions(key, open)
      Layers(layer1) ==
        layer1 \o MergeOverlay(Without(StoreCompletions(key, open, limit), Texts(layer1)),
                               Without(comps, Texts(exact) \cup Texts(layer1)),
                               limit - Len(layer1))
  IN  Layers(MergeOverlay(Sorted(RaisedBy(exact, comps), ByRank), OverlayExact(key),
                          Cap(open, limit)))

OverlayAbbrev(initials) ==
  LET Fits(e) == IsPrefix(initials, AbbrevOf(e.pinyin))
  IN  Candidates(Kept(overlay, Fits))

FstLookupAbbrev(initials, limit) ==
  MergeOverlay(StoreAbbrev(initials, limit), OverlayAbbrev(initials), limit)

FstTopUser(limit) == Take(Sorted(Candidates(overlay), ByFreq), limit)

----------------------------------------------------------------------------
(* Dict over its own vectors. The vectors are parameters, so that the same *)
(* lookup can be asked of what an open would load.                         *)

Block(ix, key) ==
  LET Same(e) == e.pinyin = key
  IN  Candidates(Kept(ix, Same))

IndexLookup(ix, key, limit) == Take(Sorted(Block(ix, key), ByRank), limit)

(* lookup_prefix without the file. The block of a reading used before the  *)
(* dictionary was opened is sorted by rank here, since the index is loaded *)
(* by frequency.                                                           *)
IndexLookupPrefix(ix, used, key, open, limit) ==
  LET prefix == IF open THEN key ELSE key \o <<0>>
      GoesOn(e) == /\ ~Before(e.pinyin, prefix)
                   /\ Before(e.pinyin, IncrementPrefix(prefix))
                   /\ e.pinyin # key
      Own(e) == e.user
      InOrderOfRank(raised, shown) == IF raised = shown THEN shown ELSE Sorted(raised, ByRank)
      Layers(layer1, range) ==
        layer1 \o Take(Sorted(Without(Candidates(range), Texts(layer1)), ByRank),
                       limit - Len(layer1))
      Shown(shown, range) ==
        Layers(InOrderOfRank(RaisedBy(shown, Kept(range, Own)), shown), range)
      Used(block) == IF key \in used THEN Sorted(block, ByRank) ELSE block
  IN  Shown(Take(Used(Block(ix, key)), Cap(open, limit)), Kept(ix, GoesOn))

IndexLookupAbbrev(ax, initials, limit) ==
  LET Fits(e) == IsPrefix(initials, AbbrevOf(e.pinyin))
  IN  Take(Sorted(Candidates(Kept(ax, Fits)), ByRank), limit)

IndexTopUser(ix, limit) ==
  LET Own(e) == e.user
  IN  Take(Sorted(Candidates(Kept(ix, Own)), ByFreq), limit)

----------------------------------------------------------------------------
(* Operations.                                                             *)

Loaded(rows, uses) ==
  /\ index' = Entries(rows, uses)
  /\ abbrevIndex' = Sorted(Entries(rows, uses), ByAbbrevRank)

(* Dict::open of both.                                                     *)
Opened(rows, uses) ==
  /\ Loaded(rows, uses)
  /\ userPinyins' = {w.pinyin : w \in DOMAIN uses}
  /\ overlay' = OverlayOf(rows, uses)

Reopen ==
  /\ Opened(phrase, stats)
  /\ UNCHANGED <<phrase, stats, bin, imports>>

(* `kime build-dict`; the file is mapped by the next open.                 *)
Build ==
  /\ bin' = Built(phrase)
  /\ Opened(phrase, stats)
  /\ UNCHANGED <<phrase, stats, imports>>

(* The UPSERT of import: a row of the user is left alone, and a frequency  *)
(* only grows.                                                             *)
Upserted(rows, line) ==
  LET same == {r \in rows : Word(r) = Word(line)}
      new == [pinyin |-> line.pinyin, text |-> line.text, freq |-> line.freq, user |-> FALSE]
  IN  IF \E r \in same : r.user \/ r.freq >= line.freq THEN rows ELSE (rows \ same) \cup {new}

(* Whoever imports does so on a dictionary just opened, whose vectors are  *)
(* then loaded again; the file and the overlay stay what they were.        *)
Import ==
  /\ imports < MaxImports
  /\ \E line \in Later : phrase' = Upserted(phrase, line)
  /\ imports' = imports + 1
  /\ Opened(phrase', stats)
  /\ UNCHANGED <<stats, bin>>

(* persist_learn.                                                          *)
Persisted(w) ==
  LET same == {r \in phrase : Word(r) = w}
      freq == IF same = {} THEN 0 ELSE (CHOOSE r \in same : TRUE).freq
  IN  (phrase \ same)
        \cup {[pinyin |-> w.pinyin, text |-> w.text, freq |-> freq + 1, user |-> TRUE]}

(* Position of the first entry that is not before the new one              *)
(* (partition_point).                                                      *)
InsertOverlay(e) ==
  InsertAt(overlay, Cardinality({i \in DOMAIN overlay : Before(overlay[i].pinyin, e.pinyin)}) + 1, e)

(* learn_mem over the file: the rank of an entry that is there already is  *)
(* not computed again.                                                     *)
LearnOverlay(w, uses) ==
  IF \E i \in DOMAIN overlay : Word(overlay[i]) = w
  THEN overlay' = [i \in DOMAIN overlay |->
                     IF Word(overlay[i]) = w THEN [overlay[i] EXCEPT !.freq = @ + 1]
                     ELSE overlay[i]]
  ELSE overlay' = InsertOverlay(Entry(CHOOSE r \in Persisted(w) : Word(r) = w, uses))

(* Mutant: the block of the reading stays in the order it had.             *)
LearnIndexUnsorted(w, uses) ==
  LET new == Entry(CHOOSE r \in Persisted(w) : Word(r) = w, uses)
      Raised(ix) == [i \in DOMAIN ix |-> IF Word(ix[i]) = w THEN new ELSE ix[i]]
      At(ix, Less(_, _)) == Cardinality({i \in DOMAIN ix : Less(ix[i].pinyin, w.pinyin)}) + 1
      ShorterAbbrev(a, b) == Before(AbbrevOf(a), AbbrevOf(b))
  IN  IF \E i \in DOMAIN index : Word(index[i]) = w
      THEN index' = Raised(index) /\ abbrevIndex' = Raised(abbrevIndex)
      ELSE /\ index' = InsertAt(index, At(index, Before), new)
           /\ abbrevIndex' = InsertAt(abbrevIndex, At(abbrevIndex, ShorterAbbrev), new)

(* learn_mem without it: the entry is raised in both vectors, or a new one *)
(* goes to the front of its block; then the block is sorted.               *)
LearnIndex(w, uses) ==
  LET new == Entry(CHOOSE r \in Persisted(w) : Word(r) = w, uses)
      Raised(ix) == [i \in DOMAIN ix |-> IF Word(ix[i]) = w THEN new ELSE ix[i]]
      At(ix, Less(_, _)) == Cardinality({i \in DOMAIN ix : Less(ix[i].pinyin, w.pinyin)}) + 1
      ShorterAbbrev(a, b) == Before(AbbrevOf(a), AbbrevOf(b))
      SortBlock(ix) ==
        LET InBlock(a) == a.pinyin = w.pinyin
            Outside(a) == ~InBlock(a)
            lo == Cardinality({i \in DOMAIN ix : Before(ix[i].pinyin, w.pinyin)})
            others == Kept(ix, Outside)
        IN  SubSeq(others, 1, lo) \o Sorted(Kept(ix, InBlock), ByPinyinRank)
              \o SubSeq(others, lo + 1, Len(others))
  IN  IF \E i \in DOMAIN index : Word(index[i]) = w
      THEN index' = SortBlock(Raised(index)) /\ abbrevIndex' = Raised(abbrevIndex)
      ELSE /\ index' = SortBlock(InsertAt(index, At(index, Before), new))
           /\ abbrevIndex' = InsertAt(abbrevIndex, At(abbrevIndex, ShorterAbbrev), new)

Uses(w) == IF w \in DOMAIN stats THEN stats[w] ELSE 0

SumOfUses == MapThenSumSet(LAMBDA w : stats[w], DOMAIN stats)

Learn(w) ==
  /\ SumOfUses < MaxLearns
  /\ stats' = [x \in DOMAIN stats \cup {w} |-> IF x = w THEN Uses(w) + 1 ELSE stats[x]]
  /\ LearnOverlay(w, stats')
  /\ LearnIndex(w, stats')
  /\ phrase' = Persisted(w)
  /\ UNCHANGED <<userPinyins, bin, imports>>

Init ==
  \E source \in Sources :
    /\ phrase = {[pinyin |-> l.pinyin, text |-> l.text, freq |-> l.freq, user |-> FALSE] :
                   l \in source}
    /\ stats = [w \in {} |-> 0]
    /\ index = Entries(phrase, stats)
    /\ abbrevIndex = Sorted(index, ByAbbrevRank)
    /\ userPinyins = {} /\ overlay = <<>>
    /\ bin = Built(phrase)
    /\ imports = 0

Next ==
  \/ \E w \in Learnable : Learn(w)
  \/ Import \/ Build \/ Reopen

Spec == Init /\ [][Next]_vars

----------------------------------------------------------------------------
TextsInOrder(list) == [i \in DOMAIN list |-> list[i].text]

(* The file was built after the last import: it holds the dictionary's own *)
(* rows as they are.                                                       *)
Current ==
  \A r \in phrase : ~r.user =>
    \E i \in DOMAIN bin.keys :
      bin.keys[i] = r.pinyin /\ [text |-> r.text, freq |-> r.freq] \in ToSet(bin.blocks[i])

(* No word of the user was used again since the dictionary was opened:     *)
(* over the file its rank would be the one of its first use.               *)
RanksCurrent ==
  \A i \in DOMAIN overlay :
    \A r \in phrase : Word(r) = Word(overlay[i]) => overlay[i].eff = Entry(r, stats).eff

(* The bucket of a first syllable was not filled by the syllable itself.   *)
Deep(key, limit) ==
  LET Other(e) == bin.keys[e.key] # key
  IN  key \in DOMAIN bin.topk =>
        \/ Len(bin.topk[key]) < TopK
        \/ Len(Kept(bin.topk[key], Other)) >= limit
        \/ limit > TopK

(* No text has two of the readings.                                        *)
Unambiguous(readings) ==
  \A r1, r2 \in {r \in phrase : r.pinyin \in readings} : r1.text = r2.text => r1 = r2

Behind(key) == {r.pinyin : r \in {x \in phrase : IsPrefix(key, x.pinyin)}} \ {key}

(* The user chose no text of a reading under a longer one. Over the file   *)
(* such a word leaves the second layer even if it does not get into the    *)
(* first.                                                                  *)
ChosenHere(key) ==
  \A r, longer \in phrase :
    r.pinyin = key /\ longer.pinyin \in Behind(key) /\ longer.user => r.text # longer.text

Abbreviated(initials) ==
  {r.pinyin : r \in {x \in phrase : IsPrefix(initials, AbbrevOf(x.pinyin))}}

(* dict.rs, lookup_prefix: "the FST path and the path over the SQLite index*)
(* must mean the same". Over every history of uses, imports, builds and    *)
(* openings the two give the same texts in the same order, as long as the  *)
(* file is current, no word was used again since the opening, no text      *)
(* stands under two of the readings asked for and the user chose none of   *)
(* the first layer under a reading of the second: the file's heap with its *)
(* pruning and its hot table, merged with the overlay, come to what sorting*)
(* all rows gives.                                                         *)
SameAnswers ==
  Current /\ RanksCurrent =>
    \A n \in Limits :
      /\ \A key \in Queries :
           /\ TextsInOrder(FstLookup(key, n)) = TextsInOrder(IndexLookup(index, key, n))
           /\ Unambiguous(Behind(key)) /\ ChosenHere(key) =>
                \A open \in BOOLEAN : (open => Deep(key, n)) =>
                  TextsInOrder(FstLookupPrefix(key, open, n))
                    = TextsInOrder(IndexLookupPrefix(index, userPinyins, key, open, n))
      /\ \A initials \in Initials : Unambiguous(Abbreviated(initials)) =>
           TextsInOrder(FstLookupAbbrev(initials, n))
             = TextsInOrder(IndexLookupAbbrev(abbrevIndex, initials, n))
      /\ TextsInOrder(FstTopUser(n)) = TextsInOrder(IndexTopUser(index, n))

(* engine.rs, learn_or_warn: a use raises a word "at once". Whatever was   *)
(* chosen, the vectors kept in memory give the answers that those of a     *)
(* dictionary opened now would give, though they were sorted in another    *)
(* way: each block at its last use here, by frequency there.               *)
ReopenChangesNothing ==
  LET opened == Entries(phrase, stats)
      used == {w.pinyin : w \in DOMAIN stats}
      byAbbrev == Sorted(opened, ByAbbrevRank)
  IN  \A n \in Limits :
        /\ \A key \in Queries :
             /\ IndexLookup(index, key, n) = IndexLookup(opened, key, n)
             /\ \A open \in BOOLEAN :
                  IndexLookupPrefix(index, userPinyins, key, open, n)
                    = IndexLookupPrefix(opened, used, key, open, n)
        /\ \A initials \in Initials :
             TextsInOrder(IndexLookupAbbrev(abbrevIndex, initials, n))
               = TextsInOrder(IndexLookupAbbrev(byAbbrev, initials, n))

(* The words of the reading, then those that go on from it; none of the    *)
(* first texts again among the second, whatever readings the user chose    *)
(* them under.                                                             *)
InLayers(key, list) ==
  \E m \in 0..Len(list) :
    /\ \A i \in 1..m : list[i].pinyin = key
    /\ \A i \in (m + 1)..Len(list) :
         /\ list[i].pinyin # key /\ IsPrefix(key, list[i].pinyin)
         /\ \A j \in 1..m : list[i].text # list[j].text

LayersApart ==
  \A key \in Queries, open \in BOOLEAN, n \in Limits :
    /\ InLayers(key, FstLookupPrefix(key, open, n))
    /\ InLayers(key, IndexLookupPrefix(index, userPinyins, key, open, n))

(* dict.rs, lookup_prefix: "mi must still reach min and ming". While a     *)
(* syllable is being typed half of the list is left to the words that go on*)
(* from it, or all of them are in it. Over the file a word of the user     *)
(* whose text the reading has too may be in neither layer (ChosenHere).    *)
Reaches(key, list, n) ==
  LET shown == {list[i].text : i \in {j \in DOMAIN list : list[j].pinyin = key}}
      further == {r.text : r \in {x \in phrase : x.pinyin \in Behind(key)}} \ shown
  IN  \/ Cardinality(Texts(list) \ shown) >= n \div 2
      \/ further \subseteq Texts(list)

CompletionsReachable ==
  \A key \in Queries, n \in Limits :
    Unambiguous(Behind(key)) =>
      /\ Reaches(key, IndexLookupPrefix(index, userPinyins, key, TRUE, n), n)
      /\ Current /\ Deep(key, n) /\ ChosenHere(key) => Reaches(key, FstLookupPrefix(key, TRUE, n), n)
=============================================================================

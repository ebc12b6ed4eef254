---------------------------- MODULE CandidateList ----------------------------
(***************************************************************************)
(* What the engine offers for the letters typed: segmentation, lookups of  *)
(* every reading (Dictionary), fuzzy and corrected readings, sentences of  *)
(* the word lattice and the fallbacks, put into one list by                *)
(* refresh_candidates, in full pinyin and in a two-key scheme (shuangpin). *)
(* Choosing from the list learns the word, takes its keys off the letters  *)
(* and looks up the rest. Between keys the engine keeps the words of every *)
(* span the lattice asked for (SpanCache).                                 *)
(*                                                                         *)
(* A text is a number whose digits are its characters; Latin and Unknown   *)
(* stand for a Latin letter and for a syllable no word has. Costs are      *)
(* integers. Left out: the cursor, pages and pending words (Composition),  *)
(* AI answers, the preedit, and the frequency shown with a candidate. The  *)
(* dictionary is in its SQLite-index home; an engine over dict.bin, whose  *)
(* lookups Dictionary shows to answer alike where it can, is not modelled. *)
(***************************************************************************)
EXTENDS Dictionary

CONSTANTS
  Keys,           \* letters that can be typed
  Syllables,      \* SYLLABLES
  Pair,           \* the scheme: [two keys -> syllable], where there is one
  Fuzzy,          \* fuzzy_map: pairs of a beginning or end and its double
  Near,           \* NEIGHBORS: the keys around each letter
  English,        \* English words: a list of candidates, the keys as reading
  CandidateLimit, \* candidate_limit
  TriggerMin,     \* CORRECTION_TRIGGER_MIN
  Beam,           \* PATHS_PER_NODE
  LongSpan,       \* MAX_SPAN_SYLLABLES
  SpanCandidates, \* words of a span that is not long
  MaxSpans,       \* MAX_SPAN_CACHE_ENTRIES
  Cost(_),        \* of an edge, by the rank of its word
  UnknownCost,    \* of a placeholder edge
  Score(_, _),    \* sentence_score, of the product of ranks and their number
  Inputs          \* bound: what is typed, letter by letter

ASSUME CandidateListAssumption ==
  /\ Syllables \subseteq Seq(Keys) /\ <<>> \notin Syllables
  /\ \A p \in DOMAIN Pair : p \in Keys \X Keys /\ Pair[p] \in Syllables
  /\ {CandidateLimit, Beam, LongSpan, SpanCandidates, MaxSpans} \subseteq Nat \ {0}
  /\ TriggerMin \in Nat /\ Inputs \subseteq Seq(Keys)

VARIABLES
  scheme,     \* a two-key scheme is configured
  letters,    \* the letters typed and not taken by a word
  candidates, \* the list
  spActive,   \* sp_active: the list takes two keys for each syllable
  spans,      \* SpanCache: the words of a reading
  context     \* the text before the cursor, 0 for none

listVars == <<scheme, letters, candidates, spActive, spans, context>>
allVars == <<vars, listVars>>

Latin == 8
Unknown == 9

Joined(text, more) ==
  LET p == CHOOSE x \in {1, 10, 100, 1000, 10000} : more < x /\ (x = 1 \/ more >= x \div 10)
  IN  text * p + more

Chars(text) == {(text \div p) % 10 : p \in {1, 10, 100, 1000}} \ {0}

(* What of more the list does not have yet goes behind it.                 *)
AppendNew(list, more) ==
  LET First(i) == \A j \in 1..(i - 1) : more[j].text # more[i].text
      New(i) == more[i].text \notin Texts(list) /\ First(i)
      at == SelectSeq([i \in DOMAIN more |-> i], New)
  IN  list \o [n \in DOMAIN at |-> more[at[n]]]

(* The length of the longest beginning all of whose members pass.          *)
Leading(list, Passes(_)) ==
  Cardinality({i \in DOMAIN list : \A j \in 1..i : Passes(list[j])})

(* joined_key: syllables and a tail with quotes between them.              *)
Quoted(all) == FlattenSeq([i \in DOMAIN all |-> IF i = 1 THEN all[i] ELSE <<0>> \o all[i]])
JoinedKey(syllables, tail) == Quoted(IF tail = <<>> THEN syllables ELSE Append(syllables, tail))

SyllableCount(c) == 1 + Cardinality({i \in DOMAIN c.pinyin : c.pinyin[i] = 0})

----------------------------------------------------------------------------
(* Segmentation.                                                           *)

(* segment: every way to cut s into syllables, the longer first syllable   *)
(* first.                                                                  *)
Segment(s) ==
  LET Cuts[pos \in 0..Len(s)] ==
        LET Headed(syllable, rests) == [i \in DOMAIN rests |-> <<syllable>> \o rests[i]]
            With(n) == IF pos + n <= Len(s) /\ SubSeq(s, pos + 1, pos + n) \in Syllables
                       THEN Headed(SubSeq(s, pos + 1, pos + n), Cuts[pos + n]) ELSE <<>>
        IN  IF pos = Len(s) THEN << <<>> >> ELSE FlattenSeq([i \in 1..6 |-> With(7 - i)])
  IN  IF s = <<>> THEN <<>> ELSE Cuts[0]

(* is_fully_segmentable: which beginnings can be reached.                  *)
IsFullySegmentable(s) ==
  LET Reach[i \in 0..Len(s)] ==
        i = 0 \/ \E n \in 1..6 : n <= i /\ Reach[i - n] /\ SubSeq(s, i - n + 1, i) \in Syllables
  IN  s # <<>> /\ Reach[Len(s)]

----------------------------------------------------------------------------
(* Keys near the typed ones.                                               *)

(* fuzzy_expand: the double of the beginning, then that of the end. The    *)
(* order of the pairs is fixed here; fuzzy_map is a HashMap, which has none.*)
FuzzyExpand(s) ==
  LET Begun(from, to) == IF IsPrefix(from, s) /\ ~IsPrefix(to, s)
                        THEN <<to \o SubSeq(s, Len(from) + 1, Len(s))>> ELSE <<>>
      End(from, to) == IF IsSuffix(from, s) /\ ~IsSuffix(to, s)
                       THEN <<SubSeq(s, 1, Len(s) - Len(from)) \o to>> ELSE <<>>
  IN  FlattenSeq([i \in DOMAIN Fuzzy |-> Begun(Fuzzy[i][1], Fuzzy[i][2])
                                            \o End(Fuzzy[i][1], Fuzzy[i][2])])

(* corrected_keys and inserted_keys: a neighbour for a key, two keys       *)
(* swapped, a key put in.                                                  *)
Variants(s) ==
  LET Replaced(i) == [n \in DOMAIN Near[s[i]] |-> [s EXCEPT ![i] = Near[s[i]][n]]]
      Swapped(i) == IF s[i] = s[i + 1] THEN <<>>
                    ELSE <<[s EXCEPT ![i] = s[i + 1], ![i + 1] = s[i]]>>
      Inserted(i) == [k \in 1..Cardinality(Keys) |-> InsertAt(s, i, k)]
  IN  FlattenSeq([i \in 1..Len(s) |-> Replaced(i)])
        \o FlattenSeq([i \in 1..(Len(s) - 1) |-> Swapped(i)])
        \o FlattenSeq([i \in 1..(Len(s) + 1) |-> Inserted(i)])

----------------------------------------------------------------------------
(* The word lattice. A path to a node of the reading is a beginning of a   *)
(* sentence.                                                               *)

SpanLimit(n) == IF n <= LongSpan THEN SpanCandidates ELSE 1

(* context_seed: the commonest word that ends the text before the cursor;  *)
(* here its frequency, 0 for none.                                         *)
ContextSeed(rows, text) ==
  LET Ends(r) == \E p \in {10, 100, 1000, 10000} : r.text = text % p
      freqs == {r.freq : r \in {x \in rows : Ends(x)}}
  IN  IF text = 0 \/ Latin \in Chars(text) \/ freqs = {} THEN 0
      ELSE CHOOSE f \in freqs : \A g \in freqs : g <= f

(* start_path: a seed costs as a word and says nothing.                    *)
StartPath(seed) ==
  [cost |-> IF seed = 0 THEN 0 ELSE Cost(seed), text |-> 0, pinyin |-> <<>>,
   product |-> IF seed = 0 THEN 1 ELSE seed, words |-> IF seed = 0 THEN 0 ELSE 1,
   placeholder |-> FALSE]

Extended(path, text, pinyin, cost, rank) ==
  [cost |-> path.cost + cost, text |-> Joined(path.text, text),
   pinyin |-> IF path.pinyin = <<>> THEN pinyin ELSE path.pinyin \o <<0>> \o pinyin,
   product |-> path.product * rank, words |-> path.words + 1,
   placeholder |-> path.placeholder \/ text = Unknown]

(* insert_path: by cost; the first path with a text stays, dearer or not.  *)
InsertPath(paths, p) ==
  LET at == Cardinality({i \in DOMAIN paths : paths[i].cost < p.cost}) + 1
  IN  IF p.text \in Texts(paths) THEN paths ELSE Take(InsertAt(paths, at, p), Beam)

(* An edge put behind every path to its node: grow_with_words of one word. *)
Grown(paths, prevs, text, pinyin, cost, rank) ==
  FoldLeft(LAMBDA acc, p : InsertPath(acc, Extended(p, text, pinyin, cost, rank)), paths, prevs)

GrownWords(paths, prevs, words) ==
  FoldLeft(LAMBDA acc, w : Grown(acc, prevs, w.text, w.pinyin, Cost(w.eff), w.eff), paths, words)

(* get_or_compute: a full cache is thrown away.                            *)
WithCache(st, key, words) ==
  [st EXCEPT !.cache = IF key \in DOMAIN @ THEN @
                       ELSE IF Cardinality(DOMAIN @) >= MaxSpans THEN key :> words
                       ELSE @ @@ (key :> words)]

(* The words of one span put behind every path to i.                       *)
WithWords(st, i, j, words) ==
  [st EXCEPT !.dp[j] = GrownWords(@, st.dp[i], words), !.hit = @ \/ words # <<>>]

(* span_candidates: from the cache, or asked and remembered.              *)
Span(st, i, j, key, ix) ==
  WithWords(WithCache(st, key, IndexLookup(ix, key, SpanLimit(j - i))), i, j,
            IF key \in DOMAIN st.cache THEN st.cache[key] ELSE IndexLookup(ix, key, SpanLimit(j - i)))

(* grow_with_placeholder.                                                  *)
Spelled(st, i, reading) ==
  IF st.hit THEN st
  ELSE [st EXCEPT !.dp[i + 1] = Grown(@, st.dp[i], Unknown, reading[i + 1], UnknownCost, 1)]

(* extend_node: every word of every span that begins at node i goes behind *)
(* every path to i; where no word begins, a placeholder does.              *)
ExtendNode(state, i, reading, ix) ==
  IF state.dp[i] = <<>> THEN state
  ELSE Spelled(FoldLeft(LAMBDA st, j : Span(st, i, j, Quoted(SubSeq(reading, i + 1, j)), ix),
                        [state EXCEPT !.hit = FALSE], [n \in 1..(Len(reading) - i) |-> i + n]),
               i, reading)

Lattice(reading, seed, ix, cache) ==
  FoldLeft(LAMBDA st, i : ExtendNode(st, i, reading, ix),
           [dp |-> [i \in 0..Len(reading) |-> IF i = 0 THEN <<StartPath(seed)>> ELSE <<>>],
            cache |-> cache, hit |-> FALSE],
           [n \in 1..Len(reading) |-> n - 1])

Sentence(p, score) == [text |-> p.text, pinyin |-> p.pinyin, freq |-> score, eff |-> score]

Scored(paths) == [i \in DOMAIN paths |->
                    Sentence(paths[i], Score(paths[i].product, paths[i].words))]

(* viterbi_sentences_seeded: the paths to the last node, without those     *)
(* that have a placeholder.                                                *)
SentencesOf(lattice, n) ==
  [list |-> Scored(SelectSeq(lattice.dp[n], LAMBDA p : ~p.placeholder)), cache |-> lattice.cache]

Sentences(reading, seed, ix, cache) == SentencesOf(Lattice(reading, seed, ix, cache), Len(reading))

----------------------------------------------------------------------------
(* The list. d holds what a refresh reads: ix, ax, used (Dictionary) and   *)
(* the seed.                                                               *)

(* Dict::lookup_prefix, which joins the key itself.                       *)
LookupKey(d, key, open) ==
  IF key = <<>> THEN <<>> ELSE IndexLookupPrefix(d.ix, d.used, key, open, CandidateLimit)

LookupPrefix(d, syllables, tail) == LookupKey(d, JoinedKey(syllables, tail), tail # <<>>)

(* Mutant: the best sentence is put before everything.                     *)
PlaceSentencesFirst(list, sentences, l1Key, coverageKey) ==
  LET New(c) == c.text \notin Texts(list)
  IN  SelectSeq(sentences, New) \o list

(* place_sentences: behind the words of the reading, before the rest.      *)
PlaceSentences(list, sentences, l1Key, coverageKey) ==
  LET Put(st, s, at) == [list |-> InsertAt(st.list, at + 1, s), cursor |-> at + 1]
      Place(st, s) ==
        IF s.text \in Texts(st.list) THEN st
        ELSE Put(st, s, IF s.pinyin = coverageKey THEN st.cursor ELSE Len(st.list))
  IN  FoldLeft(Place, [list |-> list, cursor |-> Leading(list, LAMBDA c : c.pinyin = l1Key)],
               sentences).list

(* The two lists of merge_first_syllable_candidates in one: an extra word  *)
(* waits for all that rank at least as high.                               *)
Interleaved(list, extra) ==
  LET Put(st, e, n) == [out |-> Append(st.out \o SubSeq(st.main, 1, n), e),
                        main |-> SubSeq(st.main, n + 1, Len(st.main))]
      all == FoldLeft(LAMBDA st, e : Put(st, e, Leading(st.main, LAMBDA c : c.eff >= e.eff)),
                      [out |-> <<>>, main |-> list], extra)
  IN  all.out \o all.main

Merged(list, head, extra) ==
  IF extra = <<>> THEN list
  ELSE Take(SubSeq(list, 1, head) \o Interleaved(SubSeq(list, head + 1, Len(list)), extra),
            CandidateLimit)

Covers(c, full, pending) == c.pinyin = full \/ (pending /\ IsPrefix(full \o <<0>>, c.pinyin))

(* merge_first_syllable_candidates: words of the first syllable among those*)
(* of a long input, by rank, but behind those that cover all of it.        *)
MergeFirstSyllable(d, list, syllables, force, pending) ==
  IF ~force /\ Len(syllables) < 3 THEN list
  ELSE Merged(list, Leading(list, LAMBDA c : Covers(c, Quoted(syllables), pending)),
              Without(LookupPrefix(d, <<syllables[1]>>, <<>>), Texts(list)))

(* Mutant: the first syllable alone is not tried.                          *)
LongestPrefixOfTwo(d, syllables) ==
  LET has == {k \in 2..Len(syllables) : LookupPrefix(d, SubSeq(syllables, 1, k), <<>>) # <<>>}
  IN  IF has = {} THEN <<>> ELSE LookupPrefix(d, SubSeq(syllables, 1, Max(has)), <<>>)

(* longest_prefix_candidates: the words of the longest beginning that has  *)
(* any.                                                                    *)
LongestPrefix(d, syllables) ==
  LET has == {k \in 1..Len(syllables) : LookupPrefix(d, SubSeq(syllables, 1, k), <<>>) # <<>>}
  IN  IF has = {} THEN <<>> ELSE LookupPrefix(d, SubSeq(syllables, 1, Max(has)), <<>>)

(* While the list has room, what each of the readings finds goes behind.   *)
Further(d, list, readings) ==
  FoldLeft(LAMBDA acc, r : IF Len(acc) >= CandidateLimit THEN acc
                           ELSE AppendNew(acc, LookupPrefix(d, r.syllables, r.tail)),
           list, readings)

Reading(syllables, tail) == [syllables |-> syllables, tail |-> tail]
Opened1(seg) == Reading(Front(seg), Last(seg))

Doubled(reading, tail, i, doubles) ==
  [n \in DOMAIN doubles |-> Reading([reading EXCEPT ![i] = doubles[n]], tail)]

(* Every syllable, then the tail, replaced by its doubles.                 *)
FuzzyReadings(reading, tail) ==
  FlattenSeq([i \in DOMAIN reading |-> Doubled(reading, tail, i, FuzzyExpand(reading[i]))])
    \o [n \in DOMAIN FuzzyExpand(tail) |-> Reading(reading, FuzzyExpand(tail)[n])]

FirstCuts(variants) == [n \in DOMAIN variants |-> Segment(variants[n])[1]]
AllOpened(cuts) == [n \in DOMAIN cuts |-> Opened1(cuts[n])]

(* What a key string one slip away can be cut into.                        *)
CorrectedReadings(s, segs) ==
  AllOpened(SelectSeq(FirstCuts(SelectSeq(Variants(s), IsFullySegmentable)),
                      LAMBDA cut : segs = <<>> \/ cut # segs[1]))

(* The cut a lookup starts from: the first one, or that of the longest     *)
(* beginning that can be cut.                                              *)
FirstCut(s, segs) ==
  LET heads == {i \in 1..(Len(s) - 1) : IsFullySegmentable(SubSeq(s, 1, i))}
      At(i) == Reading(Segment(SubSeq(s, 1, i))[1], SubSeq(s, i + 1, Len(s)))
  IN  IF segs # <<>> THEN Opened1(segs[1])
      ELSE IF heads = {} THEN Reading(<<>>, s)
      ELSE At(CHOOSE h \in heads : \A g \in heads : g <= h)

Placed(list, said, l1Key, coverageKey) ==
  [list |-> PlaceSentences(list, said.list, l1Key, coverageKey), cache |-> said.cache]

Joint(st, said) == [list |-> AppendNew(st.list, said.list), cache |-> said.cache]

(* The sentences of all readings: those of the first are placed, those of  *)
(* the others go behind.                                                   *)
WithSentences(d, list, cache, readings, l1Key) ==
  IF readings = <<>> THEN [list |-> list, cache |-> cache]
  ELSE FoldLeft(LAMBDA st, r : Joint(st, Sentences(r, d.seed, d.ix, st.cache)),
                Placed(list, Sentences(readings[1], d.seed, d.ix, cache), l1Key,
                       Quoted(readings[1])),
                Tail(readings))

(* The words of the first cut and its doubles.                             *)
Direct(d, first) ==
  Take(Further(d, LookupPrefix(d, first.syllables, first.tail),
               FuzzyReadings(first.syllables, first.tail)), CandidateLimit)

(* Those of the other cuts.                                                *)
WithCuts(d, list, segs) ==
  FoldLeft(LAMBDA acc, seg : AppendNew(acc, LookupPrefix(d, Front(seg), Last(seg))),
           list, IF segs = <<>> THEN <<>> ELSE Tail(segs))

(* When these are few, those of corrected keys.                            *)
WithCorrected(d, list, s, segs) ==
  IF Len(list) < TriggerMin THEN Further(d, list, CorrectedReadings(s, segs)) ELSE list

(* When there is none, the keys are taken for an abbreviation.             *)
OrAbbrev(d, list, s) == IF list = <<>> THEN IndexLookupAbbrev(d.ax, s, CandidateLimit) ELSE list

OrLongestPrefix(d, list, syllables) == IF list = <<>> THEN LongestPrefix(d, syllables) ELSE list

OrFirst(whole, syllables, fallback) ==
  IF whole = <<>> /\ fallback /\ Len(syllables) >= 2 THEN <<syllables>> ELSE whole

(* What sentences are made of: every cut, or a beginning, of two or more   *)
(* syllables.                                                              *)
ReadingsOf(segs, first, fallback) ==
  OrFirst(SelectSeq(segs, LAMBDA seg : Len(seg) >= 2), first.syllables, fallback)

FullPinyinOf(d, said, segs, first, fallback) ==
  LET from == IF segs # <<>> THEN segs[1] ELSE IF fallback THEN first.syllables ELSE <<>>
      list == OrLongestPrefix(d, said.list, from)
  IN  [list |-> IF segs = <<>> \/ list = <<>> THEN list
                ELSE MergeFirstSyllable(d, list, segs[1], FALSE, FALSE),
       cache |-> said.cache]

FullPinyinCut(d, s, cache, segs, first, fallback) ==
  FullPinyinOf(d, WithSentences(d, OrAbbrev(d, WithCorrected(d, WithCuts(d, Direct(d, first), segs),
                                                             s, segs), s),
                                cache, ReadingsOf(segs, first, fallback),
                                JoinedKey(first.syllables, first.tail)),
               segs, first, fallback)

(* refresh_full_pinyin.                                                    *)
FullPinyin(d, s, cache, fallback) ==
  FullPinyinCut(d, s, cache, Segment(s), FirstCut(s, Segment(s)), fallback)

----------------------------------------------------------------------------
(* The two-key scheme.                                                     *)

(* to_syllables; <<>> for keys that are no syllables.                      *)
ToSyllables(s) ==
  LET pair(i) == <<s[2 * i - 1], s[2 * i]>>
      n == Len(s) \div 2
  IN  IF Len(s) % 2 = 0 /\ \A i \in 1..n : pair(i) \in DOMAIN Pair
      THEN [i \in 1..n |-> Pair[pair(i)]] ELSE <<>>

Decodes(s) == s = <<>> \/ ToSyllables(s) # <<>>

(* syllables_of_initial, in the order of the second key.                   *)
SyllablesOfInitial(k) ==
  LET seconds == InOrder({x \in Keys : <<k, x>> \in DOMAIN Pair}, <)
      Add(acc, x) == IF Pair[<<k, x>>] \in ToSet(acc) THEN acc ELSE Append(acc, Pair[<<k, x>>])
  IN  FoldLeft(Add, <<>>, seconds)

(* initial_of: what all of them begin with.                                *)
InitialOf(k) ==
  LET all == ToSet(SyllablesOfInitial(k))
      common == {p \in UNION {{SubSeq(x, 1, n) : n \in 0..Len(x)} : x \in all} :
                   \A x \in all : IsPrefix(p, x)}
  IN  IF all = {} THEN <<>> ELSE CHOOSE p \in common : \A q \in common : Len(q) <= Len(p)

(* The keys read as syllables and a half: whole pairs, the initial of a    *)
(* last single key, or the longest beginning that is whole pairs.          *)
Decoded(s) ==
  LET n == Len(s)
      cuts == {c \in 2..(n - 1) : c % 2 = 0 /\ Decodes(SubSeq(s, 1, c))}
      even == IF Decodes(s) THEN ToSyllables(s)
              ELSE IF cuts = {} THEN <<>>
              ELSE ToSyllables(SubSeq(s, 1, CHOOSE c \in cuts : \A b \in cuts : b <= c))
  IN  IF n % 2 = 0 THEN [ok |-> even # <<>>, syllables |-> even, half |-> <<>>, ends |-> <<>>]
      ELSE [ok |-> Decodes(SubSeq(s, 1, n - 1)), syllables |-> ToSyllables(SubSeq(s, 1, n - 1)),
            half |-> InitialOf(s[n]),
            ends |-> IF InitialOf(s[n]) = <<>> THEN SyllablesOfInitial(s[n]) ELSE <<>>]

(* A half key without an initial: the words it may end go first.           *)
Ended(d, list, syllables, ends) ==
  FoldLeft(LAMBDA acc, e : IF Len(acc) >= CandidateLimit THEN acc
                           ELSE AppendNew(acc, Without(LookupPrefix(d, Append(syllables, e), <<>>),
                                                       Texts(list))),
           <<>>, ends)

Ahead(ended, list) == ended \o Take(list, Max({0, CandidateLimit - Len(ended)}))

WithEnds(d, list, syllables, ends) ==
  IF ends = <<>> THEN list ELSE Ahead(Ended(d, list, syllables, ends), list)

(* What a two-key input offers when its keys are taken for syllables.      *)
ShuangpinWords(d, dec, found, cache) ==
  LET said == IF Len(dec.syllables) < 2 THEN [list |-> found, cache |-> cache]
              ELSE WithSentences(d, found, cache, <<dec.syllables>>, Quoted(dec.syllables))
      list == OrLongestPrefix(d, said.list, dec.syllables)
  IN  [list |-> IF list # <<>> /\ dec.syllables # <<>>
                   /\ (dec.half # <<>> \/ Len(dec.syllables) >= 2)
                THEN MergeFirstSyllable(d, list, dec.syllables, TRUE, dec.half # <<>>) ELSE list,
       cache |-> said.cache, sp |-> TRUE]

AsFullPinyin(full) == [list |-> full.list, cache |-> full.cache, sp |-> FALSE]

(* Syllables without a word: the keys may be full pinyin.                  *)
OrFullPinyin(d, dec, found, cache, full) ==
  IF found # <<>> THEN ShuangpinWords(d, dec, found, cache)
  ELSE IF full.list # <<>> THEN AsFullPinyin(full)
  ELSE ShuangpinWords(d, dec, <<>>, full.cache)

ShuangpinDecoded(d, s, cache, dec, full) ==
  IF ~dec.ok THEN AsFullPinyin(full)
  ELSE OrFullPinyin(d, dec,
                    OrAbbrev(d, WithEnds(d, LookupPrefix(d, dec.syllables, dec.half),
                                         dec.syllables, dec.ends), s), cache, full)

(* refresh_candidates, without the English words.                          *)
ShuangpinList(d, s, cache) ==
  ShuangpinDecoded(d, s, cache, Decoded(s), FullPinyin(d, s, cache, FALSE))

(* merge_english: from two keys on, behind everything.                     *)
EnglishWords(s) ==
  LET Begins(e) == IsPrefix(s, e.pinyin)
      Same(e) == e.pinyin = s
      Longer(e) == Begins(e) /\ ~Same(e)
  IN  IF Len(s) < 2 THEN <<>>
      ELSE Take(SelectSeq(English, Same) \o Sorted(SelectSeq(English, Longer), ByFreq),
                CandidateLimit)

Refresh(d, s, cache, two) ==
  [IF two THEN ShuangpinList(d, s, cache) ELSE AsFullPinyin(FullPinyin(d, s, cache, TRUE))
     EXCEPT !.list = @ \o EnglishWords(s)]

----------------------------------------------------------------------------
(* Operations.                                                             *)

(* refresh_candidates for the letters s. Without letters only the list is  *)
(* emptied.                                                                *)
RefreshCandidates(d, s, cache) ==
  /\ letters' = s
  /\ IF s = <<>>
     THEN candidates' = <<>> /\ spans' = cache /\ UNCHANGED spActive
     ELSE \E r \in {Refresh(d, s, cache, scheme)} :
            candidates' = r.list /\ spans' = r.cache /\ spActive' = r.sp

Now == [ix |-> index, ax |-> abbrevIndex, used |-> userPinyins,
        seed |-> ContextSeed(phrase, context)]

Letter(k) ==
  /\ Append(letters, k) \in Inputs
  /\ RefreshCandidates(Now, Append(letters, k), spans)
  /\ UNCHANGED <<vars, scheme, context>>

Backspace ==
  /\ letters # <<>>
  /\ RefreshCandidates(Now, Front(letters), spans)
  /\ UNCHANGED <<vars, scheme, context>>

(* clear_composition: Esc, Enter and every other end of a composition.     *)
ClearComposition ==
  /\ letters # <<>>
  /\ letters' = <<>> /\ candidates' = <<>> /\ spActive' = FALSE
  /\ UNCHANGED <<vars, scheme, spans, context>>

(* stage_candidate: the keys a candidate takes.                            *)
Taken(c) == IF spActive THEN 2 * SyllableCount(c) ELSE Len(c.pinyin) + 1 - SyllableCount(c)

(* append_tail; the last four characters are read.                         *)
AppendTail(text) == Joined(context, text) % 10000

(* learn_or_warn: the word is learned and goes behind the context.         *)
LearnOrWarn(c) ==
  /\ Learn(Word(c))
  /\ context' = AppendTail(c.text)

Learned == [ix |-> index', ax |-> abbrevIndex', used |-> userPinyins,
            seed |-> ContextSeed(phrase', context')]

(* Mutant: the words of the spans outlive what was learned.                *)
SelectKeepsSpans(i) ==
  LET c == candidates[i]
  IN  /\ Word(c) \in Learnable
      /\ LearnOrWarn(c)
      /\ RefreshCandidates(Learned, SubSeq(letters, Taken(c) + 1, Len(letters)), spans)
      /\ UNCHANGED scheme

(* select_candidate: what was learned makes the spans stale, the keys of   *)
(* the candidate go, and the letters left are looked up.                   *)
Select(i) ==
  LET c == candidates[i]
  IN  /\ Word(c) \in Learnable
      /\ LearnOrWarn(c)
      /\ RefreshCandidates(Learned, SubSeq(letters, Taken(c) + 1, Len(letters)), <<>>)
      /\ UNCHANGED scheme

(* set_context and refresh_candidates, when the shell learns that the text *)
(* before the cursor is gone.                                              *)
SetContext ==
  /\ context # 0
  /\ context' = 0
  /\ RefreshCandidates([Now EXCEPT !.seed = 0], letters, spans)
  /\ UNCHANGED <<vars, scheme>>

(* The process is started again.                                           *)
Restart ==
  /\ Reopen
  /\ letters' = <<>> /\ candidates' = <<>> /\ spActive' = FALSE
  /\ spans' = <<>> /\ context' = 0
  /\ UNCHANGED scheme

ListInit ==
  /\ Init
  /\ scheme \in BOOLEAN
  /\ letters = <<>> /\ candidates = <<>> /\ spActive = FALSE
  /\ spans = <<>> /\ context = 0

ListNext ==
  \/ \E k \in Keys : Letter(k)
  \/ Backspace \/ ClearComposition
  \/ \E i \in DOMAIN candidates : Select(i)
  \/ SetContext \/ Restart

ListSpec == ListInit /\ [][ListNext]_allVars

----------------------------------------------------------------------------
(* The reading the list is for: the first cut, or the syllables of the     *)
(* scheme when all keys are whole pairs.                                   *)
Typed ==
  IF scheme /\ spActive THEN {ToSyllables(letters)} \ {<<>>}
  ELSE IF scheme \/ Segment(letters) = <<>> THEN {} ELSE {Segment(letters)[1]}

(* The whole syllables the letters begin with.                             *)
Begun ==
  {IF scheme THEN Decoded(letters).syllables
   ELSE IF Segment(letters) # <<>> THEN Segment(letters)[1]
   ELSE FirstCut(letters, <<>>).syllables} \ {<<>>}

(* Every sentence of every beginning of a reading: its text, what these    *)
(* words cost, and where the last of them begins.                          *)
Ways(reading, seed) ==
  LET n == Len(reading)
      Words(i, j) == ToSet(IndexLookup(index, JoinedKey(SubSeq(reading, i + 1, j), <<>>),
                                       SpanLimit(j - i)))
      Begins(i) == \E j \in (i + 1)..n : Words(i, j) # {}
      Edges(i, j) == IF ~Begins(i) /\ j = i + 1 THEN {[text |-> Unknown, cost |-> UnknownCost]}
                     ELSE {[text |-> w.text, cost |-> Cost(w.eff)] : w \in Words(i, j)}
      To[j \in 0..n] ==
        IF j = 0 THEN {[text |-> 0, cost |-> StartPath(seed).cost, from |-> 0]}
        ELSE UNION {{[text |-> Joined(way.text, e.text), cost |-> way.cost + e.cost, from |-> i] :
                       way \in To[i], e \in Edges(i, j)} : i \in 0..(j - 1)}
  IN  To

(* The lattice meets the sentences with the longer last word first. No     *)
(* text it meets a second time is cheaper then.                            *)
CheapestFirst(ways) ==
  \A j \in DOMAIN ways : \A v, w \in ways[j] :
    v.text = w.text /\ v.from < w.from =>
      \E u \in ways[j] : u.text = v.text /\ u.from = v.from /\ u.cost <= w.cost

(* lattice.rs: the best sentences of a reading by joint probability. With  *)
(* the spans remembered from earlier keys, and after any words chosen in   *)
(* between, the paths kept are sentences the dictionary of now gives the   *)
(* reading, no text twice, in order of cost. They are the Beam cheapest    *)
(* texts, each at its cheapest, unless a text comes a second time and      *)
(* cheaper: insert_path keeps the path it has.                             *)
BestSentences ==
  \A reading \in Typed :
    LET paths == Lattice(reading, Now.seed, index, spans).dp[Len(reading)]
        all == Ways(reading, Now.seed)
        ways == all[Len(reading)]
    IN  /\ \A i \in DOMAIN paths :
             /\ \E w \in ways : w.text = paths[i].text /\ w.cost = paths[i].cost
             /\ \A j \in 1..(i - 1) :
                  paths[j].cost <= paths[i].cost /\ paths[j].text # paths[i].text
        /\ CheapestFirst(all) =>
             /\ \A i \in DOMAIN paths : \A w \in ways :
                  w.text = paths[i].text => paths[i].cost <= w.cost
             /\ \A w \in ways : w.text \notin Texts(paths) =>
                  Len(paths) = Beam /\ Last(paths).cost <= w.cost

(* "The first choice of Space is always the best of the first layer": a    *)
(* word with exactly the reading typed leads the list, the best one first; *)
(* where there is none, the best sentence does. No completion, fuzzy or    *)
(* corrected reading and no word of the first syllable gets before them.   *)
(* Excepted is a sentence with the text of a word of another reading: it   *)
(* is not placed where the list has that word, and when the list is cut to *)
(* its limit the word may go.                                              *)
SpaceTakesTheBest ==
  \A reading \in Typed :
    LET exact == IndexLookup(index, JoinedKey(reading, <<>>), 1)
        sentences == Sentences(reading, Now.seed, index, spans).list
        best == sentences[1]
    IN  IF exact # <<>> THEN candidates # <<>> /\ candidates[1].text = exact[1].text
        ELSE Len(reading) >= 2 /\ sentences # <<>> =>
               /\ candidates # <<>>
               /\ \/ candidates[1].text = best.text
                  \/ /\ \E r \in phrase : r.text = best.text /\ r.pinyin # best.pinyin
                     /\ best.text \in Texts(candidates) \/ Len(candidates) >= CandidateLimit

(* "The user always has something to pick": while the first syllable of    *)
(* the letters has a word, the list is not empty, be the rest a half key   *)
(* of a scheme or letters no cut fits.                                     *)
SomethingToPick ==
  \A reading \in Begun :
    IndexLookup(index, reading[1], 1) # <<>> => candidates # <<>>
=============================================================================

# kime in TLA+

kime is a Chinese input method in Rust: an engine (`kime-core`) that turns typed
letters into words, two front ends (`platform-wayland`, `platform-x11`), a
dictionary in SQLite with an optional FST copy, and a command line that imports
dictionaries and mines the log of chosen words. This directory holds TLA+ models
of the parts in which state, order and failure matter, TLC configurations that
check them on small instances, and TLAPS proofs of the most important results
for every value of the constants.

Paths below are relative to `src/`: `engine.rs`, `dict.rs`, `store.rs`,
`builder.rs`, `lattice.rs`, `correction.rs`, `lm.rs`, `learn_writer.rs` are in
`crates/kime-core/src`; `main.rs`, `route.rs`, `repeat.rs`, `lib.rs`,
`mode_badge.rs`, `context_batch.rs`, `clipboard_watch.rs` in
`crates/platform-wayland/src`; `xim.rs` in `crates/platform-x11/src`.

Run everything inside this directory: `tlc -config X.cfg <module>` for a run of
the table below, `tlapm <module>_proofs.tla` for the proofs. `PROJECT.json` maps
every definition to the lines it models.

## The system

| Component | State | Operations | Hard behaviour |
|---|---|---|---|
| Composition, `Engine::key` | letters, cursor, candidates, page, pending words, undo chain, mode | one call per key; `set_context`, `clear_undo`, `merge_ai` from the shell | two lists kept in step by about twenty exits; late AI answers; a cap on one of the lists |
| Key routing of the Wayland shell | grab, swallowed keys, armed repeat, Shift gesture, clipboard mode, keymap | events of the grab, ACTIVATE, DEACTIVATE, ticks, reconnect | a key is consumed at its press and asked about at its release; stale grabs; synthetic keys |
| Candidate window (`PopupCanvas`) | two shm buffers, which of them are free, owed frame, content, flash | `set_content`, `flash_chip`, `clear_chip`, `hide`, release and frame events | buffers come back late and in any order; writing to one too early ends the connection |
| Mode badge and tray | two shm buffers as above, the configured size, the mode | `on_configure`, `set_chinese`, `present`, closed | nothing may be attached before a configure; the mode flips before the badge exists |
| Learning | frequency and count of each word in memory and in SQLite, a bounded channel, a thread | `learn_mem`, `submit`, the worker, Drop, open | full channel, two statements without a transaction, a locked database, death of thread or process |
| Offline miner, `mine-lm` | commit_log, bigram, learned phrases, generation | log a word; plan, gate, transact, learn, bump | the input method logs between the statements; two minings at once; rowids are reused |
| Context batches | pending surrounding text and cause, the serial | text, cause and done events | pending state across ACTIVATE and reconnect; the engine's own commit comes back as text |
| Wayland session | connection, bound globals, the objects made of them, engine, backoff | run_once, globals, ACTIVATE, reconnect | order in which globals arrive; objects of a lost connection |
| X11 front end | input contexts, focus, window, one engine for all | requests of the clients | clients do not wait for each other |
| Dictionary | phrase rows, uses, sorted vectors in memory, or dict.bin and a user overlay | `lookup`, `lookup_prefix`, `lookup_abbrev`, `top_user`, `learn_mem`, `import`, `build`, `open` | two implementations of each lookup; ranks kept with entries; heaps and hot tables that cut |
| Candidate list | letters, candidates, spans remembered by the lattice, the text before the cursor | a key, a selection, `set_context` | ambiguous cuts, several sources in one list, words learned between keys |
| Punctuation | open quotes, last digit | a mark | pairing across keys |
| Clipboard store and watcher | history ring, partial record | add, split at NUL | records split across reads |
| AI client, configuration, rendering, command line, tools | - | - | input and output |

How they interact. The compositor's events reach the Wayland shell through one
event loop (`run_once`), which handles them one at a time. A key goes from the
grab through the Shift gesture and `engine_press` to `Engine::key`, whose outcome
decides whether the key is swallowed or forwarded to the application; then
preedit, candidate window and badge are drawn. The X11 front end calls the same
`Engine::key` for every input context. Each change of the letters makes
`refresh_candidates` segment them, look every reading up in the dictionary and
run the lattice over it. A chosen word is raised in memory on the key path and
sent as a job to the writer thread, which owns the shell's only writing connection
to SQLite. `mine-lm` and `kime import` are other processes that write the same
database, phrase rows included. An AI thread answers
at any later time, through `merge_ai`.

What makes each part correct is stated as properties, listed with the runs below.

## Modules

| Module | Models | State and actions in the code |
|---|---|---|
| `Composition` | `Engine::key` and the shell's calls on the engine | one action per branch of `key`, named for its key; `letters`, `cursor`, `candidates`, `pageIndex`, `pending`, `undo` are the fields of `Engine`, `outcome` is what `key` returned |
| `KeyLine` | what the composition promises: an editable line of keys | abstract; `Composition` implements it with `line` = the keys of the pending words followed by the letters |
| `KeyRouting` | keys from the user to the application | `HandleX` are the dispatch arms of the event loop, `PressKey` is `engine_press`, `Tick` is `tick_repeats`; the user, the compositor and the application are the environment |
| `Learning` | `learn_mem`, `LearnWriter`, `persist_learn`, `Dict::open` | `Submit` is a send on the channel; `WorkerX` and `WriteX` are the thread, one SQL statement per step |
| `Mining` | `mine_gated`, `mine_phrases`, `persist_commit_log` | one step per piece of code between two points at which another process can write |
| `DoubleBuffer` | `present`, `pick_slot`, `on_release`, `on_frame`, the compositor | shared by the surfaces of the shell; `free`, `dirty`, `painted` are the fields, `screen`, `held`, `armed`, `queue` belong to the compositor |
| `PopupCanvas` | the candidate window, over `DoubleBuffer` | one action per method, one per dispatch arm |
| `ModeBadge` | the mode badge, over `DoubleBuffer` | one action per dispatch arm; `ShowMode` is `sync_mode_badge`, `Draw` is `present` |
| `Session` | connection, globals, objects, engine, serial, context; `ModeBadge` inside | `HandleX` are the dispatch arms, `Connect` and `LoseConnection` the ends of `run_once`; an object is the number of the connection it was made on |
| `XimFrontend` | the XIM server over `Composition` | one action per `handle_*`; a forwarded key is the engine's action for it |
| `Dictionary` | rows, index, dict.bin, overlay and all lookups | lookups are operators; `Learn`, `Import`, `Build`, `Reopen` the operations that change something |
| `CandidateList` | segmentation, corrections, lattice, `refresh_candidates`, over `Dictionary` | `Letter`, `Backspace`, `Select`, `SetContext` change letters and list; the list is one operator of the letters, the dictionary, the spans and the context |
| `MC...` | values of the constants for TLC | |
| `Composition_proofs`, `Dictionary_proofs`, `KeyRouting_proofs`, `Learning_proofs`, `Mining_proofs`, `PopupCanvas_proofs`, `Session_proofs` | theorems and proofs | each extends the module of its name; `Composition_proofs` also holds those of `XimFrontend` |
| `DoubleBuffer_proofs` | lemmas on the two buffers, for the window and the badge | |

Each module's header names what it abstracts. Definitions commented "Mutant" are
not part of the models: each is a plausible bug that one property catches when
it replaces the definition named after it.

### Abstractions worth knowing

- Composition: a word is the keys it was typed with, a candidate the number of
  keys its reading covers. A lookup returns any short list of candidates, so
  whatever `CandidateList` computes is allowed.
- KeyRouting: the engine is whether it composes and whether a preedit shows. To a
  key of a class it may give any answer `Engine::key` has for that class in that
  state; keys that are neither letters nor Shift may always be let through.
- Learning: no decay over days; no ranks (they are in Dictionary). An FST overlay
  and the SQLite index differ as `learn_mem` does. The miner adds a phrase row
  (`MinePhrase`), an import raises rows that are no user rows when it commits
  (`Lock`, `Commit`); the history variable `outside` is what they added to a
  frequency since memory read it. One input method is assumed to write the counts
  in `kime_kv`: a second one on the same database would store its own absolute
  counts over those of the first.
- Mining: a tail text is the dictionary word its split ends with; the gate may
  accept any set of pairs; a transaction is one step since SQLite lets no other
  writer in.
- PopupCanvas: a page with its highlight is one image; images have a size since
  it decides which slot is picked and whether a buffer is made anew. The
  compositor may give a buffer back at any time after the commit (it may have
  copied it), in any order, or never while it is shown.
- Session: a surrounding text is an echo of a commit, a text the application
  changed, or one whose cursor is not between two characters; a key is whether it
  flips the mode. Keys themselves are in KeyRouting.
- Dictionary: a reading is a sequence of small numbers with 0 for the quote, so
  strings compare as in Rust; a text is a number. The file is its keys, blocks and
  hot table, without bytes or offsets. Learning and storing are one step here.
- CandidateList: a text is a number whose digits are its characters; costs are
  integers, which decides ties the floating-point code leaves to rounding. The
  dictionary is in its SQLite-index home. The pairs of `fuzzy_map`, a HashMap
  without an order, are tried in a fixed one; the run has one pair.

## Runs

"States" are distinct states.

| Run | Properties | States | Bounds |
|---|---|---|---|
| `Composition` | `TypeOK`, `CursorInLetters`, `UndoMatchesWords`, `EnglishIsIdle`, `CommitEndsUndo` | 485 000 | 2 letters, 3 keys, 2 words, page of 2, lists of 3, undo cap 1 |
| `CompositionLine` | `IsKeyLine` (refinement) | 19 000 | 4 keys, 4 words, page of 1, lists of 2, undo cap 4 |
| `KeyRouting` | `TypeOK`, `Accounts`, `RepeatStops` | 1 310 000 | 2 keys down, 3 focus changes, 2 events under way, one lost connection |
| `KeyPairs` | `NoStuckKey`, `NoBareRelease` | 153 000 | 3 keys down of 6 kinds, one activation |
| `Learning` | `TypeOK`, `CountsAscend`, `AddedOnce`, `CloseKeepsAll`, `CountNeverFalls`, `CloseEnds` | 1 095 000 | 2 words, 2 uses each, channel of 2, 2 sessions, an import of either word |
| `Mining` | `TypoStaysOut`, `CountedOnce`, `NothingLost`, `UnusedFades` | 2 280 000 | 3 commits of 7 kinds, 3 minings by 2 processes, budget of 1 pair |
| `PopupCanvas` | `TypeOK`, `FreeIsReturned`, `NewestShown`, `NoWriteWhileHeld`, `OwedIsDrawn` | 33 600 | 2 pages of different sizes, 2 flashes, 3 events under way |
| `Session` | `TypeOK`, `MadeOnThisConnection`, `SerialCounts`, `ModeShown`, `EchoStaysOut` | 2 700 000 | 2 connections, 2 late globals, 2 batches each, one badge size |
| `XimFrontend` | `OneContext`, `ShowsTheEngine` | 84 700 | 2 contexts, 1 letter, 3 keys, 2 words, page of 2 |
| `Dictionary` | `SameAnswers`, `ReopenChangesNothing`, `LayersApart`, `CompletionsReachable` | 4 800 | 2 dictionaries of 9 and 4 rows, 3 uses, 1 import, 5 readings, lists of 1, 2 and 4 |
| `CandidateList` | `BestSentences`, `SpaceTakesTheBest`, `SomethingToPick` | 18 200 | 3 keys, 4 syllables, 4 inputs of up to 4 letters and their beginnings, 2 uses, lists of 3 |
| `PageOutOfRange` | `NoPanic` violated | | as `Composition`, with pages of 2 |

Why the bounds are enough.

- An undo cap of 1 is passed by the second word, so dropping the oldest entry,
  popping past it and clearing both happen with two words. Two letters tell two
  words apart, and three keys let a word cover a part, leave one letter, and be
  typed on. Lists of three on pages of two have a short last page.
- Three focus changes give ACTIVATE, ACTIVATE, DEACTIVATE with keys held across
  them; two events under way are enough for the keymap or a key of the old grab
  behind an ACTIVATE.
- A word sends two jobs, so a channel of two is full after one use; a second use
  shows what a drop or a half-written job leaves, and the second session what an
  open loads from it. One of the two words has no row at first, so that the miner
  may add it before or after it is chosen.
- `MinAdmission` is 2 as in the code; three commits let a pair be admitted and
  one more row come between plan and transaction; three minings let counts fade
  to nothing and be counted again. A budget of one pair evicts at two.
- Two slots are what the code has. At most one event of each slot and one frame
  callback are under way at once, so a queue of three never limits anything.
- Session: two connections show what the first leaves to the second; of the six
  globals one that the input method needs and one that the badge needs come late,
  in either order, the others with the first list; two batches let pending state
  of one meet the done of the next.
- XimFrontend: two contexts give a late UNSET_FOCUS, RESET or DESTROY of the one
  that lost the focus. What lists look like is `Composition`'s business.
- Dictionary: the larger dictionary has texts under two readings, readings that go
  on with and without a quote, and a first syllable with more entries than the hot
  table's bucket of 4; lists of 1 and 2 are shorter than the blocks, 4 as long as
  the bucket. Three uses bring a dictionary word above another one, add a new
  word, and choose a known text under another reading.
- CandidateList: the syllables a, ab, b, ba give `aba` two cuts; the third key is
  one no syllable has, for scheme keys and mistyped ends; a beam of 2 cuts among
  three sentences, a cache of 5 spans fills and is thrown away on the way. Once
  `ab'a` was learned as 41, `a'ab'a` gives the text 141 as 1 and 41 and, cheaper and
  met later, as 14 and 1: the case `BestSentences` excepts. A list of three is
  full before the words of the first syllable are merged into it, and 141 is also a
  longer word, so that the case `SpaceTakesTheBest` excepts happens too.

`CHECK_DEADLOCK FALSE` is set for runs whose behaviours end because a bound is
used up: `Learning` after the last session, `Mining` after the last commit and
mining, `Session` when the shell exits, `Dictionary` and `CandidateList` after the
last use or letter.

### What the properties say

- Composition. The undo chain is always the keys of the last pending words
  (`UndoMatchesWords`), delivered text cannot be pulled back (`CommitEndsUndo`),
  English mode never hides a composition no key could reach (`EnglishIsIdle`).
  `IsKeyLine` says it from the user's side: through any selections, undos, page
  turns and edits, the typed keys stay one line in order, until it is delivered
  whole or given up. `KeyLine` lets a key be put in or erased anywhere, since the
  cursor can be anywhere; it does not say where.
- KeyRouting. `Accounts` relates the tracker to what the application saw;
  `NoStuckKey` and `NoBareRelease` are its consequences for one activation.
  `RepeatStops`: the repeat of a key the user let go of ends, through any change of
  focus, whether its release is handled or its grab ends without it. A lost
  connection without a new grab (`CutOff`) is the named exception, as there the
  repeat does go on (below); TLC violates the property without it.
- Learning. Counts are in ascending order from the database through channel and
  hand to memory, so losing any job loses no more than that; an orderly shutdown
  loses nothing; Drop returns even if the database stays locked. Frequencies are
  shared with the miner and with imports. `AddedOnce` says that the thread adds no
  choice twice: without what others added that memory has not read (`outside`),
  the database is never above memory. With it, it may be: over the index a
  phrase that the miner has just inserted with frequency 1 (`lm.rs:619`) gets 1 in
  memory when it is chosen (`dict.rs:1298`), and its row becomes 2 (`dict.rs:331`).
- Mining. A pair that was seen once never gets in on either path (which says
  nothing of rowids used again: a row deleted wrongly adds no evidence); no commit is counted twice on
  one path; none is purged uncounted but with another reading of a merged pair; a
  pair without new evidence fades. The second and the third are stated for minings
  that do not overlap, since overlapping ones break them (below).
- PopupCanvas. `FreeIsReturned` is the exact account of `free[]`;
  `NoWriteWhileHeld` is what it is for. `NewestShown`: a page is on the screen or
  owed. `OwedIsDrawn`: what is owed for want of a slot is drawn without another
  key.
- Session. `MadeOnThisConnection`: whatever order the globals come in, input
  method and keyboard are there as soon as they can be, and no object of an
  earlier connection is used. `SerialCounts` is the protocol's condition for a
  commit to be applied. `ModeShown` relates engine, tray, badge and the frame on the
  screen or owed. `EchoStaysOut`: the engine's own commits do not come back as
  context; a connection lost between a text and its done is the named exception
  (`cut`).
- XimFrontend. `OneContext`: letters typed in one application never end in
  another. `ShowsTheEngine`: window and preedit follow the engine; the named
  exception (`ghost`) is described below.
- Dictionary. `SameAnswers` compares the two implementations of every lookup,
  `ReopenChangesNothing` the vectors kept up to date in memory with those of a fresh
  open. The conditions in `SameAnswers` name the cases in which the two differ
  (below).
- CandidateList. `BestSentences` compares the lattice, with its beam and its
  remembered spans, with the list of all ways to split the reading into words of
  the dictionary as it is now: the paths kept are such ways, in order of cost, no
  text twice, and they are the cheapest of all unless some text is met again and
  cheaper (`CheapestFirst`). `SpaceTakesTheBest` is what `engine.rs:1350-1351` and
  `1500-1504` promise: the best word of the reading leads, or else the best
  sentence, unless a word of another reading has its text. `SomethingToPick`:
  letters that begin with a syllable that has a word offer something, though the
  rest is a half key of a scheme or fits no cut (`engine.rs:1326-1334`).

### Fairness

- `KeyRouting`: weak fairness of handling an event. `run_once` dispatches
  whatever has arrived, and no handler waits. Nothing is assumed of the user.
- `Learning`: weak fairness of each step of the thread and of join. A statement
  on a locked database is either written or given up at the end of
  `busy_timeout`, so the disjunction of the two is fair, and neither alone. There
  is no fairness on the lock, on uses or on failures.
- `PopupCanvas`: weak fairness of handling an event, and of the compositor giving
  back a buffer it no longer shows, which the Wayland protocol promises. None on
  frame callbacks: none is sent for a surface that is not visible.

## Where the code departs from what it says

One run is a counterexample: `PageOutOfRange`. A letter typed on a later page
keeps `page_index`, the new list may be shorter, and Space or a mark then indexes
behind its end.

Others were met while modelling. The models contain them, and no run is spent on
them.

In the engine and what it learns:

- `engine.rs:666`: an English mark clears the undo chain while words are pending;
  the next Backspace removes a word and gives back no keys (`engine.rs:112-113`
  says entries and words are pushed in pairs).
- `engine.rs:725`: a digit past the page picks from the next page.
- `main.rs:1133`: a reconnect clears the undo chain but not the pending words, to
  the same effect. `engine.rs:357`: a candidate that took no letters gets no undo
  entry although it is a pending word.
- `dict.rs:1236`: over dict.bin a user word used again gets a higher frequency and
  keeps its rank until the next open (`engine.rs:867` promises the raise at once).
  With any user word the file's path shows a text once where the index repeats it
  under each reading; and a completion the user chose is dropped when its text is
  anywhere in the exact block, even if the block is cut off before it
  (`dict.rs:1026`), where the index keeps it. The hot table's bucket may hold so
  many entries of the syllable itself that fewer than half a list of completions
  is left (`store.rs:412-415`). These are the conditions of `SameAnswers` and
  `CompletionsReachable`.
- `builder.rs` writes dict.bin in place, over the file a running shell has mapped.
- `lattice.rs:404`: of two paths with one text the first to come is kept, also
  when the second is cheaper (`lattice.rs:398` says 同文本只留代价低的, the cheaper
  stays). Two cuts of as many words do it: three syllables as one and two are met
  before two and one. The run reaches it, and TLC violates `BestSentences` there
  when `CheapestFirst` is left out.
- `engine.rs:1527`: a sentence is not placed when the list has its text already,
  under a longer or a fuzzy reading, wherever in the list that is; and when the
  list is full, the words of the first syllable may push that entry out
  (`engine.rs:1456`). Space then does not take the best sentence, and its text may
  be nowhere in the list (`engine.rs:1503` says the best sentence of the syllables
  typed always comes first). The run reaches both; they are the
  exception in `SpaceTakesTheBest`.
- `engine.rs:329-347`: the keys a candidate takes are counted by its reading. A
  fuzzy reading of another length, an English word in a scheme (two keys only), a
  completion offered in place of the first syllable and an AI candidate without a
  reading take more or fewer keys than were typed for them, and the rest starts in
  the middle (`engine.rs:385` says only the covered syllables are consumed). A
  chosen English word is learned under its letters and then stands among the
  Chinese words.
- `learn_writer.rs:67-68` says a dropped job is made good by the next one. It is
  so for the count, which is absolute; the frequency (`dict.rs:331`) is
  incremented, and one dropped job leaves it one short.
- `lm.rs:206`: a row with a ctx_id and a tail is counted on both paths when both
  admit it, so a pair reaches `PHRASE_ADMISSION` (`lm.rs:227`) with half the
  commits; a row purged on one path may take its evidence on the other with it.
- `lm.rs:225`: the counts are committed before the generation moves on; a process
  that dies between leaves readers with the old cache. `lm.rs:169`: the budget is
  enforced before the tail path adds its pairs.
- `lm.rs:397-405`: rows are deleted by the texts of a merged pair. A row whose second
  word has the same text under another reading goes with it without having been
  counted (`lm.rs:172` says only merged rows are deleted, `lm.rs:336-337` that rows
  below the threshold stay). `NothingLost` excludes these rows by name
  (`TakenAlong`).
- `lm.rs:84`: two minings that overlap purge by rowids read before the
  transaction. Rowids are reused, so a fresh row can be deleted uncounted, and a
  planned row counted twice.

In the way of a key:

- `main.rs:1742`: the application holds a Shift pressed before the grab; the other
  Shift opens a gesture. The release of the first is taken for the tap and
  consumed: the application keeps Shift down. It takes both Shifts, which
  `KeyPairs` does not have.
- `repeat.rs:70`: a repeat armed when the connection is lost goes on until a key
  of a new grab stops it, since its release is lost with the old one. `repeat.rs:26-28`: the codes of f, h and b are repeatable because
  Ctrl-f, Ctrl-h and Ctrl-b are; Ctrl is not asked for.
- `repeat.rs:104`, `repeat.rs:110`: of two Shifts the last one released decides; a
  composition with an empty preedit counts as none.
- `main.rs:1353`: a new ACTIVATE empties the account, so the release of a key
  swallowed before it goes out bare when it reaches the new grab
  (`main.rs:966-967` calls that a ghost event), and the release of a key
  forwarded before it is dropped when it was on the way to the old one.

In windows, sessions and front ends:

- `main.rs:403`: `hide` resets `dirty` after `present`, so a hidden frame that found
  no free slot is never drawn and the old strip stays (`main.rs:383-384` says it is
  owed). `NewestShown` excludes the hidden frame.
- `main.rs:446-448`: a frame whose buffer could not be made waits for a frame
  callback, which is asked for after the commit and so armed by the next one
  only. With both slots back, nothing is due. `OwedIsDrawn` excludes this case
  by name (`starved`).
- `main.rs:1954-2011`: after a session that lasted, `main` still sleeps the old
  backoff, of up to 30 s, before it is set back to one second.
- `main.rs:684`: the input method is bound to the first seat before any seat has
  told its name, and never bound anew, so `--seat` does not choose another one.
- `main.rs:1315`: an input method is made once per connection, so the branch for
  another instance at ACTIVATE, with its `clear_undo`, is never taken; a
  composition left by ACTIVATE without DEACTIVATE, or by a reconnect, goes on in
  the next application.
- `main.rs:1122-1150`: pending text and cause outlive a reconnect. A cause that is
  missing, or an application without surrounding text, leaves the context of the
  application before.
- `main.rs:770`: the window is made at ACTIVATE only; a compositor or shm global
  that comes later leaves it out until the next one.
- `xim.rs:240-315`: UNSET_FOCUS, RESET and DESTROY of a context that has lost the
  focus clear the engine all the same; the focused client goes on showing the
  preedit (`ghost`).
- `xim.rs:186`: the rows of the window start at `page_index`, not at
  `page_index` times the page size (184-185 say the page shown): the second page
  shows the first but for one row.

## Proofs

All theorems hold for every value of the constants that the named ASSUMEs of the
modules allow; those say what kind of value each constant is, and TLC evaluates
them in the runs. `DictionaryAssumption` says besides that no reading begins with
the quote between syllables and none that is looked up is empty: readings are
joined from what `split_whitespace` finds (`dict.rs:745-746`), and lookup_prefix
returns at once on an empty one (`dict.rs:1014`). A theorem with a further
condition says so below.
Every safety property of the runs is proved, but the three of `CandidateList`.

The proofs go one way. A property is seldom inductive, so it is proved from an
invariant that is: that the initial states satisfy it, that every action keeps it
(one lemma for each action, or for the actions that treat the state alike), and
that it implies the property. The inductive invariants were checked by TLC on
the instances of the runs before they were proved.

`Composition_proofs`: `TypeCorrect`, `CursorSafe`, `UndoInStep`, `EnglishModeIdle`,
`CommitFinal`. The inductive invariant `IndInv` adds `UndoNotLonger` (popping a word
while the chain is as long as the words), `CandidatesNeedLetters` and
`CandidatesRead` (a Space on an empty composition would stage a word of no keys)
and `WordsHaveKeys` (a word of no keys has no undo entry, and the chain would shift
against the words).

`KeysStayInLine` is the refinement `Spec => IsKeyLine`, under the condition
`PlainLine`: no more pending words than the undo chain keeps, Chinese marks, no AI
sentences, no reconnect. Outside of it a Backspace on a word, or a chosen AI
sentence, does lose keys (see above). There `LineInv` holds as well: the chain is as
long as the words, hence equal to them (`UndoIsPending`). Then each action maps to
one of `KeyLine`: a letter or an erased letter is one at a position behind the
words (`InsertBehind`, `RemoveBehind`), selecting and undoing only move the border
between words and letters (`StagedLine`, `BackspaceIsLine`), the exits deliver the
whole line. It rests on `KeyStringFacts`: `FlattenSeq` of a sequence with one more
word. The folds of the library are recursive functions chosen by a CHOOSE, so
that needs their existence and uniqueness; both are proved by induction over the
naturals for a set (`NatSet`), since the induction theorems of the library, which
take an operator, cannot be instantiated here.

`KeyRouting_proofs`: `RoutingTypes`, `AccountsRight`, and two properties no run
checks by itself, `KeymapComesFirst` (no press is handled before the keymap, so the
early return of `forward_key` loses none) and `RepeatIsHeld`. The account alone is
not inductive: a press must not be dropped by `forward_key`, hence `Ordered` (keys
of the grab come behind its keymap) and `Named` (names of grabs are used once, so
events of an old grab are told apart); and a tick must be of a key on the account,
hence `RepeatHeld`.

`NoKeyStuck` and `NoReleaseBare`: under `OneGrab`, i.e. for one ACTIVATE or DEACTIVATE,
no lost connection and one Shift. These are the conditions of the run `KeyPairs`;
without them the code breaks both (see above), and they cannot be weakened to a
second activation. Keys, keys held down and events on their way are arbitrary. The
invariant `PairInv` says that the events on their way lead from the keys the shell
takes to be down (`seen \cup appDown`) to those that are (`Replays`, a chain of key
sets along the queue); that no key is both on the account and down in the
application; and that the repeated key and a Shift with an open gesture are on
the account.

`Learning_proofs`: `LearningTypes`, `CountsInOrder`, `ChoicesAddedOnce`,
`ShutdownKeepsAll` and the action property `StoredCountGrows`. `LearnInv` states the
order also for the memory of a process that is closing (`Ascending`), says that
every job not yet written has its own step of the frequency to go (`Behind`), and,
as long as nothing was lost, that every count between database and memory is in
flight (`Complete`); `Shape` says which of channel and hand are empty in each state
of the thread. Frequencies are compared without what others added (`Own`): the miner
and an import raise a row and its `outside` alike (`Outsiders`), and a use over
dict.bin, which reads the row, takes the difference over into memory.

`Mining_proofs`: `MiningTypes`, `TypoNeverIn`, `CountedOnceOnly`, `EvidenceKept` and the
action property `UnusedFadeAway`. `MiningInv` adds that a commit has one row
(`LogOK`, `PlanOK`: rows that show a pair inject into the commits that showed it) and,
while no two minings overlap, that the rows a miner planned with are still in the
log and that a row in the log was counted on neither path (`AloneOK`). The rowid of a
new row is that of no other by `NewRowid`, though numbers come back. `UnusedFadeAway`
needs that the credit of a pair, a sum over all commits, grows with every commit
counted for it (`SumsGrow`, by induction over the size of the set): an unchanged
credit then means that the pair was not merged, only halved.

`PopupCanvas_proofs`: `TypeCorrect`, `BooksRight`, `HeldUntouched` (an action property)
and `NewestIsShown`. `SurfaceInv` is types and account together: the account of a
slot covers the event queue, so that a release can be taken only for a slot that is
neither free nor held. `NewestShown` needs besides `FirstFrame`: before the first
frame the compositor has nothing of the surface, and there is nothing to show on a
window that is not made yet. `PickedIsFree` and lemmas on what appending to and removing from the queue does
to the set of releases carry the steps; they are in `DoubleBuffer_proofs` and serve
the badge too.

`Session_proofs`: `SessionTypes`, `MadeHere`, `SerialRight`, `ModeIsShown`,
`EchoesStayOut`. `SessionInv` adds what is left of a batch (`BatchOK`), which gives
the serial in the middle of one (`Expected`); that an own text and somebody else's
cause are never noted or on their way together unless a batch was cut (`Apart`);
and the account of the badge's buffers (`BadgeInv`).

`Composition_proofs`, last part, the X11 front end: `OneContextOnly`, `EngineIsShown`, and `EngineKeepsItsWord`, which
carries the invariant of the engine over to its use behind the X11 front end.
`XimInv` is both together, with `ListNeedsLetters`: no AI sentence reaches this
engine, so without letters there is nothing to pick.

`Dictionary_proofs`: `VectorsCurrent`, `ReopenIsSilent` (the property
`ReopenChangesNothing`), `HomesCurrent`, `LayersStayApart` (`LayersApart`),
`BothHomesAnswerAlike` (`SameAnswers`) and `LongerStayReachable`
(`CompletionsReachable`), for any rows, uses, imports, readings, lengths and sizes of
a bucket. The invariants:

- `VectorsInv`: both vectors hold the entry of every row, once, with the rank of its
  uses (`Enumerates`). `index` is in order of readings, and the entries of a reading
  stand in order of rank unless it was used before the opening (`IndexOK`): a load
  puts those in order of frequency, and lookups sort them. A use changes a row, a
  count and a block of `index`, which `LearnIndex` sorts again (`LearnIndexOK`).
- `HomesInv` adds the file and the overlay. `FileInv` says that dict.bin holds, by
  reading, what `Built` made of rows that only grew since (`Grows`): the file may
  be old, but it never holds a word the table does not, nor a higher frequency.
  `OverlayOK` says that the overlay lists the user's words, each once, in order of
  pinyin and with the frequency of the table; its ranks may be old, since learn_mem
  does not compute them again over the file.
- `Headed`: every reading in the table is a list of syllables that does not begin
  with the quote, so that a reading that goes on from an abbreviation has a first
  syllable whose bucket, with that of its initial, the hot table reads.

`ReopenIsSilent`: the answers depend on the entries and not on the order they are
kept in. The first layer is the block in order of rank, sorted now or kept so
(`BlockOrder`). The second is sorted by rank from a list in order of reading; the
sort is stable, so rank and reading together give one order (`SecondLayer`, with
`OneOrdering`: a set has one ascending list). Abbreviations bring words of several
readings that rank leaves undecided. There the two lists may differ in entries, but
not in texts: lists of the same members in a weak order have members of equal rank
at every position (`WeaklyAgree`, which counts what comes before each).

`LayersStayApart` is about every layer that `lookup_prefix` joins. Over the index:
the merged vectors are taken apart at the reading (`IndexLayersApart`). Over the
file: blocks, hot table, heap and overlay each bring only words whose reading goes
on from the one typed (`PrefixMeans`, `ScanMembers`, `HotMembers`,
`CompletionMembers`, `OverlayMembers`), and merging admits no text a second time
(`Distinct`, `MergeFacts`). The heap is a fold over a list; a fold of the library
is a recursive function chosen by a CHOOSE, so the proofs unfold it as a sequence
of intermediate values, one for each position (`Traces`, `FoldTrace`), and use
induction over positions within a set.

`BothHomesAnswerAlike` is about what a list cut at its limit keeps. A list *leads* a
set when it is in order of rank, with members of the set alone, holds all of them
or `n`, and nothing it left out comes before anything in it (`Leads`). Two lists
that lead one set agree in their first `n` texts (`LeadsAgree`), so both homes are
shown to lead the words that are asked for:

- over the index it is a sort (`SortLeads`);
- the heap of a walk leads what was pushed, after every entry and every block
  (`Best`, `CollectBest`, `WalkBest`); a block is passed over only when its first
  entry, the best of it, would not get in;
- a bucket of the hot table leads what goes on from its syllable (`Hot`), so what is
  left of it without the syllable's own words still does when it has `limit` of
  them or was never full: the condition `Deep` (`HotCompletions`); for abbreviations
  `HotAbbrev`, under `Headed`;
- the best of the file and the best of the user's words, merged, lead both together
  (`MergeLeads`): a word of the table has its latest frequency in one of them, by
  `FileInv` and `Current` (`Together`), and an old copy of a user's word in the file
  comes behind the new one and goes with its text (`Outdone`);
- taking the texts already shown out of a list costs one entry for each, and the
  code fetches `limit` of them before it cuts to what is left (`WithoutLeads`).

`LongerStayReachable`: the first layer has at most `Cap` entries while a syllable is
open, so half of the list is left (`FirstLayerSize`, `HalfLeft`); the second has as
many as are left or every further text (`MergeReaches`, `LayersReach`). It needs
neither the ranks of the overlay nor their order. The attempt to prove it showed
that over the file it needs `ChosenHere`: the run's words are too few for the case
of `dict.rs:1026` above, in which a completion is in neither layer. The condition
was added to the property.

Only model-checked:

- liveness (`RepeatStops`, `CloseEnds`, `OwedIsDrawn`): the installed provers do
  neither fairness nor ENABLED;
- the properties of `CandidateList`: segmentation and lattice are recursive in the
  letters, and so is the reference they are compared with; the paths are built by
  folds over folds, with texts that only the bounded digits of the instance type;
- `PageOutOfRange`, which is a counterexample.

## Not modelled, and why

- AI client, configuration, rendering, command line, tools: input and output, or
  parsing done once. Their results are CONSTANTS or free choices of the models.
- The tables of the two shuangpin schemes: data, the constant `Pair`.
- Punctuation (quote pairing and the mark after a digit) and the clipboard's
  store and watcher: planned.
- `predict.rs`, the bigram costs and the boost of `set_lm_context`: they change
  numbers that are constants here, not the order of steps.
- In `Dictionary`: the bytes of dict.bin and their validation, the import of
  English words, decay over days.
- In `KeyRouting`: the pass-through of Alt (`route.rs:32`), a shell whose engine
  could not be opened, and a keymap that cannot be mapped.
- In `Session`: a second seat, the signal that stops the shell, poll timeouts.
- In `XimFrontend`: `set_ic_values`, placement and drawing of the window, and keys
  of a client that arrive after another one took the focus.

## Plan

1. `Punctuation` and `ClipStore`: small state machines against abstract ones
   (a list of alternating quotes; the records of a byte stream).

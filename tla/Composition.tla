---------------------------- MODULE Composition ----------------------------
(***************************************************************************)
(* The composition state machine of kime_core::engine::Engine: what one    *)
(* call of Engine::key does to the typed letters, the cursor, the page of  *)
(* candidates, the words chosen but not yet delivered (pending_words) and  *)
(* the undo chain (undo_consumed), and what outcome the shell receives.    *)
(*                                                                         *)
(* Data are abstracted as follows.                                         *)
(*   - A word is the sequence of keys it was typed with: two words that    *)
(*     took the same keys are not told apart.                              *)
(*   - A candidate is the number of keys its own reading covers; NoReading *)
(*     is a candidate without one (an AI sentence asked for while the      *)
(*     preedit was empty).                                                 *)
(*   - A lookup may return any short list of candidates: the dictionary,   *)
(*     the lattice and the English table are modelled by what stage_       *)
(*     candidate uses of their answers.                                    *)
(***************************************************************************)
EXTENDS Integers, Sequences, SequencesExt

CONSTANTS
  Keys,          \* the letters that can be typed
  PageSize,      \* candidates on a page (config.page_size)
  DigitKeys,     \* the digit keys: key d picks row d of the page (10 in the code)
  UndoCap,       \* entries the undo chain keeps (64 in the code)
  MaxKeys,       \* bound: keys held in the composition
  MaxWords,      \* bound: words held in pending_words
  MaxCandidates, \* bound: candidates one lookup returns
  MergesAi,      \* config.ai_realtime may be on: merge_ai is called
  EnglishMarks,  \* the user also works in the English punctuation mode
  Reconnects     \* the shell calls clear_undo while a composition may be alive

ASSUME PageAssumption ==
  PageSize \in Nat \ {0} /\ DigitKeys \in Nat \ {0} /\ UndoCap \in Nat \ {0}

ASSUME BoundAssumption ==
  MaxKeys \in Nat /\ MaxWords \in Nat /\ MaxCandidates \in Nat

ASSUME SwitchAssumption ==
  MergesAi \in BOOLEAN /\ EnglishMarks \in BOOLEAN /\ Reconnects \in BOOLEAN

VARIABLES
  chinese,     \* Chinese mode (FALSE: every key is passed through)
  chinesePunct,\* punct_mode = Chinese
  ai,          \* config.ai_realtime, as it was read at the start
  letters,     \* the typed letters that no word has consumed yet
  cursor,      \* 0..Len(letters), the place a letter is inserted at
  candidates,  \* the candidate list
  pageIndex,   \* the page of candidates shown
  pending,     \* pending_words: chosen words that were not delivered yet
  undo,        \* undo_consumed: the keys the last words consumed
  outcome      \* what the last Engine::key returned, with the text of a Commit

vars == <<chinese, chinesePunct, ai, letters, cursor, candidates, pageIndex,
          pending, undo, outcome>>
modes == <<chinese, chinesePunct, ai>>

Word == Seq(Keys)
NoReading == 0

(* Outcomes. A Commit carries the words it delivers and the raw letters    *)
(* after them.                                                             *)
Outcome(kind, ws, ls) == [kind |-> kind, words |-> ws, tail |-> ls]
OutcomeType ==
  [kind : {"Ignored", "Consumed", "Commit", "Panic"},
   words : Seq(Word), tail : Word]
Ignored == Outcome("Ignored", <<>>, <<>>)
Consumed == Outcome("Consumed", <<>>, <<>>)
Commit(ws, ls) == Outcome("Commit", ws, ls)
Panic == Outcome("Panic", <<>>, <<>>)

Alive == outcome.kind # "Panic"
Typing == Alive /\ chinese
Idle == letters = <<>> /\ pending = <<>>

Highlight == pageIndex * PageSize
TotalPages == (Len(candidates) + PageSize - 1) \div PageSize

KeyString(ws, ls) == FlattenSeq(ws) \o ls
KeysHeld == Len(KeyString(pending, letters))

(* refresh_candidates: any short list for these letters, none without them. *)
Lookups(ls) ==
  IF ls = <<>> THEN {<<>>}
  ELSE UNION {[1..n -> 1..Len(ls)] : n \in 0..MaxCandidates}

(* The keys that staging candidate c consumes: its reading cut to the      *)
(* letters, or the last reading, of any length, when it has none.          *)
Covered(c) ==
  IF c = NoReading THEN 0..Len(letters)
  ELSE {IF c > Len(letters) THEN Len(letters) ELSE c}

(* Mutant: the rest starts one key late.                                   *)
RestOneLate(n) == SubSeq(letters, n + 2, Len(letters))

Taken(n) == SubSeq(letters, 1, n)
Rest(n) == SubSeq(letters, n + 1, Len(letters))

(* Mutant: over the cap the new entry is refused instead.                  *)
PushUndoUntilFull(entry) ==
  IF entry = <<>> \/ Len(undo) >= UndoCap THEN undo ELSE Append(undo, entry)

(* An entry for the keys just consumed; the oldest one goes over the cap.  *)
PushUndo(entry) ==
  LET pushed == Append(undo, entry)
  IN  IF entry = <<>> THEN undo
      ELSE IF Len(pushed) > UndoCap THEN Tail(pushed) ELSE pushed

ClearComposition ==
  /\ letters' = <<>>
  /\ cursor' = 0
  /\ candidates' = <<>>
  /\ pageIndex' = 0
  /\ pending' = <<>>
  /\ undo' = <<>>

----------------------------------------------------------------------------
(* select_candidate: the last letters taken deliver every chosen word at   *)
(* once; letters left over stay composed and are looked up again.          *)

SelectAll(c) ==
  /\ Len(letters) \in Covered(c)
  /\ ClearComposition
  /\ outcome' = Commit(Append(pending, letters), <<>>)

SelectPart(c) ==
  \E n \in Covered(c) :
    /\ n < Len(letters)
    /\ Len(pending) < MaxWords
    /\ pending' = Append(pending, Taken(n))
    /\ undo' = PushUndo(Taken(n))
    /\ letters' = Rest(n)
    /\ cursor' = Len(Rest(n))
    /\ pageIndex' = 0
    /\ candidates' \in Lookups(Rest(n))
    /\ outcome' = Consumed

Select(c) == SelectAll(c) \/ SelectPart(c)

----------------------------------------------------------------------------
(* Mutant: only the letters are asked about, not the chosen words.         *)
ShiftToggleOnWords ==
  /\ Alive
  /\ letters = <<>>
  /\ chinese' = ~chinese
  /\ outcome' = Consumed
  /\ UNCHANGED <<chinesePunct, ai, letters, cursor, candidates, pageIndex,
                 pending, undo>>

(* Shift alone: flips the mode when nothing is composed, otherwise         *)
(* delivers everything raw and goes to English.                            *)

ShiftToggle ==
  /\ Alive
  /\ Idle
  /\ chinese' = ~chinese
  /\ outcome' = Consumed
  /\ UNCHANGED <<chinesePunct, ai, letters, cursor, candidates, pageIndex,
                 pending, undo>>

ShiftFlush ==
  /\ Alive
  /\ ~Idle
  /\ ClearComposition
  /\ chinese' = FALSE
  /\ outcome' = Commit(pending, letters)
  /\ UNCHANGED <<chinesePunct, ai>>

(* Any key in English mode; in Chinese mode a key no branch handles.       *)
PassThrough ==
  /\ Alive
  /\ outcome' = Ignored
  /\ UNCHANGED <<modes, letters, cursor, candidates, pageIndex, pending, undo>>

(* Backspace takes the last word back into the composition, if there is    *)
(* one; the keys come from the undo chain.                                 *)
BackspaceWord ==
  /\ Typing
  /\ pending # <<>>
  /\ LET entry == IF undo = <<>> THEN <<>> ELSE Last(undo)
     IN  /\ letters' = entry \o letters
         /\ cursor' = Len(entry \o letters)
         /\ candidates' \in Lookups(entry \o letters)
  /\ undo' = IF undo = <<>> THEN <<>> ELSE Front(undo)
  /\ pending' = Front(pending)
  /\ pageIndex' = 0
  /\ outcome' = Consumed
  /\ UNCHANGED modes

(* The letters after removing position i, looked up again.                 *)
Erase(i) ==
  /\ letters' = RemoveAt(letters, i)
  /\ candidates' \in Lookups(RemoveAt(letters, i))
  /\ pageIndex' = 0

BackspaceLetter ==
  /\ Typing
  /\ pending = <<>>
  /\ letters # <<>>
  /\ \/ cursor > 0 /\ Erase(cursor) /\ cursor' = cursor - 1
     \/ /\ cursor = 0
        /\ candidates' \in Lookups(letters)
        /\ pageIndex' = 0
        /\ UNCHANGED <<letters, cursor>>
  /\ outcome' = Consumed
  /\ UNCHANGED <<modes, pending, undo>>

Esc ==
  /\ Typing
  /\ ~Idle
  /\ ClearComposition
  /\ outcome' = Consumed
  /\ UNCHANGED modes

TurnPage(p) ==
  /\ Typing
  /\ candidates # <<>>
  /\ pageIndex' = p
  /\ outcome' = Consumed
  /\ UNCHANGED <<modes, letters, cursor, candidates, pending, undo>>

(* Mutant: the page is not held at the first one.                          *)
PrevPageUnheld == TurnPage(pageIndex - 1)

PrevPage == TurnPage(IF pageIndex = 0 THEN 0 ELSE pageIndex - 1)

NextPage ==
  TurnPage(IF pageIndex + 1 < TotalPages THEN pageIndex + 1 ELSE TotalPages - 1)

MoveCursor(c) ==
  /\ Typing
  /\ letters # <<>>
  /\ cursor' = c
  /\ outcome' = Consumed
  /\ UNCHANGED <<modes, letters, candidates, pageIndex, pending, undo>>

(* Mutant: the cursor is not held at the end of the letters.               *)
CtrlFUnheld == MoveCursor(cursor + 1)

CtrlB == MoveCursor(IF cursor = 0 THEN 0 ELSE cursor - 1)
CtrlF == MoveCursor(IF cursor < Len(letters) THEN cursor + 1 ELSE Len(letters))

(* Ctrl+H erases before the cursor and never touches the words; Delete     *)
(* erases after it.                                                        *)
CtrlH ==
  /\ Typing
  /\ letters # <<>>
  /\ \/ cursor > 0 /\ Erase(cursor) /\ cursor' = cursor - 1
     \/ cursor = 0 /\ UNCHANGED <<letters, cursor, candidates, pageIndex>>
  /\ outcome' = Consumed
  /\ UNCHANGED <<modes, pending, undo>>

DeleteForward ==
  /\ Typing
  /\ letters # <<>>
  /\ \/ cursor < Len(letters) /\ Erase(cursor + 1) /\ UNCHANGED cursor
     \/ cursor = Len(letters) /\ UNCHANGED <<letters, cursor, candidates, pageIndex>>
  /\ outcome' = Consumed
  /\ UNCHANGED <<modes, pending, undo>>

----------------------------------------------------------------------------
(* Space picks the highlighted candidate, or delivers what there is.       *)

SpaceSelect ==
  /\ Typing
  /\ Highlight < Len(candidates)
  /\ Select(candidates[Highlight + 1])
  /\ UNCHANGED modes

(* candidates[highlight()] out of bounds, at Space and at a punctuation    *)
(* key: the process panics and has to be started again.                    *)
IndexPanic ==
  /\ Typing
  /\ candidates # <<>>
  /\ Highlight >= Len(candidates)
  /\ outcome' = Panic
  /\ UNCHANGED <<modes, letters, cursor, candidates, pageIndex, pending, undo>>

Restart ==
  /\ ~Alive
  /\ ClearComposition
  /\ chinese' = TRUE
  /\ chinesePunct' \in {TRUE, ~EnglishMarks}
  /\ ai' \in {FALSE, MergesAi}
  /\ outcome' = Ignored

SpaceRelease ==
  /\ Typing
  /\ candidates = <<>>
  /\ ~Idle
  /\ ClearComposition
  /\ outcome' = Commit(pending, letters)
  /\ UNCHANGED modes

----------------------------------------------------------------------------
(* Punctuation delivers the composition in front of the mark.              *)

CtrlDot ==
  /\ Typing
  /\ EnglishMarks
  /\ chinesePunct' = ~chinesePunct
  /\ outcome' = Consumed
  /\ UNCHANGED <<chinese, ai, letters, cursor, candidates, pageIndex, pending, undo>>

(* English marks are delivered as they are: the chain is cleared, the      *)
(* composition is left alone.                                              *)
EnglishMark ==
  /\ Typing
  /\ ~chinesePunct
  /\ undo' = <<>>
  /\ outcome' = Commit(<<>>, <<>>)
  /\ UNCHANGED <<modes, letters, cursor, candidates, pageIndex, pending>>

(* No letters: the words are released in front of the mark.                *)
MarkRelease ==
  /\ Typing
  /\ chinesePunct
  /\ letters = <<>>
  /\ pending' = <<>>
  /\ undo' = <<>>
  /\ outcome' = Commit(pending, <<>>)
  /\ UNCHANGED <<modes, letters, cursor, candidates, pageIndex>>

(* Letters and candidates: the highlighted one is staged first.            *)
MarkTop ==
  /\ Typing
  /\ chinesePunct
  /\ letters # <<>>
  /\ Highlight < Len(candidates)
  /\ \E n \in Covered(candidates[Highlight + 1]) :
       outcome' = Commit(Append(pending, Taken(n)), Rest(n))
  /\ ClearComposition
  /\ UNCHANGED modes

MarkRaw ==
  /\ Typing
  /\ chinesePunct
  /\ letters # <<>>
  /\ candidates = <<>>
  /\ ClearComposition
  /\ outcome' = Commit(pending, letters)
  /\ UNCHANGED modes

----------------------------------------------------------------------------
(* A letter is inserted at the cursor. The page is not turned back.        *)
Letter(k) ==
  /\ Typing
  /\ KeysHeld < MaxKeys
  /\ letters' = InsertAt(letters, cursor + 1, k)
  /\ cursor' = cursor + 1
  /\ candidates' \in Lookups(InsertAt(letters, cursor + 1, k))
  /\ outcome' = Consumed
  /\ UNCHANGED <<modes, pageIndex, pending, undo>>

(* A digit picks a row counted from the top of the page.                   *)
Digit(d) ==
  /\ Typing
  /\ Highlight + d < Len(candidates)
  /\ Select(candidates[Highlight + d + 1])
  /\ UNCHANGED modes

(* Enter delivers words and letters raw; no candidate is used.             *)
EnterRaw ==
  /\ Typing
  /\ letters # <<>>
  /\ ClearComposition
  /\ outcome' = Commit(pending, letters)
  /\ UNCHANGED modes

(* Mutant: the words are joined without release_words.                     *)
EnterReleaseKeepsUndo ==
  /\ Typing
  /\ letters = <<>>
  /\ pending # <<>>
  /\ pending' = <<>>
  /\ outcome' = Commit(pending, <<>>)
  /\ UNCHANGED <<modes, letters, cursor, candidates, pageIndex, undo>>

EnterRelease ==
  /\ Typing
  /\ letters = <<>>
  /\ pending # <<>>
  /\ pending' = <<>>
  /\ undo' = <<>>
  /\ outcome' = Commit(pending, <<>>)
  /\ UNCHANGED <<modes, letters, cursor, candidates, pageIndex>>

----------------------------------------------------------------------------
(* Calls of the shell between two keys.                                    *)

(* set_context + refresh_candidates when a surrounding text arrives.       *)
ContextRefresh ==
  /\ Alive
  /\ candidates' \in Lookups(letters)
  /\ UNCHANGED <<modes, letters, cursor, pageIndex, pending, undo, outcome>>

(* clear_undo when the compositor connection is made again.                *)
ClearUndo ==
  /\ Alive
  /\ Reconnects
  /\ undo' = <<>>
  /\ UNCHANGED <<modes, letters, cursor, candidates, pageIndex, pending, outcome>>

(* merge_ai: a sentence of an earlier request is appended.                 *)
MergeAi(c) ==
  /\ Alive
  /\ ai
  /\ Len(candidates) < MaxCandidates
  /\ candidates' = Append(candidates, c)
  /\ UNCHANGED <<modes, letters, cursor, pageIndex, pending, undo, outcome>>

----------------------------------------------------------------------------
Init ==
  /\ chinese = TRUE
  /\ chinesePunct \in {TRUE, ~EnglishMarks}
  /\ ai \in {FALSE, MergesAi}
  /\ letters = <<>>
  /\ cursor = 0
  /\ candidates = <<>>
  /\ pageIndex = 0
  /\ pending = <<>>
  /\ undo = <<>>
  /\ outcome = Ignored

Next ==
  \/ ShiftToggle \/ ShiftFlush \/ PassThrough
  \/ BackspaceWord \/ BackspaceLetter \/ Esc
  \/ PrevPage \/ NextPage
  \/ CtrlB \/ CtrlF \/ CtrlH \/ DeleteForward
  \/ SpaceSelect \/ IndexPanic \/ Restart \/ SpaceRelease
  \/ CtrlDot \/ EnglishMark \/ MarkRelease \/ MarkTop \/ MarkRaw
  \/ \E k \in Keys : Letter(k)
  \/ \E d \in 0..(DigitKeys - 1) : Digit(d)
  \/ EnterRaw \/ EnterRelease
  \/ ContextRefresh \/ ClearUndo
  \/ \E c \in 0..MaxKeys : MergeAi(c)

Spec == Init /\ [][Next]_vars
----------------------------------------------------------------------------
(* Properties.                                                             *)

(* The types of the engine's fields.                                       *)
TypeOK ==
  /\ chinese \in BOOLEAN
  /\ chinesePunct \in BOOLEAN
  /\ ai \in BOOLEAN
  /\ letters \in Word
  /\ cursor \in Nat
  /\ candidates \in Seq(Nat)
  /\ pageIndex \in Nat
  /\ pending \in Seq(Word)
  /\ undo \in Seq(Word)
  /\ outcome \in OutcomeType

(* The cursor is a place of the letters at every moment: letters.insert,   *)
(* letters.remove and the caret of the preedit index the string with it.   *)
CursorInLetters == cursor <= Len(letters)

(* The undo chain never outgrows the words it belongs to, so it is empty   *)
(* as soon as the words are gone.                                          *)
UndoNotLonger == Len(undo) <= Len(pending)

(* The undo chain holds the keys of the last words in pending, in order,   *)
(* whatever was dropped from it: a Backspace that finds an entry gives a   *)
(* word its own keys back, never those of another word. AI sentences,      *)
(* which may take no key, are the exception.                               *)
UndoMatchesWords ==
  ~ai =>
    \A i \in 1..Len(undo) : undo[i] = pending[Len(pending) - Len(undo) + i]

(* Nothing is composed in English mode. All keys are passed through there, *)
(* Esc too, so a composition left behind could not be cleared by the shell *)
(* when the user goes to another application.                              *)
EnglishIsIdle == ~chinese => Idle /\ undo = <<>>

(* Delivered text is final: no Commit leaves an entry in the undo chain    *)
(* that a later Backspace could pull back into the composition.            *)
CommitEndsUndo == outcome.kind = "Commit" => undo = <<>>

(* Without AI answers, candidates are shown only for letters: a digit or   *)
(* Space on an empty composition cannot deliver a word nobody typed.       *)
CandidatesNeedLetters == ~ai /\ letters = <<>> => candidates = <<>>

(* Without AI answers, each word took at least one key, because each       *)
(* candidate reads at least one.                                           *)
CandidatesRead == ~ai => \A i \in 1..Len(candidates) : candidates[i] # NoReading
WordsHaveKeys == ~ai => \A i \in 1..Len(pending) : pending[i] # <<>>

(* The inductive invariant.                                                *)
IndInv ==
  /\ TypeOK
  /\ CursorInLetters
  /\ UndoNotLonger
  /\ UndoMatchesWords
  /\ EnglishIsIdle
  /\ CommitEndsUndo
  /\ CandidatesNeedLetters
  /\ CandidatesRead
  /\ WordsHaveKeys

(* "The key path must not panic" (learn_or_warn): Space and a mark index   *)
(* the candidate list with the page, so the page must be one of the list.  *)
NoPanic == Alive

(* The composition read as one line of keys: chosen words, then letters.   *)
Line == KeyString(pending, letters)
Delivered ==
  IF outcome.kind = "Commit" THEN KeyString(outcome.words, outcome.tail)
  ELSE <<>>

KeyLine == INSTANCE KeyLine WITH line <- Line, sent <- Delivered

(* The engine implements one editable line of keys: what is typed stays,   *)
(* in order, until it is erased, delivered whole or cancelled.             *)
IsKeyLine == KeyLine!Spec
=============================================================================

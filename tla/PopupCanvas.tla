----------------------------- MODULE PopupCanvas -----------------------------
(***************************************************************************)
(* The candidate window of the Wayland shell: which candidates or which    *)
(* flash of the input mode it is to show, drawn through DoubleBuffer.      *)
(* Modelled whole: new, set_content, flash_chip, clear_chip, hide,         *)
(* on_release and on_frame. A page of candidates with its highlight is one *)
(* image; the empty page is Hidden, a transparent frame of one pixel.      *)
(***************************************************************************)
EXTENDS DoubleBuffer

CONSTANTS
  Pages,  \* pages of candidates
  Chips,  \* flashes of the mode: Chinese and English
  Hidden  \* the image of an empty page

ASSUME ImageAssumption ==
  /\ Images = Pages \cup Chips \cup {Hidden}
  /\ Hidden \notin Pages \cup Chips
  /\ "none" \notin Chips

VARIABLES
  content, \* content and highlight
  chip     \* the flash, "none" without one

vars == <<buffer, content, chip>>

(* A flash covers the candidates.                                          *)
Layout(page, flash) == IF flash # "none" THEN flash ELSE page
Image == Layout(content, chip)

(* The window is made once; its first frame was drawn, or failed.          *)
Created == screen # 0 \/ starved

(* new: the first frame is hidden.                                         *)
New ==
  /\ ~Created
  /\ Present(Hidden, free)
  /\ UNCHANGED <<content, chip, queue>>

(* popup_show: nothing is drawn for the page already set.                  *)
SetContent(page) ==
  /\ Created
  /\ page # content
  /\ content' = page
  /\ Present(Layout(page, chip), free)
  /\ UNCHANGED <<chip, queue>>

FlashChip(c) ==
  /\ Created
  /\ chip' = c
  /\ Present(Layout(content, c), free)
  /\ UNCHANGED <<content, queue>>

ClearChip ==
  /\ Created
  /\ chip # "none"
  /\ chip' = "none"
  /\ Present(content, free)
  /\ UNCHANGED <<content, queue>>

(* Mutant: hide takes the slots back, as it did before the crash it fixed. *)
HideFrees ==
  /\ Created
  /\ content' = Hidden
  /\ chip' = "none"
  /\ free' = Slots
  /\ dirty' = FALSE
  /\ UNCHANGED <<painted, starved, surface, queue>>

(* hide: a hidden frame if something shows; whether or not it was drawn,   *)
(* nothing is owed afterwards.                                             *)
HidePaint ==
  /\ Image # Hidden
  /\ Paint(Hidden, free)

HideNothing ==
  /\ \/ Image = Hidden
     \/ free = {}
     \/ AllocFails /\ Fitting(free, Hidden) = {}
  /\ dirty' = FALSE
  /\ UNCHANGED <<painted, free, starved, surface>>

Hide ==
  /\ Created
  /\ content' = Hidden
  /\ chip' = "none"
  /\ HidePaint \/ HideNothing
  /\ UNCHANGED queue

HandleRelease == OnRelease(Image) /\ UNCHANGED <<content, chip>>
HandleFrame == OnFrame(Image) /\ UNCHANGED <<content, chip>>
Handle == HandleRelease \/ HandleFrame

Compositor ==
  /\ Repaint \/ \E s \in Slots : GiveBack(s)
  /\ UNCHANGED <<content, chip>>

Init ==
  /\ BufferInit
  /\ content = Hidden /\ chip = "none"

Next ==
  \/ New
  \/ \E page \in Pages \cup {Hidden} : SetContent(page)
  \/ \E c \in Chips : FlashChip(c)
  \/ ClearChip
  \/ Hide
  \/ HandleRelease \/ HandleFrame
  \/ Compositor

Spec == Init /\ [][Next]_vars

(* The event loop handles what has arrived, and the compositor gives back  *)
(* a buffer it no longer shows. Nothing is asked of frame callbacks: none  *)
(* comes while the window is not visible.                                  *)
LiveSpec ==
  /\ Spec
  /\ WF_vars(Handle)
  /\ \A s \in Slots : WF_vars(s # screen /\ GiveBack(s) /\ UNCHANGED <<content, chip>>)

----------------------------------------------------------------------------
TypeOK ==
  /\ BufferTypeOK
  /\ content \in Pages \cup {Hidden}
  /\ chip \in Chips \cup {"none"}

(* A buffer the compositor may read is neither painted over nor replaced,  *)
(* through any order of pages, flashes, hiding and late releases.          *)
NoWriteWhileHeld == [][\A s \in held : s \in held' => painted'[s] = painted[s]]_vars

(* The window shows the newest page or flash, or owes it. Only a hidden    *)
(* page may be missing: hide marks the canvas clean after its present.     *)
NewestShown == Created /\ Image # Hidden => dirty \/ Shown = Image

(* What is owed for want of a free slot is drawn, without another key and  *)
(* without a frame callback; a present that fails in create_buffer is the  *)
(* exception.                                                              *)
OwedIsDrawn == (dirty /\ ~starved) ~> (~dirty \/ starved)
=============================================================================

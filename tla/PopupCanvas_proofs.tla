------------------------- MODULE PopupCanvas_proofs -------------------------
(***************************************************************************)
(* The books of free[] are right for every set of images and sizes, and so *)
(* no buffer is painted over or replaced while the compositor may read it; *)
(* and what the window is to show is shown or owed.                        *)
(***************************************************************************)
EXTENDS PopupCanvas, DoubleBuffer_proofs

----------------------------------------------------------------------------
(* The window.                                                             *)

(* Every step of the window keeps this.                                    *)
SurfaceInv == TypeOK /\ FreeIsReturned

LEMMA LayoutIsImage ==
  ASSUME NEW page \in Pages \cup {Hidden}, NEW flash \in Chips \cup {"none"}
  PROVE  Layout(page, flash) \in Images
BY ImageAssumption DEF Layout

LEMMA StepKeeps ==
  ASSUME SurfaceInv, [Next]_vars
  PROVE  /\ SurfaceInv'
         /\ \A s \in held : s \in held' => painted'[s] = painted[s]
<1>1. /\ BufferTypeOK /\ FreeIsReturned
      /\ content \in Pages \cup {Hidden} /\ chip \in Chips \cup {"none"}
  BY DEF SurfaceInv, TypeOK
<1>2. Image \in Images /\ Hidden \in Images /\ content \in Images
  BY <1>1, LayoutIsImage, ImageAssumption DEF Image
<1>3. CASE New
  BY <1>1, <1>2, <1>3, DrawKeeps DEF New, SurfaceInv, TypeOK
<1>4. ASSUME NEW page \in Pages \cup {Hidden}, SetContent(page)
      PROVE  /\ SurfaceInv'
             /\ \A s \in held : s \in held' => painted'[s] = painted[s]
  <2>1. Layout(page, chip) \in Images
    BY <1>1, LayoutIsImage
  <2> QED
    BY <1>1, <1>4, <2>1, DrawKeeps DEF SetContent, SurfaceInv, TypeOK
<1>5. ASSUME NEW c \in Chips, FlashChip(c)
      PROVE  /\ SurfaceInv'
             /\ \A s \in held : s \in held' => painted'[s] = painted[s]
  <2>1. Layout(content, c) \in Images
    BY <1>1, LayoutIsImage
  <2> QED
    BY <1>1, <1>5, <2>1, DrawKeeps DEF FlashChip, SurfaceInv, TypeOK
<1>6. CASE ClearChip
  BY <1>1, <1>2, <1>6, DrawKeeps DEF ClearChip, SurfaceInv, TypeOK
<1>7. CASE Hide
  <2>1. CASE HidePaint
    <3>1. Present(Hidden, free) /\ UNCHANGED queue
      BY <1>7, <2>1 DEF Hide, HidePaint, Present
    <3> QED
      BY <1>1, <1>2, <1>7, <3>1, DrawKeeps DEF Hide, SurfaceInv, TypeOK
  <2>2. CASE HideNothing
    BY <1>1, <1>7, <2>2
    DEF Hide, HideNothing, SurfaceInv, TypeOK, BufferTypeOK, FreeIsReturned, surface
  <2> QED
    BY <1>7, <2>1, <2>2 DEF Hide
<1>8. CASE HandleRelease
  BY <1>1, <1>2, <1>8, OnReleaseKeeps DEF HandleRelease, SurfaceInv, TypeOK
<1>9. CASE HandleFrame
  BY <1>1, <1>2, <1>9, OnFrameKeeps DEF HandleFrame, SurfaceInv, TypeOK
<1>10. CASE Compositor
  BY <1>1, <1>10, CompositorKeeps DEF Compositor, SurfaceInv, TypeOK
<1>11. CASE UNCHANGED vars
  BY <1>1, <1>11
  DEF vars, buffer, surface, SurfaceInv, TypeOK, BufferTypeOK, FreeIsReturned
<1> QED
  BY <1>3, <1>4, <1>5, <1>6, <1>7, <1>8, <1>9, <1>10, <1>11 DEF Next

LEMMA InitKeeps == Init => SurfaceInv
<1> SUFFICES ASSUME Init PROVE SurfaceInv
  OBVIOUS
<1>1. /\ painted = [s \in Slots |-> NoBuffer]
      /\ free = Slots /\ dirty = FALSE /\ starved = FALSE /\ asked = FALSE
      /\ screen = 0 /\ held = {} /\ armed = FALSE /\ queue = <<>>
      /\ content = Hidden /\ chip = "none"
  BY DEF Init, BufferInit
<1>2. \A s \in Slots : Releases(queue, s) = {}
  BY <1>1 DEF Releases
<1>3. queue \in Seq([type : {"Release"}, slot : Slots] \cup [type : {"Frame"}, slot : {0}])
  BY <1>1
<1>4. TypeOK
  BY <1>1, <1>3 DEF TypeOK, BufferTypeOK
<1>5. FreeIsReturned
  BY <1>1, <1>2 DEF FreeIsReturned, Returned
<1> QED
  BY <1>4, <1>5 DEF SurfaceInv

LEMMA Invariance == Spec => []SurfaceInv
<1>1. SurfaceInv /\ [Next]_vars => SurfaceInv'
  BY StepKeeps
<1> QED
  BY InitKeeps, <1>1, PTL DEF Spec

----------------------------------------------------------------------------
(* The window's fields keep their types.                                   *)
THEOREM TypeCorrect == Spec => []TypeOK
<1>1. SurfaceInv => TypeOK
  BY DEF SurfaceInv
<1> QED
  BY <1>1, Invariance, PTL

(* The books of free[]: no order of pages, flashes, hiding, failed         *)
(* allocations and compositor events makes a slot free that the compositor *)
(* still reads, or loses one it gave back.                                 *)
THEOREM BooksRight == Spec => []FreeIsReturned
<1>1. SurfaceInv => FreeIsReturned
  BY DEF SurfaceInv
<1> QED
  BY <1>1, Invariance, PTL

(* A buffer that the compositor may read, before the step and after it, is *)
(* neither painted over nor replaced by the step: hide and present leave   *)
(* it alone whatever else they do.                                         *)
THEOREM HeldUntouched == Spec => NoWriteWhileHeld
<1> DEFINE Kept == \A s \in held : s \in held' => painted'[s] = painted[s]
<1>1. SurfaceInv /\ [Next]_vars => [Kept]_vars
  BY StepKeeps
<1> QED
  BY <1>1, Invariance, PTL DEF Spec, NoWriteWhileHeld

----------------------------------------------------------------------------
(* What the window shows.                                                  *)

(* Before its first frame the surface has nothing of the compositor's, and *)
(* until it is made nothing is set on it.                                  *)
Untouched ==
  screen = 0 => free = Slots /\ held = {} /\ queue = <<>> /\ ~armed /\ ~asked

FirstFrame == Untouched /\ (~Created => content = Hidden /\ chip = "none")

ShownInv == FirstFrame /\ NewestShown

(* The first present finds both slots free, so it draws or fails; a later  *)
(* one may be suspended, but the window is made by then.                   *)
LEMMA PresentCreates ==
  ASSUME BufferTypeOK, Untouched, NEW image, NEW slots \in SUBSET Slots,
         free \subseteq slots, screen = 0 => UNCHANGED queue, Present(image, slots)
  PROVE  Created' /\ Untouched'
<1>1. CASE Suspend(image, slots)
  BY <1>1 DEF Suspend, Untouched, Created, surface, Slots
<1>2. CASE AllocFail(image, slots)
  BY <1>2 DEF AllocFail, Untouched, Created, surface
<1>3. CASE Paint(image, slots)
  <2>1. Picked(slots, image) \in Slots
    BY <1>3, PickedIsFree DEF Paint
  <2> QED
    BY <1>3, <2>1 DEF Paint, Untouched, Created, Slots
<1> QED
  BY <1>1, <1>2, <1>3 DEF Present

(* A handler that presents the image it leaves, with the queue as it is.   *)
LEMMA DrawShows ==
  ASSUME TypeOK, Untouched, Present(Image', free), UNCHANGED queue
  PROVE  ShownInv'
<1>1. free \in SUBSET Slots /\ BufferTypeOK
  BY DEF TypeOK, BufferTypeOK
<1>2. Created' /\ Untouched'
  BY <1>1, PresentCreates
<1>3. dirty' \/ Shown' = Image'
  BY <1>1, PresentShows DEF BufferTypeOK
<1> QED
  BY <1>2, <1>3 DEF ShownInv, FirstFrame, NewestShown

(* A release or a frame callback: what is owed is presented.               *)
LEMMA HandleShows ==
  ASSUME TypeOK, FreeIsReturned, ShownInv, HandleRelease \/ HandleFrame
  PROVE  ShownInv'
<1>1. queue # <<>> /\ screen # 0 /\ UNCHANGED <<content, chip>>
  BY DEF HandleRelease, HandleFrame, OnRelease, OnFrame, Arrives, ShownInv,
     FirstFrame, Untouched
<1>2. PICK slots \in SUBSET Slots :
        free \subseteq slots /\ (IF dirty THEN Present(Image, slots) ELSE Leave(slots))
  <2>1. CASE HandleRelease
    <3>1. queue \in Seq(EventType) /\ Head(queue).type = "Release"
      BY <2>1 DEF HandleRelease, OnRelease, Arrives, TypeOK, BufferTypeOK, EventType
    <3>2. Head(queue).slot \in Slots
      BY <1>1, <3>1, ReleaseReturns DEF FreeIsReturned
    <3> QED
      BY <2>1, <3>2 DEF HandleRelease, OnRelease, TypeOK, BufferTypeOK
  <2>2. CASE HandleFrame
    BY <2>2 DEF HandleFrame, OnFrame, TypeOK, BufferTypeOK
  <2> QED
    BY <2>1, <2>2
<1>3. Image' = Image
  BY <1>1 DEF Image
<1>4. CASE dirty
  <2>1. Present(Image, slots) /\ BufferTypeOK /\ Untouched
    BY <1>2, <1>4 DEF TypeOK, ShownInv, FirstFrame
  <2>2. Created' /\ Untouched'
    BY <1>1, <1>2, <2>1, PresentCreates
  <2>3. dirty' \/ Shown' = Image
    BY <2>1, PresentShows DEF BufferTypeOK
  <2> QED
    BY <1>3, <2>2, <2>3 DEF ShownInv, FirstFrame, NewestShown
<1>5. CASE ~dirty
  <2>1. UNCHANGED <<painted, dirty, starved, screen>>
    BY <1>2, <1>5 DEF Leave, surface
  <2> QED
    BY <1>1, <1>3, <2>1
    DEF ShownInv, FirstFrame, Untouched, NewestShown, Created, Shown
<1> QED
  BY <1>4, <1>5

(* Every step leaves the newest image shown or owed.                       *)
LEMMA ShownStep ==
  ASSUME SurfaceInv, ShownInv, [Next]_vars
  PROVE  ShownInv'
<1>1. TypeOK /\ FreeIsReturned /\ Untouched /\ content \in Pages \cup {Hidden}
  BY DEF SurfaceInv, ShownInv, FirstFrame, TypeOK
<1>2. CASE New
  <2>1. Image' = Hidden
    BY <1>2 DEF New, ShownInv, FirstFrame, Image, Layout
  <2> QED
    BY <1>1, <1>2, <2>1, DrawShows DEF New
<1>3. ASSUME NEW page \in Pages \cup {Hidden}, SetContent(page) PROVE ShownInv'
  BY <1>1, <1>3, DrawShows DEF SetContent, Image
<1>4. ASSUME NEW c \in Chips, FlashChip(c) PROVE ShownInv'
  BY <1>1, <1>4, DrawShows DEF FlashChip, Image
<1>5. CASE ClearChip
  <2>1. Image' = content
    BY <1>5 DEF ClearChip, Image, Layout
  <2> QED
    BY <1>1, <1>5, <2>1, DrawShows DEF ClearChip
<1>6. CASE Hide
  <2>1. Image' = Hidden /\ content' = Hidden /\ chip' = "none" /\ queue' = queue
    BY <1>6 DEF Hide, Image, Layout
  <2>2. CASE HidePaint
    BY <1>1, <2>1, <2>2, DrawShows DEF HidePaint, Present
  <2>3. CASE HideNothing
    BY <1>1, <2>1, <2>3
    DEF HideNothing, ShownInv, FirstFrame, Untouched, NewestShown, surface
  <2> QED
    BY <1>6, <2>2, <2>3 DEF Hide
<1>7. CASE HandleRelease \/ HandleFrame
  BY <1>1, <1>7, HandleShows
<1>8. CASE Compositor
  <2>1. screen # 0 /\ UNCHANGED <<painted, dirty, starved, screen, content, chip>>
    BY <1>1, <1>8 DEF Compositor, Repaint, GiveBack, Untouched
  <2> QED
    BY <2>1
    DEF ShownInv, FirstFrame, Untouched, NewestShown, Created, Shown, Image
<1>9. CASE UNCHANGED vars
  BY <1>9 DEF vars, buffer, surface, ShownInv, FirstFrame, Untouched, NewestShown,
     Created, Shown, Image
<1> QED
  BY <1>2, <1>3, <1>4, <1>5, <1>6, <1>7, <1>8, <1>9 DEF Next

(* The window shows the newest page or flash, or owes it: set_content,     *)
(* flash_chip and clear_chip note what is to show before they draw, and    *)
(* on_release and on_frame draw what is noted by then.                     *)
THEOREM NewestIsShown == Spec => []NewestShown
<1>1. Init => ShownInv
  BY DEF Init, BufferInit, ShownInv, FirstFrame, Untouched, NewestShown, Created,
     Image, Layout
<1>2. SurfaceInv /\ ShownInv /\ [Next]_vars => ShownInv'
  BY ShownStep
<1>3. ShownInv => NewestShown
  BY DEF ShownInv
<1> QED
  BY <1>1, <1>2, <1>3, Invariance, PTL DEF Spec
=============================================================================

------------------------- MODULE DoubleBuffer_proofs -------------------------
(***************************************************************************)
(* What present, the two handlers and the compositor do to the buffers of  *)
(* a surface: facts that the proofs of the candidate window and of the     *)
(* mode badge share.                                                       *)
(***************************************************************************)
EXTENDS DoubleBuffer, SequenceTheorems, TLAPS

----------------------------------------------------------------------------
(* pick_slot takes one of the slots it is given.                           *)
LEMMA PickedIsFree ==
  ASSUME NEW slots \in SUBSET Slots, slots # {}, NEW image
  PROVE  Picked(slots, image) \in slots
<1> DEFINE f == Fitting(slots, image)
<1>1. \A S \in SUBSET Slots : S # {} => Min(S) \in S /\ Max(S) \in S
  <2> SUFFICES ASSUME NEW S \in SUBSET Slots, S # {}
               PROVE  Min(S) \in S /\ Max(S) \in S
    OBVIOUS
  <2>1. \A y \in S : y \in {1, 2}
    BY DEF Slots
  <2>2. CASE 1 \in S /\ 2 \in S
    BY <2>1, <2>2 DEF Min, Max
  <2>3. CASE 1 \in S /\ 2 \notin S
    <3>1. S = {1}
      BY <2>1, <2>3
    <3> QED
      BY <3>1 DEF Min, Max
  <2>4. CASE 1 \notin S /\ 2 \in S
    <3>1. S = {2}
      BY <2>1, <2>4
    <3> QED
      BY <3>1 DEF Min, Max
  <2> QED
    BY <2>1, <2>2, <2>3, <2>4
<1>2. f \in SUBSET Slots /\ f \subseteq slots
  BY DEF Fitting
<1> HIDE DEF f
<1>3. CASE f # {}
  <2>1. Min(f) \in f
    BY <1>1, <1>2, <1>3
  <2>2. Picked(slots, image) = Min(f)
    BY <1>3 DEF Picked, f
  <2> QED
    BY <1>2, <2>1, <2>2
<1>4. CASE f = {}
  <2>1. Picked(slots, image) = Max(slots)
    BY <1>4 DEF Picked, f
  <2> QED
    BY <1>1, <2>1
<1> QED
  BY <1>3, <1>4

(* present shows its image or owes a frame, whatever is free.              *)
LEMMA PresentShows ==
  ASSUME NEW image, NEW slots \in SUBSET Slots,
         painted \in [Slots -> Images \cup {NoBuffer}], Present(image, slots)
  PROVE  dirty' \/ Shown' = image
<1>1. CASE Suspend(image, slots) \/ AllocFail(image, slots)
  BY <1>1 DEF Suspend, AllocFail
<1>2. CASE Paint(image, slots)
  <2>1. Picked(slots, image) \in Slots
    BY <1>2, PickedIsFree DEF Paint
  <2> QED
    BY <1>2, <2>1 DEF Paint, Shown, Slots
<1> QED
  BY <1>1, <1>2 DEF Present

(* Whatever it does, it leaves images in slots.                            *)
LEMMA PresentTypes ==
  ASSUME NEW image \in Images, NEW slots \in SUBSET Slots,
         painted \in [Slots -> Images \cup {NoBuffer}], held \subseteq Slots,
         Present(image, slots)
  PROVE  /\ painted' \in [Slots -> Images \cup {NoBuffer}]
         /\ free' \subseteq Slots /\ held' \subseteq Slots /\ dirty' \in BOOLEAN
<1>1. CASE Suspend(image, slots) \/ AllocFail(image, slots)
  BY <1>1 DEF Suspend, AllocFail, surface
<1>2. CASE Paint(image, slots)
  <2>1. Picked(slots, image) \in Slots
    BY <1>2, PickedIsFree DEF Paint
  <2> QED
    BY <1>2, <2>1 DEF Paint
<1> QED
  BY <1>1, <1>2 DEF Present

----------------------------------------------------------------------------
(* The books of free[] over the releases and frame callbacks of a surface. *)

EventType == [type : {"Release"}, slot : Slots] \cup [type : {"Frame"}, slot : {0}]

----------------------------------------------------------------------------
(* What the operators do to the books.                                     *)

(* The events after the first one.                                         *)
LEMMA TailReleases ==
  ASSUME NEW q \in Seq(EventType), q # <<>>, NEW s \in Slots
  PROVE  /\ Tail(q) \in Seq(EventType)
         /\ \A i \in Releases(Tail(q), s) : i + 1 \in Releases(q, s) /\ i + 1 # 1
         /\ \A i \in Releases(q, s) : i # 1 => i - 1 \in Releases(Tail(q), s)
         /\ 1 \in Releases(q, s) <=> Head(q) = Event("Release", s)
BY DEF Releases

(* One event more.                                                         *)
LEMMA AppendReleases ==
  ASSUME NEW q \in Seq(EventType), NEW e \in EventType, NEW s \in Slots
  PROVE  /\ Append(q, e) \in Seq(EventType)
         /\ e # Event("Release", s) => Releases(Append(q, e), s) = Releases(q, s)
         /\ e = Event("Release", s) =>
              Releases(Append(q, e), s) = Releases(q, s) \cup {Len(q) + 1}
BY DEF Releases

(* Taking a release off the queue makes its slot a free one.               *)
LEMMA ReleaseReturns ==
  ASSUME NEW q \in Seq(EventType), q # <<>>, NEW slots, NEW holds,
         Returned(slots, holds, q), Head(q).type = "Release"
  PROVE  /\ Head(q).slot \in Slots
         /\ Returned(slots \cup {Head(q).slot}, holds, Tail(q))
<1>1. Head(q) \in EventType
  OBVIOUS
<1>2. /\ Head(q).slot \in Slots
      /\ \A s \in Slots : Head(q) = Event("Release", s) <=> s = Head(q).slot
  BY <1>1 DEF EventType, Event
<1>3. ASSUME NEW s \in Slots
      PROVE  /\ s \in slots \cup {Head(q).slot} <=>
                  s \notin holds /\ Releases(Tail(q), s) = {}
             /\ s \in holds => Releases(Tail(q), s) = {}
             /\ \A i, j \in Releases(Tail(q), s) : i = j
  <2>1. /\ s \in slots <=> s \notin holds /\ Releases(q, s) = {}
        /\ s \in holds => Releases(q, s) = {}
        /\ \A i, j \in Releases(q, s) : i = j
    BY DEF Returned
  <2>2. \A i \in Releases(q, s) \cup Releases(Tail(q), s) : i \in Int
    BY DEF Releases
  <2>3. Releases(q, s) = {} => Releases(Tail(q), s) = {}
    BY TailReleases
  <2>4. \A i, j \in Releases(Tail(q), s) : i = j
    BY <2>1, <2>2, TailReleases
  <2>5. CASE s = Head(q).slot
    <3>1. 1 \in Releases(q, s)
      BY <1>2, <2>5, TailReleases
    <3>2. Releases(Tail(q), s) = {}
      BY <2>1, <3>1, TailReleases
    <3> QED
      BY <2>1, <2>5, <3>1, <3>2
  <2>6. CASE s # Head(q).slot
    <3>1. 1 \notin Releases(q, s)
      BY <1>2, <2>6, TailReleases
    <3>2. Releases(Tail(q), s) = {} => Releases(q, s) = {}
      BY <3>1, TailReleases
    <3> QED
      BY <2>1, <2>3, <2>4, <2>6, <3>2
  <2> QED
    BY <2>5, <2>6
<1> QED
  BY <1>2, <1>3 DEF Returned

(* Taking a frame callback off the queue changes nothing.                  *)
LEMMA FrameReturns ==
  ASSUME NEW q \in Seq(EventType), q # <<>>, NEW slots, NEW holds,
         Returned(slots, holds, q), Head(q).type = "Frame"
  PROVE  Returned(slots, holds, Tail(q))
<1>1. ASSUME NEW s \in Slots
      PROVE  /\ s \in slots <=> s \notin holds /\ Releases(Tail(q), s) = {}
             /\ s \in holds => Releases(Tail(q), s) = {}
             /\ \A i, j \in Releases(Tail(q), s) : i = j
  <2>1. /\ s \in slots <=> s \notin holds /\ Releases(q, s) = {}
        /\ s \in holds => Releases(q, s) = {}
        /\ \A i, j \in Releases(q, s) : i = j
    BY DEF Returned
  <2>2. \A i \in Releases(q, s) \cup Releases(Tail(q), s) : i \in Int
    BY DEF Releases
  <2>3. 1 \notin Releases(q, s)
    BY TailReleases DEF Event
  <2>4. Releases(Tail(q), s) = {} <=> Releases(q, s) = {}
    BY <2>3, TailReleases
  <2>5. \A i, j \in Releases(Tail(q), s) : i = j
    BY <2>1, <2>2, TailReleases
  <2> QED
    BY <2>1, <2>4, <2>5
<1> QED
  BY <1>1 DEF Returned

(* A free slot may be handed to the compositor.                            *)
LEMMA PaintReturns ==
  ASSUME NEW q, NEW slots, NEW holds, NEW p \in slots, p \in Slots,
         Returned(slots, holds, q)
  PROVE  p \notin holds /\ Returned(slots \ {p}, holds \cup {p}, q)
BY DEF Returned

(* A buffer given back is on its way until the release is handled.         *)
LEMMA GiveBackReturns ==
  ASSUME NEW q \in Seq(EventType), NEW slots, NEW holds, NEW p \in holds,
         p \in Slots, Returned(slots, holds, q)
  PROVE  Returned(slots, holds \ {p}, Append(q, Event("Release", p)))
<1>1. Event("Release", p) \in EventType
  BY DEF Event, EventType
<1>2. ASSUME NEW s \in Slots
      PROVE  /\ s \in slots <=> /\ s \notin holds \ {p}
                                /\ Releases(Append(q, Event("Release", p)), s) = {}
             /\ s \in holds \ {p} =>
                  Releases(Append(q, Event("Release", p)), s) = {}
             /\ \A i, j \in Releases(Append(q, Event("Release", p)), s) : i = j
  <2>1. /\ s \in slots <=> s \notin holds /\ Releases(q, s) = {}
        /\ s \in holds => Releases(q, s) = {}
        /\ \A i, j \in Releases(q, s) : i = j
    BY DEF Returned
  <2>2. CASE s = p
    BY <1>1, <2>1, <2>2, AppendReleases
  <2>3. CASE s # p
    <3>1. Event("Release", p) # Event("Release", s)
      BY <2>3 DEF Event
    <3> QED
      BY <1>1, <2>1, <2>3, <3>1, AppendReleases
  <2> QED
    BY <2>2, <2>3
<1> QED
  BY <1>2 DEF Returned

----------------------------------------------------------------------------
(* What present keeps, from whatever handler.                              *)

(* The buffers held now are untouched by a present into slots that the     *)
(* books call free.                                                        *)
LEMMA PresentKeeps ==
  ASSUME BufferTypeOK, NEW image \in Images, NEW slots \in SUBSET Slots,
         queue' \in Seq(EventType), Returned(slots, held, queue'),
         Present(image, slots)
  PROVE  /\ BufferTypeOK'
         /\ FreeIsReturned'
         /\ \A s \in held : painted'[s] = painted[s]
<1>1. CASE Suspend(image, slots) \/ AllocFail(image, slots)
  <2>1. /\ free' = slots /\ dirty' \in BOOLEAN /\ starved' \in BOOLEAN
        /\ UNCHANGED <<painted, surface>>
    BY <1>1 DEF Suspend, AllocFail
  <2> QED
    BY <2>1 DEF BufferTypeOK, FreeIsReturned, surface, EventType
<1>2. CASE Paint(image, slots)
  <2> DEFINE slot == Picked(slots, image)
  <2>1. slot \in slots /\ slot \in Slots
    BY <1>2, PickedIsFree DEF Paint
  <2>2. /\ painted' = [painted EXCEPT ![slot] = image]
        /\ free' = slots \ {slot} /\ screen' = slot /\ held' = held \cup {slot}
        /\ armed' = (armed \/ asked) /\ asked' = TRUE
        /\ dirty' = FALSE /\ starved' = FALSE
    BY <1>2 DEF Paint
  <2> HIDE DEF slot
  <2>3. slot \notin held /\ Returned(slots \ {slot}, held \cup {slot}, queue')
    BY <2>1, PaintReturns
  <2>4. BufferTypeOK'
    <3>1. /\ painted' \in [Slots -> Images \cup {NoBuffer}]
          /\ free' \subseteq Slots /\ held' \subseteq Slots
          /\ screen' \in Slots \cup {0}
      BY <2>1, <2>2 DEF BufferTypeOK
    <3>2. armed' \in BOOLEAN /\ asked' \in BOOLEAN /\ dirty' \in BOOLEAN
          /\ starved' \in BOOLEAN
      BY <2>2 DEF BufferTypeOK
    <3> QED
      BY <3>1, <3>2 DEF BufferTypeOK, EventType
  <2> QED
    BY <2>2, <2>3, <2>4 DEF FreeIsReturned, BufferTypeOK
<1> QED
  BY <1>1, <1>2 DEF Present

LEMMA LeaveKeeps ==
  ASSUME BufferTypeOK, NEW slots \in SUBSET Slots,
         queue' \in Seq(EventType), Returned(slots, held, queue'), Leave(slots)
  PROVE  /\ BufferTypeOK'
         /\ FreeIsReturned'
         /\ \A s \in held : painted'[s] = painted[s]
BY DEF Leave, BufferTypeOK, FreeIsReturned, surface, EventType

LEMMA OnReleaseKeeps ==
  ASSUME BufferTypeOK, FreeIsReturned, NEW image \in Images, OnRelease(image)
  PROVE  /\ BufferTypeOK'
         /\ FreeIsReturned'
         /\ \A s \in held : painted'[s] = painted[s]
<1> DEFINE slots == free \cup {Head(queue).slot}
<1>1. queue \in Seq(EventType) /\ queue # <<>> /\ Head(queue).type = "Release"
  BY DEF OnRelease, Arrives, BufferTypeOK, EventType
<1>2. Head(queue).slot \in Slots /\ Returned(slots, held, Tail(queue))
  BY <1>1, ReleaseReturns DEF FreeIsReturned
<1>3. queue' = Tail(queue) /\ Tail(queue) \in Seq(EventType)
  BY <1>1 DEF OnRelease
<1>4. slots \in SUBSET Slots
  BY <1>2 DEF BufferTypeOK
<1>5. Present(image, slots) \/ Leave(slots)
  BY DEF OnRelease
<1> HIDE DEF slots
<1> QED
  BY <1>2, <1>3, <1>4, <1>5, PresentKeeps, LeaveKeeps

LEMMA OnFrameKeeps ==
  ASSUME BufferTypeOK, FreeIsReturned, NEW image \in Images, OnFrame(image)
  PROVE  /\ BufferTypeOK'
         /\ FreeIsReturned'
         /\ \A s \in held : painted'[s] = painted[s]
<1>1. queue \in Seq(EventType) /\ queue # <<>> /\ Head(queue).type = "Frame"
  BY DEF OnFrame, Arrives, BufferTypeOK, EventType
<1>2. Returned(free, held, Tail(queue))
  BY <1>1, FrameReturns DEF FreeIsReturned
<1>3. queue' = Tail(queue) /\ Tail(queue) \in Seq(EventType)
  BY <1>1 DEF OnFrame
<1>4. free \in SUBSET Slots
  BY DEF BufferTypeOK
<1>5. Present(image, free) \/ Leave(free)
  BY DEF OnFrame
<1> QED
  BY <1>2, <1>3, <1>4, <1>5, PresentKeeps, LeaveKeeps

(* A present of a handler that takes no event off the queue.               *)
LEMMA DrawKeeps ==
  ASSUME BufferTypeOK, FreeIsReturned, NEW image \in Images,
         Present(image, free), UNCHANGED queue
  PROVE  /\ BufferTypeOK'
         /\ FreeIsReturned'
         /\ \A s \in held : painted'[s] = painted[s]
<1>1. queue' \in Seq(EventType) /\ free \in SUBSET Slots
  BY DEF BufferTypeOK, EventType
<1>2. Returned(free, held, queue')
  BY DEF FreeIsReturned
<1> QED
  BY <1>1, <1>2, PresentKeeps

LEMMA CompositorKeeps ==
  ASSUME BufferTypeOK, FreeIsReturned,
         Repaint \/ \E s \in Slots : GiveBack(s)
  PROVE  /\ BufferTypeOK'
         /\ FreeIsReturned'
         /\ UNCHANGED painted
<1>1. queue \in Seq(EventType)
  BY DEF BufferTypeOK, EventType
<1>2. CASE Repaint
  <2>1. Event("Frame", 0) \in EventType
    BY DEF Event, EventType
  <2>2. /\ queue' = Append(queue, Event("Frame", 0)) /\ armed' = FALSE
        /\ UNCHANGED <<painted, free, dirty, starved, screen, held, asked>>
    BY <1>2 DEF Repaint
  <2>3. \A s \in Slots : Releases(queue', s) = Releases(queue, s)
    <3>1. \A s \in Slots : Event("Frame", 0) # Event("Release", s)
      BY DEF Event
    <3> QED
      BY <1>1, <2>1, <2>2, <3>1, AppendReleases
  <2>4. queue' \in Seq(EventType)
    BY <1>1, <2>1, <2>2
  <2> QED
    BY <2>2, <2>3, <2>4 DEF BufferTypeOK, FreeIsReturned, Returned, EventType
<1>3. CASE \E s \in Slots : GiveBack(s)
  <2>1. PICK s \in Slots : GiveBack(s)
    BY <1>3
  <2>2. Event("Release", s) \in EventType
    BY DEF Event, EventType
  <2>3. /\ s \in held /\ held' = held \ {s}
        /\ queue' = Append(queue, Event("Release", s))
        /\ UNCHANGED <<painted, free, dirty, starved, screen, armed, asked>>
    BY <2>1 DEF GiveBack
  <2>4. Returned(free, held', queue')
    BY <1>1, <2>3, GiveBackReturns DEF FreeIsReturned
  <2>5. queue' \in Seq(EventType)
    BY <1>1, <2>2, <2>3
  <2> QED
    BY <2>3, <2>4, <2>5 DEF BufferTypeOK, FreeIsReturned, EventType
<1> QED
  BY <1>2, <1>3
=============================================================================

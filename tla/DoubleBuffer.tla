---------------------------- MODULE DoubleBuffer ----------------------------
(***************************************************************************)
(* A Wayland surface drawn through two shm buffers, as PopupCanvas and     *)
(* ModeBadge do it: present looks for a slot the compositor has given      *)
(* back, paints into it and commits; without one the frame is owed until a *)
(* release or a frame callback arrives.                                    *)
(*                                                                         *)
(* Abstracted: the pixels, to the image they show; the layout, to the size *)
(* of an image; frame callbacks fired together, to one event.              *)
(* External: the compositor, which reads a committed buffer until it sends *)
(* its release: when another one is shown, or at once if it copies.        *)
(***************************************************************************)
EXTENDS Integers, Sequences, FiniteSetsExt

CONSTANTS
  Images,     \* what may be drawn
  SizeOf,     \* the size of the layout of each
  AllocFails, \* create_buffer may fail
  MaxQueue    \* bound: events on their way to the shell

Slots == {1, 2}
NoBuffer == "none"

ASSUME BufferAssumption ==
  /\ SizeOf \in [Images -> Nat \ {0}]
  /\ NoBuffer \notin Images
  /\ AllocFails \in BOOLEAN /\ MaxQueue \in Nat

VARIABLES
  \* the shell
  painted, \* buffers: the image in each slot, NoBuffer before the first
  free,    \* slots the compositor gave back
  dirty,   \* a frame is owed
  starved, \* history: the last present failed in create_buffer
  asked,   \* a frame callback was asked for after the last commit
  \* the compositor
  screen,  \* the slot shown, 0 before the first commit
  held,    \* slots it may read
  armed,   \* a frame callback is due at the next repaint
  queue    \* its events on their way to the shell

surface == <<screen, held, armed, asked>>
buffer == <<painted, free, dirty, starved, surface, queue>>

Event(type, slot) == [type |-> type, slot |-> slot]

Size(s) == IF painted[s] = NoBuffer THEN 0 ELSE SizeOf[painted[s]]
Shown == IF screen = 0 THEN NoBuffer ELSE painted[screen]

----------------------------------------------------------------------------
(* present(image), from any handler; q is the queue it leaves.             *)

(* pick_slot: the first free slot of the right size, or the last free one. *)
Fitting(slots, image) == {s \in slots : Size(s) = SizeOf[image]}
Picked(slots, image) ==
  IF Fitting(slots, image) # {} THEN Min(Fitting(slots, image)) ELSE Max(slots)

(* Mutant: the frame is not owed.                                          *)
SuspendForgotten(image, slots) ==
  /\ slots = {}
  /\ free' = slots
  /\ dirty' = FALSE
  /\ starved' = FALSE
  /\ UNCHANGED <<painted, surface>>

(* Both slots are with the compositor.                                     *)
Suspend(image, slots) ==
  /\ slots = {}
  /\ free' = slots
  /\ dirty' = TRUE
  /\ starved' = FALSE
  /\ UNCHANGED <<painted, surface>>

(* The slot holds no buffer of this size and none can be made.             *)
AllocFail(image, slots) ==
  /\ AllocFails
  /\ slots # {} /\ Fitting(slots, image) = {}
  /\ free' = slots
  /\ dirty' = TRUE
  /\ starved' = TRUE
  /\ UNCHANGED <<painted, surface>>

(* Paint, attach and commit. The frame callback is asked for after the     *)
(* commit, so the compositor learns of it with the next one.               *)
Paint(image, slots) ==
  /\ slots # {}
  /\ LET slot == Picked(slots, image)
     IN  /\ painted' = [painted EXCEPT ![slot] = image]
         /\ free' = slots \ {slot}
         /\ screen' = slot
         /\ held' = held \cup {slot}
  /\ armed' = (armed \/ asked)
  /\ asked' = TRUE
  /\ dirty' = FALSE
  /\ starved' = FALSE

Present(image, slots) ==
  Suspend(image, slots) \/ AllocFail(image, slots) \/ Paint(image, slots)

(* A handler that draws nothing and leaves these slots free.               *)
Leave(slots) ==
  /\ free' = slots
  /\ UNCHANGED <<painted, dirty, starved, surface>>

----------------------------------------------------------------------------
(* on_release and on_frame: what is owed is drawn.                         *)

Arrives(type) == queue # <<>> /\ Head(queue).type = type

(* Mutant: the slot is taken back and the owed frame forgotten.            *)
OnReleaseOnly(image) ==
  /\ Arrives("Release")
  /\ queue' = Tail(queue)
  /\ Leave(free \cup {Head(queue).slot})

OnRelease(image) ==
  /\ Arrives("Release")
  /\ queue' = Tail(queue)
  /\ LET slots == free \cup {Head(queue).slot}
     IN  IF dirty THEN Present(image, slots) ELSE Leave(slots)

(* Mutant: the slot of any event is taken back.                            *)
OnFrameFrees(image) ==
  /\ Arrives("Frame")
  /\ queue' = Tail(queue)
  /\ LET slots == free \cup {Head(queue).slot}
     IN  IF dirty THEN Present(image, slots) ELSE Leave(slots)

OnFrame(image) ==
  /\ Arrives("Frame")
  /\ queue' = Tail(queue)
  /\ IF dirty THEN Present(image, free) ELSE Leave(free)

----------------------------------------------------------------------------
(* The compositor.                                                         *)

GiveBack(s) ==
  /\ s \in held
  /\ Len(queue) < MaxQueue
  /\ held' = held \ {s}
  /\ queue' = Append(queue, Event("Release", s))
  /\ UNCHANGED <<painted, free, dirty, starved, screen, armed, asked>>

Repaint ==
  /\ armed
  /\ Len(queue) < MaxQueue
  /\ armed' = FALSE
  /\ queue' = Append(queue, Event("Frame", 0))
  /\ UNCHANGED <<painted, free, dirty, starved, screen, held, asked>>

BufferInit ==
  /\ painted = [s \in Slots |-> NoBuffer]
  /\ free = Slots /\ dirty = FALSE /\ starved = FALSE /\ asked = FALSE
  /\ screen = 0 /\ held = {} /\ armed = FALSE /\ queue = <<>>

----------------------------------------------------------------------------
BufferTypeOK ==
  /\ painted \in [Slots -> Images \cup {NoBuffer}]
  /\ free \subseteq Slots /\ held \subseteq Slots
  /\ screen \in Slots \cup {0}
  /\ dirty \in BOOLEAN /\ starved \in BOOLEAN
  /\ armed \in BOOLEAN /\ asked \in BOOLEAN
  /\ queue \in Seq([type : {"Release"}, slot : Slots] \cup [type : {"Frame"}, slot : {0}])

Releases(q, s) == {i \in 1..Len(q) : q[i] = Event("Release", s)}

Returned(slots, holds, q) ==
  \A s \in Slots :
    /\ s \in slots <=> s \notin holds /\ Releases(q, s) = {}
    /\ s \in holds => Releases(q, s) = {}
    /\ \A i, j \in Releases(q, s) : i = j

(* The books of free[]: a slot is free exactly when the compositor neither *)
(* holds its buffer nor has its release on the way, and a release is never *)
(* on the way twice. A free slot is painted over, and its buffer destroyed *)
(* when the size differs: were it still held, the compositor would read a  *)
(* closed file and end the connection; were one lost, the surface would    *)
(* soon have none to draw on.                                              *)
FreeIsReturned == Returned(free, held, queue)
=============================================================================

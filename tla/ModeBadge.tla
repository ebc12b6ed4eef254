------------------------------ MODULE ModeBadge ------------------------------
(***************************************************************************)
(* The mode badge of the Wayland shell: a layer surface that shows whether *)
(* Chinese or English is typed, drawn through DoubleBuffer. Nothing may be *)
(* attached to it before the compositor has sent a configure, which names  *)
(* the size of its frames; the compositor may also close it.               *)
(*                                                                         *)
(* These are the badge's methods and dispatch arms; Session says when they *)
(* are called. Both sorts of events share the queue of DoubleBuffer: a     *)
(* configure carries the width where a release carries its slot.           *)
(***************************************************************************)
EXTENDS DoubleBuffer

CONSTANTS
  Widths, \* sizes the compositor may assign
  Picture \* the image of a mode at a size

ASSUME BadgeAssumption ==
  /\ Widths \subseteq Nat \ {0}
  /\ Picture \in [BOOLEAN \X Widths -> Images]
  /\ \A m \in BOOLEAN, w \in Widths : SizeOf[Picture[<<m, w>>]] = w

VARIABLES
  badge,      \* the connection it was made on, 0 without a badge
  configured, \* a configure has arrived
  width,      \* the assigned size
  badgeMode   \* chinese: the mode it is to show

badgeVars == <<buffer, badge, configured, width, badgeMode>>

(* Nothing is left of a badge that is dropped, and a new one starts empty. *)
Empty ==
  /\ painted' = [s \in Slots |-> NoBuffer]
  /\ free' = Slots /\ dirty' = FALSE /\ starved' = FALSE /\ asked' = FALSE
  /\ screen' = 0 /\ held' = {} /\ armed' = FALSE /\ queue' = <<>>
  /\ configured' = FALSE /\ width' = 0

(* ensure_badge: made for the mode the engine is in by then; its first     *)
(* commit carries no buffer and asks for a configure.                      *)
MakeBadge(id, mode) == badge' = id /\ badgeMode' = mode /\ Empty

DropBadge == badge' = 0 /\ badgeMode' = TRUE /\ Empty

(* present, over the buffers of DoubleBuffer.                              *)
Draw(mode, w) == Present(Picture[<<mode, w>>], free)

(* Mutant: a badge not configured yet does not note the mode.              *)
ShowModeConfigured(mode) ==
  IF badge # 0 /\ configured /\ badgeMode # mode
  THEN /\ badgeMode' = mode
       /\ Draw(mode, width)
       /\ UNCHANGED <<badge, configured, width, queue>>
  ELSE UNCHANGED badgeVars

(* sync_mode_badge: a new mode is noted, and drawn once there was a        *)
(* configure.                                                              *)
ShowMode(mode) ==
  IF badge # 0 /\ badgeMode # mode
  THEN /\ badgeMode' = mode
       /\ IF configured THEN Draw(mode, width) ELSE Leave(free)
       /\ UNCHANGED <<badge, configured, width, queue>>
  ELSE UNCHANGED badgeVars

(* on_configure: acknowledged, and the first frame drawn at once.          *)
OnConfigure ==
  /\ Arrives("Configure")
  /\ queue' = Tail(queue)
  /\ configured' = TRUE
  /\ width' = Head(queue).slot
  /\ Draw(badgeMode, width')
  /\ UNCHANGED <<badge, badgeMode>>

OnClosed == Arrives("Closed") /\ DropBadge

BadgeRelease ==
  /\ OnRelease(Picture[<<badgeMode, width>>])
  /\ UNCHANGED <<badge, configured, width, badgeMode>>

BadgeFrame ==
  /\ OnFrame(Picture[<<badgeMode, width>>])
  /\ UNCHANGED <<badge, configured, width, badgeMode>>

HandleBadge == OnConfigure \/ OnClosed \/ BadgeRelease \/ BadgeFrame

----------------------------------------------------------------------------
(* The compositor: it assigns sizes, closes the surface, reads buffers.    *)

Announces(event) ==
  /\ badge # 0
  /\ Len(queue) < MaxQueue
  /\ queue' = Append(queue, event)
  /\ UNCHANGED <<painted, free, dirty, starved, surface>>

BadgeCompositor ==
  /\ \/ \E w \in Widths \ {width} : Announces(Event("Configure", w))
     \/ Announces(Event("Closed", 0))
     \/ Repaint
     \/ \E s \in Slots : GiveBack(s)
  /\ UNCHANGED <<badge, configured, width, badgeMode>>

BadgeInit ==
  /\ BufferInit
  /\ badge = 0 /\ configured = FALSE /\ width = 0 /\ badgeMode = TRUE
=============================================================================

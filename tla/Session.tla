------------------------------- MODULE Session -------------------------------
(***************************************************************************)
(* The life of the Wayland shell: run_once connects, binds the globals the *)
(* compositor lists and those it announces later, in any order, and makes  *)
(* input method, virtual keyboard, candidate window and badge out of them. *)
(* ACTIVATE opens the engine and grabs the keyboard; batches of events end *)
(* in a done, which gives the engine its context. When the connection is   *)
(* lost everything made on it is reset and the shell connects again after  *)
(* a backoff; engine, mode and pending events stay.                        *)
(*                                                                         *)
(* An object is the number of the connection it was made on, 0 for none.   *)
(* A surrounding text is "own" when it echoes a commit, "typed" when the   *)
(* application changed it, "split" when its cursor is not between two      *)
(* characters. Keys and the grab's events are in KeyRouting, what the      *)
(* window draws in PopupCanvas, what keys do to the engine in Composition; *)
(* here a key may flip the mode. There is one seat. An input method is     *)
(* made once per connection, so ACTIVATE never finds another instance and  *)
(* its clear_undo is left out.                                             *)
(* External: the compositor and the user.                                  *)
(***************************************************************************)
EXTENDS ModeBadge

CONSTANTS
  Late,        \* globals that may be announced after the first list
  MaxSessions, \* bound: connections
  MaxDone      \* bound: batches of one connection

Globals == {"im_manager", "vk_manager", "seat", "compositor", "shm", "layer_shell"}
ForIm == {"im_manager", "seat"}
ForVk == {"vk_manager", "seat"}
ForPopup == {"compositor", "shm"}
ForBadge == {"compositor", "shm", "layer_shell"}

ASSUME SessionAssumption ==
  Late \subseteq Globals /\ MaxSessions \in Nat /\ MaxDone \in Nat

VARIABLES
  \* the shell
  conn,      \* "down": about to connect after a backoff, "up", "exit"
  session,   \* connections made so far
  backoff,   \* seconds the next loss of the connection sleeps
  bound,     \* globals bound
  im, vk, popup, grab,
  engine,    \* "none", or its mode: "zh", "en"
  tray,      \* the mode the tray shows, TRUE for Chinese
  serial,    \* im_serial
  pending,   \* pending_surrounding and pending_cause
  context,   \* the text the engine's context comes from
  \* the compositor
  dones,     \* done events it sent on this input method
  batch,     \* events of the current batch on their way
  \* history
  cut        \* a connection was lost in the middle of a batch

objects == <<bound, im, vk, popup, grab>>
texts == <<pending, context, cut>>
sent == <<dones, batch>>
vars == <<conn, session, backoff, objects, engine, tray, serial, texts, sent, badgeVars>>

Up == conn = "up"
Chinese(e) == e # "en"
NothingPending == [text |-> "none", cause |-> "input_method"]

----------------------------------------------------------------------------
(* Connecting.                                                             *)

(* try_bind_im, try_bind_vk, ensure_badge: made once, when nothing misses. *)
TryBindIm(id, have) == IF im = 0 /\ ForIm \subseteq have THEN id ELSE im
TryBindVk(id, have) == IF vk = 0 /\ ForVk \subseteq have THEN id ELSE vk

EnsureBadge(id, have) ==
  IF badge = 0 /\ ForBadge \subseteq have
  THEN /\ MakeBadge(id, Chinese(engine))
       /\ tray' = Chinese(engine)
  ELSE UNCHANGED <<badgeVars, tray>>

(* run_once: the listed globals are bound first, then used.                *)
Connect ==
  /\ conn = "down" /\ session < MaxSessions
  /\ conn' = "up"
  /\ session' = session + 1
  /\ \E late \in SUBSET Late :
       /\ bound' = Globals \ late
       /\ im' = TryBindIm(session', bound')
       /\ vk' = TryBindVk(session', bound')
       /\ EnsureBadge(session', bound')
  /\ UNCHANGED <<backoff, popup, grab, engine, serial, texts, sent>>

(* Mutant: a late seat is not tried.                                       *)
HandleGlobalSeatless(g) ==
  /\ Up /\ g \in Late \ bound
  /\ bound' = bound \cup {g}
  /\ im' = IF g = "im_manager" THEN TryBindIm(session, bound') ELSE im
  /\ vk' = IF g \in ForVk THEN TryBindVk(session, bound') ELSE vk
  /\ IF g \in ForBadge THEN EnsureBadge(session, bound') ELSE UNCHANGED <<badgeVars, tray>>
  /\ UNCHANGED <<conn, session, backoff, popup, grab, engine, serial, texts, sent>>

(* A global that is announced later: whatever it completes is made.        *)
HandleGlobal(g) ==
  /\ Up /\ g \in Late \ bound
  /\ bound' = bound \cup {g}
  /\ im' = IF g \in ForIm THEN TryBindIm(session, bound') ELSE im
  /\ vk' = IF g \in ForVk THEN TryBindVk(session, bound') ELSE vk
  /\ IF g \in ForBadge THEN EnsureBadge(session, bound') ELSE UNCHANGED <<badgeVars, tray>>
  /\ UNCHANGED <<conn, session, backoff, popup, grab, engine, serial, texts, sent>>

(* Mutant: no ceiling.                                                     *)
NextBackoffUncapped(current, healthy) == IF healthy THEN 1 ELSE 2 * current

(* next_backoff_ms, in seconds.                                            *)
NextBackoff(current, healthy) ==
  IF healthy THEN 1 ELSE IF 2 * current > 30 THEN 30 ELSE 2 * current

(* A connection that fails before the event loop; what it bound is reset.  *)
ConnectFails ==
  /\ conn = "down"
  /\ backoff' = NextBackoff(backoff, FALSE)
  /\ UNCHANGED <<conn, session, objects, engine, tray, serial, texts, sent, badgeVars>>

(* Mutant: the serial of the old input method goes on.                     *)
LoseConnectionSerial ==
  /\ Up
  /\ conn' = "down"
  /\ \E healthy \in BOOLEAN : backoff' = NextBackoff(backoff, healthy)
  /\ bound' = {} /\ im' = 0 /\ vk' = 0 /\ popup' = 0 /\ grab' = 0
  /\ DropBadge
  /\ dones' = 0 /\ batch' = <<>>
  /\ cut' = (cut \/ pending # NothingPending)
  /\ UNCHANGED <<session, engine, tray, serial, pending, context>>

(* ConnLost and reset_wayland_objects. The sleep is before the next        *)
(* Connect. What is pending stays pending.                                 *)
LoseConnection ==
  /\ Up
  /\ conn' = "down"
  /\ \E healthy \in BOOLEAN : backoff' = NextBackoff(backoff, healthy)
  /\ bound' = {} /\ im' = 0 /\ vk' = 0 /\ popup' = 0 /\ grab' = 0
  /\ DropBadge
  /\ serial' = 0
  /\ dones' = 0 /\ batch' = <<>>
  /\ cut' = (cut \/ pending # NothingPending)
  /\ UNCHANGED <<session, engine, tray, pending, context>>

----------------------------------------------------------------------------
(* Events of the input method.                                             *)

Said(type, what) == [type |-> type, what |-> what]
Arrived(type) == Up /\ batch # <<>> /\ Head(batch).type = type
Taken == batch' = Tail(batch) /\ UNCHANGED dones

(* ensure_engine: opened unless it is; Dict::open may fail.                *)
EnsureEngine ==
  \/ engine # "none" /\ UNCHANGED <<engine, tray>>
  \/ engine = "none" /\ engine' = "zh" /\ tray' = TRUE
  \/ engine = "none" /\ UNCHANGED <<engine, tray>>

HandleActivate ==
  /\ Arrived("Activate") /\ Taken
  /\ EnsureEngine
  /\ popup' = IF popup = 0 /\ ForPopup \subseteq bound THEN session ELSE popup
  /\ grab' = session
  /\ UNCHANGED <<conn, session, backoff, bound, im, vk, serial, texts, badgeVars>>

HandleDeactivate ==
  /\ Arrived("Deactivate") /\ Taken
  /\ grab' = 0
  /\ UNCHANGED <<conn, session, backoff, bound, im, vk, popup, engine, tray,
                 serial, texts, badgeVars>>

HandleSurroundingText ==
  /\ Arrived("Text") /\ Taken
  /\ pending' = [pending EXCEPT !.text = Head(batch).what]
  /\ UNCHANGED <<conn, session, backoff, objects, engine, tray, serial, context,
                 cut, badgeVars>>

HandleTextChangeCause ==
  /\ Arrived("Cause") /\ Taken
  /\ pending' = [pending EXCEPT !.cause = Head(batch).what]
  /\ UNCHANGED <<conn, session, backoff, objects, engine, tray, serial, context,
                 cut, badgeVars>>

(* plan_context_commit: an echo is not applied, a batch without text       *)
(* changes nothing, and a text that cannot be cut leaves no context.       *)
PlanContextCommit(p) ==
  IF p.cause = "input_method" \/ p.text = "none" THEN context
  ELSE IF p.text = "split" THEN "none" ELSE p.text

(* Mutant: an echo leaves before the pending state is reset.               *)
HandleDoneEchoKept ==
  /\ Arrived("Done") /\ Taken
  /\ serial' = serial + 1
  /\ context' = IF engine = "none" THEN context ELSE PlanContextCommit(pending)
  /\ pending' = IF pending.cause = "input_method" THEN pending ELSE NothingPending
  /\ cut' = (cut /\ context' = "own")
  /\ UNCHANGED <<conn, session, backoff, objects, engine, tray, badgeVars>>

(* Done: the pending state is used up, applied or not.                     *)
HandleDone ==
  /\ Arrived("Done") /\ Taken
  /\ serial' = serial + 1
  /\ context' = IF engine = "none" THEN context ELSE PlanContextCommit(pending)
  /\ pending' = NothingPending
  /\ cut' = (cut /\ context' = "own")
  /\ UNCHANGED <<conn, session, backoff, objects, engine, tray, badgeVars>>

(* Another input method owns the seat: everything is torn down.            *)
HandleUnavailable ==
  /\ Arrived("Unavailable") /\ Taken
  /\ conn' = "exit"
  /\ grab' = 0 /\ vk' = 0 /\ im' = 0
  /\ UNCHANGED <<session, backoff, bound, popup, engine, tray, serial, texts, badgeVars>>

HandleIm ==
  \/ HandleActivate \/ HandleDeactivate \/ HandleUnavailable
  \/ HandleSurroundingText \/ HandleTextChangeCause \/ HandleDone

(* A tap of Shift flips the mode; engine_press then shows it.              *)
HandleKey ==
  /\ Up /\ grab # 0 /\ engine # "none"
  /\ engine' = IF engine = "zh" THEN "en" ELSE "zh"
  /\ tray' = Chinese(engine')
  /\ ShowMode(Chinese(engine'))
  /\ UNCHANGED <<conn, session, backoff, objects, serial, texts, sent>>

HandleBadgeEvent ==
  /\ Up
  /\ HandleBadge
  /\ UNCHANGED <<conn, session, backoff, objects, engine, tray, serial, texts, sent>>

----------------------------------------------------------------------------
(* The compositor.                                                         *)

Changes ==
  {<<>>, <<Said("Cause", "other")>>,
   <<Said("Text", "own"), Said("Cause", "input_method")>>, <<Said("Text", "own")>>,
   <<Said("Text", "typed"), Said("Cause", "other")>>,
   <<Said("Text", "split"), Said("Cause", "other")>>}

(* One batch of events: what an application said of itself, with or        *)
(* without a text, the cause left out where it was this input method; or   *)
(* that none has the focus.                                                *)
Batches ==
  {Append(c, Said("Done", "")) : c \in Changes}
    \cup {<<Said("Activate", "")>> \o c \o <<Said("Done", "")>> : c \in Changes}
    \cup {<<Said("Deactivate", ""), Said("Done", "")>>}

SendBatch ==
  /\ Up /\ im # 0 /\ batch = <<>> /\ dones < MaxDone
  /\ dones' = dones + 1
  /\ batch' \in Batches
  /\ UNCHANGED <<conn, session, backoff, objects, engine, tray, serial, texts, badgeVars>>

RefuseIm ==
  /\ Up /\ im # 0 /\ batch = <<>>
  /\ batch' = <<Said("Unavailable", "")>>
  /\ UNCHANGED <<conn, session, backoff, objects, engine, tray, serial, texts, dones, badgeVars>>

DrawBadge ==
  /\ Up
  /\ BadgeCompositor
  /\ UNCHANGED <<conn, session, backoff, objects, engine, tray, serial, texts, sent>>

Init ==
  /\ conn = "down" /\ session = 0 /\ backoff = 1
  /\ bound = {} /\ im = 0 /\ vk = 0 /\ popup = 0 /\ grab = 0
  /\ engine = "none" /\ tray = TRUE /\ serial = 0
  /\ pending = NothingPending /\ context = "none" /\ cut = FALSE
  /\ dones = 0 /\ batch = <<>>
  /\ BadgeInit

Next ==
  \/ Connect \/ ConnectFails \/ LoseConnection
  \/ \E g \in Globals : HandleGlobal(g)
  \/ HandleIm \/ HandleKey \/ HandleBadgeEvent
  \/ SendBatch \/ RefuseIm \/ DrawBadge

Spec == Init /\ [][Next]_vars

----------------------------------------------------------------------------
(* The types of the shell's and the compositor's state; the backoff is one *)
(* of the doublings of a second, cut at half a minute.                     *)
TypeOK ==
  /\ conn \in {"down", "up", "exit"}
  /\ session \in 0..MaxSessions /\ {im, vk, popup, grab, badge} \subseteq 0..session
  /\ backoff \in {1, 2, 4, 8, 16, 30}
  /\ bound \subseteq Globals
  /\ engine \in {"none", "zh", "en"} /\ {tray, cut, configured, badgeMode} \subseteq BOOLEAN
  /\ serial \in Nat /\ dones \in 0..MaxDone
  /\ pending \in [text : {"none", "own", "typed", "split"}, cause : {"input_method", "other"}]
  /\ context \in {"none", "own", "typed"}
  /\ width \in Widths \cup {0}

(* In whatever order the globals come, and however often the connection    *)
(* was lost: input method and virtual keyboard are made as soon as what    *)
(* they need is there, once, and nothing is left of another connection.    *)
MadeOnThisConnection ==
  /\ Up => im = (IF ForIm \subseteq bound THEN session ELSE 0)
  /\ Up => vk = (IF ForVk \subseteq bound THEN session ELSE 0)
  /\ {popup, grab, badge} \subseteq IF conn = "down" THEN {0} ELSE {0, session}
  /\ popup # 0 => ForPopup \subseteq bound
  /\ badge # 0 => ForBadge \subseteq bound

(* Commits carry the number of dones this input method has sent and the    *)
(* shell has handled; the compositor ignores them otherwise.               *)
SerialCounts ==
  Up => serial + Cardinality({i \in 1..Len(batch) : batch[i].type = "Done"}) = dones

(* Tray and badge show the engine's mode, or owe it: after any order of    *)
(* late globals, configures and releases, in a badge made while English    *)
(* was typed as in one made anew after a reconnect.                        *)
ModeShown ==
  /\ tray = Chinese(engine)
  /\ badge # 0 => badgeMode = Chinese(engine)
  /\ configured => dirty \/ Shown = Picture[<<badgeMode, width>>]

(* The engine's own commits never come back to it as context, unless the   *)
(* connection was lost between a text and its done.                        *)
EchoStaysOut == context = "own" => cut
=============================================================================

----------------------------- MODULE KeyRouting -----------------------------
(***************************************************************************)
(* The way of a physical key through the Wayland shell (platform-wayland): *)
(* the compositor sends it to the keyboard grab, the event loop handles it *)
(* in order, the engine consumes it or not, and the shell forwards press   *)
(* and release to the application through the virtual keyboard.            *)
(*                                                                         *)
(* Modelled whole: ACTIVATE and DEACTIVATE, the grab's Keymap and Key      *)
(* events, SwallowTracker, KeyRepeat and its ticks, ShiftComposer,         *)
(* clip_route, route_press, route_release and a lost connection.           *)
(* Abstracted: the engine, to whether it composes and shows a preedit; the *)
(* place in the clipboard list; the 500 ms and 33 ms of the repeat timer,  *)
(* whose tick may come at any time before the events still on their way.   *)
(* External: the user, the compositor and the application, from how the    *)
(* shell uses them.                                                        *)
(***************************************************************************)
EXTENDS Integers, Sequences, FiniteSets

CONSTANTS
  Letters,     \* letter keys
  Edits,       \* keys that edit the composition or turn its pages
  Picks,       \* keys that choose a candidate: Space, a digit
  Marks,       \* punctuation keys
  Others,      \* keys the engine never handles
  Shifts,      \* the two Shift keys
  ClipKeys,    \* C-; (clipboard mode)
  ClipMoves,   \* j and k: they move in the clipboard list
  ClipLeaves,  \* Enter, Space, Esc, Backspace: they leave clipboard mode
  Repeatable,  \* the key codes is_repeatable_edit accepts
  MaxDown,     \* bound: keys held down at the same time
  MaxFocus,    \* bound: ACTIVATE and DEACTIVATE events
  MaxQueue,    \* bound: events on their way to the shell
  LosesConnection \* the compositor connection may be lost, once

Keys == Letters \cup Edits \cup Picks \cup Marks \cup Others \cup Shifts \cup ClipKeys

ASSUME KeyAssumption ==
  /\ Repeatable \cup ClipMoves \cup ClipLeaves \subseteq Keys
  /\ "none" \notin Keys

ASSUME ClassAssumption ==
  /\ Shifts \cap (Letters \cup ClipMoves \cup ClipLeaves \cup ClipKeys \cup Repeatable) = {}

ASSUME BoundAssumption ==
  MaxDown \in Nat /\ MaxFocus \in Nat /\ MaxQueue \in Nat /\ LosesConnection \in BOOLEAN

VARIABLES
  \* keyboard and compositor
  physDown,   \* keys held down by the user
  cGrab,      \* the grab the compositor sends keys to, 0 without one
  queue,      \* events on their way to the shell
  focused,    \* number of ACTIVATE and DEACTIVATE events sent
  lost,       \* the connection was lost
  \* shell
  grab,       \* state.grab, 0 for None
  grabs,      \* number of grabs requested so far, the newest one's name
  swallowed,  \* SwallowTracker: keys whose release is to be swallowed
  repeat,     \* KeyRepeat: the key repeated, "none" without one
  gesture,    \* ShiftGesture
  shiftsDown, \* ShiftComposer::shifts_down
  clip,       \* clip_pick is Some
  vkReady,    \* vk_keymap_ready
  \* engine
  chinese,    \* Engine::chinese
  comp,       \* "none", "hidden" (composing, preedit empty) or "shown"
  \* application, and the history of what the shell handled
  appDown,    \* keys the application takes to be down
  bare,       \* the shell sent a release the application saw no press of
  seen        \* keys whose press the current grab handled, the release not yet

board == <<physDown, cGrab, queue, focused, lost>>
shell == <<grab, grabs, swallowed, repeat, gesture, shiftsDown, clip, vkReady>>
engine == <<chinese, comp>>
app == <<appDown, bare>>
vars == <<board, shell, engine, app, seen>>

Event(type, g, k) == [type |-> type, grab |-> g, key |-> k]
Send(e) == queue' = Append(queue, e)

----------------------------------------------------------------------------
(* The user and the compositor. Keys go to the grab the compositor knows   *)
(* of, or straight to the application without one.                         *)

Press(k) ==
  /\ k \notin physDown
  /\ Cardinality(physDown) < MaxDown
  /\ Len(queue) < MaxQueue
  /\ physDown' = physDown \cup {k}
  /\ IF cGrab # 0
     THEN Send(Event("Press", cGrab, k)) /\ UNCHANGED app
     ELSE appDown' = appDown \cup {k} /\ UNCHANGED <<queue, bare>>
  /\ UNCHANGED <<cGrab, focused, lost, shell, engine, seen>>

Release(k) ==
  /\ k \in physDown
  /\ Len(queue) < MaxQueue
  /\ physDown' = physDown \ {k}
  /\ IF cGrab # 0
     THEN Send(Event("Release", cGrab, k)) /\ UNCHANGED app
     ELSE appDown' = appDown \ {k} /\ UNCHANGED <<queue, bare>>
  /\ UNCHANGED <<cGrab, focused, lost, shell, engine, seen>>

(* ACTIVATE may follow ACTIVATE without a DEACTIVATE in between.           *)
SendFocus(type) ==
  /\ focused < MaxFocus
  /\ Len(queue) < MaxQueue
  /\ focused' = focused + 1
  /\ Send(Event(type, 0, "none"))
  /\ UNCHANGED <<physDown, cGrab, lost, shell, engine, app, seen>>

(* The compositor comes to the shell's requests: it drops the old grab and *)
(* sends the keymap of the new one.                                        *)
TakeGrab ==
  /\ cGrab # grab
  /\ Len(queue) < MaxQueue
  /\ cGrab' = grab
  /\ IF grab # 0 THEN Send(Event("Keymap", grab, "none")) ELSE UNCHANGED queue
  /\ UNCHANGED <<physDown, focused, lost, shell, engine, app, seen>>

----------------------------------------------------------------------------
(* Engine::key seen from the shell: outcome, mode and composition. A key   *)
(* may be let through whatever its class, and a candidate be there without *)
(* a composition, once an AI answer came late.                             *)

Answer(o, z, c) == [outcome |-> o, chinese |-> z, comp |-> c]
Composed == {"hidden", "shown"}

(* The composition after a key that is consumed: an edit without a         *)
(* composition can only turn a page of AI sentences.                       *)
ConsumeLeaves(k) ==
  IF k \in Letters \cup Picks THEN Composed
  ELSE IF k \notin Edits THEN {}
  ELSE IF comp = "none" THEN {"none"} ELSE Composed \cup {"none"}

(* The composition after a key that delivers text.                         *)
CommitLeaves(k) ==
  IF k \in Marks THEN {comp, "none"} ELSE IF k \in Picks THEN {"none"} ELSE {}

EngineKey(k) ==
  IF k \in Shifts THEN
    IF comp = "none" THEN {Answer("Consumed", ~chinese, "none")}
    ELSE {Answer("Commit", FALSE, "none")}
  ELSE IF ~chinese THEN {Answer("Ignored", FALSE, comp)}
  ELSE {Answer("Consumed", TRUE, c) : c \in ConsumeLeaves(k)}
       \cup {Answer("Commit", TRUE, c) : c \in CommitLeaves(k)}
       \cup {Answer("Ignored", TRUE, c) : c \in IF k \in Letters THEN {} ELSE {comp}}

----------------------------------------------------------------------------
(* forward_key: nothing goes out before the virtual keyboard has a keymap. *)

ForwardPress(k) ==
  /\ appDown' = IF vkReady THEN appDown \cup {k} ELSE appDown
  /\ UNCHANGED bare

ForwardRelease(k) ==
  /\ appDown' = IF vkReady THEN appDown \ {k} ELSE appDown
  /\ bare' = (bare \/ (vkReady /\ k \notin appDown))

(* clip_mode_key: j and k stay in clipboard mode while its list has        *)
(* entries, the other keys of the mode leave it; all are swallowed.        *)
ClipTakes(k) == k \in ClipKeys \/ (clip /\ k \in ClipMoves \cup ClipLeaves)

ClipMode(k) ==
  /\ ClipTakes(k)
  /\ swallowed' = swallowed \cup {k}
  /\ \/ k \in ClipKeys /\ clip' = ~clip
     \/ k \in ClipMoves \ ClipKeys /\ clip' \in BOOLEAN
     \/ k \in ClipLeaves \ ClipKeys /\ clip' = FALSE
  /\ UNCHANGED <<repeat, engine, app>>

Disarmed(k) == IF repeat = k THEN "none" ELSE repeat

(* PressAction::Consume, for Consumed and for Commit.                      *)
Consume(k, r, synthetic) ==
  /\ r.outcome \in {"Consumed", "Commit"}
  /\ swallowed' = swallowed \cup {k}
  /\ repeat' = IF r.outcome = "Commit" THEN Disarmed(k)
               ELSE IF ~synthetic /\ r.comp = "shown" /\ k \in Repeatable THEN k
               ELSE repeat
  /\ UNCHANGED app

Forward(k, r) ==
  /\ r.outcome = "Ignored"
  /\ swallowed' = swallowed \ {k}
  /\ repeat' = Disarmed(k)
  /\ ForwardPress(k)

(* Mutant: the second consume of tap_pair is missing.                      *)
TapForgotten(k, r) ==
  /\ r.outcome = "Ignored"
  /\ swallowed' = swallowed \ {k}
  /\ appDown' = IF vkReady THEN appDown \ {k} ELSE appDown
  /\ UNCHANGED <<repeat, bare>>

(* PressAction::Tap, a press and a release at once: the release that the   *)
(* key still owes is swallowed.                                            *)
Tap(k, r) ==
  /\ r.outcome = "Ignored"
  /\ swallowed' = swallowed \cup {k}
  /\ appDown' = IF vkReady THEN appDown \ {k} ELSE appDown
  /\ UNCHANGED <<repeat, bare>>

(* engine_press for a key that clipboard mode does not take; the key ends  *)
(* the mode.                                                               *)
EnginePress(k, synthetic) ==
  /\ ~ClipTakes(k)
  /\ clip' = FALSE
  /\ \E r \in EngineKey(k) :
       /\ chinese' = r.chinese
       /\ comp' = r.comp
       /\ \/ Consume(k, r, synthetic)
          \/ ~synthetic /\ Forward(k, r)
          \/ synthetic /\ Tap(k, r)

PressKey(k, synthetic) == ClipMode(k) \/ EnginePress(k, synthetic)

----------------------------------------------------------------------------
(* The event loop. Events of a grab that is not the current one are        *)
(* dropped.                                                                *)

Arrives(type) == queue # <<>> /\ Head(queue).type = type
Current == Head(queue).grab = grab /\ grab # 0
Handled == queue' = Tail(queue) /\ UNCHANGED <<physDown, cGrab, focused, lost>>

DropStale ==
  /\ queue # <<>>
  /\ Head(queue).type \in {"Press", "Release", "Keymap"}
  /\ ~Current
  /\ Handled
  /\ UNCHANGED <<shell, engine, app, seen>>

HandleKeymap ==
  /\ Arrives("Keymap") /\ Current
  /\ vkReady' = TRUE
  /\ Handled
  /\ UNCHANGED <<grab, grabs, swallowed, repeat, gesture, shiftsDown, clip,
                 engine, app, seen>>

(* A Shift press without a preedit only opens the gesture.                 *)
HandleShiftGesture ==
  /\ Arrives("Press") /\ Current
  /\ Head(queue).key \in Shifts
  /\ comp # "shown"
  /\ swallowed' = swallowed \cup {Head(queue).key}
  /\ shiftsDown' = shiftsDown + 1
  /\ gesture' = IF gesture = "Idle" THEN "Armed" ELSE gesture
  /\ seen' = seen \cup {Head(queue).key}
  /\ Handled
  /\ UNCHANGED <<grab, grabs, repeat, clip, vkReady, engine, app>>

HandleShiftPress ==
  /\ Arrives("Press") /\ Current
  /\ Head(queue).key \in Shifts
  /\ comp = "shown"
  /\ PressKey(Head(queue).key, FALSE)
  /\ seen' = seen \cup {Head(queue).key}
  /\ Handled
  /\ UNCHANGED <<grab, grabs, gesture, shiftsDown, vkReady>>

(* Letters typed while the gesture is open go to the application.          *)
Bypasses(k) == gesture # "Idle" /\ k \in Letters

HandlePress ==
  /\ Arrives("Press") /\ Current
  /\ LET k == Head(queue).key
     IN  /\ k \notin Shifts
         /\ gesture' = IF gesture = "Idle" THEN "Idle" ELSE "HoldActive"
         /\ \/ /\ Bypasses(k)
               /\ ForwardPress(k)
               /\ UNCHANGED <<swallowed, repeat, clip, engine>>
            \/ ~Bypasses(k) /\ PressKey(k, FALSE)
         /\ seen' = seen \cup {k}
  /\ Handled
  /\ UNCHANGED <<grab, grabs, shiftsDown, vkReady>>

(* Mutant: the swallowed release stays on the account.                     *)
RouteReleaseKept(k, sw) ==
  /\ repeat' = Disarmed(k)
  /\ swallowed' = sw
  /\ IF k \in sw THEN UNCHANGED app ELSE ForwardRelease(k)

(* route_release: the key's repeat stops, and its release is forwarded     *)
(* unless its press was consumed.                                          *)
RouteRelease(k, sw) ==
  /\ repeat' = Disarmed(k)
  /\ swallowed' = sw \ {k}
  /\ IF k \in sw THEN UNCHANGED app ELSE ForwardRelease(k)

HandleRelease ==
  /\ Arrives("Release") /\ Current
  /\ Head(queue).key \notin Shifts
  /\ RouteRelease(Head(queue).key, swallowed)
  /\ seen' = seen \ {Head(queue).key}
  /\ Handled
  /\ UNCHANGED <<grab, grabs, gesture, shiftsDown, clip, vkReady, engine>>

(* Mutant: plain subtraction.                                              *)
ReleasedBelowZero == shiftsDown - 1

Released == IF shiftsDown > 0 THEN shiftsDown - 1 ELSE 0
Toggles == Released = 0 /\ gesture = "Armed"

(* A Shift release. A tap hands the key to the engine before the release   *)
(* is routed; the engine consumes it.                                      *)
HandleShiftRelease ==
  /\ Arrives("Release") /\ Current
  /\ LET k == Head(queue).key
     IN  /\ k \in Shifts
         /\ shiftsDown' = Released
         /\ gesture' = IF Released > 0 THEN gesture ELSE "Idle"
         /\ IF Toggles
            THEN /\ \E r \in EngineKey(k) : chinese' = r.chinese /\ comp' = r.comp
                 /\ clip' = FALSE
                 /\ RouteRelease(k, swallowed \cup {k})
            ELSE RouteRelease(k, swallowed) /\ UNCHANGED <<engine, clip>>
         /\ seen' = seen \ {k}
  /\ Handled
  /\ UNCHANGED <<grab, grabs, vkReady>>

(* Mutant: the account of the grab before is kept.                         *)
HandleActivateKeepsSwallowed ==
  /\ Arrives("Activate")
  /\ grabs' = grabs + 1
  /\ grab' = grabs + 1
  /\ repeat' = "none"
  /\ gesture' = "Idle"
  /\ shiftsDown' = 0
  /\ seen' = {}
  /\ Handled
  /\ UNCHANGED <<swallowed, clip, vkReady, engine, app>>

HandleActivate ==
  /\ Arrives("Activate")
  /\ grabs' = grabs + 1
  /\ grab' = grabs + 1
  /\ swallowed' = {}
  /\ repeat' = "none"
  /\ gesture' = "Idle"
  /\ shiftsDown' = 0
  /\ seen' = {}
  /\ Handled
  /\ UNCHANGED <<clip, vkReady, engine, app>>

(* Mutant: the repeat outlives the grab.                                   *)
HandleDeactivateRepeating ==
  /\ Arrives("Deactivate")
  /\ grab' = 0
  /\ gesture' = "Idle"
  /\ shiftsDown' = 0
  /\ comp' = IF chinese THEN "none" ELSE comp
  /\ seen' = {}
  /\ Handled
  /\ UNCHANGED <<grabs, swallowed, repeat, clip, vkReady, chinese, app>>

(* The composition is cleared by an Esc of the shell's own.                *)
HandleDeactivate ==
  /\ Arrives("Deactivate")
  /\ grab' = 0
  /\ repeat' = "none"
  /\ gesture' = "Idle"
  /\ shiftsDown' = 0
  /\ comp' = IF chinese THEN "none" ELSE comp
  /\ seen' = {}
  /\ Handled
  /\ UNCHANGED <<grabs, swallowed, clip, vkReady, chinese, app>>

(* The repeat timer is due.                                                *)
Tick ==
  /\ repeat # "none"
  /\ PressKey(repeat, TRUE)
  /\ UNCHANGED <<board, grab, grabs, gesture, shiftsDown, vkReady, seen>>

(* The connection breaks; reset_wayland_objects, then everything is bound  *)
(* again. The applications of the old compositor are gone.                 *)
LoseConnection ==
  /\ LosesConnection /\ ~lost
  /\ lost' = TRUE
  /\ queue' = <<>>
  /\ cGrab' = 0
  /\ grab' = 0
  /\ vkReady' = FALSE
  /\ appDown' = {}
  /\ seen' = {}
  /\ UNCHANGED <<physDown, focused, grabs, swallowed, repeat, gesture,
                 shiftsDown, clip, engine, bare>>

----------------------------------------------------------------------------
Init ==
  /\ physDown = {} /\ cGrab = 0 /\ queue = <<>> /\ focused = 0 /\ lost = FALSE
  /\ grab = 0 /\ grabs = 0 /\ swallowed = {} /\ repeat = "none"
  /\ gesture = "Idle" /\ shiftsDown = 0 /\ clip = FALSE /\ vkReady = FALSE
  /\ chinese = TRUE /\ comp = "none"
  /\ appDown = {} /\ bare = FALSE /\ seen = {}

Handle ==
  \/ DropStale \/ HandleKeymap
  \/ HandleShiftGesture \/ HandleShiftPress \/ HandlePress
  \/ HandleRelease \/ HandleShiftRelease
  \/ HandleActivate \/ HandleDeactivate

Next ==
  \/ \E k \in Keys : Press(k) \/ Release(k)
  \/ SendFocus("Activate") \/ SendFocus("Deactivate")
  \/ TakeGrab
  \/ Handle
  \/ Tick
  \/ LoseConnection

Spec == Init /\ [][Next]_vars

(* run_once dispatches whatever has arrived: the event loop goes on.       *)
LiveSpec == Spec /\ WF_vars(Handle)

----------------------------------------------------------------------------
TypeOK ==
  /\ physDown \subseteq Keys /\ appDown \subseteq Keys
  /\ seen \subseteq Keys /\ swallowed \subseteq Keys
  /\ repeat \in Repeatable \cup {"none"}
  /\ cGrab \in Nat /\ grab \in Nat /\ grabs \in Nat
  /\ focused \in Nat /\ shiftsDown \in Nat
  /\ queue \in Seq([type : {"Press", "Release"}, grab : Nat, key : Keys]
                   \cup [type : {"Keymap", "Activate", "Deactivate"},
                         grab : Nat, key : {"none"}])
  /\ gesture \in {"Idle", "Armed", "HoldActive"}
  /\ comp \in Composed \cup {"none"}
  /\ chinese \in BOOLEAN /\ clip \in BOOLEAN /\ vkReady \in BOOLEAN
  /\ bare \in BOOLEAN /\ lost \in BOOLEAN

(* The account of SwallowTracker: under a grab, exactly the keys whose     *)
(* press was forwarded and not those swallowed are down in the             *)
(* application, whatever ticks, gestures, re-ACTIVATEs and reconnects came *)
(* between the press and the release.                                      *)
Accounts ==
  grab # 0 =>
    /\ swallowed \subseteq seen
    /\ seen \ swallowed \subseteq appDown

(* No ghost key: once every event was handled, the application has no key  *)
(* down that the user released.                                            *)
NoStuckKey == queue = <<>> /\ cGrab = grab => appDown \subseteq physDown

(* The application never gets the release of a key it saw no press of.     *)
NoBareRelease == ~bare

(* The repeat of a key let go stops: its release is handled, or the end of *)
(* the grab that the release was sent to, or went past. A lost connection  *)
(* is the exception: it takes releases with it, and nothing disarms the    *)
(* repeat before the next ACTIVATE.                                        *)
CutOff == lost /\ grab = 0

RepeatStops ==
  \A k \in Repeatable :
    (repeat = k /\ k \notin physDown) ~> (repeat # k \/ CutOff)
=============================================================================

----------------------------- MODULE XimFrontend -----------------------------
(***************************************************************************)
(* The X11 front end: XIM clients own input contexts, all of them share    *)
(* one engine (Composition), one candidate window and no order but the one *)
(* in which their requests arrive. Each action is one handle_* of the XIM  *)
(* server; its engine part is the action of Composition for that key.      *)
(*                                                                         *)
(* A preedit is the chosen words and the letters. Left out: the place of   *)
(* the window (set_ic_values), a window that could not be made, and the    *)
(* clear_undo of a new context, which follows an Esc and finds nothing to  *)
(* clear.                                                                  *)
(* External: the clients. A client forwards keys from its SET_FOCUS on,    *)
(* until another one has sent its own; UNSET_FOCUS may come later than     *)
(* that, since the two clients do not wait for each other.                 *)
(***************************************************************************)
EXTENDS Composition

CONSTANTS Contexts \* input contexts

VARIABLES
  open,    \* contexts that exist
  focus,   \* last_ic_id: the context of the last SET_FOCUS, "none"
  drawn,   \* the preedit each client shows
  mapped,  \* the window is on the screen
  rows,    \* the candidates it shows, as indices
  \* history
  origin,  \* contexts in which the keys of the composition were typed
  ghost    \* the focused client shows a preedit another one's request ended

shown == <<drawn, mapped, rows>>
ximVars == <<vars, open, focus, shown, origin, ghost>>

Preedit == <<pending, letters>>
NoPreedit == <<<<>>, <<>>>>

(* Engine::key, through each of its branches.                              *)
EngineKey ==
  \/ ShiftToggle \/ ShiftFlush \/ PassThrough
  \/ BackspaceWord \/ BackspaceLetter \/ Esc
  \/ PrevPage \/ NextPage
  \/ CtrlB \/ CtrlF \/ CtrlH \/ DeleteForward
  \/ SpaceSelect \/ IndexPanic \/ SpaceRelease
  \/ CtrlDot \/ EnglishMark \/ MarkRelease \/ MarkTop \/ MarkRaw
  \/ \E k \in Keys : Letter(k)
  \/ \E d \in 0..(DigitKeys - 1) : Digit(d)
  \/ EnterRaw \/ EnterRelease

(* update_window: a slice of the candidates from the number of the page    *)
(* on.                                                                     *)
PageRows(list, page) == {i \in 1..Len(list) : page < i /\ i <= page + PageSize}

(* A window without candidates is unmapped.                                *)
ShowCandidates(page) == rows' = page /\ mapped' = (page # {})

UpdateWindow == ShowCandidates(PageRows(candidates', pageIndex'))

Hide == mapped' = FALSE /\ rows' = {}

(* clear_composition: a bare Esc, ignored when nothing is composed.        *)
ClearComposed ==
  /\ IF Typing /\ ~Idle THEN Esc ELSE PassThrough
  /\ origin' = {}

(* Mutant: a commit always hides the window.                               *)
ReactCommitHides(ic) ==
  CASE outcome'.kind = "Consumed" ->
         drawn' = [drawn EXCEPT ![ic] = Preedit'] /\ UpdateWindow
    [] outcome'.kind = "Commit" ->
         drawn' = [drawn EXCEPT ![ic] = Preedit'] /\ Hide
    [] OTHER -> UNCHANGED shown

(* What the client and the window are told of the outcome of a key.        *)
React(ic) ==
  CASE outcome'.kind = "Consumed" ->
         drawn' = [drawn EXCEPT ![ic] = Preedit'] /\ UpdateWindow
    [] outcome'.kind = "Commit" ->
         /\ drawn' = [drawn EXCEPT ![ic] = Preedit']
         /\ IF Preedit' # NoPreedit THEN UpdateWindow ELSE Hide
    [] OTHER -> UNCHANGED shown

HandleForwardEvent(ic) ==
  /\ ic = focus
  /\ EngineKey
  /\ React(ic)
  /\ origin' = IF Preedit' = NoPreedit THEN {} ELSE origin \cup {ic}
  /\ ghost' = (ghost /\ outcome'.kind = "Ignored")
  /\ UNCHANGED <<open, focus>>

CreateIc(ic) ==
  /\ Alive
  /\ open' = open \cup {ic}
  /\ UNCHANGED <<vars, focus, shown, origin, ghost>>

(* What every request that ends a composition does: the client's preedit,  *)
(* the window and the engine are cleared, whoever typed.                   *)
EndComposition(ic) ==
  /\ drawn' = [drawn EXCEPT ![ic] = NoPreedit]
  /\ Hide
  /\ ClearComposed

GhostLeft(ic) == ghost \/ (focus \notin {"none", ic} /\ ~Idle)

HandleDestroyIc(ic) ==
  /\ Alive /\ ic \in open
  /\ open' = open \ {ic}
  /\ EndComposition(ic)
  /\ focus' = IF focus = ic THEN "none" ELSE focus
  /\ ghost' = (focus # ic /\ GhostLeft(ic))

(* Mutant: UNSET_FOCUS is relied on to end the composition.                *)
HandleSetFocusKeeps(ic) ==
  /\ Alive /\ ic \in open
  /\ drawn' = [drawn EXCEPT ![ic] = NoPreedit]
  /\ focus' = ic
  /\ ghost' = FALSE
  /\ UNCHANGED <<vars, open, mapped, rows, origin>>

HandleSetFocus(ic) ==
  /\ Alive /\ ic \in open
  /\ EndComposition(ic)
  /\ focus' = ic
  /\ ghost' = FALSE
  /\ UNCHANGED open

(* last_ic_id stays.                                                       *)
HandleUnsetFocus(ic) ==
  /\ Alive /\ ic \in open
  /\ EndComposition(ic)
  /\ ghost' = (focus # ic /\ GhostLeft(ic))
  /\ UNCHANGED <<open, focus>>

(* The preedit is returned to the client, which may insert it.             *)
HandleResetIc(ic) ==
  /\ Alive /\ ic \in open
  /\ EndComposition(ic)
  /\ ghost' = (focus # ic /\ GhostLeft(ic))
  /\ UNCHANGED <<open, focus>>

(* The process is started again; clients make their contexts anew.         *)
StartAgain ==
  /\ Restart
  /\ open' = {} /\ focus' = "none" /\ origin' = {} /\ ghost' = FALSE
  /\ drawn' = [ic \in Contexts |-> NoPreedit]
  /\ Hide

XimInit ==
  /\ Init
  /\ open = {} /\ focus = "none" /\ origin = {} /\ ghost = FALSE
  /\ drawn = [ic \in Contexts |-> NoPreedit]
  /\ mapped = FALSE /\ rows = {}

XimNext ==
  \/ \E ic \in Contexts :
       \/ CreateIc(ic) \/ HandleDestroyIc(ic)
       \/ HandleSetFocus(ic) \/ HandleUnsetFocus(ic)
       \/ HandleResetIc(ic) \/ HandleForwardEvent(ic)
  \/ StartAgain

XimSpec == XimInit /\ [][XimNext]_ximVars

----------------------------------------------------------------------------
(* The keys in the engine were typed in the context that has the focus:    *)
(* however late the UNSET_FOCUS of the other application comes, what was   *)
(* begun there is never finished here.                                     *)
OneContext == origin \subseteq {focus}

(* The window shows candidates exactly while the engine has some on its    *)
(* page, and the focused client shows the engine's preedit; unless a       *)
(* request of another context has ended the composition under it.          *)
ShowsTheEngine ==
  Alive =>
    /\ mapped = (rows # {}) /\ rows = PageRows(candidates, pageIndex)
    /\ focus # "none" /\ ~ghost => drawn[focus] = Preedit
=============================================================================

--------------------------- MODULE Session_proofs ---------------------------
(***************************************************************************)
(* The shell's life for every number of connections and every set of late  *)
(* globals: what is made belongs to the connection that is up, commits     *)
(* carry the serial the compositor expects, tray and badge show the mode,  *)
(* and the engine's own commits stay out of its context.                   *)
(***************************************************************************)
EXTENDS Session, DoubleBuffer_proofs, FiniteSetTheorems

----------------------------------------------------------------------------
(* The inductive invariant.                                                *)

(* While the shell is down nothing of a connection is left.                *)
DownIsEmpty ==
  conn = "down" =>
    bound = {} /\ im = 0 /\ vk = 0 /\ serial = 0 /\ dones = 0 /\ batch = <<>>

(* What the compositor may send of the input method.                       *)
ImEvents ==
  [type : {"Activate", "Deactivate", "Done", "Unavailable"}, what : {""}]
    \cup [type : {"Text"}, what : {"own", "typed", "split"}]
    \cup [type : {"Cause"}, what : {"other", "input_method"}]

Ends(e) == e.type \in {"Done", "Unavailable"}
EndOf(b) == b[Len(b)].type

(* What is left of a batch: nothing, or events up to the done that ends it;*)
(* unavailable comes alone.                                                *)
BatchOK ==
  /\ batch \in Seq(ImEvents)
  /\ batch # <<>> =>
       /\ Ends(batch[Len(batch)]) /\ \A i \in 1..(Len(batch) - 1) : ~Ends(batch[i])
       /\ Len(batch) > 1 => EndOf(batch) = "Done"

Open == batch # <<>> /\ EndOf(batch) = "Done"
Expected == serial + (IF Open THEN 1 ELSE 0)

(* An echo and somebody else's cause, noted or on their way, never meet    *)
(* unless a batch was cut; outside of a batch nothing is noted.            *)
OwnText == pending.text = "own" \/ \E i \in 1..Len(batch) : batch[i] = Said("Text", "own")
OtherCause ==
  pending.cause = "other" \/ \E i \in 1..Len(batch) : batch[i] = Said("Cause", "other")

Apart ==
  ~cut => /\ ~(OwnText /\ OtherCause)
          /\ ~Open => pending = NothingPending
          /\ context # "own"

(* The badge: its surface, and what it shows once it is configured.        *)
BadgeEvents ==
  [type : {"Release"}, slot : Slots] \cup [type : {"Frame", "Closed"}, slot : {0}]
    \cup [type : {"Configure"}, slot : Widths]

ShownOK == configured => dirty \/ Shown = Picture[<<badgeMode, width>>]

BadgeOK ==
  /\ painted \in [Slots -> Images \cup {NoBuffer}]
  /\ free \subseteq Slots /\ held \subseteq Slots
  /\ queue \in Seq(BadgeEvents)
  /\ dirty \in BOOLEAN
  /\ configured => width \in Widths
  /\ dirty => configured

BadgeInv ==
  /\ BadgeOK /\ configured \in BOOLEAN /\ badgeMode \in BOOLEAN
  /\ width \in Widths \cup {0} /\ engine \in {"none", "zh", "en"}
  /\ ModeShown

(* Serial and context.                                                     *)
PendingType ==
  [text : {"none", "own", "typed", "split"}, cause : {"input_method", "other"}]

ContextInv ==
  /\ serial \in Nat /\ dones \in Nat /\ pending \in PendingType /\ cut \in BOOLEAN
  /\ DownIsEmpty /\ BatchOK /\ (Up => Expected = dones) /\ Apart

SessionInv == TypeOK /\ MadeOnThisConnection /\ BadgeInv /\ ContextInv

----------------------------------------------------------------------------
(* The badge.                                                              *)

(* The image of a mode is one.                                             *)
LEMMA PictureIsImage ==
  ASSUME NEW mode \in BOOLEAN, NEW w \in Widths
  PROVE  Picture[<<mode, w>>] \in Images
<1>1. <<mode, w>> \in BOOLEAN \X Widths
  OBVIOUS
<1>2. Picture \in [BOOLEAN \X Widths -> Images]
  BY BadgeAssumption
<1>3. Picture[<<mode, w>>] \in Images
  BY <1>1, <1>2
<1> QED
  BY <1>3

(* A badge that is made or dropped starts empty.                           *)
LEMMA EmptyBadge ==
  ASSUME Empty
  PROVE  BadgeOK' /\ ShownOK' /\ ~configured' /\ width' = 0 /\ configured' \in BOOLEAN
<1>1. <<>> \in Seq(BadgeEvents)
  OBVIOUS
<1>2. queue' \in Seq(BadgeEvents) /\ BadgeEvents' = BadgeEvents
  BY <1>1 DEF Empty, BadgeEvents
<1> QED
  BY <1>2 DEF Empty, BadgeOK, ShownOK, Slots

(* present, for a mode and a size, over what the badge has free.           *)
LEMMA PictureKeeps ==
  ASSUME BadgeOK, NEW mode \in BOOLEAN, NEW w \in Widths, NEW slots \in SUBSET Slots,
         Present(Picture[<<mode, w>>], slots)
  PROVE  /\ painted' \in [Slots -> Images \cup {NoBuffer}]
         /\ free' \subseteq Slots /\ held' \subseteq Slots /\ dirty' \in BOOLEAN
         /\ dirty' \/ Shown' = Picture[<<mode, w>>]
<1> DEFINE image == Picture[<<mode, w>>]
<1>1. image \in Images
  BY PictureIsImage
<1>2. Present(image, slots)
  OBVIOUS
<1> HIDE DEF image
<1>3. dirty' \/ Shown' = image
  BY <1>2, PresentShows DEF BadgeOK
<1> QED
  BY <1>1, <1>2, <1>3, PresentTypes DEF BadgeOK, image

(* sync_mode_badge notes the mode, and shows it or owes it.                *)
LEMMA ShowModeKeeps ==
  ASSUME BadgeOK, ShownOK, NEW mode \in BOOLEAN, ShowMode(mode)
  PROVE  /\ BadgeOK' /\ ShownOK' /\ UNCHANGED <<badge, configured, width>>
         /\ badgeMode' = (IF badge # 0 THEN mode ELSE badgeMode)
<1>1. CASE badge # 0 /\ badgeMode # mode
  <2>1. /\ badgeMode' = mode /\ UNCHANGED <<badge, configured, width, queue>>
        /\ IF configured THEN Present(Picture[<<mode, width>>], free) ELSE Leave(free)
    BY <1>1 DEF ShowMode, Draw
  <2>2. CASE configured
    <3>1. width \in Widths /\ free \in SUBSET Slots
      BY <2>2 DEF BadgeOK
    <3>2. /\ painted' \in [Slots -> Images \cup {NoBuffer}]
          /\ free' \subseteq Slots /\ held' \subseteq Slots /\ dirty' \in BOOLEAN
          /\ dirty' \/ Shown' = Picture[<<mode, width>>]
      BY <2>1, <2>2, <3>1, PictureKeeps
    <3> QED
      BY <1>1, <2>1, <2>2, <3>1, <3>2 DEF BadgeOK, ShownOK
  <2>3. CASE ~configured
    BY <1>1, <2>1, <2>3 DEF Leave, surface, BadgeOK, ShownOK
  <2> QED
    BY <2>2, <2>3
<1>2. CASE ~(badge # 0 /\ badgeMode # mode)
  <2>1. UNCHANGED badgeVars
    BY <1>2 DEF ShowMode
  <2> QED
    BY <1>2, <2>1 DEF badgeVars, buffer, surface, BadgeOK, ShownOK, Shown
<1> QED
  BY <1>1, <1>2

(* A release or a frame callback: what is owed is drawn.                   *)
LEMMA OwedKeeps ==
  ASSUME BadgeOK, ShownOK, badgeMode \in BOOLEAN, NEW slots \in SUBSET Slots,
         queue' \in Seq(BadgeEvents),
         IF dirty THEN Present(Picture[<<badgeMode, width>>], slots) ELSE Leave(slots),
         UNCHANGED <<configured, width, badgeMode>>
  PROVE  BadgeOK' /\ ShownOK'
<1>1. CASE dirty
  <2>1. width \in Widths /\ configured
    BY <1>1 DEF BadgeOK
  <2>2. /\ painted' \in [Slots -> Images \cup {NoBuffer}]
        /\ free' \subseteq Slots /\ held' \subseteq Slots /\ dirty' \in BOOLEAN
        /\ dirty' \/ Shown' = Picture[<<badgeMode, width>>]
    BY <1>1, <2>1, PictureKeeps
  <2> QED
    BY <2>1, <2>2 DEF BadgeOK, ShownOK, BadgeEvents
<1>2. CASE ~dirty
  BY <1>2 DEF Leave, surface, BadgeOK, ShownOK, Shown, BadgeEvents
<1> QED
  BY <1>1, <1>2

(* The badge's dispatch arms: configure, closed, release, frame.           *)
LEMMA HandleBadgeKeeps ==
  ASSUME BadgeOK, ShownOK, badgeMode \in BOOLEAN, configured \in BOOLEAN,
         width \in Widths \cup {0}, HandleBadge
  PROVE  /\ BadgeOK' /\ ShownOK'
         /\ width' \in Widths \cup {0} /\ configured' \in BOOLEAN
         /\ \/ badge' = 0 /\ badgeMode' = TRUE
            \/ UNCHANGED <<badge, badgeMode>>
<1>1. queue \in Seq(BadgeEvents)
  BY DEF BadgeOK
<1>2. CASE OnClosed
  BY <1>2, EmptyBadge DEF OnClosed, DropBadge
<1>3. CASE OnConfigure
  <2>1. queue # <<>> /\ Head(queue).type = "Configure" /\ queue' = Tail(queue)
        /\ configured' = TRUE /\ width' = Head(queue).slot
        /\ Present(Picture[<<badgeMode, width'>>], free) /\ UNCHANGED <<badge, badgeMode>>
    BY <1>3 DEF OnConfigure, Arrives, Draw
  <2>2. Head(queue) \in BadgeEvents /\ queue' \in Seq(BadgeEvents)
    BY <1>1, <2>1
  <2>3. width' \in Widths
    BY <2>1, <2>2 DEF BadgeEvents
  <2>4. PICK w \in Widths : w = width'
    BY <2>3
  <2>5. free \in SUBSET Slots /\ Present(Picture[<<badgeMode, w>>], free)
    BY <2>1, <2>4 DEF BadgeOK
  <2>6. /\ painted' \in [Slots -> Images \cup {NoBuffer}]
        /\ free' \subseteq Slots /\ held' \subseteq Slots /\ dirty' \in BOOLEAN
        /\ dirty' \/ Shown' = Picture[<<badgeMode, w>>]
    BY <2>5, PictureKeeps
  <2> QED
    BY <2>1, <2>2, <2>3, <2>4, <2>6 DEF BadgeOK, ShownOK, BadgeEvents
<1>4. CASE BadgeRelease
  <2> DEFINE slots == free \cup {Head(queue).slot}
  <2>1. /\ queue # <<>> /\ Head(queue).type = "Release" /\ queue' = Tail(queue)
        /\ IF dirty THEN Present(Picture[<<badgeMode, width>>], slots) ELSE Leave(slots)
        /\ UNCHANGED <<badge, configured, width, badgeMode>>
    BY <1>4 DEF BadgeRelease, OnRelease, Arrives
  <2>2. Head(queue) \in BadgeEvents /\ queue' \in Seq(BadgeEvents)
    BY <1>1, <2>1
  <2>3. slots \in SUBSET Slots
    BY <2>1, <2>2 DEF BadgeEvents, BadgeOK
  <2> HIDE DEF slots
  <2> QED
    BY <2>1, <2>2, <2>3, OwedKeeps
<1>5. CASE BadgeFrame
  <2>1. /\ queue # <<>> /\ queue' = Tail(queue)
        /\ IF dirty THEN Present(Picture[<<badgeMode, width>>], free) ELSE Leave(free)
        /\ UNCHANGED <<badge, configured, width, badgeMode>>
    BY <1>5 DEF BadgeFrame, OnFrame, Arrives
  <2>2. queue' \in Seq(BadgeEvents) /\ free \in SUBSET Slots
    BY <1>1, <2>1 DEF BadgeOK
  <2> QED
    BY <2>1, <2>2, OwedKeeps
<1> QED
  BY <1>2, <1>3, <1>4, <1>5 DEF HandleBadge

(* The compositor only adds to the queue and takes buffers back.           *)
LEMMA CompositorKeepsBadge ==
  ASSUME BadgeOK, ShownOK, BadgeCompositor
  PROVE  BadgeOK' /\ ShownOK' /\ UNCHANGED <<badge, configured, width, badgeMode>>
<1>1. queue \in Seq(BadgeEvents)
  BY DEF BadgeOK
<1>2. PICK e \in BadgeEvents : queue' = Append(queue, e)
  BY DEF BadgeCompositor, Announces, Repaint, GiveBack, Event, BadgeEvents, BadgeOK
<1>3. queue' \in Seq(BadgeEvents)
  BY <1>1, <1>2
<1>4. /\ UNCHANGED <<painted, free, dirty, screen, badge, configured, width, badgeMode>>
      /\ held' \subseteq held
  BY DEF BadgeCompositor, Announces, Repaint, GiveBack, surface
<1> QED
  BY <1>3, <1>4 DEF BadgeOK, ShownOK, Shown, BadgeEvents

----------------------------------------------------------------------------
(* The batches.                                                            *)

(* A sequence of one event, of two, and one put before others.             *)
LEMMA OneEvent ==
  ASSUME NEW S, NEW e \in S, NEW s, s = <<e>>
  PROVE  s \in Seq(S) /\ \A i \in 1..Len(s) : s[i] = e
OBVIOUS

LEMMA TwoEvents ==
  ASSUME NEW S, NEW d \in S, NEW e \in S, NEW s, s = <<d, e>>
  PROVE  /\ s \in Seq(S) /\ \A i \in 1..Len(s) : s[i] \in {d, e}
         /\ s = Append(<<d>>, e)
OBVIOUS

LEMMA OneMore ==
  ASSUME NEW S, NEW e \in S, NEW c \in Seq(S), NEW s, s = <<e>> \o c
  PROVE  /\ s \in Seq(S)
         /\ \A i \in 1..Len(s) : s[i] = e \/ \E k \in 1..Len(c) : s[i] = c[k]
<1> DEFINE d == <<e>>
<1>1. d \in Seq(S) /\ Len(d) = 1 /\ d[1] = e
  OBVIOUS
<1>2. /\ s \in Seq(S) /\ Len(s) = 1 + Len(c) /\ Len(c) \in Nat
      /\ \A i \in 1..(1 + Len(c)) : s[i] = IF i <= 1 THEN d[i] ELSE c[i - 1]
  BY <1>1, ConcatProperties
<1> HIDE DEF d
<1>3. ASSUME NEW i \in 1..Len(s)
      PROVE  s[i] = e \/ \E k \in 1..Len(c) : s[i] = c[k]
  <2>1. CASE i = 1
    BY <1>1, <1>2, <2>1
  <2>2. CASE i # 1
    BY <1>2, <2>2
  <2> QED
    BY <2>1, <2>2
<1> QED
  BY <1>2, <1>3

(* Taking the next event of a batch.                                       *)
LEMMA TakenFacts ==
  ASSUME BatchOK, batch # <<>>, batch' = Tail(batch)
  PROVE  /\ Head(batch) \in ImEvents /\ BatchOK'
         /\ Ends(Head(batch)) <=> batch' = <<>>
         /\ Head(batch).type = "Done" => Open
         /\ ~Ends(Head(batch)) => Open /\ Open'
         /\ Head(batch).type = "Unavailable" => ~Open
         /\ Head(batch) = batch[1] /\ 1 \in 1..Len(batch)
         /\ \A i \in 1..Len(batch') : i + 1 \in 1..Len(batch) /\ batch'[i] = batch[i + 1]
<1>1. batch \in Seq(ImEvents) /\ Len(batch) \in Nat \ {0} /\ Head(batch) = batch[1]
  BY DEF BatchOK
<1>2. /\ batch' \in Seq(ImEvents) /\ Len(batch') = Len(batch) - 1
      /\ \A i \in 1..Len(batch') : i + 1 \in 1..Len(batch) /\ batch'[i] = batch[i + 1]
      /\ batch' = <<>> <=> Len(batch) = 1
      /\ Head(batch) \in ImEvents
  <2>1. /\ batch' \in Seq(ImEvents) /\ Len(batch') = Len(batch) - 1
        /\ \A i \in 1..Len(batch') : i + 1 \in 1..Len(batch) /\ batch'[i] = batch[i + 1]
        /\ Head(batch) \in ImEvents
    BY <1>1
  <2>2. batch' = <<>> <=> Len(batch') = 0
    BY <2>1, EmptySeq
  <2> QED
    BY <1>1, <2>1, <2>2
<1>3. CASE Len(batch) = 1
  <2>1. batch' = <<>> /\ Ends(Head(batch))
    BY <1>1, <1>2, <1>3 DEF BatchOK
  <2>2. BatchOK'
    BY <1>2, <2>1 DEF BatchOK, ImEvents
  <2>3. /\ Head(batch).type = "Done" => Open
        /\ Head(batch).type = "Unavailable" => ~Open
    BY <1>1, <1>3 DEF Open, EndOf
  <2> QED
    BY <1>1, <1>2, <2>1, <2>2, <2>3
<1>4. CASE Len(batch) # 1
  <2>1. batch' # <<>> /\ ~Ends(Head(batch))
    BY <1>1, <1>2, <1>4 DEF BatchOK
  <2>2. Len(batch') \in 1..Len(batch') /\ batch'[Len(batch')] = batch[Len(batch)]
    BY <1>1, <1>2, <1>4
  <2>3. \A i \in 1..Len(batch') - 1 : ~Ends(batch'[i])
    BY <1>1, <1>2 DEF BatchOK
  <2>5. Open /\ Open'
    BY <1>1, <1>4, <2>1, <2>2 DEF Open, EndOf, BatchOK
  <2>4. BatchOK'
    BY <1>2, <2>1, <2>2, <2>3, <2>5 DEF BatchOK, ImEvents, Ends, Open, EndOf
  <2> QED
    BY <1>1, <1>2, <2>1, <2>4, <2>5 DEF Ends
<1> QED
  BY <1>3, <1>4

(* What an application says of itself: at most two events, none of which   *)
(* ends a batch, and never an echo with somebody else's cause.             *)
LEMMA ChangeFacts ==
  ASSUME NEW c \in Changes
  PROVE  /\ c \in Seq(ImEvents)
         /\ \A i \in 1..Len(c) : ~Ends(c[i])
         /\ ~ /\ \E i \in 1..Len(c) : c[i] = Said("Text", "own")
              /\ \E i \in 1..Len(c) : c[i] = Said("Cause", "other")
<1> DEFINE Fact ==
      /\ c \in Seq(ImEvents)
      /\ \A i \in 1..Len(c) : ~Ends(c[i])
      /\ ~ /\ \E i \in 1..Len(c) : c[i] = Said("Text", "own")
           /\ \E i \in 1..Len(c) : c[i] = Said("Cause", "other")
    CauseOf(t) == IF t = "own" THEN "input_method" ELSE "other"
<1>1. CASE c = <<>>
  BY <1>1
<1>2. ASSUME NEW e \in {Said("Cause", "other"), Said("Text", "own")}, c = <<e>>
      PROVE  Fact
  <2>1. e \in ImEvents /\ ~Ends(e)
    <3>1. CASE e = Said("Cause", "other")
      BY <3>1 DEF Said, Ends, ImEvents
    <3>2. CASE e = Said("Text", "own")
      BY <3>2 DEF Said, Ends, ImEvents
    <3> QED
      BY <3>1, <3>2
  <2>2. Said("Text", "own") # Said("Cause", "other")
    BY DEF Said
  <2> QED
    BY <1>2, <2>1, <2>2, OneEvent
<1>3. ASSUME NEW t \in {"own", "typed", "split"},
             c = <<Said("Text", t), Said("Cause", CauseOf(t))>>
      PROVE  Fact
  <2> DEFINE d == Said("Text", t)
             e == Said("Cause", CauseOf(t))
  <2>1. /\ d \in ImEvents /\ e \in ImEvents /\ ~Ends(d) /\ ~Ends(e)
        /\ d = Said("Text", "own") => e # Said("Cause", "other")
        /\ d # Said("Cause", "other") /\ e # Said("Text", "own")
    BY DEF Said, Ends, ImEvents
  <2> HIDE DEF d, e
  <2>2. c = <<d, e>>
    BY <1>3 DEF d, e
  <2>3. c \in Seq(ImEvents) /\ \A i \in 1..Len(c) : c[i] \in {d, e}
    BY <2>1, <2>2, TwoEvents
  <2> QED
    BY <2>1, <2>3
<1> QED
  BY <1>1, <1>2, <1>3 DEF Changes

(* A batch the compositor sends.                                           *)
LEMMA SentFacts ==
  ASSUME batch' \in Batches
  PROVE  /\ BatchOK' /\ Open'
         /\ ~ /\ \E i \in 1..Len(batch') : batch'[i] = Said("Text", "own")
              /\ \E i \in 1..Len(batch') : batch'[i] = Said("Cause", "other")
<1> DEFINE done == Said("Done", "")
           first == Said("Activate", "")
<1>1. /\ done \in ImEvents /\ first \in ImEvents
      /\ done.type = "Done" /\ Ends(done) /\ ~Ends(first)
      /\ Said("Deactivate", "") \in ImEvents /\ ~Ends(Said("Deactivate", ""))
  BY DEF Said, Ends, ImEvents
<1>2. /\ Said("Text", "own") \notin {done, first, Said("Deactivate", "")}
      /\ Said("Cause", "other") \notin {done, first, Said("Deactivate", "")}
  BY DEF Said
(* Every batch is some events that are no ends, and a done.                *)
<1>3. PICK c \in Seq(ImEvents) :
        /\ batch' = Append(c, done)
        /\ \A i \in 1..Len(c) : ~Ends(c[i])
        /\ ~ /\ \E i \in 1..Len(c) : c[i] = Said("Text", "own")
             /\ \E i \in 1..Len(c) : c[i] = Said("Cause", "other")
  <2>1. CASE \E c \in Changes : batch' = Append(c, done)
    BY <2>1, ChangeFacts
  <2>2. CASE \E c \in Changes : batch' = <<first>> \o c \o <<done>>
    <3>1. PICK c \in Changes : batch' = <<first>> \o c \o <<done>>
      BY <2>2
    <3> DEFINE d == <<first>> \o c
    <3>2. c \in Seq(ImEvents)
      BY ChangeFacts
    <3>3. /\ d \in Seq(ImEvents)
          /\ \A i \in 1..Len(d) : d[i] = first \/ \E k \in 1..Len(c) : d[i] = c[k]
      <4>1. first \in ImEvents
        BY <1>1
      <4> HIDE DEF first
      <4> QED
        BY <3>2, <4>1, OneMore
    <3>4. batch' = Append(d, done)
      BY <1>1, <3>1, <3>3, AppendIsConcat
    <3> HIDE DEF d, first, done
    <3>5. \A i \in 1..Len(d) : ~Ends(d[i])
      BY <1>1, <3>3, ChangeFacts
    <3>6. \A x : x # first /\ (\E i \in 1..Len(d) : d[i] = x) => \E i \in 1..Len(c) : c[i] = x
      BY <3>3
    <3> QED
      BY <1>2, <3>1, <3>3, <3>4, <3>5, <3>6, ChangeFacts
  <2>3. CASE batch' = <<Said("Deactivate", ""), done>>
    <3> DEFINE gone == Said("Deactivate", "")
               d == <<gone>>
    <3>1. /\ gone \in ImEvents /\ ~Ends(gone)
          /\ gone # Said("Text", "own") /\ gone # Said("Cause", "other")
          /\ batch' = <<gone, done>> /\ done \in ImEvents
      BY <1>1, <1>2, <2>3
    <3> HIDE DEF gone, done
    <3>2. d \in Seq(ImEvents) /\ \A i \in 1..Len(d) : d[i] = gone
      BY <3>1, OneEvent
    <3>3. batch' = Append(d, done)
      BY <3>1, TwoEvents
    <3> HIDE DEF d
    <3> QED
      BY <3>1, <3>2, <3>3
  <2> QED
    BY <2>1, <2>2, <2>3 DEF Batches
<1> HIDE DEF done, first
<1>4. /\ batch' \in Seq(ImEvents) /\ Len(batch') = Len(c) + 1 /\ Len(c) \in Nat
      /\ batch'[Len(batch')] = done
      /\ \A i \in 1..Len(c) : batch'[i] = c[i]
      /\ batch' # <<>>
  <2>1. batch' = Append(c, done) /\ done \in ImEvents
    BY <1>1, <1>3
  <2> QED
    BY <2>1, AppendProperties
<1>5. BatchOK'
  <2>1. \A i \in 1..Len(batch') - 1 : i \in 1..Len(c) /\ batch'[i] = c[i]
    BY <1>4
  <2> QED
    BY <1>1, <1>3, <1>4, <2>1 DEF BatchOK, ImEvents, Ends, EndOf
<1>6. Open'
  BY <1>1, <1>4 DEF Open, EndOf
<1>7. \A i \in 1..Len(batch') : batch'[i] = done \/ (i \in 1..Len(c) /\ batch'[i] = c[i])
  BY <1>4
<1> QED
  BY <1>2, <1>3, <1>4, <1>5, <1>6, <1>7

----------------------------------------------------------------------------
(* Serial and context.                                                     *)

(* A handler that takes an event which does not end the batch.             *)
LEMMA TakesOne ==
  ASSUME ContextInv, batch # <<>>, ~Ends(Head(batch)), Taken, Up,
         UNCHANGED <<conn, serial, context, cut>>, pending' \in PendingType,
         pending'.text = "own" => pending.text = "own" \/ Head(batch) = Said("Text", "own"),
         pending'.cause = "other" =>
           pending.cause = "other" \/ Head(batch) = Said("Cause", "other")
  PROVE  ContextInv'
<1>1. /\ BatchOK' /\ Open /\ Open' /\ Head(batch) = batch[1] /\ 1 \in 1..Len(batch)
      /\ \A i \in 1..Len(batch') : i + 1 \in 1..Len(batch) /\ batch'[i] = batch[i + 1]
  BY TakenFacts DEF ContextInv, Taken
<1>2. OwnText' => OwnText
  BY <1>1 DEF OwnText
<1>3. OtherCause' => OtherCause
  BY <1>1 DEF OtherCause
<1> QED
  BY <1>1, <1>2, <1>3
  DEF ContextInv, Apart, Expected, DownIsEmpty, Up, Taken, PendingType

(* The handlers of the input method's events.                              *)
LEMMA HandleImContext ==
  ASSUME ContextInv, HandleIm
  PROVE  ContextInv'
<1>1. batch # <<>> /\ Up /\ Taken /\ batch' = Tail(batch)
  BY DEF HandleIm, HandleActivate, HandleDeactivate, HandleUnavailable,
     HandleSurroundingText, HandleTextChangeCause, HandleDone, Arrived, Taken
<1>2. Head(batch) \in ImEvents /\ BatchOK'
  BY <1>1, TakenFacts DEF ContextInv
<1>3. CASE HandleActivate \/ HandleDeactivate
  <2>1. ~Ends(Head(batch)) /\ UNCHANGED <<conn, serial, context, cut, pending>>
    BY <1>3 DEF HandleActivate, HandleDeactivate, Arrived, Ends, texts
  <2> QED
    BY <1>1, <2>1, TakesOne DEF ContextInv
<1>4. CASE HandleSurroundingText
  <2>1. /\ Head(batch).type = "Text" /\ UNCHANGED <<conn, serial, context, cut>>
        /\ pending' = [pending EXCEPT !.text = Head(batch).what]
    BY <1>4 DEF HandleSurroundingText, Arrived
  <2>2. ~Ends(Head(batch))
    BY <2>1 DEF Ends
  <2>3. Head(batch) \in [type : {"Text"}, what : {"own", "typed", "split"}]
    BY <1>2, <2>1 DEF ImEvents
  <2>4. Head(batch).what = "own" => Head(batch) = Said("Text", "own")
    BY <2>3 DEF Said
  <2>5. /\ pending' \in PendingType
        /\ pending'.text = Head(batch).what /\ pending'.cause = pending.cause
    BY <2>1, <2>3 DEF ContextInv, PendingType
  <2> QED
    BY <1>1, <2>1, <2>2, <2>4, <2>5, TakesOne
<1>5. CASE HandleTextChangeCause
  <2>1. /\ Head(batch).type = "Cause" /\ UNCHANGED <<conn, serial, context, cut>>
        /\ pending' = [pending EXCEPT !.cause = Head(batch).what]
    BY <1>5 DEF HandleTextChangeCause, Arrived
  <2>2. ~Ends(Head(batch))
    BY <2>1 DEF Ends
  <2>3. Head(batch) \in [type : {"Cause"}, what : {"other", "input_method"}]
    BY <1>2, <2>1 DEF ImEvents
  <2>4. Head(batch).what = "other" => Head(batch) = Said("Cause", "other")
    BY <2>3 DEF Said
  <2>5. /\ pending' \in PendingType
        /\ pending'.cause = Head(batch).what /\ pending'.text = pending.text
    BY <2>1, <2>3 DEF ContextInv, PendingType
  <2> QED
    BY <1>1, <2>1, <2>2, <2>4, <2>5, TakesOne
<1>6. CASE HandleDone
  <2>1. /\ Head(batch).type = "Done" /\ UNCHANGED conn
        /\ serial' = serial + 1 /\ dones' = dones /\ pending' = NothingPending
        /\ context' = (IF engine = "none" THEN context ELSE PlanContextCommit(pending))
        /\ cut' = (cut /\ context' = "own")
    BY <1>6 DEF HandleDone, Arrived, Taken
  <2>2. Open /\ batch' = <<>> /\ ~Open'
    BY <1>1, <2>1, TakenFacts DEF ContextInv, Ends, Open
  <2>3. Expected' = dones'
    BY <1>1, <2>1, <2>2 DEF Expected, ContextInv
  <2>4. ~OwnText'
    BY <2>1, <2>2 DEF OwnText, NothingPending
  <2>5. ~cut' => context' # "own"
    <3>1. ~cut => ~(pending.text = "own" /\ pending.cause = "other") /\ context # "own"
      BY DEF ContextInv, Apart, OwnText, OtherCause
    <3>2. pending.cause \in {"input_method", "other"}
      BY DEF ContextInv, PendingType
    <3> QED
      BY <2>1, <3>1, <3>2 DEF PlanContextCommit
  <2>6. serial' \in Nat /\ dones' \in Nat /\ pending' \in PendingType /\ cut' \in BOOLEAN
    BY <2>1 DEF ContextInv, NothingPending, PendingType
  <2> QED
    BY <1>1, <1>2, <2>1, <2>2, <2>3, <2>4, <2>5, <2>6
    DEF ContextInv, Apart, DownIsEmpty, Up, PendingType
<1>7. CASE HandleUnavailable
  <2>1. /\ Head(batch).type = "Unavailable" /\ conn' = "exit"
        /\ UNCHANGED <<serial, dones, pending, context, cut>>
    BY <1>7 DEF HandleUnavailable, Arrived, Taken, texts
  <2>2. ~Open /\ batch' = <<>> /\ ~Open'
    BY <1>1, <2>1, TakenFacts DEF ContextInv, Ends, Open
  <2>3. ~cut => pending = NothingPending /\ context # "own"
    BY <2>2 DEF ContextInv, Apart
  <2>4. ~cut' => ~OwnText'
    BY <2>1, <2>2, <2>3 DEF OwnText, NothingPending
  <2> QED
    BY <1>2, <2>1, <2>2, <2>3, <2>4 DEF ContextInv, Apart, DownIsEmpty, Up, PendingType
<1> QED
  BY <1>3, <1>4, <1>5, <1>6, <1>7 DEF HandleIm

(* Every step.                                                             *)
LEMMA ContextStep ==
  ASSUME ContextInv, [Next]_vars
  PROVE  ContextInv'
<1>1. ASSUME UNCHANGED <<serial, pending, context, cut, dones, batch>>,
             conn' = conn \/ (conn = "down" /\ conn' = "up")
      PROVE  ContextInv'
  <2>1. Open' = Open /\ OwnText' = OwnText /\ OtherCause' = OtherCause
        /\ Expected' = Expected /\ BatchOK'
    BY <1>1 DEF ContextInv, Open, OwnText, OtherCause, Expected, BatchOK, ImEvents, Ends,
       EndOf
  <2>2. conn = "down" => Expected = dones
    BY DEF ContextInv, DownIsEmpty, Expected, Open
  <2>3. DownIsEmpty'
    <3>1. conn' = "down" => UNCHANGED <<bound, im, vk>>
      BY <1>1 DEF Next, Connect, HandleGlobal, ConnectFails, LoseConnection, HandleIm,
         HandleActivate, HandleDeactivate, HandleUnavailable, HandleSurroundingText,
         HandleTextChangeCause, HandleDone, HandleKey, HandleBadgeEvent, SendBatch,
         RefuseIm, DrawBadge, Up, Arrived, vars, objects
    <3> QED
      BY <1>1, <3>1 DEF ContextInv, DownIsEmpty
  <2> QED
    BY <1>1, <2>1, <2>2, <2>3 DEF ContextInv, Apart, Up, PendingType
<1>2. CASE HandleIm
  BY <1>2, HandleImContext
<1>3. CASE LoseConnection
  <2>1. /\ conn' = "down" /\ bound' = {} /\ im' = 0 /\ vk' = 0
        /\ serial' = 0 /\ dones' = 0 /\ batch' = <<>>
        /\ cut' = (cut \/ pending # NothingPending) /\ UNCHANGED <<pending, context>>
    BY <1>3 DEF LoseConnection
  <2>2. BatchOK' /\ ~Open'
    <3>1. <<>> \in Seq(ImEvents)
      OBVIOUS
    <3> QED
      BY <2>1, <3>1 DEF BatchOK, Open, ImEvents
  <2>3. ~cut' => ~OwnText'
    <3>1. ~cut' => pending'.text # "own"
      <4>1. ~cut' => pending = NothingPending
        BY <2>1, Zenon
      <4> QED
        BY <2>1, <4>1 DEF NothingPending
    <3>2. \A i \in 1..Len(batch') : FALSE
      <4>1. Len(batch') = 0
        BY <2>1
      <4> QED
        BY <4>1
    <3> QED
      BY <3>1, <3>2 DEF OwnText
  <2> QED
    BY <2>1, <2>2, <2>3 DEF ContextInv, Apart, DownIsEmpty, Up, PendingType
<1>4. CASE SendBatch
  <2>1. /\ Up /\ batch = <<>> /\ dones' = dones + 1 /\ batch' \in Batches
        /\ UNCHANGED <<conn, serial, pending, context, cut>>
    BY <1>4 DEF SendBatch, texts
  <2>2. /\ BatchOK' /\ Open' /\ ~Open
        /\ ~ /\ \E i \in 1..Len(batch') : batch'[i] = Said("Text", "own")
             /\ \E i \in 1..Len(batch') : batch'[i] = Said("Cause", "other")
    BY <2>1, SentFacts DEF Open
  <2>3. ~cut => pending = NothingPending
    BY <2>2 DEF ContextInv, Apart
  <2>4. ~cut' => ~(OwnText' /\ OtherCause')
    BY <2>1, <2>2, <2>3 DEF OwnText, OtherCause, NothingPending
  <2>5. Expected' = dones'
    BY <2>1, <2>2 DEF ContextInv, Expected
  <2> QED
    BY <2>1, <2>2, <2>4, <2>5 DEF ContextInv, Apart, DownIsEmpty, Up, PendingType
<1>5. CASE RefuseIm
  <2> DEFINE e == Said("Unavailable", "")
  <2>1. /\ Up /\ batch = <<>> /\ batch' = <<e>>
        /\ UNCHANGED <<conn, serial, pending, context, cut, dones>>
    BY <1>5 DEF RefuseIm, texts
  <2>2. e \in ImEvents /\ Ends(e) /\ e.type = "Unavailable" /\ e # Said("Text", "own")
    BY DEF Said, ImEvents, Ends
  <2> HIDE DEF e
  <2>3. batch' \in Seq(ImEvents) /\ Len(batch') = 1 /\ batch'[1] = e
    BY <2>1, <2>2
  <2>4. BatchOK' /\ ~Open' /\ ~Open
    <3>1. ~Open /\ ~Open'
      BY <2>1, <2>2, <2>3 DEF Open, EndOf
    <3>2. Ends(batch'[Len(batch')]) /\ ~(Len(batch') > 1)
          /\ \A i \in 1..(Len(batch') - 1) : ~Ends(batch'[i])
      BY <2>2, <2>3
    <3> QED
      BY <2>3, <3>1, <3>2 DEF BatchOK, ImEvents, Ends
  <2>5. ~cut => pending = NothingPending
    BY <2>4 DEF ContextInv, Apart
  <2>6. ~cut' => ~OwnText'
    <3>1. \A i \in 1..Len(batch') : batch'[i] = e
      BY <2>1, <2>2, OneEvent
    <3> QED
      BY <2>1, <2>2, <2>5, <3>1 DEF OwnText, NothingPending
  <2>7. Expected' = dones'
    BY <2>1, <2>4 DEF ContextInv, Expected
  <2> QED
    BY <2>1, <2>4, <2>5, <2>6, <2>7 DEF ContextInv, Apart, DownIsEmpty, Up, PendingType
<1>6. CASE Connect
  BY <1>1, <1>6 DEF Connect, texts, sent
<1>7. ASSUME NEW g \in Globals, HandleGlobal(g) PROVE ContextInv'
  <2>1. conn' = conn /\ UNCHANGED <<serial, pending, context, cut, dones, batch>>
    BY <1>7 DEF HandleGlobal, texts, sent
  <2> QED
    BY <1>1, <2>1
<1>8. CASE ConnectFails \/ HandleKey \/ HandleBadgeEvent \/ DrawBadge \/ UNCHANGED vars
  <2>1. conn' = conn /\ UNCHANGED <<serial, pending, context, cut, dones, batch>>
    BY <1>8 DEF ConnectFails, HandleKey, HandleBadgeEvent, DrawBadge, vars, texts, sent
  <2> QED
    BY <1>1, <2>1
<1> QED
  BY <1>2, <1>3, <1>4, <1>5, <1>6, <1>7, <1>8 DEF Next

----------------------------------------------------------------------------
(* Mode, tray and badge.                                                   *)

(* ensure_badge: the badge is made for the mode the engine is in.          *)
LEMMA EnsureBadgeShows ==
  ASSUME BadgeInv, NEW id, NEW have, EnsureBadge(id, have), UNCHANGED engine
  PROVE  /\ BadgeInv'
         /\ badge' = IF badge = 0 /\ ForBadge \subseteq have THEN id ELSE badge
<1>1. CASE badge = 0 /\ ForBadge \subseteq have
  <2>1. MakeBadge(id, Chinese(engine)) /\ tray' = Chinese(engine)
    BY <1>1 DEF EnsureBadge
  <2>2. /\ BadgeOK' /\ ShownOK' /\ ~configured' /\ width' = 0 /\ configured' \in BOOLEAN
        /\ badge' = id /\ badgeMode' = Chinese(engine)
    BY <2>1, EmptyBadge DEF MakeBadge
  <2> QED
    BY <1>1, <2>1, <2>2 DEF BadgeInv, ModeShown, Chinese
<1>2. CASE ~(badge = 0 /\ ForBadge \subseteq have)
  <2>1. UNCHANGED <<badgeVars, tray>>
    BY <1>2 DEF EnsureBadge
  <2>2. BadgeOK'
    BY <2>1 DEF badgeVars, buffer, surface, BadgeInv, BadgeOK, BadgeEvents
  <2> QED
    BY <1>2, <2>1, <2>2 DEF badgeVars, buffer, surface, BadgeInv, ModeShown, Shown, Chinese
<1> QED
  BY <1>1, <1>2

(* Every step leaves tray and badge with the engine's mode.                *)
LEMMA BadgeStep ==
  ASSUME BadgeInv, [Next]_vars
  PROVE  BadgeInv'
<1>1. BadgeOK /\ ShownOK /\ badgeMode \in BOOLEAN /\ configured \in BOOLEAN
  BY DEF BadgeInv, ModeShown, ShownOK
<1>2. ASSUME UNCHANGED badgeVars, engine' \in {"none", "zh", "en"}, tray' = Chinese(engine'),
             Chinese(engine') = Chinese(engine)
      PROVE  BadgeInv'
  <2>1. BadgeOK'
    BY <1>1, <1>2 DEF badgeVars, buffer, surface, BadgeOK, BadgeEvents
  <2> QED
    BY <1>2, <2>1 DEF badgeVars, buffer, surface, BadgeInv, ModeShown, Shown, Chinese
<1>3. ASSUME UNCHANGED <<badgeVars, engine, tray>> PROVE BadgeInv'
  BY <1>2, <1>3 DEF BadgeInv, ModeShown, Chinese
<1>4. CASE Connect
  BY <1>4, EnsureBadgeShows DEF Connect
<1>5. ASSUME NEW g \in Globals, HandleGlobal(g) PROVE BadgeInv'
  <2>1. UNCHANGED engine
    BY <1>5 DEF HandleGlobal
  <2>2. CASE g \in ForBadge
    BY <1>5, <2>1, <2>2, EnsureBadgeShows DEF HandleGlobal
  <2>3. CASE g \notin ForBadge
    BY <1>3, <1>5, <2>1, <2>3 DEF HandleGlobal
  <2> QED
    BY <2>2, <2>3
<1>6. CASE LoseConnection
  <2>1. DropBadge /\ UNCHANGED <<engine, tray>>
    BY <1>6 DEF LoseConnection
  <2>2. /\ BadgeOK' /\ ShownOK' /\ ~configured' /\ width' = 0 /\ configured' \in BOOLEAN
        /\ badge' = 0 /\ badgeMode' = TRUE
    BY <2>1, EmptyBadge DEF DropBadge
  <2> QED
    BY <2>1, <2>2 DEF BadgeInv, ModeShown, Chinese
<1>7. CASE HandleIm
  <2>1. CASE HandleActivate
    BY <1>2, <2>1 DEF HandleActivate, EnsureEngine, BadgeInv, ModeShown, Chinese
  <2>2. CASE HandleIm /\ ~HandleActivate
    BY <1>3, <2>2 DEF HandleIm, HandleDeactivate, HandleUnavailable,
       HandleSurroundingText, HandleTextChangeCause, HandleDone
  <2> QED
    BY <1>7, <2>1, <2>2
<1>8. CASE HandleKey
  <2> DEFINE mode == Chinese(engine')
  <2>1. /\ engine' \in {"zh", "en"} /\ tray' = mode /\ ShowMode(mode)
    BY <1>8 DEF HandleKey
  <2>2. mode \in BOOLEAN
    BY DEF Chinese
  <2> HIDE DEF mode
  <2>3. /\ BadgeOK' /\ ShownOK' /\ UNCHANGED <<badge, configured, width>>
        /\ badgeMode' = IF badge # 0 THEN mode ELSE badgeMode
    BY <1>1, <2>1, <2>2, ShowModeKeeps
  <2> QED
    BY <1>1, <2>1, <2>2, <2>3 DEF BadgeInv, ModeShown, ShownOK, mode
<1>9. CASE HandleBadgeEvent
  <2>1. HandleBadge /\ UNCHANGED <<engine, tray>>
    BY <1>9 DEF HandleBadgeEvent
  <2>2. /\ BadgeOK' /\ ShownOK'
        /\ width' \in Widths \cup {0} /\ configured' \in BOOLEAN
        /\ \/ badge' = 0 /\ badgeMode' = TRUE
           \/ UNCHANGED <<badge, badgeMode>>
    BY <1>1, <2>1, HandleBadgeKeeps DEF BadgeInv
  <2> QED
    BY <1>1, <2>1, <2>2 DEF BadgeInv, ModeShown, ShownOK, Chinese
<1>10. CASE DrawBadge
  <2>1. BadgeCompositor /\ UNCHANGED <<engine, tray>>
    BY <1>10 DEF DrawBadge
  <2>2. BadgeOK' /\ ShownOK' /\ UNCHANGED <<badge, configured, width, badgeMode>>
    BY <1>1, <2>1, CompositorKeepsBadge
  <2> QED
    BY <1>1, <2>1, <2>2 DEF BadgeInv, ModeShown, ShownOK, Chinese
<1>11. CASE ConnectFails \/ SendBatch \/ RefuseIm \/ UNCHANGED vars
  BY <1>3, <1>11 DEF ConnectFails, SendBatch, RefuseIm, vars
<1> QED
  BY <1>4, <1>5, <1>6, <1>7, <1>8, <1>9, <1>10, <1>11 DEF Next

----------------------------------------------------------------------------
(* The objects.                                                            *)

(* Each object belongs to this connection, in the words of the types.      *)
Owned ==
  /\ conn \in {"down", "up", "exit"} /\ session \in 0..MaxSessions /\ bound \subseteq Globals
  /\ im \in 0..session /\ vk \in 0..session
  /\ popup \in {0, session} /\ grab \in {0, session} /\ badge \in {0, session}
  /\ conn = "down" => popup = 0 /\ grab = 0 /\ badge = 0
  /\ Up => im = (IF ForIm \subseteq bound THEN session ELSE 0)
  /\ Up => vk = (IF ForVk \subseteq bound THEN session ELSE 0)
  /\ popup # 0 => ForPopup \subseteq bound
  /\ badge # 0 => ForBadge \subseteq bound

LEMMA OwnedIs ==
  ASSUME TypeOK, MadeOnThisConnection
  PROVE  Owned
BY DEF TypeOK, MadeOnThisConnection, Owned

(* Input method, virtual keyboard and badge are made as soon as what they  *)
(* need is bound, and with the number of this connection.                  *)
LEMMA OwnedStep ==
  ASSUME Owned, DownIsEmpty, BadgeInv, [Next]_vars
  PROVE  Owned'
<1> USE SessionAssumption
<1>1. CASE Connect
  <2>1. PICK late \in SUBSET Late :
          /\ bound' = Globals \ late
          /\ im' = TryBindIm(session', bound') /\ vk' = TryBindVk(session', bound')
          /\ EnsureBadge(session', bound')
    BY <1>1 DEF Connect
  <2>2. /\ conn = "down" /\ conn' = "up" /\ session' = session + 1 /\ session < MaxSessions
        /\ UNCHANGED <<popup, grab, engine>>
    BY <1>1 DEF Connect
  <2>3. /\ im = 0 /\ vk = 0 /\ popup = 0 /\ grab = 0 /\ badge = 0
        /\ session' \in 0..MaxSessions /\ session \in Nat
    BY <2>2 DEF Owned, DownIsEmpty
  <2>4. badge' = IF ForBadge \subseteq bound' THEN session' ELSE 0
    BY <2>1, <2>2, <2>3, EnsureBadgeShows
  <2>5. /\ im' = (IF ForIm \subseteq bound' THEN session' ELSE 0)
        /\ vk' = (IF ForVk \subseteq bound' THEN session' ELSE 0)
    BY <2>1, <2>3 DEF TryBindIm, TryBindVk
  <2>6. bound' \subseteq Globals
    BY <2>1
  <2>7. im' \in 0..session' /\ vk' \in 0..session' /\ badge' \in {0, session'}
    BY <2>3, <2>4, <2>5
  <2> QED
    BY <2>2, <2>3, <2>4, <2>5, <2>6, <2>7 DEF Owned, Up
<1>2. ASSUME NEW g \in Globals, HandleGlobal(g) PROVE Owned'
  <2>1. /\ Up /\ bound' = bound \cup {g}
        /\ im' = (IF g \in ForIm THEN TryBindIm(session, bound') ELSE im)
        /\ vk' = (IF g \in ForVk THEN TryBindVk(session, bound') ELSE vk)
        /\ IF g \in ForBadge THEN EnsureBadge(session, bound')
                              ELSE UNCHANGED <<badgeVars, tray>>
        /\ conn' = conn /\ UNCHANGED <<session, popup, grab, engine>>
    BY <1>2 DEF HandleGlobal
  <2>2. bound' \subseteq Globals /\ bound \subseteq bound'
    BY <2>1 DEF Owned
  <2>3. \A S : g \notin S => (S \subseteq bound' <=> S \subseteq bound)
    BY <2>1
  <2>4. im' = (IF ForIm \subseteq bound' THEN session ELSE 0)
    BY <2>1, <2>2, <2>3 DEF TryBindIm, Owned
  <2>5. vk' = (IF ForVk \subseteq bound' THEN session ELSE 0)
    BY <2>1, <2>2, <2>3 DEF TryBindVk, Owned
  <2>6. badge' = badge \/ (badge' = session /\ ForBadge \subseteq bound')
    <3>1. CASE g \in ForBadge
      BY <2>1, <3>1, EnsureBadgeShows
    <3>2. CASE g \notin ForBadge
      BY <2>1, <3>2 DEF badgeVars
    <3> QED
      BY <3>1, <3>2
  <2>7. session \in Nat
    BY DEF Owned
  <2>8. im' \in 0..session /\ vk' \in 0..session
    BY <2>4, <2>5, <2>7
  <2> QED
    BY <2>1, <2>2, <2>4, <2>5, <2>6, <2>8 DEF Owned, Up
<1>3. CASE LoseConnection
  <2>1. badge' = 0 /\ popup' = 0 /\ grab' = 0 /\ im' = 0 /\ vk' = 0 /\ bound' = {}
        /\ conn' = "down" /\ session' = session
    BY <1>3 DEF LoseConnection, DropBadge
  <2>2. session \in Nat
    BY DEF Owned
  <2> QED
    BY <2>1, <2>2 DEF Owned, Up
<1>4. CASE HandleActivate
  <2>1. /\ Up /\ conn' = conn /\ UNCHANGED <<session, bound, im, vk, badge>>
        /\ popup' = (IF popup = 0 /\ ForPopup \subseteq bound THEN session ELSE popup)
        /\ grab' = session
    BY <1>4 DEF HandleActivate, Arrived, badgeVars
  <2> QED
    BY <2>1 DEF Owned, Up
<1>5. CASE HandleDeactivate
  <2>1. conn' = conn /\ grab' = 0 /\ UNCHANGED <<session, bound, im, vk, popup, badge>>
    BY <1>5 DEF HandleDeactivate, badgeVars
  <2> QED
    BY <2>1 DEF Owned, Up
<1>6. CASE HandleUnavailable
  <2>1. /\ conn' = "exit" /\ grab' = 0 /\ vk' = 0 /\ im' = 0
        /\ UNCHANGED <<session, bound, popup, badge>>
    BY <1>6 DEF HandleUnavailable, badgeVars
  <2>2. session \in Nat
    BY DEF Owned
  <2> QED
    BY <2>1, <2>2 DEF Owned, Up
<1>7. CASE HandleBadgeEvent
  <2>1. badge' = 0 \/ badge' = badge
    BY <1>7, HandleBadgeKeeps DEF HandleBadgeEvent, BadgeInv, ModeShown, ShownOK
  <2>2. conn' = conn /\ UNCHANGED <<session, bound, im, vk, popup, grab>>
    BY <1>7 DEF HandleBadgeEvent, objects
  <2> QED
    BY <2>1, <2>2 DEF Owned, Up
<1>8. CASE HandleKey
  <2>1. badge' = badge
    BY <1>8, ShowModeKeeps DEF HandleKey, BadgeInv, ModeShown, ShownOK, Chinese
  <2>2. conn' = conn /\ UNCHANGED <<session, bound, im, vk, popup, grab>>
    BY <1>8 DEF HandleKey, objects
  <2> QED
    BY <2>1, <2>2 DEF Owned, Up
<1>9. CASE \/ ConnectFails \/ HandleSurroundingText \/ HandleTextChangeCause \/ HandleDone
           \/ SendBatch \/ RefuseIm \/ DrawBadge \/ UNCHANGED vars
  <2>1. conn' = conn /\ UNCHANGED <<session, bound, im, vk, popup, grab, badge>>
    BY <1>9 DEF ConnectFails, HandleSurroundingText, HandleTextChangeCause, HandleDone,
       SendBatch, RefuseIm, DrawBadge, BadgeCompositor, vars, objects, badgeVars
  <2> QED
    BY <2>1 DEF Owned, Up
<1> QED
  BY <1>1, <1>2, <1>3, <1>4, <1>5, <1>6, <1>7, <1>8, <1>9 DEF Next, HandleIm

(* The backoff stays one of the doublings.                                 *)
LEMMA BackoffStep ==
  ASSUME backoff \in {1, 2, 4, 8, 16, 30}, [Next]_vars
  PROVE  backoff' \in {1, 2, 4, 8, 16, 30}
<1>1. \A healthy \in BOOLEAN : NextBackoff(backoff, healthy) \in {1, 2, 4, 8, 16, 30}
  BY DEF NextBackoff
<1>2. CASE ConnectFails \/ LoseConnection
  BY <1>1, <1>2 DEF ConnectFails, LoseConnection
<1>3. CASE ~ConnectFails /\ ~LoseConnection
  <2>1. backoff' = backoff
    BY <1>3 DEF Next, Connect, HandleGlobal, HandleIm, HandleActivate, HandleDeactivate,
       HandleUnavailable, HandleSurroundingText, HandleTextChangeCause, HandleDone,
       HandleKey, HandleBadgeEvent, SendBatch, RefuseIm, DrawBadge, vars
  <2> QED
    BY <2>1
<1> QED
  BY <1>2, <1>3

(* The compositor sends at most MaxDone batches on a connection, and the   *)
(* engine gets no text but the application's own or an echo.               *)
LEMMA BoundStep ==
  ASSUME dones \in 0..MaxDone, context \in {"none", "own", "typed"},
         pending \in PendingType, [Next]_vars
  PROVE  dones' \in 0..MaxDone /\ context' \in {"none", "own", "typed"}
<1>0. MaxDone \in Nat
  BY SessionAssumption
<1>1. CASE HandleDone
  <2>1. pending.text \in {"none", "own", "typed", "split"}
    BY DEF PendingType
  <2>2. PlanContextCommit(pending) \in {"none", "own", "typed"}
    BY <2>1 DEF PlanContextCommit
  <2> QED
    BY <1>1, <2>2 DEF HandleDone, Taken
<1>2. CASE SendBatch
  BY <1>0, <1>2 DEF SendBatch, texts
<1>3. CASE LoseConnection
  BY <1>0, <1>3 DEF LoseConnection
<1>4. CASE ~HandleDone /\ ~SendBatch /\ ~LoseConnection
  <2>1. dones' = dones /\ context' = context
    BY <1>4 DEF Next, Connect, ConnectFails, HandleGlobal, HandleIm, HandleActivate,
       HandleDeactivate, HandleUnavailable, HandleSurroundingText,
       HandleTextChangeCause, HandleKey, HandleBadgeEvent, RefuseIm, DrawBadge,
       Taken, vars, texts, sent
  <2> QED
    BY <2>1
<1> QED
  BY <1>1, <1>2, <1>3, <1>4

----------------------------------------------------------------------------
(* The theorems.                                                           *)

LEMMA SessionInit == Init => SessionInv
<1> SUFFICES ASSUME Init PROVE SessionInv
  OBVIOUS
<1> USE SessionAssumption, BadgeAssumption
<1>1. <<>> \in Seq(ImEvents) /\ <<>> \in Seq(BadgeEvents)
  OBVIOUS
<1>2. TypeOK
  <2>1. /\ conn \in {"down", "up", "exit"} /\ session \in 0..MaxSessions
        /\ backoff \in {1, 2, 4, 8, 16, 30} /\ serial \in Nat
    BY DEF Init
  <2>2. {im, vk, popup, grab, badge} \subseteq 0..session
    BY DEF Init, BadgeInit
  <2>3. pending \in PendingType
    BY DEF Init, NothingPending, PendingType
  <2>4. {tray, cut, configured, badgeMode} \subseteq BOOLEAN
    BY DEF Init, BadgeInit, BufferInit
  <2>5. bound \subseteq Globals /\ engine \in {"none", "zh", "en"}
    BY DEF Init
  <2>6. dones \in 0..MaxDone /\ context \in {"none", "own", "typed"}
    BY DEF Init
  <2>7. width \in Widths \cup {0}
    BY DEF Init, BadgeInit
  <2> QED
    BY <2>1, <2>2, <2>3, <2>4, <2>5, <2>6, <2>7 DEF TypeOK, PendingType
<1>3. MadeOnThisConnection
  BY DEF Init, BadgeInit, MadeOnThisConnection, Up
<1>4. BadgeInv
  BY <1>1 DEF Init, BadgeInit, BufferInit, BadgeInv, BadgeOK, ModeShown, Chinese, Slots
<1>5. ContextInv
  <2>1. BatchOK /\ ~Open
    BY <1>1 DEF Init, BatchOK, Open
  <2>2. ~OwnText
    <3>1. Len(batch) = 0
      BY DEF Init
    <3> QED
      BY <3>1 DEF OwnText, Init, NothingPending
  <2> QED
    BY <2>1, <2>2 DEF Init, ContextInv, PendingType, NothingPending, DownIsEmpty, Apart, Up
<1> QED
  BY <1>2, <1>3, <1>4, <1>5 DEF SessionInv

LEMMA SessionStep == SessionInv /\ [Next]_vars => SessionInv'
<1> SUFFICES ASSUME SessionInv, [Next]_vars PROVE SessionInv'
  OBVIOUS
<1>1. BadgeInv' /\ ContextInv'
  BY BadgeStep, ContextStep DEF SessionInv
<1>2. Owned'
  BY OwnedIs, OwnedStep DEF SessionInv, ContextInv
<1>3. /\ backoff' \in {1, 2, 4, 8, 16, 30}
      /\ dones' \in 0..MaxDone /\ context' \in {"none", "own", "typed"}
  BY BackoffStep, BoundStep DEF SessionInv, TypeOK, ContextInv
<1>4. MadeOnThisConnection'
  BY <1>2 DEF Owned, MadeOnThisConnection
<1>5. TypeOK'
  <2>1. session' \in Nat /\ {im', vk', popup', grab', badge'} \subseteq 0..session'
    BY <1>2 DEF Owned
  <2>2. {tray', cut', configured', badgeMode'} \subseteq BOOLEAN
    BY <1>1 DEF BadgeInv, ContextInv, ModeShown, Chinese
  <2>3. serial' \in Nat /\ pending' \in PendingType
    BY <1>1 DEF ContextInv, PendingType
  <2> QED
    BY <1>1, <1>2, <1>3, <2>1, <2>2, <2>3 DEF TypeOK, Owned, BadgeInv, PendingType
<1> QED
  BY <1>1, <1>4, <1>5 DEF SessionInv

(* The inductive invariant of the shell's life.                            *)
THEOREM SessionInvariant == Spec => []SessionInv
BY SessionInit, SessionStep, PTL DEF Spec

(* The types: after any connections the backoff is a doubling of a second, *)
(* cut at half a minute, and no object has the number of a connection that *)
(* was not made.                                                           *)
THEOREM SessionTypes == Spec => []TypeOK
<1>1. SessionInv => TypeOK
  BY DEF SessionInv
<1> QED
  BY <1>1, SessionInvariant, PTL

(* try_bind_im, try_bind_vk, ensure_badge and the reset of a connection    *)
(* that is lost: whatever the order of the globals, input method and       *)
(* keyboard are there when they can be, and none is of another connection. *)
THEOREM MadeHere == Spec => []MadeOnThisConnection
<1>1. SessionInv => MadeOnThisConnection
  BY DEF SessionInv
<1> QED
  BY <1>1, SessionInvariant, PTL

(* im_serial counts the dones of this input method: it starts anew with a  *)
(* connection, and every done is counted once.                             *)
THEOREM SerialRight == Spec => []SerialCounts
<1>1. SessionInv => SerialCounts
  <2> SUFFICES ASSUME BatchOK, serial \in Nat, Up, Expected = dones PROVE SerialCounts
    BY DEF SessionInv, ContextInv, SerialCounts
  <2> DEFINE D == {i \in 1..Len(batch) : batch[i].type = "Done"}
  <2>1. Len(batch) \in Nat
    BY DEF BatchOK
  <2>2. CASE Open
    <3>1. batch # <<>> /\ batch[Len(batch)].type = "Done"
      BY <2>2 DEF Open, EndOf
    <3>2. Len(batch) # 0
      BY <3>1, EmptySeq DEF BatchOK
    <3>3. \A i \in 1..Len(batch) : batch[i].type = "Done" => i = Len(batch)
      BY <2>1, <3>1 DEF BatchOK, Ends
    <3>4. D = {Len(batch)}
      BY <2>1, <3>1, <3>2, <3>3
    <3>5. Cardinality(D) = 1
      BY <3>4, FS_Singleton
    <3> QED
      BY <2>2, <3>5 DEF SerialCounts, Expected
  <2>3. CASE ~Open
    <3>1. CASE batch = <<>>
      <4>1. D = {}
        BY <3>1
      <4>2. Cardinality(D) = 0
        BY <4>1, FS_EmptySet
      <4> QED
        BY <2>3, <4>2 DEF SerialCounts, Expected
    <3>2. CASE batch # <<>>
      <4>1. Len(batch) # 0
        BY <3>2, EmptySeq DEF BatchOK
      <4>2. Len(batch) = 1 /\ batch[1].type # "Done"
        <5>1. EndOf(batch) # "Done"
          BY <2>3, <3>2 DEF Open
        <5>2. ~(Len(batch) > 1)
          BY <3>2, <5>1 DEF BatchOK
        <5>3. \A n \in Nat : n # 0 /\ ~(n > 1) => n = 1
          OBVIOUS
        <5>4. Len(batch) = 1
          BY <2>1, <4>1, <5>2, <5>3
        <5> QED
          BY <5>1, <5>4 DEF EndOf
      <4>3. D = {}
        BY <4>2
      <4>4. Cardinality(D) = 0
        BY <4>3, FS_EmptySet
      <4> QED
        BY <2>3, <4>4 DEF SerialCounts, Expected
    <3> QED
      BY <3>1, <3>2
  <2> QED
    BY <2>2, <2>3
<1> QED
  BY <1>1, SessionInvariant, PTL

(* sync_mode_badge, ensure_badge and the badge's own arms: tray and badge  *)
(* show the engine's mode or owe it.                                       *)
THEOREM ModeIsShown == Spec => []ModeShown
<1>1. SessionInv => ModeShown
  BY DEF SessionInv, BadgeInv
<1> QED
  BY <1>1, SessionInvariant, PTL

(* Done uses up what is pending, so the echo of a commit and the cause of  *)
(* somebody else's change meet in no batch that came whole.                *)
THEOREM EchoesStayOut == Spec => []EchoStaysOut
<1>1. SessionInv => EchoStaysOut
  BY DEF SessionInv, ContextInv, Apart, EchoStaysOut
<1> QED
  BY <1>1, SessionInvariant, PTL
=============================================================================

-------------------------- MODULE KeyRouting_proofs --------------------------
(***************************************************************************)
(* The account of SwallowTracker holds for every keyboard, any number of   *)
(* keys held down and events on their way, and any number of ACTIVATEs,    *)
(* DEACTIVATEs and ticks of the repeat; over one activation no key is left *)
(* down in the application, and no release goes out bare.                  *)
(***************************************************************************)
EXTENDS KeyRouting, SequenceTheorems, TLAPS

----------------------------------------------------------------------------
(* The inductive invariant.                                                *)

Events ==
  [type : {"Press", "Release"}, grab : Nat, key : Keys]
    \cup [type : {"Keymap", "Activate", "Deactivate"}, grab : Nat, key : {"none"}]

(* A name of a grab is used once: what is on its way, and what the         *)
(* compositor knows, belongs to a grab that was requested.                 *)
Named ==
  /\ grab <= grabs /\ cGrab <= grabs
  /\ \A i \in 1..Len(queue) : queue[i].grab <= grabs

(* The virtual keyboard has a keymap, or the current grab's comes first.   *)
KeymapBefore(n) ==
  vkReady \/ \E j \in 1..(n - 1) : queue[j].type = "Keymap" /\ queue[j].grab = grab

(* Keys of the current grab come once the compositor took it, and behind   *)
(* its keymap. Until then no press was handled under it.                   *)
Ordered ==
  grab # 0 =>
    /\ \A i \in 1..Len(queue) :
         queue[i].type = "Press" /\ queue[i].grab = grab => cGrab = grab /\ KeymapBefore(i)
    /\ cGrab = grab => KeymapBefore(Len(queue) + 1)
    /\ seen # {} => cGrab = grab

(* The key that is repeated is held down: its press was handled.           *)
RepeatHeld == grab # 0 /\ repeat # "none" => repeat \in seen

RoutingInv == TypeOK /\ Named /\ Ordered /\ RepeatHeld /\ Accounts

(* No key event is handled before the virtual keyboard has its keymap, so  *)
(* forward_key never drops the press of a key on the account.              *)
KeymapFirst == Arrives("Press") /\ Current => vkReady

----------------------------------------------------------------------------
(* The queue.                                                              *)

(* What is left behind the head.                                           *)
LEMMA TailFacts ==
  ASSUME NEW S, NEW q \in Seq(S), q # <<>>
  PROVE  /\ Tail(q) \in Seq(S) /\ Len(q) \in Nat \ {0}
         /\ Len(Tail(q)) = Len(q) - 1 /\ Head(q) = q[1] /\ q[1] \in S
         /\ \A i \in 1..(Len(q) - 1) : Tail(q)[i] = q[i + 1]
<1>1. Len(q) \in Nat \ {0}
  BY EmptySeq
<1> QED
  BY <1>1

(* One event more.                                                         *)
LEMMA AppendFacts ==
  ASSUME NEW S, NEW q \in Seq(S), NEW e \in S
  PROVE  /\ Append(q, e) \in Seq(S) /\ Len(q) \in Nat
         /\ Len(Append(q, e)) = Len(q) + 1 /\ Append(q, e)[Len(q) + 1] = e
         /\ \A i \in 1..Len(q) : Append(q, e)[i] = q[i]
OBVIOUS

(* An event is sent: a key of the grab the compositor knows, a focus       *)
(* change, or the keymap of the grab it takes.                             *)
LEMMA SendKeeps ==
  ASSUME TypeOK, Named, Ordered, NEW e \in Events, Send(e),
         UNCHANGED <<grab, grabs, seen, vkReady>>,
         \/ cGrab' = cGrab /\ e.grab \in {0, cGrab} /\ (e.type = "Press" => e.grab = cGrab)
         \/ cGrab' = grab /\ e.grab = grab /\ e.type = "Keymap"
  PROVE  queue' \in Seq(Events) /\ Named' /\ Ordered'
<1>1. queue \in Seq(Events) /\ {grab, cGrab, grabs} \subseteq Nat
  BY DEF TypeOK, Events
<1>2. /\ queue' \in Seq(Events) /\ Len(queue) \in Nat
      /\ Len(queue') = Len(queue) + 1 /\ queue'[Len(queue) + 1] = e
      /\ \A i \in 1..Len(queue) : queue'[i] = queue[i]
  BY <1>1, AppendFacts DEF Send
<1>m. PICK m \in Nat : m = Len(queue)
  BY <1>2
<1>3. \A i \in 1..Len(queue') : i = m + 1 \/ i \in 1..m
  BY <1>2, <1>m
<1>4. Len(queue') = m + 1 /\ 1..m \subseteq 1..(m + 1) /\ queue'[m + 1] = e
  BY <1>2, <1>m
<1>5. Named'
  BY <1>1, <1>2, <1>3, <1>m DEF Named
<1>6. ASSUME NEW n \in 1..(m + 1), KeymapBefore(n)
      PROVE  KeymapBefore(n)'
  <2>1. CASE vkReady
    BY <2>1 DEF KeymapBefore
  <2>2. CASE ~vkReady
    <3>1. PICK j \in 1..(n - 1) : queue[j].type = "Keymap" /\ queue[j].grab = grab
      BY <1>6, <2>2 DEF KeymapBefore
    <3>2. j \in 1..m
      BY <3>1
    <3> QED
      BY <1>2, <1>m, <3>1, <3>2 DEF KeymapBefore
  <2> QED
    BY <2>1, <2>2
<1>7. Ordered'
  <2> SUFFICES ASSUME grab # 0
               PROVE  /\ \A i \in 1..(m + 1) : queue'[i].type = "Press" /\ queue'[i].grab = grab
                           => cGrab' = grab /\ KeymapBefore(i)'
                      /\ \A n : n = m + 2 /\ cGrab' = grab => KeymapBefore(n)'
                      /\ seen' # {} => cGrab' = grab
    BY <1>4 DEF Ordered
  <2>1. ASSUME NEW i \in 1..m, queue'[i].type = "Press", queue'[i].grab = grab
        PROVE  cGrab = grab /\ KeymapBefore(i)'
    <3>1. cGrab = grab /\ KeymapBefore(i)
      BY <1>2, <1>m, <2>1 DEF Ordered
    <3>2. i \in 1..(m + 1)
      OBVIOUS
    <3> QED
      BY <1>6, <3>1, <3>2
  <2>2. seen # {} => cGrab = grab
    BY DEF Ordered
  <2>3. CASE /\ cGrab' = cGrab /\ e.grab \in {0, cGrab}
             /\ e.type = "Press" => e.grab = cGrab
    <3>1. ASSUME NEW n, n = m + 1, cGrab = grab PROVE KeymapBefore(n)'
      <4>1. KeymapBefore(n)
        BY <1>m, <3>1 DEF Ordered
      <4> QED
        BY <1>6, <3>1, <4>1
    <3>2. ASSUME NEW n, n = m + 2, cGrab = grab PROVE KeymapBefore(n)'
      BY <3>1, <3>2 DEF KeymapBefore
    <3>3. e.type = "Press" /\ e.grab = grab => cGrab = grab
      BY <2>3
    <3>4. ASSUME NEW i \in 1..(m + 1), queue'[i].type = "Press", queue'[i].grab = grab
          PROVE  cGrab' = grab /\ KeymapBefore(i)'
      BY <1>4, <2>1, <2>3, <3>1, <3>3, <3>4
    <3> QED
      BY <2>2, <2>3, <3>2, <3>4
  <2>4. CASE cGrab' = grab /\ e.grab = grab /\ e.type = "Keymap"
    <3>1. ASSUME NEW n, n = m + 2 PROVE KeymapBefore(n)'
      BY <1>4, <2>4, <3>1 DEF KeymapBefore
    <3>2. ASSUME NEW i \in 1..(m + 1), queue'[i].type = "Press", queue'[i].grab = grab
          PROVE  KeymapBefore(i)'
      BY <1>4, <2>1, <2>4, <3>2
    <3> QED
      BY <2>4, <3>1, <3>2
  <2> QED
    BY <2>3, <2>4
<1> QED
  BY <1>2, <1>5, <1>7
(* The first event, when it is a key of the current grab, is behind its    *)
(* keymap.                                                                 *)
LEMMA FirstKey ==
  ASSUME TypeOK, Ordered, Arrives("Press"), Current
  PROVE  vkReady /\ cGrab = grab
<1>1. queue \in Seq(Events) /\ queue # <<>>
  BY DEF TypeOK, Events, Arrives
<1>2. Head(queue) = queue[1] /\ Len(queue) \in Nat \ {0}
  BY <1>1, TailFacts
<1>3. 1 \in 1..Len(queue) /\ 1..(1 - 1) = {}
  BY <1>2
<1>4. cGrab = grab /\ KeymapBefore(1)
  BY <1>2, <1>3 DEF Ordered, Arrives, Current
<1> QED
  BY <1>3, <1>4 DEF KeymapBefore

(* The first event is handled or dropped under the grab that stays.        *)
LEMMA TakeKeeps ==
  ASSUME TypeOK, Named, Ordered, queue # <<>>, queue' = Tail(queue),
         UNCHANGED <<cGrab, grab, grabs>>,
         vkReady' = TRUE \/ (vkReady' = vkReady /\ (Head(queue).type # "Keymap" \/ ~Current)),
         seen' # {} => seen # {} \/ (Arrives("Press") /\ Current)
  PROVE  queue' \in Seq(Events) /\ Named' /\ Ordered'
<1>1. queue \in Seq(Events)
  BY DEF TypeOK, Events
<1>2. /\ queue' \in Seq(Events) /\ Len(queue) \in Nat \ {0}
      /\ Len(queue') = Len(queue) - 1 /\ Head(queue) = queue[1]
      /\ \A i \in 1..(Len(queue) - 1) : queue'[i] = queue[i + 1]
  BY <1>1, TailFacts
<1>0. Len(queue) - 1 \in Nat
  BY <1>2, SMTT(30)
<1>m. PICK m \in Nat : m = Len(queue) - 1
  BY <1>0
<1>3. Len(queue') = m /\ Len(queue) = m + 1 /\ \A i \in 1..m : queue'[i] = queue[i + 1]
  BY <1>2, <1>m
<1>4. Named'
  BY <1>3 DEF Named
<1>5. ASSUME NEW n \in 1..(m + 1), KeymapBefore(n + 1), grab # 0
      PROVE  KeymapBefore(n)'
  <2>1. CASE vkReady \/ vkReady'
    BY <2>1 DEF KeymapBefore
  <2>2. CASE ~vkReady /\ ~vkReady'
    <3>1. PICK j \in 1..((n + 1) - 1) : queue[j].type = "Keymap" /\ queue[j].grab = grab
      BY <1>5, <2>2 DEF KeymapBefore
    <3>2. j # 1
      BY <1>2, <1>5, <2>2, <3>1 DEF Current
    <3>3. j - 1 \in 1..(n - 1) /\ j - 1 \in 1..m /\ (j - 1) + 1 = j
      BY <3>1, <3>2
    <3>4. queue'[j - 1].type = "Keymap" /\ queue'[j - 1].grab = grab
      BY <1>3, <3>1, <3>3
    <3> QED
      BY <3>3, <3>4 DEF KeymapBefore
  <2> QED
    BY <2>1, <2>2
<1>6. Ordered'
  <2> SUFFICES ASSUME grab # 0
               PROVE  /\ \A i \in 1..m : queue'[i].type = "Press" /\ queue'[i].grab = grab
                           => cGrab = grab /\ KeymapBefore(i)'
                      /\ \A n : n = m + 1 /\ cGrab = grab => KeymapBefore(n)'
                      /\ seen' # {} => cGrab = grab
    BY <1>3 DEF Ordered
  <2>1. ASSUME NEW i \in 1..m, queue'[i].type = "Press", queue'[i].grab = grab
        PROVE  cGrab = grab /\ KeymapBefore(i)'
    <3>1. i + 1 \in 1..Len(queue) /\ queue'[i] = queue[i + 1] /\ i \in 1..(m + 1)
      BY <1>3
    <3>2. cGrab = grab /\ KeymapBefore(i + 1)
      BY <2>1, <3>1 DEF Ordered
    <3> QED
      BY <1>5, <3>1, <3>2
  <2>2. ASSUME NEW n, n = m + 1, cGrab = grab PROVE KeymapBefore(n)'
    <3>1. KeymapBefore(n + 1) /\ n \in 1..(m + 1)
      BY <1>3, <2>2 DEF Ordered
    <3> QED
      BY <1>5, <3>1
  <2>3. seen' # {} => cGrab = grab
    BY FirstKey DEF Ordered
  <2> QED
    BY <2>1, <2>2, <2>3
<1> QED
  BY <1>2, <1>4, <1>6

(* ACTIVATE requests a grab nothing on its way belongs to, DEACTIVATE has  *)
(* none.                                                                   *)
LEMMA FocusKeeps ==
  ASSUME TypeOK, Named, queue # <<>>, queue' = Tail(queue), cGrab' = cGrab, seen' = {},
         (grabs' = grabs + 1 /\ grab' = grabs + 1) \/ (grabs' = grabs /\ grab' = 0)
  PROVE  queue' \in Seq(Events) /\ Named' /\ Ordered'
<1>1. queue \in Seq(Events) /\ {grab, cGrab, grabs} \subseteq Nat
  BY DEF TypeOK, Events
<1>2. /\ queue' \in Seq(Events) /\ Len(queue) \in Nat \ {0}
      /\ Len(queue') = Len(queue) - 1
      /\ \A i \in 1..(Len(queue) - 1) : queue'[i] = queue[i + 1]
  BY <1>1, TailFacts
<1>3. \A i \in 1..Len(queue') : queue'[i].grab \in Nat /\ queue'[i].grab <= grabs
  <2> SUFFICES ASSUME NEW i \in 1..Len(queue')
               PROVE  queue'[i].grab \in Nat /\ queue'[i].grab <= grabs
    OBVIOUS
  <2>1. i + 1 \in 1..Len(queue) /\ queue'[i] = queue[i + 1]
    BY <1>2
  <2>2. queue[i + 1] \in Events
    BY <1>1, <2>1
  <2> QED
    BY <2>1, <2>2 DEF Named, Events
<1>4. Named'
  BY <1>1, <1>3 DEF Named
<1>5. grab' # 0 => cGrab' # grab' /\ \A i \in 1..Len(queue') : queue'[i].grab # grab'
  BY <1>1, <1>3 DEF Named
<1> QED
  BY <1>2, <1>4, <1>5 DEF Ordered

----------------------------------------------------------------------------
(* The engine and the account.                                             *)

(* What the engine answers.                                                *)
LEMMA EngineAnswers ==
  ASSUME TypeOK, NEW k, NEW r \in EngineKey(k)
  PROVE  r.chinese \in BOOLEAN /\ r.comp \in Composed \cup {"none"}
<1>1. chinese \in BOOLEAN /\ (~chinese) \in BOOLEAN /\ comp \in Composed \cup {"none"}
  BY DEF TypeOK
<1> DEFINE C == Composed \cup {"none"}
<1>2. \E o \in {"Ignored", "Consumed", "Commit"}, z \in BOOLEAN, c \in C : r = Answer(o, z, c)
  <2> HIDE DEF C
  <2>0. comp \in C /\ "none" \in C /\ \A c \in Composed \cup {"none"} : c \in C
    BY <1>1 DEF C
  <2>1. CASE k \in Shifts
    <3>1. r \in {Answer("Consumed", ~chinese, "none"), Answer("Commit", FALSE, "none")}
      BY <2>1 DEF EngineKey
    <3>2. CASE r = Answer("Consumed", ~chinese, "none")
      BY <1>1, <2>0, <3>2, Zenon
    <3>3. CASE r = Answer("Commit", FALSE, "none")
      <4>1. FALSE \in BOOLEAN
        OBVIOUS
      <4> QED
        BY <2>0, <3>3, <4>1, Zenon
    <3> QED
      BY <3>1, <3>2, <3>3
  <2>2. CASE k \notin Shifts
    <3>1. \/ r \in {Answer("Ignored", FALSE, comp), Answer("Ignored", TRUE, comp)}
          \/ \E c \in Composed \cup {"none"} : r = Answer("Consumed", TRUE, c)
          \/ \E c \in {comp, "none"} : r = Answer("Commit", TRUE, c)
      BY <2>2 DEF EngineKey, ConsumeLeaves, CommitLeaves
    <3>2. TRUE \in BOOLEAN /\ FALSE \in BOOLEAN
      OBVIOUS
    <3>3. CASE r \in {Answer("Ignored", FALSE, comp), Answer("Ignored", TRUE, comp)}
      BY <2>0, <3>2, <3>3, Zenon
    <3>4. CASE \E c \in Composed \cup {"none"} : r = Answer("Consumed", TRUE, c)
      BY <2>0, <3>2, <3>4, Zenon
    <3>5. CASE \E c \in {comp, "none"} : r = Answer("Commit", TRUE, c)
      BY <2>0, <3>2, <3>5, Zenon
    <3> QED
      BY <3>1, <3>3, <3>4, <3>5
  <2> QED
    BY <2>1, <2>2
<1> QED
  BY <1>2 DEF Answer

(* A press leaves the fields of the shell well-typed.                      *)
LEMMA PressTypes ==
  ASSUME TypeOK, NEW k \in Keys, NEW synthetic \in BOOLEAN, PressKey(k, synthetic)
  PROVE  /\ swallowed' \subseteq Keys /\ appDown' \subseteq Keys
         /\ repeat' \in Repeatable \cup {"none"}
         /\ comp' \in Composed \cup {"none"}
         /\ chinese' \in BOOLEAN /\ clip' \in BOOLEAN /\ bare' \in BOOLEAN
<1>1. CASE ClipMode(k)
  BY <1>1 DEF ClipMode, TypeOK, engine, app
<1>2. CASE EnginePress(k, synthetic)
  <2>1. PICK r \in EngineKey(k) :
          /\ clip' = FALSE /\ chinese' = r.chinese /\ comp' = r.comp
          /\ Consume(k, r, synthetic) \/ Forward(k, r) \/ Tap(k, r)
    BY <1>2 DEF EnginePress
  <2>2. r.chinese \in BOOLEAN /\ r.comp \in Composed \cup {"none"}
    BY EngineAnswers
  <2>3. CASE Consume(k, r, synthetic)
    BY <2>1, <2>2, <2>3 DEF Consume, Disarmed, TypeOK, app
  <2>4. CASE Forward(k, r)
    BY <2>1, <2>2, <2>4 DEF Forward, ForwardPress, Disarmed, TypeOK
  <2>5. CASE Tap(k, r)
    BY <2>1, <2>2, <2>5 DEF Tap, TypeOK
  <2> QED
    BY <2>1, <2>3, <2>4, <2>5
<1> QED
  BY <1>1, <1>2 DEF PressKey

(* A press, the user's or the timer's, ends on the account or in the       *)
(* application, and only a key held down is repeated.                      *)
LEMMA PressAccounts ==
  ASSUME TypeOK, RepeatHeld, Accounts, grab # 0, grab' = grab,
         NEW k \in Keys, NEW synthetic \in BOOLEAN, PressKey(k, synthetic),
         ~synthetic => vkReady, seen' = seen \cup {k}
  PROVE  RepeatHeld' /\ Accounts'
<1>1. swallowed \subseteq seen /\ seen \ swallowed \subseteq appDown
  BY DEF Accounts
<1>2. repeat # "none" => repeat \in seen
  BY DEF RepeatHeld
<1>3. CASE ClipMode(k)
  BY <1>1, <1>2, <1>3 DEF ClipMode, app, RepeatHeld, Accounts
<1>4. CASE EnginePress(k, synthetic)
  <2>1. PICK r \in EngineKey(k) :
          \/ Consume(k, r, synthetic)
          \/ ~synthetic /\ Forward(k, r)
          \/ Tap(k, r)
    BY <1>4 DEF EnginePress
  <2>2. CASE Consume(k, r, synthetic)
    BY <1>1, <1>2, <2>2 DEF Consume, Disarmed, app, RepeatHeld, Accounts
  <2>3. CASE ~synthetic /\ Forward(k, r)
    <3>1. swallowed' = swallowed \ {k} /\ appDown' = appDown \cup {k} /\ repeat' = Disarmed(k)
      BY <2>3 DEF Forward, ForwardPress
    <3> QED
      BY <1>1, <1>2, <3>1 DEF Disarmed, RepeatHeld, Accounts
  <2>4. CASE Tap(k, r)
    BY <1>1, <1>2, <2>4 DEF Tap, RepeatHeld, Accounts
  <2> QED
    BY <2>1, <2>2, <2>3, <2>4
<1> QED
  BY <1>3, <1>4 DEF PressKey

(* A release, its key taken off the account.                               *)
LEMMA ReleaseAccounts ==
  ASSUME TypeOK, RepeatHeld, Accounts, grab' = grab, NEW k \in Keys,
         NEW sw, sw = swallowed \/ sw = swallowed \cup {k},
         RouteRelease(k, sw), seen' = seen \ {k}
  PROVE  /\ RepeatHeld' /\ Accounts'
         /\ swallowed' \subseteq Keys /\ appDown' \subseteq Keys /\ bare' \in BOOLEAN
         /\ repeat' \in Repeatable \cup {"none"}
<1>1. swallowed' = swallowed \ {k} /\ repeat' = Disarmed(k)
  BY DEF RouteRelease
<1>2. appDown' \in {appDown, appDown \ {k}}
  BY DEF RouteRelease, ForwardRelease, app
<1>3. bare' \in BOOLEAN
  BY DEF RouteRelease, ForwardRelease, app, TypeOK
<1>4. repeat' \in Repeatable \cup {"none"}
  BY <1>1 DEF Disarmed, TypeOK
<1>5. RepeatHeld'
  BY <1>1 DEF Disarmed, RepeatHeld
<1>6. Accounts'
  BY <1>1, <1>2 DEF Accounts
<1> QED
  BY <1>1, <1>2, <1>3, <1>4, <1>5, <1>6 DEF TypeOK
----------------------------------------------------------------------------
(* The inductive invariant, one action at a time.                          *)

(* The key of a key event is a key.                                        *)
LEMMA HeadIsKey ==
  ASSUME TypeOK, queue # <<>>
  PROVE  Head(queue) \in Events /\ (Head(queue).type \in {"Press", "Release"} => Head(queue).key \in Keys)
<1>1. queue \in Seq(Events)
  BY DEF TypeOK, Events
<1>2. Head(queue) \in Events
  BY <1>1, TailFacts
<1> QED
  BY <1>2 DEF Events

(* The user and the compositor: the application hears of a key directly    *)
(* only while no press was handled under the grab.                         *)
LEMMA UserKeeps ==
  ASSUME RoutingInv, NEW k \in Keys, Press(k) \/ Release(k)
  PROVE  RoutingInv'
<1>1. /\ TypeOK /\ Named /\ Ordered /\ RepeatHeld /\ Accounts
      /\ UNCHANGED <<cGrab, focused, lost, shell, engine, seen, bare>>
      /\ physDown' \subseteq Keys
  BY DEF RoutingInv, Press, Release, TypeOK, app
<1>2. UNCHANGED <<grab, grabs, vkReady, swallowed, repeat>>
  BY <1>1 DEF shell
<1>3. CASE cGrab # 0
  <2>1. appDown' = appDown
    BY <1>3 DEF Press, Release, app
  <2>2. PICK type \in {"Press", "Release"} : Send(Event(type, cGrab, k))
    BY <1>3 DEF Press, Release
  <2> DEFINE e == Event(type, cGrab, k)
  <2>3. e \in Events /\ e.grab = cGrab
    BY <1>1 DEF Event, Events, TypeOK
  <2> HIDE DEF e
  <2>4. queue' \in Seq(Events) /\ Named' /\ Ordered'
    BY <1>1, <1>2, <2>2, <2>3, SendKeeps DEF e
  <2>5. TypeOK'
    BY <1>1, <2>1, <2>4 DEF TypeOK, Events, shell, engine
  <2>6. RepeatHeld' /\ Accounts'
    BY <1>1, <1>2, <2>1 DEF RepeatHeld, Accounts
  <2> QED
    BY <2>4, <2>5, <2>6 DEF RoutingInv
<1>4. CASE cGrab = 0
  <2>1. queue' = queue /\ appDown' \in {appDown \cup {k}, appDown \ {k}}
    BY <1>4 DEF Press, Release
  <2>2. grab # 0 => seen = {}
    BY <1>1, <1>4 DEF Ordered
  <2>3. Named' /\ Ordered'
    BY <1>1, <1>2, <2>1 DEF Named, Ordered, KeymapBefore
  <2>4. TypeOK'
    BY <1>1, <2>1 DEF TypeOK, shell, engine
  <2>5. RepeatHeld' /\ Accounts'
    BY <1>1, <1>2, <2>1, <2>2 DEF RepeatHeld, Accounts
  <2> QED
    BY <2>3, <2>4, <2>5 DEF RoutingInv
<1> QED
  BY <1>3, <1>4

(* A focus change is sent; the compositor takes a grab.                    *)
LEMMA CompositorSends ==
  ASSUME RoutingInv, SendFocus("Activate") \/ SendFocus("Deactivate") \/ TakeGrab
  PROVE  RoutingInv'
<1>1. /\ TypeOK /\ Named /\ Ordered /\ RepeatHeld /\ Accounts
      /\ UNCHANGED <<physDown, lost, shell, engine, app, seen>>
      /\ focused' \in Nat /\ cGrab' \in Nat
  BY DEF RoutingInv, SendFocus, TakeGrab, TypeOK
<1>2. UNCHANGED <<grab, grabs, vkReady, swallowed, repeat>>
  BY <1>1 DEF shell
<1>3. queue' \in Seq(Events) /\ Named' /\ Ordered'
  <2>1. CASE SendFocus("Activate") \/ SendFocus("Deactivate")
    <3>1. PICK type \in {"Activate", "Deactivate"} : Send(Event(type, 0, "none"))
      BY <2>1 DEF SendFocus
    <3> DEFINE e == Event(type, 0, "none")
    <3>2. e \in Events /\ e.grab = 0 /\ e.type # "Press"
      BY DEF Event, Events
    <3>3. cGrab' = cGrab
      BY <2>1 DEF SendFocus
    <3> HIDE DEF e
    <3> QED
      BY <1>1, <1>2, <3>1, <3>2, <3>3, SendKeeps DEF e
  <2>2. CASE TakeGrab /\ grab # 0
    <3> DEFINE e == Event("Keymap", grab, "none")
    <3>1. e \in Events /\ e.grab = grab /\ e.type = "Keymap"
      BY <1>1 DEF Event, Events, TypeOK
    <3>2. Send(e) /\ cGrab' = grab
      BY <2>2 DEF TakeGrab
    <3> HIDE DEF e
    <3> QED
      BY <1>1, <1>2, <3>1, <3>2, SendKeeps
  <2>3. CASE TakeGrab /\ grab = 0
    <3>1. queue' = queue /\ cGrab' = 0
      BY <2>3 DEF TakeGrab
    <3> QED
      BY <1>1, <1>2, <2>3, <3>1 DEF Named, Ordered, TypeOK, Events
  <2> QED
    BY <2>1, <2>2, <2>3
<1>4. TypeOK'
  BY <1>1, <1>3 DEF TypeOK, Events, shell, engine, app
<1>5. RepeatHeld' /\ Accounts'
  BY <1>1, <1>2 DEF RepeatHeld, Accounts, app
<1> QED
  BY <1>3, <1>4, <1>5 DEF RoutingInv

(* A press of the current grab is handled: by the gesture, by the engine,  *)
(* by clipboard mode, or it bypasses them.                                 *)
LEMMA PressKeeps ==
  ASSUME RoutingInv, HandleShiftGesture \/ HandleShiftPress \/ HandlePress
  PROVE  RoutingInv'
<1> DEFINE k == Head(queue).key
<1>1. /\ TypeOK /\ Named /\ Ordered /\ RepeatHeld /\ Accounts
      /\ Arrives("Press") /\ Current /\ Handled
      /\ seen' = seen \cup {k}
      /\ UNCHANGED <<grab, grabs, vkReady>>
  BY DEF RoutingInv, HandleShiftGesture, HandleShiftPress, HandlePress
<1>2. queue # <<>> /\ k \in Keys
  BY <1>1, HeadIsKey DEF Arrives
<1>3. vkReady /\ grab # 0
  BY <1>1, FirstKey DEF Current
<1> HIDE DEF k
<1>4. queue' \in Seq(Events) /\ Named' /\ Ordered'
  BY <1>1, <1>2, <1>3, TakeKeeps DEF Handled
<1>5. UNCHANGED <<physDown, cGrab, focused, lost>>
  BY <1>1 DEF Handled
<1>6. /\ gesture' \in {"Idle", "Armed", "HoldActive"} /\ shiftsDown' \in Nat
  <2>1. gesture \in {"Idle", "Armed", "HoldActive"} /\ shiftsDown \in Nat
    BY <1>1 DEF TypeOK
  <2>2. shiftsDown + 1 \in Nat
    BY <2>1
  <2>3. CASE HandleShiftGesture
    BY <2>1, <2>2, <2>3 DEF HandleShiftGesture
  <2>4. CASE HandleShiftPress
    BY <2>1, <2>4 DEF HandleShiftPress
  <2>5. CASE HandlePress
    BY <2>1, <2>5 DEF HandlePress
  <2> QED
    BY <2>3, <2>4, <2>5
<1>7. /\ swallowed' \subseteq Keys /\ appDown' \subseteq Keys
      /\ repeat' \in Repeatable \cup {"none"}
      /\ comp' \in Composed \cup {"none"}
      /\ chinese' \in BOOLEAN /\ clip' \in BOOLEAN /\ bare' \in BOOLEAN
      /\ RepeatHeld' /\ Accounts'
  <2>1. CASE PressKey(k, FALSE)
    BY <1>1, <1>2, <1>3, <2>1, PressTypes, PressAccounts
  <2>2. CASE swallowed' = swallowed \cup {k} /\ UNCHANGED <<repeat, clip, engine, app>>
    BY <1>1, <1>2, <2>2 DEF TypeOK, RepeatHeld, Accounts, engine, app
  <2>3. CASE ForwardPress(k) /\ UNCHANGED <<swallowed, repeat, clip, engine>>
    <3>1. appDown' = appDown \cup {k} /\ bare' = bare
      BY <1>3, <2>3 DEF ForwardPress
    <3> QED
      BY <1>1, <1>2, <2>3, <3>1 DEF TypeOK, RepeatHeld, Accounts, engine
  <2> QED
    BY <2>1, <2>2, <2>3 DEF HandleShiftGesture, HandleShiftPress, HandlePress, k
<1>8. TypeOK'
  BY <1>1, <1>2, <1>4, <1>5, <1>6, <1>7 DEF TypeOK, Events
<1> QED
  BY <1>4, <1>7, <1>8 DEF RoutingInv

(* A release of the current grab is handled; a tap of Shift goes to the    *)
(* engine first.                                                           *)
LEMMA ReleaseKeeps ==
  ASSUME RoutingInv, HandleRelease \/ HandleShiftRelease
  PROVE  RoutingInv'
<1> DEFINE k == Head(queue).key
<1>1. /\ TypeOK /\ Named /\ Ordered /\ RepeatHeld /\ Accounts
      /\ Arrives("Release") /\ Current /\ Handled
      /\ seen' = seen \ {k}
      /\ UNCHANGED <<grab, grabs, vkReady>>
  BY DEF RoutingInv, HandleRelease, HandleShiftRelease
<1>2. queue # <<>> /\ k \in Keys
  BY <1>1, HeadIsKey DEF Arrives
<1>3. Head(queue).type # "Keymap"
  BY <1>1 DEF Arrives
<1> HIDE DEF k
<1>4. queue' \in Seq(Events) /\ Named' /\ Ordered'
  BY <1>1, <1>2, <1>3, TakeKeeps DEF Handled
<1>5. UNCHANGED <<physDown, cGrab, focused, lost>>
  BY <1>1 DEF Handled
<1>6. Released \in Nat
  BY <1>1 DEF Released, TypeOK
<1>7. gesture' \in {"Idle", "Armed", "HoldActive"} /\ shiftsDown' \in Nat
  BY <1>1, <1>6 DEF HandleRelease, HandleShiftRelease, TypeOK
<1>8. PICK sw : (sw = swallowed \/ sw = swallowed \cup {k}) /\ RouteRelease(k, sw)
  BY DEF HandleRelease, HandleShiftRelease, k
<1>9. /\ RepeatHeld' /\ Accounts'
      /\ swallowed' \subseteq Keys /\ appDown' \subseteq Keys /\ bare' \in BOOLEAN
      /\ repeat' \in Repeatable \cup {"none"}
  BY <1>1, <1>2, <1>8, ReleaseAccounts
<1>10. comp' \in Composed \cup {"none"} /\ chinese' \in BOOLEAN /\ clip' \in BOOLEAN
  <2>1. CASE UNCHANGED <<engine, clip>>
    BY <1>1, <2>1 DEF TypeOK, engine
  <2>2. CASE clip' = FALSE /\ \E r \in EngineKey(k) : chinese' = r.chinese /\ comp' = r.comp
    BY <1>1, <2>2, EngineAnswers
  <2> QED
    BY <2>1, <2>2 DEF HandleRelease, HandleShiftRelease, k
<1>11. TypeOK'
  BY <1>1, <1>2, <1>4, <1>5, <1>7, <1>9, <1>10 DEF TypeOK, Events
<1> QED
  BY <1>4, <1>9, <1>11 DEF RoutingInv

(* Every other event.                                                      *)
LEMMA OtherKeeps ==
  ASSUME RoutingInv, DropStale \/ HandleKeymap \/ HandleActivate \/ HandleDeactivate
  PROVE  RoutingInv'
<1>1. /\ TypeOK /\ Named /\ Ordered /\ RepeatHeld /\ Accounts
      /\ queue # <<>> /\ Handled /\ app' = app /\ chinese' = chinese
  BY DEF RoutingInv, DropStale, HandleKeymap, HandleActivate, HandleDeactivate, Arrives,
     engine
<1>2. queue' = Tail(queue) /\ UNCHANGED <<physDown, cGrab, focused, lost, appDown, bare>>
  BY <1>1 DEF Handled, app
<1>3. CASE DropStale
  <2>1. ~Current /\ UNCHANGED <<shell, engine, seen>>
    BY <1>3 DEF DropStale
  <2>2. queue' \in Seq(Events) /\ Named' /\ Ordered'
    BY <1>1, <1>2, <2>1, TakeKeeps DEF shell
  <2>3. TypeOK'
    BY <1>1, <1>2, <2>1, <2>2 DEF TypeOK, Events, shell, engine
  <2>4. RepeatHeld' /\ Accounts'
    BY <1>1, <1>2, <2>1 DEF RepeatHeld, Accounts, shell
  <2> QED
    BY <2>2, <2>3, <2>4 DEF RoutingInv
<1>4. CASE HandleKeymap
  <2>1. /\ vkReady' = TRUE
        /\ UNCHANGED <<grab, grabs, swallowed, repeat, gesture, shiftsDown, clip, engine, seen>>
    BY <1>4 DEF HandleKeymap
  <2>2. queue' \in Seq(Events) /\ Named' /\ Ordered'
    BY <1>1, <1>2, <2>1, TakeKeeps
  <2>3. TypeOK'
    BY <1>1, <1>2, <2>1, <2>2 DEF TypeOK, Events, engine
  <2>4. RepeatHeld' /\ Accounts'
    BY <1>1, <1>2, <2>1 DEF RepeatHeld, Accounts
  <2> QED
    BY <2>2, <2>3, <2>4 DEF RoutingInv
<1>5. CASE HandleActivate
  <2>1. /\ grabs' = grabs + 1 /\ grab' = grabs + 1 /\ swallowed' = {} /\ repeat' = "none"
        /\ gesture' = "Idle" /\ shiftsDown' = 0 /\ seen' = {}
        /\ UNCHANGED <<clip, vkReady, engine>>
    BY <1>5 DEF HandleActivate
  <2>2. queue' \in Seq(Events) /\ Named' /\ Ordered'
    BY <1>1, <1>2, <2>1, FocusKeeps
  <2>3. TypeOK'
    BY <1>1, <1>2, <2>1, <2>2 DEF TypeOK, Events, engine
  <2>4. RepeatHeld' /\ Accounts'
    BY <2>1 DEF RepeatHeld, Accounts
  <2> QED
    BY <2>2, <2>3, <2>4 DEF RoutingInv
<1>6. CASE HandleDeactivate
  <2>1. /\ grab' = 0 /\ repeat' = "none" /\ gesture' = "Idle" /\ shiftsDown' = 0 /\ seen' = {}
        /\ comp' \in {"none", comp}
        /\ UNCHANGED <<grabs, swallowed, clip, vkReady, chinese>>
    BY <1>6 DEF HandleDeactivate
  <2>2. queue' \in Seq(Events) /\ Named' /\ Ordered'
    BY <1>1, <1>2, <2>1, FocusKeeps
  <2>3. TypeOK'
    BY <1>1, <1>2, <2>1, <2>2 DEF TypeOK, Events
  <2>4. RepeatHeld' /\ Accounts'
    BY <2>1 DEF RepeatHeld, Accounts
  <2> QED
    BY <2>2, <2>3, <2>4 DEF RoutingInv
<1> QED
  BY <1>3, <1>4, <1>5, <1>6

(* The repeat timer: under a grab its key is one of the account.           *)
LEMMA TickKeeps ==
  ASSUME RoutingInv, Tick
  PROVE  RoutingInv'
<1>1. /\ TypeOK /\ Named /\ Ordered /\ RepeatHeld /\ Accounts
      /\ repeat # "none" /\ PressKey(repeat, TRUE)
      /\ UNCHANGED <<board, grab, grabs, gesture, shiftsDown, vkReady, seen>>
  BY DEF RoutingInv, Tick
<1>2. repeat \in Keys
  BY <1>1, KeyAssumption DEF TypeOK
<1>3. /\ swallowed' \subseteq Keys /\ appDown' \subseteq Keys
      /\ repeat' \in Repeatable \cup {"none"}
      /\ comp' \in Composed \cup {"none"}
      /\ chinese' \in BOOLEAN /\ clip' \in BOOLEAN /\ bare' \in BOOLEAN
  BY <1>1, <1>2, PressTypes
<1>4. Named' /\ Ordered'
  BY <1>1 DEF Named, Ordered, KeymapBefore, board
<1>5. TypeOK'
  BY <1>1, <1>3 DEF TypeOK, board
<1>6. RepeatHeld' /\ Accounts'
  <2>1. CASE grab # 0
    <3>1. seen' = seen \cup {repeat}
      BY <1>1, <2>1 DEF RepeatHeld
    <3> QED
      BY <1>1, <1>2, <2>1, <3>1, PressAccounts
  <2>2. CASE grab = 0
    BY <1>1, <2>2 DEF RepeatHeld, Accounts
  <2> QED
    BY <2>1, <2>2
<1> QED
  BY <1>4, <1>5, <1>6 DEF RoutingInv

(* The lost connection takes grab, events and keymap with it.              *)
LEMMA LossKeeps ==
  ASSUME RoutingInv, LoseConnection
  PROVE  RoutingInv'
<1>1. /\ TypeOK /\ queue' = <<>> /\ cGrab' = 0 /\ grab' = 0 /\ appDown' = {} /\ seen' = {}
      /\ lost' = TRUE /\ vkReady' = FALSE
      /\ UNCHANGED <<physDown, focused, grabs, swallowed, repeat, gesture, shiftsDown, clip,
                     engine, bare>>
  BY DEF RoutingInv, LoseConnection
<1>2. queue' \in Seq(Events) /\ Len(queue') = 0
  BY <1>1
<1>3. Named' /\ Ordered' /\ RepeatHeld' /\ Accounts'
  BY <1>1, <1>2 DEF Named, Ordered, RepeatHeld, Accounts, TypeOK
<1>4. TypeOK'
  BY <1>1, <1>2 DEF TypeOK, Events, engine
<1> QED
  BY <1>3, <1>4 DEF RoutingInv

(* The shell starts without a grab.                                        *)
LEMMA RoutingStart == Init => RoutingInv
<1> SUFFICES ASSUME Init PROVE RoutingInv
  OBVIOUS
<1>1. queue \in Seq(Events) /\ Len(queue) = 0
  BY DEF Init
<1>2. TypeOK
  BY <1>1 DEF Init, TypeOK, Events
<1>3. Named /\ Ordered /\ RepeatHeld /\ Accounts
  BY <1>1 DEF Init, Named, Ordered, RepeatHeld, Accounts
<1> QED
  BY <1>2, <1>3 DEF RoutingInv

(* Every step keeps the invariant.                                         *)
LEMMA RoutingStep == RoutingInv /\ [Next]_vars => RoutingInv'
<1> SUFFICES ASSUME RoutingInv, [Next]_vars PROVE RoutingInv'
  OBVIOUS
<1>1. ASSUME NEW k \in Keys, Press(k) \/ Release(k) PROVE RoutingInv'
  BY <1>1, UserKeeps
<1>2. CASE SendFocus("Activate") \/ SendFocus("Deactivate") \/ TakeGrab
  BY <1>2, CompositorSends
<1>3. CASE Handle
  BY <1>3, PressKeeps, ReleaseKeeps, OtherKeeps DEF Handle
<1>4. CASE Tick
  BY <1>4, TickKeeps
<1>5. CASE LoseConnection
  BY <1>5, LossKeeps
<1>6. CASE UNCHANGED vars
  <2>1. UNCHANGED <<board, shell, engine, app, seen>>
    BY <1>6 DEF vars
  <2>2. TypeOK'
    BY <2>1 DEF RoutingInv, TypeOK, board, shell, engine, app
  <2>3. Named' /\ Ordered' /\ RepeatHeld' /\ Accounts'
    BY <2>1 DEF RoutingInv, Named, Ordered, KeymapBefore, RepeatHeld, Accounts, board,
       shell, app
  <2> QED
    BY <2>2, <2>3 DEF RoutingInv
<1> QED
  BY <1>1, <1>2, <1>3, <1>4, <1>5, <1>6 DEF Next

----------------------------------------------------------------------------
(* The pairing of keys over one activation, without a lost connection and  *)
(* with one Shift: further ones break it (README).                         *)
OneGrab == MaxFocus <= 1 /\ ~LosesConnection /\ \A a, b \in Shifts : a = b

(* What an event on its way does to the set of keys held down.             *)
IsKeyEvent(e) == e.type \in {"Press", "Release"}
Moves(e, d, n) ==
  /\ e.type = "Press" => e.key \notin d /\ n = d \cup {e.key}
  /\ e.type = "Release" => e.key \in d /\ n = d \ {e.key}
  /\ ~IsKeyEvent(e) => n = d

(* The events of q lead from the keys a to the keys b.                     *)
Replay(h, q, a, b) ==
  /\ h \in [1..(Len(q) + 1) -> SUBSET Keys]
  /\ h[1] = a /\ h[Len(q) + 1] = b
  /\ \A i \in 1..Len(q) : Moves(q[i], h[i], h[i + 1])
Replays(q, a, b) == \E h : Replay(h, q, a, b)

(* Before the grab keys go straight to the application.                    *)
Direct ==
  /\ cGrab = 0 /\ appDown = physDown /\ seen = {} /\ swallowed = {}
  /\ repeat = "none" /\ gesture = "Idle" /\ shiftsDown = 0

Waiting ==
  /\ Direct /\ grab = 0 /\ focused <= 1 /\ Len(queue) <= focused
  /\ \A i \in 1..Len(queue) : queue[i].type \in {"Activate", "Deactivate"}

Asked == Direct /\ grab # 0 /\ focused = 1 /\ queue = <<>>

(* Under it the shell is behind the keyboard by the events on their way.   *)
Behind ==
  /\ grab # 0 /\ cGrab = grab /\ focused = 1
  /\ Replays(queue, seen \cup appDown, physDown)
  /\ \A i \in 1..Len(queue) :
       /\ queue[i].grab = grab
       /\ queue[i].type = "Keymap" \/ (IsKeyEvent(queue[i]) /\ KeymapBefore(i))

(* A key is on the account or down in the application, not both; the key   *)
(* repeated and a Shift with an open gesture are on the account.           *)
Apart ==
  /\ swallowed \cap appDown = {}
  /\ repeat # "none" => repeat \in swallowed
  /\ gesture # "Idle" => Shifts \subseteq swallowed
  /\ shiftsDown # 0 => shiftsDown = 1 /\ Shifts \subseteq seen

PairInv == RoutingInv /\ ~bare /\ (Waiting \/ Asked \/ (Behind /\ Apart))

----------------------------------------------------------------------------
(* Replays.                                                                *)

(* One event more.                                                         *)
LEMMA ReplayMore ==
  ASSUME NEW q \in Seq(Events), NEW a, NEW b, Replays(q, a, b),
         NEW e \in Events, NEW c \in SUBSET Keys, Moves(e, b, c)
  PROVE  Replays(Append(q, e), a, c)
<1> DEFINE r == Append(q, e)
<1>1. /\ r \in Seq(Events) /\ Len(q) \in Nat /\ Len(r) = Len(q) + 1 /\ r[Len(q) + 1] = e
      /\ \A i \in 1..Len(q) : r[i] = q[i]
  BY AppendFacts
<1> HIDE DEF r
<1>2. PICK h : Replay(h, q, a, b)
  BY DEF Replays
<1> DEFINE g == [i \in 1..(Len(r) + 1) |-> IF i = Len(r) + 1 THEN c ELSE h[i]]
<1>3. g \in [1..(Len(r) + 1) -> SUBSET Keys]
  BY <1>1, <1>2 DEF Replay
<1>4. g[1] = a /\ g[Len(r) + 1] = c
  BY <1>1, <1>2 DEF Replay
<1>5. ASSUME NEW i \in 1..Len(r) PROVE Moves(r[i], g[i], g[i + 1])
  <2>1. CASE i = Len(r)
    <3>1. g[i] = b /\ g[i + 1] = c /\ r[i] = e
      BY <1>1, <1>2, <2>1 DEF Replay
    <3> QED
      BY <3>1
  <2>2. CASE i # Len(r)
    <3>1. i \in 1..Len(q)
      BY <1>1, <2>2
    <3>2. g[i] = h[i] /\ g[i + 1] = h[i + 1] /\ r[i] = q[i]
      BY <1>1, <3>1
    <3> QED
      BY <1>2, <3>1, <3>2 DEF Replay
  <2> QED
    BY <2>1, <2>2
<1>6. Replay(g, r, a, c)
  BY <1>3, <1>4, <1>5 DEF Replay
<1> QED
  BY <1>6 DEF Replays, r

(* The first event is handled.                                             *)
LEMMA ReplayFirst ==
  ASSUME NEW q \in Seq(Events), q # <<>>, NEW a, NEW b, Replays(q, a, b)
  PROVE  \E c \in SUBSET Keys : Moves(Head(q), a, c) /\ Replays(Tail(q), c, b)
<1> DEFINE t == Tail(q)
<1>1. /\ t \in Seq(Events) /\ Len(q) \in Nat \ {0} /\ Len(t) = Len(q) - 1 /\ Head(q) = q[1]
      /\ \A i \in 1..(Len(q) - 1) : t[i] = q[i + 1]
  BY TailFacts
<1> HIDE DEF t
<1>2. PICK h : Replay(h, q, a, b)
  BY DEF Replays
<1> DEFINE g == [i \in 1..(Len(t) + 1) |-> h[i + 1]]
<1>3. h[2] \in SUBSET Keys /\ Moves(Head(q), a, h[2])
  BY <1>1, <1>2 DEF Replay
<1>4. g \in [1..(Len(t) + 1) -> SUBSET Keys] /\ g[1] = h[2] /\ g[Len(t) + 1] = b
  BY <1>1, <1>2 DEF Replay
<1>5. ASSUME NEW i \in 1..Len(t) PROVE Moves(t[i], g[i], g[i + 1])
  <2>1. i + 1 \in 1..Len(q) /\ t[i] = q[i + 1]
    BY <1>1
  <2>2. g[i] = h[i + 1] /\ g[i + 1] = h[(i + 1) + 1]
    BY <1>1
  <2> QED
    BY <1>2, <2>1, <2>2 DEF Replay
<1>6. Replay(g, t, h[2], b)
  BY <1>4, <1>5 DEF Replay
<1> QED
  BY <1>3, <1>6 DEF Replays, t

(* Without an event nothing has changed.                                   *)
LEMMA ReplayNone ==
  ASSUME NEW a \in SUBSET Keys, NEW b
  PROVE  Replays(<<>>, a, b) <=> a = b
<1>1. Len(<<>>) = 0
  OBVIOUS
<1>2. Replays(<<>>, a, b) => a = b
  BY <1>1 DEF Replays, Replay
<1>3. Replay([i \in 1..1 |-> a], <<>>, a, a)
  BY <1>1 DEF Replay
<1> QED
  BY <1>2, <1>3 DEF Replays

----------------------------------------------------------------------------
(* The user and the compositor.                                            *)

(* A key goes to the application while there is no grab, then to the shell. *)
LEMMA PairUser ==
  ASSUME PairInv, NEW k \in Keys, Press(k) \/ Release(k)
  PROVE  ~bare' /\ (Waiting' \/ Asked' \/ (Behind' /\ Apart'))
<1>1. /\ TypeOK /\ queue \in Seq(Events) /\ physDown \subseteq Keys /\ cGrab \in Nat
      /\ Ordered
  BY DEF PairInv, RoutingInv, TypeOK, Events
<1>2. /\ UNCHANGED <<cGrab, focused, lost, seen, grab, grabs, swallowed, repeat, gesture,
                     shiftsDown, clip, vkReady>>
      /\ bare' = bare
  BY DEF Press, Release, shell, app
<1>3. CASE cGrab = 0
  <2>1. queue' = queue /\ (Waiting \/ Asked) /\ appDown = physDown
    BY <1>3 DEF PairInv, Press, Release, Waiting, Asked, Direct, Behind
  <2>2. appDown' = physDown'
    BY <1>3, <2>1 DEF Press, Release
  <2> QED
    BY <1>2, <2>1, <2>2 DEF PairInv, Waiting, Asked, Direct
<1>4. CASE cGrab # 0
  <2>1. Behind /\ Apart /\ ~bare
    BY <1>4 DEF PairInv, Waiting, Asked, Direct
  <2> DEFINE t == IF Press(k) THEN "Press" ELSE "Release"
             e == Event(t, cGrab, k)
  <2>2. queue' = Append(queue, e) /\ appDown' = appDown
    BY <1>4 DEF Press, Release, Send, app
  <2>3. e \in Events /\ e.grab = grab /\ IsKeyEvent(e)
    BY <1>1, <2>1 DEF Events, Event, Behind, IsKeyEvent
  <2>4. Moves(e, physDown, physDown') /\ physDown' \in SUBSET Keys
    BY <1>1 DEF Moves, Event, Press, Release, IsKeyEvent
  <2> HIDE DEF e
  <2>5. Replays(queue, seen \cup appDown, physDown)
    BY <2>1 DEF Behind
  <2>6. Replays(queue', seen \cup appDown, physDown')
    BY <1>1, <2>2, <2>3, <2>4, <2>5, ReplayMore
  <2>7. /\ Len(queue) \in Nat /\ Len(queue') = Len(queue) + 1 /\ queue'[Len(queue) + 1] = e
        /\ \A i \in 1..Len(queue) : queue'[i] = queue[i]
    BY <1>1, <2>2, <2>3, AppendFacts
  <2>8. \A i \in 1..(Len(queue) + 1) : KeymapBefore(i) => KeymapBefore(i)'
    BY <1>2, <2>7 DEF KeymapBefore
  <2>9. KeymapBefore(Len(queue) + 1)
    BY <1>1, <2>1 DEF Ordered, Behind
  <2>10. ASSUME NEW i \in 1..Len(queue')
         PROVE  /\ queue'[i].grab = grab
                /\ queue'[i].type = "Keymap" \/ (IsKeyEvent(queue'[i]) /\ KeymapBefore(i)')
    <3>1. i \in 1..Len(queue) \/ i = Len(queue) + 1
      BY <2>7
    <3>2. CASE i \in 1..Len(queue)
      <4>1. queue'[i] = queue[i] /\ (KeymapBefore(i) => KeymapBefore(i)')
        BY <2>7, <2>8, <3>2
      <4> QED
        BY <2>1, <3>2, <4>1 DEF Behind
    <3>3. CASE i = Len(queue) + 1
      BY <2>3, <2>7, <2>8, <2>9, <3>3
    <3> QED
      BY <3>1, <3>2, <3>3
  <2>11. Behind'
    BY <1>2, <2>1, <2>2, <2>6, <2>10 DEF Behind
  <2>12. Apart'
    BY <1>2, <2>1, <2>2 DEF Apart
  <2> QED
    BY <1>2, <2>1, <2>11, <2>12
<1> QED
  BY <1>3, <1>4

(* ACTIVATE or DEACTIVATE is sent once; the grab is taken when ACTIVATE    *)
(* was handled.                                                            *)
LEMMA PairCompositor ==
  ASSUME OneGrab, PairInv, SendFocus("Activate") \/ SendFocus("Deactivate") \/ TakeGrab
  PROVE  ~bare' /\ (Waiting' \/ Asked' \/ (Behind' /\ Apart'))
<1>1. /\ TypeOK /\ queue \in Seq(Events) /\ physDown \subseteq Keys /\ {grab, focused} \subseteq Nat
      /\ UNCHANGED <<physDown, shell, engine, app, seen>>
  BY DEF PairInv, RoutingInv, TypeOK, Events, SendFocus, TakeGrab
<1>2. UNCHANGED <<physDown, grab, grabs, swallowed, repeat, gesture, shiftsDown, clip, vkReady,
                  appDown, bare, seen>>
  BY <1>1 DEF shell, app
<1>5. ~bare'
  BY <1>2 DEF PairInv
<1>3. ASSUME NEW type \in {"Activate", "Deactivate"}, SendFocus(type)
      PROVE  Waiting'
  <2>1. focused < 1
    BY <1>1, <1>3, BoundAssumption DEF SendFocus, OneGrab
  <2>2. focused = 0 /\ Waiting
    BY <1>1, <2>1 DEF PairInv, Waiting, Asked, Behind
  <2>3. queue = <<>>
    BY <1>1, <2>2, EmptySeq DEF Waiting
  <2>4. Event(type, 0, "none") \in Events
    BY DEF Event, Events
  <2> DEFINE e == Event(type, 0, "none")
  <2>5. e.type = type
    BY DEF Event
  <2> HIDE DEF e
  <2>6. queue' = Append(<<>>, e) /\ focused' = 1 /\ cGrab' = cGrab
    BY <1>3, <2>2, <2>3 DEF SendFocus, Send, e
  <2>7. queue' = <<e>> /\ Len(queue') = 1 /\ queue'[1] = e
    BY <2>6
  <2> QED
    BY <1>2, <2>2, <2>5, <2>6, <2>7 DEF Waiting, Direct
<1>4. CASE TakeGrab
  <2>1. Asked
    BY <1>4 DEF TakeGrab, PairInv, Waiting, Asked, Behind, Direct
  <2> DEFINE e == Event("Keymap", grab, "none")
  <2>2. e \in Events /\ e.type = "Keymap" /\ e.grab = grab
    BY <1>1 DEF Event, Events
  <2>3. queue' = Append(queue, e) /\ queue = <<>> /\ cGrab' = grab /\ focused' = focused
    BY <1>4, <2>1 DEF TakeGrab, Send, Asked
  <2> HIDE DEF e
  <2>4. Len(queue') = 1 /\ queue'[1] = e
    BY <2>3
  <2>5. Replays(queue, physDown, physDown)
    BY <1>1, <2>3, ReplayNone
  <2>6. Moves(e, physDown, physDown)
    BY <2>2 DEF Moves, IsKeyEvent
  <2>7. Replays(queue', physDown, physDown)
    BY <1>1, <2>2, <2>3, <2>5, <2>6, ReplayMore
  <2>8. seen \cup appDown = physDown
    BY <2>1 DEF Asked, Direct
  <2>9. Behind'
    <3>1. Replays(queue', seen \cup appDown, physDown)
      BY <2>7, <2>8
    <3>2. \A i \in 1..Len(queue') : queue'[i].grab = grab /\ queue'[i].type = "Keymap"
      BY <2>2, <2>4
    <3>3. grab' # 0 /\ cGrab' = grab' /\ focused' = 1
      BY <1>2, <2>1, <2>3 DEF Asked
    <3> QED
      BY <1>2, <3>1, <3>2, <3>3 DEF Behind
  <2>10. Apart'
    BY <1>2, <2>1 DEF Asked, Direct, Apart
  <2> QED
    BY <1>5, <2>9, <2>10
<1> QED
  BY <1>3, <1>4, <1>5

----------------------------------------------------------------------------
(* The event loop.                                                         *)

(* Behind the first event of the grab the virtual keyboard has its keymap. *)
LEMMA FirstBehind ==
  ASSUME TypeOK, Behind, queue # <<>>
  PROVE  /\ Current /\ (Head(queue).type = "Keymap" \/ (IsKeyEvent(Head(queue)) /\ vkReady))
         /\ cGrab # 0
<1>1. queue \in Seq(Events)
  BY DEF TypeOK, Events
<1>2. Head(queue) = queue[1] /\ 1 \in 1..Len(queue)
  BY <1>1, TailFacts
<1>3. KeymapBefore(1) => vkReady
  BY DEF KeymapBefore
<1> QED
  BY <1>2, <1>3 DEF Behind, Current

(* The first event is handled, as the keys of the shell say.               *)
LEMMA BehindKept ==
  ASSUME TypeOK, Behind, queue # <<>>, queue' = Tail(queue),
         UNCHANGED <<grab, cGrab, focused, physDown>>, vkReady',
         \A c \in SUBSET Keys :
           Moves(Head(queue), seen \cup appDown, c) => c = seen' \cup appDown'
  PROVE  Behind'
<1>1. queue \in Seq(Events)
  BY DEF TypeOK, Events
<1>2. /\ Tail(queue) \in Seq(Events) /\ Len(queue) \in Nat \ {0}
      /\ Len(Tail(queue)) = Len(queue) - 1
      /\ \A i \in 1..(Len(queue) - 1) : Tail(queue)[i] = queue[i + 1]
  BY <1>1, TailFacts
<1>3. Replays(queue, seen \cup appDown, physDown)
  BY DEF Behind
<1>4. Replays(Tail(queue), seen' \cup appDown', physDown)
  <2>1. PICK c \in SUBSET Keys : /\ Moves(Head(queue), seen \cup appDown, c)
                                 /\ Replays(Tail(queue), c, physDown)
    BY <1>1, <1>3, ReplayFirst
  <2>2. c = seen' \cup appDown'
    BY <2>1
  <2> QED
    BY <2>1, <2>2
<1>5. ASSUME NEW i \in 1..Len(queue')
      PROVE  /\ queue'[i].grab = grab
             /\ queue'[i].type = "Keymap" \/ IsKeyEvent(queue'[i])
  <2>1. i + 1 \in 1..Len(queue) /\ queue'[i] = queue[i + 1]
    BY <1>2
  <2> QED
    BY <2>1 DEF Behind
<1>6. \A i : KeymapBefore(i)'
  BY DEF KeymapBefore
<1> QED
  BY <1>4, <1>5, <1>6 DEF Behind

(* A press: its key was up, and is on the account or forwarded.            *)
LEMMA PairPress ==
  ASSUME TypeOK, Accounts, Apart, vkReady, NEW k \in Keys \ (seen \cup appDown),
         PressKey(k, FALSE), seen' = seen \cup {k}, shiftsDown' = shiftsDown,
         gesture' # "Idle" => gesture # "Idle",
         grab # 0, k \notin Shifts \/ gesture = "Idle"
  PROVE  Apart' /\ seen' \cup appDown' = seen \cup appDown \cup {k} /\ bare' = bare
<1>1. /\ k \notin swallowed /\ swallowed \cap appDown = {} /\ (repeat # k \/ repeat = "none")
  BY DEF Accounts, Apart
<1>2. /\ bare' = bare /\ swallowed' \in {swallowed, swallowed \cup {k}}
      /\ appDown' \in {appDown, appDown \cup {k}}
      /\ ~(k \in swallowed' /\ k \in appDown')
      /\ repeat' = repeat \/ repeat' = "none" \/ (repeat' = k /\ k \in swallowed')
  <2>1. CASE ClipMode(k)
    BY <1>1, <2>1 DEF ClipMode, app
  <2>2. CASE EnginePress(k, FALSE)
    <3>1. PICK r \in EngineKey(k) : Consume(k, r, FALSE) \/ Forward(k, r)
      BY <2>2 DEF EnginePress
    <3>2. CASE Consume(k, r, FALSE)
      BY <1>1, <3>2 DEF Consume, Disarmed, app
    <3>3. CASE Forward(k, r)
      <4>1. swallowed' = swallowed \ {k} /\ appDown' = appDown \cup {k} /\ bare' = bare
        BY <3>3 DEF Forward, ForwardPress
      <4>2. swallowed' = swallowed
        <5>1. \A x : x \in swallowed \ {k} <=> x \in swallowed
          BY <1>1
        <5>2. swallowed \ {k} = swallowed
          BY <5>1
        <5> QED
          BY <4>1, <5>2
      <4> QED
        BY <1>1, <3>3, <4>1, <4>2 DEF Forward, Disarmed
    <3> QED
      BY <3>1, <3>2, <3>3
  <2> QED
    BY <2>1, <2>2 DEF PressKey
<1>3. Apart'
  BY <1>1, <1>2 DEF Apart
<1> QED
  BY <1>2, <1>3

(* The presses of the grab: by the gesture, the engine or a bypass.        *)
LEMMA PairHandlesPress ==
  ASSUME OneGrab, PairInv, HandleShiftGesture \/ HandleShiftPress \/ HandlePress
  PROVE  ~bare' /\ Behind' /\ Apart'
<1> DEFINE k == Head(queue).key
<1>1. /\ TypeOK /\ Accounts /\ Arrives("Press") /\ Current /\ Handled /\ ~bare
      /\ seen' = seen \cup {k}
      /\ UNCHANGED <<grab, grabs, vkReady>>
  BY DEF PairInv, RoutingInv, HandleShiftGesture, HandleShiftPress, HandlePress
<1>2. queue # <<>> /\ k \in Keys /\ Head(queue).type = "Press"
  BY <1>1, HeadIsKey DEF Arrives
<1>3. Behind /\ Apart
  BY <1>1 DEF PairInv, Waiting, Asked, Current, Arrives
<1>4. vkReady /\ grab # 0
  BY <1>1, <1>2, <1>3, FirstBehind DEF Current
<1>5. queue' = Tail(queue) /\ UNCHANGED <<physDown, cGrab, focused>>
  BY <1>1 DEF Handled
<1>6. queue \in Seq(Events)
  BY <1>1 DEF TypeOK, Events
<1>7. \E c \in SUBSET Keys : Moves(Head(queue), seen \cup appDown, c)
  BY <1>2, <1>3, <1>6, ReplayFirst DEF Behind
<1>8. /\ k \notin seen \cup appDown
      /\ \A c : Moves(Head(queue), seen \cup appDown, c) => c = seen \cup appDown \cup {k}
  BY <1>2, <1>7 DEF Moves
<1> HIDE DEF k
<1>9. Apart' /\ seen' \cup appDown' = seen \cup appDown \cup {k} /\ bare' = bare
  <2>1. swallowed \subseteq seen
    BY <1>1, <1>4 DEF Accounts
  <2>2. CASE HandleShiftGesture
    <3>1. /\ k \in Shifts /\ swallowed' = swallowed \cup {k} /\ shiftsDown' = shiftsDown + 1
          /\ UNCHANGED <<repeat, appDown, bare>>
      BY <2>2 DEF HandleShiftGesture, k, app
    <3>2. Shifts \subseteq {k}
      BY <3>1 DEF OneGrab
    <3>3. shiftsDown = 0
      BY <1>3, <1>8, <3>1 DEF Apart
    <3>4. shiftsDown' = 1
      BY <3>1, <3>3
    <3> QED
      BY <1>1, <1>3, <1>8, <3>1, <3>2, <3>4 DEF Apart
  <2>3. CASE HandleShiftPress
    <3>1. PressKey(k, FALSE) /\ k \in Shifts /\ UNCHANGED <<gesture, shiftsDown>>
      BY <2>3 DEF HandleShiftPress, k
    <3>2. gesture = "Idle"
      BY <1>3, <1>8, <2>1, <3>1 DEF Apart
    <3> QED
      BY <1>1, <1>2, <1>3, <1>4, <1>8, <3>1, <3>2, PairPress
  <2>4. CASE HandlePress
    <3>1. k \notin Shifts /\ shiftsDown' = shiftsDown
          /\ gesture' = IF gesture = "Idle" THEN "Idle" ELSE "HoldActive"
      BY <2>4 DEF HandlePress, k
    <3>2. CASE ForwardPress(k) /\ UNCHANGED <<swallowed, repeat>>
      <4>1. appDown' = appDown \cup {k} /\ bare' = bare
        BY <1>4, <3>2 DEF ForwardPress
      <4> QED
        BY <1>1, <1>3, <1>8, <2>1, <3>1, <3>2, <4>1 DEF Apart
    <3>3. CASE PressKey(k, FALSE)
      BY <1>1, <1>2, <1>3, <1>4, <1>8, <3>1, <3>3, PairPress
    <3> QED
      BY <2>4, <3>2, <3>3 DEF HandlePress, k
  <2> QED
    BY <2>2, <2>3, <2>4
<1>10. Behind'
  BY <1>1, <1>2, <1>3, <1>4, <1>5, <1>8, <1>9, BehindKept
<1> QED
  BY <1>1, <1>9, <1>10

(* A release: its key was down, so it is on the account or down in the     *)
(* application, which then has it no longer.                               *)
LEMMA PairHandlesRelease ==
  ASSUME OneGrab, PairInv, HandleRelease \/ HandleShiftRelease
  PROVE  ~bare' /\ Behind' /\ Apart'
<1> DEFINE k == Head(queue).key
<1>1. /\ TypeOK /\ Accounts /\ Arrives("Release") /\ Current /\ Handled /\ ~bare
      /\ seen' = seen \ {k}
      /\ UNCHANGED <<grab, grabs, vkReady>>
  BY DEF PairInv, RoutingInv, HandleRelease, HandleShiftRelease
<1>2. queue # <<>> /\ k \in Keys /\ Head(queue).type = "Release"
  BY <1>1, HeadIsKey DEF Arrives
<1>3. Behind /\ Apart
  BY <1>1 DEF PairInv, Waiting, Asked, Current, Arrives
<1>4. vkReady /\ grab # 0
  BY <1>1, <1>2, <1>3, FirstBehind DEF Current
<1>5. queue' = Tail(queue) /\ UNCHANGED <<physDown, cGrab, focused>>
  BY <1>1 DEF Handled
<1>6. queue \in Seq(Events)
  BY <1>1 DEF TypeOK, Events
<1>7. \E c \in SUBSET Keys : Moves(Head(queue), seen \cup appDown, c)
  BY <1>2, <1>3, <1>6, ReplayFirst DEF Behind
<1>8. /\ k \in seen \cup appDown
      /\ \A c : Moves(Head(queue), seen \cup appDown, c) => c = (seen \cup appDown) \ {k}
  BY <1>2, <1>7 DEF Moves
<1> HIDE DEF k
<1>9. swallowed \subseteq seen /\ seen \ swallowed \subseteq appDown /\ swallowed \cap appDown = {}
  BY <1>1, <1>3, <1>4 DEF Accounts, Apart
<1>10. RouteRelease(k, swallowed)
  <2>1. CASE HandleRelease
    BY <2>1 DEF HandleRelease, k
  <2>2. CASE HandleShiftRelease /\ ~Toggles
    BY <2>2 DEF HandleShiftRelease, k
  <2>3. CASE HandleShiftRelease /\ Toggles
    <3>1. k \in Shifts /\ RouteRelease(k, swallowed \cup {k})
      BY <2>3 DEF HandleShiftRelease, k
    <3>2. k \in swallowed
      BY <1>3, <2>3, <3>1 DEF Toggles, Apart
    <3>3. swallowed \cup {k} = swallowed
      BY <3>2
    <3> QED
      BY <3>1, <3>3
  <2> QED
    BY <2>1, <2>2, <2>3
<1>11. /\ swallowed' = swallowed \ {k} /\ repeat' = Disarmed(k)
       /\ appDown' = appDown \ {k} /\ bare' = bare
  <2>1. swallowed' = swallowed \ {k} /\ repeat' = Disarmed(k)
    BY <1>10 DEF RouteRelease
  <2>2. CASE k \in swallowed
    <3>1. appDown' = appDown /\ bare' = bare
      BY <1>10, <2>2 DEF RouteRelease, app
    <3>2. appDown \ {k} = appDown
      BY <1>9, <2>2
    <3> QED
      BY <2>1, <3>1, <3>2
  <2>3. CASE k \notin swallowed
    <3>1. k \in appDown
      BY <1>8, <1>9, <2>3
    <3>2. ForwardRelease(k)
      BY <1>10, <2>3 DEF RouteRelease
    <3>3. appDown' = appDown \ {k}
      BY <1>4, <3>2 DEF ForwardRelease
    <3>4. bare' = bare
      <4>1. bare' = (bare \/ (vkReady /\ k \notin appDown)) /\ (bare = FALSE)
        BY <1>1, <3>2 DEF ForwardRelease, TypeOK
      <4> QED
        BY <3>1, <4>1
    <3> QED
      BY <2>1, <3>3, <3>4
  <2> QED
    BY <2>2, <2>3
<1>12. Apart'
  <2>1. swallowed' \cap appDown' = {}
    BY <1>9, <1>11
  <2>2. repeat' # "none" => repeat' \in swallowed'
    BY <1>3, <1>11 DEF Apart, Disarmed
  <2>3. CASE HandleRelease
    <3>1. k \notin Shifts /\ gesture' = gesture /\ shiftsDown' = shiftsDown
      BY <2>3 DEF HandleRelease, k
    <3> QED
      BY <1>1, <1>3, <1>11, <2>1, <2>2, <3>1 DEF Apart
  <2>4. CASE HandleShiftRelease
    <3>1. Released = 0
      BY <1>3 DEF Released, Apart
    <3>2. gesture' = "Idle" /\ shiftsDown' = 0
      BY <2>4, <3>1 DEF HandleShiftRelease
    <3> QED
      BY <2>1, <2>2, <3>2 DEF Apart
  <2> QED
    BY <2>3, <2>4
<1>13. seen' \cup appDown' = (seen \cup appDown) \ {k}
  BY <1>1, <1>11
<1>14. Behind'
  BY <1>1, <1>2, <1>3, <1>4, <1>5, <1>8, <1>13, BehindKept
<1> QED
  BY <1>1, <1>11, <1>12, <1>14

(* Every other event: the keymap, or the one change of the focus.          *)
LEMMA PairHandlesOther ==
  ASSUME PairInv, DropStale \/ HandleKeymap \/ HandleActivate \/ HandleDeactivate
  PROVE  ~bare' /\ (Waiting' \/ Asked' \/ (Behind' /\ Apart'))
<1>1. /\ TypeOK /\ ~bare /\ queue # <<>> /\ Handled /\ app' = app
      /\ queue \in Seq(Events)
  BY DEF PairInv, RoutingInv, TypeOK, Events, DropStale, HandleKeymap, HandleActivate,
     HandleDeactivate, Arrives
<1>2. queue' = Tail(queue) /\ UNCHANGED <<physDown, cGrab, focused, appDown, bare>>
  BY <1>1 DEF Handled, app
<1>3. /\ Len(queue) \in Nat \ {0} /\ Len(Tail(queue)) = Len(queue) - 1
      /\ Tail(queue) \in Seq(Events) /\ Head(queue) = queue[1]
  BY <1>1, TailFacts
<1>4. ~Asked
  BY <1>1 DEF Asked
<1>5. CASE Waiting
  <2>1. Head(queue).type \in {"Activate", "Deactivate"}
    BY <1>3, <1>5 DEF Waiting
  <2>2. focused \in Nat /\ grabs \in Nat
    BY <1>1 DEF TypeOK
  <2>3. focused = 1 /\ Len(queue) = 1
    BY <1>3, <1>5, <2>2 DEF Waiting
  <2>4. Tail(queue) = <<>> /\ Len(Tail(queue)) = 0
    <3>1. Len(Tail(queue)) = 0
      BY <1>3, <2>3
    <3> QED
      BY <1>3, <3>1, EmptySeq
  <2>5. CASE HandleActivate
    <3>1. /\ grab' = grabs + 1 /\ swallowed' = {} /\ repeat' = "none"
          /\ gesture' = "Idle" /\ shiftsDown' = 0 /\ seen' = {}
      BY <2>5 DEF HandleActivate
    <3>2. grab' # 0
      BY <2>2, <3>1
    <3> QED
      BY <1>1, <1>2, <1>5, <2>3, <2>4, <3>1, <3>2 DEF Waiting, Asked, Direct
  <2>6. CASE HandleDeactivate
    <3>1. /\ grab' = 0 /\ swallowed' = swallowed /\ repeat' = "none"
          /\ gesture' = "Idle" /\ shiftsDown' = 0 /\ seen' = {}
      BY <2>6 DEF HandleDeactivate
    <3>2. Len(queue') = 0
      BY <1>2, <2>4
    <3> QED
      BY <1>1, <1>2, <1>5, <2>3, <3>1, <3>2 DEF Waiting, Direct
  <2> QED
    BY <2>1, <2>5, <2>6 DEF DropStale, HandleKeymap, Arrives
<1>6. CASE Behind /\ Apart
  <2>1. Current /\ (Head(queue).type = "Keymap" \/ IsKeyEvent(Head(queue)))
    BY <1>1, <1>6, FirstBehind
  <2>2. HandleKeymap
    BY <2>1 DEF DropStale, HandleActivate, HandleDeactivate, Arrives, IsKeyEvent
  <2>3. /\ vkReady' = TRUE /\ Head(queue).type = "Keymap"
        /\ UNCHANGED <<grab, seen, swallowed, repeat, gesture, shiftsDown>>
    BY <2>2 DEF HandleKeymap, Arrives
  <2>4. \A c : Moves(Head(queue), seen \cup appDown, c) => c = seen \cup appDown
    BY <2>3 DEF Moves, IsKeyEvent
  <2>5. seen' \cup appDown' = seen \cup appDown
    BY <1>2, <2>3
  <2>6. Behind'
    BY <1>1, <1>2, <1>6, <2>3, <2>4, <2>5, BehindKept
  <2>7. Apart'
    BY <1>2, <1>6, <2>3 DEF Apart
  <2> QED
    BY <1>1, <1>2, <2>6, <2>7
<1> QED
  BY <1>4, <1>5, <1>6 DEF PairInv

(* The repeat timer gives the engine a key that is on the account.         *)
LEMMA PairTick ==
  ASSUME PairInv, Tick
  PROVE  ~bare' /\ Behind' /\ Apart'
<1>1. /\ TypeOK /\ Accounts /\ ~bare /\ Behind /\ Apart /\ repeat # "none"
  BY DEF PairInv, RoutingInv, Tick, Waiting, Asked, Direct
<1>2. /\ UNCHANGED <<physDown, cGrab, queue, focused, grab, gesture, shiftsDown, vkReady, seen>>
      /\ PressKey(repeat, TRUE)
  BY DEF Tick, board
<1>3. repeat \in swallowed /\ repeat \in seen /\ repeat \notin appDown
  BY <1>1 DEF Apart, Accounts, Behind
<1>4. /\ swallowed' = swallowed /\ appDown' = appDown /\ bare' = bare
      /\ repeat' \in {repeat, "none"}
  <2>1. swallowed \cup {repeat} = swallowed /\ appDown \ {repeat} = appDown
    BY <1>3
  <2>2. CASE ClipMode(repeat)
    BY <2>1, <2>2 DEF ClipMode, app
  <2>3. CASE EnginePress(repeat, TRUE)
    <3>1. PICK r \in EngineKey(repeat) : Consume(repeat, r, TRUE) \/ Tap(repeat, r)
      BY <2>3 DEF EnginePress
    <3>2. CASE Consume(repeat, r, TRUE)
      BY <2>1, <3>2 DEF Consume, Disarmed, app
    <3>3. CASE Tap(repeat, r)
      BY <2>1, <3>3 DEF Tap
    <3> QED
      BY <3>1, <3>2, <3>3
  <2> QED
    BY <1>2, <2>2, <2>3 DEF PressKey
<1>5. Behind'
  BY <1>1, <1>2, <1>4 DEF Behind, KeymapBefore
<1>6. Apart'
  BY <1>1, <1>2, <1>4 DEF Apart
<1> QED
  BY <1>1, <1>4, <1>5, <1>6

(* The start, and every step.                                              *)
LEMMA PairStart == Init => PairInv
<1> SUFFICES ASSUME Init PROVE PairInv
  OBVIOUS
<1>1. Len(queue) = 0 /\ bare = FALSE
  BY DEF Init
<1>2. Waiting
  BY <1>1 DEF Init, Waiting, Direct
<1> QED
  BY <1>1, <1>2, RoutingStart DEF PairInv

LEMMA PairStep ==
  ASSUME OneGrab, PairInv, [Next]_vars
  PROVE  PairInv'
<1>1. RoutingInv'
  BY RoutingStep DEF PairInv
<1>2. ASSUME NEW k \in Keys, Press(k) \/ Release(k) PROVE PairInv'
  BY <1>1, <1>2, PairUser DEF PairInv
<1>3. CASE SendFocus("Activate") \/ SendFocus("Deactivate") \/ TakeGrab
  BY <1>1, <1>3, PairCompositor DEF PairInv
<1>4. CASE Handle
  <2>1. CASE HandleShiftGesture \/ HandleShiftPress \/ HandlePress
    BY <1>1, <2>1, PairHandlesPress DEF PairInv
  <2>2. CASE HandleRelease \/ HandleShiftRelease
    BY <1>1, <2>2, PairHandlesRelease DEF PairInv
  <2>3. CASE DropStale \/ HandleKeymap \/ HandleActivate \/ HandleDeactivate
    BY <1>1, <2>3, PairHandlesOther DEF PairInv
  <2> QED
    BY <1>4, <2>1, <2>2, <2>3 DEF Handle
<1>5. CASE Tick
  BY <1>1, <1>5, PairTick DEF PairInv
<1>6. CASE LoseConnection
  BY <1>6 DEF LoseConnection, OneGrab
<1>7. CASE UNCHANGED vars
  <2>1. UNCHANGED <<physDown, cGrab, queue, focused, grab, swallowed, repeat, gesture,
                    shiftsDown, vkReady, appDown, bare, seen>>
    BY <1>7 DEF vars, board, shell, engine, app
  <2>2. (Waiting => Waiting') /\ (Asked => Asked')
    BY <2>1 DEF Waiting, Asked, Direct
  <2>3. (Behind => Behind') /\ (Apart => Apart')
    BY <2>1 DEF Behind, Apart, KeymapBefore
  <2> QED
    BY <1>1, <2>1, <2>2, <2>3 DEF PairInv
<1> QED
  BY <1>2, <1>3, <1>4, <1>5, <1>6, <1>7 DEF Next

(* The inductive invariant of the pairing.                                 *)
LEMMA PairInvariant ==
  ASSUME OneGrab
  PROVE  Spec => []PairInv
<1>1. Init => PairInv
  BY PairStart
<1>2. PairInv /\ [Next]_vars => PairInv'
  BY PairStep
<1> QED
  BY <1>1, <1>2, PTL DEF Spec

----------------------------------------------------------------------------
(* The theorems.                                                           *)

(* The inductive invariant of the way of a key.                            *)
THEOREM RoutingInvariant == Spec => []RoutingInv
BY RoutingStart, RoutingStep, PTL DEF Spec

(* The types: whatever gestures are cut off by an ACTIVATE, a DEACTIVATE   *)
(* or a reconnect, shifts_down never goes below zero.                      *)
THEOREM RoutingTypes == Spec => []TypeOK
<1>1. RoutingInv => TypeOK
  BY DEF RoutingInv
<1> QED
  BY <1>1, RoutingInvariant, PTL

(* SwallowTracker's account: under a grab every key held down is either    *)
(* swallowed or down in the application, so its release goes where its     *)
(* press went.                                                             *)
THEOREM AccountsRight == Spec => []Accounts
<1>1. RoutingInv => Accounts
  BY DEF RoutingInv
<1> QED
  BY <1>1, RoutingInvariant, PTL

(* A press is handled only with the keymap in place: the early return of   *)
(* forward_key never loses one.                                            *)
THEOREM KeymapComesFirst == Spec => []KeymapFirst
<1>1. RoutingInv => KeymapFirst
  BY FirstKey DEF RoutingInv, KeymapFirst
<1> QED
  BY <1>1, RoutingInvariant, PTL

(* Only a key held down is repeated: under a grab, the key of KeyRepeat is *)
(* one whose press was handled and whose release was not.                  *)
THEOREM RepeatIsHeld == Spec => []RepeatHeld
<1>1. RoutingInv => RepeatHeld
  BY DEF RoutingInv
<1> QED
  BY <1>1, RoutingInvariant, PTL

(* No ghost key (SwallowTracker, route_press, route_release): over the     *)
(* first activation, with one Shift, the application has no key down that  *)
(* the user let go, once the shell has handled what was on its way.        *)
THEOREM NoKeyStuck ==
  ASSUME OneGrab
  PROVE  Spec => []NoStuckKey
<1>1. PairInv => NoStuckKey
  <2> SUFFICES ASSUME PairInv, queue = <<>> PROVE appDown \subseteq physDown
    BY DEF NoStuckKey
  <2>1. CASE Waiting \/ Asked
    BY <2>1 DEF Waiting, Asked, Direct
  <2>2. CASE Behind
    <3>1. seen \cup appDown \in SUBSET Keys
      BY DEF PairInv, RoutingInv, TypeOK
    <3>2. seen \cup appDown = physDown
      BY <2>2, <3>1, ReplayNone DEF Behind
    <3> QED
      BY <3>2
  <2> QED
    BY <2>1, <2>2 DEF PairInv
<1> QED
  BY <1>1, PairInvariant, PTL

(* Nor does it get the release of a key of which it saw no press.          *)
THEOREM NoReleaseBare ==
  ASSUME OneGrab
  PROVE  Spec => []NoBareRelease
<1>1. PairInv => NoBareRelease
  BY DEF PairInv, NoBareRelease
<1> QED
  BY <1>1, PairInvariant, PTL
=============================================================================

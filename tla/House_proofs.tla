---------------------------- MODULE House_proofs ----------------------------
(***************************************************************************)
(* Proofs about the services of the frame that share no state: the clock's  *)
(* attempts, the access point's window, and the sequences of the panel's    *)
(* maintenance, for every length of a window, a sequence or a day and any   *)
(* number of presses, requests and refusals.                                *)
(***************************************************************************)
EXTENDS Maint, Wifi, Clock, SequenceTheorems, TLAPS

-----------------------------------------------------------------------------
(* Clock. *)

\* Only an attempt under way keeps the client on, so that one that ends turns it off.
ClientIsTrying ==
    /\ sntp = "on" <=> attempting
    /\ timerAt \in {"result", "again"} => sntp # "on"

\* Between the callbacks, and until an attempt begins, a client that is on has its end armed,
\* but while an answer is between its two calls: it arms the end itself.
EndIsArmed ==
    answerAt = "none" =>
        /\ timerAt \in {"none", "begin"} => (sntp = "on" => stopArmed)
        /\ timerAt = "none" => dueArmed \/ stopArmed

Rearmed == ClockTypeOK /\ ClientIsTrying /\ EndIsArmed

LEMMA ClockInitRearmed == ClockInit => Rearmed
BY DEF ClockInit, Rearmed, ClockTypeOK, ClientIsTrying, EndIsArmed

\* The timer task and lwIP's may each come between two calls of the other.
LEMMA ClockNextRearmed == Rearmed /\ [ClockNext]_clkVars => Rearmed'
<1> SUFFICES ASSUME Rearmed, [ClockNext]_clkVars PROVE Rearmed'
  OBVIOUS
<1> USE DEF Rearmed, ClockTypeOK, ClientIsTrying, EndIsArmed, attemptVars, ArmDue
<1>1. CASE UNCHANGED clkVars
  BY <1>1 DEF clkVars
<1>2. CASE TimerFires
  BY <1>2 DEF TimerFires
<1>3. CASE BeginAttempt
  BY <1>3 DEF BeginAttempt
<1>4. CASE DisarmStop
  BY <1>4 DEF DisarmStop
<1>5. CASE ArmStop
  BY <1>5 DEF ArmStop
<1>6. CASE EndAttempt
  BY <1>6 DEF EndAttempt
<1>7. CASE TakeAnswer
  BY <1>7 DEF TakeAnswer
<1>8. CASE ArmAgain
  BY <1>8 DEF ArmAgain
<1>9. CASE Answer
  BY <1>9 DEF Answer
<1>10. CASE AnswerDisarms
  BY <1>10 DEF AnswerDisarms
<1>11. CASE AnswerArms
  BY <1>11 DEF AnswerArms
<1>12. CASE SntpStops
  BY <1>12 DEF SntpStops
<1>13. CASE LinkTurns
  BY <1>13 DEF LinkTurns
<1> QED
  BY <1>1, <1>2, <1>3, <1>4, <1>5, <1>6, <1>7, <1>8, <1>9, <1>10, <1>11, <1>12, <1>13
     DEF ClockNext, TimerTask, LwipTask

\* The clock never stops trying, nor holds its socket for good.
THEOREM ClockGoesOn == ClockSpec => []AttemptsGoOn
<1>1. Rearmed => AttemptsGoOn
  BY DEF Rearmed, EndIsArmed, AttemptsGoOn
<1> QED
  BY <1>1, ClockInitRearmed, ClockNextRearmed, PTL DEF ClockSpec

-----------------------------------------------------------------------------
(* Wifi. *)

TimesAreNat == left \in Nat /\ capLeft \in Nat /\ promise \in Nat

\* A window the retry task believes open is on the air or about to be; one that opened while
\* the task was taking the radio down is crossed.
OpenIsOnAir == apUp /\ ~crossed /\ ~refused => (raising \/ air) /\ at # "down"

\* What the last press promised fits in the window that is open, and no tick has decided
\* against it.
PromiseFits ==
    promise > 0 /\ ~crossed /\ ~refused =>
        apUp /\ promise <= left /\ at \notin {"hold", "close", "down"}

Promised == TimesAreNat /\ OpenIsOnAir /\ PromiseFits

LEMMA WifiInitPromised == WifiInit => Promised
<1>1. WifiInit => TimesAreNat
  BY DEF WifiInit, TimesAreNat
<1>2. WifiInit => OpenIsOnAir /\ PromiseFits
  BY DEF WifiInit, OpenIsOnAir, PromiseFits
<1> QED
  BY <1>1, <1>2 DEF Promised

\* The tasks and events that touch neither the window nor the radio of the access point.
LEMMA StationKeepsPromise ==
    ASSUME Promised, Event \/ Radio \/ ServerTask
    PROVE  Promised'
<1> USE DEF windowVars, airVars, pressVars
<1>1. UNCHANGED <<at, windowVars, airVars, refused, pressVars>>
  BY DEF Event, Radio, ServerTask, Leave, Drop, Scan, ScanEnds, HandOver
<1> QED
  BY <1>1 DEF Promised, TimesAreNat, OpenIsOnAir, PromiseFits

\* The retry task closes a window only once its time is over.
LEMMA RetryKeepsPromise ==
    ASSUME Promised, RetryTask
    PROVE  Promised'
<1> USE DEF Promised, TimesAreNat, OpenIsOnAir, PromiseFits, windowVars, airVars, pressVars
<1>1. CASE RetryReads
  BY <1>1 DEF RetryReads
<1>2. CASE ServiceWindow
  BY <1>2 DEF ServiceWindow
<1>3. CASE Hold
  BY <1>3 DEF Hold
<1>4. CASE Close
  BY <1>4 DEF Close
<1>5. CASE GoDown
  BY <1>5 DEF GoDown
<1>6. CASE Act
  BY <1>6 DEF Act
<1> QED
  BY <1>1, <1>2, <1>3, <1>4, <1>5, <1>6 DEF RetryTask

LEMMA PeopleKeepPromise ==
    ASSUME Promised, Open \/ Raise \/ Joins \/ TimePasses
    PROVE  Promised'
<1> USE DEF Promised, TimesAreNat, OpenIsOnAir, PromiseFits, windowVars, airVars, pressVars
<1>1. CASE Open
  <2>1. promise' = Window /\ left' = Window /\ capLeft' \in Nat /\ Window \in Nat
    BY <1>1, WifiBoundsAssumption DEF Open, Pressing
  <2>2. apUp' = TRUE /\ (~crossed' => at \notin {"hold", "close", "down"}) /\ UNCHANGED at
    BY <1>1, Zenon DEF Open, Pressing
  <2>3. OpenIsOnAir'
    BY <1>1 DEF Open, Pressing
  <2> QED
    BY <2>1, <2>2, <2>3
<1>2. CASE Raise
  <2>1. UNCHANGED <<at, left, capLeft, promise, crossed>>
    BY <1>2 DEF Raise
  <2>2. (air' = TRUE /\ UNCHANGED <<apUp, refused>>) \/ refused' = TRUE
    BY <1>2, Zenon DEF Raise
  <2> QED
    BY <2>1, <2>2
<1>3. CASE Joins
  BY <1>3 DEF Joins
<1>4. CASE TimePasses
  BY <1>4 DEF TimePasses, Sooner
<1> QED
  BY <1>1, <1>2, <1>3, <1>4

LEMMA WifiNextPromised == Promised /\ [WifiNext]_wifiVars => Promised'
<1> SUFFICES ASSUME Promised, [WifiNext]_wifiVars PROVE Promised'
  OBVIOUS
<1>1. CASE UNCHANGED wifiVars
  BY <1>1 DEF wifiVars, windowVars, airVars, pressVars, Promised, TimesAreNat, OpenIsOnAir,
              PromiseFits
<1> QED
  BY <1>1, StationKeepsPromise, RetryKeepsPromise, PeopleKeepPromise DEF WifiNext

\* A press puts the access point on the air for a whole window.
THEOREM PressKept == WifiSpec => []PressKeepsApUp
<1>1. Promised => PressKeepsApUp
  BY DEF Promised, OpenIsOnAir, PromiseFits, PressKeepsApUp
<1> QED
  BY <1>1, WifiInitPromised, WifiNextPromised, PTL DEF WifiSpec

-----------------------------------------------------------------------------
(* Maint: what holds of the panel and the sequence. *)

\* The types the other parts rest on.
SequenceTyped ==
    /\ seq \in Sequences /\ next \in 0..Len(seq)
    /\ slot \in Pictures \cup {None} /\ inflight \in Pictures \cup {None}
    /\ seen \in Nat
    /\ want \in [start : BOOLEAN, cycles : Cycles \cup {0}, stop : BOOLEAN]

\* A stop that has been posted during a sequence waits to be served, and no more than the flat
\* of the same tick has gone out since.
StopWaits ==
    stopped # None =>
        active /\ want.stop /\ (stopped = 0 \/ (stopped = 1 /\ pc \in {"slides", "requests"}))

\* While nobody touches a panel that is parked, the window stays closed, no settle window opens
\* and what comes to rest on it is white, or a sequence that ends with white is under way.
ParkedAlone ==
    /\ parked => edge = "closed"
    /\ parked /\ ~touched =>
           /\ ~Active /\ settle = "none"
           /\ active => prime \/ next < Len(seq) \/ RestsWhite
           /\ ~active => RestsWhite

\* The flats before place n have been on the glass in order, or have failed.
ShownBelow(n) == (seen + 1)..(n - 1) \subseteq failed

\* The flats of a sequence have been shown up to the one that waits or is drawn, or have failed,
\* unless one was lost.
FlatsInOrder ==
    active /\ ~lost /\ next > 0 =>
        \/ slot # None /\ slot.n = next /\ inflight = None /\ ShownBelow(next)
        \/ (slot = None \/ slot.n = 0) /\ inflight # None /\ inflight.n = next /\ ShownBelow(next)
        \/ /\ slot = None \/ slot.n = 0
           /\ inflight = None \/ inflight.n = 0
           /\ ShownBelow(next + 1)

\* A settle window of the automatic advance is open under a sequence only if it was before.
AutoIsLate == active /\ settle = "auto" => late

Kept == SequenceTyped /\ StopWaits /\ ParkedAlone /\ FlatsInOrder /\ AutoIsLate

\* A sequence is not empty and ends with white, whatever was asked for.
LEMMA ClearIsOdd ==
    ASSUME NEW c \in Nat \ {0}
    PROVE  ClearSteps(c) \in Nat \ {0} /\ ClearSteps(c) % 2 = 1
<1> DEFINE k == BlacksPerCycle * c
<1>1. k \in Nat /\ ClearSteps(c) = 2 * k + 1
  BY SequenceAssumption DEF ClearSteps
<1> HIDE DEF k
<1> QED
  BY <1>1

LEMMA EndsWithWhite ==
    ASSUME NEW s \in Sequences
    PROVE  /\ Len(s) \in Nat \ {0} /\ DOMAIN s = 1..Len(s) /\ s[Len(s)] = "white"
<1>1. CASE s = Course
  BY <1>1, SequenceAssumption
<1>2. ASSUME NEW c \in Cycles, s = Clear(c)
      PROVE  /\ Len(s) \in Nat \ {0} /\ DOMAIN s = 1..Len(s) /\ s[Len(s)] = "white"
  <2>1. ClearSteps(c) \in Nat \ {0} /\ ClearSteps(c) % 2 = 1
    BY ClearIsOdd, SequenceAssumption
  <2>2. Len(s) = ClearSteps(c) /\ DOMAIN s = 1..ClearSteps(c)
    <3>1. s \in [1..ClearSteps(c) -> {"white", "black"}]
      BY <1>2 DEF Clear
    <3>2. s \in Seq({"white", "black"})
      BY <3>1, <2>1, SeqDef
    <3> QED
      BY <3>1, <3>2, <2>1, LenProperties
  <2>3. s[ClearSteps(c)] = "white"
    BY <1>2, <2>1 DEF Clear
  <2> QED
    BY <2>1, <2>2, <2>3
<1> QED
  BY <1>1, <1>2 DEF Sequences

\* What is posted is a picture, and not the empty slot.
LEMMA PostedIsPicture ==
    /\ White \in Pictures /\ Photograph \in Pictures
    /\ \A s \in Sequences, n \in Nat : n < Len(s) =>
           [pic |-> s[n + 1], n |-> n + 1] \in Pictures
    /\ \A p \in Pictures : p # None /\ p.n \in Nat
<1>1. Photograph \in Pictures
  BY DEF Photograph, Pictures
<1>2. White \in Pictures
  <2>1. Course \in Sequences /\ Len(Course) \in DOMAIN Course
    BY EndsWithWhite DEF Sequences
  <2> QED
    BY <2>1, SequenceAssumption DEF White, Pictures
<1>3. ASSUME NEW s \in Sequences, NEW n \in Nat, n < Len(s)
      PROVE  [pic |-> s[n + 1], n |-> n + 1] \in Pictures
  <2>1. n + 1 \in DOMAIN s
    BY <1>3, EndsWithWhite
  <2> QED
    BY <2>1 DEF Pictures
<1> QED
  BY <1>1, <1>2, <1>3, NoneAssumption DEF Pictures

\* Time, settings and the clock are left alone by all but the steps that name them.
LEMMA WindowStays == UNCHANGED clockVars => Active' = Active
BY DEF clockVars, Active, hour

LEMMA MaintInitKept == Init => Kept
<1> SUFFICES ASSUME Init PROVE Kept
  OBVIOUS
<1>1. Course \in Sequences /\ Len(Course) \in Nat
  BY EndsWithWhite DEF Sequences
<1>2. SequenceTyped
  BY <1>1 DEF Init, SequenceTyped
<1>3. StopWaits /\ ParkedAlone /\ FlatsInOrder /\ AutoIsLate
  BY DEF Init, StopWaits, ParkedAlone, FlatsInOrder, AutoIsLate
<1> QED
  BY <1>2, <1>3 DEF Kept

\* The slideshow stays out of a panel that is parked, and out of a sequence.
LEMMA SlidesKeeps == ASSUME Kept, Slides PROVE Kept'
<1> USE DEF Kept, SequenceTyped, Slides, clockVars, courseVars, edgeVars, ghostVars, flatVars, panelVars, Post
<1>1. Active' = Active
  BY WindowStays
<1>2. Photograph \in Pictures /\ Photograph # None /\ Photograph.n = 0
  BY PostedIsPicture DEF Photograph
<1>3. SequenceTyped'
  BY <1>2
<1>4. StopWaits'
  BY DEF StopWaits
<1>5. ParkedAlone'
  BY <1>1, Zenon DEF ParkedAlone, MayAdvance, RestsWhite
<1>6. FlatsInOrder'
  BY <1>2 DEF FlatsInOrder, ShownBelow, Busy
<1>7. AutoIsLate'
  BY DEF AutoIsLate, MayAdvance
<1> QED
  BY <1>3, <1>4, <1>5, <1>6, <1>7

\* A sequence that is stopped leaves the panel to whoever stopped it.
LEMMA RequestsKeeps == ASSUME Kept, Requests PROVE Kept'
<1> USE DEF Kept, SequenceTyped, Requests, ServeStop, Finish, GoesOn, clockVars, courseVars,
            edgeVars, panelVars, flatVars, Touching
<1>1. Active' = Active
  BY WindowStays
<1>2. SequenceTyped'
  <2>1. Course \in Sequences /\ Len(Course) \in Nat
    BY EndsWithWhite DEF Sequences
  <2>2. want' \in [start : BOOLEAN, cycles : Cycles \cup {0}, stop : BOOLEAN]
    OBVIOUS
  <2>3. seq' \in Sequences /\ next' \in 0..Len(seq')
    BY <2>1
  <2> QED
    BY <2>2, <2>3
<1>3. StopWaits'
  BY DEF StopWaits
<1>4. ParkedAlone'
  BY <1>1, Zenon DEF ParkedAlone, RestsWhite
<1>5. FlatsInOrder'
  BY DEF FlatsInOrder, ShownBelow
<1>6. AutoIsLate'
  BY DEF AutoIsLate
<1> QED
  BY <1>2, <1>3, <1>4, <1>5, <1>6

LEMMA BeginKeeps == ASSUME Kept, BeginWanted PROVE Kept'
<1> USE DEF Kept, SequenceTyped, BeginWanted, Begin, clockVars, courseVars, edgeVars, panelVars,
            flatVars, Touching
<1>1. Active' = Active
  BY WindowStays
<1>2. SequenceTyped'
  BY EndsWithWhite DEF Sequences
<1>3. StopWaits'
  BY DEF StopWaits
<1>4. ParkedAlone'
  BY <1>1, Zenon DEF ParkedAlone, RestsWhite
<1>5. FlatsInOrder'
  <2>1. UNCHANGED <<active, next, slot, inflight, seen, failed, lost>> \/ ~(next' > 0)
    OBVIOUS
  <2> QED
    BY <2>1, Zenon DEF FlatsInOrder, ShownBelow
<1>6. AutoIsLate'
  BY DEF AutoIsLate
<1> QED
  BY <1>2, <1>3, <1>4, <1>5, <1>6

\* What starts by itself, or by a person, is a sequence.
LEMMA AskedIsSequence ==
    /\ Course \in Sequences /\ Clear(1) \in Sequences
    /\ \A s \in Sequences : Len(s) \in Nat \ {0}
BY EndsWithWhite, SequenceAssumption DEF Sequences

\* A window that closes parks the panel on white, with or without a sequence.
LEMMA ClosingKeeps ==
    ASSUME Kept, Edge, edge = "open", ~Active, WindowClosed
    PROVE  Kept'
<1> USE DEF Kept, Edge, clockVars, courseVars, edgeVars, panelVars
<1>1. Active' = Active
  BY WindowStays
<1>2. White \in Pictures /\ White # None /\ White.n = 0 /\ White.pic = "white"
  BY PostedIsPicture DEF White
<1>3. UNCHANGED <<inflight, glass, want, settle, stopped, seen, failed, spoilt>>
  BY DEF WindowClosed, ParkWhite, Post, Begin
<1>4. slot' = slot \/ slot' = White
  BY DEF WindowClosed, ParkWhite, Post
<1>5. \/ UNCHANGED <<active, seq, next, prime, late>>
      \/ ~active /\ active' /\ next' = 0 /\ seq' \in Sequences /\ late' = (settle # "none")
  BY AskedIsSequence DEF WindowClosed, Begin
<1>6. ~active /\ ~active' /\ cfg.park => slot' = White
  BY DEF WindowClosed, ParkWhite, Post, Begin
<1>7. active => (lost => lost') /\ (slot' = slot \/ (Replaces => lost'))
  BY Zenon DEF WindowClosed, ParkWhite, Post, Begin
<1>8. ~active /\ active' => next' = 0 /\ 0 < Len(seq')
  <2>1. ~active /\ active' => next' = 0 /\ seq' \in Sequences
    BY <1>5, Zenon
  <2>2. seq' \in Sequences => 0 < Len(seq')
    BY AskedIsSequence
  <2> QED
    BY <2>1, <2>2, Zenon
<1>9. SequenceTyped'
  BY <1>2, <1>3, <1>4, <1>5, AskedIsSequence DEF SequenceTyped
<1>10. StopWaits'
  BY <1>3, <1>5 DEF StopWaits
<1>11. ParkedAlone'
  <2>1. ASSUME parked', ~touched'
        PROVE  /\ ~Active /\ cfg.park /\ settle' = "none"
               /\ active => next # Len(seq) \/ RestsWhite
    BY <2>1, <1>3 DEF WindowClosed, ParkedAlone
  <2>2. active' /\ ~active => next' < Len(seq')
    BY <1>8, Zenon
  <2>3. slot' = White => RestsWhite'
    BY <1>2 DEF RestsWhite
  <2>4. slot' = slot => RestsWhite' = RestsWhite
    BY <1>3 DEF RestsWhite
  <2>5. edge' = "closed"
    BY DEF WindowClosed
  <2>6. active => active' /\ seq' = seq /\ next' = next
    BY <1>5, Zenon
  <2>7. next = Len(seq) \/ next < Len(seq)
    BY AskedIsSequence DEF SequenceTyped
  <2>8. ASSUME parked', ~touched'
        PROVE  /\ active' => prime' \/ next' < Len(seq') \/ RestsWhite'
               /\ ~active' => RestsWhite'
    <3>1. CASE active
      BY <3>1, <2>1, <2>3, <2>4, <2>6, <2>7, <2>8, <1>4, Zenon
    <3>2. CASE ~active
      BY <3>2, <1>6, <2>1, <2>2, <2>3, <2>8, Zenon
    <3> QED
      BY <3>1, <3>2
  <2> QED
    BY <1>1, <2>1, <2>5, <2>8, Zenon DEF ParkedAlone
<1>12. FlatsInOrder'
  <2>1. CASE ~active
    BY <2>1, <1>8 DEF FlatsInOrder
  <2>2. CASE active
    <3>1. UNCHANGED <<active, next, inflight>> /\ ShownBelow(next)' = ShownBelow(next)
          /\ ShownBelow(next + 1)' = ShownBelow(next + 1)
      BY <2>2, <1>3, <1>5 DEF ShownBelow
    <3> QED
      BY <2>2, <3>1, <1>2, <1>4, <1>7 DEF FlatsInOrder, Replaces
  <2> QED
    BY <2>1, <2>2
<1>13. AutoIsLate'
  BY <1>3, <1>5 DEF AutoIsLate
<1> QED
  BY <1>9, <1>10, <1>11, <1>12, <1>13

\* A step that leaves the schedule alone has only to bring the panel to rest on white.
LEMMA StaysParked ==
    ASSUME ParkedAlone, UNCHANGED <<clockVars, edgeVars, settle, touched>>,
           parked /\ ~touched =>
               /\ active' => prime' \/ next' < Len(seq') \/ RestsWhite'
               /\ ~active' => RestsWhite'
    PROVE  ParkedAlone'
<1>1. Active' = Active
  BY WindowStays
<1>2. edge' = edge /\ parked' = parked /\ settle' = settle /\ touched' = touched
  BY DEF edgeVars
<1>3. (parked' => parked) /\ (touched => touched') /\ (Active' => Active)
  BY <1>1, <1>2
<1>4. parked' => edge' = "closed"
  BY <1>2, <1>3 DEF ParkedAlone
<1>5. parked' /\ ~touched' => ~Active' /\ settle' = "none"
  BY <1>2, <1>3 DEF ParkedAlone
<1>6. parked' /\ ~touched' => (active' => prime' \/ next' < Len(seq') \/ RestsWhite')
  BY <1>3
<1>7. parked' /\ ~touched' => (~active' => RestsWhite')
  BY <1>3
<1> QED
  BY <1>4, <1>5, <1>6, <1>7, Zenon DEF ParkedAlone

LEMMA EdgeKeeps == ASSUME Kept, Edge PROVE Kept'
<1>1. CASE edge = "open" /\ ~Active /\ WindowClosed
  BY <1>1, ClosingKeeps
<1>2. CASE /\ UNCHANGED <<courseVars, panelVars, lost, late>>
           /\ ~parked' \/ UNCHANGED <<edgeVars, touched>>
  <2> USE <1>2 DEF Edge, Kept, courseVars, panelVars
  <2>1. SequenceTyped' /\ FlatsInOrder' /\ AutoIsLate'
    BY DEF SequenceTyped, FlatsInOrder, ShownBelow, AutoIsLate
  <2>2. StopWaits'
    BY DEF StopWaits
  <2>3. ParkedAlone'
    <3>1. CASE ~parked'
      BY <3>1 DEF ParkedAlone
    <3>2. CASE UNCHANGED <<edgeVars, touched>>
      <4>1. UNCHANGED <<active, prime, next, seq, RestsWhite>>
        BY DEF RestsWhite
      <4> QED
        BY <3>2, <4>1, StaysParked DEF ParkedAlone
    <3> QED
      BY <3>1, <3>2
  <2> QED
    BY <2>1, <2>2, <2>3
<1>3. edge = "unknown" => ~parked
  BY DEF Kept, ParkedAlone
<1> QED
  BY <1>1, <1>2, <1>3 DEF Edge, edgeVars

\* The flats go out one by one, and the last of them is white.
LEMMA StepKeeps == ASSUME Kept, Step PROVE Kept'
<1> USE DEF Kept, panelVars
<1>1. UNCHANGED <<clockVars, want, edgeVars, settle, spoilt, touched>>
      /\ pc = "step" /\ pc' = "slides"
  BY DEF Step
<1>2. White \in Pictures /\ White # None /\ White.n = 0 /\ White.pic = "white"
  BY PostedIsPicture DEF White
<1>3. next \in Nat /\ Len(seq) \in Nat /\ next <= Len(seq)
  BY AskedIsSequence DEF SequenceTyped
<1>4. CASE GoesOn /\ UNCHANGED panelVars
  <2> USE <1>4 DEF GoesOn, courseVars, flatVars
  <2>1. SequenceTyped' /\ FlatsInOrder' /\ AutoIsLate'
    BY <1>1 DEF SequenceTyped, FlatsInOrder, ShownBelow, AutoIsLate
  <2>2. StopWaits'
    BY <1>1 DEF StopWaits
  <2>3. UNCHANGED <<active, prime, next, seq, RestsWhite>>
    BY <1>1 DEF RestsWhite
  <2>4. ParkedAlone'
    BY <1>1, <2>3, StaysParked DEF ParkedAlone
  <2> QED
    BY <2>1, <2>2, <2>4
<1>5. ASSUME active, ~Busy, Post(White), CountStopped,
             UNCHANGED <<active, seq, spread, next, flatVars, late>>
      PROVE  Kept'
  <2> USE <1>5 DEF Post, flatVars
  <2>1. SequenceTyped' /\ FlatsInOrder'
    BY <1>1, <1>2 DEF SequenceTyped, FlatsInOrder, ShownBelow, Busy
  <2>2. StopWaits'
    BY <1>1 DEF StopWaits, CountStopped
  <2>3. RestsWhite'
    BY <1>2 DEF RestsWhite
  <2>4. ParkedAlone'
    BY <1>1, <2>3, StaysParked
  <2>5. AutoIsLate'
    BY <1>1 DEF AutoIsLate
  <2> QED
    BY <2>1, <2>2, <2>4, <2>5
<1>6. ASSUME active, ~Busy, ~prime, next = Len(seq), Finish, UNCHANGED panelVars
      PROVE  Kept'
  <2> USE <1>6
  <2>1. SequenceTyped'
    BY <1>1, AskedIsSequence DEF Finish, SequenceTyped
  <2>2. StopWaits' /\ FlatsInOrder' /\ AutoIsLate'
    BY DEF Finish, StopWaits, FlatsInOrder, AutoIsLate
  <2>3. RestsWhite' = RestsWhite
    BY <1>1 DEF RestsWhite
  <2>4. ~(next < Len(seq))
    BY <1>3
  <2>5. parked /\ ~touched => RestsWhite
    BY <2>4, Zenon DEF ParkedAlone
  <2>6. ~active'
    BY DEF Finish
  <2>7. ParkedAlone'
    BY <1>1, <2>3, <2>5, <2>6, StaysParked
  <2> QED
    BY <2>1, <2>2, <2>7
<1>7. ASSUME active, ~Busy, ~prime, next < Len(seq), CountStopped, next' = next + 1,
             Post([pic |-> seq[next + 1], n |-> next + 1]), CountFlats,
             UNCHANGED <<active, seq, spread, prime, late>>
      PROVE  Kept'
  <2> USE <1>7 DEF Post
  <2>1. slot' \in Pictures /\ slot' # None /\ slot'.n = next + 1 /\ slot'.pic = seq[next + 1]
    BY <1>3, PostedIsPicture DEF SequenceTyped
  <2>2. SequenceTyped'
    BY <1>1, <1>3, <2>1 DEF SequenceTyped, CountFlats, flatVars
  <2>3. StopWaits'
    BY <1>1 DEF StopWaits, CountStopped
  <2>4. next' < Len(seq') \/ slot'.pic = "white"
    BY <1>3, <2>1, EndsWithWhite DEF SequenceTyped
  <2>5. ParkedAlone'
    BY <1>1, <2>1, <2>4, StaysParked DEF RestsWhite
  <2>6. FlatsInOrder'
    <3>1. inflight' = None /\ slot' # None /\ slot'.n = next'
      BY <2>1 DEF Busy
    <3>2. CASE next = 0
      <4>1. seen' = 0 /\ next' = 1
        BY <3>2 DEF CountFlats
      <4> QED
        BY <3>1, <4>1 DEF FlatsInOrder, ShownBelow
    <3>3. CASE next > 0
      <4>1. UNCHANGED <<seen, failed, lost>>
        BY <3>3 DEF CountFlats, flatVars
      <4>2. ~lost => ShownBelow(next + 1)
        BY <3>3 DEF FlatsInOrder, Busy
      <4> QED
        BY <3>1, <4>1, <4>2 DEF FlatsInOrder, ShownBelow
    <3> QED
      BY <3>2, <3>3, <1>3
  <2>7. AutoIsLate'
    BY <1>1 DEF AutoIsLate
  <2> QED
    BY <2>2, <2>3, <2>5, <2>6, <2>7
<1>8. next = Len(seq) \/ next < Len(seq)
  BY <1>3
<1> QED
  BY <1>4, <1>5, <1>6, <1>7, <1>8, Zenon DEF Step

\* The panel comes to rest on what it was given.
LEMMA PanelKeeps == ASSUME Kept, Panel PROVE Kept'
<1> USE DEF Kept
<1>1. UNCHANGED <<clockVars, edgeVars, settle, touched>>
  BY DEF Panel
<1>2. UNCHANGED <<pc, want, active, seq, next, prime, late, lost, stopped>>
  BY DEF Panel, courseVars
<1>3. SequenceTyped'
  <2>1. next \in Nat
    BY AskedIsSequence DEF SequenceTyped
  <2>2. seen' \in Nat
    BY <2>1 DEF Panel, Drawn, Refreshed, Shows, Misses, SequenceTyped
  <2> QED
    BY <1>2, <2>2 DEF Panel, Drawn, Refreshed, SequenceTyped
<1>4. StopWaits' /\ AutoIsLate'
  BY <1>1, <1>2 DEF StopWaits, AutoIsLate
<1>5. RestsWhite => RestsWhite'
  BY PostedIsPicture DEF Panel, Drawn, Refreshed, RestsWhite
<1>6. ParkedAlone'
  BY <1>1, <1>2, <1>5, StaysParked DEF ParkedAlone
<1>7. FlatsInOrder'
  <2>1. next \in Nat /\ seen \in Nat
    BY AskedIsSequence DEF SequenceTyped
  <2>2. CASE Drawn
    <3>1. slot \in Pictures /\ slot.n \in Nat
      BY <2>2, PostedIsPicture DEF Drawn, SequenceTyped
    <3>2. UNCHANGED <<seen, failed>>
      BY <2>2 DEF Drawn
    <3> QED
      BY <1>2, <2>1, <2>2, <3>1, <3>2 DEF Drawn, FlatsInOrder, ShownBelow
  <2>3. CASE Refreshed
    <3>1. inflight # None /\ inflight' = None /\ slot' = slot
      BY <2>3 DEF Refreshed
    <3>2. inflight.n \in Nat
      BY <3>1, PostedIsPicture DEF SequenceTyped
    <3>3. CASE Shows(inflight.n)
      <4>1. ASSUME ShownBelow(next), inflight.n = next, next > 0 PROVE ShownBelow(next + 1)'
        BY <1>2, <2>1, <3>3, <4>1 DEF Shows, ShownBelow
      <4>2. ASSUME inflight.n = 0 PROVE UNCHANGED <<seen, failed>>
        BY <3>3, <4>2 DEF Shows
      <4>3. ASSUME ShownBelow(next + 1), inflight.n = 0 PROVE ShownBelow(next + 1)'
        BY <1>2, <4>2, <4>3 DEF ShownBelow
      <4> QED
        BY <1>2, <3>1, <4>1, <4>3 DEF FlatsInOrder
    <3>4. CASE Misses(inflight.n)
      <4>1. ASSUME ShownBelow(next), inflight.n = next, next > 0 PROVE ShownBelow(next + 1)'
        BY <1>2, <2>1, <3>4, <4>1 DEF Misses, ShownBelow
      <4>2. ASSUME ShownBelow(next + 1) PROVE ShownBelow(next + 1)'
        BY <1>2, <3>4, <4>2 DEF Misses, ShownBelow
      <4> QED
        BY <1>2, <3>1, <4>1, <4>2 DEF FlatsInOrder
    <3> QED
      BY <2>3, <3>3, <3>4 DEF Refreshed
  <2> QED
    BY <2>2, <2>3 DEF Panel
<1> QED
  BY <1>3, <1>4, <1>6, <1>7

\* What people ask for touches a panel that is parked.
LEMMA PageKeeps == ASSUME Kept, Page PROVE Kept'
<1> USE DEF Kept
<1>1. UNCHANGED <<clockVars, edgeVars, pc, inflight, glass, seen, failed, spoilt, late>>
  BY DEF Page, PostStop, PostPicture, Press, PostStart, Post, panelVars, ghostVars, flatVars
<1>2. UNCHANGED <<active, seq, next, prime>>
  BY DEF Page, PostStop, PostPicture, Press, PostStart, courseVars
<1>3. Photograph \in Pictures /\ Photograph # None /\ Photograph.n = 0
  BY PostedIsPicture DEF Photograph
<1>4. White \in Pictures /\ White # None /\ White.n = 0
  BY PostedIsPicture DEF White
<1>5. CASE PostStop \/ \E cycles \in Cycles \cup {0} : PostStart(cycles)
  <2>1. UNCHANGED <<settle, touched, slot, lost>>
    BY <1>5 DEF PostStop, PostStart, panelVars, ghostVars, flatVars
  <2>2. SequenceTyped'
    BY <1>1, <1>2, <1>5, <2>1 DEF PostStop, PostStart, SequenceTyped
  <2>3. StopWaits'
    BY <1>1, <1>2, <1>5 DEF PostStop, PostStart, ghostVars, SequenceTyped, StopWaits
  <2>4. RestsWhite' = RestsWhite
    BY <1>1, <2>1 DEF RestsWhite
  <2>5. ParkedAlone'
    BY <1>1, <1>2, <2>1, <2>4, StaysParked DEF ParkedAlone
  <2>6. FlatsInOrder' /\ AutoIsLate'
    BY <1>1, <1>2, <2>1 DEF FlatsInOrder, ShownBelow, AutoIsLate
  <2> QED
    BY <2>2, <2>3, <2>5, <2>6
<1>6. CASE PostPicture \/ Press
  <2>1. Touching(TRUE) /\ UNCHANGED <<want, stopped>>
    BY <1>6 DEF PostPicture, Press
  <2>2. SequenceTyped'
    BY <1>1, <1>2, <1>3, <1>4, <1>6 DEF PostPicture, Press, Post, panelVars, SequenceTyped
  <2>3. StopWaits'
    BY <1>1, <1>2, <2>1 DEF StopWaits
  <2>4. ParkedAlone'
    <3>1. parked' => touched'
      BY <1>1, <2>1, Zenon DEF Touching, edgeVars
    <3> QED
      BY <1>1, <3>1 DEF edgeVars, ParkedAlone
  <2>5. FlatsInOrder'
    <3>1. \/ slot' = slot /\ lost' = lost
          \/ /\ slot' = Photograph \/ slot' = White
             /\ active /\ (lost \/ Replaces) => lost'
      BY <1>6, Zenon DEF PostPicture, Press, Post, panelVars, flatVars
    <3>2. ShownBelow(next)' = ShownBelow(next) /\ ShownBelow(next + 1)' = ShownBelow(next + 1)
      BY <1>1, <1>2 DEF ShownBelow
    <3> QED
      BY <1>1, <1>2, <1>3, <1>4, <3>1, <3>2 DEF FlatsInOrder, Replaces
  <2>6. AutoIsLate'
    BY <1>1, <1>2, <1>6 DEF PostPicture, Press, AutoIsLate
  <2> QED
    BY <2>2, <2>3, <2>4, <2>5, <2>6
<1> QED
  BY <1>5, <1>6 DEF Page

\* A window that opens lets the slideshow at the panel.
LEMMA TimeKeeps == ASSUME Kept, Time PROVE Kept'
<1> USE DEF Kept
<1>1. UNCHANGED <<pc, want, active, seq, next, prime, edge, parked, settle, slot, inflight,
                  glass, seen, failed, lost, spoilt, late, stopped>>
  BY DEF Time, edgeVars, panelVars, flatVars
<1>2. SequenceTyped' /\ StopWaits' /\ FlatsInOrder' /\ AutoIsLate'
  BY <1>1 DEF SequenceTyped, StopWaits, FlatsInOrder, ShownBelow, AutoIsLate
<1>3. RestsWhite' = RestsWhite
  BY <1>1 DEF RestsWhite
<1>4. touched' = (touched \/ (parked /\ Active'))
  BY DEF Time, Touching
<1>5. ParkedAlone'
  BY <1>1, <1>3, <1>4, Zenon DEF ParkedAlone
<1> QED
  BY <1>2, <1>5

LEMMA MaintNextKept == Kept /\ [Next]_vars => Kept'
<1> SUFFICES ASSUME Kept, [Next]_vars PROVE Kept'
  OBVIOUS
<1>1. CASE UNCHANGED vars
  <2> USE <1>1 DEF vars, courseVars, panelVars, ghostVars, flatVars
  <2>1. SequenceTyped' /\ StopWaits' /\ FlatsInOrder' /\ AutoIsLate'
    BY DEF Kept, SequenceTyped, StopWaits, FlatsInOrder, ShownBelow, AutoIsLate
  <2>2. RestsWhite' = RestsWhite
    BY DEF RestsWhite
  <2>3. ParkedAlone'
    BY <2>2, StaysParked DEF Kept, ParkedAlone
  <2> QED
    BY <2>1, <2>3 DEF Kept
<1> QED
  BY <1>1, SlidesKeeps, RequestsKeeps, BeginKeeps, EdgeKeeps, StepKeeps, PanelKeeps, PageKeeps,
     TimeKeeps DEF Next, Main

LEMMA MaintKept == Spec => []Kept
BY MaintInitKept, MaintNextKept, PTL DEF Spec

\* A stop takes effect, and a panel that was parked stays white, unless its last refresh failed.
THEOREM ParkedInTime == Spec => []ParksInTime
<1>1. Kept => ParksInTime
  BY DEF Kept, StopWaits, ParkedAlone, RestsWhite, Busy, ParksInTime, StopsInTime, ParkedIsWhite
<1> QED
  BY <1>1, MaintKept, PTL

\* Every flat of a sequence that runs to its end has been on the glass, or its refresh has failed,
\* and no photograph of the automatic advance comes between.
THEOREM SequenceStaysWhole == Spec => SequenceIsWhole
<1>1. Kept /\ [Next]_vars => [EveryFlat /\ NoAdvance]_vars
  <2> SUFFICES ASSUME Kept, Next PROVE EveryFlat /\ NoAdvance
    OBVIOUS
  <2>1. EveryFlat
    <3> SUFFICES ASSUME Step, active, ~active', ~lost PROVE ShownBelow(Len(seq) + 1)
      BY AskedIsSequence DEF EveryFlat, Done, ShownBelow, Kept, SequenceTyped
    <3>1. ~GoesOn
      BY DEF GoesOn, courseVars
    <3>2. ~Busy /\ next = Len(seq)
      <4>1. next = Len(seq) \/ next < Len(seq)
        BY AskedIsSequence DEF Kept, SequenceTyped
      <4> QED
        BY <3>1, <4>1 DEF Step
    <3>3. next > 0
      BY <3>2, AskedIsSequence DEF Kept, SequenceTyped
    <3> QED
      BY <3>2, <3>3 DEF Kept, FlatsInOrder, Busy
  <2>2. NoAdvance
    BY DEF NoAdvance, Kept, AutoIsLate
  <2> QED
    BY <2>1, <2>2
<1> QED
  BY <1>1, MaintKept, PTL DEF Spec, SequenceIsWhole

=============================================================================

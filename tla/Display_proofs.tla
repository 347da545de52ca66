--------------------------- MODULE Display_proofs ---------------------------
(***************************************************************************)
(* Proofs about the panel's worker (Display), the transactions that change  *)
(* its settings (Apply), the button, and the card it asks for (Pairing).    *)
(***************************************************************************)
EXTENDS Apply, Pairing, Buttons, TLAPS

-----------------------------------------------------------------------------
(* Display: types, the wake-up of the task, which picture it shows and how. *)

\* The display task is in one of its two inner steps exactly when a request is in flight,
\* and a render that succeeded has left its picture on the glass (display_task()).
InFlight ==
    /\ (inflight # None) <=> task \in {"draw", "publish"}
    /\ task = "publish" /\ outcome => glass.pic = inflight

\* Until a redraw overtakes it, the picture wanted is the one that will be shown next:
\* in the slot if anything is, else in flight, else on the glass.
WantedIsNext ==
    ~overtaken =>
        \/ pending # None /\ pending = wanted
        \/ pending = None /\ inflight # None /\ inflight = wanted
        \/ pending = None /\ inflight = None /\ (outcome => glass.pic = wanted)

Inv == TypeOK /\ InFlight /\ WantedIsNext /\ NoLostWake

\* A picture is never the empty slot.
LEMMA PictureNotNone == \A r \in Picture : r # None
  BY PictureAssumption DEF Picture

LEMMA DrawnType == TypeOK /\ inflight \in Picture => Drawn \in [pic : Picture \cup {None}, look : Look]
  BY DEF TypeOK, Drawn, Look, Setting

\* app_display_init() leaves the slot empty and the task asleep, which is an idle panel.
LEMMA InitInv == Init => Inv
<1> SUFFICES ASSUME Init PROVE Inv
  OBVIOUS
<1>1. shown["rotation"] \in Value
  BY DEF Init, Look, Setting
<1>2. glass \in [pic : Picture \cup {None}, look : Look]
  BY DEF Init
<1>3. redrawing \in [Caller -> Photo \cup {None}]
  BY DEF Init
<1>4. TypeOK
  BY <1>1, <1>2, <1>3 DEF Init, TypeOK
<1> QED BY <1>4 DEF Init, Inv, InFlight, WantedIsNext, NoLostWake

\* Every iteration of display_task() and every call into app_display.c keeps it so.
LEMMA StepInv == Inv /\ [Next]_displayVars => Inv'
<1> SUFFICES ASSUME Inv, [Next]_displayVars PROVE Inv'
  OBVIOUS
<1> USE DEF Inv, displayVars, taskVars, slotVars, callerVars, ghostVars
<1>1. CASE Wake
  BY <1>1 DEF Wake, TypeOK, InFlight, WantedIsNext, NoLostWake
<1>2. CASE Take
  <2>1. CASE pending = None
    BY <1>2, <2>1 DEF Take, TypeOK, InFlight, WantedIsNext, NoLostWake
  <2>2. CASE pending # None
    <3>1. shown["rotation"] \in Value
      BY DEF TypeOK, Look, Setting
    <3>2. TypeOK' /\ InFlight'
      BY <1>2, <2>2, <3>1 DEF Take, TypeOK, InFlight
    <3>3. WantedIsNext'
      BY <1>2, <2>2 DEF Take, TypeOK, WantedIsNext
    <3>4. NoLostWake'
      BY <1>2, <2>2 DEF Take, NoLostWake
    <3> QED BY <3>2, <3>3, <3>4
  <2> QED BY <2>1, <2>2
<1>3. CASE Draw
  <2>1. inflight \in Picture
    BY <1>3 DEF Draw, TypeOK, InFlight
  <2>2. Drawn \in [pic : Picture \cup {None}, look : Look] /\ Drawn.pic = inflight
    BY <2>1, DrawnType DEF Drawn
  <2>3. TypeOK'
    BY <1>3, <2>2 DEF Draw, TypeOK
  <2>4. InFlight' /\ WantedIsNext' /\ NoLostWake'
    BY <1>3, <2>1, <2>2 DEF Draw, InFlight, WantedIsNext, NoLostWake
  <2> QED BY <2>3, <2>4
<1>4. CASE Publish
  <2>1. TypeOK'
    BY <1>4 DEF Publish, TypeOK
  <2>2. InFlight' /\ WantedIsNext' /\ NoLostWake'
    BY <1>4 DEF Publish, InFlight, WantedIsNext, NoLostWake
  <2> QED BY <2>1, <2>2
<1>5. ASSUME NEW r \in Picture, Request(r) PROVE Inv'
  BY <1>5, PictureNotNone DEF Request, Post, TypeOK, InFlight, WantedIsNext, NoLostWake
<1>6. ASSUME NEW c \in Caller, NEW k \in Setting, NEW v \in Value, Set(c, k, v) PROVE Inv'
  <2>1. [shown EXCEPT ![k] = v] \in Look
    BY DEF TypeOK, Look
  <2> QED BY <1>6, <2>1 DEF Set, TypeOK, InFlight, WantedIsNext, NoLostWake
<1>7. ASSUME NEW c \in Caller, CopyCurrent(c) PROVE Inv'
  <2>1. [redrawing EXCEPT ![c] = current] \in [Caller -> Photo \cup {None}]
    BY DEF TypeOK
  <2>2. TypeOK'
    BY <1>7, <2>1 DEF CopyCurrent, TypeOK
  <2> QED BY <1>7, <2>2 DEF CopyCurrent, InFlight, WantedIsNext, NoLostWake
<1>8. ASSUME NEW c \in Caller, PostRedraw(c) PROVE Inv'
  <2>1. redrawing[c] \in Photo /\ [redrawing EXCEPT ![c] = None] \in [Caller -> Photo \cup {None}]
    BY <1>8 DEF PostRedraw, TypeOK
  <2>2. TypeOK'
    BY <1>8, <2>1 DEF PostRedraw, Post, TypeOK, Picture
  <2> QED BY <1>8, <2>1, <2>2 DEF PostRedraw, Post, InFlight, WantedIsNext, NoLostWake
<1>9. CASE UNCHANGED displayVars
  BY <1>9 DEF TypeOK, InFlight, WantedIsNext, NoLostWake
<1> QED BY <1>1, <1>2, <1>3, <1>4, <1>5, <1>6, <1>7, <1>8, <1>9 DEF Next, DisplayTask, Clients

\* The invariant of app_display.c, from which the three theorems below follow.
THEOREM Invariant == Spec => []Inv
  BY InitInv, StepInv, PTL DEF Spec

\* Every reachable state is well typed; in particular s_current_path never holds a screen,
\* which a redraw would draw again.
THEOREM TypeCorrect == Spec => []TypeOK
  BY Invariant, PTL DEF Inv

\* The display task never sleeps with a request in the slot and no wake-up owed.
THEOREM WakeNotLost == Spec => []NoLostWake
  BY Invariant, PTL DEF Inv

\* A panel that has come to rest shows the picture asked for last, unless a redraw overtook it.
THEOREM ShowsLastRequest == Spec => []LastRequestShown
<1>1. Inv => LastRequestShown
  BY DEF Inv, WantedIsNext, LastRequestShown, AtRest, Busy
<1> QED BY Invariant, <1>1, PTL

\* Once every change is committed and none missed its redraw, a photograph that nothing waits to
\* replace is drawn, or has been, with the settings in force.
DrawnAsSet ==
    owes = {} /\ ~missed /\ pending = None =>
        /\ task = "draw" /\ inflight \in Photo => turned = shown["rotation"]
        /\ task = "publish" /\ outcome /\ inflight \in Photo => glass.look = shown
        /\ inflight = None /\ outcome /\ glass.pic \in Photo => glass.look = shown

\* A photograph that a render which succeeded left on the glass is the current picture, so
\* that a redraw finds it.
CurrentIsKnown == inflight = None /\ outcome /\ current = None => glass.pic \notin Photo

Redrawn == DrawnAsSet /\ CurrentIsKnown

LEMMA InitRedrawn == Init => Redrawn
  BY PictureAssumption DEF Init, Redrawn, DrawnAsSet, CurrentIsKnown

\* A caller is done once its redraw waits, or there is nothing to redraw.
LEMMA StepRedrawn == Inv /\ Redrawn /\ [Next]_displayVars => Redrawn'
<1> SUFFICES ASSUME Inv, Redrawn, [Next]_displayVars PROVE Redrawn'
  OBVIOUS
<1> USE DEF Redrawn, DrawnAsSet, CurrentIsKnown, displayVars, taskVars, slotVars, callerVars, ghostVars
<1>1. CASE Wake
  BY <1>1 DEF Wake
<1>2. CASE Take
  BY <1>2 DEF Take, Inv, TypeOK
<1>3. CASE Draw
  <2>1. task = "draw" /\ task' = "publish" /\ inflight # None
    BY <1>3 DEF Draw, Inv, InFlight
  <2>2. turned = shown["rotation"] => [shown EXCEPT !["rotation"] = turned] = shown
    BY DEF Inv, TypeOK, Look
  <2>3. outcome' => glass'.look = [shown EXCEPT !["rotation"] = turned]
    BY <1>3 DEF Draw, Drawn
  <2> QED
    BY <1>3, <2>1, <2>2, <2>3 DEF Draw
<1>4. CASE Publish
  BY <1>4 DEF Publish, Inv, InFlight, TypeOK
<1>5. ASSUME NEW r \in Picture, Request(r) PROVE Redrawn'
  BY <1>5, PictureNotNone DEF Request, Post
<1>6. ASSUME NEW c \in Caller, NEW k \in Setting, NEW v \in Value, Set(c, k, v) PROVE Redrawn'
  BY <1>6 DEF Set
<1>7. ASSUME NEW c \in Caller, CopyCurrent(c) PROVE Redrawn'
  <2>1. /\ UNCHANGED <<pending, task, inflight, turned, outcome, current, glass, shown>>
        /\ owes # {}
    BY <1>7 DEF CopyCurrent
  <2>2. CASE current # None
    BY <1>7, <2>1, <2>2 DEF CopyCurrent
  <2>3. CASE current = None
    <3>1. ~missed' => inflight \notin Photo
      BY <1>7, <2>3, Zenon DEF CopyCurrent
    <3>2. task \in {"draw", "publish"} => inflight # None
      BY DEF Inv, InFlight
    <3> QED
      BY <2>1, <2>3, <3>1, <3>2
  <2> QED
    BY <2>2, <2>3
<1>8. ASSUME NEW c \in Caller, PostRedraw(c) PROVE Redrawn'
  BY <1>8 DEF PostRedraw, Post
<1>9. CASE UNCHANGED displayVars
  BY <1>9
<1> QED
  BY <1>1, <1>2, <1>3, <1>4, <1>5, <1>6, <1>7, <1>8, <1>9 DEF Next, DisplayTask, Clients

\* A photograph at rest is drawn with the settings in force, however the changes, the redraws
\* and the task came between one another.
THEOREM DrawnWithSettings == Spec => []GlassUpToDate
<1>1. Inv /\ Redrawn => GlassUpToDate
  BY DEF Redrawn, DrawnAsSet, GlassUpToDate, AtRest, Busy
<1> QED
  BY <1>1, InitInv, StepInv, InitRedrawn, StepRedrawn, PTL DEF Spec

-----------------------------------------------------------------------------
(* Apply: it implements Display, and what the display holds is stored. *)

\* What is said of a key that no two transactions are setting at once: at most one is
\* between its write and its push, and the flash holds what that one will push.
KeyInv(k) ==
    k \notin raced =>
        /\ \A c, d \in Caller : at[c] = k /\ at[d] = k => c = d
        /\ \A c \in Caller : at[c] = k => nvs[k] = body[c][k]
        /\ (\A c \in Caller : at[c] # k) => shown[k] = nvs[k]

StoredInv == ApplyTypeOK /\ shown \in Look /\ \A k \in Setting : KeyInv(k)

\* The rest of a body is a body.
LEMMA DropKey ==
    ASSUME NEW b \in Body, NEW k
    PROVE  /\ [x \in DOMAIN b \ {k} |-> b[x]] \in Body
           /\ \A x \in DOMAIN b : x \in Setting /\ b[x] \in Value
<1>1. PICK S \in SUBSET Setting : b \in [S -> Value]
  BY DEF Body
<1>2. [x \in DOMAIN b \ {k} |-> b[x]] \in [S \ {k} -> Value]
  BY <1>1
<1>3. S \ {k} \in SUBSET Setting
  BY <1>1
<1> QED BY <1>1, <1>2, <1>3 DEF Body

\* The key a transaction sets next is one its body still has.
LEMMA KeyToSet ==
    ASSUME ApplyTypeOK, NEW c \in Caller, Sets(c)
    PROVE  /\ Key(c) \in DOMAIN body[c] /\ Key(c) \in Setting
           /\ body[c][Key(c)] \in Value
           /\ Rest(c) \in [Caller -> Body]
           /\ Rest(c)[c] = [x \in DOMAIN body[c] \ {Key(c)} |-> body[c][x]]
           /\ \A d \in Caller \ {c} : Rest(c)[d] = body[d]
<1>1. body[c] \in Body /\ body \in [Caller -> Body]
  BY DEF ApplyTypeOK
<1>2. \A x \in DOMAIN body[c] : x \in Setting /\ body[c][x] \in Value
  BY <1>1, DropKey
<1>3. Key(c) \in DOMAIN body[c]
  <2>1. CASE "rotation" \in DOMAIN body[c]
    BY <2>1 DEF Key
  <2>2. CASE "rotation" \notin DOMAIN body[c]
    <3>1. PICK x \in DOMAIN body[c] : TRUE
      BY DEF Sets
    <3>2. x = "palette"
      BY <1>2, <2>2, <3>1 DEF Setting
    <3> QED BY <2>2, <3>2 DEF Key
  <2> QED BY <2>1, <2>2
<1>4. [x \in DOMAIN body[c] \ {Key(c)} |-> body[c][x]] \in Body
  BY <1>1, DropKey
<1> QED BY <1>1, <1>2, <1>3, <1>4 DEF Rest

\* A key is neither of the other two places a transaction can stand.
LEMMA KeysAreNotPlaces == \A k \in Setting : k # "idle" /\ k # "set"
  BY DEF Setting

\* Push in full: the key leaves the body, and the display is given its value.
LEMMA PushSets ==
    ASSUME ApplyTypeOK, NEW c \in Caller, Push(c)
    PROVE  /\ at[c] \in Setting /\ at[c] \in DOMAIN body[c]
           /\ body[c][at[c]] \in Value
           /\ body' \in [Caller -> Body]
           /\ \A d \in Caller \ {c} : body'[d] = body[d]
<1>1. body[c] \in Body /\ at[c] \in Setting /\ at[c] \in DOMAIN body[c] /\ body \in [Caller -> Body]
  BY DEF ApplyTypeOK, Push
<1>2. [x \in DOMAIN body[c] \ {at[c]} |-> body[c][x]] \in Body /\ body[c][at[c]] \in Value
  BY <1>1, DropKey
<1> QED BY <1>1, <1>2 DEF Push

-----------------------------------------------------------------------------

LEMMA InitStored == ApplyInit => StoredInv
<1> SUFFICES ASSUME ApplyInit PROVE StoredInv
  OBVIOUS
<1>1. shown \in Look
  BY DEF ApplyInit, Init
<1>2. <<>> \in Body
  <2>1. <<>> \in [{} -> Value]
    OBVIOUS
  <2> QED BY <2>1 DEF Body
<1>3. body \in [Caller -> Body] /\ at \in [Caller -> {"idle", "set"} \cup Setting]
  BY <1>2 DEF ApplyInit
<1>4. \A c \in Caller, k \in Setting : at[c] # k
  BY KeysAreNotPlaces DEF ApplyInit
<1> QED BY <1>1, <1>3, <1>4 DEF ApplyInit, StoredInv, ApplyTypeOK, KeyInv

LEMMA StepStored == StoredInv /\ [ApplyNext]_vars => StoredInv'
<1> SUFFICES ASSUME StoredInv, [ApplyNext]_vars PROVE StoredInv'
  OBVIOUS
<1> USE KeysAreNotPlaces
<1>0. ApplyTypeOK /\ shown \in Look /\ \A k \in Setting : KeyInv(k)
  BY DEF StoredInv
<1>a. ASSUME UNCHANGED <<shown, ram, nvs, body, at, raced>> PROVE StoredInv'
  BY <1>0, <1>a DEF StoredInv, ApplyTypeOK, KeyInv
<1>1. CASE DisplayStep
  BY <1>1, <1>a DEF DisplayStep, DisplayTask, Wake, Take, Draw, Publish, Request,
     callerVars, taskVars, applyVars
<1>2. ASSUME NEW c \in Caller, Begin(c) PROVE StoredInv'
  <2>1. body' \in [Caller -> Body] /\ \A d \in Caller \ {c} : body'[d] = body[d]
    <3>1. CASE c = Button
      <4>1. PICK v \in Value : body' = [body EXCEPT ![c] = [k \in {"rotation"} |-> v]]
        BY <1>2, <3>1 DEF Begin
      <4>2. [k \in {"rotation"} |-> v] \in Body
        <5>1. [k \in {"rotation"} |-> v] \in [{"rotation"} -> Value]
          OBVIOUS
        <5>2. {"rotation"} \in SUBSET Setting
          BY DEF Setting
        <5> QED BY <5>1, <5>2 DEF Body
      <4> QED BY <1>0, <4>1, <4>2 DEF ApplyTypeOK
    <3>2. CASE c # Button
      BY <1>0, <1>2, <3>2 DEF Begin, ApplyTypeOK
    <3> QED BY <3>1, <3>2
  <2>2. at' = [at EXCEPT ![c] = "set"] /\ at[c] = "idle" /\ UNCHANGED <<shown, ram, nvs, raced>>
    BY <1>2 DEF Begin, displayVars, callerVars
  <2>3. \A d \in Caller, k \in Setting : at'[d] = k <=> at[d] = k
    BY <1>0, <2>2 DEF ApplyTypeOK
  <2>4. ApplyTypeOK'
    BY <1>0, <2>1, <2>2, <2>3 DEF ApplyTypeOK
  <2>5. ASSUME NEW k \in Setting PROVE KeyInv(k)'
    <3>1. \A d \in Caller : at'[d] = k => d # c
      BY <2>2, <2>3
    <3> QED BY <1>0, <2>1, <2>2, <2>3, <3>1 DEF KeyInv
  <2> QED BY <1>0, <2>2, <2>4, <2>5 DEF StoredInv
<1>3. ASSUME NEW c \in Caller, Already(c) \/ PersistFails(c) PROVE StoredInv'
  <2>1. Sets(c) /\ body' = Rest(c) /\ UNCHANGED <<shown, nvs, at, raced>>
    BY <1>3 DEF Already, PersistFails, displayVars, callerVars
  <2>2. ram' \in Look
    <3>1. body[c][Key(c)] \in Value
      BY <1>0, <2>1, KeyToSet
    <3> QED BY <1>0, <1>3, <3>1 DEF Already, PersistFails, ApplyTypeOK, Look
  <2>3. at[c] = "set"
    BY <2>1 DEF Sets
  <2>4. body' \in [Caller -> Body] /\ \A d \in Caller \ {c} : body'[d] = body[d]
    BY <1>0, <2>1, KeyToSet
  <2>5. \A d \in Caller, k \in Setting : at[d] = k => d # c
    BY <2>3
  <2>6. ApplyTypeOK'
    BY <1>0, <2>1, <2>2, <2>4, <2>5 DEF ApplyTypeOK
  <2>7. ASSUME NEW k \in Setting PROVE KeyInv(k)'
    BY <1>0, <2>1, <2>4, <2>5 DEF KeyInv
  <2> QED BY <1>0, <2>1, <2>6, <2>7 DEF StoredInv
<1>4. ASSUME NEW c \in Caller, Persist(c) PROVE StoredInv'
  <2>1. Sets(c) /\ Key(c) \in Setting /\ Key(c) \in DOMAIN body[c] /\ body[c][Key(c)] \in Value
    BY <1>0, <1>4, KeyToSet DEF Persist
  <2>a. PICK j \in Setting : j = Key(c) /\ j \in DOMAIN body[c]
    BY <2>1
  <2>b. PICK v \in Value : v = body[c][j]
    BY <2>1, <2>a
  <2>2. /\ ram' = [ram EXCEPT ![j] = v] /\ nvs' = [nvs EXCEPT ![j] = v]
        /\ at' = [at EXCEPT ![c] = j]
        /\ raced' = IF \E d \in Caller : at[d] = j THEN raced \cup {j} ELSE raced \ {j}
        /\ UNCHANGED <<shown, body>>
    BY <1>4, <2>a, <2>b DEF Persist, displayVars, callerVars
  <2>3. ApplyTypeOK'
    <3>1. ram' \in Look /\ nvs' \in Look
      BY <1>0, <2>2 DEF ApplyTypeOK, Look
    <3>2. at' \in [Caller -> {"idle", "set"} \cup Setting]
      BY <1>0, <2>1, <2>2 DEF ApplyTypeOK
    <3>3. raced' \subseteq Setting
      BY <1>0, <2>1, <2>2 DEF ApplyTypeOK
    <3>4. \A d \in Caller, k \in Setting : at'[d] = k => k \in DOMAIN body'[d]
      BY <1>0, <2>a, <2>2 DEF ApplyTypeOK
    <3> QED BY <1>0, <2>2, <3>1, <3>2, <3>3, <3>4 DEF ApplyTypeOK
  <2>4. at \in [Caller -> {"idle", "set"} \cup Setting] /\ nvs \in [Setting -> Value]
    BY <1>0 DEF ApplyTypeOK, Look
  <2>5. at[c] = "set"
    BY <2>1 DEF Sets
  <2>6. KeyInv(j)'
    <3>1. CASE \E d \in Caller : at[d] = j
      BY <2>2, <3>1 DEF KeyInv
    <3>2. CASE ~\E d \in Caller : at[d] = j
      <4>1. \A d \in Caller : at'[d] = j => d = c
        BY <2>2, <2>4, <3>2
      <4>2. at'[c] = j /\ nvs'[j] = v /\ body' = body
        BY <2>2, <2>4
      <4> QED BY <2>b, <4>1, <4>2 DEF KeyInv
    <3> QED BY <3>1, <3>2
  <2>7. ASSUME NEW k \in Setting, k # j PROVE KeyInv(k)'
    <3>1. k \in raced' <=> k \in raced
      BY <2>2, <2>7
    <3>2. \A d \in Caller : at'[d] = k <=> at[d] = k
      BY <2>2, <2>4, <2>5, <2>7
    <3>3. nvs'[k] = nvs[k]
      BY <2>2, <2>4, <2>7
    <3> QED BY <1>0, <2>2, <3>1, <3>2, <3>3 DEF KeyInv
  <2> QED BY <1>0, <2>2, <2>3, <2>6, <2>7 DEF StoredInv
<1>5. ASSUME NEW c \in Caller, Push(c) PROVE StoredInv'
  <2>1. /\ body' \in [Caller -> Body]
        /\ \A d \in Caller \ {c} : body'[d] = body[d]
    BY <1>0, <1>5, PushSets
  <2>4. PICK j \in Setting : j = at[c]
    BY <1>0, <1>5, PushSets
  <2>5. PICK v \in Value : v = body[c][j]
    BY <1>0, <1>5, <2>4, PushSets
  <2>2. /\ shown' = [shown EXCEPT ![j] = v] /\ at' = [at EXCEPT ![c] = "set"]
        /\ UNCHANGED <<ram, nvs, raced>>
    BY <1>5, <2>4, <2>5 DEF Push, Set
  <2>3. /\ at \in [Caller -> {"idle", "set"} \cup Setting] /\ shown \in [Setting -> Value]
    BY <1>0 DEF ApplyTypeOK, Look
  <2>6. \A d \in Caller, k \in Setting : at'[d] = k <=> (at[d] = k /\ d # c)
    BY <2>2, <2>3
  <2>7. ApplyTypeOK' /\ (shown \in Look)'
    <3>1. shown' \in Look
      BY <2>1, <2>2, <2>3 DEF Look
    <3>2. at' \in [Caller -> {"idle", "set"} \cup Setting]
      BY <2>2, <2>3
    <3> QED BY <1>0, <2>1, <2>2, <2>6, <3>1, <3>2 DEF ApplyTypeOK
  <2>8. KeyInv(j)'
    <3> SUFFICES ASSUME j \notin raced PROVE KeyInv(j)'
      BY <2>2 DEF KeyInv
    <3>1. nvs[j] = v /\ \A d \in Caller : at[d] = j => d = c
      BY <1>0, <2>1, <2>4, <2>5 DEF KeyInv
    <3>2. \A d \in Caller : at'[d] # j
      BY <2>6, <3>1
    <3>3. shown'[j] = nvs'[j]
      BY <2>1, <2>2, <2>3, <3>1
    <3> QED BY <3>2, <3>3 DEF KeyInv
  <2>9. ASSUME NEW k \in Setting, k # j PROVE KeyInv(k)'
    <3>1. shown'[k] = shown[k]
      BY <2>2, <2>3, <2>9
    <3>2. \A d \in Caller : at'[d] = k <=> at[d] = k
      BY <2>4, <2>6, <2>9
    <3>3. \A d \in Caller : at'[d] = k => body'[d] = body[d]
      BY <2>1, <2>6
    <3> QED BY <1>0, <2>2, <3>1, <3>2, <3>3 DEF KeyInv
  <2> QED BY <2>7, <2>8, <2>9 DEF StoredInv
<1>6. ASSUME NEW c \in Caller, Commit(c) PROVE StoredInv'
  <2>1. at' = [at EXCEPT ![c] = "idle"] /\ at[c] = "set" /\ UNCHANGED <<shown, ram, nvs, body, raced>>
    BY <1>6 DEF Commit, CopyCurrent, displayVars, callerVars
  <2>2. \A d \in Caller, k \in Setting : at'[d] = k <=> at[d] = k
    BY <1>0, <2>1 DEF ApplyTypeOK
  <2>3. ApplyTypeOK'
    BY <1>0, <2>1, <2>2 DEF ApplyTypeOK
  <2>4. ASSUME NEW k \in Setting PROVE KeyInv(k)'
    BY <1>0, <2>1, <2>2 DEF KeyInv
  <2> QED BY <1>0, <2>1, <2>3, <2>4 DEF StoredInv
<1>7. ASSUME NEW c \in Caller, Redraw(c) PROVE StoredInv'
  BY <1>7, <1>a DEF Redraw, PostRedraw, applyVars
<1>8. CASE UNCHANGED vars
  BY <1>8, <1>a DEF vars, displayVars, callerVars, applyVars
<1> QED BY <1>1, <1>2, <1>3, <1>4, <1>5, <1>6, <1>7, <1>8 DEF ApplyNext, Transaction

\* The invariant of app_apply_set(), from which the next theorem follows.
THEOREM Stored == ApplySpec => []StoredInv
  BY InitStored, StepStored, PTL DEF ApplySpec

\* Whatever fails to be written, the display holds what the flash does, unless two
\* transactions set the key at once.
THEOREM DisplayHoldsStored == ApplySpec => []ShownIsStored
<1>1. StoredInv => ShownIsStored
  BY DEF StoredInv, KeyInv, ShownIsStored
<1> QED BY Stored, <1>1, PTL

-----------------------------------------------------------------------------

\* Every step of a transaction is one the display allows its clients, or leaves it alone.
LEMMA StepIsDisplayStep == StoredInv /\ [ApplyNext]_vars => [Next]_displayVars
<1> SUFFICES ASSUME StoredInv, [ApplyNext]_vars PROVE [Next]_displayVars
  OBVIOUS
<1>1. CASE DisplayStep
  BY <1>1 DEF DisplayStep, Next, Clients
<1>2. ASSUME NEW c \in Caller, Push(c) PROVE Next
  <2>1. at[c] \in Setting /\ body[c][at[c]] \in Value /\ Set(c, at[c], body[c][at[c]])
    BY <1>2, PushSets DEF StoredInv, Push
  <2> QED BY <2>1 DEF Next, Clients
<1>3. ASSUME NEW c \in Caller, Commit(c) PROVE [Next]_displayVars
  BY <1>3 DEF Commit, Next, Clients
<1>4. ASSUME NEW c \in Caller, Redraw(c) PROVE Next
  BY <1>4 DEF Redraw, Next, Clients
<1>5. ASSUME NEW c \in Caller, Begin(c) \/ Already(c) \/ Persist(c) \/ PersistFails(c)
      PROVE UNCHANGED displayVars
  BY <1>5 DEF Begin, Already, Persist, PersistFails
<1>6. CASE UNCHANGED vars
  BY <1>6 DEF vars
<1> QED BY <1>1, <1>2, <1>3, <1>4, <1>5, <1>6 DEF ApplyNext, Transaction

\* A photograph at rest is drawn with the settings that the transactions put in force.
THEOREM TransactionsReachGlass == ApplySpec => []GlassUpToDate
<1>1. Inv /\ Redrawn => GlassUpToDate
  BY DEF Redrawn, DrawnAsSet, GlassUpToDate, AtRest, Busy
<1>2. ApplyInit => Init
  BY DEF ApplyInit
<1>3. ApplySpec => [][Next]_displayVars
  BY Stored, StepIsDisplayStep, PTL DEF ApplySpec
<1> QED
  BY <1>1, <1>2, <1>3, InitInv, StepInv, InitRedrawn, StepRedrawn, PTL DEF ApplySpec

-----------------------------------------------------------------------------
(* The button. *)

Counted ==
    /\ wants["click"] \in Nat /\ wants["hold"] \in Nat /\ DOMAIN wants = Gesture
    /\ pressed \in Nat /\ answered \in Nat /\ unasked \in Nat /\ pin \in BOOLEAN /\ isDown \in BOOLEAN
    /\ adds \in Gesture \cup {NoGesture} /\ takes \in Gesture \cup {NoGesture}
    /\ addRead \in Nat \cup {Unread}

\* A task that changes a count has read it, and what it takes down is there.
HasRead ==
    /\ addRead # Unread => adds # NoGesture
    /\ takes # NoGesture => takeRead \in Nat \ {0}

Answered == Counted /\ HasRead /\ PressAnsweredOnce

LEMMA ButtonsInitAnswered == ButtonsInit => Answered
BY DEF ButtonsInit, Answered, Counted, HasRead, PressAnsweredOnce, Waiting, Gesture, NoGesture,
       Unread

\* A press is held, then one gesture, then counted.
LEMMA PollKeeps == ASSUME Answered, PollPin PROVE Answered'
<1> USE DEF Answered, Gesture, NoGesture
<1>1. Counted' /\ HasRead'
  BY DEF PollPin, loopVars, Counted, HasRead
<1>2. UNCHANGED <<wants, answered, unasked, overwritten>> /\ adds = NoGesture
  BY DEF PollPin, loopVars
<1>3. CASE Turned /\ pin
  <2>1. ~isDown /\ isDown' /\ heldPolls' = 0 /\ pressed' = pressed + 1
    BY <1>3 DEF PollPin, Turned
  <2>2. heldPolls' # LongPolls
    BY <2>1, ButtonsAssumption
  <2>3. ~longFired' /\ adds' = NoGesture
    BY <1>3, <2>1, <2>2, Zenon DEF PollPin, Click
  <2> QED
    BY <1>1, <1>2, <2>1, <2>3 DEF PressAnsweredOnce, Waiting, Counted
<1>4. CASE Turned /\ ~pin
  <2>1. isDown /\ ~isDown' /\ pressed' = pressed
    <3>1. isDown
      BY <1>4 DEF Turned, Counted
    <3> QED
      BY <1>4, <3>1, Zenon DEF PollPin
  <2>2. IF longFired THEN adds' = NoGesture ELSE adds' = "click"
    BY <1>4, <2>1 DEF PollPin, Click
  <2> QED
    BY <1>1, <1>2, <2>1, <2>2 DEF PressAnsweredOnce, Waiting, Counted
<1>5. CASE ~Turned
  <2>1. isDown' = isDown /\ pressed' = pressed
    BY <1>5 DEF PollPin
  <2>2. CASE isDown /\ ~longFired /\ heldPolls' = LongPolls
    <3>1. isDown'
      BY <2>1, <2>2
    <3>2. longFired'
      BY <1>5, <2>2, <3>1, Zenon DEF PollPin
    <3>3. adds' = "hold"
      BY <1>5, <2>2, <3>1, Zenon DEF PollPin, Click
    <3> QED
      BY <1>1, <1>2, <2>1, <2>2, <3>2, <3>3 DEF PressAnsweredOnce, Waiting, Counted
  <2>3. CASE ~(isDown /\ ~longFired /\ heldPolls' = LongPolls)
    <3>1. ~(isDown' /\ ~longFired /\ heldPolls' = LongPolls)
      BY <2>1, <2>3
    <3>2. longFired' <=> longFired
      BY <1>5, <3>1, Zenon DEF PollPin
    <3>3. adds' = NoGesture
      BY <1>5, <3>1, Zenon DEF PollPin, Click
    <3> QED
      BY <1>1, <1>2, <2>1, <3>2, <3>3 DEF PressAnsweredOnce, Waiting, Counted
  <2> QED
    BY <2>2, <2>3
<1> QED
  BY <1>3, <1>4, <1>5

LEMMA ButtonsNextAnswered == Answered /\ [ButtonsNext]_buttonVars => Answered'
<1> SUFFICES ASSUME Answered, [ButtonsNext]_buttonVars PROVE Answered'
  OBVIOUS
<1> USE DEF Answered, Counted, HasRead, PressAnsweredOnce, Waiting, Gesture, NoGesture, Unread,
            debounceVars, loopVars
<1>1. CASE UNCHANGED buttonVars
  BY <1>1 DEF buttonVars
<1>2. CASE Turn
  BY <1>2 DEF Turn
<1>3. CASE PollPin
  BY <1>3, PollKeeps
<1>4. CASE AddReads
  BY <1>4 DEF AddReads
<1>5. CASE AddWrites
  <2>1. /\ adds \in Gesture /\ addRead \in Nat /\ adds' = NoGesture /\ addRead' = Unread
        /\ wants' = [wants EXCEPT ![adds] = addRead + 1]
        /\ UNCHANGED <<pin, isDown, longFired, takes, takeRead, answered, pressed, unasked>>
    BY <1>5 DEF AddWrites
  <2>2. ~overwritten' => ~overwritten /\ wants[adds] = addRead
    BY <1>5, Zenon DEF AddWrites
  <2>3. Counted' /\ HasRead'
    BY <2>1
  <2>4. CASE adds = "click"
    <3>1. wants'["click"] = addRead + 1 /\ wants'["hold"] = wants["hold"]
      BY <2>1, <2>4
    <3> QED
      BY <2>1, <2>2, <2>3, <2>4, <3>1
  <2>5. CASE adds = "hold"
    <3>1. wants'["hold"] = addRead + 1 /\ wants'["click"] = wants["click"]
      BY <2>1, <2>5
    <3> QED
      BY <2>1, <2>2, <2>3, <2>5, <3>1
  <2> QED
    BY <2>1, <2>4, <2>5
<1>6. CASE TakeReads
  BY <1>6 DEF TakeReads
<1>7. CASE TakeWrites
  <2> DEFINE Held == (IF isDown /\ ~longFired THEN 1 ELSE 0) + (IF adds # NoGesture THEN 1 ELSE 0)
  <2>1. /\ takes \in Gesture /\ takeRead \in Nat \ {0} /\ takes' = NoGesture
        /\ wants' = [wants EXCEPT ![takes] = takeRead - 1] /\ answered' = answered + 1
        /\ UNCHANGED <<pin, isDown, longFired, adds, addRead, pressed, unasked>>
    BY <1>7 DEF TakeWrites
  <2>2. ~overwritten' => ~overwritten /\ wants[takes] = takeRead
    BY <1>7, Zenon DEF TakeWrites
  <2>3. Counted' /\ HasRead'
    BY <2>1
  <2>4. Held' = Held /\ Held \in Nat
    BY <2>1
  <2>5. /\ takes = "click" => wants'["click"] = takeRead - 1 /\ wants'["hold"] = wants["hold"]
        /\ takes = "hold" => wants'["hold"] = takeRead - 1 /\ wants'["click"] = wants["click"]
    BY <2>1
  <2>6. ~overwritten => pressed + unasked = answered + (Held + wants["click"] + wants["hold"])
    OBVIOUS
  <2> HIDE DEF Held
  <2>7. ~overwritten' =>
          pressed' + unasked' = answered' + (Held' + wants'["click"] + wants'["hold"])
    BY <2>1, <2>2, <2>4, <2>5, <2>6
  <2> QED
    BY <2>3, <2>7 DEF Held
<1> QED
  BY <1>1, <1>2, <1>3, <1>4, <1>5, <1>6, <1>7 DEF ButtonsNext, ButtonsTask, ServiceButtons

\* Every press is one gesture, answered or waiting, as is a button held at the start, but where
\* the tasks write over each other's count.
THEOREM PressesAnswered == ButtonsSpec => []PressAnsweredOnce
<1>1. Answered => PressAnsweredOnce
  BY DEF Answered
<1> QED
  BY <1>1, ButtonsInitAnswered, ButtonsNextAnswered, PTL DEF ButtonsSpec

-----------------------------------------------------------------------------
(* Pairing: the window for a code. *)

\* Between the first write of a window and the last.
Renewing == loopAt \in {"mixed", "deadline", "tries"}
Counting == claimAt \in {"lost", "store"}

CodeTyped ==
    /\ minted \in Nat /\ wrong \in Nat /\ typed \in Nat
    /\ tries \in 0..Attempts /\ read \in 0..Attempts
    /\ code \in {NoCode, Mixed, minted} /\ (minted = NoCode => code = NoCode)
    /\ code = Mixed => loopAt = "mixed"
    /\ loopAt = "mixed" => code # minted \/ minted = NoCode

\* A claim is under way only once there has been a code, and with guesses left to it.
ClaimHasTries ==
    /\ claimAt # "none" => minted # NoCode
    /\ claimAt \in {"compare", "lost", "store"} => tries > 0
    /\ claimAt = "store" => read > 0

\* A code that has given its token is the window's no longer, nor any claim's.
GivenIsGone ==
    /\ given => minted # NoCode /\ code # minted
    /\ claimAt = "won" => typed # NoCode /\ (typed = minted => ~given)

\* A window that opened beside no claim has spent one guess for each wrong one, ...
SpentAlone ==
    ~met =>
        /\ Renewing => claimAt = "none" /\ wrong = 0
        /\ ~Renewing =>
               /\ wrong + tries <= Attempts + (IF Counting THEN 1 ELSE 0)
               /\ claimAt = "store" => read = tries

\* ... and one that met a claim may have spent the old window's too, but the last.
SpentAtAll ==
    /\ wrong < 2 * Attempts
    /\ loopAt = "mixed" => wrong = 0
    /\ code = minted /\ loopAt \in {"deadline", "tries"} =>
           /\ claimAt \in {"none", "compare", "won"} => wrong + tries <= Attempts /\ wrong < Attempts
           /\ claimAt = "close" => wrong <= Attempts
           /\ claimAt = "lost" => wrong + tries <= Attempts + 1
           /\ claimAt = "store" => wrong + read <= Attempts + 1 /\ wrong <= Attempts
    /\ code = minted /\ ~Renewing =>
           /\ claimAt \in {"none", "compare", "won"} => wrong + tries < 2 * Attempts
           /\ claimAt = "lost" => wrong + tries <= 2 * Attempts
           /\ claimAt = "store" => wrong + read <= 2 * Attempts

\* A code nobody has used up is the window's, and what is left of its guesses is right.
CodeLives ==
    ~met /\ minted # NoCode /\ ~given /\ ~over =>
        /\ loopAt = "deadline" => code = minted
        /\ loopAt = "tries" => code = minted /\ ~lapsed
        /\ ~Renewing /\ wrong < Attempts =>
               /\ code = minted /\ tries > 0 /\ ~lapsed /\ claimAt # "close"
               /\ wrong + tries = Attempts + (IF Counting THEN 1 ELSE 0)
               /\ claimAt = "won" => typed = minted

Paired ==
    CodeTyped /\ ClaimHasTries /\ GivenIsGone /\ SpentAlone /\ SpentAtAll /\ CodeLives /\ ~again

LEMMA PairingInitPaired == PairingInit => Paired
<1> SUFFICES ASSUME PairingInit PROVE Paired
  OBVIOUS
<1>1. /\ minted = 0 /\ wrong = 0 /\ typed = 0 /\ tries = 0 /\ read = 0 /\ code = 0
      /\ loopAt = "top" /\ claimAt = "none" /\ given = FALSE /\ again = FALSE
  BY DEF PairingInit, NoCode
<1>2. CodeTyped
  BY <1>1, PairingAssumption DEF CodeTyped, NoCode, Mixed
<1>3. ClaimHasTries /\ GivenIsGone
  BY <1>1 DEF ClaimHasTries, GivenIsGone
<1>4. SpentAlone /\ SpentAtAll
  BY <1>1, PairingAssumption DEF SpentAlone, SpentAtAll, Renewing, Counting
<1>5. CodeLives
  BY <1>1 DEF CodeLives, NoCode
<1> QED
  BY <1>1, <1>2, <1>3, <1>4, <1>5 DEF Paired

\* The card, the panel and the hand on the button leave the window and the claim alone.
LEMMA OthersLeaveWindow ==
    ASSUME Paired, UNCHANGED <<codeVars, claimVars, minted, codeGhosts>>,
           loopAt' = loopAt \/ (~Renewing /\ ~Renewing')
    PROVE  Paired'
<1> USE DEF codeVars, claimVars, codeGhosts, Renewing, Paired
<1>1. CodeTyped' /\ ClaimHasTries' /\ GivenIsGone' /\ ~again'
  BY DEF CodeTyped, ClaimHasTries, GivenIsGone
<1>2. SpentAlone'
  BY DEF SpentAlone, Counting
<1>3. SpentAtAll'
  BY DEF SpentAtAll
<1>4. CodeLives'
  BY DEF CodeLives, Counting
<1> QED
  BY <1>1, <1>2, <1>3, <1>4

\* The code of the window is gone first.
LEMMA MintBeginsKeeps == ASSUME Paired, MintBegins PROVE Paired'
<1> USE PairingAssumption DEF Paired
<1>1. /\ loopAt = "mint" /\ loopAt' = "mixed" /\ wrong' = 0
      /\ code' = (IF code = NoCode THEN NoCode ELSE Mixed)
      /\ UNCHANGED <<claimAt, typed, read, lapsed, tries, minted, over, given, again>>
  BY DEF MintBegins, OpenStep, claimVars
<1>2. ~met' => claimAt = "none"
  BY Zenon DEF MintBegins, OpenStep, claimVars
<1>3. CodeTyped'
  BY <1>1, <1>2 DEF CodeTyped, NoCode, Mixed
<1>4. ClaimHasTries'
  BY <1>1, <1>2 DEF ClaimHasTries, CodeTyped, NoCode, IsOpen
<1>5. GivenIsGone'
  BY <1>1, <1>2 DEF GivenIsGone, CodeTyped, NoCode, Mixed
<1>6. SpentAlone'
  BY <1>1, <1>2 DEF SpentAlone, CodeTyped, ClaimHasTries, Renewing, Counting
<1>7. SpentAtAll'
  BY <1>1, <1>2 DEF SpentAtAll, CodeTyped, ClaimHasTries, Renewing, Mixed
<1>8. CodeLives'
  BY <1>1, <1>2 DEF CodeLives, SpentAlone, SpentAtAll, CodeTyped, ClaimHasTries, Renewing, Counting
<1>9. ~again'
  BY <1>1, <1>2
<1> QED
  BY <1>3, <1>4, <1>5, <1>6, <1>7, <1>8, <1>9

\* The new code is no claim's yet.
LEMMA MintEndsKeeps == ASSUME Paired, MintEnds PROVE Paired'
<1> USE PairingAssumption DEF Paired
<1>1. /\ loopAt = "mixed" /\ loopAt' = "deadline" /\ minted' = minted + 1 /\ code' = minted + 1
      /\ over' = FALSE /\ given' = FALSE
      /\ UNCHANGED <<claimAt, typed, read, lapsed, tries, wrong, again>>
  BY DEF MintEnds, OpenStep, claimVars
<1>2. ~met' => ~met /\ claimAt = "none"
  BY Zenon DEF MintEnds, OpenStep, claimVars
<1>3. CodeTyped'
  BY <1>1, <1>2 DEF CodeTyped, NoCode, Mixed
<1>4. ClaimHasTries'
  BY <1>1, <1>2 DEF ClaimHasTries, CodeTyped, NoCode, IsOpen
<1>5. GivenIsGone'
  BY <1>1, <1>2 DEF GivenIsGone, CodeTyped, NoCode, Mixed
<1>6. SpentAlone'
  BY <1>1, <1>2 DEF SpentAlone, CodeTyped, ClaimHasTries, Renewing, Counting
<1>7. SpentAtAll'
  BY <1>1, <1>2 DEF SpentAtAll, CodeTyped, ClaimHasTries, Renewing, Mixed
<1>8. CodeLives'
  BY <1>1, <1>2 DEF CodeLives, SpentAlone, SpentAtAll, CodeTyped, ClaimHasTries, Renewing, Counting
<1>9. ~again'
  BY <1>1, <1>2
<1> QED
  BY <1>3, <1>4, <1>5, <1>6, <1>7, <1>8, <1>9

LEMMA SetDeadlineKeeps == ASSUME Paired, SetDeadline PROVE Paired'
<1> USE PairingAssumption DEF Paired
<1>1. /\ loopAt = "deadline" /\ loopAt' = "tries" /\ lapsed' = FALSE
      /\ UNCHANGED <<claimAt, typed, read, code, tries, minted, over, wrong, given, again>>
  BY DEF SetDeadline, OpenStep, claimVars
<1>2. ~met' => ~met /\ claimAt = "none"
  BY Zenon DEF SetDeadline, OpenStep, claimVars
<1>3. CodeTyped'
  BY <1>1, <1>2 DEF CodeTyped, NoCode, Mixed
<1>4. ClaimHasTries'
  BY <1>1, <1>2 DEF ClaimHasTries, CodeTyped, NoCode, IsOpen
<1>5. GivenIsGone'
  BY <1>1, <1>2 DEF GivenIsGone, CodeTyped, NoCode, Mixed
<1>6. SpentAlone'
  BY <1>1, <1>2 DEF SpentAlone, CodeTyped, ClaimHasTries, Renewing, Counting
<1>7. SpentAtAll'
  BY <1>1, <1>2 DEF SpentAtAll, CodeTyped, ClaimHasTries, Renewing, Mixed
<1>8. CodeLives'
  BY <1>1, <1>2 DEF CodeLives, SpentAlone, SpentAtAll, CodeTyped, ClaimHasTries, Renewing, Counting
<1>9. ~again'
  BY <1>1, <1>2
<1> QED
  BY <1>3, <1>4, <1>5, <1>6, <1>7, <1>8, <1>9

\* Claims that met the opening spend from the new guesses as well.
LEMMA SetTriesKeeps == ASSUME Paired, SetTries PROVE Paired'
<1> USE PairingAssumption DEF Paired
<1>1. /\ loopAt = "tries" /\ loopAt' = "card" /\ tries' = Attempts
      /\ UNCHANGED <<claimAt, typed, read, code, lapsed, minted, over, wrong, given, again>>
  BY DEF SetTries, OpenStep, claimVars
<1>2. ~met' => ~met /\ claimAt = "none"
  BY Zenon DEF SetTries, OpenStep, claimVars
<1>3. CodeTyped'
  BY <1>1, <1>2 DEF CodeTyped, NoCode, Mixed
<1>4. ClaimHasTries'
  BY <1>1, <1>2 DEF ClaimHasTries, CodeTyped, NoCode, IsOpen
<1>5. GivenIsGone'
  BY <1>1, <1>2 DEF GivenIsGone, CodeTyped, NoCode, Mixed
<1>6. SpentAlone'
  BY <1>1, <1>2 DEF SpentAlone, CodeTyped, ClaimHasTries, Renewing, Counting
<1>7. SpentAtAll'
  BY <1>1, <1>2 DEF SpentAtAll, CodeTyped, ClaimHasTries, Renewing, Mixed
<1>8. CodeLives'
  BY <1>1, <1>2 DEF CodeLives, SpentAlone, SpentAtAll, CodeTyped, ClaimHasTries, Renewing, Counting
<1>9. ~again'
  BY <1>1, <1>2
<1> QED
  BY <1>3, <1>4, <1>5, <1>6, <1>7, <1>8, <1>9

LEMMA CodeLapsesKeeps == ASSUME Paired, CodeLapses PROVE Paired'
<1> USE PairingAssumption DEF Paired
<1>1. /\ loopAt \in {"top", "clearing"} /\ over' = TRUE
      /\ UNCHANGED <<loopAt, claimAt, typed, read, code, tries, minted, met, wrong, given, again>>
  BY DEF CodeLapses, Turns, claimVars
<1>2. CodeTyped'
  BY <1>1 DEF CodeTyped, NoCode, Mixed
<1>3. ClaimHasTries'
  BY <1>1 DEF ClaimHasTries, CodeTyped, NoCode, IsOpen
<1>4. GivenIsGone'
  BY <1>1 DEF GivenIsGone, CodeTyped, NoCode, Mixed
<1>5. SpentAlone'
  BY <1>1 DEF SpentAlone, CodeTyped, ClaimHasTries, Renewing, Counting
<1>6. SpentAtAll'
  BY <1>1 DEF SpentAtAll, CodeTyped, ClaimHasTries, Renewing, Mixed
<1>7. CodeLives'
  BY <1>1 DEF CodeLives, SpentAlone, SpentAtAll, CodeTyped, ClaimHasTries, Renewing, Counting
<1>8. ~again'
  BY <1>1
<1> QED
  BY <1>2, <1>3, <1>4, <1>5, <1>6, <1>7, <1>8

\* Nothing of a window outlives the power.
LEMMA PowerCutKeeps == ASSUME Paired, PowerCut PROVE Paired'
<1> USE PairingAssumption DEF Paired
<1>1. /\ loopAt' = "top" /\ claimAt' = "none" /\ typed' = NoCode /\ read' = 0 /\ code' = NoCode
      /\ tries' = 0 /\ minted' = NoCode /\ wrong' = 0 /\ given' = FALSE /\ again' = again
  BY DEF PowerCut, Closed
<1>2. CodeTyped'
  BY <1>1 DEF CodeTyped, NoCode, Mixed
<1>3. ClaimHasTries'
  BY <1>1 DEF ClaimHasTries, CodeTyped, NoCode, IsOpen
<1>4. GivenIsGone'
  BY <1>1 DEF GivenIsGone, CodeTyped, NoCode, Mixed
<1>5. SpentAlone'
  BY <1>1 DEF SpentAlone, CodeTyped, ClaimHasTries, Renewing, Counting
<1>6. SpentAtAll'
  BY <1>1 DEF SpentAtAll, CodeTyped, ClaimHasTries, Renewing, Mixed
<1>7. CodeLives'
  BY <1>1 DEF CodeLives, SpentAlone, SpentAtAll, CodeTyped, ClaimHasTries, Renewing, Counting
<1>8. ~again'
  BY <1>1
<1> QED
  BY <1>2, <1>3, <1>4, <1>5, <1>6, <1>7, <1>8

LEMMA ClaimTestsKeeps == ASSUME Paired, NEW c \in 0..minted, ClaimTests(c) PROVE Paired'
<1> USE PairingAssumption DEF Paired
<1>1. /\ IsOpen /\ claimAt = "none" /\ claimAt' = (IF lapsed THEN "close" ELSE "compare") /\ typed' = c
      /\ UNCHANGED <<loopAt, read, code, lapsed, tries, minted, over, wrong, given, again>>
  BY DEF ClaimTests, ClaimStep, codeVars
<1>2. ~met' => ~met /\ ~Opening
  BY Zenon DEF ClaimTests, ClaimStep, codeVars
<1>3. CodeTyped'
  BY <1>1, <1>2 DEF CodeTyped, NoCode, Mixed, IsOpen
<1>4. ClaimHasTries'
  BY <1>1, <1>2 DEF ClaimHasTries, CodeTyped, NoCode, IsOpen
<1>5. GivenIsGone'
  BY <1>1, <1>2 DEF GivenIsGone, CodeTyped, NoCode, Mixed, IsOpen
<1>6. SpentAlone'
  BY <1>1, <1>2 DEF SpentAlone, CodeTyped, ClaimHasTries, Renewing, Counting, Opening, IsOpen
<1>7. SpentAtAll'
  BY <1>1, <1>2 DEF SpentAtAll, CodeTyped, ClaimHasTries, Renewing, Mixed, IsOpen
<1>8. CodeLives'
  BY <1>1, <1>2 DEF CodeLives, SpentAlone, SpentAtAll, CodeTyped, ClaimHasTries, Renewing, Counting, Opening, IsOpen
<1>9. ~again'
  BY <1>1, <1>2
<1> QED
  BY <1>3, <1>4, <1>5, <1>6, <1>7, <1>8, <1>9

\* A wrong guess is counted while there are tries left.
LEMMA CompareKeeps == ASSUME Paired, Compare PROVE Paired'
<1> USE PairingAssumption DEF Paired
<1>1. /\ claimAt = "compare"
      /\ claimAt' = (IF typed = code /\ typed # NoCode THEN "won" ELSE "lost")
      /\ wrong' = (IF typed # code /\ code = minted THEN wrong + 1 ELSE wrong)
      /\ UNCHANGED <<loopAt, typed, read, code, lapsed, tries, minted, over, met, given, again>>
  BY DEF Compare, ClaimStep, codeVars
<1>2. CodeTyped'
  BY <1>1 DEF CodeTyped, NoCode, Mixed
<1>3. ClaimHasTries'
  BY <1>1 DEF ClaimHasTries, CodeTyped, NoCode, IsOpen
<1>4. GivenIsGone'
  BY <1>1 DEF GivenIsGone, CodeTyped, NoCode, Mixed
<1>5. SpentAlone'
  BY <1>1 DEF SpentAlone, CodeTyped, ClaimHasTries, Renewing, Counting
<1>6. SpentAtAll'
  BY <1>1 DEF SpentAtAll, CodeTyped, ClaimHasTries, Renewing, Mixed
<1>7. CodeLives'
  BY <1>1 DEF CodeLives, SpentAlone, SpentAtAll, CodeTyped, ClaimHasTries, Renewing, Counting
<1>8. ~again'
  BY <1>1
<1> QED
  BY <1>2, <1>3, <1>4, <1>5, <1>6, <1>7, <1>8

LEMMA ReadTriesKeeps == ASSUME Paired, ReadTries PROVE Paired'
<1> USE PairingAssumption DEF Paired
<1>1. /\ claimAt = "lost" /\ claimAt' = "store" /\ read' = tries
      /\ UNCHANGED <<loopAt, typed, code, lapsed, tries, minted, over, met, wrong, given, again>>
  BY DEF ReadTries, ClaimStep, codeVars
<1>2. CodeTyped'
  BY <1>1 DEF CodeTyped, NoCode, Mixed
<1>3. ClaimHasTries'
  BY <1>1 DEF ClaimHasTries, CodeTyped, NoCode, IsOpen
<1>4. GivenIsGone'
  BY <1>1 DEF GivenIsGone, CodeTyped, NoCode, Mixed
<1>5. SpentAlone'
  BY <1>1 DEF SpentAlone, CodeTyped, ClaimHasTries, Renewing, Counting
<1>6. SpentAtAll'
  BY <1>1 DEF SpentAtAll, CodeTyped, ClaimHasTries, Renewing, Mixed
<1>7. CodeLives'
  BY <1>1 DEF CodeLives, SpentAlone, SpentAtAll, CodeTyped, ClaimHasTries, Renewing, Counting
<1>8. ~again'
  BY <1>1
<1> QED
  BY <1>2, <1>3, <1>4, <1>5, <1>6, <1>7, <1>8

\* A count that is out of date is still one of this window or the last.
LEMMA StoreTriesKeeps == ASSUME Paired, StoreTries PROVE Paired'
<1> USE PairingAssumption DEF Paired
<1>1. /\ claimAt = "store" /\ claimAt' = (IF read <= 1 THEN "close" ELSE "none")
      /\ tries' = read - 1 /\ read' = 0 /\ typed' = NoCode
      /\ UNCHANGED <<loopAt, code, lapsed, minted, over, met, wrong, given, again>>
  BY DEF StoreTries, ClaimStep
<1>2. CodeTyped'
  BY <1>1 DEF CodeTyped, ClaimHasTries, NoCode, Mixed
<1>3. ClaimHasTries'
  BY <1>1 DEF ClaimHasTries, CodeTyped, NoCode, IsOpen
<1>4. GivenIsGone'
  BY <1>1 DEF GivenIsGone, CodeTyped, NoCode, Mixed
<1>5. SpentAlone'
  BY <1>1 DEF SpentAlone, CodeTyped, ClaimHasTries, Renewing, Counting
<1>6. SpentAtAll'
  BY <1>1 DEF SpentAtAll, CodeTyped, ClaimHasTries, Renewing, Mixed
<1>7. CodeLives'
  BY <1>1 DEF CodeLives, SpentAlone, SpentAtAll, CodeTyped, ClaimHasTries, Renewing, Counting
<1>8. ~again'
  BY <1>1
<1> QED
  BY <1>2, <1>3, <1>4, <1>5, <1>6, <1>7, <1>8

LEMMA CloseWindowKeeps == ASSUME Paired, CloseWindow PROVE Paired'
<1> USE PairingAssumption DEF Paired
<1>1. /\ claimAt = "close" /\ claimAt' = "none" /\ code' = NoCode /\ lapsed' = TRUE /\ tries' = 0
      /\ typed' = NoCode
      /\ UNCHANGED <<loopAt, read, minted, over, met, wrong, given, again>>
  BY DEF CloseWindow, ClaimStep, Closed
<1>2. CodeTyped'
  BY <1>1 DEF CodeTyped, NoCode, Mixed
<1>3. ClaimHasTries'
  BY <1>1 DEF ClaimHasTries, CodeTyped, NoCode, IsOpen
<1>4. GivenIsGone'
  BY <1>1 DEF GivenIsGone, CodeTyped, NoCode, Mixed
<1>5. SpentAlone'
  BY <1>1 DEF SpentAlone, CodeTyped, ClaimHasTries, Renewing, Counting
<1>6. SpentAtAll'
  BY <1>1 DEF SpentAtAll, CodeTyped, ClaimHasTries, Renewing, Mixed
<1>7. CodeLives'
  BY <1>1 DEF CodeLives, SpentAlone, SpentAtAll, CodeTyped, ClaimHasTries, Renewing, Counting
<1>8. ~again'
  BY <1>1
<1> QED
  BY <1>2, <1>3, <1>4, <1>5, <1>6, <1>7, <1>8

\* The code that wins is closed with the same step.
LEMMA WinsKeeps == ASSUME Paired, Wins PROVE Paired'
<1> USE PairingAssumption DEF Paired
<1>1. /\ claimAt = "won" /\ claimAt' = "none" /\ code' = NoCode /\ tries' = 0 /\ typed' = NoCode
      /\ UNCHANGED <<loopAt, read, minted, over, met, wrong>>
  BY DEF Wins, ClaimStep, Closed
<1>2. (given' <=> given \/ typed = minted) /\ (again' <=> again \/ (given /\ typed = minted))
  BY Zenon DEF Wins, ClaimStep, Closed
<1>3. CodeTyped'
  BY <1>1, <1>2 DEF CodeTyped, NoCode, Mixed
<1>4. ClaimHasTries'
  BY <1>1, <1>2 DEF ClaimHasTries, CodeTyped, NoCode, IsOpen
<1>5. GivenIsGone'
  BY <1>1, <1>2 DEF GivenIsGone, CodeTyped, NoCode, Mixed
<1>6. SpentAlone'
  BY <1>1, <1>2 DEF SpentAlone, CodeTyped, ClaimHasTries, Renewing, Counting
<1>7. SpentAtAll'
  BY <1>1, <1>2 DEF SpentAtAll, CodeTyped, ClaimHasTries, Renewing, Mixed
<1>8. CodeLives'
  BY <1>1, <1>2 DEF CodeLives, SpentAlone, SpentAtAll, CodeTyped, ClaimHasTries, Renewing, Counting
<1>9. ~again'
  BY <1>1, <1>2 DEF GivenIsGone
<1> QED
  BY <1>3, <1>4, <1>5, <1>6, <1>7, <1>8, <1>9

LEMMA PairingNextPaired == Paired /\ [PairingNext]_pairVars => Paired'
<1> SUFFICES ASSUME Paired, [PairingNext]_pairVars PROVE Paired'
  OBVIOUS
<1>1. CASE UNCHANGED pairVars
  BY <1>1, OthersLeaveWindow DEF pairVars
<1>2. CASE ServeHold \/ ServeFirstCard
  <2>1. /\ loopAt' = "mint" /\ loopAt = "top"
        /\ UNCHANGED <<codeVars, claimVars, minted, codeGhosts>>
    BY <1>2 DEF ServeHold, ServeFirstCard
  <2> QED
    BY <2>1, OthersLeaveWindow DEF Renewing
<1>3. CASE AskForCard \/ ClearCard \/ WaitEnds
  <2>1. /\ loopAt' \in {"top", "clearing"} /\ loopAt \in {"top", "card", "clearing"}
        /\ UNCHANGED <<codeVars, claimVars, minted, codeGhosts>>
    BY <1>3 DEF AskForCard, ClearCard, WaitEnds
  <2> QED
    BY <2>1, OthersLeaveWindow DEF Renewing
<1>4. CASE TakesRequest \/ Renders \/ SomebodyDraws
  BY <1>4, OthersLeaveWindow DEF TakesRequest, Renders, SomebodyDraws, Shows
<1>5. CASE CardComesDue \/ HoldButton
  BY <1>5, OthersLeaveWindow DEF CardComesDue, HoldButton, Turns, codeVars, codeGhosts
<1> QED
  BY <1>1, <1>2, <1>3, <1>4, <1>5, MintBeginsKeeps, MintEndsKeeps, SetDeadlineKeeps, SetTriesKeeps,
     CodeLapsesKeeps, PowerCutKeeps, ClaimTestsKeeps, CompareKeeps, ReadTriesKeeps,
     StoreTriesKeeps, CloseWindowKeeps, WinsKeeps
     DEF PairingNext, MainLoop, OpenWindow, Claim

\* The code on the card works for whoever types it first, and for nobody after, however the
\* claims and the openings of windows come between one another.
THEOREM CodeIsSpentOnce == PairingSpec => []CodeWorksOnce
<1>1. Paired => Works
  <2> SUFFICES ASSUME Paired, minted # NoCode, loopAt \in {"top", "clearing"}, ~given, ~over,
                      ~met, wrong < Attempts
               PROVE  code = minted /\ tries > 0
    BY PairingAssumption DEF Works, Paired, CodeTyped
  <2> QED
    BY DEF Paired, CodeLives, Renewing
<1>2. Paired => IsSpent
  <2> SUFFICES ASSUME Paired, wrong > Attempts PROVE met
    BY DEF Paired, SpentAtAll, IsSpent
  <2>1. ~met => wrong <= Attempts
    <3>1. CASE Renewing
      BY <3>1, PairingAssumption DEF Paired, SpentAlone
    <3>2. CASE ~Renewing
      BY <3>2, PairingAssumption DEF Paired, SpentAlone, CodeTyped, ClaimHasTries, Counting
    <3> QED
      BY <3>1, <3>2
  <2> QED
    BY <2>1, PairingAssumption DEF Paired, CodeTyped
<1> QED
  BY <1>1, <1>2, PairingInitPaired, PairingNextPaired, PTL DEF PairingSpec, CodeWorksOnce

=============================================================================

----------------------------- MODULE Ota_proofs -----------------------------
(***************************************************************************)
(* Theorems about Ota, for every set of images, every signature and board,  *)
(* and every bound on events: one writer at a time, and one slot that is     *)
(* known to work.                                                           *)
(***************************************************************************)
EXTENDS Ota, TLAPS

ImgState == {"undefined", "new", "pending", "valid", "invalid"}
Place == {"idle", "judge", "begin", "write", "end", "verify", "choose", "wait", "lock", "go"}

\* The part of the type the arguments below rest on.
Typed ==
    /\ img \in [Slot -> Image \cup {None}]
    /\ state \in [Slot -> ImgState]
    /\ boot \in Slot /\ running \in Slot
    /\ task \in [Task -> Place]
    /\ body \in [Transport -> Image]
    /\ release \in Image

Good(s, st, im) == st[s] = "valid" /\ im[s] \in Works

\* The running slot is known to work, and what boots next is on trial if it is not the
\* running one; or the running slot is on trial, the other known to work, nobody writes.
Footing ==
    \/ /\ Good(running, state, img) /\ ~trial
       /\ boot = running \/ state[boot] \in {"new", "pending"}
    \/ /\ state[running] = "pending" /\ boot = running /\ trial
       /\ Good(Other(running), state, img)
       /\ task["pull"] = "idle"
       /\ task["push"] \in {"idle", "begin", "wait", "lock", "go"}

RolledBackOnTrial == task["main"] # "idle" => trial
ReachedNetwork == sta => img[running] \in Works

Kept == Typed /\ Footing /\ RolledBackOnTrial /\ ReachedNetwork

\* What the bootloader may be started with.
Bootable(b, st) ==
    /\ b \in Slot /\ st \in [Slot -> ImgState]
    /\ \/ Good(b, st, img)
       \/ st[b] \in {"new", "pending"} /\ Good(Other(b), st, img)

LEMMA Slots == /\ \A s \in Slot : Other(s) \in Slot /\ Other(s) # s /\ Other(Other(s)) = s
               /\ \A s, r \in Slot : r # s => r = Other(s)
BY DEF Slot, Other

LEMMA Works_ == Works \subseteq Image /\ None \notin Image
BY ImagesAssumption

LEMMA InitKept == Init => Kept
BY ImagesAssumption, Slots DEF Init, Kept, Typed, Footing, RolledBackOnTrial, ReachedNetwork, Good, Idle,
   Task, Transport, Slot, ImgState, Place

LEMMA BootsKept ==
    ASSUME Kept, NEW STATE b, NEW STATE st, Bootable(b, st), Boots(b, st)
    PROVE  Kept'
<1> USE DEF Bootable, Good
<1> DEFINE aborted == st[b] = "pending"
           chosen  == IF aborted THEN Other(b) ELSE b
           states  == IF aborted THEN [st EXCEPT ![b] = "invalid"] ELSE st
<1>1. /\ boot' = chosen
      /\ state' = IF states[chosen] = "new" THEN [states EXCEPT ![chosen] = "pending"] ELSE states
      /\ running' = IF img[chosen] # None THEN chosen ELSE Other(chosen)
      /\ trial' = (state'[running'] = "pending")
      /\ ~sta' /\ img' = img /\ body' = body /\ release' = release
      /\ task' = [t \in Task |-> "idle"]
  BY DEF Boots, Idle
<1>2. /\ b \in Slot /\ chosen \in Slot /\ states \in [Slot -> ImgState]
      /\ state' \in [Slot -> ImgState] /\ running' \in Slot /\ boot' \in Slot
  BY <1>1, Slots DEF ImgState
<1>3. task' \in [Task -> Place] /\ task'["pull"] = "idle" /\ task'["push"] = "idle" /\ task'["main"] = "idle"
  BY <1>1 DEF Task, Transport, Place
<1>4. Typed'
  BY <1>1, <1>2, <1>3 DEF Kept, Typed
<1>5. img[b] # None \/ Good(Other(b), st, img)
  BY Works_
<1>6. CASE Good(b, st, img)
  <2>1. chosen = b /\ state' = st /\ running' = b
    BY <1>1, <1>2, <1>5, <1>6, Works_
  <2> QED
    BY <1>1, <1>3, <1>4, <1>6, <2>1 DEF Kept, Footing, RolledBackOnTrial, ReachedNetwork
<1>7. CASE st[b] = "pending" /\ Good(Other(b), st, img)
  <2>1. Other(b) \in Slot /\ Other(b) # b
    BY <1>2, Slots
  <2>2. states[Other(b)] = "valid"
    BY <1>2, <1>7, <2>1
  <2>3. state' = states /\ running' = Other(b)
    BY <1>1, <1>7, <2>2, Works_
  <2> QED
    BY <1>1, <1>3, <1>4, <1>7, <2>2, <2>3 DEF Kept, Footing, RolledBackOnTrial, ReachedNetwork
<1>8. CASE st[b] = "new" /\ Good(Other(b), st, img)
  <2>1. Other(b) \in Slot /\ Other(b) # b /\ Other(Other(b)) = b
    BY <1>2, Slots
  <2>2. state' = [st EXCEPT ![b] = "pending"] /\ boot' = b
    BY <1>1, <1>8
  <2>3. state'[b] = "pending" /\ state'[Other(b)] = "valid"
    BY <1>2, <1>8, <2>1, <2>2
  <2>4. CASE img[b] = None
    <3>1. running' = Other(b)
      BY <1>1, <1>8, <2>4
    <3> QED
      BY <1>1, <1>3, <1>4, <1>8, <2>2, <2>3, <3>1 DEF Kept, Footing, RolledBackOnTrial, ReachedNetwork
  <2>5. CASE img[b] # None
    <3>1. running' = b
      BY <1>1, <1>8, <2>5
    <3> QED
      BY <1>1, <1>3, <1>4, <1>8, <2>2, <2>3, <3>1 DEF Kept, Footing, RolledBackOnTrial, ReachedNetwork
  <2> QED BY <2>4, <2>5
<1> QED BY <1>6, <1>7, <1>8

\* One task's step moves that task alone.
LEMMA AtMoves ==
    ASSUME task \in [Task -> Place], NEW t \in Task, NEW here, NEW STATE there, there \in Place, At(t, here, there)
    PROVE  /\ task' \in [Task -> Place]
           /\ task[t] = here /\ task'[t] = there
           /\ \A u \in Task : u # t => task'[u] = task[u]
BY DEF At

\* A step of the writer: the slot that runs is known to work, or nothing is written.
LEMMA WriteKept == ASSUME Kept, NEW t \in Transport, Write(t) PROVE Kept'
<1> USE DEF Kept, Good
<1>0. t \in Task /\ (t = "push" \/ t = "pull") /\ Other(running) \in Slot /\ Other(running) # running
      /\ "push" \in Task /\ "pull" \in Task /\ "main" \in Task
  BY Slots DEF Typed, Task, Transport
<1>1. CASE BeginRefused(t)
  <2>1. Typed' /\ task'["main"] = task["main"] /\ (\A u \in Task : task'[u] \in {task[u], "idle"})
    BY <1>0, <1>1 DEF BeginRefused, Typed, Place, bootVars, flashVars, writerVars, givenVars
  <2> QED
    BY <1>0, <1>1, <2>1 DEF BeginRefused, Footing, RolledBackOnTrial, ReachedNetwork, bootVars, flashVars
<1>2. SUFFICES ASSUME ~BeginRefused(t), task[t] \in {"begin", "write", "end", "verify", "choose"},
                      task[t] = "begin" => state[running] # "pending"
               PROVE  Kept'
  BY <1>1 DEF Write, Begin, Stops, Finish, End, Verify, Choose, At
<1>3. state[running] = "valid" /\ img[running] \in Works /\ ~trial
      /\ (boot = running \/ state[boot] \in {"new", "pending"})
  BY <1>0, <1>2 DEF Footing
<1>4. ASSUME Typed', task'["main"] = task["main"], running' = running, trial' = trial, sta' = sta,
             img'[running] = img[running], state'[running] = state[running],
             boot' = running \/ state'[boot'] \in {"new", "pending"}
      PROVE  Kept'
  BY <1>3, <1>4 DEF Footing, RolledBackOnTrial, ReachedNetwork
<1>5. CASE Begin(t)
  <2>1. task' \in [Task -> Place] /\ task'["main"] = task["main"]
    BY <1>0, <1>5, AtMoves DEF Begin, Typed, Place, Transport
  <2>2. img' \in [Slot -> Image \cup {None}] /\ img'[running] = img[running]
    BY <1>0, <1>5 DEF Begin, Typed
  <2> QED BY <1>3, <1>4, <1>5, <2>1, <2>2 DEF Begin, Typed, bootVars
<1>6. CASE Stops(t)
  <2>1. task' \in [Task -> Place] /\ task'["main"] = task["main"]
    BY <1>0, <1>6, AtMoves DEF Stops, Typed, Place, Transport
  <2> QED BY <1>3, <1>4, <1>6, <2>1 DEF Stops, Typed, bootVars, flashVars
<1>7. CASE Finish(t)
  <2>1. task' \in [Task -> Place] /\ task'["main"] = task["main"]
    BY <1>0, <1>7, AtMoves DEF Finish, Typed, Place, Transport
  <2>2. img' \in [Slot -> Image \cup {None}] /\ img'[running] = img[running]
    BY <1>0, <1>7 DEF Finish, Typed
  <2> QED BY <1>3, <1>4, <1>7, <2>1, <2>2 DEF Finish, Typed, bootVars
<1>8. CASE End(t)
  <2>1. task' \in [Task -> Place] /\ task'["main"] = task["main"]
    BY <1>0, <1>8, AtMoves DEF End, Typed, Place, Transport
  <2> QED BY <1>3, <1>4, <1>8, <2>1 DEF End, Typed, bootVars, flashVars
<1>9. CASE Verify(t)
  <2>1. task' \in [Task -> Place] /\ task'["main"] = task["main"]
    BY <1>0, <1>9, AtMoves DEF Verify, Typed, Place, Transport
  <2> QED BY <1>3, <1>4, <1>9, <2>1 DEF Verify, Typed, bootVars, flashVars
<1>10. CASE Choose(t)
  <2>1. task' \in [Task -> Place] /\ task'["main"] = task["main"]
    BY <1>0, <1>10, AtMoves DEF Choose, Typed, Place, Transport
  <2>2. CASE boot' = Other(running) /\ state' = [state EXCEPT ![Other(running)] = "new"]
    <3>1. state' \in [Slot -> ImgState] /\ state'[running] = state[running] /\ state'[boot'] = "new"
      BY <1>0, <2>2 DEF Typed, ImgState
    <3> QED BY <1>0, <1>3, <1>4, <1>10, <2>1, <2>2, <3>1 DEF Choose, Typed, bootVars
  <2>3. CASE UNCHANGED <<boot, state>>
    BY <1>3, <1>4, <1>10, <2>1, <2>3 DEF Choose, Typed, bootVars
  <2> QED BY <1>10, <2>2, <2>3 DEF Choose
<1> QED BY <1>2, <1>5, <1>6, <1>7, <1>8, <1>9, <1>10 DEF Write, BeginRefused

LEMMA PushKept == Kept /\ Push => Kept'
<1> SUFFICES ASSUME Kept, Push PROVE Kept'
  OBVIOUS
<1> USE DEF Kept, bootVars, flashVars
<1>0. "push" \in Task /\ "pull" \in Task /\ "main" \in Task /\ "push" \in Transport
  BY DEF Task, Transport
<1>1. CASE PushStart
  <2>1. PICK i \in Image : body' = [body EXCEPT !["push"] = i]
    BY <1>1 DEF PushStart
  <2>2. Typed'
    BY <1>0, <1>1, <2>1 DEF PushStart, Typed, Place
  <2> QED BY <1>0, <1>1, <2>2 DEF PushStart, Typed, Footing, RolledBackOnTrial, ReachedNetwork, Good
<1>2. CASE UsbDrive
  <2>2. Typed'
    BY <1>0, <1>2 DEF UsbDrive, Typed, Place
  <2> QED BY <1>0, <1>2, <2>2 DEF UsbDrive, Typed, Footing, RolledBackOnTrial, ReachedNetwork, Good
<1>3. CASE Check
  <2>2. Typed'
    BY <1>0, <1>3, AtMoves DEF Check, PullStart, Typed, Place
  <2>3. task'["main"] = task["main"] /\ ~trial
    BY <1>0, <1>3, AtMoves DEF Check, PullStart, Typed, Place
  <2> QED BY <1>3, <2>2, <2>3 DEF Check, PullStart, Typed, Footing, RolledBackOnTrial, ReachedNetwork, Good
<1> QED BY <1>1, <1>2, <1>3 DEF Push

LEMMA PullKept == Kept /\ (Pull \/ AutomaticCheck) => Kept'
<1> SUFFICES ASSUME Kept, Pull \/ AutomaticCheck PROVE Kept'
  OBVIOUS
<1> USE DEF Kept, bootVars, flashVars
<1>0. "push" \in Task /\ "pull" \in Task /\ "main" \in Task /\ "pull" \in Transport
  BY DEF Task, Transport
<1>1. ~trial /\ task' \in [Task -> Place] /\ task'["main"] = task["main"]
  <2>1. CASE Judge \/ CheckEnds
    BY <1>0, <2>1, AtMoves DEF Judge, CheckEnds, Typed, Place, Footing, At
  <2>2. CASE AutomaticCheck
    BY <1>0, <2>2, AtMoves DEF AutomaticCheck, PullStart, Typed, Place
  <2> QED BY <2>1, <2>2 DEF Pull
<1>2. Typed'
  BY <1>0, <1>1 DEF Pull, AutomaticCheck, PullStart, Judge, CheckEnds, Typed
<1> QED BY <1>1, <1>2 DEF Pull, AutomaticCheck, PullStart, Judge, CheckEnds, Footing, RolledBackOnTrial, ReachedNetwork, Good

LEMMA VerdictKept == Kept /\ Verdict => Kept'
<1> SUFFICES ASSUME Kept, Verdict PROVE Kept'
  OBVIOUS
<1>0. "push" \in Task /\ "pull" \in Task /\ "main" \in Task
  BY DEF Task, Transport
<1>1. CASE MarkValid
  <2>1. Typed' /\ state'[running] = "valid"
    BY <1>1 DEF MarkValid, Kept, Typed, ImgState, Good
  <2>2. img[running] \in Works /\ boot = running
    BY <1>1 DEF MarkValid, Earned, Kept, ReachedNetwork, Footing
  <2> QED BY <1>1, <2>1, <2>2 DEF MarkValid, MainIdle, Kept, Footing, RolledBackOnTrial, ReachedNetwork, Good
<1>2. CASE GiveUp
  <2>1. Typed' /\ trial' = trial /\ trial
        /\ task'["push"] = task["push"] /\ task'["pull"] = task["pull"]
    BY <1>0, <1>2, AtMoves DEF GiveUp, Kept, Typed, Place, bootVars, flashVars
  <2> QED BY <1>2, <2>1 DEF GiveUp, Kept, Footing, RolledBackOnTrial, ReachedNetwork, Good, bootVars, flashVars
<1>3. CASE RollBack
  <2>1. trial /\ state[running] = "pending" /\ Good(Other(running), state, img) /\ img[Other(running)] # None
    BY <1>3, Works_ DEF RollBack, Kept, RolledBackOnTrial, Footing, Good
  <2> DEFINE st == [state EXCEPT ![running] = "invalid"]
  <2>2. Bootable(Other(running), st)
    BY <2>1, Slots DEF Bootable, Good, Kept, Typed, ImgState
  <2>3. Boots(Other(running), st)
    BY <1>3, <2>1 DEF RollBack
  <2> QED
    <3> HIDE DEF st
    <3> QED BY <2>2, <2>3, BootsKept
<1> QED BY <1>1, <1>2, <1>3 DEF Verdict

LEMMA BootableAsIs == Kept => Bootable(boot, state)
BY Slots DEF Kept, Typed, Footing, Bootable, Good

LEMMA QuiesceKept == Kept /\ Quiesce => Kept'
<1> SUFFICES ASSUME Kept, NEW t \in Task, Waited(t) \/ TakeLock(t) PROVE Kept'
  BY DEF Quiesce
<1> USE DEF Kept
<1>0. "push" \in Task /\ "pull" \in Task /\ "main" \in Task
  BY DEF Task, Transport
<1>1. /\ task' \in [Task -> Place] /\ task[t] \in {"wait", "lock"} /\ task'[t] \in {"lock", "go"}
      /\ \A u \in Task : u # t => task'[u] = task[u]
  BY AtMoves DEF Waited, TakeLock, Typed, Place
<1>2. UNCHANGED <<img, state, boot, running, trial, sta, body, release>>
  BY DEF Waited, TakeLock, bootVars, flashVars
<1>3. Typed'
  BY <1>1, <1>2 DEF Typed
<1> QED BY <1>0, <1>1, <1>2, <1>3 DEF Footing, RolledBackOnTrial, ReachedNetwork, Good

LEMMA SurroundingsKept == Kept /\ (Surroundings \/ UNCHANGED vars) => Kept'
<1> SUFFICES ASSUME Kept, Surroundings \/ UNCHANGED vars PROVE Kept'
  OBVIOUS
<1>1. CASE PowerCut \/ Panics
  BY <1>1, BootsKept, BootableAsIs DEF PowerCut, Panics
<1>2. CASE Link
  BY <1>2 DEF Link, Kept, Typed, Footing, RolledBackOnTrial, ReachedNetwork, Good, bootVars, flashVars
<1>3. CASE Publish
  BY <1>3 DEF Publish, Kept, Typed, Footing, RolledBackOnTrial, ReachedNetwork, Good, bootVars, flashVars
<1>4. CASE TimePasses \/ RefreshStarts \/ RefreshEnds \/ UNCHANGED vars
  <2>1. UNCHANGED <<img, state, boot, running, trial, sta, task, body, release>>
    BY <1>4 DEF TimePasses, RefreshStarts, RefreshEnds, vars, bootVars, flashVars
  <2> QED BY <2>1 DEF Kept, Typed, Footing, RolledBackOnTrial, ReachedNetwork, Good
<1> QED BY <1>1, <1>2, <1>3, <1>4 DEF Surroundings

LEMMA StepKept == Kept /\ [Next]_vars => Kept'
<1> SUFFICES ASSUME Kept, [Next]_vars PROVE Kept'
  OBVIOUS
<1>1. ASSUME NEW t \in Transport, Restart(t) PROVE Kept'
  BY <1>1, BootsKept, BootableAsIs DEF Restart
<1> QED BY <1>1, WriteKept, PushKept, PullKept, VerdictKept, QuiesceKept, SurroundingsKept DEF Next

\* Whatever is uploaded or released and wherever the power goes, one slot holds a valid
\* image that has reached the network (app_ota_tick(), the bootloader).
THEOREM AWorkingImage == Spec => []WorkingImage
<1>1. Kept => WorkingImage
  BY Slots DEF Kept, Typed, Footing, Good, WorkingImage
<1> QED BY <1>1, InitKept, StepKept, PTL DEF Spec

-----------------------------------------------------------------------------
(* The writer. *)

UploadHoldsWriter == task["push"] = "write" => writing /\ task["pull"] = "idle"

Writing == {"write", "end", "verify", "choose"}
Restarting == {"wait", "lock", "go"}

\* Until a download takes the writer from an upload: a download that writes or restarts has
\* it alone, what is about to be chosen was checked, and what was chosen is not written over.
Alone ==
    /\ task["pull"] \in Writing \cup Restarting => task["push"] \notin Writing
    /\ \A t \in Transport : task[t] = "choose" => img[Other(running)] \in Signed \cap Ours
    /\ state[Other(running)] \in {"new", "pending"} =>
          /\ boot = Other(running)
          /\ \/ task["pull"] \in Restarting
             \/ task["push"] \in Restarting /\ task["pull"] \in {"idle", "judge", "begin"}
    /\ \A s \in Slot : state[s] \in {"new", "pending"} => img[s] \in Signed \cap Ours

Checked == UploadHoldsWriter /\ (~overlapped => Alone)

LEMMA Tasks == /\ Task = {"push", "pull", "main"} /\ Transport = {"push", "pull"}
               /\ \A t \in Transport : t \in Task
BY DEF Task, Transport

LEMMA InitChecked == Init => Checked
<1> SUFFICES ASSUME Init PROVE Checked
  OBVIOUS
<1>1. \A t \in Transport : task[t] = "idle"
  BY Tasks DEF Init, Idle
<1>2. \A s \in Slot : state[s] \notin {"new", "pending"}
  BY DEF Init
<1>3. Other(running) \in Slot
  BY Slots DEF Init, Slot
<1> QED BY <1>1, <1>2, <1>3, Tasks DEF Checked, UploadHoldsWriter, Alone, Writing, Restarting

\* A step that leaves the flash and the ghost alone, and the tasks' places in the writer.
LEMMA UnmovedChecked ==
    ASSUME Checked, UNCHANGED <<img, state, boot, running, overlapped>>,
           task'["push"] = "write" => writing' /\ task'["pull"] = "idle",
           task'["pull"] \in Writing \cup Restarting =>
               task["pull"] \in Writing \cup Restarting /\ (task["pull"] \in Restarting => task'["pull"] \in Restarting),
           task["pull"] \in Restarting => task'["pull"] \in Restarting,
           task["pull"] \in {"idle", "judge", "begin"} => task'["pull"] \in {"idle", "judge", "begin"},
           task'["push"] \in Writing => task["push"] \in Writing,
           task["push"] \in Restarting => task'["push"] \in Restarting,
           \A t \in Transport : task'[t] = "choose" => task[t] = "choose"
    PROVE  Checked'
BY DEF Checked, UploadHoldsWriter, Alone, Writing, Restarting

LEMMA BootsChecked ==
    ASSUME Kept, Checked, NEW STATE b, NEW STATE st, Bootable(b, st), Boots(b, st),
           ~overlapped => /\ \A s \in Slot : st[s] \in {"new", "pending"} => img[s] \in Signed \cap Ours
                          /\ st[Other(b)] \notin {"new", "pending"}
    PROVE  Checked'
<1> USE DEF Bootable, Good
<1>1. task' = Idle /\ UNCHANGED <<img, overlapped>>
  BY DEF Boots
<1>2. \A t \in Transport : task'[t] = "idle"
  BY <1>1, Tasks DEF Idle
<1>3. UploadHoldsWriter'
  BY <1>2, Tasks DEF UploadHoldsWriter
<1>4. SUFFICES ASSUME ~overlapped PROVE Alone'
  BY <1>1, <1>3 DEF Checked
<1>5. b \in Slot /\ Other(b) \in Slot /\ Other(b) # b /\ Other(Other(b)) = b /\ Slot = {b, Other(b)}
  BY Slots DEF Slot, Other
<1>6. CASE Good(b, st, img)
  <2>1. state' = st /\ running' = b
    BY <1>6, Works_ DEF Boots
  <2> QED BY <1>1, <1>2, <1>4, <1>5, <2>1, Tasks DEF Alone, Writing, Restarting
<1>7. CASE st[b] = "pending" /\ Good(Other(b), st, img)
  <2>1. state' = [st EXCEPT ![b] = "invalid"] /\ running' = Other(b)
    BY <1>5, <1>7, Works_ DEF Boots
  <2> QED BY <1>1, <1>2, <1>4, <1>5, <2>1, Tasks DEF Alone, Writing, Restarting
<1>8. CASE st[b] = "new" /\ Good(Other(b), st, img)
  <2>1. img[b] # None
    BY <1>4, <1>5, <1>8, ImagesAssumption
  <2>2. state' = [st EXCEPT ![b] = "pending"] /\ running' = b
    BY <1>8, <2>1 DEF Boots
  <2> QED BY <1>1, <1>2, <1>4, <1>5, <1>8, <2>2, Tasks DEF Alone, Writing, Restarting
<1> QED BY <1>6, <1>7, <1>8

\* The slot to boot is the running one or the one a write just filled.
LEMMA AsIsChecked ==
    ASSUME Kept, Checked, Boots(boot, state)
    PROVE  Checked'
<1>1. Bootable(boot, state)
  BY BootableAsIs
<1>2. ASSUME ~overlapped
      PROVE  /\ \A s \in Slot : state[s] \in {"new", "pending"} => img[s] \in Signed \cap Ours
             /\ state[Other(boot)] \notin {"new", "pending"}
  BY <1>2, Slots DEF Kept, Typed, Footing, Good, Checked, Alone
<1> QED BY <1>1, <1>2, BootsChecked

LEMMA WriteChecked == ASSUME Kept, Checked, NEW t \in Transport, Write(t) PROVE Checked'
<1> USE Tasks DEF Checked
<1>0. t \in Task /\ task \in [Task -> Place] /\ (t = "push" \/ t = "pull")
      /\ Other(running) \in Slot /\ Other(running) # running /\ Slot = {running, Other(running)}
      /\ img \in [Slot -> Image \cup {None}] /\ state \in [Slot -> ImgState]
  BY Slots DEF Kept, Typed, Slot, Other
<1>1. CASE BeginRefused(t)
  BY <1>0, <1>1, UnmovedChecked DEF BeginRefused, UploadHoldsWriter, Writing, Restarting, bootVars, flashVars, writerVars
<1>2. CASE Begin(t)
  <2>1. UploadHoldsWriter'
    <3>1. task'[t] = "write" /\ \A u \in Task : u # t => task'[u] = task[u]
      BY <1>0, <1>2, AtMoves DEF Begin, Place
    <3>2. writing' /\ (t = "push" => task["pull"] = "idle") /\ (t = "pull" => ~writing)
      BY <1>2 DEF Begin, MayBegin
    <3> QED BY <1>0, <3>1, <3>2 DEF UploadHoldsWriter
  <2>2. ASSUME ~overlapped' PROVE Alone'
    <3>1. ~overlapped /\ (t = "pull" => task["push"] = "idle") /\ (t = "push" => task["pull"] = "idle")
      BY <1>2, <2>2 DEF Begin, MayBegin
    <3>2. state[Other(running)] \notin {"new", "pending"} /\ UNCHANGED <<state, boot, running>>
      BY <1>2, <3>1 DEF Begin, At, Alone, Restarting, bootVars
    <3>3. img' = [img EXCEPT ![Other(running)] = None]
      BY <1>2 DEF Begin
    <3>4. task'[t] = "write" /\ \A u \in Task : u # t => task'[u] = task[u]
      BY <1>0, <1>2, AtMoves DEF Begin, Place
    <3>5. \A u \in Transport : task'[u] # "choose"
      BY <1>0, <3>1, <3>4
    <3> QED BY <1>0, <3>1, <3>2, <3>3, <3>4, <3>5 DEF Alone, Writing, Restarting
  <2> QED BY <2>1, <2>2
<1>3. CASE Stops(t)
  <2>1. task[t] = "write" /\ task'[t] = "idle" /\ \A u \in Task : u # t => task'[u] = task[u]
    BY <1>0, <1>3, AtMoves DEF Stops, Place
  <2>2. UNCHANGED <<img, state, boot, running, overlapped>>
    BY <1>3 DEF Stops, bootVars, flashVars
  <2>3. task["push"] = "write" => t = "push"
    BY <1>0, <2>1 DEF UploadHoldsWriter
  <2>4. task'["push"] # "write"
    BY <1>0, <2>1, <2>3
  <2> QED BY <1>0, <2>1, <2>2, <2>4, UnmovedChecked DEF Writing, Restarting
<1>4. CASE Finish(t)
  <2>1. task[t] = "write" /\ task'[t] = "end" /\ \A u \in Task : u # t => task'[u] = task[u]
    BY <1>0, <1>4, AtMoves DEF Finish, Place
  <2>2. UploadHoldsWriter'
    BY <1>0, <1>4, <2>1 DEF Finish, UploadHoldsWriter
  <2>3. ASSUME ~overlapped' PROVE Alone'
    <3>1. ~overlapped /\ UNCHANGED <<state, boot, running>> /\ img' = [img EXCEPT ![Other(running)] = body[t]]
      BY <1>4, <2>3 DEF Finish, bootVars
    <3>2. state[Other(running)] \notin {"new", "pending"}
      BY <1>0, <2>1, <3>1 DEF Alone, UploadHoldsWriter, Writing, Restarting
    <3>3. \A u \in Transport : task'[u] # "choose"
      BY <1>0, <2>1, <3>1 DEF Alone, UploadHoldsWriter, Writing
    <3> QED BY <1>0, <2>1, <3>1, <3>2, <3>3 DEF Alone, Writing, Restarting
  <2> QED BY <2>2, <2>3
<1>5. CASE End(t)
  <2>1. task[t] = "end" /\ task'[t] \in {"verify", "idle"} /\ \A u \in Task : u # t => task'[u] = task[u]
    BY <1>0, <1>5, AtMoves DEF End, Place
  <2> QED BY <1>0, <1>5, <2>1, UnmovedChecked DEF End, UploadHoldsWriter, Writing, Restarting, bootVars, flashVars
<1>6. CASE Verify(t)
  <2>1. /\ task[t] = "verify" /\ task'[t] = (IF Accepts(t) THEN "choose" ELSE "idle")
        /\ \A u \in Task : u # t => task'[u] = task[u]
    BY <1>0, <1>6, AtMoves DEF Verify, Place
  <2>2. UploadHoldsWriter'
    BY <1>0, <1>6, <2>1 DEF Verify, UploadHoldsWriter
  <2>3. ASSUME ~overlapped' PROVE Alone'
    <3>1. ~overlapped /\ UNCHANGED <<img, state, boot, running>>
      BY <1>6, <2>3 DEF Verify, bootVars, flashVars
    <3>2. task'[t] = "choose" => img[Other(running)] \in Signed \cap Ours
      BY <2>1 DEF Accepts, Here
    <3> QED BY <1>0, <2>1, <3>1, <3>2 DEF Alone, Writing, Restarting
  <2> QED BY <2>2, <2>3
<1>7. CASE Choose(t)
  <2>1. /\ task[t] = "choose" /\ task'[t] = (IF Here(t) # None THEN "wait" ELSE "idle")
        /\ \A u \in Task : u # t => task'[u] = task[u]
    BY <1>0, <1>7, AtMoves DEF Choose, Place
  <2>2. UploadHoldsWriter'
    BY <1>0, <1>7, <2>1 DEF Choose, UploadHoldsWriter, writerVars
  <2>3. ASSUME ~overlapped' PROVE Alone'
    <3>1. ~overlapped /\ UNCHANGED <<img, running>>
      BY <1>7, <2>3 DEF Choose, bootVars
    <3>2. img[Other(running)] \in Signed \cap Ours /\ Here(t) # None
      BY <1>0, <2>1, <3>1, ImagesAssumption DEF Alone, Here
    <3>3. boot' = Other(running) /\ state' = [state EXCEPT ![Other(running)] = "new"]
      BY <1>7, <3>2 DEF Choose
    <3>4. task'[t] = "wait"
      BY <2>1, <3>2
    <3>5. state'[Other(running)] = "new" /\ state'[running] = state[running]
      BY <1>0, <3>3
    <3>6. task'["pull"] \in Writing \cup Restarting => task'["push"] \notin Writing
      BY <1>0, <2>1, <3>1, <3>4 DEF Alone, Writing, Restarting
    <3>7. \/ task'["pull"] \in Restarting
          \/ task'["push"] \in Restarting /\ task'["pull"] \in {"idle", "judge", "begin"}
      <4>1. CASE t = "pull"
        BY <3>4, <4>1 DEF Restarting
      <4>2. CASE t = "push"
        <5>1. task["pull"] \in Place /\ task["pull"] \notin Writing \cup Restarting
          BY <1>0, <2>1, <3>1, <4>2 DEF Alone, Writing
        <5> QED BY <1>0, <2>1, <3>4, <4>2, <5>1 DEF Place, Writing, Restarting
      <4> QED BY <1>0, <4>1, <4>2
    <3>8. \A u \in Transport : task'[u] = "choose" => img'[Other(running')] \in Signed \cap Ours
      BY <3>1, <3>2
    <3>9. \A s \in Slot : state'[s] \in {"new", "pending"} => img'[s] \in Signed \cap Ours
      BY <1>0, <3>1, <3>2, <3>5 DEF Alone
    <3> QED BY <3>1, <3>3, <3>6, <3>7, <3>8, <3>9 DEF Alone
  <2> QED BY <2>2, <2>3
<1> QED BY <1>1, <1>2, <1>3, <1>4, <1>5, <1>6, <1>7 DEF Write

LEMMA RequestsChecked == Kept /\ Checked /\ (Push \/ Pull \/ AutomaticCheck) => Checked'
<1> SUFFICES ASSUME Kept, Checked, Push \/ Pull \/ AutomaticCheck PROVE Checked'
  OBVIOUS
<1> USE Tasks DEF bootVars, flashVars, writerVars
<1>0. task \in [Task -> Place]
  BY DEF Kept, Typed
<1>1. CASE PushStart
  BY <1>0, <1>1, UnmovedChecked DEF PushStart, Serving, Checked, UploadHoldsWriter, Writing, Restarting
<1>2. CASE UsbDrive
  <2>1. task["push"] = "idle" /\ task'["push"] = "wait" /\ task'["pull"] = task["pull"]
    BY <1>0, <1>2 DEF UsbDrive, Serving
  <2> QED BY <1>0, <1>2, <2>1, UnmovedChecked DEF UsbDrive, Checked, UploadHoldsWriter, Writing, Restarting
<1>3. CASE PullStart /\ UNCHANGED overlapped
  <2>1. task["pull"] = "idle" /\ task'["pull"] = "judge" /\ task'["push"] = task["push"] /\ ~writing
    BY <1>0, <1>3, AtMoves DEF PullStart, Place
  <2> QED BY <1>0, <1>3, <2>1, UnmovedChecked DEF PullStart, Checked, UploadHoldsWriter, Writing, Restarting
<1>4. CASE Pull
  <2>1. task["pull"] = "judge" /\ task'["pull"] \in {"begin", "idle"} /\ task'["push"] = task["push"]
        /\ UNCHANGED writing
    BY <1>0, <1>4, AtMoves DEF Pull, Judge, CheckEnds, Place
  <2>2. UNCHANGED <<img, state, boot, running, overlapped>>
    BY <1>4 DEF Pull, Judge, CheckEnds
  <2> QED BY <1>0, <2>1, <2>2, UnmovedChecked DEF Checked, UploadHoldsWriter, Writing, Restarting
<1> QED BY <1>1, <1>2, <1>3, <1>4 DEF Push, Check, AutomaticCheck, PullStart

LEMMA VerdictChecked == Kept /\ Checked /\ Verdict => Checked'
<1> SUFFICES ASSUME Kept, Checked, Verdict PROVE Checked'
  OBVIOUS
<1> USE Tasks DEF Checked
<1>0. Other(running) \in Slot /\ Other(running) # running /\ state \in [Slot -> ImgState] /\ task \in [Task -> Place]
  BY Slots DEF Kept, Typed
<1>1. CASE MarkValid
  <2>1. state' = [state EXCEPT ![running] = "valid"]
        /\ UNCHANGED <<img, boot, running, task, writing, overlapped>>
    BY <1>1 DEF MarkValid, writerVars
  <2> QED BY <1>0, <2>1 DEF UploadHoldsWriter, Alone
<1>2. CASE GiveUp
  <2>1. task'["push"] = task["push"] /\ task'["pull"] = task["pull"]
    BY <1>0, <1>2, AtMoves DEF GiveUp, Place
  <2> QED BY <1>0, <1>2, <2>1, UnmovedChecked DEF GiveUp, UploadHoldsWriter, bootVars, flashVars, writerVars
<1>3. CASE RollBack
  <2>1. trial /\ Good(Other(running), state, img) /\ img[Other(running)] # None
    BY <1>3, Works_ DEF RollBack, Kept, RolledBackOnTrial, Footing, Good
  <2> DEFINE st == [state EXCEPT ![running] = "invalid"]
  <2>2. Bootable(Other(running), st)
    BY <2>1, Slots DEF Bootable, Good, Kept, Typed, ImgState
  <2>3. Boots(Other(running), st)
    BY <1>3, <2>1 DEF RollBack
  <2>4. ~overlapped => /\ \A s \in Slot : st[s] \in {"new", "pending"} => img[s] \in Signed \cap Ours
                       /\ st[Other(Other(running))] \notin {"new", "pending"}
    BY <1>0, Slots DEF Alone, Kept, Typed
  <2> QED
    <3> HIDE DEF st
    <3> QED BY <2>2, <2>3, <2>4, BootsChecked
<1> QED BY <1>1, <1>2, <1>3 DEF Verdict

LEMMA StepChecked == Kept /\ Checked /\ [Next]_vars => Checked'
<1> SUFFICES ASSUME Kept, Checked, [Next]_vars PROVE Checked'
  OBVIOUS
<1>1. ASSUME NEW t \in Transport, Restart(t) PROVE Checked'
  BY <1>1, AsIsChecked DEF Restart
<1>2. ASSUME NEW t \in Task, Waited(t) \/ TakeLock(t) PROVE Checked'
  <2>1. /\ task[t] \in Restarting /\ task'[t] \in Restarting /\ \A u \in Task : u # t => task'[u] = task[u]
    BY <1>2, AtMoves DEF Waited, TakeLock, Kept, Typed, Place, Restarting
  <2>2. UNCHANGED <<img, state, boot, running, writing, overlapped>>
    BY <1>2 DEF Waited, TakeLock, bootVars, flashVars, writerVars
  <2> QED BY <2>1, <2>2, Tasks, UnmovedChecked DEF Checked, UploadHoldsWriter, Writing, Restarting
<1>3. CASE PowerCut \/ Panics
  BY <1>3, AsIsChecked DEF PowerCut, Panics
<1>4. CASE Link \/ Publish \/ TimePasses \/ RefreshStarts \/ RefreshEnds \/ UNCHANGED vars
  <2>1. UNCHANGED <<img, state, boot, running, task, writing, overlapped>>
    BY <1>4 DEF Link, Publish, TimePasses, RefreshStarts, RefreshEnds, vars, bootVars, flashVars, writerVars
  <2> QED BY <2>1 DEF Checked, UploadHoldsWriter, Alone
<1> QED
  BY <1>1, <1>2, <1>3, <1>4, WriteChecked, RequestsChecked, VerdictChecked DEF Next, Surroundings, Quiesce

\* An upload and a download are never both writing (app_ota_begin(), app_ota_pull_start()).
THEOREM WritersExclude == Spec => []OneWriter
<1>1. Checked => OneWriter
  BY DEF Checked, UploadHoldsWriter, OneWriter
<1> QED BY <1>1, InitKept, InitChecked, StepKept, StepChecked, PTL DEF Spec

\* An image on trial was signed and named this board, unless a download took the writer
\* from an upload that was not done with it (app_ota_finish()).
THEOREM TrialsChecked == Spec => []TrialsAreVerified
<1>1. Checked => TrialsAreVerified
  BY DEF Checked, Alone, TrialsAreVerified
<1> QED BY <1>1, InitKept, InitChecked, StepKept, StepChecked, PTL DEF Spec
=============================================================================

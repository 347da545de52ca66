-------------------------------- MODULE Ota --------------------------------
(***************************************************************************)
(* src/src/app/app_ota.c and the routes that restart the frame: firmware    *)
(* over the air.  An upload (the push, on the web server's task) and a      *)
(* download (the pull, a task of its own) write the slot that is not        *)
(* running through one writer; a new image is on trial until it has shown   *)
(* that it can be reached, and the bootloader goes back to the other slot   *)
(* when it has not.  The flash's image table and the bootloader are         *)
(* ESP-IDF's and modelled as app_ota.c relies on them.                      *)
(***************************************************************************)
EXTENDS Naturals

CONSTANTS
    Image,      \* firmware images
    Signed,     \* those esp_ota_end() verifies
    Ours,       \* those that name this board
    Works,      \* those that reach the network
    First,      \* the image flashed by cable
    None,       \* a slot erased or half written
    MaxEvents   \* uploads, checks asked for, releases, USB mode and power cuts, in all

ASSUME ImagesAssumption ==
    /\ Signed \subseteq Image /\ Ours \subseteq Image /\ Works \subseteq Image
    /\ First \in Signed \cap Ours \cap Works
    /\ None \notin Image

ASSUME BoundAssumption == MaxEvents \in Nat

Slot == {0, 1}
Other(s) == 1 - s

VARIABLES
    img, state, boot,   \* flash: each slot's image and trial state, and the slot chosen to boot
    running,            \* the slot that runs
    trial, up,          \* s_pending; uptime: under 120 s, under 600 s, or more
    httpd, sta,         \* this boot's web server; the station's link
    due,                \* the next check's time has come
    auto, card,         \* the ota_auto setting; /data is the card, on the panel's bus
    writing, handle,    \* s_writing; whose write s_handle is
    open,               \* the writes ESP-IDF has open
    task, body,         \* where push, pull and main stand; the image push and pull write
    refresh, lock,      \* the panel refreshes; the task that holds the storage lock
    release,            \* what the update server offers
    events,
    overlapped          \* ghost: a pull began before a push was done with the writer

flashVars  == <<img, state, boot>>
bootVars   == <<running, trial, httpd>>
timeVars   == <<up, due>>
writerVars == <<writing, handle, open>>
panelVars  == <<refresh, lock>>
givenVars  == <<auto, card>>
vars == <<flashVars, bootVars, timeVars, sta, writerVars, task, body, panelVars, givenVars, release,
          events, overlapped>>

Transport == {"push", "pull"}
Task == Transport \cup {"main"}

TypeOK ==
    /\ img \in [Slot -> Image \cup {None}]
    /\ state \in [Slot -> {"undefined", "new", "pending", "valid", "invalid"}]
    /\ boot \in Slot /\ running \in Slot
    /\ up \in {"early", "proved", "late"}
    /\ trial \in BOOLEAN /\ httpd \in BOOLEAN /\ sta \in BOOLEAN /\ due \in BOOLEAN
    /\ auto \in BOOLEAN /\ card \in BOOLEAN /\ writing \in BOOLEAN /\ refresh \in BOOLEAN
    /\ handle \in Transport \cup {"none"} /\ open \subseteq Transport
    /\ task \in [Task -> {"idle", "judge", "begin", "write", "end", "verify", "choose", "wait", "lock", "go"}]
    /\ body \in [Transport -> Image]
    /\ lock \in Task \cup {"none"}
    /\ release \in Image /\ events \in 0..MaxEvents /\ overlapped \in BOOLEAN

Idle == [t \in Task |-> "idle"]

Init ==
    /\ img = [s \in Slot |-> IF s = 0 THEN First ELSE None]
    /\ state = [s \in Slot |-> IF s = 0 THEN "valid" ELSE "undefined"]
    /\ boot = 0 /\ running = 0
    /\ trial = FALSE /\ up = "early" /\ httpd \in BOOLEAN /\ sta = FALSE /\ due = FALSE
    /\ auto \in BOOLEAN /\ card \in BOOLEAN
    /\ writing = FALSE /\ handle = "none" /\ open = {}
    /\ task = Idle /\ body = [t \in Transport |-> First]
    /\ refresh = FALSE /\ lock = "none"
    /\ release = First /\ events = 0
    /\ overlapped = FALSE

Event == events < MaxEvents /\ events' = events + 1
At(t, here, there) == task[t] = here /\ task' = [task EXCEPT ![t] = there]

-----------------------------------------------------------------------------
(* Surroundings. *)

Link ==
    /\ sta \/ img[running] \in Works
    /\ sta' = ~sta
    /\ UNCHANGED <<flashVars, bootVars, timeVars, writerVars, task, body, panelVars, givenVars, release, events, overlapped>>

Publish ==
    /\ Event /\ \E i \in Image : i # release /\ release' = i
    /\ UNCHANGED <<flashVars, bootVars, timeVars, sta, writerVars, task, body, panelVars, givenVars, overlapped>>

\* 120 s and 600 s into a boot.
Ages ==
    /\ up # "late"
    /\ up' = IF up = "early" THEN "proved" ELSE "late"
    /\ UNCHANGED due

\* Mutant: there is a first check and no other.
CheckComesDueOnce == FALSE /\ UNCHANGED timeVars

\* The first check is due 600 s into the boot, the next an hour or a week after one ends.
CheckComesDue ==
    /\ up = "late" /\ ~due /\ due' = TRUE
    /\ UNCHANGED up

TimePasses ==
    /\ Ages \/ CheckComesDue
    /\ UNCHANGED <<flashVars, bootVars, sta, writerVars, task, body, panelVars, givenVars, release, events, overlapped>>

\* A refresh holds the panel's bus, which the card's accesses share.
RefreshStarts ==
    /\ ~refresh /\ ~(card /\ lock # "none")
    /\ refresh' = TRUE
    /\ UNCHANGED <<flashVars, bootVars, timeVars, sta, writerVars, task, body, lock, givenVars, release, events, overlapped>>

RefreshEnds ==
    /\ refresh /\ refresh' = FALSE
    /\ UNCHANGED <<flashVars, bootVars, timeVars, sta, writerVars, task, body, lock, givenVars, release, events, overlapped>>

\* The bootloader: an image found still on trial is given up for the other slot; a new
\* one goes on trial; a slot that holds no image falls back to the other.
Boots(b, st) ==
    LET aborted == st[b] = "pending"
        chosen  == IF aborted THEN Other(b) ELSE b
        states  == IF aborted THEN [st EXCEPT ![b] = "invalid"] ELSE st
    IN  /\ boot' = chosen
        /\ state' = IF states[chosen] = "new" THEN [states EXCEPT ![chosen] = "pending"] ELSE states
        /\ running' = IF img[chosen] # None THEN chosen ELSE Other(chosen)
        /\ trial' = (state'[running'] = "pending")
        /\ httpd' \in BOOLEAN
        /\ up' = "early" /\ due' = FALSE /\ sta' = FALSE
        /\ writing' = FALSE /\ handle' = "none" /\ open' = {}
        /\ task' = Idle
        /\ refresh' = FALSE /\ lock' = "none"
        /\ UNCHANGED <<img, body, givenVars, release, overlapped>>

PowerCut == Event /\ Boots(boot, state)

\* An image that does not work may also panic.
Panics == img[running] \notin Works /\ Boots(boot, state) /\ UNCHANGED events

-----------------------------------------------------------------------------
(* The writer. *)

\* app_ota_begin() under its critical section.
MayBegin(t) == IF t = "pull" THEN ~writing ELSE task["pull"] = "idle"

\* esp_ota_begin() refuses while the running image is on trial.
BeginRefused(t) ==
    /\ task[t] = "begin" /\ ~(MayBegin(t) /\ state[running] # "pending")
    /\ task' = [task EXCEPT ![t] = "idle"]
    /\ due' = (due /\ t # "pull")
    /\ UNCHANGED <<flashVars, bootVars, up, sta, writerVars, body, panelVars, givenVars, release, events, overlapped>>

Begin(t) ==
    /\ MayBegin(t) /\ state[running] # "pending"
    /\ At(t, "begin", "write")
    /\ writing' = TRUE /\ handle' = t /\ open' = open \cup {t}
    /\ img' = [img EXCEPT ![Other(running)] = None]
    /\ overlapped' = (overlapped \/ (t = "pull" /\ task["push"] # "idle"))
    /\ UNCHANGED <<state, boot, bootVars, timeVars, sta, body, panelVars, givenVars, release, events>>

\* app_ota_abort(), for a write that fails and a body or a download that stops; a handle
\* that is no longer the writer's fails every write.
Stops(t) ==
    /\ At(t, "write", "idle")
    /\ open' = IF writing THEN open \ {handle} ELSE open
    /\ writing' = FALSE /\ handle' = "none"
    /\ due' = (due /\ t # "pull")
    /\ UNCHANGED <<flashVars, bootVars, up, sta, body, panelVars, givenVars, release, events, overlapped>>

\* The last write, and app_ota_finish() giving up the writer.
Finish(t) ==
    /\ At(t, "write", "end") /\ handle \in open
    /\ img' = [img EXCEPT ![Other(running)] = body[t]]
    /\ writing' = FALSE
    /\ UNCHANGED <<state, boot, bootVars, timeVars, sta, handle, open, body, panelVars, givenVars, release, events, overlapped>>

\* esp_ota_end() with whatever s_handle is now; a write it ends early does not verify.
End(t) ==
    /\ At(t, "end", IF handle = t THEN "verify" ELSE "idle")
    /\ open' = open \ {handle}
    /\ due' = (due /\ (handle = t \/ t # "pull"))
    /\ handle' = IF handle = t THEN handle ELSE "none"
    /\ UNCHANGED <<flashVars, bootVars, up, sta, writing, body, panelVars, givenVars, release, events, overlapped>>

Here(t) == img[Other(running)]

\* Mutant: the board is not looked at.
AcceptsSigned(t) == Here(t) \in Signed

\* The signature, and the board the image names.
Accepts(t) == Here(t) \in Signed \cap Ours

Verify(t) ==
    /\ At(t, "verify", IF Accepts(t) THEN "choose" ELSE "idle")
    /\ handle' = "none"
    /\ due' = (due /\ (Accepts(t) \/ t # "pull"))
    /\ UNCHANGED <<flashVars, bootVars, up, sta, writing, open, body, panelVars, givenVars, release, events, overlapped>>

\* esp_ota_set_boot_partition(): refused when the slot does not hold an image any more.
Choose(t) ==
    /\ At(t, "choose", IF Here(t) # None THEN "wait" ELSE "idle")
    /\ IF Here(t) # None
       THEN boot' = Other(running) /\ state' = [state EXCEPT ![Other(running)] = "new"]
       ELSE UNCHANGED <<boot, state>>
    /\ due' = (due /\ (Here(t) # None \/ t # "pull"))
    /\ UNCHANGED <<img, bootVars, up, sta, writerVars, body, panelVars, givenVars, release, events, overlapped>>

Write(t) == BeginRefused(t) \/ Begin(t) \/ Stops(t) \/ Finish(t) \/ End(t) \/ Verify(t) \/ Choose(t)
-----------------------------------------------------------------------------
(* The web server's one worker: uploads, USB mode and checks asked for. *)

Serving == Event /\ httpd /\ task["push"] = "idle"

PushStart ==
    /\ Serving
    /\ task' = [task EXCEPT !["push"] = "begin"]
    /\ \E i \in Image : body' = [body EXCEPT !["push"] = i]
    /\ UNCHANGED <<flashVars, bootVars, timeVars, sta, writerVars, panelVars, givenVars, release, overlapped>>

UsbDrive ==
    /\ Serving
    /\ task' = [task EXCEPT !["push"] = "wait"]
    /\ UNCHANGED <<flashVars, bootVars, timeVars, sta, writerVars, body, panelVars, givenVars, release, overlapped>>

\* app_ota_pull_start(); refused for Google Photos or memory, it is not taken.
PullStart ==
    /\ ~trial /\ ~writing /\ At("pull", "idle", "judge")
    /\ UNCHANGED <<flashVars, bootVars, timeVars, sta, writerVars, body, panelVars, givenVars, release, overlapped>>

Check == Serving /\ PullStart

Push == PushStart \/ UsbDrive \/ Check

-----------------------------------------------------------------------------
(* The download. *)

\* Mutant: the release that was rolled back is not remembered.
UnwantedForgetful(i) == i \notin Ours \/ i = img[running]

\* judge_head(), on what the head of the image says.
Unwanted(i) ==
    \/ i \notin Ours \/ i = img[running]
    \/ \E s \in Slot : state[s] = "invalid" /\ img[s] = i

CheckEnds ==
    /\ At("pull", "judge", "idle") /\ due' = FALSE
    /\ UNCHANGED <<flashVars, bootVars, up, sta, writerVars, body, panelVars, givenVars, release, events, overlapped>>

Judge ==
    /\ ~Unwanted(release)
    /\ At("pull", "judge", "begin") /\ body' = [body EXCEPT !["pull"] = release]
    /\ UNCHANGED <<flashVars, bootVars, timeVars, sta, writerVars, panelVars, givenVars, release, events, overlapped>>

Pull == Judge \/ CheckEnds

-----------------------------------------------------------------------------
(* main's tick. *)

MainIdle == task["main"] = "idle"

AutomaticCheck == MainIdle /\ auto /\ sta /\ due /\ PullStart /\ UNCHANGED events

\* Mutant: the web server's start is verdict enough.
EarnedByServer == httpd

\* What an image on trial shows to be kept.
Earned == httpd /\ sta

MarkValid ==
    /\ MainIdle /\ trial /\ Earned /\ up # "early"
    /\ state' = [state EXCEPT ![running] = "valid"] /\ trial' = FALSE
    /\ UNCHANGED <<img, boot, running, httpd, timeVars, sta, writerVars, task, body, panelVars, givenVars, release, events, overlapped>>

GiveUp ==
    /\ trial /\ ~Earned /\ up = "late" /\ At("main", "idle", "wait")
    /\ UNCHANGED <<flashVars, bootVars, timeVars, sta, writerVars, body, panelVars, givenVars, release, events, overlapped>>

RollBack ==
    /\ task["main"] = "go"
    /\ UNCHANGED events
    /\ IF img[Other(running)] # None
       THEN Boots(Other(running), [state EXCEPT ![running] = "invalid"])
       ELSE /\ trial' = FALSE /\ lock' = "none" /\ task' = [task EXCEPT !["main"] = "idle"]
            /\ UNCHANGED <<flashVars, running, httpd, timeVars, sta, writerVars, body, refresh, givenVars, release, overlapped>>

Verdict == MarkValid \/ GiveUp \/ RollBack

-----------------------------------------------------------------------------
(* Restarting: no refresh or 60 s, then the storage lock, held into the reset. *)

Waited(t) ==
    /\ At(t, "wait", "lock")
    /\ UNCHANGED <<flashVars, bootVars, timeVars, sta, writerVars, body, panelVars, givenVars, release, events, overlapped>>

\* board_storage_lock(): on the card the panel's bus too.
LockFree == lock = "none" /\ ~(card /\ refresh)

TakeLock(t) ==
    /\ LockFree /\ At(t, "lock", "go") /\ lock' = t
    /\ UNCHANGED <<flashVars, bootVars, timeVars, sta, writerVars, body, refresh, givenVars, release, events, overlapped>>

Restart(t) == task[t] = "go" /\ Boots(boot, state) /\ UNCHANGED events

Quiesce == \E t \in Task : Waited(t) \/ TakeLock(t)

-----------------------------------------------------------------------------
Surroundings == Link \/ Publish \/ TimePasses \/ RefreshStarts \/ RefreshEnds \/ PowerCut \/ Panics

Next ==
    \/ Surroundings \/ Push \/ Pull \/ AutomaticCheck \/ Verdict \/ Quiesce
    \/ \E t \in Transport : Write(t) \/ Restart(t)

Spec == Init /\ [][Next]_vars

\* Each task goes on, time passes, refreshes end; the storage lock and the bus are handed to
\* whoever waits; a check is started and a download completes if tried again and again.
Fairness ==
    /\ WF_vars(TimePasses) /\ WF_vars(RefreshEnds)
    /\ WF_vars(Verdict) /\ WF_vars(Pull)
    /\ \A t \in Task : WF_vars(Waited(t)) /\ SF_vars(TakeLock(t))
    /\ \A t \in Transport : WF_vars(Write(t)) /\ WF_vars(Restart(t))
    /\ SF_vars(AutomaticCheck) /\ SF_vars(Judge) /\ SF_vars(Finish("pull"))

FairSpec == Spec /\ Fairness

-----------------------------------------------------------------------------
(* Properties. *)

\* Whatever is uploaded or released, and wherever the power goes, one slot holds an image
\* that has shown it can be reached: a trial never costs the frame its web page.
WorkingImage == \E s \in Slot : state[s] = "valid" /\ img[s] \in Works

\* An image goes on trial only after its signature and its board were checked, in full,
\* unless a download took the writer from an upload that was not done with it.
TrialsAreVerified ==
    ~overlapped => \A s \in Slot : state[s] \in {"new", "pending"} => img[s] \in Signed \cap Ours

\* An upload and a download are never both between esp_ota_begin() and the last write.
OneWriter == ~(task["push"] = "write" /\ task["pull"] = "write")

\* A release that fails its trial is not installed again at every check: once uploads,
\* releases and power cuts cease, trials cease too.
Settles == <>[]~trial

\* A good release reaches the frame when its checks are on and it stays on the network,
\* or was tried and given up.
Updates ==
    \A i \in Signed \cap Ours :
        auto /\ <>[]sta /\ <>[](release = i)
            => <>(img[running] = i \/ \E s \in Slot : state[s] = "invalid" /\ img[s] = i)
=============================================================================

---------------------------- MODULE SmbSchedule ----------------------------
(***************************************************************************)
(* src/src/app/app_smb_sync.c and src/src/core/smb_window.c: when the frame *)
(* talks to the share.  Four tasks meet here: the application task's tick   *)
(* every 10 s, the window task that exists for one window of a run, the     *)
(* connect test's task, and the web server, which a window takes down.      *)
(* Time is what has elapsed, not how much: a gap, a period, a deadline.     *)
(***************************************************************************)
EXTENDS Naturals

CONSTANTS MaxWindows,   \* windows one plan may take
          MaxEvents     \* what users and surroundings do, in all; a link coming up is not counted

ASSUME ScheduleAssumption == MaxWindows \in Nat /\ MaxEvents \in Nat

VARIABLES
    conf,         \* the settings: a host is named, the mirror is on, it is on demand
    card, link,   \* /data is the card; the station has a link
    sched,        \* app_clock_schedule_active()
    events,       \* how often the surroundings have acted
    gap,          \* 20 s have passed since the last window
    sinceRun,     \* since the last run: none yet (and 30 s up), or an hour
    stale,        \* an hour has passed since the catalogue was refreshed
    wait,         \* s_wait_since_us: not waiting for quiet, waiting, or for ten minutes
    runActive,    \* s_run_active
    onDemand,     \* s_on_demand
    buffers,      \* s_entries and s_next_arena are allocated
    left,         \* windows the plan still needs; NoPlan before it is built
    manual,       \* s_manual_request
    want,         \* s_want_count > 0
    testRequest,  \* s_test_request
    testState,    \* s_status.test_state
    reloadDue,    \* s_media_reload_due
    app,          \* the application task in its tick
    web,          \* the web server's task in a handler
    server,       \* the web server is up
    window, test, \* s_task_running with the task's place; s_test_task_running likewise
    asked,        \* ghost: a run was asked for, none has begun, the mirror on and the card in all along
    flipped      \* ghost: on-demand was switched between two windows of a run

envVars   == <<conf, card, link, sched, events>>
clockVars == <<gap, sinceRun, stale, wait>>
runVars   == <<runActive, buffers, left>>
testVars  == <<testRequest, testState, test>>
askVars   == <<manual, want, asked>>
taskVars  == <<app, web, server, window>>
vars == <<envVars, clockVars, runVars, onDemand, testVars, askVars, reloadDue, taskVars, flipped>>

NoPlan == MaxWindows + 1

Conf == {c \in [host : BOOLEAN, enabled : BOOLEAN, onDemand : BOOLEAN] : c.enabled => c.host}

TypeOK ==
    /\ conf \in Conf /\ events \in 0..MaxEvents
    /\ card \in BOOLEAN /\ link \in BOOLEAN /\ sched \in BOOLEAN /\ gap \in BOOLEAN /\ stale \in BOOLEAN
    /\ runActive \in BOOLEAN /\ onDemand \in BOOLEAN /\ buffers \in BOOLEAN /\ manual \in BOOLEAN
    /\ want \in BOOLEAN /\ testRequest \in BOOLEAN /\ reloadDue \in BOOLEAN /\ server \in BOOLEAN
    /\ asked \in BOOLEAN /\ flipped \in BOOLEAN
    /\ sinceRun \in {"boot", "first", "recent", "hour"}
    /\ wait \in {"no", "quiet", "expired"}
    /\ left \in 0..NoPlan
    /\ testState \in {"idle", "queued", "running", "done", "refused"}
    /\ app \in {"idle", "guard", "config", "on", "off", "loading", "reloading"}
    /\ web \in {"idle", "saving", "testing", "loading"}
    /\ window \in {"off", "created", "connect", "work", "over", "restart", "leaving"}
    /\ test \in {"off", "created", "connected"}

Init ==
    /\ conf \in Conf /\ card \in BOOLEAN /\ link = FALSE /\ sched \in BOOLEAN /\ events = 0
    /\ gap = FALSE /\ sinceRun = "boot" /\ stale = TRUE /\ wait = "no"
    /\ runActive = FALSE /\ buffers = FALSE /\ left = NoPlan
    /\ onDemand = (conf.enabled /\ conf.onDemand)
    /\ testRequest = FALSE /\ testState = "idle" /\ test = "off"
    /\ manual = FALSE /\ want = FALSE /\ asked = FALSE
    /\ reloadDue = FALSE
    /\ app = "idle" /\ web = "idle" /\ server = TRUE
    /\ window = "off" /\ flipped = FALSE

Event == events < MaxEvents /\ events' = events + 1

-----------------------------------------------------------------------------
(* Surroundings. *)

LinkChanges ==
    /\ IF link THEN Event ELSE UNCHANGED events
    /\ link' = ~link
    /\ UNCHANGED <<conf, card, sched, clockVars, runVars, onDemand, testVars, askVars, reloadDue, taskVars, flipped>>

ScheduleChanges ==
    /\ Event /\ sched' = ~sched
    /\ UNCHANGED <<conf, card, link, clockVars, runVars, onDemand, testVars, askVars, reloadDue, taskVars, flipped>>

\* The selector declares what it wants next.
Want ==
    /\ Event /\ ~want /\ want' = TRUE
    /\ UNCHANGED <<conf, card, link, sched, clockVars, runVars, onDemand, testVars, manual, asked, reloadDue, taskVars, flipped>>

GapPasses == ~gap /\ gap' = TRUE /\ UNCHANGED <<sinceRun, stale, wait>>
RunAges ==
    /\ sinceRun \in {"boot", "recent"}
    /\ sinceRun' = IF sinceRun = "boot" THEN "first" ELSE "hour"
    /\ UNCHANGED <<gap, stale, wait>>
CatalogAges == ~stale /\ stale' = TRUE /\ UNCHANGED <<gap, sinceRun, wait>>
WaitExpires == wait = "quiet" /\ wait' = "expired" /\ UNCHANGED <<gap, sinceRun, stale>>

\* A tick is over long before any of these, and a window long before an hour or a gap.
TimePasses ==
    /\ app = "idle" /\ window = "off"
    /\ GapPasses \/ RunAges \/ CatalogAges \/ WaitExpires
    /\ UNCHANGED <<envVars, runVars, onDemand, testVars, askVars, reloadDue, taskVars, flipped>>

-----------------------------------------------------------------------------
(* The web server's handlers.  A handler runs while the server is up. *)

\* h_smb_config_set(): the mirror's fields are stored, then the on-demand key.
SaveMirror ==
    /\ Event /\ server /\ web = "idle"
    /\ \E c \in Conf : c.onDemand = conf.onDemand /\ conf' = c
    /\ web' = "saving"
    /\ asked' = (asked /\ conf'.enabled)
    /\ UNCHANGED <<card, link, sched, clockVars, runVars, onDemand, testVars, manual, want, reloadDue,
                   app, server, window, flipped>>

SaveOnDemand ==
    /\ web = "saving"
    /\ \E b \in BOOLEAN : conf' = [conf EXCEPT !.onDemand = b]
    /\ web' = "idle"
    /\ UNCHANGED <<card, link, sched, events, clockVars, runVars, onDemand, testVars, askVars, reloadDue,
                   app, server, window, flipped>>

\* h_smb_sync().  A tick that has already read the mirror as off will drop the request.
RequestRun ==
    /\ Event /\ server /\ web = "idle" /\ conf.enabled
    /\ manual' = TRUE
    /\ asked' = (card /\ app # "off")
    /\ UNCHANGED <<conf, card, link, sched, clockVars, runVars, onDemand, testVars, want, reloadDue, taskVars, flipped>>

\* h_smb_test(): the request, and then the status.
RequestTest ==
    /\ Event /\ server /\ web = "idle" /\ conf.host
    /\ testRequest' = TRUE /\ web' = "testing"
    /\ UNCHANGED <<conf, card, link, sched, clockVars, runVars, onDemand, testState, test, askVars, reloadDue,
                   app, server, window, flipped>>

SayQueued ==
    /\ web = "testing"
    /\ testState' = "queued" /\ web' = "idle"
    /\ UNCHANGED <<envVars, clockVars, runVars, onDemand, testRequest, test, askVars, reloadDue,
                   app, server, window, flipped>>

\* Mutant: the reload does not wait for the window.
MediaChangedAnyway == "loading"

\* app_smb_sync_media_changed(): not under a window.
MediaChanged == IF window = "off" THEN "loading" ELSE "idle"

\* h_storage_rescan() finds another volume.
Rescan ==
    /\ Event /\ server /\ web = "idle"
    /\ card' = ~card
    /\ web' = MediaChanged
    /\ reloadDue' = (reloadDue \/ web' = "idle")
    /\ asked' = (asked /\ card')
    /\ UNCHANGED <<conf, link, sched, clockVars, runVars, onDemand, testVars, manual, want,
                   app, server, window, flipped>>

Rescanned ==
    /\ web = "loading" /\ web' = "idle"
    /\ UNCHANGED <<envVars, clockVars, runVars, onDemand, testVars, askVars, reloadDue,
                   app, server, window, flipped>>

-----------------------------------------------------------------------------
(* The application task. *)

\* frame_main's loop finds the card put in or taken out.
MediaFound ==
    /\ Event /\ app = "idle"
    /\ card' = ~card
    /\ app' = MediaChanged
    /\ reloadDue' = (reloadDue \/ app' = "idle")
    /\ asked' = (asked /\ card')
    /\ UNCHANGED <<conf, link, sched, clockVars, runVars, onDemand, testVars, manual, want,
                   web, server, window, flipped>>

Loaded ==
    /\ app \in {"loading", "reloading"}
    /\ app' = IF app = "loading" THEN "idle" ELSE "config"
    /\ UNCHANGED <<envVars, clockVars, runVars, onDemand, testVars, askVars, reloadDue,
                   web, server, window, flipped>>

\* Mutant: a test may start in the gap between two windows of a run.
TestDueInGap == testRequest /\ test = "off" /\ window = "off"

\* service_test(), first thing in the tick.
TestDue == testRequest /\ test = "off" /\ window = "off" /\ ~runActive

TestServed(state, task) ==
    /\ app = "idle" /\ TestDue
    /\ testRequest' = FALSE /\ testState' = state /\ test' = task
    /\ app' = "guard"
    /\ UNCHANGED <<envVars, clockVars, runVars, askVars, reloadDue, web, server, window, flipped>>

NoTest ==
    /\ app = "idle" /\ ~TestDue /\ app' = "guard"
    /\ UNCHANGED <<envVars, clockVars, runVars, onDemand, testVars, askVars, reloadDue,
                   web, server, window, flipped>>

TestCancelled == ~conf.host /\ TestServed("idle", "off") /\ UNCHANGED onDemand
\* Too little memory for a test, or none for its task.
TestRefused == conf.host /\ TestServed("refused", "off") /\ onDemand' = conf.onDemand
TestStarts == conf.host /\ TestServed(testState, "created") /\ onDemand' = conf.onDemand

\* Mutant: a window under way does not hold the tick back.
TestHolds == test # "off"

\* A window or a test is under way.
Held == window # "off" \/ test # "off"

TickHeld ==
    /\ app = "guard" /\ Held /\ app' = "idle"
    /\ UNCHANGED <<envVars, clockVars, runVars, onDemand, testVars, askVars, reloadDue, web, server, window, flipped>>

\* The deferred half of app_smb_sync_media_changed().
ReloadFirst ==
    /\ app = "guard" /\ ~Held /\ reloadDue
    /\ reloadDue' = FALSE /\ app' = "reloading"
    /\ UNCHANGED <<envVars, clockVars, runVars, onDemand, testVars, askVars, web, server, window, flipped>>

\* config_from_settings()
ReadConfig ==
    /\ app = "config" \/ (app = "guard" /\ ~Held /\ ~reloadDue)
    /\ app' = IF conf.enabled THEN "on" ELSE "off"
    /\ onDemand' = IF conf.enabled THEN conf.onDemand ELSE onDemand
    /\ flipped' = (flipped \/ (runActive /\ onDemand' # onDemand))
    /\ UNCHANGED <<envVars, clockVars, runVars, testVars, askVars, reloadDue, web, server, window>>

\* smb_window_is_due()
RunIsDue ==
    IF runActive THEN gap
    ELSE \/ manual
         \/ sinceRun = "first"
         \/ sinceRun \in {"recent", "hour"} /\ onDemand /\ gap /\ (want \/ stale)
         \/ sinceRun = "hour" /\ ~onDemand /\ sched

Decided == app \in {"on", "off"} /\ app' = "idle"
Open == app = "on" /\ card /\ link

\* The mirror is off, or /data is the internal volume.
Dropped ==
    /\ Decided /\ ~(app = "on" /\ card)
    /\ manual' = FALSE
    /\ UNCHANGED <<envVars, clockVars, runVars, onDemand, testVars, want, asked, reloadDue, web, server, window, flipped>>

\* Mutant: a request does not outlive a lost link.
NoLinkDropping ==
    /\ Decided /\ app = "on" /\ card /\ ~link
    /\ manual' = FALSE
    /\ UNCHANGED <<envVars, clockVars, runVars, onDemand, testVars, want, asked, reloadDue, web, server, window, flipped>>

NoLink ==
    /\ Decided /\ app = "on" /\ card /\ ~link
    /\ UNCHANGED <<envVars, clockVars, runVars, onDemand, testVars, askVars, reloadDue, web, server, window, flipped>>

NotDue ==
    /\ Decided /\ Open /\ ~RunIsDue
    /\ wait' = "no"
    /\ UNCHANGED <<envVars, gap, sinceRun, stale, runVars, onDemand, testVars, askVars, reloadDue, web, server, window, flipped>>

\* Somebody is using the page: a scheduled run waits, for ten minutes at most.
WaitsForQuiet ==
    /\ Decided /\ Open /\ RunIsDue /\ ~manual /\ ~runActive /\ wait # "expired"
    /\ wait' = "quiet"
    /\ UNCHANGED <<envVars, gap, sinceRun, stale, runVars, onDemand, testVars, askVars, reloadDue, web, server, window, flipped>>

\* No PSRAM for a mirror run's buffers.
NoBuffers ==
    /\ Decided /\ Open /\ RunIsDue /\ ~runActive /\ ~onDemand
    /\ wait' = "no"
    /\ UNCHANGED <<envVars, gap, sinceRun, stale, runVars, onDemand, testVars, askVars, reloadDue, web, server, window, flipped>>

BeginsRun ==
    /\ runActive' = TRUE
    /\ IF runActive THEN UNCHANGED <<manual, asked>> ELSE manual' = FALSE /\ asked' = FALSE
    /\ IF runActive \/ onDemand THEN UNCHANGED <<buffers, left, flipped>>
       ELSE buffers' = TRUE /\ left' = NoPlan /\ flipped' = FALSE

OpenWindow ==
    /\ Decided /\ Open /\ RunIsDue /\ BeginsRun
    /\ wait' = "no" /\ window' = "created"
    /\ UNCHANGED <<envVars, gap, sinceRun, stale, onDemand, testVars, want, reloadDue, web, server>>

\* xTaskCreate() fails: the run has begun, the window comes a gap later.
OpenFails ==
    /\ Decided /\ Open /\ RunIsDue /\ BeginsRun
    /\ wait' = "no" /\ gap' = FALSE
    /\ UNCHANGED <<envVars, sinceRun, stale, onDemand, testVars, want, reloadDue, web, server, window>>

Decide == Dropped \/ NoLink \/ NotDue \/ WaitsForQuiet \/ NoBuffers \/ OpenWindow \/ OpenFails

Tick == NoTest \/ TestCancelled \/ TestRefused \/ TestStarts \/ TickHeld \/ ReloadFirst \/ ReadConfig \/ Decide

-----------------------------------------------------------------------------
(* window_task() *)

\* httpd_stop() returns once no handler runs.
StopServer ==
    /\ window = "created" /\ web = "idle"
    /\ server' = FALSE /\ window' = "connect"
    /\ UNCHANGED <<envVars, clockVars, runVars, onDemand, testVars, askVars, reloadDue, app, web, flipped>>

Connect ==
    /\ window = "connect" /\ window' \in {"work", "over"}
    /\ UNCHANGED <<envVars, clockVars, runVars, onDemand, testVars, askVars, reloadDue, app, web, server, flipped>>

\* On demand: what was wanted is fetched, and the catalogue's next folder is listed if due.
OnDemandWork ==
    /\ window = "work" /\ onDemand
    /\ want' \in {want, FALSE} /\ stale' \in {stale, FALSE}
    /\ window' = "over"
    /\ UNCHANGED <<envVars, gap, sinceRun, wait, runVars, onDemand, testVars, manual, asked, reloadDue,
                   app, web, server, flipped>>

\* The listing fails, or there is nowhere to put it.
PlanFails ==
    /\ window = "work" /\ ~onDemand /\ left = NoPlan
    /\ window' = "over"
    /\ UNCHANGED <<envVars, clockVars, runVars, onDemand, testVars, askVars, reloadDue, app, web, server, flipped>>

\* A window gets through part of the plan; a later one through one file at least.
MirrorWork ==
    /\ window = "work" /\ ~onDemand
    /\ IF left = NoPlan THEN buffers /\ left' \in 0..MaxWindows ELSE left > 0 /\ left' \in 0..(left - 1)
    /\ window' = IF left' = 0 THEN "over" ELSE "restart"
    /\ stale' \in IF left' = 0 THEN {stale, FALSE} ELSE {stale}
    /\ UNCHANGED <<envVars, gap, sinceRun, wait, runActive, buffers, onDemand, testVars, askVars, reloadDue,
                   app, web, server, flipped>>

RunOver ==
    /\ window = "over" /\ window' = "restart"
    /\ sinceRun' = "recent"
    /\ UNCHANGED <<envVars, gap, stale, wait, onDemand, testVars, askVars, reloadDue, app, web, server, flipped>>

\* Mutant: only a run that got through its plan is over.
EndRunIfPlanned ==
    /\ RunOver
    /\ runActive' = (left = NoPlan)
    /\ IF onDemand THEN UNCHANGED <<buffers, left>> ELSE buffers' = FALSE /\ left' = NoPlan

\* The run is over, its plan done or the session failed; the two kinds free what is theirs.
EndRun ==
    /\ RunOver
    /\ runActive' = FALSE
    /\ IF onDemand THEN UNCHANGED <<buffers, left>> ELSE buffers' = FALSE /\ left' = NoPlan

\* restart_server(): up again, or down after five attempts.
RestartServer ==
    /\ window = "restart" /\ window' = "leaving"
    /\ server' \in BOOLEAN
    /\ UNCHANGED <<envVars, clockVars, runVars, onDemand, testVars, askVars, reloadDue, app, web, flipped>>

Leave ==
    /\ window = "leaving" /\ window' = "off"
    /\ gap' = FALSE
    /\ UNCHANGED <<envVars, sinceRun, stale, wait, runVars, onDemand, testVars, askVars, reloadDue,
                   app, web, server, flipped>>

WindowTask == StopServer \/ Connect \/ OnDemandWork \/ PlanFails \/ MirrorWork \/ EndRun \/ RestartServer \/ Leave

-----------------------------------------------------------------------------
(* test_task() *)

TestConnects ==
    /\ test = "created" /\ test' = "connected" /\ testState' = "running"
    /\ UNCHANGED <<envVars, clockVars, runVars, onDemand, testRequest, askVars, reloadDue, taskVars, flipped>>

TestDone ==
    /\ test = "connected" /\ test' = "off" /\ testState' = "done"
    /\ UNCHANGED <<envVars, clockVars, runVars, onDemand, testRequest, askVars, reloadDue, taskVars, flipped>>

TestTask == TestConnects \/ TestDone

Surroundings == LinkChanges \/ ScheduleChanges \/ Want \/ MediaFound
Requests == SaveMirror \/ RequestRun \/ RequestTest \/ Rescan
Handlers == SaveOnDemand \/ SayQueued \/ Rescanned

Next == Surroundings \/ Requests \/ Handlers \/ TimePasses \/ Tick \/ Loaded \/ WindowTask \/ TestTask

Spec == Init /\ [][Next]_vars

\* Every task is scheduled, time passes, and memory for a window is not short for ever.
FairSpec ==
    /\ Spec
    /\ WF_vars(Handlers) /\ WF_vars(Tick \/ Loaded) /\ WF_vars(WindowTask) /\ WF_vars(TestTask)
    /\ SF_vars(GapPasses /\ TimePasses) /\ SF_vars(OpenWindow)

-----------------------------------------------------------------------------
(* Properties. *)

\* libsmb2 has one session, and a run owns it across all of its windows: a connect test
\* runs neither under a window nor in the gap between two of a run (service_test()).
OneSession == test # "off" => ~runActive /\ window = "off"

\* The manifest and the catalogue are never reloaded under a window that is past the
\* web server's stop, whichever task noticed the other volume: the loads "rewrite the
\* structures it is reading" (app_smb_sync_media_changed()).
ReloadAlone ==
    (app \in {"loading", "reloading"} \/ web = "loading") => window \in {"off", "created"}

\* Buffers outlive a run only when the on-demand setting was switched between its windows.
BuffersFollowRun == buffers => runActive \/ flipped

\* "the window task must not see it change mid-window" (config_load()).
WindowSeesOneConfig == [][window # "off" => onDemand' = onDemand]_vars

\* A run asked for begins, while the mirror stays on and the card in, once there is a link.
RunServed == asked ~> ~asked \/ ~link

\* A test asked for is answered, unless a run that cannot go on is in its way.
TestAnswered == testRequest ~> ~testRequest \/ (runActive /\ ~(conf.enabled /\ card /\ link))

\* What the page asks of the mirror is served.
RequestsServed == RunServed /\ TestAnswered
=============================================================================

------------------------- MODULE SmbSchedule_proofs -------------------------
(***************************************************************************)
(* Proofs about SmbSchedule: the single session of libsmb2 is held by one   *)
(* run or one test, nothing is reloaded or reconfigured under a window, and *)
(* buffers are freed, for plans of any length and any number of events.       *)
(***************************************************************************)
EXTENDS SmbSchedule, TLAPS

USE DEF envVars, clockVars, runVars, testVars, askVars, taskVars

\* Past its guards, a tick has no test and no window beside it until it opens one.
TickAlone == app \in {"config", "on", "off", "reloading"} => test = "off" /\ window = "off"

\* The main loop's reload and the web server's: no window begins during the first, and
\* none gets past the web server's stop during the second.
LoadingAlone ==
    /\ app = "loading" => window = "off"
    /\ web = "loading" => window \in {"off", "created"}

Alone == OneSession /\ TickAlone /\ LoadingAlone

LEMMA InitAlone == Init => Alone
BY DEF Init, Alone, OneSession, TickAlone, LoadingAlone

\* What surrounds the tasks, and the handlers, leave the tests and the windows alone.
LEMMA OthersKeepAlone ==
    ASSUME Alone, Surroundings \/ Requests \/ Handlers \/ TimePasses
    PROVE  Alone'
<1> USE DEF Alone, OneSession, TickAlone, LoadingAlone
<1>1. CASE LinkChanges \/ ScheduleChanges \/ Want
  BY <1>1 DEF LinkChanges, ScheduleChanges, Want
<1>2. CASE MediaFound
  BY <1>2 DEF MediaFound, MediaChanged
<1>3. CASE SaveMirror \/ RequestRun \/ RequestTest
  BY <1>3 DEF SaveMirror, RequestRun, RequestTest
<1>4. CASE Rescan
  BY <1>4 DEF Rescan, MediaChanged
<1>5. CASE SaveOnDemand \/ SayQueued \/ Rescanned
  BY <1>5 DEF SaveOnDemand, SayQueued, Rescanned
<1>6. CASE TimePasses
  BY <1>6 DEF TimePasses
<1> QED
  BY <1>1, <1>2, <1>3, <1>4, <1>5, <1>6 DEF Surroundings, Requests, Handlers

\* The tick starts a test or opens a window, never both.
LEMMA TickKeepsAlone ==
    ASSUME Alone, Tick \/ Loaded
    PROVE  Alone'
<1> USE DEF Alone, OneSession, TickAlone, LoadingAlone
<1>1. CASE NoTest
  BY <1>1 DEF NoTest
<1>2. CASE TestCancelled \/ TestRefused \/ TestStarts
  BY <1>2 DEF TestCancelled, TestRefused, TestStarts, TestServed, TestDue
<1>3. CASE TickHeld \/ ReloadFirst \/ ReadConfig
  BY <1>3 DEF TickHeld, ReloadFirst, ReadConfig, Held
<1>4. CASE Dropped \/ NoLink \/ NotDue \/ WaitsForQuiet \/ NoBuffers
  BY <1>4 DEF Decided, Dropped, NoLink, NotDue, WaitsForQuiet, NoBuffers
<1>5. CASE OpenWindow
  BY <1>5 DEF OpenWindow, Decided, Open
<1>6. CASE OpenFails
  BY <1>6 DEF OpenFails, Decided, Open
<1>7. CASE Loaded
  BY <1>7 DEF Loaded
<1> QED
  BY <1>1, <1>2, <1>3, <1>4, <1>5, <1>6, <1>7 DEF Tick, Decide

LEMMA TasksKeepAlone ==
    ASSUME Alone, WindowTask \/ TestTask
    PROVE  Alone'
<1> USE DEF Alone, OneSession, TickAlone, LoadingAlone
<1>1. CASE StopServer
  BY <1>1 DEF StopServer
<1>2. CASE Connect \/ OnDemandWork \/ PlanFails \/ MirrorWork
  BY <1>2 DEF Connect, OnDemandWork, PlanFails, MirrorWork
<1>3. CASE EndRun
  BY <1>3 DEF EndRun, RunOver
<1>4. CASE RestartServer \/ Leave
  BY <1>4 DEF RestartServer, Leave
<1>5. CASE TestTask
  BY <1>5 DEF TestTask, TestConnects, TestDone
<1> QED
  BY <1>1, <1>2, <1>3, <1>4, <1>5 DEF WindowTask

LEMMA NextKeepsAlone == Alone /\ [Next]_vars => Alone'
<1> SUFFICES ASSUME Alone, [Next]_vars PROVE Alone'
  OBVIOUS
<1>1. CASE UNCHANGED vars
  BY <1>1 DEF vars, Alone, OneSession, TickAlone, LoadingAlone
<1> QED
  BY <1>1, OthersKeepAlone, TickKeepsAlone, TasksKeepAlone DEF Next

LEMMA AlwaysAlone == Spec => []Alone
BY InitAlone, NextKeepsAlone, PTL DEF Spec

\* A test never shares the session with a run, under a window of it or between two.
THEOREM SessionHeldOnce == Spec => []OneSession
<1>1. Alone => OneSession
  BY DEF Alone
<1> QED
  BY <1>1, AlwaysAlone, PTL

\* The manifest and the catalogue are not reloaded under a window past its first step.
THEOREM ReloadsAlone == Spec => []ReloadAlone
<1>1. Alone => ReloadAlone
  BY DEF Alone, TickAlone, LoadingAlone, ReloadAlone
<1> QED
  BY <1>1, AlwaysAlone, PTL

\* The on-demand setting a window runs under does not change beneath it.
THEOREM OneConfigPerWindow == Spec => WindowSeesOneConfig
<1>1. Alone /\ [Next]_vars => [window # "off" => onDemand' = onDemand]_vars
  <2> SUFFICES ASSUME Alone, Next, window # "off" PROVE onDemand' = onDemand
    BY DEF vars
  <2>1. CASE Surroundings \/ Requests \/ Handlers \/ TimePasses
    BY <2>1 DEF Surroundings, LinkChanges, ScheduleChanges, Want, MediaFound, Requests, SaveMirror,
                RequestRun, RequestTest, Rescan, Handlers, SaveOnDemand, SayQueued, Rescanned, TimePasses
  <2>2. CASE TestCancelled \/ TestRefused \/ TestStarts
    BY <2>2 DEF TestCancelled, TestRefused, TestStarts, TestServed, TestDue
  <2>3. CASE ReadConfig
    BY <2>3 DEF ReadConfig, Held, Alone, TickAlone
  <2>4. CASE NoTest \/ TickHeld \/ ReloadFirst \/ Loaded
    BY <2>4 DEF NoTest, TickHeld, ReloadFirst, Loaded
  <2>5. CASE Decide
    BY <2>5 DEF Decide, Dropped, NoLink, NotDue, WaitsForQuiet, NoBuffers, OpenWindow, OpenFails
  <2>6. CASE WindowTask \/ TestTask
    BY <2>6 DEF WindowTask, StopServer, Connect, OnDemandWork, PlanFails, MirrorWork, EndRun, RunOver,
                RestartServer, Leave, TestTask, TestConnects, TestDone
  <2> QED
    BY <2>1, <2>2, <2>3, <2>4, <2>5, <2>6 DEF Next, Tick
<1> QED
  BY <1>1, AlwaysAlone, PTL DEF Spec, WindowSeesOneConfig

-----------------------------------------------------------------------------
\* A mirror run's buffers are freed as long as it stays a mirror run.
Owned == BuffersFollowRun /\ (buffers /\ onDemand => flipped)

LEMMA InitOwned == Init => Owned
BY DEF Init, Owned, BuffersFollowRun

LEMMA NextKeepsOwned ==
    ASSUME Owned, [Next]_vars
    PROVE  Owned'
<1> USE DEF Owned, BuffersFollowRun
<1>1. CASE Surroundings \/ Requests \/ Handlers \/ TimePasses
  BY <1>1 DEF Surroundings, LinkChanges, ScheduleChanges, Want, MediaFound, Requests, SaveMirror,
              RequestRun, RequestTest, Rescan, Handlers, SaveOnDemand, SayQueued, Rescanned, TimePasses
<1>2. CASE TestCancelled \/ TestRefused \/ TestStarts
  BY <1>2 DEF TestCancelled, TestRefused, TestStarts, TestServed, TestDue
<1>3. CASE ReadConfig
  BY <1>3 DEF ReadConfig
<1>4. CASE NoTest \/ TickHeld \/ ReloadFirst \/ Loaded
  BY <1>4 DEF NoTest, TickHeld, ReloadFirst, Loaded
<1>5. CASE Dropped \/ NoLink \/ NotDue \/ WaitsForQuiet \/ NoBuffers
  BY <1>5 DEF Dropped, NoLink, NotDue, WaitsForQuiet, NoBuffers
<1>6. CASE OpenWindow \/ OpenFails
  BY <1>6 DEF OpenWindow, OpenFails, BeginsRun
<1>7. CASE WindowTask
  <2>1. CASE StopServer \/ Connect \/ PlanFails
    BY <2>1 DEF StopServer, Connect, PlanFails
  <2>2. CASE OnDemandWork \/ MirrorWork
    <3>1. UNCHANGED <<runActive, buffers, onDemand, flipped>>
      BY <2>2 DEF OnDemandWork, MirrorWork
    <3> QED
      BY <3>1
  <2>3. CASE EndRun
    BY <2>3 DEF EndRun, RunOver
  <2>4. CASE RestartServer \/ Leave
    BY <2>4 DEF RestartServer, Leave
  <2> QED
    BY <1>7, <2>1, <2>2, <2>3, <2>4 DEF WindowTask
<1>8. CASE TestTask
  BY <1>8 DEF TestTask, TestConnects, TestDone
<1>9. CASE UNCHANGED vars
  BY <1>9 DEF vars
<1> QED
  BY <1>1, <1>2, <1>3, <1>4, <1>5, <1>6, <1>7, <1>8, <1>9 DEF Next, Tick, Decide

\* Buffers outlive a run only when the on-demand setting was switched between its windows.
THEOREM BuffersFreed == Spec => []BuffersFollowRun
<1>1. Owned /\ [Next]_vars => Owned'
  BY NextKeepsOwned
<1>2. Owned => BuffersFollowRun
  BY DEF Owned
<1> QED
  BY <1>1, <1>2, InitOwned, PTL DEF Spec
=============================================================================

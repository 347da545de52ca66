------------------------------- MODULE Maint -------------------------------
(***************************************************************************)
(* Panel maintenance: src/src/app/app_maint.c with the sequences of         *)
(* core/epd_maint_course.c and the schedule of core/app_schedule.c.  A      *)
(* sequence of flat colours goes to the panel one refresh at a time, from   *)
(* the tick of the main loop; the same loop draws the photographs, and the  *)
(* web server's task asks for sequences, for stops and for photographs in   *)
(* between.  The panel is the one slot of app_display.c.                    *)
(***************************************************************************)
EXTENDS Naturals, Sequences

CONSTANTS
    HoursPerDay,      \* 24
    Cycles,           \* the repeat counts of a clear, 1..EPD_MAINT_CLEAR_CYCLES_MAX
    BlacksPerCycle,   \* EPD_MAINT_CLEAR_BLACKS_PER_CYCLE
    Course,           \* k_course: the colours of the colour course
    Configs,          \* settings the user has saved
    Interventions,    \* bound: how often a user asks for something, or a refresh fails
    LastHour,         \* bound: the hours that strike
    None

Hour == 0..(HoursPerDay - 1)

ASSUME ClockAssumption == HoursPerDay \in Nat \ {0} /\ LastHour \in Nat
ASSUME SequenceAssumption ==
    /\ BlacksPerCycle \in Nat \ {0} /\ Cycles \subseteq Nat \ {0} /\ 1 \in Cycles
    /\ Course \in Seq(STRING) \ {<<>>} /\ Course[Len(Course)] = "white"
ASSUME ConfigAssumption ==
    Configs \subseteq [low : BOOLEAN, start : Hour, end : Hour,    \* the active hours
                       park : BOOLEAN, deep : BOOLEAN]              \* the standby

VARIABLES
    hours, known, today,     \* the clock: hours since a midnight, set or not, maint_day or not
    cfg,                     \* the settings
    pc,                      \* how far the main loop has come in this tick
    want,                    \* s_want_start, _clear, _cycles, _stop
    active, seq, spread, next, prime, due,   \* the sequence: s_course_active, s_steps's colours,
                             \* s_spread, s_step, s_prime_white, s_next_step_ms is over
    edge, parked,            \* s_sched_known and s_sched_active, s_parked
    settle,                  \* whose settle window of the slideshow is open
    slot, inflight, glass,   \* the panel: what waits, what is drawn, what it shows
    events,                  \* requests and failures so far
    seen, failed,            \* ghost: how far the glass has shown the flats of this sequence in
                             \* order, and the flats the panel failed to draw
    spoilt,                  \* ghost: the last refresh failed
    lost,                    \* ghost: one was replaced in the slot by somebody else
    late,                    \* ghost: the settle window was open when the sequence began
    stopped,                 \* ghost: flats asked for since a stop was posted, None before
    touched                  \* ghost: somebody has touched the panel since it was parked

clockVars == <<hours, known, today, cfg>>
courseVars == <<active, seq, spread, next, prime, due>>
edgeVars == <<edge, parked>>
panelVars == <<slot, inflight, glass>>
flatVars == <<seen, failed, lost>>
ghostVars == <<flatVars, spoilt, late, stopped, touched>>
vars == <<clockVars, pc, want, courseVars, edgeVars, settle, panelVars, events, ghostVars>>

-----------------------------------------------------------------------------
(* core/app_schedule.c and core/epd_maint_course.c *)

hour == hours % HoursPerDay

\* app_schedule_active(): open unless the schedule is on, the hour is known and the
\* window is one; a window may wrap midnight.
InWindow(h, start, end) ==
    CASE start < end -> start <= h /\ h < end
      [] start > end -> start <= h \/ h < end
      [] start = end -> TRUE
Active == cfg.low /\ known => InWindow(hour, cfg.start, cfg.end)

ClearStepsEven(cycles) == 2 * BlacksPerCycle * cycles    \* mutant
ClearSteps(cycles) == 2 * BlacksPerCycle * cycles + 1
Clear(cycles) == [i \in 1..ClearSteps(cycles) |-> IF i % 2 = 1 THEN "white" ELSE "black"]

Sequences == {Course} \cup {Clear(c) : c \in Cycles}

-----------------------------------------------------------------------------
(* The panel. *)

Asks == events < Interventions /\ events' = events + 1

\* n is the place of a flat in its sequence; 0 is the leading white, or no flat.
Pictures == [pic : {"photo"} \cup UNION {{s[i] : i \in DOMAIN s} : s \in Sequences}, n : Nat]
White == [pic |-> "white", n |-> 0]
Photograph == [pic |-> "photo", n |-> 0]

ASSUME NoneAssumption == None \notin Pictures

Busy == slot # None \/ inflight # None

\* app_display_request() and its siblings: one request replaces any that waits.
Post(p) == slot' = p /\ UNCHANGED <<inflight, glass>>
Replaces == slot # None /\ slot.n > 0

\* What a finished refresh has shown of the sequence: a flat counts once those before it have
\* been on the glass, or have failed.
Shows(n) ==
    /\ seen' = IF n \in 1..next /\ (seen + 1)..(n - 1) \subseteq failed THEN n ELSE seen
    /\ UNCHANGED failed
Misses(n) == failed' = failed \cup ({n} \cap 1..next) /\ UNCHANGED seen

Drawn ==
    /\ inflight = None /\ slot # None
    /\ inflight' = slot /\ slot' = None
    /\ spoilt' = FALSE
    /\ UNCHANGED <<glass, events, seen, failed>>
\* A refresh that fails is counted and never repeated: the glass is left as it was, or as it
\* came out.
Refreshed ==
    /\ inflight # None
    /\ inflight' = None
    /\ \/ glass' = inflight.pic /\ spoilt' = FALSE /\ Shows(inflight.n) /\ UNCHANGED events
       \/ glass' \in {glass, inflight.pic} /\ spoilt' = TRUE /\ Misses(inflight.n) /\ Asks
    /\ UNCHANGED slot
Panel ==
    /\ Drawn \/ Refreshed
    /\ UNCHANGED <<clockVars, pc, want, courseVars, edgeVars, settle>>
    /\ UNCHANGED <<lost, late, stopped, touched>>

\* What waits, what is drawn, or what the glass shows, is white, unless its refresh failed.
RestsWhite ==
    IF slot # None THEN slot.pic = "white"
    ELSE IF inflight # None THEN inflight.pic = "white"
    ELSE glass = "white" \/ spoilt

-----------------------------------------------------------------------------

TypeOK ==
    /\ hours \in 0..(LastHour + HoursPerDay) /\ known \in BOOLEAN
    /\ today \in BOOLEAN /\ cfg \in Configs
    /\ pc \in {"slides", "requests", "begin", "edge", "step"}
    /\ want \in [start : BOOLEAN, cycles : Cycles \cup {0}, stop : BOOLEAN]
    /\ active \in BOOLEAN /\ seq \in Sequences /\ spread \in BOOLEAN
    /\ next \in 0..Len(seq) /\ prime \in BOOLEAN /\ due \in BOOLEAN
    /\ edge \in {"unknown", "open", "closed"} /\ parked \in BOOLEAN
    /\ settle \in {"none", "auto", "user"}
    /\ slot \in Pictures \cup {None} /\ inflight \in Pictures \cup {None}
    /\ glass \in {p.pic : p \in {White, Photograph}} \cup {Course[i] : i \in DOMAIN Course}
    /\ events \in 0..Interventions
    /\ seen \in Nat /\ failed \subseteq Nat /\ lost \in BOOLEAN
    /\ spoilt \in BOOLEAN /\ late \in BOOLEAN
    /\ stopped \in 0..2 \cup {None} /\ touched \in BOOLEAN

Init ==
    /\ hours \in Hour /\ known = FALSE /\ today \in BOOLEAN /\ cfg \in Configs
    /\ pc = "slides"
    /\ want = [start |-> FALSE, cycles |-> 0, stop |-> FALSE]
    /\ active = FALSE /\ seq = Course /\ spread = FALSE /\ next = 0 /\ prime = FALSE /\ due = FALSE
    /\ edge = "unknown" /\ parked = FALSE
    /\ settle = "none" /\ slot = None /\ inflight = None /\ glass = "photo"
    /\ events = 0
    /\ seen = 0 /\ failed = {} /\ lost = FALSE
    /\ spoilt = FALSE /\ late = FALSE /\ stopped = None /\ touched = FALSE

-----------------------------------------------------------------------------
(* A tick of the main loop. *)

\* app_slideshow_update(): a settle window that has closed draws its photograph once the
\* panel is idle; an advance that is due opens one, unless the schedule or a sequence
\* holds it.
MayAdvanceAnyway == settle = "none" /\ ~Busy /\ Active    \* mutant: before ticket 68
MayAdvance == settle = "none" /\ ~Busy /\ Active /\ ~active

Slides ==
    /\ pc = "slides" /\ pc' = "requests"
    /\ \/ UNCHANGED <<settle, panelVars>>
       \/ settle # "none" /\ ~Busy /\ settle' = "none" /\ Post(Photograph)
       \/ MayAdvance /\ settle' = "auto" /\ UNCHANGED panelVars
    /\ UNCHANGED <<clockVars, want, courseVars, edgeVars, events, ghostVars>>

FinishIfFast ==    \* mutant: a spread course starts over
    /\ active' = spread /\ prime' = FALSE /\ next' = 0 /\ due' = FALSE /\ stopped' = None
    /\ seen' = 0 /\ failed' = {} /\ UNCHANGED <<seq, spread, lost, late>>
\* course_finish(); what else the sequence leaves behind is set again by the next one.
Finish ==
    /\ active' = FALSE /\ prime' = FALSE /\ seq' = Course /\ spread' = FALSE /\ next' = 0
    /\ due' = FALSE
    /\ stopped' = None /\ seen' = 0 /\ failed' = {} /\ lost' = FALSE /\ late' = FALSE
GoesOn == UNCHANGED <<courseVars, stopped, flatVars, late>>

Touching(now) == touched' = (touched \/ (parked /\ now))

\* Mutant: a stop is dropped while the sequence is at its start.
ServeStopPrimed ==
    /\ IF want.stop /\ active /\ next > 2 THEN Finish ELSE GoesOn
    /\ Touching(want.stop)

\* A stop is served before a start.
ServeStop ==
    /\ IF want.stop /\ active THEN Finish ELSE GoesOn
    /\ Touching(want.stop)

\* The flag of a start goes first; what was asked for is read after, and may be another
\* request's by then.
Requests ==
    /\ pc = "requests"
    /\ ServeStop
    /\ want' = [want EXCEPT !.stop = FALSE, !.start = FALSE]
    /\ pc' = IF want.start THEN "begin" ELSE "edge"
    /\ UNCHANGED <<clockVars, edgeVars, settle, panelVars, events, spoilt>>

\* course_start(): refused while one runs.
Begin(s, spreading, primed) ==
    IF active THEN UNCHANGED <<courseVars, late>>
    ELSE /\ active' = TRUE /\ seq' = s /\ spread' = spreading /\ next' = 0 /\ prime' = primed
         /\ due' = TRUE
         /\ late' = (settle # "none")

\* A course that a person starts is primed with white; a clear begins with one.
BeginWanted ==
    /\ pc = "begin" /\ pc' = "edge"
    /\ IF want.cycles = 0 THEN Begin(Course, FALSE, TRUE)
       ELSE Begin(Clear(want.cycles), FALSE, FALSE)
    /\ Touching(TRUE)
    /\ UNCHANGED <<clockVars, want, edgeVars, settle, panelVars, events, flatVars, spoilt, stopped>>

CourseDue == known /\ hour = cfg.end /\ today

\* on_window_closed(): the course wins on its own night; a panel that is parked needs no
\* leading white, and a deep standby is a clear.
ParkWhite == IF cfg.park THEN Post(White) ELSE UNCHANGED panelVars
WindowClosed ==
    /\ edge' = "closed" /\ parked' = (parked \/ cfg.park)
    /\ touched' = (cfg.park /\ (settle # "none" \/ (active /\ next = Len(seq) /\ ~RestsWhite)))
    /\ CASE CourseDue /\ ~active ->
              ParkWhite /\ Begin(Course, TRUE, ~cfg.park) /\ UNCHANGED lost
         [] ~CourseDue /\ cfg.park /\ cfg.deep ->
              Begin(Clear(1), FALSE, FALSE) /\ UNCHANGED <<panelVars, lost>>
         [] OTHER ->
              /\ ParkWhite
              /\ lost' = (lost \/ (active /\ cfg.park /\ Replaces))
              /\ UNCHANGED <<courseVars, late>>

\* Every ten seconds, and the first time of all, the schedule is looked at.  The first
\* observation is not an edge.
Edge ==
    /\ pc = "edge" /\ pc' = "step"
    /\ \/ edge = "unknown" /\ edge' = (IF Active THEN "open" ELSE "closed")
          /\ UNCHANGED <<parked, courseVars, panelVars, lost, late, touched>>
       \/ edge = "open" /\ ~Active /\ WindowClosed
       \/ edge = "closed" /\ Active /\ edge' = "open" /\ parked' = FALSE
          /\ UNCHANGED <<courseVars, panelVars, lost, late>> /\ touched' = FALSE
       \/ edge # "unknown"
          /\ UNCHANGED <<edgeVars, courseVars, panelVars, lost, late, touched>>
    /\ UNCHANGED <<clockVars, want, settle, events, seen, failed, spoilt, stopped>>

CountStopped == stopped' = IF stopped = None THEN None ELSE stopped + 1
\* The panel is idle when a first flat goes out: the count begins with it.
CountFlats ==
    IF next = 0 THEN seen' = 0 /\ failed' = {} /\ lost' = FALSE ELSE UNCHANGED flatVars

\* Mutant: the next flat goes out while the last is still drawn.
StepUnlessSlot ==
    /\ pc = "step" /\ pc' = "slides"
    /\ CASE ~active \/ ~due -> GoesOn /\ UNCHANGED panelVars
         [] active /\ due /\ prime ->
              /\ Post(White) /\ prime' = FALSE /\ due' = ~spread /\ CountStopped
              /\ UNCHANGED <<active, seq, spread, next, flatVars, late>>
         [] active /\ due /\ ~prime /\ next = Len(seq) -> Finish /\ UNCHANGED panelVars
         [] active /\ due /\ ~prime /\ next < Len(seq) ->
              /\ Post([pic |-> seq[next + 1], n |-> next + 1]) /\ CountStopped
              /\ next' = next + 1 /\ due' = ~spread /\ CountFlats
              /\ UNCHANGED <<active, seq, spread, prime, late>>
    /\ UNCHANGED <<clockVars, want, edgeVars, settle, events, spoilt, touched>>

\* course_step(): one flat at a time, and none while the panel is busy.
Step ==
    /\ pc = "step" /\ pc' = "slides"
    /\ CASE ~active \/ Busy \/ ~due -> GoesOn /\ UNCHANGED panelVars
         [] active /\ ~Busy /\ due /\ prime ->
              /\ Post(White) /\ prime' = FALSE /\ due' = ~spread /\ CountStopped
              /\ UNCHANGED <<active, seq, spread, next, flatVars, late>>
         [] active /\ ~Busy /\ due /\ ~prime /\ next = Len(seq) -> Finish /\ UNCHANGED panelVars
         [] active /\ ~Busy /\ due /\ ~prime /\ next < Len(seq) ->
              /\ Post([pic |-> seq[next + 1], n |-> next + 1]) /\ CountStopped
              /\ next' = next + 1 /\ due' = ~spread /\ CountFlats
              /\ UNCHANGED <<active, seq, spread, prime, late>>
    /\ UNCHANGED <<clockVars, want, edgeVars, settle, events, spoilt, touched>>

Main == Slides \/ Requests \/ BeginWanted \/ Edge \/ Step

-----------------------------------------------------------------------------
(* The web server's task, and time. *)

\* app_maint_start_course() and app_maint_start_clear()
PostStart(cycles) ==
    /\ ~active /\ ~want.start
    /\ want' = [want EXCEPT !.start = TRUE, !.cycles = cycles]
    /\ Asks
    /\ UNCHANGED <<clockVars, pc, courseVars, edgeVars, settle, panelVars, ghostVars>>

PostStop ==
    /\ want' = [want EXCEPT !.stop = TRUE]
    /\ stopped' = IF active /\ stopped = None THEN 0 ELSE stopped
    /\ Asks
    /\ UNCHANGED <<clockVars, pc, courseVars, edgeVars, settle, panelVars, flatVars, spoilt, late,
                   touched>>

\* A photograph or the white asked for on the page is posted at once, the white only
\* when no sequence runs.
PostPicture ==
    /\ \/ Post(Photograph)
       \/ ~active /\ Post(White)
    /\ lost' = (lost \/ (active /\ Replaces)) /\ Touching(TRUE)
    /\ Asks
    /\ UNCHANGED <<clockVars, pc, want, courseVars, edgeVars, settle, seen, failed, spoilt, late,
                   stopped>>

\* A press, or the page's next, opens a settle window.
Press ==
    /\ settle' = "user" /\ Touching(TRUE)
    /\ Asks
    /\ UNCHANGED <<clockVars, pc, want, courseVars, edgeVars, panelVars, flatVars, spoilt, late,
                   stopped>>

\* The hour strikes; the clock is set by the network; the next flat of a spread course
\* comes due.  An open window lets the slideshow at the panel.
Strikes ==
    /\ hours < LastHour /\ hours' = hours + 1
    /\ IF hour' = 0 THEN today' \in BOOLEAN ELSE UNCHANGED today
    /\ UNCHANGED <<known, cfg, due>>
Synced == ~known /\ known' = TRUE /\ UNCHANGED <<hours, today, cfg, due>>
ComesDue == active /\ ~due /\ due' = TRUE /\ UNCHANGED clockVars
Time ==
    /\ Strikes \/ Synced \/ ComesDue
    /\ Touching(Active')
    /\ UNCHANGED <<pc, want, active, seq, spread, next, prime, edgeVars, settle, panelVars, events,
                   flatVars, spoilt, late, stopped>>

Page ==
    \/ PostStop \/ PostPicture \/ Press
    \/ \E cycles \in Cycles \cup {0} : PostStart(cycles)

Next == Main \/ Panel \/ Page \/ Time

Spec == Init /\ [][Next]_vars

\* The main loop ticks, the panel finishes what it draws, and six minutes pass.
MaintFairness == WF_vars(Main) /\ WF_vars(Panel) /\ WF_vars(Time /\ ComesDue)

FairSpec == Spec /\ MaintFairness

-----------------------------------------------------------------------------
(* Properties. *)

\* A sequence that runs to its end has shown every one of its flats on the glass, in order,
\* whatever was drawn in between, save those whose refresh failed and unless somebody replaced
\* one in the slot (course_step: a step posted too early would discard a flat).  A failed flat
\* is not repeated, and the sequence is logged as done all the same.
Done == Step /\ active /\ ~active'
EveryFlat == Done /\ ~lost => (seen + 1)..Len(seq) \subseteq failed

\* No photograph of the automatic advance comes into a sequence, unless its settle window
\* was open when the sequence began (app_slideshow_update, ticket 68).
NoAdvance == Slides /\ active /\ slot' # slot /\ settle = "auto" => late

\* A sequence reaches the glass whole but for failed refreshes, and nothing automatic comes into
\* it.
SequenceIsWhole == [][EveryFlat /\ NoAdvance]_vars

\* At most one more flat goes out after a stop (app_maint_tick: a stop posted during a
\* course takes effect before another step goes out; the one of the same tick may).
StopsInTime == stopped = None \/ stopped <= 1

\* A panel that was parked stays white while the window is closed and nobody touches it,
\* whatever the standby, the course of the week, a sequence that ran at the edge and the clock
\* do meanwhile (on_window_closed).  The last refresh may have failed: nothing repeats it, and
\* the panel keeps what it showed.
ParkedIsWhite == parked /\ ~touched /\ ~active /\ ~Busy /\ ~spoilt => glass = "white"

\* A sequence that is stopped stops, and the night is spent on white.
ParksInTime == StopsInTime /\ ParkedIsWhite

\* A sequence ends, once people leave the panel alone.
SequenceEnds == active ~> ~active
=============================================================================

------------------------------ MODULE OnDemand ------------------------------
(***************************************************************************)
(* The on-demand cache of src/src/app/app_smb_sync.c beside the slideshow   *)
(* it serves: a window of the mirror fetches the photograph the slideshow   *)
(* asked for, lists the folder again, and evicts the oldest fetches.  The   *)
(* window is a task of its own: the main loop, and the button, go on while  *)
(* it runs.                                                                 *)
(***************************************************************************)
EXTENDS Slideshow, SequencesExt

CONSTANTS
    Shared,          \* the photographs the share may hold, a subset of Photo
    Interventions,   \* bound: how often the user, the share and the power intervene
    FilesPerWindow,  \* SMB_SYNC_FILES_PER_WINDOW
    CacheFiles,      \* SMB_SYNC_CACHE_FILES
    CacheMin,        \* SMB_SYNC_CACHE_MIN_FILES
    EvictPerWindow   \* SMB_SYNC_EVICT_PER_WINDOW

ASSUME CacheAssumption == CacheMin <= CacheFiles /\ Shared \subseteq Photo /\ IsFiniteSet(Shared)

VARIABLES
    share,    \* the folder on the server, in listing order
    events,   \* interventions so far
    have,     \* s_have: the local names, oldest fetch first
    stored,   \* .smbidx on the card
    pc,       \* where window_task() is
    fetched,  \* photographs it has asked the server for
    dirty,    \* it landed or evicted something
    spared,   \* the names a walk of the eviction read before it started, None until then
    dropped   \* the records the walk has dropped

windowVars == <<pc, fetched, dirty, spared, dropped>>
vars == <<slideVars, share, events, have, stored, windowVars>>

Walks == {"room", "trim"}
Unread == {NoPhoto}

\* The two indices the slideshow keeps always name a photograph of the list it holds,
\* whatever comes and goes under them (clamp_locked).
TypeOK ==
    /\ card \subseteq Photo /\ show \in ShowType
    /\ cat \in Seq(Shared) /\ share \in Seq(Shared) /\ events \in 0..Interventions
    /\ have \in Seq(Shared) /\ stored \in Seq(Shared)
    /\ pc \in {"idle", "fetch", "list"} \cup Walks
    /\ fetched \in 0..FilesPerWindow /\ dirty \in BOOLEAN
    /\ spared \in (SUBSET Photo) \cup {Unread} /\ dropped \in 0..EvictPerWindow
    /\ steps \in BOOLEAN
    /\ show.list # {} => \A i \in {show.cur, show.pend} :
                             i = NoPhoto \/ i < Cardinality(show.list)

Idle == pc = "idle" /\ fetched = 0 /\ dirty = FALSE /\ spared = Unread /\ dropped = 0

Init ==
    /\ mode \in Modes
    /\ card \in SUBSET Photo /\ (mode.onDemand => card \cap Shared = {})
    /\ SlideshowInit
    /\ share = SetToSeq(Shared) /\ events = 0
    /\ have = <<>> /\ stored = <<>>
    /\ Idle

NameAt(i) == IF i # NoPhoto /\ i < Cardinality(show.list) THEN {At(show.list, i)} ELSE {}

-----------------------------------------------------------------------------
(* The window. *)

\* board_smb_connect(), and what is left to do then: fetch, only list for want of
\* room, or neither for want of a session.
Connects == pc' \in {"fetch", "list", "trim"}

\* app_smb_sync_tick() opens one for a want, or by the hour.  cache_has_room() finds
\* the reserve free, or cannot read the volume, or has to evict first.
Open ==
    /\ pc = "idle" /\ mode.onDemand
    /\ Connects \/ (pc' = "room" /\ Len(have) > CacheMin)
    /\ UNCHANGED <<slideVars, share, events, have, stored, fetched, dirty, spared, dropped>>

Without(s, p) == RemoveAt(s, First({i \in DOMAIN s : s[i] = p}))

\* A fetched photograph replaces its own record, so that record order is fetch order.
Appended(h, p) == Append(h, p)    \* mutant: the duplicate records of 2026-09-06
Recorded(h, p) == Append(IF p \in ToSet(h) THEN Without(h, p) ELSE h, p)

MayFetch == pc = "fetch" /\ show.want # NoPhoto /\ fetched < FilesPerWindow

\* The want is popped and resolved against the catalogue of now; one that no longer
\* resolves, or is empty or too large, is dropped.  The photograph may have gone, or
\* the session with it.
Fetch ==
    /\ MayFetch
    /\ show' = [show EXCEPT !.want = NoPhoto]
    /\ IF show.want >= Len(cat)
       THEN UNCHANGED <<pc, card, have, fetched, dirty>>
       ELSE LET p == cat[show.want + 1] IN
            \/ UNCHANGED <<pc, card, have, fetched, dirty>>
            \/ /\ p \in ToSet(share)
               /\ card' = card \cup {p} /\ have' = Recorded(have, p) /\ dirty' = TRUE
               /\ fetched' = fetched + 1 /\ UNCHANGED pc
            \/ /\ fetched' = fetched + 1
               /\ Connects /\ UNCHANGED <<card, have, dirty>>
    /\ UNCHANGED <<cat, mode, share, events, stored, spared, dropped, steps>>

\* Nothing more is wanted, or the time or the budget of the window is spent.
StopFetching ==
    /\ pc = "fetch"
    /\ pc' \in {"list", "trim"}
    /\ UNCHANGED <<slideVars, share, events, have, stored, fetched, dirty, spared, dropped>>

\* catalogue_next_folder(), on a share of one folder; the listing may fail.
List ==
    /\ pc = "list"
    /\ cat' \in {cat, share}
    /\ pc' = "trim"
    /\ UNCHANGED <<card, show, mode, steps, share, events, have, stored, fetched, dirty, spared,
                   dropped>>

-----------------------------------------------------------------------------
(* The eviction, before the window's session for room and after it for the count. *)

Floor == IF pc = "room" THEN CacheMin ELSE CacheFiles
Droppable == {i \in DOMAIN have : have[i] \notin spared}
Walking == Len(have) > Floor /\ dropped < EvictPerWindow /\ Droppable # {}

\* evict_to_cache_limit() asks once what is on the glass, about to be, and wanted.
SparesShown == NameAt(show.cur) \cup NameAt(show.pend)
SparesWanted == IF show.want # NoPhoto /\ show.want < Len(cat) THEN {cat[show.want + 1]} ELSE {}

StartWalk ==
    /\ pc \in Walks /\ spared = Unread /\ Len(have) > Floor
    /\ spared' = SparesShown \cup SparesWanted
    /\ UNCHANGED <<slideVars, share, events, have, stored, pc, fetched, dirty, dropped>>

\* The oldest record that is not spared, and its file if the card lets it go.
Evict(p) ==
    /\ pc \in Walks /\ spared # Unread /\ Walking
    /\ LET i == First(Droppable) IN p = have[i] /\ have' = RemoveAt(have, i)
    /\ \E holds \in Holds : card' = IF holds THEN card \ {p} ELSE card
    /\ dropped' = dropped + 1 /\ dirty' = TRUE
    /\ UNCHANGED <<cat, show, mode, steps, share, events, stored, pc, fetched, spared>>

\* Mutant: the slideshow hears of what landed, and not of what was evicted.
ClosesOverEvictions ==
    /\ pc' = "idle" /\ fetched' = 0 /\ dirty' = FALSE
    /\ stored' = IF dirty THEN have ELSE stored
    /\ show' = [show EXCEPT !.inval = @ \/ (dirty /\ fetched > 0)]

\* The manifest is written once, and may not be; the slideshow hears of the card.
Closes ==
    /\ pc' = "idle" /\ fetched' = 0 /\ dirty' = FALSE
    /\ IF dirty
       THEN /\ \E holds \in Holds : stored' = IF holds THEN have ELSE stored
            /\ show' = [show EXCEPT !.inval = TRUE]
       ELSE UNCHANGED <<stored, show>>

EndWalk ==
    /\ pc \in Walks
    /\ IF spared = Unread THEN Len(have) <= Floor ELSE ~Walking
    /\ IF pc = "room" THEN Connects /\ UNCHANGED <<show, fetched, dirty, stored>> ELSE Closes
    /\ spared' = Unread /\ dropped' = 0
    /\ UNCHANGED <<card, cat, mode, steps, share, events, have>>

-----------------------------------------------------------------------------
(* Everything beside the window. *)

Elsewhere == UNCHANGED <<share, have, stored, windowVars>>
Intervenes == events < Interventions /\ events' = events + 1

Main ==
    /\ (\E open, busy \in BOOLEAN : Tick(open, busy)) \/ Advance \/ IntervalEnds
    /\ Elsewhere /\ UNCHANGED events

Button ==
    /\ \E forward \in BOOLEAN : Press(forward)
    /\ Elsewhere /\ Intervenes

\* The web server is down while a window is open.
Page ==
    /\ pc = "idle"
    /\ \/ \E p \in Photo : ShowName(p)
       \/ \E m \in Modes : SetMode(m)
    /\ Elsewhere /\ Intervenes

\* An upload or a deletion on the page.
UserChanges(p) ==
    /\ pc = "idle"
    /\ card' = IF p \in card THEN card \ {p} ELSE card \cup {p}
    /\ p \in card \/ p \notin Shared
    /\ show' = [show EXCEPT !.inval = TRUE]
    /\ Intervenes
    /\ UNCHANGED <<cat, mode, steps, share, have, stored, windowVars>>

ShareChanges(p) ==
    /\ share' = IF p \in ToSet(share) THEN Without(share, p) ELSE Append(share, p)
    /\ Intervenes
    /\ UNCHANGED <<slideVars, have, stored, windowVars>>

\* Power fails and the frame boots; .smbdir may not parse, RTC RAM may not answer.
Boot ==
    /\ \E ok \in BOOLEAN : show' = Started(show, StartIndex(show, card, ok), ok)
    /\ cat' \in {cat, <<>>} /\ have' = stored
    /\ pc' = "idle" /\ fetched' = 0 /\ dirty' = FALSE
    /\ spared' = Unread /\ dropped' = 0 /\ steps' = FALSE
    /\ Intervenes
    /\ UNCHANGED <<card, mode, share, stored>>

Window ==
    \/ Open \/ Fetch \/ StopFetching \/ List
    \/ StartWalk \/ EndWalk
    \/ \E p \in Shared : Evict(p)

Next ==
    \/ Window \/ Main \/ Button \/ Page \/ Boot
    \/ \E p \in Photo : UserChanges(p)
    \/ \E p \in Shared : ShareChanges(p)

Spec == Init /\ [][Next]_vars

\* The main loop ticks every 200 ms: the interval runs out, the schedule opens, the
\* panel comes to rest and a settle window closes.
Ticks == Tick(TRUE, FALSE) /\ Elsewhere /\ UNCHANGED events
\* When a tick has something to do, which is ENABLED <<Ticks>>_vars where no step is due.
Restless == show.inval \/ show.needs \/ (show.due /\ mode.auto)
FairSpec ==
    /\ Spec
    /\ WF_vars(IntervalEnds /\ Elsewhere /\ UNCHANGED events)
    /\ []<>~steps
    /\ []<>~Restless \/ []<><<Ticks>>_vars

-----------------------------------------------------------------------------
(* Properties. *)

\* A photograph has one record, whatever is fetched again after an eviction, so that
\* evicting a record never deletes a file another one still claims (ondemand_fetch).
OneRecordEach == IsInjective(have) /\ IsInjective(stored)

\* Between windows the list the slideshow steps through is what is on the card, or it has been
\* told to look again: whatever fetches, evictions, uploads and deletions change the card, and
\* whichever step, tick or restart reads it in the middle, nobody is left with a list of
\* photographs that have gone (app_slideshow_invalidate, rescan_locked).
ListIsTrue == ~dirty /\ ~show.inval => show.list = card

SameEpoch == show.over /\ show'.over /\ show.n = show'.n /\ show.n # 0
WalksCatalogue == mode.auto /\ mode.random /\ mode.onDemand

\* The catalogue's cursor leaves a photograph only once it has been drawn from the card or
\* given up after EPOCH_MISS_MAX advances, as long as the catalogue keeps its length
\* (catalog_step_locked).
CursorHolds == [][SameEpoch /\ show'.pos # show.pos => show.answered]_vars

\* The cursor holds its place and never sticks: as long as the user, the share and the power
\* leave it alone, every place of the epoch comes up again and again, whatever the windows do
\* and whatever cannot be fetched.
CursorHoldsAndGoesOn ==
    /\ CursorHolds
    /\ \A k \in 0..(Cardinality(Shared) - 1) :
           <>[](WalksCatalogue /\ Len(cat) > k) => []<>(show.pos = k)

\* A frame that shows nothing does not stay that way: a photograph that is on the card is drawn,
\* stepped to at once or by the next advance, and an empty card under a catalogue has one of its
\* photographs wanted, whatever windows open, hang or fail and whatever boots meanwhile (step():
\* returning early on an empty card "stayed blank for good with a whole catalogue listed").
BlankEnds ==
    /\ (show.cur = NoPhoto /\ card # {} /\ mode.auto)
           ~> (show.cur # NoPhoto \/ card = {} \/ ~mode.auto)
    /\ (card = {} /\ Len(cat) > 0 /\ WalksCatalogue)
           ~> (show.want # NoPhoto \/ card # {} \/ Len(cat) = 0 \/ ~WalksCatalogue)
=============================================================================

------------------------------ MODULE Gphotos ------------------------------
(***************************************************************************)
(* The Google Photos mirror: src/src/app/app_gphotos_sync.c with the        *)
(* settings it reads and writes.  A tick of the main loop starts a task     *)
(* that fetches the photograph the slideshow wants, and reads the albums:   *)
(* each slot's link is read in turn, by the set of rules on trial if there  *)
(* is one.  Meanwhile the web server's task saves links.                    *)
(***************************************************************************)
EXTENDS GphotosRules, Sift, SequencesExt

CONSTANTS
    Slots,            \* APP_SETTINGS_GPHOTOS_SLOTS
    Link, NoLink,     \* albums; "" is no link
    Key,              \* photographs
    None,
    CacheFiles,       \* GPHOTOS_CACHE_FILES
    ListMax,          \* GPHOTOS_MAX_PHOTOS
    Reads,            \* the rule sets that find an album's photographs
    FirstLinks,       \* the links a user may have saved before
    FirstAlbums,      \* what the albums may hold at first
    Interventions     \* bound: how often the user, the albums and the power intervene

Slot == 1..Slots
Links == Link \cup {NoLink}
List == {None} \cup SUBSET Key

ASSUME GphotosAssumption ==
    /\ {Slots, CacheFiles, ListMax} \subseteq Nat \ {0} /\ Reads \subseteq File
    /\ NoLink \notin Link /\ None \notin Key /\ \A S \in SUBSET Key : S # None
    /\ FirstLinks \subseteq [Slot -> Links] /\ FirstAlbums \subseteq [Link -> SUBSET Key]

VARIABLES
    album,            \* what Google serves
    on, link, good,   \* the settings: the switch, s_gphotos_album, s_gphotos_good
    lists, files,     \* s_lists, and .gpdir<slot>
    index,            \* .gpidx: the photographs kept, oldest first
    want, request,    \* s_want_key, s_list_request
    period,           \* how far s_last_list_end_us is back
    tick,             \* the main loop, between a test of the tick and what it does then
    pc, work,         \* the task, and s_work
    slot, url,        \* the slot being read, and its link
    by,               \* the set of rules in do_list's copy, 0 without memory for it
    whole, ok,        \* locals of do_list, for a trial: any_whole but for any_ok, any_ok
    events,           \* interventions so far
    saved,            \* ghost: the link the user saved last, per slot
    fate,             \* ghost: what has become of it
    held,             \* ghost: the list each slot's album gave when it was last read whole
    lost              \* ghost: the slots whose list so read did not come back from the card

settingVars == <<on, link, good>>
listVars == <<lists, files, held, lost>>
tickVars == <<request, period, tick>>
slotVars == <<slot, url, by, whole, ok>>
ghostVars == <<saved, fate>>
vars == <<rulesVars, album, settingVars, listVars, index, want, tickVars, pc, work, slotVars,
          events, ghostVars>>

Enabled == on /\ \E s \in Slot : link[s] # NoLink

Contents(l) == IF l = None THEN {} ELSE l

\* The list an album gives: the album, or as much of it as a list holds (on_item()).
Cut(c) == {l \in SUBSET c : IF Cardinality(c) <= ListMax THEN l = c ELSE Cardinality(l) = ListMax}
Selectable == UNION {Contents(lists[s]) : s \in Slot}

\* What a save comes to: it is "owed" the run it asked for, until one has read the link; a run
\* that read it may have put the good one back ("failed"); or that run was lost ("late").
Fates == {"none", "owed", "failed", "late"}
Late == [s \in Slot |-> IF fate[s] = "owed" THEN "late" ELSE fate[s]]

TypeOK ==
    /\ RulesTypeOK
    /\ album \in [Link -> SUBSET Key] /\ on \in BOOLEAN
    /\ {link, good, saved} \subseteq [Slot -> Links]
    /\ {lists, files} \subseteq [Slot -> List] /\ held \in [Slot -> SUBSET Key]
    /\ lost \subseteq Slot
    /\ index \in Seq(Key) /\ IsInjective(index)
    /\ want \in Key \cup {None} /\ {request, whole, ok} \subseteq BOOLEAN
    /\ period \in {"first", "no", "over"}
    /\ tick \in {"rest", "off", "create", "createAsked"} /\ work \subseteq {"fetch", "list"}
    /\ pc \in {"idle", "begin", "fetch", "rules", "slot", "read", "revert"}
    /\ slot \in 1..(Slots + 1) /\ url \in Links /\ by \in File
    /\ events \in 0..Interventions /\ fate \in [Slot -> Fates]

Init ==
    /\ RulesInit
    /\ album \in FirstAlbums /\ on = TRUE
    /\ link \in FirstLinks /\ good = link
    /\ lists = [s \in Slot |-> None]
    /\ files \in [Slot -> List]
    /\ \A s \in Slot : IF link[s] = NoLink THEN files[s] = None
                        ELSE files[s] # None /\ files[s] \in Cut(album[link[s]])
    /\ held = [s \in Slot |-> Contents(files[s])] /\ lost = {}
    /\ index = <<>> /\ want = None
    /\ request = FALSE /\ period = "first" /\ tick = "rest"
    /\ pc = "idle" /\ work = {} /\ slot = 1 /\ url = NoLink
    /\ by = 0 /\ whole = FALSE /\ ok = FALSE
    /\ events = 0 /\ saved = link /\ fate = [s \in Slot |-> "none"]

-----------------------------------------------------------------------------
(* app_gphotos_sync_tick() *)

\* A mirror that is off drops the request, an instant after it was seen off.
SeenOff ==
    /\ tick = "rest" /\ ~Enabled
    /\ tick' = "off"
    /\ UNCHANGED <<rulesVars, album, settingVars, listVars, index, want, request, period, pc, work,
                   slotVars, events, ghostVars>>
DropRequest ==
    /\ tick = "off"
    /\ tick' = "rest" /\ request' = FALSE /\ fate' = Late
    /\ UNCHANGED <<rulesVars, album, settingVars, listVars, index, want, period, pc, work,
                   slotVars, events, saved>>

\* A request is due at once, the first run of a boot after a delay, the daily one in active
\* hours.  Without the link there is nothing to do but load what is stored.
Due ==
    {{}} \cup {(IF want # None THEN {"fetch"} ELSE {}) \cup list :
                 list \in IF request THEN {{"list"}}
                          ELSE IF period = "no" THEN {{}} ELSE {{}, {"list"}}}

TickStarts(w) ==
    /\ tick = "rest" /\ Enabled /\ pc = "idle"
    /\ w # {} \/ ~loaded
    /\ work' = w
    /\ tick' = IF request THEN "createAsked" ELSE "create"
    /\ request' = (request /\ "list" \notin w)
    /\ UNCHANGED <<rulesVars, album, settingVars, listVars, index, want, period, pc, slotVars,
                   events, ghostVars>>

TaskCreated ==
    /\ tick \in {"create", "createAsked"}
    /\ tick' = "rest" /\ pc' = "begin"
    /\ UNCHANGED <<rulesVars, album, settingVars, listVars, index, want, request, period, work,
                   slotVars, events, ghostVars>>

\* No internal memory: the request is put back as it was found.
TaskNotCreated ==
    /\ tick \in {"create", "createAsked"}
    /\ tick' = "rest" /\ work' = {}
    /\ request' = (tick = "createAsked")
    /\ fate' = IF request' THEN fate ELSE Late
    /\ UNCHANGED <<rulesVars, album, settingVars, listVars, index, want, period, pc, slotVars,
                   events, saved>>

-----------------------------------------------------------------------------
(* run_task() *)

\* The rules, and once a boot the stored lists; then the work.  A list may not load: its file
\* cannot be read, or there is no memory for it; the slot is then without one, or its file may be
\* an older list than the one read last.
LoadLists(stored) ==
    \E fails \in SUBSET {s \in Slot : files[s] # None} :
        /\ lists' = [s \in Slot |-> IF s \in fails THEN None ELSE stored[s]]
        /\ lost' = fails \cup {s \in Slot : held[s] \ Contents(files[s]) # {}}
LoadStoredAlone ==                \* mutant: a run with other work leaves the lists unread
    /\ pc = "begin"
    /\ Load
    /\ IF loaded THEN UNCHANGED <<lists, lost>> ELSE LoadLists(IF work = {} THEN files ELSE lists)
    /\ UNCHANGED <<album, settingVars, files, held, index, want, tickVars, slotVars, events, saved>>
LoadStored ==
    /\ pc = "begin"
    /\ Load
    /\ IF loaded THEN UNCHANGED <<lists, lost>> ELSE LoadLists(files)
    /\ UNCHANGED <<album, settingVars, files, held, index, want, tickVars, slotVars, events, saved>>

Begin ==
    /\ LoadStored
    /\ pc' = IF "fetch" \in work THEN "fetch" ELSE IF "list" \in work THEN "rules" ELSE "idle"
    /\ UNCHANGED <<work, fate>>

\* There is no memory to work with: the request that started the run is not put back.
BeginInVain ==
    /\ LoadStored
    /\ work # {} /\ work' = {}
    /\ pc' = "idle"
    /\ fate' = IF "list" \in work /\ ~request /\ period # "first" THEN Late ELSE fate

AfterFetch ==
    /\ pc' = IF "list" \in work THEN "rules" ELSE "idle"
    /\ work' = work \cap {"list"}

\* evict_over_cap(): oldest first, sparing the photograph that arrived and the two on or next
\* to the glass.
Evicted(m, spare) ==
    LET old == {i \in DOMAIN m : m[i] \notin spare}
        over == Len(m) - CacheFiles
        gone == {m[i] : i \in {j \in old : Cardinality({h \in old : h <= j}) <= over}}
    IN  Sifted(m, Key \ gone)

\* do_fetch(), of a photograph that arrived and was stored: its record is replaced.  The index
\* may not be readable, and may not be written.  Without memory for a photograph the want stays.
Fetched(m, k) == Append(Sifted(m, Key \ {k}), k)

Fetch ==
    /\ pc = "fetch"
    /\ AfterFetch
    /\ \/ UNCHANGED <<want, index>>
       \/ want' = None /\ UNCHANGED index
       \/ /\ want # None /\ want' = None
          /\ \E m \in {index, <<>>}, current, pending \in Key \cup {None} :
                index' \in {index, Evicted(Fetched(m, want), {want, current, pending})}
    /\ UNCHANGED <<rulesVars, album, settingVars, listVars, tickVars, slotVars, events, ghostVars>>

\* check_rules() and app_gphotos_rules_for_read(): the set on trial, or the one in force.
ReadRules ==
    /\ pc = "rules"
    /\ CheckRules
    /\ by' \in {0, IF candidate' # 0 THEN candidate' ELSE adopted}
    /\ pc' = "slot"
    /\ UNCHANGED <<album, settingVars, listVars, index, want, tickVars, work, slot, url, whole, ok,
                   events, ghostVars>>

Trial == by # 0 /\ by = candidate

\* The slot's link is read.  A slot without one loses its list, and the file if it can be removed.
BeginSlot ==
    /\ pc = "slot" /\ slot <= Slots
    /\ IF link[slot] # NoLink
       THEN /\ url' = link[slot] /\ pc' = "read"
            /\ UNCHANGED <<listVars, slot>>
       ELSE /\ slot' = slot + 1
            /\ lists' = [lists EXCEPT ![slot] = None]
            /\ files' \in {files} \cup IF lists[slot] = None THEN {} ELSE {[files EXCEPT ![slot] = None]}
            /\ held' = [held EXCEPT ![slot] = {}] /\ lost' = lost \ {slot}
            /\ UNCHANGED <<url, pc>>
    /\ UNCHANGED <<rulesVars, album, settingVars, index, want, tickVars, work, by, whole, ok, events,
                   ghostVars>>

NextSlot == pc' = "slot" /\ slot' = slot + 1 /\ url' = NoLink

Tried(f) == IF f = "owed" THEN "none" ELSE f

\* read_album() came whole, with photographs: the list is replaced, and the link is good, if
\* there was memory to compare it.  The file may not be written, and a write that is cut off
\* between removing the old file and renaming the new one leaves none.
ReadOk ==
    /\ pc = "read" /\ by \in Reads /\ album[url] # {}
    /\ \E l \in Cut(album[url]), stored \in {files[slot], None} :
          /\ lists' = [lists EXCEPT ![slot] = l]
          /\ files' \in {[files EXCEPT ![slot] = l], [files EXCEPT ![slot] = stored]}
          /\ held' = [held EXCEPT ![slot] = l] /\ lost' = lost \ {slot}
    /\ \E g \in {url, good[slot]} : good' = [good EXCEPT ![slot] = g]
    /\ ok' = (ok \/ Trial) /\ UNCHANGED whole
    /\ fate' = [fate EXCEPT ![slot] = IF link[slot] = url THEN Tried(@) ELSE @]
    /\ NextSlot
    /\ UNCHANGED <<rulesVars, album, on, link, index, want, tickVars, work, by, events, saved>>

\* Otherwise the list stays.  A new link that failed is to be undone, when it is still the
\* one stored and the last good link is another.
UndoneAlways == good[slot] # NoLink /\ url # good[slot]    \* mutant: a newer edit loses
Undone == good[slot] # NoLink /\ url # good[slot] /\ link[slot] = url

ReadFails ==
    /\ pc = "read"
    /\ \/ UNCHANGED whole
       \/ Trial /\ (by \notin Reads \/ album[url] = {}) /\ whole' = TRUE
    /\ \/ /\ by # 0 /\ Undone
          /\ pc' = "revert"
          /\ UNCHANGED <<slot, url, fate>>
       \/ /\ by # 0 => ~Undone
          /\ NextSlot
          /\ fate' = [fate EXCEPT ![slot] = IF link[slot] = url THEN Tried(@) ELSE @]
    /\ UNCHANGED <<rulesVars, album, settingVars, listVars, index, want, tickVars, work, by, ok,
                   events, saved>>

\* Without the memory to read the album or compare the links nothing is undone.
NoMemory ==
    /\ pc = "read" /\ by # 0 /\ Undone
    /\ NextSlot
    /\ fate' = [fate EXCEPT ![slot] = Tried(@)]
    /\ UNCHANGED <<rulesVars, album, settingVars, listVars, index, want, tickVars, work, by, whole,
                   ok, events, saved>>
Revert ==
    /\ pc = "revert"
    /\ link' = [link EXCEPT ![slot] = good[slot]]
    /\ fate' = [fate EXCEPT ![slot] = IF @ # "late" /\ link[slot] = url THEN "failed" ELSE @]
    /\ NextSlot
    /\ UNCHANGED <<rulesVars, album, on, good, listVars, index, want, tickVars, work, by, whole, ok,
                   events, saved>>

\* The end of do_list(): the verdict on a trial, and the photographs in no list go, if there
\* is a list and the index can be read; it may not be written.
Swept == Sifted(index, Selectable)
FinishWith(pending) ==
    /\ pc = "slot" /\ slot > Slots
    /\ IF Trial THEN Verdict(whole, ok) ELSE UNCHANGED rulesVars
    /\ index' \in IF \E s \in Slot : lists[s] # None THEN {index, Swept} ELSE {index}
    /\ period' = "no" /\ pc' = "idle" /\ work' = {}
    /\ slot' = 1 /\ by' = 0 /\ whole' = FALSE /\ ok' = FALSE
    /\ request' = pending
    /\ UNCHANGED <<album, settingVars, listVars, want, tick, url, events, ghostVars>>
FinishListAnswering == FinishWith(FALSE)        \* mutant: a request of during the run is taken as met
FinishList == FinishWith(request)

-----------------------------------------------------------------------------
(* The slideshow, the web server's task, the albums, and the power. *)

Intervenes == events < Interventions /\ events' = events + 1

\* app_gphotos_sync_want(): a photograph of a list that is not on the card, though the index
\* may still name it, or none.
Want ==
    /\ want' \in Selectable \cup {None}
    /\ want' # want
    /\ UNCHANGED <<rulesVars, album, settingVars, listVars, index, tickVars, pc, work, slotVars,
                   events, ghostVars>>

\* h_gphotos_config_set(): one link and the switch are saved; a mirror that is on is read now.
\* Bound: a save that turns the mirror off changes no link, or removes it.
\* A save that lands between a failed link's comparison and its undoing is undone with it.
Save(s, l, o) ==
    /\ Intervenes
    /\ link' = [link EXCEPT ![s] = l] /\ on' = o
    /\ IF o THEN \E t \in Slot : link'[t] # NoLink ELSE l \in {link[s], NoLink}
    /\ request' = (request \/ o)
    /\ saved' = [saved EXCEPT ![s] = l]
    /\ fate' = [fate EXCEPT ![s] = IF pc = "revert" /\ slot = s THEN "late"
                                    ELSE IF o /\ l # NoLink THEN "owed" ELSE "none"]
    /\ UNCHANGED <<rulesVars, album, good, listVars, index, want, period, tick, pc, work, slotVars>>

\* The same handler with a file of rules alone, and h_gphotos_sync().
SubmitRules(f) ==
    /\ Intervenes
    /\ on => Enabled
    /\ Submit(f)
    /\ request' = (request \/ on)
    /\ UNCHANGED <<album, settingVars, listVars, index, want, period, tick, pc, work, slotVars,
                   ghostVars>>
SyncNow ==
    /\ Intervenes
    /\ Enabled /\ request' = TRUE
    /\ UNCHANGED <<rulesVars, album, settingVars, listVars, index, want, period, tick, pc, work,
                   slotVars, ghostVars>>

AlbumChanges(l) ==
    /\ Intervenes
    /\ \E c \in SUBSET Key \ {album[l]} : album' = [album EXCEPT ![l] = c]
    /\ UNCHANGED <<rulesVars, settingVars, listVars, index, want, tickVars, pc, work, slotVars,
                   ghostVars>>

DayPasses ==
    /\ Intervenes
    /\ period = "no" /\ period' = "over"
    /\ UNCHANGED <<rulesVars, album, settingVars, listVars, index, want, request, tick, pc, work,
                   slotVars, ghostVars>>

\* The power goes, and comes back.
Boot ==
    /\ Intervenes
    /\ RulesBoot
    /\ lists' = [s \in Slot |-> None] /\ lost' = {}
    /\ want' = None /\ request' = FALSE /\ period' = "first" /\ tick' = "rest"
    /\ pc' = "idle" /\ work' = {} /\ slot' = 1 /\ url' = NoLink
    /\ by' = 0 /\ whole' = FALSE /\ ok' = FALSE
    /\ UNCHANGED <<album, settingVars, files, held, index, ghostVars>>

Next ==
    \/ SeenOff \/ DropRequest \/ \E w \in Due : TickStarts(w)
    \/ TaskCreated \/ TaskNotCreated
    \/ Begin \/ BeginInVain \/ Fetch \/ ReadRules \/ BeginSlot \/ ReadOk \/ ReadFails \/ NoMemory \/ Revert
    \/ FinishList
    \/ Want \/ \E s \in Slot, l \in Links, o \in BOOLEAN : Save(s, l, o)
    \/ \E f \in Uploaded : SubmitRules(f)
    \/ SyncNow \/ \E l \in Link : AlbumChanges(l)
    \/ DayPasses \/ Boot

\* The main loop ticks, the link comes up and a task finds memory again and again, and a
\* task that runs gets on.
TickLists == \E w \in Due : "list" \in w /\ TickStarts(w)
BeginList == Begin /\ "list" \in work
TaskStep ==
    \/ Begin \/ BeginInVain \/ Fetch \/ ReadRules
    \/ BeginSlot \/ ReadOk \/ ReadFails \/ NoMemory \/ Revert \/ FinishList

Spec ==
    /\ Init /\ [][Next]_vars
    /\ SF_vars(TickLists) /\ SF_vars(TaskCreated) /\ SF_vars(BeginList)
    /\ WF_vars(DropRequest) /\ WF_vars(TaskStep)

-----------------------------------------------------------------------------
(* Properties. *)

\* The frame keeps the link a user saved last, in each slot, unless a run read that link and
\* undid it; a run that fails on an older link never overwrites a newer one, but in the
\* instant between its comparison and its store (app_gphotos_sync.c:797 "a newer edit wins").
SavedLinkStands ==
    \A s \in Slot : link[s] # saved[s] => fate[s] \in {"failed", "late"}

\* The sweep deletes no photograph in the list an album gave when it was last read whole, of those
\* the frame still has: an album that fails, comes cut short or comes empty costs nothing, and so
\* does a restart.  What it does cost is a slot whose list did not come back from the card after a
\* restart ("the one case", app_gphotos_sync.c:832), until its album is read whole again.
DeletesOnlyWhatLeft ==
    [][FinishList =>
         \A s \in Slot \ lost : held[s] \cap Range(index) \subseteq Range(index')]_vars

\* The links saved while the mirror is on are all read once the saves cease, however they fell
\* into a run, a restart, a lost link or a task without memory -- except in the gaps fate calls
\* "late".
SavedLinkIsRead ==
    (\E s \in Slot : fate[s] = "owed") ~> (\A s \in Slot : fate[s] # "owed") \/ ~Enabled
=============================================================================

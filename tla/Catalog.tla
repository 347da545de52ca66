------------------------------ MODULE Catalog ------------------------------
(***************************************************************************)
(* The catalogue of the share: core/smb_catalog.c, refreshed one folder at  *)
(* a time by app_smb_sync.c and stored in .smbdir by an atomic write.  The  *)
(* shuffle, the wants and the fetches hold indices into it, so that where a *)
(* record stands matters as much as that it is there.                       *)
(***************************************************************************)
EXTENDS AtomicWrite, Sift, FiniteSets, SequencesExt

CONSTANTS
    Folder, Leaf,    \* a path is a folder and a leaf
    Nobody,          \* no folder is being listed
    Lists,           \* the folder lists a user saves in smb_path
    Capacity,        \* SMB_CATALOG_MAX
    Arena,           \* CATALOG_ARENA, in paths
    Interventions    \* bound: how often the user, the share and the power intervene

Path == Folder \X Leaf

ASSUME ListAssumption == \A l \in Lists : l \in Seq(Folder) /\ IsInjective(l)
ASSUME LeafAssumption == IsFiniteSet(Leaf)

VARIABLES
    share,     \* what the server has in each folder
    list,      \* s_folder_list
    cat,       \* s_catalog
    at,        \* catalogue_next_folder(): the folder it is about to list
    reload,    \* s_media_reload_due
    current,   \* ghost: the folders whose last refresh took in the whole listing
    events     \* interventions so far

vars == <<fileVars, share, list, cat, at, reload, current, events>>

CatalogType == [recs : Seq(Path), used : 0..Arena, truncated : BOOLEAN, full : BOOLEAN,
                cursor : 0..Cardinality(Folder)]

Empty == [recs |-> <<>>, used |-> 0, truncated |-> FALSE, full |-> FALSE, cursor |-> 0]

-----------------------------------------------------------------------------
(* core/smb_catalog.c *)

Add(c, p) ==
    IF Len(c.recs) >= Capacity THEN [c EXCEPT !.truncated = TRUE]
    ELSE IF Contains(c.recs, p) THEN c
    ELSE IF c.used >= Arena THEN [c EXCEPT !.full = TRUE]
    ELSE [c EXCEPT !.recs = Append(@, p), !.used = @ + 1]

AddAll(c, paths) ==
    LET added[n \in 0..Len(paths)] == IF n = 0 THEN c ELSE Add(added[n - 1], paths[n])
    IN  added[Len(paths)]

\* Dropping compacts the records and leaves their bytes in the arena.
Keeping(c, folders) ==
    LET kept == Sifted(c.recs, folders \X Leaf) IN
    [c EXCEPT !.recs = kept, !.truncated = @ /\ kept = c.recs]

DropNone(c, f) == c    \* mutant: the listing is merged into what was there
DropFolder(c, f) == Keeping(c, Folder \ {f})

KeepAll(c) == c    \* mutant: the strays of ticket 51
KeepFolders(c) == IF list = <<>> THEN c ELSE Keeping(c, ToSet(list))

FirstOf(c, f) ==
    LET own == {i \in DOMAIN c.recs : c.recs[i][1] = f} IN
    IF own = {} THEN Len(c.recs) ELSE Min(own) - 1

Unrestored(c, from, to) == c    \* mutant: ticket 44
RestoreAt(c, from, to) ==
    IF to >= from \/ from >= Len(c.recs) THEN c
    ELSE [c EXCEPT !.recs = SubSeq(@, 1, to) \o SubSeq(@, from + 1, Len(@))
                                             \o SubSeq(@, to + 1, from)]

\* What is stored starts with the cursor.  A file that repeats a path, or holds more
\* than fits, is refused whole.
Serialise(c) == <<c.cursor>> \o c.recs
Parse(text) ==
    IF text \in {Absent, <<>>} THEN Empty
    ELSE LET c == AddAll(Empty, Tail(text)) IN
         IF c.recs = Tail(text) THEN [c EXCEPT !.cursor = Head(text)] ELSE Empty

-----------------------------------------------------------------------------
(* app_smb_sync.c *)

TypeOK ==
    /\ cat \in CatalogType /\ step \in Steps
    /\ share \in [Folder -> SUBSET Leaf] /\ list \in Lists
    /\ at \in Folder \cup {Nobody} /\ reload \in BOOLEAN
    /\ current \subseteq Folder /\ events \in 0..Interventions

Init ==
    /\ FileInit
    /\ share \in [Folder -> SUBSET Leaf] /\ list \in Lists
    /\ cat = Empty /\ at = Nobody
    /\ reload = FALSE /\ current = {} /\ events = 0

Idle == at = Nobody /\ step = "closed"

\* A window has a session and the hour is over: the strays go, and the cursor moves on,
\* before the folder is listed.
NextFolderStuck ==    \* mutant
    /\ Idle /\ ~reload /\ list # <<>>
    /\ LET which == cat.cursor % Len(list) IN
       /\ at' = list[which + 1]
       /\ cat' = [KeepFolders(cat) EXCEPT !.cursor = which]
    /\ UNCHANGED <<fileVars, share, list, reload, current, events>>
NextFolder ==
    /\ Idle /\ ~reload /\ list # <<>>
    /\ LET which == cat.cursor % Len(list) IN
       /\ at' = list[which + 1]
       /\ cat' = [KeepFolders(cat) EXCEPT !.cursor = (which + 1) % Len(list)]
    /\ UNCHANGED <<fileVars, share, list, reload, current, events>>

\* No memory for the listing, or the server does not give it.
ListingFails ==
    /\ at # Nobody
    /\ at' = Nobody
    /\ UNCHANGED <<fileVars, share, list, cat, reload, current, events>>

Listing(f) == SetToSeq({f} \X share[f])

Refreshed(c, f) ==
    LET dropped == DropFolder(c, f)
        added == AddAll(dropped, Listing(f))
    IN RestoreAt(added, Len(dropped.recs), FirstOf(c, f))

\* The folder is replaced under the lock, put back where it was, and the catalogue stored.
Refresh ==
    /\ at # Nobody
    /\ cat' = Refreshed(cat, at)
    /\ at' = Nobody
    /\ current' = IF ToSet(Listing(at)) \subseteq ToSet(cat'.recs)
                  THEN current \cup {at} ELSE current \ {at}
    /\ Store(Serialise(cat'))
    /\ UNCHANGED <<share, list, reload, events>>

Storing == Write /\ UNCHANGED <<share, list, cat, at, reload, current, events>>

\* app_smb_sync_media_changed(): at once, or by the tick after the window in flight.
Reload ==
    /\ Idle /\ reload
    /\ reload' = FALSE
    /\ cat' = Parse(file) /\ current' = {}
    /\ UNCHANGED <<fileVars, share, list, at, events>>

-----------------------------------------------------------------------------
(* The user, the share and the power. *)

Intervenes == events < Interventions /\ events' = events + 1

ShareChanges(f) ==
    /\ \E S \in SUBSET Leaf : share' = [share EXCEPT ![f] = S]
    /\ share' # share
    /\ current' = current \ {f}
    /\ Intervenes
    /\ UNCHANGED <<fileVars, list, cat, at, reload>>

\* smb_path is saved; the list is taken over by a tick, which no window overlaps.
EditList ==
    /\ Idle
    /\ list' \in Lists \ {list}
    /\ current' = {}
    /\ Intervenes
    /\ UNCHANGED <<fileVars, share, cat, at, reload>>

ChangeCard ==
    /\ CardSwapped
    /\ reload' = TRUE
    /\ Intervenes
    /\ UNCHANGED <<share, list, cat, at, current>>

Boot ==
    /\ FileCut
    /\ cat' = Parse(file) /\ at' = Nobody
    /\ reload' = FALSE /\ current' = {}
    /\ Intervenes
    /\ UNCHANGED <<share, list>>

Next ==
    \/ NextFolder \/ ListingFails \/ Refresh \/ Storing \/ Reload
    \/ \E f \in Folder : ShareChanges(f)
    \/ EditList \/ ChangeCard \/ Boot

Spec == Init /\ [][Next]_vars

\* A window opens by the hour (SmbSchedule) and its task runs to its end.
FairSpec ==
    /\ Spec
    /\ WF_vars(NextFolder) /\ WF_vars(ListingFails \/ Refresh)
    /\ WF_vars(Storing) /\ WF_vars(Reload)

-----------------------------------------------------------------------------
(* Properties. *)

\* A refresh that finds as many photographs as before, on a share where nothing moved,
\* leaves every record of another folder at its index: the shuffle and the wants hold
\* indices across it (catalogue_next_folder, tickets 44 and 45).
OthersStay ==
    [][Refresh /\ Len(cat'.recs) = Len(cat.recs) =>
        \A i \in DOMAIN cat.recs : cat.recs[i][1] # at => cat'.recs[i] = cat.recs[i]]_vars

\* Once every folder of the list has been taken in whole, the catalogue is the share: no
\* photograph twice, none that has been deleted, none of a folder that left the list.
Shared == {p \in Path : Contains(list, p[1]) /\ p[2] \in share[p[1]]}
FollowsShare ==
    at = Nobody /\ list # <<>> /\ ToSet(list) \subseteq current =>
        IsInjective(cat.recs) /\ ToSet(cat.recs) = Shared

\* Every folder of the list is refreshed again and again, however the list shrinks under
\* the cursor, cards change and power fails.
EveryFolderComesRound ==
    \A f \in Folder : <>[](Contains(list, f)) => []<>(at = f)
=============================================================================

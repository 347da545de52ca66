----------------------------- MODULE SmbMirror -----------------------------
(***************************************************************************)
(* The mirror path of src/src/app/app_smb_sync.c: a run lists one folder   *)
(* of the share, fetches what is new or changed a few files per window,    *)
(* and reconciles what has gone.  A run spans several windows; between     *)
(* them the web server is up and the user may change settings, delete and  *)
(* upload.  Power may fail at any moment.                                  *)
(*                                                                         *)
(* A manifest is a function from share paths <<folder, name>> to versions, *)
(* 0 meaning no record; a version stands for the (size, mtime) pair of     *)
(* smb_manifest_unchanged().  On the server a version only grows, an odd   *)
(* one meaning that the file is there and an even one that it is not.      *)
(* The local name of a path is its leaf.                                   *)
(***************************************************************************)
EXTENDS Naturals, FiniteSets

CONSTANTS
    Folder,          \* folders smb_path may name as its first element
    Name,            \* leaf names of photographs on the share
    UserName,        \* names the web UI gives its uploads
    Oversize,        \* names whose file exceeds SMB_SYNC_FILE_MAX
    MaxVer,          \* bound: the last version of a share file
    FilesPerWindow,  \* SMB_SYNC_FILES_PER_WINDOW
    ListMax,         \* SMB_SYNC_LIST_MAX
    ManifestMax,     \* SMB_MANIFEST_MAX
    CapFiles,        \* s_cap_files
    ByteCapBites,    \* whether the card is small enough for s_cap_bytes to end a run
    Nothing, User       \* card contents: no file; a file the mirror did not write

ASSUME FilesPerWindowAssumption == FilesPerWindow \in Nat \ {0}
ASSUME NameAssumption == IsFiniteSet(Name)
ASSUME MaxVerAssumption == MaxVer \in Nat \ {0}
ASSUME LimitsAssumption ==
    /\ ListMax \in Nat /\ ManifestMax \in Nat /\ CapFiles \in Nat
    /\ ByteCapBites \in BOOLEAN
ASSUME ContentAssumption == Nothing # User /\ {Nothing, User} \cap (Folder \X (1..MaxVer)) = {}

Path == Folder \X Name
Local == Name \cup UserName
Ver == 1..MaxVer
Copy == Folder \X Ver             \* what a file the mirror wrote holds
Manifest == [Path -> 0..MaxVer]
NoRecords == [p \in Path |-> 0]
NoEntries == [n \in Name |-> 0]

VARIABLES
    share,        \* the server: version of every path
    card,         \* /data: content of every local name
    stored,       \* /data/.smbidx
    have,         \* s_have
    next,         \* s_next
    setFolder,    \* element 0 of the smb_path setting
    cfg,          \* s_cfg.path
    runActive,    \* s_run_active
    pc,           \* where the window task is; "idle" when no task exists
    entries,      \* s_entries: listed version of every name, 0 = not listed
    onShare,      \* ghost: the folder that was listed last, and all it held then
    truncated,    \* s_listing_truncated
    todo,         \* s_plan from s_plan_pos on
    planPos,      \* s_plan_pos > 0
    landed,       \* names this window has written; the code's flag is landed # {}
    fetched,      \* fetch attempts of this window
    toCheck,      \* records of s_have reconcile_deletions() has still to visit
    deleted,      \* reconcile_deletions() has deleted something
    lost,         \* ghost: files a power cut or a failed unlink left unrecorded
    indexFault,   \* ghost: a load or store of the index did not take effect
    overflowed    \* ghost: a record was refused because the manifest was full

runVars == <<cfg, runActive, entries, onShare, truncated, todo, planPos>>
windowVars == <<pc, landed, fetched, toCheck, deleted>>
indexVars == <<stored, have, next>>
mirrorGhosts == <<lost, indexFault, overflowed>>
mirrorVars == <<share, card, setFolder, runVars, windowVars, indexVars, mirrorGhosts>>

-----------------------------------------------------------------------------
Leaf(p) == p[2]
Records(m) == {p \in Path : m[p] # 0}
\* smb_manifest_owns_local()
Owns(m, n) == \E p \in Records(m) : Leaf(p) = n
Mirrored(n) == card[n] \in Copy

\* smb_manifest_add(): refuses once the manifest is full.
Full(m) == Cardinality(Records(m)) >= ManifestMax
Add(m, p, v) == IF Full(m) THEN m ELSE [m EXCEPT ![p] = v]

\* manifest_store(): the file is replaced; or the write falls short or finds no
\* PSRAM and the old one stays; or the rename fails after the unlink.
\* A record stored for a file ends that file's loss.
Store(m) ==
    /\ \/ stored' = m /\ UNCHANGED indexFault
       \/ stored' \in {stored, NoRecords} /\ indexFault' = TRUE
    /\ lost' = {n \in lost : ~Owns(stored', n)}

MirrorTypeOK ==
    /\ share \in Manifest
    /\ card \in [Local -> Copy \cup {Nothing, User}]
    /\ stored \in Manifest /\ have \in Manifest /\ next \in Manifest
    /\ setFolder \in Folder /\ cfg \in Folder 
    /\ onShare \in [folder : Folder, names : SUBSET Name]
    /\ runActive \in BOOLEAN /\ truncated \in BOOLEAN
    /\ planPos \in BOOLEAN /\ deleted \in BOOLEAN
    /\ pc \in {"idle", "connect", "fetch", "reconcile"}
    /\ entries \in [Name -> 0..MaxVer]
    /\ todo \subseteq Name /\ landed \subseteq Name
    /\ toCheck \subseteq Path
    /\ fetched \in 0..FilesPerWindow
    /\ lost \subseteq Local
    /\ indexFault \in BOOLEAN /\ overflowed \in BOOLEAN

MirrorInit ==
    /\ share \in [Path -> {0, 1}]
    /\ card \in [Local -> {Nothing, User}]
    /\ \A n \in Name \ UserName : card[n] = Nothing
    /\ stored = NoRecords /\ have = NoRecords /\ next = NoRecords
    /\ setFolder \in Folder /\ cfg = setFolder
    /\ onShare = [folder |-> setFolder, names |-> {}]
    /\ runActive = FALSE /\ truncated = FALSE /\ planPos = FALSE
    /\ entries = NoEntries /\ todo = {}
    /\ pc = "idle" /\ landed = {} /\ fetched = 0 /\ toCheck = {} /\ deleted = FALSE
    /\ lost = {} /\ indexFault = FALSE /\ overflowed = FALSE

-----------------------------------------------------------------------------
(* The window. *)

\* app_smb_sync_tick() finding a window due: the configuration is read again on
\* every tick, whether or not a run is in progress.
Tick ==
    /\ pc = "idle"
    /\ cfg' = setFolder
    /\ runActive' = TRUE
    /\ IF runActive
       THEN UNCHANGED <<next, entries, todo, planPos>>
       ELSE /\ next' = NoRecords /\ entries' = NoEntries
            /\ todo' = {} /\ planPos' = FALSE
    /\ pc' = "connect" /\ landed' = {} /\ fetched' = 0
    /\ UNCHANGED <<share, card, setFolder, stored, have, onShare, truncated,
                   toCheck, deleted, mirrorGhosts>>

\* What both ends of a run release.
EndRun ==
    /\ runActive' = FALSE /\ planPos' = FALSE
    /\ entries' = NoEntries /\ todo' = {} /\ next' = NoRecords
    /\ pc' = "idle" /\ landed' = {}

\* manifest_load(): a damaged index, or one there is no PSRAM for, reads as empty.
Load ==
    \/ have' = stored' /\ UNCHANGED indexFault
    \/ have' = NoRecords /\ indexFault' = TRUE

\* The connect or the listing failed: nothing is reconciled, and what earlier
\* windows of the run stored is read back.
SessionFails ==
    /\ pc = "connect"
    /\ UNCHANGED stored
    /\ IF planPos THEN Load ELSE UNCHANGED <<have, indexFault>>
    /\ EndRun
    /\ UNCHANGED <<share, card, setFolder, cfg, onShare, truncated,
                   fetched, toCheck, deleted, lost, overflowed>>

\* A later window of a run carries on with the plan it has.
Resume ==
    /\ pc = "connect" /\ entries # NoEntries
    /\ pc' = "fetch"
    /\ UNCHANGED <<share, card, setFolder, runVars, landed, fetched, toCheck,
                   deleted, indexVars, mirrorGhosts>>

Present(p) == share[p] % 2 = 1
OnShare(f) == {n \in Name : Present(<<f, n>>)}

\* A listing is the whole folder, or the ListMax entries that fit.
Listing(f, names) ==
    IF truncated' THEN /\ names \subseteq OnShare(f) /\ names # OnShare(f)
                       /\ Cardinality(names) = ListMax
                  ELSE names = OnShare(f) /\ Cardinality(names) <= ListMax

\* smb_manifest_unchanged() and local_present(): the index and the card both have it.
UpToDateWithoutStat(n) == have[<<cfg, n>>] = share[<<cfg, n>>]    \* mutant
UpToDate(n) == have[<<cfg, n>>] = share[<<cfg, n>>] /\ card[n] # Nothing

\* build_plan(): what the manifest holds unchanged and the card still has goes
\* straight into s_next; the rest is planned unless it is over the file ceiling.
BuildPlan ==
    /\ pc = "connect" /\ entries = NoEntries
    /\ truncated' \in BOOLEAN
    /\ \E names \in SUBSET Name :
         /\ Listing(cfg, names)
         /\ LET current == {n \in names : UpToDate(n)}
            IN /\ entries' = [n \in Name |-> IF n \in names THEN share[<<cfg, n>>] ELSE 0]
               /\ next' = [p \in Path |-> IF p[1] = cfg /\ p[2] \in current
                                          THEN have[p] ELSE 0]
               /\ todo' = (names \ current) \ Oversize
    /\ onShare' = [folder |-> cfg, names |-> OnShare(cfg)]
    /\ planPos' = FALSE
    /\ pc' = "fetch"
    /\ UNCHANGED <<share, card, setFolder, cfg, runActive, stored, have, landed,
                   fetched, toCheck, deleted, mirrorGhosts>>

MayFetch == pc = "fetch" /\ todo # {} /\ fetched < FilesPerWindow

\* The cap test fetch_one() is reached through.
UnderCap == Cardinality(Records(next)) < CapFiles

\* fetch_one() when the file landed: read from the folder the session is on,
\* written, and recorded with the version the listing gave.
Fetch(n) ==
    /\ MayFetch /\ UnderCap /\ n \in todo
    /\ Present(<<cfg, n>>)
    /\ card' = [card EXCEPT ![n] = <<cfg, share[<<cfg, n>>]>>]
    /\ next' = Add(next, <<cfg, n>>, entries[n])
    /\ overflowed' = (overflowed \/ Full(next))
    /\ landed' = landed \cup {n}
    /\ todo' = todo \ {n} /\ planPos' = TRUE /\ fetched' = fetched + 1
    /\ UNCHANGED <<share, setFolder, cfg, runActive, entries, onShare, truncated, pc,
                   toCheck, deleted, stored, have, lost, indexFault>>

\* Mutant: the record is written whether or not the file landed.
FetchFailsRecorded(n) ==
    /\ MayFetch /\ UnderCap /\ n \in todo
    /\ card' \in {card, [card EXCEPT ![n] = Nothing]}
    /\ next' = Add(next, <<cfg, n>>, entries[n])
    /\ todo' = todo \ {n} /\ planPos' = TRUE /\ fetched' = fetched + 1
    /\ UNCHANGED <<share, setFolder, cfg, runActive, entries, onShare, truncated, pc,
                   landed, toCheck, deleted, stored, have, mirrorGhosts>>

\* fetch_one() failing: read error, short read, no PSRAM, or no room on the card.
\* A failed rename in board_storage_write_atomic() takes the old copy with it.
FetchFails(n) ==
    /\ MayFetch /\ UnderCap /\ n \in todo
    /\ card' \in {card, [card EXCEPT ![n] = Nothing]}
    /\ todo' = todo \ {n} /\ planPos' = TRUE /\ fetched' = fetched + 1
    /\ UNCHANGED <<share, setFolder, cfg, runActive, entries, onShare, truncated, pc,
                   landed, toCheck, deleted, indexVars, mirrorGhosts>>

\* The file cap or the byte cap ends the run and evicts nothing.
StopAtCap ==
    /\ MayFetch /\ (~UnderCap \/ ByteCapBites)
    /\ todo' = {} /\ planPos' = TRUE
    /\ UNCHANGED <<share, card, setFolder, cfg, runActive, entries, onShare, truncated,
                   windowVars, indexVars, mirrorGhosts>>

\* The window ends part-way through the plan: its budget is spent, its deadline
\* has passed or the session died.  manifest_store_union() stores s_next and
\* every record of s_have whose path s_next does not name.
HaveOnly == Records(have) \ Records(next)
StoreNext(kept) == next       \* mutant: the defect of ticket 27
Union(kept) == [p \in Path |-> IF p \in kept THEN have[p] ELSE next[p]]
Fits(kept) ==
    LET room == ManifestMax - Cardinality(Records(next))
    IN  \/ kept = HaveOnly /\ Cardinality(kept) <= room
        \/ Cardinality(kept) = room /\ kept # HaveOnly

CloseWindow ==
    /\ pc = "fetch" /\ todo # {}
    /\ IF landed = {}
       THEN UNCHANGED <<stored, lost, indexFault, overflowed>>
       ELSE \E kept \in SUBSET HaveOnly :
              /\ Fits(kept)
              /\ Store(Union(kept))
              /\ overflowed' = (overflowed \/ kept # HaveOnly)
    /\ pc' = "idle" /\ landed' = {}
    /\ UNCHANGED <<share, card, setFolder, runVars, have, next, fetched, toCheck,
                   deleted>>

\* The plan is exhausted: finish_run() starts reconcile_deletions().
StartReconcile ==
    /\ pc = "fetch" /\ todo = {}
    /\ toCheck' = HaveOnly /\ deleted' = FALSE
    /\ pc' = "reconcile"
    /\ UNCHANGED <<share, card, setFolder, runVars, landed, fetched, indexVars,
                   mirrorGhosts>>

\* The code compares the record's path with the listed names under s_cfg.path.
StillListedInFull(p) == p[1] = cfg /\ entries[p[2]] # 0    \* mutant
StillListed(p) == truncated \/ (p[1] = cfg /\ entries[p[2]] # 0)

\* The loop of reconcile_deletions(), one record: kept when the share may still
\* hold it, otherwise the local copy is deleted.
ReconcileKeep(p) ==
    /\ pc = "reconcile" /\ p \in toCheck /\ StillListed(p)
    /\ next' = Add(next, p, have[p])
    /\ overflowed' = (overflowed \/ Full(next))
    /\ toCheck' = toCheck \ {p}
    /\ UNCHANGED <<share, card, setFolder, runVars, pc, landed, fetched, deleted,
                   stored, have, lost, indexFault>>

\* delete_local() ignores what unlink() returns, so a failure leaves the file.
ReconcileDelete(p) ==
    /\ pc = "reconcile" /\ p \in toCheck /\ ~StillListed(p)
    /\ \/ card' = [card EXCEPT ![Leaf(p)] = Nothing] /\ UNCHANGED lost
       \/ UNCHANGED card /\ lost' = lost \cup {Leaf(p)}
    /\ deleted' = TRUE
    /\ toCheck' = toCheck \ {p}
    /\ UNCHANGED <<share, setFolder, runVars, pc, landed, fetched, indexVars,
                   indexFault, overflowed>>

\* The rest of finish_run(): swap the manifests and store, unless nothing landed
\* in this window, nothing was deleted and the count is what it was.
WorthStoring ==
    landed # {} \/ deleted \/ Cardinality(Records(next)) # Cardinality(Records(have))

FinishRun ==
    /\ pc = "reconcile" /\ toCheck = {}
    /\ have' = next
    /\ IF WorthStoring THEN Store(next) ELSE UNCHANGED <<stored, lost, indexFault>>
    /\ EndRun
    /\ UNCHANGED <<share, card, setFolder, cfg, onShare, truncated, fetched, toCheck,
                   deleted, overflowed>>

-----------------------------------------------------------------------------
(* Everything that is not the window task. *)

\* The server's files change whenever they like.
ShareChanges(p, v) ==
    /\ share[p] < v
    /\ share' = [share EXCEPT ![p] = v]
    /\ UNCHANGED <<card, setFolder, runVars, windowVars, indexVars, mirrorGhosts>>

\* The web UI; a window stops the server, so none of these runs during one.
UserDeletes(n) ==
    /\ pc = "idle" /\ card[n] # Nothing
    /\ card' = [card EXCEPT ![n] = Nothing]
    /\ UNCHANGED <<share, setFolder, runVars, windowVars, indexVars, mirrorGhosts>>

UserUploads(n) ==
    /\ pc = "idle" /\ card[n] = Nothing
    /\ card' = [card EXCEPT ![n] = User]
    /\ UNCHANGED <<share, setFolder, runVars, windowVars, indexVars, mirrorGhosts>>

UserSetsFolder(f) ==
    /\ pc = "idle" /\ f # setFolder
    /\ setFolder' = f
    /\ UNCHANGED <<share, card, runVars, windowVars, indexVars, mirrorGhosts>>

\* Power fails and the frame boots: RAM is rebuilt from the card.  A cut between
\* the unlink and the rename of board_storage_write_atomic() leaves neither file,
\* be it a photograph being replaced or the index itself.
PowerCut ==
    /\ \/ UNCHANGED <<card, stored>> /\ Load
       \/ /\ \E n \in todo : pc = "fetch" /\ card' = [card EXCEPT ![n] = Nothing]
          /\ UNCHANGED stored /\ Load
       \/ /\ pc = "reconcile" \/ (pc = "fetch" /\ landed # {})
          /\ stored' = NoRecords /\ have' = NoRecords /\ indexFault' = TRUE
          /\ UNCHANGED card
    /\ next' = NoRecords
    /\ cfg' = setFolder /\ runActive' = FALSE /\ planPos' = FALSE
    /\ entries' = NoEntries /\ todo' = {}
    /\ pc' = "idle" /\ landed' = {} /\ fetched' = 0 /\ toCheck' = {} /\ deleted' = FALSE
    /\ lost' = lost \cup {n \in landed : card'[n] \in Copy /\ ~Owns(stored', n)}
    /\ UNCHANGED <<share, setFolder, onShare, truncated, overflowed>>

WindowStep ==
    \/ SessionFails \/ Resume \/ BuildPlan \/ StopAtCap \/ CloseWindow
    \/ \E n \in Name : Fetch(n) \/ FetchFails(n)
    \/ StartReconcile \/ FinishRun
    \/ \E p \in Path : ReconcileKeep(p) \/ ReconcileDelete(p)

Environment ==
    \/ \E p \in Path, v \in 0..MaxVer : ShareChanges(p, v)
    \/ \E n \in Local : UserDeletes(n)
    \/ \E n \in UserName : UserUploads(n)
    \/ \E f \in Folder : UserSetsFolder(f)
    \/ PowerCut

MirrorNext == Tick \/ WindowStep \/ Environment

MirrorSpec == MirrorInit /\ [][MirrorNext]_mirrorVars

\* app_smb_sync_tick() opens a window at every hour, the task runs to its end, and a
\* server that is there some of the time lists and delivers some of the time.
MirrorFairness ==
    /\ WF_mirrorVars(Tick) /\ WF_mirrorVars(StartReconcile) /\ WF_mirrorVars(FinishRun)
    /\ WF_mirrorVars(SessionFails \/ CloseWindow)
    /\ SF_mirrorVars(Resume) /\ SF_mirrorVars(BuildPlan)
    /\ SF_mirrorVars(\E n \in Name : Fetch(n) \/ FetchFails(n))
    /\ \A n \in Name : SF_mirrorVars(Fetch(n))
    /\ \A p \in Path : WF_mirrorVars(ReconcileKeep(p) \/ ReconcileDelete(p))

-----------------------------------------------------------------------------
(* Properties. *)

\* Every photograph the mirror has on the card is named by the stored index
\* whenever no window is open, save those a power cut or a failed unlink already
\* cost: nothing the mirror wrote is out of reach of its own clean-up
\* (manifest_store_union).
Recorded == ~indexFault /\ ~overflowed
Orphan(n) == Mirrored(n) /\ ~Owns(stored, n) /\ n \notin lost
NoOrphanAtRest == Recorded /\ pc = "idle" => \A n \in Local : ~Orphan(n)

\* Inside a window the files at risk of becoming orphans are the ones that window
\* landed, never a file of an earlier window: one power cut costs at most
\* SMB_SYNC_FILES_PER_WINDOW ownership records.
AtMostAWindowAtRisk ==
    Recorded => Cardinality({n \in Local : Orphan(n)}) <= fetched

\* No record in the stored index or in RAM claims a newer version than the file on
\* the card has, so an out-of-date photograph is always fetched again (fetch_one
\* records what the listing said, before the read).
Behind(m) == \A p \in Records(m) :
    card[Leaf(p)] \in Copy /\ card[Leaf(p)][1] = p[1] => m[p] <= card[Leaf(p)][2]
RecordsNotAhead == Behind(stored) /\ Behind(have) /\ Behind(next)

\* A reconciling run deletes a local copy only when the listed folder no longer held
\* the photograph at the moment it was listed (reconcile_deletions, "a file that has
\* gone from the share is deleted").
WasOnShare(p) == p[1] = onShare.folder /\ Leaf(p) \in onShare.names
DeletesOnlyWhatWasGone ==
    [][\A p \in Path : ReconcileDelete(p) => ~WasOnShare(p)]_mirrorVars

\* A run whose listing left something out deletes nothing at all, whatever folder it is set to
\* by then; and while it is set to the folder it listed, no record it deletes by, of this folder
\* or of one it mirrored earlier, is of a photograph that folder held (reconcile_deletions keeps
\* every record of a truncated listing, app_smb_sync.c:1692).  A folder set between two windows
\* of the run is left out of the second half: DeletesOnlyWhatWasGone shows what happens then.
ListingIsWhole == \A n \in onShare.names : entries[n] # 0
KeepsWhatIsListed ==
    [][\A p \in Path : ReconcileDelete(p) =>
           ListingIsWhole /\ (cfg = onShare.folder => ~WasOnShare(p))]_mirrorVars

\* Once the user, the power and the card leave it alone, the mirror comes to hold
\* every photograph of the folder at the share's version, and no record of another.
InStep ==
    \A n \in Name : LET p == <<setFolder, n>> IN
        IF Present(p) THEN have[p] = share[p] /\ card[n] # Nothing ELSE have[p] = 0
StoreMissed == CloseWindow /\ landed # {} /\ stored' \notin {Union(k) : k \in SUBSET HaveOnly}
LoadMissed == SessionFails /\ planPos /\ have' # stored
Disturbed == PowerCut \/ StoreMissed \/ LoadMissed \/ \E n \in Name : UserDeletes(n)
Converges == <>[][~Disturbed]_mirrorVars => <>[]InStep
=============================================================================

-------------------------- MODULE SmbMirror_proofs --------------------------
(***************************************************************************)
(* Proofs about SmbMirror, for every value of its constants.  The          *)
(* invariant OwnershipInv is inductive; the properties of the stored index *)
(* follow from it.                                                         *)
(***************************************************************************)
EXTENDS SmbMirror, FiniteSetTheorems, TLAPS

\* Files on the card that the mirror wrote and has not already lost the record of.
Safe(n) == Mirrored(n) /\ n \notin lost

\* The stored index names them all, but for the files of the open window.
StoredHolds == Recorded => \A n \in Local : Safe(n) => Owns(stored, n) \/ n \in landed

\* The indices in RAM name them all: s_have and s_next together, and once reconciling
\* s_next with the records of s_have still to be visited.
RamHolds ==
    Recorded => \A n \in Local : Safe(n) =>
        \/ Owns(next, n)
        \/ IF pc = "reconcile" THEN \E p \in toCheck : Leaf(p) = n ELSE Owns(have, n)

\* What a run's state looks like between its steps.
RunShape ==
    /\ pc \in {"idle", "connect"} => landed = {}
    /\ pc \in {"idle", "connect"} /\ entries = NoEntries => next = NoRecords
    /\ ~runActive => pc = "idle" /\ next = NoRecords
    /\ ~planPos => Records(next) \subseteq Records(have)
    /\ \A n \in todo : entries[n] # 0
    /\ pc = "reconcile" => toCheck \subseteq Records(have)

LandedCount == Cardinality(landed) <= fetched

OwnershipInv == MirrorTypeOK /\ StoredHolds /\ RamHolds /\ RunShape /\ LandedCount

-----------------------------------------------------------------------------
\* What the operators on manifests return.
LEMMA NoRecordsType == NoRecords \in Manifest /\ NoEntries \in [Name -> 0..MaxVer]
  BY MaxVerAssumption DEF NoRecords, NoEntries, Manifest

LEMMA NoRecordsOwn == ASSUME NEW n PROVE ~Owns(NoRecords, n)
  BY DEF NoRecords, Owns, Records

LEMMA AddType ==
  ASSUME NEW m \in Manifest, NEW p \in Path, NEW v \in 0..MaxVer
  PROVE  Add(m, p, v) \in Manifest
  BY DEF Add, Manifest

LEMMA UnionType ==
  ASSUME have \in Manifest, next \in Manifest, NEW kept
  PROVE  Union(kept) \in Manifest
  BY DEF Union, Manifest

LEMMA PresentVer ==
  ASSUME MirrorTypeOK, NEW p \in Path, Present(p)
  PROVE  share[p] \in Ver
<1>1. share[p] \in 0..MaxVer
  BY DEF MirrorTypeOK, Manifest
<1>2. share[p] # 0
  BY DEF Present
<1> QED BY <1>1, <1>2, MaxVerAssumption DEF Ver

-----------------------------------------------------------------------------
\* Every variable keeps its type.
LEMMA TypeInit == MirrorInit => MirrorTypeOK
<1> SUFFICES ASSUME MirrorInit PROVE MirrorTypeOK
  OBVIOUS
<1>1. share \in Manifest
  BY MaxVerAssumption DEF MirrorInit, Manifest
<1>2. fetched \in 0..FilesPerWindow
  BY FilesPerWindowAssumption DEF MirrorInit
<1>3. card \in [Local -> Copy \cup {Nothing, User}]
  BY DEF MirrorInit
<1> QED BY <1>1, <1>2, <1>3, NoRecordsType DEF MirrorInit, MirrorTypeOK

LEMMA TypeWindow ==
  ASSUME MirrorTypeOK, Tick \/ WindowStep
  PROVE  MirrorTypeOK'
<1> USE DEF MirrorTypeOK, runVars, windowVars, indexVars, mirrorGhosts
<1>1. CASE Tick
  <2>1. fetched' \in 0..FilesPerWindow
    BY <1>1, FilesPerWindowAssumption DEF Tick
  <2> QED BY <1>1, <2>1, NoRecordsType DEF Tick
<1>2. CASE SessionFails
  BY <1>2, NoRecordsType DEF SessionFails, EndRun, Load
<1>3. CASE Resume
  BY <1>3 DEF Resume
<1>4. CASE BuildPlan
  <2>1. PICK names \in SUBSET Name :
          /\ Listing(cfg, names)
          /\ entries' = [n \in Name |-> IF n \in names THEN share[<<cfg, n>>] ELSE 0]
          /\ next' = [p \in Path |-> IF p[1] = cfg /\ p[2] \in {n \in names : UpToDate(n)}
                                     THEN have[p] ELSE 0]
          /\ todo' = (names \ {n \in names : UpToDate(n)}) \ Oversize
    BY <1>4 DEF BuildPlan
  <2>2. entries' \in [Name -> 0..MaxVer]
    BY <2>1, MaxVerAssumption DEF Manifest, Path
  <2>3. next' \in Manifest
    BY <2>1, MaxVerAssumption DEF Manifest
  <2>4. todo' \subseteq Name
    BY <2>1
  <2>5. onShare' \in [folder : Folder, names : SUBSET Name]
    BY <1>4 DEF BuildPlan, OnShare
  <2> QED BY <1>4, <2>2, <2>3, <2>4, <2>5 DEF BuildPlan
<1>5. CASE StopAtCap
  BY <1>5 DEF StopAtCap
<1>6. CASE CloseWindow
  <2>1. stored' \in Manifest /\ lost' \subseteq Local /\ indexFault' \in BOOLEAN
        /\ overflowed' \in BOOLEAN
    BY <1>6, NoRecordsType, UnionType DEF CloseWindow, Store
  <2> QED BY <1>6, <2>1 DEF CloseWindow
<1>7. ASSUME NEW n \in Name, Fetch(n) PROVE MirrorTypeOK'
  <2>1. share[<<cfg, n>>] \in Ver
    BY <1>7, PresentVer DEF Fetch, Path
  <2>2. card' \in [Local -> Copy \cup {Nothing, User}]
    BY <1>7, <2>1 DEF Fetch, Copy, Local
  <2>3. next' \in Manifest
    BY <1>7, AddType DEF Fetch, Path
  <2>4. fetched' \in 0..FilesPerWindow
    BY <1>7, FilesPerWindowAssumption DEF Fetch, MayFetch
  <2> QED BY <1>7, <2>2, <2>3, <2>4 DEF Fetch
<1>8. ASSUME NEW n \in Name, FetchFails(n) PROVE MirrorTypeOK'
  <2>1. fetched' \in 0..FilesPerWindow
    BY <1>8, FilesPerWindowAssumption DEF FetchFails, MayFetch
  <2> QED BY <1>8, <2>1 DEF FetchFails
<1>9. CASE StartReconcile
  BY <1>9 DEF StartReconcile, HaveOnly, Records
<1>10. CASE FinishRun
  BY <1>10, NoRecordsType DEF FinishRun, EndRun, Store
<1>11. ASSUME NEW p \in Path, ReconcileKeep(p) PROVE MirrorTypeOK'
  <2>1. next' \in Manifest
    BY <1>11, AddType DEF ReconcileKeep, Manifest
  <2> QED BY <1>11, <2>1 DEF ReconcileKeep
<1>12. ASSUME NEW p \in Path, ReconcileDelete(p) PROVE MirrorTypeOK'
  <2>1. Leaf(p) \in Local
    BY DEF Path, Leaf, Local
  <2> QED BY <1>12, <2>1 DEF ReconcileDelete
<1> QED BY <1>1, <1>2, <1>3, <1>4, <1>5, <1>6, <1>7, <1>8, <1>9, <1>10, <1>11, <1>12
  DEF WindowStep

LEMMA TypeEnvironment ==
  ASSUME MirrorTypeOK, Environment
  PROVE  MirrorTypeOK'
<1> USE DEF MirrorTypeOK, runVars, windowVars, indexVars, mirrorGhosts
<1>1. ASSUME NEW p \in Path, NEW v \in 0..MaxVer, ShareChanges(p, v) PROVE MirrorTypeOK'
  BY <1>1 DEF ShareChanges, Manifest
<1>2. ASSUME NEW n \in Local, UserDeletes(n) PROVE MirrorTypeOK'
  BY <1>2 DEF UserDeletes
<1>3. ASSUME NEW n \in UserName, UserUploads(n) PROVE MirrorTypeOK'
  BY <1>3 DEF UserUploads
<1>4. ASSUME NEW f \in Folder, UserSetsFolder(f) PROVE MirrorTypeOK'
  BY <1>4 DEF UserSetsFolder
<1>5. CASE PowerCut
  <2>1. /\ card' \in [Local -> Copy \cup {Nothing, User}]
        /\ stored' \in Manifest /\ have' \in Manifest /\ indexFault' \in BOOLEAN
    BY <1>5, NoRecordsType DEF PowerCut, Load
  <2>2. lost' \subseteq Local
    BY <1>5 DEF PowerCut, Local
  <2>3. fetched' \in 0..FilesPerWindow
    BY <1>5, FilesPerWindowAssumption DEF PowerCut
  <2> QED BY <1>5, <2>1, <2>2, <2>3, NoRecordsType DEF PowerCut
<1> QED BY <1>1, <1>2, <1>3, <1>4, <1>5 DEF Environment

\* Every reachable state is of the right type.
THEOREM TypeCorrect == MirrorSpec => []MirrorTypeOK
<1>1. MirrorTypeOK /\ UNCHANGED mirrorVars => MirrorTypeOK'
  BY DEF MirrorTypeOK, mirrorVars, runVars, windowVars, indexVars, mirrorGhosts
<1>2. MirrorTypeOK /\ [MirrorNext]_mirrorVars => MirrorTypeOK'
  BY <1>1, TypeWindow, TypeEnvironment DEF MirrorNext
<1> QED BY <1>2, TypeInit, PTL DEF MirrorSpec

-----------------------------------------------------------------------------
\* Ownership: what a manifest owns after one more record, after a union, after none.
LEMMA OwnsAdd ==
  ASSUME NEW m \in Manifest, NEW p \in Path, NEW v \in Ver, ~Full(m)
  PROVE  /\ Owns(Add(m, p, v), Leaf(p))
         /\ \A n : Owns(m, n) => Owns(Add(m, p, v), n)
         /\ Records(Add(m, p, v)) = Records(m) \cup {p}
<1>1. Add(m, p, v) = [m EXCEPT ![p] = v] /\ v # 0
  BY DEF Add, Ver
<1>2. Records(Add(m, p, v)) = Records(m) \cup {p}
  BY <1>1 DEF Records, Manifest
<1> QED BY <1>2 DEF Owns

LEMMA OwnsUnion ==
  ASSUME have \in Manifest, next \in Manifest, NEW n
  PROVE  Owns(Union(HaveOnly), n) <=> Owns(have, n) \/ Owns(next, n)
<1>1. Records(Union(HaveOnly)) = Records(have) \cup Records(next)
  BY DEF Union, HaveOnly, Records
<1> QED BY <1>1 DEF Owns

\* A file whose loss a store has just ended is named by what was stored.
LEMMA StoreEndsLoss ==
  ASSUME NEW m, Store(m), ~indexFault'
  PROVE  /\ stored' = m
         /\ \A n : n \notin lost' => n \notin lost \/ Owns(m, n)
BY DEF Store

LEMMA InvInit == MirrorInit => OwnershipInv
<1> SUFFICES ASSUME MirrorInit PROVE OwnershipInv
  OBVIOUS
<1>1. \A n \in Local : ~Mirrored(n)
  BY ContentAssumption DEF MirrorInit, Mirrored, Copy, Ver, Local
<1>2. StoredHolds /\ RamHolds
  BY <1>1 DEF StoredHolds, RamHolds, Safe
<1>3. RunShape
  BY DEF MirrorInit, RunShape
<1>4. LandedCount
  BY FS_EmptySet DEF MirrorInit, LandedCount
<1> QED BY <1>2, <1>3, <1>4, TypeInit DEF OwnershipInv

\* Landed files are finitely many, and one more raises the count by at most one.
LEMMA LandedFinite ==
  ASSUME MirrorTypeOK
  PROVE  IsFiniteSet(landed) /\ Cardinality(landed) \in Nat
BY NameAssumption, FS_Subset, FS_CardinalityType DEF MirrorTypeOK

-----------------------------------------------------------------------------
\* Each step of the window task keeps the invariant.
LEMMA InvTick == ASSUME OwnershipInv, Tick PROVE OwnershipInv'
<1> USE DEF OwnershipInv, runVars, windowVars, indexVars, mirrorGhosts
<1>1. MirrorTypeOK'
  BY TypeWindow
<1>2. landed = {} /\ landed' = {} /\ pc' = "connect" /\ pc = "idle"
  BY DEF Tick, RunShape
<1>3. runActive = FALSE => next = NoRecords
  BY DEF RunShape
<1>4. next' = next /\ have' = have
  BY <1>3, NoRecordsType DEF Tick
<1>5. StoredHolds'
  BY <1>2 DEF Tick, StoredHolds, Recorded, Safe, Mirrored, Owns, Records
<1>6. RamHolds'
  BY <1>2, <1>4 DEF Tick, RamHolds, Recorded, Safe, Mirrored, Owns, Records
<1>7. RunShape'
  <2>1. CASE runActive
    BY <1>2, <1>4, <2>1 DEF Tick, RunShape, Records
  <2>2. CASE ~runActive
    <3>1. next' = NoRecords /\ todo' = {} /\ runActive'
      BY <2>2 DEF Tick
    <3>2. Records(next') = {}
      BY <3>1 DEF Records, NoRecords
    <3> QED BY <1>2, <3>1, <3>2 DEF RunShape, Records
  <2> QED BY <2>1, <2>2
<1>8. LandedCount'
  BY <1>2, FS_EmptySet DEF Tick, LandedCount
<1> QED BY <1>1, <1>5, <1>6, <1>7, <1>8

LEMMA InvSessionFails == ASSUME OwnershipInv, SessionFails PROVE OwnershipInv'
<1> USE DEF OwnershipInv, runVars, windowVars, indexVars, mirrorGhosts
<1>1. MirrorTypeOK'
  BY TypeWindow DEF WindowStep
<1>2. /\ landed = {} /\ landed' = {} /\ pc' = "idle" /\ pc = "connect"
      /\ card' = card /\ stored' = stored /\ lost' = lost /\ next' = NoRecords
      /\ overflowed' = overflowed
  BY DEF SessionFails, EndRun, RunShape
<1>3. Recorded' => Recorded
  BY <1>2 DEF SessionFails, Load, Recorded, MirrorTypeOK
<1>4. StoredHolds'
  BY <1>2, <1>3 DEF StoredHolds, Safe, Mirrored, Owns, Records
<1>5. RamHolds'
  <2>1. CASE planPos
    <3>1. Recorded' => have' = stored
      BY <1>2, <2>1 DEF SessionFails, Load, Recorded
    <3> QED BY <1>2, <1>3, <1>4, <3>1
        DEF StoredHolds, RamHolds, Safe, Mirrored, Owns, Records
  <2>2. CASE ~planPos
    <3>1. have' = have /\ Records(next) \subseteq Records(have)
      BY <2>2 DEF SessionFails, RunShape
    <3> QED BY <1>2, <1>3, <3>1 DEF RamHolds, Safe, Mirrored, Owns, Records
  <2> QED BY <2>1, <2>2
<1>6. RunShape'
  BY <1>2, NoRecordsOwn DEF SessionFails, EndRun, RunShape, Records, NoRecords
<1>7. LandedCount'
  BY <1>2 DEF SessionFails, LandedCount
<1> QED BY <1>1, <1>4, <1>5, <1>6, <1>7

LEMMA InvResume == ASSUME OwnershipInv, Resume PROVE OwnershipInv'
<1> USE DEF OwnershipInv, Resume, runVars, windowVars, indexVars, mirrorGhosts
<1>1. MirrorTypeOK'
  BY TypeWindow DEF WindowStep
<1>2. StoredHolds' /\ RamHolds' /\ RunShape' /\ LandedCount'
  BY DEF StoredHolds, RamHolds, RunShape, LandedCount, Recorded, Safe, Mirrored, Owns,
         Records
<1> QED BY <1>1, <1>2

LEMMA InvBuildPlan == ASSUME OwnershipInv, BuildPlan PROVE OwnershipInv'
<1> USE DEF OwnershipInv, runVars, windowVars, indexVars, mirrorGhosts
<1>1. MirrorTypeOK'
  BY TypeWindow DEF WindowStep
<1>2. /\ pc = "connect" /\ pc' = "fetch" /\ landed' = landed /\ landed = {}
      /\ card' = card /\ stored' = stored /\ have' = have /\ fetched' = fetched
      /\ next = NoRecords /\ planPos' = FALSE /\ runActive' = runActive
      /\ UNCHANGED mirrorGhosts
  BY DEF BuildPlan, RunShape
<1>3. StoredHolds'
  BY <1>2 DEF StoredHolds, Recorded, Safe, Mirrored, Owns, Records
<1>4. RamHolds'
  BY <1>2, NoRecordsOwn DEF RamHolds, Recorded, Safe, Mirrored, Owns, Records
<1>5. RunShape'
  <2>1. PICK names \in SUBSET Name :
          /\ Listing(cfg, names)
          /\ entries' = [n \in Name |-> IF n \in names THEN share[<<cfg, n>>] ELSE 0]
          /\ next' = [p \in Path |-> IF p[1] = cfg /\ p[2] \in {n \in names : UpToDate(n)}
                                     THEN have[p] ELSE 0]
          /\ todo' = (names \ {n \in names : UpToDate(n)}) \ Oversize
    BY DEF BuildPlan
  <2>2. \A n \in names : Present(<<cfg, n>>)
    BY <2>1 DEF Listing, OnShare
  <2>3. \A n \in todo' : entries'[n] # 0
    BY <2>1, <2>2 DEF Present
  <2>4. Records(next') \subseteq Records(have)
    BY <2>1 DEF Records
  <2> QED BY <1>2, <2>3, <2>4 DEF RunShape, Records
<1>6. LandedCount'
  BY <1>2 DEF LandedCount
<1> QED BY <1>1, <1>3, <1>4, <1>5, <1>6

LEMMA InvFetch == ASSUME OwnershipInv, NEW n \in Name, Fetch(n) PROVE OwnershipInv'
<1> USE DEF OwnershipInv, runVars, windowVars, indexVars, mirrorGhosts
<1>1. MirrorTypeOK'
  BY TypeWindow DEF WindowStep
<1>2. /\ pc = "fetch" /\ pc' = "fetch" /\ n \in todo /\ todo' = todo \ {n}
      /\ stored' = stored /\ have' = have /\ lost' = lost /\ entries' = entries
      /\ next' = Add(next, <<cfg, n>>, entries[n])
      /\ \A m \in Local \ {n} : card'[m] = card[m]
      /\ landed' = landed \cup {n} /\ fetched' = fetched + 1
      /\ planPos' = TRUE /\ runActive' = runActive
  BY DEF Fetch, MayFetch, MirrorTypeOK
<1>3. <<cfg, n>> \in Path /\ Leaf(<<cfg, n>>) = n /\ next \in Manifest
      /\ entries[n] \in Ver
  BY <1>2 DEF MirrorTypeOK, Path, Leaf, RunShape, Ver
<1>4. Recorded' => Recorded /\ ~Full(next)
  BY DEF Fetch, Recorded
<1>5. StoredHolds'
  BY <1>2, <1>4 DEF StoredHolds, Safe, Mirrored, Owns, Records
<1>6. RamHolds'
  <2> SUFFICES ASSUME Recorded', NEW m \in Local, Safe(m)'
               PROVE  Owns(next', m) \/ Owns(have', m)
    BY <1>2 DEF RamHolds
  <2>1. CASE m = n
    BY <1>2, <1>3, <1>4, <2>1, OwnsAdd
  <2>2. CASE m # n
    <3>1. Owns(next, m) \/ Owns(have, m)
      BY <1>2, <1>4, <2>2 DEF RamHolds, Safe, Mirrored
    <3> QED BY <1>2, <1>3, <1>4, <3>1, OwnsAdd
  <2> QED BY <2>1, <2>2
<1>7. RunShape'
  BY <1>2 DEF RunShape, Fetch
<1>8. LandedCount'
  <2>1. Cardinality(landed') <= Cardinality(landed) + 1 /\ Cardinality(landed) \in Nat
        /\ Cardinality(landed') \in Nat
    <3>1. IsFiniteSet(landed) /\ Cardinality(landed) \in Nat
      BY LandedFinite
    <3>2. Cardinality(landed') = Cardinality(landed)
          \/ Cardinality(landed') = Cardinality(landed) + 1
      BY <1>2, <3>1, FS_AddElement
    <3> QED BY <3>1, <3>2
  <2> QED BY <1>2, <2>1 DEF LandedCount, MirrorTypeOK
<1> QED BY <1>1, <1>5, <1>6, <1>7, <1>8
LEMMA InvFetchFails ==
  ASSUME OwnershipInv, NEW n \in Name, FetchFails(n)
  PROVE  OwnershipInv'
<1> USE DEF OwnershipInv, runVars, windowVars, indexVars, mirrorGhosts
<1>1. MirrorTypeOK'
  BY TypeWindow DEF WindowStep
<1>2. /\ pc = "fetch" /\ pc' = "fetch" /\ todo' = todo \ {n} /\ landed' = landed
      /\ UNCHANGED <<stored, have, next, lost, indexFault, overflowed, entries, runActive>>
      /\ planPos' = TRUE /\ fetched' = fetched + 1
  BY DEF FetchFails, MayFetch
<1>3. \A m \in Local : Mirrored(m)' => Mirrored(m)
  BY ContentAssumption DEF FetchFails, Mirrored, Copy, Ver, MirrorTypeOK
<1>4. StoredHolds'
  BY <1>2, <1>3 DEF StoredHolds, Recorded, Safe, Owns, Records
<1>5. RamHolds'
  BY <1>2, <1>3 DEF RamHolds, Recorded, Safe, Owns, Records
<1>6. RunShape'
  BY <1>2 DEF RunShape
<1>7. LandedCount'
  BY <1>2, LandedFinite DEF LandedCount, MirrorTypeOK
<1> QED BY <1>1, <1>4, <1>5, <1>6, <1>7

LEMMA InvStopAtCap == ASSUME OwnershipInv, StopAtCap PROVE OwnershipInv'
<1> USE DEF OwnershipInv, runVars, windowVars, indexVars, mirrorGhosts
<1>1. MirrorTypeOK'
  BY TypeWindow DEF WindowStep
<1>2. StoredHolds' /\ RamHolds' /\ RunShape' /\ LandedCount'
  BY DEF StopAtCap, MayFetch, StoredHolds, RamHolds, RunShape, LandedCount, Recorded,
         Safe, Mirrored, Owns, Records
<1> QED BY <1>1, <1>2

LEMMA InvCloseWindow == ASSUME OwnershipInv, CloseWindow PROVE OwnershipInv'
<1> USE DEF OwnershipInv, runVars, windowVars, indexVars, mirrorGhosts
<1>1. MirrorTypeOK'
  BY TypeWindow DEF WindowStep
<1>2. /\ pc = "fetch" /\ pc' = "idle" /\ landed' = {} /\ todo # {}
      /\ UNCHANGED <<card, have, next, todo, entries, runActive, planPos, fetched>>
  BY DEF CloseWindow
<1>3. entries # NoEntries
  BY <1>2 DEF RunShape, NoEntries, MirrorTypeOK
<1>4. RunShape'
  BY <1>2, <1>3 DEF RunShape, Records
<1>5. LandedCount'
  BY <1>2, FS_EmptySet DEF LandedCount, MirrorTypeOK
<1>6. CASE landed = {}
  <2>1. UNCHANGED <<stored, lost, indexFault, overflowed>>
    BY <1>6 DEF CloseWindow
  <2>2. StoredHolds' /\ RamHolds'
    BY <1>2, <1>6, <2>1 DEF StoredHolds, RamHolds, Recorded, Safe, Mirrored, Owns, Records
  <2> QED BY <1>1, <1>4, <1>5, <2>2
<1>7. CASE landed # {}
  <2> SUFFICES ASSUME Recorded' PROVE StoredHolds' /\ RamHolds'
    BY <1>1, <1>4, <1>5 DEF StoredHolds, RamHolds
  <2>1. Store(Union(HaveOnly)) /\ Recorded
    BY <1>7 DEF CloseWindow, Recorded, Store, MirrorTypeOK
  <2>2. /\ stored' = Union(HaveOnly)
        /\ \A n : n \notin lost' => n \notin lost \/ Owns(Union(HaveOnly), n)
    BY <2>1, StoreEndsLoss DEF Recorded
  <2>3. ASSUME NEW n \in Local, Safe(n)'
        PROVE  Owns(have, n) \/ Owns(next, n)
    <3>1. Mirrored(n) /\ (n \notin lost \/ Owns(Union(HaveOnly), n))
      BY <1>2, <2>2, <2>3 DEF Safe, Mirrored
    <3> QED BY <1>2, <2>1, <3>1, OwnsUnion DEF RamHolds, Safe, MirrorTypeOK
  <2>4. StoredHolds'
    BY <2>2, <2>3, OwnsUnion DEF StoredHolds, Owns, Records, MirrorTypeOK
  <2>5. RamHolds'
    BY <1>2, <2>3 DEF RamHolds, Owns, Records
  <2> QED BY <2>4, <2>5
<1> QED BY <1>6, <1>7

LEMMA InvStartReconcile == ASSUME OwnershipInv, StartReconcile PROVE OwnershipInv'
<1> USE DEF OwnershipInv, runVars, windowVars, indexVars, mirrorGhosts
<1>1. MirrorTypeOK'
  BY TypeWindow DEF WindowStep
<1>2. /\ pc = "fetch" /\ pc' = "reconcile" /\ toCheck' = HaveOnly
      /\ UNCHANGED <<card, stored, have, next, landed, fetched, todo, entries>>
      /\ UNCHANGED <<runActive, planPos, lost, indexFault, overflowed>>
  BY DEF StartReconcile
<1>3. StoredHolds'
  BY <1>2 DEF StoredHolds, Recorded, Safe, Mirrored, Owns, Records
<1>4. RamHolds'
  <2>1. \A n : Owns(have, n) => Owns(next, n) \/ \E p \in HaveOnly : Leaf(p) = n
    BY DEF Owns, HaveOnly
  <2> QED BY <1>2, <2>1 DEF RamHolds, Recorded, Safe, Mirrored, Owns, Records
<1>5. RunShape' /\ LandedCount'
  BY <1>2 DEF RunShape, LandedCount, HaveOnly, Records
<1> QED BY <1>1, <1>3, <1>4, <1>5

LEMMA InvReconcileKeep ==
  ASSUME OwnershipInv, NEW p \in Path, ReconcileKeep(p)
  PROVE  OwnershipInv'
<1> USE DEF OwnershipInv, runVars, windowVars, indexVars, mirrorGhosts
<1>1. MirrorTypeOK'
  BY TypeWindow DEF WindowStep
<1>2. /\ pc = "reconcile" /\ pc' = "reconcile" /\ p \in toCheck
      /\ toCheck' = toCheck \ {p} /\ next' = Add(next, p, have[p])
      /\ UNCHANGED <<card, stored, have, landed, fetched, todo, entries>>
      /\ UNCHANGED <<runActive, planPos, lost, indexFault>>
      /\ (Recorded' => Recorded /\ ~Full(next))
  BY DEF ReconcileKeep, Recorded
<1>3. have[p] \in Ver /\ p \in Records(have)
  BY <1>2 DEF RunShape, Records, MirrorTypeOK, Manifest, Ver
<1>4. StoredHolds'
  BY <1>2 DEF StoredHolds, Safe, Mirrored, Owns, Records
<1>5. RamHolds'
  <2> SUFFICES ASSUME Recorded', NEW n \in Local, Safe(n)'
               PROVE  Owns(next', n) \/ \E q \in toCheck' : Leaf(q) = n
    BY <1>2 DEF RamHolds
  <2>1. Owns(next, n) \/ \E q \in toCheck : Leaf(q) = n
    BY <1>2 DEF RamHolds, Safe, Mirrored
  <2>2. Owns(next', Leaf(p)) /\ (Owns(next, n) => Owns(next', n))
    BY <1>2, <1>3, OwnsAdd DEF MirrorTypeOK
  <2> QED BY <1>2, <2>1, <2>2
<1>6. RunShape'
  <2>1. Records(next') \subseteq Records(next) \cup {p}
    BY <1>2, <1>3, OwnsAdd DEF MirrorTypeOK, Add
  <2> QED BY <1>2, <1>3, <2>1 DEF RunShape, Records
<1>7. LandedCount'
  BY <1>2 DEF LandedCount
<1> QED BY <1>1, <1>4, <1>5, <1>6, <1>7

LEMMA InvReconcileDelete ==
  ASSUME OwnershipInv, NEW p \in Path, ReconcileDelete(p)
  PROVE  OwnershipInv'
<1> USE DEF OwnershipInv, runVars, windowVars, indexVars, mirrorGhosts
<1>1. MirrorTypeOK'
  BY TypeWindow DEF WindowStep
<1>2. /\ pc = "reconcile" /\ pc' = "reconcile" /\ toCheck' = toCheck \ {p}
      /\ UNCHANGED <<stored, have, next, landed, fetched, todo, entries>>
      /\ UNCHANGED <<runActive, planPos, indexFault, overflowed>>
  BY DEF ReconcileDelete
<1>3. \A n \in Local : Safe(n)' => Safe(n) /\ n # Leaf(p)
  <2>1. Leaf(p) \in Local
    BY DEF Path, Leaf, Local
  <2> QED BY <2>1, ContentAssumption
      DEF ReconcileDelete, Safe, Mirrored, Copy, Ver, MirrorTypeOK
<1>4. StoredHolds'
  BY <1>2, <1>3 DEF StoredHolds, Recorded, Owns, Records
<1>5. RamHolds'
  <2> SUFFICES ASSUME Recorded', NEW n \in Local, Safe(n)'
               PROVE  Owns(next, n) \/ \E q \in toCheck' : Leaf(q) = n
    BY <1>2 DEF RamHolds, Owns, Records
  <2> QED BY <1>2, <1>3 DEF RamHolds, Recorded
<1>6. RunShape' /\ LandedCount'
  BY <1>2 DEF RunShape, LandedCount, Records
<1> QED BY <1>1, <1>4, <1>5, <1>6

LEMMA InvFinishRun == ASSUME OwnershipInv, FinishRun PROVE OwnershipInv'
<1> USE DEF OwnershipInv, runVars, windowVars, indexVars, mirrorGhosts
<1>1. MirrorTypeOK'
  BY TypeWindow DEF WindowStep
<1>2. /\ pc = "reconcile" /\ pc' = "idle" /\ toCheck = {} /\ landed' = {}
      /\ have' = next /\ next' = NoRecords /\ card' = card /\ fetched' = fetched
      /\ overflowed' = overflowed /\ todo' = {} /\ runActive' = FALSE
  BY DEF FinishRun, EndRun
<1>3. \A n \in Local : Recorded /\ Safe(n) => Owns(next, n)
  BY <1>2 DEF RamHolds
<1>4. StoredHolds' /\ RamHolds'
  <2> SUFFICES ASSUME Recorded', NEW n \in Local, Safe(n)'
               PROVE  Owns(stored', n) /\ Owns(next, n)
    BY <1>2 DEF StoredHolds, RamHolds, Owns, Records
  <2>1. CASE WorthStoring
    <3>1. Store(next) /\ Recorded
      BY <1>2, <2>1 DEF FinishRun, Store, Recorded, MirrorTypeOK
    <3>2. stored' = next /\ (n \notin lost \/ Owns(next, n))
      BY <3>1, StoreEndsLoss DEF Recorded, Safe
    <3>3. Owns(next, n)
      BY <1>2, <1>3, <3>1, <3>2 DEF Safe, Mirrored
    <3> QED BY <3>2, <3>3
  <2>2. CASE ~WorthStoring
    <3>1. UNCHANGED <<stored, lost, indexFault>> /\ landed = {}
      BY <2>2 DEF FinishRun, WorthStoring
    <3>2. Recorded /\ Safe(n)
      BY <1>2, <3>1 DEF Recorded, Safe, Mirrored
    <3>3. Owns(stored, n)
      BY <3>1, <3>2 DEF StoredHolds
    <3> QED BY <1>3, <3>1, <3>2, <3>3
  <2> QED BY <2>1, <2>2
<1>5. RunShape'
  BY <1>2 DEF RunShape, Records, NoRecords
<1>6. LandedCount'
  BY <1>2, FS_EmptySet DEF LandedCount, MirrorTypeOK
<1> QED BY <1>1, <1>4, <1>5, <1>6
-----------------------------------------------------------------------------
\* Each step of the share, the user and the power keeps it too.
LEMMA InvOutside ==
  ASSUME OwnershipInv, MirrorTypeOK', UNCHANGED <<runVars, windowVars, indexVars, mirrorGhosts>>,
         \A n \in Local : Mirrored(n)' => Mirrored(n)
  PROVE  OwnershipInv'
BY DEF OwnershipInv, StoredHolds, RamHolds, RunShape, LandedCount, Recorded, Safe, Owns,
       Records, runVars, windowVars, indexVars, mirrorGhosts

LEMMA InvUser ==
  ASSUME OwnershipInv,
         \/ \E p \in Path, v \in 0..MaxVer : ShareChanges(p, v)
         \/ \E n \in Local : UserDeletes(n)
         \/ \E n \in UserName : UserUploads(n)
         \/ \E f \in Folder : UserSetsFolder(f)
  PROVE  OwnershipInv'
<1>1. MirrorTypeOK'
  BY TypeEnvironment DEF Environment, OwnershipInv
<1>2. UNCHANGED <<runVars, windowVars, indexVars, mirrorGhosts>>
  BY DEF ShareChanges, UserDeletes, UserUploads, UserSetsFolder
<1>3. \A n \in Local : Mirrored(n)' => Mirrored(n)
  BY ContentAssumption DEF ShareChanges, UserDeletes, UserUploads, UserSetsFolder,
     Mirrored, Copy, Ver, OwnershipInv, MirrorTypeOK
<1> QED BY <1>1, <1>2, <1>3, InvOutside

LEMMA InvPowerCut == ASSUME OwnershipInv, PowerCut PROVE OwnershipInv'
<1> USE DEF OwnershipInv
<1>1. MirrorTypeOK'
  BY TypeEnvironment DEF Environment
<1>2. /\ pc' = "idle" /\ landed' = {} /\ fetched' = 0 /\ next' = NoRecords /\ todo' = {}
      /\ runActive' = FALSE /\ overflowed' = overflowed
      /\ lost' = lost \cup {n \in landed : card'[n] \in Copy /\ ~Owns(stored', n)}
  BY DEF PowerCut
<1>3. Recorded' => Recorded /\ stored' = stored /\ have' = stored
  BY <1>2 DEF PowerCut, Load, Recorded, MirrorTypeOK
<1>4. \A n \in Local : Mirrored(n)' => Mirrored(n)
  BY ContentAssumption DEF PowerCut, Mirrored, Copy, Ver, MirrorTypeOK
<1>5. ASSUME Recorded', NEW n \in Local, Safe(n)' PROVE Owns(stored, n)
  <2>1. Safe(n) /\ Mirrored(n)'
    BY <1>2, <1>4, <1>5 DEF Safe
  <2>2. Owns(stored, n) \/ n \in landed
    BY <1>3, <1>5, <2>1 DEF StoredHolds
  <2>3. n \in landed => Owns(stored', n)
    BY <1>2, <1>5, <2>1 DEF Safe, Mirrored
  <2> QED BY <1>3, <1>5, <2>2, <2>3
<1>6. StoredHolds' /\ RamHolds'
  BY <1>2, <1>3, <1>5 DEF StoredHolds, RamHolds, Owns, Records
<1>7. RunShape'
  BY <1>2 DEF RunShape, Records, NoRecords
<1>8. LandedCount'
  BY <1>2, FS_EmptySet DEF LandedCount
<1> QED BY <1>1, <1>6, <1>7, <1>8

\* The inductive invariant holds of every reachable state.
THEOREM Ownership == MirrorSpec => []OwnershipInv
<1>1. OwnershipInv /\ [MirrorNext]_mirrorVars => OwnershipInv'
  <2> SUFFICES ASSUME OwnershipInv, [MirrorNext]_mirrorVars PROVE OwnershipInv'
    OBVIOUS
  <2>1. CASE Tick
    BY <2>1, InvTick
  <2>2. CASE WindowStep
    BY <2>2, InvSessionFails, InvResume, InvBuildPlan, InvStopAtCap, InvCloseWindow,
       InvFetch, InvFetchFails, InvStartReconcile, InvFinishRun, InvReconcileKeep,
       InvReconcileDelete DEF WindowStep
  <2>3. CASE Environment
    BY <2>3, InvUser, InvPowerCut DEF Environment
  <2>4. CASE UNCHANGED mirrorVars
    <3>1. MirrorTypeOK' /\ UNCHANGED <<runVars, windowVars, indexVars, mirrorGhosts>>
      BY <2>4 DEF OwnershipInv, MirrorTypeOK, mirrorVars, runVars, windowVars, indexVars, mirrorGhosts
    <3>2. \A n \in Local : Mirrored(n)' => Mirrored(n)
      BY <2>4 DEF mirrorVars, Mirrored
    <3> QED BY <3>1, <3>2, InvOutside
  <2> QED BY <2>1, <2>2, <2>3, <2>4 DEF MirrorNext
<1> QED BY <1>1, InvInit, PTL DEF MirrorSpec

-----------------------------------------------------------------------------
\* Whenever no window is open the stored index names every photograph the mirror
\* has on the card: the union stored part-way through a run, the store at its end and
\* the store it skips all keep that (app_smb_sync.c, manifest_store_union).
THEOREM NoOrphans == MirrorSpec => []NoOrphanAtRest
<1>1. OwnershipInv => NoOrphanAtRest
  BY DEF OwnershipInv, RunShape, StoredHolds, NoOrphanAtRest, Orphan, Safe
<1> QED BY <1>1, Ownership, PTL

\* A power cut inside a window costs the record of no more files than that window has
\* tried to fetch.
THEOREM BoundedRisk == MirrorSpec => []AtMostAWindowAtRisk
<1>1. ASSUME OwnershipInv PROVE AtMostAWindowAtRisk
  <2> SUFFICES ASSUME Recorded
               PROVE  Cardinality({n \in Local : Orphan(n)}) <= fetched
    BY DEF AtMostAWindowAtRisk
  <2>1. {n \in Local : Orphan(n)} \subseteq landed
    BY <1>1 DEF OwnershipInv, StoredHolds, Orphan, Safe
  <2>2. IsFiniteSet(landed) /\ Cardinality(landed) \in Nat
    BY <1>1, LandedFinite DEF OwnershipInv
  <2>3. /\ Cardinality({n \in Local : Orphan(n)}) \in Nat
        /\ Cardinality({n \in Local : Orphan(n)}) <= Cardinality(landed)
    BY <2>1, <2>2, FS_Subset, FS_CardinalityType
  <2>4. Cardinality(landed) <= fetched /\ fetched \in Nat
    BY <1>1 DEF OwnershipInv, LandedCount, MirrorTypeOK
  <2> QED BY <2>2, <2>3, <2>4
<1> QED BY <1>1, Ownership, PTL

-----------------------------------------------------------------------------
(* Deletions: the listing a run holds is of the whole folder it was taken of. *)

NamesItAll ==
    (pc \in {"fetch", "reconcile"} \/ entries # NoEntries) /\ ~truncated =>
        ListingIsWhole

LEMMA BuildPlanLists == ASSUME MirrorTypeOK, BuildPlan PROVE NamesItAll'
<1>1. PICK names \in SUBSET Name :
        /\ Listing(cfg, names)
        /\ entries' = [n \in Name |-> IF n \in names THEN share[<<cfg, n>>] ELSE 0]
  BY DEF BuildPlan
<1>2. onShare' = [folder |-> cfg, names |-> OnShare(cfg)] /\ OnShare(cfg) \subseteq Name
  BY DEF BuildPlan, OnShare
<1>3. ~truncated' => names = OnShare(cfg)
  BY <1>1 DEF Listing
<1>4. \A n \in OnShare(cfg) : share[<<cfg, n>>] # 0
  BY DEF OnShare, Present
<1> QED
  BY <1>1, <1>2, <1>3, <1>4 DEF NamesItAll, ListingIsWhole

LEMMA NextLists == ASSUME OwnershipInv, NamesItAll, [MirrorNext]_mirrorVars PROVE NamesItAll'
<1> USE DEF runVars, windowVars, indexVars, mirrorGhosts
<1>1. ASSUME pc' \in {"idle", "connect"}, entries' = NoEntries PROVE NamesItAll'
  BY <1>1 DEF NamesItAll
<1>2. ASSUME UNCHANGED <<entries, truncated, onShare>>,
             pc \in {"fetch", "reconcile"} \/ entries # NoEntries \/ pc' = pc
      PROVE  NamesItAll'
  BY <1>2 DEF NamesItAll, ListingIsWhole
<1>3. CASE Tick
  BY <1>1, <1>2, <1>3 DEF Tick
<1>4. CASE SessionFails \/ FinishRun
  BY <1>1, <1>4 DEF SessionFails, FinishRun, EndRun
<1>5. CASE Resume \/ StopAtCap \/ CloseWindow \/ StartReconcile
  BY <1>2, <1>5 DEF Resume, StopAtCap, CloseWindow, StartReconcile
<1>6. CASE BuildPlan
  BY <1>6, BuildPlanLists DEF OwnershipInv
<1>7. ASSUME NEW n \in Name, Fetch(n) \/ FetchFails(n) PROVE NamesItAll'
  BY <1>2, <1>7 DEF Fetch, FetchFails
<1>8. ASSUME NEW p \in Path, ReconcileKeep(p) \/ ReconcileDelete(p) PROVE NamesItAll'
  BY <1>2, <1>8 DEF ReconcileKeep, ReconcileDelete
<1>9. CASE Environment
  <2>1. CASE PowerCut
    BY <1>1, <2>1 DEF PowerCut
  <2>2. CASE ~PowerCut
    BY <1>2, <1>9, <2>2 DEF Environment, ShareChanges, UserDeletes, UserUploads, UserSetsFolder
  <2> QED
    BY <2>1, <2>2
<1>10. CASE UNCHANGED mirrorVars
  BY <1>2, <1>10 DEF mirrorVars
<1> QED
  BY <1>3, <1>4, <1>5, <1>6, <1>7, <1>8, <1>9, <1>10 DEF MirrorNext, WindowStep

\* A run deletes only by a whole listing, whatever the folder setting does between its windows,
\* and as long as it stays on the folder it listed, nothing this folder held.
THEOREM ListedIsKept == MirrorSpec => KeepsWhatIsListed
<1>1. MirrorInit => NamesItAll
  BY DEF MirrorInit, NamesItAll
<1>2. NamesItAll /\ [MirrorNext]_mirrorVars =>
          [\A p \in Path : ReconcileDelete(p) =>
               ListingIsWhole /\ (cfg = onShare.folder => ~WasOnShare(p))]_mirrorVars
  BY DEF NamesItAll, ListingIsWhole, WasOnShare, ReconcileDelete, StillListed, Leaf
<1>3. OwnershipInv /\ NamesItAll /\ [MirrorNext]_mirrorVars => NamesItAll'
  BY NextLists
<1> QED
  BY <1>1, <1>2, <1>3, Ownership, PTL DEF MirrorSpec, KeepsWhatIsListed

-----------------------------------------------------------------------------
(* Versions: a share that is read from one folder. *)

\* A version recorded of a path is none the share has yet to reach, and not above what the
\* card holds of the path.
Reached(p, v) ==
    /\ v <= share[p]
    /\ card[Leaf(p)] \in Copy /\ card[Leaf(p)][1] = p[1] => v <= card[Leaf(p)][2]
AllReached(m) == \A p \in Path : Reached(p, m[p])
ListedReached == \A f \in Folder, n \in Name : entries[n] <= share[<<f, n>>]
VersionsReached == AllReached(stored) /\ AllReached(have) /\ AllReached(next) /\ ListedReached

LEMMA ReachedBehind == ASSUME NEW m, AllReached(m) PROVE Behind(m)
BY DEF AllReached, Reached, Behind, Records

LEMMA PathLeaf == \A p \in Path : Leaf(p) \in Name /\ Leaf(p) \in Local /\ p[1] \in Folder /\ p = <<p[1], Leaf(p)>>
BY DEF Path, Leaf, Local

LEMMA NothingReached ==
    ASSUME MirrorTypeOK, NEW p \in Path
    PROVE  Reached(p, 0)
<1>1. share[p] \in Nat
  BY DEF MirrorTypeOK, Manifest
<1>2. card[Leaf(p)] \in Copy => card[Leaf(p)][2] \in Nat
  BY DEF Copy, Ver
<1> QED
  BY <1>1, <1>2 DEF Reached

\* Records copied from one manifest to another, or dropped, keep it, while the share goes on
\* and files leave the card.
LEMMA CopiesReached ==
    ASSUME MirrorTypeOK, MirrorTypeOK', VersionsReached,
           \A p \in Path : share[p] <= share'[p],
           \A n \in Local : card'[n] = card[n] \/ card'[n] \notin Copy,
           \A p \in Path : /\ stored'[p] \in {0, stored[p], have[p], next[p]}
                           /\ have'[p] \in {0, stored[p], have[p], next[p]}
                           /\ next'[p] \in {0, stored[p], have[p], next[p]},
           \A f \in Folder, n \in Name : entries'[n] \in {0, entries[n], share[<<f, n>>]}
    PROVE  VersionsReached'
<1>1. ASSUME NEW p \in Path, NEW v \in 0..MaxVer, Reached(p, v) PROVE Reached(p, v)'
  <2>1. share[p] \in Nat /\ share'[p] \in Nat /\ v \in Nat
    BY MaxVerAssumption DEF MirrorTypeOK, Manifest
  <2>2. v <= share'[p]
    BY <1>1, <2>1 DEF Reached
  <2>3. card'[Leaf(p)] = card[Leaf(p)] \/ card'[Leaf(p)] \notin Copy
    BY PathLeaf
  <2> QED
    BY <1>1, <2>2, <2>3 DEF Reached
<1>2. ASSUME NEW p \in Path, NEW v \in {0, stored[p], have[p], next[p]} PROVE Reached(p, v)'
  <2>1. v \in 0..MaxVer
    BY MaxVerAssumption DEF MirrorTypeOK, Manifest
  <2>2. Reached(p, v)
    BY <1>2, NothingReached DEF VersionsReached, AllReached
  <2> QED
    BY <1>1, <2>1, <2>2
<1>3. AllReached(stored)' /\ AllReached(have)' /\ AllReached(next)'
  BY <1>2 DEF AllReached
<1>4. ListedReached'
  <2> SUFFICES ASSUME NEW f \in Folder, NEW n \in Name PROVE entries'[n] <= share'[<<f, n>>]
    BY DEF ListedReached
  <2>1. <<f, n>> \in Path
    BY DEF Path
  <2>2. share[<<f, n>>] \in Nat /\ share'[<<f, n>>] \in Nat /\ entries[n] \in Nat
    BY <2>1 DEF MirrorTypeOK, Manifest
  <2> QED
    BY <2>1, <2>2 DEF VersionsReached, ListedReached
<1> QED
  BY <1>3, <1>4 DEF VersionsReached

LEMMA NoRecordsAt == (\A p \in Path : NoRecords[p] = 0) /\ (\A n \in Name : NoEntries[n] = 0)
BY DEF NoRecords, NoEntries

LEMMA StillReached ==
    ASSUME MirrorTypeOK, MirrorTypeOK', VersionsReached, UNCHANGED share,
           \A n \in Local : card'[n] = card[n] \/ card'[n] \notin Copy,
           {stored', have', next'} \subseteq {stored, have, next, NoRecords},
           entries' \in {entries, NoEntries}
    PROVE  VersionsReached'
<1>1. \A p \in Path : share[p] <= share'[p]
  BY DEF MirrorTypeOK, Manifest
<1>3. \A p \in Path : \A m \in {stored, have, next, NoRecords} :
          m[p] \in {0, stored[p], have[p], next[p]}
  BY NoRecordsAt
<1>4. \A p \in Path : /\ stored'[p] \in {0, stored[p], have[p], next[p]}
                      /\ have'[p] \in {0, stored[p], have[p], next[p]}
                      /\ next'[p] \in {0, stored[p], have[p], next[p]}
  BY <1>3
<1>2. \A f \in Folder, n \in Name : entries'[n] \in {0, entries[n], share[<<f, n>>]}
  BY NoRecordsAt
<1> QED
  BY <1>1, <1>2, <1>4, CopiesReached

LEMMA FetchReached ==
    ASSUME MirrorTypeOK, MirrorTypeOK', VersionsReached, NEW n \in Name, Fetch(n), \A f \in Folder : f = cfg
    PROVE  VersionsReached'
<1> DEFINE q == <<cfg, n>>
<1>1. q \in Path /\ Leaf(q) = n /\ n \in Local
  BY DEF MirrorTypeOK, Path, Leaf, Local
<1>2. /\ card' = [card EXCEPT ![n] = <<cfg, share[q]>>] /\ next' = Add(next, q, entries[n])
      /\ UNCHANGED <<share, stored, have, entries>>
  BY DEF Fetch
<1>3. \A p \in Path : next'[p] = next[p] \/ (p = q /\ next'[p] = entries[n])
  BY <1>1, <1>2 DEF Add, MirrorTypeOK, Manifest
<1>4. entries[n] <= share[q]
  BY <1>1 DEF VersionsReached, ListedReached, MirrorTypeOK
<1>5. ASSUME NEW p \in Path, NEW v, v <= share[p], Leaf(p) # n => Reached(p, v) PROVE Reached(p, v)'
  <2>1. CASE Leaf(p) = n
    <3>1. p = q
      BY <2>1, PathLeaf
    <3>2. card'[Leaf(p)][2] = share[p]
      BY <1>1, <1>2, <3>1 DEF MirrorTypeOK
    <3> QED
      BY <1>2, <1>5, <3>2 DEF Reached
  <2>2. CASE Leaf(p) # n
    <3>1. card'[Leaf(p)] = card[Leaf(p)]
      BY <1>2, <2>2, PathLeaf DEF MirrorTypeOK
    <3> QED
      BY <1>2, <1>5, <2>2, <3>1 DEF Reached
  <2> QED
    BY <2>1, <2>2
<1>6. AllReached(stored)' /\ AllReached(have)'
  BY <1>2, <1>5 DEF VersionsReached, AllReached, Reached
<1>7. AllReached(next)'
  <2>1. ASSUME NEW p \in Path PROVE Reached(p, next[p])'
    <3>1. Reached(p, next[p])
      BY DEF VersionsReached, AllReached
    <3>2. CASE next'[p] = next[p]
      BY <1>2, <1>5, <3>1, <3>2 DEF Reached
    <3>3. CASE p = q /\ next'[p] = entries[n]
      <4>1. next'[p] <= share[p]
        BY <1>4, <3>3
      <4> QED
        BY <1>1, <1>2, <3>3, <4>1 DEF Reached, MirrorTypeOK
    <3> QED
      BY <1>3, <3>2, <3>3
  <2> QED
    BY <2>1 DEF AllReached
<1>8. ListedReached'
  BY <1>2 DEF VersionsReached, ListedReached
<1> QED
  BY <1>6, <1>7, <1>8 DEF VersionsReached

LEMMA NextReached ==
    ASSUME MirrorTypeOK, MirrorTypeOK', VersionsReached, [MirrorNext]_mirrorVars, \A f \in Folder : f = cfg
    PROVE  VersionsReached'
<1> USE DEF runVars, windowVars, indexVars, mirrorGhosts
<1>1. CASE Tick \/ SessionFails \/ Resume \/ StopAtCap \/ StartReconcile
  BY <1>1, StillReached DEF Tick, SessionFails, EndRun, Load, Resume, StopAtCap, StartReconcile
<1>2. CASE FinishRun
  BY <1>2, StillReached DEF FinishRun, EndRun, Store
<1>3. CASE BuildPlan
  <2>1. PICK names \in SUBSET Name :
          /\ entries' = [n \in Name |-> IF n \in names THEN share[<<cfg, n>>] ELSE 0]
          /\ next' = [p \in Path |-> IF p[1] = cfg /\ p[2] \in {n \in names : UpToDate(n)}
                                     THEN have[p] ELSE 0]
    BY <1>3 DEF BuildPlan
  <2>2. UNCHANGED <<share, card, stored, have>>
    BY <1>3 DEF BuildPlan
  <2>3. \A p \in Path : share[p] <= share'[p] /\ next'[p] \in {0, have[p]}
    BY <2>1, <2>2 DEF MirrorTypeOK, Manifest
  <2>4. \A f \in Folder, n \in Name : entries'[n] \in {0, entries[n], share[<<f, n>>]}
    BY <2>1
  <2> QED
    BY <2>2, <2>3, <2>4, CopiesReached
<1>4. ASSUME NEW n \in Name, Fetch(n) PROVE VersionsReached'
  BY <1>4, FetchReached
<1>5. ASSUME NEW n \in Name, FetchFails(n) PROVE VersionsReached'
  <2>1. \A k \in Local : card'[k] = card[k] \/ card'[k] \notin Copy
    BY <1>5, ContentAssumption DEF FetchFails, MirrorTypeOK, Copy, Ver
  <2> QED
    BY <1>5, <2>1, StillReached DEF FetchFails
<1>6. CASE CloseWindow
  <2>1. UNCHANGED <<share, card, have, next, entries>>
    BY <1>6 DEF CloseWindow
  <2>2. stored' \in {stored, NoRecords} \/ \E kept : stored' = Union(kept)
    BY <1>6 DEF CloseWindow, Store
  <2>3. \A kept : \A p \in Path : Union(kept)[p] \in {have[p], next[p]}
    BY DEF Union
  <2>4. \A p \in Path : share[p] <= share'[p] /\ stored'[p] \in {0, stored[p], have[p], next[p]}
    BY <2>1, <2>2, <2>3, NoRecordsAt DEF MirrorTypeOK, Manifest
  <2> QED
    BY <2>1, <2>4, CopiesReached
<1>7. ASSUME NEW p \in Path, ReconcileKeep(p) PROVE VersionsReached'
  <2>1. UNCHANGED <<share, card, stored, have, entries>> /\ next' = Add(next, p, have[p])
    BY <1>7 DEF ReconcileKeep
  <2>2. \A r \in Path : share[r] <= share'[r] /\ next'[r] \in {next[r], have[r]}
    BY <2>1 DEF Add, MirrorTypeOK, Manifest
  <2> QED
    BY <2>1, <2>2, CopiesReached
<1>8. ASSUME NEW p \in Path, ReconcileDelete(p) PROVE VersionsReached'
  <2>1. \A k \in Local : card'[k] = card[k] \/ card'[k] \notin Copy
    BY <1>8, ContentAssumption DEF ReconcileDelete, MirrorTypeOK, Copy, Ver
  <2> QED
    BY <1>8, <2>1, StillReached DEF ReconcileDelete
<1>9. ASSUME NEW p \in Path, NEW v \in 0..MaxVer, ShareChanges(p, v) PROVE VersionsReached'
  <2>1. \A r \in Path : share[r] <= share'[r]
    BY <1>9 DEF ShareChanges, MirrorTypeOK, Manifest
  <2> QED
    BY <1>9, <2>1, CopiesReached DEF ShareChanges
<1>10. CASE (\E n \in Local : UserDeletes(n)) \/ (\E n \in UserName : UserUploads(n))
            \/ (\E f \in Folder : UserSetsFolder(f))
  <2>1. \A k \in Local : card'[k] = card[k] \/ card'[k] \notin Copy
    BY <1>10, ContentAssumption DEF UserDeletes, UserUploads, UserSetsFolder, MirrorTypeOK, Copy, Ver
  <2> QED
    BY <1>10, <2>1, StillReached DEF UserDeletes, UserUploads, UserSetsFolder
<1>11. CASE PowerCut
  <2>1. \A k \in Local : card'[k] = card[k] \/ card'[k] \notin Copy
    BY <1>11, ContentAssumption DEF PowerCut, MirrorTypeOK, Copy, Ver
  <2> QED
    BY <1>11, <2>1, StillReached DEF PowerCut, Load
<1>12. CASE UNCHANGED mirrorVars
  BY <1>12, StillReached DEF mirrorVars
<1> QED
  BY <1>1, <1>2, <1>3, <1>4, <1>5, <1>6, <1>7, <1>8, <1>9, <1>10, <1>11, <1>12
     DEF MirrorNext, WindowStep, Environment

\* As long as the share is read from one folder, no record is ahead of the file it is about, so
\* a photograph that changed is fetched again.  (With a second folder set while a run is on, the
\* versions of one are recorded of the other: see DeletesOnlyWhatWasGone.)
THEOREM VersionsNotAhead ==
    ASSUME \A f, g \in Folder : f = g
    PROVE  MirrorSpec => []RecordsNotAhead
<1>1. MirrorInit => VersionsReached
  <2> SUFFICES ASSUME MirrorInit PROVE VersionsReached
    OBVIOUS
  <2>1. MirrorTypeOK
    BY TypeInit
  <2>2. \A p \in Path : Reached(p, 0)
    BY <2>1, NothingReached
  <2>3. \A f \in Folder, n \in Name : 0 <= share[<<f, n>>]
    BY <2>1 DEF MirrorTypeOK, Manifest, Path
  <2> QED
    BY <2>2, <2>3, NoRecordsAt DEF MirrorInit, VersionsReached, AllReached, ListedReached
<1>2. MirrorTypeOK /\ MirrorTypeOK' /\ VersionsReached /\ [MirrorNext]_mirrorVars => VersionsReached'
  BY NextReached DEF MirrorTypeOK
<1>3. VersionsReached => RecordsNotAhead
  BY ReachedBehind DEF VersionsReached, RecordsNotAhead
<1> QED
  BY <1>1, <1>2, <1>3, TypeCorrect, PTL DEF MirrorSpec
=============================================================================

---------------------------- MODULE OnDemand_proofs ----------------------------
(***************************************************************************)
(* The on-demand cache, for any photographs, cache sizes and budgets of a   *)
(* window: a photograph has one record, the slideshow's cursor keeps its    *)
(* place until it is answered, and its list is the card or is told to be.   *)
(***************************************************************************)
EXTENDS OnDemand, SequenceTheorems, FiniteSetTheorems, WellFoundedInduction, TLAPS

-----------------------------------------------------------------------------
(* Sequences without repetition. *)

LEMMA FirstIsIn ==
    ASSUME NEW S \in SUBSET Nat, S # {}
    PROVE  First(S) \in S /\ \A j \in S : First(S) <= j
<1> DEFINE R == OpToRel(<, Nat)
<1>1. IsWellFoundedOn(R, Nat)
  BY NatLessThanWellFounded
<1>2. ASSUME NEW n \in Nat, NEW k \in Nat, <<k, n>> \notin R
      PROVE  n <= k
  BY <1>2 DEF OpToRel
<1> HIDE DEF R
<1>3. \E n \in S : \A k \in S : ~(<<k, n>> \in R)
  BY <1>1, WFMin
<1>4. \E n \in S : \A k \in S : n <= k
  BY <1>2, <1>3
<1> QED
  BY <1>4 DEF First

\* What is left when one is taken out.
LEMMA RemoveAtTyped ==
    ASSUME NEW S, NEW s \in Seq(S), NEW i \in DOMAIN s
    PROVE  /\ RemoveAt(s, i) \in Seq(S) /\ DOMAIN RemoveAt(s, i) = 1..(Len(s) - 1)
           /\ \A j \in DOMAIN RemoveAt(s, i) :
                  RemoveAt(s, i)[j] = IF j < i THEN s[j] ELSE s[j + 1]
<1> DEFINE before == SubSeq(s, 1, i - 1)
           after == SubSeq(s, i + 1, Len(s))
           r == before \o after
<1>1. Len(s) \in Nat /\ DOMAIN s = 1..Len(s) /\ i \in 1..Len(s)
  BY LenProperties
<1>2. before \in Seq(S) /\ Len(before) = i - 1 /\ \A j \in 1..(i - 1) : before[j] = s[j]
  BY <1>1, SubSeqProperties
<1>3. after \in Seq(S) /\ Len(after) = Len(s) - i /\ \A j \in 1..(Len(s) - i) : after[j] = s[j + i]
  BY <1>1, SubSeqProperties
<1>4. r \in Seq(S) /\ Len(r) = Len(s) - 1 /\ DOMAIN r = 1..(Len(s) - 1)
  BY <1>1, <1>2, <1>3, ConcatProperties, LenProperties, SMTT(30)
<1>5. \A j \in DOMAIN r : r[j] = IF j < i THEN s[j] ELSE s[j + 1]
  <2> SUFFICES ASSUME NEW j \in DOMAIN r PROVE r[j] = IF j < i THEN s[j] ELSE s[j + 1]
    OBVIOUS
  <2>0. j \in Nat /\ 1 <= j /\ j <= Len(s) - 1 /\ j <= Len(before) + Len(after)
    BY <1>1, <1>2, <1>3, <1>4
  <2>3. r[j] = IF j <= Len(before) THEN before[j] ELSE after[j - Len(before)]
    BY <1>2, <1>3, <2>0, ConcatProperties, SMTT(30)
  <2> HIDE DEF r, before, after
  <2>1. CASE j < i
    BY <1>1, <1>2, <2>0, <2>1, <2>3
  <2>2. CASE ~(j < i)
    <3>1. j - (i - 1) \in 1..(Len(s) - i) /\ (j - (i - 1)) + i = j + 1
      BY <1>1, <2>0, <2>2
    <3>2. r[j] = after[j - (i - 1)]
      BY <1>1, <1>2, <2>0, <2>2, <2>3
    <3> QED
      BY <1>3, <2>2, <3>1, <3>2
  <2> QED
    BY <2>1, <2>2
<1> HIDE DEF r
<1> QED
  BY <1>4, <1>5 DEF RemoveAt, r

\* A record taken out leaves the others in their order, each once.
LEMMA RemoveAtKeeps ==
    ASSUME NEW S, NEW s \in Seq(S), IsInjective(s), NEW i \in DOMAIN s
    PROVE  /\ RemoveAt(s, i) \in Seq(S) /\ IsInjective(RemoveAt(s, i))
           /\ \A j \in DOMAIN RemoveAt(s, i) : RemoveAt(s, i)[j] # s[i]
<1> DEFINE r == RemoveAt(s, i)
<1>1. Len(s) \in Nat /\ DOMAIN s = 1..Len(s) /\ i \in 1..Len(s)
  BY LenProperties
<1>2. /\ r \in Seq(S) /\ DOMAIN r = 1..(Len(s) - 1)
      /\ \A j \in DOMAIN r : r[j] = IF j < i THEN s[j] ELSE s[j + 1]
  BY RemoveAtTyped
<1> HIDE DEF r
<1>3. IsInjective(r)
  BY <1>1, <1>2 DEF IsInjective
<1>4. \A j \in DOMAIN r : r[j] # s[i]
  BY <1>1, <1>2 DEF IsInjective
<1> QED
  BY <1>2, <1>3, <1>4 DEF r

LEMMA AppendKeeps ==
    ASSUME NEW S, NEW s \in Seq(S), IsInjective(s), NEW e, \A j \in DOMAIN s : s[j] # e
    PROVE  Append(s, e) \in Seq(S \cup {e}) /\ IsInjective(Append(s, e))
<1>1. s \in Seq(S \cup {e}) /\ Len(s) \in Nat /\ DOMAIN s = 1..Len(s)
  BY SeqMonotonic, LenProperties
<1>2. /\ Append(s, e) \in Seq(S \cup {e}) /\ Len(Append(s, e)) = Len(s) + 1
      /\ \A j \in 1..Len(s) : Append(s, e)[j] = s[j]
      /\ Append(s, e)[Len(s) + 1] = e
  BY <1>1, AppendProperties
<1>3. DOMAIN Append(s, e) = 1..(Len(s) + 1)
  BY <1>2, LenProperties
<1> QED
  BY <1>1, <1>2, <1>3 DEF IsInjective

LEMMA WithoutIsRemoved ==
    ASSUME NEW S, NEW s \in Seq(S), NEW p \in ToSet(s)
    PROVE  \E i \in DOMAIN s : s[i] = p /\ Without(s, p) = RemoveAt(s, i)
<1> DEFINE places == {i \in DOMAIN s : s[i] = p}
<1>1. places # {} /\ places \subseteq Nat
  BY LenProperties DEF ToSet
<1>2. First(places) \in places
  BY <1>1, FirstIsIn
<1> QED
  BY <1>2 DEF Without

LEMMA RecordedKeeps ==
    ASSUME NEW S, NEW h \in Seq(S), IsInjective(h), NEW p
    PROVE  Recorded(h, p) \in Seq(S \cup {p}) /\ IsInjective(Recorded(h, p))
<1>1. CASE p \notin ToSet(h)
  <2>1. \A j \in DOMAIN h : h[j] # p
    BY <1>1 DEF ToSet
  <2> QED
    BY <1>1, <2>1, AppendKeeps DEF Recorded
<1>2. CASE p \in ToSet(h)
  <2> DEFINE r == Without(h, p)
  <2>1. PICK i \in DOMAIN h : h[i] = p /\ r = RemoveAt(h, i)
    BY <1>2, WithoutIsRemoved
  <2>2. r \in Seq(S) /\ IsInjective(r) /\ \A j \in DOMAIN r : r[j] # p
    BY <2>1, RemoveAtKeeps
  <2>3. Recorded(h, p) = Append(r, p)
    BY <1>2 DEF Recorded
  <2> HIDE DEF r
  <2> QED
    BY <2>2, <2>3, AppendKeeps
<1> QED
  BY <1>1, <1>2

-----------------------------------------------------------------------------
(* The records. *)

OnSomeNames == \E S : have \in Seq(S) /\ stored \in Seq(S)
Records == OnSomeNames /\ OneRecordEach

LEMMA InitRecorded == Init => Records
<1>1. <<>> \in Seq({}) /\ IsInjective(<<>>)
  BY DEF IsInjective
<1> QED
  BY <1>1 DEF Init, Records, OnSomeNames, OneRecordEach

LEMMA FetchRecords == ASSUME Records, Fetch PROVE Records'
<1>1. PICK S : have \in Seq(S) /\ stored \in Seq(S)
  BY DEF Records, OnSomeNames
<1>2. stored' = stored /\ IsInjective(have) /\ IsInjective(stored)
  BY DEF Fetch, Records, OneRecordEach
<1>3. have' = have \/ \E p : have' = Recorded(have, p)
  BY DEF Fetch
<1>4. CASE have' = have
  BY <1>1, <1>2, <1>4 DEF Records, OnSomeNames, OneRecordEach
<1>5. ASSUME NEW p, have' = Recorded(have, p) PROVE Records'
  <2>1. have' \in Seq(S \cup {p}) /\ IsInjective(have')
    BY <1>1, <1>2, <1>5, RecordedKeeps
  <2>2. stored' \in Seq(S \cup {p})
    BY <1>1, <1>2, SeqMonotonic
  <2> QED
    BY <1>2, <2>1, <2>2 DEF Records, OnSomeNames, OneRecordEach
<1> QED
  BY <1>3, <1>4, <1>5

\* What a step of the eviction takes is a record the walk does not spare.
LEMMA EvictDrops ==
    ASSUME Records, NEW p \in Shared, Evict(p)
    PROVE  \E i \in DOMAIN have : p = have[i] /\ p \notin spared /\ have' = RemoveAt(have, i)
<1>1. DOMAIN have \subseteq Nat
  BY LenProperties DEF Records, OnSomeNames
<1>2. Droppable # {} /\ Droppable \subseteq DOMAIN have
  BY DEF Evict, Walking, Droppable
<1>3. First(Droppable) \in Droppable
  BY <1>1, <1>2, FirstIsIn
<1> QED
  BY <1>3 DEF Evict, Droppable

LEMMA EvictRecords == ASSUME Records, NEW p \in Shared, Evict(p) PROVE Records'
<1>1. PICK S : have \in Seq(S) /\ stored \in Seq(S)
  BY DEF Records, OnSomeNames
<1>2. PICK i \in DOMAIN have : have' = RemoveAt(have, i)
  BY EvictDrops
<1>3. have' \in Seq(S) /\ IsInjective(have')
  BY <1>1, <1>2, RemoveAtKeeps DEF Records, OneRecordEach
<1>4. stored' = stored
  BY DEF Evict
<1> QED
  BY <1>1, <1>3, <1>4 DEF Records, OnSomeNames, OneRecordEach

LEMMA NextRecords == Records /\ [Next]_vars => Records'
<1> SUFFICES ASSUME Records, [Next]_vars PROVE Records'
  OBVIOUS
<1>1. ASSUME have' \in {have, stored}, stored' \in {have, stored} PROVE Records'
  BY <1>1 DEF Records, OnSomeNames, OneRecordEach
<1>2. CASE UNCHANGED vars
  BY <1>1, <1>2 DEF vars
<1>3. CASE Open \/ StopFetching \/ List \/ StartWalk
  BY <1>1, <1>3 DEF Open, StopFetching, List, StartWalk
<1>4. CASE EndWalk
  BY <1>1, <1>4 DEF EndWalk, Closes
<1>5. CASE Main \/ Button \/ Page \/ Boot
  BY <1>1, <1>5 DEF Main, Button, Page, Boot, Elsewhere
<1>6. CASE (\E p \in Photo : UserChanges(p)) \/ (\E p \in Shared : ShareChanges(p))
  BY <1>1, <1>6 DEF UserChanges, ShareChanges
<1> QED
  BY <1>2, <1>3, <1>4, <1>5, <1>6, FetchRecords, EvictRecords DEF Next, Window

\* Fetched, evicted, fetched again, with the power cut anywhere: one record for one photograph.
THEOREM OneRecordForEach == Spec => []OneRecordEach
<1>1. Records => OneRecordEach
  BY DEF Records
<1> QED
  BY <1>1, InitRecorded, NextRecords, PTL DEF Spec

-----------------------------------------------------------------------------
(* The cursor of the catalogue. *)

Fields == {"n", "over", "pos", "miss", "answered", "keptPos"}

\* The cursor is inside the epoch, and holds a miss only of a photograph not answered yet.
Placed(x) ==
    /\ Fields \subseteq DOMAIN x
    /\ x.pos \in Nat /\ x.keptPos \in Nat /\ x.miss \in Nat /\ x.over \in BOOLEAN
    /\ x.miss = 0 => x.answered = TRUE
    /\ x.over = TRUE /\ x.n # 0 => x.n \in Nat /\ x.pos < x.n

\* What a handler that leaves the epoch alone makes of x, and what one makes that need not.
Alike(x, y) == DOMAIN y = DOMAIN x /\ \A f \in Fields : y[f] = x[f]
Stays(x, y) ==
    x.over = TRUE /\ y.over = TRUE /\ x.n = y.n /\ x.n # 0 /\ y.pos # x.pos => x.answered = TRUE
Steps(x, y) == Placed(y) /\ Stays(x, y)

LEMMA AlikeStays == ASSUME NEW x, NEW y, Placed(x), Alike(x, y) PROVE Steps(x, y)
BY DEF Placed, Alike, Fields, Steps, Stays

LEMMA AlikeTwice == ASSUME NEW x, NEW y, NEW z, Alike(x, y), Alike(y, z) PROVE Alike(x, z)
BY DEF Alike

LEMMA StepsThenAlike ==
    ASSUME NEW x, NEW y, NEW z, Placed(x), Steps(x, y), Alike(y, z)
    PROVE  Steps(x, z)
BY DEF Placed, Alike, Fields, Steps, Stays

LEMMA AlikeThenSteps ==
    ASSUME NEW x, NEW y, NEW z, Placed(x), Alike(x, y), Steps(y, z)
    PROVE  Steps(x, z)
BY DEF Placed, Alike, Fields, Steps, Stays

LEMMA RescanAlike == ASSUME NEW x, Fields \subseteq DOMAIN x PROVE Alike(x, Rescan(x))
BY DEF Rescan, Alike, Fields

LEMMA EmptiedAlike == ASSUME NEW x, Fields \subseteq DOMAIN x PROVE Alike(x, Emptied(x))
BY DEF Emptied, Alike, Fields

LEMMA DisplayAlike == ASSUME NEW x, NEW i, Fields \subseteq DOMAIN x PROVE Alike(x, Display(x, i))
BY DEF Display, Alike, Fields

LEMMA RequestAlike ==
    ASSUME NEW x, NEW i, NEW holds, Fields \subseteq DOMAIN x
    PROVE  Alike(x, Request(x, i, holds))
BY DEF Request, Alike, Fields

LEMMA NoticedAlike == ASSUME NEW x, Placed(x) PROVE Alike(x, Noticed(x))
<1> DEFINE w == [x EXCEPT !.inval = FALSE]
           y == Rescan(w)
<1>1. Alike(x, w) /\ Fields \subseteq DOMAIN w
  BY DEF Alike, Fields, Placed
<1> HIDE DEF w
<1>2. Alike(w, y) /\ Fields \subseteq DOMAIN y
  BY <1>1, RescanAlike DEF Alike
<1> HIDE DEF y
<1>3. Alike(y, Emptied(y))
  BY <1>2, EmptiedAlike
<1>4. Alike(x, y) /\ Alike(x, Emptied(y)) /\ Alike(x, x)
  BY <1>1, <1>2, <1>3, AlikeTwice DEF Alike
<1> QED
  BY <1>4 DEF Noticed, w, y

LEMMA SettledAlike == ASSUME NEW x, Placed(x) PROVE Alike(x, Settled(x))
<1>1. Fields \subseteq DOMAIN x
  BY DEF Placed
<1>2. Alike(x, [x EXCEPT !.needs = FALSE])
  BY <1>1 DEF Alike, Fields
<1>3. Alike(x, [Display(x, x.pend) EXCEPT !.needs = FALSE, !.due = FALSE])
  BY <1>1 DEF Display, Alike, Fields
<1> QED
  BY <1>2, <1>3 DEF Settled

\* A seed minted or read leaves the cursor where it was.
Rebuilt(x, y, count, over) ==
    /\ DOMAIN y = DOMAIN x
    /\ \A f \in {"pos", "miss", "answered", "keptPos"} : y[f] = x[f]
    /\ \/ y.n = 0 /\ y.over = x.over
       \/ y.n = count /\ y.over = over

LEMMA BuildRebuilds ==
    ASSUME NEW x, NEW count, NEW seed, NEW over, NEW luck, Fields \subseteq DOMAIN x
    PROVE  Rebuilt(x, Build(x, count, seed, over, luck), count, over)
<1> DEFINE minted == IF seed = NoSeed THEN luck.fresh ELSE seed
           setting == IF seed = NoSeed /\ luck.holds THEN minted ELSE x.setting
           none == [x EXCEPT !.n = 0]
           made == [x EXCEPT !.n = count, !.seed = minted, !.over = over, !.setting = setting]
<1>1. Build(x, count, seed, over, luck) \in {none, made}
  BY DEF Build
<1>2. Rebuilt(x, none, count, over)
  BY DEF Rebuilt, Fields
<1>3. Rebuilt(x, made, count, over)
  <2> HIDE DEF minted, setting
  <2>1. DOMAIN made = DOMAIN x
    OBVIOUS
  <2>2. made.n = count /\ made.over = over
    BY DEF Fields
  <2>3. /\ made["pos"] = x["pos"] /\ made["miss"] = x["miss"]
        /\ made["answered"] = x["answered"] /\ made["keptPos"] = x["keptPos"]
    BY DEF Fields
  <2> HIDE DEF made
  <2> QED
    BY <2>1, <2>2, <2>3 DEF Rebuilt
<1> HIDE DEF none, made
<1> QED
  BY <1>1, <1>2, <1>3

LEMMA ReadyRebuilds ==
    ASSUME NEW x, NEW count, NEW over, NEW luck, Fields \subseteq DOMAIN x
    PROVE  Rebuilt(x, Ready(x, count, over, luck), count, over)
<1>1. CASE x.n = count /\ x.seed = x.setting /\ x.over = over /\ x.setting # NoSeed
  BY <1>1 DEF Ready, Rebuilt
<1>2. CASE ~(x.n = count /\ x.seed = x.setting /\ x.over = over /\ x.setting # NoSeed)
  BY <1>2, BuildRebuilds DEF Ready
<1> QED
  BY <1>1, <1>2

LEMMA RebuiltStays ==
    ASSUME NEW x, NEW y, NEW count, Placed(x), Rebuilt(x, y, count, FALSE)
    PROVE  Steps(x, y)
<1>1. y["pos"] = x["pos"] /\ y["miss"] = x["miss"] /\ y["answered"] = x["answered"] /\ y["keptPos"] = x["keptPos"]
  BY DEF Rebuilt
<1>2. DOMAIN y = DOMAIN x /\ y.over \in BOOLEAN /\ (y.over = TRUE => y.n = 0)
  BY DEF Rebuilt, Placed
<1> QED
  BY <1>1, <1>2 DEF Placed, Steps, Stays

\* The walk over the card leaves the catalogue's cursor where it was.
LEMMA ListStepSteps ==
    ASSUME NEW x, Placed(x), NEW base, NEW forward \in BOOLEAN, NEW count, NEW luck
    PROVE  Steps(x, ListStep(x, base, forward, count, luck)[1])
<1> DEFINE y == Ready(x, count, FALSE, luck)
           again == Build(y, count, NoSeed, FALSE, luck)
           s == ListStep(x, base, forward, count, luck)[1]
<1>1. Rebuilt(x, y, count, FALSE)
  BY ReadyRebuilds DEF Placed
<1>2. Steps(x, y)
  BY <1>1, RebuiltStays
<1>3. Rebuilt(y, again, count, FALSE)
  <2>1. Fields \subseteq DOMAIN y
    BY <1>2 DEF Steps, Placed
  <2> HIDE DEF y
  <2> QED
    BY <2>1, BuildRebuilds
<1>4. Steps(y, again)
  BY <1>2, <1>3, RebuiltStays DEF Steps
<1>5. Stays(x, again)
  BY <1>1, <1>3 DEF Rebuilt, Stays
<1>6. s \in {y, again}
  BY DEF ListStep
<1> QED
  BY <1>2, <1>4, <1>5, <1>6 DEF Steps

\* What an advance makes of an epoch over the catalogue: it may be lost, or go on inside it.
Moves(x, y) ==
    /\ Fields \subseteq DOMAIN y
    /\ \A f \in {"miss", "answered", "keptPos"} : y[f] = x[f]
    /\ y.over = TRUE /\ y.pos \in Nat
    /\ y.n = 0 \/ (y.n = x.n /\ y.pos < y.n)

LEMMA AdvancedMoves ==
    ASSUME NEW x, Placed(x), x.over = TRUE, x.n # 0, NEW forward \in BOOLEAN, NEW luck
    PROVE  Moves(x, Advanced(x, forward, luck))
<1> DEFINE ahead == [x EXCEPT !.pos = @ + 1]
           again == Build(x, x.n, NoSeed, TRUE, luck)
           first == [again EXCEPT !.pos = 0]
           back == [x EXCEPT !.pos = IF @ = 0 THEN x.n - 1 ELSE @ - 1]
<1>1. Fields \subseteq DOMAIN x /\ x.n \in Nat /\ x.pos \in Nat /\ x.pos < x.n
  BY DEF Placed
<1>2. Rebuilt(x, again, x.n, TRUE)
  BY <1>1, BuildRebuilds
<1>3. CASE forward /\ x.pos + 1 < x.n
  <2>1. Advanced(x, forward, luck) = ahead
    BY <1>1, <1>3 DEF Advanced
  <2>2. /\ DOMAIN ahead = DOMAIN x /\ ahead.pos = x.pos + 1
        /\ ahead.n = x.n /\ ahead.over = x.over
        /\ \A f \in {"miss", "answered", "keptPos"} : ahead[f] = x[f]
    BY <1>1 DEF Fields
  <2> HIDE DEF ahead
  <2>3. ahead.pos \in Nat /\ ahead.pos < x.n
    BY <1>1, <1>3, <2>2
  <2> QED
    BY <1>1, <2>1, <2>2, <2>3 DEF Moves
<1>4. CASE forward /\ x.pos + 1 >= x.n
  <2>1. Advanced(x, forward, luck) = first
    BY <1>1, <1>4 DEF Advanced
  <2>2. DOMAIN again = DOMAIN x /\ again.over = TRUE /\ again.n \in {0, x.n}
    BY <1>2 DEF Rebuilt
  <2>3. \A f \in {"miss", "answered", "keptPos"} : again[f] = x[f]
    BY <1>2 DEF Rebuilt
  <2> HIDE DEF again
  <2>4. /\ DOMAIN first = DOMAIN x /\ first.pos = 0
        /\ first.n = again.n /\ first.over = again.over
        /\ \A f \in {"miss", "answered", "keptPos"} : first[f] = again[f]
    BY <1>1, <2>2 DEF Fields
  <2> HIDE DEF first
  <2> QED
    BY <1>1, <2>1, <2>2, <2>3, <2>4 DEF Moves
<1>5. CASE ~forward
  <2>1. Advanced(x, forward, luck) = back
    BY <1>1, <1>5 DEF Advanced
  <2>2. /\ DOMAIN back = DOMAIN x /\ back.pos = IF x.pos = 0 THEN x.n - 1 ELSE x.pos - 1
        /\ back.n = x.n /\ back.over = x.over
        /\ \A f \in {"miss", "answered", "keptPos"} : back[f] = x[f]
    BY <1>1 DEF Fields
  <2> HIDE DEF back
  <2>3. back.pos \in Nat /\ back.pos < x.n
    BY <1>1, <2>2
  <2> QED
    BY <1>1, <2>1, <2>2, <2>3 DEF Moves
<1> QED
  BY <1>1, <1>3, <1>4, <1>5

\* The answer is noted: drawn, given up, or one more miss.
LEMMA NotedPlaced ==
    ASSUME NEW x, NEW y, NEW z, Placed(x), x.over = TRUE, x.n # 0, Moves(x, y),
           Fields \subseteq DOMAIN z, z.keptPos \in Nat, z.miss \in Nat,
           z.miss = 0 => z.answered = TRUE,
           z.n = y.n, z.over = y.over, z.pos = y.pos
    PROVE  Placed(z)
<1>1. y.over = TRUE /\ y.pos \in Nat /\ (y.n # 0 => y.n = x.n /\ y.pos < y.n)
  BY DEF Moves
<1>2. x.n \in Nat
  BY DEF Placed
<1>3. z.n # 0 => z.n \in Nat /\ z.pos < z.n
  BY <1>1, <1>2
<1> QED
  BY <1>1, <1>3 DEF Placed

\* An epoch over the catalogue, whose length may have changed under the cursor; and what an
\* advance makes of the cursor in it.
Ongoing(y) ==
    /\ Fields \subseteq DOMAIN y
    /\ y.pos \in Nat /\ y.keptPos \in Nat /\ y.miss \in Nat /\ y.over = TRUE
    /\ y.miss = 0 => y.answered = TRUE
    /\ y.n \in Nat /\ y.n # 0
Advances(y, s) ==
    /\ Placed(s) /\ s.n \in {0, y.n}
    /\ y.miss > 0 /\ y.pos < y.n => s.pos = y.pos

LEMMA CursorMoves ==
    ASSUME NEW y, Ongoing(y), NEW forward \in BOOLEAN, NEW luck
    PROVE  Advances(y, CursorStep(y, forward, luck)[1])
<1> DEFINE x1 == IF y.pos >= y.n THEN [y EXCEPT !.pos = 0] ELSE y
           moved == IF Holding(x1) THEN x1 ELSE Advanced(x1, forward, luck)
           z == [moved EXCEPT !.want = Wanted(moved, moved.pos),
                              !.keptPos = IF luck.holds THEN moved.pos ELSE @]
           got == [z EXCEPT !.miss = 0, !.answered = TRUE]
           missed == [z EXCEPT !.miss = IF GivesUp(z) THEN 0 ELSE @ + 1, !.answered = GivesUp(z)]
           s == CursorStep(y, forward, luck)[1]
<1>0. /\ Fields \subseteq DOMAIN y
      /\ y.pos \in Nat /\ y.keptPos \in Nat /\ y.miss \in Nat /\ y.over = TRUE
      /\ y.miss = 0 => y.answered = TRUE
      /\ y.n \in Nat /\ y.n # 0
  BY DEF Ongoing
<1>1. s \in {got, missed}
  BY DEF CursorStep
<1> HIDE DEF s
<1>2. /\ Fields \subseteq DOMAIN x1 /\ x1.over = TRUE /\ x1.n = y.n
      /\ x1["miss"] = y["miss"] /\ x1["answered"] = y["answered"] /\ x1["keptPos"] = y["keptPos"]
  BY <1>0 DEF Fields
<1>3. x1.pos = IF y.pos >= y.n THEN 0 ELSE y.pos
  BY <1>0 DEF Fields
<1> HIDE DEF x1
<1>4. x1.pos \in Nat /\ x1.pos < y.n
  BY <1>0, <1>3
<1>5. Placed(x1)
  BY <1>0, <1>2, <1>4 DEF Placed
<1>6. Moves(x1, moved) /\ (x1.miss > 0 => moved.pos = x1.pos)
  <2>1. CASE Holding(x1)
    BY <1>0, <1>2, <1>4, <2>1 DEF Moves
  <2>2. CASE ~Holding(x1)
    BY <1>0, <1>2, <1>4, <1>5, <2>2, AdvancedMoves DEF Holding
  <2> QED
    BY <2>1, <2>2
<1> HIDE DEF moved
<1>7. /\ Fields \subseteq DOMAIN z /\ z.keptPos \in {moved.pos, moved.keptPos}
      /\ z.n = moved.n /\ z.over = moved.over /\ z.pos = moved.pos /\ z.miss = moved.miss
  BY <1>6 DEF Moves, Fields
<1> HIDE DEF z
<1>8. z.keptPos \in Nat /\ z.miss \in Nat
  BY <1>5, <1>6, <1>7 DEF Moves, Placed
<1>9. /\ Fields \subseteq DOMAIN got /\ got.keptPos = z.keptPos
      /\ got.n = z.n /\ got.over = z.over /\ got.pos = z.pos
      /\ got.miss = 0 /\ got.answered = TRUE
  BY <1>7 DEF Fields
<1>10. /\ Fields \subseteq DOMAIN missed /\ missed.keptPos = z.keptPos
       /\ missed.n = z.n /\ missed.over = z.over /\ missed.pos = z.pos
       /\ missed.miss \in Nat /\ (missed.miss = 0 => missed.answered = TRUE)
  <2> DEFINE up == GivesUp(z)
             miss == IF up THEN 0 ELSE z.miss + 1
  <2>1. miss \in Nat /\ (miss = 0 => up = TRUE)
    <3>1. z.miss \in Nat /\ z.miss + 1 # 0
      BY <1>8
    <3>2. up \in BOOLEAN
      BY DEF GivesUp
    <3> HIDE DEF up
    <3> QED
      BY <3>1, <3>2
  <2>2. missed = [z EXCEPT !.miss = miss, !.answered = up]
    OBVIOUS
  <2> HIDE DEF up, miss, missed
  <2> DEFINE m == [z EXCEPT !.miss = miss, !.answered = up]
  <2>3. /\ Fields \subseteq DOMAIN m /\ m.keptPos = z.keptPos
        /\ m.n = z.n /\ m.over = z.over /\ m.pos = z.pos
        /\ m.miss = miss /\ m.answered = up
    BY <1>7 DEF Fields
  <2> HIDE DEF m
  <2> QED
    BY <2>1, <2>2, <2>3 DEF m
<1> HIDE DEF got, missed
<1>11. Placed(s) /\ s.n = moved.n /\ s.pos = moved.pos
  <2>1. /\ Fields \subseteq DOMAIN s /\ s.keptPos \in Nat /\ s.miss \in Nat
        /\ s.miss = 0 => s.answered = TRUE
        /\ s.n = moved.n /\ s.over = moved.over /\ s.pos = moved.pos
    <3>1. CASE s = got
      BY <1>7, <1>8, <1>9, <3>1
    <3>2. CASE s = missed
      BY <1>7, <1>8, <1>10, <3>2
    <3> QED
      BY <1>1, <3>1, <3>2
  <2>2. Placed(s)
    BY <1>0, <1>2, <1>5, <1>6, <2>1, NotedPlaced
  <2> QED
    BY <2>1, <2>2
<1>12. s.n \in {0, y.n}
  BY <1>2, <1>6, <1>11 DEF Moves
<1>13. y.miss > 0 /\ y.pos < y.n => s.pos = y.pos
  BY <1>0, <1>2, <1>3, <1>6, <1>11
<1> QED
  BY <1>11, <1>12, <1>13 DEF s, Advances

\* An advance of the catalogue's epoch: the cursor moves on from what was answered only.
LEMMA CatalogStepSteps ==
    ASSUME NEW x, Placed(x), NEW forward \in BOOLEAN, NEW count \in Nat, NEW luck
    PROVE  Steps(x, CatalogStep(x, forward, count, luck)[1])
<1> DEFINE y == Ready(x, count, TRUE, luck)
           s == CatalogStep(x, forward, count, luck)[1]
<1>1. Rebuilt(x, y, count, TRUE)
  BY ReadyRebuilds DEF Placed
<1>2. s = IF y.n = 0 THEN y ELSE CursorStep(y, forward, luck)[1]
  BY DEF CatalogStep
<1> HIDE DEF s, y
<1>3. CASE y.n = 0
  <2>1. /\ DOMAIN y = DOMAIN x /\ y.over \in BOOLEAN
        /\ y["pos"] = x["pos"] /\ y["miss"] = x["miss"]
        /\ y["answered"] = x["answered"] /\ y["keptPos"] = x["keptPos"]
    BY <1>1 DEF Rebuilt, Placed
  <2> QED
    BY <1>2, <1>3, <2>1 DEF Placed, Steps, Stays, s
<1>4. CASE y.n # 0
  <2>1. /\ DOMAIN y = DOMAIN x /\ y.over = TRUE /\ y.n = count
        /\ y["pos"] = x["pos"] /\ y["miss"] = x["miss"]
        /\ y["answered"] = x["answered"] /\ y["keptPos"] = x["keptPos"]
    BY <1>1, <1>4 DEF Rebuilt
  <2>2. Advances(y, s)
    <3>1. /\ Fields \subseteq DOMAIN y /\ y.pos \in Nat /\ y.keptPos \in Nat /\ y.miss \in Nat
          /\ y.miss = 0 => y.answered = TRUE
      BY <2>1 DEF Placed
    <3>2. Ongoing(y)
      BY <1>4, <2>1, <3>1 DEF Ongoing
    <3> QED
      BY <1>2, <1>4, <3>2, CursorMoves
  <2>3. Stays(x, s)
    <3> SUFFICES ASSUME x.over = TRUE, x.n = s.n, x.n # 0, s.pos # x.pos
                 PROVE  x.answered = TRUE
      BY DEF Stays
    <3>1. x.n = count /\ x.pos < count
      BY <2>1, <2>2 DEF Placed, Advances
    <3>2. ~(x.miss > 0)
      BY <2>1, <2>2, <3>1 DEF Advances
    <3> QED
      BY <3>2 DEF Placed
  <2> QED
    BY <2>2, <2>3 DEF Steps, Advances, s
<1> QED
  BY <1>3, <1>4

LEMMA CountTyped == ASSUME Len(cat) \in Nat PROVE CatalogCount \in Nat
BY DEF CatalogCount

LEMMA StepOnEmptySteps ==
    ASSUME NEW x, Placed(x), Len(cat) \in Nat, NEW forward \in BOOLEAN, NEW luck
    PROVE  Steps(x, StepOnEmpty(x, forward, luck))
<1> DEFINE gone == [Emptied(x) EXCEPT !.due = FALSE]
           s == CatalogStep(gone, forward, CatalogCount, luck)[1]
<1>1. Alike(x, gone)
  BY DEF Emptied, Alike, Fields, Placed
<1>2. StepOnEmpty(x, forward, luck) \in {s, gone}
  BY DEF StepOnEmpty
<1> HIDE DEF gone
<1>3. Steps(x, gone)
  BY <1>1, AlikeStays
<1>4. Placed(gone) /\ CatalogCount \in Nat
  BY <1>3, CountTyped DEF Steps
<1>5. Steps(gone, s)
  BY <1>4, CatalogStepSteps
<1> HIDE DEF s
<1>6. Steps(x, s)
  BY <1>1, <1>5, AlikeThenSteps
<1> QED
  BY <1>2, <1>3, <1>6

\* Whatever comes next, the cursor leaves what was answered only.
LEMMA StepSteps ==
    ASSUME NEW x0, Placed(x0), Len(cat) \in Nat, NEW forward \in BOOLEAN, NEW luck
    PROVE  Steps(x0, Step(x0, forward, luck))
<1> DEFINE x == Rescan(x0)
           count == Cardinality(x.list)
           base == IF x.pend # NoPhoto THEN x.pend ELSE x.cur
           in == <<[x EXCEPT !.n = 0], NoPhoto>>
           there == CatalogStep(x, forward, CatalogCount, luck)
           here == ListStep(x, base, forward, count, luck)
           drawn == CASE ~mode.random -> in
                      [] mode.random /\ CatalogCount > 0 -> there
                      [] mode.random /\ CatalogCount = 0 -> here
           next == IF drawn[2] # NoPhoto THEN drawn[2] ELSE NextInOrder(base, forward, count)
           r == Request(drawn[1], next, luck.holds)
           e == StepOnEmpty(x, forward, luck)
<1>1. Step(x0, forward, luck) \in {e, r}
  BY DEF Step
<1>2. Alike(x0, x)
  BY RescanAlike DEF Placed
<1> HIDE DEF x
<1>3. Placed(x) /\ CatalogCount \in Nat
  BY <1>2, AlikeStays, CountTyped DEF Steps
<1>4. Steps(x, e)
  BY <1>3, StepOnEmptySteps
<1> HIDE DEF e, count, base
<1>5. Steps(x, in[1]) /\ Steps(x, there[1]) /\ Steps(x, here[1])
  <2>1. Steps(x, [x EXCEPT !.n = 0])
    BY <1>3 DEF Placed, Fields, Steps, Stays
  <2>2. in[1] = [x EXCEPT !.n = 0]
    OBVIOUS
  <2> HIDE DEF in
  <2> QED
    BY <1>3, <2>1, <2>2, CatalogStepSteps, ListStepSteps
<1> HIDE DEF in, there, here
<1>6. drawn \in {in, there, here}
  BY <1>3
<1> HIDE DEF drawn
<1> DEFINE d == drawn[1]
<1>7. Steps(x, d)
  BY <1>5, <1>6
<1>8. Fields \subseteq DOMAIN d
  BY <1>7 DEF Steps, Placed
<1> HIDE DEF d, next
<1>9. r = Request(d, next, luck.holds)
  BY DEF d
<1>10. Alike(d, r)
  BY <1>8, <1>9, RequestAlike
<1> HIDE DEF r
<1>11. Steps(x, r)
  BY <1>3, <1>7, <1>10, StepsThenAlike
<1>12. Steps(x0, e) /\ Steps(x0, r)
  BY <1>2, <1>4, <1>11, AlikeThenSteps
<1> QED
  BY <1>1, <1>12

LEMMA UpdatedSteps ==
    ASSUME NEW x, Placed(x), NEW open, NEW busy
    PROVE  Steps(x, Updated(x, open, busy))
<1> DEFINE y == Noticed(x)
           d == Settled(y)
<1>1. Updated(x, open, busy) \in {d, y}
  BY DEF Updated
<1>2. Alike(x, y)
  BY NoticedAlike
<1> HIDE DEF y
<1>3. Placed(y) /\ Steps(x, y)
  BY <1>2, AlikeStays DEF Steps
<1>4. Alike(y, d)
  BY <1>3, SettledAlike
<1> HIDE DEF d
<1>5. Steps(x, d)
  BY <1>3, <1>4, StepsThenAlike
<1> QED
  BY <1>1, <1>3, <1>5

\* A boot finds the cursor where RTC RAM has it, or at the head, with no epoch yet.
LEMMA StartedSteps ==
    ASSUME NEW x, Fields \subseteq DOMAIN x, x.keptPos \in Nat, NEW at, NEW ok
    PROVE  Steps(x, Started(x, at, ok))
<1> DEFINE b == [x EXCEPT !.pos = IF ok THEN x.keptPos ELSE 0, !.miss = 0, !.n = 0,
                          !.seed = NoSeed, !.over = FALSE, !.cur = NoPhoto,
                          !.pend = NoPhoto, !.needs = FALSE, !.inval = FALSE, !.due = FALSE,
                          !.want = NoPhoto, !.asked = NoPhoto, !.answered = TRUE]
           y == Rescan(b)
           p == [y EXCEPT !.pend = at]
           d == Display(p, at)
           k == [d EXCEPT !.kept = at]
<1>1. Started(x, at, ok) \in {y, k}
  BY DEF Started
<1>2. /\ Fields \subseteq DOMAIN b /\ b.pos \in {x.keptPos, 0} /\ b.miss = 0 /\ b.n = 0
      /\ b.over = FALSE /\ b.answered = TRUE /\ b.keptPos = x.keptPos
  BY DEF Fields
<1> HIDE DEF b
<1>3. Placed(b)
  <2>1. b.pos \in Nat /\ b.keptPos \in Nat /\ b.miss \in Nat
    BY <1>2
  <2>2. b.over \in BOOLEAN /\ b.over # TRUE
    BY <1>2
  <2> QED
    BY <1>2, <2>1, <2>2 DEF Placed
<1>4. Alike(b, y)
  BY <1>3, RescanAlike DEF Placed
<1> HIDE DEF y
<1>5. Alike(y, p)
  BY <1>2, <1>4 DEF Alike, Fields
<1> HIDE DEF p
<1>6. Alike(p, d)
  BY <1>2, <1>4, <1>5, DisplayAlike DEF Alike
<1> HIDE DEF d
<1>7. Alike(d, k)
  BY <1>2, <1>4, <1>5, <1>6 DEF Alike, Fields
<1> HIDE DEF k
<1>8. Alike(b, y) /\ Alike(b, k)
  BY <1>4, <1>5, <1>6, <1>7, AlikeTwice
<1>9. Placed(y) /\ Placed(k) /\ y.over = FALSE /\ k.over = FALSE
  BY <1>2, <1>3, <1>8, AlikeStays DEF Steps, Alike, Fields
<1> QED
  BY <1>1, <1>9 DEF Steps, Stays

LEMMA SharedListed == SetToSeq(Shared) \in Seq(Shared)
<1> DEFINE n == Cardinality(Shared)
           l == SetToSeq(Shared)
<1>1. n \in Nat /\ ExistsBijection(1..n, Shared)
  BY CacheAssumption, FS_CardinalityType
<1>2. \E g \in [1..n -> Shared] : IsInjective(g)
  BY <1>1 DEF ExistsBijection, Bijection, Injection, IsInjective
<1>3. l \in [1..n -> Shared]
  BY <1>2 DEF SetToSeq
<1> HIDE DEF n, l
<1>4. l \in Seq(Shared)
  BY <1>1, <1>3, SeqDef
<1> QED
  BY <1>4 DEF l

\* The catalogue and the folder it is read from are lists.
Lists == cat \in Seq(Shared) /\ share \in Seq(Shared)

LEMMA NextLists == Lists /\ [Next]_vars => Lists'
<1> SUFFICES ASSUME Lists, [Next]_vars PROVE Lists'
  OBVIOUS
<1>1. ASSUME cat' \in {cat, share}, share' = share PROVE Lists'
  BY <1>1 DEF Lists
<1>2. CASE UNCHANGED vars
  BY <1>1, <1>2 DEF vars, slideVars
<1>3. CASE Open \/ Fetch \/ StopFetching \/ List \/ StartWalk \/ EndWalk
  BY <1>1, <1>3 DEF Open, Fetch, StopFetching, List, StartWalk, EndWalk, slideVars
<1>4. ASSUME NEW p \in Shared, Evict(p) PROVE Lists'
  BY <1>1, <1>4 DEF Evict
<1>5. CASE Main \/ Button \/ Page
  BY <1>1, <1>5 DEF Main, Button, Page, Tick, Advance, IntervalEnds, Press, ShowName, SetMode, Elsewhere
<1>6. CASE Boot
  <2>1. <<>> \in Seq(Shared)
    BY EmptySeq
  <2> QED
    BY <1>6, <2>1 DEF Boot, Lists
<1>7. ASSUME NEW p \in Photo, UserChanges(p) PROVE Lists'
  BY <1>1, <1>7 DEF UserChanges
<1>8. ASSUME NEW p \in Shared, ShareChanges(p) PROVE Lists'
  <2>1. cat' = cat /\ share' = IF p \in ToSet(share) THEN Without(share, p) ELSE Append(share, p)
    BY <1>8 DEF ShareChanges, slideVars
  <2>2. CASE p \in ToSet(share)
    <3>1. \E i \in DOMAIN share : share' = RemoveAt(share, i)
      BY <2>1, <2>2, WithoutIsRemoved DEF Lists
    <3> QED
      BY <2>1, <3>1, RemoveAtTyped DEF Lists
  <2>3. CASE p \notin ToSet(share)
    BY <2>1, <2>3, AppendProperties DEF Lists
  <2> QED
    BY <2>2, <2>3
<1> QED
  BY <1>2, <1>3, <1>4, <1>5, <1>6, <1>7, <1>8 DEF Next, Window

LEMMA InitPlaced == Init => Lists /\ Placed(show)
<1> SUFFICES ASSUME Init PROVE Lists /\ Placed(show)
  OBVIOUS
<1>1. Lists
  BY SharedListed, EmptySeq DEF Init, SlideshowInit, Lists
<1> DEFINE off == [list |-> {}, cur |-> NoPhoto, pend |-> NoPhoto, needs |-> FALSE,
                   inval |-> FALSE, due |-> FALSE, n |-> 0, seed |-> NoSeed, over |-> FALSE,
                   pos |-> 0, miss |-> 0, want |-> NoPhoto, setting |-> NoSeed, kept |-> 0,
                   keptPos |-> 0, asked |-> NoPhoto, answered |-> TRUE]
<1>2. show = Started(off, 0, TRUE)
  BY DEF Init, SlideshowInit
<1>3. Fields \subseteq DOMAIN off /\ off.keptPos = 0
  BY DEF Fields
<1> HIDE DEF off
<1>4. Steps(off, Started(off, 0, TRUE))
  <2>1. off.keptPos \in Nat
    BY <1>3
  <2> QED
    BY <1>3, <2>1, StartedSteps
<1> QED
  BY <1>1, <1>2, <1>4 DEF Steps

\* The page that asks for a photograph leaves the cursor alone.
LEMMA ShowNameSteps == ASSUME Placed(show), NEW p, ShowName(p) PROVE Steps(show, show')
<1> DEFINE x == Rescan(show)
           i == IndexOf(x.list, p)
           d == Display(x, i)
           e == [d EXCEPT !.pend = i, !.needs = FALSE, !.due = FALSE, !.kept = i]
<1>1. show' \in {x, e}
  BY DEF ShowName
<1>2. Alike(show, x)
  BY RescanAlike DEF Placed
<1> HIDE DEF x, i
<1>3. Alike(x, d)
  BY <1>2, DisplayAlike DEF Alike, Placed
<1> HIDE DEF d
<1>4. Alike(d, e)
  BY <1>2, <1>3 DEF Alike, Placed, Fields
<1> HIDE DEF e
<1>5. Alike(show, e)
  BY <1>2, <1>3, <1>4, AlikeTwice
<1> QED
  BY <1>1, <1>2, <1>5, AlikeStays

LEMMA NextSteps == ASSUME Lists, Placed(show), [Next]_vars PROVE Steps(show, show')
<1>1. ASSUME Alike(show, show') PROVE Steps(show, show')
  BY <1>1, AlikeStays
<1>2. ASSUME show' = show PROVE Steps(show, show')
  BY <1>1, <1>2 DEF Alike
<1>3. ASSUME NEW v, show' = [show EXCEPT !.want = v] PROVE Steps(show, show')
  BY <1>1, <1>3 DEF Alike, Fields
<1>4. ASSUME NEW v, show' = [show EXCEPT !.inval = v] PROVE Steps(show, show')
  BY <1>1, <1>4 DEF Alike, Fields
<1>5. ASSUME NEW v, show' = [show EXCEPT !.due = v] PROVE Steps(show, show')
  BY <1>1, <1>5 DEF Alike, Fields
<1>6. Len(cat) \in Nat
  BY LenProperties DEF Lists
<1>7. ASSUME (\E open, busy \in BOOLEAN : Tick(open, busy)) \/ Advance PROVE Steps(show, show')
  <2>1. ASSUME NEW open \in BOOLEAN, NEW busy \in BOOLEAN, Tick(open, busy) PROVE Steps(show, show')
    BY <2>1, UpdatedSteps DEF Tick
  <2>2. ASSUME Advance PROVE Steps(show, show')
    BY <1>6, <2>2, StepSteps DEF Advance
  <2> QED
    BY <1>7, <2>1, <2>2
<1>8. ASSUME NEW forward \in BOOLEAN, Press(forward) PROVE Steps(show, show')
  BY <1>6, <1>8, StepSteps DEF Press
<1>9. CASE UNCHANGED vars
  BY <1>2, <1>9 DEF vars, slideVars
<1>10. CASE Open \/ StopFetching \/ List \/ StartWalk
  BY <1>2, <1>10 DEF Open, StopFetching, List, StartWalk, slideVars
<1>11. CASE Fetch
  BY <1>3, <1>11 DEF Fetch
<1>12. CASE EndWalk
  BY <1>2, <1>4, <1>12 DEF EndWalk, Closes
<1>13. ASSUME NEW p \in Shared, Evict(p) PROVE Steps(show, show')
  BY <1>2, <1>13 DEF Evict
<1>14. CASE Main
  BY <1>5, <1>7, <1>14 DEF Main, IntervalEnds
<1>15. CASE Button
  BY <1>8, <1>15 DEF Button
<1>16. CASE Page
  BY <1>2, <1>16, ShowNameSteps DEF Page, SetMode
<1>17. CASE Boot
  <2>1. PICK ok \in BOOLEAN : show' = Started(show, StartIndex(show, card, ok), ok)
    BY <1>17 DEF Boot
  <2> QED
    BY <2>1, StartedSteps DEF Placed
<1>18. ASSUME NEW p \in Photo, UserChanges(p) PROVE Steps(show, show')
  BY <1>4, <1>18 DEF UserChanges
<1>19. ASSUME NEW p \in Shared, ShareChanges(p) PROVE Steps(show, show')
  BY <1>2, <1>19 DEF ShareChanges, slideVars
<1> QED
  BY <1>9, <1>10, <1>11, <1>12, <1>13, <1>14, <1>15, <1>16, <1>17, <1>18, <1>19 DEF Next, Window

\* Whoever advances, and whatever is fetched, evicted, listed and cut short meanwhile: the cursor
\* stays where it is until the photograph there has been drawn or given up.
THEOREM CursorHoldsItsPlace == Spec => CursorHolds
<1> DEFINE Inv == Lists /\ Placed(show)
<1>1. Inv /\ [Next]_vars => Inv'
  BY NextLists, NextSteps DEF Steps
<1>2. Inv /\ [Next]_vars => [SameEpoch /\ show'.pos # show.pos => show.answered]_vars
  <2> SUFFICES ASSUME Inv, [Next]_vars, SameEpoch, show'.pos # show.pos PROVE show.answered
    OBVIOUS
  <2>1. Stays(show, show') /\ Placed(show) /\ Placed(show')
    BY NextSteps DEF Steps
  <2>2. show.over = TRUE /\ show'.over = TRUE /\ show.n = show'.n /\ show.n # 0
    BY <2>1 DEF SameEpoch, Placed
  <2>3. show.answered = TRUE
    BY <2>1, <2>2 DEF Stays
  <2> QED
    BY <2>3
<1> QED
  BY <1>1, <1>2, InitPlaced, PTL DEF Spec, CursorHolds

-----------------------------------------------------------------------------
(* The list the slideshow steps through. *)

\* What a handler makes of the list: it reads the card, or leaves list and notice alone.
Kept(x, y) ==
    /\ {"list", "inval"} \subseteq DOMAIN y
    /\ y["list"] = x["list"] /\ y["inval"] = x["inval"]
Read(y) == {"list", "inval"} \subseteq DOMAIN y /\ y["list"] = card
Told(x, y) == Kept(x, y) \/ Read(y)

Listed(x) == {"list", "inval"} \subseteq DOMAIN x

LEMMA KeptSelf == ASSUME NEW x, Listed(x) PROVE Kept(x, x)
BY DEF Kept, Listed

LEMMA KeptTwice == ASSUME NEW x, NEW y, NEW z, Kept(x, y), Kept(y, z) PROVE Kept(x, z)
BY DEF Kept

LEMMA ReadThenKept == ASSUME NEW y, NEW z, Read(y), Kept(y, z) PROVE Read(z)
BY DEF Kept, Read

LEMMA KeptListed == ASSUME NEW x, NEW y, Kept(x, y) PROVE Listed(y)
BY DEF Kept, Listed

LEMMA RescanReads == ASSUME NEW x, Listed(x) PROVE Read(Rescan(x)) /\ Listed(Rescan(x))
BY DEF Rescan, Read, Listed

LEMMA BuildKeeps ==
    ASSUME NEW x, NEW count, NEW seed, NEW over, NEW luck, Listed(x)
    PROVE  Kept(x, Build(x, count, seed, over, luck))
<1> DEFINE minted == IF seed = NoSeed THEN luck.fresh ELSE seed
           setting == IF seed = NoSeed /\ luck.holds THEN minted ELSE x.setting
           none == [x EXCEPT !.n = 0]
           made == [x EXCEPT !.n = count, !.seed = minted, !.over = over, !.setting = setting]
<1>1. Build(x, count, seed, over, luck) \in {none, made}
  BY DEF Build
<1>2. Kept(x, none)
  BY DEF Kept, Listed
<1>3. Kept(x, made)
  <2> HIDE DEF minted, setting
  <2> QED
    BY DEF Kept, Listed
<1> HIDE DEF none, made
<1> QED
  BY <1>1, <1>2, <1>3

LEMMA ReadyKeeps ==
    ASSUME NEW x, NEW count, NEW over, NEW luck, Listed(x)
    PROVE  Kept(x, Ready(x, count, over, luck))
<1>1. Ready(x, count, over, luck) = x \/ \E seed : Ready(x, count, over, luck) = Build(x, count, seed, over, luck)
  BY DEF Ready
<1> QED
  BY <1>1, BuildKeeps, KeptSelf

LEMMA ListStepKeeps ==
    ASSUME NEW x, Listed(x), NEW base, NEW forward \in BOOLEAN, NEW count, NEW luck
    PROVE  Kept(x, ListStep(x, base, forward, count, luck)[1])
<1> DEFINE y == Ready(x, count, FALSE, luck)
           again == Build(y, count, NoSeed, FALSE, luck)
           s == ListStep(x, base, forward, count, luck)[1]
<1>1. s \in {y, again}
  BY DEF ListStep
<1>2. Kept(x, y)
  BY ReadyKeeps
<1> HIDE DEF s, y
<1>3. Kept(y, again)
  BY <1>2, KeptListed, BuildKeeps
<1> HIDE DEF again
<1> QED
  BY <1>1, <1>2, <1>3, KeptTwice DEF s

LEMMA AdvancedKeeps ==
    ASSUME NEW x, Listed(x), x.n \in Nat, x.pos \in Nat, NEW forward \in BOOLEAN, NEW luck
    PROVE  Kept(x, Advanced(x, forward, luck))
<1> DEFINE ahead == [x EXCEPT !.pos = @ + 1]
           again == Build(x, x.n, NoSeed, TRUE, luck)
           first == [again EXCEPT !.pos = 0]
           back == [x EXCEPT !.pos = IF @ = 0 THEN x.n - 1 ELSE @ - 1]
<1>1. Advanced(x, forward, luck) \in {ahead, first, back}
  <2>1. CASE forward /\ x.pos + 1 < x.n
    BY <2>1 DEF Advanced
  <2>2. CASE forward /\ ~(x.pos + 1 < x.n)
    <3>1. x.pos + 1 >= x.n
      BY <2>2
    <3>2. Advanced(x, forward, luck) = first
      BY <2>2, <3>1 DEF Advanced
    <3> QED
      BY <3>2
  <2>3. CASE ~forward
    BY <2>3 DEF Advanced
  <2> QED
    BY <2>1, <2>2, <2>3
<1>2. Kept(x, ahead) /\ Kept(x, back)
  BY DEF Kept, Listed
<1>3. Kept(x, again)
  BY BuildKeeps
<1> HIDE DEF again
<1>4. Kept(again, first)
  BY <1>3 DEF Kept
<1> HIDE DEF ahead, first, back
<1> QED
  BY <1>1, <1>2, <1>3, <1>4, KeptTwice

LEMMA CursorKeeps ==
    ASSUME NEW y, Ongoing(y), Listed(y), NEW forward \in BOOLEAN, NEW luck
    PROVE  Kept(y, CursorStep(y, forward, luck)[1])
<1> DEFINE x1 == IF y.pos >= y.n THEN [y EXCEPT !.pos = 0] ELSE y
           moved == IF Holding(x1) THEN x1 ELSE Advanced(x1, forward, luck)
           z == [moved EXCEPT !.want = Wanted(moved, moved.pos),
                              !.keptPos = IF luck.holds THEN moved.pos ELSE @]
           got == [z EXCEPT !.miss = 0, !.answered = TRUE]
           missed == [z EXCEPT !.miss = IF GivesUp(z) THEN 0 ELSE @ + 1, !.answered = GivesUp(z)]
           s == CursorStep(y, forward, luck)[1]
<1>1. s \in {got, missed}
  BY DEF CursorStep
<1> HIDE DEF s
<1>2. Kept(y, x1) /\ x1.n \in Nat /\ x1.pos \in Nat
  BY DEF Kept, Listed, Ongoing, Fields
<1> HIDE DEF x1
<1>3. Kept(x1, moved)
  BY <1>2, AdvancedKeeps, KeptSelf, KeptListed
<1> HIDE DEF moved
<1>4. Kept(moved, z)
  BY <1>3 DEF Kept
<1> HIDE DEF z
<1>5. Kept(z, got) /\ Kept(z, missed)
  BY <1>4 DEF Kept
<1> HIDE DEF got, missed
<1>6. Kept(y, z)
  BY <1>2, <1>3, <1>4, KeptTwice
<1> QED
  BY <1>1, <1>5, <1>6, KeptTwice DEF s

LEMMA CatalogStepKeeps ==
    ASSUME NEW x, Placed(x), Listed(x), NEW forward \in BOOLEAN, NEW count \in Nat, NEW luck
    PROVE  Kept(x, CatalogStep(x, forward, count, luck)[1])
<1> DEFINE y == Ready(x, count, TRUE, luck)
           s == CatalogStep(x, forward, count, luck)[1]
<1>1. Kept(x, y) /\ Rebuilt(x, y, count, TRUE)
  BY ReadyKeeps, ReadyRebuilds DEF Placed
<1>2. s = IF y.n = 0 THEN y ELSE CursorStep(y, forward, luck)[1]
  BY DEF CatalogStep
<1> HIDE DEF s, y
<1>3. CASE y.n = 0
  BY <1>1, <1>2, <1>3 DEF s
<1>4. CASE y.n # 0
  <2>1. /\ DOMAIN y = DOMAIN x /\ y.over = TRUE /\ y.n = count
        /\ y["pos"] = x["pos"] /\ y["miss"] = x["miss"]
        /\ y["answered"] = x["answered"] /\ y["keptPos"] = x["keptPos"]
    BY <1>1, <1>4 DEF Rebuilt
  <2>2. /\ Fields \subseteq DOMAIN y /\ y.pos \in Nat /\ y.keptPos \in Nat /\ y.miss \in Nat
        /\ y.miss = 0 => y.answered = TRUE
    BY <2>1 DEF Placed
  <2>3. Ongoing(y) /\ Listed(y)
    BY <1>1, <1>4, <2>1, <2>2, KeptListed DEF Ongoing
  <2> DEFINE c == CursorStep(y, forward, luck)[1]
  <2>4. Kept(y, c)
    BY <2>3, CursorKeeps
  <2>5. s = c
    BY <1>2, <1>4
  <2> HIDE DEF c
  <2> QED
    BY <1>1, <2>4, <2>5, KeptTwice DEF s
<1> QED
  BY <1>3, <1>4

LEMMA StepOnEmptyKeeps ==
    ASSUME NEW x, Placed(x), Listed(x), Len(cat) \in Nat, NEW forward \in BOOLEAN, NEW luck
    PROVE  Kept(x, StepOnEmpty(x, forward, luck))
<1> DEFINE gone == [Emptied(x) EXCEPT !.due = FALSE]
           s == CatalogStep(gone, forward, CatalogCount, luck)[1]
<1>1. Kept(x, gone) /\ Alike(x, gone)
  BY DEF Emptied, Alike, Kept, Listed, Fields, Placed
<1>2. StepOnEmpty(x, forward, luck) \in {s, gone}
  BY DEF StepOnEmpty
<1> HIDE DEF gone
<1>3. Placed(gone) /\ Listed(gone) /\ CatalogCount \in Nat
  BY <1>1, AlikeStays, KeptListed, CountTyped DEF Steps
<1>4. Kept(gone, s)
  BY <1>3, CatalogStepKeeps
<1> HIDE DEF s
<1> QED
  BY <1>1, <1>2, <1>4, KeptTwice

\* A step of the slideshow enumerates the card again.
LEMMA StepReads ==
    ASSUME NEW x0, Placed(x0), Listed(x0), Len(cat) \in Nat, NEW forward \in BOOLEAN, NEW luck
    PROVE  Read(Step(x0, forward, luck))
<1> DEFINE x == Rescan(x0)
           count == Cardinality(x.list)
           base == IF x.pend # NoPhoto THEN x.pend ELSE x.cur
           in == <<[x EXCEPT !.n = 0], NoPhoto>>
           there == CatalogStep(x, forward, CatalogCount, luck)
           here == ListStep(x, base, forward, count, luck)
           drawn == CASE ~mode.random -> in
                      [] mode.random /\ CatalogCount > 0 -> there
                      [] mode.random /\ CatalogCount = 0 -> here
           next == IF drawn[2] # NoPhoto THEN drawn[2] ELSE NextInOrder(base, forward, count)
           r == Request(drawn[1], next, luck.holds)
           e == StepOnEmpty(x, forward, luck)
<1>1. Step(x0, forward, luck) \in {e, r}
  BY DEF Step
<1>2. Alike(x0, x) /\ Read(x) /\ Listed(x)
  BY RescanAlike, RescanReads DEF Placed
<1> HIDE DEF x
<1>3. Placed(x) /\ CatalogCount \in Nat
  BY <1>2, AlikeStays, CountTyped DEF Steps
<1>4. Kept(x, e)
  BY <1>2, <1>3, StepOnEmptyKeeps
<1> HIDE DEF e, count, base
<1>5. Kept(x, in[1]) /\ Kept(x, there[1]) /\ Kept(x, here[1])
  <2>1. Kept(x, [x EXCEPT !.n = 0])
    BY <1>2 DEF Kept, Listed
  <2>2. in[1] = [x EXCEPT !.n = 0]
    OBVIOUS
  <2> HIDE DEF in
  <2> QED
    BY <1>2, <1>3, <2>1, <2>2, CatalogStepKeeps, ListStepKeeps
<1> HIDE DEF in, there, here
<1>6. drawn \in {in, there, here}
  BY <1>3
<1> HIDE DEF drawn
<1> DEFINE d == drawn[1]
<1>7. Kept(x, d)
  BY <1>5, <1>6
<1> HIDE DEF d, next
<1>8. r = Request(d, next, luck.holds)
  BY DEF d
<1>9. Kept(d, r)
  BY <1>7, <1>8 DEF Kept, Request
<1> HIDE DEF r
<1> QED
  BY <1>1, <1>2, <1>4, <1>7, <1>9, KeptTwice, ReadThenKept

\* A tick enumerates it when it has been told to.
LEMMA UpdatedTells ==
    ASSUME NEW x, Listed(x), NEW open, NEW busy
    PROVE  Told(x, Updated(x, open, busy))
<1> DEFINE w == [x EXCEPT !.inval = FALSE]
           y == Rescan(w)
           v == Noticed(x)
           d == Settled(v)
<1>1. Listed(w)
  BY DEF Listed
<1> HIDE DEF w
<1>2. Read(y) /\ Listed(y)
  BY <1>1, RescanReads
<1> HIDE DEF y
<1>3. Read(Emptied(y))
  BY <1>2 DEF Read, Emptied
<1>4. v \in {x, y, Emptied(y)}
  BY DEF Noticed, w, y
<1> HIDE DEF v
<1>5. Told(x, v) /\ Listed(v)
  BY <1>2, <1>3, <1>4, KeptSelf DEF Told, Listed, Read
<1>6. Kept(v, d)
  BY <1>5 DEF Kept, Listed, Settled, Display
<1> HIDE DEF d
<1>7. Told(x, d)
  BY <1>5, <1>6, KeptTwice, ReadThenKept DEF Told
<1>8. Updated(x, open, busy) \in {d, v}
  BY DEF Updated, d, v
<1> QED
  BY <1>5, <1>7, <1>8

LEMMA StartedReads ==
    ASSUME NEW x, Listed(x), NEW at, NEW ok
    PROVE  Read(Started(x, at, ok))
<1> DEFINE b == [x EXCEPT !.pos = IF ok THEN x.keptPos ELSE 0, !.miss = 0, !.n = 0,
                          !.seed = NoSeed, !.over = FALSE, !.cur = NoPhoto,
                          !.pend = NoPhoto, !.needs = FALSE, !.inval = FALSE, !.due = FALSE,
                          !.want = NoPhoto, !.asked = NoPhoto, !.answered = TRUE]
           y == Rescan(b)
           k == [Display([y EXCEPT !.pend = at], at) EXCEPT !.kept = at]
<1>1. Started(x, at, ok) \in {y, k}
  BY DEF Started
<1>2. Listed(b)
  BY DEF Listed
<1> HIDE DEF b
<1>3. Read(y)
  BY <1>2, RescanReads
<1> HIDE DEF y
<1>4. Read(k)
  BY <1>3 DEF Read, Display
<1> HIDE DEF k
<1> QED
  BY <1>1, <1>3, <1>4

LEMMA ShowNameReads == ASSUME Listed(show), NEW p, ShowName(p) PROVE Read(show')
<1> DEFINE x == Rescan(show)
           i == IndexOf(x.list, p)
           e == [Display(x, i) EXCEPT !.pend = i, !.needs = FALSE, !.due = FALSE, !.kept = i]
<1>1. show' \in {x, e}
  BY DEF ShowName
<1>2. Read(x)
  BY RescanReads
<1> HIDE DEF x, i
<1>3. Read(e)
  BY <1>2 DEF Read, Display
<1> HIDE DEF e
<1> QED
  BY <1>1, <1>2, <1>3

TrueList == Listed(show) /\ ListIsTrue

LEMMA InitTrue == Init => TrueList
<1> SUFFICES ASSUME Init PROVE TrueList
  OBVIOUS
<1> DEFINE off == [list |-> {}, cur |-> NoPhoto, pend |-> NoPhoto, needs |-> FALSE,
                   inval |-> FALSE, due |-> FALSE, n |-> 0, seed |-> NoSeed, over |-> FALSE,
                   pos |-> 0, miss |-> 0, want |-> NoPhoto, setting |-> NoSeed, kept |-> 0,
                   keptPos |-> 0, asked |-> NoPhoto, answered |-> TRUE]
<1>1. show = Started(off, 0, TRUE)
  BY DEF Init, SlideshowInit
<1>2. Listed(off)
  BY DEF Listed
<1> HIDE DEF off
<1>3. Read(show)
  BY <1>1, <1>2, StartedReads
<1> QED
  BY <1>3 DEF Read, Listed, TrueList, ListIsTrue

LEMMA NextTrue == ASSUME TrueList, Lists, Placed(show), [Next]_vars PROVE TrueList'
<1>1. ASSUME Told(show, show'), card' = card, dirty' = dirty PROVE TrueList'
  BY <1>1 DEF Told, Kept, Read, Listed, TrueList, ListIsTrue
<1>2. ASSUME UNCHANGED <<card, show, dirty>> PROVE TrueList'
  BY <1>2 DEF Listed, TrueList, ListIsTrue
<1>3. ASSUME NEW v, show' = [show EXCEPT !.want = v], dirty' \/ UNCHANGED <<card, dirty>> PROVE TrueList'
  BY <1>3 DEF Listed, TrueList, ListIsTrue
<1>4. ASSUME show' = [show EXCEPT !.inval = TRUE] PROVE TrueList'
  BY <1>4 DEF Listed, TrueList, ListIsTrue
<1>5. ASSUME show' = show, dirty' PROVE TrueList'
  BY <1>5 DEF Listed, TrueList, ListIsTrue
<1>6. Len(cat) \in Nat /\ Listed(show)
  BY LenProperties DEF Lists, TrueList
<1>7. CASE UNCHANGED vars
  BY <1>2, <1>7 DEF vars, slideVars, windowVars
<1>8. CASE Open \/ StopFetching \/ List \/ StartWalk
  BY <1>2, <1>8 DEF Open, StopFetching, List, StartWalk, slideVars
<1>9. CASE Fetch
  BY <1>3, <1>9 DEF Fetch
<1>10. CASE EndWalk
  <2>1. UNCHANGED <<card, show, dirty>> \/ Closes
    BY <1>10 DEF EndWalk
  <2>2. ASSUME Closes PROVE show' = [show EXCEPT !.inval = TRUE] \/ (~dirty /\ ~dirty' /\ show' = show)
    BY <2>2 DEF Closes
  <2>3. card' = card
    BY <1>10 DEF EndWalk
  <2>4. ASSUME ~dirty, ~dirty', show' = show PROVE TrueList'
    BY <2>3, <2>4 DEF Listed, TrueList, ListIsTrue
  <2> QED
    BY <1>2, <1>4, <2>1, <2>2, <2>4
<1>11. ASSUME NEW p \in Shared, Evict(p) PROVE TrueList'
  BY <1>5, <1>11 DEF Evict
<1>12. CASE Main
  <2>1. dirty' = dirty /\ card' = card
    BY <1>12 DEF Main, Elsewhere, windowVars, Tick, Advance, IntervalEnds
  <2>2. ASSUME NEW open \in BOOLEAN, NEW busy \in BOOLEAN, Tick(open, busy) PROVE TrueList'
    BY <1>1, <1>6, <2>1, <2>2, UpdatedTells DEF Tick
  <2>3. ASSUME Advance PROVE TrueList'
    <3>1. PICK luck \in Luck : show' = Step(show, TRUE, luck)
      BY <2>3 DEF Advance
    <3> QED
      BY <1>1, <1>6, <2>1, <3>1, StepReads DEF Told
  <2>4. ASSUME IntervalEnds PROVE TrueList'
    <3>1. show' = [show EXCEPT !.due = TRUE]
      BY <2>4 DEF IntervalEnds
    <3> QED
      BY <2>1, <3>1 DEF Listed, TrueList, ListIsTrue
  <2> QED
    BY <1>12, <2>2, <2>3, <2>4 DEF Main
<1>13. CASE Button
  <2>1. PICK forward \in BOOLEAN, luck \in Luck : show' = Step(show, forward, luck)
    BY <1>13 DEF Button, Press
  <2>2. dirty' = dirty /\ card' = card
    BY <1>13 DEF Button, Press, Elsewhere, windowVars
  <2> QED
    BY <1>1, <1>6, <2>1, <2>2, StepReads DEF Told
<1>14. CASE Page
  <2>1. dirty' = dirty /\ card' = card
    BY <1>14 DEF Page, ShowName, SetMode, Elsewhere, windowVars
  <2>2. ASSUME NEW p \in Photo, ShowName(p) PROVE TrueList'
    BY <1>1, <1>6, <2>1, <2>2, ShowNameReads DEF Told
  <2>3. ASSUME NEW m, SetMode(m) PROVE TrueList'
    BY <1>2, <2>1, <2>3 DEF SetMode
  <2> QED
    BY <1>14, <2>2, <2>3 DEF Page
<1>15. CASE Boot
  <2>1. PICK ok \in BOOLEAN : show' = Started(show, StartIndex(show, card, ok), ok)
    BY <1>15 DEF Boot
  <2>2. Read(show') /\ card' = card
    BY <1>6, <1>15, <2>1, StartedReads DEF Boot
  <2> QED
    BY <2>2 DEF Read, Listed, TrueList, ListIsTrue
<1>16. ASSUME NEW p \in Photo, UserChanges(p) PROVE TrueList'
  BY <1>4, <1>16 DEF UserChanges
<1>17. ASSUME NEW p \in Shared, ShareChanges(p) PROVE TrueList'
  BY <1>2, <1>17 DEF ShareChanges, slideVars, windowVars
<1> QED
  BY <1>7, <1>8, <1>9, <1>10, <1>11, <1>12, <1>13, <1>14, <1>15, <1>16, <1>17 DEF Next, Window

\* Whatever is fetched, evicted, uploaded and deleted, and whoever reads the card in the middle of
\* it: between windows the slideshow's list is the card, or the next tick enumerates it.
THEOREM ListStaysTrue == Spec => []ListIsTrue
<1> DEFINE Inv == Lists /\ Placed(show) /\ TrueList
<1>1. Init => Inv
  BY InitPlaced, InitTrue
<1>2. Inv /\ [Next]_vars => Inv'
  BY NextLists, NextSteps, NextTrue DEF Steps
<1>3. Inv => ListIsTrue
  BY DEF TrueList
<1> QED
  BY <1>1, <1>2, <1>3, PTL DEF Spec
=============================================================================

---------------------------- MODULE Gphotos_proofs ----------------------------
(***************************************************************************)
(* The Google Photos mirror, for any number of slots, albums, photographs   *)
(* and rule sets: a set that was refused stays so, and a link the user      *)
(* saved stands.                                                            *)
(***************************************************************************)
EXTENDS Gphotos, SequenceTheorems, WellFoundedInduction, TLAPS

-----------------------------------------------------------------------------
(* The sets of rules. *)

\* Nothing is on trial, and the firmware's set in force, until flash has been read; a run is
\* past its beginning only then.
NotBeforeLoad ==
    /\ ~loaded => adopted = builtin /\ candidate = 0
    /\ pc \notin {"idle", "begin"} => loaded

\* A trial is of a set above the one in force and every one refused, as far as flash gave them.
TrialIsNewer ==
    /\ candidate # 0 => candidate > adopted /\ candidate > rejected
    /\ \A s \in refused : s <= IF loaded THEN rejected ELSE bad

\* Flash keeps sets that have found a photograph.
KeptIsProven == kept \in proven \cup {0}

Ruled == RulesTypeOK /\ NotBeforeLoad /\ TrialIsNewer /\ KeptIsProven /\ OnlyProvenRules

LEMMA FileIn == Newest \in Nat /\ Builtins \subseteq 1..Newest /\ Published \cup Uploaded \subseteq File
BY RulesAssumption DEF File

LEMMA InitRuled == Init => Ruled
<1> SUFFICES ASSUME RulesInit, pc = "idle" PROVE Ruled
  BY DEF Init
<1> USE FileIn DEF RulesInit
<1>1. RulesTypeOK
  <2>1. builtin \in Builtins /\ adopted \in 1..Newest /\ loaded \in BOOLEAN
    OBVIOUS
  <2>2. 0 \in File /\ refused \subseteq 1..Newest /\ proven \subseteq 1..Newest
    BY DEF File
  <2> QED
    BY <2>1, <2>2 DEF RulesTypeOK
<1>2. NotBeforeLoad /\ TrialIsNewer /\ KeptIsProven
  BY DEF NotBeforeLoad, TrialIsNewer, KeptIsProven
<1>3. OnlyProvenRules
  BY DEF OnlyProvenRules
<1> QED
  BY <1>1, <1>2, <1>3 DEF Ruled

\* What is considered is the set on trial or one above it, the set in force and the one refused.
LEMMA ConsideredIsNewer ==
    ASSUME NEW c \in File, NEW f \in File
    PROVE  /\ Considered(c, f) \in File
           /\ Considered(c, f) \in {c, f}
           /\ Considered(c, f) # c => Considered(c, f) > adopted /\ Considered(c, f) > rejected
BY DEF Considered

LEMMA LoadRuled == ASSUME Ruled, LoadStored, pc' \in {"idle", "fetch", "rules"} PROVE Ruled'
<1> USE FileIn DEF LoadStored, Load, Ruled, RulesTypeOK, NotBeforeLoad, TrialIsNewer, KeptIsProven,
                   OnlyProvenRules, File
<1>1. CASE loaded
  BY <1>1
<1>2. CASE ~loaded /\ rejected' = bad /\ UNCHANGED refused
           /\ \E set \in {kept, 0} : adopted' = IF set > builtin THEN set ELSE adopted
  BY <1>2
<1>3. CASE ~loaded /\ rejected' = 0 /\ refused' = {} /\ UNCHANGED adopted
  BY <1>3
<1> QED
  BY <1>1, <1>2, <1>3

LEMMA ReadRulesRuled == ASSUME Ruled, ReadRules PROVE Ruled'
<1> USE FileIn DEF Ruled
<1>1. loaded /\ loaded' = loaded /\ UNCHANGED <<builtin, adopted, rejected, kept, bad, refused, proven>>
  BY DEF ReadRules, CheckRules, NotBeforeLoad
<1>2. candidate' \in File /\ upload' \in File
      /\ (candidate' = candidate \/ (candidate' > adopted /\ candidate' > rejected))
  <2>1. PICK published \in Published \cup {0} :
            \/ candidate' = Considered(Considered(candidate, upload), published) /\ upload' = 0
            \/ candidate' = Considered(candidate, published) /\ UNCHANGED upload
    BY DEF ReadRules, CheckRules
  <2>2. published \in File /\ 0 \in File /\ candidate \in File /\ upload \in File
    BY DEF RulesTypeOK, File
  <2>3. DEFINE first == Considered(candidate, upload)
  <2>4. first \in File /\ (first = candidate \/ (first > adopted /\ first > rejected))
    BY <2>2, ConsideredIsNewer
  <2> HIDE DEF first
  <2>5. CASE candidate' = Considered(first, published) /\ upload' = 0
    BY <2>2, <2>4, <2>5, ConsideredIsNewer
  <2>6. CASE candidate' = Considered(candidate, published) /\ UNCHANGED upload
    BY <2>2, <2>6, ConsideredIsNewer
  <2> QED
    BY <2>1, <2>5, <2>6 DEF first
<1> QED
  BY <1>1, <1>2 DEF RulesTypeOK, NotBeforeLoad, TrialIsNewer, KeptIsProven, OnlyProvenRules, File

LEMMA FinishRuled == ASSUME Ruled, FinishList PROVE Ruled'
<1> USE FileIn DEF Ruled
<1>1. loaded /\ pc' = "idle"
  BY DEF FinishList, FinishWith, NotBeforeLoad
<1>2. CASE UNCHANGED rulesVars
  BY <1>1, <1>2 DEF rulesVars, RulesTypeOK, NotBeforeLoad, TrialIsNewer, KeptIsProven, OnlyProvenRules
<1>3. CASE Trial /\ Verdict(whole, ok)
  <2>1. candidate # 0 /\ candidate \in 1..Newest
    BY <1>3 DEF Trial, RulesTypeOK, File
  <2>2. loaded' = loaded /\ builtin' = builtin /\ upload' = upload
    BY <1>3 DEF Verdict
  <2>3. CASE ok
    <3>1. /\ adopted' = candidate /\ candidate' = 0 /\ proven' = proven \cup {candidate}
          /\ kept' \in {kept, candidate} /\ UNCHANGED <<rejected, bad, refused>>
      BY <1>3, <2>3 DEF Verdict
    <3> QED
      BY <1>1, <2>1, <2>2, <3>1
         DEF RulesTypeOK, NotBeforeLoad, TrialIsNewer, KeptIsProven, OnlyProvenRules, File
  <2>4. CASE ~ok /\ whole
    <3>1. /\ rejected' = candidate /\ candidate' = 0 /\ refused' = refused \cup {candidate}
          /\ bad' \in {bad, candidate} /\ UNCHANGED <<adopted, kept, proven>>
      BY <1>3, <2>4 DEF Verdict
    <3> QED
      BY <1>1, <2>1, <2>2, <3>1
         DEF RulesTypeOK, NotBeforeLoad, TrialIsNewer, KeptIsProven, OnlyProvenRules, File
  <2>5. CASE ~ok /\ ~whole
    <3>1. UNCHANGED rulesVars
      BY <1>3, <2>5 DEF Verdict, rulesVars
    <3> QED
      BY <1>2, <3>1
  <2> QED
    BY <2>3, <2>4, <2>5
<1> QED
  BY <1>2, <1>3 DEF FinishList, FinishWith

LEMMA BootRuled == ASSUME Ruled, Boot PROVE Ruled'
<1> USE FileIn DEF Boot, RulesBoot, Ruled
<1>1. RulesTypeOK'
  <2>1. builtin' \in Builtins /\ adopted' \in 1..Newest /\ loaded' \in BOOLEAN
    OBVIOUS
  <2>2. 0 \in File /\ {kept, bad} \subseteq File
    BY DEF RulesTypeOK, File
  <2>3. refused' \subseteq 1..Newest /\ proven' \subseteq 1..Newest
    BY DEF RulesTypeOK
  <2> QED
    BY <2>1, <2>2, <2>3 DEF RulesTypeOK
<1>2. NotBeforeLoad' /\ KeptIsProven'
  BY DEF NotBeforeLoad, KeptIsProven
<1>3. TrialIsNewer'
  BY DEF TrialIsNewer
<1>4. OnlyProvenRules'
  BY <1>1 DEF OnlyProvenRules, RulesTypeOK
<1> QED
  BY <1>1, <1>2, <1>3, <1>4

LEMMA SubmitRuled == ASSUME Ruled, NEW f \in Uploaded, SubmitRules(f) PROVE Ruled'
BY FileIn DEF SubmitRules, Submit, Ruled, RulesTypeOK, NotBeforeLoad, TrialIsNewer, KeptIsProven,
              OnlyProvenRules, File

LEMMA NextRuled == Ruled /\ [Next]_vars => Ruled'
<1> SUFFICES ASSUME Ruled, [Next]_vars PROVE Ruled'
  OBVIOUS
<1>1. ASSUME UNCHANGED rulesVars, pc' \in {"idle", "begin"} \/ pc \notin {"idle", "begin"} \/ pc' = pc
      PROVE  Ruled'
  BY <1>1 DEF rulesVars, Ruled, RulesTypeOK, NotBeforeLoad, TrialIsNewer, KeptIsProven, OnlyProvenRules
<1>2. CASE UNCHANGED vars
  BY <1>1, <1>2 DEF vars
<1>3. CASE SeenOff \/ DropRequest \/ (\E w \in Due : TickStarts(w)) \/ TaskCreated \/ TaskNotCreated
  BY <1>1, <1>3 DEF SeenOff, DropRequest, TickStarts, TaskCreated, TaskNotCreated
<1>4. CASE Begin \/ BeginInVain
  <2>1. LoadStored /\ pc' \in {"idle", "fetch", "rules"}
    BY <1>4 DEF Begin, BeginInVain
  <2> QED
    BY <2>1, LoadRuled
<1>5. CASE Fetch \/ BeginSlot \/ ReadOk \/ ReadFails \/ NoMemory \/ Revert
  BY <1>1, <1>5 DEF Fetch, BeginSlot, ReadOk, ReadFails, NoMemory, Revert
<1>6. CASE Want \/ SyncNow \/ DayPasses \/ (\E l \in Link : AlbumChanges(l))
           \/ (\E s \in Slot, l \in Links, o \in BOOLEAN : Save(s, l, o))
  BY <1>1, <1>6 DEF Want, SyncNow, DayPasses, AlbumChanges, Save
<1> QED
  BY <1>2, <1>3, <1>4, <1>5, <1>6, ReadRulesRuled, FinishRuled, BootRuled, SubmitRuled DEF Next

\* Only rules that came with the firmware or won a trial are in force, and a refusal stands.
THEOREM RulesAreProven == Spec => []OnlyProvenRules
<1>1. Ruled => OnlyProvenRules
  BY DEF Ruled
<1> QED
  BY <1>1, InitRuled, NextRuled, PTL DEF Spec

-----------------------------------------------------------------------------
(* The links. *)

LinksTyped ==
    /\ link \in [Slot -> Links] /\ good \in [Slot -> Links] /\ saved \in [Slot -> Links]
    /\ fate \in [Slot -> Fates] /\ url \in Links /\ slot \in 1..(Slots + 1)
    /\ pc \in {"read", "revert"} => slot \in Slot

\* A link about to be undone is the one that failed, but for the instant fate calls late.
UndoesWhatFailed == pc = "revert" => fate[slot] = "late" \/ link[slot] = url

Standing == LinksTyped /\ UndoesWhatFailed /\ SavedLinkStands

LEMMA InitStanding == Init => Standing
BY GphotosAssumption DEF Init, Standing, LinksTyped, UndoesWhatFailed, SavedLinkStands, Slot, Links, Fates

LEMMA LateStands ==
    ASSUME Standing, fate' \in {fate, Late}, UNCHANGED <<link, good, saved, url, slot>>,
           pc' \in {"read", "revert"} => pc' = pc
    PROVE  Standing'
<1>1. fate' \in [Slot -> Fates]
  BY DEF Standing, LinksTyped, Late, Fates
<1>2. \A s \in Slot : fate'[s] = fate[s] \/ (fate[s] = "owed" /\ fate'[s] = "late")
  BY DEF Late
<1>3. LinksTyped'
  BY <1>1 DEF Standing, LinksTyped
<1>4. UndoesWhatFailed'
  BY <1>2 DEF Standing, UndoesWhatFailed, LinksTyped
<1>5. SavedLinkStands'
  BY <1>2 DEF Standing, SavedLinkStands
<1> QED
  BY <1>3, <1>4, <1>5 DEF Standing

LEMMA BeginSlotStands == ASSUME Standing, BeginSlot PROVE Standing'
BY GphotosAssumption
   DEF BeginSlot, Standing, LinksTyped, UndoesWhatFailed, SavedLinkStands, Slot, settingVars, ghostVars

\* The slot is done with: what its link came to is told.
LEMMA TriedStands ==
    ASSUME Standing, pc = "read", NextSlot, UNCHANGED <<link, saved>>, good' \in [Slot -> Links],
           fate' \in {fate, [fate EXCEPT ![slot] = Tried(@)]}
    PROVE  Standing'
<1>1. slot \in Slot /\ slot' \in 1..(Slots + 1) /\ pc' = "slot" /\ url' \in Links
  BY GphotosAssumption DEF Standing, LinksTyped, NextSlot, Slot, Links
<1>2. fate' \in [Slot -> Fates]
  BY <1>1 DEF Standing, LinksTyped, Tried, Fates
<1>3. \A s \in Slot : fate'[s] = fate[s] \/ fate[s] = "owed"
  BY DEF Standing, LinksTyped, Tried
<1> QED
  BY <1>1, <1>2, <1>3 DEF Standing, LinksTyped, UndoesWhatFailed, SavedLinkStands

LEMMA ReadStands == ASSUME Standing, ReadOk \/ ReadFails \/ NoMemory PROVE Standing'
<1>0. [fate EXCEPT ![slot] = fate[slot]] = fate
  BY DEF Standing, LinksTyped
<1>1. CASE ReadOk
  <2>1. good' \in [Slot -> Links]
    BY <1>1 DEF ReadOk, Standing, LinksTyped
  <2>2. fate' \in {fate, [fate EXCEPT ![slot] = Tried(@)]}
    BY <1>0, <1>1 DEF ReadOk
  <2> QED
    BY <1>1, <2>1, <2>2, TriedStands DEF ReadOk
<1>2. CASE ReadFails /\ NextSlot
  <2>1. good' \in [Slot -> Links] /\ pc = "read" /\ UNCHANGED <<link, saved>>
    BY <1>2 DEF ReadFails, Standing, LinksTyped, settingVars
  <2>2. fate' \in {fate, [fate EXCEPT ![slot] = Tried(@)]}
    BY <1>0, <1>2 DEF ReadFails, NextSlot
  <2> QED
    BY <1>2, <2>1, <2>2, TriedStands
<1>3. CASE ReadFails /\ pc' = "revert"
  BY <1>3 DEF ReadFails, NextSlot, Undone, Standing, LinksTyped, UndoesWhatFailed, SavedLinkStands,
              settingVars
<1>4. CASE NoMemory
  <2>1. good' \in [Slot -> Links] /\ UNCHANGED <<link, saved>>
    BY <1>4 DEF NoMemory, Standing, LinksTyped, settingVars
  <2> QED
    BY <1>4, <2>1, TriedStands DEF NoMemory
<1> QED
  BY <1>1, <1>2, <1>3, <1>4 DEF ReadFails

LEMMA RevertStands == ASSUME Standing, Revert PROVE Standing'
<1>1. slot \in Slot /\ slot' \in 1..(Slots + 1) /\ pc' = "slot" /\ url' \in Links
  BY GphotosAssumption DEF Standing, LinksTyped, Revert, NextSlot, Slot, Links
<1>2. link' \in [Slot -> Links] /\ \A s \in Slot : s # slot => link'[s] = link[s]
  BY <1>1 DEF Revert, Standing, LinksTyped
<1>3. fate' \in [Slot -> Fates] /\ \A s \in Slot : s # slot => fate'[s] = fate[s]
  BY <1>1 DEF Revert, Standing, LinksTyped, Fates
<1>4. fate'[slot] \in {"failed", "late"}
  BY <1>1 DEF Revert, Standing, LinksTyped, UndoesWhatFailed
<1>5. UNCHANGED <<good, saved>>
  BY DEF Revert
<1> QED
  BY <1>1, <1>2, <1>3, <1>4, <1>5 DEF Standing, LinksTyped, UndoesWhatFailed, SavedLinkStands

LEMMA SaveStands ==
    ASSUME Standing, NEW s \in Slot, NEW l \in Links, NEW o \in BOOLEAN, Save(s, l, o)
    PROVE  Standing'
<1>1. link' \in [Slot -> Links] /\ saved' \in [Slot -> Links]
  BY DEF Save, Standing, LinksTyped
<1>2. fate' \in [Slot -> Fates]
  BY DEF Save, Standing, LinksTyped, Fates
<1>3. UNCHANGED <<good, pc, url, slot>>
  BY DEF Save, slotVars
<1>4. link'[s] = saved'[s] /\ \A t \in Slot : t # s => link'[t] = link[t] /\ saved'[t] = saved[t] /\ fate'[t] = fate[t]
  BY DEF Save, Standing, LinksTyped
<1>5. pc = "revert" /\ slot = s => fate'[s] = "late"
  BY DEF Save, Standing, LinksTyped
<1> QED
  BY <1>1, <1>2, <1>3, <1>4, <1>5 DEF Standing, LinksTyped, UndoesWhatFailed, SavedLinkStands

LEMMA FinishStands == ASSUME Standing, FinishList \/ Boot PROVE Standing'
BY GphotosAssumption
   DEF FinishList, FinishWith, Boot, Standing, LinksTyped, UndoesWhatFailed, SavedLinkStands, Slot,
       Links, settingVars, ghostVars

LEMMA NextStanding == Standing /\ [Next]_vars => Standing'
<1> SUFFICES ASSUME Standing, [Next]_vars PROVE Standing'
  OBVIOUS
<1>1. CASE UNCHANGED vars
  BY <1>1, LateStands DEF vars, settingVars, slotVars, ghostVars
<1>2. CASE SeenOff \/ DropRequest \/ (\E w \in Due : TickStarts(w)) \/ TaskCreated \/ TaskNotCreated
  BY <1>2, LateStands
     DEF SeenOff, DropRequest, TickStarts, TaskCreated, TaskNotCreated, settingVars, slotVars, ghostVars
<1>3. CASE Begin \/ BeginInVain
  BY <1>3, LateStands DEF Begin, BeginInVain, LoadStored, settingVars, slotVars
<1>4. CASE Fetch \/ ReadRules
  BY <1>4, LateStands DEF Fetch, AfterFetch, ReadRules, settingVars, slotVars, ghostVars
<1>5. CASE Want \/ SyncNow \/ DayPasses \/ (\E l \in Link : AlbumChanges(l))
           \/ (\E f \in Uploaded : SubmitRules(f))
  BY <1>5, LateStands
     DEF Want, SyncNow, DayPasses, AlbumChanges, SubmitRules, settingVars, slotVars, ghostVars
<1>6. CASE BeginSlot \/ ReadOk \/ ReadFails \/ NoMemory \/ Revert \/ FinishList \/ Boot
  BY <1>6, BeginSlotStands, ReadStands, RevertStands, FinishStands
<1> QED
  BY <1>1, <1>2, <1>3, <1>4, <1>5, <1>6, SaveStands DEF Next

\* No run undoes a link but the one it found wanting, whenever the user saves another.
THEOREM SavedLinksStand == Spec => []SavedLinkStands
<1>1. Standing => SavedLinkStands
  BY DEF Standing
<1> QED
  BY <1>1, InitStanding, NextStanding, PTL DEF Spec

-----------------------------------------------------------------------------
(* What a table holds once it was gone through: an induction over the naturals up to its *)
(* length, whose property is a set of them, as in Catalog_proofs.                         *)

LEMMA LeastExists ==
    ASSUME NEW S \in SUBSET Nat, S # {}
    PROVE  \E n \in S : \A k \in S : n <= k
<1> DEFINE R == OpToRel(<, Nat)
<1>1. IsWellFoundedOn(R, Nat)
  BY NatLessThanWellFounded
<1>2. ASSUME NEW n \in Nat, NEW k \in Nat, <<k, n>> \notin R
      PROVE  n <= k
  BY <1>2 DEF OpToRel
<1> HIDE DEF R
<1>3. \E n \in S : \A k \in S : ~(<<k, n>> \in R)
  BY <1>1, WFMin
<1> QED
  BY <1>2, <1>3

\* Induction, over a set of naturals instead of a property of them.
LEMMA UpTo ==
    ASSUME NEW n \in Nat, NEW S, 0 \in S, \A k \in 0..(n - 1) : k \in S => k + 1 \in S
    PROVE  \A k \in 0..n : k \in S
<1> DEFINE left == {k \in 0..n : k \notin S}
<1> SUFFICES ASSUME left # {} PROVE FALSE
  OBVIOUS
<1>1. left \in SUBSET Nat
  OBVIOUS
<1> HIDE DEF left
<1>2. PICK k \in left : \A j \in left : k <= j
  BY <1>1, LeastExists
<1>3. k \in 0..n /\ k \notin S /\ k # 0
  BY <1>2 DEF left
<1>4. k - 1 \in 0..(n - 1) /\ k - 1 \notin S
  BY <1>3
<1>5. k - 1 \in left
  BY <1>4 DEF left
<1> QED
  BY <1>2, <1>3, <1>5

\* A function is defined by its first value and by what each value makes of the one before.
Recurses(A, base, n, next) == base \in A /\ n \in Nat /\ next \in [A \X (1..n) -> A]
Unrolls(g, A, base, n, next) ==
    /\ g \in [0..n -> A] /\ g[0] = base
    /\ \A i \in 1..n : g[i] = next[<<g[i - 1], i>>]

LEMMA RecursionIsDefined ==
    ASSUME NEW A, NEW base, NEW n, NEW next, Recurses(A, base, n, next)
    PROVE  \E g : Unrolls(g, A, base, n, next)
<1> USE DEF Recurses
<1> DEFINE Begun(g, m) ==
               /\ g \in [0..m -> A] /\ g[0] = base
               /\ \A i \in 1..m : g[i] = next[<<g[i - 1], i>>]
           S == {m \in 0..n : \E g : Begun(g, m)}
<1>1. 0 \in S
  <2>1. \E g : Begun(g, 0)
    <3> DEFINE g0 == [i \in 0..0 |-> base]
    <3>1. g0 \in [0..0 -> A] /\ g0[0] = base /\ \A i \in 1..0 : g0[i] = next[<<g0[i - 1], i>>]
      OBVIOUS
    <3> HIDE DEF g0
    <3> QED
      BY <3>1
  <2> HIDE DEF Begun
  <2> QED
    BY <2>1
<1>2. ASSUME NEW k \in 0..(n - 1), k \in S PROVE k + 1 \in S
  <2>1. PICK g : Begun(g, k)
    BY <1>2
  <2> DEFINE h == [i \in 0..(k + 1) |-> IF i = k + 1 THEN next[<<g[k], k + 1>>] ELSE g[i]]
  <2>2. <<g[k], k + 1>> \in A \X (1..n)
    BY <2>1
  <2>3. h \in [0..(k + 1) -> A]
    <3>1. ASSUME NEW i \in 0..(k + 1) PROVE h[i] \in A
      BY <2>1, <2>2
    <3>2. h = [i \in 0..(k + 1) |-> h[i]]
      OBVIOUS
    <3> HIDE DEF h
    <3> QED
      BY <3>1, <3>2
  <2>4. h[0] = base
    BY <2>1
  <2>5. ASSUME NEW i \in 1..(k + 1) PROVE h[i] = next[<<h[i - 1], i>>]
    <3>1. i - 1 \in 0..k /\ h[i - 1] = g[i - 1]
      OBVIOUS
    <3>4. h[i] = IF i = k + 1 THEN next[<<g[k], k + 1>>] ELSE g[i]
      OBVIOUS
    <3> HIDE DEF h
    <3>2. CASE i = k + 1
      <4>1. i - 1 = k
        BY <3>2
      <4> QED
        BY <3>1, <3>2, <3>4, <4>1
    <3>3. CASE i \in 1..k
      <4>1. g[i] = next[<<g[i - 1], i>>]
        BY <2>1, <3>3
      <4>2. i # k + 1
        BY <3>3
      <4> QED
        BY <3>1, <3>4, <4>1, <4>2
    <3> QED
      BY <3>2, <3>3
  <2> HIDE DEF h
  <2>6. Begun(h, k + 1)
    BY <2>3, <2>4, <2>5
  <2> QED
    BY <2>6
<1> HIDE DEF S
<1>3. n \in S
  BY <1>1, <1>2, UpTo
<1>4. PICK g : Begun(g, n)
  BY <1>3 DEF S
<1> QED
  BY <1>4 DEF Unrolls

\* What is kept of the first records of s.
Sifts(sofar, T, s, S) ==
    /\ sofar \in [0..Len(s) -> Seq(T)] /\ sofar[0] = <<>> /\ Sifted(s, S) = sofar[Len(s)]
    /\ \A i \in 1..Len(s) :
          sofar[i] = IF s[i] \in S THEN Append(sofar[i - 1], s[i]) ELSE sofar[i - 1]

LEMMA SiftedByStep ==
    ASSUME NEW T, NEW s \in Seq(T), NEW S
    PROVE  \E sofar : Sifts(sofar, T, s, S)
<1> DEFINE n == Len(s)
           Step(r, i) == IF s[i] \in S THEN Append(r, s[i]) ELSE r
           next == [x \in Seq(T) \X (1..n) |-> Step(x[1], x[2])]
           Is(g) == g = [i \in 0..n |-> IF i = 0 THEN <<>>
                                        ELSE IF s[i] \in S THEN Append(g[i - 1], s[i]) ELSE g[i - 1]]
           sofar == CHOOSE g : Is(g)
<1>1. n \in Nat /\ <<>> \in Seq(T) /\ \A i \in 1..n : s[i] \in T
  BY LenProperties, ElementOfSeq, EmptySeq
<1>2. next \in [Seq(T) \X (1..n) -> Seq(T)]
  <2>1. ASSUME NEW x \in Seq(T) \X (1..n) PROVE Step(x[1], x[2]) \in Seq(T)
    BY <1>1, AppendProperties
  <2> QED
    BY <2>1
<1> HIDE DEF n
<1>3. PICK g \in [0..n -> Seq(T)] : g[0] = <<>> /\ \A i \in 1..n : g[i] = next[<<g[i - 1], i>>]
  <2> DEFINE A == Seq(T)
             base == <<>>
  <2>1. base \in A /\ n \in Nat /\ next \in [A \X (1..n) -> A]
    BY <1>1, <1>2
  <2> HIDE DEF next, A, base
  <2>2. Recurses(A, base, n, next)
    BY <2>1 DEF Recurses
  <2>3. \E g : Unrolls(g, A, base, n, next)
    BY <2>2, RecursionIsDefined
  <2> QED
    BY <2>3 DEF A, base, Unrolls
<1>4. Is(g)
  <2>1. ASSUME NEW i \in 0..n
        PROVE  g[i] = IF i = 0 THEN <<>> ELSE IF s[i] \in S THEN Append(g[i - 1], s[i]) ELSE g[i - 1]
    <3>1. CASE i = 0
      BY <1>3, <3>1
    <3>2. CASE i # 0
      <4>1. i - 1 \in 0..n /\ i \in 1..n
        BY <1>1, <3>2
      <4>2. <<g[i - 1], i>> \in Seq(T) \X (1..n)
        BY <4>1
      <4>3. next[<<g[i - 1], i>>] = Step(g[i - 1], i)
        BY <4>2
      <4>4. g[i] = next[<<g[i - 1], i>>]
        BY <1>3, <4>1
      <4> QED
        BY <3>2, <4>3, <4>4
    <3> QED
      BY <3>1, <3>2
  <2> QED
    BY <2>1
<1> HIDE DEF next
<1>5. Is(sofar)
  <2> HIDE DEF Is
  <2> QED
    BY <1>4
<1>6. Sifted(s, S) = sofar[n]
  BY DEF Sifted, n
<1> HIDE DEF sofar
<1>7. sofar[0] = <<>>
  BY <1>1, <1>5
<1>8. ASSUME NEW i \in 1..n
      PROVE  sofar[i] = IF s[i] \in S THEN Append(sofar[i - 1], s[i]) ELSE sofar[i - 1]
  <2>1. i \in 0..n /\ i # 0
    BY <1>1
  <2> QED
    BY <1>5, <2>1
<1>9. DOMAIN sofar = 0..n /\ sofar = [i \in 0..n |-> sofar[i]]
  BY <1>5
<1>10. \A i \in 0..n : sofar[i] \in Seq(T)
  <2> DEFINE W == {i \in 0..n : sofar[i] \in Seq(T)}
  <2>0. sofar[0] \in Seq(T)
    BY <1>1, <1>7
  <2>1. 0 \in W
    BY <1>1, <2>0
  <2>2. ASSUME NEW k \in 0..(n - 1), k \in W PROVE k + 1 \in W
    <3>1. k + 1 \in 1..n /\ (k + 1) - 1 = k /\ sofar[k] \in Seq(T) /\ s[k + 1] \in T
      BY <1>1, <2>2
    <3>2. sofar[k + 1] = IF s[k + 1] \in S THEN Append(sofar[k], s[k + 1]) ELSE sofar[k]
      BY <1>8, <3>1
    <3>3. Append(sofar[k], s[k + 1]) \in Seq(T)
      BY <3>1, AppendProperties
    <3>4. sofar[k + 1] \in Seq(T)
      BY <3>1, <3>2, <3>3
    <3> QED
      BY <1>1, <3>1, <3>4
  <2> HIDE DEF W
  <2>3. \A i \in 0..n : i \in W
    BY <1>1, <2>1, <2>2, UpTo
  <2> QED
    BY <2>3 DEF W
<1>11. sofar \in [0..n -> Seq(T)]
  BY <1>9, <1>10
<1> QED
  BY <1>6, <1>7, <1>8, <1>11 DEF n, Sifts

\* What is kept of a sequence are its members in S.
LEMMA SiftedHolds ==
    ASSUME NEW T, NEW s \in Seq(T), NEW S
    PROVE  Sifted(s, S) \in Seq(T) /\ Range(Sifted(s, S)) = Range(s) \cap S
<1>0. PICK sofar : Sifts(sofar, T, s, S)
  BY SiftedByStep
<1> DEFINE n == Len(s)
           W == {m \in 0..n : Range(sofar[m]) = {s[k] : k \in 1..m} \cap S}
<1>1. /\ sofar \in [0..n -> Seq(T)] /\ sofar[0] = <<>> /\ Sifted(s, S) = sofar[n]
      /\ \A i \in 1..n : sofar[i] = IF s[i] \in S THEN Append(sofar[i - 1], s[i]) ELSE sofar[i - 1]
  BY <1>0 DEF Sifts
<1>2. n \in Nat /\ DOMAIN s = 1..n /\ \A i \in 1..n : s[i] \in T
  BY LenProperties, ElementOfSeq
<1> HIDE DEF n
<1>3. 0 \in W
  <2>1. Range(<<>>) = {}
    BY EmptySeq DEF Range
  <2> QED
    BY <1>1, <1>2, <2>1
<1>4. ASSUME NEW m \in 0..(n - 1), m \in W PROVE m + 1 \in W
  <2> DEFINE r == sofar[m]
             x == s[m + 1]
  <2>1. m + 1 \in 1..n /\ (m + 1) - 1 = m /\ m \in 0..n /\ m + 1 \in 0..n
    BY <1>2
  <2>2. r \in Seq(T) /\ x \in T /\ Range(r) = {s[k] : k \in 1..m} \cap S
    BY <1>1, <1>2, <1>4, <2>1
  <2>3. sofar[m + 1] = IF x \in S THEN Append(r, x) ELSE r
    BY <1>1, <2>1
  <2>4. {s[k] : k \in 1..(m + 1)} = {s[k] : k \in 1..m} \cup {x}
    <3>1. \A k \in 1..(m + 1) : k \in 1..m \/ k = m + 1
      BY <2>1
    <3>2. \A k \in 1..m : k \in 1..(m + 1)
      BY <2>1
    <3>3. m + 1 \in 1..(m + 1)
      BY <2>1
    <3> QED
      BY <3>1, <3>2, <3>3
  <2>5. Range(Append(r, x)) = Range(r) \cup {x}
    <3> HIDE DEF r, x
    <3>1. /\ Len(r) \in Nat /\ DOMAIN r = 1..Len(r) /\ DOMAIN Append(r, x) = 1..(Len(r) + 1)
          /\ Append(r, x)[Len(r) + 1] = x /\ \A i \in 1..Len(r) : Append(r, x)[i] = r[i]
      BY <2>2, AppendProperties, LenProperties
    <3>2. \A i \in 1..(Len(r) + 1) : i \in 1..Len(r) \/ i = Len(r) + 1
      BY <3>1
    <3>3. Len(r) + 1 \in 1..(Len(r) + 1) /\ \A i \in 1..Len(r) : i \in 1..(Len(r) + 1)
      BY <3>1
    <3> QED
      BY <3>1, <3>2, <3>3 DEF Range
  <2> HIDE DEF r, x
  <2>6. Range(sofar[m + 1]) = {s[k] : k \in 1..(m + 1)} \cap S
    BY <2>2, <2>3, <2>4, <2>5
  <2> QED
    BY <2>1, <2>6
<1> HIDE DEF W
<1>5. n \in W
  <2>1. \A m \in 0..n : m \in W
    BY <1>2, <1>3, <1>4, UpTo
  <2> QED
    BY <1>2, <2>1
<1>6. Range(sofar[n]) = {s[k] : k \in 1..n} \cap S
  BY <1>5 DEF W
<1>7. Range(s) = {s[k] : k \in 1..n}
  BY <1>2 DEF Range
<1>8. sofar[n] \in Seq(T)
  BY <1>1, <1>2
<1> QED
  BY <1>1, <1>6, <1>7, <1>8

-----------------------------------------------------------------------------
(* The lists. *)

\* Once the lists were loaded each that is not lost has what its album gave when last read whole.
ListsAreHeld == loaded => \A s \in Slot \ lost : held[s] \subseteq Contents(lists[s])

ListsTyped ==
    /\ lists \in [Slot -> List] /\ files \in [Slot -> List] /\ held \in [Slot -> SUBSET Key]
    /\ album \in [Link -> SUBSET Key]
    /\ pc = "read" => url \in Link

Listed == ListsTyped /\ ListsAreHeld

\* The index names photographs.
Indexed == index \in Seq(Key) /\ want \in Key \cup {None}

LEMMA SelectableKeys == ASSUME ListsTyped PROVE Selectable \subseteq Key
BY DEF ListsTyped, Selectable, Contents, List

\* What a list holds of an album is a list.
LEMMA CutIsList == ASSUME NEW c \in SUBSET Key, NEW l \in Cut(c) PROVE l \in List /\ l \in SUBSET Key /\ l # None
BY GphotosAssumption DEF Cut, List

LEMMA InitListed == Init => Listed /\ Indexed
<1> SUFFICES ASSUME Init PROVE Listed /\ Indexed
  OBVIOUS
<1>1. album \in [Link -> SUBSET Key] /\ link \in [Slot -> Links]
  BY GphotosAssumption DEF Init
<1>2. lists \in [Slot -> List]
  BY DEF Init, List
<1>3. files \in [Slot -> List]
  BY DEF Init
<1>4. held \in [Slot -> SUBSET Key]
  <2>1. \A s \in Slot : Contents(files[s]) \in SUBSET Key
    BY <1>3 DEF Contents, List
  <2> QED
    BY <2>1 DEF Init
<1>5. ~loaded /\ pc = "idle" /\ index = <<>> /\ want = None
  BY DEF Init, RulesInit
<1> QED
  BY <1>1, <1>2, <1>3, <1>4, <1>5, EmptySeq DEF Listed, ListsTyped, ListsAreHeld, Indexed

LEMMA LoadListed == ASSUME Listed, LoadStored, pc' # "read" PROVE Listed'
<1>1. UNCHANGED <<album, files, held>> /\ loaded'
  BY DEF LoadStored, Load
<1>2. CASE loaded
  BY <1>1, <1>2 DEF LoadStored, Listed, ListsTyped, ListsAreHeld
<1>3. CASE ~loaded
  <2>1. PICK fails \in SUBSET {s \in Slot : files[s] # None} :
            /\ lists' = [s \in Slot |-> IF s \in fails THEN None ELSE files[s]]
            /\ lost' = fails \cup {s \in Slot : held[s] \ Contents(files[s]) # {}}
    BY <1>3 DEF LoadStored, LoadLists
  <2>2. lists' \in [Slot -> List]
    BY <2>1 DEF List, Listed, ListsTyped
  <2>3. ListsTyped'
    BY <1>1, <2>2 DEF Listed, ListsTyped
  <2>4. ASSUME NEW s \in Slot, s \notin lost' PROVE held[s] \subseteq Contents(lists'[s])
    <3>1. lists'[s] = files[s] /\ held[s] \ Contents(files[s]) = {}
      BY <2>1, <2>4
    <3> QED
      BY <3>1
  <2>5. ListsAreHeld'
    BY <1>1, <2>4 DEF ListsAreHeld, Contents
  <2> QED
    BY <2>3, <2>5 DEF Listed
<1> QED
  BY <1>2, <1>3

LEMMA BeginSlotListed == ASSUME Listed, LinksTyped, BeginSlot PROVE Listed'
<1>1. slot \in Slot
  BY GphotosAssumption DEF BeginSlot, LinksTyped, Slot
<1>2. UNCHANGED <<album, loaded>>
  BY DEF BeginSlot, rulesVars
<1>3. CASE link[slot] # NoLink
  <2>1. link[slot] \in Link
    BY <1>1, <1>3 DEF LinksTyped, Links
  <2> QED
    BY <1>2, <1>3, <2>1 DEF BeginSlot, Listed, ListsTyped, ListsAreHeld, listVars
<1>4. CASE link[slot] = NoLink
  <2>1. /\ lists' = [lists EXCEPT ![slot] = None]
        /\ files' \in {files, [files EXCEPT ![slot] = None]}
        /\ held' = [held EXCEPT ![slot] = {}] /\ lost' = lost \ {slot}
        /\ pc' = "slot"
    BY <1>4 DEF BeginSlot
  <2>2. ListsTyped'
    BY <1>1, <1>2, <2>1 DEF Listed, ListsTyped, List
  <2>3. ListsAreHeld'
    BY <1>1, <1>2, <2>1 DEF Listed, ListsTyped, ListsAreHeld, Contents
  <2> QED
    BY <2>2, <2>3 DEF Listed
<1> QED
  BY <1>3, <1>4

LEMMA ReadListed == ASSUME Listed, LinksTyped, ReadOk PROVE Listed'
<1>1. slot \in Slot /\ url \in Link /\ album[url] \in SUBSET Key
  BY DEF ReadOk, Listed, ListsTyped, LinksTyped
<1>2. PICK l \in Cut(album[url]), stored \in {files[slot], None} :
          /\ lists' = [lists EXCEPT ![slot] = l]
          /\ files' \in {[files EXCEPT ![slot] = l], [files EXCEPT ![slot] = stored]}
          /\ held' = [held EXCEPT ![slot] = l] /\ lost' = lost \ {slot}
  BY DEF ReadOk
<1>3. l \in List /\ l \in SUBSET Key /\ l # None
  BY <1>1, CutIsList
<1>4. pc' = "slot" /\ UNCHANGED <<album, loaded>>
  BY DEF ReadOk, NextSlot, rulesVars
<1>5. stored \in List
  BY <1>1 DEF Listed, ListsTyped, List
<1>6. lists' \in [Slot -> List] /\ files' \in [Slot -> List] /\ held' \in [Slot -> SUBSET Key]
  BY <1>1, <1>2, <1>3, <1>5 DEF Listed, ListsTyped
<1>7. ListsTyped'
  BY <1>4, <1>6 DEF Listed, ListsTyped
<1>8. ListsAreHeld'
  BY <1>1, <1>2, <1>3, <1>4 DEF Listed, ListsTyped, ListsAreHeld, Contents
<1> QED
  BY <1>7, <1>8 DEF Listed

\* The other steps of a run leave the lists alone.
LEMMA AloneListed ==
    ASSUME Listed, UNCHANGED <<lists, held, lost, files>>, loaded' => loaded,
           album' \in [Link -> SUBSET Key], pc' = "read" => pc = "read" /\ url' = url
    PROVE  Listed'
BY DEF Listed, ListsTyped, ListsAreHeld

LEMMA NextListed == ASSUME Listed, LinksTyped, [Next]_vars PROVE Listed'
<1>0. album \in [Link -> SUBSET Key]
  BY DEF Listed, ListsTyped
<1>1. CASE UNCHANGED vars
  BY <1>0, <1>1, AloneListed DEF vars, slotVars, listVars, rulesVars
<1>2. CASE SeenOff \/ DropRequest \/ (\E w \in Due : TickStarts(w)) \/ TaskCreated \/ TaskNotCreated
  BY <1>0, <1>2, AloneListed
     DEF SeenOff, DropRequest, TickStarts, TaskCreated, TaskNotCreated, slotVars, listVars, rulesVars
<1>3. CASE Begin \/ BeginInVain
  BY <1>3, LoadListed DEF Begin, BeginInVain
<1>4. CASE Fetch \/ ReadRules
  BY <1>0, <1>4, AloneListed DEF Fetch, AfterFetch, ReadRules, CheckRules, listVars, rulesVars
<1>5. CASE ReadFails \/ NoMemory \/ Revert
  BY <1>0, <1>5, AloneListed DEF ReadFails, NoMemory, Revert, NextSlot, listVars, rulesVars
<1>6. CASE FinishList
  <2>1. loaded' => loaded
    BY <1>6 DEF FinishList, FinishWith, Verdict, rulesVars
  <2> QED
    BY <1>0, <1>6, <2>1, AloneListed DEF FinishList, FinishWith, listVars
<1>7. CASE Boot
  <2>1. ListsTyped'
    BY <1>7 DEF Boot, Listed, ListsTyped, List
  <2>2. ~loaded'
    BY <1>7 DEF Boot, RulesBoot
  <2> QED
    BY <2>1, <2>2 DEF Listed, ListsAreHeld
<1>8. CASE Want \/ SyncNow \/ DayPasses
  BY <1>0, <1>8, AloneListed DEF Want, SyncNow, DayPasses, slotVars, listVars, rulesVars
<1>9. CASE \E s \in Slot, l \in Links, o \in BOOLEAN : Save(s, l, o)
  BY <1>0, <1>9, AloneListed DEF Save, slotVars, listVars, rulesVars
<1>10. CASE \E f \in Uploaded : SubmitRules(f)
  BY <1>0, <1>10, AloneListed DEF SubmitRules, Submit, slotVars, listVars
<1>11. CASE \E l \in Link : AlbumChanges(l)
  <2>1. album' \in [Link -> SUBSET Key]
    BY <1>0, <1>11 DEF AlbumChanges
  <2> QED
    BY <1>11, <2>1, AloneListed DEF AlbumChanges, slotVars, listVars, rulesVars
<1> QED
  BY <1>1, <1>2, <1>3, <1>4, <1>5, <1>6, <1>7, <1>8, <1>9, <1>10, <1>11, BeginSlotListed, ReadListed
     DEF Next

LEMMA FetchIndexed == ASSUME Indexed, Fetch PROVE Indexed'
<1>1. <<>> \in Seq(Key)
  BY EmptySeq
<1>2. ASSUME NEW m \in Seq(Key), NEW k \in Key PROVE Fetched(m, k) \in Seq(Key)
  BY SiftedHolds, AppendProperties DEF Fetched
<1>3. ASSUME NEW m \in Seq(Key), NEW spare PROVE Evicted(m, spare) \in Seq(Key)
  BY SiftedHolds DEF Evicted
<1>4. ASSUME NEW m \in {index, <<>>}, want # None, NEW spare
      PROVE  Evicted(Fetched(m, want), spare) \in Seq(Key)
  <2>1. m \in Seq(Key) /\ want \in Key
    BY <1>1, <1>4 DEF Indexed
  <2>2. Fetched(m, want) \in Seq(Key)
    BY <1>2, <2>1
  <2> QED
    BY <1>3, <2>2
<1>5. \/ index' = index
      \/ \E m \in {index, <<>>} : \E spare : want # None /\ index' = Evicted(Fetched(m, want), spare)
  BY DEF Fetch
<1>6. index' \in Seq(Key)
  BY <1>4, <1>5 DEF Indexed
<1> QED
  BY <1>6 DEF Fetch, Indexed

LEMMA NextIndexed == ASSUME Indexed, ListsTyped, [Next]_vars PROVE Indexed'
<1> USE DEF Indexed
<1>1. CASE UNCHANGED vars
  BY <1>1 DEF vars
<1>2. CASE SeenOff \/ DropRequest \/ (\E w \in Due : TickStarts(w)) \/ TaskCreated \/ TaskNotCreated
  BY <1>2 DEF SeenOff, DropRequest, TickStarts, TaskCreated, TaskNotCreated
<1>3. CASE Begin \/ BeginInVain \/ ReadRules \/ BeginSlot
  BY <1>3 DEF Begin, BeginInVain, LoadStored, ReadRules, BeginSlot
<1>4. CASE Fetch
  BY <1>4, FetchIndexed
<1>5. CASE ReadOk \/ ReadFails \/ NoMemory \/ Revert
  BY <1>5 DEF ReadOk, ReadFails, NoMemory, Revert
<1>6. CASE FinishList
  <2>1. Swept \in Seq(Key)
    BY SiftedHolds DEF Swept
  <2> QED
    BY <1>6, <2>1 DEF FinishList, FinishWith
<1>7. CASE Boot \/ SyncNow \/ DayPasses \/ (\E l \in Link : AlbumChanges(l))
           \/ (\E f \in Uploaded : SubmitRules(f))
           \/ (\E s \in Slot, l \in Links, o \in BOOLEAN : Save(s, l, o))
  BY <1>7 DEF Boot, SyncNow, DayPasses, AlbumChanges, SubmitRules, Save
<1>8. CASE Want
  BY <1>8, SelectableKeys DEF Want
<1> QED
  BY <1>1, <1>2, <1>3, <1>4, <1>5, <1>6, <1>7, <1>8 DEF Next

\* What DeletesOnlyWhatLeft says of a step.
SweepSpares ==
    FinishList => \A s \in Slot \ lost : held[s] \cap Range(index) \subseteq Range(index')

LEMMA ListedSpares ==
    ASSUME Ruled, Listed, Indexed, [Next]_vars PROVE [SweepSpares]_vars
<1> SUFFICES ASSUME FinishList, NEW s \in Slot \ lost
             PROVE  held[s] \cap Range(index) \subseteq Range(index')
  BY DEF SweepSpares
<1>1. loaded
  BY DEF FinishList, FinishWith, Ruled, NotBeforeLoad
<1>2. held[s] \subseteq Selectable
  BY <1>1 DEF Listed, ListsAreHeld, Selectable
<1>3. Range(Swept) = Range(index) \cap Selectable
  BY SiftedHolds DEF Swept, Indexed
<1>4. index' \in {index, Swept}
  BY DEF FinishList, FinishWith
<1> QED
  BY <1>2, <1>3, <1>4

\* The sweep deletes no photograph in the list an album gave when it was last read whole: an album
\* that fails, comes cut short or comes empty costs nothing, nor does a restart the list survives
\* (do_list, app_gphotos_sync.c:824).
THEOREM SweepsSpare == Spec => DeletesOnlyWhatLeft
<1> DEFINE Inv == Ruled /\ Standing /\ Listed /\ Indexed
<1>1. Init => Inv
  BY InitRuled, InitStanding, InitListed
<1>2. Inv /\ [Next]_vars => Inv'
  BY NextRuled, NextStanding, NextListed, NextIndexed DEF Standing, Listed
<1>3. Inv /\ [Next]_vars => [SweepSpares]_vars
  BY ListedSpares
<1>4. Spec => [][SweepSpares]_vars
  <2> HIDE DEF Inv
  <2> QED
    BY <1>1, <1>2, <1>3, PTL DEF Spec
<1> QED
  BY <1>4 DEF DeletesOnlyWhatLeft, SweepSpares
=============================================================================

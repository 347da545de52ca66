----------------------------- MODULE Slideshow -----------------------------
(***************************************************************************)
(* src/src/app/app_slideshow.c: which photograph comes next.  An advance    *)
(* walks the card in filename order, a shuffled permutation of the card, or *)
(* a shuffled permutation of the catalogue, most of which is not on the     *)
(* card: there the cursor holds its place while the wanted photograph is    *)
(* fetched, and something else is drawn meanwhile.                          *)
(*                                                                          *)
(* A photograph is its local name, a number whose order is the order of the *)
(* filenames.  A handler runs under the module's lock, so each is a         *)
(* function from the module's state to the next one; app_slideshow_update() *)
(* gives the lock back before the step it decides on, and is two of them.   *)
(***************************************************************************)
EXTENDS Naturals, FiniteSets, Sequences

CONSTANTS
    Photo,      \* photographs, a set of naturals
    Seed,       \* shuffle seeds: each the order it gives to the largest domain
    NoSeed,     \* 0, no seed minted
    NoPhoto,    \* APP_SLIDESHOW_NO_PHOTO
    MissMax,    \* EPOCH_MISS_MAX
    StandinScan,    \* EPOCH_STANDIN_SCAN
    Holds,      \* whether a write to NVS, RTC RAM or the card may succeed, and fail
    Room,       \* whether PSRAM may have room for the permutation, and not
    Modes       \* the settings the user chooses among

ASSUME PhotoAssumption == Photo \subseteq Nat /\ NoPhoto \notin Nat /\ NoSeed \notin Seed
ASSUME LuckAssumption == Holds \subseteq BOOLEAN /\ Room \subseteq BOOLEAN
ASSUME ModeAssumption == Modes \subseteq [random : BOOLEAN, onDemand : BOOLEAN, auto : BOOLEAN]

VARIABLES
    card,     \* the photographs in /data
    cat,      \* the catalogue, in record order
    show,     \* the state of app_slideshow.c
    mode,     \* the settings it reads: random, onDemand, auto
    steps     \* app_slideshow_update() has given the lock back and is about to step

slideVars == <<card, cat, show, mode, steps>>

ShowType ==
    [list : SUBSET Photo,                 \* s_list, always sorted
     cur : Nat \cup {NoPhoto}, pend : Nat \cup {NoPhoto},
     needs : BOOLEAN,                     \* s_needs_refresh: a settle window is open
     inval : BOOLEAN,                     \* s_invalidated
     due : BOOLEAN,                       \* the interval since s_last_refresh_ms is over
     n : Nat, seed : Seed \cup {NoSeed}, over : BOOLEAN,   \* s_perm_n, _seed, _catalog
     pos : Nat, miss : Nat,               \* s_epoch_pos, s_epoch_miss
     want : Nat \cup {NoPhoto},           \* app_smb_sync.c s_want (SMB_SYNC_WANT_MAX is 1)
     setting : Seed \cup {NoSeed},        \* the seed in NVS
     kept : Nat \cup {NoPhoto}, keptPos : Nat,   \* the four bytes of RTC RAM
     asked : Photo \cup {NoPhoto},        \* what app_display_request() was given last
     answered : BOOLEAN]                  \* ghost: the cursor's photograph was drawn or given up

\* What an advance may meet: the next value of esp_random(), whether the writes to
\* NVS and RTC RAM hold, and whether PSRAM has room for the permutation.
Luck == [fresh : Seed, holds : Holds, room : Room]

-----------------------------------------------------------------------------
(* The list, and the positions in it. *)

IndexOf(l, p) == Cardinality({q \in l : q < p})
At(l, i) == CHOOSE p \in l : IndexOf(l, p) = i
Wrapped(i, count) == IF i = NoPhoto THEN i ELSE i % count

\* clamp_locked() only touches an index past the end, which % count is the identity on.
Rescan(x) ==
    LET count == Cardinality(card) IN
    IF count = 0 THEN [x EXCEPT !.list = card]
    ELSE [x EXCEPT !.list = card, !.cur = Wrapped(@, count), !.pend = Wrapped(@, count)]

Emptied(x) == [x EXCEPT !.cur = NoPhoto, !.pend = NoPhoto, !.needs = FALSE]

Display(x, i) == [x EXCEPT !.asked = At(x.list, i), !.cur = i]

Request(x, i, holds) ==
    IF i = x.cur
    THEN [x EXCEPT !.pend = i, !.needs = FALSE, !.due = FALSE]
    ELSE [x EXCEPT !.pend = i, !.needs = TRUE, !.kept = IF holds THEN i ELSE @]

-----------------------------------------------------------------------------
(* The shuffle epoch. *)

\* smb_catalog_shuffle(): the permutation of 0..n-1 a seed gives, 1-based.
Shuffle(n, seed) == SelectSeq(seed, LAMBDA i : i < n)
Perm(x) == Shuffle(x.n, x.seed)

\* A seed that is not asked for is minted, and NVS may refuse it; PSRAM is asked for once.
Build(x, count, seed, over, luck) ==
    IF x.seed = NoSeed /\ ~luck.room THEN [x EXCEPT !.n = 0]
    ELSE LET new == IF seed = NoSeed THEN luck.fresh ELSE seed IN
         [x EXCEPT !.n = count, !.seed = new, !.over = over,
                   !.setting = IF seed = NoSeed /\ luck.holds THEN new ELSE @]

Ready(x, count, over, luck) ==
    IF x.n = count /\ x.seed = x.setting /\ x.over = over /\ x.setting # NoSeed THEN x
    ELSE Build(x, count, x.setting, over, luck)

\* epoch_step_locked(): the epoch over the card, positioned by looking up the index.
PositionOf(x, index) ==
    IF index \in 0..(x.n - 1) THEN (CHOOSE i \in 1..x.n : Perm(x)[i] = index) - 1 ELSE NoPhoto

ListStep(x0, base, forward, count, luck) ==
    LET x == Ready(x0, count, FALSE, luck)
        at == IF base = NoPhoto THEN NoPhoto ELSE PositionOf(x, base)
        last == count - 1
        again == Build(x, count, NoSeed, FALSE, luck)
        opens == IF count > 1 /\ Perm(again)[1] = base THEN 2 ELSE 1
    IN
    CASE x.n = 0 -> <<x, NoPhoto>>
      [] x.n # 0 /\ at = NoPhoto -> <<x, Perm(x)[IF forward THEN 1 ELSE count]>>
      [] x.n # 0 /\ at # NoPhoto /\ forward /\ at < last -> <<x, Perm(x)[at + 2]>>
      [] x.n # 0 /\ at # NoPhoto /\ forward /\ ~(at < last) -> <<again, Perm(again)[opens]>>
      [] x.n # 0 /\ at # NoPhoto /\ ~forward -> <<x, Perm(x)[IF at = 0 THEN count ELSE at]>>

-----------------------------------------------------------------------------
(* The catalogue's epoch. *)

CatalogCount == IF mode.onDemand THEN Len(cat) ELSE 0

\* at_epoch_pos(): the list index of the photograph at a position, if it is on the card.
AtPos(x, pos) ==
    LET p == cat[Perm(x)[pos + 1] + 1] IN
    IF p \in x.list THEN IndexOf(x.list, p) ELSE NoPhoto

Ahead(x, from, k) == (from + k) % x.n
First(S) == CHOOSE k \in S : \A j \in S : k <= j

Wanted(x, from) ==
    LET absent == {k \in 0..(x.n - 1) : AtPos(x, Ahead(x, from, k)) = NoPhoto} IN
    IF absent = {} THEN NoPhoto ELSE Perm(x)[Ahead(x, from, First(absent)) + 1]

Standin(x, target) ==
    LET there == {k \in 1..StandinScan : k < x.n /\ AtPos(x, Ahead(x, target, k)) # NoPhoto} IN
    IF there = {} THEN NoPhoto ELSE AtPos(x, Ahead(x, target, First(there)))

AdvancedToTheEnd(x, forward, luck) ==    \* mutant
    CASE forward -> IF x.pos + 1 < x.n THEN [x EXCEPT !.pos = @ + 1]
                    ELSE Build(x, x.n, NoSeed, TRUE, luck)
      [] ~forward -> [x EXCEPT !.pos = IF @ = 0 THEN x.n - 1 ELSE @ - 1]

\* epoch_advance_locked(): a forward step off the end mints a new seed.
Advanced(x, forward, luck) ==
    CASE forward /\ x.pos + 1 < x.n -> [x EXCEPT !.pos = @ + 1]
      [] forward /\ x.pos + 1 >= x.n -> [Build(x, x.n, NoSeed, TRUE, luck) EXCEPT !.pos = 0]
      [] ~forward -> [x EXCEPT !.pos = IF @ = 0 THEN x.n - 1 ELSE @ - 1]

\* A miss in progress: the cursor retries its place.
HoldNever(x) == FALSE    \* mutant
Holding(x) == x.miss > 0

GivesUp(x) == x.miss + 1 > MissMax

\* The cursor's next place, what is wanted from there on, and what is drawn: the photograph
\* there, or else a stand-in.
CursorStep(ready, forward, luck) ==
    LET x1 == IF ready.pos >= ready.n THEN [ready EXCEPT !.pos = 0] ELSE ready
        moved == IF Holding(x1) THEN x1 ELSE Advanced(x1, forward, luck)
        x == [moved EXCEPT !.want = Wanted(moved, moved.pos),
                           !.keptPos = IF luck.holds THEN moved.pos ELSE @]
        chosen == AtPos(x, x.pos)
    IN
    IF chosen # NoPhoto
    THEN <<[x EXCEPT !.miss = 0, !.answered = TRUE], chosen>>
    ELSE <<[x EXCEPT !.miss = IF GivesUp(x) THEN 0 ELSE @ + 1, !.answered = GivesUp(x)],
           Standin(x, x.pos)>>

CatalogStep(x, forward, count, luck) ==
    LET ready == Ready(x, count, TRUE, luck) IN
    IF ready.n = 0 THEN <<ready, NoPhoto>> ELSE CursorStep(ready, forward, luck)

-----------------------------------------------------------------------------
(* The handlers. *)

NextInOrder(base, forward, count) ==
    CASE base = NoPhoto -> IF forward THEN 0 ELSE count - 1
      [] base # NoPhoto -> (base + (IF forward THEN 1 ELSE count - 1)) % count

\* Mutant: nothing is wanted for an empty card.
StepOnEmptyHandsOff(x, forward, luck) == [Emptied(x) EXCEPT !.due = FALSE]

\* step() on a card that holds nothing is taken for its wants; the interval restarts,
\* or the advance would come round again on every tick.
StepOnEmpty(x, forward, luck) ==
    LET gone == [Emptied(x) EXCEPT !.due = FALSE] IN
    IF mode.random /\ CatalogCount > 0
    THEN CatalogStep(gone, forward, CatalogCount, luck)[1] ELSE gone

\* step(): the base is the pending index, so a held button walks on.
Step(x0, forward, luck) ==
    LET x == Rescan(x0)
        count == Cardinality(x.list)
        base == IF x.pend # NoPhoto THEN x.pend ELSE x.cur
        drawn == CASE ~mode.random -> <<[x EXCEPT !.n = 0], NoPhoto>>
                   [] mode.random /\ CatalogCount > 0 ->
                          CatalogStep(x, forward, CatalogCount, luck)
                   [] mode.random /\ CatalogCount = 0 ->
                          ListStep(x, base, forward, count, luck)
        next == IF drawn[2] # NoPhoto THEN drawn[2] ELSE NextInOrder(base, forward, count)
    IN IF count = 0 THEN StepOnEmpty(x, forward, luck) ELSE Request(drawn[1], next, luck.holds)

\* app_slideshow_update() under its lock, in its order: the list that changed, then the
\* settle window, then whether an advance is due.  "open" is the schedule, the colour course
\* and the update that hold an automatic draw; "busy" is the panel, or a settle window that
\* has not closed, which leaves as much undone.
Noticed(x) ==
    LET y == Rescan([x EXCEPT !.inval = FALSE]) IN
    IF ~x.inval THEN x ELSE IF y.list = {} THEN Emptied(y) ELSE y

FirstPhoto(x, open) == x.inval /\ card # {} /\ x.cur = NoPhoto /\ ~x.needs /\ open

Settled(x) ==
    IF x.pend # NoPhoto /\ x.pend < Cardinality(x.list)
    THEN [Display(x, x.pend) EXCEPT !.needs = FALSE, !.due = FALSE]
    ELSE [x EXCEPT !.needs = FALSE]

Settles(x, open, busy) == ~FirstPhoto(x, open) /\ Noticed(x).needs /\ ~busy

AdvanceDue(x, open, busy) == ~Noticed(x).needs /\ mode.auto /\ ~busy /\ open /\ x.due

Updated(x, open, busy) ==
    IF Settles(x, open, busy) THEN Settled(Noticed(x)) ELSE Noticed(x)

\* app_slideshow_start(): after a boot the photograph drawn is the one RTC RAM names.
Started(x, at, ok) ==
    LET y == Rescan([x EXCEPT !.pos = IF ok THEN x.keptPos ELSE 0, !.miss = 0, !.n = 0,
                              !.seed = NoSeed, !.over = FALSE, !.cur = NoPhoto,
                              !.pend = NoPhoto, !.needs = FALSE, !.inval = FALSE, !.due = FALSE,
                              !.want = NoPhoto, !.asked = NoPhoto, !.answered = TRUE])
    IN IF y.list = {} THEN y
       ELSE [Display([y EXCEPT !.pend = at], at) EXCEPT !.kept = at]

StartIndex(x, l, ok) ==
    IF ok /\ x.kept # NoPhoto /\ x.kept < Cardinality(l) THEN x.kept ELSE 0

-----------------------------------------------------------------------------
(* The actions of the tasks that call it. *)

SlideshowInit ==
    /\ cat = <<>> /\ steps = FALSE
    /\ LET off == [list |-> {}, cur |-> NoPhoto, pend |-> NoPhoto, needs |-> FALSE,
                   inval |-> FALSE, due |-> FALSE, n |-> 0, seed |-> NoSeed, over |-> FALSE,
                   pos |-> 0, miss |-> 0, want |-> NoPhoto, setting |-> NoSeed, kept |-> 0,
                   keptPos |-> 0, asked |-> NoPhoto, answered |-> TRUE]
       IN show = Started(off, 0, TRUE)

\* A button, which the main loop serves.
Press(forward) ==
    /\ ~steps
    /\ \E luck \in Luck : show' = Step(show, forward, luck)
    /\ UNCHANGED <<card, cat, mode, steps>>

\* One tick of the main loop, to where the lock is given back ...
Tick(open, busy) ==
    /\ ~steps
    /\ show' = Updated(show, open, busy)
    /\ steps' = (FirstPhoto(show, open) \/ AdvanceDue(show, open, busy))
    /\ UNCHANGED <<card, cat, mode>>

\* ... and the advance, if one is due, under a lock taken again.
Advance ==
    /\ steps /\ steps' = FALSE
    /\ \E luck \in Luck : show' = Step(show, TRUE, luck)
    /\ UNCHANGED <<card, cat, mode>>

\* The slideshow's interval passes.
IntervalEnds ==
    /\ ~show.due
    /\ show' = [show EXCEPT !.due = TRUE]
    /\ UNCHANGED <<card, cat, mode, steps>>

\* app_slideshow_show_name(): the page asks for one photograph by name.
ShowName(p) ==
    LET x == Rescan(show) IN
    /\ show' = IF p \notin card THEN x
               ELSE LET i == IndexOf(x.list, p) IN
                    [Display(x, i) EXCEPT !.pend = i, !.needs = FALSE, !.due = FALSE, !.kept = i]
    /\ UNCHANGED <<card, cat, mode, steps>>

SetMode(m) ==
    /\ mode' = m
    /\ UNCHANGED <<card, cat, show, steps>>
=============================================================================

------------------------------ MODULE CardSlot ------------------------------
(***************************************************************************)
(* Which medium is mounted at /data: the poll of the card slot in the main  *)
(* loop (frame_main.c), the rescan the page asks for on httpd's task, and   *)
(* board_storage_ensure(), which both run on one watch without a lock.      *)
(* A mount and an unmount hold the storage lock; a reading of the detect    *)
(* line may be wrong, a card may be refused.                                *)
(***************************************************************************)
EXTENDS Integers

CONSTANT Moves    \* bound: what people, the bus and the flash do to the slot

ASSUME MovesAssumption == Moves \in Nat

VARIABLES
    inserted,      \* the card in the slot, by the move that put it there; 0 without one
    media,         \* s_ctx.media
    mounted,       \* s_ctx.storage_created, and the card it was made from (0 is the flash)
    locked,        \* watch: sd_fallback_locked
    lastPresent,   \* watch: last_card_present
    lastDetect, agrees, acted,    \* app_main(): last_detect, detect_agrees, acted_on_detect
    stage,            \* where each task is in board_storage_ensure()
    sees, aims,    \* its locals present and target
    moves,
    told,          \* ghost: the volume the mirror and the slideshow were last told of
    spurned,       \* ghost: the card that was last tried and refused
    unseen         \* ghost: the slot moved, or a reading was wrong, where no other would tell

watchVars == <<locked, lastPresent>>
pollVars == <<lastDetect, agrees, acted>>
localVars == <<sees, aims>>
volumeVars == <<media, mounted>>
slotVars == <<inserted, volumeVars, watchVars, pollVars, stage, localVars, moves, told, spurned, unseen>>

Looker == {"main", "httpd"}
Medium == {"card", "flash"}
Nothing == -1                \* no volume is mounted
Card == 1..Moves + 1
Agree == 2                   \* readings that must agree

SlotTypeOK ==
    /\ inserted \in Card \cup {0} /\ media \in Medium /\ mounted \in Card \cup {0, Nothing}
    /\ {locked, lastPresent, lastDetect, acted, unseen} \subseteq BOOLEAN
    /\ agrees \in 1..Agree /\ moves \in 0..Moves
    /\ stage \in [Looker -> {"away", "read", "decide", "switch", "open", "refused", "tell"}]
    /\ sees \in [Looker -> BOOLEAN] /\ aims \in [Looker -> Medium]
    /\ told \in Card \cup {0, Nothing} /\ spurned \in Card \cup {0}

\* board_storage_select() has tried the card there is, and fallen back if it was refused; its
\* reading of the slot and app_main()'s first may have been wrong.
SlotInit ==
    /\ inserted \in {0, Moves + 1} /\ locked \in BOOLEAN
    /\ inserted = 0 => locked
    /\ media = IF locked THEN "flash" ELSE "card"
    /\ mounted = IF locked THEN 0 ELSE inserted
    /\ lastPresent \in {inserted # 0, FALSE} /\ acted \in {inserted # 0, FALSE}
    /\ lastDetect = acted /\ agrees = Agree
    /\ stage = [t \in Looker |-> "away"]
    /\ sees = [t \in Looker |-> FALSE] /\ aims = [t \in Looker |-> "flash"]
    /\ moves = 0 /\ told = mounted /\ unseen = FALSE
    /\ spurned = IF locked THEN inserted ELSE 0

Moved == moves < Moves /\ moves' = moves + 1

\* board_card_present(): a failure of its bus reads as an empty slot.
Wrong(r) == r # (inserted # 0)
Reading(r) ==
    \/ ~Wrong(r) /\ UNCHANGED moves
    \/ Wrong(r) /\ ~r /\ Moved

Goes(t, from, to) == stage[t] = from /\ stage' = [stage EXCEPT ![t] = to]

-----------------------------------------------------------------------------
(* The slot, and who looks at it. *)

\* A card is put in or pulled out.  The poll sees a change of what it acted on last, and
\* board_storage_ensure() one that is over when it looks: what falls between is not seen.
Handle(c) ==
    /\ Moved
    /\ inserted' = c
    /\ unseen' = (unseen \/ acted # (inserted # 0) \/ \E t \in Looker : stage[t] # "away")
    /\ UNCHANGED <<volumeVars, watchVars, pollVars, stage, localVars, told, spurned>>
CardIn == inserted = 0 /\ Handle(moves + 1)
CardOut == inserted # 0 /\ Handle(0)

\* The main loop, every ten seconds: a change that two readings agree on is acted on, once.
Poll ==
    /\ stage["main"] = "away"
    /\ \E r \in BOOLEAN :
           /\ Reading(r)
           /\ agrees' = IF r # lastDetect THEN 1 ELSE IF agrees < Agree THEN agrees + 1 ELSE agrees
           /\ lastDetect' = r
           /\ IF agrees' = Agree /\ r # acted
              THEN acted' = r /\ stage' = [stage EXCEPT !["main"] = "read"]
              ELSE UNCHANGED <<acted, stage>>
    /\ UNCHANGED <<inserted, volumeVars, watchVars, localVars, told, spurned, unseen>>

\* h_storage_rescan(): the lock is cleared by hand, and the slot looked at once.
Rescan ==
    /\ Moved
    /\ Goes("httpd", "away", "read")
    /\ locked' = FALSE /\ lastPresent' = FALSE
    /\ UNCHANGED <<inserted, volumeVars, pollVars, localVars, told, spurned, unseen>>

-----------------------------------------------------------------------------
(* board_storage_ensure() on task t. *)

Look(t) ==
    /\ Goes(t, "read", "decide")
    /\ \E r \in BOOLEAN :
           /\ Reading(r)
           /\ sees' = [sees EXCEPT ![t] = r]
           /\ unseen' = (unseen \/ (Wrong(r) /\ (acted \/ t = "httpd")))
    /\ UNCHANGED <<inserted, volumeVars, watchVars, pollVars, aims, told, spurned>>

DecideOn(t, reseated, seen) ==
    /\ lastPresent' = seen
    /\ locked' = (locked /\ ~reseated)
    /\ aims' = [aims EXCEPT ![t] = IF sees[t] /\ ~locked' THEN "card" ELSE "flash"]
    /\ Goes(t, "decide", IF media = aims'[t] /\ mounted # Nothing THEN "away" ELSE "switch")
    /\ UNCHANGED <<inserted, volumeVars, pollVars, sees, moves, told, spurned, unseen>>

\* mutant: a removal leaves the watch as it was
DecideReinserted(t) == DecideOn(t, sees[t] /\ ~lastPresent, lastPresent \/ sees[t])
\* Only a reseat clears the fallback lock.
Decide(t) == DecideOn(t, ~sees[t] \/ ~lastPresent, sees[t])

\* board_storage_switch() takes the lock: the other task may have switched meanwhile.
Switch(t) ==
    /\ \A u \in Looker : stage[u] # "open"
    /\ IF media = aims[t] /\ mounted # Nothing
       THEN Goes(t, "switch", "tell") /\ UNCHANGED mounted
       ELSE Goes(t, "switch", "open") /\ mounted' = Nothing
    /\ UNCHANGED <<inserted, media, watchVars, pollVars, localVars, moves, told, spurned, unseen>>

\* storage_create(): the new volume is there.
Opens(t) ==
    /\ Goes(t, "open", "tell")
    /\ aims[t] = "card" => inserted # 0
    /\ media' = aims[t]
    /\ mounted' = IF aims[t] = "card" THEN inserted ELSE 0
    /\ UNCHANGED <<inserted, watchVars, pollVars, localVars, moves, told, spurned, unseen>>

\* A card that is out, or that no frequency of the ladder or no FAT makes readable.
Refuse(t) ==
    /\ Goes(t, "open", "refused")
    /\ aims[t] = "card"
    /\ spurned' = IF inserted = 0 THEN spurned ELSE inserted
    /\ UNCHANGED <<inserted, volumeVars, watchVars, pollVars, localVars, moves, told, unseen>>

\* The flash is not mounted: there is nothing to fall back to.
FlashFails(t) ==
    /\ Goes(t, "open", "away")
    /\ aims[t] = "flash" /\ Moved
    /\ UNCHANGED <<inserted, volumeVars, watchVars, pollVars, localVars, told, spurned, unseen>>

\* The flash is tried instead, unless the other task has mounted it.
FallBack(t) ==
    /\ locked' = TRUE
    /\ IF media = "flash" /\ mounted # Nothing
       THEN Goes(t, "refused", "tell") /\ UNCHANGED aims
       ELSE Goes(t, "refused", "switch") /\ aims' = [aims EXCEPT ![t] = "flash"]
    /\ UNCHANGED <<inserted, volumeVars, lastPresent, pollVars, sees, moves, told, spurned, unseen>>

\* ensure() has returned true: app_smb_sync_media_changed() and app_slideshow_invalidate().
TellOf(t, volume) ==
    /\ Goes(t, "tell", "away")
    /\ told' = volume
    /\ UNCHANGED <<inserted, volumeVars, watchVars, pollVars, localVars, moves, spurned, unseen>>
TellPolled(t) == TellOf(t, IF t = "main" THEN mounted ELSE told)    \* mutant: a rescan tells nobody
Tell(t) == TellOf(t, mounted)

-----------------------------------------------------------------------------
Ensure(t) ==
    \/ Look(t) \/ Decide(t) \/ Switch(t) \/ Opens(t)
    \/ Refuse(t) \/ FlashFails(t) \/ FallBack(t) \/ Tell(t)

SlotNext == CardIn \/ CardOut \/ Poll \/ Rescan \/ \E t \in Looker : Ensure(t)

SlotSpec == SlotInit /\ [][SlotNext]_slotVars

AllAway == \A t \in Looker : stage[t] = "away"

\* The poll has nothing left to act on.
AtRest == AllAway /\ lastDetect = acted /\ acted = (inserted # 0)

\* Where the slot and the volume agree; a card that was refused is left alone.
Follows ==
    \/ media = "card" /\ mounted = inserted
    \/ media = "flash" /\ mounted = 0 /\ inserted \in {0, spurned}
    \/ mounted = Nothing

\* The volume follows the slot, and its readers the volume (frame_main.c 685-711).  The poll acts
\* on each change once and the page may ask at any moment, yet when both have come to rest the
\* card in the slot is the volume, or it was tried and refused and the flash is, unless the slot
\* moved or was read wrongly where no later reading would tell: wrong readings of the poll itself
\* are made good.  Whichever task remounted, when neither is at it the mirror and the slideshow
\* have been told of the volume there is.
CardIsFollowed ==
    /\ AllAway /\ mounted # Nothing => told = mounted
    /\ AtRest => unseen \/ Follows
=============================================================================

------------------------------ MODULE Display ------------------------------
(***************************************************************************)
(* src/src/app/app_display.c: one task owns the panel.  A request is posted *)
(* into a slot that holds one, the newest replacing any that waits, and the *)
(* task renders what it finds there.  A redraw asks for the current picture *)
(* again, after a setting that changes how it looks.                        *)
(***************************************************************************)
EXTENDS Naturals, FiniteSets

CONSTANTS
    Photo,      \* paths of photographs
    Screen,     \* what is drawn and never redrawn: the blank, the card, the flats
    Value,      \* values of a setting
    Caller,     \* tasks that change settings
    None

ASSUME PictureAssumption == None \notin Photo \cup Screen /\ Photo \cap Screen = {}
ASSUME ValueAssumption == Value # {}

\* s_rotation is read when a request is taken, the palette and the rest while it renders.
Setting == {"rotation", "palette"}
Look == [Setting -> Value]
Picture == Photo \cup Screen

VARIABLES
    pending,     \* s_pending_kind and what it asks for
    wake,        \* s_wake
    task,        \* where display_task() is
    inflight,    \* what it renders; s_busy is inflight # None
    turned,      \* the rotation the canvas was given for it
    outcome,     \* how the last render ended: TRUE when it succeeded
    current,     \* s_current_path
    glass,       \* the panel: the picture on it and the settings it was drawn with
    shown,       \* s_rotation, s_palette, ...
    redrawing,   \* the path app_display_redraw() of each caller has copied
    owes,        \* callers that have changed a setting and not yet asked for the redraw
    wanted,      \* ghost: the picture asked for last, redraws aside
    overtaken,   \* ghost: a redraw was posted for another picture since
    missed       \* ghost: a redraw found no current picture while a photograph was rendering

taskVars == <<task, inflight, turned, outcome, current, glass>>
slotVars == <<pending, wake>>
callerVars == <<shown, redrawing, owes>>
ghostVars == <<wanted, overtaken, missed>>
displayVars == <<taskVars, slotVars, callerVars, ghostVars>>

TypeOK ==
    /\ pending \in Picture \cup {None} /\ wake \in BOOLEAN
    /\ task \in {"wait", "take", "draw", "publish"}
    /\ inflight \in Picture \cup {None} /\ turned \in Value /\ outcome \in BOOLEAN
    /\ current \in Photo \cup {None}
    /\ glass \in [pic : Picture \cup {None}, look : Look]
    /\ shown \in Look
    /\ redrawing \in [Caller -> Photo \cup {None}] /\ owes \subseteq Caller
    /\ wanted \in Picture \cup {None} /\ overtaken \in BOOLEAN /\ missed \in BOOLEAN

\* app_display_init() after a boot: the glass still holds what it held.
Init ==
    /\ pending = None /\ wake = FALSE /\ task = "wait" /\ inflight = None
    /\ shown \in Look /\ turned = shown["rotation"] /\ outcome = TRUE
    /\ current = None
    /\ glass = [pic |-> None, look |-> shown]
    /\ redrawing = [c \in Caller |-> None] /\ owes = {}
    /\ wanted = None /\ overtaken = FALSE /\ missed = FALSE

-----------------------------------------------------------------------------
(* The display task. *)

Wake ==
    /\ task = "wait" /\ wake
    /\ wake' = FALSE /\ task' = "take"
    /\ UNCHANGED <<pending, inflight, turned, outcome, current, glass, callerVars, ghostVars>>

\* The inner loop: the slot is emptied as the request is taken, and the task sleeps
\* once it finds it empty.
Take ==
    /\ task = "take"
    /\ IF pending = None
       THEN task' = "wait" /\ UNCHANGED <<pending, inflight, turned, missed>>
       ELSE /\ inflight' = pending /\ pending' = None
            /\ turned' = shown["rotation"] /\ missed' = FALSE
            /\ task' = "draw"
    /\ UNCHANGED <<wake, outcome, current, glass, callerVars, wanted, overtaken>>

Drawn == [pic |-> inflight, look |-> [shown EXCEPT !["rotation"] = turned]]

\* render_image() and its siblings.  A failure before the waveform leaves the glass
\* as it was, one after it (the panel's power-off) leaves the new picture there.
Draw ==
    /\ task = "draw"
    /\ \/ outcome' = TRUE /\ glass' = Drawn
       \/ outcome' = FALSE /\ glass' \in {glass, Drawn}
    /\ task' = "publish"
    /\ UNCHANGED <<inflight, turned, current, slotVars, callerVars, ghostVars>>

\* Mutant: the slot is emptied when the render has ended.
PublishEmptying ==
    /\ task = "publish"
    /\ current' = IF ~outcome THEN current ELSE IF inflight \in Photo THEN inflight ELSE None
    /\ inflight' = None /\ pending' = None
    /\ task' = "take"
    /\ UNCHANGED <<turned, outcome, glass, wake, callerVars, ghostVars>>

\* Mutant: the task goes back to sleep instead of looking at the slot again.
PublishAndSleep ==
    /\ task = "publish"
    /\ current' = IF ~outcome THEN current ELSE IF inflight \in Photo THEN inflight ELSE None
    /\ inflight' = None
    /\ task' = "wait" /\ wake' = FALSE
    /\ UNCHANGED <<turned, outcome, glass, pending, callerVars, ghostVars>>

\* A screen is deliberately not remembered as the current picture.
Publish ==
    /\ task = "publish"
    /\ current' = IF ~outcome THEN current ELSE IF inflight \in Photo THEN inflight ELSE None
    /\ inflight' = None
    /\ task' = "take"
    /\ UNCHANGED <<turned, outcome, glass, slotVars, callerVars, ghostVars>>

DisplayTask == Wake \/ Take \/ Draw \/ Publish

-----------------------------------------------------------------------------
(* The other tasks. *)

Post(r) == pending' = r /\ wake' = TRUE

\* app_display_request(), _blank(), _flat() and _card().
Request(r) ==
    /\ Post(r)
    /\ wanted' = r /\ overtaken' = FALSE
    /\ UNCHANGED <<taskVars, callerVars, missed>>

\* app_display_set_rotation() and its siblings, called by app_apply_set().
Set(c, k, v) ==
    /\ redrawing[c] = None
    /\ shown' = [shown EXCEPT ![k] = v]
    /\ owes' = owes \cup {c}
    /\ UNCHANGED <<taskVars, slotVars, redrawing, ghostVars>>

\* Mutant: nothing is redrawn while the panel is busy.
CopyCurrentUnlessBusy(c) ==
    /\ c \in owes /\ redrawing[c] = None
    /\ redrawing' = [redrawing EXCEPT ![c] = IF inflight = None THEN current ELSE None]
    /\ owes' = IF current = None \/ inflight # None THEN owes \ {c} ELSE owes
    /\ missed' = (missed \/ (current = None /\ inflight \in Photo))
    /\ UNCHANGED <<taskVars, slotVars, shown, wanted, overtaken>>

\* app_display_redraw(), called by app_apply_commit(): the current path is copied under
\* the lock and posted after it; with no current picture nothing is posted.
CopyCurrent(c) ==
    /\ c \in owes /\ redrawing[c] = None
    /\ redrawing' = [redrawing EXCEPT ![c] = current]
    /\ owes' = IF current = None THEN owes \ {c} ELSE owes
    /\ missed' = (missed \/ (current = None /\ inflight \in Photo))
    /\ UNCHANGED <<taskVars, slotVars, shown, wanted, overtaken>>

PostRedraw(c) ==
    /\ redrawing[c] # None
    /\ Post(redrawing[c])
    /\ overtaken' = (overtaken \/ redrawing[c] # wanted)
    /\ redrawing' = [redrawing EXCEPT ![c] = None]
    /\ owes' = owes \ {c}
    /\ UNCHANGED <<taskVars, shown, wanted, missed>>

Clients ==
    \/ \E r \in Picture : Request(r)
    \/ \E c \in Caller : \/ \E k \in Setting, v \in Value : Set(c, k, v)
                         \/ CopyCurrent(c) \/ PostRedraw(c)

Next == DisplayTask \/ Clients

Spec == Init /\ [][Next]_displayVars

\* The task is never blocked for good, and a caller that has set a value goes on to commit.
Fairness ==
    /\ WF_displayVars(DisplayTask)
    /\ \A c \in Caller : WF_displayVars(CopyCurrent(c) \/ PostRedraw(c))

FairSpec == Spec /\ Fairness

-----------------------------------------------------------------------------
(* Properties. *)

\* app_display_busy()
Busy == inflight # None \/ pending # None
AtRest == ~Busy /\ outcome

\* When the panel comes to rest after a render that succeeded, it shows the picture
\* asked for last ("the last is the one anyone wants"), unless a redraw overtook it.
LastRequestShown == AtRest /\ ~overtaken => glass.pic = wanted

\* At rest, and every change of settings committed, a photograph on the glass was drawn
\* with the settings in force, unless its redraw found nothing to redraw.
GlassUpToDate ==
    AtRest /\ owes = {} /\ ~missed /\ glass.pic \in Photo => glass.look = shown

\* A task that waits for the panel never sleeps on a full slot: what is pending is woken for.
NoLostWake == pending # None => wake \/ task # "wait"

\* Whatever is posted is taken, or a later post replaces it.
Served == \A r \in Picture : pending = r ~> (inflight = r \/ pending # r)

=============================================================================

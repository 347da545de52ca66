------------------------------ MODULE Buttons -------------------------------
(***************************************************************************)
(* The button TOP, from its pin to what it asks for.  The buttons' task     *)
(* (board_buttons.c) debounces the pin, tells a click from a long hold and  *)
(* counts each up in a counter of its own; the main loop (frame_main.c)     *)
(* takes them down.  Both change a counter by a read and a write.           *)
(***************************************************************************)
EXTENDS Integers

CONSTANTS
    Samples,     \* DEBOUNCE_SAMPLES
    LongPolls,   \* LONG_PRESS_MS, in polls
    PinTurns        \* bound: how often the pin turns, bounces included

ASSUME ButtonsAssumption ==
    {Samples, LongPolls, PinTurns} \subseteq Nat /\ Samples > 0 /\ LongPolls > 0

VARIABLES
    pin,                   \* the button is held down
    rawLast, stable,       \* raw_last, stable
    isDown, heldPolls,     \* down, and how long ago down_us was
    longFired,             \* long_fired
    wants,                 \* s_want_rotate (the clicks) and s_want_pairing (the holds)
    adds, takes,           \* the counter each task is changing
    addRead, takeRead,     \* and the count it has read of it
    turns,
    pressed, answered,     \* ghosts: presses let through, and gestures acted on
    unasked,               \* ghost: the button was held while the frame started, which is no press
    overwritten            \* ghost: a task has written over the other's count

debounceVars == <<rawLast, stable, isDown, heldPolls, longFired>>
loopVars == <<takes, takeRead, answered>>
buttonVars == <<pin, debounceVars, wants, adds, addRead, loopVars, turns, pressed, unasked, overwritten>>

Gesture == {"click", "hold"}
NoGesture == "none"
Unread == -1

ButtonsTypeOK ==
    /\ {pin, rawLast, isDown, longFired, overwritten} \subseteq BOOLEAN
    /\ stable \in 1..Samples /\ heldPolls \in 0..LongPolls
    /\ wants \in [Gesture -> Nat] /\ {addRead, takeRead} \subseteq Nat \cup {Unread}
    /\ {adds, takes} \subseteq Gesture \cup {NoGesture}
    /\ turns \in 0..PinTurns /\ {pressed, answered} \subseteq Nat /\ unasked \in 0..1

\* board_buttons_init(): the state is the pin's, and down_us is 0: a button that is held while
\* the frame starts, which takes ten seconds, has been down for all of them.
ButtonsInit ==
    /\ pin \in BOOLEAN /\ rawLast = pin /\ stable = Samples
    /\ isDown = pin /\ heldPolls = (IF pin THEN LongPolls ELSE 0) /\ longFired = FALSE
    /\ wants = [g \in Gesture |-> 0]
    /\ adds = NoGesture /\ takes = NoGesture /\ addRead = Unread /\ takeRead = Unread
    /\ turns = 0
    /\ pressed = 0 /\ answered = 0 /\ unasked = (IF pin THEN 1 ELSE 0) /\ overwritten = FALSE

\* A person, or the contact that bounces.
Turn ==
    /\ turns < PinTurns /\ turns' = turns + 1
    /\ pin' = ~pin
    /\ UNCHANGED <<debounceVars, wants, adds, addRead, loopVars, pressed, unasked, overwritten>>

-----------------------------------------------------------------------------
(* buttons_task() and on_button(). *)

Turned == stable' = Samples /\ pin # isDown
ClickEver(edge) == edge /\ ~pin              \* mutant: a long hold is a click as well
Click(edge) == edge /\ ~pin /\ ~longFired

\* One turn of the task's loop.
PollPin ==
    /\ adds = NoGesture
    /\ rawLast' = pin
    /\ stable' = IF pin # rawLast THEN 1 ELSE IF stable < Samples THEN stable + 1 ELSE stable
    /\ isDown' = IF Turned THEN pin ELSE isDown
    /\ heldPolls' = IF ~isDown' \/ Turned THEN 0
                    ELSE IF heldPolls < LongPolls THEN heldPolls + 1 ELSE heldPolls
    /\ LET fired == IF Turned /\ pin THEN FALSE ELSE longFired
           long == isDown' /\ ~fired /\ heldPolls' = LongPolls
       IN /\ longFired' = (fired \/ long)
          /\ adds' = IF Click(Turned) THEN "click" ELSE IF long THEN "hold" ELSE NoGesture
    /\ pressed' = IF Turned /\ pin THEN pressed + 1 ELSE pressed
    /\ UNCHANGED <<pin, wants, addRead, loopVars, turns, unasked, overwritten>>

\* s_want++ and s_want--: a count is read, and what follows from it written.
AddReads ==
    /\ adds # NoGesture /\ addRead = Unread
    /\ addRead' = wants[adds]
    /\ UNCHANGED <<pin, debounceVars, wants, adds, loopVars, turns, pressed, unasked, overwritten>>

AddWrites ==
    /\ addRead # Unread
    /\ wants' = [wants EXCEPT ![adds] = addRead + 1]
    /\ overwritten' = (overwritten \/ wants[adds] # addRead)
    /\ adds' = NoGesture /\ addRead' = Unread
    /\ UNCHANGED <<pin, debounceVars, loopVars, turns, pressed, unasked>>

-----------------------------------------------------------------------------
(* service_buttons() on the main loop. *)

TakeReads ==
    /\ takes = NoGesture
    /\ \E g \in Gesture : wants[g] > 0 /\ takes' = g /\ takeRead' = wants[g]
    /\ UNCHANGED <<pin, debounceVars, wants, adds, addRead, answered, turns, pressed, unasked, overwritten>>

\* The picture is turned, or the connect card drawn.
TakeWrites ==
    /\ takes # NoGesture
    /\ wants' = [wants EXCEPT ![takes] = takeRead - 1]
    /\ overwritten' = (overwritten \/ wants[takes] # takeRead)
    /\ answered' = answered + 1
    /\ takes' = NoGesture /\ takeRead' = Unread
    /\ UNCHANGED <<pin, debounceVars, adds, addRead, turns, pressed, unasked>>

-----------------------------------------------------------------------------
ButtonsTask == PollPin \/ AddReads \/ AddWrites
ServiceButtons == TakeReads \/ TakeWrites

ButtonsNext == Turn \/ ButtonsTask \/ ServiceButtons

ButtonsSpec == ButtonsInit /\ [][ButtonsNext]_buttonVars

-----------------------------------------------------------------------------
(* Properties. *)

\* What has not been answered yet: the press that is held and may still be either gesture, the
\* gesture the task is counting up, and those counted.
Waiting ==
    (IF isDown /\ ~longFired THEN 1 ELSE 0) + (IF adds # NoGesture THEN 1 ELSE 0)
        + wants["click"] + wants["hold"]

\* Every press the debounce lets through makes one gesture (board_buttons.c 71-119, frame_main.c
\* 339-370): a hold that fired and is then let go, a second press while the first still waits, a
\* bounce in the middle make neither two gestures of one press nor none, as long as the two tasks
\* do not write over each other's count.  A button held while the frame starts makes one gesture
\* nobody asked for, whatever the seeding of its state is for (board_buttons.c:143), and no more.
PressAnsweredOnce == overwritten \/ pressed + unasked = answered + Waiting

\* The flags are counters because "losing a press to a race would be invisible and wrong"
\* (frame_main.c:64): no press goes unanswered, whatever the two tasks do to one count.
NoPressIsLost == answered + Waiting >= pressed
=============================================================================

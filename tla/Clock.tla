------------------------------- MODULE Clock --------------------------------
(***************************************************************************)
(* src/src/app/app_clock.c: the clock is set from the network by attempts   *)
(* that two one-shot timers begin and end, on the timer task; the answer    *)
(* comes on lwIP's task, which ends the attempt early through the same      *)
(* timer.  Nothing but these re-armings keeps the clock alive.              *)
(***************************************************************************)

VARIABLES
    uplink,       \* st.sta_connected
    dueArmed, stopArmed,    \* s_due_timer and s_stop_timer
    timerAt,      \* where the timer task is in start_attempt() or stop_attempt()
    sntp,         \* lwIP's client: off, on, or told to stop
    attempting,      \* s_trying
    flag,         \* s_sync_flag
    synced,       \* s_synced
    answerAt      \* where lwIP's task is in on_sync()

attemptVars == <<sntp, attempting, flag, synced>>
clkVars == <<uplink, dueArmed, stopArmed, timerAt, attemptVars, answerAt>>

ClockTypeOK ==
    /\ {uplink, dueArmed, stopArmed, attempting, flag, synced} \subseteq BOOLEAN
    /\ sntp \in {"off", "on", "stopping"}
    /\ timerAt \in {"none", "begin", "disarm", "arm", "end", "result", "again"}
    /\ answerAt \in {"none", "disarm", "arm"}

\* app_clock_init(): the clock may have survived the reset.
ClockInit ==
    /\ uplink \in BOOLEAN /\ dueArmed = TRUE /\ stopArmed = FALSE /\ timerAt = "none"
    /\ sntp = "off" /\ attempting = FALSE /\ flag = FALSE /\ synced \in BOOLEAN
    /\ answerAt = "none"

-----------------------------------------------------------------------------
(* The timer task. *)

TimerFires ==
    /\ timerAt = "none"
    /\ \/ dueArmed /\ dueArmed' = FALSE /\ timerAt' = "begin" /\ UNCHANGED stopArmed
       \/ stopArmed /\ stopArmed' = FALSE /\ timerAt' = "end" /\ UNCHANGED dueArmed
    /\ UNCHANGED <<uplink, attemptVars, answerAt>>

ArmDue == dueArmed' = TRUE

\* Mutant: without a link nothing is armed.
BeginAttemptUnarmed ==
    /\ timerAt = "begin"
    /\ IF uplink
       THEN timerAt' = "disarm" /\ flag' = FALSE /\ sntp' = "on" /\ attempting' = TRUE
       ELSE timerAt' = "none" /\ UNCHANGED <<flag, sntp, attempting>>
    /\ UNCHANGED <<uplink, dueArmed, stopArmed, synced, answerAt>>

\* start_attempt(): without a link it is put off.
BeginAttempt ==
    /\ timerAt = "begin"
    /\ IF uplink
       THEN /\ timerAt' = "disarm" /\ flag' = FALSE /\ sntp' = "on" /\ attempting' = TRUE
            /\ UNCHANGED dueArmed
       ELSE timerAt' = "none" /\ ArmDue /\ UNCHANGED <<flag, sntp, attempting>>
    /\ UNCHANGED <<uplink, stopArmed, synced, answerAt>>

DisarmStop ==
    /\ timerAt = "disarm" /\ timerAt' = "arm" /\ stopArmed' = FALSE
    /\ UNCHANGED <<uplink, dueArmed, attemptVars, answerAt>>

\* Arming fails on a timer that is armed, which an answer in between leaves it: then the
\* attempt ends here.
ArmStop ==
    /\ timerAt = "arm" /\ timerAt' = "none"
    /\ stopArmed' = TRUE
    /\ IF stopArmed
       THEN sntp' = "stopping" /\ attempting' = FALSE /\ ArmDue
       ELSE UNCHANGED <<sntp, attempting, dueArmed>>
    /\ UNCHANGED <<uplink, flag, synced, answerAt>>

\* stop_attempt(): the client is told to stop; an answer, if one came, is taken; and the
\* next attempt is armed.
EndAttempt ==
    /\ timerAt = "end" /\ timerAt' = "result"
    /\ IF attempting THEN sntp' = "stopping" /\ attempting' = FALSE ELSE UNCHANGED <<sntp, attempting>>
    /\ UNCHANGED <<uplink, dueArmed, stopArmed, flag, synced, answerAt>>
TakeAnswer ==
    /\ timerAt = "result" /\ timerAt' = "again"
    /\ flag' = FALSE /\ synced' = (synced \/ flag)
    /\ UNCHANGED <<uplink, dueArmed, stopArmed, sntp, attempting, answerAt>>
ArmAgain ==
    /\ timerAt = "again" /\ timerAt' = "none" /\ ArmDue
    /\ UNCHANGED <<uplink, stopArmed, attemptVars, answerAt>>

TimerTask ==
    TimerFires \/ BeginAttempt \/ DisarmStop \/ ArmStop \/ EndAttempt \/ TakeAnswer \/ ArmAgain

-----------------------------------------------------------------------------
(* lwIP's task, and the link. *)

\* on_sync(): the attempt is to end in a second; the timer task may come between the two
\* calls.  A client that had its answer asks again an hour later.
Answer ==
    /\ sntp # "off" /\ answerAt = "none" /\ ~flag
    /\ flag' = TRUE /\ answerAt' = "disarm"
    /\ UNCHANGED <<uplink, dueArmed, stopArmed, timerAt, sntp, attempting, synced>>
AnswerDisarms ==
    /\ answerAt = "disarm" /\ answerAt' = "arm" /\ stopArmed' = FALSE
    /\ UNCHANGED <<uplink, dueArmed, timerAt, attemptVars>>
AnswerArms ==
    /\ answerAt = "arm" /\ answerAt' = "none" /\ stopArmed' = TRUE
    /\ UNCHANGED <<uplink, dueArmed, timerAt, attemptVars>>

\* The client stops when lwIP's task comes to it.
SntpStops ==
    /\ sntp = "stopping" /\ answerAt = "none" /\ sntp' = "off"
    /\ UNCHANGED <<uplink, dueArmed, stopArmed, timerAt, attempting, flag, synced, answerAt>>

LwipTask == Answer \/ AnswerDisarms \/ AnswerArms \/ SntpStops

LinkTurns ==
    /\ uplink' = ~uplink
    /\ UNCHANGED <<dueArmed, stopArmed, timerAt, attemptVars, answerAt>>

ClockNext == TimerTask \/ LwipTask \/ LinkTurns

ClockSpec == ClockInit /\ [][ClockNext]_clkVars

-----------------------------------------------------------------------------
(* Properties. *)

\* Outside the callbacks some timer is armed, and over a client that runs its end is: the
\* clock never stops trying nor holds its socket for good, however answers, timeouts and
\* lost links cross (app_clock.c: "the end of the clock for this boot").
AttemptsGoOn ==
    timerAt = "none" /\ answerAt = "none" =>
        (dueArmed \/ stopArmed) /\ (sntp = "on" => stopArmed)
=============================================================================

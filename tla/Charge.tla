------------------------------- MODULE Charge -------------------------------
(***************************************************************************)
(* The charge cap: the policy of src/src/app/app_charge.c over the charger  *)
(* of board_e1002.c.  The application's task re-asserts the setting, the    *)
(* web server's applies a change of it, each as reads and writes of the     *)
(* charger's registers between which the other, and the charger's watchdog, *)
(* may come.  The charger keeps its registers when the frame restarts.      *)
(***************************************************************************)
EXTENDS Naturals

CONSTANTS
    Mishaps      \* bound: restarts, resets of the charger, changes of the setting, failed transfers

ASSUME MishapsAssumption == Mishaps \in Nat

\* The percentages of the setting, 0 to leave the charger alone, and their voltages.
Percent == {0, 80, 100}
Capped == 1
Full == 2
Asked(pct) == IF pct = 80 THEN Capped ELSE Full

Applier == {"tick", "handler"}

VARIABLES
    limit,       \* charge_limit_pct
    reg, watchdog,    \* the charger: its voltage, and whether its watchdog runs
    ceiling,     \* s_vreg_ceiling_mv
    applying,    \* where each task is in app_charge_apply()
    goal,        \* the voltage it asks for, then the one it is to write
    changed,     \* the handler has changed the setting and not yet applied it
    mishaps      \* so far

charger == <<reg, watchdog>>
chargeVars == <<limit, charger, ceiling, applying, goal, changed, mishaps>>

ChargeTypeOK ==
    /\ limit \in Percent /\ reg \in {Capped, Full} /\ watchdog \in BOOLEAN
    /\ ceiling \in {0, Capped, Full}
    /\ applying \in [Applier -> {"idle", "read", "watchdog", "measure", "write"}]
    /\ goal \in [Applier -> {0, Capped, Full}] /\ changed \in BOOLEAN /\ mishaps \in 0..Mishaps

\* app_main() after the battery was put in: the charger has its defaults.
ChargeInit ==
    /\ limit \in Percent /\ reg = Full /\ watchdog = TRUE /\ ceiling = 0
    /\ applying = [t \in Applier |-> "idle"] /\ goal = [t \in Applier |-> 0]
    /\ changed = FALSE /\ mishaps = 0

Mishap == mishaps < Mishaps /\ mishaps' = mishaps + 1

-----------------------------------------------------------------------------

At(t, from, to) == applying[t] = from /\ applying' = [applying EXCEPT ![t] = to]

\* A transfer that fails ends the application, but that of the watchdog, which is reported.
Fails(t) ==
    /\ applying[t] \in {"read", "measure", "write"}
    /\ Mishap /\ applying' = [applying EXCEPT ![t] = "idle"]
    /\ UNCHANGED <<limit, charger, ceiling, goal, changed>>

\* app_charge_tick() when its twenty seconds are over; app_charge_apply() by the handler.
Start(t) ==
    /\ At(t, "idle", "read")
    /\ t = "handler" => changed
    /\ changed' = (changed /\ t # "handler")
    /\ goal' = [goal EXCEPT ![t] = IF limit = 0 THEN 0 ELSE Asked(limit)]
    /\ UNCHANGED <<limit, charger, ceiling, mishaps>>

\* apply_once() reads the charger whatever the setting.
ReadCharger(t) ==
    /\ At(t, "read", IF goal[t] = 0 THEN "idle" ELSE "watchdog")
    /\ UNCHANGED <<limit, charger, ceiling, goal, changed, mishaps>>

\* Mutant: the watchdog is left running.
WatchdogLeft(t) ==
    /\ At(t, "watchdog", "measure")
    /\ UNCHANGED <<limit, charger, ceiling, goal, changed, mishaps>>

\* board_charger_watchdog_disable()
DisableWatchdog(t) ==
    /\ At(t, "watchdog", "measure")
    /\ \/ watchdog' = FALSE /\ UNCHANGED mishaps
       \/ Mishap /\ UNCHANGED watchdog
    /\ UNCHANGED <<limit, reg, ceiling, goal, changed>>

\* board_charger_set_vreg_mv(): the ceiling follows the voltage it finds up, and bounds
\* the one it writes.
Measure(t) ==
    /\ ceiling' = IF ceiling < reg THEN reg ELSE ceiling
    /\ goal' = [goal EXCEPT ![t] = IF ceiling' < goal[t] THEN ceiling' ELSE goal[t]]
    /\ At(t, "measure", IF goal'[t] = reg THEN "idle" ELSE "write")
    /\ UNCHANGED <<limit, charger, changed, mishaps>>
Write(t) ==
    /\ At(t, "write", "idle")
    /\ reg' = goal[t]
    /\ UNCHANGED <<limit, watchdog, ceiling, goal, changed, mishaps>>

Applies(t) == Start(t) \/ ReadCharger(t) \/ DisableWatchdog(t) \/ Measure(t) \/ Write(t)

-----------------------------------------------------------------------------

\* h_mode_cfg_set(): the setting is stored and then applied, on the one task.
ChangeLimit ==
    /\ applying["handler"] = "idle" /\ ~changed
    /\ \E pct \in Percent \ {limit} : limit' = pct
    /\ changed' = TRUE /\ Mishap
    /\ UNCHANGED <<charger, ceiling, applying, goal>>

\* The watchdog restores the defaults while it runs; a reset of the part sets it running.
WatchdogBites == watchdog /\ reg # Full /\ reg' = Full /\ UNCHANGED <<watchdog, mishaps>>
PartResets == Mishap /\ reg' = Full /\ watchdog' = TRUE
Charger ==
    /\ WatchdogBites \/ PartResets
    /\ UNCHANGED <<limit, ceiling, applying, goal, changed>>

\* The frame restarts, the charger does not.
Restart ==
    /\ Mishap
    /\ ceiling' = 0 /\ changed' = FALSE
    /\ applying' = [t \in Applier |-> "idle"] /\ goal' = [t \in Applier |-> 0]
    /\ UNCHANGED <<limit, charger>>

ChargeNext == Charger \/ ChangeLimit \/ Restart \/ \E t \in Applier : Applies(t) \/ Fails(t)

\* The main loop ticks, and a handler that has begun goes on.
ChargeFairness == \A t \in Applier : WF_chargeVars(Applies(t))

ChargeSpec == ChargeInit /\ [][ChargeNext]_chargeVars /\ ChargeFairness

-----------------------------------------------------------------------------
(* Properties. *)

\* While the setting stays at 80 % the charger is capped for good in the end, whatever its
\* watchdog restores, transfers fail, the part resets or a write decided under another
\* setting comes late (app_charge.h: the re-assert; disabling makes a cap hold).
CapHolds == <>[](limit = 80) => <>[](reg = Capped)

\* 100 % restores the part's own default (docs/web-api.md: "100 = restore the part's own
\* default").
FullIsRestored == <>[](limit = 100) => <>(limit = 100 /\ reg = Full)
=============================================================================

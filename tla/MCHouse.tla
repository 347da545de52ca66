------------------------------ MODULE MCHouse ------------------------------
(***************************************************************************)
(* Four services of the frame that share no state: the maintenance of the   *)
(* panel, the network, the clock and the charger.  An interleaving of two   *)
(* of them would add states and no behaviour, so each behaviour follows one *)
(* and leaves the others as they began.                                     *)
(***************************************************************************)
EXTENDS Maint, Wifi, Clock, Charge

VARIABLE service

houseVars == <<service, vars, wifiVars, clkVars, chargeVars>>

ShortCourse == <<"red", "white">>
SomeConfigs ==
    {[low |-> TRUE, start |-> 0, end |-> 1, park |-> TRUE, deep |-> FALSE],
     [low |-> TRUE, start |-> 2, end |-> 1, park |-> TRUE, deep |-> TRUE],
     [low |-> TRUE, start |-> 0, end |-> 2, park |-> FALSE, deep |-> FALSE]}

\* A service that is not followed stays in one of its initial states.
HouseInit ==
    /\ service \in {"panel", "network", "clock", "charger"}
    /\ Init /\ WifiInit /\ ClockInit /\ ChargeInit
    /\ service # "panel" => hours = 0 /\ ~today /\ cfg = CHOOSE c \in Configs : TRUE
    /\ service # "network" => target = NoNetwork
    /\ service # "clock" => ~uplink /\ ~synced
    /\ service # "charger" => limit = 0

HouseNext ==
    \/ service = "panel" /\ Next /\ UNCHANGED <<service, wifiVars, clkVars, chargeVars>>
    \/ service = "network" /\ WifiNext /\ UNCHANGED <<service, vars, clkVars, chargeVars>>
    \/ service = "clock" /\ ClockNext /\ UNCHANGED <<service, vars, wifiVars, chargeVars>>
    \/ service = "charger" /\ ChargeNext /\ UNCHANGED <<service, vars, wifiVars, clkVars>>

\* The fairness of each service, where it is followed.
HouseSpec ==
    /\ HouseInit /\ [][HouseNext]_houseVars
    /\ WF_vars(service = "panel" /\ Main) /\ WF_vars(service = "panel" /\ Panel)
    /\ WF_vars(service = "panel" /\ Time /\ ComesDue)
    /\ WF_wifiVars(service = "network" /\ RetryTask) /\ WF_wifiVars(service = "network" /\ Event)
    /\ WF_wifiVars(service = "network" /\ Drop) /\ WF_wifiVars(service = "network" /\ ScanEnds)
    /\ WF_wifiVars(service = "network" /\ Raise) /\ WF_wifiVars(service = "network" /\ TimePasses)
    /\ SF_wifiVars(service = "network" /\ Radio /\ Associates)
    /\ \A t \in Applier : WF_chargeVars(service = "charger" /\ Applies(t))
=============================================================================

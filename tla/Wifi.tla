-------------------------------- MODULE Wifi --------------------------------
(***************************************************************************)
(* src/src/app/board_wifi.c.  Two tasks and a radio: the retry task owns    *)
(* the station's connects and closes the access point's window; the web     *)
(* server's task hands over credentials, drops the link and scans; the      *)
(* application's task opens the window (a five second press).  The driver   *)
(* says what became of the link in events that arrive later, in order.      *)
(* The build without FRAME_AP_ALWAYS_ON.                                    *)
(***************************************************************************)
EXTENDS Naturals, Sequences

CONSTANTS
    Network,
    NoNetwork,
    ApplyDelay,     \* APPLY_DELAY_TICKS
    RetryTicks,     \* RETRY_INTERVAL_MS in ticks of the retry task
    Window, Cap,    \* FRAME_AP_WINDOW_MS and FRAME_AP_WINDOW_CAP_MS, in steps of time
    Incidents       \* bound: requests of the page, presses, and calls the driver refuses

ASSUME NetworkAssumption == NoNetwork \notin Network
ASSUME WifiBoundsAssumption ==
    {ApplyDelay, RetryTicks, Window, Cap} \subseteq Nat \ {0} /\ Incidents \in Nat

VARIABLES
    target,         \* s_ssid and s_password
    enabled,        \* s_retry_enabled
    scanning,       \* s_retry_paused
    applyTicks,     \* s_apply_ticks
    connected,      \* s_sta_connected
    at,             \* where the retry task is in its tick
    job,            \* what it read under the lock: want, apply and the network
    since,          \* since_try_ms, in ticks
    dropping,       \* the server's task, between a disconnect's lock and its call
    apUp,           \* s_ap_up
    left, capLeft,  \* how far s_ap_deadline_us and s_ap_cap_us lie ahead
    raising,        \* the application's task, between an open's lock and its calls
    config, trying, assoc,  \* the driver: its network, connecting to it, associated with
    reports,         \* its events the event loop has yet to deliver
    air, client,    \* an access point is on the air; somebody has joined it
    incidents,      \* so far
    refused,        \* ghost: the driver has refused to raise or lower the access point
    promise,        \* ghost: time left of what the last press promised
    crossed         \* ghost: it, or one before it in this window, met a tick that had decided

stationVars == <<target, enabled, scanning, applyTicks, connected, job, since, dropping>>
windowVars == <<apUp, left, capLeft, raising>>
linkVars == <<config, trying, assoc, reports>>
airVars == <<air, client>>
pressVars == <<promise, crossed>>
wifiVars == <<stationVars, at, windowVars, linkVars, airVars, incidents, refused, pressVars>>

Incident == incidents < Incidents /\ incidents' = incidents + 1

NoJob == [want |-> FALSE, apply |-> FALSE, net |-> NoNetwork]

WifiTypeOK ==
    /\ {target, config, assoc} \subseteq Network \cup {NoNetwork}
    /\ {enabled, scanning, connected, dropping, apUp, raising, trying, air, client} \subseteq BOOLEAN
    /\ applyTicks \in 0..ApplyDelay /\ since \in 0..RetryTicks
    /\ at \in {"tick", "window", "hold", "close", "down", "act"}
    /\ job \in [want : BOOLEAN, apply : BOOLEAN, net : Network \cup {NoNetwork}]
    /\ left \in 0..Window /\ capLeft \in 0..Cap /\ promise \in 0..Window
    /\ reports \in Seq({"up", "down"})
    /\ incidents \in 0..Incidents
    /\ {crossed, refused} \subseteq BOOLEAN

\* board_wifi_init() with the stored credentials, if any.
WifiInit ==
    /\ target \in Network \cup {NoNetwork} /\ enabled = TRUE /\ scanning = FALSE
    /\ applyTicks = 0 /\ connected = FALSE
    /\ at = "tick" /\ job = NoJob /\ since = RetryTicks /\ dropping = FALSE
    /\ apUp = FALSE /\ left = 0 /\ capLeft = 0 /\ raising = FALSE
    /\ config = NoNetwork /\ trying = FALSE /\ assoc = NoNetwork /\ reports = <<>>
    /\ air = FALSE /\ client = FALSE
    /\ incidents = 0 /\ refused = FALSE
    /\ promise = 0 /\ crossed = FALSE

-----------------------------------------------------------------------------
(* The driver. *)

Linked == assoc # NoNetwork

\* esp_wifi_disconnect()
Dropped ==
    /\ assoc' = NoNetwork
    /\ reports' = IF Linked \/ trying THEN Append(reports, "down") ELSE reports

\* sta_connect_now(): a scan makes the connect fail.
Connect(net, dropFirst) ==
    /\ config' = net
    /\ IF dropFirst THEN Dropped ELSE UNCHANGED <<assoc, reports>>
    /\ trying' = (assoc' = NoNetwork /\ ~scanning)

\* A connect that succeeds, or does not; a link that is lost.
Associates ==
    /\ trying
    /\ trying' = FALSE /\ assoc' = config /\ reports' = Append(reports, "up")
FailsToAssociate ==
    /\ trying
    /\ trying' = FALSE /\ reports' = Append(reports, "down") /\ UNCHANGED assoc
LosesLink == Linked /\ Dropped /\ UNCHANGED trying
Radio ==
    /\ reports = <<>>
    /\ Associates \/ FailsToAssociate \/ LosesLink
    /\ UNCHANGED <<config, stationVars, at, windowVars, airVars, incidents, refused, pressVars>>

\* wifi_event()
Event ==
    /\ reports # <<>>
    /\ connected' = (Head(reports) = "up") /\ reports' = Tail(reports)
    /\ UNCHANGED <<target, enabled, scanning, applyTicks, job, since, dropping, at, windowVars>>
    /\ UNCHANGED <<config, trying, assoc, airVars, incidents, refused, pressVars>>

-----------------------------------------------------------------------------
(* retry_task() *)

Pending == applyTicks > 0 /\ ~scanning

\* What the tick does is settled under the lock.
RetryReads ==
    /\ at = "tick" /\ at' = "window"
    /\ applyTicks' = IF Pending THEN applyTicks - 1 ELSE applyTicks
    /\ job' = [want |-> enabled /\ ~scanning /\ ~connected /\ target # NoNetwork,
               apply |-> Pending /\ applyTicks' = 0, net |-> target]
    /\ UNCHANGED <<target, enabled, scanning, connected, since, dropping, windowVars, linkVars>>
    /\ UNCHANGED <<airVars, incidents, refused, pressVars>>

\* Mutant: a client holds the window open for as long as it stays.
ServiceWindowUncapped ==
    /\ at = "window"
    /\ at' = CASE ~apUp \/ left > 0 -> "act" [] client -> "hold" [] OTHER -> "close"
    /\ UNCHANGED <<stationVars, windowVars, linkVars, airVars, incidents, refused, pressVars>>

\* service_ap_window(): a client past the deadline holds the window open up to the cap.
ServiceWindow ==
    /\ at = "window"
    /\ at' = IF ~apUp \/ left > 0 THEN "act" ELSE IF client /\ capLeft > 0 THEN "hold" ELSE "close"
    /\ UNCHANGED <<stationVars, windowVars, linkVars, airVars, incidents, refused, pressVars>>

Hold ==
    /\ at = "hold" /\ at' = "act" /\ left' = 1
    /\ UNCHANGED <<stationVars, apUp, capLeft, raising, linkVars, airVars>>
    /\ UNCHANGED <<incidents, refused, pressVars>>

\* board_wifi_ap_close(): the belief first, then the radio, which may refuse.
Close ==
    /\ at = "close" /\ at' = "down"
    /\ apUp' = FALSE /\ left' = 0 /\ capLeft' = 0
    /\ UNCHANGED <<stationVars, raising, linkVars, airVars, incidents, refused, pressVars>>
GoDown ==
    /\ at = "down" /\ at' = "act"
    /\ \/ air' = FALSE /\ client' = FALSE /\ UNCHANGED <<incidents, refused>>
       \/ Incident /\ refused' = TRUE /\ UNCHANGED airVars
    /\ UNCHANGED <<stationVars, windowVars, linkVars, pressVars>>

\* Credentials handed over come before the plain retry, which waits its interval out.
Act ==
    /\ at = "act" /\ at' = "tick" /\ job' = NoJob
    /\ IF job.apply /\ job.net # NoNetwork
       THEN since' = 0 /\ Connect(job.net, TRUE)
       ELSE IF ~job.want
       THEN since' = RetryTicks /\ UNCHANGED linkVars
       ELSE IF since + 1 < RetryTicks
       THEN since' = since + 1 /\ UNCHANGED linkVars
       ELSE since' = 0 /\ Connect(job.net, FALSE)
    /\ UNCHANGED <<target, enabled, scanning, applyTicks, connected, dropping, windowVars>>
    /\ UNCHANGED <<airVars, incidents, refused, pressVars>>

RetryTask == RetryReads \/ ServiceWindow \/ Hold \/ Close \/ GoDown \/ Act

-----------------------------------------------------------------------------
(* The web server's task: one request at a time. *)

Idle == ~scanning /\ ~dropping

\* Mutant: only a link that is down is left to the retries.
HandOverQuietly(net) ==
    /\ Idle /\ Incident
    /\ target' = net /\ enabled' = TRUE
    /\ UNCHANGED <<scanning, connected, job, since, dropping, at, windowVars, linkVars>>
    /\ UNCHANGED <<applyTicks, airVars, refused, pressVars>>

\* board_wifi_connect(): the retry task connects, once the answer has left.
HandOver(net) ==
    /\ Idle /\ Incident
    /\ target' = net /\ enabled' = TRUE /\ applyTicks' = ApplyDelay
    /\ UNCHANGED <<scanning, connected, job, since, dropping, at, windowVars, linkVars>>
    /\ UNCHANGED <<airVars, refused, pressVars>>

\* board_wifi_disconnect_keep_ap(): what is wanted first, then the link.
Leave ==
    /\ Idle /\ Incident
    /\ enabled' = FALSE /\ applyTicks' = 0 /\ target' = NoNetwork /\ connected' = FALSE
    /\ dropping' = TRUE
    /\ UNCHANGED <<scanning, job, since, at, windowVars, linkVars>>
    /\ UNCHANGED <<airVars, refused, pressVars>>
Drop ==
    /\ dropping /\ dropping' = FALSE
    /\ Dropped /\ trying' = FALSE
    /\ UNCHANGED <<target, enabled, scanning, applyTicks, connected, job, since, at, windowVars>>
    /\ UNCHANGED <<config, airVars, incidents, refused, pressVars>>

\* board_wifi_scan()
Scan ==
    /\ Idle /\ Incident
    /\ scanning' = TRUE
    /\ UNCHANGED <<target, enabled, applyTicks, connected, job, since, dropping, at, windowVars>>
    /\ UNCHANGED <<linkVars, airVars, refused, pressVars>>
ScanEnds ==
    /\ scanning /\ scanning' = FALSE
    /\ UNCHANGED <<target, enabled, applyTicks, connected, job, since, dropping, at, windowVars>>
    /\ UNCHANGED <<linkVars, airVars, incidents, refused, pressVars>>

ServerTask == Leave \/ Drop \/ Scan \/ ScanEnds \/ \E net \in Network : HandOver(net)

-----------------------------------------------------------------------------
(* The application's task, the people about, and time. *)

Pressing ==
    /\ ~raising /\ Incident
    /\ promise' = Window /\ crossed' = ((crossed /\ apUp) \/ at \in {"hold", "close", "down"})
    /\ UNCHANGED <<stationVars, at, linkVars, airVars, refused>>

\* Mutant: a window that is open is left as it is.
OpenOnce ==
    /\ Pressing
    /\ left' = IF apUp THEN left ELSE Window
    /\ capLeft' = IF apUp THEN capLeft ELSE Cap
    /\ apUp' = TRUE /\ raising' = ~apUp

\* board_wifi_ap_window_open(): a window that is open is extended; the cap runs from the open.
Open ==
    /\ Pressing
    /\ left' = Window /\ capLeft' = IF apUp THEN capLeft ELSE Cap
    /\ apUp' = TRUE /\ raising' = ~apUp

\* The mode and then the configuration; after the first the access point is on the air.
Raise ==
    /\ raising /\ raising' = FALSE
    /\ \/ air' = TRUE /\ UNCHANGED <<apUp, incidents, refused>>
       \/ Incident /\ refused' = TRUE /\ apUp' = FALSE /\ air' \in {air, TRUE}
    /\ UNCHANGED <<stationVars, at, left, capLeft, linkVars, client, pressVars>>

Joins ==
    /\ air /\ client' = ~client
    /\ UNCHANGED <<stationVars, at, windowVars, linkVars, air, incidents, refused, pressVars>>

\* A call of the driver takes seconds, a step of time minutes.
Sooner(t) == IF t = 0 THEN 0 ELSE t - 1
TimePasses ==
    /\ ~raising /\ left + capLeft + promise > 0
    /\ left' = Sooner(left) /\ capLeft' = Sooner(capLeft) /\ promise' = Sooner(promise)
    /\ UNCHANGED <<stationVars, at, apUp, raising, linkVars, airVars, incidents, refused, crossed>>

WifiNext == RetryTask \/ Event \/ Radio \/ ServerTask \/ Open \/ Raise \/ Joins \/ TimePasses

\* The tasks run, events are delivered, a scan ends, time passes, and a network that can
\* be joined is joined if it is tried again and again.
WifiFairness ==
    /\ WF_wifiVars(RetryTask) /\ WF_wifiVars(Event) /\ WF_wifiVars(Drop) /\ WF_wifiVars(ScanEnds)
    /\ WF_wifiVars(Raise) /\ WF_wifiVars(TimePasses) /\ SF_wifiVars(Radio /\ Associates)

WifiSpec == WifiInit /\ [][WifiNext]_wifiVars /\ WifiFairness

-----------------------------------------------------------------------------
(* Properties. *)

\* A press puts the access point on the air for a whole window, whether one was open, ran
\* out or was held by a client, unless the driver refused or the tick had decided already
\* (board_wifi.h: "(re)starts its window at the full length").
PressKeepsApUp == promise > 0 /\ ~raising /\ ~crossed /\ ~refused => air

\* The network comes to rest.  Credentials handed over reach the radio, whatever scans, losses
\* of the link and ticks are under way, or others replace them, or the user disconnects
\* (board_wifi_connect); and the access point takes itself down, whoever stays joined to it and
\* however presses and the tick cross, unless the driver refused (board_wifi.h: "it takes itself
\* down again").
WifiSettles ==
    /\ \A net \in Network : target = net ~> (assoc = net \/ target # net)
    /\ air ~> (~air \/ refused)
=============================================================================

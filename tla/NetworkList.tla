---------------------------- MODULE NetworkList -----------------------------
(***************************************************************************)
(* The Wi-Fi list of the network page (cc-network-list.c).                 *)
(*                                                                         *)
(* NetworkManager changes what is in range, what is in use and the state   *)
(* of the device at any time; the list only looks when it is refreshed: by *)
(* a timer it starts anew with every refresh, by a notification, or after  *)
(* a click.  A refresh that finds the network in use activated turns the   *)
(* page to its subpage, which begins the update (UpdatePage's Begin).      *)
(* All handlers run in the main loop, one at a time; `refreshing' is only  *)
(* set inside of one, so no handler sees it set.                           *)
(*                                                                         *)
(* Which access points get a row, and in which order, is StrongestAps'     *)
(* matter; here a network is its SSID and the rows are known by what       *)
(* NetworkManager said when they were made.                                *)
(***************************************************************************)
EXTENDS Integers

CONSTANTS
    Ssids,     \* the networks there are
    NoAp,      \* no access point is in use, or one that tells no SSID
    MaxCalls   \* bound: activations in flight

ASSUME ApAssumption == NoAp \notin Ssids
ASSUME CallsAssumption == MaxCalls \in Nat

VARIABLES
    looked,              \* find_best_device has run, or never will
    device,              \* nm_device is set
    watched,             \* an active connection notifies about its state
    refresh_timeout_id,  \* 0: no timer
    armed,               \* the timers GLib has for refresh_again
    network,             \* what NetworkManager knows
    rows, indicator,     \* what the page shows: the network its rows are of
    in_bounds,           \* the page is where the carousel shows it
    subpage,             \* the subpage is the visible one
    activations,         \* its "activated" signals
    calls                \* ActivateConnection calls in flight

timer == <<refresh_timeout_id, armed>>
page == <<rows, indicator, subpage, activations>>
vars == <<looked, device, watched, timer, network, page, in_bounds, calls>>

SourceIds == 1..3
States == {"none", "spinner", "check"}
Indicators == {"not-connected", "ok", "good"}

\* The networks in range, the one in use and the mark the state of the device
\* gives its row.
Networks ==
    {n \in [aps : SUBSET Ssids, active : Ssids \union {NoAp}, state : States] :
        n.active \in n.aps \union {NoAp}}

NoRows == [aps |-> {}, active |-> NoAp, state |-> "none"]

\* What NetworkManager knows when the program starts is anything.  Without an
\* NMClient the search for a device is never scheduled.
Init ==
    /\ looked \in BOOLEAN /\ device = FALSE /\ watched = FALSE
    /\ refresh_timeout_id = 0 /\ armed = {}
    /\ network \in Networks
    /\ rows = NoRows /\ indicator = "not-connected"
    /\ in_bounds = FALSE /\ subpage = FALSE /\ activations = 0 /\ calls = 0

-----------------------------------------------------------------------------
(* Refreshing.                                                             *)

start_periodic_refresh_Uncancelled(ran) ==
    /\ refresh_timeout_id' = CHOOSE id \in SourceIds : id \notin armed \ ran
    /\ armed' = (armed \ ran) \union {refresh_timeout_id'}

\* The timer there is gives way to a new one.  ran is the timer whose callback
\* this is: it is still the one refresh_timeout_id names, and is gone when the
\* callback returns in any case.
start_periodic_refresh(ran) ==
    LET left == armed \ (ran \union {refresh_timeout_id}) IN
    /\ refresh_timeout_id' = CHOOSE id \in SourceIds : id \notin left
    /\ armed' = left \union {refresh_timeout_id'}

pt_page_switch_to_subpage_Repeats ==
    /\ subpage' = TRUE
    /\ activations' = activations + 1

\* Only the first time: after that the subpage is visible.
pt_page_switch_to_subpage ==
    /\ subpage' = TRUE
    /\ activations' = IF subpage THEN activations ELSE activations + 1

\* add_access_point marks the row of the access point in use.
Marked(n, mark) == n.active # NoAp /\ n.state = mark

\* The list is emptied and filled again by add_access_point.
Show(n) ==
    /\ rows' = n
    /\ indicator' = CASE Marked(n, "check")   -> "good"
                      [] Marked(n, "spinner") -> "ok"
                      [] OTHER                -> "not-connected"
    /\ IF Marked(n, "check")
       THEN pt_page_switch_to_subpage
       ELSE UNCHANGED <<subpage, activations>>

refresh_wireless_list_SkipStops(ran, n) ==
    IF ~in_bounds /\ rows.aps # {}
    THEN /\ refresh_timeout_id' = IF ran = {} THEN refresh_timeout_id ELSE 0
         /\ armed' = armed \ ran
         /\ UNCHANGED page
    ELSE Show(n) /\ start_periodic_refresh(ran)

\* Out of sight with something in the list, nothing but the timer changes.
refresh_wireless_list(ran, n) ==
    /\ IF ~in_bounds /\ rows.aps # {}
       THEN UNCHANGED page
       ELSE Show(n)
    /\ start_periodic_refresh(ran)

refresh_again ==
    \E id \in armed :
        /\ refresh_wireless_list({id}, network)
        /\ UNCHANGED <<looked, device, watched, network, in_bounds, calls>>

-----------------------------------------------------------------------------
(* NetworkManager and its notifications.                                   *)

\* One second after the start, once.  Managed Wi-Fi devices that are no access
\* point themselves may or may not be there.
find_best_device ==
    /\ ~looked
    /\ looked' = TRUE
    /\ \/ device' = TRUE /\ refresh_wireless_list({}, network)
       \/ UNCHANGED <<device, page, timer>>
    /\ UNCHANGED <<watched, network, in_bounds, calls>>

\* Access points come and go, and one is in use or none: no handler is called.
AccessPointsChanged ==
    /\ network' \in {n \in Networks \ {network} : n.state = network.state}
    /\ UNCHANGED <<looked, device, watched, timer, page, in_bounds, calls>>

device_state_changed ==
    /\ \E st \in States \ {network.state} : network' = [network EXCEPT !.state = st]
    /\ IF device
       THEN refresh_wireless_list({}, network')
       ELSE UNCHANGED <<page, timer>>
    /\ UNCHANGED <<looked, device, watched, in_bounds, calls>>

active_connections_changed ==
    /\ device /\ ~watched
    /\ watched' = TRUE
    /\ UNCHANGED <<looked, device, timer, network, page, in_bounds, calls>>

connection_state_changed ==
    /\ watched
    /\ refresh_wireless_list({}, network)
    /\ UNCHANGED <<looked, device, watched, network, in_bounds, calls>>

-----------------------------------------------------------------------------
(* The user.                                                               *)

\* The carousel brings the page into sight or takes it away.
Move ==
    /\ in_bounds' = ~in_bounds
    /\ UNCHANGED <<looked, device, watched, timer, network, page, calls>>

\* A click on a network with a known connection: the list is refreshed when
\* NetworkManager has answered.  Any other network: at once.
row_activated ==
    /\ in_bounds /\ rows.aps # {} /\ ~subpage
    /\ \/ /\ calls < MaxCalls
          /\ calls' = calls + 1
          /\ UNCHANGED <<timer, page>>
       \/ /\ refresh_wireless_list({}, network)
          /\ UNCHANGED calls
    /\ UNCHANGED <<looked, device, watched, network, in_bounds>>

\* The connection is being activated or it failed: the list does not care.
connection_activate_cb ==
    /\ calls > 0
    /\ calls' = calls - 1
    /\ refresh_wireless_list({}, network)
    /\ UNCHANGED <<looked, device, watched, network, in_bounds>>

Next ==
    \/ refresh_again \/ find_best_device
    \/ AccessPointsChanged \/ device_state_changed
    \/ active_connections_changed \/ connection_state_changed
    \/ Move \/ row_activated \/ connection_activate_cb

Spec == Init /\ [][Next]_vars

\* The main loop dispatches a timer that is due.
FairSpec == Spec /\ WF_vars(refresh_again)

-----------------------------------------------------------------------------
(* Properties.                                                             *)

\* The variables have their types.
TypeOK ==
    /\ looked \in BOOLEAN /\ device \in BOOLEAN /\ watched \in BOOLEAN
    /\ refresh_timeout_id \in SourceIds \union {0} /\ armed \subseteq SourceIds
    /\ network \in Networks /\ rows \in Networks
    /\ indicator \in Indicators
    /\ in_bounds \in BOOLEAN /\ subpage \in BOOLEAN
    /\ activations \in Nat /\ calls \in 0..MaxCalls

\* However the refreshes of the timer, of notifications and of clicks follow
\* each other, the list of a device has exactly one timer and knows its id,
\* though refresh_again leaves the id of the timer that runs out in place
\* (cc-network-list.c:291) for the refresh to cancel.
OneTimer == armed = IF device THEN {refresh_timeout_id} ELSE {}

\* Every refresh with a connection asks for the subpage, and the refreshes go on
\* behind it; the update begins once.
BeginsOnce == activations = IF subpage THEN 1 ELSE 0

\* The list catches up: when the network stops changing while the page stays in
\* sight, it comes to show what is there, whatever was skipped before.
CatchesUp ==
    (<>[](device /\ in_bounds) /\ <>[][FALSE]_network)
        => <>[](rows = network)
=============================================================================

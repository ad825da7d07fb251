--------------------------- MODULE UpdateProgress ---------------------------
(***************************************************************************)
(* The update page (pt-update-progress.c): one chain of asynchronous calls *)
(* that synchronises the clock through timedate1, asks the provisioning    *)
(* server for a script, refreshes the package cache and then simulates and *)
(* runs upgrades through aptkit, until the page reports itself ready or    *)
(* the user skips it.                                                      *)
(*                                                                         *)
(* One action is one main-loop dispatch: a reply callback, the retry timer,*)
(* a D-Bus signal or a user click.  calls[k] counts the calls of kind k in *)
(* flight and opening[op] the transaction proxies under construction, so   *)
(* nothing in the representation forbids two chains from running at once.  *)
(***************************************************************************)
EXTENDS Naturals

CONSTANTS
    Proxies,     \* identities a transaction GDBusProxy can have
    NoProxy,     \* the NULL pointer
    Paths,       \* configuration files that dpkg may ask about
    NtpAnswers,  \* what reading the timedate1 properties can yield
    MaxRounds    \* bound: simulations that report something to upgrade

Modes == {"UpgradeSafe", "UpgradeFull"}          \* UpgradeSystem(safe_mode)
Ops   == Modes \cup {"UpdateCache", "FixBrokenDepends"}
Steps == {"timedate_proxy", "SetNTP", "GetAll", "provision", "GetError"} \cup Ops
Kinds == Steps \cup {"aptkit_proxy"}

TransactionType == {"TIME_SYNC", "PROVISION_CHECK", "UPDATE_CACHE",
                    "CHECK_UPDATES", "INSTALL_UPDATES", "REPAIR_DEPENDENCIES"}

ASSUME ProxyAssumption == NoProxy \notin Proxies
ASSUME NtpAssumption ==
    NtpAnswers \subseteq {"error", "inactive", "unsynced", "synced"}
ASSUME RoundsAssumption == MaxRounds \in Nat

VARIABLES
    \* PtUpdateProgressPrivate
    aptkit_proxy, timedate_proxy, transaction_proxy, transaction_handled,
    current_transaction, safe_mode, tried_safe_mode, time_sync_done,
    broken_dependency_repairs, resolved_config_conflicts, ntp_timer,
    ready, did_update_any, had_error, pulse, progress, label, reboot,
    \* calls in flight: replies, proxies being built, Run/Simulate replies
    calls, opening, runs,
    \* the page's life and the rest of the world
    begun, skipped, ntp_expired, rounds, tx, asked, waiting,
    \* history
    planned, clean, proxy_failed

flow    == <<current_transaction, safe_mode, tried_safe_mode,
             broken_dependency_repairs>>
page    == <<ready, did_update_any, had_error, pulse, progress, reboot>>
txn     == <<transaction_proxy, transaction_handled, resolved_config_conflicts,
             tx, asked, waiting>>
proxies == <<aptkit_proxy, timedate_proxy>>
life    == <<begun, skipped, ntp_expired>>
history == <<planned, clean, proxy_failed>>

vars == <<flow, page, txn, proxies, life, history, time_sync_done, ntp_timer,
          label, calls, opening, runs, rounds>>

NoTx == [op |-> "none", run |-> FALSE]

\* calls after the reply to k was taken, and after k was issued.
Less(c, k) == [c EXCEPT ![k] = @ - 1]
Plus(c, k) == [c EXCEPT ![k] = @ + 1]

Mode(safe) == IF safe THEN "UpgradeSafe" ELSE "UpgradeFull"

-----------------------------------------------------------------------------
(* The functions the callbacks share.  c is calls as the caller leaves it. *)

Finish_KeepsPulse(had, did, lbl) ==
    /\ ready' = TRUE /\ had_error' = had /\ did_update_any' = did
    /\ ntp_timer' = FALSE /\ progress' = TRUE /\ UNCHANGED pulse
    /\ label' = (IF had THEN lbl ELSE "good") /\ reboot' = (reboot \/ did)

\* pt_update_progress_finish, with had_error, did_update_any and the label as
\* its caller left them.
Finish(had, did, lbl) ==
    /\ ready' = TRUE
    /\ had_error' = had
    /\ did_update_any' = did
    /\ pulse' = FALSE
    /\ ntp_timer' = FALSE
    /\ progress' = TRUE
    /\ label' = IF had THEN lbl ELSE "good"
    /\ reboot' = (reboot \/ did)

Busy_Blocks == label' = "busy" /\ ready' = FALSE
    /\ UNCHANGED <<did_update_any, had_error, pulse, progress, reboot>>

\* The label names a stage in progress.
Busy == label' = "busy" /\ UNCHANGED page

start_provision_check(c) ==
    /\ ntp_timer' = FALSE
    /\ current_transaction' = "PROVISION_CHECK"
    /\ calls' = Plus(c, "provision")
    /\ Busy

start_update_cache(c) ==
    /\ current_transaction' = "UPDATE_CACHE"
    /\ \/ /\ aptkit_proxy
          /\ calls' = Plus(c, "UpdateCache")
          /\ Busy /\ UNCHANGED ntp_timer
       \/ /\ ~aptkit_proxy
          /\ calls' = c
          /\ Finish(TRUE, did_update_any, "failed")

get_updates_OldMode(safe) ==
    /\ safe_mode' = safe
    /\ current_transaction' = "CHECK_UPDATES"
    /\ calls' = Plus(calls, Mode(safe_mode))
    /\ Busy /\ UNCHANGED ntp_timer

\* aptkit_get_updates, after its caller chose the mode.
get_updates(safe) ==
    /\ safe_mode' = safe
    /\ IF aptkit_proxy
       THEN /\ current_transaction' = "CHECK_UPDATES"
            /\ calls' = Plus(calls, Mode(safe))
            /\ Busy /\ UNCHANGED ntp_timer
       ELSE /\ Finish(had_error, did_update_any, label)
            /\ UNCHANGED <<current_transaction, calls>>

try_normal_mode_StaysSafe ==
    /\ tried_safe_mode' = TRUE
    /\ get_updates(TRUE)
    /\ UNCHANGED broken_dependency_repairs

try_normal_mode ==
    /\ tried_safe_mode' = TRUE
    /\ get_updates(FALSE)
    /\ UNCHANGED broken_dependency_repairs

finish_check ==
    /\ Finish(had_error, did_update_any, label)
    /\ UNCHANGED <<flow, calls>>

schedule_ntp_sync_retry_Lost == UNCHANGED ntp_timer
schedule_ntp_sync_retry == ntp_timer' = TRUE

\* retry_ntp_sync once the timer id is cleared: read the timedate1 properties.
retry_ntp_sync(c) ==
    /\ ntp_timer' = FALSE
    /\ calls' = IF time_sync_done \/ ~timedate_proxy THEN c ELSE Plus(c, "GetAll")
    /\ UNCHANGED page

give_up_or_retry_NoDeadline(c, lbl) ==
    calls' = c /\ schedule_ntp_sync_retry /\ label' = lbl /\ UNCHANGED page

\* The deadline test both time callbacks make before they try again.
give_up_or_retry(c, lbl) ==
    /\ calls' = c
    /\ \/ /\ ntp_expired
          /\ Finish(TRUE, did_update_any, "failed")
       \/ /\ ~ntp_expired
          /\ schedule_ntp_sync_retry
          /\ label' = lbl
          /\ UNCHANGED page

-----------------------------------------------------------------------------
(* The page is created, opened and skipped.                                *)

Init ==
    /\ aptkit_proxy = FALSE /\ timedate_proxy = FALSE
    /\ transaction_proxy = NoProxy /\ transaction_handled = FALSE
    /\ current_transaction = "TIME_SYNC"
    /\ safe_mode = TRUE /\ tried_safe_mode = FALSE
    /\ time_sync_done = FALSE
    /\ broken_dependency_repairs = 0
    /\ resolved_config_conflicts = {}
    /\ ntp_timer = FALSE
    /\ ready = TRUE /\ did_update_any = FALSE /\ had_error = FALSE
    /\ pulse = FALSE /\ progress = FALSE /\ label = "busy" /\ reboot = FALSE
    /\ calls = [k \in Kinds |-> IF k = "aptkit_proxy" THEN 1 ELSE 0]
    /\ opening = [op \in Ops |-> 0]
    /\ runs = {}
    /\ begun = FALSE /\ skipped = FALSE /\ ntp_expired = FALSE
    /\ rounds = 0 /\ tx = NoTx /\ asked = {} /\ waiting = {}
    /\ planned = "none" /\ clean = {} /\ proxy_failed = FALSE

\* pt_update_progress_begin.  pt_page shows the update subpage once, so the
\* window calls it once.
Begin ==
    /\ ~begun /\ begun' = TRUE
    /\ pulse' = TRUE
    /\ ready' = FALSE /\ did_update_any' = FALSE /\ had_error' = FALSE
    /\ time_sync_done' = FALSE
    /\ broken_dependency_repairs' = 0
    /\ transaction_handled' = FALSE
    /\ tried_safe_mode' = FALSE /\ safe_mode' = TRUE
    /\ current_transaction' = "TIME_SYNC"
    /\ progress' = FALSE /\ ntp_timer' = FALSE
    /\ label' = "busy" /\ reboot' = FALSE
    /\ calls' = Plus(calls, "timedate_proxy")
    /\ UNCHANGED <<proxies, transaction_proxy, resolved_config_conflicts, tx,
                   asked, waiting, history, skipped, ntp_expired, opening, runs, rounds>>

\* pt_update_progress_skip; what is in flight stays in flight.  The banner that
\* offers it is up while the page is not ready, and can still be clicked, or
\* clicked again, while it slides away (Carousel): the page itself lets it in
\* at any time.
Skip ==
    /\ begun
    /\ pulse' = FALSE /\ ntp_timer' = FALSE
    /\ had_error' = FALSE /\ did_update_any' = FALSE
    /\ progress' = TRUE /\ reboot' = FALSE /\ ready' = TRUE
    /\ skipped' = TRUE
    /\ UNCHANGED <<flow, txn, proxies, begun, ntp_expired, history, rounds,
                   time_sync_done, label, calls, opening, runs>>

\* pt_update_progress_pulse_progress_cb ends once there is real progress.
Pulse ==
    /\ pulse /\ progress
    /\ pulse' = FALSE
    /\ UNCHANGED <<flow, ready, did_update_any, had_error, progress, reboot, txn,
                   proxies, life, history, time_sync_done, ntp_timer, label,
                   calls, opening, runs, rounds>>

\* Five minutes have passed since begin (pt_update_progress_ntp_timed_out).
Expire ==
    /\ begun /\ ~ntp_expired
    /\ ntp_expired' = TRUE
    /\ UNCHANGED <<flow, page, txn, proxies, begun, skipped, history, rounds,
                   time_sync_done, ntp_timer, label, calls, opening, runs>>

\* aptkit_proxy_setup_cb
AptkitProxySetup ==
    /\ calls["aptkit_proxy"] > 0
    /\ calls' = Less(calls, "aptkit_proxy")
    /\ aptkit_proxy' \in BOOLEAN
    /\ UNCHANGED <<flow, page, txn, timedate_proxy, life, history, rounds,
                   time_sync_done, ntp_timer, label, opening, runs>>

-----------------------------------------------------------------------------
(* Clock synchronisation and the provisioning check.                       *)

\* timedate_proxy_setup_cb: without timedate1 the clock is taken as it is.
TimedateProxySetup ==
    LET c == Less(calls, "timedate_proxy") IN
    /\ calls["timedate_proxy"] > 0
    /\ \/ /\ start_provision_check(c)
          /\ UNCHANGED timedate_proxy
       \/ /\ timedate_proxy' = TRUE
          /\ calls' = Plus(c, "SetNTP")
          /\ Busy /\ UNCHANGED <<current_transaction, ntp_timer>>
    /\ UNCHANGED <<safe_mode, tried_safe_mode, broken_dependency_repairs, txn,
                   aptkit_proxy, life, history, rounds, time_sync_done,
                   opening, runs>>

\* set_ntp_cb
SetNtpReply ==
    LET c == Less(calls, "SetNTP") IN
    /\ calls["SetNTP"] > 0
    /\ \/ give_up_or_retry(c, label)
       \/ label' = "busy" /\ retry_ntp_sync(c)
    /\ UNCHANGED <<flow, txn, proxies, life, history, rounds, time_sync_done,
                   opening, runs>>

\* retry_ntp_sync as the timeout source.
NtpTimer ==
    /\ ntp_timer
    /\ retry_ntp_sync(calls)
    /\ UNCHANGED <<flow, txn, proxies, life, history, rounds, time_sync_done,
                   label, opening, runs>>

\* timedate_properties_cb.  NTP reported off is switched on again at once;
\* only the other two negative answers look at the deadline.
TimedateProperties(answer) ==
    LET c == Less(calls, "GetAll") IN
    /\ calls["GetAll"] > 0
    /\ IF time_sync_done
       THEN calls' = c /\ UNCHANGED <<page, label, time_sync_done, ntp_timer,
                                     current_transaction>>
       ELSE \/ /\ answer = "inactive"
               /\ calls' = IF timedate_proxy THEN Plus(c, "SetNTP") ELSE c
               /\ UNCHANGED <<page, label, time_sync_done, ntp_timer,
                              current_transaction>>
            \/ /\ answer = "synced"
               /\ time_sync_done' = TRUE
               /\ start_provision_check(c)
            \/ /\ answer \in {"error", "unsynced"}
               /\ give_up_or_retry(c, "busy")
               /\ UNCHANGED <<time_sync_done, current_transaction>>
    /\ UNCHANGED <<safe_mode, tried_safe_mode, broken_dependency_repairs, txn,
                   proxies, life, history, rounds, opening, runs>>

\* provision_message_complete_cb: whatever the server answered, and whether or
\* not a signed script ran, the cache is refreshed next.
ProvisionComplete ==
    /\ calls["provision"] > 0
    /\ start_update_cache(Less(calls, "provision"))
    /\ UNCHANGED <<safe_mode, tried_safe_mode, broken_dependency_repairs, txn,
                   proxies, life, history, rounds, time_sync_done, opening, runs>>

-----------------------------------------------------------------------------
(* aptkit transactions.                                                    *)

\* aptkit_update_cache_cb and aptkit_upgrade_system_cb: the daemon created the
\* transaction op, whose proxy is built next, or refused.
OperationReply(op) ==
    /\ calls[op] > 0
    /\ calls' = Less(calls, op)
    /\ \/ /\ opening' = Plus(opening, op)
          /\ UNCHANGED <<page, label, ntp_timer>>
       \/ /\ Finish(TRUE, did_update_any, "failed")
          /\ UNCHANGED opening
    /\ UNCHANGED <<flow, txn, proxies, life, history, rounds, time_sync_done, runs>>

\* "Simulate" for checking, "Run" for actual operations
Runs_Always == TRUE
Runs == current_transaction # "CHECK_UPDATES"

forget_config_conflicts_Not == UNCHANGED resolved_config_conflicts
forget_config_conflicts == resolved_config_conflicts' = {}

\* aptkit_transaction_proxy_cb, with the proxy in hand: it replaces the old
\* one, and the transaction is simulated or run.
TransactionProxy(op) ==
    /\ opening[op] > 0
    /\ opening' = Less(opening, op)
    /\ \E p \in Proxies \ (runs \cup {transaction_proxy}) :
          /\ transaction_proxy' = p
          /\ runs' = runs \cup {p}
    /\ transaction_handled' = FALSE
    /\ forget_config_conflicts
    /\ tx' = [op |-> op, run |-> Runs]
    /\ asked' = {} /\ waiting' = {}
    /\ planned' = IF Runs THEN "none" ELSE planned
    /\ UNCHANGED <<flow, page, proxies, life, clean, proxy_failed, rounds,
                   time_sync_done, ntp_timer, label, calls>>

\* aptkit_transaction_proxy_cb when no proxy could be made.
TransactionProxyFailed(op) ==
    /\ opening[op] > 0
    /\ opening' = Less(opening, op)
    /\ Finish(had_error, did_update_any, label)
    /\ proxy_failed' = TRUE
    /\ UNCHANGED <<flow, txn, proxies, life, planned, clean, rounds,
                   time_sync_done, calls, runs>>

\* The proxies whose signals can still be delivered: GDBus keeps a replaced one
\* until the reply to its Run arrives.
Alive == runs \cup ({transaction_proxy} \ {NoProxy})

Current_Rehandled(p) == p = transaction_proxy

\* Callbacks act for the proxy in use, until its transaction is handled.
Current(p) == p = transaction_proxy /\ ~transaction_handled

\* aptkit_transaction_failed: the daemon is asked for the error, once.
transaction_failed(p) ==
    IF Current(p)
    THEN /\ transaction_handled' = TRUE
         /\ calls' = Plus(calls, "GetError")
    ELSE UNCHANGED <<transaction_handled, calls>>

\* aptkit_transaction_run_cb
RunReply(p) ==
    /\ p \in runs
    /\ runs' = runs \ {p}
    /\ \/ transaction_failed(p)
       \/ UNCHANGED <<transaction_handled, calls>>
    /\ UNCHANGED <<flow, page, transaction_proxy, resolved_config_conflicts, tx,
                   asked, waiting, proxies, life, history, rounds, time_sync_done,
                   ntp_timer, label, opening>>

can_repair ==
    /\ broken_dependency_repairs = 0
    /\ current_transaction # "REPAIR_DEPENDENCIES"

\* aptkit_error_property_cb: a broken cache is repaired once.
ErrorProperty ==
    LET c == Less(calls, "GetError") IN
    /\ calls["GetError"] > 0
    /\ \/ /\ can_repair
          /\ broken_dependency_repairs' = broken_dependency_repairs + 1
          /\ current_transaction' = "REPAIR_DEPENDENCIES"
          /\ calls' = Plus(c, "FixBrokenDepends")
          /\ Busy /\ UNCHANGED ntp_timer
       \/ /\ calls' = c
          /\ Finish(TRUE, did_update_any, "failed")
          /\ UNCHANGED <<broken_dependency_repairs, current_transaction>>
    /\ UNCHANGED <<safe_mode, tried_safe_mode, txn, proxies, life, history,
                   rounds, time_sync_done, opening, runs>>

-----------------------------------------------------------------------------
(* aptkit_transaction_signal_cb, one action per property that changes.  A  *)
(* signal of a replaced proxy changes nothing.                             *)

\* ExitState: exit-success
after_success ==
    \/ /\ current_transaction = "REPAIR_DEPENDENCIES"
       /\ start_update_cache(calls)
       /\ UNCHANGED <<safe_mode, tried_safe_mode, broken_dependency_repairs>>
    \/ /\ current_transaction = "UPDATE_CACHE"
       /\ get_updates(TRUE)
       /\ UNCHANGED <<tried_safe_mode, broken_dependency_repairs>>
    \/ /\ current_transaction = "CHECK_UPDATES"  \* with or without did_update_any
       /\ IF safe_mode /\ ~tried_safe_mode THEN try_normal_mode ELSE finish_check
    \/ /\ current_transaction = "INSTALL_UPDATES"
       /\ get_updates(safe_mode)
       /\ UNCHANGED <<tried_safe_mode, broken_dependency_repairs>>

ExitSuccess(p) ==
    /\ p \in Alive /\ Current(p) /\ waiting = {}
    /\ transaction_handled' = TRUE
    /\ after_success
    /\ clean' = IF tx.run THEN clean ELSE clean \cup {tx.op}
    /\ UNCHANGED <<transaction_proxy, resolved_config_conflicts, tx, asked, waiting,
                   proxies, life, planned, proxy_failed, rounds, time_sync_done,
                   opening, runs>>

\* ExitState: exit-failed, exit-cancelled, exit-previous-failed
ExitFailed(p) ==
    /\ p \in Alive /\ Current(p) /\ waiting = {}
    /\ transaction_failed(p)
    /\ UNCHANGED <<flow, page, transaction_proxy, resolved_config_conflicts, tx,
                   asked, waiting, proxies, life, history, rounds, time_sync_done,
                   ntp_timer, label, opening, runs>>

\* Packages or Dependencies: have_updates is aptkit_check_for_updates of the
\* two lists.
Plan(p, have_updates) ==
    /\ p \in Alive /\ Current(p)
    /\ current_transaction = "CHECK_UPDATES"
    /\ transaction_handled' = TRUE
    /\ \/ /\ have_updates /\ rounds < MaxRounds
          /\ rounds' = rounds + 1
          /\ current_transaction' = "INSTALL_UPDATES"
          /\ did_update_any' = TRUE
          /\ label' = "busy"
          /\ calls' = Plus(calls, Mode(safe_mode))
          /\ planned' = tx.op /\ clean' = {}
          /\ UNCHANGED <<safe_mode, tried_safe_mode, broken_dependency_repairs,
                         ready, had_error, pulse, progress, reboot, ntp_timer>>
       \/ /\ ~have_updates
          /\ IF safe_mode /\ ~tried_safe_mode THEN try_normal_mode ELSE finish_check
          /\ clean' = clean \cup {tx.op}
          /\ UNCHANGED <<rounds, planned>>
    /\ UNCHANGED <<transaction_proxy, resolved_config_conflicts, tx, asked, waiting,
                   proxies, life, proxy_failed, time_sync_done, opening, runs>>

\* ConfigFileConflict: the daemon waits for an answer about path, and gets
\* one the first time it asks in a transaction.
ConfigFileConflict(p, path) ==
    /\ p \in Alive /\ Current(p) /\ tx.run /\ path \notin asked
    /\ asked' = asked \cup {path}
    /\ resolved_config_conflicts' = resolved_config_conflicts \cup {path}
    /\ waiting' = IF path \in resolved_config_conflicts
                  THEN waiting \cup {path} ELSE waiting \ {path}
    /\ UNCHANGED <<flow, page, transaction_proxy, transaction_handled, tx,
                   proxies, life, history, rounds, time_sync_done, ntp_timer,
                   label, calls, opening, runs>>

\* Progress moves the bar during an installation.
Progress(p) ==
    /\ p \in Alive /\ p = transaction_proxy
    /\ current_transaction = "INSTALL_UPDATES"
    /\ progress' = TRUE
    /\ UNCHANGED <<flow, ready, did_update_any, had_error, pulse, reboot, txn,
                   proxies, life, history, rounds, time_sync_done, ntp_timer,
                   label, calls, opening, runs>>

\* Status names the stage in the label, whatever the label said before.
Status(p) ==
    /\ p \in Alive /\ p = transaction_proxy
    /\ label' = "busy"
    /\ UNCHANGED <<flow, page, txn, proxies, life, history, rounds,
                   time_sync_done, ntp_timer, calls, opening, runs>>

-----------------------------------------------------------------------------

Conclude ==
    \E p \in Proxies : \/ ExitSuccess(p) \/ ExitFailed(p)
                       \/ \E have \in BOOLEAN : Plan(p, have)

Next ==
    \/ Begin \/ Skip \/ Pulse \/ Expire
    \/ AptkitProxySetup \/ TimedateProxySetup \/ SetNtpReply \/ NtpTimer
    \/ \E answer \in NtpAnswers : TimedateProperties(answer)
    \/ ProvisionComplete \/ ErrorProperty
    \/ \E op \in Ops : \/ OperationReply(op)
                       \/ TransactionProxy(op) \/ TransactionProxyFailed(op)
    \/ \E p \in Proxies : RunReply(p) \/ Progress(p) \/ Status(p)
    \/ \E p \in Proxies, path \in Paths : ConfigFileConflict(p, path)
    \/ Conclude

Spec == Init /\ [][Next]_vars

\* GDBus answers every call, with a reply or a time-out; the main loop runs its
\* timers; aptkit brings a running transaction to an end; the clock advances.
Fairness ==
    /\ WF_vars(AptkitProxySetup) /\ WF_vars(TimedateProxySetup)
    /\ WF_vars(SetNtpReply) /\ WF_vars(NtpTimer) /\ WF_vars(Expire)
    /\ WF_vars(\E answer \in NtpAnswers : TimedateProperties(answer))
    /\ WF_vars(ProvisionComplete) /\ WF_vars(ErrorProperty)
    /\ \A op \in Ops : /\ WF_vars(OperationReply(op))
                       /\ WF_vars(TransactionProxy(op) \/ TransactionProxyFailed(op))
    /\ \A p \in Proxies : WF_vars(RunReply(p))
    /\ WF_vars(Conclude)

FairSpec == Spec /\ Fairness

-----------------------------------------------------------------------------
(* Properties.                                                             *)

\* The transaction in use is still to be concluded by the daemon.
Live == transaction_proxy # NoProxy /\ ~transaction_handled

\* Everything that can take the chain one step further.
Pending ==
    {<<"call", k>> : k \in {k \in Steps : calls[k] > 0}} \cup
    {<<"open", op>> : op \in {op \in Ops : opening[op] > 0}} \cup
    (IF ntp_timer THEN {<<"timer", "ntp">>} ELSE {}) \cup
    (IF Live THEN {<<"signal", "exit">>} ELSE {})

Labels       == {"busy", "good", "failed"}
ProxyOrNull  == Proxies \cup {NoProxy}
Plans        == Ops \cup {"none"}
Transactions == [op : Plans, run : BOOLEAN]

PageOK ==
    /\ {ready, did_update_any, had_error, pulse, progress, reboot, ntp_timer}
           \subseteq BOOLEAN
    /\ label \in Labels

FlowOK ==
    /\ {aptkit_proxy, timedate_proxy, transaction_handled, safe_mode,
        tried_safe_mode, time_sync_done, begun, skipped, ntp_expired,
        proxy_failed} \subseteq BOOLEAN
    /\ transaction_proxy \in ProxyOrNull /\ runs \subseteq Proxies
    /\ current_transaction \in TransactionType
    /\ broken_dependency_repairs \in Nat /\ rounds \in 0..MaxRounds
    /\ {resolved_config_conflicts, asked, waiting} \subseteq SUBSET Paths
    /\ tx \in Transactions /\ planned \in Plans /\ clean \subseteq Plans

CountsOK == calls \in [Kinds -> Nat] /\ opening \in [Ops -> Nat]

TypeOK == PageOK /\ FlowOK /\ CountsOK

\* At most one continuation is ever pending: no call, timer or transaction is
\* started while another one could still move the page, even after a skip.
SingleChain ==
    /\ \A k \in Steps : calls[k] <= 1
    /\ \A op \in Ops : opening[op] <= 1
    /\ \A x, y \in Pending : x = y

\* While the page blocks the user, something is pending that will move it: no
\* error path or early return drops the chain.
NeverStranded == begun /\ ~ready => Pending # {}

\* Once the page finished by itself nothing of it is left running, neither a
\* continuation nor the pulse timer.
FinishedIsQuiet == begun /\ ready /\ ~skipped => Pending = {} /\ ~pulse

\* What the page believes aptkit is doing (current_transaction, safe_mode) is
\* what it asked aptkit to do, whichever replies are still outstanding.
Expected ==
    CASE current_transaction = "UPDATE_CACHE" -> {"UpdateCache"}
      [] current_transaction = "REPAIR_DEPENDENCIES" -> {"FixBrokenDepends"}
      [] current_transaction \in {"CHECK_UPDATES", "INSTALL_UPDATES"} -> {Mode(safe_mode)}
      [] OTHER -> {}

BeliefMatchesDaemon ==
    /\ \A op \in Ops : calls[op] > 0 \/ opening[op] > 0 => op \in Expected
    /\ Live => /\ tx.op \in Expected
               /\ tx.run <=> current_transaction # "CHECK_UPDATES"

\* Packages are installed only in a mode whose simulation reported upgrades
\* since the previous run.
InstallsOnlyWhatWasPlanned ==
    [][transaction_proxy' # transaction_proxy /\ tx'.run /\ tx'.op \in Modes
         => planned = tx'.op]_vars

\* FixBrokenDepends is attempted at most once.
RepairsOnce == broken_dependency_repairs <= 1

\* Every configuration file question of the running transaction is answered,
\* also when an earlier transaction asked about the same file.
ConflictsAnswered == waiting = {}

\* "Good to go!" is shown only after a normal-mode simulation came out empty,
\* except after a dependency repair or when no transaction proxy could be made.
GoodMeansChecked ==
    label = "good" /\ broken_dependency_repairs = 0 /\ ~proxy_failed
        => "UpgradeFull" \in clean

\* pt-update-progress.c:1276 "No updates in either mode, we're done": a page
\* that ends well has simulated both modes without finding anything.
NoUpdatesInEitherMode ==
    label = "good" /\ ~proxy_failed => "UpgradeFull" \in clean

\* timedate1 reports NTP as switched off again and again, and each time SetNTP
\* is called at once.
NtpKeepsGoingOff == []<><<TimedateProperties("inactive")>>_vars

\* The page eventually becomes ready and its chain of calls comes to an end,
\* whatever fails or never comes, but for an NTP that keeps going off.
EventuallyDone == NtpKeepsGoingOff \/ (begun ~> [](ready /\ Pending = {}))

\* What the window relies on: the page blocks only from its beginning on, and
\* once it is ready, by itself or by a skip, nothing that is still in flight
\* makes it block again.
Window == INSTANCE UpdatePage

Implements == Window!Spec

\* pt-update-progress.c:748 "NTP enabled, waiting up to %d seconds for
\* synchronization": the page does not wait for the clock for ever.
WaitForClockIsBounded ==
    begun ~> (current_transaction # "TIME_SYNC" \/ ready)
=============================================================================

----------------------- MODULE UpdateProgress_proofs ------------------------
(***************************************************************************)
(* Proofs about UpdateProgress, for every set of proxies and paths, every  *)
(* answer timedate1 may give and any number of rounds.                     *)
(***************************************************************************)
EXTENDS UpdateProgress, Integers, TLAPS

\* The counters of calls stay in their domain when one call is answered and
\* another issued.
LEMMA CountLemma ==
    ASSUME NEW S, NEW c \in [S -> Nat], NEW k \in S
    PROVE  /\ Plus(c, k) \in [S -> Nat]
           /\ Plus(c, k)[k] = c[k] + 1
           /\ \A j \in S : j # k => Plus(c, k)[j] = c[j]
           /\ c[k] > 0 => Less(c, k) \in [S -> Nat]
           /\ Less(c, k)[k] = c[k] - 1
           /\ \A j \in S : j # k => Less(c, k)[j] = c[j]
BY DEF Plus, Less

\* Which calls, operations and modes there are.
LEMMA KindLemma ==
    /\ "aptkit_proxy" \in Kinds /\ "timedate_proxy" \in Kinds
    /\ "SetNTP" \in Kinds /\ "GetAll" \in Kinds /\ "provision" \in Kinds
    /\ "GetError" \in Kinds /\ "UpdateCache" \in Kinds
    /\ "FixBrokenDepends" \in Kinds
    /\ Ops \subseteq Kinds /\ Modes \subseteq Ops
    /\ Mode(TRUE) \in Modes /\ Mode(FALSE) \in Modes
BY DEF Kinds, Steps, Ops, Modes, Mode

\* Members of the enumerations the fields range over.
LEMMA DomainLemma ==
    /\ "busy" \in Labels /\ "good" \in Labels /\ "failed" \in Labels
    /\ "TIME_SYNC" \in TransactionType /\ "PROVISION_CHECK" \in TransactionType
    /\ "UPDATE_CACHE" \in TransactionType /\ "CHECK_UPDATES" \in TransactionType
    /\ "INSTALL_UPDATES" \in TransactionType
    /\ "REPAIR_DEPENDENCIES" \in TransactionType
    /\ NoProxy \in ProxyOrNull /\ Proxies \subseteq ProxyOrNull
    /\ "none" \in Plans /\ Ops \subseteq Plans /\ NoTx \in Transactions
    /\ \A op \in Ops : \A run \in BOOLEAN : [op |-> op, run |-> run] \in Transactions
    /\ \A t \in Transactions : t.op \in Plans
BY DEF Labels, TransactionType, ProxyOrNull, Plans, Transactions, NoTx

\* Every handler leaves the fields the user sees in their domains.
LEMMA PageStep == TypeOK /\ [Next]_vars => PageOK'
<1> SUFFICES ASSUME TypeOK, [Next]_vars PROVE PageOK'
  OBVIOUS
<1> USE DomainLemma DEF TypeOK, PageOK, flow, page, txn, proxies, life, history
<1>1. CASE Begin
  BY <1>1 DEF Begin
<1>2. CASE Skip
  BY <1>2 DEF Skip
<1>3. CASE Pulse
  BY <1>3 DEF Pulse
<1>4. CASE Expire
  BY <1>4 DEF Expire
<1>5. CASE AptkitProxySetup
  BY <1>5 DEF AptkitProxySetup
<1>6. CASE TimedateProxySetup
  BY <1>6 DEF TimedateProxySetup, start_provision_check, Busy
<1>7. CASE SetNtpReply
  BY <1>7 DEF SetNtpReply, give_up_or_retry, retry_ntp_sync, Finish, schedule_ntp_sync_retry
<1>8. CASE NtpTimer
  BY <1>8 DEF NtpTimer, retry_ntp_sync
<1>9. ASSUME NEW answer \in NtpAnswers, TimedateProperties(answer)
      PROVE  PageOK'
  BY <1>9 DEF TimedateProperties, give_up_or_retry, Finish, schedule_ntp_sync_retry,
     start_provision_check, Busy
<1>10. CASE ProvisionComplete
  BY <1>10 DEF ProvisionComplete, start_update_cache, Busy, Finish
<1>11. CASE ErrorProperty
  BY <1>11 DEF ErrorProperty, can_repair, Busy, Finish
<1>12. ASSUME NEW op \in Ops, OperationReply(op)
      PROVE  PageOK'
  BY <1>12 DEF OperationReply, Finish
<1>13. ASSUME NEW op \in Ops, TransactionProxy(op)
      PROVE  PageOK'
  BY <1>13 DEF TransactionProxy, Runs, forget_config_conflicts
<1>14. ASSUME NEW op \in Ops, TransactionProxyFailed(op)
      PROVE  PageOK'
  BY <1>14 DEF TransactionProxyFailed, Finish
<1>15. ASSUME NEW p \in Proxies, RunReply(p)
      PROVE  PageOK'
  BY <1>15 DEF RunReply, transaction_failed
<1>16. ASSUME NEW p \in Proxies, Progress(p)
      PROVE  PageOK'
  BY <1>16 DEF Progress
<1>17. ASSUME NEW p \in Proxies, Status(p)
      PROVE  PageOK'
  BY <1>17 DEF Status
<1>18. ASSUME NEW p \in Proxies, NEW path \in Paths, ConfigFileConflict(p, path)
      PROVE  PageOK'
  BY <1>18 DEF ConfigFileConflict
<1>19. ASSUME NEW p \in Proxies, ExitSuccess(p)
      PROVE  PageOK'
  BY <1>19 DEF ExitSuccess, after_success, start_update_cache, get_updates,
     try_normal_mode, finish_check, Finish, Busy
<1>20. ASSUME NEW p \in Proxies, ExitFailed(p)
      PROVE  PageOK'
  BY <1>20 DEF ExitFailed, transaction_failed
<1>21. ASSUME NEW p \in Proxies, NEW have \in BOOLEAN, Plan(p, have)
      PROVE  PageOK'
  BY <1>21, RoundsAssumption DEF Plan, get_updates, try_normal_mode, finish_check, Finish, Busy
<1>22. CASE UNCHANGED vars
  BY <1>22 DEF vars
<1>23. QED
  BY <1>1, <1>2, <1>3, <1>4, <1>5, <1>6, <1>7, <1>8, <1>9, <1>10, <1>11,
     <1>12, <1>13, <1>14, <1>15, <1>16, <1>17, <1>18, <1>19, <1>20, <1>21,
     <1>22
     DEF Next, Conclude

\* Every handler leaves the rest of the page's fields in their domains.
LEMMA FlowStep == TypeOK /\ [Next]_vars => FlowOK'
<1> SUFFICES ASSUME TypeOK, [Next]_vars PROVE FlowOK'
  OBVIOUS
<1> USE DomainLemma DEF TypeOK, FlowOK, flow, page, txn, proxies, life, history
<1>1. CASE Begin
  BY <1>1 DEF Begin
<1>2. CASE Skip
  BY <1>2 DEF Skip
<1>3. CASE Pulse
  BY <1>3 DEF Pulse
<1>4. CASE Expire
  BY <1>4 DEF Expire
<1>5. CASE AptkitProxySetup
  BY <1>5 DEF AptkitProxySetup
<1>6. CASE TimedateProxySetup
  BY <1>6 DEF TimedateProxySetup, start_provision_check
<1>7. CASE SetNtpReply
  BY <1>7 DEF SetNtpReply, give_up_or_retry, retry_ntp_sync, Finish
<1>8. CASE NtpTimer
  BY <1>8 DEF NtpTimer, retry_ntp_sync
<1>9. ASSUME NEW answer \in NtpAnswers, TimedateProperties(answer)
      PROVE  FlowOK'
  BY <1>9 DEF TimedateProperties, give_up_or_retry, schedule_ntp_sync_retry,
     start_provision_check
<1>10. CASE ProvisionComplete
  BY <1>10 DEF ProvisionComplete, start_update_cache
<1>11. CASE ErrorProperty
  BY <1>11 DEF ErrorProperty, can_repair, Busy, Finish
<1>12. ASSUME NEW op \in Ops, OperationReply(op)
      PROVE  FlowOK'
  BY <1>12 DEF OperationReply
<1>13. ASSUME NEW op \in Ops, TransactionProxy(op)
      PROVE  FlowOK'
  BY <1>13 DEF TransactionProxy, Runs, forget_config_conflicts
<1>14. ASSUME NEW op \in Ops, TransactionProxyFailed(op)
      PROVE  FlowOK'
  BY <1>14 DEF TransactionProxyFailed
<1>15. ASSUME NEW p \in Proxies, RunReply(p)
      PROVE  FlowOK'
  BY <1>15 DEF RunReply, transaction_failed
<1>16. ASSUME NEW p \in Proxies, Progress(p)
      PROVE  FlowOK'
  BY <1>16 DEF Progress
<1>17. ASSUME NEW p \in Proxies, Status(p)
      PROVE  FlowOK'
  BY <1>17 DEF Status
<1>18. ASSUME NEW p \in Proxies, NEW path \in Paths, ConfigFileConflict(p, path)
      PROVE  FlowOK'
  BY <1>18 DEF ConfigFileConflict
<1>19. ASSUME NEW p \in Proxies, ExitSuccess(p)
      PROVE  FlowOK'
  <2>1. /\ current_transaction' \in TransactionType
        /\ {safe_mode', tried_safe_mode'} \subseteq BOOLEAN
        /\ broken_dependency_repairs' = broken_dependency_repairs
    BY <1>19 DEF ExitSuccess, after_success, start_update_cache, get_updates,
       try_normal_mode, finish_check, Finish, Busy
  <2>2. clean' \subseteq Plans
    BY <1>19 DEF ExitSuccess
  <2>3. QED
    BY <1>19, <2>1, <2>2 DEF ExitSuccess
<1>20. ASSUME NEW p \in Proxies, ExitFailed(p)
      PROVE  FlowOK'
  BY <1>20 DEF ExitFailed, transaction_failed
<1>21. ASSUME NEW p \in Proxies, NEW have \in BOOLEAN, Plan(p, have)
       PROVE  FlowOK'
  <2>1. /\ current_transaction' \in TransactionType
        /\ {safe_mode', tried_safe_mode'} \subseteq BOOLEAN
        /\ broken_dependency_repairs' = broken_dependency_repairs
    BY <1>21 DEF Plan, get_updates, try_normal_mode, finish_check, Finish, Busy
  <2>2. clean' \subseteq Plans /\ planned' \in Plans
    BY <1>21 DEF Plan
  <2>3. rounds' \in 0..MaxRounds
    BY <1>21, RoundsAssumption DEF Plan
  <2>4. QED
    BY <1>21, <2>1, <2>2, <2>3 DEF Plan
<1>22. CASE UNCHANGED vars
  BY <1>22 DEF vars
<1>23. QED
  BY <1>1, <1>2, <1>3, <1>4, <1>5, <1>6, <1>7, <1>8, <1>9, <1>10, <1>11,
     <1>12, <1>13, <1>14, <1>15, <1>16, <1>17, <1>18, <1>19, <1>20, <1>21,
     <1>22
     DEF Next, Conclude

\* Every handler takes a reply that is there, so the counters stay natural.
LEMMA CountsStep == TypeOK /\ [Next]_vars => CountsOK'
<1> SUFFICES ASSUME TypeOK, [Next]_vars PROVE CountsOK'
  OBVIOUS
<1>0. /\ \A k \in Kinds : Plus(calls, k) \in [Kinds -> Nat]
      /\ \A k \in Kinds : calls[k] > 0 => Less(calls, k) \in [Kinds -> Nat]
      /\ \A k, j \in Kinds : calls[k] > 0 => Plus(Less(calls, k), j) \in [Kinds -> Nat]
      /\ \A op \in Ops : Plus(opening, op) \in [Ops -> Nat]
      /\ \A op \in Ops : opening[op] > 0 => Less(opening, op) \in [Ops -> Nat]
  BY CountLemma DEF TypeOK, CountsOK
<1> USE KindLemma DEF TypeOK, CountsOK, flow, page, txn, proxies, life, history
<1>1. CASE Begin
  BY <1>0, <1>1 DEF Begin
<1>2. CASE Skip
  BY <1>0, <1>2 DEF Skip
<1>3. CASE Pulse
  BY <1>0, <1>3 DEF Pulse
<1>4. CASE Expire
  BY <1>0, <1>4 DEF Expire
<1>5. CASE AptkitProxySetup
  BY <1>0, <1>5 DEF AptkitProxySetup
<1>6. CASE TimedateProxySetup
  BY <1>0, <1>6 DEF TimedateProxySetup, start_provision_check
<1>7. CASE SetNtpReply
  BY <1>0, <1>7 DEF SetNtpReply, give_up_or_retry, retry_ntp_sync, Finish
<1>8. CASE NtpTimer
  BY <1>0, <1>8 DEF NtpTimer, retry_ntp_sync
<1>9. ASSUME NEW answer \in NtpAnswers, TimedateProperties(answer)
      PROVE  CountsOK'
  BY <1>0, <1>9 DEF TimedateProperties, give_up_or_retry, Finish,
     start_provision_check, Busy
<1>10. CASE ProvisionComplete
  BY <1>0, <1>10 DEF ProvisionComplete, start_update_cache, Busy, Finish
<1>11. CASE ErrorProperty
  BY <1>0, <1>11 DEF ErrorProperty, can_repair, Busy, Finish
<1>12. ASSUME NEW op \in Ops, OperationReply(op)
      PROVE  CountsOK'
  BY <1>0, <1>12 DEF OperationReply
<1>13. ASSUME NEW op \in Ops, TransactionProxy(op)
      PROVE  CountsOK'
  BY <1>0, <1>13 DEF TransactionProxy, Runs, forget_config_conflicts
<1>14. ASSUME NEW op \in Ops, TransactionProxyFailed(op)
      PROVE  CountsOK'
  BY <1>0, <1>14 DEF TransactionProxyFailed
<1>15. ASSUME NEW p \in Proxies, RunReply(p)
      PROVE  CountsOK'
  BY <1>0, <1>15 DEF RunReply, transaction_failed
<1>16. ASSUME NEW p \in Proxies, Progress(p)
      PROVE  CountsOK'
  BY <1>0, <1>16 DEF Progress
<1>17. ASSUME NEW p \in Proxies, Status(p)
      PROVE  CountsOK'
  BY <1>0, <1>17 DEF Status
<1>18. ASSUME NEW p \in Proxies, NEW path \in Paths, ConfigFileConflict(p, path)
      PROVE  CountsOK'
  BY <1>0, <1>18 DEF ConfigFileConflict
<1>19. ASSUME NEW p \in Proxies, ExitSuccess(p)
      PROVE  CountsOK'
  <2>1. Mode(TRUE) \in Kinds /\ Mode(FALSE) \in Kinds /\ Mode(safe_mode) \in Kinds
    BY DEF Mode, Kinds, Steps, Ops, Modes
  <2>2. CASE start_update_cache(calls)
    BY <1>0, <1>19, <2>2 DEF ExitSuccess, start_update_cache
  <2>3. CASE get_updates(TRUE) \/ get_updates(FALSE) \/ get_updates(safe_mode)
    BY <1>0, <1>19, <2>1, <2>3 DEF ExitSuccess, get_updates
  <2>4. CASE finish_check
    BY <1>19, <2>4 DEF ExitSuccess, finish_check
  <2>5. QED
    BY <1>19, <2>2, <2>3, <2>4 DEF ExitSuccess, after_success, try_normal_mode
<1>20. ASSUME NEW p \in Proxies, ExitFailed(p)
      PROVE  CountsOK'
  BY <1>0, <1>20 DEF ExitFailed, transaction_failed
<1>21. ASSUME NEW p \in Proxies, NEW have \in BOOLEAN, Plan(p, have)
       PROVE  CountsOK'
  <2>1. Mode(FALSE) \in Kinds /\ Mode(safe_mode) \in Kinds
    BY DEF Mode, Kinds, Steps, Ops, Modes
  <2>2. CASE calls' = Plus(calls, Mode(safe_mode))
    BY <1>0, <1>21, <2>1, <2>2 DEF Plan
  <2>3. CASE get_updates(FALSE)
    BY <1>0, <1>21, <2>1, <2>3 DEF Plan, get_updates
  <2>4. CASE finish_check
    BY <1>21, <2>4 DEF Plan, finish_check
  <2>5. QED
    BY <1>21, <2>2, <2>3, <2>4 DEF Plan, try_normal_mode
<1>22. CASE UNCHANGED vars
  BY <1>22 DEF vars
<1>23. QED
  BY <1>1, <1>2, <1>3, <1>4, <1>5, <1>6, <1>7, <1>8, <1>9, <1>10, <1>11,
     <1>12, <1>13, <1>14, <1>15, <1>16, <1>17, <1>18, <1>19, <1>20, <1>21,
     <1>22
     DEF Next, Conclude

\* The page starts with its fields in their domains.
LEMMA TypeInit == Init => TypeOK
<1>1. Init => PageOK
  BY DomainLemma DEF Init, PageOK
<1>2. Init => FlowOK
  <2> SUFFICES ASSUME Init PROVE FlowOK
    OBVIOUS
  <2>1. rounds \in 0..MaxRounds /\ broken_dependency_repairs \in Nat
    BY RoundsAssumption DEF Init
  <2>2. {resolved_config_conflicts, asked, waiting} \subseteq SUBSET Paths
    BY DEF Init
  <2>3. QED
    BY <2>1, <2>2, DomainLemma DEF Init, FlowOK
<1>3. Init => CountsOK
  BY DEF Init, CountsOK
<1>4. QED
  BY <1>1, <1>2, <1>3 DEF TypeOK

\* TypeOK holds in every reachable state.
THEOREM TypeCorrect == Spec => []TypeOK
<1>1. TypeOK /\ [Next]_vars => TypeOK'
  BY PageStep, FlowStep, CountsStep DEF TypeOK
<1>2. QED
  BY <1>1, TypeInit, PTL DEF Spec

-----------------------------------------------------------------------------
(* One chain, never dropped.  At every moment exactly one of five things     *)
(* holds the page's future: nothing, one call, one proxy under construction, *)
(* the retry timer, or the transaction the daemon works on.                  *)

\* The calls of the chain: operations of the daemon and the other ones.
LEMMA StepLemma ==
    /\ Ops \subseteq Steps
    /\ "timedate_proxy" \in Steps /\ "SetNTP" \in Steps /\ "GetAll" \in Steps
    /\ "provision" \in Steps /\ "GetError" \in Steps
    /\ "UpdateCache" \in Ops /\ "FixBrokenDepends" \in Ops
    /\ "timedate_proxy" \notin Ops /\ "SetNTP" \notin Ops /\ "GetAll" \notin Ops
    /\ "provision" \notin Ops /\ "GetError" \notin Ops
BY DEF Steps, Ops, Modes

Zero(c)   == \A k \in Steps : c[k] = 0
One(c, k) == \A j \in Steps : c[j] = IF j = k THEN 1 ELSE 0
NoneOpen  == \A op \in Ops : opening[op] = 0

AtRest     == Zero(calls) /\ NoneOpen /\ ~ntp_timer /\ ~Live
AtCall(k)  == One(calls, k) /\ NoneOpen /\ ~ntp_timer /\ ~Live
AtOpen(op) == /\ Zero(calls) /\ ~ntp_timer /\ ~Live
              /\ \A j \in Ops : opening[j] = IF j = op THEN 1 ELSE 0
AtTimer    == Zero(calls) /\ NoneOpen /\ ntp_timer /\ ~Live
AtSignal   == Zero(calls) /\ NoneOpen /\ ~ntp_timer /\ Live

Position == \/ AtRest \/ AtTimer \/ AtSignal
            \/ \E k \in Steps : AtCall(k)
            \/ \E op \in Ops : AtOpen(op)

\* The clock is still being waited for while one of its steps is pending.
ClockPending ==
    /\ calls["SetNTP"] > 0 \/ calls["GetAll"] > 0 \/ ntp_timer
           => timedate_proxy /\ ~time_sync_done
    /\ calls["timedate_proxy"] > 0 => ~time_sync_done

ChainInv ==
    /\ Position
    /\ ~begun => AtRest /\ transaction_proxy = NoProxy
    /\ begun /\ ~ready => ~AtRest
    /\ begun /\ ready /\ ~skipped => AtRest /\ ~pulse
    /\ ClockPending /\ BeliefMatchesDaemon

\* Nothing is pending exactly at rest.
LEMMA RestLemma == ASSUME TypeOK PROVE Pending = {} <=> AtRest
<1>1. ASSUME Pending = {} PROVE AtRest
  <2>1. ASSUME NEW k \in Steps PROVE calls[k] = 0
    <3>1. CASE calls[k] > 0
      <4>1. <<"call", k>> \in Pending
        BY <3>1 DEF Pending
      <4>2. QED BY <1>1, <4>1
    <3>2. calls[k] \in Nat
      BY DEF TypeOK, CountsOK, Kinds
    <3>3. QED BY <3>1, <3>2
  <2>2. ASSUME NEW op \in Ops PROVE opening[op] = 0
    <3>1. CASE opening[op] > 0
      <4>1. <<"open", op>> \in Pending
        BY <3>1 DEF Pending
      <4>2. QED BY <1>1, <4>1
    <3>2. opening[op] \in Nat
      BY DEF TypeOK, CountsOK
    <3>3. QED BY <3>1, <3>2
  <2>3. ~ntp_timer /\ ~Live
    BY <1>1 DEF Pending
  <2>4. QED BY <2>1, <2>2, <2>3 DEF AtRest, Zero, NoneOpen
<1>2. ASSUME AtRest PROVE Pending = {}
  BY <1>2 DEF Pending, AtRest, Zero, NoneOpen
<1>3. QED BY <1>1, <1>2

\* Answering the only call leaves none; issuing one when there is none leaves
\* that one; the setup of the aptkit proxy is not part of the chain.
LEMMA OneLemma ==
    ASSUME NEW c \in [Kinds -> Nat], NEW k \in Steps
    PROVE  /\ One(c, k) => Zero(Less(c, k))
           /\ Zero(c) => One(Plus(c, k), k)
           /\ Zero(c) => Zero(Less(c, "aptkit_proxy"))
           /\ One(c, k) => One(Less(c, "aptkit_proxy"), k)
BY DEF One, Zero, Less, Plus, Kinds, Steps, Ops, Modes

\* A call that is in flight is the only thing pending.
LEMMA CallLemma ==
    ASSUME TypeOK, Position, NEW k \in Steps, calls[k] > 0
    PROVE  AtCall(k)
BY DEF Position, AtRest, AtTimer, AtSignal, AtCall, AtOpen, One, Zero

\* So is a proxy under construction ...
LEMMA OpenLemma ==
    ASSUME TypeOK, Position, NEW op \in Ops, opening[op] > 0
    PROVE  AtOpen(op)
BY DEF Position, AtRest, AtTimer, AtSignal, AtCall, AtOpen, NoneOpen

\* ... the retry timer ...
LEMMA TimerLemma == ASSUME Position, ntp_timer PROVE AtTimer
BY DEF Position, AtRest, AtTimer, AtSignal, AtCall, AtOpen

\* ... and the transaction in use.
LEMMA SignalLemma == ASSUME Position, Live PROVE AtSignal
BY DEF Position, AtRest, AtTimer, AtSignal, AtCall, AtOpen

\* Where a step may land: what each position asks of the rest of the state for
\* ChainInv to hold there.
LEMMA LandCall ==
    ASSUME NEW k \in Steps, One(calls', k), NoneOpen', ~ntp_timer', ~Live', begun',
           ready' => skipped',
           k \in {"SetNTP", "GetAll"} => timedate_proxy' /\ ~time_sync_done',
           k = "timedate_proxy" => ~time_sync_done',
           k \in Ops => k \in Expected'
    PROVE  ChainInv'
<1>1. AtCall(k)' /\ calls'[k] = 1 /\ ~AtRest'
  BY DEF AtCall, AtRest, One, Zero
<1>2. Position' /\ ClockPending'
  BY <1>1 DEF Position, ClockPending, One, Steps
<1>3. BeliefMatchesDaemon'
  <2>1. ASSUME NEW op \in Ops, calls'[op] > 0 \/ opening'[op] > 0
        PROVE  op \in Expected'
    BY <2>1, StepLemma DEF One, NoneOpen
  <2>2. QED BY <2>1 DEF BeliefMatchesDaemon
<1>4. QED BY <1>1, <1>2, <1>3 DEF ChainInv

LEMMA LandOpen ==
    ASSUME NEW op \in Ops, Zero(calls'), ~ntp_timer', ~Live', begun',
           \A j \in Ops : opening'[j] = IF j = op THEN 1 ELSE 0,
           ready' => skipped', op \in Expected'
    PROVE  ChainInv'
<1>1. AtOpen(op)' /\ ~AtRest'
  BY DEF AtOpen, AtRest, NoneOpen
<1>2. Position' /\ ClockPending'
  BY <1>1 DEF Position, ClockPending, Zero, Steps
<1>3. BeliefMatchesDaemon'
  <2>1. ASSUME NEW j \in Ops, calls'[j] > 0 \/ opening'[j] > 0
        PROVE  j \in Expected'
    BY <2>1, StepLemma DEF Zero
  <2>2. QED BY <2>1 DEF BeliefMatchesDaemon
<1>4. QED BY <1>1, <1>2, <1>3 DEF ChainInv

LEMMA LandTimer ==
    ASSUME Zero(calls'), NoneOpen', ntp_timer', ~Live', begun', ready' => skipped',
           timedate_proxy' /\ ~time_sync_done'
    PROVE  ChainInv'
<1>1. Position' /\ ~AtRest'
  BY DEF AtTimer, AtRest, Position
<1>2. \A op \in Ops : ~(calls'[op] > 0) /\ ~(opening'[op] > 0)
  BY StepLemma DEF Zero, NoneOpen
<1>3. ClockPending'
  BY DEF ClockPending, Zero, Steps
<1>4. BeliefMatchesDaemon'
  BY <1>2 DEF BeliefMatchesDaemon
<1>5. QED BY <1>1, <1>3, <1>4 DEF ChainInv

LEMMA LandSignal ==
    ASSUME Zero(calls'), NoneOpen', ~ntp_timer', Live', begun', ready' => skipped',
           tx'.op \in Expected',
           tx'.run <=> current_transaction' # "CHECK_UPDATES"
    PROVE  ChainInv'
<1>1. Position' /\ ~AtRest'
  BY DEF AtSignal, AtRest, Position
<1>2. \A op \in Ops : ~(calls'[op] > 0) /\ ~(opening'[op] > 0)
  BY StepLemma DEF Zero, NoneOpen
<1>3. ClockPending'
  BY DEF ClockPending, Zero, Steps
<1>4. BeliefMatchesDaemon'
  BY <1>2 DEF BeliefMatchesDaemon
<1>5. QED BY <1>1, <1>3, <1>4 DEF ChainInv

LEMMA LandRest ==
    ASSUME Zero(calls'), NoneOpen', ~ntp_timer', ~Live',
           begun' => ready' /\ (skipped' \/ ~pulse'),
           ~begun' => transaction_proxy' = NoProxy
    PROVE  ChainInv'
<1>1. Position' /\ AtRest'
  BY DEF AtRest, Position
<1>2. \A op \in Ops : ~(calls'[op] > 0) /\ ~(opening'[op] > 0)
  BY StepLemma DEF Zero, NoneOpen
<1>3. ClockPending'
  BY DEF ClockPending, Zero, Steps
<1>4. BeliefMatchesDaemon'
  BY <1>2 DEF BeliefMatchesDaemon
<1>5. QED BY <1>1, <1>3, <1>4 DEF ChainInv

\* Where a step may start: what ChainInv says when a given continuation is taken.
LEMMA TakeCall ==
    ASSUME TypeOK, ChainInv, NEW k \in Steps, calls[k] > 0
    PROVE  /\ One(calls, k) /\ NoneOpen /\ ~ntp_timer /\ ~Live
           /\ Zero(Less(calls, k))
           /\ \A j \in Steps : One(Plus(Less(calls, k), j), j)
           /\ begun /\ (ready => skipped)
           /\ k \in Ops => k \in Expected
           /\ k \in {"SetNTP", "GetAll"} => timedate_proxy /\ ~time_sync_done
           /\ k = "timedate_proxy" => ~time_sync_done
<1>1. AtCall(k)
  BY CallLemma DEF ChainInv
<1>2. calls \in [Kinds -> Nat] /\ Less(calls, k) \in [Kinds -> Nat]
  BY CountLemma DEF TypeOK, CountsOK, Kinds
<1>3. Zero(Less(calls, k)) /\ \A j \in Steps : One(Plus(Less(calls, k), j), j)
  BY <1>1, <1>2, OneLemma DEF AtCall
<1>4. ~AtRest
  BY <1>1 DEF AtRest, AtCall, Zero, One
<1>5. QED
  BY <1>1, <1>3, <1>4 DEF AtCall, ChainInv, BeliefMatchesDaemon, ClockPending

LEMMA TakeOpen ==
    ASSUME TypeOK, ChainInv, NEW op \in Ops, opening[op] > 0
    PROVE  /\ Zero(calls) /\ ~ntp_timer /\ ~Live
           /\ \A j \in Ops : Less(opening, op)[j] = 0
           /\ begun /\ (ready => skipped) /\ op \in Expected
<1>1. AtOpen(op)
  BY OpenLemma DEF ChainInv
<1>2. ~AtRest
  BY <1>1 DEF AtRest, AtOpen, NoneOpen
<1>3. \A j \in Ops : Less(opening, op)[j] = 0
  BY <1>1, CountLemma DEF AtOpen, TypeOK, CountsOK
<1>4. QED
  BY <1>1, <1>2, <1>3 DEF AtOpen, ChainInv, BeliefMatchesDaemon

LEMMA TakeTimer ==
    ASSUME TypeOK, ChainInv, ntp_timer
    PROVE  /\ Zero(calls) /\ NoneOpen /\ ~Live /\ begun /\ (ready => skipped)
           /\ timedate_proxy /\ ~time_sync_done
           /\ \A j \in Steps : One(Plus(calls, j), j)
<1>1. AtTimer
  BY TimerLemma DEF ChainInv
<1>2. calls \in [Kinds -> Nat]
  BY DEF TypeOK, CountsOK
<1>3. \A j \in Steps : One(Plus(calls, j), j)
  BY <1>1, <1>2, OneLemma DEF AtTimer
<1>4. QED
  BY <1>1, <1>3 DEF AtTimer, AtRest, ChainInv, ClockPending

LEMMA TakeSignal ==
    ASSUME TypeOK, ChainInv, Live
    PROVE  /\ Zero(calls) /\ NoneOpen /\ ~ntp_timer /\ begun /\ (ready => skipped)
           /\ \A j \in Steps : One(Plus(calls, j), j)
           /\ tx.op \in Expected /\ (tx.run <=> current_transaction # "CHECK_UPDATES")
<1>1. AtSignal
  BY SignalLemma DEF ChainInv
<1>2. calls \in [Kinds -> Nat]
  BY DEF TypeOK, CountsOK
<1>3. \A j \in Steps : One(Plus(calls, j), j)
  BY <1>1, <1>2, OneLemma DEF AtSignal
<1>4. QED
  BY <1>1, <1>3 DEF AtSignal, AtRest, ChainInv, BeliefMatchesDaemon

\* Steps that move no continuation.
LEMMA Stay ==
    ASSUME ChainInv, \A k \in Steps : calls'[k] = calls[k], opening' = opening,
           ntp_timer' = ntp_timer, Live' <=> Live, begun' = begun, ready' = ready,
           skipped' = skipped, pulse' => pulse,
           transaction_proxy' = transaction_proxy, timedate_proxy' = timedate_proxy,
           time_sync_done' = time_sync_done, tx' = tx, safe_mode' = safe_mode,
           current_transaction' = current_transaction
    PROVE  ChainInv'
<1>1. /\ Zero(calls') <=> Zero(calls)
      /\ NoneOpen' <=> NoneOpen
      /\ \A k \in Steps : One(calls', k) <=> One(calls, k)
  BY DEF Zero, One, NoneOpen
<1>2. Position' /\ (AtRest' <=> AtRest)
  BY <1>1 DEF ChainInv, Position, AtRest, AtTimer, AtSignal, AtCall, AtOpen
<1>3. Expected' = Expected
  BY DEF Expected, Mode
<1>4. BeliefMatchesDaemon'
  BY <1>3, StepLemma DEF ChainInv, BeliefMatchesDaemon
<1>5. ClockPending'
  BY StepLemma DEF ChainInv, ClockPending
<1>6. QED
  BY <1>2, <1>4, <1>5 DEF ChainInv

\* What the shared functions leave behind when the continuation was taken:
\* Taken(c) holds of the state they run in, with c the calls still in flight.
Taken(c) ==
    /\ Zero(c) /\ \A j \in Steps : One(Plus(c, j), j)
    /\ NoneOpen' /\ ~Live' /\ ~ntp_timer
    /\ begun' /\ (ready => skipped) /\ skipped' = skipped

LEMMA FinishLemma ==
    ASSUME NEW had, NEW did, NEW lbl, Finish(had, did, lbl), Zero(calls'),
           NoneOpen', ~Live', begun'
    PROVE  ChainInv'
BY LandRest DEF Finish

LEMMA GiveUpLemma ==
    ASSUME NEW c, NEW lbl, Taken(c), give_up_or_retry(c, lbl),
           timedate_proxy', ~time_sync_done'
    PROVE  ChainInv'
<1>1. CASE ntp_expired
  BY <1>1, FinishLemma DEF Taken, give_up_or_retry
<1>2. CASE ~ntp_expired
  <2>1. calls' = c /\ ntp_timer' /\ ready' = ready
    BY <1>2 DEF give_up_or_retry, schedule_ntp_sync_retry, page
  <2>2. Zero(calls') /\ (ready' => skipped')
    BY <2>1 DEF Taken
  <2>3. QED
    BY <2>1, <2>2, LandTimer DEF Taken
<1>3. QED BY <1>1, <1>2

LEMMA CacheLemma ==
    ASSUME NEW c, Taken(c), start_update_cache(c)
    PROVE  ChainInv'
<1>1. CASE aptkit_proxy
  <2>1. One(calls', "UpdateCache") /\ ~ntp_timer' /\ (ready' => skipped')
    BY <1>1, StepLemma DEF Taken, start_update_cache, Busy, page
  <2>2. "UpdateCache" \in Expected'
    BY DEF start_update_cache, Expected
  <2>3. QED
    BY <2>1, <2>2, StepLemma, LandCall DEF Taken
<1>2. CASE ~aptkit_proxy
  BY <1>2, FinishLemma DEF Taken, start_update_cache
<1>3. QED BY <1>1, <1>2

LEMMA UpgradeLemma ==
    ASSUME NEW safe \in BOOLEAN, Taken(calls), calls' = Plus(calls, Mode(safe)),
           safe_mode' = safe, ~ntp_timer', ready' => skipped',
           current_transaction' \in {"CHECK_UPDATES", "INSTALL_UPDATES"}
    PROVE  ChainInv'
<1>1. Mode(safe) \in Steps /\ Mode(safe) \notin {"SetNTP", "GetAll", "timedate_proxy"}
  BY DEF Mode, Steps, Ops, Modes
<1>2. Mode(safe) \in Expected'
  BY DEF Expected, Mode
<1>3. QED
  BY <1>1, <1>2, LandCall DEF Taken

LEMMA GetUpdatesLemma ==
    ASSUME NEW safe \in BOOLEAN, Taken(calls), get_updates(safe)
    PROVE  ChainInv'
<1>1. CASE aptkit_proxy
  <2>1. /\ calls' = Plus(calls, Mode(safe)) /\ safe_mode' = safe /\ ~ntp_timer'
        /\ (ready' => skipped') /\ current_transaction' = "CHECK_UPDATES"
    BY <1>1 DEF get_updates, Busy, page, Taken
  <2>2. QED BY <2>1, UpgradeLemma
<1>2. CASE ~aptkit_proxy
  BY <1>2, FinishLemma DEF get_updates, Taken
<1>3. QED BY <1>1, <1>2

LEMMA FinishCheckLemma ==
    ASSUME Taken(calls), finish_check PROVE ChainInv'
BY FinishLemma DEF finish_check, Taken

LEMMA FailedLemma ==
    ASSUME TypeOK, ChainInv, NEW p \in Proxies, transaction_failed(p),
           opening' = opening, transaction_proxy' = transaction_proxy,
           UNCHANGED <<flow, page, life, proxies, tx, time_sync_done, ntp_timer>>
    PROVE  ChainInv'
<1> USE DEF flow, page, life, proxies
<1>1. CASE Current(p)
  <2>1. Live
    BY <1>1, ProxyAssumption DEF Current, Live
  <2>2. One(calls', "GetError") /\ ~Live'
    BY <1>1, <2>1, TakeSignal, StepLemma DEF transaction_failed, Live
  <2>3. NoneOpen' /\ ~ntp_timer' /\ begun' /\ (ready' => skipped')
    BY <2>1, TakeSignal DEF NoneOpen
  <2>4. QED
    BY <2>2, <2>3, StepLemma, LandCall
<1>2. CASE ~Current(p)
  BY <1>2, Stay DEF transaction_failed, Live
<1>3. QED BY <1>1, <1>2

\* Every handler that takes the chain's continuation puts exactly one new one in
\* its place, or finishes the page.
LEMMA ChainStep == TypeOK /\ TypeOK' /\ ChainInv /\ [Next]_vars => ChainInv'
<1> SUFFICES ASSUME TypeOK, TypeOK', ChainInv, [Next]_vars PROVE ChainInv'
  OBVIOUS
<1> USE DEF flow, page, txn, proxies, life, history
<1>1. CASE Begin
  <2>1. AtRest /\ transaction_proxy = NoProxy /\ calls \in [Kinds -> Nat]
    BY <1>1 DEF Begin, ChainInv, TypeOK, CountsOK
  <2>2. One(calls', "timedate_proxy")
    BY <1>1, <2>1, StepLemma, OneLemma DEF Begin, AtRest
  <2>3. ~ready' /\ begun' /\ ~ntp_timer' /\ ~Live' /\ NoneOpen' /\ ~time_sync_done'
    BY <1>1, <2>1 DEF Begin, Live, AtRest, NoneOpen
  <2>4. QED
    BY <2>2, <2>3, StepLemma, LandCall
<1>2. CASE Skip
  <2>1. begun /\ ready' /\ skipped' /\ ~pulse' /\ ~ntp_timer' /\ (Live' <=> Live)
    BY <1>2 DEF Skip, Live
  <2>2. CASE AtTimer
    BY <1>2, <2>1, <2>2, LandRest DEF Skip, AtTimer, NoneOpen
  <2>3. CASE ~AtTimer
    <3>1. ~ntp_timer
      BY <2>3, TimerLemma DEF ChainInv
    <3>2. Position' /\ ClockPending'
      BY <1>2, <2>1, <2>3, <3>1 DEF Skip, ChainInv, Position, ClockPending, AtRest, AtTimer,
         AtSignal, AtCall, AtOpen, NoneOpen
    <3>3. BeliefMatchesDaemon'
      BY <1>2, <2>1 DEF Skip, ChainInv, BeliefMatchesDaemon, Expected
    <3>4. QED
      BY <1>2, <2>1, <3>2, <3>3 DEF Skip, ChainInv
  <2>4. QED BY <2>2, <2>3
<1>3. CASE Pulse
  BY <1>3, Stay DEF Pulse, Live
<1>4. CASE Expire
  BY <1>4, Stay DEF Expire, Live
<1>5. CASE AptkitProxySetup
  <2>1. \A k \in Steps : calls'[k] = calls[k]
    BY <1>5 DEF AptkitProxySetup, Less, Steps, Ops, Modes, TypeOK, CountsOK, Kinds
  <2>2. QED
    BY <1>5, <2>1, Stay DEF AptkitProxySetup, Live
<1>6. CASE TimedateProxySetup
  <2>1. "timedate_proxy" \in Steps /\ calls["timedate_proxy"] > 0
    BY <1>6, StepLemma DEF TimedateProxySetup
  <2>2. NoneOpen' /\ ~Live' /\ begun' /\ (ready' => skipped') /\ ~ntp_timer'
    BY <1>6, <2>1, TakeCall DEF TimedateProxySetup, start_provision_check, Busy, Live,
       NoneOpen
  <2>3. CASE calls' = Plus(Less(calls, "timedate_proxy"), "provision")
    BY <2>1, <2>2, <2>3, TakeCall, LandCall, StepLemma
  <2>4. CASE /\ calls' = Plus(Less(calls, "timedate_proxy"), "SetNTP")
             /\ timedate_proxy'
    <3>1. ~time_sync_done'
      BY <1>6, <2>1, TakeCall DEF TimedateProxySetup
    <3>2. QED
      BY <2>1, <2>2, <2>4, <3>1, TakeCall, LandCall, StepLemma
  <2>5. QED
    BY <1>6, <2>3, <2>4 DEF TimedateProxySetup, start_provision_check
<1>7. CASE SetNtpReply
  <2> DEFINE c == Less(calls, "SetNTP")
  <2>1. "SetNTP" \in Steps /\ calls["SetNTP"] > 0
    BY <1>7, StepLemma DEF SetNtpReply
  <2>2. /\ Taken(c) /\ timedate_proxy' /\ ~time_sync_done'
        /\ timedate_proxy /\ ~time_sync_done
    BY <1>7, <2>1, TakeCall DEF SetNtpReply, Live, NoneOpen, Taken
  <2> HIDE DEF c
  <2>3. CASE give_up_or_retry(c, label)
    BY <2>2, <2>3, GiveUpLemma
  <2>4. CASE retry_ntp_sync(c)
    <3>1. One(calls', "GetAll") /\ ~ntp_timer' /\ (ready' => skipped')
      BY <2>2, <2>4, StepLemma DEF retry_ntp_sync, Taken
    <3>2. QED
      BY <2>2, <3>1, StepLemma, LandCall DEF Taken
  <2>5. QED
    BY <1>7, <2>3, <2>4 DEF SetNtpReply, c
<1>8. CASE NtpTimer
  <2>1. /\ One(calls', "GetAll") /\ ~ntp_timer' /\ (ready' => skipped')
        /\ NoneOpen' /\ ~Live' /\ begun' /\ timedate_proxy' /\ ~time_sync_done'
    BY <1>8, TakeTimer, StepLemma DEF NtpTimer, retry_ntp_sync, NoneOpen, Live
  <2>2. QED
    BY <2>1, StepLemma, LandCall
<1>9. ASSUME NEW answer \in NtpAnswers, TimedateProperties(answer)
      PROVE  ChainInv'
  <2> DEFINE c == Less(calls, "GetAll")
  <2>1. "GetAll" \in Steps /\ calls["GetAll"] > 0
    BY <1>9, StepLemma DEF TimedateProperties
  <2>2. Taken(c) /\ timedate_proxy' /\ timedate_proxy /\ ~time_sync_done
    BY <1>9, <2>1, TakeCall DEF TimedateProperties, Live, NoneOpen, Taken
  <2> HIDE DEF c
  <2>3. CASE answer = "inactive"
    <3>1. /\ One(calls', "SetNTP") /\ ~ntp_timer' /\ (ready' => skipped')
          /\ ~time_sync_done'
      BY <1>9, <2>2, <2>3, StepLemma DEF TimedateProperties, Taken, c
    <3>2. QED
      BY <2>2, <3>1, StepLemma, LandCall DEF Taken
  <2>4. CASE answer = "synced"
    <3>1. One(calls', "provision") /\ ~ntp_timer' /\ (ready' => skipped')
      BY <1>9, <2>2, <2>4, StepLemma DEF TimedateProperties, start_provision_check,
         Busy, Taken, c
    <3>2. QED
      BY <2>2, <3>1, StepLemma, LandCall DEF Taken
  <2>5. CASE answer \in {"error", "unsynced"}
    BY <1>9, <2>2, <2>5, GiveUpLemma DEF TimedateProperties, c
  <2>6. QED
    BY <2>3, <2>4, <2>5, NtpAssumption
<1>10. CASE ProvisionComplete
  <2>1. "provision" \in Steps /\ calls["provision"] > 0
    BY <1>10, StepLemma DEF ProvisionComplete
  <2>2. Taken(Less(calls, "provision"))
    BY <1>10, <2>1, TakeCall DEF ProvisionComplete, Live, NoneOpen, Taken
  <2>3. QED
    BY <1>10, <2>2, CacheLemma DEF ProvisionComplete
<1>11. CASE ErrorProperty
  <2> DEFINE c == Less(calls, "GetError")
  <2>1. "GetError" \in Steps /\ calls["GetError"] > 0
    BY <1>11, StepLemma DEF ErrorProperty
  <2>2. Taken(c)
    BY <1>11, <2>1, TakeCall DEF ErrorProperty, Live, NoneOpen, Taken
  <2> HIDE DEF c
  <2>3. CASE /\ calls' = Plus(c, "FixBrokenDepends") /\ Busy /\ UNCHANGED ntp_timer
             /\ current_transaction' = "REPAIR_DEPENDENCIES"
    <3>1. One(calls', "FixBrokenDepends") /\ ~ntp_timer' /\ (ready' => skipped')
      BY <2>2, <2>3, StepLemma DEF Taken, Busy
    <3>2. "FixBrokenDepends" \in Expected'
      BY <2>3 DEF Expected
    <3>3. QED
      BY <2>2, <3>1, <3>2, StepLemma, LandCall DEF Taken
  <2>4. CASE calls' = c /\ Finish(TRUE, did_update_any, "failed")
    BY <2>2, <2>4, FinishLemma DEF Taken
  <2>5. QED
    BY <1>11, <2>3, <2>4 DEF ErrorProperty, c
<1>12. ASSUME NEW op \in Ops, OperationReply(op)
       PROVE  ChainInv'
  <2>1. op \in Steps /\ calls[op] > 0 /\ calls' = Less(calls, op)
    BY <1>12, StepLemma DEF OperationReply
  <2>2. /\ Zero(calls') /\ NoneOpen /\ ~ntp_timer /\ ~Live' /\ begun'
        /\ (ready => skipped) /\ skipped' = skipped /\ op \in Expected
    BY <1>12, <2>1, TakeCall DEF OperationReply, Live
  <2>3. CASE opening' = Plus(opening, op) /\ UNCHANGED <<page, label, ntp_timer>>
    <3>1. \A j \in Ops : opening'[j] = IF j = op THEN 1 ELSE 0
      BY <2>2, <2>3, CountLemma DEF NoneOpen, TypeOK, CountsOK
    <3>2. op \in Expected'
      BY <1>12, <2>2 DEF OperationReply, Expected
    <3>3. QED
      BY <2>2, <2>3, <3>1, <3>2, LandOpen
  <2>4. CASE Finish(TRUE, did_update_any, "failed") /\ UNCHANGED opening
    BY <2>2, <2>4, FinishLemma DEF NoneOpen
  <2>5. QED
    BY <1>12, <2>3, <2>4 DEF OperationReply
<1>13. ASSUME NEW op \in Ops, TransactionProxy(op)
       PROVE  ChainInv'
  <2>1. /\ Zero(calls') /\ NoneOpen' /\ ~ntp_timer' /\ begun' /\ (ready' => skipped')
        /\ op \in Expected
    BY <1>13, TakeOpen DEF TransactionProxy, NoneOpen
  <2>2. Live'
    BY <1>13, ProxyAssumption DEF TransactionProxy, Live
  <2>3. tx'.op = op /\ (tx'.run <=> current_transaction' # "CHECK_UPDATES")
    BY <1>13 DEF TransactionProxy, Runs
  <2>4. op \in Expected'
    BY <1>13, <2>1 DEF TransactionProxy, Expected
  <2>5. QED
    BY <2>1, <2>2, <2>3, <2>4, LandSignal
<1>14. ASSUME NEW op \in Ops, TransactionProxyFailed(op)
       PROVE  ChainInv'
  <2>1. Zero(calls') /\ NoneOpen' /\ ~Live' /\ begun'
    BY <1>14, TakeOpen DEF TransactionProxyFailed, NoneOpen, Live
  <2>2. QED
    BY <1>14, <2>1, FinishLemma DEF TransactionProxyFailed
<1>15. ASSUME NEW p \in Proxies, RunReply(p)
       PROVE  ChainInv'
  <2>1. CASE transaction_failed(p)
    BY <1>15, <2>1, FailedLemma DEF RunReply
  <2>2. CASE UNCHANGED <<transaction_handled, calls>>
    BY <1>15, <2>2, Stay DEF RunReply, Live
  <2>3. QED
    BY <1>15, <2>1, <2>2 DEF RunReply
<1>16. ASSUME NEW p \in Proxies, Progress(p)
       PROVE  ChainInv'
  BY <1>16, Stay DEF Progress, Live
<1>17. ASSUME NEW p \in Proxies, Status(p)
       PROVE  ChainInv'
  BY <1>17, Stay DEF Status, Live
<1>18. ASSUME NEW p \in Proxies, NEW path \in Paths, ConfigFileConflict(p, path)
       PROVE  ChainInv'
  BY <1>18, Stay DEF ConfigFileConflict, Live
<1>19. ASSUME NEW p \in Proxies, ExitSuccess(p)
       PROVE  ChainInv'
  <2>1. Live
    BY <1>19, ProxyAssumption DEF ExitSuccess, Current, Live
  <2>2. Taken(calls)
    BY <1>19, <2>1, TakeSignal DEF ExitSuccess, Live, NoneOpen, Taken
  <2>3. CASE start_update_cache(calls)
    BY <2>2, <2>3, CacheLemma
  <2>4. CASE get_updates(TRUE) \/ get_updates(FALSE)
    BY <2>2, <2>4, GetUpdatesLemma
  <2>5. CASE get_updates(safe_mode)
    <3>1. safe_mode \in BOOLEAN
      BY DEF TypeOK, FlowOK
    <3>2. QED BY <2>2, <2>5, <3>1, GetUpdatesLemma
  <2>6. CASE finish_check
    BY <2>2, <2>6, FinishCheckLemma
  <2>7. QED
    BY <1>19, <2>3, <2>4, <2>5, <2>6 DEF ExitSuccess, after_success, try_normal_mode
<1>20. ASSUME NEW p \in Proxies, ExitFailed(p)
       PROVE  ChainInv'
  BY <1>20, FailedLemma DEF ExitFailed
<1>21. ASSUME NEW p \in Proxies, NEW have \in BOOLEAN, Plan(p, have)
       PROVE  ChainInv'
  <2>1. Live
    BY <1>21, ProxyAssumption DEF Plan, Current, Live
  <2>2. Taken(calls)
    BY <1>21, <2>1, TakeSignal DEF Plan, Live, NoneOpen, Taken
  <2>3. CASE have
    <3>1. /\ calls' = Plus(calls, Mode(safe_mode)) /\ safe_mode' = safe_mode
          /\ ~ntp_timer' /\ (ready' => skipped')
          /\ current_transaction' = "INSTALL_UPDATES"
      BY <1>21, <2>2, <2>3 DEF Plan, Taken
    <3>2. safe_mode \in BOOLEAN
      BY DEF TypeOK, FlowOK
    <3>3. QED
      BY <2>2, <3>1, <3>2, UpgradeLemma
  <2>4. CASE get_updates(FALSE)
    BY <2>2, <2>4, GetUpdatesLemma
  <2>5. CASE finish_check
    BY <2>2, <2>5, FinishCheckLemma
  <2>6. QED
    BY <1>21, <2>3, <2>4, <2>5 DEF Plan, try_normal_mode
<1>22. CASE UNCHANGED vars
  BY <1>22, Stay DEF vars, Live
<1>23. QED
  BY <1>1, <1>2, <1>3, <1>4, <1>5, <1>6, <1>7, <1>8, <1>9, <1>10, <1>11, <1>12,
     <1>13, <1>14, <1>15, <1>16, <1>17, <1>18, <1>19, <1>20, <1>21, <1>22
     DEF Next, Conclude

\* Init is at rest.
LEMMA ChainInit == Init => ChainInv
<1> SUFFICES ASSUME Init PROVE ChainInv
  OBVIOUS
<1>1. Zero(calls) /\ NoneOpen /\ ~Live /\ ~ntp_timer
  BY DEF Init, Zero, NoneOpen, Live, Steps, Ops, Modes, Kinds
<1>2. BeliefMatchesDaemon /\ ClockPending
  BY <1>1, StepLemma DEF BeliefMatchesDaemon, ClockPending, Zero, NoneOpen, Init
<1>3. QED
  BY <1>1, <1>2 DEF Init, ChainInv, Position, AtRest

\* The invariant holds in every reachable state.
THEOREM ChainInvariant == Spec => [](TypeOK /\ ChainInv)
<1>1. ChainInv /\ TypeOK /\ TypeOK' /\ [Next]_vars => ChainInv'
  BY ChainStep
<1>2. QED
  BY <1>1, ChainInit, TypeCorrect, PTL DEF Spec

\* While the page blocks the user, some reply, timer or signal is outstanding.
THEOREM NeverStrandedHolds == Spec => []NeverStranded
<1>1. TypeOK /\ ChainInv => NeverStranded
  BY RestLemma DEF ChainInv, NeverStranded
<1>2. QED BY <1>1, ChainInvariant, PTL

\* A page that finished by itself leaves nothing running.
THEOREM FinishedIsQuietHolds == Spec => []FinishedIsQuiet
<1>1. TypeOK /\ ChainInv => FinishedIsQuiet
  BY RestLemma DEF ChainInv, FinishedIsQuiet
<1>2. QED BY <1>1, ChainInvariant, PTL

\* The page's idea of the running operation is what it asked the daemon to do.
THEOREM BeliefHolds == Spec => []BeliefMatchesDaemon
<1>1. ChainInv => BeliefMatchesDaemon
  BY DEF ChainInv
<1>2. QED BY <1>1, ChainInvariant, PTL

\* Two continuations are never pending together.
THEOREM SingleChainHolds == Spec => []SingleChain
<1>1. ASSUME TypeOK, ChainInv PROVE SingleChain
  <2>1. \A k \in Steps : calls[k] <= 1
    BY <1>1 DEF ChainInv, Position, AtRest, AtTimer, AtSignal, AtCall, AtOpen, Zero, One
  <2>2. \A op \in Ops : opening[op] <= 1
    BY <1>1 DEF ChainInv, Position, AtRest, AtTimer, AtSignal, AtCall, AtOpen, NoneOpen
  <2>3. ASSUME NEW x \in Pending, NEW y \in Pending PROVE x = y
    <3>1. CASE AtRest
      BY <1>1, <3>1, <2>3, RestLemma
    <3>2. CASE AtTimer
      BY <2>3, <3>2 DEF AtTimer, Pending, Zero, NoneOpen
    <3>3. CASE AtSignal
      BY <2>3, <3>3 DEF AtSignal, Pending, Zero, NoneOpen
    <3>4. ASSUME NEW k \in Steps, AtCall(k) PROVE x = y
      BY <2>3, <3>4 DEF AtCall, Pending, One, NoneOpen
    <3>5. ASSUME NEW op \in Ops, AtOpen(op) PROVE x = y
      BY <2>3, <3>5 DEF AtOpen, Pending, Zero
    <3>6. QED
      BY <1>1, <3>1, <3>2, <3>3, <3>4, <3>5 DEF ChainInv, Position
  <2>4. QED BY <2>1, <2>2, <2>3 DEF SingleChain
<1>2. QED BY <1>1, ChainInvariant, PTL
-----------------------------------------------------------------------------
(* What the window sees of the page.                                       *)

\* Until it is begun the page blocks nobody.
WindowInv == TypeOK /\ (~begun => ready)

\* A handler other than begin and skip only ever makes the page ready.
LEMMA ReadyStep ==
    ASSUME TypeOK, [Next]_vars
    PROVE  \/ Begin \/ Skip
           \/ /\ begun' = begun /\ skipped' = skipped
              /\ ready' = TRUE \/ ready' = ready
<1> DEFINE Quiet == /\ begun' = begun /\ skipped' = skipped
                    /\ ready' = TRUE \/ ready' = ready
<1> SUFFICES ASSUME ~Begin, ~Skip PROVE Quiet
  OBVIOUS
<1> USE DEF page, life
<1>1. CASE Pulse
  BY <1>1 DEF Pulse
<1>2. CASE Expire
  BY <1>2 DEF Expire
<1>3. CASE AptkitProxySetup
  BY <1>3 DEF AptkitProxySetup
<1>4. CASE TimedateProxySetup
  BY <1>4 DEF TimedateProxySetup, start_provision_check, Busy
<1>5. CASE SetNtpReply
  BY <1>5 DEF SetNtpReply, give_up_or_retry, retry_ntp_sync, Finish
<1>6. CASE NtpTimer
  BY <1>6 DEF NtpTimer, retry_ntp_sync
<1>7. ASSUME NEW answer \in NtpAnswers, TimedateProperties(answer)
      PROVE  Quiet
  BY <1>7 DEF TimedateProperties, give_up_or_retry, Finish, start_provision_check, Busy
<1>8. CASE ProvisionComplete
  BY <1>8 DEF ProvisionComplete, start_update_cache, Busy, Finish
<1>9. CASE ErrorProperty
  BY <1>9 DEF ErrorProperty, Busy, Finish
<1>10. ASSUME NEW op \in Ops,
              OperationReply(op) \/ TransactionProxy(op) \/ TransactionProxyFailed(op)
       PROVE  Quiet
  BY <1>10 DEF OperationReply, TransactionProxy, TransactionProxyFailed, Finish
<1>11. ASSUME NEW p \in Proxies, RunReply(p) \/ Progress(p) \/ Status(p)
       PROVE  Quiet
  BY <1>11 DEF RunReply, Progress, Status
<1>12. ASSUME NEW p \in Proxies, NEW path \in Paths, ConfigFileConflict(p, path)
       PROVE  Quiet
  BY <1>12 DEF ConfigFileConflict
<1>13. ASSUME NEW p \in Proxies, ExitSuccess(p)
       PROVE  Quiet
  BY <1>13 DEF ExitSuccess, after_success, start_update_cache, get_updates,
     try_normal_mode, finish_check, Finish, Busy
<1>14. ASSUME NEW p \in Proxies, ExitFailed(p)
       PROVE  Quiet
  BY <1>14 DEF ExitFailed
<1>15. ASSUME NEW p \in Proxies, NEW have \in BOOLEAN, Plan(p, have)
       PROVE  Quiet
  BY <1>15 DEF Plan, get_updates, try_normal_mode, finish_check, Finish, Busy
<1>16. CASE UNCHANGED vars
  BY <1>16 DEF vars
<1>17. QED
  BY <1>1, <1>2, <1>3, <1>4, <1>5, <1>6, <1>7, <1>8, <1>9, <1>10, <1>11,
     <1>12, <1>13, <1>14, <1>15, <1>16
     DEF Next, Conclude

\* Every step of the page is a step the window allows it, or none that the
\* window sees.
LEMMA WindowStep == WindowInv /\ [Next]_vars => [Window!Next]_(Window!vars)
<1> SUFFICES ASSUME WindowInv, [Next]_vars PROVE [Window!Next]_(Window!vars)
  OBVIOUS
<1>1. CASE Begin
  BY <1>1 DEF Begin, Window!Next, Window!Begin
<1>2. CASE Skip
  BY <1>2 DEF Skip, Window!Next, Window!Skip
<1>3. CASE /\ begun' = begun /\ skipped' = skipped
           /\ ready' = TRUE \/ ready' = ready
  <2>1. CASE ready' = ready
    BY <1>3, <2>1 DEF Window!vars
  <2>2. CASE ready' = TRUE /\ begun
    BY <1>3, <2>2 DEF Window!Next, Window!Finish
  <2>3. CASE ready' = TRUE /\ ~begun
    BY <1>3, <2>3 DEF WindowInv, TypeOK, PageOK, Window!vars
  <2>4. QED
    BY <1>3, <2>1, <2>2, <2>3
<1>4. QED
  BY <1>1, <1>2, <1>3, ReadyStep DEF WindowInv

\* For every instance: once begun the page is made ready by itself or by a skip,
\* and nothing that is still in flight makes it block the window again.
THEOREM ImplementsWindow == Spec => Implements
<1>1. Init => WindowInv /\ Window!Init
  <2>1. Init => TypeOK
    BY TypeInit
  <2>2. QED
    BY <2>1 DEF Init, WindowInv, Window!Init
<1>2. WindowInv /\ [Next]_vars => WindowInv'
  <2> SUFFICES ASSUME WindowInv, [Next]_vars PROVE WindowInv'
    OBVIOUS
  <2>1. TypeOK'
    BY PageStep, FlowStep, CountsStep DEF WindowInv, TypeOK
  <2>2. ~begun' => ready'
    BY ReadyStep DEF WindowInv, Begin, Skip
  <2>3. QED
    BY <2>1, <2>2 DEF WindowInv
<1>3. QED
  BY <1>1, <1>2, WindowStep, PTL DEF Spec, Window!Spec, Implements

-----------------------------------------------------------------------------
(* Once: one repair, one answer to a question, one plan for a run.         *)

\* A conflict is only known when it was asked about, so that none is taken for
\* one that was answered before.
OnceInv ==
    /\ RepairsOnce /\ ConflictsAnswered
    /\ resolved_config_conflicts \subseteq asked

\* Handlers that touch neither the repairs nor the conflicts.
OnceAside ==
    UNCHANGED <<broken_dependency_repairs, resolved_config_conflicts, asked, waiting>>

LEMMA OnceStep == OnceInv /\ [Next]_vars => OnceInv'
<1> SUFFICES ASSUME OnceInv, [Next]_vars PROVE OnceInv'
  OBVIOUS
<1> USE DEF OnceInv, RepairsOnce, ConflictsAnswered, OnceAside, flow, txn
<1>1. CASE Begin
  BY <1>1 DEF Begin
<1>2. CASE Skip \/ Pulse \/ Expire \/ AptkitProxySetup \/ SetNtpReply \/ NtpTimer
  <2>1. OnceAside
    BY <1>2 DEF Skip, Pulse, Expire, AptkitProxySetup, SetNtpReply, NtpTimer
  <2>2. QED
    BY <2>1
<1>3. CASE TimedateProxySetup \/ ProvisionComplete
  <2>1. OnceAside
    BY <1>3 DEF TimedateProxySetup, ProvisionComplete
  <2>2. QED
    BY <2>1
<1>4. ASSUME NEW answer \in NtpAnswers, TimedateProperties(answer)
      PROVE  OnceInv'
  <2>1. OnceAside
    BY <1>4 DEF TimedateProperties
  <2>2. QED
    BY <2>1
<1>5. CASE ErrorProperty
  <2>1. UNCHANGED <<resolved_config_conflicts, asked, waiting>>
    BY <1>5 DEF ErrorProperty
  <2>2. broken_dependency_repairs' <= 1
    <3>1. \/ broken_dependency_repairs' = broken_dependency_repairs
          \/ broken_dependency_repairs = 0 /\ broken_dependency_repairs' = 0 + 1
      BY <1>5 DEF ErrorProperty, can_repair
    <3>2. QED
      BY <3>1
  <2>3. QED
    BY <2>1, <2>2
<1>6. ASSUME NEW op \in Ops, OperationReply(op) \/ TransactionProxyFailed(op)
      PROVE  OnceInv'
  <2>1. OnceAside
    BY <1>6 DEF OperationReply, TransactionProxyFailed
  <2>2. QED
    BY <2>1
<1>7. ASSUME NEW op \in Ops, TransactionProxy(op)
      PROVE  OnceInv'
  <2>1. /\ broken_dependency_repairs' = broken_dependency_repairs
        /\ resolved_config_conflicts' = {} /\ waiting' = {}
    BY <1>7 DEF TransactionProxy, forget_config_conflicts
  <2>2. QED
    BY <2>1
<1>8. ASSUME NEW p \in Proxies, RunReply(p) \/ Progress(p) \/ Status(p) \/ ExitFailed(p)
      PROVE  OnceInv'
  <2>1. OnceAside
    BY <1>8 DEF RunReply, Progress, Status, ExitFailed
  <2>2. QED
    BY <2>1
<1>9. ASSUME NEW p \in Proxies, NEW path \in Paths, ConfigFileConflict(p, path)
      PROVE  OnceInv'
  <2>1. path \notin resolved_config_conflicts
    BY <1>9 DEF ConfigFileConflict
  <2>2. waiting' = {} /\ resolved_config_conflicts' \subseteq asked'
    BY <1>9, <2>1 DEF ConfigFileConflict
  <2>3. QED
    BY <1>9, <2>2 DEF ConfigFileConflict
<1>10. ASSUME NEW p \in Proxies, ExitSuccess(p)
       PROVE  OnceInv'
  <2>1. OnceAside
    BY <1>10 DEF ExitSuccess, after_success, get_updates, try_normal_mode, finish_check
  <2>2. QED
    BY <2>1
<1>11. ASSUME NEW p \in Proxies, NEW have \in BOOLEAN, Plan(p, have)
       PROVE  OnceInv'
  <2>1. OnceAside
    BY <1>11 DEF Plan, get_updates, try_normal_mode, finish_check
  <2>2. QED
    BY <2>1
<1>12. CASE UNCHANGED vars
  BY <1>12 DEF vars
<1>13. QED
  BY <1>1, <1>2, <1>3, <1>4, <1>5, <1>6, <1>7, <1>8, <1>9, <1>10, <1>11, <1>12
     DEF Next, Conclude

THEOREM OnceInvariant == Spec => []OnceInv
<1>1. Init => OnceInv
  BY DEF Init, OnceInv, RepairsOnce, ConflictsAnswered
<1>2. QED
  BY <1>1, OnceStep, PTL DEF Spec

\* FixBrokenDepends is attempted at most once, however the errors follow.
THEOREM RepairsOnceHolds == Spec => []RepairsOnce
<1>1. OnceInv => RepairsOnce
  BY DEF OnceInv
<1>2. QED BY <1>1, OnceInvariant, PTL

\* Every question of the running transaction is answered, also one an earlier
\* transaction asked.
THEOREM ConflictsAnsweredHolds == Spec => []ConflictsAnswered
<1>1. OnceInv => ConflictsAnswered
  BY DEF OnceInv
<1>2. QED BY <1>1, OnceInvariant, PTL

-----------------------------------------------------------------------------
(* Nothing is installed that was not planned.                              *)

\* The operation that is on its way, when packages are to be installed, is the
\* one whose simulation found upgrades.
PlanInv ==
    current_transaction = "INSTALL_UPDATES" =>
        \A op \in Ops : calls[op] > 0 \/ opening[op] > 0 => planned = op

\* Calls that are no operations of the daemon leave the counts of those alone.
LEMMA OtherCalls ==
    ASSUME NEW c \in [Kinds -> Int], NEW k \in Kinds \ Ops, NEW op \in Ops
    PROVE  /\ Plus(c, k)[op] = c[op] /\ Less(c, k)[op] = c[op]
           /\ Plus(c, k) \in [Kinds -> Int] /\ Less(c, k) \in [Kinds -> Int]
BY KindLemma DEF Plus, Less

\* The calls of the clock, the server and the error are such calls.
LEMMA OtherKinds ==
    {"aptkit_proxy", "timedate_proxy", "SetNTP", "GetAll", "provision", "GetError"}
        \subseteq Kinds \ Ops
BY DEF Kinds, Steps, Ops, Modes

LEMMA PlanStep ==
    ASSUME TypeOK, ChainInv, PlanInv, [Next]_vars
    PROVE  PlanInv'
<1> SUFFICES ASSUME current_transaction' = "INSTALL_UPDATES",
                    NEW op \in Ops, calls'[op] > 0 \/ opening'[op] > 0
             PROVE  planned' = op
  BY DEF PlanInv
<1>0. /\ calls \in [Kinds -> Nat] /\ calls \in [Kinds -> Int]
      /\ opening \in [Ops -> Nat] /\ Position
  BY DEF TypeOK, CountsOK, ChainInv
<1>a. ASSUME planned' = planned, current_transaction' = current_transaction,
             calls'[op] > 0 => calls[op] > 0, opening'[op] > 0 => opening[op] > 0
      PROVE  planned' = op
  BY <1>a DEF PlanInv
<1>b. \A k, j \in Kinds \ Ops :
          /\ Less(calls, k)[op] = calls[op] /\ Plus(calls, k)[op] = calls[op]
          /\ Plus(Less(calls, k), j)[op] = calls[op]
  BY <1>0, OtherCalls
<1> USE DEF flow, page, txn, proxies, life, history
<1>1. CASE Begin \/ ProvisionComplete
  BY <1>1 DEF Begin, ProvisionComplete, start_update_cache
<1>2. CASE Skip \/ Pulse \/ Expire
  BY <1>a, <1>2 DEF Skip, Pulse, Expire
<1>3. CASE AptkitProxySetup
  BY <1>a, <1>b, <1>3, OtherKinds DEF AptkitProxySetup
<1>4. CASE TimedateProxySetup
  BY <1>a, <1>b, <1>4, OtherKinds DEF TimedateProxySetup, start_provision_check
<1>5. CASE SetNtpReply
  BY <1>a, <1>b, <1>5, OtherKinds
     DEF SetNtpReply, give_up_or_retry, retry_ntp_sync
<1>6. CASE NtpTimer
  BY <1>a, <1>b, <1>6, OtherKinds DEF NtpTimer, retry_ntp_sync
<1>7. ASSUME NEW answer \in NtpAnswers, TimedateProperties(answer)
      PROVE  planned' = op
  BY <1>a, <1>b, <1>7, OtherKinds
     DEF TimedateProperties, give_up_or_retry, start_provision_check
<1>8. CASE ErrorProperty
  BY <1>a, <1>b, <1>8, OtherKinds DEF ErrorProperty
<1>9. ASSUME NEW o \in Ops, OperationReply(o)
      PROVE  planned' = op
  <2>1. calls[o] > 0 /\ planned' = planned /\ current_transaction' = current_transaction
    BY <1>9 DEF OperationReply
  <2>2. CASE op = o
    BY <2>1, <2>2 DEF PlanInv
  <2>3. CASE op # o
    <3>1. calls'[op] = calls[op] /\ opening'[op] = opening[op]
      BY <1>0, <1>9, <2>3, KindLemma DEF OperationReply, Plus, Less
    <3>2. QED
      BY <1>a, <2>1, <3>1
  <2>4. QED
    BY <2>2, <2>3
<1>10. ASSUME NEW o \in Ops, TransactionProxy(o)
       PROVE  planned' = op
  <2>1. opening[o] > 0 /\ calls' = calls /\ opening' = Less(opening, o)
    BY <1>10 DEF TransactionProxy
  <2>2. AtOpen(o)
    BY <1>0, <2>1, OpenLemma
  <2>3. calls'[op] = 0 /\ opening'[op] = 0
    BY <1>0, <2>1, <2>2, StepLemma DEF AtOpen, Zero, Less
  <2>4. QED
    BY <2>3
<1>11. ASSUME NEW o \in Ops, TransactionProxyFailed(o)
       PROVE  planned' = op
  <2>1. opening'[op] > 0 => opening[op] > 0
    BY <1>0, <1>11 DEF TransactionProxyFailed, Less
  <2>2. QED
    BY <1>a, <1>11, <2>1 DEF TransactionProxyFailed
<1>12. ASSUME NEW p \in Proxies, RunReply(p) \/ ExitFailed(p)
       PROVE  planned' = op
  <2>1. calls' = calls \/ calls' = Plus(calls, "GetError")
    BY <1>12 DEF RunReply, ExitFailed, transaction_failed
  <2>2. calls'[op] = calls[op]
    BY <2>1, <1>b, OtherKinds
  <2>3. QED
    BY <1>a, <1>12, <2>2 DEF RunReply, ExitFailed
<1>13. ASSUME NEW p \in Proxies, Progress(p) \/ Status(p)
       PROVE  planned' = op
  BY <1>a, <1>13 DEF Progress, Status
<1>14. ASSUME NEW p \in Proxies, NEW path \in Paths, ConfigFileConflict(p, path)
       PROVE  planned' = op
  BY <1>a, <1>14 DEF ConfigFileConflict
<1>15. ASSUME NEW p \in Proxies, ExitSuccess(p)
       PROVE  planned' = op
  BY <1>a, <1>15 DEF ExitSuccess, after_success, start_update_cache, get_updates,
                     try_normal_mode, finish_check
<1>16. ASSUME NEW p \in Proxies, NEW have \in BOOLEAN, Plan(p, have)
       PROVE  planned' = op
  <2>1. CASE have
    <3>1. /\ Live /\ current_transaction = "CHECK_UPDATES" /\ planned' = tx.op
          /\ calls' = Plus(calls, Mode(safe_mode)) /\ opening' = opening
      BY <1>16, <2>1, ProxyAssumption DEF Plan, Current, Live
    <3>2. tx.op = Mode(safe_mode)
      BY <3>1 DEF ChainInv, BeliefMatchesDaemon, Expected
    <3>3. AtSignal
      BY <1>0, <3>1, SignalLemma
    <3>4. op = Mode(safe_mode)
      BY <1>0, <3>1, <3>3, StepLemma DEF AtSignal, Zero, NoneOpen, Plus
    <3>5. QED
      BY <3>1, <3>2, <3>4
  <2>2. CASE ~have
    BY <1>a, <1>16, <2>2 DEF Plan, get_updates, try_normal_mode, finish_check
  <2>3. QED
    BY <2>1, <2>2
<1>17. CASE UNCHANGED vars
  BY <1>a, <1>17 DEF vars
<1>18. QED
  BY <1>1, <1>2, <1>3, <1>4, <1>5, <1>6, <1>7, <1>8, <1>9, <1>10, <1>11, <1>12,
     <1>13, <1>14, <1>15, <1>16, <1>17
     DEF Next, Conclude

\* A run that installs is one a simulation planned in the same mode, whatever
\* replies and signals came between the two.
THEOREM InstallsOnlyWhatWasPlannedHolds == Spec => InstallsOnlyWhatWasPlanned
<1>1. Init => PlanInv
  BY DEF Init, PlanInv
<1>2. Spec => []PlanInv
  BY <1>1, PlanStep, ChainInvariant, PTL DEF Spec
<1>3. TypeOK /\ ChainInv /\ PlanInv /\ [Next]_vars =>
        [transaction_proxy' # transaction_proxy /\ tx'.run /\ tx'.op \in Modes
           => planned = tx'.op]_vars
  <2> SUFFICES ASSUME TypeOK, ChainInv, PlanInv, Next,
                      transaction_proxy' # transaction_proxy, tx'.run, tx'.op \in Modes
               PROVE  planned = tx'.op
    OBVIOUS
  <2>1. PICK op \in Ops : TransactionProxy(op)
    BY DEF Next, Conclude, Begin, Skip, Pulse, Expire, AptkitProxySetup,
       TimedateProxySetup, SetNtpReply, NtpTimer, TimedateProperties, ProvisionComplete,
       ErrorProperty, OperationReply, TransactionProxyFailed, RunReply, Progress,
       Status, ConfigFileConflict, ExitSuccess, ExitFailed, Plan, txn
  <2>2. tx'.op = op /\ current_transaction # "CHECK_UPDATES" /\ opening[op] > 0
    BY <2>1 DEF TransactionProxy, Runs
  <2>3. op \in Expected
    BY <2>2 DEF ChainInv, BeliefMatchesDaemon
  <2>4. current_transaction = "INSTALL_UPDATES"
    BY <2>2, <2>3 DEF Expected, Modes
  <2>5. QED
    BY <2>2, <2>4 DEF PlanInv
<1>4. QED
  BY <1>2, <1>3, ChainInvariant, PTL DEF Spec, InstallsOnlyWhatWasPlanned

-----------------------------------------------------------------------------
(* "Good to go!" was earned.                                               *)

\* An operation of aptkit is on its way, runs, or ran.
Working ==
    \/ transaction_proxy # NoProxy \/ calls["GetError"] > 0
    \/ \E op \in Ops : calls[op] > 0 \/ opening[op] > 0

\* aptkit's proxy is made once, and only who has it works with it; so no check
\* for updates is given up for want of the proxy.
AptkitInv ==
    /\ calls["aptkit_proxy"] <= IF aptkit_proxy THEN 0 ELSE 1
    /\ Working => aptkit_proxy

EarlySteps == {"timedate_proxy", "SetNTP", "GetAll", "provision"}

\* The clock or the server is still waited for.
Early == ntp_timer \/ \E k \in EarlySteps : calls[k] > 0

\* After the check in normal mode the page checks in safe mode again only when
\* a repair came between the two.
TriedInv ==
    /\ Early => ~tried_safe_mode
    /\ tried_safe_mode /\ (safe_mode \/ current_transaction = "UPDATE_CACHE")
           => broken_dependency_repairs > 0
    /\ current_transaction = "REPAIR_DEPENDENCIES" => broken_dependency_repairs > 0

\* Taking or issuing a call leaves the counts of the others alone.
LEMMA OtherCount ==
    ASSUME NEW c \in [Kinds -> Int], NEW k \in Kinds, NEW j \in Kinds, j # k
    PROVE  /\ Plus(c, k) \in [Kinds -> Int] /\ Less(c, k) \in [Kinds -> Int]
           /\ Plus(c, k)[j] = c[j] /\ Less(c, k)[j] = c[j]
BY DEF Plus, Less

\* The chain's steps are not the setup of the proxy, ...
LEMMA SetupApart ==
    ASSUME TypeOK
    PROVE  \A k, j \in Steps :
               /\ Plus(calls, k)["aptkit_proxy"] = calls["aptkit_proxy"]
               /\ Less(calls, k)["aptkit_proxy"] = calls["aptkit_proxy"]
               /\ Plus(Less(calls, k), j)["aptkit_proxy"] = calls["aptkit_proxy"]
<1>1. calls \in [Kinds -> Int] /\ "aptkit_proxy" \in Kinds \ Steps /\ Steps \subseteq Kinds
  BY DEF TypeOK, CountsOK, Kinds, Steps, Ops, Modes
<1>2. QED
  BY <1>1, OtherCount

\* ... and work for the daemon is not one of the early steps.
LEMMA EarlyApart ==
    ASSUME TypeOK
    PROVE  \A k, j \in Kinds \ EarlySteps : \A e \in EarlySteps :
               /\ Plus(calls, k)[e] = calls[e] /\ Less(calls, k)[e] = calls[e]
               /\ Plus(Less(calls, k), j)[e] = calls[e]
<1>1. calls \in [Kinds -> Int] /\ EarlySteps \subseteq Kinds
  BY DEF TypeOK, CountsOK, Kinds, Steps, EarlySteps
<1>2. QED
  BY <1>1, OtherCount

\* The calls whose replies may ask aptkit for more, and those that may not.
AptkitCalls == {"GetError"} \cup Ops
OtherSteps  == EarlySteps \cup {"aptkit_proxy"}

LEMMA WorkApart ==
    ASSUME TypeOK
    PROVE  \A k, j \in OtherSteps : \A w \in AptkitCalls :
               /\ Plus(calls, k)[w] = calls[w] /\ Less(calls, k)[w] = calls[w]
               /\ Plus(Less(calls, k), j)[w] = calls[w]
<1>1. /\ calls \in [Kinds -> Int] /\ AptkitCalls \subseteq Kinds
      /\ OtherSteps \subseteq Kinds \ AptkitCalls
  BY DEF TypeOK, CountsOK, Kinds, Steps, Ops, Modes, EarlySteps, AptkitCalls, OtherSteps
<1>2. QED
  BY <1>1, OtherCount

LEMMA OtherNames ==
    {"aptkit_proxy", "timedate_proxy", "SetNTP", "GetAll", "provision"} = OtherSteps
BY DEF OtherSteps, EarlySteps

LEMMA LateKinds ==
    /\ Ops \subseteq Kinds \ EarlySteps
    /\ {"aptkit_proxy", "GetError", "UpdateCache", "FixBrokenDepends"}
           \subseteq Kinds \ EarlySteps
    /\ {"UpgradeSafe", "UpgradeFull"} \subseteq Kinds \ EarlySteps
BY DEF Kinds, Steps, Ops, Modes, EarlySteps

\* While the clock or the server is waited for aptkit is not, and the reverse.
LEMMA EarlyAlone ==
    ASSUME TypeOK, Position, Live
    PROVE  ~Early /\ ~ntp_timer /\ Zero(calls) /\ NoneOpen
<1>1. AtSignal
  BY SignalLemma
<1>2. QED
  BY <1>1 DEF AtSignal, Zero, Early, EarlySteps, Steps

\* No handler but the setup's reply touches the setup or the proxy.
LEMMA SetupStep ==
    ASSUME TypeOK, [Next]_vars, ~AptkitProxySetup
    PROVE  aptkit_proxy' = aptkit_proxy /\ calls'["aptkit_proxy"] = calls["aptkit_proxy"]
<1> DEFINE Same == /\ aptkit_proxy' = aptkit_proxy
                   /\ calls'["aptkit_proxy"] = calls["aptkit_proxy"]
<1>a. "UpgradeSafe" \in Steps /\ "UpgradeFull" \in Steps
  BY DEF Steps, Ops, Modes
<1>b. \A k, j \in Steps :
          /\ Plus(calls, k)["aptkit_proxy"] = calls["aptkit_proxy"]
          /\ Less(calls, k)["aptkit_proxy"] = calls["aptkit_proxy"]
          /\ Plus(Less(calls, k), j)["aptkit_proxy"] = calls["aptkit_proxy"]
  BY SetupApart
<1> USE DEF proxies
<1>1. CASE Begin
  BY <1>b, <1>1, StepLemma DEF Begin
<1>2. CASE Skip \/ Pulse \/ Expire
  BY <1>b, <1>2, StepLemma DEF Skip, Pulse, Expire
<1>3. CASE TimedateProxySetup
  BY <1>b, <1>3, StepLemma DEF TimedateProxySetup, start_provision_check
<1>4. CASE SetNtpReply \/ NtpTimer
  BY <1>b, <1>4, StepLemma DEF SetNtpReply, give_up_or_retry, NtpTimer, retry_ntp_sync, Finish
<1>5. ASSUME NEW answer \in NtpAnswers, TimedateProperties(answer)
      PROVE  Same
  BY <1>b, <1>5, StepLemma DEF TimedateProperties, give_up_or_retry, start_provision_check,
         Finish
<1>6. CASE ProvisionComplete
  BY <1>b, <1>6, StepLemma DEF ProvisionComplete, start_update_cache, Finish
<1>7. CASE ErrorProperty
  BY <1>b, <1>7, StepLemma DEF ErrorProperty, Finish
<1>8. ASSUME NEW op \in Ops,
             OperationReply(op) \/ TransactionProxy(op) \/ TransactionProxyFailed(op)
      PROVE  Same
  BY <1>b, <1>8, StepLemma DEF OperationReply, TransactionProxy, TransactionProxyFailed, Finish
<1>9. ASSUME NEW p \in Proxies, RunReply(p) \/ ExitFailed(p)
      PROVE  Same
  BY <1>b, <1>9, StepLemma DEF RunReply, ExitFailed, transaction_failed
<1>10. ASSUME NEW p \in Proxies, Progress(p) \/ Status(p)
       PROVE  Same
  BY <1>b, <1>10, StepLemma DEF Progress, Status
<1>11. ASSUME NEW p \in Proxies, NEW path \in Paths, ConfigFileConflict(p, path)
       PROVE  Same
  BY <1>b, <1>11, StepLemma DEF ConfigFileConflict
<1>12. ASSUME NEW p \in Proxies, ExitSuccess(p)
       PROVE  Same
  BY <1>a, <1>b, <1>12, StepLemma
     DEF Mode, ExitSuccess, after_success, start_update_cache, get_updates,
                     try_normal_mode, finish_check, Finish
<1>13. ASSUME NEW p \in Proxies, NEW have \in BOOLEAN, Plan(p, have)
       PROVE  Same
  BY <1>a, <1>b, <1>13
     DEF Mode, Plan, get_updates, try_normal_mode, finish_check, Finish
<1>14. CASE UNCHANGED vars
  BY <1>b, <1>14, StepLemma DEF vars
<1>15. QED
  BY <1>1, <1>2, <1>3, <1>4, <1>5, <1>6, <1>7, <1>8, <1>9, <1>10, <1>11, <1>12,
     <1>13, <1>14 DEF Next, Conclude

\* Work for aptkit comes from work for aptkit, or from who has its proxy.
LEMMA WorkStep ==
    ASSUME TypeOK, [Next]_vars, Working'
    PROVE  Working \/ aptkit_proxy
<1> SUFFICES ASSUME ~Working, ~aptkit_proxy PROVE FALSE
  OBVIOUS
<1>0. /\ transaction_proxy = NoProxy /\ ~(calls["GetError"] > 0)
      /\ \A op \in Ops : ~(calls[op] > 0) /\ ~(opening[op] > 0)
      /\ calls \in [Kinds -> Nat] /\ calls \in [Kinds -> Int] /\ opening \in [Ops -> Nat]
      /\ ~Live
  BY DEF Working, TypeOK, CountsOK, Live
<1>a. \A k, j \in OtherSteps : \A w \in AptkitCalls :
          /\ Plus(calls, k)[w] = calls[w] /\ Less(calls, k)[w] = calls[w]
          /\ Plus(Less(calls, k), j)[w] = calls[w]
  BY WorkApart
<1>b. ASSUME UNCHANGED <<transaction_proxy, opening>>,
             \A w \in AptkitCalls : calls'[w] = calls[w]
      PROVE  FALSE
  BY <1>0, <1>b DEF Working, AptkitCalls
<1>c. ASSUME UNCHANGED <<transaction_proxy, opening, calls>>
      PROVE  FALSE
  BY <1>b, <1>c
<1>d. \A p \in Proxies : p # transaction_proxy
  BY <1>0, ProxyAssumption
<1> USE DEF txn
<1>1. CASE Begin
  BY <1>a, <1>b, <1>1, OtherNames DEF Begin
<1>2. CASE Skip \/ Pulse \/ Expire
  BY <1>c, <1>2 DEF Skip, Pulse, Expire
<1>3. CASE AptkitProxySetup
  BY <1>a, <1>b, <1>3, OtherNames DEF AptkitProxySetup
<1>4. CASE TimedateProxySetup
  BY <1>a, <1>b, <1>4, OtherNames DEF TimedateProxySetup, start_provision_check
<1>5. CASE SetNtpReply \/ NtpTimer
  BY <1>a, <1>b, <1>5, OtherNames DEF SetNtpReply, give_up_or_retry, NtpTimer, retry_ntp_sync, Finish
<1>6. ASSUME NEW answer \in NtpAnswers, TimedateProperties(answer)
      PROVE  FALSE
  BY <1>a, <1>b, <1>6, OtherNames DEF TimedateProperties, give_up_or_retry, start_provision_check,
         Finish
<1>7. CASE ProvisionComplete
  BY <1>a, <1>b, <1>7, OtherNames DEF ProvisionComplete, start_update_cache, Finish
<1>8. ~ErrorProperty
  BY <1>0 DEF ErrorProperty
<1>9. ASSUME NEW op \in Ops,
             OperationReply(op) \/ TransactionProxy(op) \/ TransactionProxyFailed(op)
      PROVE  FALSE
  BY <1>0, <1>9 DEF OperationReply, TransactionProxy, TransactionProxyFailed, Finish
<1>10. ASSUME NEW p \in Proxies, RunReply(p) \/ Progress(p) \/ Status(p) \/ ExitFailed(p)
       PROVE  FALSE
  BY <1>c, <1>d, <1>10 DEF RunReply, ExitFailed, Progress, Status, transaction_failed, Current
<1>11. ASSUME NEW p \in Proxies, NEW path \in Paths, ConfigFileConflict(p, path)
       PROVE  FALSE
  BY <1>d, <1>11 DEF ConfigFileConflict, Current
<1>12. ASSUME NEW p \in Proxies, ExitSuccess(p)
       PROVE  FALSE
  BY <1>d, <1>12 DEF ExitSuccess, Current
<1>13. ASSUME NEW p \in Proxies, NEW have \in BOOLEAN, Plan(p, have)
       PROVE  FALSE
  BY <1>d, <1>13 DEF Plan, Current
<1>14. CASE UNCHANGED vars
  BY <1>c, <1>14 DEF vars
<1>15. QED
  BY <1>1, <1>2, <1>3, <1>4, <1>5, <1>6, <1>7, <1>8, <1>9, <1>10, <1>11, <1>12,
     <1>13, <1>14 DEF Next, Conclude

LEMMA AptkitStep == ASSUME TypeOK, AptkitInv, [Next]_vars PROVE AptkitInv'
<1>1. CASE AptkitProxySetup
  <2>1. /\ calls \in [Kinds -> Nat] /\ calls["aptkit_proxy"] > 0 /\ ~Working
        /\ calls' = Less(calls, "aptkit_proxy")
        /\ UNCHANGED <<transaction_proxy, opening>>
    BY <1>1, KindLemma DEF AptkitProxySetup, AptkitInv, TypeOK, CountsOK, txn
  <2>2. ~Working'
    <3>1. \A w \in AptkitCalls : calls'[w] = calls[w]
      BY <2>1, WorkApart, OtherNames
    <3>2. QED
      BY <2>1, <3>1 DEF Working, AptkitCalls
  <2>3. calls'["aptkit_proxy"] = calls["aptkit_proxy"] - 1 /\ calls["aptkit_proxy"] <= 1
    BY <2>1, CountLemma, KindLemma DEF AptkitInv
  <2>4. calls'["aptkit_proxy"] <= 0
    BY <2>1, <2>3, KindLemma
  <2>5. calls'["aptkit_proxy"] <= IF aptkit_proxy' THEN 0 ELSE 1
    BY <2>1, <2>3, <2>4, KindLemma
  <2>6. QED
    BY <2>2, <2>5 DEF AptkitInv
<1>2. CASE ~AptkitProxySetup
  BY <1>2, SetupStep, WorkStep DEF AptkitInv
<1>3. QED
  BY <1>1, <1>2

\* Handlers that leave the flow and the early steps to others.
LEMMA TriedAside ==
    ASSUME TriedInv, UNCHANGED flow, Early' => Early
    PROVE  TriedInv'
BY DEF TriedInv, flow

\* The steps before the cache is refreshed come before any check.
LEMMA TriedEarly ==
    ASSUME TypeOK, TriedInv, Early,
           UNCHANGED <<safe_mode, tried_safe_mode, broken_dependency_repairs>>,
           \/ current_transaction' = current_transaction
           \/ current_transaction' \in {"PROVISION_CHECK", "UPDATE_CACHE"}
    PROVE  TriedInv'
BY DEF TriedInv

LEMMA TriedRepaired ==
    ASSUME TypeOK, TriedInv, ErrorProperty
    PROVE  TriedInv'
<1>1. Early' => Early
  BY EarlyApart, LateKinds DEF ErrorProperty, Early, Busy, Finish
<1>2. CASE UNCHANGED <<broken_dependency_repairs, current_transaction>>
  BY <1>1, <1>2 DEF ErrorProperty, TriedInv
<1>3. CASE can_repair /\ broken_dependency_repairs' = broken_dependency_repairs + 1
  <2>1. broken_dependency_repairs = 0
    BY <1>3 DEF can_repair
  <2>2. broken_dependency_repairs' > 0
    BY <1>3, <2>1
  <2>3. UNCHANGED <<safe_mode, tried_safe_mode>>
    BY DEF ErrorProperty
  <2>4. QED
    BY <1>1, <2>2, <2>3 DEF TriedInv
<1>4. QED
  BY <1>2, <1>3 DEF ErrorProperty

\* What follows a successful transaction, or a simulation that found nothing.
LEMMA TriedConcluded ==
    ASSUME TypeOK, Position, TriedInv, Live, after_success
    PROVE  TriedInv'
<1>0. ~Early /\ ~ntp_timer
  BY EarlyAlone
<1>1. ~Early'
  BY <1>0, EarlyApart, LateKinds
     DEF after_success, start_update_cache, get_updates, try_normal_mode, finish_check,
         Finish, Busy, Early, Mode
<1>2. CASE /\ current_transaction = "REPAIR_DEPENDENCIES"
           /\ UNCHANGED <<tried_safe_mode, safe_mode, broken_dependency_repairs>>
  BY <1>1, <1>2 DEF TriedInv
<1>3. CASE finish_check
  BY <1>1, <1>3 DEF finish_check, flow, TriedInv
<1>4. CASE /\ current_transaction = "UPDATE_CACHE" /\ get_updates(TRUE)
           /\ UNCHANGED <<tried_safe_mode, broken_dependency_repairs>>
  <2>1. current_transaction' \in {"UPDATE_CACHE", "CHECK_UPDATES"}
    BY <1>4 DEF get_updates
  <2>2. QED
    BY <1>1, <1>4, <2>1 DEF TriedInv
<1>5. CASE current_transaction = "CHECK_UPDATES" /\ try_normal_mode
  <2>1. /\ ~safe_mode' /\ current_transaction' = "CHECK_UPDATES"
        /\ broken_dependency_repairs' = broken_dependency_repairs
    BY <1>5 DEF try_normal_mode, get_updates
  <2>2. QED
    BY <1>1, <2>1 DEF TriedInv
<1>6. CASE /\ current_transaction = "INSTALL_UPDATES" /\ get_updates(safe_mode)
           /\ UNCHANGED <<tried_safe_mode, broken_dependency_repairs>>
  <2>1. /\ safe_mode' = safe_mode
        /\ current_transaction' \in {"INSTALL_UPDATES", "CHECK_UPDATES"}
    BY <1>6 DEF get_updates
  <2>2. QED
    BY <1>1, <1>6, <2>1 DEF TriedInv
<1>7. QED
  BY <1>2, <1>3, <1>4, <1>5, <1>6 DEF after_success

LEMMA TriedStep ==
    ASSUME TypeOK, ChainInv, TriedInv, [Next]_vars
    PROVE  TriedInv'
<1>0. Position
  BY DEF ChainInv
<1> USE DEF txn, page, proxies, life, history
<1>1. CASE Begin
  BY <1>1 DEF Begin, TriedInv
<1>2. CASE Skip \/ Pulse \/ Expire
  BY <1>2, TriedAside DEF Skip, Pulse, Expire, Early
<1>3. CASE AptkitProxySetup
  <2>1. Early' => Early
    BY <1>3, EarlyApart, LateKinds DEF AptkitProxySetup, Early
  <2>2. QED
    BY <1>3, <2>1, TriedAside DEF AptkitProxySetup
<1>4. CASE TimedateProxySetup
  BY <1>4, TriedEarly DEF TimedateProxySetup, start_provision_check, Early, EarlySteps
<1>5. CASE SetNtpReply \/ NtpTimer
  <2>1. Early
    BY <1>5 DEF SetNtpReply, NtpTimer, Early, EarlySteps
  <2>2. QED
    BY <1>5, <2>1, TriedEarly DEF SetNtpReply, NtpTimer, flow
<1>6. ASSUME NEW answer \in NtpAnswers, TimedateProperties(answer)
      PROVE  TriedInv'
  <2>1. Early
    BY <1>6 DEF TimedateProperties, Early, EarlySteps
  <2>2. QED
    BY <1>6, <2>1, TriedEarly DEF TimedateProperties, start_provision_check
<1>7. CASE ProvisionComplete
  <2>1. Early
    BY <1>7 DEF ProvisionComplete, Early, EarlySteps
  <2>2. QED
    BY <1>7, <2>1, TriedEarly DEF ProvisionComplete, start_update_cache
<1>8. CASE ErrorProperty
  BY <1>8, TriedRepaired
<1>9. ASSUME NEW op \in Ops,
             OperationReply(op) \/ TransactionProxy(op) \/ TransactionProxyFailed(op)
      PROVE  TriedInv'
  <2>1. Early' => Early
    BY <1>9, EarlyApart, LateKinds
       DEF OperationReply, TransactionProxy, TransactionProxyFailed, Finish, Early
  <2>2. QED
    BY <1>9, <2>1, TriedAside DEF OperationReply, TransactionProxy, TransactionProxyFailed
<1>10. ASSUME NEW p \in Proxies, RunReply(p) \/ ExitFailed(p) \/ Progress(p) \/ Status(p)
       PROVE  TriedInv'
  <2>1. Early' => Early
    BY <1>10, EarlyApart, LateKinds
       DEF RunReply, ExitFailed, transaction_failed, Progress, Status, Early
  <2>2. QED
    BY <1>10, <2>1, TriedAside DEF RunReply, ExitFailed, Progress, Status
<1>11. ASSUME NEW p \in Proxies, NEW path \in Paths, ConfigFileConflict(p, path)
       PROVE  TriedInv'
  BY <1>11, TriedAside DEF ConfigFileConflict, Early
<1>12. ASSUME NEW p \in Proxies, ExitSuccess(p)
       PROVE  TriedInv'
  <2>1. Live
    BY <1>12, ProxyAssumption DEF ExitSuccess, Current, Live
  <2>2. QED
    BY <1>0, <1>12, <2>1, TriedConcluded DEF ExitSuccess
<1>13. ASSUME NEW p \in Proxies, NEW have \in BOOLEAN, Plan(p, have)
       PROVE  TriedInv'
  <2>1. Live /\ current_transaction = "CHECK_UPDATES"
    BY <1>13, ProxyAssumption DEF Plan, Current, Live
  <2>2. CASE have
    <3>1. /\ calls' = Plus(calls, Mode(safe_mode)) /\ ntp_timer' = ntp_timer
          /\ current_transaction' = "INSTALL_UPDATES"
          /\ UNCHANGED <<safe_mode, tried_safe_mode, broken_dependency_repairs>>
      BY <1>13, <2>2 DEF Plan
    <3>2. Early' => Early
      BY <3>1, EarlyApart, LateKinds DEF Early, Mode
    <3>3. QED
      BY <3>1, <3>2 DEF TriedInv
  <2>3. CASE ~have
    <3>1. after_success
      BY <1>13, <2>1, <2>3 DEF Plan, after_success
    <3>2. QED
      BY <1>0, <2>1, <3>1, TriedConcluded
  <2>4. QED
    BY <2>2, <2>3
<1>14. CASE UNCHANGED vars
  BY <1>14, TriedAside DEF vars, Early
<1>15. QED
  BY <1>1, <1>2, <1>3, <1>4, <1>5, <1>6, <1>7, <1>8, <1>9, <1>10, <1>11, <1>12,
     <1>13, <1>14 DEF Next, Conclude

\* The label says "Good to go!" with reason, or for want of a proxy.
Good == GoodMeansChecked

\* Handlers that do not say so take no reason away.
LEMMA GoodAside ==
    ASSUME Good, label' = "good" => label = "good",
           UNCHANGED <<broken_dependency_repairs, proxy_failed>>, clean \subseteq clean'
    PROVE  Good'
BY DEF Good, GoodMeansChecked

\* The transaction of a check is the simulation of the mode the page is in.
LEMMA CheckedMode ==
    ASSUME TypeOK, ChainInv, Live, current_transaction = "CHECK_UPDATES"
    PROVE  ~tx.run /\ (~safe_mode => tx.op = "UpgradeFull")
<1>1. /\ tx.op \in {Mode(safe_mode)}
      /\ tx.run <=> FALSE
  BY DEF ChainInv, BeliefMatchesDaemon, Expected
<1>2. QED
  BY <1>1 DEF Mode

\* After a transaction that succeeded, or a simulation that found nothing, the
\* page ends only behind a check in normal mode.
LEMMA GoodConcluded ==
    ASSUME TypeOK, ChainInv, AptkitInv, TriedInv, Good, Live, after_success,
           proxy_failed' = proxy_failed, clean \subseteq clean',
           current_transaction = "CHECK_UPDATES" => tx.op \in clean'
    PROVE  Good'
<1>0. aptkit_proxy
  BY DEF AptkitInv, Working, Live
<1>1. ASSUME label' = "busy"
      PROVE  Good'
  BY <1>1 DEF Good, GoodMeansChecked
<1>2. CASE start_update_cache(calls)
  BY <1>0, <1>1, <1>2 DEF start_update_cache, Busy
<1>3. CASE get_updates(TRUE) \/ get_updates(safe_mode) \/ try_normal_mode
  BY <1>0, <1>1, <1>3 DEF get_updates, try_normal_mode, Busy
<1>4. CASE /\ current_transaction = "CHECK_UPDATES"
           /\ ~(safe_mode /\ ~tried_safe_mode) /\ finish_check
  <2>1. UNCHANGED <<broken_dependency_repairs, proxy_failed>>
    BY <1>4 DEF finish_check, flow
  <2>2. CASE ~safe_mode
    BY <1>4, <2>2, CheckedMode DEF Good, GoodMeansChecked
  <2>3. CASE safe_mode /\ tried_safe_mode
    BY <2>1, <2>3 DEF TriedInv, Good, GoodMeansChecked
  <2>4. QED
    BY <1>4, <2>2, <2>3
<1>5. QED
  BY <1>2, <1>3, <1>4 DEF after_success

LEMMA GoodStep ==
    ASSUME TypeOK, ChainInv, AptkitInv, TriedInv, Good, [Next]_vars
    PROVE  Good'
<1> USE DEF flow, txn, page, proxies, life, history
<1>a. ASSUME label' # "good"
      PROVE  Good'
  BY <1>a DEF Good, GoodMeansChecked
<1>1. CASE Begin
  BY <1>a, <1>1 DEF Begin
<1>2. CASE Skip \/ Pulse \/ Expire \/ AptkitProxySetup \/ NtpTimer
  BY <1>2, GoodAside DEF Skip, Pulse, Expire, AptkitProxySetup, NtpTimer
<1>3. CASE TimedateProxySetup
  BY <1>a, <1>3 DEF TimedateProxySetup, start_provision_check, Busy
<1>4. CASE SetNtpReply
  BY <1>4, GoodAside DEF SetNtpReply, give_up_or_retry, Finish
<1>5. ASSUME NEW answer \in NtpAnswers, TimedateProperties(answer)
      PROVE  Good'
  BY <1>5, GoodAside
     DEF TimedateProperties, give_up_or_retry, start_provision_check, Busy, Finish
<1>6. CASE ProvisionComplete \/ ErrorProperty
  BY <1>a, <1>6 DEF ProvisionComplete, ErrorProperty, start_update_cache, Busy, Finish
<1>7. ASSUME NEW op \in Ops, OperationReply(op) \/ TransactionProxy(op)
      PROVE  Good'
  BY <1>7, GoodAside DEF OperationReply, TransactionProxy, Finish
<1>8. ASSUME NEW op \in Ops, TransactionProxyFailed(op)
      PROVE  Good'
  BY <1>8 DEF TransactionProxyFailed, Good, GoodMeansChecked
<1>9. ASSUME NEW p \in Proxies, RunReply(p) \/ ExitFailed(p) \/ Progress(p) \/ Status(p)
      PROVE  Good'
  BY <1>9, GoodAside DEF RunReply, ExitFailed, Progress, Status
<1>10. ASSUME NEW p \in Proxies, NEW path \in Paths, ConfigFileConflict(p, path)
       PROVE  Good'
  BY <1>10, GoodAside DEF ConfigFileConflict
<1>11. ASSUME NEW p \in Proxies, ExitSuccess(p)
       PROVE  Good'
  <2>1. Live /\ after_success /\ proxy_failed' = proxy_failed
    BY <1>11, ProxyAssumption DEF ExitSuccess, Current, Live
  <2>2. clean \subseteq clean' /\ (~tx.run => tx.op \in clean')
    BY <1>11 DEF ExitSuccess
  <2>3. current_transaction = "CHECK_UPDATES" => tx.op \in clean'
    BY <2>1, <2>2, CheckedMode
  <2>4. QED
    BY <2>1, <2>2, <2>3, GoodConcluded
<1>12. ASSUME NEW p \in Proxies, NEW have \in BOOLEAN, Plan(p, have)
       PROVE  Good'
  <2>1. Live /\ proxy_failed' = proxy_failed /\ current_transaction = "CHECK_UPDATES"
    BY <1>12, ProxyAssumption DEF Plan, Current, Live
  <2>2. CASE have
    BY <1>a, <1>12, <2>2 DEF Plan
  <2>3. CASE ~have
    <3>1. after_success /\ clean \subseteq clean' /\ tx.op \in clean'
      BY <1>12, <2>1, <2>3 DEF Plan, after_success
    <3>2. QED
      BY <2>1, <3>1, GoodConcluded
  <2>4. QED
    BY <2>2, <2>3
<1>13. CASE UNCHANGED vars
  BY <1>13, GoodAside DEF vars
<1>14. QED
  BY <1>1, <1>2, <1>3, <1>4, <1>5, <1>6, <1>7, <1>8, <1>9, <1>10, <1>11, <1>12,
     <1>13 DEF Next, Conclude

LEMMA GoodInit == Init => AptkitInv /\ TriedInv /\ Good
<1> SUFFICES ASSUME Init PROVE AptkitInv /\ TriedInv /\ Good
  OBVIOUS
<1>1. /\ calls["aptkit_proxy"] = 1
      /\ \A k \in Steps : calls[k] = 0
  BY DEF Init, Kinds, Steps, Ops, Modes
<1>2. ~Working /\ ~Early
  BY <1>1, StepLemma DEF Init, Working, Early, EarlySteps
<1>3. QED
  BY <1>1, <1>2 DEF Init, AptkitInv, TriedInv, Good, GoodMeansChecked

\* "Good to go!" is shown only behind a simulation in normal mode that came out
\* empty, except after a repair or when no transaction proxy could be made.
THEOREM GoodMeansCheckedHolds == Spec => []GoodMeansChecked
<1>1. TypeOK /\ ChainInv /\ AptkitInv /\ TriedInv /\ Good /\ [Next]_vars
        => AptkitInv' /\ TriedInv' /\ Good'
  BY AptkitStep, TriedStep, GoodStep
<1>2. Good => GoodMeansChecked
  BY DEF Good
<1>3. QED BY <1>1, <1>2, GoodInit, ChainInvariant, PTL DEF Spec
=============================================================================

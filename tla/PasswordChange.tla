---------------------------- MODULE PasswordChange ----------------------------
(***************************************************************************)
(* What applying the security settings promises the window: each request   *)
(* (pt_security_settings_apply) gets one verdict, and success is reported  *)
(* only after that request changed the account's password.  A request that *)
(* was refused changed nothing, as long as requests do not overlap, and    *)
(* will never change anything.  How passwd is driven to keep the promise   *)
(* is in module Passwd.                                                    *)
(***************************************************************************)
CONSTANTS Handlers, Passwords,
          Default   \* DEFAULT_PASSWORD, which every request authenticates with

VARIABLES account,     \* the account's password
          request,     \* [Handlers -> "idle", "asked", "changed", "ok", "error"]
          overlapped   \* some request was made while another was out: the asker's

vars == <<account, request>>

Answers == {"idle", "asked", "changed", "ok", "error"}

Move(h, from, to) ==
    /\ request[h] = from
    /\ request' = [request EXCEPT ![h] = to]

Init == request = [h \in Handlers |-> "idle"]

Ask(h) == Move(h, "idle", "asked") /\ UNCHANGED account

\* A password that is not valid is refused on the spot.
Reject(h) == Move(h, "idle", "error") /\ UNCHANGED account

CanChange(h) == account = Default /\ request[h] = "asked"

Change(h) ==
    /\ Move(h, "asked", "changed")
    /\ CanChange(h) /\ account' \in Passwords

Succeed(h) == Move(h, "changed", "ok") /\ UNCHANGED account

Refuse(h) == Move(h, "asked", "error") /\ UNCHANGED account

\* Overlapping requests can be told that they failed although they changed it.
Misreport(h) == overlapped /\ Move(h, "changed", "error") /\ UNCHANGED account

Next == \E h \in Handlers :
            \/ Ask(h) \/ Reject(h) \/ Change(h) \/ Succeed(h) \/ Refuse(h)
            \/ Misreport(h)

Spec == Init /\ [][Next]_vars
=============================================================================

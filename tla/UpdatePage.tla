----------------------------- MODULE UpdatePage -----------------------------
(***************************************************************************)
(* What the update page promises to the window that shows it: before it is *)
(* begun it blocks nobody; begun once, it blocks until it is finished or   *)
(* skipped, which happens, and never again after that.                     *)
(* UpdateProgress implements this; Carousel is built on it.                *)
(***************************************************************************)

VARIABLES begun, ready, skipped

vars == <<begun, ready, skipped>>

\* The ready property is TRUE from the start: offline, the page is passed by.
Init == begun = FALSE /\ ready = TRUE /\ skipped = FALSE

Begin ==
    /\ ~begun
    /\ begun' = TRUE /\ ready' = FALSE
    /\ UNCHANGED skipped

\* A chain of calls that goes on after a skip may finish later.
Finish ==
    /\ begun
    /\ ready' = TRUE
    /\ UNCHANGED <<begun, skipped>>

Skip ==
    /\ begun
    /\ ready' = TRUE /\ skipped' = TRUE
    /\ UNCHANGED begun

Next == Begin \/ Finish \/ Skip

Spec == Init /\ [][Next]_vars

FairSpec == Spec /\ WF_vars(Finish)
=============================================================================

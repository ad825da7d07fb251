------------------------------ MODULE Scaling -------------------------------
(***************************************************************************)
(* The slider for the size of everything on the screen (pt_set_scaling in  *)
(* pt-window.c).                                                           *)
(*                                                                         *)
(* Every change of its value calls pt_set_scaling, which postpones itself  *)
(* by 100 ms as long as the slider is pressed and then stores the scale    *)
(* for the next session.  The wlr-randr process that it starts as well,    *)
(* for the screen as it is now, is left out: nobody waits for it.          *)
(***************************************************************************)
EXTENDS Integers

CONSTANTS
    Upper,       \* the slider goes from 0 to this
    MaxTimers    \* bound: postponed calls

\* What the proofs need to know of the constants.
ScalingAssumption == Upper \in Nat /\ MaxTimers \in Nat

VARIABLES
    value,      \* of the slider
    pressed,    \* GTK_STATE_FLAG_ACTIVE is set
    timers,     \* the postponed calls of pt_set_scaling
    config      \* the scale in the settings of phosh, or the default of the device

vars == <<value, pressed, timers, config>>

Scales == 0..Upper

\* The slider starts at the default of the device.
Init == value \in Scales /\ config = value /\ pressed = FALSE /\ timers = 0

-----------------------------------------------------------------------------

pt_set_scaling_GivesUp(left, v) ==
    timers' = left /\ config' = IF pressed THEN config ELSE v

\* left are the calls that stay postponed.
pt_set_scaling(left, v) ==
    IF pressed
    THEN timers' = left + 1 /\ UNCHANGED config
    ELSE timers' = left /\ config' = v

\* By dragging it, by a key or by the wheel.
ValueChanged ==
    /\ timers < MaxTimers
    /\ value' \in Scales \ {value}
    /\ pt_set_scaling(timers, value')
    /\ UNCHANGED pressed

Press ==
    /\ ~pressed
    /\ pressed' = TRUE
    /\ UNCHANGED <<value, timers, config>>

Release ==
    /\ pressed
    /\ pressed' = FALSE
    /\ UNCHANGED <<value, timers, config>>

Timeout ==
    /\ timers > 0
    /\ pt_set_scaling(timers - 1, value)
    /\ UNCHANGED <<value, pressed>>

Next == ValueChanged \/ Press \/ Release \/ Timeout

Spec == Init /\ [][Next]_vars

\* The main loop dispatches the timers that are due.
FairSpec == Spec /\ WF_vars(Timeout)

-----------------------------------------------------------------------------
(* Properties.                                                             *)

\* The variables have their types.
TypeOK ==
    /\ value \in Scales /\ config \in Scales
    /\ pressed \in BOOLEAN
    /\ timers \in 0..MaxTimers

\* The settings have the value of the slider, or a call is on its way that will
\* read it: no value is lost when the slider is pressed again and again before
\* the 100 ms are over.
NothingLost == config = value \/ timers > 0

\* Once the slider is let go for good the settings come to have its value.
Stored == <>[]~pressed => []<>(config = value)
=============================================================================

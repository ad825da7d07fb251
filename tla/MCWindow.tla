------------------------------ MODULE MCWindow ------------------------------
(* The carousel together with the slider on its second page.  The slider can *)
(* be touched while a part of its page is in sight; its postponed calls go   *)
(* on wherever the carousel is.                                              *)
EXTENDS Carousel

CONSTANTS Upper, MaxTimers

VARIABLES value, pressed, timers, config

slider == <<value, pressed, timers, config>>

Slider == INSTANCE Scaling

SliderInSight == pos2 \in 1..3

TouchSlider ==
    /\ SliderInSight
    /\ Slider!ValueChanged \/ Slider!Press \/ Slider!Release
    /\ UNCHANGED vars

Later == Slider!Timeout /\ UNCHANGED vars

Move == Next /\ UNCHANGED slider

WindowInit == Init /\ Slider!Init

WindowSpec ==
    /\ WindowInit
    /\ [][Move \/ TouchSlider \/ Later]_<<vars, slider>>
    /\ WF_vars(UpdatesReady) /\ WF_slider(Slider!Timeout)

\* Once the slider is let go for good the settings come to have its value, also
\* when it was pressed again and again and the carousel left its page since.
Stored == Slider!Stored
=============================================================================

---------------------------- MODULE Fingerprint -----------------------------
(***************************************************************************)
(* Registering fingerprints (pt-security-settings-fingerprint.c).          *)
(*                                                                         *)
(* The subpage of the security page offers the fingers that biomd has no   *)
(* print of; a click starts an enrolment with a synchronous call, during   *)
(* which the main loop stands still while biomd goes on, and shows the     *)
(* enrolment step until a signal of biomd says that the enrolment is over. *)
(* Signals come in order and wait while the main loop is blocked.          *)
(***************************************************************************)
EXTENDS Naturals, Sequences

CONSTANTS
    Fingers,     \* the names biomd knows
    NoFinger,
    MaxSignals   \* bound: signals that wait when a finger is chosen or touches

ASSUME FingerAssumption == NoFinger \notin Fingers

VARIABLES
    available,   \* the row of the security page is visible
    proxies,     \* fingerprint_proxy and props_proxy are set
    subpage,     \* the subpage is visible, not the main child of the stack
    finger_list, \* the fingers with a row
    enroll_step, \* the step is visible, the list is not
    progress,    \* the percentage of the bar
    calling,     \* the finger of the Enroll call that blocks the main loop
    reply,       \* what that call is about to return
    signals,     \* the signals not handled yet
    enrolling,   \* biomd's: the finger it enrols
    left,        \* biomd's: what it still has to do at the end of that
    enrolled,    \* biomd's: EnrolledFingers
    misread      \* history: finger_list is of a read that failed

dbus == <<available, proxies>>
list == <<finger_list, misread>>
ui == <<subpage, list, enroll_step, progress>>
biomd == <<enrolling, left, enrolled>>
vars == <<dbus, ui, calling, reply, signals, biomd>>

Replies == {"none", "started", "refused"}
Signals == {"progress", "hint", "complete", "failed", "fingers"}
Ending == {"complete", "fingers"}

\* biomd answers a ping and has the hardware, or the row is hidden for good.
pt_security_settings_fingerprint_available == available \in BOOLEAN

\* The fingers that were enrolled before may be any.
Init ==
    /\ pt_security_settings_fingerprint_available
    /\ proxies = FALSE
    /\ subpage = FALSE /\ finger_list = {} /\ enroll_step = FALSE /\ progress = 0
    /\ calling = NoFinger /\ reply = "none" /\ signals = <<>>
    /\ enrolling = NoFinger /\ left = {} /\ enrolled \in SUBSET Fingers
    /\ misread = FALSE

-----------------------------------------------------------------------------
(* The page.                                                               *)

Idle == calling = NoFinger

reset_fingerprint_subpage_ui ==
    enroll_step' = FALSE /\ progress' = 0

\* What reading a property of biomd can give: the call fails and times out at
\* any time.  The empty set stands for NULL.
OrNull(fingers) == {fingers, {}}

get_enrolled_fingers == OrNull(enrolled)

get_valid_finger_names == OrNull(Fingers)

\* Without the valid names the list stays as it is.
refresh_fingerprint_list ==
    \E valid \in get_valid_finger_names, known \in get_enrolled_fingers :
        /\ finger_list' = IF valid = {} THEN finger_list ELSE valid \ known
        /\ misread' = (valid # Fingers \/ known # enrolled)

\* Both proxies, or none and the next click tries again.
init_dbus_proxies == proxies' \in {proxies, TRUE}

\* A click on the row, which is on the main child.
pt_security_settings_register_fingerprint ==
    /\ Idle /\ ~subpage /\ available
    /\ init_dbus_proxies
    /\ \/ /\ proxies' /\ subpage' = TRUE
          /\ refresh_fingerprint_list /\ reset_fingerprint_subpage_ui
       \/ ~proxies' /\ UNCHANGED ui
    /\ UNCHANGED <<available, calling, reply, signals, biomd>>

\* The click up to the call.
on_finger_activated(finger) ==
    /\ Idle /\ subpage /\ ~enroll_step
    /\ finger \in finger_list
    /\ Len(signals) <= MaxSignals
    /\ progress' = 0 /\ enroll_step' = TRUE
    /\ calling' = finger
    /\ UNCHANGED <<dbus, subpage, list, reply, signals, biomd>>

fingerprint_enroll_Unchecked ==
    /\ reply # "none"
    /\ calling' = NoFinger /\ reply' = "none"
    /\ UNCHANGED <<dbus, ui, signals, biomd>>

\* The call returns: an error and FALSE are one to the page.
fingerprint_enroll ==
    /\ reply # "none"
    /\ calling' = NoFinger /\ reply' = "none"
    /\ IF reply = "started"
       THEN UNCHANGED <<enroll_step, progress>>
       ELSE reset_fingerprint_subpage_ui
    /\ UNCHANGED <<dbus, subpage, list, signals, biomd>>

handle_signal_FailedStays ==
    /\ Idle /\ signals # <<>>
    /\ signals' = Tail(signals)
    /\ CASE Head(signals) = "complete" ->
               /\ refresh_fingerprint_list /\ reset_fingerprint_subpage_ui
               /\ subpage' = FALSE
         [] Head(signals) = "fingers" ->
               refresh_fingerprint_list /\ UNCHANGED <<subpage, enroll_step, progress>>
         [] OTHER -> UNCHANGED ui
    /\ UNCHANGED <<dbus, calling, reply, biomd>>

handle_signal_OwnListOnly ==
    /\ Idle /\ signals # <<>>
    /\ signals' = Tail(signals)
    /\ CASE Head(signals) = "complete" ->
               /\ refresh_fingerprint_list /\ reset_fingerprint_subpage_ui
               /\ subpage' = FALSE
         [] Head(signals) = "failed" ->
               reset_fingerprint_subpage_ui /\ UNCHANGED <<subpage, list>>
         [] OTHER -> UNCHANGED ui
    /\ UNCHANGED <<dbus, calling, reply, biomd>>

\* "failed" is every error but FINGER_NOT_RECOGNIZED, "hint" what only has a
\* toast or a line in the log.
handle_signal ==
    /\ Idle /\ signals # <<>>
    /\ signals' = Tail(signals)
    /\ CASE Head(signals) = "progress" ->
               progress' = 50 /\ UNCHANGED <<subpage, list, enroll_step>>
         [] Head(signals) = "complete" ->
               /\ refresh_fingerprint_list /\ reset_fingerprint_subpage_ui
               /\ subpage' = FALSE
         [] Head(signals) = "fingers" ->
               refresh_fingerprint_list /\ UNCHANGED <<subpage, enroll_step, progress>>
         [] Head(signals) = "failed" ->
               reset_fingerprint_subpage_ui /\ UNCHANGED <<subpage, list>>
         [] Head(signals) = "hint" -> UNCHANGED ui
    /\ UNCHANGED <<dbus, calling, reply, biomd>>

-----------------------------------------------------------------------------
(* biomd, as the page uses it: one enrolment at a time.                    *)

\* It starts or refuses; or it starts when the caller has stopped waiting.
Enroll ==
    /\ calling # NoFinger /\ reply = "none"
    /\ \/ /\ enrolling = NoFinger
          /\ enrolling' = calling /\ left' = Ending
          /\ \/ reply' = "started"
             \/ reply' = "refused"
       \/ reply' = "refused" /\ UNCHANGED <<enrolling, left>>
    /\ UNCHANGED <<dbus, ui, calling, signals, enrolled>>

Touch ==
    /\ enrolling # NoFinger /\ left = Ending
    /\ Len(signals) < MaxSignals
    /\ \E s \in {"progress", "hint"} : signals' = Append(signals, s)
    /\ UNCHANGED <<dbus, ui, calling, reply, biomd>>

\* The print is complete: it is stored and the progress is 100, one first.
Conclude(s) ==
    /\ s \in left
    /\ left' = left \ {s}
    /\ enrolling' = IF left' = {} THEN NoFinger ELSE enrolling
    /\ enrolled' = IF s = "fingers" THEN enrolled \union {enrolling} ELSE enrolled
    /\ signals' = Append(signals, s)
    /\ UNCHANGED <<dbus, ui, calling, reply>>

\* Too many bad touches, a timeout, no space.
Fail ==
    /\ enrolling # NoFinger /\ left = Ending
    /\ left' = {} /\ enrolling' = NoFinger
    /\ signals' = Append(signals, "failed")
    /\ UNCHANGED <<dbus, ui, calling, reply, enrolled>>

Over == Fail \/ \E s \in Ending : Conclude(s)

Next ==
    \/ pt_security_settings_register_fingerprint
    \/ \E finger \in Fingers : on_finger_activated(finger)
    \/ fingerprint_enroll \/ handle_signal
    \/ Enroll \/ Touch \/ Over

Spec == Init /\ [][Next]_vars

\* The main loop handles what waits; biomd answers and gives every enrolment up
\* that does not complete.
FairSpec ==
    /\ Spec
    /\ WF_vars(fingerprint_enroll) /\ WF_vars(handle_signal)
    /\ WF_vars(Enroll) /\ WF_vars(Over)

-----------------------------------------------------------------------------
(* Properties.                                                             *)

\* The page and biomd stay in their types, and a call that has an answer is out.
TypeOK ==
    /\ {available, proxies, subpage, enroll_step, misread} \subseteq BOOLEAN
    /\ finger_list \subseteq Fingers /\ enrolled \subseteq Fingers
    /\ progress \in {0, 50}
    /\ calling \in Fingers \union {NoFinger} /\ reply \in Replies
    /\ \A i \in DOMAIN signals : signals[i] \in Signals
    /\ enrolling \in Fingers \union {NoFinger} /\ left \subseteq Ending
    /\ reply # "none" => calling # NoFinger

\* The step, from which only a signal leads back, is shown for an enrolment that
\* runs or whose end is still to be handled; a refused or failed one does not
\* leave the user in front of a sensor that is off.
StepMeansEnrolling ==
    enroll_step /\ Idle =>
        enrolling # NoFinger \/ \E i \in DOMAIN signals : signals[i] \in {"complete", "failed"}

\* Whichever of the end of the enrolment and the change of EnrolledFingers biomd
\* tells first, no finger is offered twice once both are handled, unless biomd
\* did not say which are enrolled when the list was made.
OffersTheRest ==
    subpage /\ Idle /\ signals = <<>> /\ enrolling = NoFinger /\ ~misread
        => finger_list = Fingers \ enrolled

\* The step ends, also when property calls fail and when the call to Enroll times
\* out in a biomd that goes on.
StepEnds == enroll_step ~> ~enroll_step
=============================================================================

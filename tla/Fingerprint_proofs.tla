------------------------- MODULE Fingerprint_proofs -------------------------
(***************************************************************************)
(* Proofs about Fingerprint, for any fingers and any number of signals     *)
(* that wait while the main loop is blocked by the call to Enroll.         *)
(***************************************************************************)
EXTENDS Fingerprint, TLAPS

\* A signal that leads back from the enrolment step waits.
Ends(s) == \E i \in DOMAIN s : s[i] \in {"complete", "failed"}

\* A queue keeps such a signal until it is handled.
LEMMA AppendLemma ==
    ASSUME NEW s \in Seq(Signals), NEW e \in Signals
    PROVE  /\ Append(s, e) \in Seq(Signals)
           /\ Ends(s) \/ e \in {"complete", "failed"} => Ends(Append(s, e))
<1>1. /\ Len(s) \in Nat /\ DOMAIN s = 1..Len(s) /\ DOMAIN Append(s, e) = 1..Len(s) + 1
      /\ \A i \in 1..Len(s) : Append(s, e)[i] = s[i]
      /\ Append(s, e)[Len(s) + 1] = e
  OBVIOUS
<1>2. Ends(s) => Ends(Append(s, e))
  BY <1>1 DEF Ends
<1>3. e \in {"complete", "failed"} => Ends(Append(s, e))
  BY <1>1 DEF Ends
<1>4. QED
  BY <1>2, <1>3

LEMMA TailLemma ==
    ASSUME NEW s \in Seq(Signals), s # <<>>
    PROVE  /\ Tail(s) \in Seq(Signals) /\ Head(s) \in Signals
           /\ Ends(s) /\ Head(s) \notin {"complete", "failed"} => Ends(Tail(s))
<1>1. ASSUME NEW i \in DOMAIN s, s[i] \in {"complete", "failed"},
             Head(s) \notin {"complete", "failed"}
      PROVE  Ends(Tail(s))
  <2>1. i \in 1..Len(s) /\ i # 1
    BY <1>1
  <2>2. i - 1 \in DOMAIN Tail(s) /\ Tail(s)[i - 1] = s[i]
    BY <2>1
  <2>3. QED
    BY <1>1, <2>2 DEF Ends
<1>2. QED
  BY <1>1 DEF Ends

\* The types, with the queue as a sequence.
TypeInv ==
    /\ {available, proxies, subpage, enroll_step, misread} \subseteq BOOLEAN
    /\ finger_list \subseteq Fingers /\ enrolled \subseteq Fingers
    /\ progress \in {0, 50}
    /\ calling \in Fingers \union {NoFinger} /\ reply \in Replies
    /\ signals \in Seq(Signals)
    /\ enrolling \in Fingers \union {NoFinger} /\ left \subseteq Ending
    /\ reply # "none" => calling # NoFinger

\* biomd knows the finger of an enrolment until it has told both ends of it.
EnrolsWhileLeft == left # {} => enrolling # NoFinger

\* What the step waits for once Enroll said it started.  It is told apart from
\* StepMeansEnrolling by the answer that is not handled yet, and by the end that
\* was told while EnrolledFingers is still to change.
StepWaits ==
    enroll_step /\ (Idle \/ reply = "started")
        => "complete" \in left \/ Ends(signals)

IInv == TypeInv /\ EnrolsWhileLeft /\ StepWaits

\* What the list can be after it was filled again.
LEMMA ListLemma ==
    ASSUME TypeInv, refresh_fingerprint_list
    PROVE  finger_list' \subseteq Fingers /\ misread' \in BOOLEAN
BY DEF TypeInv, refresh_fingerprint_list, get_valid_finger_names, get_enrolled_fingers, OrNull

LEMMA HandleLemma ==
    ASSUME IInv, handle_signal
    PROVE  IInv'
<1>0. TypeInv /\ Idle
  BY DEF IInv, handle_signal
<1>1. /\ signals \in Seq(Signals) /\ signals # <<>> /\ signals' = Tail(signals)
      /\ UNCHANGED <<dbus, calling, reply, biomd>>
  BY <1>0 DEF handle_signal, TypeInv
<1>2. /\ signals' \in Seq(Signals) /\ Head(signals) \in Signals
      /\ Ends(signals) /\ Head(signals) \notin {"complete", "failed"} => Ends(signals')
  BY <1>1, TailLemma
<1>3. CASE Head(signals) \in {"complete", "failed"}
  <2>1. enroll_step' = FALSE /\ progress' = 0
    BY <1>2, <1>3 DEF handle_signal, reset_fingerprint_subpage_ui
  <2>2. subpage' \in BOOLEAN /\ finger_list' \subseteq Fingers /\ misread' \in BOOLEAN
    BY <1>0, <1>2, <1>3, ListLemma DEF handle_signal, TypeInv, list
  <2>3. QED
    BY <1>0, <1>1, <1>2, <2>1, <2>2
       DEF IInv, TypeInv, EnrolsWhileLeft, StepWaits, dbus, biomd
<1>4. CASE Head(signals) \notin {"complete", "failed"}
  <2>1. enroll_step' = enroll_step /\ subpage' = subpage /\ progress' \in {0, 50}
    BY <1>0, <1>2, <1>4 DEF handle_signal, TypeInv, ui, list, Signals
  <2>2. finger_list' \subseteq Fingers /\ misread' \in BOOLEAN
    BY <1>0, <1>2, <1>4, ListLemma DEF handle_signal, TypeInv, ui, list, Signals
  <2>3. QED
    BY <1>0, <1>1, <1>2, <1>4, <2>1, <2>2
       DEF IInv, TypeInv, EnrolsWhileLeft, StepWaits, Idle, dbus, biomd
<1>5. QED
  BY <1>3, <1>4

LEMMA InitIInv == Init => IInv
<1> SUFFICES ASSUME Init PROVE IInv
  OBVIOUS
<1>1. TypeInv
  <2>1. <<>> \in Seq(Signals) /\ "none" \in Replies
    BY DEF Replies
  <2>2. QED
    BY <2>1 DEF Init, pt_security_settings_fingerprint_available, TypeInv
<1>2. EnrolsWhileLeft /\ StepWaits
  BY DEF Init, EnrolsWhileLeft, StepWaits
<1>3. QED
  BY <1>1, <1>2 DEF IInv

LEMMA NextIInv == IInv /\ [Next]_vars => IInv'
<1> SUFFICES ASSUME IInv, [Next]_vars PROVE IInv'
  OBVIOUS
<1>0. TypeInv
  BY DEF IInv
<1> USE DEF Idle, dbus, ui, list, biomd
<1>1. CASE pt_security_settings_register_fingerprint
  <2>1. proxies' \in BOOLEAN
    BY <1>0, <1>1 DEF pt_security_settings_register_fingerprint, init_dbus_proxies, TypeInv
  <2>2. CASE subpage' = TRUE /\ refresh_fingerprint_list /\ reset_fingerprint_subpage_ui
    <3>1. finger_list' \subseteq Fingers /\ misread' \in BOOLEAN
      BY <1>0, <2>2, ListLemma
    <3>2. QED
      BY <1>0, <1>1, <2>1, <2>2, <3>1
         DEF pt_security_settings_register_fingerprint, reset_fingerprint_subpage_ui,
             IInv, TypeInv, EnrolsWhileLeft, StepWaits
  <2>3. CASE UNCHANGED ui
    BY <1>0, <1>1, <2>1, <2>3
       DEF pt_security_settings_register_fingerprint, IInv, TypeInv, EnrolsWhileLeft, StepWaits
  <2>4. QED
    BY <1>1, <2>2, <2>3 DEF pt_security_settings_register_fingerprint
<1>2. ASSUME NEW finger \in Fingers, on_finger_activated(finger)
      PROVE  IInv'
  BY <1>0, <1>2, FingerAssumption
     DEF on_finger_activated, IInv, TypeInv, EnrolsWhileLeft, StepWaits
<1>3. CASE fingerprint_enroll
  BY <1>0, <1>3
     DEF fingerprint_enroll, reset_fingerprint_subpage_ui, Replies, IInv, TypeInv,
         EnrolsWhileLeft, StepWaits
<1>4. CASE handle_signal
  BY <1>4, HandleLemma
<1>5. CASE Enroll
  BY <1>0, <1>5 DEF Enroll, Ending, Replies, IInv, TypeInv, EnrolsWhileLeft, StepWaits
<1>6. CASE Touch
  <2>1. PICK e \in {"progress", "hint"} : signals' = Append(signals, e)
    BY <1>6 DEF Touch
  <2>2. signals' \in Seq(Signals) /\ (Ends(signals) => Ends(signals'))
    BY <1>0, <2>1, AppendLemma DEF TypeInv, Signals
  <2>3. QED
    BY <1>0, <1>6, <2>2 DEF Touch, IInv, TypeInv, EnrolsWhileLeft, StepWaits
<1>7. ASSUME NEW s \in Ending, Conclude(s)
      PROVE  IInv'
  <2>1. /\ signals' \in Seq(Signals)
        /\ Ends(signals) \/ s = "complete" => Ends(signals')
    BY <1>0, <1>7, AppendLemma DEF Conclude, TypeInv, Ending, Signals
  <2>2. enrolling \in Fingers
    BY <1>0, <1>7 DEF Conclude, IInv, TypeInv, EnrolsWhileLeft
  <2>3. TypeInv'
    BY <1>0, <1>7, <2>1, <2>2 DEF Conclude, TypeInv
  <2>4. EnrolsWhileLeft' /\ StepWaits'
    BY <1>7, <2>1, <2>2, FingerAssumption DEF Conclude, IInv, EnrolsWhileLeft, StepWaits, Ending
  <2>5. QED
    BY <2>3, <2>4 DEF IInv
<1>8. CASE Fail
  <2>1. signals' \in Seq(Signals) /\ Ends(signals')
    BY <1>0, <1>8, AppendLemma DEF Fail, TypeInv, Signals
  <2>2. QED
    BY <1>0, <1>8, <2>1 DEF Fail, IInv, TypeInv, EnrolsWhileLeft, StepWaits
<1>9. CASE UNCHANGED vars
  BY <1>0, <1>9 DEF vars, IInv, TypeInv, EnrolsWhileLeft, StepWaits
<1>10. QED
  BY <1>1, <1>2, <1>3, <1>4, <1>5, <1>6, <1>7, <1>8, <1>9 DEF Next, Over

THEOREM FingerprintInvariant == Spec => []IInv
<1>1. QED BY InitIInv, NextIInv, PTL DEF Spec

\* The page and biomd stay in their types, also when calls fail.
THEOREM FingerprintTypes == Spec => []TypeOK
<1>1. IInv => TypeOK
  BY DEF IInv, TypeInv, TypeOK
<1>2. QED BY <1>1, FingerprintInvariant, PTL

\* The enrolment step is shown only while biomd enrols, or while the signal that
\* ends the step waits, also when property calls fail and Enroll times out.
THEOREM StepMeansEnrollingHolds == Spec => []StepMeansEnrolling
<1>1. IInv => StepMeansEnrolling
  BY DEF IInv, StepWaits, EnrolsWhileLeft, StepMeansEnrolling, Ends
<1>2. QED BY <1>1, FingerprintInvariant, PTL

\* biomd said that EnrolledFingers changed, and the page has not read it again.
ToRead(s) == \E i \in DOMAIN s : s[i] = "fingers"

\* The list of an open subpage is of what biomd has, of what it has not told the
\* page about yet, or of a read that failed.
Listed == subpage /\ ~misread => finger_list = Fingers \ enrolled \/ ToRead(signals)

\* A queue keeps the news of a change until it is handled.
LEMMA AppendNews ==
    ASSUME NEW s \in Seq(Signals), NEW e \in Signals, ToRead(s) \/ e = "fingers"
    PROVE  ToRead(Append(s, e))
<1>1. /\ Len(s) \in Nat /\ DOMAIN s = 1..Len(s) /\ DOMAIN Append(s, e) = 1..Len(s) + 1
      /\ \A i \in 1..Len(s) : Append(s, e)[i] = s[i]
      /\ Append(s, e)[Len(s) + 1] = e
  OBVIOUS
<1>2. QED
  BY <1>1 DEF ToRead

LEMMA TailNews ==
    ASSUME NEW s \in Seq(Signals), ToRead(s), Head(s) # "fingers"
    PROVE  ToRead(Tail(s))
<1>1. PICK i \in DOMAIN s : s[i] = "fingers"
  BY DEF ToRead
<1>2. i \in 1..Len(s) /\ i # 1 /\ s # <<>>
  BY <1>1
<1>3. i - 1 \in DOMAIN Tail(s) /\ Tail(s)[i - 1] = s[i]
  BY <1>2
<1>4. QED
  BY <1>1, <1>3 DEF ToRead

\* A list that was filled by reads that did not fail offers what is not enrolled.
LEMMA FreshList ==
    ASSUME TypeInv, refresh_fingerprint_list, ~misread'
    PROVE  finger_list' = Fingers \ enrolled
<1>1. PICK valid \in get_valid_finger_names, known \in get_enrolled_fingers :
        /\ finger_list' = IF valid = {} THEN finger_list ELSE valid \ known
        /\ misread' = (valid # Fingers \/ known # enrolled)
  BY DEF refresh_fingerprint_list
<1>2. valid = Fingers /\ known = enrolled
  BY <1>1
<1>3. QED
  BY <1>1, <1>2 DEF TypeInv

LEMMA HandleListed ==
    ASSUME IInv, Listed, handle_signal
    PROVE  Listed'
<1>1. /\ TypeInv /\ signals \in Seq(Signals) /\ signals # <<>> /\ signals' = Tail(signals)
      /\ Head(signals) \in Signals /\ enrolled' = enrolled
  BY TailLemma DEF handle_signal, IInv, TypeInv, biomd
<1>2. CASE Head(signals) \in Ending
  <2>1. refresh_fingerprint_list
    BY <1>2 DEF handle_signal, Ending
  <2>2. QED
    BY <1>1, <2>1, FreshList DEF Listed
<1>3. CASE Head(signals) \notin Ending
  <2>1. UNCHANGED <<subpage, list>>
    BY <1>1, <1>3 DEF handle_signal, Ending, Signals, ui
  <2>2. ToRead(signals) => ToRead(signals')
    BY <1>1, <1>3, TailNews DEF Ending
  <2>3. QED
    BY <1>1, <2>1, <2>2 DEF Listed, list
<1>4. QED
  BY <1>2, <1>3

LEMMA NextListed == IInv /\ Listed /\ [Next]_vars => Listed'
<1> SUFFICES ASSUME IInv, Listed, [Next]_vars PROVE Listed'
  OBVIOUS
<1>0. TypeInv /\ signals \in Seq(Signals)
  BY DEF IInv, TypeInv
<1> USE DEF dbus, ui, list, biomd
<1>1. CASE pt_security_settings_register_fingerprint
  <2>1. CASE refresh_fingerprint_list
    BY <1>0, <1>1, <2>1, FreshList DEF pt_security_settings_register_fingerprint, Listed
  <2>2. CASE UNCHANGED ui
    BY <1>1, <2>2 DEF pt_security_settings_register_fingerprint, Listed
  <2>3. QED
    BY <1>1, <2>1, <2>2 DEF pt_security_settings_register_fingerprint
<1>2. ASSUME NEW finger \in Fingers, on_finger_activated(finger)
      PROVE  Listed'
  BY <1>2 DEF on_finger_activated, Listed
<1>3. CASE fingerprint_enroll
  BY <1>3 DEF fingerprint_enroll, Listed
<1>4. CASE handle_signal
  BY <1>4, HandleListed
<1>5. CASE Enroll
  BY <1>5 DEF Enroll, Listed
<1>6. CASE Touch
  <2>1. PICK e \in {"progress", "hint"} : signals' = Append(signals, e)
    BY <1>6 DEF Touch
  <2>2. ToRead(signals) => ToRead(signals')
    BY <1>0, <2>1, AppendNews DEF Signals
  <2>3. QED
    BY <1>6, <2>2 DEF Touch, Listed
<1>7. ASSUME NEW s \in Ending, Conclude(s)
      PROVE  Listed'
  <2>1. ToRead(signals) \/ s = "fingers" => ToRead(signals')
    BY <1>0, <1>7, AppendNews DEF Conclude, Ending, Signals
  <2>2. QED
    BY <1>7, <2>1 DEF Conclude, Listed
<1>8. CASE Fail
  <2>1. ToRead(signals) => ToRead(signals')
    BY <1>0, <1>8, AppendNews DEF Fail, Signals
  <2>2. QED
    BY <1>8, <2>1 DEF Fail, Listed
<1>9. CASE UNCHANGED vars
  BY <1>9 DEF vars, Listed
<1>10. QED
  BY <1>1, <1>2, <1>3, <1>4, <1>5, <1>6, <1>7, <1>8, <1>9 DEF Next, Over

\* Once every signal is handled the open subpage offers the fingers that are not
\* enrolled and no other, whichever end of the enrolment biomd told first.
THEOREM OffersTheRestHolds == Spec => []OffersTheRest
<1>1. Init => Listed
  BY DEF Init, Listed
<1>2. Listed => OffersTheRest
  BY DEF Listed, OffersTheRest, ToRead
<1>3. QED BY <1>1, <1>2, NextListed, FingerprintInvariant, PTL DEF Spec
=============================================================================

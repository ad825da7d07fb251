-------------------------- MODULE Carousel_proofs ---------------------------
(***************************************************************************)
(* Proofs about the window.  Carousel: the banner, the buttons and the     *)
(* gate of the update page, for every order of clicks, swipes and          *)
(* notifications.  Scaling: the postponed values of the slider.  MCWindow: *)
(* both side by side.                                                      *)
(***************************************************************************)
EXTENDS MCWindow, TLAPS

\* An animation has somewhere to go.
Moving == target # NoPage => 2 * target # pos2

\* A skip ends the blocking of a page that was begun.
SkippedIsReady == updates_skipped => begun /\ ready

\* The inductive invariant: TypeOK needs Moving (an animation does not run off
\* the carousel), and the gate needs SkippedIsReady (only a skip throws the
\* carousel forward).
IInv == TypeOK /\ Moving /\ SkippedIsReady /\ BannerFits /\ ButtonsFit

\* Where a position lies, and what the neighbours of its page are.
LEMMA PageLemma ==
    ASSUME NEW p \in 0..2 * LastPage
    PROVE  /\ Page(p) \in Pages
           /\ 2 * Page(p) = p \/ 2 * Page(p) + 1 = p
BY SMT DEF Page, Pages, LastPage

LEMMA ForcedLemma ==
    ASSUME NEW p \in 0..2 * LastPage, NEW skip \in BOOLEAN, NEW pwd \in PageOrNull
    PROVE  /\ Forced(p, skip, pwd) \in 0..2 * LastPage
           /\ ~skip => Forced(p, skip, pwd) = p
<1>1. pwd # NoPage => 2 * pwd \in 0..2 * LastPage
  BY DEF PageOrNull, Pages, LastPage
<1>2. QED
  BY <1>1 DEF Forced

\* A notify of the position leaves the buttons and the banner as they fit the
\* page the carousel is then at, if it saw the values the flags end up with.
LEMMA EmitLemma ==
    ASSUME TypeOK, NEW p \in 0..2 * LastPage, NEW rdy \in BOOLEAN, NEW sec \in BOOLEAN,
           Emit(p, rdy, sec, updates_skipped, password_page)
    PROVE  /\ pos2' \in 0..2 * LastPage
           /\ next_ok' \in BOOLEAN /\ prev_ok' \in BOOLEAN
           /\ banner' \in {"hidden", "shown", "hiding"}
           /\ next_ok' <=> CanProceed(Page(pos2'), rdy, sec)
           /\ banner' = "shown" <=> Shows(pos2', rdy, updates_skipped)
           /\ ~updates_skipped => pos2' = p
<1>1. pos2' = Forced(p, updates_skipped, password_page)
  BY DEF Emit
<1>2. pos2' \in 0..2 * LastPage /\ (~updates_skipped => pos2' = p)
  BY <1>1, ForcedLemma DEF TypeOK
<1>3. /\ next_ok' \in BOOLEAN /\ prev_ok' \in BOOLEAN
      /\ next_ok' <=> CanProceed(Page(pos2'), rdy, sec)
  BY DEF Emit, CanProceed, get_btn_previous_sensitive
<1>4. /\ banner' \in {"hidden", "shown", "hiding"}
      /\ banner' = "shown" <=> Shows(pos2', rdy, updates_skipped)
  <2>1. banner' = IF Shows(pos2', rdy, updates_skipped) THEN "shown" ELSE Hide
    BY DEF Emit
  <2>2. Hide \in {"hidden", "hiding"}
    BY DEF Hide, TypeOK
  <2>3. QED
    BY <2>1, <2>2
<1>5. QED
  BY <1>2, <1>3, <1>4

\* A step that only chooses where to go.
LEMMA StillLemma ==
    ASSUME IInv, Still, NEW page \in Pages, scroll_to(page, pos2)
    PROVE  IInv'
<1>1. target' \in PageOrNull /\ Moving'
  BY PageAssumption DEF scroll_to, Still, Moving, PageOrNull
<1>2. TypeOK' /\ SkippedIsReady'
  BY <1>1 DEF IInv, Still, update, TypeOK, SkippedIsReady
<1>3. BannerFits' /\ ButtonsFit'
  BY DEF IInv, Still, update, BannerFits, ButtonsFit
<1>4. QED
  BY <1>1, <1>2, <1>3 DEF IInv

\* A page's can-proceed changed while the carousel stood or moved.
LEMMA CanProceedLemma ==
    ASSUME IInv, NEW rdy \in BOOLEAN, NEW sec \in BOOLEAN, can_proceed_changed(rdy, sec),
           ready' = rdy, security' = sec, begun' \in BOOLEAN,
           UNCHANGED <<updates_skipped, password_page, committed>>,
           updates_skipped => begun' /\ rdy
    PROVE  IInv'
<1>1. TypeOK /\ pos2 \in 0..2 * LastPage
  BY DEF IInv, TypeOK
<1>2. Emit(pos2, rdy, sec, updates_skipped, password_page)
  BY DEF can_proceed_changed
<1>3. target' \in PageOrNull /\ Moving'
  BY <1>1 DEF IInv, TypeOK, PageOrNull, can_proceed_changed, Moving
<1>4. TypeOK' /\ SkippedIsReady'
  BY <1>1, <1>2, <1>3, EmitLemma DEF TypeOK, SkippedIsReady
<1>5. BannerFits' /\ ButtonsFit'
  BY <1>1, <1>2, EmitLemma DEF BannerFits, ButtonsFit, Shows
<1>6. QED
  BY <1>3, <1>4, <1>5 DEF IInv

LEMMA AnimateLemma == ASSUME IInv, Animate PROVE IInv'
<1>1. TypeOK /\ Moving
  BY DEF IInv
<1>2. PICK p \in 0..2 * LastPage :
          /\ Emit(p, ready, security, updates_skipped, password_page)
          /\ target' = IF pos2' # p \/ p = 2 * target THEN NoPage ELSE target
  <2>1. target \in Pages
    BY <1>1 DEF Animate, TypeOK, PageOrNull
  <2>2. (IF 2 * target > pos2 THEN pos2 + 1 ELSE pos2 - 1) \in 0..2 * LastPage
    BY <1>1, <2>1 DEF Animate, TypeOK, Moving, Pages, LastPage
  <2>3. QED
    BY <2>2 DEF Animate
<1>3. ready \in BOOLEAN /\ security \in BOOLEAN
  BY <1>1 DEF TypeOK
<1>4. target' \in PageOrNull /\ Moving'
  BY <1>1, <1>2 DEF TypeOK, PageOrNull, Moving
<1>5. TypeOK' /\ SkippedIsReady'
  BY <1>1, <1>2, <1>3, <1>4, EmitLemma DEF IInv, Animate, update, TypeOK, SkippedIsReady
<1>6. BannerFits' /\ ButtonsFit'
  BY <1>1, <1>2, <1>3, EmitLemma DEF Animate, update, BannerFits, ButtonsFit, Shows
<1>7. QED
  BY <1>4, <1>5, <1>6 DEF IInv

LEMMA SkipLemma == ASSUME IInv, SkipUpdates PROVE IInv'
<1>1. TypeOK /\ pos2 \in 0..2 * LastPage /\ security \in BOOLEAN
  BY DEF IInv, TypeOK
<1>2. /\ Emit(pos2, TRUE, security, updates_skipped, password_page)
      /\ begun /\ begun' = begun /\ ready' = TRUE /\ updates_skipped' = TRUE
      /\ UNCHANGED <<security, committed>>
      /\ goto_page(Page(pos2') + 1, pos2')
  BY DEF SkipUpdates, Update!Skip
<1>3. pos2' \in 0..2 * LastPage
  BY <1>1, <1>2, EmitLemma
<1>4. password_page' \in PageOrNull
  <2>1. Page(pos2') \in Pages
    BY <1>3, PageLemma
  <2>2. QED
    BY <2>1 DEF SkipUpdates, PageOrNull, Pages, LastPage
<1>5. target' \in PageOrNull /\ Moving'
  <2>1. CASE Page(pos2') + 1 \in Pages
    BY <1>2, <2>1, PageAssumption DEF goto_page, scroll_to, PageOrNull, Moving
  <2>2. CASE Page(pos2') + 1 \notin Pages
    BY <1>1, <1>2, <2>2 DEF IInv, goto_page, TypeOK, PageOrNull, Moving
  <2>3. QED
    BY <2>1, <2>2
<1>6. TypeOK' /\ SkippedIsReady'
  BY <1>1, <1>2, <1>3, <1>4, <1>5, EmitLemma DEF TypeOK, SkippedIsReady
<1>7. BannerFits' /\ ButtonsFit'
  BY <1>1, <1>2, EmitLemma DEF BannerFits, ButtonsFit, Shows
<1>8. QED
  BY <1>5, <1>6, <1>7 DEF IInv

LEMMA InitIInv == Init => IInv
<1> SUFFICES ASSUME Init PROVE IInv
  OBVIOUS
<1> USE DEF Init, Update!Init
<1>1. TypeOK /\ Moving /\ SkippedIsReady
  <2>1. pos2 \in 0..2 * LastPage /\ target \in PageOrNull /\ password_page \in PageOrNull
    BY DEF PageOrNull, LastPage
  <2>2. QED
    BY <2>1 DEF TypeOK, Moving, SkippedIsReady
<1>2. Page(0) = 0
  BY PageLemma DEF Page
<1>3. BannerFits /\ ButtonsFit
  BY <1>2 DEF BannerFits, ButtonsFit, CanProceed, NetworkPage, SecurityPage
<1>4. QED
  BY <1>1, <1>3 DEF IInv

\* A flip by one page goes nowhere else than to a neighbour.
LEMMA FlipLemma == ASSUME IInv, FlipNext \/ FlipPrevious PROVE IInv'
<1>1. PICK page : goto_page(page, pos2) /\ Still
  BY DEF FlipNext, FlipPrevious
<1>2. CASE page \in Pages
  BY <1>1, <1>2, StillLemma DEF goto_page
<1>3. CASE page \notin Pages
  BY <1>1, <1>3 DEF goto_page, Still, update, IInv, TypeOK, Moving, SkippedIsReady,
                    BannerFits, ButtonsFit
<1>4. QED
  BY <1>2, <1>3

LEMMA NextIInv == IInv /\ [Next]_vars => IInv'
<1> SUFFICES ASSUME IInv, [Next]_vars PROVE IInv'
  OBVIOUS
<1>0. TypeOK /\ SkippedIsReady
  BY DEF IInv
<1>1. CASE FlipNext \/ FlipPrevious
  BY <1>1, FlipLemma
<1>2. ASSUME NEW page \in Pages, Swipe(page)
      PROVE  IInv'
  BY <1>2, StillLemma DEF Swipe
<1>3. CASE Animate
  BY <1>3, AnimateLemma
<1>4. CASE Connected
  BY <1>0, <1>4, CanProceedLemma DEF Connected, Update!Begin, TypeOK, SkippedIsReady
<1>5. CASE UpdatesReady
  BY <1>0, <1>5, CanProceedLemma DEF UpdatesReady, Update!Finish, TypeOK
<1>6. CASE BannerGone
  BY <1>6 DEF BannerGone, update, IInv, TypeOK, Moving, SkippedIsReady, BannerFits,
              ButtonsFit
<1>7. CASE SkipUpdates
  BY <1>7, SkipLemma
<1>8. CASE Edit
  BY <1>0, <1>8, CanProceedLemma DEF Edit, update, TypeOK, SkippedIsReady
<1>9. CASE Finish
  BY <1>9 DEF Finish, update, IInv, TypeOK, Moving, SkippedIsReady, BannerFits, ButtonsFit
<1>10. CASE CommitRefused
  <2>1. SecurityPage \in Pages
    BY DEF SecurityPage, Pages
  <2>2. QED
    BY <1>10, <2>1, StillLemma DEF CommitRefused
<1>11. CASE UNCHANGED vars
  BY <1>11 DEF vars, update, IInv, TypeOK, Moving, SkippedIsReady, BannerFits, ButtonsFit
<1>12. QED
  BY <1>1, <1>2, <1>3, <1>4, <1>5, <1>6, <1>7, <1>8, <1>9, <1>10, <1>11 DEF Next

THEOREM CarouselInvariant == Spec => []IInv
<1>1. QED BY InitIInv, NextIInv, PTL DEF Spec

\* The carousel stays on its pages, and what points to a page does.
THEOREM CarouselTypes == Spec => []TypeOK
<1>1. IInv => TypeOK
  BY DEF IInv
<1>2. QED BY <1>1, CarouselInvariant, PTL

\* The banner is up exactly while the update page blocks and is in front; the
\* next button and swiping follow the page in front.
THEOREM ControlsFitHolds == Spec => []ControlsFit
<1>1. IInv => ControlsFit
  BY DEF IInv, ControlsFit
<1>2. QED BY <1>1, CarouselInvariant, PTL

-----------------------------------------------------------------------------
(* The gate.                                                               *)

LEMMA GateStep ==
    ASSUME IInv, [Next]_vars, ~committed, begun', ~ready', pos2 <= 2 * NetworkPage
    PROVE  /\ Within(target') \/ target' = target
           /\ Within(target) => pos2' <= 2 * NetworkPage
<1>0. TypeOK /\ ButtonsFit /\ Moving /\ SkippedIsReady /\ pos2 \in 0..2 * LastPage
  BY DEF IInv, TypeOK
<1>1. CASE Connected
  <2>1. ~updates_skipped /\ Emit(pos2, FALSE, security, updates_skipped, password_page)
    BY <1>0, <1>1 DEF Connected, Update!Begin, SkippedIsReady, can_proceed_changed
  <2>2. pos2' = pos2
    BY <1>0, <2>1, EmitLemma DEF TypeOK
  <2>3. target' = target
    BY <1>1, <2>2 DEF Connected, can_proceed_changed
  <2>4. QED
    BY <2>2, <2>3
<1>2. ~UpdatesReady /\ ~SkipUpdates /\ ~CommitRefused
  BY DEF UpdatesReady, SkipUpdates, CommitRefused, Update!Finish, Update!Skip
<1>3. ASSUME begun, ~ready
      PROVE  /\ ~updates_skipped
             /\ next_ok => pos2 < 2 * NetworkPage
             /\ Page(pos2) \in Pages /\ Page(pos2) <= NetworkPage
  <2>1. CASE Page(pos2) = NetworkPage
    <3>1. ~next_ok
      BY <1>0, <1>3, <2>1 DEF ButtonsFit, CanProceed
    <3>2. QED
      BY <1>0, <1>3, <2>1, <3>1 DEF SkippedIsReady, NetworkPage, Pages
  <2>2. CASE Page(pos2) # NetworkPage
    BY <1>0, <1>3, <2>2, PageLemma DEF SkippedIsReady, NetworkPage, Pages, LastPage
  <2>3. QED
    BY <2>1, <2>2
<1>4. CASE FlipNext
  <2>1. begun /\ ~ready
    BY <1>4 DEF FlipNext, Still, update
  <2>2. Page(pos2) + 1 <= NetworkPage /\ Page(pos2) + 1 \in Pages
    BY <1>0, <1>3, <1>4, <2>1, PageLemma DEF FlipNext, NetworkPage, Pages, LastPage
  <2>3. QED
    BY <1>4, <2>2 DEF FlipNext, goto_page, scroll_to, Still, Within
<1>5. CASE FlipPrevious
  <2>1. begun /\ ~ready
    BY <1>5 DEF FlipPrevious, Still, update
  <2>2. Page(pos2) - 1 <= NetworkPage
    BY <1>3, <2>1 DEF NetworkPage, Pages
  <2>3. QED
    BY <1>5, <2>2 DEF FlipPrevious, goto_page, scroll_to, Still, Within
<1>6. CASE \E page \in Pages : Swipe(page)
  <2>1. PICK page \in Pages : Swipe(page)
    BY <1>6
  <2>2. begun /\ ~ready
    BY <2>1 DEF Swipe, Still, update
  <2>3. page <= NetworkPage
    BY <1>0, <1>3, <2>1, <2>2 DEF Swipe, NetworkPage, Pages, LastPage
  <2>4. QED
    BY <2>1, <2>3 DEF Swipe, scroll_to, Still, Within
<1>7. CASE Animate
  <2>1. target \in Pages /\ ~updates_skipped
    BY <1>0, <1>3, <1>7 DEF Animate, update, TypeOK, PageOrNull
  <2>2. PICK p \in 0..2 * LastPage :
            /\ Within(target) => p <= 2 * NetworkPage
            /\ Emit(p, ready, security, updates_skipped, password_page)
            /\ target' = IF pos2' # p \/ p = 2 * target THEN NoPage ELSE target
    <3>1. LET q == IF 2 * target > pos2 THEN pos2 + 1 ELSE pos2 - 1
          IN  q \in 0..2 * LastPage /\ (Within(target) => q <= 2 * NetworkPage)
      BY <1>0, <1>7, <2>1, PageAssumption
         DEF Animate, Moving, Within, Pages, LastPage, NetworkPage
    <3>2. QED
      BY <1>7, <3>1 DEF Animate
  <2>3. pos2' = p
    BY <1>0, <2>1, <2>2, EmitLemma DEF TypeOK
  <2>4. QED
    BY <2>2, <2>3 DEF Within
<1>8. CASE BannerGone \/ Finish \/ UNCHANGED vars
  BY <1>8 DEF BannerGone, Finish, vars
<1>9. CASE Edit
  BY <1>9 DEF Edit, SecurityPage, NetworkPage
<1>10. QED
  BY <1>1, <1>2, <1>4, <1>5, <1>6, <1>7, <1>8, <1>9 DEF Next

\* From the connection until the update page ends or is skipped, no button, swipe
\* or notification starts to take the user past it, and no animation but one that
\* was on its way there when the connection came does so.
THEOREM GateHoldsAlways == Spec => GateHolds
<1>1. IInv /\ [Next]_vars =>
        [~committed /\ begun' /\ ~ready' /\ pos2 <= 2 * NetworkPage
         => /\ Within(target') \/ target' = target
            /\ Within(target) => pos2' <= 2 * NetworkPage]_vars
  BY GateStep
<1>2. QED
  BY <1>1, CarouselInvariant, PTL DEF Spec, GateHolds

-----------------------------------------------------------------------------
(* After a skip.                                                           *)

\* What on_carousel_position_changed can do to the position.
Notified(p) == pos2' = Forced(p, updates_skipped, password_page)

\* A step leaves the carousel where it is, or is a notify of a position.
LEMMA NotifiedLemma ==
    ASSUME IInv, [Next]_vars
    PROVE  pos2' = pos2 \/ \E p \in 0..2 * LastPage : Notified(p)
<1>0. pos2 \in 0..2 * LastPage
  BY DEF IInv, TypeOK
<1>1. CASE FlipNext \/ FlipPrevious \/ (\E page \in Pages : Swipe(page)) \/ CommitRefused
  BY <1>1 DEF FlipNext, FlipPrevious, Swipe, CommitRefused, Still
<1>2. CASE Animate
  <2>1. (IF 2 * target > pos2 THEN pos2 + 1 ELSE pos2 - 1) \in 0..2 * LastPage
    BY <1>0, <1>2 DEF Animate, IInv, TypeOK, PageOrNull, Moving, Pages, LastPage
  <2>2. QED
    BY <1>2, <2>1 DEF Animate, Emit, Notified
<1>3. CASE Connected \/ UpdatesReady \/ Edit
  BY <1>0, <1>3 DEF Connected, UpdatesReady, Edit, can_proceed_changed, Emit, Notified
<1>4. CASE SkipUpdates
  BY <1>0, <1>4 DEF SkipUpdates, Emit, Notified
<1>5. CASE BannerGone \/ Finish \/ UNCHANGED vars
  BY <1>5 DEF BannerGone, Finish, vars
<1>6. QED
  BY <1>1, <1>2, <1>3, <1>4, <1>5 DEF Next

\* A notify never leaves the carousel before the page that follows skipped updates.
LEMMA ForcedFar ==
    ASSUME NEW p \in 0..2 * LastPage, NEW pwd \in Pages, NEW skip \in BOOLEAN, skip
    PROVE  Page(Forced(p, skip, pwd)) >= pwd
<1>1. Page(p) \in Int /\ Page(2 * pwd) = pwd /\ pwd \in Int /\ pwd # NoPage
  BY PageLemma, PageAssumption DEF Page, Pages
<1>2. QED
  BY <1>1 DEF Forced

\* Once the updates are skipped and the page after them is reached, nothing shows
\* an earlier page.
THEOREM SkipSticksHolds == Spec => SkipSticks
<1>1. IInv /\ [Next]_vars =>
        [updates_skipped /\ password_page' = password_page /\ password_page # NoPage
           /\ Page(pos2) >= password_page => Page(pos2') >= password_page]_vars
  <2> SUFFICES ASSUME IInv, [Next]_vars, updates_skipped, password_page # NoPage,
                      Page(pos2) >= password_page
               PROVE  Page(pos2') >= password_page
    OBVIOUS
  <2>1. password_page \in Pages /\ updates_skipped \in BOOLEAN
    BY DEF IInv, TypeOK, PageOrNull
  <2>2. ASSUME NEW p \in 0..2 * LastPage, Notified(p)
        PROVE  Page(pos2') >= password_page
    BY <2>1, <2>2, ForcedFar DEF Notified
  <2>3. QED
    BY <2>2, NotifiedLemma
<1>2. QED
  BY <1>1, CarouselInvariant, PTL DEF Spec, SkipSticks

\* The updates were not skipped, or so that the page after them is the security
\* page.
SkippedOnce == ~updates_skipped \/ password_page = SecurityPage

\* Where the carousel is and goes beyond the security page only with a passcode.
Passcode ==
    SkippedOnce => \/ security
                   \/ /\ pos2 <= 2 * SecurityPage
                      /\ target = NoPage \/ target <= SecurityPage

\* A step of the user that only chooses a page.
LEMMA PasscodeStill ==
    ASSUME IInv, Passcode, Still,
           \/ target' = NoPage
           \/ target' \in Pages /\ (target' > SecurityPage => next_ok /\ pos2 >= 2 * SecurityPage)
    PROVE  Passcode'
<1>1. /\ pos2' = pos2 /\ security' = security /\ updates_skipped' = updates_skipped
      /\ password_page' = password_page /\ pos2 \in 0..2 * LastPage
  BY DEF Still, update, IInv, TypeOK
<1>2. ASSUME SkippedOnce, ~security, next_ok, pos2 >= 2 * SecurityPage
      PROVE  FALSE
  <2>1. pos2 = 2 * SecurityPage
    BY <1>1, <1>2 DEF Passcode, SecurityPage, LastPage
  <2>2. Page(pos2) = SecurityPage
    BY <2>1 DEF Page, SecurityPage
  <2>3. QED
    BY <1>2, <2>2 DEF IInv, ButtonsFit, CanProceed
<1>3. QED
  BY <1>1, <1>2 DEF Passcode, SkippedOnce, Pages, SecurityPage

\* A page's can-proceed changed, or the carousel moved a half page to p.
LEMMA PasscodeNotified ==
    ASSUME IInv, Passcode, NEW p \in 0..2 * LastPage, Notified(p),
           UNCHANGED <<updates_skipped, password_page>>,
           SkippedOnce => security' \/ (p <= 2 * SecurityPage
                                          /\ (target' = NoPage \/ target' <= SecurityPage))
    PROVE  Passcode'
<1> SUFFICES ASSUME SkippedOnce, ~security'
             PROVE  /\ pos2' <= 2 * SecurityPage
                    /\ target' = NoPage \/ target' <= SecurityPage
  BY DEF Passcode, SkippedOnce
<1>1. p <= 2 * SecurityPage /\ (target' = NoPage \/ target' <= SecurityPage)
  OBVIOUS
<1>2. pos2' = p \/ pos2' = 2 * SecurityPage
  BY DEF Notified, Forced, SkippedOnce
<1>3. QED
  BY <1>1, <1>2 DEF SecurityPage

LEMMA PasscodeSkip ==
    ASSUME IInv, Passcode, SkipUpdates
    PROVE  Passcode'
<1>1. /\ pos2 \in 0..2 * LastPage /\ security \in BOOLEAN /\ TypeOK
      /\ Emit(pos2, TRUE, security, updates_skipped, password_page)
      /\ goto_page(Page(pos2') + 1, pos2')
      /\ updates_skipped' = TRUE
  BY DEF SkipUpdates, IInv, TypeOK, Update!Skip
<1>2. pos2' \in 0..2 * LastPage
  BY <1>1, EmitLemma
<1>3. CASE Page(pos2') = NetworkPage
  <2>1. pos2' <= 2 * SecurityPage
    BY <1>2, <1>3, PageLemma DEF NetworkPage, SecurityPage
  <2>2. Page(pos2') + 1 = SecurityPage /\ SecurityPage \in Pages
    BY <1>3 DEF NetworkPage, SecurityPage, Pages
  <2>3. target' = NoPage \/ target' = SecurityPage
    BY <1>1, <2>2 DEF goto_page, scroll_to
  <2>4. QED
    BY <2>1, <2>3 DEF Passcode, SecurityPage
<1>4. CASE Page(pos2') # NetworkPage
  <2>1. Page(pos2') \in Pages
    BY <1>2, PageLemma
  <2>2. Page(pos2') + 1 # SecurityPage
    BY <1>4, <2>1 DEF NetworkPage, SecurityPage, Pages
  <2>3. password_page' # SecurityPage
    BY <2>2, PageAssumption DEF SkipUpdates, SecurityPage, Pages
  <2>4. QED
    BY <1>1, <2>3 DEF Passcode, SkippedOnce
<1>5. QED
  BY <1>3, <1>4

LEMMA NextPasscode == IInv /\ Passcode /\ [Next]_vars => Passcode'
<1> SUFFICES ASSUME IInv, Passcode, [Next]_vars PROVE Passcode'
  OBVIOUS
<1>0. /\ TypeOK /\ pos2 \in 0..2 * LastPage /\ target \in PageOrNull
      /\ SecurityPage \in Pages
  BY DEF IInv, TypeOK, SecurityPage, Pages
<1>1. CASE FlipNext
  <2>1. Page(pos2) + 1 > SecurityPage => pos2 >= 2 * SecurityPage
    BY <1>0, PageLemma DEF SecurityPage, Pages, LastPage
  <2>2. CASE Page(pos2) + 1 \in Pages
    BY <1>1, <2>1, <2>2, PasscodeStill DEF FlipNext, goto_page, scroll_to
  <2>3. CASE Page(pos2) + 1 \notin Pages
    BY <1>1, <2>3 DEF FlipNext, goto_page, Still, update, Passcode, SkippedOnce
  <2>4. QED
    BY <2>2, <2>3
<1>2. CASE FlipPrevious
  <2>1. Page(pos2) - 1 > SecurityPage => pos2 > 2 * SecurityPage + 1
    BY <1>0, PageLemma DEF SecurityPage, Pages, LastPage
  <2>2. CASE Page(pos2) - 1 \in Pages
    <3>1. Page(pos2) - 1 > SecurityPage => next_ok
      BY <1>0, PageLemma DEF IInv, ButtonsFit, CanProceed, SecurityPage, NetworkPage, Pages
    <3>2. Page(pos2) - 1 > SecurityPage => pos2 >= 2 * SecurityPage
      BY <1>0, <2>1 DEF SecurityPage
    <3>3. QED
      BY <1>2, <2>2, <3>1, <3>2, PasscodeStill DEF FlipPrevious, goto_page, scroll_to
  <2>3. CASE Page(pos2) - 1 \notin Pages
    BY <1>2, <2>3 DEF FlipPrevious, goto_page, Still, update, Passcode, SkippedOnce
  <2>4. QED
    BY <2>2, <2>3
<1>3. ASSUME NEW page \in Pages, Swipe(page)
      PROVE  Passcode'
  <2>1. page > SecurityPage => pos2 >= 2 * SecurityPage
    BY <1>0, <1>3 DEF Swipe, SecurityPage, Pages, LastPage
  <2>2. QED
    BY <1>3, <2>1, PasscodeStill DEF Swipe, scroll_to
<1>4. CASE Animate
  <2>1. target \in Pages /\ UNCHANGED <<updates_skipped, password_page, security>>
    BY <1>0, <1>4 DEF Animate, PageOrNull, update
  <2>2. PICK p \in 0..2 * LastPage :
            /\ Notified(p)
            /\ p = IF 2 * target > pos2 THEN pos2 + 1 ELSE pos2 - 1
            /\ target' = IF pos2' # p \/ p = 2 * target THEN NoPage ELSE target
    <3>1. LET q == IF 2 * target > pos2 THEN pos2 + 1 ELSE pos2 - 1
          IN  q \in 0..2 * LastPage
      BY <1>0, <1>4, <2>1 DEF Animate, IInv, Moving, Pages, LastPage
    <3>2. QED
      BY <1>4, <3>1 DEF Animate, Emit, Notified
  <2>3. ASSUME SkippedOnce, ~security
        PROVE  p <= 2 * SecurityPage /\ (target' = NoPage \/ target' <= SecurityPage)
    <3>1. pos2 <= 2 * SecurityPage /\ target <= SecurityPage
      BY <1>4, <2>3 DEF Animate, Passcode
    <3>2. QED
      BY <1>0, <2>1, <2>2, <3>1 DEF SecurityPage, LastPage, Pages
  <2>4. QED
    BY <2>1, <2>2, <2>3, PasscodeNotified
<1>5. CASE Connected \/ UpdatesReady
  <2>1. /\ UNCHANGED <<updates_skipped, password_page, security>> /\ Notified(pos2)
        /\ target' = IF pos2' = pos2 THEN target ELSE NoPage
    BY <1>5 DEF Connected, UpdatesReady, Update!Begin, Update!Finish, can_proceed_changed,
                Emit, Notified
  <2>2. QED
    BY <1>0, <2>1, PasscodeNotified DEF Passcode
<1>6. CASE Edit
  <2>1. /\ UNCHANGED <<updates_skipped, password_page>> /\ Notified(pos2)
        /\ target' = IF pos2' = pos2 THEN target ELSE NoPage
        /\ pos2 = 2 * SecurityPage /\ target = NoPage
    BY <1>6 DEF Edit, update, can_proceed_changed, Emit, Notified
  <2>2. pos2 <= 2 * SecurityPage /\ target' = NoPage
    BY <1>0, <2>1 DEF SecurityPage
  <2>3. QED
    BY <1>0, <2>1, <2>2, PasscodeNotified
<1>7. CASE SkipUpdates
  BY <1>7, PasscodeSkip
<1>8. CASE CommitRefused
  BY <1>0, <1>8, PasscodeStill DEF CommitRefused, scroll_to, SecurityPage
<1>9. CASE BannerGone \/ Finish \/ UNCHANGED vars
  BY <1>9 DEF BannerGone, Finish, vars, update, Passcode, SkippedOnce
<1>10. QED
  BY <1>1, <1>2, <1>3, <1>4, <1>5, <1>6, <1>7, <1>8, <1>9 DEF Next

\* Unless the skip was clicked again on a banner that slides away, no button,
\* swipe, throw or notification takes the user past the security page without
\* a passcode that fits.
THEOREM PasscodeFirstHolds == Spec => []PasscodeFirst
<1>1. Init => Passcode
  BY DEF Init, Passcode, SecurityPage
<1>2. IInv /\ Passcode => PasscodeFirst
  BY DEF IInv, TypeOK, Passcode, SkippedOnce, PasscodeFirst, SecurityPage, LastPage
<1>3. QED BY <1>1, <1>2, NextPasscode, CarouselInvariant, PTL DEF Spec

-----------------------------------------------------------------------------
(* The slider on the second page, alone.                                   *)

\* Each part is inductive with the types.
SliderInv == Slider!TypeOK /\ Slider!NothingLost

\* pt_set_scaling, for the value the slider has when it returns: either it
\* stores that value, or it leaves a postponed call that will.
LEMMA SetScalingLemma ==
    ASSUME Slider!ScalingAssumption, Slider!TypeOK,
           NEW left \in 0..MaxTimers, left < MaxTimers, NEW v \in Slider!Scales,
           Slider!pt_set_scaling(left, v)
    PROVE  /\ timers' \in 0..MaxTimers /\ config' \in Slider!Scales
           /\ config' = v \/ timers' > 0
BY DEF Slider!ScalingAssumption, Slider!TypeOK, Slider!pt_set_scaling

\* No value of the slider is lost, however often it is pressed and moved before
\* a postponed call gets to see it released.
THEOREM NothingLostHolds ==
    ASSUME Slider!ScalingAssumption
    PROVE  Slider!Spec => [](Slider!TypeOK /\ Slider!NothingLost)
<1>1. Slider!Init => SliderInv
  <2> SUFFICES ASSUME Slider!Init PROVE SliderInv
    OBVIOUS
  <2>1. 0 \in 0..MaxTimers
    BY DEF Slider!ScalingAssumption
  <2>2. QED
    BY <2>1 DEF Slider!Init, SliderInv, Slider!TypeOK, Slider!NothingLost
<1>2. SliderInv /\ [Slider!Next]_(Slider!vars) => SliderInv'
  <2> SUFFICES ASSUME SliderInv, [Slider!Next]_(Slider!vars) PROVE SliderInv'
    OBVIOUS
  <2>0. Slider!TypeOK /\ Slider!NothingLost
    BY DEF SliderInv
  <2>1. CASE Slider!ValueChanged
    <3>1. /\ value' \in Slider!Scales /\ timers \in 0..MaxTimers /\ timers < MaxTimers
          /\ Slider!pt_set_scaling(timers, value')
      BY <2>0, <2>1 DEF Slider!ValueChanged, Slider!TypeOK
    <3>2. QED
      BY <2>0, <2>1, <3>1, SetScalingLemma
         DEF Slider!ValueChanged, SliderInv, Slider!TypeOK, Slider!NothingLost
  <2>2. CASE Slider!Timeout
    <3>1. /\ timers - 1 \in 0..MaxTimers /\ timers - 1 < MaxTimers
          /\ value \in Slider!Scales /\ Slider!pt_set_scaling(timers - 1, value)
      BY <2>0, <2>2 DEF Slider!Timeout, Slider!TypeOK, Slider!ScalingAssumption
    <3>2. QED
      BY <2>0, <2>2, <3>1, SetScalingLemma
         DEF Slider!Timeout, SliderInv, Slider!TypeOK, Slider!NothingLost
  <2>3. CASE Slider!Press \/ Slider!Release
    BY <2>0, <2>3 DEF Slider!Press, Slider!Release, SliderInv, Slider!TypeOK, Slider!NothingLost
  <2>4. CASE UNCHANGED Slider!vars
    BY <2>0, <2>4 DEF Slider!vars, SliderInv, Slider!TypeOK, Slider!NothingLost
  <2>5. QED
    BY <2>1, <2>2, <2>3, <2>4 DEF Slider!Next
<1>3. QED
  BY <1>1, <1>2, PTL DEF Slider!Spec, SliderInv

-----------------------------------------------------------------------------
(* The window: the carousel and the slider side by side.                   *)

\* A step of the window is a step of each part or leaves it alone: the slider
\* cannot move the carousel, and the other way round.
LEMMA WindowStep ==
    ASSUME [Move \/ TouchSlider \/ Later]_<<vars, slider>>
    PROVE  [Next]_vars /\ [Slider!Next]_(Slider!vars)
<1>1. CASE Move
  BY <1>1 DEF Move, slider, Slider!vars
<1>2. CASE TouchSlider
  BY <1>2 DEF TouchSlider, Slider!Next
<1>3. CASE Later
  BY <1>3 DEF Later, Slider!Next
<1>4. CASE UNCHANGED <<vars, slider>>
  BY <1>4 DEF slider, Slider!vars
<1>5. QED
  BY <1>1, <1>2, <1>3, <1>4

\* The window implements its parts: what holds of the carousel alone and of the
\* slider alone holds when both are on the screen.
THEOREM WindowImplements == WindowSpec => Spec /\ Slider!Spec
<1>1. WindowInit => Init /\ Slider!Init
  BY DEF WindowInit
<1>2. [Move \/ TouchSlider \/ Later]_<<vars, slider>> => [Next]_vars /\ [Slider!Next]_(Slider!vars)
  BY WindowStep
<1>3. QED
  BY <1>1, <1>2, PTL DEF WindowSpec, Spec, Slider!Spec

\* In the window with its slider the buttons fit the page, what blocks is not
\* passed by anything that starts while it blocks, and a skip sticks and, unless it
\* was clicked again, does not lead past the passcode.
THEOREM WindowIsSafe ==
    WindowSpec => [](ControlsFit /\ PasscodeFirst) /\ GateHolds /\ SkipSticks
BY WindowImplements, ControlsFitHolds, PasscodeFirstHolds, GateHoldsAlways, SkipSticksHolds, PTL
=============================================================================

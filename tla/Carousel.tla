------------------------------ MODULE Carousel ------------------------------
(***************************************************************************)
(* The pages of the window (pt-window.c, pt-page.c, ui/pt-window.ui): the  *)
(* carousel's position, the buttons and swipes that move it, the gates of  *)
(* the network and the security page, the update subpage (an instance of   *)
(* UpdatePage) and the banner that offers to skip it.                      *)
(*                                                                         *)
(* The position is counted in half pages, so that an animation is seen     *)
(* between two pages, where the code truncates the position.  Each notify  *)
(* of the position (Emit) recomputes the banner and the buttons, and may   *)
(* throw the carousel onto the page that follows skipped updates.          *)
(***************************************************************************)
EXTENDS Integers

CONSTANT NoPage   \* the NULL pointer, or no animation

Pages        == 0..5    \* language, theming, network, security, Android, final
NetworkPage  == 2
SecurityPage == 3
LastPage     == 5

ASSUME PageAssumption == NoPage \notin Pages

VARIABLES
    pos2,             \* twice the position of the carousel
    target,           \* the page an animation moves to
    next_ok, prev_ok, \* the buttons are sensitive; next_ok is also interactive
    banner,           \* skip_updates_banner
    updates_skipped, password_page,
    begun, ready,     \* of the update page
    security,         \* ready of the security settings
    committed         \* Finish was clicked

update == <<begun, ready, updates_skipped>>

vars == <<pos2, target, next_ok, prev_ok, banner, update, password_page,
          security, committed>>

Update == INSTANCE UpdatePage WITH skipped <- updates_skipped

\* (int) adw_carousel_get_position
Page(p) == p \div 2

-----------------------------------------------------------------------------
(* What a notify of the position recomputes.                               *)

\* pt_page_get_can_proceed, bound to the ready property of the page's widget.
CanProceed(page, rdy, sec) ==
    /\ page = NetworkPage => rdy
    /\ page = SecurityPage => sec

Hide == IF banner = "shown" THEN "hiding" ELSE banner

Forced_Never(p, skip, pwd) == p

\* The end of on_carousel_position_changed: pwd is password_page.
Forced(p, skip, pwd) ==
    IF skip /\ pwd # NoPage /\ Page(p) < pwd THEN 2 * pwd ELSE p

Shows_AnyPage(p, rdy, skip) == begun' /\ ~rdy /\ ~skip
Shows(p, rdy, skip) == begun' /\ ~rdy /\ ~skip /\ Page(p) = NetworkPage

\* The page before the one in front is not the skipped update page.
get_btn_previous_sensitive(p, skip) ==
    ~(skip /\ begun' /\ Page(p) - 1 = NetworkPage)

\* on_carousel_position_changed and the closures bound to the position, when it
\* is notified as p.
Emit(p, rdy, sec, skip, pwd) ==
    LET q == Forced(p, skip, pwd) IN
    /\ pos2' = q
    /\ next_ok' = CanProceed(Page(q), rdy, sec)
    /\ prev_ok' = get_btn_previous_sensitive(q, skip)
    /\ banner' = IF Shows(q, rdy, skip) THEN "shown" ELSE Hide

can_proceed_changed_Quiet(rdy, sec) ==
    /\ UNCHANGED <<pos2, next_ok, prev_ok, target>>
    /\ banner' = IF rdy THEN Hide ELSE "shown"

\* The can-proceed of a page was set: the page makes the carousel emit its
\* position again.
can_proceed_changed(rdy, sec) ==
    /\ Emit(pos2, rdy, sec, updates_skipped, password_page)
    /\ target' = IF pos2' = pos2 THEN target ELSE NoPage

-----------------------------------------------------------------------------
(* Moving.                                                                 *)

Init ==
    /\ pos2 = 0 /\ target = NoPage
    /\ next_ok = TRUE /\ prev_ok = TRUE /\ banner = "hidden"
    /\ Update!Init
    /\ password_page = NoPage /\ security = FALSE /\ committed = FALSE

scroll_to(page, from) == target' = IF 2 * page = from THEN NoPage ELSE page

\* goto_page, with the carousel at `from'; being thrown there ended an animation.
goto_page(num, from) ==
    IF num \in Pages
    THEN scroll_to(num, from)
    ELSE target' = IF from = pos2 THEN target ELSE NoPage

Still == UNCHANGED <<pos2, next_ok, prev_ok, banner, update, password_page,
                     security, committed>>

get_btn_next_visible == pos2 + 1 <= 2 * LastPage

get_btn_previous_visible == pos2 >= 1

FlipNext_AnyTime ==
    /\ get_btn_next_visible
    /\ goto_page(Page(pos2) + 1, pos2)
    /\ Still

\* on_flip_page_activated (1), from a button that is visible and sensitive.
FlipNext ==
    /\ next_ok /\ get_btn_next_visible
    /\ goto_page(Page(pos2) + 1, pos2)
    /\ Still

\* on_flip_page_activated (-1)
FlipPrevious ==
    /\ prev_ok /\ get_btn_previous_visible
    /\ goto_page(Page(pos2) - 1, pos2)
    /\ Still

Swipe_AnyTime(page) ==
    /\ 2 * page - pos2 \in -2..2
    /\ scroll_to(page, pos2)
    /\ Still

\* A swipe ends on a neighbouring page; interactive is bound like next_ok.
Swipe(page) ==
    /\ next_ok
    /\ 2 * page - pos2 \in -2..2
    /\ scroll_to(page, pos2)
    /\ Still

\* The animation, or the finger, moves by half a page.
Animate ==
    LET p == IF 2 * target > pos2 THEN pos2 + 1 ELSE pos2 - 1 IN
    /\ target # NoPage
    /\ UNCHANGED <<update, password_page, security, committed>>
    /\ Emit(p, ready, security, updates_skipped, password_page)
    /\ target' = IF pos2' # p \/ p = 2 * target THEN NoPage ELSE target

-----------------------------------------------------------------------------
(* The update subpage and its banner.                                      *)

\* The network list found a connection: pt_page_switch_to_subpage, once, on
\* whatever page the user is, and pt_update_begin.  The banner revealed there
\* is hidden again at once unless the network page is shown.
Connected ==
    /\ Update!Begin
    /\ UNCHANGED <<password_page, security, committed>>
    /\ can_proceed_changed(FALSE, security)

\* The update page finished: on_update_progress_ready and the bound can-proceed.
UpdatesReady ==
    /\ Update!Finish
    /\ UNCHANGED <<password_page, security, committed>>
    /\ can_proceed_changed(TRUE, security)

\* AdwBanner has slid away.
BannerGone ==
    /\ banner = "hiding" /\ banner' = "hidden"
    /\ UNCHANGED <<pos2, target, next_ok, prev_ok, update, password_page, security,
                   committed>>

\* on_skip_updates_clicked.  pt_update_progress_skip notifies ready, hence the
\* position, before updates_skipped is set and the page to go to is chosen.
\* The banner can be clicked again while it slides away.
SkipUpdates ==
    /\ banner \in {"shown", "hiding"}
    /\ Update!Skip
    /\ Emit(pos2, TRUE, security, updates_skipped, password_page)
    /\ password_page' = IF Page(pos2') < LastPage THEN Page(pos2') + 1 ELSE NoPage
    /\ goto_page(Page(pos2') + 1, pos2')
    /\ UNCHANGED <<security, committed>>

-----------------------------------------------------------------------------
(* The security page and the commit.                                       *)

\* update_password_match: the entries of the page in place were edited.
Edit ==
    /\ pos2 = 2 * SecurityPage /\ target = NoPage
    /\ security' \in BOOLEAN
    /\ UNCHANGED <<update, password_page, committed>>
    /\ can_proceed_changed(ready, security')

\* pt_commit_all; what it does besides navigation is in SetupCommit.
Finish ==
    /\ pos2 = 2 * LastPage
    /\ committed' = TRUE
    /\ UNCHANGED <<target, pos2, next_ok, prev_ok, banner, update, password_page,
                   security>>

\* pt_on_security_settings_applied: the password was refused, at some later time.
CommitRefused ==
    /\ committed
    /\ scroll_to(SecurityPage, pos2)
    /\ Still

-----------------------------------------------------------------------------

Next ==
    \/ FlipNext \/ FlipPrevious \/ \E page \in Pages : Swipe(page)
    \/ Animate
    \/ Connected \/ UpdatesReady \/ BannerGone \/ SkipUpdates
    \/ Edit \/ Finish \/ CommitRefused

Spec == Init /\ [][Next]_vars

\* The update page comes to an end, as UpdateProgress shows.
FairSpec == Spec /\ WF_vars(UpdatesReady)

-----------------------------------------------------------------------------
(* Properties.                                                             *)

PageOrNull == Pages \cup {NoPage}

\* The carousel stays on its pages, and what points to a page does.
TypeOK ==
    /\ pos2 \in 0..2 * LastPage
    /\ target \in PageOrNull /\ password_page \in PageOrNull
    /\ banner \in {"hidden", "shown", "hiding"}
    /\ {next_ok, prev_ok, updates_skipped, begun, ready, security, committed}
           \subseteq BOOLEAN

\* The banner is up exactly while it can be used: the update page blocks, was
\* not skipped, and is the page in front, wherever the user was when the
\* connection came and however the carousel moved since.
BannerFits ==
    banner = "shown" <=> /\ begun /\ ~ready /\ ~updates_skipped
                         /\ Page(pos2) = NetworkPage

\* The next button and swiping follow the page in front, also when that page's
\* can-proceed changes while the carousel stands still.
ButtonsFit == next_ok <=> CanProceed(Page(pos2), ready, security)

\* What a handler leaves in sight can be used, and what can be used is in sight.
ControlsFit == BannerFits /\ ButtonsFit

\* No animation runs, or it ends no further than the network page.
Within(page) == page = NoPage \/ page <= NetworkPage

\* From the connection until the update page ends or is skipped, nothing takes
\* the user from that page, or one before it, to a page after it, except a commit
\* that was refused, and an animation that was on its way there when the
\* connection came: the carousel goes on with it, but no other one starts.
GateHolds ==
    [][~committed /\ begun' /\ ~ready' /\ pos2 <= 2 * NetworkPage
       => /\ Within(target') \/ target' = target
          /\ Within(target) => pos2' <= 2 * NetworkPage]_vars

\* Beyond the security page there is a passcode: "Your PIN or passcode must be
\* at least 6 characters long" (ui/pt-window.ui:270).  A second click on skip, on
\* a banner that slides away above the security page, remembers the page after
\* that one and throws the carousel past the passcode; nothing else does.
PasscodeFirst ==
    (~updates_skipped \/ password_page = SecurityPage)
        => (pos2 > 2 * SecurityPage => security)

\* Once the updates are skipped and the page after them is reached, no button,
\* swipe or animation shows an earlier one.
SkipSticks ==
    [][updates_skipped /\ password_page' = password_page /\ password_page # NoPage
         /\ Page(pos2) >= password_page => Page(pos2') >= password_page]_vars

\* The gate of the network page opens again.
GateOpens == begun ~> next_ok \/ Page(pos2) # NetworkPage
=============================================================================

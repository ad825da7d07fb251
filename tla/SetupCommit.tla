------------------------------ MODULE SetupCommit ------------------------------
(***************************************************************************)
(* Finishing the setup (pt-window.c).  The Finish button commits the       *)
(* language, at once, and the password, whose verdict comes later; when no *)
(* commit is pending the window removes the file that makes systemd start  *)
(* the setup at boot, and closes.  The password is changed by the service  *)
(* that PasswordChange specifies and Passwd implements.                    *)
(*                                                                         *)
(* The application may die at any time and is started again at the next    *)
(* boot while the file exists.                                             *)
(***************************************************************************)
EXTENDS Integers

CONSTANTS
    Handlers,     \* password requests one run of the program can make
    Passwords, Default,
    Languages,
    MaxCrashes    \* bound

ASSUME CommitAssumption ==
    /\ Default \notin Passwords
    /\ MaxCrashes \in Nat

VARIABLES
    account, request, overlapped,   \* of PasswordChange
    language,           \* the row the user chose
    localed,            \* the locale1 proxy is there
    locale,             \* the language of the system
    pending_commits, page,
    flag,               \* ~/.config/furios-initial-setup-pending exists
    running, crashes

service == <<account, request, overlapped>>
chooser == <<language, localed, locale>>
window  == <<pending_commits, page, flag>>
vars    == <<service, chooser, window, running, crashes>>

Password == INSTANCE PasswordChange

Pages == {"first", "security", "final"}

\* The commits pt_commit_all counts: pages with an apply-changes handler.
Commits == 2

-----------------------------------------------------------------------------

\* The program starts on its first page with the language of the environment.
Init ==
    /\ Password!Init
    /\ account = Default /\ overlapped = FALSE
    /\ language \in Languages /\ locale = language /\ localed = FALSE
    /\ pending_commits = 0 /\ page = "first"
    /\ flag = TRUE /\ running = TRUE /\ crashes = 0

\* row_activated
ChooseLanguage(l) ==
    /\ running /\ l # language
    /\ language' = l
    /\ UNCHANGED <<service, localed, locale, window, running, crashes>>

\* localed_proxy_ready
LocaledReady ==
    /\ running /\ ~localed
    /\ localed' = TRUE
    /\ UNCHANGED <<service, language, locale, window, running, crashes>>

\* The user turns the pages of the carousel.
Turn(p) ==
    /\ running /\ p # page
    /\ page' = p
    /\ UNCHANGED <<service, chooser, pending_commits, flag, running, crashes>>

\* pt_check_should_exit, after pending_commits was counted down.
check_should_exit ==
    IF pending_commits' = 0
    THEN flag' = FALSE /\ running' = FALSE
    ELSE UNCHANGED <<flag, running>>

\* cc_language_chooser_apply: nothing waits for localed, or for its answer.
language_chooser_apply == locale' = IF localed THEN language ELSE locale

Answered_CountsFailure(ok) ==
    /\ pending_commits' = pending_commits - 1
    /\ check_should_exit
    /\ page' = IF ok THEN page ELSE "security"

Answered_KeepsCount(ok) ==
    /\ page' = IF ok THEN page ELSE "security"
    /\ UNCHANGED <<pending_commits, flag, running>>

\* pt_on_security_settings_applied(FALSE) goes to the page of the password.
Answered(ok) ==
    IF ok THEN /\ pending_commits' = pending_commits - 1
               /\ check_should_exit
               /\ UNCHANGED page
          ELSE /\ page' = "security"
               /\ UNCHANGED <<pending_commits, flag, running>>

\* pt_commit_language_settings with the commits counted so far.
commit_language_NoReset(counted) == pending_commits' = pending_commits + counted - 1
commit_language(counted) == pending_commits' = counted - 1

\* pt_commit_all counts the commits, then emits apply-changes on the pages in
\* their order: the language is done when the password is asked for.
Finish(h) ==
    /\ running /\ page = "final"
    /\ overlapped' = (overlapped \/ \E k \in Handlers : request[k] \in {"asked", "changed"})
    /\ language_chooser_apply
    /\ commit_language(Commits)
    /\ \/ Password!Ask(h) /\ UNCHANGED page
       \/ Password!Reject(h) /\ page' = "security"
    /\ check_should_exit
    /\ UNCHANGED <<language, localed, crashes>>

\* The password is changed, and both outcomes are reported to
\* pt_on_security_settings_applied.
Change(h) ==
    /\ running
    /\ Password!Change(h)
    /\ UNCHANGED <<overlapped, chooser, window, running, crashes>>

Succeed(h) ==
    /\ running /\ Password!Succeed(h)
    /\ Answered(TRUE)
    /\ UNCHANGED <<overlapped, chooser, crashes>>

Refuse(h) ==
    /\ running
    /\ Password!Refuse(h) \/ Password!Misreport(h)
    /\ Answered(FALSE)
    /\ UNCHANGED <<overlapped, chooser, crashes>>

-----------------------------------------------------------------------------
(* The program dies, perhaps with a passwd that already has its answers, and *)
(* the next boot starts it again.                                           *)

Crash ==
    /\ running /\ crashes < MaxCrashes
    /\ running' = FALSE /\ crashes' = crashes + 1
    /\ \/ UNCHANGED account
       \/ (\E h \in Handlers : Password!CanChange(h)) /\ account' \in Passwords
    /\ UNCHANGED <<request, overlapped, chooser, window>>

\* systemd/furios-initial-setup and furios-initial-setup-inner
Boot ==
    /\ ~running /\ flag
    /\ running' = TRUE
    /\ request' = [h \in Handlers |-> "idle"]
    /\ language' \in Languages /\ localed' = FALSE
    /\ pending_commits' = 0 /\ page' = "first"
    /\ UNCHANGED <<account, overlapped, locale, flag, crashes>>

-----------------------------------------------------------------------------

Next ==
    \/ \E l \in Languages : ChooseLanguage(l)
    \/ LocaledReady \/ Crash \/ Boot
    \/ \E p \in Pages : Turn(p)
    \/ \E h \in Handlers : Finish(h) \/ Change(h) \/ Succeed(h) \/ Refuse(h)

Spec == Init /\ [][Next]_vars

\* passwd's last words reach the window (ChangeIsReported in Passwd).
FairSpec == Spec /\ \A h \in Handlers : WF_vars(Succeed(h))

-----------------------------------------------------------------------------
(* Properties.                                                             *)

TypeOK ==
    /\ account \in Passwords \cup {Default}
    /\ request \in [Handlers -> Password!Answers]
    /\ language \in Languages /\ locale \in Languages
    /\ {overlapped, localed, flag, running} \subseteq BOOLEAN
    /\ pending_commits \in 0..Commits
    /\ page \in Pages
    /\ crashes \in 0..MaxCrashes

\* The setup is over, never to start again, only when the default password is
\* gone, whatever was refused, clicked twice or cut short by a crash before.
CompletedMeansChanged == ~flag => account \in Passwords

\* While a password request is out it is the only commit that is missing, also
\* after earlier attempts: its success will close the window.
OneSuccessSuffices ==
    running /\ (\E h \in Handlers : request[h] \in {"asked", "changed"})
        => pending_commits = 1

\* A changed password ends the setup: it is not left over for another attempt,
\* which could no longer authenticate with the default password.  Only a crash,
\* or overlapping requests that are told the wrong verdict, leave it so.
ChangeEndsSetup ==
    \A h \in Handlers : request[h] = "changed"
        ~> ~flag \/ ~running \/ (overlapped /\ request[h] = "error")

\* pt-window.c:242 "Everything went well": when the setup is over the system has
\* the language that was chosen.
EverythingWentWell == ~flag => locale = language
=============================================================================

# FuriOS initial setup: models and proofs

TLA+ models of the program in `src/` (the first-boot setup of FuriOS), the TLC
runs that check them on small instances, and TLAPS proofs of the properties
that hold for every instance. The program is a GTK application: one main loop,
in which user clicks, replies to asynchronous D-Bus calls, D-Bus signals,
timers, pipe input and child exits are dispatched one at a time; the camera adds
a streaming thread. Nearly everything that can go wrong is a matter of *which of
them comes next*, and that is what the modules explore: **an action is one
dispatch of the main loop** (or one step of the thread or of an external
process), and it models the whole callback, including every function it calls.

## The system

| Part | Source | State | What is hard | What makes it correct |
|---|---|---|---|---|
| Update page | `pt-update-progress.c` | proxies, current transaction, safe/normal mode, NTP timer, label, `ready` | a chain of some twenty callbacks, each with error exits; stale signals; skip while calls are in flight | one chain only, never dropped, always ended; upgrades run only after their simulation |
| Carousel | `pt-window.c`, `pt-page.c`, `ui/pt-window.ui` | position, animation, `can-proceed` of the pages, banner, `password_page` | the updates begin and end while the carousel stands, moves or is elsewhere; forced return after skipping | gates hold and open, the banner is up exactly while it can be used |
| Password dialogue | `run-passwd.c`, `pt-security-settings.c` | per handler: state, write queue, pipes, callbacks; one shared read buffer | keyword matching on arbitrary chunks, overlap of handlers that empty each other's buffer, child exit before output is read | success only after the change; the right line at each prompt; no mutual waiting |
| Commit and exit | `pt-window.c` (236-333), `systemd/` | `pending_commits`, the pending file | repeated Finish, failures, a crash between change and removal of the file | the file goes only when the password was changed; one success is enough |
| Face enrolment | `pt-security-settings-face.c` | agent proxy and path, flags of the attempt, frames in flight, camera | cancel and reopen with calls in flight, replies to an earlier attempt, a second thread | nobody is filmed with the sheet closed; one frame at a time; closing ends |
| Fingerprint enrolment | `pt-security-settings-fingerprint.c` | proxies, list of fingers, step shown | a synchronous call during which signals queue; unsolicited signals; reads that fail | the step is shown for an enrolment that runs, and ends |
| Network list | `cc-network-list.c` | refresh timer, device, rows, indicator | a timer that restarts itself; refreshes that are skipped | one timer; the list catches up; the update begins once |
| Language chooser | `cc-language-chooser.c`, `cc-common-language.c`, `cc-util.c`, `pt-application.c` | language, locale1 proxy, rows, marks, labels and their original text | hash-table order, marks set by an early-ending loop, labels set by others | rows in order with one mark; labels in the language chosen last |
| Scaling | `pt-window.c` (461-494) | slider, retry timers, stored scale | retries that pile up while the slider is pressed | the last value is stored |

How they interact: the network list, when it finds a connection, turns its page
to the subpage, which begins the update (`activated` -> `pt_update_begin` ->
`pt_update_progress_begin`). The gates of the carousel follow the `ready`
properties of the update page and of the security page. Finish
(`pt_commit_all`) emits `apply-changes` on the language and the security page;
the security page answers later through `pt_on_security_settings_applied`. The
last answer removes `~/.config/furios-initial-setup-pending`, which the systemd
scripts test at boot, and closes the window. The update page talks to timedate1,
an HTTP server and aptkit; the security page to `/usr/bin/passwd` and to the
biometric daemons; the language chooser to locale1 and AccountsService.

`PROJECT.json` lists the components with what is modelled of each, the hazards
with their lines, and for every definition the lines it models.

    UpdateProgress --implements--> UpdatePage <--instance-- Carousel --+-- MCWindow
                                                            Scaling  --+
    Passwd --implements--> PasswordChange <--instance-- SetupCommit
    FaceEnroll     Fingerprint
    NetworkList, StrongestAps -- MCNetworkList
    LanguageList, Retranslate, Unaccent -- MCLanguageList

## Modules

**UpdateProgress, UpdatePage.** `UpdateProgress` models `pt-update-progress.c`.
State: the private struct's proxies, flags and counters under their names;
`calls[k]`, the number of calls of kind `k` whose reply is outstanding;
`opening[op]`, transaction proxies under construction; `runs`, proxies whose Run
or Simulate was not yet answered (GDBus keeps such a proxy alive, so its signals
still come). Counting calls, instead of keeping a program counter, lets two
chains run at once if the code ever started them. Actions are named after the
callbacks (`SetNtpReply` is `set_ntp_cb`; `ExitSuccess`, `Plan`,
`ConfigFileConflict` are branches of `aptkit_transaction_signal_cb`); functions
that several callbacks call are operators with the source's name. `tx`, `asked`
and `waiting` are aptkit's side, `planned` and `clean` are history. The lists of
packages are abstracted to "something to upgrade or not", labels to busy, good
and failed, and the HTTP exchange to its end: whatever the server sends, and
whether its script verifies and runs, the cache is refreshed next. `UpdatePage`
is what the page promises the window: it blocks once, from begin to its end or
to a skip, and never again. `UpdateProgress` implements it (`Implements`). The page
lets itself be skipped at any time after it began; when the banner offers that,
and that it can be clicked again while it slides away, is the window's matter.

**Carousel, Scaling.** `Carousel` counts the position in half pages, so that an
animation is seen between two pages, where the code truncates a real number.
`Emit` is everything a notify of the position recomputes; `can_proceed_changed`
is the page making the carousel notify without moving. The update page is an
instance of `UpdatePage`. `Scaling` is `pt_set_scaling` with its timers and the value
it stores; the wlr-randr process it starts is left out. `MCWindow` runs the two side
by side: the slider can be touched while its page is in sight, and what it
postponed goes on anywhere.

**PasswordChange, Passwd.** `PasswordChange` is the abstract promise of
`pt_security_settings_apply` to the window. `Passwd` is the detailed dialogue: per
handler the `PasswdState`, the write queue and whether the change callback is
set; `str`, the keywords of the *static* buffer of `io_watch_stdout`; the
external passwd with its prompts, pipes and exit status. Output is abstracted to
the keywords the code searches for. `Read(h, n, breaks, joins)` takes `n` of them out of
the pipe and, when it `breaks`, the front of the next: 64 bytes can end anywhere in
a text. The front is then in the buffer only (`front` of `str`, `cut[h]`). The rest is
recognised (`Joins`) if it is read while the buffer still ends in that front;
another handler's read puts words behind it or empties the buffer, and the keyword
is lost. A front of the same keyword left by another handler may or may not fit.

`Passwd` implements `PasswordChange` (property `Implements`, with `Requested` as the
refinement mapping). Two variables are history. `overlapped`: an apply came before
the last one was answered. From then on the shared buffer makes a weaker promise,
which `PasswordChange` spells out: a request may be told that it failed although it
changed the account. What never happens, overlap or not, is that a request that
was told it failed changes the account afterwards. `mixed` is wider: it is set also
by an apply that comes when an answered passwd still has words in its pipe.

**SetupCommit** models the Finish protocol of `pt-window.c` on top of an instance
of `PasswordChange`, with the language chooser's part, crashes and boots. A crash
keeps the account, the system language and the pending file, and loses the rest;
a passwd in flight may still change the account.

**FaceEnroll** has the chain create agent, build proxy, register, start as counts
of calls in flight, because the callbacks do not know which attempt they belong
to. `main = "joining"` is the main loop inside `gst_element_set_state (NULL)`, which
returns when the streaming thread handles no sample. `CheckFrame` and `SendFrame`
are the thread before and after its last test: the main loop may act in between.
`overlapped` is history again: the sheet was opened with calls of an earlier
attempt out. The progress bar and the toasts are left out.

**Fingerprint** has the subpage, biomd, and the queue of signals that waits while
the synchronous Enroll call blocks the main loop. Property reads fail at any
time; Enroll may start an enrolment although the caller has given up. `misread` is
history: the list was made from a read that failed.

**NetworkList, StrongestAps.** `NetworkList` has the one timer with its id and what
GLib has armed, the refresh with its early return, the notifications and the
clicks. `StrongestAps` is the pure part: `get_strongest_unique_aps` and the sorted
insertion of `ap_sort`, against a reference definition. `MCNetworkList` joins them:
in every state of the list, every list of access points that can be behind it
must get the right rows.

**LanguageList, Retranslate, Unaccent.** `LanguageList` builds the rows in every
order the hash table can yield, with marks and the More item. `Retranslate` is the
walk over the labels of a window that was built in the C locale; three labels
stand for the kinds there are (left alone, set later by code, empty at first).
`Unaccent` is the in-place loop of the sort key, byte by byte. `MCLanguageList`
joins them: a click on a row of `LanguageList` is the click that translates the
labels of `Retranslate`; the key of a name is looked at before the list is built.

**\*_proofs** hold the theorems: `Carousel_proofs` those about `Scaling` and `MCWindow` too,
`NetworkList_proofs` those about `StrongestAps`, `LanguageList_proofs` those about
`Retranslate`, `Unaccent` and the page they make up. The remaining `MC*` modules only add symmetry and
the answers of timedate1.

Operators named `X_Variant` (e.g. `Finish_KeepsPulse`) are what `X` would be with
a plausible mistake. They are used by no specification; PROJECT.json pairs each
with the property that catches it, so every property is known to be able to fail.

## Runs

| Run | Question | Bounds and why they are enough |
|---|---|---|
| `update` | One chain, never dropped, quiet when finished, belief equals the daemon's, plan before install, conflicts answered, "good" means checked; it ends; it implements `UpdatePage` | 3 proxies: the one in use, a replaced one whose reply is out, a new one. 1 path: answered, then asked again in a later transaction. 2 rounds: an upgrade in each mode. Every answer of timedate1 |
| `update_ntp` | *violated*: the wait for the clock is bounded | NTP may be reported off |
| `update_modes` | *violated*: both modes were found empty | NTP stays on |
| `passwd` | The dialogue implements its promise, sends the right lines, does not stall however its output is broken up, loses no success unless applies overlap | 3 applies: failure, edit, retry, or two that overlap after a first. Reads that end after any keyword or inside it. A good, a weak and a short password; the account starts with the default or with an earlier run's password |
| `passwd_no_password` | *violated*: an account without password gets the new one | 1 handler |
| `commit` | The pending file and the count of commits with overlap, crashes, boots; a change ends the setup | 3 requests per run of the program, 2 crashes (one before, one after a change), 2 passwords, 2 languages |
| `commit_language` | *violated*: the setup ends with the chosen language | as `commit`, no crash |
| `window` | Banner, buttons, gates, skipping; the slider's value is stored | the real six pages; a slider of three values, two postponed calls (one older than the other) |
| `face` | Thread against main loop; what a started attempt means; attempts conclude | 2 agents: one forgotten, one in use. 2 CreateAgent calls in flight, hence attempts that overlap |
| `network_list` | One timer, right rows, the list catches up, the update begins once | 2 networks, 1 activation in flight, lists of 3 access points of 2 strengths: a stronger one that displaces the first, with another between |
| `fingerprint` | The step means an enrolment and ends; no finger is offered twice | 3 fingers, 2 waiting signals: an unsolicited one before the end of one's own |
| `language` | Rows, order, mark; labels in the language; the sort key | 5 locales, two with equal keys, one initial language that is not installed, any fonts; names of 4 characters of 1 to 4 bytes |

`CHECK_DEADLOCK FALSE` everywhere: a finished page, an answered apply, a window
that is gone really stop. No run takes more than three minutes.

### Fairness
- `UpdateProgress`: each reply (GDBus answers every call, if only with a timeout;
  the HTTP request is assumed to end, since the code sets no deadline), the retry
  timer, the passing of five minutes, and aptkit ending a current transaction
  (`Conclude`: `Plan` and `ExitSuccess` are both ends of a simulation, so their
  disjunction is fair). Nothing is assumed of the user. `EventuallyDone` excepts
  behaviours in which NTP is reported off again and again, which is the violated
  property 1 below. That a daemon reports upgrades for ever after installing them
  is excluded by `MaxRounds`.
- `Carousel`: the update page comes to its end, which is `EventuallyDone`; `Scaling`:
  the main loop dispatches a timer that is due.
- `SetupCommit`: a change is reported, which is `ChangeIsReported` of `Passwd`.
  `ChangeEndsSetup` is about the run of the program it starts in, since a crash
  ends that, and excepts overlapping requests, of which one may be refused.
- `FaceEnroll`: GDBus answers, the thread and the main loop run, the daemon gives
  access to an agent that it created and did not destroy.
- `Fingerprint`: the main loop handles what waits, biomd answers and gives up every
  enrolment that does not complete (its timeout).
- `NetworkList`: the timer. `CatchesUp` assumes in addition that the network stops
  changing while the page stays in sight.

### The violated properties
1. `WaitForClockIsBounded`. A reading of NTP=false is answered with SetNTP and
   returns before the deadline test (`pt-update-progress.c:650`), against the log
   message at 748 and the constant at 29.
2. `NoUpdatesInEitherMode`. The refresh after a repair resets `safe_mode` but not
   `tried_safe_mode` (1171), so the page can end after one empty safe-mode check;
   compare the comment at 1276. `GoodMeansChecked` is what does hold.
3. `NewPasswordSentAtOnce`. The branch for an account without password
   (`run-passwd.c:526-540`) pops a queue that never holds the new password.
4. `EverythingWentWell`. The language commit counts as done although locale1 was
   not reachable (`cc-language-chooser.c:671`, `pt-window.c:242`).

### What the conditions of the properties leave out
Some properties hold only under a condition that the model, like the program,
does not enforce. What happens without it:
- `PasscodeFirst` excepts a second click on *Skip* while the banner slides away: the
  carousel is then already on the security page, so that the page after it is
  remembered and forced (`pt-window.c:672`), past the passcode.
- `GateHolds` has two exceptions. A commit that was refused scrolls to the security
  page from wherever the carousel is. And an animation that is already on its way
  past the update page when the connection comes is not stopped: the user passes a
  page that blocks, and comes to its gate only on returning to it.
- `StartedIsTrue`, `NoAgentForgotten`, `ThreadHasProxy` and `AttemptConcludes` are
  about attempts opened when the calls of the last one were answered. The answer
  to an old StartEnrollment marks a new attempt as started
  (`pt-security-settings-face.c:602`), a second agent overwrites the first (767).
- `OffersTheRest` excepts a list that was made while biomd could not be read.
- `ChangeIsReported` excepts overlapping applies, which share a buffer.
- `NoStall` excepts an apply that came while another dialogue was unanswered or had
  words in its pipe (`mixed`). Without that the dialogue can stall: one handler reads
  up to the front of a prompt's keyword, another one's read empties the buffer
  (`run-passwd.c:564`), the rest is no keyword any more, and passwd and its handler
  wait for each other; TLC reaches that in six steps with two handlers. Nothing
  worse comes of it: `SuccessIsReal`, `AnswersFitPrompts` and `Implements` hold then too.
- Not stated at all: wlr-randr, started and not waited for, may change the size
  while the slider is held again (`pt-window.c:486`), against the comment at 473;
  a change of the language sets a label that code changed since the first walk to
  what it said then (`cc-language-chooser.c:455`).

## Proofs

Checked by TLAPS for all values of the constants satisfying the assumptions
(`NoProxy \notin Proxies`, `Default \notin Passwords`, bounds are naturals, locale
names differ, strengths are below `Foremost`, ...).

*UpdateProgress.* `TypeCorrect` is inductive by itself; its step is split by
`PageOK`, `FlowOK`, `CountsOK`. `SingleChain`, `NeverStranded`, `FinishedIsQuiet` and
`BeliefMatchesDaemon` follow from one invariant, `ChainInv`: the continuation of
the page is at exactly one of five positions (at rest, a call in flight, a proxy
under construction, the timer, the transaction's signals), and
`current_transaction` fits it. `SingleChain` alone is not inductive, since it does
not say that a *reply* finds no timer running. The proof follows the code: a
`Take...` lemma for each position says that a callback leaves nothing pending
behind, a `Land...` lemma that a function which issues exactly one thing
restores the invariant, and the shared functions have a lemma each. On top of it
`RepairsOnce`, `ConflictsAnswered`, `InstallsOnlyWhatWasPlanned` and `Implements`
(every step is a step of `UpdatePage` or leaves its variables alone).
`GoodMeansChecked` needs to know why the page ends. `AptkitInv` excludes that a check
is given up because the daemon's proxy is missing (whatever has a transaction got
it through the proxy), and `TriedInv` that safe mode is entered a second time
without a repair in between: `tried_safe_mode` is set only past the early steps, and
with it set the cache is updated or safe mode is on only after a repair.

*SetupCommit.* `CompletedMeansChanged` needs that a request which reports success
did change the account (`ChangedIsChanged`), and `OneSuccessSuffices`, that the
count is one whenever a request is out.

*Passwd.* For accounts that start with a password (`NoPassword \notin Accounts`; what
happens to others is violated property 3). The code decides by keywords found in
arbitrary pieces of what passwd says, so an invariant over its variables one by one
gets nowhere. `IInv` says instead that each dialogue is at one of sixteen *places*
(`Started`, `Authenticating`, `Denied`, `Sent`, `TooWeak`, ...), each of which fixes state,
queue, the lines on their way and the verdict, and says what the rest in the pipe
is made of: of a prompt any part, also one whose front was read and lost; of the
answer to the retyped password all of it, since any read of it finds its first
keyword. Beside the places, the shared buffer keeps no keyword between reads that
ends a wait but "BAD PASSWORD" and "unchanged" (`Harmless`). There is a lemma for every place that can
be read from and for every step of passwd, which says to which places it leads.
`SuccessIsReal` and `AnswersFitPrompts` are read off the places. `ChangeIsReported` needs
to know whose words are in the buffer: `NInv` says that a rejection in it is of a
passwd that was not given the account's password, and that without overlap
nobody's words are in the way of a success. With it every step is a step of
`PasswordChange` (`Implements`): the hidden success is its `Misreport`, which needs
`overlapped`. `NoStall` is about what can be lost: `MInv` says that while the pipes of
all others are empty (`Alone`), the prompt that a handler waits for is still to come
and its front, if it was read, is still at the end of the buffer (`Intact`).

*Carousel, Scaling, MCWindow.* `ControlsFit`, `GateHolds`: one lemma says what `Emit`
establishes for any position, and every handler that notifies ends in it; the gate needs in addition that only a skip throws the carousel
forward, and that a skip ends the blocking (`SkippedIsReady`). `SkipSticks` needs
that every step either leaves the carousel where it is or goes through `Forced`,
which is never before the page that follows the updates (`NotifiedLemma`,
`ForcedFar`). `PasscodeFirst` speaks of the position only, so `Passcode` adds the
target: without a passcode no animation aims behind the security page, unless a
skip remembered another page. `NothingLost` of the slider is inductive with its
types. `WindowImplements` puts the two together: a step of the window is a step of
each or leaves it alone, so what is proved of the parts holds when both are on the
screen (`WindowIsSafe`).

*FaceEnroll.* Types, `FilmedOnlyWhileOpen`, `OneFrameAtATime`, for any number of
overlapping attempts. The invariant adds `SendsAlone`: between the thread's test
and its call no frame is out, although the main loop runs in between, because
only the thread adds to the count. `NoAgentForgotten`, `StartedIsTrue` and
`ThreadHasProxy`, for attempts that do not overlap, need the whole chain of calls,
since no callback knows its attempt: `HandleInv` says for each call that is out
what the others, proxy and path can be (while CreateAgent is out there is no agent
to lose; a proxy without a path is about to be dropped), and `StartInv` that only the
agent of the open sheet is told to start.

*Fingerprint.* `StepMeansEnrolling` needs the answer that is not handled yet, and
that biomd knows the finger until both ends were told. `OffersTheRest` is about a
quiet page; `Listed` says what holds while signals wait: the list is of what is
enrolled, or a change of `EnrolledFingers` is somewhere in the queue, so lemmas
say when a queue keeps such news.

*NetworkList.* Types, `OneTimer`, `BeginsOnce`. `OneTimer` needs that
nothing is refreshed before there is a device.

*StrongestAps* (in `NetworkList_proofs`). `ListIsRight`, for lists of any length with
any strengths. `Unique` is the invariant of the outer loop: after `k` access points
the list has the best of them, each SSID once, which the removal of an entry in
the middle keeps (`ReplaceLemma`). `Filled` is the invariant of the list box: what was
inserted is there, ranked by the stored strength. That the marked row is first
needs that `Foremost` is above every strength, and that SSIDs differ, so that two
rows cannot both have it.

*LanguageList.* `RowsRight` and `OneMark`, for any locales, fonts and orders of the
hash table. They speak of the finished list, so the invariant has what holds
while it is built: `Listed` (what was added and has a font is there, once, in the
order of `sort_languages`, which is a strict order with the More item last) and
`Marked` (each row comes with a mark until the loop has run). `SyncLemma` is the loop
that ends at the More item: the order says that it has passed every language.

*Retranslate.* `InTheLanguage`: from the first walk on, the stored texts are those of
C (`Walked`), so that any later walk finds their translation, whatever code set a
label to in between.

*Unaccent.* `IsUnaccented`, for names of any length. `KeyInv` relates the buffer to two
sequences of prefixes, of all bytes read and of those that are kept: what was
kept is in front of `j`, and behind `i` nothing has been written over, since `j` never
passes `i`. `PageImplements` carries the three to the page, where they run side by
side.

The last three, and `StrongestAps`, are loops over data. The library's induction
theorems cannot be used for them, since they take a predicate as a parameter.
`LeastNat` takes its place: a set of numbers has a least member, by the
well-foundedness of `<`, hence a set that has 0 and with each number the next has
all (`UpTo`). With it `Iteration`, `FoldLemma` and `FlattenLemma` show that the
recursive functions behind `FoldLeft` and `FlattenSeq` exist and what they compute.

The `TypeOK` of each of these modules, `RepairsOnce` and
`NothingLost` are proved and therefore not in the runs. Every invariant, every
action property and both refinements (`Implements`, of specifications without
fairness) that passing runs check are also proved; those of `Passwd` under the condition
that no account starts without a password, which their run makes too.

Model-checked only: the liveness properties (`EventuallyDone`, `ChangeEndsSetup`,
`GateOpens`, `Stored`, `AttemptConcludes`, `CatchesUp`, `StepEnds`), which rest on what is
under *Fairness*: liveness from fairness needs ENABLED, which this prover does not
reason about. The violated properties need no proof: TLC's traces show them.

## Not modelled

Vendored ed25519 arithmetic (256-bit integers); settings that are written
straight through (accent colours, dark mode, Android autostart); GTK and
GApplication start-up code except the locale; formatting and wording; the Reboot
button; the disposal of widgets and memory lifetimes; `passwd_destroy` and the
restart branches of `passwd_change_password`, which the program does not reach;
the search filter of the language list, which no page shows. What remains open
in single components is in their note in `PROJECT.json`.

Left to do: a failed ResolveConfigFileConflict call and the cached pair of
package lists in `UpdateProgress`.

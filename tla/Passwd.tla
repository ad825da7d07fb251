-------------------------------- MODULE Passwd --------------------------------
(***************************************************************************)
(* Changing the password: pt-security-settings.c starts one PasswdHandler  *)
(* for every apply, and run-passwd.c drives /usr/bin/passwd for it, looking *)
(* for keywords in whatever part of its output it happens to read.  What   *)
(* was read so far is kept in one buffer that all handlers share, and that *)
(* each of them empties: a keyword whose front one handler has read is     *)
(* lost when another one reads before the rest of it.                      *)
(*                                                                         *)
(* passwd itself is external: it prints prompts and messages into a pipe,  *)
(* reads lines from another and exits.  One action is one dispatch of the  *)
(* main loop, one click, or one line read by passwd.                       *)
(***************************************************************************)
EXTENDS Sequences, Naturals

CONSTANTS
    Handlers,     \* PasswdHandlers that can be created
    Passwords,    \* what the user can type
    Short,        \* those that update_password_match does not accept
    Weak,         \* those that PAM does not accept
    Default,      \* DEFAULT_PASSWORD
    NoPassword,   \* the account has none
    Accounts      \* what the account may start with

ASSUME PasswordAssumption ==
    /\ Short \cup Weak \subseteq Passwords
    /\ Default \notin Passwords /\ NoPassword \notin Passwords \cup {Default}
    /\ Accounts \subseteq Passwords \cup {Default, NoPassword}

VARIABLES
    entry,      \* the text of the password entry
    state,      \* backend_state
    queue,      \* backend_stdin_queue
    changing,   \* chpasswd_cb is set
    str,        \* static buffer of io_watch_stdout: the keywords in it, and the
                \* one whose front it ends in, with the handler that read that
    verdict,    \* what apply_cb was last told
    oks,        \* how often it was told that all went well
    \* passwd
    account,    \* the password in the shadow file
    phase,      \* what passwd waits for; "none" before it starts, "freed" after
    stdin,
    stdout,     \* keywords still in the pipe
    cut,        \* the front of the first of them was read
    given,      \* the password it authenticated, and the new one typed first
    status,     \* exit status
    stored,     \* this passwd changed the account
    \* history
    overlapped, \* an apply came before the last one was answered,
    mixed       \* or before everything was read that passwd had said till then

handler == <<state, queue, changing, verdict, oks>>
backend == <<account, phase, given, status, stored>>
pipes   == <<stdin, stdout, cut>>
history == <<overlapped, mixed>>
vars    == <<entry, handler, str, backend, pipes, history>>

Prompts == {"current", "new", "retype"}

\* What passwd prints, cut down to the keywords the code looks for, in their
\* order: those of each prompt here, while a message has one and is named for
\* it.  Before its first prompt passwd says "Changing password for ...".
Words == [current |-> <<"urrent", "assword: ">>, new |-> <<"New", "assword: ">>,
          retype |-> <<"new", "assword: ">>]

Rejections == {"BAD PASSWORD", "match", "unchanged", "failure"}

Say(h, words) == stdout' = [stdout EXCEPT ![h] = @ \o words]

Set(f, h, x) == [f EXCEPT ![h] = x]

\* The buffer is NULL.
Empty == [words |-> {}, front |-> {}]

-----------------------------------------------------------------------------

Init ==
    /\ entry \in Passwords
    /\ state = [h \in Handlers |-> "NONE"]
    /\ queue = [h \in Handlers |-> <<>>]
    /\ changing = [h \in Handlers |-> FALSE]
    /\ str = Empty
    /\ verdict = [h \in Handlers |-> "idle"]
    /\ oks = [h \in Handlers |-> 0]
    /\ account \in Accounts
    /\ phase = [h \in Handlers |-> "none"]
    /\ stdin = [h \in Handlers |-> <<>>] /\ stdout = [h \in Handlers |-> <<>>]
    /\ given = [h \in Handlers |-> [old |-> NoPassword, new |-> NoPassword]]
    /\ status = [h \in Handlers |-> 0]
    /\ stored = [h \in Handlers |-> FALSE]
    /\ cut = [h \in Handlers |-> FALSE]
    /\ overlapped = FALSE /\ mixed = FALSE

\* The user edits the entry, at any time.
Edit(password) ==
    /\ password # entry
    /\ entry' = password
    /\ UNCHANGED <<handler, str, backend, pipes, history>>

\* spawn_passwd: an account without a password is asked for the new one.
spawn_passwd(h) ==
    LET prompt == IF account = NoPassword THEN "new" ELSE "current" IN
    /\ phase' = Set(phase, h, prompt)
    /\ Say(h, <<"Changing">> \o Words[prompt])

\* pt_security_settings_apply with passwd_init and passwd_authenticate on a
\* new handler.  When passwd cannot be started nobody is told.
Apply(h) ==
    /\ verdict[h] = "idle"
    /\ overlapped' = (overlapped \/ \E other \in Handlers : verdict[other] = "asked")
    /\ mixed' = (mixed \/ overlapped' \/ \E other \in Handlers : stdout[other] # <<>>)
    /\ \/ /\ entry \in Short
          /\ verdict' = Set(verdict, h, "error")
          /\ UNCHANGED <<queue, phase, stdout>>
       \/ /\ entry \notin Short
          /\ verdict' = Set(verdict, h, "asked")
          /\ \/ spawn_passwd(h) /\ queue' = Set(queue, h, <<Default>>)
             \/ UNCHANGED <<queue, phase, stdout>>
    /\ UNCHANGED <<entry, state, changing, oks, str, account, given, status, stored,
                   stdin, cut>>

-----------------------------------------------------------------------------
(* io_watch_stdout, one operator per backend state.  buf holds the keywords *)
(* of the buffer, including what was just read.                            *)

\* io_queue_pop of the queue q
io_queue_pop(h, q) ==
    IF q = <<>> THEN queue' = Set(queue, h, q) /\ UNCHANGED stdin
    ELSE /\ queue' = Set(queue, h, Tail(q))
         /\ stdin' = [stdin EXCEPT ![h] = Append(@, Head(q))]

Succeeded(h) ==
    IF changing[h] THEN /\ verdict' = Set(verdict, h, "ok")
                        /\ oks' = [oks EXCEPT ![h] = @ + 1]
                   ELSE UNCHANGED <<verdict, oks>>

\* Nothing is done but to keep the buffer, or to empty it.
Keep(buffer) ==
    /\ str' = buffer
    /\ UNCHANGED <<state, queue, changing, verdict, oks, stdin>>

\* PASSWD_STATE_NONE.  A prompt for a new password drops the current one from
\* the queue.
AskedFirst(h, buf) ==
    /\ str' = Empty
    /\ IF buf \cap {"new", "New"} # {}
       THEN /\ state' = Set(state, h, "NEW")
            /\ io_queue_pop(h, Tail(queue[h]))
       ELSE /\ state' = Set(state, h, "AUTH")
            /\ io_queue_pop(h, queue[h])
    /\ UNCHANGED <<changing, verdict, oks>>

Authenticated_Requeues(h, buf) ==
    /\ str' = Empty
    /\ state' = Set(state, h, "NEW")
    /\ changing' = Set(changing, h, TRUE)
    /\ io_queue_pop(h, queue[h] \o <<Default, entry, entry>>)
    /\ UNCHANGED <<verdict, oks>>

\* PASSWD_STATE_AUTH: auth_cb goes on to passwd_change_password with the text
\* the entry has now.  The backend is running and in NEW at that call, so its
\* two restarts are not reached.
Authenticated(h, buf) ==
    /\ str' = Empty
    /\ \/ /\ "assword: " \in buf /\ "urrent" \notin buf
          /\ state' = Set(state, h, "NEW")
          /\ changing' = Set(changing, h, TRUE)
          /\ io_queue_pop(h, queue[h] \o <<entry, entry>>)
          /\ UNCHANGED <<verdict, oks>>
       \/ /\ "assword: " \notin buf \/ "urrent" \in buf
          /\ verdict' = Set(verdict, h, "error")
          /\ UNCHANGED <<state, changing, queue, stdin, oks>>

AskedAgain_SendsNothing(h) ==
    /\ str' = Empty
    /\ state' = Set(state, h, "RETYPE")
    /\ UNCHANGED <<queue, stdin, changing, verdict, oks>>

\* PASSWD_STATE_NEW, whatever the prompt asks for.
AskedAgain(h) ==
    /\ str' = Empty
    /\ state' = Set(state, h, "RETYPE")
    /\ io_queue_pop(h, queue[h])
    /\ UNCHANGED <<changing, verdict, oks>>

Concluded_AnyWord(h, buf) ==
    /\ str' = Empty
    /\ state' = Set(state, h, "DONE")
    /\ Succeeded(h)
    /\ UNCHANGED <<changing, queue, stdin>>

\* PASSWD_STATE_RETYPE
Concluded(h, buf) ==
    /\ str' = Empty
    /\ \/ /\ "successfully" \in buf
          /\ state' = Set(state, h, "DONE")
          /\ Succeeded(h)
       \/ /\ "successfully" \notin buf
          /\ state' = Set(state, h, "ERR")
          /\ verdict' = IF changing[h] THEN Set(verdict, h, "error") ELSE verdict
          /\ UNCHANGED oks
    /\ UNCHANGED <<changing, queue, stdin>>

\* Whether the first keyword is found when it is read to its end: without its
\* front it is only if that still ends the buffer.  The same front read by
\* another handler does as well, if it happens to be of the same length.
Joins(h) ==
    IF ~cut[h] \/ <<h, Head(stdout[h])>> \in str.front THEN {TRUE}
    ELSE IF \E g \in Handlers : <<g, Head(stdout[h])>> \in str.front THEN BOOLEAN
    ELSE {FALSE}

\* io_watch_stdout reads 64 bytes or all there is: n keywords, and perhaps the
\* front of the next one, that is gone from the pipe.  Every text is printed at
\* once and the first keyword is within 64 bytes of the start of the pipe, so it
\* is not the one that breaks; n is 0 when a text goes on without a keyword.
Read(h, n, breaks, joins) ==
    LET found == {stdout[h][i] : i \in {j \in 1..n : j > 1 \/ joins}}
        buf   == str.words \cup found
        front == IF breaks THEN {<<h, stdout[h][n + 1]>>} ELSE {}
    IN
    /\ stdout[h] # <<>>
    /\ IF n = Len(stdout[h]) THEN ~breaks ELSE n = 0 => ~breaks /\ ~cut[h]
    /\ stdout' = [stdout EXCEPT ![h] = SubSeq(@, n + 1, Len(@))]
    /\ cut' = Set(cut, h, breaks)
    /\ CASE state[h] = "NONE" /\ "assword: " \in buf -> AskedFirst(h, buf)
         [] state[h] = "AUTH" /\ buf \cap {"assword: ", "failure", "error"} # {}
                -> Authenticated(h, buf)
         [] state[h] = "NEW" /\ "assword: " \in buf -> AskedAgain(h)
         [] state[h] = "RETYPE" /\ buf \cap (Rejections \cup {"successfully"}) # {}
                -> Concluded(h, buf)
         [] state[h] \in {"DONE", "ERR"} -> Keep(Empty)
         [] OTHER -> Keep([words |-> buf, front |-> front])
    /\ UNCHANGED <<entry, backend, history>>

ChildExited_AnyStatus(h) ==
    /\ phase[h] = "exited"
    /\ IF state[h] = "RETYPE" THEN Succeeded(h) ELSE UNCHANGED <<verdict, oks>>
    /\ phase' = Set(phase, h, "freed") /\ state' = Set(state, h, "NONE")
    /\ stdin' = Set(stdin, h, <<>>) /\ stdout' = Set(stdout, h, <<>>)
    /\ cut' = Set(cut, h, FALSE)
    /\ UNCHANGED <<entry, queue, changing, str, account, given, status, stored, history>>

ChildExited_Silent(h) ==
    /\ phase[h] = "exited"
    /\ phase' = Set(phase, h, "freed") /\ state' = Set(state, h, "NONE")
    /\ stdin' = Set(stdin, h, <<>>) /\ stdout' = Set(stdout, h, <<>>)
    /\ cut' = Set(cut, h, FALSE)
    /\ UNCHANGED <<entry, queue, changing, verdict, oks, str, account, given,
                   status, stored, history>>

\* child_watch_cb and free_passwd_resources: success may be known from the exit
\* status alone, any other end is not reported; unread output is lost.
ChildExited(h) ==
    /\ phase[h] = "exited"
    /\ IF status[h] = 0 /\ state[h] = "RETYPE" THEN Succeeded(h)
       ELSE UNCHANGED <<verdict, oks>>
    /\ phase' = Set(phase, h, "freed") /\ state' = Set(state, h, "NONE")
    /\ stdin' = Set(stdin, h, <<>>) /\ stdout' = Set(stdout, h, <<>>)
    /\ cut' = Set(cut, h, FALSE)
    /\ UNCHANGED <<entry, queue, changing, str, account, given, status, stored, history>>

-----------------------------------------------------------------------------
(* passwd reads one line.                                                  *)

Exit(h, code, text) ==
    phase' = Set(phase, h, "exited") /\ status' = Set(status, h, code) /\ Say(h, text)

Prompt(h, next, text) ==
    phase' = Set(phase, h, next) /\ UNCHANGED status /\ Say(h, text \o Words[next])

PasswdReads(h) ==
    LET line == Head(stdin[h]) IN
    /\ phase[h] \in Prompts /\ stdin[h] # <<>>
    /\ stdin' = [stdin EXCEPT ![h] = Tail(@)]
    /\ \/ /\ phase[h] = "current"
          /\ given' = [given EXCEPT ![h].old = line]
          /\ IF line = account THEN Prompt(h, "new", <<>>)
             ELSE Exit(h, 1, <<"error", "unchanged">>)
          /\ UNCHANGED <<account, stored>>
       \/ /\ phase[h] = "new"
          /\ given' = [given EXCEPT ![h].new = line]
          /\ IF line \in Weak THEN Prompt(h, "new", <<"BAD PASSWORD">>)
             ELSE Prompt(h, "retype", <<>>)
          /\ UNCHANGED <<account, stored>>
       \/ /\ phase[h] = "retype"
          /\ IF line = given[h].new /\ account = given[h].old
             THEN /\ account' = line /\ stored' = Set(stored, h, TRUE)
                  /\ Exit(h, 0, <<"successfully">>)
             ELSE /\ Exit(h, 1, <<IF line = given[h].new THEN "failure" ELSE "match",
                                  "unchanged">>)
                  /\ UNCHANGED <<account, stored>>
          /\ UNCHANGED given
    /\ UNCHANGED <<entry, handler, str, cut, history>>

-----------------------------------------------------------------------------

Next ==
    \/ \E password \in Passwords : Edit(password)
    \/ \E h \in Handlers :
          \/ Apply(h) \/ ChildExited(h) \/ PasswdReads(h)
          \/ \E n \in 0..Len(stdout[h]), breaks \in BOOLEAN, joins \in Joins(h) :
                Read(h, n, breaks, joins)

Spec == Init /\ [][Next]_vars

-----------------------------------------------------------------------------
(* Properties.                                                             *)

States == {"NONE", "AUTH", "NEW", "RETYPE", "DONE", "ERR"}
Keywords == {"Changing", "assword: ", "urrent", "New", "new", "error", "successfully"}
               \cup Rejections
Lines  == Passwords \cup {Default}

TypeOK ==
    /\ entry \in Passwords
    /\ state \in [Handlers -> States]
    /\ queue \in [Handlers -> Seq(Lines)] /\ stdin \in [Handlers -> Seq(Lines)]
    /\ changing \in [Handlers -> BOOLEAN] /\ stored \in [Handlers -> BOOLEAN]
    /\ str \in [words : SUBSET Keywords, front : SUBSET (Handlers \X Keywords)]
    /\ cut \in [Handlers -> BOOLEAN]
    /\ verdict \in [Handlers -> {"idle", "asked", "ok", "error"}]
    /\ oks \in [Handlers -> 0..1]
    /\ account \in Lines \cup {NoPassword}
    /\ phase \in [Handlers -> Prompts \cup {"none", "exited", "freed"}]
    /\ stdout \in [Handlers -> Seq(Keywords)]
    /\ given \in [Handlers -> [old : Lines \cup {NoPassword}, new : Lines \cup {NoPassword}]]
    /\ status \in [Handlers -> {0, 1}]
    /\ overlapped \in BOOLEAN /\ mixed \in BOOLEAN

\* Success is reported only for a passwd run that changed the account, and once
\* per apply (pt-window.c counts the reports), also when several applies
\* overlap on the shared buffer.
SuccessIsReal ==
    \A h \in Handlers : verdict[h] = "ok" \/ oks[h] > 0 => stored[h] /\ oks[h] = 1

\* Every line in passwd's input answers the question passwd is about to ask:
\* the default password authenticates, the new one is never sent in its place.
AnswersFitPrompts ==
    \A h \in Handlers : stdin[h] # <<>> /\ phase[h] \in Prompts =>
        /\ Len(stdin[h]) = 1
        /\ phase[h] = "current" <=> Head(stdin[h]) = Default
        /\ phase[h] = "retype" => Head(stdin[h]) = given[h].new

\* passwd and its handler never wait for each other, however its output is broken
\* up by the reads: if passwd waits for a line and everything it said was read,
\* the apply has been answered.  Only another handler that reads meanwhile can
\* take away a part of a prompt, and then both do wait.
NoStall ==
    ~mixed => \A h \in Handlers :
        phase[h] \in Prompts /\ stdin[h] = <<>> /\ stdout[h] = <<>>
            => verdict[h] # "asked"

\* A changed password is reported by the time the handler is freed, even when
\* the exit of passwd is noticed before its last words are read; overlapping
\* applies can take each other's words away.
ChangeIsReported ==
    ~overlapped => \A h \in Handlers : phase[h] = "freed" /\ stored[h] => verdict[h] = "ok"

\* The dialogue implements what PasswordChange promises the window: one verdict
\* for each apply, success only after its change and never after a failure.
Requested ==
    [h \in Handlers |-> IF stored[h] /\ verdict[h] = "asked" THEN "changed"
                        ELSE verdict[h]]

Promise == INSTANCE PasswordChange WITH request <- Requested

Implements == Promise!Spec

\* run-passwd.c:724 "wait for io_watch_stdout() to remove current password from
\* the queue, and output the new one for us": once the handler acted on a prompt
\* for a new password, passwd has a line to read.
NewPasswordSentAtOnce ==
    \A h \in Handlers : state[h] = "NEW" /\ phase[h] = "new" /\ stdout[h] = <<>>
        => stdin[h] # <<>>
=============================================================================

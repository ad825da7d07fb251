---------------------------- MODULE Passwd_proofs ----------------------------
(***************************************************************************)
(* Proofs about Passwd.  The dialogue of one handler with its passwd is at *)
(* one of a few places, and each place fixes the variables of the pair up  *)
(* to what is left in the pipe of what passwd said; what handlers share,   *)
(* the buffer and the account, is said beside it.                          *)
(***************************************************************************)
EXTENDS Passwd, TLAPS

-----------------------------------------------------------------------------
(* Sequences of words and lines.                                           *)

LEMMA HeadTail == ASSUME NEW x PROVE Head(<<x>>) = x /\ Tail(<<x>>) = <<>> /\ <<x>> # <<>>
OBVIOUS

LEMMA NotEmpty == ASSUME NEW s, Len(s) # 0 PROVE s # <<>>
OBVIOUS

LEMMA SameLength ==
  ASSUME NEW S, NEW s \in Seq(S), NEW t \in Seq(S), Len(s) = Len(t),
         \A i \in 1..Len(s) : s[i] = t[i]
  PROVE  s = t
OBVIOUS

LEMMA JoinOfTwo == ASSUME NEW x PROVE <<>> \o <<x, x>> = <<x, x>>
<1> DEFINE t == <<>> \o <<x, x>>
<1>1. t \in Seq({x}) /\ Len(t) = 2 /\ t[1] = x /\ t[2] = x
  OBVIOUS
<1>2. <<x, x>> \in Seq({x}) /\ Len(<<x, x>>) = 2 /\ <<x, x>>[1] = x /\ <<x, x>>[2] = x
  OBVIOUS
<1>3. t = <<x, x>>
  <2> HIDE DEF t
  <2>1. \A i \in 1..Len(t) : t[i] = <<x, x>>[i]
    BY <1>1, <1>2
  <2>2. QED BY <1>1, <1>2, <2>1, SameLength
<1>4. QED BY <1>3

\* What is left when n words were taken.
LEMMA Leaves ==
  ASSUME NEW S, NEW s \in Seq(S), NEW n \in 0..Len(s)
  PROVE  LET t == SubSeq(s, n + 1, Len(s)) IN
         /\ t \in Seq(S) /\ Len(t) = Len(s) - n
         /\ \A i \in 1..Len(t) : t[i] = s[i + n]
         /\ n = Len(s) => t = <<>>
OBVIOUS

LEMMA NoneTaken == ASSUME NEW S, NEW s \in Seq(S) PROVE SubSeq(s, 1, Len(s)) = s
OBVIOUS

LEMMA NothingBefore == ASSUME NEW S, NEW s \in Seq(S) PROVE <<>> \o s = s
<1> DEFINE t == <<>> \o s
<1>1. t \in Seq(S) /\ Len(t) = Len(s) /\ \A i \in 1..Len(t) : t[i] = s[i]
  OBVIOUS
<1> HIDE DEF t
<1>2. t = s
  BY <1>1, SameLength
<1>3. QED BY <1>2 DEF t

LEMMA OneAndTwo ==
  ASSUME NEW x, NEW y, NEW z
  PROVE  <<x>> \o <<y, z>> = <<x, y, z>>
<1> DEFINE s == <<x>> \o <<y, z>>
           t == <<x, y, z>>
<1>1. s \in Seq({x, y, z}) /\ Len(s) = 3 /\ s[1] = x /\ s[2] = y /\ s[3] = z
  OBVIOUS
<1>2. t \in Seq({x, y, z}) /\ Len(t) = 3 /\ t[1] = x /\ t[2] = y /\ t[3] = z
  OBVIOUS
<1> HIDE DEF s, t
<1>3. \A i \in 1..Len(s) : s[i] = t[i]
  BY <1>1, <1>2
<1>4. s = t
  BY <1>1, <1>2, <1>3, SameLength
<1>5. QED BY <1>4 DEF s, t

\* What passwd says, in each case.
LEMMA Prompted ==
  /\ LET s == <<>> \o (<<"Changing">> \o Words["current"]) IN
     s \in Seq({"Changing", "urrent", "assword: "}) /\ s # <<>> /\ Len(s) = 3
     /\ s[1] = "Changing" /\ s[2] = "urrent" /\ s[3] = "assword: "
  /\ LET s == <<>> \o (<<>> \o Words["new"]) IN
     s \in Seq({"New", "assword: "}) /\ s # <<>> /\ Len(s) = 2
     /\ s[1] = "New" /\ s[2] = "assword: "
  /\ LET s == <<>> \o (<<>> \o Words["retype"]) IN
     s \in Seq({"new", "assword: "}) /\ s # <<>> /\ Len(s) = 2
     /\ s[1] = "new" /\ s[2] = "assword: "
  /\ LET s == <<>> \o (<<"BAD PASSWORD">> \o Words["new"]) IN
     s \in Seq({"BAD PASSWORD", "New", "assword: "}) /\ s # <<>> /\ Len(s) = 3
     /\ s[1] = "BAD PASSWORD" /\ s[2] = "New" /\ s[3] = "assword: "
<1>1. /\ Words["current"] = <<"urrent", "assword: ">>
      /\ Words["new"] = <<"New", "assword: ">> /\ Words["retype"] = <<"new", "assword: ">>
  BY DEF Words
<1>2. /\ <<"Changing">> \o <<"urrent", "assword: ">> = <<"Changing", "urrent", "assword: ">>
      /\ <<"BAD PASSWORD">> \o <<"New", "assword: ">> = <<"BAD PASSWORD", "New", "assword: ">>
  BY OneAndTwo
<1>3. /\ <<>> \o <<"Changing", "urrent", "assword: ">> = <<"Changing", "urrent", "assword: ">>
      /\ <<>> \o <<"BAD PASSWORD", "New", "assword: ">> = <<"BAD PASSWORD", "New", "assword: ">>
      /\ <<>> \o (<<>> \o <<"New", "assword: ">>) = <<"New", "assword: ">>
      /\ <<>> \o (<<>> \o <<"new", "assword: ">>) = <<"new", "assword: ">>
  <2>1. ASSUME NEW x, NEW y PROVE <<>> \o <<x, y>> = <<x, y>>
    <3> DEFINE t == <<x, y>>
    <3>1. t \in Seq({x, y})
      OBVIOUS
    <3> HIDE DEF t
    <3>2. <<>> \o t = t
      BY <3>1, NothingBefore
    <3>3. QED BY <3>2 DEF t
  <2>2. ASSUME NEW x, NEW y, NEW z PROVE <<>> \o <<x, y, z>> = <<x, y, z>>
    <3> DEFINE t == <<x, y, z>>
    <3>1. t \in Seq({x, y, z})
      OBVIOUS
    <3> HIDE DEF t
    <3>2. <<>> \o t = t
      BY <3>1, NothingBefore
    <3>3. QED BY <3>2 DEF t
  <2>3. QED BY <2>1, <2>2
<1>4. ASSUME NEW x, NEW y
      PROVE  LET s == <<x, y>> IN
             s \in Seq({x, y}) /\ s # <<>> /\ Len(s) = 2 /\ s[1] = x /\ s[2] = y
  OBVIOUS
<1>5. ASSUME NEW x, NEW y, NEW z
      PROVE  LET s == <<x, y, z>> IN
             s \in Seq({x, y, z}) /\ s # <<>> /\ Len(s) = 3 /\ s[1] = x /\ s[2] = y /\ s[3] = z
  OBVIOUS
<1>6. /\ <<>> \o (<<"Changing">> \o Words["current"]) = <<"Changing", "urrent", "assword: ">>
      /\ <<>> \o (<<>> \o Words["new"]) = <<"New", "assword: ">>
      /\ <<>> \o (<<>> \o Words["retype"]) = <<"new", "assword: ">>
      /\ <<>> \o (<<"BAD PASSWORD">> \o Words["new"]) = <<"BAD PASSWORD", "New", "assword: ">>
  <2> DEFINE a == <<"urrent", "assword: ">>
             b == <<"New", "assword: ">>
             c == <<"new", "assword: ">>
             d == <<"Changing", "urrent", "assword: ">>
             e == <<"BAD PASSWORD", "New", "assword: ">>
             f == <<"Changing">>
             g == <<"BAD PASSWORD">>
  <2>1. /\ Words["current"] = a /\ Words["new"] = b /\ Words["retype"] = c
        /\ f \o a = d /\ g \o b = e
        /\ <<>> \o d = d /\ <<>> \o e = e
        /\ <<>> \o (<<>> \o b) = b /\ <<>> \o (<<>> \o c) = c
    BY <1>1, <1>2, <1>3
  <2> HIDE DEF a, b, c, d, e, f, g
  <2>2. /\ <<>> \o (f \o Words["current"]) = d /\ <<>> \o (<<>> \o Words["new"]) = b
        /\ <<>> \o (<<>> \o Words["retype"]) = c /\ <<>> \o (g \o Words["new"]) = e
    BY <2>1, Zenon
  <2>3. QED BY <2>2 DEF a, b, c, d, e, f, g
<1>7. ASSUME NEW s, NEW x, NEW y, s = <<x, y>>
      PROVE  s \in Seq({x, y}) /\ s # <<>> /\ Len(s) = 2 /\ s[1] = x /\ s[2] = y
  BY <1>4, <1>7
<1>8. ASSUME NEW s, NEW x, NEW y, NEW z, s = <<x, y, z>>
      PROVE  s \in Seq({x, y, z}) /\ s # <<>> /\ Len(s) = 3 /\ s[1] = x /\ s[2] = y /\ s[3] = z
  BY <1>5, <1>8
<1>9. QED
  <2>1. LET s == <<>> \o (<<"Changing">> \o Words["current"]) IN
        /\ s \in Seq({"Changing", "urrent", "assword: "}) /\ s # <<>> /\ Len(s) = 3
        /\ s[1] = "Changing" /\ s[2] = "urrent" /\ s[3] = "assword: "
    <3> DEFINE s == <<>> \o (<<"Changing">> \o Words["current"])
    <3>1. s = <<"Changing", "urrent", "assword: ">>
      BY <1>6
    <3> HIDE DEF s
    <3>2. PICK x, y, z : x = "Changing" /\ y = "urrent" /\ z = "assword: "
      OBVIOUS
    <3>3. s = <<x, y, z>>
      BY <3>1, <3>2
    <3>4. s \in Seq({x, y, z}) /\ s # <<>> /\ Len(s) = 3 /\ s[1] = x /\ s[2] = y /\ s[3] = z
      BY <3>3, <1>8
    <3>5. QED BY <3>2, <3>4 DEF s
  <2>2. LET s == <<>> \o (<<>> \o Words["new"]) IN
        /\ s \in Seq({"New", "assword: "}) /\ s # <<>> /\ Len(s) = 2
        /\ s[1] = "New" /\ s[2] = "assword: "
    <3> DEFINE s == <<>> \o (<<>> \o Words["new"])
    <3>1. s = <<"New", "assword: ">>
      BY <1>6
    <3> HIDE DEF s
    <3>2. PICK x, y : x = "New" /\ y = "assword: "
      OBVIOUS
    <3>3. s = <<x, y>>
      BY <3>1, <3>2
    <3>4. s \in Seq({x, y}) /\ s # <<>> /\ Len(s) = 2 /\ s[1] = x /\ s[2] = y
      BY <3>3, <1>7
    <3>5. QED BY <3>2, <3>4 DEF s
  <2>3. LET s == <<>> \o (<<>> \o Words["retype"]) IN
        /\ s \in Seq({"new", "assword: "}) /\ s # <<>> /\ Len(s) = 2
        /\ s[1] = "new" /\ s[2] = "assword: "
    <3> DEFINE s == <<>> \o (<<>> \o Words["retype"])
    <3>1. s = <<"new", "assword: ">>
      BY <1>6
    <3> HIDE DEF s
    <3>2. PICK x, y : x = "new" /\ y = "assword: "
      OBVIOUS
    <3>3. s = <<x, y>>
      BY <3>1, <3>2
    <3>4. s \in Seq({x, y}) /\ s # <<>> /\ Len(s) = 2 /\ s[1] = x /\ s[2] = y
      BY <3>3, <1>7
    <3>5. QED BY <3>2, <3>4 DEF s
  <2>4. LET s == <<>> \o (<<"BAD PASSWORD">> \o Words["new"]) IN
        /\ s \in Seq({"BAD PASSWORD", "New", "assword: "}) /\ s # <<>> /\ Len(s) = 3
        /\ s[1] = "BAD PASSWORD" /\ s[2] = "New" /\ s[3] = "assword: "
    <3> DEFINE s == <<>> \o (<<"BAD PASSWORD">> \o Words["new"])
    <3>1. s = <<"BAD PASSWORD", "New", "assword: ">>
      BY <1>6
    <3> HIDE DEF s
    <3>2. PICK x, y, z : x = "BAD PASSWORD" /\ y = "New" /\ z = "assword: "
      OBVIOUS
    <3>3. s = <<x, y, z>>
      BY <3>1, <3>2
    <3>4. s \in Seq({x, y, z}) /\ s # <<>> /\ Len(s) = 3 /\ s[1] = x /\ s[2] = y /\ s[3] = z
      BY <3>3, <1>8
    <3>5. QED BY <3>2, <3>4 DEF s
  <2>5. QED BY <2>1, <2>2, <2>3, <2>4

LEMMA Ended ==
  /\ LET s == <<>> \o <<"error", "unchanged">> IN
     s \in Seq({"error", "unchanged"}) /\ s # <<>>
  /\ LET s == <<>> \o <<"failure", "unchanged">> IN
     s \in Seq({"failure", "unchanged"}) /\ s # <<>> /\ s[1] = "failure"
  /\ LET s == <<>> \o <<"successfully">> IN
     s \in Seq({"successfully"}) /\ s # <<>> /\ s[1] = "successfully"
OBVIOUS

LEMMA WordsAreKeywords ==
  /\ {"Changing", "urrent", "assword: "} \subseteq Keywords
  /\ {"BAD PASSWORD", "New", "assword: "} \subseteq Keywords
  /\ {"new", "assword: "} \subseteq Keywords /\ {"New", "assword: "} \subseteq Keywords
  /\ {"error", "unchanged"} \subseteq Keywords /\ {"failure", "unchanged"} \subseteq Keywords
  /\ {"successfully"} \subseteq Keywords
BY DEF Keywords, Rejections

LEMMA SeqSubset ==
  ASSUME NEW S, NEW T, S \subseteq T, NEW s \in Seq(S) PROVE s \in Seq(T)
OBVIOUS

-----------------------------------------------------------------------------
(* The places of the dialogue.                                             *)

\* What the handler and passwd are at, and the lines between them.
At(h, st, ph, in, q) ==
    state[h] = st /\ phase[h] = ph /\ stdin[h] = in /\ queue[h] = q

\* What is left in the pipe of a text that ends in a prompt: other words of W,
\* and the prompt's "assword: " as the last one unless it was read.
Ends(h, W) ==
    /\ stdout[h] \in Seq(W \cup {"assword: "})
    /\ \A i \in 1..Len(stdout[h]) : stdout[h][i] = "assword: " => i = Len(stdout[h])

\* Nothing was read of the text in the pipe, that has w as its first word.
Unread(h, w) == stdout[h] # <<>> /\ stdout[h][1] = w /\ ~cut[h]

Asked(h, ch) ==
    verdict[h] = "asked" /\ oks[h] = 0 /\ ~stored[h] /\ changing[h] = ch

NotStarted(h) ==
    /\ At(h, "NONE", "none", <<>>, <<>>) /\ stdout[h] = <<>>
    /\ verdict[h] \in {"idle", "asked", "error"}
    /\ oks[h] = 0 /\ ~stored[h] /\ ~changing[h]

Started(h) ==
    /\ Asked(h, FALSE) /\ At(h, "NONE", "current", <<>>, <<Default>>)
    /\ Ends(h, {"Changing", "urrent"})

\* Another handler's words made the prompt for the current password one for the
\* new password; nobody leaves this place.
Stuck(h) ==
    Asked(h, FALSE) /\ At(h, "NEW", "current", <<>>, <<>>) /\ stdout[h] = <<>>

Authenticating(h) ==
    Asked(h, FALSE) /\ At(h, "AUTH", "current", <<Default>>, <<>>) /\ stdout[h] = <<>>

\* Another handler's words can make the prompt for the new password a failure.
Authentic(h) ==
    /\ At(h, "AUTH", "new", <<>>, <<>>) /\ Ends(h, {"New"}) /\ given[h].old = Default
    /\ oks[h] = 0 /\ ~stored[h] /\ ~changing[h]
    /\ verdict[h] = "asked" \/ (verdict[h] = "error" /\ stdout[h] = <<>>)

Denied(h) ==
    /\ At(h, "AUTH", "exited", <<>>, <<>>) /\ status[h] = 1
    /\ stdout[h] \in Seq({"error", "unchanged"})
    /\ oks[h] = 0 /\ ~stored[h] /\ ~changing[h] /\ verdict[h] \in {"asked", "error"}

\* From here on passwd is sent the password p, twice.
Sent(h, p) ==
    /\ Asked(h, TRUE) /\ At(h, "NEW", "new", <<p>>, <<p>>)
    /\ stdout[h] = <<>> /\ given[h].old = Default

Accepted(h, p) ==
    /\ Asked(h, TRUE) /\ At(h, "NEW", "retype", <<>>, <<p>>)
    /\ Ends(h, {"new"}) /\ given[h].old = Default /\ given[h].new = p

TooWeak(h, p) ==
    /\ Asked(h, TRUE) /\ At(h, "NEW", "new", <<>>, <<p>>) /\ p \in Weak
    /\ Ends(h, {"BAD PASSWORD", "New"})

Retyped(h, p) ==
    /\ Asked(h, TRUE) /\ At(h, "RETYPE", "retype", <<p>>, <<>>)
    /\ stdout[h] = <<>> /\ given[h].old = Default /\ given[h].new = p

WeakAgain(h, p) ==
    /\ Asked(h, TRUE) /\ At(h, "RETYPE", "new", <<p>>, <<>>) /\ p \in Weak
    /\ stdout[h] = <<>>

Refused(h) ==
    /\ Asked(h, TRUE)
    /\ \/ /\ At(h, "RETYPE", "new", <<>>, <<>>) /\ Unread(h, "BAD PASSWORD")
          /\ stdout[h] \in Seq({"BAD PASSWORD", "New", "assword: "})
       \/ /\ At(h, "RETYPE", "exited", <<>>, <<>>) /\ Unread(h, "failure")
          /\ stdout[h] \in Seq({"failure", "unchanged"}) /\ status[h] = 1

Changed(h) ==
    /\ At(h, "RETYPE", "exited", <<>>, <<>>) /\ Unread(h, "successfully")
    /\ stdout[h] \in Seq({"successfully"}) /\ status[h] = 0
    /\ verdict[h] = "asked" /\ oks[h] = 0 /\ stored[h] /\ changing[h]

Successful(h) ==
    /\ At(h, "DONE", "exited", <<>>, <<>>)
    /\ verdict[h] = "ok" /\ oks[h] = 1 /\ stored[h]

Failed(h) ==
    /\ state[h] = "ERR" /\ phase[h] \in {"new", "exited"}
    /\ stdin[h] = <<>> /\ queue[h] = <<>> /\ verdict[h] = "error" /\ oks[h] = 0

Freed(h) ==
    /\ At(h, "NONE", "freed", <<>>, <<>>) /\ stdout[h] = <<>>
    /\ \/ verdict[h] = "asked" /\ oks[h] = 0 /\ ~stored[h]
       \/ verdict[h] = "error" /\ oks[h] = 0
       \/ verdict[h] = "ok" /\ oks[h] = 1 /\ stored[h]

Place(h) ==
    \/ NotStarted(h) \/ Started(h) \/ Stuck(h)
    \/ Authenticating(h) \/ Authentic(h) \/ Denied(h)
    \/ \E p \in Passwords :
          Sent(h, p) \/ Accepted(h, p) \/ TooWeak(h, p) \/ Retyped(h, p) \/ WeakAgain(h, p)
    \/ Refused(h) \/ Changed(h) \/ Successful(h) \/ Failed(h) \/ Freed(h)

\* What the dialogue of h reads and writes for itself.
Own(h) == <<state[h], queue[h], changing[h], verdict[h], oks[h], phase[h], stdin[h],
            stdout[h], cut[h], given[h], status[h], stored[h]>>

\* Of what a handler waits for, only rejections are kept for the next read.
Harmless ==
    str.words \subseteq {"Changing", "urrent", "New", "new", "BAD PASSWORD", "unchanged"}

HasPassword == account # NoPassword

\* Where a keyword was broken its end is still in the pipe.
Cuts == \A h \in Handlers : cut[h] => stdout[h] # <<>>

IInv == TypeOK /\ Harmless /\ HasPassword /\ Cuts /\ \A h \in Handlers : Place(h)

LEMMA StaysLemma ==
  ASSUME NEW h \in Handlers, Place(h), UNCHANGED Own(h)
  PROVE  Place(h)'
<1>1. /\ state'[h] = state[h] /\ queue'[h] = queue[h] /\ changing'[h] = changing[h]
      /\ verdict'[h] = verdict[h] /\ oks'[h] = oks[h] /\ phase'[h] = phase[h]
      /\ stdin'[h] = stdin[h] /\ stdout'[h] = stdout[h] /\ cut'[h] = cut[h]
      /\ given'[h] = given[h] /\ status'[h] = status[h] /\ stored'[h] = stored[h]
  BY DEF Own
<1> USE DEF At, Asked, Ends, Unread
<1>2. /\ NotStarted(h) => NotStarted(h)'
      /\ Started(h) => Started(h)'
      /\ Stuck(h) => Stuck(h)'
  BY <1>1 DEF NotStarted, Started, Stuck
<1>3. /\ Authenticating(h) => Authenticating(h)'
      /\ Authentic(h) => Authentic(h)'
      /\ Denied(h) => Denied(h)'
  BY <1>1 DEF Authenticating, Authentic, Denied
<1>4. \A p \in Passwords :
         /\ Sent(h, p) => Sent(h, p)'
         /\ Accepted(h, p) => Accepted(h, p)'
         /\ TooWeak(h, p) => TooWeak(h, p)'
         /\ Retyped(h, p) => Retyped(h, p)'
         /\ WeakAgain(h, p) => WeakAgain(h, p)'
  BY <1>1 DEF Sent, Accepted, TooWeak, Retyped, WeakAgain
<1>5. /\ Refused(h) => Refused(h)'
      /\ Changed(h) => Changed(h)'
      /\ Successful(h) => Successful(h)'
      /\ Failed(h) => Failed(h)'
      /\ Freed(h) => Freed(h)'
  BY <1>1 DEF Refused, Changed, Successful, Failed, Freed
<1>6. QED BY <1>2, <1>3, <1>4, <1>5 DEF Place

\* An account that has a password never loses it.
LEMMA InitLemma == ASSUME NoPassword \notin Accounts, Init PROVE IInv
<1>1. TypeOK
  <2>1. /\ queue \in [Handlers -> Seq(Lines)] /\ stdin \in [Handlers -> Seq(Lines)]
        /\ stdout \in [Handlers -> Seq(Keywords)]
    BY DEF Init
  <2>2. given \in [Handlers -> [old : Lines \cup {NoPassword}, new : Lines \cup {NoPassword}]]
    BY DEF Init
  <2>3. account \in Lines \cup {NoPassword} /\ entry \in Passwords
    BY PasswordAssumption DEF Init, Lines
  <2>4. /\ state \in [Handlers -> States]
        /\ phase \in [Handlers -> Prompts \cup {"none", "exited", "freed"}]
        /\ verdict \in [Handlers -> {"idle", "asked", "ok", "error"}]
        /\ oks \in [Handlers -> 0..1] /\ status \in [Handlers -> {0, 1}]
    BY DEF Init, States
  <2>5. /\ changing \in [Handlers -> BOOLEAN] /\ stored \in [Handlers -> BOOLEAN]
        /\ cut \in [Handlers -> BOOLEAN]
    BY DEF Init
  <2>6. /\ str \in [words : SUBSET Keywords, front : SUBSET (Handlers \X Keywords)]
        /\ overlapped \in BOOLEAN /\ mixed \in BOOLEAN
    BY DEF Init, Empty
  <2>7. QED BY <2>1, <2>2, <2>3, <2>4, <2>5, <2>6 DEF TypeOK
<1>2. \A h \in Handlers : NotStarted(h)
  BY DEF Init, NotStarted, At
<1>3. Harmless /\ HasPassword /\ Cuts
  BY DEF Init, Empty, Harmless, HasPassword, Cuts
<1>4. QED BY <1>1, <1>2, <1>3 DEF IInv, Place

-----------------------------------------------------------------------------
(* The actions.                                                            *)

LEMMA StutterLemma ==
  ASSUME IInv, UNCHANGED vars
  PROVE  IInv' /\ \A k \in Handlers : UNCHANGED Own(k)
<1>1. UNCHANGED <<entry, state, queue, changing, verdict, oks, str, account, phase, given,
                  status, stored, stdin, stdout, cut, overlapped, mixed>>
  BY DEF vars, handler, backend, pipes, history
<1>2. \A k \in Handlers : UNCHANGED Own(k)
  BY <1>1 DEF Own
<1>3. \A k \in Handlers : Place(k)'
  BY <1>2, StaysLemma DEF IInv
<1>4. TypeOK'
  BY <1>1 DEF IInv, TypeOK
<1>5. Harmless' /\ HasPassword' /\ Cuts'
  BY <1>1 DEF IInv, Harmless, HasPassword, Cuts
<1>6. QED BY <1>2, <1>3, <1>4, <1>5 DEF IInv

\* In a step of the dialogue of h the others stay where they are.
LEMMA OneMovesLemma ==
  ASSUME NEW h \in Handlers, IInv, Place(h)', cut'[h] => stdout'[h] # <<>>,
         \A k \in Handlers \ {h} : UNCHANGED Own(k)
  PROVE  (\A k \in Handlers : Place(k)') /\ Cuts'
<1>1. \A k \in Handlers : Place(k)'
  BY StaysLemma DEF IInv
<1>2. Cuts'
  BY DEF IInv, Cuts, Own
<1>3. QED BY <1>1, <1>2

LEMMA EditLemma ==
  ASSUME IInv, NEW password \in Passwords, Edit(password)
  PROVE  IInv' /\ \A k \in Handlers : UNCHANGED Own(k)
<1>1. /\ UNCHANGED <<state, queue, changing, verdict, oks, str, account, phase, given,
                     status, stored, stdin, stdout, cut, overlapped, mixed>>
      /\ entry' \in Passwords
  BY DEF Edit, handler, backend, pipes, history
<1>2. TypeOK'
  BY <1>1 DEF IInv, TypeOK
<1>3. \A k \in Handlers : UNCHANGED Own(k)
  BY <1>1 DEF Own
<1>4. \A k \in Handlers : Place(k)'
  BY <1>3, StaysLemma DEF IInv
<1>5. Harmless' /\ HasPassword' /\ Cuts'
  BY <1>1 DEF IInv, Harmless, HasPassword, Cuts
<1>6. QED BY <1>2, <1>3, <1>4, <1>5 DEF IInv

\* A whole prompt is in the pipe.
FullPrompt(h) ==
    stdout[h] # <<>> /\ stdout[h][Len(stdout[h])] = "assword: " /\ ~cut[h]

LEMMA ApplyLemma ==
  ASSUME IInv, NEW h \in Handlers, Apply(h)
  PROVE  /\ IInv' /\ NotStarted(h) /\ verdict[h] = "idle"
         /\ NotStarted(h)' \/ (Started(h)' /\ FullPrompt(h)')
         /\ verdict'[h] \in {"asked", "error"}
         /\ (\A k \in Handlers \ {h} : UNCHANGED Own(k)) /\ UNCHANGED <<str, account, stored>>
         /\ overlapped' = (overlapped \/ \E k \in Handlers : verdict[k] = "asked")
         /\ mixed' = (mixed \/ overlapped' \/ \E k \in Handlers : stdout[k] # <<>>)
<1>1. NotStarted(h)
  <2>1. verdict[h] = "idle" /\ Place(h)
    BY DEF IInv, Apply
  <2>2. QED
    BY <2>1 DEF Place, Asked, Started, Stuck, Authenticating, Authentic, Denied, Sent,
                Accepted, TooWeak, Retyped, WeakAgain, Refused, Changed, Successful,
                Failed, Freed
<1>2. /\ UNCHANGED <<entry, state, changing, oks, str, account, given, status, stored,
                     stdin, cut>>
      /\ overlapped' \in BOOLEAN /\ mixed' \in BOOLEAN
      /\ \E v \in {"asked", "error"} : verdict' = Set(verdict, h, v)
  BY DEF Apply, IInv, TypeOK
<1>3. stdout[h] = <<>> /\ ~cut[h]
  BY <1>1 DEF NotStarted, IInv, Cuts
<1>4. verdict' \in [Handlers -> {"idle", "asked", "ok", "error"}]
  BY <1>2 DEF Set, IInv, TypeOK
<1>5. ASSUME UNCHANGED <<queue, phase, stdout>>
      PROVE  IInv' /\ NotStarted(h)' /\ \A k \in Handlers \ {h} : UNCHANGED Own(k)
  <2>1. TypeOK'
    BY <1>2, <1>4, <1>5 DEF IInv, TypeOK
  <2>2. NotStarted(h)'
    BY <1>1, <1>2, <1>5 DEF NotStarted, At, Set, IInv, TypeOK
  <2>3. \A k \in Handlers \ {h} : UNCHANGED Own(k)
    BY <1>2, <1>5 DEF Set, Own, IInv, TypeOK
  <2>4. cut'[h] => stdout'[h] # <<>>
    BY <1>2, <1>3
  <2>5. (\A k \in Handlers : Place(k)') /\ Cuts'
    BY <2>2, <2>3, <2>4, OneMovesLemma DEF Place
  <2>6. IInv'
    BY <1>2, <2>1, <2>5 DEF IInv, Harmless, HasPassword
  <2>7. QED BY <2>2, <2>3, <2>6
<1>6. ASSUME verdict' = Set(verdict, h, "asked"), spawn_passwd(h),
             queue' = Set(queue, h, <<Default>>)
      PROVE  /\ IInv' /\ Started(h)' /\ FullPrompt(h)'
             /\ \A k \in Handlers \ {h} : UNCHANGED Own(k)
  <2> DEFINE text == <<>> \o (<<"Changing">> \o Words["current"])
  <2>1. phase' = Set(phase, h, "current") /\ stdout' = Set(stdout, h, text)
    BY <1>3, <1>6 DEF spawn_passwd, Say, Set, IInv, HasPassword
  <2>2. /\ text \in Seq({"Changing", "urrent", "assword: "}) /\ text # <<>> /\ Len(text) = 3
        /\ text[1] = "Changing" /\ text[2] = "urrent" /\ text[3] = "assword: "
    BY Prompted
  <2> HIDE DEF text
  <2>3. text \in Seq(Keywords)
    BY <2>2, WordsAreKeywords, SeqSubset
  <2>4. /\ queue' \in [Handlers -> Seq(Lines)] /\ stdout' \in [Handlers -> Seq(Keywords)]
        /\ phase' \in [Handlers -> Prompts \cup {"none", "exited", "freed"}]
        /\ queue'[h] = <<Default>> /\ stdout'[h] = text /\ phase'[h] = "current"
        /\ verdict'[h] = "asked"
        /\ \A k \in Handlers \ {h} : /\ queue'[k] = queue[k] /\ stdout'[k] = stdout[k]
                                     /\ phase'[k] = phase[k] /\ verdict'[k] = verdict[k]
    <3>1. <<Default>> \in Seq(Lines) /\ "current" \in Prompts
      BY DEF Lines, Prompts
    <3>2. QED BY <1>6, <2>1, <2>3, <3>1 DEF Set, IInv, TypeOK
  <2>5. TypeOK'
    BY <1>2, <1>4, <2>4 DEF IInv, TypeOK
  <2>6. Ends(h, {"Changing", "urrent"})' /\ FullPrompt(h)'
    <3>1. {"Changing", "urrent"} \cup {"assword: "} = {"Changing", "urrent", "assword: "}
      OBVIOUS
    <3>2. text # <<>> /\ \A i \in 1..Len(text) : text[i] = "assword: " => i = Len(text)
      <4>1. \A i \in 1..3 : i = 1 \/ i = 2 \/ i = 3
        OBVIOUS
      <4>2. "Changing" # "assword: " /\ "urrent" # "assword: "
        OBVIOUS
      <4>3. \A i \in 1..Len(text) : text[i] = "assword: " => i = Len(text)
        BY <2>2, <4>1, <4>2
      <4>4. QED BY <2>2, <4>3, Zenon
    <3>3. QED BY <1>2, <1>3, <2>2, <2>4, <3>1, <3>2 DEF Ends, FullPrompt
  <2>7. Started(h)'
    BY <1>1, <1>2, <2>4, <2>6 DEF Started, NotStarted, Asked, At
  <2>8. \A k \in Handlers \ {h} : UNCHANGED Own(k)
    BY <1>2, <2>4 DEF Own
  <2>9. cut'[h] => stdout'[h] # <<>>
    BY <1>2, <1>3
  <2>10. (\A k \in Handlers : Place(k)') /\ Cuts'
    BY <2>7, <2>8, <2>9, OneMovesLemma DEF Place
  <2>11. IInv'
    BY <1>2, <2>5, <2>10 DEF IInv, Harmless, HasPassword
  <2>12. QED BY <2>6, <2>7, <2>8, <2>11
<1>7. /\ IInv' /\ (NotStarted(h)' \/ (Started(h)' /\ FullPrompt(h)'))
      /\ \A k \in Handlers \ {h} : UNCHANGED Own(k)
  BY <1>5, <1>6 DEF Apply
<1>8. verdict'[h] \in {"asked", "error"}
  BY <1>2 DEF Set, IInv, TypeOK
<1>9. /\ overlapped' = (overlapped \/ \E k \in Handlers : verdict[k] = "asked")
      /\ mixed' = (mixed \/ overlapped' \/ \E k \in Handlers : stdout[k] # <<>>)
      /\ verdict[h] = "idle"
  BY DEF Apply
<1>10. QED BY <1>1, <1>2, <1>7, <1>8, <1>9

LEMMA ChildExitedLemma ==
  ASSUME IInv, NEW h \in Handlers, ChildExited(h)
  PROVE  /\ IInv' /\ Freed(h)'
         /\ (\A k \in Handlers \ {h} : UNCHANGED Own(k))
         /\ UNCHANGED <<str, account, stored, history>>
         /\ \/ ~Changed(h) /\ verdict'[h] = verdict[h]
            \/ Changed(h) /\ verdict'[h] = "ok"
         /\ Denied(h) \/ Refused(h) \/ Changed(h) \/ Successful(h) \/ Failed(h)
<1>1. Denied(h) \/ Refused(h) \/ Changed(h) \/ Successful(h) \/ Failed(h)
  <2>1. phase[h] = "exited" /\ Place(h)
    BY DEF IInv, ChildExited
  <2>2. QED
    BY <2>1 DEF Place, At, Asked, NotStarted, Started, Stuck, Authenticating, Authentic,
                Sent, Accepted, TooWeak, Retyped, WeakAgain, Freed
<1>2. /\ UNCHANGED <<entry, queue, changing, str, account, given, status, stored, history>>
      /\ phase' = Set(phase, h, "freed") /\ state' = Set(state, h, "NONE")
      /\ stdin' = Set(stdin, h, <<>>) /\ stdout' = Set(stdout, h, <<>>)
      /\ cut' = Set(cut, h, FALSE) /\ phase[h] = "exited"
  BY DEF ChildExited
<1>3. \/ UNCHANGED <<verdict, oks>> /\ ~Changed(h)
      \/ Changed(h) /\ verdict' = Set(verdict, h, "ok") /\ oks' = Set(oks, h, 1)
  <2>1. CASE Changed(h)
    BY <2>1 DEF Changed, At, ChildExited, Succeeded, Set, IInv, TypeOK
  <2>2. CASE ~Changed(h)
    <3>1. ~(status[h] = 0 /\ state[h] = "RETYPE")
      <4>1. Denied(h) => status[h] = 1
        BY DEF Denied
      <4>2. Refused(h) => status[h] = 1
        BY <1>2 DEF Refused, At
      <4>3. Successful(h) \/ Failed(h) => state[h] # "RETYPE"
        BY DEF Successful, Failed, At
      <4>4. QED BY <1>1, <2>2, <4>1, <4>2, <4>3
    <3>2. QED BY <2>2, <3>1 DEF ChildExited
  <2>3. QED BY <2>1, <2>2
<1>4. TypeOK'
  <2>1. /\ stdin' \in [Handlers -> Seq(Lines)] /\ stdout' \in [Handlers -> Seq(Keywords)]
        /\ cut' \in [Handlers -> BOOLEAN]
    BY <1>2 DEF Set, IInv, TypeOK
  <2>2. /\ phase' \in [Handlers -> Prompts \cup {"none", "exited", "freed"}]
        /\ state' \in [Handlers -> States]
    BY <1>2 DEF Set, IInv, TypeOK, States
  <2>3. /\ verdict' \in [Handlers -> {"idle", "asked", "ok", "error"}]
        /\ oks' \in [Handlers -> 0..1]
    <3>1. /\ verdict \in [Handlers -> {"idle", "asked", "ok", "error"}]
          /\ oks \in [Handlers -> 0..1] /\ 1 \in 0..1
      BY DEF IInv, TypeOK
    <3>2. QED BY <1>3, <3>1 DEF Set
  <2>4. UNCHANGED <<overlapped, mixed>>
    BY <1>2 DEF history
  <2>5. QED BY <1>2, <2>1, <2>2, <2>3, <2>4 DEF IInv, TypeOK
<1>5. Freed(h)'
  <2>1. At(h, "NONE", "freed", <<>>, <<>>)' /\ stdout'[h] = <<>>
    <3>1. queue[h] = <<>>
      BY <1>1 DEF Denied, Refused, Changed, Successful, Failed, At
    <3>2. QED BY <1>2, <3>1 DEF At, Set, IInv, TypeOK
  <2>2. CASE Changed(h)
    <3>1. verdict'[h] = "ok" /\ oks'[h] = 1
      BY <1>3, <2>2 DEF Set, IInv, TypeOK
    <3>2. stored'[h]
      BY <1>2, <2>2 DEF Changed
    <3>3. QED BY <2>1, <3>1, <3>2 DEF Freed
  <2>3. CASE ~Changed(h)
    <3>1. verdict'[h] = verdict[h] /\ oks'[h] = oks[h] /\ stored'[h] = stored[h]
      BY <1>2, <1>3, <2>3
    <3>2. QED
      BY <1>1, <2>1, <2>3, <3>1 DEF Freed, Denied, Refused, Asked, Successful, Failed
  <2>4. QED BY <2>2, <2>3
<1>6. \A k \in Handlers \ {h} : UNCHANGED Own(k)
  BY <1>2, <1>3 DEF Set, Own, IInv, TypeOK
<1>7. (\A k \in Handlers : Place(k)') /\ Cuts'
  <2>1. ~cut'[h]
    BY <1>2 DEF Set, IInv, TypeOK
  <2>2. QED BY <1>5, <1>6, <2>1, OneMovesLemma DEF Place
<1>8. IInv'
  BY <1>2, <1>4, <1>7 DEF IInv, Harmless, HasPassword
<1>9. \/ ~Changed(h) /\ verdict'[h] = verdict[h]
      \/ Changed(h) /\ verdict'[h] = "ok"
  BY <1>3 DEF Set, IInv, TypeOK
<1>10. QED BY <1>1, <1>2, <1>5, <1>6, <1>8, <1>9

\* passwd moved on and said something, and may have ended.
LEMMA SaidLemma ==
  ASSUME TypeOK, NEW h \in Handlers,
         NEW ph \in Prompts \cup {"exited"}, NEW out \in Seq(Keywords), NEW code \in {0, 1},
         phase' = Set(phase, h, ph), stdout' = Set(stdout, h, out),
         status' = status \/ status' = Set(status, h, code)
  PROVE  /\ phase' \in [Handlers -> Prompts \cup {"none", "exited", "freed"}]
         /\ stdout' \in [Handlers -> Seq(Keywords)]
         /\ status' \in [Handlers -> {0, 1}]
         /\ phase'[h] = ph /\ stdout'[h] = out
         /\ \A k \in Handlers \ {h} :
               phase'[k] = phase[k] /\ stdout'[k] = stdout[k] /\ status'[k] = status[k]
<1>1. /\ phase \in [Handlers -> Prompts \cup {"none", "exited", "freed"}]
      /\ stdout \in [Handlers -> Seq(Keywords)] /\ status \in [Handlers -> {0, 1}]
  BY DEF TypeOK
<1>2. ph \in Prompts \cup {"none", "exited", "freed"}
  OBVIOUS
<1>3. /\ phase' \in [Handlers -> Prompts \cup {"none", "exited", "freed"}]
      /\ phase'[h] = ph /\ \A k \in Handlers \ {h} : phase'[k] = phase[k]
  BY <1>1, <1>2 DEF Set
<1>4. /\ stdout' \in [Handlers -> Seq(Keywords)]
      /\ stdout'[h] = out /\ \A k \in Handlers \ {h} : stdout'[k] = stdout[k]
  BY <1>1 DEF Set
<1>5. /\ status' \in [Handlers -> {0, 1}]
      /\ \A k \in Handlers \ {h} : status'[k] = status[k]
  BY <1>1 DEF Set
<1>6. QED BY <1>3, <1>4, <1>5

\* A prompt at which the pipe was empty, and what it leaves there.
LEMMA PromptLemma ==
  ASSUME TypeOK, Cuts, cut' = cut, NEW h \in Handlers, stdout[h] = <<>>,
         NEW next \in Prompts, NEW s, NEW W, NEW V,
         V = W \cup {"assword: "}, V \subseteq Keywords,
         phase' = Set(phase, h, next), stdout' = Set(stdout, h, s), UNCHANGED status,
         s \in Seq(V), s # <<>>, s[Len(s)] = "assword: ",
         \A i \in 1..Len(s) : s[i] = "assword: " => i = Len(s)
  PROVE  /\ phase' \in [Handlers -> Prompts \cup {"none", "exited", "freed"}]
         /\ stdout' \in [Handlers -> Seq(Keywords)] /\ UNCHANGED status
         /\ phase'[h] = next /\ Ends(h, W)' /\ FullPrompt(h)' /\ stdout'[h] = s
         /\ \A k \in Handlers \ {h} : phase'[k] = phase[k] /\ stdout'[k] = stdout[k]
<1>1. s \in Seq(Keywords)
  BY SeqSubset
<1>2. next \in Prompts \cup {"exited"}
  OBVIOUS
<1>3. /\ phase' \in [Handlers -> Prompts \cup {"none", "exited", "freed"}]
      /\ stdout' \in [Handlers -> Seq(Keywords)]
      /\ phase'[h] = next /\ stdout'[h] = s
      /\ \A k \in Handlers \ {h} : phase'[k] = phase[k] /\ stdout'[k] = stdout[k]
  BY <1>1, <1>2, SaidLemma
<1>4. Ends(h, W)' /\ FullPrompt(h)'
  BY <1>3 DEF Ends, FullPrompt, Cuts
<1>5. QED BY <1>3, <1>4

\* What passwd says last.
LEMMA ExitLemma ==
  ASSUME TypeOK, Cuts, cut' = cut, NEW h \in Handlers, stdout[h] = <<>>,
         NEW code \in {0, 1}, NEW s, NEW W, W \subseteq Keywords, s \in Seq(W), s # <<>>,
         phase' = Set(phase, h, "exited"), stdout' = Set(stdout, h, s),
         status' = Set(status, h, code)
  PROVE  /\ phase' \in [Handlers -> Prompts \cup {"none", "exited", "freed"}]
         /\ stdout' \in [Handlers -> Seq(Keywords)] /\ status' \in [Handlers -> {0, 1}]
         /\ phase'[h] = "exited" /\ status'[h] = code /\ stdout'[h] = s /\ ~cut'[h]
         /\ \A k \in Handlers \ {h} :
               phase'[k] = phase[k] /\ stdout'[k] = stdout[k] /\ status'[k] = status[k]
<1>1. s \in Seq(Keywords)
  BY SeqSubset
<1>2. status'[h] = code /\ ~cut'[h]
  BY DEF Set, TypeOK, Cuts
<1>3. /\ phase' \in [Handlers -> Prompts \cup {"none", "exited", "freed"}]
      /\ stdout' \in [Handlers -> Seq(Keywords)] /\ status' \in [Handlers -> {0, 1}]
      /\ phase'[h] = "exited" /\ stdout'[h] = s
      /\ \A k \in Handlers \ {h} :
            phase'[k] = phase[k] /\ stdout'[k] = stdout[k] /\ status'[k] = status[k]
  <2>1. "exited" \in Prompts \cup {"exited"}
    OBVIOUS
  <2>2. QED BY <1>1, <2>1, SaidLemma
<1>4. QED BY <1>2, <1>3

LEMMA UpTo3 == /\ \A i \in 1..2 : i = 1 \/ i = 2
               /\ \A i \in 1..3 : i = 1 \/ i = 2 \/ i = 3
OBVIOUS

LEMMA NewPrompt ==
  ASSUME TypeOK, Cuts, cut' = cut, NEW h \in Handlers, stdout[h] = <<>>,
         Prompt(h, "new", <<>>)
  PROVE  /\ phase' \in [Handlers -> Prompts \cup {"none", "exited", "freed"}]
         /\ stdout' \in [Handlers -> Seq(Keywords)] /\ UNCHANGED status
         /\ phase'[h] = "new" /\ Ends(h, {"New"})' /\ FullPrompt(h)'
         /\ \A k \in Handlers \ {h} : phase'[k] = phase[k] /\ stdout'[k] = stdout[k]
<1> DEFINE s == <<>> \o (<<>> \o Words["new"])
           W == {"New"}
           V == {"New", "assword: "}
<1>1. s \in Seq(V) /\ s # <<>> /\ Len(s) = 2 /\ s[1] = "New" /\ s[2] = "assword: "
  BY Prompted
<1>2. phase' = Set(phase, h, "new") /\ stdout' = Set(stdout, h, s) /\ UNCHANGED status
  BY DEF Prompt, Say, Set
<1>3. V = W \cup {"assword: "} /\ V \subseteq Keywords
  BY WordsAreKeywords
<1>4. "new" \in Prompts
  BY DEF Prompts
<1> HIDE DEF s, V, W
<1>5. s[Len(s)] = "assword: " /\ \A i \in 1..Len(s) : s[i] = "assword: " => i = Len(s)
  <2>1. "New" # "assword: "
    OBVIOUS
  <2>2. QED BY <1>1, <2>1, UpTo3
<1>6. /\ phase' \in [Handlers -> Prompts \cup {"none", "exited", "freed"}]
      /\ stdout' \in [Handlers -> Seq(Keywords)] /\ UNCHANGED status
      /\ phase'[h] = "new" /\ Ends(h, W)' /\ FullPrompt(h)' /\ stdout'[h] = s
      /\ \A k \in Handlers \ {h} : phase'[k] = phase[k] /\ stdout'[k] = stdout[k]
  BY <1>1, <1>2, <1>3, <1>4, <1>5, PromptLemma
<1>7. QED BY <1>1, <1>6 DEF V, W

LEMMA RetypePrompt ==
  ASSUME TypeOK, Cuts, cut' = cut, NEW h \in Handlers, stdout[h] = <<>>,
         Prompt(h, "retype", <<>>)
  PROVE  /\ phase' \in [Handlers -> Prompts \cup {"none", "exited", "freed"}]
         /\ stdout' \in [Handlers -> Seq(Keywords)] /\ UNCHANGED status
         /\ phase'[h] = "retype" /\ Ends(h, {"new"})' /\ FullPrompt(h)'
         /\ \A k \in Handlers \ {h} : phase'[k] = phase[k] /\ stdout'[k] = stdout[k]
<1> DEFINE s == <<>> \o (<<>> \o Words["retype"])
           W == {"new"}
           V == {"new", "assword: "}
<1>1. s \in Seq(V) /\ s # <<>> /\ Len(s) = 2 /\ s[1] = "new" /\ s[2] = "assword: "
  BY Prompted
<1>2. phase' = Set(phase, h, "retype") /\ stdout' = Set(stdout, h, s) /\ UNCHANGED status
  BY DEF Prompt, Say, Set
<1>3. V = W \cup {"assword: "} /\ V \subseteq Keywords
  BY WordsAreKeywords
<1>4. "retype" \in Prompts
  BY DEF Prompts
<1> HIDE DEF s, V, W
<1>5. s[Len(s)] = "assword: " /\ \A i \in 1..Len(s) : s[i] = "assword: " => i = Len(s)
  <2>1. "new" # "assword: "
    OBVIOUS
  <2>2. QED BY <1>1, <2>1, UpTo3
<1>6. /\ phase' \in [Handlers -> Prompts \cup {"none", "exited", "freed"}]
      /\ stdout' \in [Handlers -> Seq(Keywords)] /\ UNCHANGED status
      /\ phase'[h] = "retype" /\ Ends(h, W)' /\ FullPrompt(h)' /\ stdout'[h] = s
      /\ \A k \in Handlers \ {h} : phase'[k] = phase[k] /\ stdout'[k] = stdout[k]
  BY <1>1, <1>2, <1>3, <1>4, <1>5, PromptLemma
<1>7. QED BY <1>1, <1>6 DEF V, W

LEMMA WeakPrompt ==
  ASSUME TypeOK, Cuts, cut' = cut, NEW h \in Handlers, stdout[h] = <<>>,
         Prompt(h, "new", <<"BAD PASSWORD">>)
  PROVE  /\ phase' \in [Handlers -> Prompts \cup {"none", "exited", "freed"}]
         /\ stdout' \in [Handlers -> Seq(Keywords)] /\ UNCHANGED status
         /\ phase'[h] = "new" /\ Ends(h, {"BAD PASSWORD", "New"})' /\ FullPrompt(h)'
         /\ stdout'[h] \in Seq({"BAD PASSWORD", "New", "assword: "})
         /\ stdout'[h][1] = "BAD PASSWORD"
         /\ \A k \in Handlers \ {h} : phase'[k] = phase[k] /\ stdout'[k] = stdout[k]
<1> DEFINE s == <<>> \o (<<"BAD PASSWORD">> \o Words["new"])
           W == {"BAD PASSWORD", "New"}
           V == {"BAD PASSWORD", "New", "assword: "}
<1>1. s \in Seq(V) /\ s # <<>> /\ Len(s) = 3
      /\ s[1] = "BAD PASSWORD" /\ s[2] = "New" /\ s[3] = "assword: "
  BY Prompted
<1>2. phase' = Set(phase, h, "new") /\ stdout' = Set(stdout, h, s) /\ UNCHANGED status
  BY DEF Prompt, Say, Set
<1>3. V = W \cup {"assword: "} /\ V \subseteq Keywords
  BY WordsAreKeywords
<1>4. "new" \in Prompts
  BY DEF Prompts
<1> HIDE DEF s, V, W
<1>5. s[Len(s)] = "assword: " /\ \A i \in 1..Len(s) : s[i] = "assword: " => i = Len(s)
  <2>1. "BAD PASSWORD" # "assword: " /\ "New" # "assword: "
    OBVIOUS
  <2>2. QED BY <1>1, <2>1, UpTo3
<1>6. /\ phase' \in [Handlers -> Prompts \cup {"none", "exited", "freed"}]
      /\ stdout' \in [Handlers -> Seq(Keywords)] /\ UNCHANGED status
      /\ phase'[h] = "new" /\ Ends(h, W)' /\ FullPrompt(h)' /\ stdout'[h] = s
      /\ \A k \in Handlers \ {h} : phase'[k] = phase[k] /\ stdout'[k] = stdout[k]
  BY <1>1, <1>2, <1>3, <1>4, <1>5, PromptLemma
<1>7. QED BY <1>1, <1>6 DEF V, W

LEMMA DeniedText ==
  ASSUME TypeOK, Cuts, cut' = cut, NEW h \in Handlers, stdout[h] = <<>>,
         Exit(h, 1, <<"error", "unchanged">>)
  PROVE  /\ phase' \in [Handlers -> Prompts \cup {"none", "exited", "freed"}]
         /\ stdout' \in [Handlers -> Seq(Keywords)] /\ status' \in [Handlers -> {0, 1}]
         /\ phase'[h] = "exited" /\ status'[h] = 1
         /\ stdout'[h] # <<>>
         /\ stdout'[h] \in Seq({"error", "unchanged"})
         /\ \A k \in Handlers \ {h} :
               phase'[k] = phase[k] /\ stdout'[k] = stdout[k] /\ status'[k] = status[k]
<1> DEFINE s == <<>> \o <<"error", "unchanged">>
           W == {"error", "unchanged"}
<1>1. s \in Seq(W) /\ s # <<>>
  BY Ended
<1>2. /\ phase' = Set(phase, h, "exited") /\ stdout' = Set(stdout, h, s)
      /\ status' = Set(status, h, 1) /\ 1 \in {0, 1}
  BY DEF Exit, Say, Set
<1>3. W \subseteq Keywords
  BY WordsAreKeywords
<1> HIDE DEF s, W
<1>4. /\ phase' \in [Handlers -> Prompts \cup {"none", "exited", "freed"}]
      /\ stdout' \in [Handlers -> Seq(Keywords)] /\ status' \in [Handlers -> {0, 1}]
      /\ phase'[h] = "exited" /\ status'[h] = 1 /\ stdout'[h] = s /\ ~cut'[h]
      /\ \A k \in Handlers \ {h} :
            phase'[k] = phase[k] /\ stdout'[k] = stdout[k] /\ status'[k] = status[k]
  BY <1>1, <1>2, <1>3, ExitLemma
<1>5. QED BY <1>1, <1>4 DEF W, Unread

LEMMA RefusedText ==
  ASSUME TypeOK, Cuts, cut' = cut, NEW h \in Handlers, stdout[h] = <<>>,
         Exit(h, 1, <<"failure", "unchanged">>)
  PROVE  /\ phase' \in [Handlers -> Prompts \cup {"none", "exited", "freed"}]
         /\ stdout' \in [Handlers -> Seq(Keywords)] /\ status' \in [Handlers -> {0, 1}]
         /\ phase'[h] = "exited" /\ status'[h] = 1
         /\ Unread(h, "failure")'
         /\ stdout'[h] \in Seq({"failure", "unchanged"})
         /\ \A k \in Handlers \ {h} :
               phase'[k] = phase[k] /\ stdout'[k] = stdout[k] /\ status'[k] = status[k]
<1> DEFINE s == <<>> \o <<"failure", "unchanged">>
           W == {"failure", "unchanged"}
<1>1. s \in Seq(W) /\ s # <<>> /\ s[1] = "failure"
  BY Ended
<1>2. /\ phase' = Set(phase, h, "exited") /\ stdout' = Set(stdout, h, s)
      /\ status' = Set(status, h, 1) /\ 1 \in {0, 1}
  BY DEF Exit, Say, Set
<1>3. W \subseteq Keywords
  BY WordsAreKeywords
<1> HIDE DEF s, W
<1>4. /\ phase' \in [Handlers -> Prompts \cup {"none", "exited", "freed"}]
      /\ stdout' \in [Handlers -> Seq(Keywords)] /\ status' \in [Handlers -> {0, 1}]
      /\ phase'[h] = "exited" /\ status'[h] = 1 /\ stdout'[h] = s /\ ~cut'[h]
      /\ \A k \in Handlers \ {h} :
            phase'[k] = phase[k] /\ stdout'[k] = stdout[k] /\ status'[k] = status[k]
  BY <1>1, <1>2, <1>3, ExitLemma
<1>5. QED BY <1>1, <1>4 DEF W, Unread

LEMMA ChangedText ==
  ASSUME TypeOK, Cuts, cut' = cut, NEW h \in Handlers, stdout[h] = <<>>,
         Exit(h, 0, <<"successfully">>)
  PROVE  /\ phase' \in [Handlers -> Prompts \cup {"none", "exited", "freed"}]
         /\ stdout' \in [Handlers -> Seq(Keywords)] /\ status' \in [Handlers -> {0, 1}]
         /\ phase'[h] = "exited" /\ status'[h] = 0
         /\ Unread(h, "successfully")'
         /\ stdout'[h] \in Seq({"successfully"})
         /\ \A k \in Handlers \ {h} :
               phase'[k] = phase[k] /\ stdout'[k] = stdout[k] /\ status'[k] = status[k]
<1> DEFINE s == <<>> \o <<"successfully">>
           W == {"successfully"}
<1>1. s \in Seq(W) /\ s # <<>> /\ s[1] = "successfully"
  BY Ended
<1>2. /\ phase' = Set(phase, h, "exited") /\ stdout' = Set(stdout, h, s)
      /\ status' = Set(status, h, 0) /\ 0 \in {0, 1}
  BY DEF Exit, Say, Set
<1>3. W \subseteq Keywords
  BY WordsAreKeywords
<1> HIDE DEF s, W
<1>4. /\ phase' \in [Handlers -> Prompts \cup {"none", "exited", "freed"}]
      /\ stdout' \in [Handlers -> Seq(Keywords)] /\ status' \in [Handlers -> {0, 1}]
      /\ phase'[h] = "exited" /\ status'[h] = 0 /\ stdout'[h] = s /\ ~cut'[h]
      /\ \A k \in Handlers \ {h} :
            phase'[k] = phase[k] /\ stdout'[k] = stdout[k] /\ status'[k] = status[k]
  BY <1>1, <1>2, <1>3, ExitLemma
<1>5. QED BY <1>1, <1>4 DEF W, Unread

\* passwd has a line to read at four places.
LEMMA PasswdReadsLemma ==
  ASSUME IInv, NEW h \in Handlers, PasswdReads(h)
  PROVE  /\ IInv' /\ (\A k \in Handlers \ {h} : UNCHANGED Own(k))
         /\ UNCHANGED <<str, verdict, history>>
         /\ \/ Authenticating(h) /\ Authentic(h)' /\ FullPrompt(h)' /\ account' = account
            \/ Authenticating(h) /\ Denied(h)' /\ account' = account /\ account # Default
            \/ \E p \in Passwords :
                  \/ /\ Sent(h, p) /\ (Accepted(h, p)' \/ TooWeak(h, p)')
                     /\ FullPrompt(h)' /\ account' = account
                  \/ WeakAgain(h, p) /\ Refused(h)' /\ account' = account
                  \/ Retyped(h, p) /\ Refused(h)' /\ account' = account
                  \/ /\ Retyped(h, p) /\ Changed(h)'
                     /\ account = Default /\ account' = p
<1> DEFINE line == Head(stdin[h])
<1>1. /\ phase[h] \in Prompts /\ stdin[h] # <<>>
      /\ stdin' = [stdin EXCEPT ![h] = Tail(@)]
      /\ UNCHANGED <<entry, state, queue, changing, verdict, oks, str, cut, history>>
  BY DEF PasswdReads, handler
<1>2. \/ Authenticating(h)
      \/ \E p \in Passwords : Sent(h, p) \/ Retyped(h, p) \/ WeakAgain(h, p)
  <2>1. Place(h)
    BY DEF IInv
  <2>2. QED
    BY <1>1, <2>1 DEF Place, At, NotStarted, Started, Stuck, Authentic, Denied,
                Accepted, TooWeak, Refused, Changed, Successful, Failed, Freed
\* Once it is known where passwd and the handler are, the rest is as before.
<1>3. ASSUME Place(h)', stdin'[h] = <<>>, HasPassword', stdout'[h] # <<>>,
             phase' \in [Handlers -> Prompts \cup {"none", "exited", "freed"}],
             stdout' \in [Handlers -> Seq(Keywords)],
             given' \in [Handlers -> [old : Lines \cup {NoPassword}, new : Lines \cup {NoPassword}]],
             status' \in [Handlers -> {0, 1}], stored' \in [Handlers -> BOOLEAN],
             account' \in Lines \cup {NoPassword},
             \A k \in Handlers \ {h} : /\ phase'[k] = phase[k] /\ stdout'[k] = stdout[k]
                                       /\ given'[k] = given[k] /\ status'[k] = status[k]
                                       /\ stored'[k] = stored[k]
      PROVE  IInv' /\ \A k \in Handlers \ {h} : UNCHANGED Own(k)
  <2>1. stdin' \in [Handlers -> Seq(Lines)]
    <3>1. stdin' = [stdin EXCEPT ![h] = <<>>]
      BY <1>1, <1>3 DEF IInv, TypeOK
    <3>2. QED BY <3>1 DEF IInv, TypeOK
  <2>2. TypeOK'
    BY <1>1, <1>3, <2>1 DEF IInv, TypeOK, history
  <2>3. \A k \in Handlers \ {h} : UNCHANGED Own(k)
    BY <1>1, <1>3 DEF Own, IInv, TypeOK
  <2>4. (\A k \in Handlers : Place(k)') /\ Cuts'
    BY <1>3, <2>3, OneMovesLemma
  <2>5. QED BY <1>1, <1>3, <2>2, <2>3, <2>4 DEF IInv, Harmless
<1>4. ASSUME Authenticating(h)
      PROVE  /\ IInv' /\ (\A k \in Handlers \ {h} : UNCHANGED Own(k)) /\ account' = account
             /\ \/ Authentic(h)' /\ FullPrompt(h)'
                \/ Denied(h)' /\ account # Default
  <2>1. /\ line = Default /\ phase[h] = "current" /\ stdin'[h] = <<>>
        /\ stdout[h] = <<>> /\ state[h] = "AUTH" /\ queue[h] = <<>> /\ Asked(h, FALSE)
    BY <1>1, <1>4, HeadTail DEF Authenticating, At, IInv, TypeOK
  <2>2. /\ given' = [given EXCEPT ![h].old = Default]
        /\ UNCHANGED <<account, stored>>
        /\ IF Default = account THEN Prompt(h, "new", <<>>)
           ELSE Exit(h, 1, <<"error", "unchanged">>)
    BY <2>1 DEF PasswdReads
  <2>3. /\ given' \in [Handlers -> [old : Lines \cup {NoPassword}, new : Lines \cup {NoPassword}]]
        /\ given'[h].old = Default
        /\ \A k \in Handlers \ {h} : given'[k] = given[k]
    BY <2>2 DEF IInv, TypeOK, Lines
  <2>4. CASE Default = account
    <3>1. Prompt(h, "new", <<>>)
      BY <2>2, <2>4
    <3>2. /\ phase' \in [Handlers -> Prompts \cup {"none", "exited", "freed"}]
          /\ stdout' \in [Handlers -> Seq(Keywords)] /\ UNCHANGED status
          /\ phase'[h] = "new" /\ Ends(h, {"New"})' /\ FullPrompt(h)'
          /\ \A k \in Handlers \ {h} : phase'[k] = phase[k] /\ stdout'[k] = stdout[k]
      BY <1>1, <2>1, <3>1, NewPrompt DEF IInv
    <3>3. Authentic(h)'
      BY <1>1, <2>1, <2>2, <2>3, <3>2 DEF Authentic, At, Asked
    <3>4. IInv' /\ \A k \in Handlers \ {h} : UNCHANGED Own(k)
      BY <1>3, <2>1, <2>2, <2>3, <3>2, <3>3 DEF Place, IInv, TypeOK, HasPassword, FullPrompt
    <3>5. QED BY <2>2, <3>2, <3>3, <3>4
  <2>5. CASE Default # account
    <3>1. Exit(h, 1, <<"error", "unchanged">>)
      BY <2>2, <2>5
    <3>2. /\ phase' \in [Handlers -> Prompts \cup {"none", "exited", "freed"}]
          /\ stdout' \in [Handlers -> Seq(Keywords)] /\ status' \in [Handlers -> {0, 1}]
          /\ phase'[h] = "exited" /\ status'[h] = 1
          /\ stdout'[h] \in Seq({"error", "unchanged"}) /\ stdout'[h] # <<>>
          /\ \A k \in Handlers \ {h} :
                phase'[k] = phase[k] /\ stdout'[k] = stdout[k] /\ status'[k] = status[k]
      BY <1>1, <2>1, <3>1, DeniedText DEF IInv
    <3>3. Denied(h)'
      BY <1>1, <2>1, <2>2, <2>3, <3>2 DEF Denied, At, Asked
    <3>4. IInv' /\ \A k \in Handlers \ {h} : UNCHANGED Own(k)
      BY <1>3, <2>1, <2>2, <2>3, <3>2, <3>3 DEF Place, IInv, TypeOK, HasPassword
    <3>5. QED BY <2>2, <2>5, <3>3, <3>4
  <2>6. QED BY <2>4, <2>5
<1>5. ASSUME NEW p \in Passwords, Sent(h, p) \/ WeakAgain(h, p)
      PROVE  /\ IInv' /\ (\A k \in Handlers \ {h} : UNCHANGED Own(k)) /\ account' = account
             /\ \/ Sent(h, p) /\ (Accepted(h, p)' \/ TooWeak(h, p)') /\ FullPrompt(h)'
                \/ WeakAgain(h, p) /\ Refused(h)'
  <2>1. /\ line = p /\ phase[h] = "new" /\ stdin'[h] = <<>>
        /\ stdout[h] = <<>> /\ Asked(h, TRUE)
        /\ \/ Sent(h, p) /\ state[h] = "NEW" /\ queue[h] = <<p>> /\ given[h].old = Default
           \/ WeakAgain(h, p) /\ state[h] = "RETYPE" /\ queue[h] = <<>> /\ p \in Weak
    <3>1. stdin[h] = <<p>> /\ stdin'[h] = Tail(stdin[h])
      BY <1>1, <1>5 DEF Sent, WeakAgain, At, IInv, TypeOK
    <3>2. line = p /\ stdin'[h] = <<>>
      BY <3>1, HeadTail
    <3>3. QED BY <1>5, <3>2 DEF Sent, WeakAgain, At
  <2>2. /\ given' = [given EXCEPT ![h].new = p]
        /\ UNCHANGED <<account, stored>>
        /\ IF p \in Weak THEN Prompt(h, "new", <<"BAD PASSWORD">>)
           ELSE Prompt(h, "retype", <<>>)
    BY <2>1 DEF PasswdReads
  <2>3. /\ given' \in [Handlers -> [old : Lines \cup {NoPassword}, new : Lines \cup {NoPassword}]]
        /\ given'[h].new = p /\ given'[h].old = given[h].old
        /\ \A k \in Handlers \ {h} : given'[k] = given[k]
    BY <2>2 DEF IInv, TypeOK, Lines
  <2>4. CASE p \in Weak
    <3>1. Prompt(h, "new", <<"BAD PASSWORD">>)
      BY <2>2, <2>4
    <3>2. /\ phase' \in [Handlers -> Prompts \cup {"none", "exited", "freed"}]
          /\ stdout' \in [Handlers -> Seq(Keywords)] /\ UNCHANGED status
          /\ phase'[h] = "new" /\ Ends(h, {"BAD PASSWORD", "New"})' /\ FullPrompt(h)'
          /\ stdout'[h] \in Seq({"BAD PASSWORD", "New", "assword: "})
          /\ stdout'[h][1] = "BAD PASSWORD"
          /\ \A k \in Handlers \ {h} : phase'[k] = phase[k] /\ stdout'[k] = stdout[k]
      BY <1>1, <2>1, <3>1, WeakPrompt DEF IInv
    <3>3. \/ Sent(h, p) /\ TooWeak(h, p)'
          \/ WeakAgain(h, p) /\ Refused(h)'
      BY <1>1, <2>1, <2>2, <2>4, <3>2 DEF TooWeak, Refused, Unread, FullPrompt, At, Asked
    <3>4. IInv' /\ \A k \in Handlers \ {h} : UNCHANGED Own(k)
      BY <1>3, <2>1, <2>2, <2>3, <3>2, <3>3 DEF Place, IInv, TypeOK, HasPassword, FullPrompt
    <3>5. QED BY <2>2, <3>2, <3>3, <3>4
  <2>5. CASE p \notin Weak
    <3>1. Prompt(h, "retype", <<>>)
      BY <2>2, <2>5
    <3>2. /\ phase' \in [Handlers -> Prompts \cup {"none", "exited", "freed"}]
          /\ stdout' \in [Handlers -> Seq(Keywords)] /\ UNCHANGED status
          /\ phase'[h] = "retype" /\ Ends(h, {"new"})' /\ FullPrompt(h)'
          /\ \A k \in Handlers \ {h} : phase'[k] = phase[k] /\ stdout'[k] = stdout[k]
      BY <1>1, <2>1, <3>1, RetypePrompt DEF IInv
    <3>3. Sent(h, p) /\ Accepted(h, p)'
      BY <1>1, <2>1, <2>2, <2>3, <2>5, <3>2 DEF Accepted, At, Asked
    <3>4. IInv' /\ \A k \in Handlers \ {h} : UNCHANGED Own(k)
      BY <1>3, <2>1, <2>2, <2>3, <3>2, <3>3 DEF Place, IInv, TypeOK, HasPassword, FullPrompt
    <3>5. QED BY <2>2, <3>2, <3>3, <3>4
  <2>6. QED BY <2>4, <2>5
<1>6. ASSUME NEW p \in Passwords, Retyped(h, p)
      PROVE  /\ IInv' /\ (\A k \in Handlers \ {h} : UNCHANGED Own(k))
             /\ \/ Refused(h)' /\ account' = account
                \/ Changed(h)' /\ account = Default /\ account' = p
  <2>1. /\ line = p /\ phase[h] = "retype" /\ stdin'[h] = <<>>
        /\ stdout[h] = <<>> /\ Asked(h, TRUE) /\ state[h] = "RETYPE" /\ queue[h] = <<>>
        /\ given[h].old = Default /\ given[h].new = p
    <3>1. stdin[h] = <<p>> /\ stdin'[h] = Tail(stdin[h])
      BY <1>1, <1>6 DEF Retyped, At, IInv, TypeOK
    <3>2. line = p /\ stdin'[h] = <<>>
      BY <3>1, HeadTail
    <3>3. QED BY <1>6, <3>2 DEF Retyped, At
  <2>2. /\ UNCHANGED given
        /\ IF account = Default
           THEN /\ account' = p /\ stored' = Set(stored, h, TRUE)
                /\ Exit(h, 0, <<"successfully">>)
           ELSE Exit(h, 1, <<"failure", "unchanged">>) /\ UNCHANGED <<account, stored>>
    BY <2>1 DEF PasswdReads
  <2>3. CASE account = Default
    <3>1. Exit(h, 0, <<"successfully">>)
      BY <2>2, <2>3
    <3>2. /\ phase' \in [Handlers -> Prompts \cup {"none", "exited", "freed"}]
          /\ stdout' \in [Handlers -> Seq(Keywords)] /\ status' \in [Handlers -> {0, 1}]
          /\ phase'[h] = "exited" /\ status'[h] = 0 /\ Unread(h, "successfully")'
          /\ stdout'[h] \in Seq({"successfully"})
          /\ \A k \in Handlers \ {h} :
                phase'[k] = phase[k] /\ stdout'[k] = stdout[k] /\ status'[k] = status[k]
      BY <1>1, <2>1, <3>1, ChangedText DEF IInv
    <3>3. /\ stored' \in [Handlers -> BOOLEAN] /\ stored'[h]
          /\ \A k \in Handlers \ {h} : stored'[k] = stored[k]
      BY <2>2, <2>3 DEF Set, IInv, TypeOK
    <3>4. Changed(h)'
      BY <1>1, <2>1, <3>2, <3>3 DEF Changed, At, Asked
    <3>5. account' = p /\ p \in Lines /\ p # NoPassword
      BY <2>2, <2>3, PasswordAssumption DEF Lines
    <3>6. IInv' /\ \A k \in Handlers \ {h} : UNCHANGED Own(k)
      BY <1>3, <2>1, <2>2, <3>2, <3>3, <3>4, <3>5 DEF Place, IInv, TypeOK, HasPassword, Unread
    <3>7. QED BY <2>3, <3>4, <3>5, <3>6
  <2>4. CASE account # Default
    <3>1. Exit(h, 1, <<"failure", "unchanged">>) /\ UNCHANGED <<account, stored>>
      BY <2>2, <2>4
    <3>2. /\ phase' \in [Handlers -> Prompts \cup {"none", "exited", "freed"}]
          /\ stdout' \in [Handlers -> Seq(Keywords)] /\ status' \in [Handlers -> {0, 1}]
          /\ phase'[h] = "exited" /\ status'[h] = 1 /\ Unread(h, "failure")'
          /\ stdout'[h] \in Seq({"failure", "unchanged"})
          /\ \A k \in Handlers \ {h} :
                phase'[k] = phase[k] /\ stdout'[k] = stdout[k] /\ status'[k] = status[k]
      BY <1>1, <2>1, <3>1, RefusedText DEF IInv
    <3>3. Refused(h)'
      BY <1>1, <2>1, <2>2, <3>1, <3>2 DEF Refused, At, Asked
    <3>4. IInv' /\ \A k \in Handlers \ {h} : UNCHANGED Own(k)
      BY <1>3, <2>1, <2>2, <3>1, <3>2, <3>3 DEF Place, IInv, TypeOK, HasPassword, Unread
    <3>5. QED BY <3>1, <3>3, <3>4
  <2>5. QED BY <2>3, <2>4
<1>7. QED BY <1>1, <1>2, <1>4, <1>5, <1>6

-----------------------------------------------------------------------------
(* Reading.                                                                *)

\* The keywords found in a read of n of them, the buffer with them, and the
\* front that it may end in.
Found(h, n, joins) == {stdout[h][i] : i \in {j \in 1..n : j > 1 \/ joins}}

Buffer(h, n, joins) == str.words \cup Found(h, n, joins)

Front(h, n, breaks) == IF breaks THEN {<<h, stdout[h][n + 1]>>} ELSE {}

Kept(h, n, breaks, joins) ==
    [words |-> Buffer(h, n, joins), front |-> Front(h, n, breaks)]

\* A read takes n keywords out of the pipe, and perhaps the front of the next.
LEMMA ReadTakes ==
  ASSUME IInv, NEW h \in Handlers, NEW n \in 0..Len(stdout[h]), NEW breaks \in BOOLEAN,
         NEW joins \in Joins(h), Read(h, n, breaks, joins)
  PROVE  /\ stdout[h] # <<>> /\ UNCHANGED <<entry, backend, history>>
         /\ stdout'[h] = SubSeq(stdout[h], n + 1, Len(stdout[h]))
         /\ stdout' \in [Handlers -> Seq(Keywords)]
         /\ \A k \in Handlers \ {h} : stdout'[k] = stdout[k] /\ cut'[k] = cut[k]
         /\ cut' \in [Handlers -> BOOLEAN] /\ cut'[h] = breaks
         /\ breaks => n < Len(stdout[h])
         /\ n = 0 => ~breaks /\ ~cut[h]
<1>1. /\ stdout[h] # <<>> /\ UNCHANGED <<entry, backend, history>>
      /\ stdout' = [stdout EXCEPT ![h] = SubSeq(@, n + 1, Len(@))]
      /\ cut' = Set(cut, h, breaks)
      /\ IF n = Len(stdout[h]) THEN ~breaks ELSE n = 0 => ~breaks /\ ~cut[h]
  BY DEF Read
<1>2. stdout \in [Handlers -> Seq(Keywords)] /\ cut \in [Handlers -> BOOLEAN]
  BY DEF IInv, TypeOK
<1>3. SubSeq(stdout[h], n + 1, Len(stdout[h])) \in Seq(Keywords)
  BY <1>2, Leaves
<1>4. /\ stdout'[h] = SubSeq(stdout[h], n + 1, Len(stdout[h]))
      /\ stdout' \in [Handlers -> Seq(Keywords)]
      /\ \A k \in Handlers \ {h} : stdout'[k] = stdout[k]
  BY <1>1, <1>2, <1>3
<1>5. /\ cut' \in [Handlers -> BOOLEAN] /\ cut'[h] = breaks
      /\ \A k \in Handlers \ {h} : cut'[k] = cut[k]
  BY <1>1, <1>2 DEF Set
<1>6. Len(stdout[h]) \in Nat /\ Len(stdout[h]) # 0
  BY <1>1, <1>2
<1>7. (breaks => n < Len(stdout[h])) /\ (n = 0 => ~breaks /\ ~cut[h])
  BY <1>1, <1>6
<1>8. QED BY <1>1, <1>4, <1>5, <1>7

\* What is left of the pipe.
LEMMA ReadLeaves ==
  ASSUME IInv, NEW h \in Handlers, NEW n \in 0..Len(stdout[h]), NEW breaks \in BOOLEAN,
         NEW joins \in Joins(h), Read(h, n, breaks, joins)
  PROVE  /\ Len(stdout'[h]) = Len(stdout[h]) - n
         /\ \A i \in 1..Len(stdout'[h]) : stdout'[h][i] = stdout[h][i + n]
         /\ n = Len(stdout[h]) => stdout'[h] = <<>>
         /\ \A S : stdout[h] \in Seq(S) => stdout'[h] \in Seq(S)
<1>1. stdout[h] \in Seq(Keywords)
  BY DEF IInv, TypeOK
<1>2. stdout'[h] = SubSeq(stdout[h], n + 1, Len(stdout[h]))
  BY ReadTakes
<1>3. \A S : stdout[h] \in Seq(S) => stdout'[h] \in Seq(S)
  BY <1>2, Leaves
<1>4. /\ Len(stdout'[h]) = Len(stdout[h]) - n
      /\ \A i \in 1..Len(stdout'[h]) : stdout'[h][i] = stdout[h][i + n]
      /\ n = Len(stdout[h]) => stdout'[h] = <<>>
  BY <1>1, <1>2, Leaves
<1>5. QED BY <1>3, <1>4

LEMMA ReadCuts ==
  ASSUME IInv, NEW h \in Handlers, NEW n \in 0..Len(stdout[h]), NEW breaks \in BOOLEAN,
         NEW joins \in Joins(h), Read(h, n, breaks, joins)
  PROVE  cut'[h] => stdout'[h] # <<>>
<1>1. cut'[h] => n < Len(stdout[h])
  BY ReadTakes
<1>2. Len(stdout'[h]) = Len(stdout[h]) - n /\ Len(stdout[h]) \in Nat
  BY ReadLeaves DEF IInv, TypeOK
<1>3. cut'[h] => Len(stdout'[h]) # 0
  BY <1>1, <1>2
<1>4. QED BY <1>3, NotEmpty

\* What is found.
LEMMA FoundLemma ==
  ASSUME IInv, NEW h \in Handlers, NEW n \in 0..Len(stdout[h]), NEW joins \in Joins(h), NEW S,
         stdout[h] \in Seq(S)
  PROVE  Found(h, n, joins) \subseteq S
<1>1. \A i \in 1..n : i \in 1..Len(stdout[h])
  OBVIOUS
<1>2. \A i \in 1..n : stdout[h][i] \in S
  BY <1>1
<1>3. QED BY <1>2 DEF Found

\* The first keyword is found when nothing of it was read before.
LEMMA FoundFirst ==
  ASSUME IInv, NEW h \in Handlers, NEW n \in 0..Len(stdout[h]), NEW joins \in Joins(h),
         NEW w, Unread(h, w)
  PROVE  IF n = 0 THEN Found(h, n, joins) = {} ELSE w \in Found(h, n, joins)
<1>1. joins
  BY DEF Joins, Unread
<1>2. CASE n = 0
  <2>1. 1..n = {}
    BY <1>2
  <2>2. QED BY <1>2, <2>1 DEF Found
<1>3. CASE n # 0
  <2>1. 1 \in 1..n
    BY <1>3
  <2>2. stdout[h][1] \in Found(h, n, joins)
    BY <1>1, <2>1 DEF Found
  <2>3. QED BY <1>3, <2>2 DEF Unread
<1>4. QED BY <1>2, <1>3

LEMMA Shift ==
  ASSUME NEW L \in Nat, NEW n \in 0..L, NEW i \in 1..(L - n)
  PROVE  i + n \in 1..L /\ (i + n = L => i = L - n)
OBVIOUS

LEMMA ReadEnds ==
  ASSUME IInv, NEW h \in Handlers, NEW n \in 0..Len(stdout[h]), NEW breaks \in BOOLEAN,
         NEW joins \in Joins(h), Read(h, n, breaks, joins), NEW W, Ends(h, W)
  PROVE  /\ Ends(h, W)' /\ Found(h, n, joins) \subseteq W \cup {"assword: "}
         /\ "assword: " \in Found(h, n, joins) => stdout'[h] = <<>>
<1>1. /\ stdout[h] \in Seq(W \cup {"assword: "})
      /\ \A i \in 1..Len(stdout[h]) : stdout[h][i] = "assword: " => i = Len(stdout[h])
  BY DEF Ends
<1>2. /\ stdout'[h] \in Seq(W \cup {"assword: "}) /\ Len(stdout'[h]) = Len(stdout[h]) - n
      /\ \A i \in 1..Len(stdout'[h]) : stdout'[h][i] = stdout[h][i + n]
      /\ n = Len(stdout[h]) => stdout'[h] = <<>>
  BY <1>1, ReadLeaves
<1>3. Len(stdout[h]) \in Nat
  BY DEF IInv, TypeOK
<1>4. ASSUME NEW i \in 1..Len(stdout'[h]), stdout'[h][i] = "assword: "
      PROVE  i = Len(stdout'[h])
  <2>1. stdout[h][i + n] = "assword: "
    BY <1>2, <1>4
  <2>2. i \in 1..(Len(stdout[h]) - n)
    BY <1>2, <1>4
  <2>3. /\ i + n \in 1..Len(stdout[h])
        /\ i + n = Len(stdout[h]) => i = Len(stdout[h]) - n
    BY <1>3, <2>2, Shift
  <2>4. i + n = Len(stdout[h])
    BY <1>1, <2>1, <2>3
  <2>5. QED BY <1>2, <2>3, <2>4
<1>5. Ends(h, W)'
  BY <1>2, <1>4 DEF Ends
<1>6. Found(h, n, joins) \subseteq W \cup {"assword: "}
  BY <1>1, FoundLemma
<1>7. ASSUME "assword: " \in Found(h, n, joins) PROVE stdout'[h] = <<>>
  <2>1. PICK i \in 1..n : stdout[h][i] = "assword: "
    BY <1>7 DEF Found
  <2>2. i \in 1..Len(stdout[h])
    BY <1>3
  <2>3. i = Len(stdout[h])
    BY <1>1, <2>1, <2>2
  <2>4. n = Len(stdout[h])
    BY <1>3, <2>2, <2>3
  <2>5. QED BY <1>2, <2>4
<1>8. QED BY <1>5, <1>6, <1>7

LEMMA KeptType ==
  ASSUME IInv, NEW h \in Handlers, NEW n \in 0..Len(stdout[h]), NEW breaks \in BOOLEAN,
         NEW joins \in Joins(h), Read(h, n, breaks, joins)
  PROVE  /\ Kept(h, n, breaks, joins) \in
                  [words : SUBSET Keywords, front : SUBSET (Handlers \X Keywords)]
         /\ Empty \in [words : SUBSET Keywords, front : SUBSET (Handlers \X Keywords)]
<1>1. stdout[h] \in Seq(Keywords) /\ str.words \subseteq Keywords
  BY DEF IInv, TypeOK
<1>2. Buffer(h, n, joins) \subseteq Keywords
  BY <1>1, FoundLemma DEF Buffer
<1>3. Front(h, n, breaks) \subseteq Handlers \X Keywords
  <2>1. CASE breaks
    <3>1. n < Len(stdout[h])
      BY <2>1, ReadTakes
    <3>2. Len(stdout[h]) \in Nat
      BY DEF IInv, TypeOK
    <3>3. n + 1 \in 1..Len(stdout[h])
      BY <3>1, <3>2
    <3>4. stdout[h][n + 1] \in Keywords
      BY <1>1, <3>3
    <3>5. QED BY <3>4 DEF Front
  <2>2. QED BY <2>1 DEF Front
<1>4. QED BY <1>2, <1>3 DEF Kept, Empty

\* What Read does, by the state of the handler.
LEMMA ReadCases ==
  ASSUME NEW h \in Handlers, NEW n \in 0..Len(stdout[h]), NEW breaks \in BOOLEAN,
         NEW joins \in Joins(h), Read(h, n, breaks, joins)
  PROVE  LET buf  == Buffer(h, n, joins)
             keep == Keep(Kept(h, n, breaks, joins))
             ends == Rejections \cup {"successfully"}
         IN
         /\ state[h] = "NONE" => IF "assword: " \in buf THEN AskedFirst(h, buf) ELSE keep
         /\ state[h] = "AUTH" => IF buf \cap {"assword: ", "failure", "error"} # {}
                                 THEN Authenticated(h, buf) ELSE keep
         /\ state[h] = "NEW" => IF "assword: " \in buf THEN AskedAgain(h) ELSE keep
         /\ state[h] = "RETYPE" => IF buf \cap ends # {} THEN Concluded(h, buf) ELSE keep
         /\ state[h] \in {"DONE", "ERR"} => Keep(Empty)
<1>1. CASE state[h] = "NONE"
  BY <1>1 DEF Read, Buffer, Found, Kept, Front
<1>2. CASE state[h] = "AUTH"
  BY <1>2 DEF Read, Buffer, Found, Kept, Front
<1>3. CASE state[h] = "NEW"
  BY <1>3 DEF Read, Buffer, Found, Kept, Front
<1>4. CASE state[h] = "RETYPE"
  BY <1>4 DEF Read, Buffer, Found, Kept, Front
<1>5. CASE state[h] \in {"DONE", "ERR"}
  BY <1>5 DEF Read
<1>6. QED BY <1>1, <1>2, <1>3, <1>4, <1>5

\* The first line of the queue goes to passwd, which has read all before.
LEMMA PopLemma ==
  ASSUME TypeOK, NEW h \in Handlers, NEW q \in Seq(Lines), NEW x \in Lines,
         stdin[h] = <<>>, io_queue_pop(h, q),
         q = <<x>> \/ q = <<x, x>>
  PROVE  /\ queue' \in [Handlers -> Seq(Lines)] /\ stdin' \in [Handlers -> Seq(Lines)]
         /\ stdin'[h] = <<x>> /\ queue'[h] = IF q = <<x>> THEN <<>> ELSE <<x>>
         /\ \A k \in Handlers \ {h} : queue'[k] = queue[k] /\ stdin'[k] = stdin[k]
<1>1. q # <<>> /\ Head(q) = x /\ Tail(q) = IF q = <<x>> THEN <<>> ELSE <<x>>
  <2>1. CASE q = <<x>>
    BY <2>1, HeadTail
  <2>2. CASE q = <<x, x>>
    <3>1. <<x, x>> # <<x>>
      <4>1. Len(<<x, x>>) = 2 /\ Len(<<x>>) = 1
        OBVIOUS
      <4>2. QED BY <4>1
    <3>2. Head(<<x, x>>) = x /\ Tail(<<x, x>>) = <<x>> /\ <<x, x>> # <<>>
      OBVIOUS
    <3>3. QED BY <2>2, <3>1, <3>2
  <2>3. QED BY <2>1, <2>2
<1>2. queue' = Set(queue, h, Tail(q)) /\ stdin' = [stdin EXCEPT ![h] = Append(<<>>, x)]
  BY <1>1 DEF io_queue_pop, Set
<1>3. Append(<<>>, x) = <<x>> /\ <<x>> \in Seq(Lines) /\ Tail(q) \in Seq(Lines)
  BY <1>1
<1>4. QED BY <1>1, <1>2, <1>3 DEF Set, TypeOK

\* What Read leaves to be shown once the place of h is known.
LEMMA ReadFrame ==
  ASSUME IInv, NEW h \in Handlers, NEW n \in 0..Len(stdout[h]), NEW breaks \in BOOLEAN,
         NEW joins \in Joins(h), Read(h, n, breaks, joins),
         Place(h)', Harmless', str' = Empty \/ str' = Kept(h, n, breaks, joins),
         state' \in [Handlers -> States], queue' \in [Handlers -> Seq(Lines)],
         stdin' \in [Handlers -> Seq(Lines)], changing' \in [Handlers -> BOOLEAN],
         verdict' \in [Handlers -> {"idle", "asked", "ok", "error"}],
         oks' \in [Handlers -> 0..1],
         \A k \in Handlers \ {h} :
            /\ state'[k] = state[k] /\ queue'[k] = queue[k] /\ stdin'[k] = stdin[k]
            /\ changing'[k] = changing[k] /\ verdict'[k] = verdict[k] /\ oks'[k] = oks[k]
  PROVE  IInv' /\ \A k \in Handlers \ {h} : UNCHANGED Own(k)
<1>1. /\ UNCHANGED <<entry, account, phase, given, status, stored, overlapped, mixed>>
      /\ stdout' \in [Handlers -> Seq(Keywords)] /\ cut' \in [Handlers -> BOOLEAN]
      /\ \A k \in Handlers \ {h} : stdout'[k] = stdout[k] /\ cut'[k] = cut[k]
  BY ReadTakes DEF backend, history
<1>2. str' \in [words : SUBSET Keywords, front : SUBSET (Handlers \X Keywords)]
  BY KeptType
<1>3. TypeOK'
  BY <1>1, <1>2 DEF IInv, TypeOK
<1>4. \A k \in Handlers \ {h} : UNCHANGED Own(k)
  BY <1>1 DEF Own
<1>5. cut'[h] => stdout'[h] # <<>>
  BY ReadCuts
<1>6. (\A k \in Handlers : Place(k)') /\ Cuts'
  BY <1>4, <1>5, OneMovesLemma
<1>7. QED BY <1>1, <1>3, <1>4, <1>6 DEF IInv, HasPassword

\* Nothing is done but to keep the buffer or to empty it.
LEMMA KeepLemma ==
  ASSUME IInv, NEW h \in Handlers, NEW n \in 0..Len(stdout[h]), NEW breaks \in BOOLEAN,
         NEW joins \in Joins(h), Read(h, n, breaks, joins),
         NEW b, Keep(b), b = Empty \/ b = Kept(h, n, breaks, joins),
         b.words \subseteq {"Changing", "urrent", "New", "new", "BAD PASSWORD", "unchanged"},
         Place(h)'
  PROVE  IInv' /\ (\A k \in Handlers \ {h} : UNCHANGED Own(k)) /\ str' = b
<1>1. /\ str' = b /\ Harmless'
      /\ UNCHANGED <<state, queue, changing, verdict, oks, stdin>>
  BY DEF Keep, Harmless
<1>2. /\ state \in [Handlers -> States] /\ queue \in [Handlers -> Seq(Lines)]
      /\ stdin \in [Handlers -> Seq(Lines)] /\ changing \in [Handlers -> BOOLEAN]
      /\ verdict \in [Handlers -> {"idle", "asked", "ok", "error"}]
      /\ oks \in [Handlers -> 0..1]
  BY DEF IInv, TypeOK
<1>3. QED BY <1>1, <1>2, ReadFrame

\* The buffer is emptied.
LEMMA EmptyLemma ==
  ASSUME str' = Empty
  PROVE  Harmless' /\ str'.words = {} /\ str'.front = {}
BY DEF Empty, Harmless

LEMMA KeptFields ==
  ASSUME NEW h, NEW n, NEW breaks, NEW joins
  PROVE  /\ Kept(h, n, breaks, joins).words = Buffer(h, n, joins)
         /\ Kept(h, n, breaks, joins).front = Front(h, n, breaks)
BY DEF Kept

\* How the keywords of the prompts stand to those of the messages.
LEMMA OtherWords ==
  ASSUME IInv
  PROVE  /\ "assword: " \notin str.words /\ "successfully" \notin str.words
         /\ "failure" \notin str.words /\ "error" \notin str.words
BY DEF IInv, Harmless

LEMMA StartedReads ==
  ASSUME IInv, NEW h \in Handlers, NEW n \in 0..Len(stdout[h]), NEW breaks \in BOOLEAN,
         NEW joins \in Joins(h), Read(h, n, breaks, joins), Started(h)
  PROVE  /\ IInv' /\ (\A k \in Handlers \ {h} : UNCHANGED Own(k))
         /\ \/ Started(h)' /\ str'.words \subseteq str.words \cup {"Changing", "urrent"}
            \/ Authenticating(h)' /\ str' = Empty
            \/ Stuck(h)' /\ str' = Empty /\ str.words \cap {"new", "New"} # {}
<1> DEFINE buf == Buffer(h, n, joins)
           kept == Kept(h, n, breaks, joins)
<1>1. /\ state[h] = "NONE" /\ queue[h] = <<Default>> /\ stdin[h] = <<>> /\ phase[h] = "current"
      /\ Asked(h, FALSE) /\ Ends(h, {"Changing", "urrent"})
  BY DEF Started, At
<1>2. /\ Ends(h, {"Changing", "urrent"})'
      /\ Found(h, n, joins) \subseteq {"Changing", "urrent"} \cup {"assword: "}
      /\ "assword: " \in Found(h, n, joins) => stdout'[h] = <<>>
  BY <1>1, ReadEnds
<1>3. UNCHANGED <<phase, stored>>
  BY ReadTakes DEF backend
<1>4. CASE "assword: " \notin buf
  <2>1. Keep(kept)
    BY <1>1, <1>4, ReadCases
  <2>2. Started(h)'
    BY <1>1, <1>2, <1>3, <2>1 DEF Keep, Started, At, Asked
  <2>3. kept.words = buf /\ buf \subseteq str.words \cup {"Changing", "urrent"}
    BY <1>2, <1>4, KeptFields DEF Buffer
  <2>4. kept.words \subseteq {"Changing", "urrent", "New", "new", "BAD PASSWORD", "unchanged"}
    BY <2>3 DEF IInv, Harmless
  <2>5. IInv' /\ (\A k \in Handlers \ {h} : UNCHANGED Own(k)) /\ str' = kept
    <3> HIDE DEF kept
    <3>1. QED BY <2>1, <2>2, <2>4, KeepLemma DEF Place, kept
  <2>6. QED BY <2>2, <2>3, <2>5
<1>5. CASE "assword: " \in buf
  <2>1. AskedFirst(h, buf)
    BY <1>1, <1>5, ReadCases
  <2>2. stdout'[h] = <<>>
    BY <1>2, <1>5, OtherWords DEF Buffer
  <2>3. str' = Empty /\ Harmless' /\ UNCHANGED <<changing, verdict, oks>>
    BY <2>1, EmptyLemma DEF AskedFirst
  <2>4. CASE buf \cap {"new", "New"} = {}
    <3>1. state' = Set(state, h, "AUTH") /\ io_queue_pop(h, <<Default>>)
      BY <1>1, <2>1, <2>4 DEF AskedFirst
    <3>2. /\ queue' \in [Handlers -> Seq(Lines)] /\ stdin' \in [Handlers -> Seq(Lines)]
          /\ stdin'[h] = <<Default>> /\ queue'[h] = <<>>
          /\ \A k \in Handlers \ {h} : queue'[k] = queue[k] /\ stdin'[k] = stdin[k]
      <4>1. Default \in Lines /\ <<Default>> \in Seq(Lines)
        BY DEF Lines
      <4>2. QED BY <1>1, <3>1, <4>1, PopLemma DEF IInv
    <3>3. /\ state' \in [Handlers -> States] /\ state'[h] = "AUTH"
          /\ \A k \in Handlers \ {h} : state'[k] = state[k]
      BY <3>1 DEF Set, IInv, TypeOK, States
    <3>4. Authenticating(h)'
      BY <1>1, <1>3, <2>2, <2>3, <3>2, <3>3 DEF Authenticating, Asked, At
    <3>5. IInv' /\ \A k \in Handlers \ {h} : UNCHANGED Own(k)
      <4>1. Place(h)'
        BY <3>4 DEF Place
      <4>2. /\ changing' \in [Handlers -> BOOLEAN]
            /\ verdict' \in [Handlers -> {"idle", "asked", "ok", "error"}]
            /\ oks' \in [Handlers -> 0..1]
            /\ \A k \in Handlers \ {h} :
                  /\ changing'[k] = changing[k] /\ verdict'[k] = verdict[k]
                  /\ oks'[k] = oks[k]
        BY <2>3 DEF IInv, TypeOK
      <4>3. QED BY <2>3, <3>2, <3>3, <4>1, <4>2, ReadFrame
    <3>6. QED BY <2>3, <3>4, <3>5
  <2>5. CASE buf \cap {"new", "New"} # {}
    <3>1. state' = Set(state, h, "NEW") /\ io_queue_pop(h, Tail(<<Default>>))
      BY <1>1, <2>1, <2>5 DEF AskedFirst
    <3>2. queue' = Set(queue, h, <<>>) /\ UNCHANGED stdin
      BY <3>1, HeadTail DEF io_queue_pop
    <3>3. /\ state' \in [Handlers -> States] /\ queue' \in [Handlers -> Seq(Lines)]
          /\ state'[h] = "NEW" /\ queue'[h] = <<>>
          /\ \A k \in Handlers \ {h} : state'[k] = state[k] /\ queue'[k] = queue[k]
      BY <3>1, <3>2 DEF Set, IInv, TypeOK, States
    <3>4. Stuck(h)'
      BY <1>1, <1>3, <2>2, <2>3, <3>2, <3>3 DEF Stuck, Asked, At
    <3>5. IInv' /\ \A k \in Handlers \ {h} : UNCHANGED Own(k)
      <4>1. Place(h)'
        BY <3>4 DEF Place
      <4>2. /\ changing' \in [Handlers -> BOOLEAN]
            /\ verdict' \in [Handlers -> {"idle", "asked", "ok", "error"}]
            /\ oks' \in [Handlers -> 0..1] /\ stdin' \in [Handlers -> Seq(Lines)]
            /\ \A k \in Handlers \ {h} :
                  /\ changing'[k] = changing[k] /\ verdict'[k] = verdict[k]
                  /\ oks'[k] = oks[k] /\ stdin'[k] = stdin[k]
        BY <2>3, <3>2 DEF IInv, TypeOK
      <4>3. QED BY <2>3, <3>3, <4>1, <4>2, ReadFrame
    <3>6. str.words \cap {"new", "New"} # {}
      BY <1>2, <2>5 DEF Buffer
    <3>7. QED BY <2>3, <3>4, <3>5, <3>6
  <2>6. QED BY <2>4, <2>5
<1>6. QED BY <1>4, <1>5

LEMMA AuthenticReads ==
  ASSUME IInv, NEW h \in Handlers, NEW n \in 0..Len(stdout[h]), NEW breaks \in BOOLEAN,
         NEW joins \in Joins(h), Read(h, n, breaks, joins), Authentic(h)
  PROVE  /\ IInv' /\ (\A k \in Handlers \ {h} : UNCHANGED Own(k)) /\ verdict[h] = "asked"
         /\ \/ /\ Authentic(h)' /\ UNCHANGED verdict
               /\ str'.words \subseteq str.words \cup {"New"}
            \/ Authentic(h)' /\ verdict'[h] = "error" /\ str' = Empty
            \/ (\E p \in Passwords : Sent(h, p)') /\ str' = Empty
<1> DEFINE buf == Buffer(h, n, joins)
           kept == Kept(h, n, breaks, joins)
<1>1. /\ state[h] = "AUTH" /\ queue[h] = <<>> /\ stdin[h] = <<>> /\ phase[h] = "new"
      /\ oks[h] = 0 /\ ~stored[h] /\ ~changing[h] /\ given[h].old = Default /\ Ends(h, {"New"})
      /\ verdict[h] = "asked"
  BY ReadTakes DEF Authentic, At
<1>2. /\ Ends(h, {"New"})' /\ Found(h, n, joins) \subseteq {"New"} \cup {"assword: "}
      /\ "assword: " \in Found(h, n, joins) => stdout'[h] = <<>>
  BY <1>1, ReadEnds
<1>3. UNCHANGED <<entry, phase, stored, given>>
  BY ReadTakes DEF backend
<1>4. "failure" \notin buf /\ "error" \notin buf
  BY <1>2, OtherWords DEF Buffer
<1>5. CASE "assword: " \notin buf
  <2>1. Keep(kept)
    <3>1. buf \cap {"assword: ", "failure", "error"} = {}
      BY <1>4, <1>5
    <3>2. QED BY <1>1, <3>1, ReadCases
  <2>2. Authentic(h)'
    BY <1>1, <1>2, <1>3, <2>1 DEF Keep, Authentic, At
  <2>3. kept.words = buf /\ buf \subseteq str.words \cup {"New"}
    BY <1>2, <1>5, KeptFields DEF Buffer
  <2>4. kept.words \subseteq {"Changing", "urrent", "New", "new", "BAD PASSWORD", "unchanged"}
    BY <2>3 DEF IInv, Harmless
  <2>5. IInv' /\ (\A k \in Handlers \ {h} : UNCHANGED Own(k)) /\ str' = kept
    <3> HIDE DEF kept
    <3>1. QED BY <2>1, <2>2, <2>4, KeepLemma DEF Place, kept
  <2>6. QED BY <1>1, <2>1, <2>2, <2>3, <2>5 DEF Keep
<1>6. CASE "assword: " \in buf
  <2>1. Authenticated(h, buf)
    BY <1>1, <1>6, ReadCases
  <2>2. stdout'[h] = <<>>
    BY <1>2, <1>6, OtherWords DEF Buffer
  <2>3. str' = Empty /\ Harmless'
    BY <2>1, EmptyLemma DEF Authenticated
  <2>4. CASE "urrent" \in buf
    <3>1. /\ verdict' = Set(verdict, h, "error")
          /\ UNCHANGED <<state, changing, queue, stdin, oks>>
      BY <1>6, <2>1, <2>4 DEF Authenticated
    <3>2. /\ verdict' \in [Handlers -> {"idle", "asked", "ok", "error"}]
          /\ verdict'[h] = "error" /\ \A k \in Handlers \ {h} : verdict'[k] = verdict[k]
      BY <3>1 DEF Set, IInv, TypeOK
    <3>3. Authentic(h)'
      BY <1>1, <1>2, <1>3, <2>2, <3>1, <3>2 DEF Authentic, At
    <3>4. IInv' /\ \A k \in Handlers \ {h} : UNCHANGED Own(k)
      <4>1. Place(h)'
        BY <3>3 DEF Place
      <4>2. /\ state' \in [Handlers -> States] /\ queue' \in [Handlers -> Seq(Lines)]
            /\ stdin' \in [Handlers -> Seq(Lines)] /\ changing' \in [Handlers -> BOOLEAN]
            /\ oks' \in [Handlers -> 0..1]
            /\ \A k \in Handlers \ {h} :
                  /\ state'[k] = state[k] /\ queue'[k] = queue[k] /\ stdin'[k] = stdin[k]
                  /\ changing'[k] = changing[k] /\ oks'[k] = oks[k]
        BY <3>1 DEF IInv, TypeOK
      <4>3. QED BY <2>3, <3>2, <4>1, <4>2, ReadFrame
    <3>5. QED BY <1>1, <2>3, <3>2, <3>3, <3>4
  <2>5. CASE "urrent" \notin buf
    <3>1. /\ state' = Set(state, h, "NEW") /\ changing' = Set(changing, h, TRUE)
          /\ io_queue_pop(h, <<>> \o <<entry, entry>>) /\ UNCHANGED <<verdict, oks>>
      BY <1>1, <1>6, <2>1, <2>5 DEF Authenticated
    <3>2. /\ queue' \in [Handlers -> Seq(Lines)] /\ stdin' \in [Handlers -> Seq(Lines)]
          /\ stdin'[h] = <<entry>> /\ queue'[h] = <<entry>>
          /\ \A k \in Handlers \ {h} : queue'[k] = queue[k] /\ stdin'[k] = stdin[k]
      <4>1. entry \in Lines /\ <<entry, entry>> \in Seq(Lines) /\ <<entry, entry>> # <<entry>>
        <5>1. entry \in Lines
          BY DEF IInv, TypeOK, Lines
        <5>2. Len(<<entry, entry>>) = 2 /\ Len(<<entry>>) = 1
          OBVIOUS
        <5>3. QED BY <5>1, <5>2
      <4>2. io_queue_pop(h, <<entry, entry>>)
        BY <3>1, JoinOfTwo
      <4>3. QED BY <1>1, <4>1, <4>2, PopLemma DEF IInv
    <3>3. /\ state' \in [Handlers -> States] /\ changing' \in [Handlers -> BOOLEAN]
          /\ state'[h] = "NEW" /\ changing'[h] = TRUE
          /\ \A k \in Handlers \ {h} : state'[k] = state[k] /\ changing'[k] = changing[k]
      BY <3>1 DEF Set, IInv, TypeOK, States
    <3>4. Sent(h, entry)' /\ entry \in Passwords /\ entry' = entry
      BY <1>1, <1>3, <2>2, <3>1, <3>2, <3>3 DEF Sent, Asked, At, IInv, TypeOK
    <3>5. \E p \in Passwords : Sent(h, p)'
      BY <3>4 DEF Sent, At
    <3>6. IInv' /\ \A k \in Handlers \ {h} : UNCHANGED Own(k)
      <4>1. Place(h)'
        BY <3>5 DEF Place
      <4>2. /\ verdict' \in [Handlers -> {"idle", "asked", "ok", "error"}]
            /\ oks' \in [Handlers -> 0..1]
            /\ \A k \in Handlers \ {h} : verdict'[k] = verdict[k] /\ oks'[k] = oks[k]
        BY <3>1 DEF IInv, TypeOK
      <4>3. QED BY <2>3, <3>2, <3>3, <4>1, <4>2, ReadFrame
    <3>7. QED BY <1>1, <2>3, <3>5, <3>6
  <2>6. QED BY <2>4, <2>5
<1>7. QED BY <1>5, <1>6

\* The prompt for the new password is answered by what is left in the queue.
LEMMA AskedAgainLemma ==
  ASSUME IInv, NEW h \in Handlers, NEW p \in Passwords, AskedAgain(h),
         stdin[h] = <<>>, queue[h] = <<p>>
  PROVE  /\ queue' \in [Handlers -> Seq(Lines)] /\ stdin' \in [Handlers -> Seq(Lines)]
         /\ state' \in [Handlers -> States]
         /\ state'[h] = "RETYPE" /\ stdin'[h] = <<p>> /\ queue'[h] = <<>>
         /\ \A k \in Handlers \ {h} :
               queue'[k] = queue[k] /\ stdin'[k] = stdin[k] /\ state'[k] = state[k]
         /\ str' = Empty /\ Harmless' /\ UNCHANGED <<changing, verdict, oks>>
<1>1. /\ io_queue_pop(h, <<p>>) /\ state' = Set(state, h, "RETYPE")
      /\ str' = Empty /\ UNCHANGED <<changing, verdict, oks>>
  BY DEF AskedAgain
<1>2. p \in Lines /\ <<p>> \in Seq(Lines)
  BY DEF Lines
<1>3. /\ queue' \in [Handlers -> Seq(Lines)] /\ stdin' \in [Handlers -> Seq(Lines)]
      /\ stdin'[h] = <<p>> /\ queue'[h] = <<>>
      /\ \A k \in Handlers \ {h} : queue'[k] = queue[k] /\ stdin'[k] = stdin[k]
  BY <1>1, <1>2, PopLemma DEF IInv
<1>4. /\ state' \in [Handlers -> States] /\ state'[h] = "RETYPE"
      /\ \A k \in Handlers \ {h} : state'[k] = state[k]
  BY <1>1 DEF Set, IInv, TypeOK, States
<1>5. QED BY <1>1, <1>3, <1>4, EmptyLemma

\* It is answered from both of the places at which it is awaited.
LEMMA PromptedReads ==
  ASSUME IInv, NEW h \in Handlers, NEW p \in Passwords, NEW n \in 0..Len(stdout[h]),
         NEW breaks \in BOOLEAN, NEW joins \in Joins(h), Read(h, n, breaks, joins),
         state[h] = "NEW", stdin[h] = <<>>, queue[h] = <<p>>,
         "assword: " \in Buffer(h, n, joins), Place(h)'
  PROVE  IInv' /\ \A k \in Handlers \ {h} : UNCHANGED Own(k)
<1>1. AskedAgain(h)
  BY ReadCases
<1>2. /\ queue' \in [Handlers -> Seq(Lines)] /\ stdin' \in [Handlers -> Seq(Lines)]
      /\ state' \in [Handlers -> States]
      /\ \A k \in Handlers \ {h} :
            queue'[k] = queue[k] /\ stdin'[k] = stdin[k] /\ state'[k] = state[k]
      /\ str' = Empty /\ Harmless' /\ UNCHANGED <<changing, verdict, oks>>
  BY <1>1, AskedAgainLemma
<1>3. /\ changing' \in [Handlers -> BOOLEAN] /\ oks' \in [Handlers -> 0..1]
      /\ verdict' \in [Handlers -> {"idle", "asked", "ok", "error"}]
      /\ \A k \in Handlers \ {h} :
            changing'[k] = changing[k] /\ verdict'[k] = verdict[k] /\ oks'[k] = oks[k]
  BY <1>2 DEF IInv, TypeOK
<1>4. QED BY <1>2, <1>3, ReadFrame

LEMMA AcceptedReads ==
  ASSUME IInv, NEW h \in Handlers, NEW p \in Passwords, NEW n \in 0..Len(stdout[h]),
         NEW breaks \in BOOLEAN, NEW joins \in Joins(h), Read(h, n, breaks, joins),
         Accepted(h, p)
  PROVE  /\ IInv' /\ (\A k \in Handlers \ {h} : UNCHANGED Own(k))
         /\ \/ Accepted(h, p)' /\ str'.words \subseteq str.words \cup {"new"}
            \/ Retyped(h, p)' /\ str' = Empty
<1> DEFINE buf == Buffer(h, n, joins)
           kept == Kept(h, n, breaks, joins)
<1>1. /\ state[h] = "NEW" /\ queue[h] = <<p>> /\ stdin[h] = <<>> /\ phase[h] = "retype"
      /\ Asked(h, TRUE) /\ given[h].old = Default /\ given[h].new = p /\ Ends(h, {"new"})
  BY DEF Accepted, At
<1>2. /\ Ends(h, {"new"})' /\ Found(h, n, joins) \subseteq {"new"} \cup {"assword: "}
      /\ "assword: " \in Found(h, n, joins) => stdout'[h] = <<>>
  BY <1>1, ReadEnds
<1>3. UNCHANGED <<phase, stored, given>>
  BY ReadTakes DEF backend
<1>4. CASE "assword: " \notin buf
  <2>1. Keep(kept)
    BY <1>1, <1>4, ReadCases
  <2>2. Accepted(h, p)'
    BY <1>1, <1>2, <1>3, <2>1 DEF Keep, Accepted, At, Asked
  <2>3. kept.words = buf /\ buf \subseteq str.words \cup {"new"}
    BY <1>2, <1>4, KeptFields DEF Buffer
  <2>4. kept.words \subseteq {"Changing", "urrent", "New", "new", "BAD PASSWORD", "unchanged"}
    BY <2>3 DEF IInv, Harmless
  <2>5. Place(h)'
    BY <2>2 DEF Place
  <2>6. IInv' /\ (\A k \in Handlers \ {h} : UNCHANGED Own(k)) /\ str' = kept
    <3> HIDE DEF kept
    <3>1. QED BY <2>1, <2>4, <2>5, KeepLemma DEF kept
  <2>7. QED BY <2>2, <2>3, <2>6
<1>5. CASE "assword: " \in buf
  <2>1. AskedAgain(h)
    BY <1>1, <1>5, ReadCases
  <2>2. /\ state'[h] = "RETYPE" /\ stdin'[h] = <<p>> /\ queue'[h] = <<>>
        /\ str' = Empty /\ UNCHANGED <<changing, verdict, oks>>
    BY <1>1, <2>1, AskedAgainLemma
  <2>3. stdout'[h] = <<>>
    BY <1>2, <1>5, OtherWords DEF Buffer
  <2>4. Retyped(h, p)'
    BY <1>1, <1>3, <2>2, <2>3 DEF Retyped, Asked, At
  <2>5. Place(h)'
    BY <2>4 DEF Place
  <2>6. QED BY <1>1, <1>5, <2>2, <2>4, <2>5, PromptedReads
<1>6. QED BY <1>4, <1>5

LEMMA TooWeakReads ==
  ASSUME IInv, NEW h \in Handlers, NEW p \in Passwords, NEW n \in 0..Len(stdout[h]),
         NEW breaks \in BOOLEAN, NEW joins \in Joins(h), Read(h, n, breaks, joins),
         TooWeak(h, p)
  PROVE  /\ IInv' /\ (\A k \in Handlers \ {h} : UNCHANGED Own(k))
         /\ \/ TooWeak(h, p)' /\ str'.words \subseteq str.words \cup {"BAD PASSWORD", "New"}
            \/ WeakAgain(h, p)' /\ str' = Empty
<1> DEFINE buf == Buffer(h, n, joins)
           kept == Kept(h, n, breaks, joins)
<1>1. /\ state[h] = "NEW" /\ queue[h] = <<p>> /\ stdin[h] = <<>> /\ phase[h] = "new"
      /\ Asked(h, TRUE) /\ p \in Weak /\ Ends(h, {"BAD PASSWORD", "New"})
  BY DEF TooWeak, At
<1>2. /\ Ends(h, {"BAD PASSWORD", "New"})'
      /\ Found(h, n, joins) \subseteq {"BAD PASSWORD", "New"} \cup {"assword: "}
      /\ "assword: " \in Found(h, n, joins) => stdout'[h] = <<>>
  BY <1>1, ReadEnds
<1>3. UNCHANGED <<phase, stored>>
  BY ReadTakes DEF backend
<1>4. CASE "assword: " \notin buf
  <2>1. Keep(kept)
    BY <1>1, <1>4, ReadCases
  <2>2. TooWeak(h, p)'
    BY <1>1, <1>2, <1>3, <2>1 DEF Keep, TooWeak, At, Asked
  <2>3. kept.words = buf /\ buf \subseteq str.words \cup {"BAD PASSWORD", "New"}
    BY <1>2, <1>4, KeptFields DEF Buffer
  <2>4. kept.words \subseteq {"Changing", "urrent", "New", "new", "BAD PASSWORD", "unchanged"}
    BY <2>3 DEF IInv, Harmless
  <2>5. Place(h)'
    BY <2>2 DEF Place
  <2>6. IInv' /\ (\A k \in Handlers \ {h} : UNCHANGED Own(k)) /\ str' = kept
    <3> HIDE DEF kept
    <3>1. QED BY <2>1, <2>4, <2>5, KeepLemma DEF kept
  <2>7. QED BY <2>2, <2>3, <2>6
<1>5. CASE "assword: " \in buf
  <2>1. AskedAgain(h)
    BY <1>1, <1>5, ReadCases
  <2>2. /\ state'[h] = "RETYPE" /\ stdin'[h] = <<p>> /\ queue'[h] = <<>>
        /\ str' = Empty /\ UNCHANGED <<changing, verdict, oks>>
    BY <1>1, <2>1, AskedAgainLemma
  <2>3. stdout'[h] = <<>>
    BY <1>2, <1>5, OtherWords DEF Buffer
  <2>4. WeakAgain(h, p)'
    BY <1>1, <1>3, <2>2, <2>3 DEF WeakAgain, Asked, At
  <2>5. Place(h)'
    BY <2>4 DEF Place
  <2>6. QED BY <1>1, <1>5, <2>2, <2>4, <2>5, PromptedReads
<1>6. QED BY <1>4, <1>5

\* A passwd that took nothing for the right one is given up at its first words,
\* unless they are lost.
LEMMA DeniedReads ==
  ASSUME IInv, NEW h \in Handlers, NEW n \in 0..Len(stdout[h]), NEW breaks \in BOOLEAN,
         NEW joins \in Joins(h), Read(h, n, breaks, joins), Denied(h)
  PROVE  /\ IInv' /\ (\A k \in Handlers \ {h} : UNCHANGED Own(k)) /\ Denied(h)'
         /\ str'.words \subseteq str.words \cup {"unchanged"}
         /\ verdict'[h] = verdict[h] \/ verdict'[h] = "error"
<1> DEFINE buf == Buffer(h, n, joins)
           kept == Kept(h, n, breaks, joins)
<1>1. /\ state[h] = "AUTH" /\ phase[h] = "exited" /\ status[h] = 1
      /\ stdin[h] = <<>> /\ queue[h] = <<>> /\ stdout[h] \in Seq({"error", "unchanged"})
      /\ ~changing[h] /\ ~stored[h] /\ oks[h] = 0 /\ verdict[h] \in {"asked", "error"}
  BY DEF Denied, At
<1>2. /\ stdout'[h] \in Seq({"error", "unchanged"})
      /\ Found(h, n, joins) \subseteq {"error", "unchanged"}
  BY <1>1, ReadLeaves, FoundLemma
<1>3. UNCHANGED <<phase, status, stored>>
  BY ReadTakes DEF backend
<1>4. "failure" \notin buf /\ "assword: " \notin buf
  BY <1>2, OtherWords DEF Buffer
<1>5. CASE "error" \notin buf
  <2>1. Keep(kept)
    <3>1. buf \cap {"assword: ", "failure", "error"} = {}
      BY <1>4, <1>5
    <3>2. QED BY <1>1, <3>1, ReadCases
  <2>2. Denied(h)' /\ verdict'[h] = verdict[h]
    BY <1>1, <1>2, <1>3, <2>1 DEF Keep, Denied, At
  <2>3. kept.words = buf /\ buf \subseteq str.words \cup {"unchanged"}
    BY <1>2, <1>5, KeptFields DEF Buffer
  <2>4. kept.words \subseteq {"Changing", "urrent", "New", "new", "BAD PASSWORD", "unchanged"}
    BY <2>3 DEF IInv, Harmless
  <2>5. IInv' /\ (\A k \in Handlers \ {h} : UNCHANGED Own(k)) /\ str' = kept
    <3> HIDE DEF kept
    <3>1. QED BY <2>1, <2>2, <2>4, KeepLemma DEF Place, kept
  <2>6. QED BY <2>2, <2>3, <2>5
<1>6. CASE "error" \in buf
  <2>1. Authenticated(h, buf)
    BY <1>1, <1>6, ReadCases
  <2>2. /\ verdict' = Set(verdict, h, "error") /\ str' = Empty
        /\ UNCHANGED <<state, changing, queue, stdin, oks>>
    BY <1>4, <2>1 DEF Authenticated
  <2>3. /\ verdict' \in [Handlers -> {"idle", "asked", "ok", "error"}]
        /\ verdict'[h] = "error" /\ \A k \in Handlers \ {h} : verdict'[k] = verdict[k]
    BY <2>2 DEF Set, IInv, TypeOK
  <2>4. Denied(h)'
    BY <1>1, <1>2, <1>3, <2>2, <2>3 DEF Denied, At
  <2>5. Harmless' /\ str'.words = {}
    BY <2>2, EmptyLemma
  <2>6. IInv' /\ \A k \in Handlers \ {h} : UNCHANGED Own(k)
    <3>1. Place(h)'
      BY <2>4 DEF Place
    <3>2. /\ state' \in [Handlers -> States] /\ queue' \in [Handlers -> Seq(Lines)]
          /\ stdin' \in [Handlers -> Seq(Lines)] /\ changing' \in [Handlers -> BOOLEAN]
          /\ oks' \in [Handlers -> 0..1]
          /\ \A k \in Handlers \ {h} :
                /\ state'[k] = state[k] /\ queue'[k] = queue[k] /\ stdin'[k] = stdin[k]
                /\ changing'[k] = changing[k] /\ oks'[k] = oks[k]
      BY <2>2 DEF IInv, TypeOK
    <3>3. str' = Empty /\ Harmless'
      BY <2>2, <2>5
    <3>4. verdict' \in [Handlers -> {"idle", "asked", "ok", "error"}]
      BY <2>3
    <3>5. \A k \in Handlers \ {h} :
             /\ state'[k] = state[k] /\ queue'[k] = queue[k] /\ stdin'[k] = stdin[k]
             /\ changing'[k] = changing[k] /\ verdict'[k] = verdict[k] /\ oks'[k] = oks[k]
      BY <2>3, <3>2
    <3>6. QED BY <3>1, <3>2, <3>3, <3>4, <3>5, ReadFrame
  <2>7. QED BY <2>3, <2>4, <2>5, <2>6
<1>7. QED BY <1>5, <1>6

\* A text that goes on without a keyword.
LEMMA NothingRead ==
  ASSUME IInv, NEW h \in Handlers, NEW n \in 0..Len(stdout[h]), NEW breaks \in BOOLEAN,
         NEW joins \in Joins(h), Read(h, n, breaks, joins), n = 0
  PROVE  stdout'[h] = stdout[h] /\ ~cut'[h] /\ ~cut[h]
<1>1. stdout[h] \in Seq(Keywords)
  BY DEF IInv, TypeOK
<1>2. stdout'[h] = SubSeq(stdout[h], n + 1, Len(stdout[h])) /\ ~cut[h] /\ ~cut'[h]
  BY ReadTakes
<1>3. n + 1 = 1
  OBVIOUS
<1>4. stdout'[h] = stdout[h]
  BY <1>1, <1>2, <1>3, NoneTaken
<1>5. QED BY <1>2, <1>4

\* The handler told its caller how it ended.
LEMMA ConcludedLemma ==
  ASSUME IInv, NEW h \in Handlers, NEW b, Concluded(h, b), changing[h], oks[h] = 0
  PROVE  /\ str' = Empty /\ Harmless' /\ UNCHANGED <<changing, queue, stdin>>
         /\ state' \in [Handlers -> States] /\ queue' \in [Handlers -> Seq(Lines)]
         /\ stdin' \in [Handlers -> Seq(Lines)] /\ changing' \in [Handlers -> BOOLEAN]
         /\ verdict' \in [Handlers -> {"idle", "asked", "ok", "error"}]
         /\ oks' \in [Handlers -> 0..1]
         /\ \A k \in Handlers \ {h} :
               /\ state'[k] = state[k] /\ queue'[k] = queue[k] /\ stdin'[k] = stdin[k]
               /\ changing'[k] = changing[k] /\ verdict'[k] = verdict[k] /\ oks'[k] = oks[k]
         /\ IF "successfully" \in b
            THEN state'[h] = "DONE" /\ verdict'[h] = "ok" /\ oks'[h] = 1
            ELSE state'[h] = "ERR" /\ verdict'[h] = "error" /\ oks'[h] = 0
<1>1. /\ state \in [Handlers -> States] /\ "DONE" \in States /\ "ERR" \in States
      /\ verdict \in [Handlers -> {"idle", "asked", "ok", "error"}]
      /\ oks \in [Handlers -> 0..1]
      /\ queue \in [Handlers -> Seq(Lines)] /\ stdin \in [Handlers -> Seq(Lines)]
      /\ changing \in [Handlers -> BOOLEAN]
  BY DEF IInv, TypeOK, States
<1>2. str' = Empty /\ UNCHANGED <<changing, queue, stdin>>
  BY DEF Concluded
<1>3. Harmless'
  BY <1>2, EmptyLemma
<1>4. CASE "successfully" \in b
  <2>1. /\ state' = Set(state, h, "DONE") /\ verdict' = Set(verdict, h, "ok")
        /\ oks' = [oks EXCEPT ![h] = 0 + 1]
    BY <1>4 DEF Concluded, Succeeded
  <2>2. 0 + 1 = 1 /\ 1 \in 0..1
    OBVIOUS
  <2>3. oks' = [oks EXCEPT ![h] = 1]
    BY <2>1, <2>2
  <2>4. QED BY <1>1, <1>2, <1>3, <1>4, <2>1, <2>2, <2>3 DEF Set
<1>5. CASE "successfully" \notin b
  <2>1. /\ state' = Set(state, h, "ERR") /\ verdict' = Set(verdict, h, "error")
        /\ UNCHANGED oks
    BY <1>5 DEF Concluded
  <2>2. QED BY <1>1, <1>2, <1>3, <1>5, <2>1 DEF Set
<1>6. QED BY <1>4, <1>5

\* From the two places whose dialogue is over the handler goes to its end.
LEMMA EndedReads ==
  ASSUME IInv, NEW h \in Handlers, NEW n \in 0..Len(stdout[h]), NEW breaks \in BOOLEAN,
         NEW joins \in Joins(h), Read(h, n, breaks, joins), state[h] = "RETYPE",
         changing[h], oks[h] = 0,
         Buffer(h, n, joins) \cap (Rejections \cup {"successfully"}) # {},
         Place(h)'
  PROVE  IInv' /\ \A k \in Handlers \ {h} : UNCHANGED Own(k)
<1>1. Concluded(h, Buffer(h, n, joins))
  BY ReadCases
<1>2. /\ str' = Empty /\ Harmless'
      /\ state' \in [Handlers -> States] /\ queue' \in [Handlers -> Seq(Lines)]
      /\ stdin' \in [Handlers -> Seq(Lines)] /\ changing' \in [Handlers -> BOOLEAN]
      /\ verdict' \in [Handlers -> {"idle", "asked", "ok", "error"}]
      /\ oks' \in [Handlers -> 0..1]
      /\ \A k \in Handlers \ {h} :
            /\ state'[k] = state[k] /\ queue'[k] = queue[k] /\ stdin'[k] = stdin[k]
            /\ changing'[k] = changing[k] /\ verdict'[k] = verdict[k] /\ oks'[k] = oks[k]
  BY <1>1, ConcludedLemma
<1>3. QED BY <1>2, ReadFrame

LEMMA RefusedReads ==
  ASSUME IInv, NEW h \in Handlers, NEW n \in 0..Len(stdout[h]), NEW breaks \in BOOLEAN,
         NEW joins \in Joins(h), Read(h, n, breaks, joins), Refused(h)
  PROVE  /\ IInv' /\ (\A k \in Handlers \ {h} : UNCHANGED Own(k))
         /\ \/ Refused(h)' /\ str'.words \subseteq str.words
            \/ Failed(h)' /\ str' = Empty
<1> DEFINE buf == Buffer(h, n, joins)
           kept == Kept(h, n, breaks, joins)
<1>1. /\ state[h] = "RETYPE" /\ queue[h] = <<>> /\ stdin[h] = <<>>
      /\ Asked(h, TRUE) /\ changing[h] /\ oks[h] = 0 /\ phase[h] \in {"new", "exited"}
  BY DEF Refused, At, Asked
<1>2. UNCHANGED <<phase, status, stored>>
  BY ReadTakes DEF backend
<1>3. n # 0 => Found(h, n, joins) \cap Rejections # {}
  <2>1. Unread(h, "BAD PASSWORD") \/ Unread(h, "failure")
    BY DEF Refused
  <2>2. n # 0 => "BAD PASSWORD" \in Found(h, n, joins) \/ "failure" \in Found(h, n, joins)
    BY <2>1, FoundFirst
  <2>3. QED BY <2>2 DEF Rejections
<1>4. CASE buf \cap (Rejections \cup {"successfully"}) = {}
  <2>1. Keep(kept)
    BY <1>1, <1>4, ReadCases
  <2>2. n = 0
    BY <1>3, <1>4 DEF Buffer
  <2>3. stdout'[h] = stdout[h] /\ ~cut'[h] /\ ~cut[h]
    BY <2>2, NothingRead
  <2>4. Refused(h)'
    BY <1>2, <2>1, <2>3 DEF Keep, Refused, At, Asked, Unread
  <2>5. Found(h, n, joins) = {}
    <3>1. 1..n = {}
      BY <2>2
    <3>2. QED BY <3>1 DEF Found
  <2>6. kept.words = str.words
    BY <2>5, KeptFields DEF Buffer
  <2>7. kept.words \subseteq {"Changing", "urrent", "New", "new", "BAD PASSWORD", "unchanged"}
    BY <2>6 DEF IInv, Harmless
  <2>8. IInv' /\ (\A k \in Handlers \ {h} : UNCHANGED Own(k)) /\ str' = kept
    <3> HIDE DEF kept
    <3>1. QED BY <2>1, <2>4, <2>7, KeepLemma DEF Place, kept
  <2>9. QED BY <2>4, <2>6, <2>8
<1>5. CASE buf \cap (Rejections \cup {"successfully"}) # {}
  <2>1. Concluded(h, buf)
    BY <1>1, <1>5, ReadCases
  <2>2. "successfully" \notin buf
    <3>1. \/ stdout[h] \in Seq({"BAD PASSWORD", "New", "assword: "})
          \/ stdout[h] \in Seq({"failure", "unchanged"})
      BY DEF Refused
    <3>2. \/ Found(h, n, joins) \subseteq {"BAD PASSWORD", "New", "assword: "}
          \/ Found(h, n, joins) \subseteq {"failure", "unchanged"}
      BY <3>1, FoundLemma
    <3>3. QED BY <3>2, OtherWords DEF Buffer
  <2>3. /\ str' = Empty /\ UNCHANGED <<changing, queue, stdin>>
        /\ state'[h] = "ERR" /\ verdict'[h] = "error" /\ oks'[h] = 0
    BY <1>1, <2>1, <2>2, ConcludedLemma
  <2>4. Failed(h)'
    BY <1>1, <1>2, <2>3 DEF Failed
  <2>5. Place(h)'
    BY <2>4 DEF Place
  <2>6. QED BY <1>1, <1>5, <2>3, <2>4, <2>5, EndedReads
<1>6. QED BY <1>4, <1>5

\* A word of another dialogue in the buffer can hide a success.
LEMMA ChangedReads ==
  ASSUME IInv, NEW h \in Handlers, NEW n \in 0..Len(stdout[h]), NEW breaks \in BOOLEAN,
         NEW joins \in Joins(h), Read(h, n, breaks, joins), Changed(h)
  PROVE  /\ IInv' /\ (\A k \in Handlers \ {h} : UNCHANGED Own(k))
         /\ \/ Changed(h)' /\ str'.words \subseteq str.words
            \/ Successful(h)' /\ str' = Empty
            \/ Failed(h)' /\ str' = Empty /\ str.words \cap {"BAD PASSWORD", "unchanged"} # {}
<1> DEFINE buf == Buffer(h, n, joins)
           kept == Kept(h, n, breaks, joins)
<1>1. /\ state[h] = "RETYPE" /\ queue[h] = <<>> /\ stdin[h] = <<>> /\ phase[h] = "exited"
      /\ verdict[h] = "asked" /\ oks[h] = 0 /\ stored[h] /\ changing[h]
  BY DEF Changed, At
<1>2. UNCHANGED <<phase, status, stored>>
  BY ReadTakes DEF backend
<1>3. IF n = 0 THEN Found(h, n, joins) = {} ELSE "successfully" \in Found(h, n, joins)
  BY FoundFirst DEF Changed
<1>4. CASE buf \cap (Rejections \cup {"successfully"}) = {}
  <2>1. Keep(kept)
    BY <1>1, <1>4, ReadCases
  <2>2. n = 0
    BY <1>3, <1>4 DEF Buffer
  <2>3. stdout'[h] = stdout[h] /\ ~cut'[h] /\ ~cut[h]
    BY <2>2, NothingRead
  <2>4. Changed(h)'
    BY <1>2, <2>1, <2>3 DEF Keep, Changed, At, Unread
  <2>5. kept.words = str.words
    BY <1>3, <2>2, KeptFields DEF Buffer
  <2>6. kept.words \subseteq {"Changing", "urrent", "New", "new", "BAD PASSWORD", "unchanged"}
    BY <2>5 DEF IInv, Harmless
  <2>7. IInv' /\ (\A k \in Handlers \ {h} : UNCHANGED Own(k)) /\ str' = kept
    <3> HIDE DEF kept
    <3>1. QED BY <2>1, <2>4, <2>6, KeepLemma DEF Place, kept
  <2>8. QED BY <2>4, <2>5, <2>7
<1>5. CASE buf \cap (Rejections \cup {"successfully"}) # {}
  <2>1. Concluded(h, buf)
    BY <1>1, <1>5, ReadCases
  <2>2. /\ str' = Empty /\ UNCHANGED <<changing, queue, stdin>>
        /\ IF "successfully" \in buf
           THEN state'[h] = "DONE" /\ verdict'[h] = "ok" /\ oks'[h] = 1
           ELSE state'[h] = "ERR" /\ verdict'[h] = "error" /\ oks'[h] = 0
    BY <1>1, <2>1, ConcludedLemma
  <2>3. \/ Successful(h)'
        \/ Failed(h)' /\ "successfully" \notin buf
    BY <1>1, <1>2, <2>2 DEF Successful, Failed, At
  <2>4. "successfully" \notin buf => str.words \cap {"BAD PASSWORD", "unchanged"} # {}
    <3>1. "successfully" \notin buf => buf = str.words
      BY <1>3 DEF Buffer
    <3>2. "successfully" \notin buf => str.words \cap Rejections # {}
      BY <1>5, <3>1
    <3>3. QED BY <3>2 DEF Rejections, IInv, Harmless
  <2>5. Place(h)'
    BY <2>3 DEF Place
  <2>6. IInv' /\ \A k \in Handlers \ {h} : UNCHANGED Own(k)
    BY <1>1, <1>5, <2>5, EndedReads
  <2>7. QED BY <2>2, <2>3, <2>4, <2>6
<1>6. QED BY <1>4, <1>5

LEMMA DoneReads ==
  ASSUME IInv, NEW h \in Handlers, NEW n \in 0..Len(stdout[h]), NEW breaks \in BOOLEAN,
         NEW joins \in Joins(h), Read(h, n, breaks, joins), Failed(h) \/ Successful(h)
  PROVE  /\ IInv' /\ (\A k \in Handlers \ {h} : UNCHANGED Own(k)) /\ str' = Empty
         /\ UNCHANGED verdict
         /\ (Failed(h) /\ Failed(h)') \/ (Successful(h) /\ Successful(h)')
<1>1. Keep(Empty)
  BY ReadCases DEF Failed, Successful, At
<1>2. UNCHANGED <<phase, status, stored>>
  BY ReadTakes DEF backend
<1>3. (Failed(h) /\ Failed(h)') \/ (Successful(h) /\ Successful(h)')
  BY <1>1, <1>2 DEF Keep, Failed, Successful, At
<1>4. Empty.words \subseteq {"Changing", "urrent", "New", "new", "BAD PASSWORD", "unchanged"}
  BY DEF Empty
<1>5. Place(h)'
  BY <1>3 DEF Place
<1>6. IInv' /\ (\A k \in Handlers \ {h} : UNCHANGED Own(k)) /\ str' = Empty
  BY <1>1, <1>4, <1>5, KeepLemma
<1>7. QED BY <1>1, <1>3, <1>6 DEF Keep

\* Where a read takes the dialogue, and what it leaves in the buffer.
ReadMoves(h) ==
    \/ /\ Started(h)
       /\ \/ Started(h)' /\ str'.words \subseteq str.words \cup {"Changing", "urrent"}
          \/ Authenticating(h)' /\ str' = Empty
          \/ Stuck(h)' /\ str' = Empty /\ str.words \cap {"new", "New"} # {}
    \/ /\ Authentic(h) /\ verdict[h] = "asked"
       /\ \/ /\ Authentic(h)' /\ UNCHANGED verdict
             /\ str'.words \subseteq str.words \cup {"New"}
          \/ Authentic(h)' /\ verdict'[h] = "error" /\ str' = Empty
          \/ (\E p \in Passwords : Sent(h, p)') /\ str' = Empty
    \/ /\ Denied(h) /\ Denied(h)' /\ str'.words \subseteq str.words \cup {"unchanged"}
       /\ verdict'[h] = verdict[h] \/ verdict'[h] = "error"
    \/ \E p \in Passwords :
          \/ Accepted(h, p) /\ Accepted(h, p)' /\ str'.words \subseteq str.words \cup {"new"}
          \/ Accepted(h, p) /\ Retyped(h, p)' /\ str' = Empty
          \/ /\ TooWeak(h, p) /\ TooWeak(h, p)'
             /\ str'.words \subseteq str.words \cup {"BAD PASSWORD", "New"}
          \/ TooWeak(h, p) /\ WeakAgain(h, p)' /\ str' = Empty
    \/ Refused(h) /\ Refused(h)' /\ str'.words \subseteq str.words
    \/ Refused(h) /\ Failed(h)' /\ str' = Empty
    \/ Changed(h) /\ Changed(h)' /\ str'.words \subseteq str.words
    \/ Changed(h) /\ Successful(h)' /\ str' = Empty
    \/ /\ Changed(h) /\ Failed(h)' /\ str' = Empty
       /\ str.words \cap {"BAD PASSWORD", "unchanged"} # {}
    \/ Failed(h) /\ Failed(h)' /\ str' = Empty
    \/ Successful(h) /\ Successful(h)' /\ str' = Empty

LEMMA ReadLemma ==
  ASSUME IInv, NEW h \in Handlers, NEW n \in 0..Len(stdout[h]), NEW breaks \in BOOLEAN,
         NEW joins \in Joins(h), Read(h, n, breaks, joins)
  PROVE  /\ IInv' /\ (\A k \in Handlers \ {h} : UNCHANGED Own(k))
         /\ UNCHANGED <<account, history, stored>> /\ ReadMoves(h)
<1>1. UNCHANGED <<account, history, stored>>
  BY ReadTakes DEF backend
<1>2. \/ Started(h) \/ Authentic(h) \/ Denied(h)
      \/ \E p \in Passwords : Accepted(h, p) \/ TooWeak(h, p)
      \/ Refused(h) \/ Changed(h) \/ Failed(h) \/ Successful(h)
  <2>1. stdout[h] # <<>> /\ Place(h)
    BY ReadTakes DEF IInv
  <2>2. QED
    BY <2>1 DEF Place, NotStarted, Stuck, Authenticating, Sent, Retyped, WeakAgain, Freed
<1>3. CASE Started(h)
  BY <1>1, <1>3, StartedReads DEF ReadMoves
<1>4. CASE Authentic(h)
  BY <1>1, <1>4, AuthenticReads DEF ReadMoves
<1>5. CASE Denied(h)
  BY <1>1, <1>5, DeniedReads DEF ReadMoves
<1>6. ASSUME NEW p \in Passwords, Accepted(h, p)
      PROVE  IInv' /\ (\A k \in Handlers \ {h} : UNCHANGED Own(k)) /\ ReadMoves(h)
  BY <1>6, AcceptedReads DEF ReadMoves
<1>7. ASSUME NEW p \in Passwords, TooWeak(h, p)
      PROVE  IInv' /\ (\A k \in Handlers \ {h} : UNCHANGED Own(k)) /\ ReadMoves(h)
  BY <1>7, TooWeakReads DEF ReadMoves
<1>8. CASE Refused(h)
  BY <1>1, <1>8, RefusedReads DEF ReadMoves
<1>9. CASE Changed(h)
  BY <1>1, <1>9, ChangedReads DEF ReadMoves
<1>10. CASE Failed(h) \/ Successful(h)
  BY <1>1, <1>10, DoneReads DEF ReadMoves
<1>11. QED BY <1>1, <1>2, <1>3, <1>4, <1>5, <1>6, <1>7, <1>8, <1>9, <1>10

-----------------------------------------------------------------------------
(* The invariant and what it implies.                                      *)

\* Every step of the dialogues keeps each of them at one of the places, however
\* its output is broken up and whatever others take from the buffer: the invariant
\* from which the properties of Passwd follow.
THEOREM PasswdInvariant == ASSUME NoPassword \notin Accounts PROVE Spec => []IInv
<1>1. IInv /\ [Next]_vars => IInv'
  <2> SUFFICES ASSUME IInv, [Next]_vars PROVE IInv'
    OBVIOUS
  <2>1. CASE \E p \in Passwords : Edit(p)
    BY <2>1, EditLemma
  <2>2. CASE \E h \in Handlers : Apply(h)
    BY <2>2, ApplyLemma
  <2>3. CASE \E h \in Handlers : ChildExited(h)
    BY <2>3, ChildExitedLemma
  <2>4. CASE \E h \in Handlers : PasswdReads(h)
    BY <2>4, PasswdReadsLemma
  <2>5. ASSUME NEW h \in Handlers, NEW n \in 0..Len(stdout[h]), NEW breaks \in BOOLEAN,
               NEW joins \in Joins(h), Read(h, n, breaks, joins)
        PROVE  IInv'
    BY <2>5, ReadLemma
  <2>6. CASE UNCHANGED vars
    BY <2>6, StutterLemma
  <2>7. QED BY <2>1, <2>2, <2>3, <2>4, <2>5, <2>6 DEF Next
<1>2. Init => IInv
  BY InitLemma
<1>3. QED BY <1>1, <1>2, PTL DEF Spec

\* Every variable of the dialogue keeps to its type: passwd and its handler never
\* exchange anything but the keywords and the lines the code knows.
THEOREM PasswdTypes == ASSUME NoPassword \notin Accounts PROVE Spec => []TypeOK
<1>1. IInv => TypeOK
  BY DEF IInv
<1>2. QED BY <1>1, PasswdInvariant, PTL

\* Success is only reported for a passwd that changed the account, and once.
THEOREM SuccessIsRealHolds == ASSUME NoPassword \notin Accounts PROVE Spec => []SuccessIsReal
<1>1. IInv => SuccessIsReal
  <2> SUFFICES ASSUME IInv, NEW h \in Handlers, verdict[h] = "ok" \/ oks[h] > 0
               PROVE  stored[h] /\ oks[h] = 1
    BY DEF SuccessIsReal
  <2>1. Place(h) /\ oks[h] \in 0..1
    BY DEF IInv, TypeOK
  <2>2. verdict[h] = "ok" \/ oks[h] # 0
    OBVIOUS
  <2>3. Successful(h) \/ Freed(h)
    BY <2>1, <2>2 DEF Place, Asked, NotStarted, Started, Stuck, Authenticating, Authentic,
              Denied, Sent, Accepted, TooWeak, Retyped, WeakAgain, Refused, Changed, Failed
  <2>4. QED BY <2>2, <2>3 DEF Successful, Freed
<1>2. QED BY <1>1, PasswdInvariant, PTL

LEMMA LenOfOne == ASSUME NEW x PROVE Len(<<x>>) = 1
OBVIOUS

\* Every line passwd is sent answers the question it is about to ask.
THEOREM AnswersFitPromptsHolds ==
  ASSUME NoPassword \notin Accounts PROVE Spec => []AnswersFitPrompts
<1>1. IInv => AnswersFitPrompts
  <2> SUFFICES ASSUME IInv, NEW h \in Handlers, stdin[h] # <<>>, phase[h] \in Prompts
               PROVE  /\ Len(stdin[h]) = 1
                      /\ phase[h] = "current" <=> Head(stdin[h]) = Default
                      /\ phase[h] = "retype" => Head(stdin[h]) = given[h].new
    BY DEF AnswersFitPrompts
  <2>1. \/ Authenticating(h)
        \/ \E p \in Passwords : Sent(h, p) \/ Retyped(h, p) \/ WeakAgain(h, p)
    <3>1. Place(h)
      BY DEF IInv
    <3>2. QED
      BY <3>1 DEF Place, At, NotStarted, Started, Stuck, Authentic, Denied, Accepted,
                  TooWeak, Refused, Changed, Successful, Failed, Freed
  <2>2. CASE Authenticating(h)
    <3>1. stdin[h] = <<Default>> /\ phase[h] = "current"
      BY <2>2 DEF Authenticating, At
    <3>2. QED BY <3>1, HeadTail, LenOfOne
  <2>3. ASSUME NEW p \in Passwords, Sent(h, p) \/ Retyped(h, p) \/ WeakAgain(h, p)
        PROVE  /\ Len(stdin[h]) = 1 /\ phase[h] # "current" /\ Head(stdin[h]) # Default
               /\ phase[h] = "retype" => Head(stdin[h]) = given[h].new
    <3>1. /\ stdin[h] = <<p>> /\ phase[h] # "current"
          /\ phase[h] = "retype" => given[h].new = p
      BY <2>3 DEF Sent, Retyped, WeakAgain, At
    <3>2. p # Default
      BY PasswordAssumption
    <3>3. QED BY <3>1, <3>2, HeadTail, LenOfOne
  <2>4. QED BY <2>1, <2>2, <2>3
<1>2. QED BY <1>1, PasswdInvariant, PTL

-----------------------------------------------------------------------------
(* What the dialogues share: the buffer and the account.                   *)

SaidBad == "BAD PASSWORD" \in str.words

\* A rejection left in the buffer, or about to be, is of a passwd that was not
\* given the password of the account.
Leftovers ==
    /\ "unchanged" \in str.words \/ (\E k \in Handlers : Denied(k)) => account # Default
    /\ SaidBad => \E k \in Handlers : \E p \in Passwords : TooWeak(k, p)

OneAsked == \A h, k \in Handlers : verdict[h] = "asked" /\ verdict[k] = "asked" => h = k

Undisturbed ==
    \A h \in Handlers :
       Changed(h) => "unchanged" \notin str.words /\ \A k \in Handlers : ~Denied(k)

Reported ==
    \A h \in Handlers : (Failed(h) \/ Freed(h)) /\ stored[h] => verdict[h] = "ok"

NInv == Leftovers /\ (~overlapped => OneAsked /\ Undisturbed /\ Reported)

LEMMA SameLemma ==
  ASSUME NEW k \in Handlers, UNCHANGED Own(k)
  PROVE  /\ Denied(k)' <=> Denied(k)
         /\ Changed(k)' <=> Changed(k)
         /\ Failed(k)' <=> Failed(k)
         /\ Freed(k)' <=> Freed(k)
         /\ \A p : TooWeak(k, p)' <=> TooWeak(k, p)
         /\ UNCHANGED <<verdict[k], stored[k]>>
<1>1. /\ state'[k] = state[k] /\ queue'[k] = queue[k] /\ changing'[k] = changing[k]
      /\ verdict'[k] = verdict[k] /\ oks'[k] = oks[k] /\ phase'[k] = phase[k]
      /\ stdin'[k] = stdin[k] /\ stdout'[k] = stdout[k] /\ cut'[k] = cut[k]
      /\ given'[k] = given[k] /\ status'[k] = status[k] /\ stored'[k] = stored[k]
  BY DEF Own
<1> USE DEF At, Ends, Unread, Asked
<1>2. (Denied(k)' <=> Denied(k)) /\ (Changed(k)' <=> Changed(k))
  BY <1>1 DEF Denied, Changed
<1>3. (Failed(k)' <=> Failed(k)) /\ (Freed(k)' <=> Freed(k))
  BY <1>1 DEF Failed, Freed
<1>4. \A p : TooWeak(k, p)' <=> TooWeak(k, p)
  BY <1>1 DEF TooWeak
<1>5. QED BY <1>1, <1>2, <1>3, <1>4

\* What a step of one dialogue must respect for NInv to stay.
LEMMA SharedLemma ==
  ASSUME IInv, NInv, NEW h \in Handlers,
         \A k \in Handlers \ {h} : UNCHANGED Own(k),
         "unchanged" \in str'.words => "unchanged" \in str.words \/ Denied(h),
         SaidBad' => SaidBad \/ \E p \in Passwords : TooWeak(h, p),
         (\E p \in Passwords : TooWeak(h, p)) =>
            ~SaidBad' \/ \E p \in Passwords : TooWeak(h, p)',
         account # Default => account' # Default,
         Denied(h)' => account' # Default /\ (Denied(h) \/ verdict[h] = "asked"),
         ~overlapped' => ~overlapped,
         ~overlapped' /\ verdict'[h] = "asked" =>
            verdict[h] = "asked" \/ \A k \in Handlers : verdict[k] # "asked",
         Changed(h)' => Changed(h) \/ account = Default,
         ~overlapped /\ (Failed(h)' \/ Freed(h)') /\ stored'[h] => verdict'[h] = "ok"
  PROVE  NInv'
<1>1. \A k \in Handlers \ {h} :
         /\ Denied(k)' <=> Denied(k)
         /\ Changed(k)' <=> Changed(k)
         /\ Failed(k)' <=> Failed(k)
         /\ Freed(k)' <=> Freed(k)
         /\ \A p : TooWeak(k, p)' <=> TooWeak(k, p)
         /\ verdict'[k] = verdict[k] /\ stored'[k] = stored[k]
  BY SameLemma
<1>2. Leftovers'
  <2>1. "unchanged" \in str'.words \/ (\E k \in Handlers : Denied(k)') => account' # Default
    <3>1. "unchanged" \in str'.words => account' # Default
      BY DEF NInv, Leftovers
    <3>2. (\E k \in Handlers : Denied(k)') => account' # Default
      BY <1>1 DEF NInv, Leftovers
    <3>3. QED BY <3>1, <3>2
  <2>2. SaidBad' => \E k \in Handlers : \E p \in Passwords : TooWeak(k, p)'
    <3>1. SaidBad' => \E k \in Handlers : \E p \in Passwords : TooWeak(k, p)
      BY DEF NInv, Leftovers
    <3>2. ASSUME SaidBad', NEW k \in Handlers, NEW p \in Passwords, TooWeak(k, p)
          PROVE  \E l \in Handlers : \E q \in Passwords : TooWeak(l, q)'
      <4>1. CASE k = h
        BY <3>2, <4>1
      <4>2. CASE k # h
        BY <1>1, <3>2, <4>2
      <4>3. QED BY <4>1, <4>2
    <3>3. QED BY <3>1, <3>2
  <2>3. QED BY <2>1, <2>2 DEF Leftovers
<1>3. ASSUME ~overlapped' PROVE OneAsked' /\ Undisturbed' /\ Reported'
  <2>1. OneAsked /\ Undisturbed /\ Reported /\ ~overlapped
    BY <1>3 DEF NInv
  <2>2. OneAsked'
    BY <1>1, <1>3, <2>1 DEF OneAsked
  <2>3. ASSUME NEW a \in Handlers, Changed(a)'
        PROVE  "unchanged" \notin str'.words /\ \A k \in Handlers : ~Denied(k)'
    <3>1. \A k \in Handlers : ~(Denied(k)' /\ Changed(k)')
      BY DEF Denied, Changed, At
    <3>2. CASE a = h
      <4>1. "unchanged" \notin str.words /\ \A k \in Handlers : ~Denied(k)
        BY <2>1, <2>3, <3>2 DEF Undisturbed, NInv, Leftovers
      <4>2. \A k \in Handlers : ~Denied(k)'
        BY <1>1, <2>3, <3>1, <3>2, <4>1
      <4>3. QED BY <4>1, <4>2
    <3>3. CASE a # h
      <4>1. Changed(a) /\ verdict[a] = "asked"
        BY <1>1, <2>3, <3>3 DEF Changed
      <4>2. "unchanged" \notin str.words /\ \A k \in Handlers : ~Denied(k)
        BY <2>1, <4>1 DEF Undisturbed
      <4>3. verdict[h] # "asked"
        BY <2>1, <3>3, <4>1 DEF OneAsked
      <4>4. QED BY <1>1, <4>2, <4>3
    <3>4. QED BY <3>2, <3>3
  <2>4. Reported'
    <3>1. ASSUME NEW a \in Handlers, Failed(a)' \/ Freed(a)', stored'[a]
          PROVE  verdict'[a] = "ok"
      BY <1>1, <2>1, <3>1 DEF Reported
    <3>2. QED BY <3>1 DEF Reported
  <2>5. QED BY <2>2, <2>3, <2>4 DEF Undisturbed
<1>4. QED BY <1>2, <1>3 DEF NInv

\* The places in a next state at which none of the shared facts is at stake.
LEMMA ApartLemma ==
  ASSUME NEW h \in Handlers, NEW p
  PROVE  /\ NotStarted(h)' \/ Started(h)' \/ Stuck(h)' \/ Authenticating(h)' \/ Authentic(h)'
              \/ Sent(h, p)' \/ Accepted(h, p)' \/ Retyped(h, p)' \/ WeakAgain(h, p)'
              \/ TooWeak(h, p)' \/ Refused(h)' \/ Successful(h)'
              => ~Denied(h)' /\ ~Changed(h)' /\ ~Failed(h)' /\ ~Freed(h)'
         /\ ~(Changed(h)' /\ Denied(h)') /\ ~(Changed(h)' /\ Failed(h)')
         /\ ~(Changed(h)' /\ Freed(h)') /\ ~(Denied(h)' /\ Failed(h)')
         /\ ~(Denied(h)' /\ Freed(h)')
<1> USE DEF At, Denied, Changed, Failed, Freed
<1>1. NotStarted(h)' \/ Started(h)' \/ Stuck(h)' \/ Authenticating(h)' \/ Authentic(h)'
         => ~Denied(h)' /\ ~Changed(h)' /\ ~Failed(h)' /\ ~Freed(h)'
  BY DEF NotStarted, Started, Stuck, Authenticating, Authentic
<1>2. Sent(h, p)' \/ Accepted(h, p)' \/ Retyped(h, p)' \/ WeakAgain(h, p)' \/ TooWeak(h, p)'
         => ~Denied(h)' /\ ~Changed(h)' /\ ~Failed(h)' /\ ~Freed(h)'
  BY DEF Sent, Accepted, Retyped, WeakAgain, TooWeak
<1>3. Refused(h)' \/ Successful(h)'
         => ~Denied(h)' /\ ~Changed(h)' /\ ~Failed(h)' /\ ~Freed(h)'
  <2>1. Refused(h)' => state'[h] = "RETYPE" /\ ~stored'[h]
    BY DEF Refused, Asked
  <2>2. Successful(h)' => state'[h] = "DONE"
    BY DEF Successful
  <2>3. QED BY <2>1, <2>2
<1>4. QED BY <1>1, <1>2, <1>3

LEMMA StillLemma ==
  ASSUME IInv, NInv, \A k \in Handlers : UNCHANGED Own(k),
         UNCHANGED <<str, account, overlapped>>
  PROVE  NInv'
<1>1. \A k \in Handlers :
         /\ Denied(k)' <=> Denied(k)
         /\ Changed(k)' <=> Changed(k)
         /\ Failed(k)' <=> Failed(k)
         /\ Freed(k)' <=> Freed(k)
         /\ \A p : TooWeak(k, p)' <=> TooWeak(k, p)
         /\ verdict'[k] = verdict[k] /\ stored'[k] = stored[k]
  BY SameLemma
<1>2. Leftovers'
  BY <1>1 DEF NInv, Leftovers, SaidBad
<1>3. ~overlapped => OneAsked' /\ Undisturbed' /\ Reported'
  <2> SUFFICES ASSUME ~overlapped PROVE OneAsked' /\ Undisturbed' /\ Reported'
    OBVIOUS
  <2>1. OneAsked'
    BY <1>1 DEF NInv, OneAsked
  <2>2. Undisturbed'
    BY <1>1 DEF NInv, Undisturbed
  <2>3. Reported'
    BY <1>1 DEF NInv, Reported
  <2>4. QED BY <2>1, <2>2, <2>3
<1>4. QED BY <1>2, <1>3 DEF NInv

LEMMA ApplyShared ==
  ASSUME IInv, NInv, NEW h \in Handlers, Apply(h)
  PROVE  NInv'
<1>1. /\ NotStarted(h) /\ (NotStarted(h)' \/ Started(h)') /\ verdict[h] = "idle"
      /\ \A k \in Handlers \ {h} : UNCHANGED Own(k)
      /\ UNCHANGED <<str, account, stored>>
      /\ overlapped' = (overlapped \/ \E k \in Handlers : verdict[k] = "asked")
  BY ApplyLemma
<1>2. ~Denied(h)' /\ ~Changed(h)' /\ ~Failed(h)' /\ ~Freed(h)'
  BY <1>1, ApartLemma
<1>3. (SaidBad' <=> SaidBad) /\ ("unchanged" \in str'.words => "unchanged" \in str.words)
  BY <1>1 DEF SaidBad
<1>4. \A p \in Passwords : ~TooWeak(h, p)
  BY <1>1 DEF TooWeak, Asked
<1>5. ~overlapped' => ~overlapped /\ \A k \in Handlers : verdict[k] # "asked"
  BY <1>1 DEF IInv, TypeOK
<1>6. QED BY <1>1, <1>2, <1>3, <1>4, <1>5, SharedLemma

LEMMA ExitShared ==
  ASSUME IInv, NInv, NEW h \in Handlers, ChildExited(h)
  PROVE  NInv'
<1>1. /\ Freed(h)' /\ (\A k \in Handlers \ {h} : UNCHANGED Own(k))
      /\ UNCHANGED <<str, account, stored, history>>
      /\ \/ ~Changed(h) /\ verdict'[h] = verdict[h]
         \/ Changed(h) /\ verdict'[h] = "ok"
      /\ Denied(h) \/ Refused(h) \/ Changed(h) \/ Successful(h) \/ Failed(h)
  BY ChildExitedLemma
<1>2. ~Denied(h)' /\ ~Changed(h)'
  BY <1>1, ApartLemma
<1>3. (SaidBad' <=> SaidBad) /\ ("unchanged" \in str'.words => "unchanged" \in str.words)
  BY <1>1 DEF SaidBad
<1>4. \A p \in Passwords : ~TooWeak(h, p)
  BY <1>1 DEF TooWeak, At, Denied, Refused, Changed, Successful, Failed
<1>5. ~overlapped' => ~overlapped
  BY <1>1 DEF history
<1>6. ~overlapped /\ stored'[h] => verdict'[h] = "ok"
  <2>1. Denied(h) \/ Refused(h) => ~stored[h]
    BY DEF Denied, Refused, Asked
  <2>2. Successful(h) => verdict[h] = "ok"
    BY DEF Successful
  <2>3. ~overlapped /\ Failed(h) /\ stored[h] => verdict[h] = "ok"
    BY DEF NInv, Reported
  <2>4. QED BY <1>1, <2>1, <2>2, <2>3
<1>7. verdict'[h] = "asked" => verdict[h] = "asked"
  BY <1>1
<1>8. QED BY <1>1, <1>2, <1>3, <1>4, <1>5, <1>6, <1>7, SharedLemma

LEMMA PasswdShared ==
  ASSUME IInv, NInv, NEW h \in Handlers, PasswdReads(h)
  PROVE  NInv'
<1>1. /\ (\A k \in Handlers \ {h} : UNCHANGED Own(k))
      /\ UNCHANGED <<str, verdict, history>>
      /\ \/ Authenticating(h) /\ Authentic(h)' /\ account' = account
         \/ Authenticating(h) /\ Denied(h)' /\ account' = account /\ account # Default
         \/ \E p \in Passwords :
               \/ Sent(h, p) /\ (Accepted(h, p)' \/ TooWeak(h, p)') /\ account' = account
               \/ WeakAgain(h, p) /\ Refused(h)' /\ account' = account
               \/ Retyped(h, p) /\ Refused(h)' /\ account' = account
               \/ /\ Retyped(h, p) /\ Changed(h)'
                  /\ account = Default /\ account' = p
  BY PasswdReadsLemma
<1>2. (SaidBad' <=> SaidBad) /\ ("unchanged" \in str'.words => "unchanged" \in str.words)
  BY <1>1 DEF SaidBad
<1>3. \A p \in Passwords : ~TooWeak(h, p)
  <2>1. stdin[h] # <<>>
    BY DEF PasswdReads
  <2>2. QED BY <2>1 DEF TooWeak, At
<1>4. ~Failed(h)' /\ ~Freed(h)'
  BY <1>1, ApartLemma
<1>5. Changed(h)' => account = Default
  BY <1>1, ApartLemma
<1>6. account # Default => account' # Default
  BY <1>1
<1>7. Denied(h)' => account' # Default /\ verdict[h] = "asked"
  BY <1>1, ApartLemma DEF Authenticating, Asked
<1>8. QED BY <1>1, <1>2, <1>3, <1>4, <1>5, <1>6, <1>7, SharedLemma DEF history

\* Without overlapping applies nobody's words are in the way of a success.
LEMMA QuietLemma ==
  ASSUME IInv, NInv, NEW h \in Handlers, Changed(h),
         str.words \cap {"BAD PASSWORD", "unchanged"} # {}
  PROVE  overlapped
<1> SUFFICES ASSUME ~overlapped PROVE FALSE
  OBVIOUS
<1>1. verdict[h] = "asked" /\ state[h] = "RETYPE"
  BY DEF Changed, At
<1>2. "unchanged" \notin str.words
  BY DEF NInv, Undisturbed
<1>3. ~SaidBad
  <2>1. \A k \in Handlers : \A p \in Passwords :
           TooWeak(k, p) => verdict[k] = "asked" /\ state[k] = "NEW"
    BY DEF TooWeak, Asked, At
  <2>2. \A k \in Handlers : verdict[k] = "asked" => k = h
    BY <1>1 DEF NInv, OneAsked
  <2>3. SaidBad => \E k \in Handlers : \E p \in Passwords : TooWeak(k, p)
    BY DEF NInv, Leftovers
  <2>4. state[h] # "NEW"
    BY <1>1
  <2>5. QED BY <2>1, <2>2, <2>3, <2>4
<1>4. QED BY <1>2, <1>3 DEF SaidBad

\* A read of a handler that stays or goes where nothing shared is at stake.
LEMMA ReadAside ==
  ASSUME IInv, NInv, NEW h \in Handlers,
         \A k \in Handlers \ {h} : UNCHANGED Own(k),
         UNCHANGED <<account, history, stored>>,
         "unchanged" \in str'.words => "unchanged" \in str.words,
         SaidBad' => SaidBad,
         (\E p \in Passwords : TooWeak(h, p)) =>
            ~SaidBad' \/ \E p \in Passwords : TooWeak(h, p)',
         ~Denied(h)', ~Failed(h)', ~Freed(h)', Changed(h)' => Changed(h),
         verdict'[h] = "asked" => verdict[h] = "asked"
  PROVE  NInv'
<1>1. UNCHANGED overlapped /\ UNCHANGED account
  BY DEF history
<1>2. QED BY <1>1, SharedLemma

LEMMA ReadShared ==
  ASSUME IInv, NInv, NEW h \in Handlers, NEW n \in 0..Len(stdout[h]), NEW breaks \in BOOLEAN,
         NEW joins \in Joins(h), Read(h, n, breaks, joins)
  PROVE  NInv'
<1>1. /\ (\A k \in Handlers \ {h} : UNCHANGED Own(k))
      /\ UNCHANGED <<account, history, stored>> /\ ReadMoves(h)
  BY ReadLemma
<1>2. UNCHANGED overlapped
  BY <1>1 DEF history
\* What becomes of the buffer.
<1>3. str' = Empty => "unchanged" \notin str'.words /\ ~SaidBad'
  BY EmptyLemma DEF SaidBad
<1>4. str'.words \subseteq str.words \cup {"Changing", "urrent", "New", "new"}
         => /\ "unchanged" \in str'.words => "unchanged" \in str.words
            /\ SaidBad' => SaidBad
  BY DEF SaidBad
<1>5. \A p \in Passwords : TooWeak(h, p) => state[h] = "NEW"
  BY DEF TooWeak, At
\* A prompt of which nothing is left is followed by nobody's rejection.
<1>6. CASE \/ Started(h) /\ (Authenticating(h)' \/ Stuck(h)') /\ str' = Empty
           \/ /\ Authentic(h) /\ verdict[h] = "asked" /\ str' = Empty
              /\ Authentic(h)' \/ \E p \in Passwords : Sent(h, p)'
           \/ \E p \in Passwords : \/ Accepted(h, p) /\ Retyped(h, p)' /\ str' = Empty
                                   \/ TooWeak(h, p) /\ WeakAgain(h, p)' /\ str' = Empty
  <2>1. ~Denied(h)' /\ ~Changed(h)' /\ ~Failed(h)' /\ ~Freed(h)'
    BY <1>6, ApartLemma
  <2>2. verdict[h] = "asked"
    BY <1>6 DEF Started, Accepted, TooWeak, Asked
  <2>3. "unchanged" \notin str'.words /\ ~SaidBad'
    BY <1>3, <1>6
  <2>4. QED BY <1>1, <2>1, <2>2, <2>3, ReadAside
<1>7. CASE \/ /\ Started(h) /\ Started(h)'
              /\ str'.words \subseteq str.words \cup {"Changing", "urrent"}
           \/ /\ Authentic(h) /\ verdict[h] = "asked" /\ Authentic(h)'
              /\ str'.words \subseteq str.words \cup {"New"}
           \/ \E p \in Passwords :
                 /\ Accepted(h, p) /\ Accepted(h, p)'
                 /\ str'.words \subseteq str.words \cup {"new"}
           \/ Refused(h) /\ Refused(h)' /\ str'.words \subseteq str.words
  <2>1. ~Denied(h)' /\ ~Changed(h)' /\ ~Failed(h)' /\ ~Freed(h)'
    BY <1>7, ApartLemma
  <2>2. verdict[h] = "asked"
    BY <1>7 DEF Started, Accepted, Refused, Asked
  <2>3. /\ "unchanged" \in str'.words => "unchanged" \in str.words
        /\ SaidBad' => SaidBad
    BY <1>4, <1>7
  <2>4. \A p \in Passwords : ~TooWeak(h, p)
    <3>1. Started(h) => state[h] # "NEW"
      BY DEF Started, At
    <3>2. Authentic(h) => state[h] # "NEW"
      BY DEF Authentic, At
    <3>3. \A p \in Passwords : Accepted(h, p) => phase[h] # "new"
      BY DEF Accepted, At
    <3>4. Refused(h) => state[h] # "NEW"
      BY DEF Refused, At
    <3>5. \A p \in Passwords : TooWeak(h, p) => phase[h] = "new"
      BY DEF TooWeak, At
    <3>6. QED BY <1>5, <1>7, <3>1, <3>2, <3>3, <3>4, <3>5
  <2>5. QED BY <1>1, <2>1, <2>2, <2>3, <2>4, ReadAside
<1>8. CASE /\ Denied(h) /\ Denied(h)' /\ str'.words \subseteq str.words \cup {"unchanged"}
           /\ verdict'[h] = verdict[h] \/ verdict'[h] = "error"
  <2>1. ~Changed(h)' /\ ~Failed(h)' /\ ~Freed(h)'
    BY <1>8, ApartLemma
  <2>2. SaidBad' => SaidBad
    BY <1>8 DEF SaidBad
  <2>3. state[h] # "NEW" /\ account' # Default
    BY <1>1, <1>8 DEF Denied, At, NInv, Leftovers
  <2>4. verdict'[h] = "asked" => verdict[h] = "asked"
    BY <1>8
  <2>5. QED BY <1>1, <1>2, <1>5, <1>8, <2>1, <2>2, <2>3, <2>4, SharedLemma
<1>9. ASSUME NEW p \in Passwords, TooWeak(h, p), TooWeak(h, p)',
             str'.words \subseteq str.words \cup {"BAD PASSWORD", "New"}
      PROVE  NInv'
  <2>1. ~Denied(h)' /\ ~Changed(h)' /\ ~Failed(h)' /\ ~Freed(h)'
    BY <1>9, ApartLemma
  <2>2. "unchanged" \in str'.words => "unchanged" \in str.words
    BY <1>9
  <2>3. verdict[h] = "asked"
    BY <1>9 DEF TooWeak, Asked
  <2>4. TooWeak(h, p) /\ TooWeak(h, p)'
    BY <1>9
  <2>5. UNCHANGED account
    BY <1>1
  <2>6. QED BY <1>1, <1>2, <2>1, <2>2, <2>3, <2>4, <2>5, SharedLemma
<1>10. CASE Refused(h) /\ Failed(h)' /\ str' = Empty
  <2>1. ~Denied(h)' /\ ~Changed(h)'
    BY <1>10, ApartLemma
  <2>2. verdict[h] = "asked" /\ ~stored'[h]
    BY <1>1, <1>10 DEF Refused, Asked
  <2>3. "unchanged" \notin str'.words /\ ~SaidBad' /\ UNCHANGED account
    BY <1>1, <1>3, <1>10
  <2>4. QED BY <1>1, <1>2, <2>1, <2>2, <2>3, SharedLemma
<1>11. CASE Changed(h) /\ Changed(h)' /\ str'.words \subseteq str.words
  <2>1. ~Denied(h)' /\ ~Failed(h)' /\ ~Freed(h)' /\ verdict[h] = "asked" /\ state[h] # "NEW"
    BY <1>11, ApartLemma DEF Changed, At
  <2>2. /\ "unchanged" \in str'.words => "unchanged" \in str.words
        /\ SaidBad' => SaidBad
    BY <1>4, <1>11
  <2>3. QED BY <1>1, <1>5, <1>11, <2>1, <2>2, ReadAside
<1>12. CASE Changed(h) /\ Successful(h)' /\ str' = Empty
  <2>1. ~Denied(h)' /\ ~Changed(h)' /\ ~Failed(h)' /\ ~Freed(h)'
    BY <1>12, ApartLemma
  <2>2. verdict[h] = "asked"
    BY <1>12 DEF Changed
  <2>3. "unchanged" \notin str'.words /\ ~SaidBad'
    BY <1>3, <1>12
  <2>4. QED BY <1>1, <2>1, <2>2, <2>3, ReadAside
\* The change would be hidden; but then there was a rejection in the buffer.
<1>13. CASE /\ Changed(h) /\ Failed(h)' /\ str' = Empty
            /\ str.words \cap {"BAD PASSWORD", "unchanged"} # {}
  <2>1. ~Denied(h)' /\ ~Changed(h)'
    BY <1>13, ApartLemma
  <2>2. verdict[h] = "asked" /\ overlapped
    BY <1>13, QuietLemma DEF Changed
  <2>3. "unchanged" \notin str'.words /\ ~SaidBad' /\ UNCHANGED account
    BY <1>1, <1>3, <1>13
  <2>4. QED BY <1>1, <1>2, <2>1, <2>2, <2>3, SharedLemma
<1>14. CASE Failed(h) /\ Failed(h)' /\ str' = Empty
  <2>1. ~Denied(h)' /\ ~Changed(h)' /\ verdict'[h] = "error" /\ verdict[h] = "error"
    BY <1>14, ApartLemma DEF Failed
  <2>2. ~overlapped => ~stored'[h]
    BY <1>1, <1>14, <2>1 DEF NInv, Reported
  <2>3. "unchanged" \notin str'.words /\ ~SaidBad' /\ UNCHANGED account
    BY <1>1, <1>3, <1>14
  <2>4. QED BY <1>1, <1>2, <2>1, <2>2, <2>3, SharedLemma
<1>15. CASE Successful(h) /\ Successful(h)' /\ str' = Empty
  <2>1. ~Denied(h)' /\ ~Changed(h)' /\ ~Failed(h)' /\ ~Freed(h)'
    BY <1>15, ApartLemma
  <2>2. verdict'[h] = "ok"
    BY <1>15 DEF Successful
  <2>3. "unchanged" \notin str'.words /\ ~SaidBad'
    BY <1>3, <1>15
  <2>4. QED BY <1>1, <2>1, <2>2, <2>3, ReadAside
<1>16. QED
  BY <1>1, <1>6, <1>7, <1>8, <1>9, <1>10, <1>11, <1>12, <1>13, <1>14, <1>15 DEF ReadMoves

LEMMA SharedInvariant == ASSUME NoPassword \notin Accounts PROVE Spec => [](IInv /\ NInv)
<1>1. Init => NInv
  <2> SUFFICES ASSUME Init PROVE NInv
    OBVIOUS
  <2>1. \A h \in Handlers : verdict[h] = "idle" /\ ~stored[h]
    BY DEF Init
  <2>2. \A h \in Handlers : ~Denied(h) /\ ~Changed(h)
    BY <2>1 DEF Denied, Changed
  <2>3. str.words = {}
    BY DEF Init, Empty
  <2>4. Leftovers /\ OneAsked /\ Undisturbed /\ Reported
    BY <2>1, <2>2, <2>3 DEF Leftovers, SaidBad, OneAsked, Undisturbed, Reported
  <2>5. QED BY <2>4 DEF NInv
<1>2. IInv /\ NInv /\ [Next]_vars => NInv'
  <2> SUFFICES ASSUME IInv, NInv, [Next]_vars PROVE NInv'
    OBVIOUS
  <2>1. CASE \E p \in Passwords : Edit(p)
    <3>1. UNCHANGED <<str, account, overlapped>>
      BY <2>1 DEF Edit, backend, history
    <3>2. \A k \in Handlers : UNCHANGED Own(k)
      BY <2>1, EditLemma
    <3>3. QED BY <3>1, <3>2, StillLemma
  <2>2. CASE \E h \in Handlers : Apply(h)
    BY <2>2, ApplyShared
  <2>3. CASE \E h \in Handlers : ChildExited(h)
    BY <2>3, ExitShared
  <2>4. CASE \E h \in Handlers : PasswdReads(h)
    BY <2>4, PasswdShared
  <2>5. ASSUME NEW h \in Handlers, NEW n \in 0..Len(stdout[h]), NEW breaks \in BOOLEAN,
               NEW joins \in Joins(h), Read(h, n, breaks, joins)
        PROVE  NInv'
    BY <2>5, ReadShared
  <2>6. CASE UNCHANGED vars
    <3>1. UNCHANGED <<str, account, overlapped>>
      BY <2>6 DEF vars, backend, history
    <3>2. \A k \in Handlers : UNCHANGED Own(k)
      BY <2>6, StutterLemma
    <3>3. QED BY <3>1, <3>2, StillLemma
  <2>7. QED BY <2>1, <2>2, <2>3, <2>4, <2>5, <2>6 DEF Next
<1>3. QED BY <1>1, <1>2, PasswdInvariant, PTL DEF Spec

\* As long as applies do not overlap, a changed password is reported by the time
\* its handler is freed, whatever was read before passwd's exit was noticed.
THEOREM ChangeIsReportedHolds ==
  ASSUME NoPassword \notin Accounts PROVE Spec => []ChangeIsReported
<1>1. IInv /\ NInv => ChangeIsReported
  <2> SUFFICES ASSUME IInv, NInv, ~overlapped, NEW h \in Handlers, phase[h] = "freed",
                      stored[h]
               PROVE  verdict[h] = "ok"
    BY DEF ChangeIsReported
  <2>1. Freed(h)
    <3>1. Place(h)
      BY DEF IInv
    <3>2. QED
      BY <3>1 DEF Place, At, Asked, NotStarted, Started, Stuck, Authenticating, Authentic,
              Denied, Sent, Accepted, TooWeak, Retyped, WeakAgain, Refused, Changed,
              Successful, Failed
  <2>2. QED BY <2>1 DEF NInv, Reported
<1>2. QED BY <1>1, SharedInvariant, PTL

-----------------------------------------------------------------------------
(* As long as only one dialogue has words in the pipes, none is lost.      *)

\* The handler waits for the prompt that passwd waits behind.
Waits(h) ==
    /\ verdict[h] = "asked" /\ phase[h] \in Prompts /\ stdin[h] = <<>>
    /\ state[h] \in {"NONE", "AUTH", "NEW"}

\* The end of the prompt is still to come, and its front was not lost.
Intact(h) ==
    /\ stdout[h] # <<>> /\ stdout[h][Len(stdout[h])] = "assword: "
    /\ cut[h] => <<h, stdout[h][1]>> \in str.front

\* While a dialogue is on, the pipes of the others are empty.
Alone ==
    \A h, k \in Handlers : verdict[h] = "asked" /\ k # h
        => verdict[k] # "asked" /\ stdout[k] = <<>>

\* A handler that found a word for the new password is about to send it.
NewIsMine ==
    str.words \cap {"New", "new"} # {} =>
        \E k \in Handlers : verdict[k] = "asked" /\ phase[k] \in {"new", "retype"}
                             /\ stdin[k] = <<>>

MInv == ~mixed => Alone /\ NewIsMine /\ \A h \in Handlers : Waits(h) => Intact(h)

LEMMA Unmoved ==
  ASSUME NEW k \in Handlers, UNCHANGED Own(k)
  PROVE  /\ Waits(k)' <=> Waits(k)
         /\ str'.front = str.front => (Intact(k)' <=> Intact(k))
         /\ UNCHANGED <<verdict[k], stdout[k], phase[k], stdin[k]>>
<1>1. /\ state'[k] = state[k] /\ verdict'[k] = verdict[k] /\ phase'[k] = phase[k]
      /\ stdin'[k] = stdin[k] /\ stdout'[k] = stdout[k] /\ cut'[k] = cut[k]
  BY DEF Own
<1>2. Waits(k)' <=> Waits(k)
  BY <1>1 DEF Waits
<1>3. str'.front = str.front => (Intact(k)' <=> Intact(k))
  BY <1>1 DEF Intact
<1>4. QED BY <1>1, <1>2, <1>3

LEMMA NobodyMoved ==
  ASSUME MInv, \A k \in Handlers : UNCHANGED Own(k), UNCHANGED <<str, mixed>>
  PROVE  MInv'
<1>1. \A k \in Handlers :
         /\ Waits(k)' <=> Waits(k)
         /\ Intact(k)' <=> Intact(k)
         /\ verdict'[k] = verdict[k] /\ stdout'[k] = stdout[k]
         /\ phase'[k] = phase[k] /\ stdin'[k] = stdin[k]
  BY Unmoved
<1>2. ~mixed => Alone' /\ NewIsMine'
  BY <1>1 DEF MInv, Alone, NewIsMine
<1>3. ~mixed => \A k \in Handlers : Waits(k)' => Intact(k)'
  BY <1>1 DEF MInv
<1>4. QED BY <1>2, <1>3 DEF MInv

\* What a step of one dialogue must respect for MInv to stay.
LEMMA OneMoves ==
  ASSUME MInv, ~mixed, NEW h \in Handlers, \A k \in Handlers \ {h} : UNCHANGED Own(k),
         \/ verdict'[h] = "asked" => verdict[h] = "asked"
         \/ \A k \in Handlers \ {h} : verdict[k] # "asked" /\ stdout[k] = <<>>,
         \/ stdout'[h] = <<>> /\ UNCHANGED str
         \/ \A k \in Handlers \ {h} : verdict[k] # "asked",
         Waits(h)' => Intact(h)', NewIsMine'
  PROVE  MInv'
<1>1. \A k \in Handlers \ {h} :
         /\ Waits(k)' <=> Waits(k)
         /\ str'.front = str.front => (Intact(k)' <=> Intact(k))
         /\ verdict'[k] = verdict[k] /\ stdout'[k] = stdout[k]
  BY Unmoved
<1>2. Alone'
  <2> SUFFICES ASSUME NEW a \in Handlers, NEW b \in Handlers, verdict'[a] = "asked", b # a
               PROVE  verdict'[b] # "asked" /\ stdout'[b] = <<>>
    BY DEF Alone
  <2>1. CASE a # h /\ b # h
    BY <1>1, <2>1 DEF MInv, Alone
  <2>2. CASE a = h
    BY <1>1, <2>2 DEF MInv, Alone
  <2>3. CASE b = h
    BY <1>1, <2>3 DEF MInv, Alone
  <2>4. QED BY <2>1, <2>2, <2>3
<1>3. ASSUME NEW k \in Handlers \ {h}, Waits(k)' PROVE Intact(k)'
  <2>1. Waits(k) /\ verdict[k] = "asked"
    BY <1>1, <1>3 DEF Waits
  <2>2. Intact(k) /\ UNCHANGED str
    BY <2>1 DEF MInv
  <2>3. QED BY <1>1, <2>2
<1>4. QED BY <1>2, <1>3 DEF MInv

LEMMA ApplyAlone ==
  ASSUME IInv, MInv, NEW h \in Handlers, Apply(h)
  PROVE  MInv'
<1> SUFFICES ASSUME ~mixed' PROVE MInv'
  BY DEF MInv
<1>1. /\ \A k \in Handlers \ {h} : UNCHANGED Own(k)
      /\ UNCHANGED str /\ (NotStarted(h)' \/ (Started(h)' /\ FullPrompt(h)'))
      /\ overlapped' = (overlapped \/ \E k \in Handlers : verdict[k] = "asked")
      /\ mixed' = (mixed \/ overlapped' \/ \E k \in Handlers : stdout[k] # <<>>)
  BY ApplyLemma
<1>2. ~mixed /\ \A k \in Handlers : verdict[k] # "asked" /\ stdout[k] = <<>>
  <2>1. mixed' \in BOOLEAN /\ mixed \in BOOLEAN /\ overlapped \in BOOLEAN
    BY <1>1 DEF IInv, TypeOK
  <2>2. ~overlapped'
    BY <1>1, <2>1
  <2>3. QED BY <1>1, <2>1, <2>2
<1>3. NewIsMine'
  BY <1>1, <1>2 DEF MInv, NewIsMine
<1>4. Waits(h)' => Intact(h)'
  <2>1. NotStarted(h)' => ~Waits(h)'
    BY DEF NotStarted, At, Waits, Prompts
  <2>2. FullPrompt(h)' => Intact(h)'
    BY DEF FullPrompt, Intact
  <2>3. QED BY <1>1, <2>1, <2>2
<1>5. QED BY <1>1, <1>2, <1>3, <1>4, OneMoves

LEMMA ExitAlone ==
  ASSUME IInv, MInv, NEW h \in Handlers, ChildExited(h)
  PROVE  MInv'
<1>1. /\ Freed(h)' /\ UNCHANGED <<str, history>>
      /\ \A k \in Handlers \ {h} : UNCHANGED Own(k)
      /\ verdict'[h] = verdict[h] \/ verdict'[h] = "ok"
  BY ChildExitedLemma
<1>2. UNCHANGED mixed /\ phase[h] = "exited"
  BY <1>1 DEF history, ChildExited
<1> SUFFICES ASSUME ~mixed PROVE MInv'
  BY <1>2 DEF MInv
<1>3. stdout'[h] = <<>> /\ ~Waits(h)'
  BY <1>1 DEF Freed, At, Waits, Prompts
<1>4. NewIsMine'
  <2> SUFFICES ASSUME str'.words \cap {"New", "new"} # {}
               PROVE  \E k \in Handlers : /\ verdict'[k] = "asked" /\ stdin'[k] = <<>>
                                          /\ phase'[k] \in {"new", "retype"}
    BY DEF NewIsMine
  <2>1. PICK k \in Handlers : /\ verdict[k] = "asked" /\ stdin[k] = <<>>
                              /\ phase[k] \in {"new", "retype"}
    BY <1>1 DEF MInv, NewIsMine
  <2>2. k # h
    BY <1>2, <2>1
  <2>3. verdict'[k] = verdict[k] /\ stdin'[k] = stdin[k] /\ phase'[k] = phase[k]
    BY <1>1, <2>2, Unmoved
  <2>4. QED BY <2>1, <2>3
<1>5. verdict'[h] = "asked" => verdict[h] = "asked"
  BY <1>1
<1>6. UNCHANGED str
  BY <1>1
<1>7. QED BY <1>1, <1>3, <1>4, <1>5, <1>6, OneMoves

LEMMA PasswdAlone ==
  ASSUME IInv, MInv, NEW h \in Handlers, PasswdReads(h)
  PROVE  MInv'
<1>1. /\ (\A k \in Handlers \ {h} : UNCHANGED Own(k)) /\ UNCHANGED <<str, verdict, history>>
      /\ \/ Authenticating(h) /\ Authentic(h)' /\ FullPrompt(h)'
         \/ Authenticating(h) /\ Denied(h)'
         \/ \E p \in Passwords :
               \/ Sent(h, p) /\ (Accepted(h, p)' \/ TooWeak(h, p)') /\ FullPrompt(h)'
               \/ (WeakAgain(h, p) \/ Retyped(h, p)) /\ (Refused(h)' \/ Changed(h)')
  BY PasswdReadsLemma
<1>2. UNCHANGED mixed /\ UNCHANGED str /\ verdict' = verdict /\ stdin[h] # <<>>
  BY <1>1 DEF history, PasswdReads
<1> SUFFICES ASSUME ~mixed PROVE MInv'
  BY <1>2 DEF MInv
<1>3. verdict[h] = "asked"
  BY <1>1 DEF Authenticating, Sent, WeakAgain, Retyped, Asked
<1>4. \A k \in Handlers \ {h} : verdict[k] # "asked"
  BY <1>3 DEF MInv, Alone
<1>5. NewIsMine'
  BY <1>2, <1>4 DEF MInv, NewIsMine
<1>6. Waits(h)' => Intact(h)'
  <2>1. FullPrompt(h)' => Intact(h)'
    BY DEF FullPrompt, Intact
  <2>2. Denied(h)' \/ Refused(h)' \/ Changed(h)' => ~Waits(h)'
    BY DEF Denied, Refused, Changed, At, Waits, Prompts
  <2>3. QED BY <1>1, <2>1, <2>2
<1>7. QED BY <1>1, <1>2, <1>4, <1>5, <1>6, OneMoves

\* A read that finds no prompt in a text that ends in one leaves the end of it, and
\* its front in the buffer.
LEMMA KeepsIntact ==
  ASSUME IInv, NEW h \in Handlers, NEW n \in 0..Len(stdout[h]), NEW breaks \in BOOLEAN,
         NEW joins \in Joins(h), Read(h, n, breaks, joins), Intact(h),
         state[h] \in {"NONE", "AUTH", "NEW"}, state'[h] = state[h],
         verdict[h] = "asked", verdict'[h] = "asked"
  PROVE  Intact(h)'
<1> DEFINE buf == Buffer(h, n, joins)
           kept == Kept(h, n, breaks, joins)
<1>1. state \in [Handlers -> States] /\ stdout[h] \in Seq(Keywords)
      /\ verdict \in [Handlers -> {"idle", "asked", "ok", "error"}]
  BY DEF IInv, TypeOK
<1>2. "assword: " \notin buf /\ Keep(kept)
  <2>1. ~AskedFirst(h, buf) \/ state[h] # "NONE"
    BY <1>1 DEF AskedFirst, Set
  <2>2. ~Authenticated(h, buf) \/ state[h] # "AUTH"
    BY <1>1 DEF Authenticated, Set
  <2>3. ~AskedAgain(h) \/ state[h] # "NEW"
    BY <1>1 DEF AskedAgain, Set
  <2>4. /\ state[h] = "NONE" => IF "assword: " \in buf THEN AskedFirst(h, buf) ELSE Keep(kept)
        /\ state[h] = "AUTH" => IF buf \cap {"assword: ", "failure", "error"} # {}
                                THEN Authenticated(h, buf) ELSE Keep(kept)
        /\ state[h] = "NEW" => IF "assword: " \in buf THEN AskedAgain(h) ELSE Keep(kept)
    BY ReadCases
  <2>5. QED BY <2>1, <2>2, <2>3, <2>4
<1>3. joins
  <2>1. Head(stdout[h]) = stdout[h][1]
    BY <1>1, ReadTakes
  <2>2. QED BY <2>1 DEF Joins, Intact
<1>4. Len(stdout[h]) \in Nat /\ Len(stdout[h]) # 0 /\ n < Len(stdout[h])
  <2>1. Len(stdout[h]) \in Nat /\ Len(stdout[h]) # 0
    <3>1. stdout[h] # <<>>
      BY DEF Intact
    <3>2. QED BY <1>1, <3>1
  <2>2. ASSUME n = Len(stdout[h]) PROVE FALSE
    <3>1. Len(stdout[h]) \in 1..n
      BY <2>1, <2>2
    <3>2. stdout[h][Len(stdout[h])] \in Found(h, n, joins)
      BY <1>3, <3>1 DEF Found
    <3>3. QED BY <1>2, <3>2 DEF Intact, Buffer
  <2>3. QED BY <2>1, <2>2
<1>5. /\ Len(stdout'[h]) = Len(stdout[h]) - n
      /\ \A i \in 1..Len(stdout'[h]) : stdout'[h][i] = stdout[h][i + n]
  BY ReadLeaves
<1>6. /\ Len(stdout'[h]) # 0 /\ Len(stdout'[h]) \in 1..Len(stdout'[h])
      /\ 1 \in 1..Len(stdout'[h]) /\ Len(stdout'[h]) + n = Len(stdout[h])
  <2> DEFINE L == Len(stdout[h])
             M == Len(stdout'[h])
  <2>1. L \in Nat /\ n \in 0..L /\ n < L /\ M = L - n
    BY <1>4, <1>5
  <2> HIDE DEF L, M
  <2>2. M # 0 /\ M \in 1..M /\ 1 \in 1..M /\ M + n = L
    BY <2>1
  <2>3. QED BY <2>2 DEF L, M
<1>7. stdout'[h][Len(stdout'[h])] = "assword: "
  BY <1>5, <1>6 DEF Intact
<1>8. cut'[h] => <<h, stdout'[h][1]>> \in str'.front
  <2>1. stdout'[h][1] = stdout[h][1 + n]
    BY <1>5, <1>6
  <2>2. 1 + n = n + 1
    BY <1>4
  <2>3. stdout'[h][1] = stdout[h][n + 1]
    BY <2>1, <2>2
  <2>4. str' = kept /\ cut'[h] = breaks
    BY <1>2, ReadTakes DEF Keep
  <2>5. kept.front = Front(h, n, breaks)
    BY KeptFields
  <2>6. breaks => Front(h, n, breaks) = {<<h, stdout[h][n + 1]>>}
    BY DEF Front
  <2>7. QED
    <3> HIDE DEF kept
    <3>1. str'.front = Front(h, n, breaks)
      BY <2>4, <2>5
    <3>2. QED BY <2>3, <2>4, <2>6, <3>1
<1>9. stdout'[h] # <<>>
  BY <1>6, NotEmpty
<1>10. QED BY <1>7, <1>8, <1>9 DEF Intact

LEMMA ReadAlone ==
  ASSUME IInv, MInv, NEW h \in Handlers, NEW n \in 0..Len(stdout[h]), NEW breaks \in BOOLEAN,
         NEW joins \in Joins(h), Read(h, n, breaks, joins)
  PROVE  MInv'
<1>1. /\ (\A k \in Handlers \ {h} : UNCHANGED Own(k)) /\ UNCHANGED history /\ ReadMoves(h)
  BY ReadLemma
<1>2. UNCHANGED mixed /\ phase' = phase /\ stdout[h] # <<>>
  BY <1>1, ReadTakes DEF history, backend
<1> SUFFICES ASSUME ~mixed PROVE MInv'
  BY <1>2 DEF MInv
<1>3. \A k \in Handlers \ {h} : verdict[k] # "asked"
  BY <1>2 DEF MInv, Alone
\* Whoever has a word for the new password in the buffer is h itself.
<1>4. str.words \cap {"New", "new"} # {} =>
         verdict[h] = "asked" /\ phase[h] \in {"new", "retype"} /\ stdin[h] = <<>>
  BY <1>3 DEF MInv, NewIsMine
<1>5. ASSUME verdict'[h] = "asked", phase[h] \in {"new", "retype"}, stdin'[h] = <<>>
      PROVE  NewIsMine'
  BY <1>2, <1>5 DEF NewIsMine
<1>6. str'.words \cap {"New", "new"} = {} => NewIsMine'
  BY DEF NewIsMine
<1>7. str' = Empty => NewIsMine'
  BY <1>6, EmptyLemma
<1>8. CASE str' = Empty /\ ~Waits(h)' /\ (verdict'[h] = "asked" => verdict[h] = "asked")
  BY <1>1, <1>3, <1>7, <1>8, OneMoves
<1>9. CASE /\ Started(h) /\ Started(h)'
           /\ str'.words \subseteq str.words \cup {"Changing", "urrent"}
  <2>1. /\ phase[h] = "current" /\ verdict[h] = "asked" /\ verdict'[h] = "asked"
        /\ state[h] = "NONE" /\ state'[h] = "NONE" /\ Waits(h)
    BY <1>9 DEF Started, Asked, At, Waits, Prompts
  <2>2. NewIsMine'
    BY <1>4, <1>6, <1>9, <2>1
  <2>3. Intact(h)
    BY <2>1 DEF MInv
  <2>4. Intact(h)'
    BY <2>1, <2>3, KeepsIntact
  <2>5. QED BY <1>1, <1>3, <2>1, <2>2, <2>4, OneMoves
<1>10. CASE /\ Authentic(h) /\ verdict[h] = "asked" /\ Authentic(h)' /\ UNCHANGED verdict
            /\ str'.words \subseteq str.words \cup {"New"}
  <2>1. /\ phase[h] = "new" /\ verdict'[h] = "asked" /\ stdin'[h] = <<>>
        /\ state[h] = "AUTH" /\ state'[h] = "AUTH" /\ Waits(h)
    BY <1>10 DEF Authentic, At, Waits, Prompts
  <2>2. NewIsMine'
    BY <1>5, <2>1
  <2>3. Intact(h)
    BY <2>1 DEF MInv
  <2>4. Intact(h)'
    BY <1>10, <2>1, <2>3, KeepsIntact
  <2>5. QED BY <1>1, <1>3, <1>10, <2>1, <2>2, <2>4, OneMoves
<1>11. CASE \E p \in Passwords : \/ Accepted(h, p) /\ Accepted(h, p)'
                                 \/ TooWeak(h, p) /\ TooWeak(h, p)'
  <2>1. /\ phase[h] \in {"new", "retype"} /\ stdin'[h] = <<>>
        /\ verdict[h] = "asked" /\ verdict'[h] = "asked"
        /\ state[h] = "NEW" /\ state'[h] = "NEW" /\ Waits(h)
    BY <1>11 DEF Accepted, TooWeak, Asked, At, Waits, Prompts
  <2>2. NewIsMine'
    BY <1>5, <2>1
  <2>3. Intact(h)
    BY <2>1 DEF MInv
  <2>4. Intact(h)'
    BY <2>1, <2>3, KeepsIntact
  <2>5. QED BY <1>1, <1>3, <2>1, <2>2, <2>4, OneMoves
<1>12. CASE \/ /\ Denied(h) /\ Denied(h)' /\ str'.words \subseteq str.words \cup {"unchanged"}
               /\ verdict'[h] = verdict[h] \/ verdict'[h] = "error"
            \/ Refused(h) /\ Refused(h)' /\ str'.words \subseteq str.words
            \/ Changed(h) /\ Changed(h)' /\ str'.words \subseteq str.words
  <2>1. verdict'[h] = "asked" => verdict[h] = "asked"
    BY <1>12 DEF Refused, Changed, Asked
  <2>2. ~Waits(h)'
    BY <1>12 DEF Denied, Refused, Changed, At, Waits, Prompts
  <2>3. NewIsMine'
    <3>1. CASE Refused(h) /\ Refused(h)'
      <4>1. verdict'[h] = "asked" /\ stdin'[h] = <<>>
        BY <3>1 DEF Refused, Asked, At
      <4>2. CASE phase[h] \in {"new", "retype"}
        BY <1>5, <4>1, <4>2
      <4>3. CASE phase[h] \notin {"new", "retype"}
        <5>1. str.words \cap {"New", "new"} = {}
          BY <1>4, <4>3
        <5>2. str'.words \subseteq str.words \cup {"unchanged"}
          BY <1>12
        <5>3. QED BY <1>6, <5>1, <5>2
      <4>4. QED BY <4>2, <4>3
    <3>2. CASE Denied(h) \/ Changed(h)
      <4>1. phase[h] = "exited"
        BY <3>2 DEF Denied, Changed, At
      <4>2. str.words \cap {"New", "new"} = {}
        BY <1>4, <4>1
      <4>3. str'.words \subseteq str.words \cup {"unchanged"}
        BY <1>12
      <4>4. QED BY <1>6, <4>2, <4>3
    <3>3. QED BY <1>12, <3>1, <3>2
  <2>4. QED BY <1>1, <1>3, <2>1, <2>2, <2>3, OneMoves
\* Nobody's words can make h take the prompt for the current password as another.
<1>13. ~(Started(h) /\ str.words \cap {"new", "New"} # {})
  BY <1>4 DEF Started, At
<1>14. QED
  <2>1. ASSUME NEW p \in Passwords
        PROVE  /\ Sent(h, p)' => ~Waits(h)'
               /\ Retyped(h, p)' \/ WeakAgain(h, p)' => ~Waits(h)'
               /\ Accepted(h, p) \/ TooWeak(h, p) => verdict[h] = "asked"
    BY HeadTail DEF Sent, Retyped, WeakAgain, Accepted, TooWeak, Asked, At, Waits
  <2>2. /\ Authenticating(h)' => ~Waits(h)'
        /\ Authentic(h)' /\ verdict'[h] = "error" => ~Waits(h)'
        /\ Failed(h)' \/ Successful(h)' => ~Waits(h)' /\ verdict'[h] # "asked"
    BY HeadTail DEF Authenticating, Failed, Successful, At, Waits
  <2>3. Started(h) => verdict[h] = "asked"
    BY DEF Started, Asked
  <2>4. CASE Started(h) /\ Authenticating(h)' /\ str' = Empty
    BY <1>8, <2>2, <2>3, <2>4
  <2>5. CASE /\ Authentic(h) /\ verdict[h] = "asked"
             /\ \/ Authentic(h)' /\ verdict'[h] = "error" /\ str' = Empty
                \/ (\E p \in Passwords : Sent(h, p)') /\ str' = Empty
    BY <1>8, <2>1, <2>2, <2>5
  <2>6. CASE \E p \in Passwords : \/ Accepted(h, p) /\ Retyped(h, p)' /\ str' = Empty
                                  \/ TooWeak(h, p) /\ WeakAgain(h, p)' /\ str' = Empty
    BY <1>8, <2>1, <2>6
  <2>7. CASE (Failed(h)' \/ Successful(h)') /\ str' = Empty
    BY <1>8, <2>2, <2>7
  <2>8. QED
    BY <1>1, <1>9, <1>10, <1>11, <1>12, <1>13, <2>4, <2>5, <2>6, <2>7 DEF ReadMoves

LEMMA AloneInvariant == ASSUME NoPassword \notin Accounts PROVE Spec => [](IInv /\ MInv)
<1>1. Init => MInv
  <2> SUFFICES ASSUME Init PROVE MInv
    OBVIOUS
  <2>1. \A h \in Handlers : verdict[h] = "idle"
    BY DEF Init
  <2>2. str.words = {}
    BY DEF Init, Empty
  <2>3. QED BY <2>1, <2>2 DEF MInv, Alone, NewIsMine, Waits
<1>2. IInv /\ MInv /\ [Next]_vars => MInv'
  <2> SUFFICES ASSUME IInv, MInv, [Next]_vars PROVE MInv'
    OBVIOUS
  <2>1. CASE \E p \in Passwords : Edit(p)
    <3>1. UNCHANGED <<str, mixed>>
      BY <2>1 DEF Edit, history
    <3>2. \A k \in Handlers : UNCHANGED Own(k)
      BY <2>1, EditLemma
    <3>3. QED BY <3>1, <3>2, NobodyMoved
  <2>2. CASE \E h \in Handlers : Apply(h)
    BY <2>2, ApplyAlone
  <2>3. CASE \E h \in Handlers : ChildExited(h)
    BY <2>3, ExitAlone
  <2>4. CASE \E h \in Handlers : PasswdReads(h)
    BY <2>4, PasswdAlone
  <2>5. ASSUME NEW h \in Handlers, NEW n \in 0..Len(stdout[h]), NEW breaks \in BOOLEAN,
               NEW joins \in Joins(h), Read(h, n, breaks, joins)
        PROVE  MInv'
    BY <2>5, ReadAlone
  <2>6. CASE UNCHANGED vars
    <3>1. UNCHANGED <<str, mixed>>
      BY <2>6 DEF vars, history
    <3>2. \A k \in Handlers : UNCHANGED Own(k)
      BY <2>6, StutterLemma
    <3>3. QED BY <3>1, <3>2, NobodyMoved
  <2>7. QED BY <2>1, <2>2, <2>3, <2>4, <2>5, <2>6 DEF Next
<1>3. QED BY <1>1, <1>2, PasswdInvariant, PTL DEF Spec

\* passwd and its handler never wait for each other as long as nobody else's words
\* were in the pipes, however the reads break up its output.
THEOREM NoStallHolds == ASSUME NoPassword \notin Accounts PROVE Spec => []NoStall
<1>1. IInv /\ MInv => NoStall
  <2> SUFFICES ASSUME IInv, MInv, ~mixed, NEW h \in Handlers, phase[h] \in Prompts,
                      stdin[h] = <<>>, stdout[h] = <<>>, verdict[h] = "asked"
               PROVE  FALSE
    BY DEF NoStall
  <2>1. ~Waits(h)
    BY DEF MInv, Intact
  <2>2. state[h] \in {"RETYPE", "DONE", "ERR"}
    BY <2>1 DEF Waits, IInv, TypeOK, States
  <2>3. Place(h)
    BY DEF IInv
  <2>4. ~Failed(h) /\ ~Successful(h) /\ ~Refused(h) /\ ~Changed(h)
    BY DEF Failed, Successful, Refused, Changed, Unread
  <2>5. \A p \in Passwords : ~Retyped(h, p) /\ ~WeakAgain(h, p)
    BY HeadTail DEF Retyped, WeakAgain, At
  <2>6. QED
    BY <2>2, <2>3, <2>4, <2>5 DEF Place, At, NotStarted, Started, Stuck, Authenticating,
       Authentic, Denied, Sent, Accepted, TooWeak, Freed
<1>2. QED BY <1>1, AloneInvariant, PTL

-----------------------------------------------------------------------------
(* The dialogue implements PasswordChange.                                 *)

\* In a step of one dialogue only its own request moves.
LEMMA RequestLemma ==
  ASSUME NEW h \in Handlers, \A k \in Handlers \ {h} : UNCHANGED Own(k)
  PROVE  /\ Requested' = [Requested EXCEPT ![h] = Requested'[h]]
         /\ Requested'[h] = IF stored'[h] /\ verdict'[h] = "asked" THEN "changed"
                            ELSE verdict'[h]
         /\ Requested[h] = IF stored[h] /\ verdict[h] = "asked" THEN "changed"
                           ELSE verdict[h]
<1>1. \A k \in Handlers \ {h} : verdict'[k] = verdict[k] /\ stored'[k] = stored[k]
  BY DEF Own
<1>2. QED BY <1>1 DEF Requested

LEMMA RequestStays ==
  ASSUME NEW h \in Handlers, \A k \in Handlers \ {h} : UNCHANGED Own(k),
         Requested'[h] = Requested[h], account' = account
  PROVE  UNCHANGED Promise!vars
<1>1. Requested' = [Requested EXCEPT ![h] = Requested[h]]
  BY RequestLemma
<1>2. Requested' = Requested
  BY <1>1 DEF Requested
<1>3. QED BY <1>2 DEF Promise!vars

\* The step of the promise from one answer to another.
LEMMA RequestMoves ==
  ASSUME NEW h \in Handlers, \A k \in Handlers \ {h} : UNCHANGED Own(k),
         NEW from, NEW to, Requested[h] = from, Requested'[h] = to
  PROVE  Promise!Move(h, from, to)
BY RequestLemma DEF Promise!Move

LEMMA ApplyImplements ==
  ASSUME IInv, NEW h \in Handlers, Apply(h)
  PROVE  Promise!Next
<1>1. /\ NotStarted(h) /\ verdict[h] = "idle" /\ verdict'[h] \in {"asked", "error"}
      /\ (\A k \in Handlers \ {h} : UNCHANGED Own(k)) /\ UNCHANGED <<account, stored>>
  BY ApplyLemma
<1>2. ~stored'[h]
  BY <1>1 DEF NotStarted
<1>3. Requested[h] = "idle" /\ Requested'[h] = verdict'[h]
  BY <1>1, <1>2, RequestLemma
<1>4. Promise!Move(h, "idle", "asked") \/ Promise!Move(h, "idle", "error")
  BY <1>1, <1>3, RequestMoves
<1>5. QED BY <1>1, <1>4 DEF Promise!Next, Promise!Ask, Promise!Reject

LEMMA ExitImplements ==
  ASSUME IInv, NEW h \in Handlers, ChildExited(h)
  PROVE  [Promise!Next]_(Promise!vars)
<1>1. /\ (\A k \in Handlers \ {h} : UNCHANGED Own(k)) /\ UNCHANGED <<account, stored>>
      /\ \/ verdict'[h] = verdict[h]
         \/ Changed(h) /\ verdict'[h] = "ok"
  BY ChildExitedLemma
<1>2. CASE verdict'[h] = verdict[h]
  <2>1. Requested'[h] = Requested[h]
    BY <1>1, <1>2, RequestLemma
  <2>2. QED BY <1>1, <2>1, RequestStays
<1>3. CASE Changed(h) /\ verdict'[h] = "ok"
  <2>1. Requested[h] = "changed" /\ Requested'[h] = "ok"
    BY <1>1, <1>3, RequestLemma DEF Changed
  <2>2. Promise!Move(h, "changed", "ok")
    BY <1>1, <2>1, RequestMoves
  <2>3. QED BY <1>1, <2>2 DEF Promise!Next, Promise!Succeed
<1>4. QED BY <1>1, <1>2, <1>3

LEMMA PasswdImplements ==
  ASSUME IInv, NEW h \in Handlers, PasswdReads(h)
  PROVE  [Promise!Next]_(Promise!vars)
<1>1. /\ (\A k \in Handlers \ {h} : UNCHANGED Own(k))
      /\ UNCHANGED <<str, verdict, history>>
      /\ \/ Authenticating(h) /\ Authentic(h)' /\ account' = account
         \/ Authenticating(h) /\ Denied(h)' /\ account' = account /\ account # Default
         \/ \E p \in Passwords :
               \/ Sent(h, p) /\ (Accepted(h, p)' \/ TooWeak(h, p)') /\ account' = account
               \/ WeakAgain(h, p) /\ Refused(h)' /\ account' = account
               \/ Retyped(h, p) /\ Refused(h)' /\ account' = account
               \/ /\ Retyped(h, p) /\ Changed(h)'
                  /\ account = Default /\ account' = p
  BY PasswdReadsLemma
<1>2. ~stored[h] /\ verdict[h] = "asked"
  BY <1>1 DEF Authenticating, Sent, WeakAgain, Retyped, Asked
<1>3. Requested[h] = "asked"
  BY <1>1, <1>2, RequestLemma
<1>4. CASE account' = account /\ ~stored'[h]
  <2>1. Requested'[h] = Requested[h]
    BY <1>1, <1>2, <1>4, RequestLemma
  <2>2. QED BY <1>1, <1>4, <2>1, RequestStays
<1>5. CASE account = Default /\ account' \in Passwords /\ stored'[h]
  <2>1. Requested'[h] = "changed"
    BY <1>1, <1>2, <1>5, RequestLemma
  <2>2. Promise!Move(h, "asked", "changed")
    BY <1>1, <1>3, <2>1, RequestMoves
  <2>3. QED BY <1>3, <1>5, <2>2 DEF Promise!Next, Promise!Change, Promise!CanChange
<1>6. QED
  <2>1. Authentic(h)' \/ Denied(h)' \/ Refused(h)' => ~stored'[h]
    BY DEF Authentic, Denied, Refused, Asked
  <2>2. \A p \in Passwords : Accepted(h, p)' \/ TooWeak(h, p)' => ~stored'[h]
    BY DEF Accepted, TooWeak, Asked
  <2>3. Changed(h)' => stored'[h]
    BY DEF Changed
  <2>4. QED BY <1>1, <1>4, <1>5, <2>1, <2>2, <2>3

LEMMA ReadImplements ==
  ASSUME IInv, NInv, NEW h \in Handlers, NEW n \in 0..Len(stdout[h]), NEW breaks \in BOOLEAN,
         NEW joins \in Joins(h), Read(h, n, breaks, joins)
  PROVE  [Promise!Next]_(Promise!vars)
<1>1. /\ (\A k \in Handlers \ {h} : UNCHANGED Own(k))
      /\ UNCHANGED <<account, history, stored>> /\ ReadMoves(h)
  BY ReadLemma
<1>2. CASE verdict'[h] = verdict[h]
  <2>1. Requested'[h] = Requested[h]
    BY <1>1, <1>2, RequestLemma
  <2>2. QED BY <1>1, <2>1, RequestStays
<1>3. CASE verdict[h] = "asked" /\ ~stored[h] /\ verdict'[h] = "error"
  <2>1. Requested[h] = "asked" /\ Requested'[h] = "error"
    BY <1>1, <1>3, RequestLemma
  <2>2. Promise!Move(h, "asked", "error")
    BY <1>1, <2>1, RequestMoves
  <2>3. QED BY <1>1, <2>2 DEF Promise!Next, Promise!Refuse
<1>4. CASE Changed(h) /\ Successful(h)'
  <2>1. Requested[h] = "changed" /\ Requested'[h] = "ok"
    BY <1>1, <1>4, RequestLemma DEF Changed, Successful
  <2>2. Promise!Move(h, "changed", "ok")
    BY <1>1, <2>1, RequestMoves
  <2>3. QED BY <1>1, <2>2 DEF Promise!Next, Promise!Succeed
<1>5. CASE Changed(h) /\ Failed(h)' /\ str.words \cap {"BAD PASSWORD", "unchanged"} # {}
  <2>1. Requested[h] = "changed" /\ Requested'[h] = "error"
    BY <1>1, <1>5, RequestLemma DEF Changed, Failed
  <2>2. Promise!Move(h, "changed", "error") /\ overlapped
    BY <1>1, <1>5, <2>1, RequestMoves, QuietLemma
  <2>3. QED BY <1>1, <2>2 DEF history, Promise!Next, Promise!Misreport
<1>6. CASE Started(h)
  <2>1. Started(h)' \/ Authenticating(h)' \/ Stuck(h)'
    <3>1. /\ ~Authentic(h) /\ ~Denied(h) /\ ~Refused(h)
          /\ ~Changed(h) /\ ~Failed(h) /\ ~Successful(h)
      BY <1>6 DEF Started, At, Authentic, Denied, Refused, Changed, Failed, Successful
    <3>2. \A p \in Passwords : ~Accepted(h, p) /\ ~TooWeak(h, p)
      BY <1>6 DEF Started, At, Accepted, TooWeak
    <3>3. QED BY <1>1, <3>1, <3>2 DEF ReadMoves
  <2>2. QED BY <1>2, <1>6, <2>1 DEF Started, Authenticating, Stuck, Asked
<1>7. CASE \/ /\ Authentic(h) /\ verdict[h] = "asked"
              /\ \/ Authentic(h)' /\ (UNCHANGED verdict \/ verdict'[h] = "error")
                 \/ \E p \in Passwords : Sent(h, p)'
           \/ Denied(h) /\ Denied(h)' /\ (verdict'[h] = verdict[h] \/ verdict'[h] = "error")
  <2>1. ~stored[h] /\ verdict[h] \in {"asked", "error"}
    BY <1>7 DEF Authentic, Denied
  <2>2. \A p \in Passwords : Sent(h, p)' => verdict'[h] = "asked"
    BY DEF Sent, Asked
  <2>3. QED BY <1>2, <1>3, <1>7, <2>1, <2>2
<1>8. CASE \E p \in Passwords : \/ Accepted(h, p) /\ (Accepted(h, p)' \/ Retyped(h, p)')
                                \/ TooWeak(h, p) /\ (TooWeak(h, p)' \/ WeakAgain(h, p)')
  BY <1>2, <1>8 DEF Accepted, Retyped, TooWeak, WeakAgain, Asked
<1>9. CASE Refused(h) /\ (Refused(h)' \/ Failed(h)')
  BY <1>2, <1>3, <1>9 DEF Refused, Failed, Asked
<1>10. CASE \/ Changed(h) /\ Changed(h)'
            \/ Failed(h) /\ Failed(h)'
            \/ Successful(h) /\ Successful(h)'
  BY <1>2, <1>10 DEF Changed, Failed, Successful
<1>11. QED
  BY <1>1, <1>4, <1>5, <1>6, <1>7, <1>8, <1>9, <1>10 DEF ReadMoves

\* The dialogue implements what PasswordChange promises the window: one verdict
\* for each apply, success only after its change and never after a failure.
THEOREM ImplementsPromise == ASSUME NoPassword \notin Accounts PROVE Spec => Implements
<1>1. Init => Promise!Init
  <2>1. Init => Requested = [h \in Handlers |-> "idle"]
    BY DEF Init, Requested
  <2>2. QED BY <2>1 DEF Promise!Init
<1>2. IInv /\ NInv /\ [Next]_vars => [Promise!Next]_(Promise!vars)
  <2> SUFFICES ASSUME IInv, NInv, [Next]_vars PROVE [Promise!Next]_(Promise!vars)
    OBVIOUS
  <2>1. CASE UNCHANGED vars \/ \E p \in Passwords : Edit(p)
    <3>1. UNCHANGED <<account, verdict, stored>>
      BY <2>1 DEF vars, Edit, handler, backend
    <3>2. Requested' = Requested
      BY <3>1 DEF Requested
    <3>3. QED BY <3>1, <3>2 DEF Promise!vars
  <2>2. CASE \E h \in Handlers : Apply(h)
    BY <2>2, ApplyImplements
  <2>3. CASE \E h \in Handlers : ChildExited(h)
    BY <2>3, ExitImplements
  <2>4. CASE \E h \in Handlers : PasswdReads(h)
    BY <2>4, PasswdImplements
  <2>5. ASSUME NEW h \in Handlers, NEW n \in 0..Len(stdout[h]), NEW breaks \in BOOLEAN,
               NEW joins \in Joins(h), Read(h, n, breaks, joins)
        PROVE  [Promise!Next]_(Promise!vars)
    BY <2>5, ReadImplements
  <2>6. QED BY <2>1, <2>2, <2>3, <2>4, <2>5 DEF Next
<1>3. QED BY <1>1, <1>2, SharedInvariant, PTL DEF Spec, Implements, Promise!Spec
=============================================================================

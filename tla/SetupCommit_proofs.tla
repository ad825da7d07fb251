-------------------------- MODULE SetupCommit_proofs --------------------------
(***************************************************************************)
(* Proofs about SetupCommit, for any number of requests, passwords,        *)
(* languages and crashes.                                                  *)
(***************************************************************************)
EXTENDS SetupCommit, TLAPS

\* A request that changed the account leaves a password of the user's there,
\* which nothing later takes away.
ChangedIsChanged ==
    \A h \in Handlers : request[h] \in {"changed", "ok"} => account \in Passwords

IInv == /\ TypeOK
        /\ CompletedMeansChanged
        /\ ChangedIsChanged
        /\ OneSuccessSuffices

\* The initial states are typed, and nothing was requested in them.
LEMMA InitIInv == Init => IInv
<1> SUFFICES ASSUME Init PROVE IInv
  OBVIOUS
<1>1. TypeOK
  <2>1. request \in [Handlers -> Password!Answers]
    BY DEF Init, Password!Init, Password!Answers
  <2>2. page \in Pages /\ pending_commits \in 0..Commits /\ crashes \in 0..MaxCrashes
    BY CommitAssumption DEF Init, Pages, Commits
  <2>3. {overlapped, localed, flag, running} \subseteq BOOLEAN
    BY DEF Init
  <2>4. QED BY <2>1, <2>2, <2>3 DEF Init, TypeOK
<1>2. \A h \in Handlers : request[h] = "idle"
  BY DEF Init, Password!Init
<1>3. QED
  BY <1>1, <1>2 DEF Init, IInv, CompletedMeansChanged, ChangedIsChanged, OneSuccessSuffices

\* Moving one request keeps the requests typed and the others as they are.
LEMMA MoveLemma ==
    ASSUME TypeOK, NEW h \in Handlers, NEW from, NEW to \in Password!Answers,
           Password!Move(h, from, to)
    PROVE  /\ request' \in [Handlers -> Password!Answers]
           /\ request[h] = from /\ request'[h] = to
           /\ \A k \in Handlers : k # h => request'[k] = request[k]
BY DEF TypeOK, Password!Move

\* Finish: the language is committed and the password is asked for or refused,
\* with one commit left to report.
LEMMA FinishLemma ==
    ASSUME IInv, NEW h \in Handlers, Finish(h)
    PROVE  IInv'
<1> USE DEF IInv
<1>1. /\ pending_commits' = 1 /\ flag' = flag /\ running' = running
      /\ account' = account /\ language' = language /\ localed' = localed
      /\ crashes' = crashes /\ locale' \in Languages /\ overlapped' \in BOOLEAN
  BY DEF Finish, commit_language, check_should_exit, Commits, Password!Ask,
         Password!Reject, language_chooser_apply, TypeOK
<1>2. /\ request' \in [Handlers -> Password!Answers]
      /\ request'[h] \in {"asked", "error"}
      /\ \A k \in Handlers : k # h => request'[k] = request[k]
  BY MoveLemma DEF Finish, Password!Ask, Password!Reject, Password!Answers
<1>3. page' \in Pages
  BY DEF Finish, TypeOK, Pages
<1>4. TypeOK'
  BY <1>1, <1>2, <1>3 DEF TypeOK, Commits
<1>5. CompletedMeansChanged' /\ OneSuccessSuffices'
  BY <1>1 DEF CompletedMeansChanged, OneSuccessSuffices
<1>6. ChangedIsChanged'
  BY <1>1, <1>2 DEF ChangedIsChanged
<1>7. QED BY <1>4, <1>5, <1>6

\* The account changes for a request that is asked, or was refused.
LEMMA ChangeLemma ==
    ASSUME IInv, NEW h \in Handlers, Change(h)
    PROVE  IInv'
<1> USE DEF IInv
<1>1. /\ account' \in Passwords
      /\ UNCHANGED <<overlapped, language, localed, locale, pending_commits, page,
                     flag, running, crashes>>
  BY DEF Change, Password!Change, chooser, window
<1>2. /\ request' \in [Handlers -> Password!Answers]
      /\ \A k \in Handlers : request'[k] = request[k]
                             \/ (request[k] = "asked" /\ request'[k] = "changed")
  <2>1. Password!Move(h, "asked", "changed") /\ "changed" \in Password!Answers
    BY DEF Change, Password!Change, Password!Answers
  <2>2. QED BY <2>1, MoveLemma
<1>3. TypeOK'
  BY <1>1, <1>2 DEF TypeOK
<1>4. CompletedMeansChanged' /\ ChangedIsChanged'
  BY <1>1 DEF CompletedMeansChanged, ChangedIsChanged
<1>5. OneSuccessSuffices'
  BY <1>1, <1>2 DEF OneSuccessSuffices
<1>6. QED BY <1>3, <1>4, <1>5

\* A success is the last commit: the setup ends with it.
LEMMA SucceedLemma ==
    ASSUME IInv, NEW h \in Handlers, Succeed(h)
    PROVE  IInv'
<1> USE DEF IInv
<1>1. /\ request' \in [Handlers -> Password!Answers]
      /\ request[h] = "changed" /\ account' = account
  BY MoveLemma DEF Succeed, Password!Succeed, Password!Answers
<1>2. account \in Passwords
  BY <1>1 DEF ChangedIsChanged
<1>3. pending_commits = 1
  BY <1>1 DEF Succeed, OneSuccessSuffices
<1>4. pending_commits' = 0 /\ flag' = FALSE /\ running' = FALSE /\ page' = page
  BY <1>3 DEF Succeed, Answered, check_should_exit
<1>5. UNCHANGED <<overlapped, language, localed, locale, crashes>>
  BY DEF Succeed, chooser
<1>6. TypeOK'
  <2>1. pending_commits' \in 0..Commits
    BY <1>4 DEF Commits
  <2>2. {overlapped', localed', flag', running'} \subseteq BOOLEAN
    BY <1>4, <1>5 DEF TypeOK
  <2>3. QED BY <1>1, <1>4, <1>5, <2>1, <2>2 DEF TypeOK
<1>7. QED
  BY <1>1, <1>2, <1>4, <1>6
     DEF CompletedMeansChanged, ChangedIsChanged, OneSuccessSuffices

\* A failure leaves the count alone, for the requests that are still out.
LEMMA RefuseLemma ==
    ASSUME IInv, NEW h \in Handlers, Refuse(h)
    PROVE  IInv'
<1> USE DEF IInv
<1>1. /\ request' \in [Handlers -> Password!Answers]
      /\ request'[h] = "error"
      /\ \A k \in Handlers : k # h => request'[k] = request[k]
  BY MoveLemma DEF Refuse, Password!Refuse, Password!Misreport, Password!Answers
<1>2. /\ UNCHANGED <<account, overlapped, pending_commits, flag, running, language,
                     localed, locale, crashes>>
      /\ page' = "security"
  BY DEF Refuse, Password!Refuse, Password!Misreport, Answered, chooser
<1>3. TypeOK'
  BY <1>1, <1>2 DEF TypeOK, Pages
<1>4. QED
  BY <1>1, <1>2, <1>3 DEF CompletedMeansChanged, ChangedIsChanged, OneSuccessSuffices

\* Crashes and boots lose what was pending, not what was changed.
LEMMA CrashLemma == ASSUME IInv, Crash PROVE IInv'
<1> USE DEF IInv
<1>1. /\ account' = account \/ account' \in Passwords
      /\ running' = FALSE /\ crashes' \in 0..MaxCrashes
      /\ UNCHANGED <<request, overlapped, language, localed, locale, pending_commits,
                     page, flag>>
  BY CommitAssumption DEF Crash, TypeOK, chooser, window
<1>2. TypeOK'
  BY <1>1 DEF TypeOK
<1>3. QED
  BY <1>1, <1>2 DEF CompletedMeansChanged, ChangedIsChanged, OneSuccessSuffices

LEMMA BootLemma == ASSUME IInv, Boot PROVE IInv'
<1> USE DEF IInv
<1>1. TypeOK'
  <2>1. request' \in [Handlers -> Password!Answers]
    BY DEF Boot, Password!Answers
  <2>2. page' \in Pages /\ pending_commits' \in 0..Commits
    BY DEF Boot, Pages, Commits
  <2>3. {overlapped', localed', flag', running'} \subseteq BOOLEAN
    BY DEF Boot, TypeOK
  <2>4. QED BY <2>1, <2>2, <2>3 DEF Boot, TypeOK
<1>2. \A h \in Handlers : request'[h] = "idle"
  BY DEF Boot
<1>3. QED
  BY <1>1, <1>2 DEF Boot, CompletedMeansChanged, ChangedIsChanged, OneSuccessSuffices

LEMMA NextIInv == IInv /\ [Next]_vars => IInv'
<1> SUFFICES ASSUME IInv, [Next]_vars PROVE IInv'
  OBVIOUS
<1>1. ASSUME UNCHANGED <<service, window, running, crashes>>,
             language' \in Languages, localed' \in BOOLEAN, locale' \in Languages
      PROVE  IInv'
  BY <1>1 DEF service, window, IInv, TypeOK, CompletedMeansChanged, ChangedIsChanged,
              OneSuccessSuffices
<1>2. CASE \E l \in Languages : ChooseLanguage(l)
  BY <1>1, <1>2 DEF ChooseLanguage, IInv, TypeOK
<1>3. CASE LocaledReady
  BY <1>1, <1>3 DEF LocaledReady, IInv, TypeOK
<1>4. CASE UNCHANGED vars
  BY <1>1, <1>4 DEF vars, chooser, IInv, TypeOK
<1>5. CASE \E p \in Pages : Turn(p)
  BY <1>5 DEF Turn, service, chooser, IInv, TypeOK, CompletedMeansChanged,
              ChangedIsChanged, OneSuccessSuffices
<1>6. CASE \E h \in Handlers : Finish(h) \/ Change(h) \/ Succeed(h) \/ Refuse(h)
  BY <1>6, FinishLemma, ChangeLemma, SucceedLemma, RefuseLemma
<1>7. QED
  BY <1>2, <1>3, <1>4, <1>5, <1>6, CrashLemma, BootLemma DEF Next

THEOREM CommitInvariant == Spec => []IInv
<1>1. QED BY InitIInv, NextIInv, PTL DEF Spec

\* The variables stay in their types, for any number of requests and crashes.
THEOREM CommitTypes == Spec => []TypeOK
<1>1. IInv => TypeOK
  BY DEF IInv
<1>2. QED BY <1>1, CommitInvariant, PTL

\* The pending file is removed only when the default password is gone, however
\* often the user finished, failed, or the program died.
THEOREM CompletedMeansChangedHolds == Spec => []CompletedMeansChanged
<1>1. IInv => CompletedMeansChanged
  BY DEF IInv
<1>2. QED BY <1>1, CommitInvariant, PTL

\* While a password request is out, one success is all that is missing.
THEOREM OneSuccessSufficesHolds == Spec => []OneSuccessSuffices
<1>1. IInv => OneSuccessSuffices
  BY DEF IInv
<1>2. QED BY <1>1, CommitInvariant, PTL
=============================================================================

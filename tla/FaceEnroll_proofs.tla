------------------------- MODULE FaceEnroll_proofs --------------------------
(***************************************************************************)
(* Proofs about FaceEnroll, for any number of agents and of overlapping    *)
(* attempts: what the streaming thread and the main loop share.            *)
(***************************************************************************)
EXTENDS FaceEnroll, TLAPS

\* The parts of TypeOK that the handlers touch together.
FlagsOK ==
    /\ {visible, enrolled, overlapped, sheet, has_access, started, start_in_flight,
        submit_enabled} \subseteq BOOLEAN
    /\ camera \in {"none", "stopped", "playing"}
    /\ thread \in {"idle", "sending"}
    /\ main \in {"loop", "joining", "finalizing", "gone"}

AgentsOK ==
    /\ agent \in AgentOrNull /\ path \in AgentOrNull
    /\ {building, leaked, live, made, begun} \subseteq SUBSET Agents

CountsOK ==
    /\ in_flight \in Nat /\ creating \in Nat
    /\ registering \in [AgentOrNull -> Nat]
    /\ starting \in [Agents -> Nat] /\ frames \in [Agents -> Nat]

LEMMA TypeParts == TypeOK <=> FlagsOK /\ AgentsOK /\ CountsOK
BY DEF TypeOK, FlagsOK, AgentsOK, CountsOK

\* A count stays natural when a call is issued or one that is out is answered.
LEMMA CountLemma ==
    ASSUME NEW S, NEW c \in [S -> Nat], NEW k \in S
    PROVE  /\ Plus(c, k) \in [S -> Nat]
           /\ c[k] > 0 => Less(c, k) \in [S -> Nat]
           /\ Plus(c, k)[k] = c[k] + 1 /\ Less(c, k)[k] = c[k] - 1
           /\ \A j \in S : j # k => Plus(c, k)[j] = c[j] /\ Less(c, k)[j] = c[j]
BY DEF Plus, Less

LEMMA InitTypes == Init => TypeOK
<1> SUFFICES ASSUME Init PROVE TypeOK
  OBVIOUS
<1>1. FlagsOK
  BY DEF Init, face_available, FlagsOK
<1>2. AgentsOK
  BY DEF Init, AgentsOK, AgentOrNull
<1>3. CountsOK
  BY DEF Init, CountsOK
<1>4. QED
  BY <1>1, <1>2, <1>3, TypeParts

\* Flags, camera, thread and main loop stay in their domains.
LEMMA FlagsStep == TypeOK /\ [Next]_vars => FlagsOK'
<1> SUFFICES ASSUME FlagsOK, [Next]_vars PROVE FlagsOK'
  BY TypeParts
<1> USE DEF FlagsOK, row, flags, film, close_camera_step, destroy_face_agent
<1>1. CASE OpenEnrolled
  BY <1>1 DEF OpenEnrolled
<1>2. CASE Open
  BY <1>2 DEF Open, Quiet, start_camera, start_camera_fails, ensure_face_agent,
              continue_face_enrollment
<1>3. CASE Cancel
  BY <1>3 DEF Cancel
<1>4. CASE Join
  BY <1>4 DEF Join, Stopped
<1>5. CASE CreateAgentReply
  BY <1>5 DEF CreateAgentReply
<1>6. ASSUME NEW a \in Agents, AgentProxyCreated(a)
      PROVE  FlagsOK'
  BY <1>6 DEF AgentProxyCreated, continue_face_enrollment
<1>7. ASSUME NEW a \in Agents, StartReply(a)
      PROVE  FlagsOK'
  BY <1>7 DEF StartReply
<1>8. ASSUME NEW a \in Agents, FrameReply(a)
      PROVE  FlagsOK'
  BY <1>8 DEF FrameReply
<1>9. ASSUME NEW a \in Agents, NEW access \in BOOLEAN, AccessChanged(a, access)
      PROVE  FlagsOK'
  BY <1>9 DEF AccessChanged, start_pending_enrollment
<1>10. ASSUME NEW a \in AgentOrNull, RegisterReply(a)
       PROVE  FlagsOK'
  BY <1>10 DEF RegisterReply, start_pending_enrollment
<1>11. ASSUME NEW now \in BOOLEAN, FaceEnrolledChanged(now)
       PROVE  FlagsOK'
  BY <1>11 DEF FaceEnrolledChanged
<1>12. CASE CheckFrame \/ SendFrame
  BY <1>12 DEF CheckFrame, SendFrame
<1>13. CASE Finalize \/ FinalizeJoin
  BY <1>13 DEF Finalize, FinalizeJoin
<1>14. CASE UNCHANGED vars
  BY <1>14 DEF vars
<1>15. QED
  BY <1>1, <1>2, <1>3, <1>4, <1>5, <1>6, <1>7, <1>8, <1>9, <1>10, <1>11, <1>12,
     <1>13, <1>14 DEF Next

\* Pointers and sets of agents stay in their domains.
LEMMA AgentsStep == TypeOK /\ [Next]_vars => AgentsOK'
<1> SUFFICES ASSUME AgentsOK, [Next]_vars PROVE AgentsOK'
  BY TypeParts
<1> USE DEF AgentsOK, AgentOrNull, handle, daemon, chain, close_camera_step,
            destroy_face_agent
<1>1. CASE OpenEnrolled
  BY <1>1 DEF OpenEnrolled
<1>2. CASE Open
  BY <1>2 DEF Open
<1>3. CASE Cancel
  BY <1>3 DEF Cancel
<1>4. CASE Join
  BY <1>4 DEF Join
<1>5. CASE CreateAgentReply
  BY <1>5 DEF CreateAgentReply
<1>6. ASSUME NEW a \in Agents, AgentProxyCreated(a)
      PROVE  AgentsOK'
  BY <1>6 DEF AgentProxyCreated
<1>7. ASSUME NEW a \in Agents, StartReply(a)
      PROVE  AgentsOK'
  BY <1>7 DEF StartReply
<1>8. ASSUME NEW a \in Agents, FrameReply(a)
      PROVE  AgentsOK'
  BY <1>8 DEF FrameReply
<1>9. ASSUME NEW a \in Agents, NEW access \in BOOLEAN, AccessChanged(a, access)
      PROVE  AgentsOK'
  BY <1>9 DEF AccessChanged
<1>10. ASSUME NEW a \in AgentOrNull, RegisterReply(a)
       PROVE  AgentsOK'
  BY <1>10 DEF RegisterReply
<1>11. ASSUME NEW now \in BOOLEAN, FaceEnrolledChanged(now)
       PROVE  AgentsOK'
  BY <1>11 DEF FaceEnrolledChanged
<1>12. CASE CheckFrame \/ SendFrame
  BY <1>12 DEF CheckFrame, SendFrame
<1>13. CASE Finalize \/ FinalizeJoin
  BY <1>13 DEF Finalize, FinalizeJoin
<1>14. CASE UNCHANGED vars
  BY <1>14 DEF vars
<1>15. QED
  BY <1>1, <1>2, <1>3, <1>4, <1>5, <1>6, <1>7, <1>8, <1>9, <1>10, <1>11, <1>12,
     <1>13, <1>14 DEF Next

\* Every reply answers a call that is out.
LEMMA CountsStep == TypeOK /\ [Next]_vars => CountsOK'
<1> SUFFICES ASSUME TypeOK, [Next]_vars PROVE CountsOK'
  OBVIOUS
<1>0. CountsOK /\ agent \in AgentOrNull /\ path \in AgentOrNull
  BY TypeParts DEF AgentsOK
<1>a. /\ \A a \in AgentOrNull : Plus(registering, a) \in [AgentOrNull -> Nat]
      /\ \A a \in AgentOrNull :
            registering[a] > 0 => Less(registering, a) \in [AgentOrNull -> Nat]
      /\ \A a \in Agents : Plus(starting, a) \in [Agents -> Nat]
      /\ \A a \in Agents : starting[a] > 0 => Less(starting, a) \in [Agents -> Nat]
      /\ \A a \in Agents : Plus(frames, a) \in [Agents -> Nat]
      /\ \A a \in Agents : frames[a] > 0 => Less(frames, a) \in [Agents -> Nat]
  BY <1>0, CountLemma DEF CountsOK
<1>b. agent # NoAgent => agent \in Agents
  BY <1>0 DEF AgentOrNull
<1> USE DEF CountsOK, film, chain
<1>1. CASE OpenEnrolled
  BY <1>0, <1>1 DEF OpenEnrolled
<1>2. CASE Open
  BY <1>0, <1>a, <1>2 DEF Open, ensure_face_agent, continue_face_enrollment
<1>3. CASE Cancel
  BY <1>0, <1>3 DEF Cancel
<1>4. CASE Join
  BY <1>0, <1>4 DEF Join
<1>5. CASE CreateAgentReply
  BY <1>0, <1>5 DEF CreateAgentReply
<1>6. ASSUME NEW a \in Agents, AgentProxyCreated(a)
      PROVE  CountsOK'
  BY <1>0, <1>a, <1>6 DEF AgentProxyCreated, continue_face_enrollment
<1>7. ASSUME NEW a \in Agents, StartReply(a)
      PROVE  CountsOK'
  BY <1>0, <1>a, <1>7 DEF StartReply
<1>8. ASSUME NEW a \in Agents, FrameReply(a)
      PROVE  CountsOK'
  BY <1>0, <1>a, <1>8 DEF FrameReply
<1>9. ASSUME NEW a \in Agents, NEW access \in BOOLEAN, AccessChanged(a, access)
      PROVE  CountsOK'
  BY <1>0, <1>a, <1>b, <1>9 DEF AccessChanged, start_pending_enrollment
<1>10. ASSUME NEW a \in AgentOrNull, RegisterReply(a)
       PROVE  CountsOK'
  BY <1>0, <1>a, <1>b, <1>10 DEF RegisterReply, start_pending_enrollment
<1>11. ASSUME NEW now \in BOOLEAN, FaceEnrolledChanged(now)
       PROVE  CountsOK'
  BY <1>0, <1>11 DEF FaceEnrolledChanged
<1>12. CASE CheckFrame \/ SendFrame
  BY <1>0, <1>a, <1>b, <1>12 DEF CheckFrame, SendFrame
<1>13. CASE Finalize \/ FinalizeJoin
  BY <1>0, <1>13 DEF Finalize, FinalizeJoin
<1>14. CASE UNCHANGED vars
  BY <1>0, <1>14 DEF vars
<1>15. QED
  BY <1>1, <1>2, <1>3, <1>4, <1>5, <1>6, <1>7, <1>8, <1>9, <1>10, <1>11, <1>12,
     <1>13, <1>14 DEF Next

\* The variables stay in their types, for any agents and overlapping attempts.
THEOREM FaceTypes == Spec => []TypeOK
<1>1. TypeOK /\ [Next]_vars => TypeOK'
  BY FlagsStep, AgentsStep, CountsStep, TypeParts DEF TypeOK, FlagsOK, AgentsOK, CountsOK
<1>2. QED
  BY <1>1, InitTypes, PTL DEF Spec

-----------------------------------------------------------------------------
(* The streaming thread.                                                   *)

\* While a frame is being handed over none is out: the count was zero when the
\* thread looked, and only the thread adds to it.
SendsAlone == thread = "sending" => in_flight = 0

\* Frames that are out are out alone.
SoleFrame(a) ==
    /\ frames[a] = 1 /\ in_flight = 1 /\ thread = "idle"
    /\ \A b \in Agents \ {a} : frames[b] = 0

\* The inductive invariant.  OneFrameAtATime alone says nothing about a thread
\* between its last test and its call.
FilmInv == FilmedOnlyWhileOpen /\ OneFrameAtATime /\ SendsAlone

\* Handlers that leave the film to the thread keep the frames apart.
LEMMA FilmAside ==
    ASSUME FilmInv, UNCHANGED <<thread, in_flight, frames>>
    PROVE  OneFrameAtATime' /\ SendsAlone'
BY DEF FilmInv, OneFrameAtATime, SendsAlone

LEMMA FrameReplyLemma ==
    ASSUME TypeOK, FilmInv, NEW a \in Agents, FrameReply(a)
    PROVE  OneFrameAtATime' /\ SendsAlone'
<1>1. SoleFrame(a)
  BY DEF FilmInv, OneFrameAtATime, FrameReply, SoleFrame
<1>2. \A b \in Agents : frames'[b] = 0
  BY <1>1, CountLemma DEF SoleFrame, FrameReply, TypeOK
<1>3. thread' = "idle"
  BY <1>1 DEF SoleFrame, FrameReply
<1>4. QED
  BY <1>2, <1>3 DEF OneFrameAtATime, SendsAlone

LEMMA SendFrameLemma ==
    ASSUME TypeOK, FilmInv, SendFrame
    PROVE  OneFrameAtATime' /\ SendsAlone'
<1>1. thread' = "idle" /\ in_flight = 0
  BY DEF SendFrame, FilmInv, SendsAlone
<1>2. \A b \in Agents : frames[b] = 0
  BY <1>1 DEF FilmInv, OneFrameAtATime, TypeOK
<1>3. CASE UNCHANGED frames
  BY <1>1, <1>2, <1>3 DEF OneFrameAtATime, SendsAlone
<1>4. CASE in_flight' = in_flight + 1 /\ agent # NoAgent /\ frames' = Plus(frames, agent)
  <2>1. agent \in Agents
    BY <1>4 DEF TypeOK, AgentOrNull
  <2>2. frames'[agent] = 1 /\ \A b \in Agents : b # agent => frames'[b] = 0
    BY <1>2, <1>4, <2>1, CountLemma DEF TypeOK
  <2>3. in_flight' = 1
    BY <1>1, <1>4
  <2>4. QED
    BY <1>1, <2>1, <2>2, <2>3 DEF OneFrameAtATime, SendsAlone
<1>5. QED
  BY <1>3, <1>4 DEF SendFrame

\* The camera and the thread are only left running with the sheet open.
LEMMA OpenStep == TypeOK /\ FilmedOnlyWhileOpen /\ [Next]_vars => FilmedOnlyWhileOpen'
<1> SUFFICES ASSUME TypeOK, FilmedOnlyWhileOpen, [Next]_vars
             PROVE  FilmedOnlyWhileOpen'
  OBVIOUS
<1> USE DEF FilmedOnlyWhileOpen, film
<1>1. CASE OpenEnrolled
  BY <1>1 DEF OpenEnrolled
<1>2. CASE Open
  BY <1>2 DEF Open, TypeOK
<1>3. CASE Cancel
  BY <1>3 DEF Cancel
<1>4. CASE Join
  BY <1>4 DEF Join, Stopped
<1>5. CASE CreateAgentReply
  BY <1>5 DEF CreateAgentReply
<1>6. ASSUME NEW a \in Agents, AgentProxyCreated(a) \/ StartReply(a) \/ FrameReply(a)
      PROVE  FilmedOnlyWhileOpen'
  BY <1>6 DEF AgentProxyCreated, StartReply, FrameReply
<1>7. ASSUME NEW a \in Agents, NEW access \in BOOLEAN, AccessChanged(a, access)
      PROVE  FilmedOnlyWhileOpen'
  BY <1>7 DEF AccessChanged
<1>8. ASSUME NEW a \in AgentOrNull, RegisterReply(a)
      PROVE  FilmedOnlyWhileOpen'
  BY <1>8 DEF RegisterReply
<1>9. ASSUME NEW now \in BOOLEAN, FaceEnrolledChanged(now)
      PROVE  FilmedOnlyWhileOpen'
  BY <1>9 DEF FaceEnrolledChanged
<1>10. CASE CheckFrame \/ SendFrame
  BY <1>10 DEF CheckFrame, NewSample, SendFrame
<1>11. CASE Finalize \/ FinalizeJoin
  BY <1>11 DEF Finalize, FinalizeJoin
<1>12. CASE UNCHANGED vars
  BY <1>12 DEF vars
<1>13. QED
  BY <1>1, <1>2, <1>3, <1>4, <1>5, <1>6, <1>7, <1>8, <1>9, <1>10, <1>11, <1>12
     DEF Next

\* The thread and the main loop share the count of frames without a lock.
LEMMA FrameStep == TypeOK /\ FilmInv /\ [Next]_vars => OneFrameAtATime' /\ SendsAlone'
<1> SUFFICES ASSUME TypeOK, FilmInv, [Next]_vars
             PROVE  OneFrameAtATime' /\ SendsAlone'
  OBVIOUS
<1> DEFINE Aside == UNCHANGED <<thread, in_flight, frames>>
<1>1. CASE \E a \in Agents : FrameReply(a)
  BY <1>1, FrameReplyLemma
<1>2. CASE SendFrame
  BY <1>2, SendFrameLemma
<1>3. CASE CheckFrame
  <2>1. in_flight = 0 /\ UNCHANGED <<in_flight, frames>>
    BY <1>3 DEF CheckFrame
  <2>2. \A b \in Agents : frames'[b] = 0
    BY <2>1 DEF FilmInv, OneFrameAtATime, TypeOK
  <2>3. QED
    BY <2>1, <2>2 DEF OneFrameAtATime, SendsAlone
<1>4. CASE OpenEnrolled \/ Open \/ Cancel \/ Join \/ CreateAgentReply \/ Finalize \/ FinalizeJoin
  <2>1. Aside
    BY <1>4 DEF OpenEnrolled, Open, Cancel, Join, CreateAgentReply, Finalize,
                FinalizeJoin, film
  <2>2. QED
    BY <2>1, FilmAside
<1>5. ASSUME NEW a \in Agents, AgentProxyCreated(a) \/ StartReply(a)
      PROVE  OneFrameAtATime' /\ SendsAlone'
  <2>1. Aside
    BY <1>5 DEF AgentProxyCreated, StartReply, film
  <2>2. QED
    BY <2>1, FilmAside
<1>6. ASSUME NEW a \in Agents, NEW access \in BOOLEAN, AccessChanged(a, access)
      PROVE  OneFrameAtATime' /\ SendsAlone'
  <2>1. Aside
    BY <1>6 DEF AccessChanged, film
  <2>2. QED
    BY <2>1, FilmAside
<1>7. ASSUME NEW a \in AgentOrNull, RegisterReply(a)
      PROVE  OneFrameAtATime' /\ SendsAlone'
  <2>1. Aside
    BY <1>7 DEF RegisterReply, film
  <2>2. QED
    BY <2>1, FilmAside
<1>8. ASSUME NEW now \in BOOLEAN, FaceEnrolledChanged(now)
      PROVE  OneFrameAtATime' /\ SendsAlone'
  <2>1. Aside
    BY <1>8 DEF FaceEnrolledChanged, film
  <2>2. QED
    BY <2>1, FilmAside
<1>9. CASE UNCHANGED vars
  BY <1>9, FilmAside DEF vars, film
<1>10. QED
  BY <1>1, <1>2, <1>3, <1>4, <1>5, <1>6, <1>7, <1>8, <1>9 DEF Next

THEOREM FilmInvariant == Spec => [](TypeOK /\ FilmInv)
<1>1. Init => FilmInv
  BY DEF Init, FilmInv, FilmedOnlyWhileOpen, OneFrameAtATime, SendsAlone
<1>2. TypeOK /\ FilmInv /\ [Next]_vars => FilmInv'
  BY OpenStep, FrameStep DEF FilmInv
<1>3. QED
  BY <1>1, <1>2, FaceTypes, PTL DEF Spec

\* Nobody is filmed, and no sample handled, with the sheet closed, however many
\* attempts are opened, cancelled and answered late.
THEOREM FilmedOnlyWhileOpenHolds == Spec => []FilmedOnlyWhileOpen
<1>1. FilmInv => FilmedOnlyWhileOpen
  BY DEF FilmInv
<1>2. QED BY <1>1, FilmInvariant, PTL

\* One frame is out at a time, and the count written by both threads is never
\* written by both at once.
THEOREM OneFrameAtATimeHolds == Spec => []OneFrameAtATime
<1>1. FilmInv => OneFrameAtATime
  BY DEF FilmInv
<1>2. QED BY <1>1, FilmInvariant, PTL

-----------------------------------------------------------------------------
(* One attempt at a time: no sheet was opened while a call was out.        *)

\* While CreateAgent is out there is no agent to lose.
OneCreation ==
    creating > 0 => creating = 1 /\ agent = NoAgent /\ path = NoAgent /\ building = {}

\* While a proxy is built there is none; its path is there, or was cleared.
OneProxy ==
    \A a \in building : building = {a} /\ agent = NoAgent /\ path \in {a, NoAgent}

\* A path without a proxy waits for it, or for the sheet to close.
PathGetsProxy ==
    path # NoAgent /\ agent = NoAgent => building = {path} \/ main = "joining"

\* A proxy without a path came after the sheet was closed: it is registered
\* nowhere, and the failure of that clears it.
ProxyHasPath ==
    agent # NoAgent => \/ path = agent
                       \/ path = NoAgent /\ (registering[NoAgent] > 0 \/ main = "joining")

KnownAgent == live \subseteq {path}

HandleInv == OneCreation /\ OneProxy /\ PathGetsProxy /\ ProxyHasPath /\ KnownAgent

\* Nobody is told to start but the agent of the open sheet, which has begun when
\* the sheet says so.
StartsOwn == \A a \in Agents : starting[a] > 0 /\ sheet => agent = a

BegunOwn == sheet /\ started => agent \in begun

StartInv == StartsOwn /\ BegunOwn

Proxied == thread = "sending" /\ main # "finalizing" => agent # NoAgent

AttemptInv == ~overlapped => HandleInv /\ StartInv /\ Proxied

\* What an attempt that overlaps no other starts from.
LEMMA OpenAlone ==
    ASSUME TypeOK, AttemptInv, Open, ~overlapped'
    PROVE  /\ ~overlapped /\ Quiet /\ main = "loop" /\ HandleInv /\ building = {}
           /\ agent = NoAgent <=> path = NoAgent
           /\ agent # NoAgent => path = agent
<1>1. ~overlapped /\ Quiet /\ main = "loop" /\ HandleInv
  BY DEF Open, CanOpen, AttemptInv
<1>2. creating = 0 /\ building = {} /\ ~(registering[NoAgent] > 0)
  BY <1>1 DEF Quiet, AgentOrNull
<1>3. QED
  BY <1>1, <1>2 DEF HandleInv, PathGetsProxy, ProxyHasPath

\* Leaving what the daemon was asked for alone keeps what is known of it.
LEMMA HandleAside ==
    ASSUME HandleInv, UNCHANGED <<creating, building, agent, path, live>>,
           main' = main \/ main' = "joining",
           main = "joining" => main' = "joining",
           registering'[NoAgent] = registering[NoAgent] \/ main' = "joining"
    PROVE  HandleInv'
BY DEF HandleInv, OneCreation, OneProxy, PathGetsProxy, ProxyHasPath, KnownAgent

\* Destroying the agent, whatever is still out.
LEMMA HandleDestroyed ==
    ASSUME HandleInv, destroy_face_agent, UNCHANGED <<creating, building>>
    PROVE  HandleInv'
BY DEF HandleInv, OneCreation, OneProxy, PathGetsProxy, ProxyHasPath, KnownAgent,
       destroy_face_agent

LEMMA HandleOpen ==
    ASSUME TypeOK, AttemptInv, Open, ~overlapped'
    PROVE  HandleInv'
<1>1. /\ Quiet /\ main = "loop" /\ HandleInv /\ building = {}
      /\ agent = NoAgent <=> path = NoAgent
      /\ agent # NoAgent => path = agent
  BY OpenAlone
<1>2. creating = 0
  BY <1>1 DEF Quiet
<1>3. UNCHANGED <<agent, path, leaked, live, building>>
  BY DEF Open, handle
<1>4. creating' = creating \/ (creating' = creating + 1 /\ (agent = NoAgent \/ path = NoAgent))
  BY DEF Open, ensure_face_agent
<1>5. creating' > 0 => creating' = 1 /\ agent = NoAgent /\ path = NoAgent
  BY <1>1, <1>2, <1>4
<1>6. QED
  BY <1>1, <1>3, <1>5
     DEF HandleInv, OneCreation, OneProxy, PathGetsProxy, ProxyHasPath, KnownAgent

LEMMA HandleCreated ==
    ASSUME TypeOK, HandleInv, CreateAgentReply
    PROVE  HandleInv'
<1>1. /\ creating = 1 /\ agent = NoAgent /\ path = NoAgent /\ building = {}
      /\ creating' = 0 /\ live \subseteq {NoAgent} /\ live \subseteq Agents
  BY DEF CreateAgentReply, HandleInv, OneCreation, KnownAgent, TypeOK
<1>2. live = {}
  BY <1>1, AgentAssumption
<1>3. ASSUME NEW a \in Agents \ made, live' = live \cup {a}, path' = a,
             building' = building \cup {a}, agent' = agent
      PROVE  HandleInv'
  BY <1>1, <1>2, <1>3
     DEF HandleInv, OneCreation, OneProxy, PathGetsProxy, ProxyHasPath, KnownAgent
<1>4. CASE close_camera_step /\ UNCHANGED building
  BY <1>1, <1>2, <1>4
     DEF close_camera_step, handle, HandleInv, OneCreation, OneProxy, PathGetsProxy,
         ProxyHasPath, KnownAgent
<1>5. QED
  BY <1>3, <1>4 DEF CreateAgentReply

LEMMA HandleProxied ==
    ASSUME TypeOK, HandleInv, NEW a \in Agents, AgentProxyCreated(a)
    PROVE  HandleInv'
<1>1. /\ building = {a} /\ agent = NoAgent /\ path \in {a, NoAgent} /\ building' = {}
      /\ creating \in Nat /\ ~(creating > 0)
      /\ UNCHANGED <<path, creating, live>>
  BY DEF AgentProxyCreated, HandleInv, OneProxy, OneCreation, TypeOK, daemon
<1>2. CASE agent' = a /\ continue_face_enrollment
  <2>1. path = NoAgent => registering'[NoAgent] > 0
    <3>1. registering \in [AgentOrNull -> Nat] /\ NoAgent \in AgentOrNull
      BY DEF TypeOK, AgentOrNull
    <3>2. QED
      BY <1>2, <3>1, CountLemma DEF continue_face_enrollment
  <2>2. QED
    BY <1>1, <1>2, <2>1, AgentAssumption
       DEF HandleInv, OneCreation, OneProxy, PathGetsProxy, ProxyHasPath, KnownAgent
<1>3. CASE agent' = NoAgent /\ main' = "joining"
  BY <1>1, <1>3
     DEF HandleInv, OneCreation, OneProxy, PathGetsProxy, ProxyHasPath, KnownAgent
<1>4. QED
  BY <1>2, <1>3 DEF AgentProxyCreated

LEMMA HandleStep ==
    ASSUME TypeOK, AttemptInv, [Next]_vars, ~overlapped, ~overlapped'
    PROVE  HandleInv'
<1>0. HandleInv
  BY DEF AttemptInv
<1> USE DEF row, flags, handle, film, chain, daemon
<1>1. CASE OpenEnrolled \/ CheckFrame \/ SendFrame \/ UNCHANGED vars
  BY <1>0, <1>1, HandleAside DEF OpenEnrolled, CheckFrame, SendFrame, vars
<1>2. CASE Open
  BY <1>2, HandleOpen
<1>3. CASE Cancel
  BY <1>0, <1>3, HandleAside DEF Cancel, close_camera_step
<1>4. CASE Join \/ Finalize
  BY <1>0, <1>4, HandleDestroyed DEF Join, Finalize
<1>5. CASE CreateAgentReply
  BY <1>0, <1>5, HandleCreated
<1>6. ASSUME NEW a \in Agents, AgentProxyCreated(a)
      PROVE  HandleInv'
  BY <1>0, <1>6, HandleProxied
<1>7. ASSUME NEW a \in Agents, StartReply(a) \/ FrameReply(a)
      PROVE  HandleInv'
  BY <1>0, <1>7, HandleAside DEF StartReply, FrameReply, close_camera_step
<1>8. ASSUME NEW a \in Agents, NEW access \in BOOLEAN, AccessChanged(a, access)
      PROVE  HandleInv'
  BY <1>0, <1>8, HandleAside DEF AccessChanged
<1>9. ASSUME NEW a \in AgentOrNull, RegisterReply(a)
      PROVE  HandleInv'
  <2>1. a # NoAgent => registering'[NoAgent] = registering[NoAgent]
    <3>1. registering \in [AgentOrNull -> Nat] /\ NoAgent \in AgentOrNull
      BY DEF TypeOK, AgentOrNull
    <3>2. QED
      BY <1>9, <3>1, CountLemma DEF RegisterReply
  <2>2. /\ UNCHANGED <<creating, building, agent, path, live>>
        /\ main = "loop" /\ (main' = "joining" \/ (a # NoAgent /\ main' = main))
    BY <1>9 DEF RegisterReply, close_camera_step
  <2>3. QED
    BY <1>0, <2>1, <2>2, HandleAside
<1>10. ASSUME NEW now \in BOOLEAN, FaceEnrolledChanged(now)
       PROVE  HandleInv'
  BY <1>0, <1>10, HandleAside DEF FaceEnrolledChanged, close_camera_step
<1>11. CASE FinalizeJoin
  BY <1>0, <1>11
     DEF FinalizeJoin, HandleInv, OneCreation, OneProxy, PathGetsProxy, ProxyHasPath,
         KnownAgent
<1>12. QED
  BY <1>1, <1>2, <1>3, <1>4, <1>5, <1>6, <1>7, <1>8, <1>9, <1>10, <1>11 DEF Next

\* Every way to close the sheet, or to begin to, forgets that it had started.
LEMMA StartClosed ==
    ASSUME StartInv, close_camera_step, UNCHANGED <<sheet, starting>>
    PROVE  StartInv'
BY DEF StartInv, StartsOwn, BegunOwn, close_camera_step, handle

LEMMA StartAsked ==
    ASSUME TypeOK, StartInv, start_pending_enrollment,
           UNCHANGED <<sheet, agent, started, begun>>
    PROVE  StartInv'
<1>1. CASE agent # NoAgent /\ starting' = Plus(starting, agent)
  <2>1. agent \in Agents
    BY <1>1 DEF TypeOK, AgentOrNull
  <2>2. \A a \in Agents : a # agent => starting'[a] = starting[a]
    BY <1>1, <2>1, CountLemma DEF TypeOK
  <2>3. QED
    BY <2>2 DEF StartInv, StartsOwn, BegunOwn
<1>2. CASE UNCHANGED starting
  BY <1>2 DEF StartInv, StartsOwn, BegunOwn
<1>3. QED
  BY <1>1, <1>2 DEF start_pending_enrollment

LEMMA StartReplied ==
    ASSUME TypeOK, StartInv, NEW a \in Agents, StartReply(a)
    PROVE  StartInv'
<1>1. /\ starting[a] > 0 /\ sheet' = sheet
      /\ \A b \in Agents : starting'[b] > 0 => starting[b] > 0
  <2>1. starting \in [Agents -> Nat] /\ starting' = Less(starting, a)
    BY DEF StartReply, TypeOK
  <2>2. /\ \A b \in Agents : b # a => Less(starting, a)[b] = starting[b]
    BY <2>1, CountLemma
  <2>3. QED
    BY <2>1, <2>2 DEF StartReply
<1>2. CASE begun' = begun \cup {a} /\ UNCHANGED handle
  BY <1>1, <1>2 DEF StartInv, StartsOwn, BegunOwn, handle
<1>3. CASE close_camera_step
  BY <1>1, <1>3 DEF StartInv, StartsOwn, BegunOwn, close_camera_step, handle
<1>4. QED
  BY <1>2, <1>3 DEF StartReply

LEMMA StartStep ==
    ASSUME TypeOK, AttemptInv, [Next]_vars, ~overlapped, ~overlapped'
    PROVE  StartInv'
<1>0. HandleInv /\ StartInv
  BY DEF AttemptInv
<1> USE DEF row, flags, handle, film, chain, daemon
<1>a. ASSUME UNCHANGED <<sheet, agent, started, begun, starting>>
      PROVE  StartInv'
  BY <1>0, <1>a DEF StartInv, StartsOwn, BegunOwn
<1>b. ASSUME ~started', UNCHANGED <<sheet, agent, starting>>
      PROVE  StartInv'
  BY <1>0, <1>b DEF StartInv, StartsOwn, BegunOwn
<1>c. ASSUME ~started', ~sheet'
      PROVE  StartInv'
  BY <1>c DEF StartInv, StartsOwn, BegunOwn
<1>1. CASE OpenEnrolled \/ CheckFrame \/ SendFrame \/ UNCHANGED vars
  BY <1>a, <1>1 DEF OpenEnrolled, CheckFrame, SendFrame, vars
<1>2. CASE Open
  <2>1. Quiet
    BY <1>2, OpenAlone
  <2>2. ~started' /\ starting' = starting /\ \A a \in Agents : starting[a] = 0
    BY <1>2, <2>1 DEF Open, Quiet, ensure_face_agent, continue_face_enrollment
  <2>3. QED
    BY <2>2 DEF StartInv, StartsOwn, BegunOwn
<1>3. CASE Cancel
  BY <1>0, <1>3, StartClosed DEF Cancel
<1>4. CASE Join
  BY <1>c, <1>4 DEF Join, destroy_face_agent
<1>5. CASE CreateAgentReply
  BY <1>a, <1>b, <1>5 DEF CreateAgentReply, close_camera_step
<1>6. ASSUME NEW a \in Agents, AgentProxyCreated(a)
      PROVE  StartInv'
  <2>1. agent = NoAgent /\ a \in building
    BY <1>0, <1>6 DEF AgentProxyCreated, HandleInv, OneProxy
  <2>2. \A b \in Agents : ~(starting[b] > 0 /\ sheet)
    BY <1>0, <2>1, AgentAssumption DEF StartInv, StartsOwn
  <2>3. ~started' /\ UNCHANGED <<sheet, starting>>
    BY <1>6 DEF AgentProxyCreated, continue_face_enrollment
  <2>4. QED
    BY <2>2, <2>3 DEF StartInv, StartsOwn, BegunOwn
<1>7. ASSUME NEW a \in Agents, StartReply(a)
      PROVE  StartInv'
  BY <1>0, <1>7, StartReplied
<1>8. ASSUME NEW a \in Agents, FrameReply(a)
      PROVE  StartInv'
  BY <1>a, <1>8 DEF FrameReply
<1>9. ASSUME NEW a \in Agents, NEW access \in BOOLEAN, AccessChanged(a, access)
      PROVE  StartInv'
  BY <1>0, <1>a, <1>9, StartAsked DEF AccessChanged
<1>10. ASSUME NEW a \in AgentOrNull, RegisterReply(a)
       PROVE  StartInv'
  BY <1>0, <1>a, <1>10, StartAsked, StartClosed DEF RegisterReply
<1>11. ASSUME NEW now \in BOOLEAN, FaceEnrolledChanged(now)
       PROVE  StartInv'
  BY <1>0, <1>a, <1>11, StartClosed DEF FaceEnrolledChanged
<1>12. CASE Finalize
  <2>1. ~started' /\ starting' = starting /\ \A a \in Agents : starting[a] = 0
    BY <1>12 DEF Finalize, destroy_face_agent
  <2>2. QED
    BY <2>1 DEF StartInv, StartsOwn, BegunOwn
<1>13. CASE FinalizeJoin
  BY <1>0, <1>13 DEF FinalizeJoin, StartInv, StartsOwn, BegunOwn
<1>14. QED
  BY <1>1, <1>2, <1>3, <1>4, <1>5, <1>6, <1>7, <1>8, <1>9, <1>10, <1>11, <1>12,
     <1>13 DEF Next

\* A thread that saw a proxy keeps the main loop from clearing it until it is done.
LEMMA ProxiedStep ==
    ASSUME AttemptInv, [Next]_vars, ~overlapped
    PROVE  Proxied'
<1>0. HandleInv /\ Proxied
  BY DEF AttemptInv
<1> USE DEF row, flags, handle, film, chain, daemon
<1>a. ASSUME UNCHANGED <<agent, thread>>, main # "finalizing"
      PROVE  Proxied'
  BY <1>0, <1>a DEF Proxied
<1>1. CASE OpenEnrolled \/ Open \/ Cancel
  BY <1>a, <1>1 DEF OpenEnrolled, Open, CanOpen, Cancel, close_camera_step
<1>2. CASE Join \/ FinalizeJoin \/ SendFrame
  BY <1>2 DEF Join, FinalizeJoin, SendFrame, Proxied
<1>3. CASE CreateAgentReply
  BY <1>a, <1>3 DEF CreateAgentReply, close_camera_step
<1>4. ASSUME NEW a \in Agents, AgentProxyCreated(a)
      PROVE  Proxied'
  BY <1>0, <1>4 DEF AgentProxyCreated, HandleInv, OneProxy, Proxied
<1>5. ASSUME NEW a \in Agents, StartReply(a) \/ FrameReply(a)
      PROVE  Proxied'
  BY <1>a, <1>5 DEF StartReply, FrameReply, close_camera_step
<1>6. ASSUME NEW a \in Agents, NEW access \in BOOLEAN, AccessChanged(a, access)
      PROVE  Proxied'
  BY <1>a, <1>6 DEF AccessChanged
<1>7. ASSUME NEW a \in AgentOrNull, RegisterReply(a)
      PROVE  Proxied'
  BY <1>a, <1>7 DEF RegisterReply, close_camera_step
<1>8. ASSUME NEW now \in BOOLEAN, FaceEnrolledChanged(now)
      PROVE  Proxied'
  BY <1>a, <1>8 DEF FaceEnrolledChanged, close_camera_step
<1>9. CASE CheckFrame
  BY <1>9 DEF CheckFrame, Proxied
<1>10. CASE Finalize
  BY <1>10 DEF Finalize, Proxied
<1>11. CASE UNCHANGED vars
  BY <1>0, <1>11 DEF vars, Proxied
<1>12. QED
  BY <1>1, <1>2, <1>3, <1>4, <1>5, <1>6, <1>7, <1>8, <1>9, <1>10, <1>11 DEF Next

\* An attempt that overlapped another stays one.
LEMMA OverlapStays == TypeOK /\ [Next]_vars /\ overlapped => overlapped'
BY DEF TypeOK, Next, vars, OpenEnrolled, Open, Cancel, Join, CreateAgentReply,
       AgentProxyCreated, StartReply, FrameReply, AccessChanged, RegisterReply,
       FaceEnrolledChanged, CheckFrame, SendFrame, Finalize, FinalizeJoin, row

LEMMA InitAttempt == Init => AttemptInv
<1> SUFFICES ASSUME Init PROVE HandleInv /\ StartInv /\ Proxied
  BY DEF AttemptInv
<1> QED
  BY DEF Init, HandleInv, OneCreation, OneProxy, PathGetsProxy, ProxyHasPath, KnownAgent,
         StartInv, StartsOwn, BegunOwn, Proxied

THEOREM AttemptInvariant == Spec => [](TypeOK /\ AttemptInv)
<1>1. TypeOK /\ AttemptInv /\ [Next]_vars => AttemptInv'
  BY OverlapStays, HandleStep, StartStep, ProxiedStep DEF AttemptInv
<1>2. QED
  BY <1>1, InitAttempt, FaceTypes, PTL DEF Spec

\* An enrolment the open sheet takes for started was started at its own agent.
THEOREM StartedIsTrueHolds == Spec => []StartedIsTrue
<1>1. AttemptInv => StartedIsTrue
  BY DEF AttemptInv, StartInv, BegunOwn, StartedIsTrue
<1>2. QED BY <1>1, AttemptInvariant, PTL

\* The daemon keeps no agent whose path the page has lost.
THEOREM NoAgentForgottenHolds == Spec => []NoAgentForgotten
<1>1. AttemptInv => NoAgentForgotten
  BY DEF AttemptInv, HandleInv, KnownAgent, NoAgentForgotten
<1>2. QED BY <1>1, AttemptInvariant, PTL

\* A frame is handed to a proxy that is still there, though the thread takes no
\* lock between its tests and the call.
THEOREM ThreadHasProxyHolds == Spec => []ThreadHasProxy
<1>1. AttemptInv => ThreadHasProxy
  BY DEF AttemptInv, Proxied, ThreadHasProxy
<1>2. QED BY <1>1, AttemptInvariant, PTL
=============================================================================

----------------------------- MODULE FaceEnroll -----------------------------
(***************************************************************************)
(* Face enrolment (pt-security-settings-face.c): a sheet with the camera   *)
(* picture, a chain of asynchronous calls to the biometric daemon (create  *)
(* an agent, build its proxy, register it, start), and a streaming thread  *)
(* of GStreamer that hands frames to the agent.                            *)
(*                                                                         *)
(* An action is one dispatch of the main loop, or a step of the streaming  *)
(* thread.  main = "joining" is the main loop inside                       *)
(* gst_element_set_state (NULL), which returns when no sample is being     *)
(* handled any more.  The callbacks do not know which attempt their call   *)
(* belongs to, so what is in flight is counted, not tied to the sheet.     *)
(***************************************************************************)
EXTENDS Naturals

CONSTANTS
    Agents,      \* enrolment agents the daemon can create
    NoAgent,     \* the NULL pointer
    MaxCreating  \* bound: CreateAgent calls in flight

AgentOrNull == Agents \cup {NoAgent}

ASSUME AgentAssumption == NoAgent \notin Agents
ASSUME BoundAssumption == MaxCreating \in Nat

VARIABLES
    \* PtSecuritySettingsPrivate (face_agent_proxy, face_agent_path, ...)
    visible, enrolled, sheet, agent, path,
    has_access, started, start_in_flight, submit_enabled, in_flight,
    \* the pipeline, the thread that runs on_new_sample, the main loop
    camera, thread, main,
    \* calls in flight, and proxies whose pointer was overwritten
    creating, building, registering, starting, frames, leaked,
    \* the daemon: agents that exist, existed, and have begun an enrolment
    live, made, begun,
    \* history: the sheet was opened while a call of an earlier attempt was out
    overlapped

row    == <<visible, enrolled, overlapped>>
flags  == <<has_access, started, start_in_flight, submit_enabled>>
handle == <<agent, path, leaked>>
film   == <<camera, thread, in_flight, frames>>
chain  == <<creating, building, registering, starting>>
daemon == <<live, made, begun>>

vars == <<row, sheet, flags, handle, film, main, chain, daemon>>

Less(c, k) == [c EXCEPT ![k] = @ - 1]
Plus(c, k) == [c EXCEPT ![k] = @ + 1]

-----------------------------------------------------------------------------
(* Opening and closing the sheet.                                          *)

\* pt_security_settings_face_available: the row is hidden when a ping, a proxy or
\* the implementation type is missing, and the property is read only when not.
face_available ==
    /\ visible \in BOOLEAN /\ enrolled \in BOOLEAN
    /\ enrolled => visible

\* pt_security_settings_init; the daemon can be reached.
Init ==
    /\ face_available
    /\ sheet = FALSE
    /\ agent = NoAgent /\ path = NoAgent /\ leaked = {}
    /\ has_access = FALSE /\ started = FALSE
    /\ start_in_flight = FALSE /\ submit_enabled = FALSE
    /\ camera = "none" /\ thread = "idle" /\ in_flight = 0
    /\ main = "loop"
    /\ creating = 0 /\ building = {}
    /\ registering = [a \in AgentOrNull |-> 0]
    /\ starting = [a \in Agents |-> 0] /\ frames = [a \in Agents |-> 0]
    /\ live = {} /\ made = {} /\ begun = {} /\ overlapped = FALSE

\* destroy_face_agent: the daemon is told, the pointers are cleared.
destroy_face_agent_Kept ==
    /\ submit_enabled' = FALSE /\ started' = FALSE
    /\ start_in_flight' = FALSE /\ has_access' = FALSE
    /\ agent' = NoAgent /\ path' = NoAgent
    /\ UNCHANGED <<live, leaked>>

destroy_face_agent ==
    /\ submit_enabled' = FALSE /\ started' = FALSE
    /\ start_in_flight' = FALSE /\ has_access' = FALSE
    /\ agent' = NoAgent /\ path' = NoAgent
    /\ live' = live \ {path}
    /\ UNCHANGED leaked

close_camera_step_DestroysFirst ==
    /\ main' = "joining"
    /\ destroy_face_agent

\* close_camera_step up to the state change of the pipeline, which Join ends.
close_camera_step ==
    /\ main' = "joining"
    /\ submit_enabled' = FALSE /\ started' = FALSE /\ start_in_flight' = FALSE
    /\ UNCHANGED <<has_access, handle, live>>

Stopped == IF camera = "playing" THEN "stopped" ELSE camera

Join_NoWait ==
    /\ main = "joining"
    /\ main' = "loop" /\ sheet' = FALSE /\ camera' = Stopped
    /\ destroy_face_agent
    /\ UNCHANGED <<row, thread, in_flight, frames, chain, made, begun>>

\* The rest of close_camera_step, once no sample is being handled.
Join ==
    /\ main = "joining" /\ thread = "idle"
    /\ main' = "loop" /\ sheet' = FALSE /\ camera' = Stopped
    /\ destroy_face_agent
    /\ UNCHANGED <<row, thread, in_flight, frames, chain, made, begun>>

\* continue_face_enrollment of proxy a
continue_face_enrollment ==
    /\ started' = FALSE /\ start_in_flight' = FALSE /\ submit_enabled' = FALSE
    /\ registering' = Plus(registering, path)

\* ensure_face_agent, with the flags as on_face_enroll_clicked reset them.
ensure_face_agent ==
    \/ /\ agent # NoAgent /\ path # NoAgent
       /\ continue_face_enrollment
       /\ UNCHANGED creating
    \/ /\ agent = NoAgent \/ path = NoAgent
       /\ creating < MaxCreating
       /\ creating' = creating + 1
       /\ started' = FALSE /\ start_in_flight' = FALSE /\ submit_enabled' = FALSE
       /\ UNCHANGED registering

\* No call of an earlier attempt can still be answered.
Quiet ==
    /\ creating = 0 /\ building = {}
    /\ \A a \in AgentOrNull : registering[a] = 0
    /\ \A a \in Agents : starting[a] = 0 /\ frames[a] = 0

\* A click on the row, register_face: the sheet is modal, so it is closed then.
CanOpen ==
    /\ main = "loop" /\ ~sheet /\ visible /\ ~enrolled

\* on_face_enroll_clicked when the daemon says a face is enrolled already.
OpenEnrolled ==
    /\ CanOpen
    /\ enrolled' = TRUE
    /\ UNCHANGED <<visible, overlapped, sheet, flags, handle, film, main, chain,
                   daemon>>

Open_KeepsFlags ==
    /\ CanOpen
    /\ sheet' = TRUE
    /\ camera' = "playing" /\ creating < MaxCreating
    /\ creating' = creating + 1
    /\ overlapped' = (overlapped \/ ~Quiet)
    /\ UNCHANGED <<visible, enrolled, flags, handle, thread, in_flight, frames,
                   main, building, registering, starting, daemon>>

\* start_camera makes the pipeline when there is none, which can fail.
start_camera == camera' = "playing"

start_camera_fails == camera = "none" /\ UNCHANGED camera

\* on_face_enroll_clicked
Open ==
    /\ CanOpen
    /\ sheet' = TRUE
    /\ overlapped' = (overlapped \/ ~Quiet)
    /\ \/ /\ start_camera
          /\ has_access' = FALSE
          /\ ensure_face_agent
          /\ UNCHANGED <<main, handle, live>>
       \/ /\ start_camera_fails
          /\ main' = "joining"
          /\ has_access' = FALSE /\ started' = FALSE
          /\ start_in_flight' = FALSE /\ submit_enabled' = FALSE
          /\ UNCHANGED <<creating, registering, handle, live>>
    /\ UNCHANGED <<visible, enrolled, thread, in_flight, frames, building, starting,
                   made, begun>>

\* on_face_cancel_clicked.  Every opening connects the handler once more; what
\* it does a second time changes nothing.
Cancel ==
    /\ main = "loop" /\ sheet
    /\ close_camera_step
    /\ UNCHANGED <<row, sheet, film, chain, made, begun>>

-----------------------------------------------------------------------------
(* The chain of calls.  A failed call closes whatever attempt is open.     *)

\* create_agent_cb
CreateAgentReply ==
    /\ main = "loop" /\ creating > 0
    /\ creating' = creating - 1
    /\ \/ \E a \in Agents \ made :
             /\ live' = live \cup {a} /\ made' = made \cup {a}
             /\ path' = a
             /\ building' = building \cup {a}
             /\ has_access' = FALSE
             /\ UNCHANGED <<main, agent, leaked, started, start_in_flight,
                            submit_enabled>>
       \/ /\ close_camera_step
          /\ UNCHANGED <<building, made>>
    /\ UNCHANGED <<row, sheet, film, registering, starting, begun>>

\* agent_proxy_created_cb: the pointer is overwritten, whatever it held.
AgentProxyCreated(a) ==
    /\ main = "loop" /\ a \in building
    /\ building' = building \ {a}
    /\ leaked' = leaked \cup ({agent} \ {NoAgent})
    /\ \/ /\ agent' = a
          /\ continue_face_enrollment
          /\ UNCHANGED <<main, has_access>>
       \/ /\ agent' = NoAgent
          /\ main' = "joining"
          /\ submit_enabled' = FALSE /\ started' = FALSE /\ start_in_flight' = FALSE
          /\ UNCHANGED <<has_access, registering>>
    /\ UNCHANGED <<row, sheet, path, film, creating, starting, daemon>>

\* start_pending_enrollment, its caller having seen that there is access.
start_pending_enrollment ==
    IF agent # NoAgent /\ ~started /\ ~start_in_flight
    THEN /\ start_in_flight' = TRUE
         /\ starting' = Plus(starting, agent)
    ELSE UNCHANGED <<start_in_flight, starting>>

\* register_agent_cb.  Without a path the call cannot be understood.
RegisterReply(a) ==
    /\ main = "loop" /\ registering[a] > 0
    /\ registering' = Less(registering, a)
    /\ \/ /\ a # NoAgent
          /\ IF has_access THEN start_pending_enrollment
                           ELSE UNCHANGED <<start_in_flight, starting>>
          /\ UNCHANGED <<main, has_access, started, submit_enabled, handle, live>>
       \/ /\ a # NoAgent           \* "already registered"
          /\ UNCHANGED <<main, flags, starting, handle, live>>
       \/ /\ close_camera_step
          /\ UNCHANGED starting
    /\ UNCHANGED <<row, sheet, film, creating, building, made, begun>>

\* start_enrollment_cb
StartReply(a) ==
    /\ main = "loop" /\ starting[a] > 0
    /\ starting' = Less(starting, a)
    /\ \/ /\ start_in_flight' = FALSE
          /\ started' = TRUE /\ submit_enabled' = TRUE
          /\ begun' = begun \cup {a}
          /\ UNCHANGED <<main, has_access, handle, live>>
       \/ /\ close_camera_step
          /\ UNCHANGED begun
    /\ UNCHANGED <<row, sheet, film, creating, building, registering, made>>

-----------------------------------------------------------------------------
(* Signals of the daemon.                                                  *)

\* A proxy hears its agent while something holds a reference to it: the
\* pointer, a leak, or a call in flight.
Connected ==
    ({agent} \ {NoAgent}) \cup leaked
        \cup {a \in Agents : starting[a] > 0 \/ frames[a] > 0}

\* on_agent_signal: whichever agent spoke, the flags are those of the sheet.
AccessChanged(a, access) ==
    /\ main = "loop" /\ a \in Connected
    /\ has_access' = access
    /\ IF access THEN start_pending_enrollment
                 ELSE UNCHANGED <<start_in_flight, starting>>
    /\ UNCHANGED <<row, sheet, started, submit_enabled, handle, film, main,
                   creating, building, registering, daemon>>

\* on_face_signal, FaceEnrolledChanged: the row is shown, the sheet closed.
FaceEnrolledChanged(now) ==
    /\ main = "loop"
    /\ enrolled' = now /\ visible' = (visible \/ now)
    /\ \/ /\ now
          /\ close_camera_step
       \/ /\ ~now
          /\ UNCHANGED <<main, flags, handle, live>>
    /\ UNCHANGED <<overlapped, sheet, film, chain, made, begun>>

-----------------------------------------------------------------------------
(* The streaming thread.                                                   *)

\* on_new_sample: a playing pipeline hands over one sample after the other, and
\* submit_frame gets those that carry a picture.
NewSample == thread = "idle" /\ camera = "playing"

CheckFrame_AnyNumber ==
    /\ NewSample
    /\ submit_enabled /\ started /\ has_access /\ agent # NoAgent
    /\ thread' = "sending"
    /\ UNCHANGED <<row, sheet, flags, handle, camera, in_flight, frames, main,
                   chain, daemon>>

\* submit_frame up to the last early return; a sample that does not pass the
\* tests, or comes too soon, leaves no trace.
CheckFrame ==
    /\ NewSample
    /\ submit_enabled /\ started /\ has_access /\ agent # NoAgent
    /\ in_flight = 0
    /\ thread' = "sending"
    /\ UNCHANGED <<row, sheet, flags, handle, camera, in_flight, frames, main,
                   chain, daemon>>

SendFrame_Sync ==
    /\ thread = "sending" /\ main = "loop"
    /\ thread' = "idle"
    /\ in_flight' = in_flight + 1
    /\ frames' = IF agent = NoAgent THEN frames ELSE Plus(frames, agent)
    /\ UNCHANGED <<row, sheet, flags, handle, camera, main, chain, daemon>>

\* The end of submit_frame: the count, then the call on the proxy as it is now;
\* or nothing, when the file of the frame could not be made.
SendFrame ==
    /\ thread = "sending"
    /\ thread' = "idle"
    /\ \/ /\ in_flight' = in_flight + 1
          /\ frames' = IF agent = NoAgent THEN frames ELSE Plus(frames, agent)
       \/ UNCHANGED <<in_flight, frames>>
    /\ UNCHANGED <<row, sheet, flags, handle, camera, main, chain, daemon>>

\* submit_frame_cb
FrameReply(a) ==
    /\ main = "loop" /\ frames[a] > 0
    /\ frames' = Less(frames, a)
    /\ in_flight' = IF in_flight > 0 THEN in_flight - 1 ELSE in_flight
    /\ UNCHANGED <<row, sheet, flags, handle, camera, thread, main, chain, daemon>>

-----------------------------------------------------------------------------
(* The window goes away.                                                   *)

\* pt_security_settings_face_finalize, while no callback holds a reference.
\* The agent goes before the pipeline stops.
Finalize ==
    /\ main = "loop"
    /\ creating = 0 /\ building = {}
    /\ \A a \in AgentOrNull : registering[a] = 0
    /\ \A a \in Agents : starting[a] = 0
    /\ main' = "finalizing"
    /\ destroy_face_agent
    /\ UNCHANGED <<row, sheet, film, chain, made, begun>>

FinalizeJoin ==
    /\ main = "finalizing" /\ thread = "idle"
    /\ main' = "gone" /\ camera' = "none" /\ sheet' = FALSE
    /\ UNCHANGED <<row, flags, handle, thread, in_flight, frames, chain, daemon>>

-----------------------------------------------------------------------------

Next ==
    \/ OpenEnrolled \/ Open \/ Cancel \/ Join
    \/ CreateAgentReply
    \/ \E a \in Agents : \/ AgentProxyCreated(a) \/ StartReply(a) \/ FrameReply(a)
                         \/ \E access \in BOOLEAN : AccessChanged(a, access)
    \/ \E a \in AgentOrNull : RegisterReply(a)
    \/ \E now \in BOOLEAN : FaceEnrolledChanged(now)
    \/ CheckFrame \/ SendFrame
    \/ Finalize \/ FinalizeJoin

Spec == Init /\ [][Next]_vars

\* GDBus answers every call, the thread and the main loop run, and the daemon
\* hands access to an agent it created and did not destroy.
Fairness ==
    /\ WF_vars(Join) /\ WF_vars(FinalizeJoin) /\ WF_vars(SendFrame)
    /\ WF_vars(CreateAgentReply)
    /\ \A a \in Agents : /\ WF_vars(AgentProxyCreated(a))
                         /\ WF_vars(StartReply(a))
                         /\ WF_vars(a \in live /\ ~has_access /\ AccessChanged(a, TRUE))
    /\ \A a \in AgentOrNull : WF_vars(RegisterReply(a))

FairSpec == Spec /\ Fairness

-----------------------------------------------------------------------------
(* Properties.                                                             *)

\* Every flag, pointer, count and set of the page stays in its type.
TypeOK ==
    /\ {visible, enrolled, overlapped, sheet, has_access, started, start_in_flight,
        submit_enabled} \subseteq BOOLEAN
    /\ agent \in AgentOrNull /\ path \in AgentOrNull
    /\ camera \in {"none", "stopped", "playing"}
    /\ thread \in {"idle", "sending"}
    /\ main \in {"loop", "joining", "finalizing", "gone"}
    /\ in_flight \in Nat /\ creating \in Nat
    /\ {building, leaked, live, made, begun} \subseteq SUBSET Agents
    /\ registering \in [AgentOrNull -> Nat]
    /\ starting \in [Agents -> Nat] /\ frames \in [Agents -> Nat]

\* The camera runs, and the streaming thread handles a sample, only while the
\* sheet that shows the picture is open, however attempts and replies overlap.
FilmedOnlyWhileOpen == camera = "playing" \/ thread # "idle" => sheet

\* At most one SubmitFrame call is out, over all agents, and the count that the
\* thread and the main loop both write knows of it; so the two never write it
\* at the same time.
OneFrameAtATime ==
    \A a \in Agents : frames[a] > 0 =>
        /\ frames[a] = 1 /\ in_flight = 1 /\ thread = "idle"
        /\ \A b \in Agents \ {a} : frames[b] = 0

\* face.c:606 "Face enrollment started": what the sheet believes is true of the
\* agent it shows.
StartedIsTrue ==
    main = "loop" /\ sheet /\ started /\ ~overlapped => agent \in begun

\* Every agent the daemon still has can be destroyed: its path is known.
NoAgentForgotten == ~overlapped => live \subseteq {path}

\* The thread never submits a frame to a proxy that is gone, which would leave
\* the count at one, and the camera without effect, for ever.
ThreadHasProxy ==
    thread = "sending" /\ main # "finalizing" /\ ~overlapped => agent # NoAgent

\* An opened sheet comes to an enrolment of its own agent, or is closed; and
\* closing comes to an end, since the main loop waits for the thread, but the
\* thread never for the main loop.
AttemptConcludes ==
    /\ sheet ~> (started /\ agent \in begun) \/ ~sheet \/ overlapped
    /\ main = "joining" ~> ~sheet
=============================================================================

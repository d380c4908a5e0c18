---------------------------- MODULE ControlPlane ----------------------------
(***************************************************************************)
(* The control-plane thread of the coach (app-coach/src/control_plane.rs)  *)
(* with everything that runs beside it: the head and the OS threads that   *)
(* fill its mailbox, the clock its deadlines are measured on, the capture  *)
(* stream it opens and the data-plane worker it spawns and joins.          *)
(*                                                                         *)
(* A handler of the thread is cut into one action per effect another       *)
(* thread can see: an event pushed to the outbound queue, a publisher      *)
(* stored, the capture dropped, the worker joined.  What happens between   *)
(* two such effects is private to the thread and belongs to one action.    *)
(* `pc' names the next effect and `task' the handler it belongs to.        *)
(*                                                                         *)
(* Data abstracted away: device lists, negotiated formats, error kinds and *)
(* reasons, samples and features (only whether a value is published).      *)
(***************************************************************************)
EXTENDS Integers, Sequences

CONSTANTS
  RETRY_BUDGET,          \* failed reopens a recovery may spend
  ROUTE_DEBOUNCE,        \* ROUTE_DEBOUNCE_MS in clock ticks
  INTERRUPTION_TIMEOUT,  \* INTERRUPTION_TIMEOUT_MS in clock ticks
  Scale,                 \* scales the head may configure
  NoScale,               \* music_info() before the first configure
  HeadCommand,           \* the commands this head uses
  MaxInbox,              \* bound: inputs waiting when a sender adds one
  MaxGen                 \* bound: senders stop once the generation is here

Command == {"Start", "Stop", "Configure", "Query", "PermissionRequest"}

ASSUME RetryBudgetAssumption == RETRY_BUDGET \in Nat \ {0}
ASSUME DeadlineAssumption == /\ ROUTE_DEBOUNCE \in Nat
                             /\ INTERRUPTION_TIMEOUT \in Nat
ASSUME ScaleAssumption == NoScale \notin Scale
ASSUME HeadAssumption == HeadCommand \subseteq Command
ASSUME BoundAssumption == MaxInbox \in Nat /\ MaxGen \in Nat

VARIABLES
  inbox,                 \* mpsc channel of Input, oldest first
  permission,            \* the OS microphone permission, init_status()
  sinks,                 \* generations frozen into lifecycle sinks built so far
  permission_sinks,      \* generations frozen into unanswered permission sinks
  pc, task,              \* where the thread is, and in which handler
  state,                 \* AudioSessionState: private field and last one announced
  generation,
  request,               \* do_start_session's local intent, while it starts
  start_intent,          \* the retained intent that recovery re-runs
  retry_count,
  interruption_timeout,  \* ticks left, 0 when due, NoDeadline when not set
  route_debounce,        \* the same
  capture,               \* generation of the open CaptureSession, or NoCapture
  worker,                \* the data-plane worker thread
  producer,              \* who holds the feature-history producer
  devices,               \* is an AudioDevices handle (an active OS session) held?
  audio_info,            \* is audio_info() Some?
  features,              \* is latest_features() Some?
  node_ports,            \* does the inspect port list an engine's ports?
  music_info,            \* music_info()
  event                  \* the event this step pushed to the outbound queue

os == <<permission, sinks, permission_sinks>>
session == <<state, generation, request, start_intent, retry_count>>
deadlines == <<interruption_timeout, route_debounce>>
datapath == <<capture, worker, producer, devices>>
publishers == <<audio_info, features, node_ports, music_info>>
vars == <<inbox, os, pc, task, session, deadlines, datapath, publishers, event>>

SessionState == {"Idle", "Starting", "Running", "Stopping", "Error"}
DevicePolicy == {"Default", "Specific"}
NoIntent == "None"
NoDeadline == -1
NoCapture == 0
NoEvent == "None"
AudioInitStatus == {"Undetermined", "Denied", "Granted"}
\* MediaServicesReset, PermissionDenied and BackendError get one treatment.
LifecycleEvent ==
  {"Interrupted", "InterruptionEnded", "RouteChanged", "DeviceUnavailable", "Terminal"}

\* Input: `arg' is a device policy, a scale or a lifecycle event; `gen' is the
\* generation a sink froze when it was built.
Input(kind, arg, gen) == [kind |-> kind, arg |-> arg, gen |-> gen]
Inputs ==
  [kind : {"Start"}, arg : DevicePolicy, gen : {0}]
    \union [kind : {"Configure"}, arg : Scale, gen : {0}]
    \union [kind : {"Stop", "Query", "PermissionRequest", "Quit"}, arg : {"-"}, gen : {0}]
    \union [kind : {"PermissionResolved"}, arg : {"-"}, gen : Nat]
    \union [kind : {"Lifecycle"}, arg : LifecycleEvent, gen : Nat]

Event == {NoEvent, "StateChanged", "SessionError", "InterruptionBegan",
          "InterruptionEnded", "MusicConfigured", "Reply"}

Init ==
  /\ inbox = <<>>
  /\ permission \in AudioInitStatus
  /\ sinks = {} /\ permission_sinks = {}
  /\ pc = "recv" /\ task = "none"
  /\ state = "Idle"
  /\ generation = 0
  /\ request = NoIntent /\ start_intent = NoIntent
  /\ retry_count = 0
  /\ interruption_timeout = NoDeadline /\ route_debounce = NoDeadline
  /\ capture = NoCapture /\ worker = "none" /\ producer = "control" /\ devices = FALSE
  /\ audio_info = FALSE /\ features = FALSE /\ node_ports = FALSE
  /\ music_info = NoScale
  /\ event = NoEvent

-----------------------------------------------------------------------------
(* Small steps shared by the handlers.                                     *)

Goto(next, handler) == pc' = next /\ task' = handler

\* transition(): change the state and announce it.  No caller passes the
\* state the session is already in.
Transition(new_state) == state' = new_state /\ event' = "StateChanged"

ClearDeadlines ==
  interruption_timeout' = NoDeadline /\ route_debounce' = NoDeadline

\* Where the loop goes when a handler returns: apply() is followed by
\* service_deadlines(), service_deadlines() by the next receive.
Return == Goto(IF task = "route" THEN "recv" ELSE "service", "none")

\* Mutant of CanReconcile: the intent alone decides.
CanReconcileInAnyState == start_intent # NoIntent

\* reconcile(), up to its first effect: only a live session that has an intent.
CanReconcile == state \in {"Running", "Starting"} /\ start_intent # NoIntent

BeginReconcile(handler) ==
  /\ audio_info' = FALSE
  /\ Goto("stopping", handler)

-----------------------------------------------------------------------------
(* The run loop takes one input at a time.                                 *)

Receive(kind) ==
  /\ pc = "recv"
  /\ inbox # <<>>
  /\ Head(inbox).kind = kind
  /\ inbox' = Tail(inbox)

\* Mutant of Ignore: the loop services deadlines only when the receive times out.
IgnoreSkipsService(answer) ==
  /\ Goto("recv", "none")
  /\ event' = answer
  /\ UNCHANGED <<os, session, deadlines, datapath, publishers>>

\* The input changes nothing; at most it is answered.
Ignore(answer) ==
  /\ Goto("service", "none")
  /\ event' = answer
  /\ UNCHANGED <<os, session, deadlines, datapath, publishers>>

(* do_start_session.                                                       *)

\* Up to the Starting announcement: a new generation, no deadline or retry
\* left over, and a refusal when permission is not granted.
AcceptStart ==
  /\ Receive("Start")
  /\ state = "Idle"
  /\ generation' = generation + 1
  /\ ClearDeadlines
  /\ retry_count' = 0
  /\ Transition("Starting")
  /\ IF permission = "Granted"
     THEN request' = Head(inbox).arg /\ Goto("activate", "start")
     ELSE request' = NoIntent /\ Goto("fail_clear", "start")
  /\ UNCHANGED <<os, start_intent, datapath, publishers>>

IgnoreStart == Receive("Start") /\ state # "Idle" /\ Ignore(NoEvent)

(* do_stop_session.                                                        *)

\* Mutant of StopLive: the deadlines survive the stop.
StopLiveKeepsDeadlines ==
  /\ Receive("Stop")
  /\ state \in {"Running", "Starting"}
  /\ generation' = generation + 1
  /\ start_intent' = NoIntent
  /\ retry_count' = 0
  /\ audio_info' = FALSE
  /\ Goto("stopping", "stop")
  /\ event' = NoEvent
  /\ UNCHANGED <<os, state, request, deadlines, datapath, features, node_ports, music_info>>

\* A live session: from here nothing may revive it.
StopLive ==
  /\ Receive("Stop")
  /\ state \in {"Running", "Starting"}
  /\ generation' = generation + 1
  /\ start_intent' = NoIntent
  /\ ClearDeadlines
  /\ retry_count' = 0
  /\ audio_info' = FALSE
  /\ Goto("stopping", "stop")
  /\ event' = NoEvent
  /\ UNCHANGED <<os, state, request, datapath, features, node_ports, music_info>>

\* Mutant of StopError: a stop does nothing in Error.
StopErrorIgnored == Receive("Stop") /\ state = "Error" /\ Ignore(NoEvent)

\* Error: clean up once more and go to Idle.
StopError ==
  /\ Receive("Stop")
  /\ state = "Error"
  /\ start_intent' = NoIntent
  /\ ClearDeadlines
  /\ retry_count' = 0
  /\ Goto("drop_capture", "reset")
  /\ event' = NoEvent
  /\ UNCHANGED <<os, state, generation, request, datapath, publishers>>

IgnoreStop == Receive("Stop") /\ state \in {"Idle", "Stopping"} /\ Ignore(NoEvent)

(* The other commands.                                                     *)

\* do_configure_session publishes the snapshot, then the event.
Configure ==
  /\ Receive("Configure")
  /\ music_info' = Head(inbox).arg
  /\ Goto("announce_music", "none")
  /\ event' = NoEvent
  /\ UNCHANGED <<os, session, deadlines, datapath, audio_info, features, node_ports>>

AnnounceMusic ==
  /\ pc = "announce_music"
  /\ Goto("service", "none")
  /\ event' = "MusicConfigured"
  /\ UNCHANGED <<inbox, os, session, deadlines, datapath, publishers>>

\* AudioListDevices, MusicListScales and AudioPermissionQuery read and reply.
AnswerQuery == Receive("Query") /\ Ignore("Reply")

\* AudioPermissionRequest: the driver gets a sink that froze this generation.
RequestPermission ==
  /\ Receive("PermissionRequest")
  /\ permission_sinks' = permission_sinks \union {generation}
  /\ Goto("service", "none")
  /\ event' = NoEvent
  /\ UNCHANGED <<permission, sinks, session, deadlines, datapath, publishers>>

\* A stale resolution is dropped, a current one re-reads the status and replies.
PermissionResolved ==
  /\ Receive("PermissionResolved")
  /\ Ignore(IF Head(inbox).gen = generation THEN "Reply" ELSE NoEvent)

(* do_lifecycle: the generation gate, then the event.                      *)

StaleLifecycle ==
  /\ Receive("Lifecycle")
  /\ Head(inbox).gen # generation
  /\ Ignore(NoEvent)

ReceiveLifecycle(e) ==
  /\ Receive("Lifecycle")
  /\ Head(inbox).gen = generation
  /\ Head(inbox).arg = e

\* on_interrupted; the generation stays, so that the paired end gets through.
Interrupted ==
  /\ ReceiveLifecycle("Interrupted")
  /\ \/ /\ state = "Running"
        /\ audio_info' = FALSE
        /\ Goto("stopping", "interrupted")
        /\ event' = NoEvent
        /\ UNCHANGED <<os, session, deadlines, datapath, features, node_ports, music_info>>
     \/ state # "Running" /\ Ignore(NoEvent)

\* on_interruption_ended, in whatever state.
InterruptionEnded ==
  /\ ReceiveLifecycle("InterruptionEnded")
  /\ interruption_timeout' = NoDeadline
  /\ Goto("service", "none")
  /\ event' = "InterruptionEnded"
  /\ UNCHANGED <<os, session, route_debounce, datapath, publishers>>

\* arm_route_debounce: each change restarts the window.
RouteChanged ==
  /\ ReceiveLifecycle("RouteChanged")
  /\ \/ /\ state = "Running"
        /\ route_debounce' = ROUTE_DEBOUNCE
        /\ Goto("service", "none")
        /\ event' = NoEvent
        /\ UNCHANGED <<os, session, interruption_timeout, datapath, publishers>>
     \/ state # "Running" /\ Ignore(NoEvent)

\* The default device is gone: select again, where there is a live session.
DefaultDeviceLost ==
  /\ ReceiveLifecycle("DeviceUnavailable")
  /\ start_intent = "Default"
  /\ \/ /\ CanReconcile
        /\ BeginReconcile("reopen")
        /\ event' = NoEvent
        /\ UNCHANGED <<os, session, deadlines, datapath, features, node_ports, music_info>>
     \/ ~CanReconcile /\ Ignore(NoEvent)

\* fail_lifecycle: a terminal event, or the loss of a device asked for by id.
FailLifecycle ==
  /\ \/ ReceiveLifecycle("Terminal")
     \/ ReceiveLifecycle("DeviceUnavailable") /\ start_intent # "Default"
  /\ \/ /\ state \notin {"Error", "Idle"}
        /\ generation' = generation + 1
        /\ Goto("drop_capture", "fail")
        /\ event' = NoEvent
        /\ UNCHANGED <<os, state, request, start_intent, retry_count, deadlines,
                       datapath, publishers>>
     \/ state \in {"Error", "Idle"} /\ Ignore(NoEvent)

\* service_deadlines, after every input and on every timeout of the receive.
\* A due interruption timeout is only forgotten.
ServiceDeadlines ==
  /\ pc = "service" \/ (pc = "recv" /\ inbox = <<>>)
  /\ interruption_timeout' = IF interruption_timeout = 0 THEN NoDeadline
                                                         ELSE interruption_timeout
  /\ route_debounce' = IF route_debounce = 0 THEN NoDeadline ELSE route_debounce
  /\ IF route_debounce = 0 /\ CanReconcile
     THEN BeginReconcile("route")
     ELSE Goto("recv", "none") /\ UNCHANGED audio_info
  /\ event' = NoEvent
  /\ UNCHANGED <<inbox, os, session, datapath, features, node_ports, music_info>>

-----------------------------------------------------------------------------
(* bring_up_capture, for a start or for each attempt of a recovery.        *)

\* The caller's answer to BringUpError: a start gives up; a recovery gives up
\* when its budget is spent and else tries again under a new generation.
AttemptFailed ==
  \/ /\ task = "start" \/ retry_count + 1 >= RETRY_BUDGET
     /\ pc' = "fail_clear"
     /\ UNCHANGED generation
     /\ retry_count' = IF task = "start" THEN retry_count ELSE retry_count + 1
  \/ /\ task # "start" /\ retry_count + 1 < RETRY_BUDGET
     /\ pc' = "activate"
     /\ generation' = generation + 1
     /\ retry_count' = retry_count + 1

\* new_devices, resolve_stream_from, negotiate: all succeed ...
Activate ==
  /\ pc = "activate"
  /\ permission = "Granted"
  /\ devices' = TRUE
  /\ pc' = "spawn"
  /\ event' = NoEvent
  /\ UNCHANGED <<inbox, os, task, session, deadlines, capture, worker, producer, publishers>>

\* ... or one fails and the devices handle, if any, is dropped.
ActivateFails ==
  /\ pc = "activate"
  /\ AttemptFailed
  /\ event' = NoEvent
  /\ UNCHANGED <<inbox, os, task, state, request, start_intent, deadlines, datapath, publishers>>

\* DataPlane::start: the worker takes the feature producer.
Spawn ==
  /\ pc = "spawn"
  /\ producer = "control"
  /\ producer' = "worker" /\ worker' = "building"
  /\ pc' = "open"
  /\ event' = NoEvent
  /\ UNCHANGED <<inbox, os, task, session, deadlines, capture, devices, publishers>>

\* No producer to give away, or no thread to give it to.
SpawnFails ==
  /\ pc = "spawn"
  /\ devices' = FALSE
  /\ AttemptFailed
  /\ event' = NoEvent
  /\ UNCHANGED <<inbox, os, task, state, request, start_intent, deadlines,
                 capture, worker, producer, publishers>>

\* Mutant of OpenSucceeds: the sink was built before the generation was bumped.
OpenSucceedsWithOldSink ==
  /\ pc = "open"
  /\ capture' = generation - 1
  /\ sinks' = sinks \union {generation - 1}
  /\ pc' = "opened"
  /\ event' = NoEvent
  /\ UNCHANGED <<inbox, permission, permission_sinks, task, session, deadlines,
                 worker, producer, devices, publishers>>

\* The stream is live, its sink holds the current generation.
OpenSucceeds ==
  /\ pc = "open"
  /\ capture' = generation
  /\ sinks' = sinks \union {generation}
  /\ pc' = "opened"
  /\ event' = NoEvent
  /\ UNCHANGED <<inbox, permission, permission_sinks, task, session, deadlines,
                 worker, producer, devices, publishers>>

OpenFails ==
  /\ pc = "open"
  /\ pc' = "open_failed"
  /\ event' = NoEvent
  /\ UNCHANGED <<inbox, os, task, session, deadlines, datapath, publishers>>

\* Mutant of AbandonAttempt: the producer is dropped with the worker.
AbandonAttemptLosesProducer ==
  /\ pc = "open_failed"
  /\ worker = "exited"
  /\ worker' = "none" /\ devices' = FALSE
  /\ AttemptFailed
  /\ event' = NoEvent
  /\ UNCHANGED <<inbox, os, task, state, request, start_intent, deadlines, capture,
                 producer, publishers>>

\* The join of the worker spawned for a stream that did not open.
AbandonAttempt ==
  /\ pc = "open_failed"
  /\ worker = "exited"
  /\ worker' = "none" /\ producer' = "control" /\ devices' = FALSE
  /\ AttemptFailed
  /\ event' = NoEvent
  /\ UNCHANGED <<inbox, os, task, state, request, start_intent, deadlines, capture, publishers>>

\* audio_info is stored before the announcement, for whoever reacts to it.
PublishInfo ==
  /\ pc = "opened"
  /\ audio_info' = TRUE
  /\ pc' = "announce"
  /\ event' = NoEvent
  /\ UNCHANGED <<inbox, os, task, session, deadlines, datapath, features, node_ports, music_info>>

\* Mutant of AnnounceRunning: a recovery leaves its retries counted.
AnnounceRunningKeepsRetries ==
  /\ pc = "announce"
  /\ Transition("Running")
  /\ retry_count' = retry_count
  /\ start_intent' = IF task = "start" THEN request ELSE start_intent
  /\ request' = NoIntent
  /\ Return
  /\ UNCHANGED <<inbox, os, generation, deadlines, datapath, publishers>>

\* Running; the caller resets the budget, and a start retains its intent.
AnnounceRunning ==
  /\ pc = "announce"
  /\ Transition("Running")
  /\ retry_count' = 0
  /\ start_intent' = IF task = "start" THEN request ELSE start_intent
  /\ request' = NoIntent
  /\ Return
  /\ UNCHANGED <<inbox, os, generation, deadlines, datapath, publishers>>

-----------------------------------------------------------------------------
(* Leaving: teardown_data_path and what each handler does around it.       *)

AnnounceStopping ==
  /\ pc = "stopping"
  /\ Transition("Stopping")
  /\ pc' = "drop_capture"
  /\ UNCHANGED <<inbox, os, task, generation, request, start_intent, retry_count,
                 deadlines, datapath, publishers>>

\* Mutant of DropCapture: the session stays in its Option.
DropCaptureKeepsStream ==
  /\ pc = "drop_capture"
  /\ pc' = "join_worker"
  /\ event' = NoEvent
  /\ UNCHANGED <<inbox, os, task, session, deadlines, datapath, publishers>>

DropCapture ==
  /\ pc = "drop_capture"
  /\ capture' = NoCapture
  /\ pc' = "join_worker"
  /\ event' = NoEvent
  /\ UNCHANGED <<inbox, os, task, session, deadlines, worker, producer, devices, publishers>>

\* DataPlane::stop, if there is one; shutdown discards the producer.
JoinWorker ==
  /\ pc = "join_worker"
  /\ \/ worker = "none" /\ UNCHANGED <<worker, producer>>
     \/ /\ worker = "exited"
        /\ worker' = "none"
        /\ producer' = IF task = "quit" THEN "gone" ELSE "control"
  /\ pc' = "clear"
  /\ event' = NoEvent
  /\ UNCHANGED <<inbox, os, task, session, deadlines, capture, devices, publishers>>

\* Mutant of ClearPublishers: latest_features() keeps its last value.
ClearPublishersKeepsFeatures ==
  /\ pc = "clear"
  /\ task # "quit"
  /\ devices' = FALSE /\ node_ports' = FALSE
  /\ \/ task \in {"stop", "interrupted", "reset"} /\ pc' = "idle"
     \/ task \in {"reopen", "route"} /\ pc' = "restart"
     \/ task = "fail" /\ pc' = "fail_clear"
  /\ event' = NoEvent
  /\ UNCHANGED <<inbox, os, task, session, deadlines, capture, worker, producer,
                 audio_info, features, music_info>>

ClearPublishers ==
  /\ pc = "clear"
  /\ task # "quit"
  /\ devices' = FALSE /\ features' = FALSE /\ node_ports' = FALSE
  /\ \/ task \in {"stop", "interrupted", "reset"} /\ pc' = "idle"
     \/ task \in {"reopen", "route"} /\ pc' = "restart"
     \/ task = "fail" /\ pc' = "fail_clear"
  /\ event' = NoEvent
  /\ UNCHANGED <<inbox, os, task, session, deadlines, capture, worker, producer,
                 audio_info, music_info>>

\* Mutant of AnnounceIdle: an interruption leaves the debounce armed.
AnnounceIdleKeepsDebounce ==
  /\ pc = "idle"
  /\ Transition("Idle")
  /\ IF task = "interrupted"
     THEN /\ interruption_timeout' = INTERRUPTION_TIMEOUT
          /\ Goto("signal_began", "interrupted")
          /\ UNCHANGED route_debounce
     ELSE Return /\ UNCHANGED deadlines
  /\ UNCHANGED <<inbox, os, generation, request, start_intent, retry_count, datapath, publishers>>

\* A stop ends here; an interruption drops a pending debounce and arms its own
\* deadline before it signals.
AnnounceIdle ==
  /\ pc = "idle"
  /\ Transition("Idle")
  /\ IF task = "interrupted"
     THEN /\ route_debounce' = NoDeadline
          /\ interruption_timeout' = INTERRUPTION_TIMEOUT
          /\ Goto("signal_began", "interrupted")
     ELSE Return /\ UNCHANGED deadlines
  /\ UNCHANGED <<inbox, os, generation, request, start_intent, retry_count, datapath, publishers>>

SignalBegan ==
  /\ pc = "signal_began"
  /\ event' = "InterruptionBegan"
  /\ Return
  /\ UNCHANGED <<inbox, os, session, deadlines, datapath, publishers>>

\* reconcile() after its teardown: a new generation, Starting, first attempt.
Restart ==
  /\ pc = "restart"
  /\ generation' = generation + 1
  /\ Transition("Starting")
  /\ pc' = "activate"
  /\ UNCHANGED <<inbox, os, task, request, start_intent, retry_count, deadlines,
                 datapath, publishers>>

\* Mutant of FailClear: the failed session's parameters stay published.
FailClearKeepsInfo ==
  /\ pc = "fail_clear"
  /\ IF task = "start"
     THEN UNCHANGED <<start_intent, deadlines>>
     ELSE start_intent' = NoIntent /\ ClearDeadlines
  /\ request' = NoIntent
  /\ pc' = "fail_announce"
  /\ event' = NoEvent
  /\ UNCHANGED <<inbox, os, task, state, generation, retry_count, datapath, publishers>>

\* fail(): the info goes before the announcement.  Only a failed start leaves
\* the deadlines and the intent as they were.
FailClear ==
  /\ pc = "fail_clear"
  /\ audio_info' = FALSE
  /\ IF task = "start"
     THEN UNCHANGED <<start_intent, deadlines>>
     ELSE start_intent' = NoIntent /\ ClearDeadlines
  /\ request' = NoIntent
  /\ pc' = "fail_announce"
  /\ event' = NoEvent
  /\ UNCHANGED <<inbox, os, task, state, generation, retry_count, datapath,
                 features, node_ports, music_info>>

AnnounceError ==
  /\ pc = "fail_announce"
  /\ Transition("Error")
  /\ pc' = "fail_report"
  /\ UNCHANGED <<inbox, os, task, generation, request, start_intent, retry_count,
                 deadlines, datapath, publishers>>

ReportError ==
  /\ pc = "fail_report"
  /\ event' = "SessionError"
  /\ Return
  /\ UNCHANGED <<inbox, os, session, deadlines, datapath, publishers>>

\* Quit leaves the loop; the same teardown follows, unannounced.
ReceiveQuit ==
  /\ Receive("Quit")
  /\ Goto("drop_capture", "quit")
  /\ event' = NoEvent
  /\ UNCHANGED <<os, session, deadlines, datapath, publishers>>

\* Mutant of GoDown: shutdown forgets the inspect surface.
GoDownKeepsPorts ==
  /\ pc = "clear"
  /\ task = "quit"
  /\ devices' = FALSE /\ producer' = "gone"
  /\ start_intent' = NoIntent
  /\ ClearDeadlines
  /\ audio_info' = FALSE /\ features' = FALSE
  /\ music_info' = NoScale
  /\ Goto("down", "quit")
  /\ event' = NoEvent
  /\ UNCHANGED <<inbox, os, state, generation, request, retry_count, capture, worker,
                 node_ports>>

GoDown ==
  /\ pc = "clear"
  /\ task = "quit"
  /\ devices' = FALSE /\ producer' = "gone"
  /\ start_intent' = NoIntent
  /\ ClearDeadlines
  /\ audio_info' = FALSE /\ features' = FALSE /\ node_ports' = FALSE
  /\ music_info' = NoScale
  /\ Goto("down", "quit")
  /\ event' = NoEvent
  /\ UNCHANGED <<inbox, os, state, generation, request, retry_count, capture, worker>>

ControlStep ==
  \/ AcceptStart \/ IgnoreStart \/ StopLive \/ StopError \/ IgnoreStop
  \/ Configure \/ AnnounceMusic \/ AnswerQuery \/ RequestPermission \/ PermissionResolved
  \/ StaleLifecycle \/ Interrupted \/ InterruptionEnded \/ RouteChanged
  \/ DefaultDeviceLost \/ FailLifecycle \/ ServiceDeadlines
  \/ Activate \/ ActivateFails \/ Spawn \/ SpawnFails \/ OpenSucceeds \/ OpenFails
  \/ AbandonAttempt \/ PublishInfo \/ AnnounceRunning
  \/ AnnounceStopping \/ DropCapture \/ JoinWorker \/ ClearPublishers
  \/ AnnounceIdle \/ SignalBegan \/ Restart
  \/ FailClear \/ AnnounceError \/ ReportError \/ ReceiveQuit \/ GoDown

-----------------------------------------------------------------------------
(* The worker thread, as far as the control plane and the head can tell.   *)

\* It builds the engine and lists its ports, or returns before or after that.
WorkerBuilds ==
  /\ worker = "building"
  /\ \/ worker' = "running" /\ node_ports' = TRUE
     \/ worker' = "exited" /\ node_ports' \in {node_ports, TRUE}
  /\ event' = NoEvent
  /\ UNCHANGED <<inbox, os, pc, task, session, deadlines, capture, producer, devices,
                 audio_info, features, music_info>>

\* A hop, once the stream has fed the ring; what is left there after the
\* capture is dropped still counts.
WorkerHop ==
  /\ worker = "running"
  /\ pc \notin {"open", "open_failed"}
  /\ features' = TRUE
  /\ event' = NoEvent
  /\ UNCHANGED <<inbox, os, pc, task, session, deadlines, datapath,
                 audio_info, node_ports, music_info>>

\* It sees quit at the head of its loop, or panics; the producer survives both.
WorkerExits ==
  /\ worker = "running"
  /\ worker' = "exited"
  /\ event' = NoEvent
  /\ UNCHANGED <<inbox, os, pc, task, session, deadlines, capture, producer, devices, publishers>>

\* Mutant of QuitRaised: the path of a failed open joins without raising the flag.
QuitRaisedOnStopOnly == pc = "join_worker"

QuitRaised == pc \in {"join_worker", "open_failed"}

-----------------------------------------------------------------------------
(* The head, the operating system and the clock.                           *)

Post(input) == inbox' = Append(inbox, input)

\* Bounds of the model: nobody adds to a full inbox or at the last generation.
CanSend == Len(inbox) < MaxInbox /\ generation < MaxGen

HeadIsUp ==
  /\ pc # "down" /\ task # "quit"
  /\ \A i \in DOMAIN inbox : inbox[i].kind # "Quit"

SendCommand ==
  /\ HeadIsUp /\ CanSend
  /\ \E c \in HeadCommand :
       \E arg \in IF c = "Start" THEN DevicePolicy
                ELSE IF c = "Configure" THEN Scale ELSE {"-"} :
         Post(Input(c, arg, 0))
  /\ event' = NoEvent
  /\ UNCHANGED <<os, pc, task, session, deadlines, datapath, publishers>>

\* AppCoach::shutdown.
SendQuit ==
  /\ HeadIsUp
  /\ Len(inbox) < MaxInbox
  /\ Post(Input("Quit", "-", 0))
  /\ event' = NoEvent
  /\ UNCHANGED <<os, pc, task, session, deadlines, datapath, publishers>>

\* Any sink ever handed to open() may fire at any time, any number of times.
LifecycleFires ==
  /\ pc # "down" /\ CanSend
  /\ \E g \in sinks, e \in LifecycleEvent : Post(Input("Lifecycle", e, g))
  /\ event' = NoEvent
  /\ UNCHANGED <<os, pc, task, session, deadlines, datapath, publishers>>

\* A permission sink fires once.
PermissionFires ==
  /\ pc # "down" /\ CanSend
  /\ \E g \in permission_sinks :
       /\ Post(Input("PermissionResolved", "-", g))
       /\ permission_sinks' = permission_sinks \ {g}
  /\ event' = NoEvent
  /\ UNCHANGED <<permission, sinks, pc, task, session, deadlines, datapath, publishers>>

\* The user answers the dialog, or changes the setting later.
PermissionChanges ==
  /\ permission' \in {"Denied", "Granted"} \ {permission}
  /\ event' = NoEvent
  /\ UNCHANGED <<inbox, sinks, permission_sinks, pc, task, session, deadlines,
                 datapath, publishers>>

\* Mutant of Tick: a deadline keeps counting once it is due.
TickPastDue ==
  /\ interruption_timeout > 0 \/ route_debounce > 0
  /\ interruption_timeout' = interruption_timeout - 1
  /\ route_debounce' = route_debounce - 1
  /\ event' = NoEvent
  /\ UNCHANGED <<inbox, os, pc, task, session, datapath, publishers>>

Tick ==
  LET Pass(deadline) == IF deadline > 0 THEN deadline - 1 ELSE deadline
  IN  /\ interruption_timeout > 0 \/ route_debounce > 0
      /\ interruption_timeout' = Pass(interruption_timeout)
      /\ route_debounce' = Pass(route_debounce)
      /\ event' = NoEvent
      /\ UNCHANGED <<inbox, os, pc, task, session, datapath, publishers>>

Environment ==
  \/ SendCommand \/ SendQuit \/ LifecycleFires \/ PermissionFires
  \/ PermissionChanges \/ Tick

Next == ControlStep \/ WorkerBuilds \/ WorkerHop \/ WorkerExits \/ Environment

\* The thread is scheduled, open() returns, the worker builds its engine and
\* sees the quit flag, and time passes.  Nothing obliges the head or the OS.
Fairness ==
  /\ WF_vars(ControlStep)
  /\ WF_vars(WorkerBuilds)
  /\ WF_vars(QuitRaised /\ WorkerExits)
  /\ WF_vars(Tick)

Spec == Init /\ [][Next]_vars /\ Fairness

-----------------------------------------------------------------------------
(* Properties.                                                             *)

ControlPoint ==
  {"recv", "service", "announce_music", "activate", "spawn", "open", "open_failed",
   "opened", "announce", "stopping", "drop_capture", "join_worker", "clear", "idle",
   "signal_began", "restart", "fail_clear", "fail_announce", "fail_report", "down"}
Handler == {"none", "start", "stop", "reset", "interrupted", "reopen", "route", "fail", "quit"}

\* Every variable keeps the shape of the field or publisher it stands for.
TypeOK ==
  /\ inbox \in Seq(Inputs)
  /\ permission \in AudioInitStatus
  /\ sinks \subseteq Nat /\ permission_sinks \subseteq Nat
  /\ pc \in ControlPoint /\ task \in Handler
  /\ state \in SessionState
  /\ generation \in Nat
  /\ request \in DevicePolicy \union {NoIntent}
  /\ start_intent \in DevicePolicy \union {NoIntent}
  /\ retry_count \in Nat
  /\ interruption_timeout \in Nat \union {NoDeadline}
  /\ route_debounce \in Nat \union {NoDeadline}
  /\ capture \in Nat
  /\ worker \in {"none", "building", "running", "exited"}
  /\ producer \in {"control", "worker", "gone"}
  /\ devices \in BOOLEAN
  /\ audio_info \in BOOLEAN /\ features \in BOOLEAN /\ node_ports \in BOOLEAN
  /\ music_info \in Scale \union {NoScale}
  /\ event \in Event

\* The thread is between two handlers.
AtRest == pc \in {"recv", "service", "announce_music"}

\* Neither a stream nor a worker exists, nothing is held for one, and the
\* producer is back for the next.
NoDataPath ==
  /\ capture = NoCapture /\ worker = "none" /\ producer = "control" /\ ~devices

\* A session reported Running hears its own stream: the open stream's sink holds
\* the current generation, so a lost device or a revoked permission is never
\* dropped as stale; its worker has not been joined and its devices handle is held.
LiveStreamIsHeard ==
  AtRest /\ state = "Running" =>
    /\ capture = generation /\ capture # NoCapture /\ capture \in sinks
    /\ worker # "none" /\ producer = "worker" /\ devices

\* A session reported Idle or Error has let go of everything, on every path into
\* those states: stop, interruption, failed start, terminal event, spent recovery.
\* No debounce is left that could reopen the microphone.
NothingHeldWhenStopped ==
  AtRest /\ state \in {"Idle", "Error"} =>
    /\ NoDataPath
    /\ ~features /\ ~audio_info
    /\ route_debounce = NoDeadline

\* audio_info() is Some exactly in Running, up to the two windows the code opens
\* on purpose: stored before Running is announced, cleared before the next state is.
InfoBracketsRunning ==
  /\ audio_info => state = "Running" \/ pc = "announce"
  /\ state = "Running" /\ ~audio_info => pc \in {"stopping", "fail_announce", "down"}

\* latest_features() is None in Idle and Error: the worker is joined before the
\* publisher is cleared, so a late hop cannot put a value back.
FeaturesOnlyInSession ==
  features => state \in {"Starting", "Running", "Stopping"} \/ task = "quit"

\* The feature producer is with the worker or back with the control plane, on
\* every path: a restart never meets FeatureProducerUnavailable.
ProducerComesBack ==
  /\ producer = "worker" <=> worker # "none"
  /\ producer = "gone" => task = "quit"

\* A stream never outlives the worker that drains its ring, and a stream is
\* never opened while another one is: the capture goes first, the worker second.
StreamHasWorker ==
  /\ capture # NoCapture => worker # "none"
  /\ pc \in {"activate", "spawn", "open"} => capture = NoCapture

\* A deadline belongs to the session that set it: the debounce dies with the live
\* session, the interruption timeout with the Idle that follows the interruption.
DeadlinesBelongToSession ==
  /\ route_debounce # NoDeadline =>
       state = "Running" \/ task \in {"interrupted", "reopen", "fail", "quit"}
  /\ interruption_timeout # NoDeadline => state = "Idle"

\* A running session can be recovered: it has kept its intent, and each recovery
\* has the whole retry budget and spends no more.
RecoveryHasItsBudget ==
  /\ AtRest /\ state = "Running" => retry_count = 0 /\ start_intent # NoIntent
  /\ task \in {"reopen", "route"} /\ pc = "activate" => retry_count < RETRY_BUDGET

\* The port's contract (CoachSession) holds of every run of the thread.
Contract == INSTANCE CoachSession
              WITH mail <- inbox, session <- state, info <- audio_info,
                   resetting <- (task = "reset"), up <- (pc # "down")
CoachContract == Contract!Spec

\* A start or a recovery comes to an end, however the opens turn out.
StartingResolves == state = "Starting" ~> state # "Starting" \/ pc = "down"

\* A stop that was sent takes the session to Idle whatever happens meanwhile.
StopIsHonoured ==
  (\E i \in DOMAIN inbox : inbox[i].kind = "Stop") ~> state = "Idle" \/ pc = "down"

\* Shutdown completes and leaves nothing behind.
QuitReleasesAll ==
  (\E i \in DOMAIN inbox : inbox[i].kind = "Quit") ~>
    /\ pc = "down" /\ capture = NoCapture /\ worker = "none" /\ ~devices
    /\ ~audio_info /\ ~features /\ ~node_ports /\ music_info = NoScale

\* A due deadline is serviced even under a steady stream of inputs.
DueDeadlineIsServiced ==
  /\ route_debounce = 0 ~> route_debounce # 0
  /\ interruption_timeout = 0 ~> interruption_timeout # 0

\* What inspect.rs says of its port list: empty when no session has an engine.
PortsOnlyInSession ==
  node_ports => state \in {"Starting", "Running", "Stopping"} \/ task = "quit"

\* What app_coach.rs says of a stop issued while Starting: the start is cancelled,
\* with no spurious Running flash.
StopCancelsStarting ==
  state = "Running" /\ event = "StateChanged" => \A i \in DOMAIN inbox : inbox[i].kind # "Stop"
=============================================================================

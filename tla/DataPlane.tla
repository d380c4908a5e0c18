----------------------------- MODULE DataPlane ------------------------------
(***************************************************************************)
(* The data plane (app-coach/src/data_plane.rs): the audio callback fills  *)
(* a ring of samples; a worker takes blocks from it, records them, runs    *)
(* the engine, and publishes one feature snapshot per block, both as the   *)
(* latest value and on a bounded queue that the head drains.  The control  *)
(* thread spawns a worker per session and stops it; the queue outlives the *)
(* sessions.                                                               *)
(*                                                                         *)
(* The callback, the worker, the recorder's writer, the control thread and *)
(* the head are five threads.  A snapshot is named by its session and its  *)
(* hop index; the session is not in the code's snapshot and is here only   *)
(* so that properties can speak of it.  Samples have no content.           *)
(***************************************************************************)
EXTENDS Recorder, Functions

CONSTANTS BLOCK_FRAMES,           \* samples in a block
          RING_CAPACITY,          \* samples the ring holds
          FEATURE_RING_CAPACITY,  \* snapshots the queue holds
          MaxSessions,            \* bound: workers ever spawned
          MaxSamples              \* bound: samples captured in one session

ASSUME RingAssumption == BLOCK_FRAMES \in Nat \ {0} /\ RING_CAPACITY \in Nat
ASSUME QueueAssumption == FEATURE_RING_CAPACITY \in Nat
ASSUME BoundAssumption == MaxSessions \in Nat /\ MaxSamples \in Nat

VARIABLES
    control,          \* where the control thread is in a session's life
    session,          \* the worker last spawned; 0 before the first
    start_intent,     \* a stream has opened since the last start of the head
    stream,           \* the capture is open
    in_callback,      \* the audio callback is running
    dropped,          \* its local count of samples the ring refused
    samples_dropped,  \* the count shared with the control thread
    captured,         \* samples the callback was given in this session
    ring,             \* samples in the ring
    quit,             \* the flag the worker tests
    pc,               \* where the worker is
    block,            \* samples in its scratch block
    hop_index,        \* the hop it computes next
    latest,           \* the latest-value publisher
    features,         \* the feature queue
    heard,            \* history: the snapshot the head drained last
    published,        \* history: every snapshot that was the latest
    refused           \* history: the snapshots the full queue refused

audio == <<stream, in_callback, dropped, samples_dropped, captured>>
worker == <<pc, block, hop_index>>
history == <<published, refused>>
output == <<latest, features, heard, history>>
vars == <<control, session, start_intent, audio, ring, quit, worker, output, recorder_vars>>

Snapshot == [session: Nat, hop: Nat]
NoSnapshot == [session |-> 0, hop |-> 0]

Before(s, t) == s.session < t.session \/ (s.session = t.session /\ s.hop < t.hop)

Init ==
    /\ control = "idle"
    /\ session = 0
    /\ start_intent = FALSE
    /\ stream = FALSE
    /\ in_callback = FALSE
    /\ dropped = 0
    /\ samples_dropped = 0
    /\ captured = 0
    /\ ring = 0
    /\ quit = FALSE
    /\ pc = "none"
    /\ block = 0
    /\ hop_index = 0
    /\ latest = NoSnapshot
    /\ features = <<>>
    /\ heard = NoSnapshot
    /\ published = {}
    /\ refused = {}
    /\ RecorderInit

-----------------------------------------------------------------------------
(* The control thread, as ControlPlane has it: start, then open the capture; on a
   stop drop the capture, stop the worker, clear the publisher. *)

(* DataPlane::start.  A new session comes with a fresh prefix, whose files do not
   exist; a recovery spawns a worker under the prefix of the session it recovers.  Only a
   session whose stream has opened is recovered: a start that fails leaves no intent. *)
Start(recovery) ==
    /\ control = "idle"
    /\ session < MaxSessions
    /\ recovery => start_intent
    /\ control' = "opening"
    /\ session' = session + 1
    /\ start_intent' = recovery
    /\ samples_dropped' = 0
    /\ captured' = 0
    /\ ring' = 0
    /\ quit' = FALSE
    /\ pc' = "build"
    /\ block' = 0
    /\ hop_index' = 0
    /\ IF recovery THEN UNCHANGED <<files, manifest>>
       ELSE wav' = NoWav /\ sidecar' = NoSidecar /\ finalized' = FALSE /\ manifest' = NoManifest
    /\ UNCHANGED <<stream, in_callback, dropped, output, recorder, channel, invalid,
                   n_hops_sent, writer, blocks_since_flush>>

OpenSucceeds ==
    /\ control = "opening"
    /\ control' = "live"
    /\ start_intent' = TRUE
    /\ stream' = TRUE
    /\ UNCHANGED <<session, in_callback, dropped, samples_dropped, captured, ring, quit,
                   worker, output, recorder_vars>>

(* The worker that was spawned for the stream is stopped.  It saw no sample, so that
   clearing the publisher, which this path leaves out, changes nothing. *)
OpenFails ==
    /\ control = "opening"
    /\ control' = "stopping"
    /\ UNCHANGED <<session, start_intent, audio, ring, quit, worker, output, recorder_vars>>

(* Mutant of DropCapture: the worker is stopped while the capture is still open. *)
DropCaptureLater ==
    /\ control = "live"
    /\ control' = "stopping"
    /\ UNCHANGED <<session, start_intent, audio, ring, quit, worker, output, recorder_vars>>

(* Closing the stream waits for the callback that is running. *)
DropCapture ==
    /\ control = "live"
    /\ ~in_callback
    /\ control' = "stopping"
    /\ stream' = FALSE
    /\ UNCHANGED <<session, start_intent, in_callback, dropped, samples_dropped, captured,
                   ring, quit, worker, output, recorder_vars>>

RaiseQuit ==
    /\ control = "stopping"
    /\ control' = "joining"
    /\ quit' = TRUE
    /\ UNCHANGED <<session, start_intent, audio, ring, worker, output, recorder_vars>>

(* The join, and the report of samples_dropped. *)
JoinWorker ==
    /\ control = "joining"
    /\ pc = "exited"
    /\ control' = "joined"
    /\ UNCHANGED <<session, start_intent, audio, ring, quit, worker, output, recorder_vars>>

ClearPublisher ==
    /\ control = "joined"
    /\ control' = "idle"
    /\ latest' = NoSnapshot
    /\ UNCHANGED <<session, start_intent, audio, ring, quit, worker, features, heard, history,
                   recorder_vars>>

ControlStep ==
    \/ \E recovery \in BOOLEAN : Start(recovery)
    \/ OpenSucceeds \/ OpenFails \/ DropCapture \/ RaiseQuit \/ JoinWorker \/ ClearPublisher

-----------------------------------------------------------------------------
(* The audio callback: push_samples, one sample at a time. *)

CallbackBegins ==
    /\ stream
    /\ ~in_callback
    /\ captured < MaxSamples
    /\ in_callback' = TRUE
    /\ UNCHANGED <<control, session, start_intent, stream, dropped, samples_dropped, captured,
                   ring, quit, worker, output, recorder_vars>>

(* Mutant of PushSample: the full ring takes one more. *)
PushSampleOverflow ==
    /\ in_callback
    /\ captured < MaxSamples
    /\ captured' = captured + 1
    /\ IF ring <= RING_CAPACITY THEN ring' = ring + 1 /\ UNCHANGED dropped
       ELSE dropped' = dropped + 1 /\ UNCHANGED ring
    /\ UNCHANGED <<control, session, start_intent, stream, in_callback, samples_dropped, quit,
                   worker, output, recorder_vars>>

PushSample ==
    /\ in_callback
    /\ captured < MaxSamples
    /\ captured' = captured + 1
    /\ IF ring < RING_CAPACITY THEN ring' = ring + 1 /\ UNCHANGED dropped
       ELSE dropped' = dropped + 1 /\ UNCHANGED ring
    /\ UNCHANGED <<control, session, start_intent, stream, in_callback, samples_dropped, quit,
                   worker, output, recorder_vars>>

CallbackEnds ==
    /\ in_callback
    /\ in_callback' = FALSE
    /\ samples_dropped' = samples_dropped + dropped
    /\ dropped' = 0
    /\ UNCHANGED <<control, session, start_intent, stream, captured, ring, quit, worker, output,
                   recorder_vars>>

-----------------------------------------------------------------------------
(* The worker: run_worker. *)

WorkerGoes(from, to) == pc = from /\ pc' = to
OutsideWorker == <<control, session, start_intent, audio, quit>>

(* Engine and ports; an error in either ends the worker, quietly. *)
Build ==
    /\ pc = "build"
    /\ pc' \in {"new", "exited"}
    /\ UNCHANGED <<OutsideWorker, ring, block, hop_index, output, recorder_vars>>

(* Recorder::new, or no prefix to record under. *)
MakeRecorder ==
    /\ WorkerGoes("new", "wait")
    /\ NoRecorder \/ HalfARecorder(session) \/ NewRecorder(session)
    /\ UNCHANGED <<OutsideWorker, ring, block, hop_index, output>>

SeeBlock ==
    /\ WorkerGoes("wait", "pop")
    /\ ~quit
    /\ ring >= BLOCK_FRAMES
    /\ UNCHANGED <<OutsideWorker, ring, block, hop_index, output, recorder_vars>>

(* One sample, so that the callback sees the slots free one by one.  The ring cannot be
   found empty here. *)
PopSample ==
    /\ pc = "pop"
    /\ ring' = ring - 1
    /\ block' = block + 1
    /\ pc' = IF block' = BLOCK_FRAMES THEN "record_block" ELSE "pop"
    /\ UNCHANGED <<OutsideWorker, hop_index, output, recorder_vars>>

TapBlock ==
    /\ WorkerGoes("record_block", "process")
    /\ RecordBlock(hop_index)
    /\ UNCHANGED <<OutsideWorker, ring, block, hop_index, output>>

ProcessBlock ==
    /\ WorkerGoes("process", "record_hop")
    /\ UNCHANGED <<OutsideWorker, ring, block, hop_index, output, recorder_vars>>

(* The panic is caught; unwinding drops the recorder, and the producer is kept. *)
ProcessPanics ==
    /\ WorkerGoes("process", "unwind")
    /\ IF recorder = "open" THEN DropSender ELSE UNCHANGED recorder_vars
    /\ UNCHANGED <<OutsideWorker, ring, block, hop_index, output>>

TapHop ==
    /\ WorkerGoes("record_hop", "publish")
    /\ RecordHop(hop_index)
    /\ UNCHANGED <<OutsideWorker, ring, block, hop_index, output>>

(* Mutant of Publish: the latest value is stored for voiced hops only. *)
PublishVoiced ==
    /\ WorkerGoes("publish", "push")
    /\ block' = 0
    /\ hop_index' = hop_index + 1
    /\ latest' \in {latest, [session |-> session, hop |-> hop_index]}
    /\ published' = published \cup {[session |-> session, hop |-> hop_index]}
    /\ UNCHANGED <<OutsideWorker, ring, features, heard, refused, recorder_vars>>

(* Mutant of Publish: the index is the recorder's count of the hops it accepted. *)
PublishFromRecorder ==
    /\ WorkerGoes("publish", "push")
    /\ block' = 0
    /\ hop_index' = IF recorder = "open" THEN n_hops_sent ELSE hop_index + 1
    /\ latest' = [session |-> session, hop |-> hop_index]
    /\ published' = published \cup {latest'}
    /\ UNCHANGED <<OutsideWorker, ring, features, heard, refused, recorder_vars>>

Publish ==
    /\ WorkerGoes("publish", "push")
    /\ block' = 0
    /\ hop_index' = hop_index + 1
    /\ latest' = [session |-> session, hop |-> hop_index]
    /\ published' = published \cup {latest'}
    /\ UNCHANGED <<OutsideWorker, ring, features, heard, refused, recorder_vars>>

(* Mutant of PushFeature: a full queue gives up its oldest snapshot. *)
PushFeatureOverOldest ==
    LET snapshot == [session |-> session, hop |-> hop_index - 1] IN
    /\ WorkerGoes("push", "wait")
    /\ features' = IF Len(features) < FEATURE_RING_CAPACITY THEN Append(features, snapshot)
                   ELSE Append(Tail(features), snapshot)
    /\ UNCHANGED <<OutsideWorker, ring, block, hop_index, latest, heard, history,
                   recorder_vars>>

(* push_feature: a full queue refuses the new snapshot. *)
PushFeature ==
    LET snapshot == [session |-> session, hop |-> hop_index - 1] IN
    /\ WorkerGoes("push", "wait")
    /\ IF Len(features) < FEATURE_RING_CAPACITY
       THEN features' = Append(features, snapshot) /\ UNCHANGED refused
       ELSE refused' = refused \cup {snapshot} /\ UNCHANGED features
    /\ UNCHANGED <<OutsideWorker, ring, block, hop_index, latest, heard, published,
                   recorder_vars>>

(* The loop ends; what is left in the ring is not recorded. *)
SeeQuit ==
    /\ pc = "wait"
    /\ quit
    /\ pc' = IF recorder = "open" THEN "finish" ELSE "exited"
    /\ IF recorder = "open" THEN DropSender ELSE UNCHANGED recorder_vars
    /\ UNCHANGED <<OutsideWorker, ring, block, hop_index, output>>

FinishRecorder ==
    /\ WorkerGoes("finish", "exited")
    /\ Finish(session)
    /\ UNCHANGED <<OutsideWorker, ring, block, hop_index, output>>

Unwind ==
    /\ WorkerGoes("unwind", "exited")
    /\ IF recorder = "joining" THEN DropRecorder ELSE UNCHANGED recorder_vars
    /\ UNCHANGED <<OutsideWorker, ring, block, hop_index, output>>

WorkerStep ==
    \/ Build \/ MakeRecorder
    \/ SeeBlock \/ PopSample \/ TapBlock \/ ProcessBlock \/ ProcessPanics \/ TapHop
    \/ Publish \/ PushFeature
    \/ SeeQuit \/ FinishRecorder \/ Unwind

OutsideRecorder == <<control, session, start_intent, audio, ring, quit, worker, output>>

(* The recorder's writer thread. *)
Writes == WriterStep /\ UNCHANGED OutsideRecorder

(* drain_features, one snapshot at a time: the worker may push in between. *)
Drain ==
    /\ features # <<>>
    /\ heard' = Head(features)
    /\ features' = Tail(features)
    /\ UNCHANGED <<control, session, start_intent, audio, ring, quit, worker, latest, history,
                   recorder_vars>>

AudioStep == CallbackBegins \/ PushSample \/ CallbackEnds

Next == ControlStep \/ AudioStep \/ WorkerStep \/ Writes \/ Drain

(* The worker is scheduled, and the engine returns from a block; a callback ends; a
   stop once begun is carried on.  The disk is only trusted to be finished with at the
   end: while a recording runs, the writer may stall for ever. *)
Fairness ==
    /\ WF_vars(WorkerStep)
    /\ WF_vars(Writes /\ recorder = "joining")
    /\ WF_vars(RaiseQuit \/ JoinWorker \/ ClearPublisher)

Spec == Init /\ [][Next]_vars /\ Fairness

-----------------------------------------------------------------------------
(* Types. *)
TypeOK ==
    /\ control \in {"idle", "opening", "live", "stopping", "joining", "joined"}
    /\ session \in 0..MaxSessions
    /\ start_intent \in BOOLEAN
    /\ stream \in BOOLEAN
    /\ in_callback \in BOOLEAN
    /\ dropped \in Nat /\ samples_dropped \in Nat
    /\ captured \in 0..MaxSamples
    /\ ring \in 0..RING_CAPACITY
    /\ quit \in BOOLEAN
    /\ pc \in {"none", "build", "new", "wait", "pop", "record_block", "process", "record_hop",
              "publish", "push", "finish", "unwind", "exited"}
    /\ block \in 0..BLOCK_FRAMES
    /\ hop_index \in Nat
    /\ latest \in Snapshot /\ heard \in Snapshot
    /\ features \in Seq(Snapshot) /\ Len(features) <= FEATURE_RING_CAPACITY
    /\ published \subseteq Snapshot /\ refused \subseteq Snapshot
    /\ RecorderTypeOK

(* What stop reports as dropped (data_plane.rs:190-197) is every captured sample that
   the worker neither took nor left in the ring. *)
DropsAreReported ==
    control = "joined" => samples_dropped = captured - ring - (hop_index * BLOCK_FRAMES + block)

(* The queue is in order, and comes after what the head has drained, over sessions,
   restarts and panics (push_feature, drain_features). *)
HopsInOrder ==
    \A i \in 1..Len(features) :
        /\ Before(heard, features[i])
        /\ \A j \in 1..(i - 1) : Before(features[j], features[i])

(* Only a full queue loses a hop: every snapshot that was ever the latest was drained,
   is queued, was refused, or is about to be pushed. *)
OnlyOverflowLosesHops ==
    \A s \in published \ refused :
        \/ ~Before(heard, s)
        \/ s \in Range(features)
        \/ pc = "push" /\ s = [session |-> session, hop |-> hop_index - 1]

(* What the head drains is never newer than what latest_features shows it, unless the
   session is over (run_worker stores the latest value before it pushes). *)
LatestIsNotBehind ==
    control \in {"live", "stopping", "joining"} =>
        \A s \in Range(features) \cup {heard} : s.session = session => ~Before(latest, s)

(* A slow or stuck disk never stalls the worker: it comes back to the test of its loop
   again and again, although nothing makes the writer take a message while a recording
   runs (audio_recorder.rs:8-10). *)
DiskNeverStallsWorker == []<>(pc \in {"none", "wait", "exited"})

(* The join in stop is bounded, although the worker itself joins the writer
   (data_plane.rs:175-178, audio_recorder.rs:240-254). *)
StopReturns == control = "stopping" ~> control = "idle"

(* Claimed at app_coach.rs:526-527, and violated: the head sees a new session by its
   hop_index being 0 again. *)
RestartIsVisible == [][heard'.session > heard.session => heard'.hop = 0]_heard

=============================================================================

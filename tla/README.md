# Gurukul in TLA+

Gurukul is a singing coach. A *head* (a Bevy game, or a command line) talks to an
*application coach* through the `AppCoach` port; the coach opens the microphone, runs a
graph of DSP nodes over it, and serves pitch and voice features. This directory holds TLA+
models of it, TLC runs over small instances, and TLAPS proofs.

## The system

| Component | State it keeps | Operations | Talks to |
|---|---|---|---|
| Control plane (`app-coach/src/control_plane.rs`) | session state, generation, start intent, deadlines, retry count, the open capture, the data-plane handle, the feature producer, the devices handle | start, stop, configure, queries, permission request, lifecycle events, recovery, shutdown | mailbox in; outbound queue and publishers out; capture and driver ports; data plane by spawn and join |
| Data plane (`data_plane.rs`) | sample ring, quit flag, engine, `hop_index`, feature queue | spawn, one hop per block of 512 samples, stop | capture callback on the audio thread; feature publishers; recorder |
| Recorder (`audio_recorder.rs`) | bounded channel, writer thread, WAV, sidecar, manifest | block, hop, finish | worker |
| Outbound queue (`outbound.rs`) | at most 1024 events, dropped count | push (drops the oldest), drain | control thread, head |
| Inspect surface (`inspect.rs`) | selection, tap, port list | select, tap, publish, clear | worker, control thread, head |
| Capture and driver ports (`domain-ports`), with cpal, Apple and WAV adapters | OS stream, permission, devices | negotiate, open, request, `new_devices` | call back through lifecycle and permission sinks |
| Head (`coach-game`) | `AppState`, `ResumeLocked`, `HasPausedSession`, permission prompt, feature history, graph | drain a frame, menus, pause and resume | `AppCoach` port |
| Trace (`coach-game/src/trace`) | frame buffer, gzip file; replay cursor | record, flush, load, replay | decorates the port |
| Engine (`dsp/engine`) | nodes, buffers, order, latencies | build, process a block, finish | nodes |
| DSP nodes (`dsp/node-*`) | rings, gates and latches; a window of samples or pitches | process a block, analyse a hop, reset | engine |
| Music model (`tuning.rs`, `scale.rs`, `pitch.rs`) | values | rotate, resolve, capture, select, degrees | coach, dial, picker, graph |
| Tonality (`note_dial.rs`, `scale_picker.rs`, music settings; `do_configure_session`, `do_list_scales`) | settings, song, the coach's scale, the lists the head holds | capture Sa, pick, retune, list | commands and events of the port |
| Widgets (`coach-game/src/menu`, `game`, `widgets`) | what is drawn, and what changed since | spawn, sync on change, click | resources of the head |
| Telemetry (`telemetry.rs`, `telemetry-std`) | context of a logger; stderr, log file with its buffer | child, log, write, flush | every thread |
| Clock; command-line head, benches | | | |

What is hard in it, and so what the properties are for:

* **Threads.** The head, the OS notification threads, the permission callback, the control
  thread, the worker, the audio thread and the recorder's writer share queues, atomics and
  swapped snapshots. The head reads snapshots and events separately.
* **Stale messages.** Lifecycle events and permission answers outlive the session they
  belong to; a generation frozen into each sink tells them apart.
* **Time.** An interruption timeout and a route debounce are serviced by the loop that also
  takes inputs.
* **Change detection.** The head's systems run in an order that Bevy chooses within the
  chains of the code, draw only what changed since they last ran, and their screens come
  and go under them.
* **Failure.** Any step of bringing a stream up may fail after the steps before it took
  effect; recovery repeats it within a budget; a worker may panic.
* **Bounds.** Four bounded queues drop: samples, feature hops, recorder blocks, events.

Per component, what makes it correct:

* Control plane: a Running session hears its own stream; a stopped one holds nothing and is
  not revived; what is published agrees with what is announced; recoveries end; a stop and a
  shutdown are carried out.
* Data plane and queue: hops in order, gaps only where something was dropped, the producer
  never lost.
* Recorder: a manifest vouches only for a complete trace.
* Outbound queue: order kept, every loss reported once.
* Head: the microphone follows the screen, off everywhere but in the game and on there; no
  prompt waits for an answer that will not come; a locked Pause screen is not resumed.
* Trace: a crash loses at most the last frame; a replay serves what was recorded.
* Engine: every node runs after its inputs; latencies add along the longest path.
* Nodes: what a node answers depends on the samples, not on how they were cut into blocks.
* Adapters: a session's drop returns after its last frame, and leaves nothing behind.
* Inspect: a tap is of the port selected and of the session that runs; a torn-down session
  leaves neither tap nor ports.
* Graph: every hop held is shown once, and a dropped one breaks the line, a new session too.
* Tonality and music: head, coach, dial and picker come to agree on one scale, and the
  arithmetic agrees with itself in every tuning.
* Widgets: what is on the screen is what the resources say, once they are at rest.
* Telemetry: what was logged is on the disk, with the fields of its scopes.

## Modules

| Module | What it is |
|---|---|
| `CoachSession` | the abstract contract of a session at the `AppCoach` port: five variables, no threads |
| `ControlPlane` | the control thread with everything that runs beside it, its properties, and plausible bugs of it (operators commented "Mutant of") |
| `ControlPlane_proofs` | the inductive invariant, the safety theorems and the refinement of `CoachSession` |
| `Recorder` | the operations of one worker's recorder, its writer thread and the files they leave |
| `DataPlane` | the audio callback, the worker, the control thread's start and stop, the head's drain, over `Recorder`'s variables; the properties of both, and their mutants |
| `DataPlane_proofs` | the inductive invariant of the data plane and its safety theorems |
| `CoachPort` | the coach as a head meets it: mailbox, session, permission, and the outbound queue; each handler one step |
| `CoachHead` | the game's screens over `CoachPort`, frame by frame, their properties and mutants |
| `CoachHead_proofs` | the six safety theorems about the two |
| `UxTrace` | a live run that records its trace, ends somehow, and is replayed |
| `Filtering` | what the head keeps of a list, for `UxTrace` and `TimeGraph` |
| `EngineGraph` | `Engine::build` and `process_block` over a set of Worlds |
| `Engine_proofs` | every sorted World runs its nodes on whole blocks, a node's latency is that of the slowest path to it, the detector nodes answer the samples alone, and YIN and the vibrato analysis find what is in the signal |
| `Detectors` | the rings, gates and latches of the detector nodes, sample by sample |
| `PitchYin`, `Vibrato` | one analysis of each, step by step, in exact arithmetic |
| `Sums` | sums and powers one term at a time, for these two and `Music` |
| `CaptureAdapters` | the Apple, cpal and WAV back ends behind the capture, devices and driver ports |
| `Inspect` | the inspection port: selection, tap and port list without a lock |
| `Music` | pitches, tunings, rotations, scales and the dial, as operators |
| `Tonics` | a song through captures, picks and retunings, as values of `Music` |
| `Tonality` | the same steps on their way between the head, the coach and the screen |
| `Tonality_proofs` | the agreement they come to, and that of the arithmetic wherever a song gets to |
| `TimeGraph` | feature history, projector and painters of the pitch graph |
| `Widgets` | what the other widgets redraw, and when |
| `TelemetryLog` | the structured log, its two sinks and their locks |
| `MCParts` | the instances of all from `UxTrace` down, one of them per behaviour |
| `Screens_proofs` | the scene of the graph is that of its history, and the painters and the widgets keep up with what they show |
| `Parts_proofs` | the inspect surface, the adapters, the log, the trace and its replay; and what `MCParts` joins of these |
| `ProofFacts` | arithmetic, sums and powers, congruence, filtered sequences, and induction over a set of naturals, for the modules of proofs |
| `MCControlPlane` | the heads TLC's instances use |
| `MCInterruption` | `ControlPlane` with a history variable for interruptions that timed out |

### ControlPlane and the code

The thread handles one input at a time, but other threads see the effects inside a handler
one by one: events pushed, publishers stored, the capture dropped, the worker joined. So a
handler is one action per such effect. `pc` names the next effect, `task` the handler: a
stop is `StopLive` (takes the input, bumps the generation, clears `audio_info`),
`AnnounceStopping`, then `DropCapture`, `JoinWorker`, `ClearPublishers` (that is
`teardown_data_path`), then `AnnounceIdle`. Recovery, interruption, a terminal event, a
reset from Error and shutdown go through the same three teardown actions and differ
before and after them. `bring_up_capture` is `Activate`, `Spawn`, `OpenSucceeds` (or their
failures), `PublishInfo`, `AnnounceRunning`, for a start and for each attempt of a
recovery; `AttemptFailed` is what its two callers make of an error.

| Variable | Code |
|---|---|
| `inbox` | the mpsc channel of `Input`; commands, permission answers and lifecycle events share it |
| `sinks`, `permission_sinks` | the generations frozen in lifecycle sinks (each may fire for ever) and in permission sinks (each fires once) |
| `state`, `generation`, `start_intent`, `retry_count` | the fields of `ControlPlane`; every change of `state` is announced, so it is also the state last announced |
| `request` | `do_start_session`'s local intent, retained as `start_intent` when the start succeeds |
| `interruption_timeout`, `route_debounce` | `Deadlines`, as ticks left rather than an absolute time |
| `capture` | the generation of the stream that is open |
| `worker`, `producer` | the data-plane thread, and who holds the feature producer |
| `devices` | `live_devices`, and the local handle while a stream is brought up |
| `audio_info`, `features`, `node_ports`, `music_info` | whether each published snapshot is Some |
| `event` | the event the last step pushed |

Abstracted: the contents of events and snapshots, device choice, formats and error kinds.
`MediaServicesReset`, `PermissionDenied` and `BackendError` are one event, `Terminal`:
`do_lifecycle` treats them alike. A hop made while `open()` has not returned is seen as one
made right after it. A failed `open()` fires no lifecycle event (the port raises them only
after success). `MAX_WAIT_MS` and the polling worker are scheduling, not behaviour.
`debug_assert`s and telemetry are left out.

### DataPlane, Recorder and the code

`DataPlane` extends `Recorder` and calls its operators from the worker's steps, as
`run_worker` calls `Recorder`'s methods. `pc` is where the worker is:

| Action | Code |
|---|---|
| `Start`, `OpenSucceeds`, `OpenFails`, `DropCapture`, `RaiseQuit`, `JoinWorker`, `ClearPublisher` | `DataPlane::start` and `stop`, called from `bring_up_capture` and `teardown_data_path` |
| `CallbackBegins`, `PushSample`, `CallbackEnds` | the capture callback: `push_samples` sample by sample, its local drop count added at the end |
| `Build`, `MakeRecorder` | the worker before its loop |
| `SeeBlock`, `PopSample`, `TapBlock`, `ProcessBlock` / `ProcessPanics`, `TapHop`, `Publish`, `PushFeature` | one round of the loop, cut where another thread can see it |
| `SeeQuit`, `FinishRecorder`, `Unwind` | the end of the loop, and the end by a panic, which drops the recorder |
| `WriterTakes`, `WriterFinalizes`, `WriterPanics` | the writer thread |
| `Drain` | `drain_features`, one snapshot at a time |

| Variable | Code |
|---|---|
| `ring`, `block` | how many samples are in the ring and in the scratch block |
| `dropped`, `samples_dropped`, `captured` | the callback's local count, the shared one, and (history) all samples |
| `latest`, `features` | the feature publisher and the feature queue; a snapshot is its session and hop index |
| `heard`, `published`, `refused` | history: last drained, ever the latest, refused by the full queue |
| `recorder` | none, open, or joining its writer (the sender is dropped) |
| `channel`, `invalid`, `n_hops_sent` | of `Recorder`; a message is its kind and its hop |
| `wav`, `sidecar`, `manifest` | the files under the current prefix: of which session, which hops; for the WAV also how many blocks its header admits to a reader |
| `finalized` | both files were flushed and closed |

A session is one life of a worker. A start that is not a recovery gets a fresh prefix, so
the files seen under it do not exist; a recovery keeps the prefix, and with it the files of
the session it recovers. `start_intent` is what a recovery needs: a stream has opened since the
head's last start (`control_plane.rs:567-576`, `775-789`), so a first open that fails is not
recovered, while an attempt of a recovery that fails may be followed by another. Every write may
fail, the manifest's before or after it truncated
the file; the recorder may fail at each step of its making. A kill of the process is no
action: the files of every reachable state are what a kill leaves, and the invariants on
files hold in every state. The engine is an outcome (builds or not, returns or panics).
Sample values, feature values, JSON and the world's hash are left out. A full block is in
the ring before the worker pops, so the defensive exit on an empty ring is never taken.
What `BufWriter` may have written of a sidecar before a kill is not modelled.

### CoachPort, CoachHead and the code

A head sees of the control thread only the order in which its inputs are taken and events
are queued, so `CoachPort` has one action per handler (`TakeStart` is `do_start_session`,
`Interrupt` is `on_interrupted`), where `ControlPlane` has one per effect. `session` takes
the values the thread rests in. The generation counter is abstracted to what it decides:
`interrupted` (would an end of the interruption be announced), `asking` (would an answer to
the last permission request be taken). A recovery that succeeds is a new generation of the
same session. The outbound queue is `Push`, and `Drained` with `DrainInto` for a poll. Music
commands and the state-change events, which the head only logs, are left out.

`CoachHead` runs the schedule of `build_app` as a loop over `pc`:

| `pc` | What runs |
|---|---|
| `early` | `Update` systems before `drain_events`, or without an order to it |
| `drain` | `drain_events`, one action per event it polled (`HandleBegan`, ...) |
| `late` | systems after it; then `AdvanceCheckingHardware` |
| `end` | the rest of the frame; then `ChangeScreen` or `StayOnScreen` |

`ChangeScreen` is the state transition with its `OnExit` and `OnEnter` systems and what they
send; `NextState` also holds a change to the same state, which Bevy carries out. A key or
button is an action guarded by the screen its system runs on, and by the order `lib.rs`
gives it. `devices_changed` is Bevy's change detection on `KnownDevices`, which outlives
frames in which `advance_checking_hardware` does not run. `resume_enabled` is the Resume
button without `ButtonDisabled`; it follows the lock in every frame, where `sync_resume_locked`
acts on a change of it (`menu/paused.rs:260`), and Escape has the effect of
the button. The coach takes a step between any two of the head's,
except inside `drain_events`, which reads nothing of the coach after the poll: there a step
commutes with the handling. The buttons of the permission prompt are taken to be there
whenever the prompt is set, which is more than the code allows. The quit button, the chosen
device, the scale picker, music and features are left out; the last three are in `Tonality`
and `TimeGraph`.

### UxTrace and the code

`trace_step` is where the process is in its frame: `first` and `last` are the systems at the
two ends, between them the head polls the coach, applies what it polled, reads the latest
snapshot, drains features, and `record_coach` takes the buffer that the decorator filled.
The coach publishes between any two of these (`PublishMusic`, `StartSession`, `ProduceHop`,
...). `Exit` finishes the stream, and so does the unwinding of `Panic`; `Kill` leaves
the lines up to the last flush, any number of later ones, and possibly one cut in half.
`Load` decodes leniently and makes a bucket per frame, `Drive` and `ReadFrame` are
`ReplayDriver` and `ReplayCoach`, and `EnforceCursor` and `ResetInputs` keep the live mouse
and keyboard out. A scale is a name, a hop its number. Geometry, state and mark lines, which
nothing reads back, are left out.

### EngineGraph and the code

`engine_step` goes from `validate` through `seed` and `sort` (Kahn's algorithm, one action
per node popped and per consumer decremented) and `latency` to `idle` and `run`; the boundary
ports are resolved by the step that ends the sort.
Each reason to reject is an operator named for it. A sample is where it came from: `mixed`
counts how often each connection was added into its accumulator since the accumulator was
zeroed, `outputs` and `captured` hold the number of the block. A block may be of any length up
to `BLOCK_SIZE`, so what is left of a longer one can be seen. `peek` is abstracted to the
buffers it reads. That two nodes have different ids is an assumption: build does not reject
it. A connection with a boundary endpoint that the World does not declare is ignored by the
code and is not in the instance.

### Detectors, PitchYin, Vibrato and the code

`Detectors` runs `process` over blocks of different lengths, with the state of each node as a
record, and keeps the samples since the last reset beside it; its properties say what the
nodes have to answer those samples. The logarithm of an energy is any increasing function,
and the slow average of a baseline one unit towards the present. The estimate of a hop is
the window it was made of; what is made of it is in the other two. `PitchYin` is `prepare` and
`analyse` with one action per lag, normalised differences as fractions; `Vibrato` is the gap
filling slot by slot, the FFT butterfly stage by stage, and the peak with the median of the bins
away from it. The transform runs in a field with a root of unity of its order, where equality
with the defining sum can be checked exactly. Parabolic interpolation, detrending, the Hann
window and phase are floating point and left out. The constants of both are as the code has
them: the user's range lies below the sample rate and the threshold between zero and one
(`YinHasLags`, as `prepare` clamps them), the size of the transform is a power of two
(`SizeIsAPower`, the `const` of the node), half way round its circle of twiddles is minus one
(`RootHasOrder`, which is what the complex roots satisfy too), and the slots of a gap divide its
step evenly (`GapsDivide`), so that the line through a gap is exact in whole cents.

### CaptureAdapters, Inspect and the code

`adapter` says which back end a behaviour is about. The Apple ones open by a list of calls
(`Calls`), each of which may fail, and a failure takes the clean-up that the code has at that
call; the drop is `StopUnit`, `UninitializeUnit`, `DisposeUnit`, `FreeState`. The callback runs
on a thread of the platform, which is external: its stop returns when no callback is in
progress. cpal's stream is one such call. The WAV feeder is a thread of the adapter, with its
flag and its join. `Listed` and `Negotiated` are the offers and the choice among them.

`Inspect` has the selection, the tap and the list as three slots. The worker loads the
selection once a block and stores a tap later; the head selects at any time. A worker publishes
its ports before the stream is opened. `OpenStream` leads to a session whose teardown clears list
and tap after the join (`AskQuit`, `JoinTapper`, `ClearPorts`, `ClearTap`); `RefuseStream` is the
failed-open branch, which joins the worker and clears neither (`control_plane.rs:733-743`), so the
list it published stays (finding 1) until a later session publishes its own or is torn down.
`unopened` is history. A block takes samples, which come once the stream is open. The sample of
a port in a block is the number of the block.

### Music, Tonics, Tonality, TimeGraph, Widgets and the code

`Music` translates `pitch.rs`, `tuning.rs`, `scale.rs` and `build_slots` to whole steps, an
octave being twelve of them; the f32 sums of the code are exact there. A mask is the set of
its slots, the catalogue a small one with grids that do and do not fit.

`Tonality` is the round trip. `mailbox` and `outbox` are the coach's queues, `music_info`
what the head last heard. `unread` is Bevy's change detection per system, `to_run` the systems
still to run in the frame, in any order but the chain. A click is chosen at the beginning of
a frame and handled when the handlers run.

`TimeGraph` is one Bevy frame after another: `drain_features`, `refresh_scene`, `events` in a
chain, the painters of the meshes and the grid without an order to it, and the layout measured
last. `hop_clock` produces hops, drops some, and starts a new session with hop 0; a hop is
stamped when its block is processed (`data_plane.rs:395`), so those of a backlog share a time.
Of each sample the history variables `session` and `first` say what the code does not keep: the
session it is of, and the index of the first hop of that session that was drained. `painted`
holds for each mesh what it shows and for which lane and layout.

`Widgets` watches one part of the screen per behaviour: the settings tabs, the device list, the
lists of the music tab, the Pause screen, the permission modal, the dial or the HUD. `pending`
is the change detection of each system, which outlives visits of the screen; `deferred` the
entities that a system spawned and that are there from the next sync point.

### TelemetryLog and the code

One action per lock, write, flush and unlock of the stderr sink and of the file sink behind
it. `console` is what stderr was given: the code does not look whether it could take it.
The buffered writer spills when it is full, and any write or flush to it may fail; a kill
takes what is in the buffer. A bag of fields maps each key to the depth of the scope
that set it, so that a child's shadowing of its parent's fields can be told apart.

## Runs

| Run | Shows | Instance |
|---|---|---|
| `control_safety` | nine invariants and the refinement of `CoachSession` | two waiting inputs, three generations, two opens per recovery, debounce 1, timeout 2 |
| `control_liveness` | four liveness properties, with a head that can send queries for ever | one waiting input, two generations, two opens per recovery |
| `ports_after_failed_open` | violation: see Findings | one generation, one open |
| `stop_while_starting` | violation: see Findings | one waiting input |
| `late_interruption_end` | violation: see Findings | one waiting input |
| `data_plane` | six safety invariants besides the types, and two liveness properties | two sessions, five samples each, blocks of two, ring of three, queue of one, channel of two, flush every second block |
| `stale_manifest` | violation: see Findings | the same with four samples |
| `restart_unseen` | violation: see Findings | the same with four samples |
| `head` | five safety invariants besides the types | queue of two, one dropped event counted, keys while at most two commands wait, questions to the coach when none waits |
| `escape_while_locked` | violation: see Findings | the same, keys while at most one command waits |
| `parts` | eleven safety properties of the twelve parts from `UxTrace` down | see Bounds of the parts |
| `picker_lost` | violation: see Findings | `parts` with the tonality alone |

What `parts` checks, property by property:

* `FlushedIsKept` is `FlushedFramesAreRecovered` (every line the last flush covers is in the file,
  the file holds lines in their order and no others, and a load finds every finished frame)
  and `LogIsTeed` (the log file has the lines that stderr was given, in their order, and every call
  that returned, unless a write or flush failed; every line has the fields of its scopes).
* `ReplayFollowsTheRun`: a replayed frame shows the head the events, hops, inputs and pointer
  that the live frame had, and nothing the person at the window does.
* `BlocksAreWhole`: a node runs when every connection into it was added exactly once this block;
  what is read between blocks is the last block. `LatencyIsLongestPath`: over all paths.
* `DetectorsFollowTheirInput`: onsets, the breath latch and the window analysed are functions
  of the samples since the reset, whatever the blocks were.
* `EstimatesAreExact`: a window that repeats is never heard below its period, and at it unless
  it nearly repeats earlier
  (`PeriodIsHeard`); gaps are filled on straight lines, the transform is the Fourier sum, the
  peak stands out of the median of the rest (`AnalysisIsExact`).
* `SessionsEndClean`: no frame and no callback after a session's drop, every unit disposed
  of, a WAV fed once and in order (`CaptureIsReleased`); after a teardown no tap and no ports, after a
  refused stream no tap, and ports only of a session since which no stream was opened; while a
  session runs a tap is of it, never goes back, and is of the port selected (`TapsAreCurrent`).
* `GraphShowsTheHistory`: the lines of the scene are the longest runs of voiced hops held, each
  hop of them once and inside the lane, so that a silence or a dropped hop breaks the line, and a
  new session does, with the one exception listed below Findings; the breaths are runs in the same
  way, bands are centred on their own time, and the grooves are all
  those in the window. `ScreensKeepUp`: no painter is more than a frame behind
  (`PaintKeepsUp`), and two frames after the last change every widget shows the resources
  (`WidgetsShowTheState`, with four exceptions listed below Findings).
* `MusicAgrees`: the pitch sung resolves to the nearest line, a capture keeps the mask and puts
  the tonic on that line, in its register or, past the octave of the tuning's root, exactly one
  octave under it (see below Findings), a rotation moves no line, every degree sounds where the
  dial lights it.
* `HeadAndCoachAgree`: when commands, answers and painters have come to rest, head, coach, dial
  and an open picker are about the same scale.

**Bounds of the control plane.** Senders stop when `MaxInbox` inputs wait or at generation `MaxGen`; the thread
itself is never cut short, so a handler that began at the last generation runs to its end
and every state has a successor. Two waiting inputs let an event of an old stream sit
behind a command that replaces the stream; three generations let a recovery fail once,
succeed, and be followed by another stop, start or recovery; a timeout longer than the
debounce lets either deadline come due first, together or with an input waiting. No
symmetry is used: the model values are a single scale.

**Bounds of the data plane.** `MaxSessions` and `MaxSamples` stop only the sources. A ring
that is not a multiple of the block can be full with half a block taken; five samples are
two blocks and a remainder; a queue of one is full at the second hop; a channel of two holds
one block and its hop, so the writer one message behind is enough to invalidate the run; two
sessions are a recovery under the same prefix, or a new session behind undrained hops. The
run may stop: a coach with no stream, or one whose samples are spent, has nothing to do, so
deadlock is not checked there.

**Bounds of the head.** A queue of two overflows between two polls, and three events then
reach the head with the report of drops first; a count that ends at one saturates at the
second loss. A key that changes the screen is pressed while at most `MaxInbox` commands
wait: a start, its stop and the start of another entry may be in the mailbox together, behind
the menu's query. A key that only asks the coach something (New game, Allow, the query on
foreground) is pressed when at most `MaxAsk` wait: such commands do not touch the session,
and with more of them waiting TLC sees no more than their permutations. The theorems hold
for any of these bounds.

**Bounds of the parts.** The parts share no state, so a behaviour of `parts` is a behaviour
of one of them, its `subject`, while the others stand at one initial state; the states add
up rather than multiply. They may stop (a closed capture, a process that was killed), so
deadlock is not checked.

| Subject | Instance | Why it is enough | States |
|---|---|---|---|
| `trace` | two live frames, one hop, two changes of the session or scale, two batches of inputs | a frame behind the flushed one, one in progress, a line cut short; the replay runs past the last | 936 000 |
| `engine` | every wiring of three nodes (cycles, self-loops, nodes without input), a diamond of four with every subset of six wires, a World per reason to reject; blocks of one or two samples, two of them | two paths of unequal latency, a short block after a long one | 9 400 |
| `detectors` | levels -1 to 1, blocks of one and three, seven samples from reset to reset, rings of two, windows of three every two | rings wrap, a hop ends inside a block, a refractory time spans one | 13 000 |
| `yin` | every window of twelve samples of three levels that repeats after one to six | periods below, in and above the range, and their multiples | 8 900 |
| `vibrato` | contours of six slots, signals of eight modulo 17, bands of two to six bins of four magnitudes | gaps at either end, every butterfly stage, ties and medians of both parities | 34 000 |
| `capture` | every back end, four devices (one broken, one of more channels than Apple's adapter opens), five requests (two of them invalid), WAVs of no, one and a half, two and three chunks | a short last chunk; each call of an opening fails once | 1 400 |
| `graph` | two sessions, three hops drained of three sounds and indices below three, no time or two ticks from one to the next, history of three, window of three ticks, traces and grooves painted before the projection or all painters behind it | evictions by age (those by count are proved only, as the instance never holds more than three), hops at one time, a session boundary in the history with its first hop held or dropped, pitches in two octaves | 1 591 000 |
| `song` | two tunings of four and five slots, two references, pitches of more than two octaves | grids that change under a mask | 564 |
| `tonality` | two visits of the game, three clicks | a capture, a pick and a retuning in one song, with answers in between | 469 000 |
| `widgets` | three writes (two for the dial), two visits (one) | a change while the screen is off, and one after the next visit | 371 000 |
| `log` | two threads, two calls, one child, a buffer of one line | two threads between the two sinks, a spill that fails | 15 000 |
| `inspect` | three sessions of two blocks, each opened or refused, two selections of three, one of a port that does not exist | a selection between load and store, a tap across a session, a refused stream between two that open | 26 400 |

**Fairness of the control plane.** `WF(ControlStep)`: the OS schedules the thread and `open()` returns.
`WF(WorkerBuilds)`: engine construction is finite. `WF(QuitRaised /\ WorkerExits)`: the
worker tests the quit flag in every round of its loop, which sleeps at most 2 ms. `WF(Tick)`:
time passes. Nothing is assumed of the head or the OS: no command, event or answer ever
has to come. Strong fairness is not used.

**Fairness of the data plane.** `WF(WorkerStep)`: the worker is scheduled and the engine
returns. `WF(RaiseQuit \/ JoinWorker \/ ClearPublisher)`: a stop that began goes on.
`WF(Writes)` only once the sender was dropped: while a session runs, the disk may stall the
writer for ever, and `DiskNeverStallsWorker` must hold all the same. Nothing is assumed of
the callback, the head or new starts.

* `StartingResolves`: no start or recovery hangs, whatever opens fail.
* `StopIsHonoured`: a stop that was sent leads to Idle.
* `QuitReleasesAll`: shutdown completes with nothing held and nothing published.
* `DueDeadlineIsServiced`: also while inputs never cease.

* `DiskNeverStallsWorker`: the worker returns to the test of its loop again and again.
* `StopReturns`: a stop that began ends, although it joins a worker that joins a writer.

Each module states and comments its properties at its end; those of `parts` that join two
are in `MCParts`.

Each property has a mutant: a variant of one action with a plausible bug, under which
TLC finds the property violated on the same instance.

## Findings

1. **A failed open leaves ports on the inspect surface.** The worker spawned for the attempt
   publishes its engine's ports; the failed-open branch joins it but does not clear them
   (`control_plane.rs:733-743`), and `fail` does not either. `inspect.rs:15-16` says the
   list is empty when there is no session. A stop clears it, and a later start replaces it.
2. **A stop while Starting does not cancel.** It waits in the mailbox and is taken after
   Running was announced; `app_coach.rs:100-102` promises no Running flash.
3. **A late end of a timed-out interruption is announced.** `app_coach.rs:309-311` says
   none is emitted after the timeout.
4. **A recovery leaves a stale manifest.** Each reopen records under the session's own
   prefix: the WAV and the sidecar of the segment before the interruption are truncated, its
   manifest is not. If the second segment is invalidated, a manifest that counts the hops of the
   first lies beside a recording that `finish` reports to have none (`audio_recorder.rs:261-266`).
   The run asks for a manifest that counts hops, so its trace has a first session that opened,
   recorded a hop and ended cleanly, and a recovery of it. `ManifestVouches` is what
   does hold: no manifest of the recording that the WAV belongs to is ever wrong.
5. **A session boundary can be lost.** `app_coach.rs:526-527` tells the head to see a new
   session by `hop_index` being 0. A queue full of undrained hops refuses exactly that one.

6. **Escape resumes a locked Pause screen.** An interruption locks Resume, "so the player
   can't try to sing while the mic is gone" (`coach.rs:239-240`). The button obeys
   (`menu/paused.rs:119`), `handle_esc_paused` does not look (`game/mod.rs:324-328`): Escape
   goes back to the game and starts a session during the interruption.

7. **The picker is lost.** `scale_picker.rs:38-39` says that `ShowingScalePicker` is true while the
   overlay is on screen. Leaving the game with the picker open despawns the overlay and
   leaves the flag (`scale_picker.rs:70`): after a pause the badge opens nothing any more.
   Only a click in the overlay resets the flag, and the overlay is gone.

Also met while modelling the head, without a text of the repository that a run could hold
it to: an interruption polled on the main menu, after the player had quit, shows the Pause
screen; a pause by the player in the frame in which the interruption is polled clears its
lock; one polled after the next start locks Resume although its end is stale and will not be
announced; the "Allow Microphone" button of the Settings screen has no handler there; a list
of devices that the Settings screen asked for can complete the check of the hardware that
New game began.

And in the other parts:

* `repaint_slots` has no order to the dial's chain: slots that were spawned in the same frame may
  stay unpainted until the needle next moves.
* A Pause screen entered from itself (an interruption polled while paused) is spawned again with
  Resume enabled though the lock is set; a permission prompt that outlives a visit of the menu
  is not drawn on the next; the device list is drawn anew for a listing, not for the
  visit. These three and the unpainted slots are the exceptions of `WidgetsShowTheState`. The
  colours of the buttons are updated without an order to the systems that enable them.
* **A capture can lose its register.** `tuning.rs:370-372` has the captured line "at register
  `octave`", and `note_dial/model.rs:90-93` says "register preserved". `resolve` counts octaves from
  the root of the tuning, but the tonic of the captured scale counts them from the origin:
  `TuningRotated::rotation` (`tuning.rs:619-622`) keeps the place in the octave (`fract`) of the root
  and the gaps up to the line together. Where these make an octave or more, that octave is not
  carried into the scale's `octave`, and the new tonic is on the right line an octave too
  low. With A at 440 Hz, 262 Hz sung is captured as 131 Hz. No unit test sings past that seam.
  `MusicAgrees` states the register exactly, loss included (`CapturedAt`).
* **A line can join two sessions.** The graph knows a new session only by indices that do not
  follow (`semantic_graph.rs:211-212`). Where the first hops of the new session were dropped
  (finding 5) the next may follow by chance: hop 0 of one session and hop 1 of the next are one
  line, over a hop nobody drew. `GraphShowsTheHistory` excepts exactly this (`Follows`): a run goes
  on into another session only if the first hop drained of that one was not its hop 0.
* `EngineInspect::latest_tap` is documented as `None` without a selection; `set_selection(None)`
  leaves the last tap where it is. Its `seq` is said to be strictly increasing, and
  starts again with each session: `TapsAreCurrent` says it within one.
* A log line takes its `t_ms` before the lock, so lines of two threads may be out of
  order by it.
* Input devices on macOS and iOS carry no persistent id (`devices.rs:136,175`).
* The device list advertises what an open refuses: an Apple device of more than 64 channels, and
  on cpal a rate that the device has only with another number of channels. `CaptureIsReleased`
  says for all others that an advertised stream opens.
* Two nodes of a World with the same id are not rejected; a connection at a boundary port that the
  World does not declare is ignored.
* A tuning with a single slot has a gap of a whole octave, which folds to nothing.
* `--replay` without a path picks the latest trace, which may be the one this replay is
  writing. A replay does not repeat quite what was seen: a frame in which nothing was
  read has no line, so a snapshot that had gone by then is still served; the music is what the
  recorded events configure.
* The gridlines of the graph are not painted again on a resize alone.

`app_coach.rs:151-161` also contradicts itself: `audio_info()` is said to be Some if and only
if the last state announced is Running, and to be published before Running is announced.
`InfoBracketsRunning` states what the code keeps.

## Proofs

`ControlPlane_proofs` proves, for every retry budget, timeout, set of scales, set of
commands, mailbox and generation bound (the assumptions named in `ControlPlane`):

* `TypeCorrect`, and every safety invariant that `control_safety` checks, as
  `Spec => []Inv`;
* `Refinement`: `Spec => CoachContract`, with one line per action saying which step of
  `CoachSession` it is.

The argument: none of the invariants is inductive. That a stopped session holds nothing,
for instance, needs to know what the teardown has released at each of its points, for
which handlers, and that the deadline was cleared when the handler began. `IInv` is the
conjunction of six parts, each a table over control points: `WhereInv` (which handler can
be where, in which announced state), `PathInv` (what of the data path is held),
`InfoInv`, `FeatureInv`, `DeadlineInv` and `RetryInv`. `TypeStep` and `IInvStep` have one
step per action; the theorems follow from `Inductive` by expanding definitions. The
refinement needs `WhereInv` and `InfoInv` only. TLC checked each part of `IInv` before it
was proved.

`DataPlane_proofs` proves, for every capacity, block size, flush interval and bound (the
assumptions named in `Recorder` and `DataPlane`), every invariant of the `data_plane` run as
`Spec => []Inv`. Again none is inductive. `SampleInv` accounts for each sample at each point
of the worker's loop; `QueueInv` says that whatever was drained or is queued was pushed
before now, and which hop the latest value shows; `RecorderInv` ties the life of the recorder
and its writer to the loop and says of which session the files are; `ValidInv`, the heart of
it, says that while a run is valid the files and then the channel hold what the worker has
offered, block and hop by turns, with nothing missing. A manifest is written only when the
channel is empty and closed, so the files then hold all of it. Each part has its lemma, with
one step per action that can disturb it.

`CoachHead_proofs` proves, for every capacity of the queue, largest count and bound on the
mailbox, every invariant of the `head` run. `MicrophoneOffOutsideGame` is inductive
as it stands, because it speaks of the mailbox and not only of the session: a session that
runs behind the menu has a stop behind its last start, and each command taken, each failure
and each command sent keeps that (`TakeKeepsEndsIdle`, `SendKeepsEndsIdle`, `LeavingStops`).
`PauseIsMarked` needs that the mark is set as soon as the Pause screen is asked for.
`CheckIsAnswered` needs that a poll finds no event of the last one left, and follows the
answer from the mailbox to the queue, the frame's batch and the change detection; a full
queue that loses it says so in `lost`.

The other two need the order of what is in the mailbox. `HeardInv`: in the game, the last start or
stop under way is a start that finds the session Idle, or the session runs and neither is
under way, or something queued will leave the game; each handler keeps it because whatever
ends a session by itself, and a start that fails, is announced by an event that leaves the game. `AskInv`: as long as the permission is undetermined nothing but the
automatic start opens the game, so no start follows a request (`UndeterminedInv`); on the menu,
the query that entering it sent is behind every start and stop (`MenuInv`); so a prompt that
waits has a request, a current answer, an answer queued or the next query of the menu
before it (`AnswerInv`).

`Engine_proofs` proves `BlocksAreWhole` for every set of Worlds, registry and block size,
from `WorldsAssumption` and `BlocksAssumption`. `DegreeInv` says what an in-degree still counts: the
edges whose producer is not in the order yet, or has not come to this consumer. `OrderInv`
follows, that no node is in the order twice or before its producers; when the order has as many
nodes as the World it has all of them (`CheckedInv`), and then `BlockInv` says of a block in
progress that the accumulators hold the inputs and the nodes that ran, each once.

It also proves `LatencyIsLongestPath`. `LatencyInv` says of the nodes already visited that their
latency is their own and the largest of the accumulated ones of their producers, which come
before them in the order. The sum along a path is a function of the position in the path, and
that it exists, and is at most the latency of the path's last node, goes by induction on the
position: a set of naturals without a least element is empty (`SetInduction`). A path that is as
slow is found backwards, from the producer that gave the largest, one position of the order
after another.

The same module proves `DetectorsFollowTheirInput` from `DetectorAssumption`: integers for samples,
positive lengths of rings, windows and hops, and natural counts of samples to wait. Each node
has an invariant against the whole history since the reset, kept by one sample. A ring of a
frame holds the last squares of the samples in order from the write position, with zeros before
the first (`InRing`), and its running sum is their sum (`Holds`): adding the new square and
subtracting the overwritten one is the sum of the window moved by one (`ShiftedSum`). `OnsetInv`
adds that the baseline is the one that the pulses put out so far give, and `SinceInv` that the
cooldown counts from the last pulse. `BreathInv` adds `LatchInv`: the latch is on exactly when some
frame entered and no run of exits has released it since, and the counter below the exit is the
length of the run in progress. `HeldInv` gives the samples since the last analysis as a remainder
by the hop. The samples of a block are then heard one after another (`HearMoves`, `BlockMoves`, by
induction on the position), which is why the cut into blocks makes no difference, and a reset
starts from the same invariant as `prepare` (`FreshIs`). `Level` and `Toward` are the model's
stand-ins for the logarithm and the moving average, and the arithmetic is exact.

Of the two analyses it proves `PeriodIsHeard`, from `YinHasLags`: the difference function is zero
at the period and nowhere negative, so the search stops there or before, and only at a lag that is
under the threshold; where all of it is zero, nothing is a dip and the fallback is refused.
`GapsAreStraight`: slots are filled in turn, so the grid up to the cursor is what the property
says and beyond it is the contour. `PeakStandsOut`: after k rounds of the partial selection sort
the scratch is an order of the far bins whose first k are sorted and below all others
(`SelectedTo`), so that its middle is the median (`RankedIsSorted`). `TransformIsFourier`, from `SizeIsAPower` and `RootHasOrder`: after the stages done so
far a block of the buffer holds the transform of every so many samples, from the block's number
with its bits reversed on (`Stage`); a butterfly makes of two of them the one of both, because their
samples are the even and the odd ones of it (`SumPairs`) and half way round the circle is minus one
(`RoundTurns`). Equality is modulo the prime (`Alike`).

`Parts_proofs` proves the following, for every value of the constants of each part.

* `TapsAreCurrent`, from `PortsAssumption`: `WorkerInv` (what life of the worker goes with what
  the control plane does), `OpenInv` (a session with blocks is one that opened), `ListInv`, `SeqInv`
  (taps and what a head saw against the blocks run) and `PickInv` (a block that began after the
  selection is tapped with it).
* `CaptureIsReleased`, from `AdapterAssumption`: for every list of offers and length of a file.
  `UnitInv` is a table of which calls have which unit and callback state to release; `ThreadInv`
  says when a callback or the feeder may run; `FeedInv` where the next chunk of a file begins.
  That a stream is listed only if it opens needs the two exceptions that the property names:
  an Apple device of more than 64 channels, and rates that cpal listed for another number of
  channels.
* `LogIsTeed`, from `ThreadsAssumption`. `HoldInv`: stderr's lock is held from the printing of a
  line to the end of its call, the file's nested in it. `FileInv` and `LossInv`: the file and its
  buffer hold what stderr was given, but for the line being teed, or a prefix of it when no line was
  lost. `SafeInv`, that each returned call is on the disk, follows from these as long as the
  process lives, and is frozen by a kill. `ScopeInv`: a bag of fields is the merge of its scopes,
  the inner one winning.
* `FlushedFramesAreRecovered`: `LinesInv` says that every frame that ended has its line before
  the flushed end, `LeftInv` that what a process leaves behind is a prefix of the lines it wrote,
  perhaps with the next cut short, and not shorter than what it flushed.
* `ReplayFollowsTheRun`, for runs of any length, any set of scales and a coach that does
  anything at its port. The run: `CopyInv` (the decorator's buffer is what the frame has read,
  until it is recorded), `WrittenInv` (the lines of a frame are its inputs and, once recorded, its
  reads; a line after the flushed ones is of the frame in progress), `CursorInv` (the pointer goes
  where each frame's inputs take it) and `LiveMusicInv`: the events still to be told lead from the
  scale that the frames were told, and from the one that the head shows, to the one the coach has,
  for one sequence of scales `m`, the fold of the frames' events. The load: `LoadedInv`, that a
  bucket has what its frame had. The replay: `RestInv` (between two frames it is where the run was
  after as many, in `m` and in the pointer, and nothing is left over but its own listing of the
  devices), `ServedInv`, `ReadInv` and `ShownInv` (what one frame is served, finds and shows).
  They rest on what filtering a sequence and joining two do to each other (`AmongJoined`,
  `OfFrameJoined`, `MusicJoined`), each by induction on the length of a sequence.
* `FlushedIsKept`, `SessionsEndClean` and `ScreensKeepUp`, which `MCParts` composes, from these and
  from `PartsMoveAlone`: a step of one part leaves the others alone.

`Screens_proofs` proves `PaintKeepsUp`, for every order of the painters and every scene;
`GraphShowsTheHistory`, for every sequence of hops and every value of the projector's constants;
and `WidgetsShowTheState`. They rest on `LayoutAssumption`, `EarlyAssumption` and
`GraphAssumption` (capacities, half-life and octave are positive, slots lie in one octave).

* `PaintInv` says of each mesh whether it shows the scene of this frame or of the last, by the
  systems that the frame has still to run.
* `HistoryInv`: the times of the history never fall and lie between the cutoff and the newest, which
  is what makes an eviction a cut of the oldest (`EvictedAreTheOldest`); and a sample after one of
  another session is the first drained of its own, so that indices which follow are hops that follow,
  but for the exception (`IndicesTellTheHops`). `WindowMoves`: the window is one,
  and so the next has every voiced pitch, whether it grows, eases or jumps (`WindowHasAll`).
  `SceneWritten`: from the projection to the end of the frame the scene is the projection of the
  history. What a scene is follows from these three. `Grown` builds the runs of a history hop by hop,
  as pairs of positions; they are its maximal runs, each once and in turn (`RunsAreMaximal`), and the
  loops of `trace_segments` and `breath_spans` hold, after each hop, what is made of the runs that
  ended and of the one that is open (`Holding`). No point of a line is filtered out
  (`LineIsWhole`), as many points as are older than a time come before the pair around it
  (`StraddlingFits`), and the octaves of a slot between two quotients are those that reach into the
  window (`GroovesFill`).

`QuietInv`, of the widgets: one frame after the last
write no system has an unseen change other than those that systems derive; one more, and
nothing is unseen but the needle. Beside it each part has the invariant that a widget shows its
resources unless its system has a change of them still to see.

`Tonality_proofs` proves `HeadAndCoachAgree` for every tuning, catalogue, set of sung pitches and
bound, from `DefaultIsAScale`. `SentInv`: since the first visit of the game the last scale sent is
the song's, in the mailbox or held by the coach. `KnownInv`: what the head knows is what the
coach holds, or an answer will make it look. `DialInv`, `BlankInv` and `OverlayInv`: what is
drawn is what the head knows, or the painter that will draw it has not run.

It also proves `MusicAgrees`, from `TuningsClimb` and `ScalesClimb`: the pitches of a kind climb from
zero to less than an octave, every width steps up, and the default scale is on a line of a tuning.
`Closes` says of a list of gaps what everything else rests on: each is less than an octave and
together they are one. The gaps of every kind close (`KindCloses`, a telescoping sum), a rotation of
them does too (`RotatedIs`), lines climb and repeat at the octave (`LinesClimb`, `LinesRepeat`), so
none is nearer to a pitch than the one it resolves to, in any octave (`ResolveIs`), and a capture
of it turns the root by the way to that line, less the octave it may pass (`CaptureIs`). A mask is
finite and has the tonic; in order it climbs and is whole (`OrderIs`, by counting what lies below), so
its widths add up to it again (`WidthsSayTheMask`), its degrees climb over the octave (`SlotsClimb`),
and a needle on a tick lights no other (`TickIsCurrent`). `SongInv`, that a song's scale is such a mask on
a rotation of a tuning that closes, is kept by captures, picks and retunings.

`ProofFacts` has what several of them need. A statement about every position of a sequence, or
every value of a function defined by recursion, is proved there from the least natural number at
which it fails, with the statement as a set: the library's induction theorems take an operator as a
parameter, which no installed prover can instantiate.

Only model-checked: the six liveness properties and what needs ENABLED (out of the prover's
reach), and the violations.

## Not modelled

* **Floating point.** Parabolic interpolation of the pitch and of the
  vibrato's peak (`Dominates` compares the magnitude of the peak's bin, `dsp/node-vibrato/src/lib.rs:542`
  the interpolated one), detrending, the Hann window
  and phase of the vibrato, the logarithms and averages of onset and breath (any increasing
  function, one unit at a time), the conversion between Hz and octaves. The other nodes
  (gain, mixer, meters, pitch error, and the synthesisers of test signals) are to `EngineGraph`
  what any node is: an output computed from the inputs of a block.
* **Platform I/O.** What Core Audio, AVFoundation and cpal do inside a call, the property queries
  that list the Apple devices, cpal devices that mix numbers of channels in one offer.
* **Rendering.** Miters, alpha, gradients, pixels, the layout of menus, scrolling, the label of the
  hub, the HUD's wording.
* **The head at its edges.** The chosen device, the Quit button, the choice of a trace file,
  geometry and mark lines, `From` implementations and the fakes of the tests.
* **Contract.** `CoachSession` has the session; the payloads of the feature stream, the device
  and scale lists are in the modules that use them. That `ControlPlane` implements `CoachPort` is
  not shown: `CoachPort` was written from the same handlers, one step each.
* **Shutdown.** The caller's join with a timeout, and the watcher thread it starts.
* **Command line head, benches and tools.** They use the same port sequentially, and files.

Three hazards have no property: a burst of route changes that postpones the recovery for as
long as it lasts, which the code does not bound; a worker that dies while the session is Running,
which nothing promises to report; and an interruption queued before a recovery changes the
generation, where either outcome is allowed by the port.

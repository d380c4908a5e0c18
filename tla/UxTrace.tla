------------------------------- MODULE UxTrace -------------------------------
(***************************************************************************)
(* The UX flight recorder and its replay (coach-game/src/trace).           *)
(*                                                                         *)
(* A live run: the head reads its coach once per frame, a decorator copies *)
(* what it read into a buffer, and the recording systems turn a frame into *)
(* lines of a compressed file that is flushed once per frame.  The run     *)
(* ends by an exit, by a panic or by a kill.  A later process loads what   *)
(* is left and replays it: each frame it feeds the head the recorded       *)
(* inputs and coach reads, and keeps the live ones out.                    *)
(*                                                                         *)
(* The coach is outside: only what its port lets the head see is here, in  *)
(* the order ControlPlane and DataPlane publish it.  A feature snapshot is *)
(* its hop number, a scale is a name, and a frame's time step is left out. *)
(***************************************************************************)
EXTENDS Naturals, Sequences, FiniteSets, SequencesExt, Filtering

CONSTANTS Scales,        \* scales the head may configure
          MaxFrames,     \* frames of the live run
          MaxHops,       \* hops the coach produces
          MaxChanges     \* configurations, starts and stops of the session

ASSUME TraceBounds == {MaxFrames, MaxHops, MaxChanges} \subseteq Nat

VARIABLES
    coach,      \* the port: what the next polls will find
    frame_read,        \* the frame in progress: what the head has read of it
    saw,        \* history: what each finished live frame had read
    trace_buffer,     \* TraceBuffer, shared by the decorator and record_coach
    trace_lines,      \* the lines written so far
    flushed,    \* how many of them the last flush covers
    trace_file,       \* what the run left on disk
    loaded_trace,      \* LoadedTrace: one bucket per frame
    driver,     \* ReplayDriver
    replay_reads,    \* ReplayCoach
    trace_step        \* where the process is in its frame

live_run == <<coach, trace_buffer, trace_lines, flushed>>
replaying == <<loaded_trace, driver, replay_reads>>
trace_vars == <<coach, frame_read, saw, trace_buffer, trace_lines, flushed, trace_file,
                loaded_trace, driver, replay_reads, trace_step>>

NoScale == "none"
NoSnapshot == 0                 \* hops are numbered from 1
NoCursor == "none"

Configured(scale) == [kind |-> "MusicSessionConfigured", scale |-> scale]
StateChanged == [kind |-> "AudioSessionStateChanged"]
DevicesListed == [kind |-> "AudioDevicesListed"]
SyntheticListing == [kind |-> "AudioDevicesListed", device |-> "Replay Mic"]

(* Window events of one live frame: the pointer moves, or it leaves and a key goes down
   that decode_key does not know. *)
Moved == "CursorMoved"
Left == "CursorLeft"
InputBatches == {<<Moved>>, <<Left, "F1">>}
Decoded(inputs) == Among(inputs, {Moved, Left})

(* Where the pointer is after some window events. *)
CursorAfter(cursor, inputs) ==
    LET pointer[i \in 0..Len(inputs)] ==
            CASE i = 0 -> cursor
              [] i > 0 /\ inputs[i] = Moved -> "recorded"
              [] i > 0 /\ inputs[i] = Left -> NoCursor
              [] OTHER -> pointer[i - 1]
    IN pointer[Len(inputs)]

EmptyBuffer == [events |-> <<>>, latest |-> NoSnapshot, drained |-> <<>>, commands |-> <<>>]
EmptyRead == [events |-> <<>>, latest |-> NoSnapshot, drained |-> <<>>]
CoachRead(b) == [events |-> b.events, latest |-> b.latest, drained |-> b.drained]

RunLine == [f |-> 0, k |-> "run"]
FrameLine(f) == [f |-> f, k |-> "frame"]
InputLine(f, input) == [f |-> f, k |-> "input", input |-> input]
CoachLine(f, read) == [f |-> f, k |-> "coach", read |-> read]
CmdLine(f, cmd) == [f |-> f, k |-> "cmd", cmd |-> cmd]

frame_count == Len(saw)

(* A process that starts: a coach with no session, a head that has read nothing. *)
NewCoach == [music |-> NoScale, latest |-> NoSnapshot, hops |-> <<>>, events |-> <<>>,
             announcing |-> <<>>, running |-> FALSE, produced |-> 0, changes |-> 0]
NewHead == [inputs |-> <<>>, events |-> <<>>, latest |-> NoSnapshot, drained |-> <<>>,
            music |-> NoScale, cursor |-> NoCursor, listed |-> "no", settled |-> TRUE]

TraceInit ==
    /\ coach = NewCoach
    /\ frame_read = NewHead
    /\ saw = <<>>
    /\ trace_buffer = EmptyBuffer
    /\ trace_lines = <<RunLine>>
    /\ flushed = 0
    /\ trace_file = [lines |-> <<>>, torn |-> FALSE]
    /\ loaded_trace = <<>>
    /\ driver = [cursor |-> 1, serving |-> 0, replay_cursor |-> NoCursor, hold |-> FALSE]
    /\ replay_reads = [events |-> <<>>, latest |-> NoSnapshot, drained |-> <<>>,
                       music |-> NoScale]
    /\ trace_step = "first"

-----------------------------------------------------------------------------
(* The coach, on threads of its own, while the live run lasts. *)

Living == trace_step \in {"first", "poll", "apply", "latest", "drain", "record", "last"}

Change(event, publish) ==
    /\ Living
    /\ coach.changes < MaxChanges
    /\ coach.announcing = <<>>
    /\ coach' = [publish EXCEPT !.changes = @ + 1, !.announcing = <<event>>]
    /\ UNCHANGED <<frame_read, saw, trace_buffer, trace_lines, flushed, trace_file,
                   replaying, trace_step>>

(* do_configure_session: the snapshot is published before the event. *)
PublishMusic(scale) == Change(Configured(scale), [coach EXCEPT !.music = scale])

StartSession ==
    /\ ~coach.running
    /\ Change(StateChanged, [coach EXCEPT !.running = TRUE])

(* teardown_data_path clears the snapshot before the state is announced. *)
StopSession ==
    /\ coach.running
    /\ Change(StateChanged, [coach EXCEPT !.running = FALSE, !.latest = NoSnapshot])

Announce ==
    /\ Living
    /\ coach.announcing # <<>>
    /\ coach' = [coach EXCEPT !.events = @ \o coach.announcing, !.announcing = <<>>]
    /\ UNCHANGED <<frame_read, saw, trace_buffer, trace_lines, flushed, trace_file,
                   replaying, trace_step>>

ProduceHop ==
    /\ Living
    /\ coach.running
    /\ coach.produced < MaxHops
    /\ coach' = [coach EXCEPT !.produced = @ + 1, !.latest = coach.produced + 1,
                              !.hops = Append(@, coach.produced + 1)]
    /\ UNCHANGED <<frame_read, saw, trace_buffer, trace_lines, flushed, trace_file,
                   replaying, trace_step>>

-----------------------------------------------------------------------------
(* One frame of the live run. *)

(* First and the start of Update: the window system has queued the frame's events;
   record_frame and record_inputs write them down. *)
BeginFrame(inputs) ==
    /\ trace_step = "first"
    /\ frame_count < MaxFrames
    /\ trace_step' = "poll"
    /\ frame_read' = [frame_read EXCEPT !.inputs = inputs,
                                        !.cursor = CursorAfter(@, inputs),
                                        !.listed = "no"]
    /\ trace_lines' = trace_lines \o <<FrameLine(frame_count)>>
                      \o [i \in DOMAIN inputs |-> InputLine(frame_count, inputs[i])]
    /\ UNCHANGED <<coach, saw, trace_buffer, flushed, trace_file, replaying>>

(* A system other than the drain asks for the devices, before it or after it. *)
SendListDevices ==
    /\ trace_step \in {"poll", "record", "last"}
    /\ frame_read.listed = "no" /\ \A f \in DOMAIN saw : saw[f].listed = "no"
    /\ frame_read' = [frame_read EXCEPT
                        !.listed = IF trace_step = "poll" THEN "before" ELSE "after"]
    /\ trace_buffer' = [trace_buffer EXCEPT !.commands = Append(@, "AudioListDevices")]
    /\ coach' = [coach EXCEPT !.events = Append(@, DevicesListed)]
    /\ UNCHANGED <<saw, trace_lines, flushed, trace_file, replaying, trace_step>>

PollCoachEvents ==
    /\ trace_step = "poll"
    /\ trace_step' = "apply"
    /\ frame_read' = [frame_read EXCEPT !.events = coach.events]
    /\ trace_buffer' = [trace_buffer EXCEPT !.events = @ \o coach.events]
    /\ coach' = [coach EXCEPT !.events = <<>>]
    /\ UNCHANGED <<saw, trace_lines, flushed, trace_file, replaying>>

Configures(events) ==
    Among(events, {e \in Range(events) : e.kind = "MusicSessionConfigured"})

(* The head reads music_info() when it meets the event, not the event's own scale. *)
ApplyEvents ==
    /\ trace_step = "apply"
    /\ trace_step' = "latest"
    /\ frame_read' = [frame_read EXCEPT
                 !.music = IF Configures(frame_read.events) = <<>> THEN @ ELSE coach.music,
                 !.settled = Configures(coach.announcing \o coach.events) = <<>>]
    /\ UNCHANGED <<live_run, saw, trace_file, replaying>>

PollLatest ==
    /\ trace_step = "latest"
    /\ trace_step' = "drain"
    /\ frame_read' = [frame_read EXCEPT !.latest = coach.latest]
    /\ trace_buffer' = [trace_buffer EXCEPT !.latest = coach.latest]
    /\ UNCHANGED <<coach, saw, trace_lines, flushed, trace_file, replaying>>

DrainFeatures ==
    /\ trace_step = "drain"
    /\ trace_step' = "record"
    /\ frame_read' = [frame_read EXCEPT !.drained = coach.hops]
    /\ trace_buffer' = [trace_buffer EXCEPT !.drained = @ \o coach.hops]
    /\ coach' = [coach EXCEPT !.hops = <<>>]
    /\ UNCHANGED <<saw, trace_lines, flushed, trace_file, replaying>>

(* One coach line for a frame that read something, then one line per command. *)
RecordCoach ==
    /\ trace_step = "record"
    /\ trace_step' = "last"
    /\ trace_lines' = trace_lines
         \o (IF CoachRead(trace_buffer) = EmptyRead THEN <<>>
             ELSE <<CoachLine(frame_count, CoachRead(trace_buffer))>>)
         \o [i \in DOMAIN trace_buffer.commands |->
               CmdLine(frame_count, trace_buffer.commands[i])]
    /\ trace_buffer' = EmptyBuffer
    /\ UNCHANGED <<coach, frame_read, saw, flushed, trace_file, replaying>>

FlushWriter ==
    /\ trace_step = "last"
    /\ trace_step' = "first"
    /\ flushed' = Len(trace_lines)
    /\ saw' = Append(saw, frame_read)
    /\ UNCHANGED <<coach, frame_read, trace_buffer, trace_lines, trace_file, replaying>>

-----------------------------------------------------------------------------
(* The end of the run: its memory is gone, its file is left. *)

Leave(left) ==
    /\ trace_file' = left
    /\ trace_step' = "over"
    /\ coach' = NewCoach
    /\ frame_read' = NewHead
    /\ trace_buffer' = EmptyBuffer
    /\ UNCHANGED <<saw, trace_lines, flushed, replaying>>

(* AppExit: finish_writer closes the stream in Last, after the flush. *)
Exit == trace_step = "first" /\ saw # <<>> /\ Leave([lines |-> trace_lines, torn |-> FALSE])

(* A panic unwinds the World: the encoder's Drop finishes the stream. *)
Panic == Living /\ Leave([lines |-> trace_lines, torn |-> FALSE])

(* A kill runs no destructor: some of what was written since the last flush may have
   reached the file, its last line perhaps cut short. *)
Kill ==
    /\ Living
    /\ \E kept \in flushed..Len(trace_lines), torn \in BOOLEAN :
         /\ torn => kept < Len(trace_lines)
         /\ Leave([lines |-> SubSeq(trace_lines, 1, kept), torn |-> torn])

-----------------------------------------------------------------------------
(* Loading the file and replaying it. *)

(* Mutant of Decode: the unterminated tail is handed to the parser as a line. *)
DecodeWithTail(left) == [lines |-> left.lines, partial |-> left.torn]

(* decode_gz: a stream without its trailer is cut after its last newline. *)
Decode(left) == [lines |-> left.lines, partial |-> FALSE]

OfFrame(ls, f, k) == Among(ls, {l \in Range(ls) : l.f = f /\ l.k = k})

Bucket(ls, f) ==
    LET reads == OfFrame(ls, f, "coach")
        inputs == OfFrame(ls, f, "input")
    IN [coach |-> [i \in DOMAIN reads |-> reads[i].read],
        inputs |-> [i \in DOMAIN inputs |-> inputs[i].input]]

(* One bucket per frame that has a line, in the order of the frames. *)
Buckets(ls) ==
    LET frames == {ls[i].f : i \in DOMAIN ls}
        nth(k) == CHOOSE f \in frames : Cardinality({g \in frames : g <= f}) = k
    IN [k \in 1..Cardinality(frames) |-> Bucket(ls, nth(k))]

Load(hold) ==
    /\ trace_step = "over"
    /\ LET text == Decode(trace_file)
       IN IF text.lines = <<>> \/ text.partial
          THEN trace_step' = "refused" /\ UNCHANGED <<loaded_trace, driver>>
          ELSE /\ trace_step' = "drive"
               /\ loaded_trace' = Buckets(Tail(text.lines))
               /\ driver' = [driver EXCEPT !.hold = hold]
    /\ UNCHANGED <<live_run, frame_read, saw, trace_file, replay_reads>>

(* The scale in force after some events: the last one they configure. *)
MusicAfter(music, events) ==
    IF Configures(events) = <<>> THEN music ELSE Last(Configures(events)).scale

(* load_frame folds a configured scale before it queues the frame's reads. *)
LoadFrame(read) ==
    replay_reads' = [events |-> read.events, latest |-> read.latest, drained |-> read.drained,
                     music |-> MusicAfter(replay_reads.music, read.events)]

(* Mutant of ResetInputs: what the window system has queued is left in place. *)
KeepInputs(queued) == queued

(* InputWriters::reset: what the window system has queued is dropped. *)
ResetInputs(queued) == <<>>

(* Mutant of EnforceCursor: only a frame that moved the pointer sets it. *)
EnforceMovedCursor(pointer, replayed) ==
    IF replayed = driver.replay_cursor THEN pointer ELSE replayed

(* enforce_cursor: wherever the pointer is, the window has the replayed one. *)
EnforceCursor(pointer, replayed) == replayed

(* drive, in First: serve one frame, or nothing past the last one.  A person at the
   window may have moved the pointer over it. *)
Drive(stray) ==
    /\ trace_step = "drive"
    /\ trace_step' = "read"
    /\ LET past == driver.cursor > Len(loaded_trace)
           inputs == IF past THEN <<>> ELSE loaded_trace[driver.cursor].inputs
           coach_read == IF past THEN <<>> ELSE loaded_trace[driver.cursor].coach
           replayed == CursorAfter(driver.replay_cursor, inputs)
           pointer == IF stray = <<>> THEN frame_read.cursor ELSE "live"
       IN /\ frame_read' = [frame_read EXCEPT !.inputs = ResetInputs(stray) \o Decoded(inputs),
                                            !.cursor = EnforceCursor(pointer, replayed)]
          /\ driver' = [driver EXCEPT !.cursor = IF past THEN @ ELSE @ + 1,
                                      !.serving = IF past THEN 0 ELSE driver.cursor,
                                      !.replay_cursor = replayed]
          /\ IF coach_read = <<>> THEN UNCHANGED replay_reads
             ELSE LoadFrame(Last(coach_read))
    /\ UNCHANGED <<live_run, saw, trace_file, loaded_trace>>

(* ReplayCoach answers a request for the devices itself, and drops the others. *)
Answers(when) ==
    IF driver.serving \in DOMAIN saw /\ saw[driver.serving].listed = when
    THEN <<SyntheticListing>> ELSE <<>>

(* The head's own frame again, on what the replay serves: it sends what it sent. *)
ReadFrame ==
    /\ trace_step = "read"
    /\ trace_step' = "shown"
    /\ LET events == replay_reads.events \o Answers("before")
       IN frame_read' = [frame_read EXCEPT !.events = events, !.latest = replay_reads.latest,
                                      !.drained = replay_reads.drained,
                                      !.music = IF Configures(events) = <<>> THEN @
                                                ELSE replay_reads.music]
    /\ replay_reads' = [replay_reads EXCEPT !.events = Answers("after"), !.drained = <<>>]
    /\ UNCHANGED <<live_run, saw, trace_file, loaded_trace, driver>>

(* AppExit is written in the first frame past the horizon, unless --hold. *)
EndReplayedFrame ==
    /\ trace_step = "shown"
    /\ trace_step' = IF driver.serving = 0 /\ ~driver.hold THEN "ended" ELSE "drive"
    /\ UNCHANGED <<live_run, frame_read, saw, trace_file, replaying>>

-----------------------------------------------------------------------------
LiveStep ==
    \/ \E scale \in Scales : PublishMusic(scale)
    \/ StartSession \/ StopSession \/ Announce \/ ProduceHop
    \/ \E inputs \in InputBatches : BeginFrame(inputs)
    \/ SendListDevices
    \/ PollCoachEvents \/ ApplyEvents \/ PollLatest \/ DrainFeatures
    \/ RecordCoach \/ FlushWriter

ReplayStep ==
    \/ \E hold \in BOOLEAN : Load(hold)
    \/ \E stray \in {<<>>, <<Moved>>} : Drive(stray)
    \/ ReadFrame \/ EndReplayedFrame

TraceNext == LiveStep \/ Exit \/ Panic \/ Kill \/ ReplayStep
TraceSpec == TraceInit /\ [][TraceNext]_trace_vars

-----------------------------------------------------------------------------
(* Whatever ended the run, every line the last flush covers is in the file, the file
   holds lines in the order they were written and no others, and once one frame was
   flushed the load succeeds and has a bucket for every finished frame. *)
FlushedFramesAreRecovered ==
    trace_step \in {"over", "refused", "drive", "read", "shown", "ended"} =>
        /\ IsPrefix(SubSeq(trace_lines, 1, flushed), trace_file.lines)
        /\ IsPrefix(trace_file.lines, trace_lines)
        /\ trace_step = "refused" => flushed = 0
        /\ trace_step \notin {"over", "refused"} => Len(loaded_trace) >= Len(saw)

Recorded(events) == Among(events, Range(events) \ {SyntheticListing})

ReplayIsClosed ==
    trace_step \in {"read", "shown"} =>
        /\ frame_read.cursor # "live"
        /\ driver.serving = 0 => frame_read.inputs = <<>>

(* A replayed frame the run had finished shows the head the events and the hops it
   read live, in order, and the inputs it can decode; a snapshot that was live then;
   and, once no configuration is on its way, the same music.  And it is closed:
   nothing the person at the window does reaches the head, in the recorded frames or
   held past them. *)
ReplayFollowsTheRun ==
    /\ ReplayIsClosed
    /\ trace_step = "shown" /\ driver.serving \in DOMAIN saw =>
         LET was == saw[driver.serving]
         IN /\ Recorded(frame_read.events) = was.events
            /\ frame_read.drained = was.drained
            /\ frame_read.inputs = Decoded(was.inputs)
            /\ frame_read.cursor = was.cursor
            /\ was.latest # NoSnapshot => frame_read.latest = was.latest
            /\ was.settled => frame_read.music = was.music
=============================================================================

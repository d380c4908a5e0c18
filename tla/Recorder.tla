------------------------------ MODULE Recorder ------------------------------
(***************************************************************************)
(* The audio-trace recorder of one data-plane worker                       *)
(* (app-coach/src/audio_recorder.rs) and the three files it leaves under   *)
(* the session's prefix: the WAV, the feature sidecar and the manifest.    *)
(*                                                                         *)
(* The worker offers a block and then its hop, over a bounded channel and  *)
(* without ever blocking; a writer thread takes them off and writes them.  *)
(* This module has the operations of both; DataPlane says when the worker  *)
(* calls them.  A block or a hop is named by its hop index: the samples    *)
(* and the features themselves do not matter here.                         *)
(***************************************************************************)
EXTENDS Naturals, Sequences

CONSTANTS CHANNEL_CAPACITY,   \* messages the channel holds
          FLUSH_INTERVAL      \* blocks between two flushes of the WAV

ASSUME ChannelAssumption == CHANNEL_CAPACITY \in Nat \ {0}
ASSUME FlushAssumption == FLUSH_INTERVAL \in Nat \ {0}

VARIABLES
    recorder,            \* the worker's Option<Recorder>, and whether its sender is dropped
    channel,             \* messages in flight
    invalid,             \* the flag both threads may raise
    n_hops_sent,         \* hops the channel accepted
    writer,              \* the writer thread
    blocks_since_flush,  \* its counter
    wav,                 \* the WAV file: whose it is, its blocks, how many a reader would find
    sidecar,             \* the sidecar file: whose it is, its lines
    finalized,           \* both files were flushed and closed without an error
    manifest             \* the manifest file: whose it is, and the hops it claims

worker_side == <<recorder, n_hops_sent>>
files == <<wav, sidecar, finalized>>
recorder_vars == <<recorder, channel, invalid, n_hops_sent, writer, blocks_since_flush,
                   wav, sidecar, finalized, manifest>>

WriterMsg == [kind: {"Block", "Hop"}, hop: Nat]
Block(hop) == [kind |-> "Block", hop |-> hop]
Hop(hop) == [kind |-> "Hop", hop |-> hop]

(* No session has the number 0: it stands for a file that does not exist. *)
NoFile == 0
EmptyWav(session) == [of |-> session, blocks |-> <<>>, durable |-> 0]
EmptySidecar(session) == [of |-> session, hops |-> <<>>]
NoWav == EmptyWav(NoFile)
NoSidecar == EmptySidecar(NoFile)
NoManifest == [of |-> NoFile, n_hops |-> 0]

RecorderInit ==
    /\ recorder = "none"
    /\ channel = <<>>
    /\ invalid = FALSE
    /\ n_hops_sent = 0
    /\ writer = "none"
    /\ blocks_since_flush = 0
    /\ wav = NoWav
    /\ sidecar = NoSidecar
    /\ finalized = FALSE
    /\ manifest = NoManifest

-----------------------------------------------------------------------------
(* Recorder::new. *)

(* The directory or the WAV cannot be created: nothing was touched. *)
NoRecorder == UNCHANGED recorder_vars

(* The WAV was created, and an earlier one of the same prefix truncated, before the
   sidecar, or with it the writer thread, failed.  The worker goes on without. *)
HalfARecorder(session) ==
    /\ wav' = EmptyWav(session)
    /\ sidecar' \in {sidecar, EmptySidecar(session)}
    /\ finalized' = FALSE
    /\ UNCHANGED <<recorder, channel, invalid, n_hops_sent, writer, blocks_since_flush,
                   manifest>>

NewRecorder(session) ==
    /\ recorder' = "open"
    /\ channel' = <<>>
    /\ invalid' = FALSE
    /\ n_hops_sent' = 0
    /\ writer' = "running"
    /\ blocks_since_flush' = 0
    /\ wav' = EmptyWav(session)
    /\ sidecar' = EmptySidecar(session)
    /\ finalized' = FALSE
    /\ UNCHANGED manifest

-----------------------------------------------------------------------------
(* The worker's side. *)

Accepts == writer = "running" /\ Len(channel) < CHANNEL_CAPACITY

(* Mutant of TrySend: what the channel refuses is dropped and the run stays valid. *)
TrySendSilently(message) ==
    /\ channel' = IF Accepts THEN Append(channel, message) ELSE channel
    /\ UNCHANGED <<invalid, writer, blocks_since_flush, files, manifest>>

(* Mutant of TrySend: send, which waits for room. *)
TrySendBlocking(message) ==
    /\ Accepts \/ writer # "running"
    /\ channel' = IF Accepts THEN Append(channel, message) ELSE channel
    /\ UNCHANGED <<invalid, writer, blocks_since_flush, files, manifest>>

TrySend(message) ==
    /\ channel' = IF Accepts THEN Append(channel, message) ELSE channel
    /\ invalid' = (invalid \/ ~Accepts)
    /\ UNCHANGED <<writer, blocks_since_flush, files, manifest>>

RecordBlock(hop) ==
    \/ recorder = "none" /\ UNCHANGED recorder_vars
    \/ recorder = "open" /\ TrySend(Block(hop)) /\ UNCHANGED worker_side

RecordHop(hop) ==
    \/ recorder = "none" /\ UNCHANGED recorder_vars
    \/ /\ recorder = "open"
       /\ TrySend(Hop(hop))
       /\ n_hops_sent' = IF Accepts THEN n_hops_sent + 1 ELSE n_hops_sent
       /\ UNCHANGED recorder

(* Mutant of DropSender: the sender is still alive when the writer is joined. *)
DropSenderAfterJoin == recorder = "open" /\ UNCHANGED recorder_vars

(* join_writer, up to the join: the sender is dropped. *)
DropSender ==
    /\ recorder = "open"
    /\ recorder' = "joining"
    /\ UNCHANGED <<channel, invalid, n_hops_sent, writer, blocks_since_flush, files,
                   manifest>>

WriterHasExited == writer \in {"done", "panicked"}

(* The rest of join_writer, common to finish and Drop. *)
JoinWriter ==
    /\ recorder = "joining"
    /\ WriterHasExited
    /\ recorder' = "none"
    /\ writer' = "none"
    /\ invalid' = (invalid \/ writer = "panicked")
    /\ UNCHANGED <<channel, n_hops_sent, blocks_since_flush, files>>

(* finish: the manifest of a valid run.  Writing it may fail before or after the
   file was truncated; a torn manifest is one nothing can read. *)
Finish(session) ==
    /\ JoinWriter
    /\ manifest' \in IF invalid' THEN {manifest}
                     ELSE {manifest, NoManifest, [of |-> session, n_hops |-> n_hops_sent]}

(* Drop: the worker unwound; no manifest. *)
DropRecorder == JoinWriter /\ UNCHANGED manifest

-----------------------------------------------------------------------------
(* The writer thread. *)

(* Mutant of PeriodicFlush: the counter is reset although the flush failed and the
   run goes on. *)
PeriodicFlushIgnored(failed, blocks) ==
    LET due == blocks_since_flush + 1 >= FLUSH_INTERVAL IN
    /\ blocks_since_flush' = IF due THEN 0 ELSE blocks_since_flush + 1
    /\ invalid' = failed
    /\ \E flush_fails \in BOOLEAN :
        wav' = [of |-> wav.of, blocks |-> blocks,
                 durable |-> IF due /\ ~flush_fails THEN Len(blocks) ELSE wav.durable]

PeriodicFlush(failed, blocks) ==
    LET due == blocks_since_flush + 1 >= FLUSH_INTERVAL IN
    /\ blocks_since_flush' = IF due THEN 0 ELSE blocks_since_flush + 1
    /\ \E flush_fails \in {FALSE} \cup {due} :
        /\ invalid' = (failed \/ flush_fails)
        /\ wav' = [of |-> wav.of, blocks |-> blocks,
                 durable |-> IF due /\ ~flush_fails THEN Len(blocks) ELSE wav.durable]

(* A block that fails half-way is not told from one that was not written: the run is
   invalid.  The flush is due all the same. *)
WriteBlock(hop) ==
    /\ \E write_fails \in BOOLEAN :
        PeriodicFlush(write_fails, IF write_fails THEN wav.blocks ELSE Append(wav.blocks, hop))
    /\ UNCHANGED sidecar

WriteHop(hop) ==
    /\ \E write_fails \in BOOLEAN :
        /\ invalid' = write_fails
        /\ sidecar' = IF write_fails THEN sidecar
                      ELSE [of |-> sidecar.of, hops |-> Append(sidecar.hops, hop)]
    /\ UNCHANGED <<wav, blocks_since_flush>>

(* Once the run is invalid the writer only empties the channel. *)
WriterTakes ==
    /\ writer = "running"
    /\ channel # <<>>
    /\ channel' = Tail(channel)
    /\ LET message == Head(channel) IN
        \/ invalid /\ UNCHANGED <<invalid, wav, sidecar, blocks_since_flush>>
        \/ ~invalid /\ message.kind = "Block" /\ WriteBlock(message.hop)
        \/ ~invalid /\ message.kind = "Hop" /\ WriteHop(message.hop)
    /\ UNCHANGED <<worker_side, writer, finalized, manifest>>

(* The channel is closed and empty: flush the sidecar, finalize the WAV. *)
WriterFinalizes ==
    /\ writer = "running"
    /\ recorder = "joining"
    /\ channel = <<>>
    /\ writer' = "done"
    /\ \E sidecar_fails, wav_fails \in BOOLEAN :
        /\ invalid' = (invalid \/ sidecar_fails \/ wav_fails)
        /\ finalized' = (~sidecar_fails /\ ~wav_fails)
        /\ wav' = IF wav_fails THEN wav
                ELSE [of |-> wav.of, blocks |-> wav.blocks, durable |-> Len(wav.blocks)]
    /\ UNCHANGED <<worker_side, channel, blocks_since_flush, sidecar, manifest>>

(* What the channel held goes with its receiver; the files are left as they are. *)
WriterPanics ==
    /\ writer = "running"
    /\ writer' = "panicked"
    /\ channel' = <<>>
    /\ UNCHANGED <<worker_side, invalid, blocks_since_flush, files, manifest>>

WriterStep == WriterTakes \/ WriterFinalizes \/ WriterPanics

-----------------------------------------------------------------------------
RecorderTypeOK ==
    /\ recorder \in {"none", "open", "joining"}
    /\ channel \in Seq(WriterMsg) /\ Len(channel) <= CHANNEL_CAPACITY
    /\ invalid \in BOOLEAN
    /\ n_hops_sent \in Nat
    /\ writer \in {"none", "running", "done", "panicked"}
    /\ blocks_since_flush \in 0..(FLUSH_INTERVAL - 1)
    /\ wav \in [of: Nat, blocks: Seq(Nat), durable: Nat]
    /\ sidecar \in [of: Nat, hops: Seq(Nat)]
    /\ finalized \in BOOLEAN
    /\ manifest \in [of: Nat, n_hops: Nat]

(* A manifest vouches for its trace: when the WAV beside it is of the recording that
   the manifest describes, both files are complete and closed, the sidecar is of the
   same recording, and they hold exactly the hops the manifest counts, in order
   (finish, and the flag that both threads raise). *)
ManifestVouches ==
    manifest # NoManifest /\ manifest.of = wav.of =>
        /\ finalized
        /\ sidecar.of = wav.of
        /\ wav.blocks = [i \in 1..manifest.n_hops |-> i - 1]
        /\ sidecar.hops = [i \in 1..manifest.n_hops |-> i - 1]
        /\ wav.durable = manifest.n_hops

(* A process killed at any moment of a valid run leaves a WAV that lacks less than one
   flush interval of what the writer took (the periodic flush). *)
KillLosesOneInterval ==
    writer = "running" /\ ~invalid => Len(wav.blocks) - wav.durable < FLUSH_INTERVAL

(* Claimed at audio_recorder.rs:4-6 and in finish's own report, and violated: an
   invalid recording is left without a manifest, or with one that counts nothing at the
   most. *)
InvalidRunHasNoManifest ==
    recorder = "none" /\ invalid /\ wav.of # NoFile => manifest.n_hops = 0

=============================================================================

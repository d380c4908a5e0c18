-------------------------- MODULE DataPlane_proofs --------------------------
(***************************************************************************)
(* The safety of the data plane, for every ring, channel and queue         *)
(* capacity, block size, flush interval and bound on sessions and samples. *)
(***************************************************************************)
EXTENDS DataPlane, TLAPS, SequenceTheorems

(* Where the worker is in each phase of a session, and the capture with it. *)
WhereInv ==
    /\ control = "idle" => pc \in {"none", "exited"}
    /\ control = "joined" => pc = "exited"
    /\ pc = "none" => recorder = "none"
    /\ pc # "none" => session > 0
    /\ control # "idle" => pc # "none"
    /\ stream <=> control = "live"
    /\ in_callback => stream
    /\ ~in_callback => dropped = 0

(* The samples the worker has taken, and the scratch block between two hops. *)
Taken == hop_index * BLOCK_FRAMES

SampleInv ==
    /\ captured = ring + Taken + block + dropped + samples_dropped
    /\ pc = "pop" => block < BLOCK_FRAMES /\ block + ring >= BLOCK_FRAMES
    /\ pc \in {"record_block", "process", "record_hop", "publish"} => block = BLOCK_FRAMES
    /\ pc \in {"build", "new", "wait", "push"} => block = 0

(* s is a snapshot that was pushed, or refused, before now. *)
PushedBefore(s) ==
    \/ s.session < session
    \/ s.session = session /\ s.hop < hop_index /\ (pc = "push" => s.hop < hop_index - 1)

QueueInv ==
    /\ pc = "push" => hop_index > 0
    /\ hop_index > 0 /\ control # "idle" =>
          latest = [session |-> session, hop |-> hop_index - 1]
    /\ \A s \in published :
          s.session < session \/ (s.session = session /\ s.hop < hop_index)
    /\ heard = NoSnapshot \/ PushedBefore(heard)
    /\ \A i \in 1..Len(features) : PushedBefore(features[i]) /\ features[i].session > 0
    /\ HopsInOrder
    /\ OnlyOverflowLosesHops

(* The recorder and its writer are alive at the same points of the worker's loop, and
   every file is of this session or an earlier one. *)
RecorderInv ==
    /\ recorder = "none" => writer = "none"
    /\ recorder = "open" =>
          /\ writer \in {"running", "panicked"}
          /\ pc \in {"wait", "pop", "record_block", "process", "record_hop", "publish", "push"}
    /\ recorder = "joining" =>
          /\ writer \in {"running", "done", "panicked"}
          /\ pc \in {"finish", "unwind"}
    /\ pc = "finish" => recorder = "joining"
    /\ wav.of <= session /\ manifest.of <= session
    /\ pc \in {"build", "new"} => hop_index = 0 /\ wav.of < session /\ manifest.of < session
    /\ recorder # "none" => wav.of = session /\ sidecar.of = session /\ manifest.of < session
    /\ manifest.of = NoFile => manifest = NoManifest
    /\ pc = "none" => manifest = NoManifest

(* The messages the worker has offered. *)
Offered ==
    IF pc \in {"process", "record_hop", "unwind"} THEN 2 * hop_index + 1
    ELSE IF pc = "publish" THEN 2 * hop_index + 2 ELSE 2 * hop_index

HopsOffered == IF pc = "publish" THEN hop_index + 1 ELSE hop_index

UpTo(n) == [i \in 1..n |-> i - 1]

Written == Len(wav.blocks) + Len(sidecar.hops)

(* message is the n-th the worker offered, from 0. *)
IsOffer(message, n) ==
    /\ message.kind = "Block" => 2 * message.hop = n
    /\ message.kind = "Hop" => 2 * message.hop + 1 = n

(* While a run is valid, the files and then the channel hold what was offered, block and
   hop by turns. *)
ValidInv ==
    recorder # "none" /\ ~invalid /\ writer # "panicked" =>
        /\ wav.blocks = UpTo(Len(wav.blocks)) /\ sidecar.hops = UpTo(Len(sidecar.hops))
        /\ Len(wav.blocks) \in {Len(sidecar.hops), Len(sidecar.hops) + 1}
        /\ \A k \in 1..Len(channel) : IsOffer(channel[k], Written + k - 1)
        /\ Written + Len(channel) = Offered
        /\ n_hops_sent = HopsOffered
        /\ writer = "running" => Len(wav.blocks) - wav.durable = blocks_since_flush
        /\ writer = "done" => channel = <<>> /\ finalized /\ wav.durable = Len(wav.blocks)

(* What Append and Tail do to a sequence of known length. *)
LEMMA AppendShape ==
    ASSUME NEW S, NEW s \in Seq(S), NEW x \in S
    PROVE  /\ Append(s, x) \in Seq(S)
           /\ Len(s) \in Nat
           /\ Len(Append(s, x)) = Len(s) + 1
           /\ \A i \in 1..Len(s) : Append(s, x)[i] = s[i]
           /\ Append(s, x)[Len(s) + 1] = x
BY AppendProperties, LenProperties

LEMMA TailShape ==
    ASSUME NEW S, NEW s \in Seq(S), s # <<>>
    PROVE  /\ Len(s) \in Nat \ {0}
           /\ Head(s) = s[1] /\ Head(s) \in S
           /\ Tail(s) \in Seq(S)
           /\ Len(Tail(s)) = Len(s) - 1
           /\ \A i \in 1..(Len(s) - 1) : Tail(s)[i] = s[i + 1]
BY HeadTailProperties, LenProperties, EmptySeq


-----------------------------------------------------------------------------
USE RingAssumption, QueueAssumption, BoundAssumption, ChannelAssumption, FlushAssumption
USE DEF audio, worker, history, output, OutsideWorker, OutsideRecorder, worker_side, files,
        recorder_vars, WorkerGoes, NoFile, NoWav, NoSidecar, NoManifest, NoSnapshot, vars

(* The two kinds of conjuncts of TypeOK. *)
Flags ==
    /\ start_intent \in BOOLEAN
    /\ stream \in BOOLEAN
    /\ in_callback \in BOOLEAN
    /\ quit \in BOOLEAN
    /\ invalid \in BOOLEAN
    /\ finalized \in BOOLEAN

PlaneTypes ==
    /\ control \in {"idle", "opening", "live", "stopping", "joining", "joined"}
    /\ session \in 0..MaxSessions
    /\ dropped \in Nat /\ samples_dropped \in Nat
    /\ captured \in 0..MaxSamples
    /\ ring \in 0..RING_CAPACITY
    /\ pc \in {"none", "build", "new", "wait", "pop", "record_block", "process", "record_hop",
              "publish", "push", "finish", "unwind", "exited"}
    /\ block \in 0..BLOCK_FRAMES
    /\ hop_index \in Nat
    /\ latest \in Snapshot /\ heard \in Snapshot
    /\ features \in Seq(Snapshot) /\ Len(features) <= FEATURE_RING_CAPACITY
    /\ published \subseteq Snapshot /\ refused \subseteq Snapshot

TraceTypes ==
    /\ recorder \in {"none", "open", "joining"}
    /\ channel \in Seq(WriterMsg) /\ Len(channel) <= CHANNEL_CAPACITY
    /\ n_hops_sent \in Nat
    /\ writer \in {"none", "running", "done", "panicked"}
    /\ blocks_since_flush \in 0..(FLUSH_INTERVAL - 1)
    /\ wav \in [of: Nat, blocks: Seq(Nat), durable: Nat]
    /\ sidecar \in [of: Nat, hops: Seq(Nat)]
    /\ manifest \in [of: Nat, n_hops: Nat]


(* A file just created. *)
LEMMA EmptyFiles ==
    ASSUME NEW s \in Nat
    PROVE  /\ EmptyWav(s) \in [of: Nat, blocks: Seq(Nat), durable: Nat]
           /\ EmptySidecar(s) \in [of: Nat, hops: Seq(Nat)]
           /\ EmptyWav(s).of = s /\ EmptyWav(s).blocks = <<>> /\ EmptyWav(s).durable = 0
           /\ EmptySidecar(s).of = s /\ EmptySidecar(s).hops = <<>>
<1>1. <<>> \in Seq(Nat)
    BY EmptySeq
<1> QED
    BY <1>1 DEF EmptyWav, EmptySidecar

(* What the writer makes of the first message: it skips it in an invalid run, it fails,
   or it writes it, and flushes when that is due. *)
LEMMA WriterTakesShape ==
    ASSUME WriterTakes, TraceTypes
    PROVE  /\ writer = "running" /\ channel # <<>> /\ channel' = Tail(channel)
           /\ UNCHANGED <<recorder, n_hops_sent, writer, finalized, manifest>>
           /\ wav' \in [of: Nat, blocks: Seq(Nat), durable: Nat] /\ wav'.of = wav.of
           /\ sidecar' \in [of: Nat, hops: Seq(Nat)] /\ sidecar'.of = sidecar.of
           /\ blocks_since_flush' \in 0..(FLUSH_INTERVAL - 1)
           /\ ~invalid' =>
                /\ ~invalid
                /\ \/ /\ Head(channel).kind = "Block"
                      /\ sidecar' = sidecar
                      /\ wav'.blocks = Append(wav.blocks, Head(channel).hop)
                      /\ \/ /\ blocks_since_flush' = blocks_since_flush + 1
                            /\ wav'.durable = wav.durable
                         \/ /\ blocks_since_flush' = 0
                            /\ wav'.durable = Len(wav'.blocks)
                   \/ /\ Head(channel).kind = "Hop"
                      /\ wav' = wav /\ blocks_since_flush' = blocks_since_flush
                      /\ sidecar'.hops = Append(sidecar.hops, Head(channel).hop)
<1> DEFINE hop == Head(channel).hop
<1>1. /\ writer = "running" /\ channel # <<>> /\ channel' = Tail(channel)
      /\ UNCHANGED <<recorder, n_hops_sent, writer, finalized, manifest>>
    BY DEF WriterTakes
<1>2. hop \in Nat
    <2>1. channel \in Seq(WriterMsg)
        BY DEF TraceTypes
    <2>2. Head(channel) \in WriterMsg
        BY <1>1, <2>1, TailShape
    <2> QED
        BY <2>2 DEF WriterMsg
<1>3. wav.blocks \in Seq(Nat) /\ wav.durable \in Nat /\ wav.of \in Nat
      /\ sidecar.hops \in Seq(Nat) /\ sidecar.of \in Nat
      /\ wav = [of |-> wav.of, blocks |-> wav.blocks, durable |-> wav.durable]
    BY DEF TraceTypes
<1>4. /\ Append(wav.blocks, hop) \in Seq(Nat) /\ Len(Append(wav.blocks, hop)) \in Nat
      /\ Append(sidecar.hops, hop) \in Seq(Nat) /\ Len(wav.blocks) \in Nat
    BY <1>2, <1>3, AppendShape
<1>5. CASE invalid /\ UNCHANGED <<invalid, wav, sidecar, blocks_since_flush>>
    BY <1>1, <1>5 DEF TraceTypes
<1>6. CASE ~invalid /\ Head(channel).kind = "Block" /\ WriteBlock(hop)
    <2>1. PICK write_fails \in BOOLEAN :
            PeriodicFlush(write_fails,
                          IF write_fails THEN wav.blocks ELSE Append(wav.blocks, hop))
          /\ sidecar' = sidecar
        BY <1>6 DEF WriteBlock
    <2> DEFINE blocks == IF write_fails THEN wav.blocks ELSE Append(wav.blocks, hop)
               due == blocks_since_flush + 1 >= FLUSH_INTERVAL
    <2>2. blocks \in Seq(Nat) /\ Len(blocks) \in Nat
        BY <1>3, <1>4
    <2>3. PICK flush_fails \in {FALSE} \cup {due} :
            /\ blocks_since_flush' = IF due THEN 0 ELSE blocks_since_flush + 1
            /\ invalid' = (write_fails \/ flush_fails)
            /\ wav' = [of |-> wav.of, blocks |-> blocks,
                       durable |-> IF due /\ ~flush_fails THEN Len(blocks)
                                   ELSE wav.durable]
        BY <2>1 DEF PeriodicFlush
    <2>4. blocks_since_flush' \in 0..(FLUSH_INTERVAL - 1)
        BY <2>3 DEF TraceTypes
    <2> HIDE DEF blocks, due
    <2>5. wav' \in [of: Nat, blocks: Seq(Nat), durable: Nat] /\ wav'.of = wav.of
          /\ wav'.blocks = blocks
          /\ wav'.durable = IF due /\ ~flush_fails THEN Len(blocks) ELSE wav.durable
        BY <1>3, <2>2, <2>3
    <2>6. ~invalid' => ~write_fails /\ ~flush_fails
        BY <2>3
    <2>7. ~write_fails => blocks = Append(wav.blocks, hop)
        BY DEF blocks
    <2>8. ~flush_fails =>
            \/ blocks_since_flush' = blocks_since_flush + 1 /\ wav'.durable = wav.durable
            \/ blocks_since_flush' = 0 /\ wav'.durable = Len(wav'.blocks)
        BY <2>3, <2>5
    <2>9. sidecar \in [of: Nat, hops: Seq(Nat)]
        BY DEF TraceTypes
    <2> QED
        BY <1>1, <1>6, <2>1, <2>4, <2>5, <2>6, <2>7, <2>8, <2>9
<1>7. CASE ~invalid /\ Head(channel).kind = "Hop" /\ WriteHop(hop)
    <2>1. PICK write_fails \in BOOLEAN :
            /\ invalid' = write_fails
            /\ sidecar' = IF write_fails THEN sidecar
                          ELSE [of |-> sidecar.of, hops |-> Append(sidecar.hops, hop)]
            /\ UNCHANGED <<wav, blocks_since_flush>>
        BY <1>7 DEF WriteHop
    <2>2. sidecar' \in [of: Nat, hops: Seq(Nat)] /\ sidecar'.of = sidecar.of
          /\ (~write_fails => sidecar'.hops = Append(sidecar.hops, hop))
        BY <1>3, <1>4, <2>1 DEF TraceTypes
    <2> QED
        BY <1>1, <1>7, <2>1, <2>2 DEF TraceTypes
<1> QED
    BY <1>5, <1>6, <1>7 DEF WriterTakes

(* What an offer to the channel does. *)
LEMMA TrySendShape ==
    ASSUME TraceTypes, NEW message \in WriterMsg, TrySend(message)
    PROVE  /\ UNCHANGED <<writer, blocks_since_flush, wav, sidecar, finalized, manifest>>
           /\ channel' \in Seq(WriterMsg) /\ Len(channel') <= CHANNEL_CAPACITY
           /\ ~invalid' => ~invalid /\ Accepts /\ channel' = Append(channel, message)
<1>1. /\ UNCHANGED <<writer, blocks_since_flush, wav, sidecar, finalized, manifest>>
      /\ channel' = IF Accepts THEN Append(channel, message) ELSE channel
      /\ invalid' = (invalid \/ ~Accepts)
    BY DEF TrySend
<1>2. channel \in Seq(WriterMsg) /\ Len(channel) <= CHANNEL_CAPACITY
    BY DEF TraceTypes
<1>3. /\ Append(channel, message) \in Seq(WriterMsg)
      /\ Len(channel) \in Nat /\ Len(Append(channel, message)) = Len(channel) + 1
    BY <1>2, AppendShape
<1>4. CASE Accepts
    <2>1. channel' = Append(channel, message) /\ (~invalid' => ~invalid)
        BY <1>1, <1>4
    <2>2. Len(channel) < CHANNEL_CAPACITY
        BY <1>4 DEF Accepts
    <2> QED
        BY <1>1, <1>3, <1>4, <2>1, <2>2
<1>5. CASE ~Accepts
    BY <1>1, <1>2, <1>5
<1> QED
    BY <1>4, <1>5


(* A hop more is a block more. *)
LEMMA TakenShape ==
    ASSUME hop_index \in Nat
    PROVE  /\ Taken \in Nat
           /\ hop_index' = hop_index => Taken' = Taken
           /\ hop_index' = hop_index + 1 => Taken' = Taken + BLOCK_FRAMES
           /\ hop_index' = 0 => Taken' = 0
<1>1. BLOCK_FRAMES \in Nat
    OBVIOUS
<1>2. \A h, b \in Nat : h * b \in Nat /\ (h + 1) * b = h * b + b
    OBVIOUS
<1>3. \A b \in Nat : 0 * b = 0
    OBVIOUS
<1> QED
    BY <1>1, <1>2, <1>3 DEF Taken


(* The elements of a sequence. *)
LEMMA RangeShape ==
    ASSUME NEW S, NEW s \in Seq(S), NEW x
    PROVE  x \in Range(s) <=> \E i \in 1..Len(s) : x = s[i]
BY LenProperties DEF Range

(* Snapshots are ordered. *)
LEMMA BeforeTransitive ==
    ASSUME NEW r \in Snapshot, NEW s \in Snapshot, NEW t \in Snapshot, Before(r, s), Before(s, t)
    PROVE  Before(r, t)
BY DEF Snapshot, Before

(* Steps that neither compute, push nor drain a hop. *)
LEMMA QueueFrame ==
    ASSUME QueueInv, UNCHANGED <<session, hop_index, features, heard, published, refused>>,
           (pc # "push" /\ pc' # "push") \/ pc' = pc,
           (latest' = latest /\ (control = "idle" => control' = "idle")) \/ control' = "idle"
    PROVE  QueueInv'
BY DEF QueueInv, PushedBefore, HopsInOrder, OnlyOverflowLosesHops


(* One more hop at the end. *)
LEMMA UpToAppend ==
    ASSUME NEW n \in Nat
    PROVE  Len(UpTo(n)) = n /\ UpTo(n) \in Seq(Nat) /\ Append(UpTo(n), n) = UpTo(n + 1)
<1>1. UpTo(n) \in Seq(Nat) /\ Len(UpTo(n)) = n
    <2>1. UpTo(n) \in [1..n -> Nat]
        BY DEF UpTo
    <2> QED
        BY <2>1 DEF UpTo
<1>2. UpTo(n + 1) \in Seq(Nat) /\ Len(UpTo(n + 1)) = n + 1
    <2>1. UpTo(n + 1) \in [1..(n + 1) -> Nat]
        BY DEF UpTo
    <2> QED
        BY <2>1 DEF UpTo
<1>3. Append(UpTo(n), n) \in Seq(Nat) /\ Len(Append(UpTo(n), n)) = n + 1
    BY <1>1, AppendShape
<1>4. ASSUME NEW i \in 1..(n + 1)
      PROVE  Append(UpTo(n), n)[i] = UpTo(n + 1)[i]
    <2>1. CASE i \in 1..n
        <3>1. Append(UpTo(n), n)[i] = UpTo(n)[i]
            BY <1>1, <2>1, AppendShape
        <3> QED
            BY <2>1, <3>1 DEF UpTo
    <2>2. CASE i = n + 1
        <3>1. Append(UpTo(n), n)[i] = n
            BY <1>1, <2>2, AppendShape
        <3> QED
            BY <2>2, <3>1 DEF UpTo
    <2>3. i \in 1..n \/ i = n + 1
        OBVIOUS
    <2> QED
        BY <2>1, <2>2, <2>3
<1> QED
    BY <1>1, <1>2, <1>3, <1>4, SeqEqual

(* Two lengths add up. *)
LEMMA LengthsAdd ==
    ASSUME NEW s \in Seq(Nat), NEW t \in Seq(Nat)
    PROVE  Len(s) + Len(t) \in Nat
<1>1. Len(s) \in Nat
    BY LenProperties
<1>2. Len(t) \in Nat
    BY LenProperties
<1> QED
    BY <1>1, <1>2

(* An accepted offer goes after those before it. *)
LEMMA OfferShape ==
    ASSUME TraceTypes, NEW message \in WriterMsg, NEW n \in Nat,
           \A k \in 1..Len(channel) : IsOffer(channel[k], Written + k - 1),
           Written + Len(channel) = n, IsOffer(message, n),
           UNCHANGED <<wav, sidecar>>, channel' = Append(channel, message)
    PROVE  /\ (\A k \in 1..Len(channel) : IsOffer(channel[k], Written + k - 1))'
           /\ (Written + Len(channel) = n + 1)'
<1>1. channel \in Seq(WriterMsg) /\ wav.blocks \in Seq(Nat) /\ sidecar.hops \in Seq(Nat)
    BY DEF TraceTypes
<1>2. /\ Len(channel) \in Nat /\ Len(channel') = Len(channel) + 1
      /\ channel'[Len(channel) + 1] = message
      /\ \A k \in 1..Len(channel) : channel'[k] = channel[k]
    BY <1>1, AppendShape
<1>3. Written' = Written /\ Written \in Nat
    <2>1. Written' = Written
        BY DEF Written
    <2>2. Written \in Nat
        BY <1>1, LengthsAdd DEF Written
    <2> QED
        BY <2>1, <2>2
<1>4. ASSUME NEW k \in 1..Len(channel')
      PROVE  IsOffer(channel'[k], Written + k - 1)
    <2>1. CASE k \in 1..Len(channel)
        BY <1>2, <2>1
    <2>2. CASE k = Len(channel) + 1
        <3>1. Written + k - 1 = n
            BY <1>2, <1>3, <2>2
        <3> QED
            BY <1>2, <2>2, <3>1
    <2> QED
        BY <1>2, <2>1, <2>2
<1> QED
    BY <1>2, <1>3, <1>4 DEF IsOffer

(* Equal halves, when the two parts differ by at most one. *)
LEMMA Halves ==
    ASSUME NEW a \in Nat, NEW b \in Nat, NEW n \in Nat, a \in {b, b + 1}, a + b = 2 * n
    PROVE  a = n /\ b = n
OBVIOUS

(* Every step keeps the Boolean variables Boolean. *)
LEMMA FlagStep ==
    ASSUME Flags, [Next]_vars
    PROVE  Flags'
<1>quiet. ASSUME \/ UNCHANGED vars
                 \/ OpenFails
                 \/ JoinWorker
                 \/ ClearPublisher
                 \/ PushSample
                 \/ Build
                 \/ SeeBlock
                 \/ PopSample
                 \/ ProcessBlock
                 \/ ProcessPanics
                 \/ Publish
                 \/ PushFeature
                 \/ SeeQuit
                 \/ Drain
          PROVE  UNCHANGED <<start_intent, stream, in_callback, quit, invalid, finalized>>
    BY <1>quiet DEF
        OpenFails, JoinWorker, ClearPublisher, PushSample, Build, SeeBlock, PopSample,
        ProcessBlock, ProcessPanics, DropSender, Publish, PushFeature, SeeQuit, Drain
<1>kept. CASE UNCHANGED <<start_intent, stream, in_callback, quit, invalid, finalized>>
    BY <1>kept DEF Flags
<1>Start. ASSUME NEW recovery \in BOOLEAN, Start(recovery)
          PROVE  Flags'
    BY <1>Start DEF Start, Flags
<1>OpenSucceeds. CASE OpenSucceeds
    BY <1>OpenSucceeds DEF OpenSucceeds, Flags
<1>DropCapture. CASE DropCapture
    BY <1>DropCapture DEF DropCapture, Flags
<1>RaiseQuit. CASE RaiseQuit
    BY <1>RaiseQuit DEF RaiseQuit, Flags
<1>CallbackBegins. CASE CallbackBegins
    BY <1>CallbackBegins DEF CallbackBegins, Flags
<1>CallbackEnds. CASE CallbackEnds
    BY <1>CallbackEnds DEF CallbackEnds, Flags
<1>MakeRecorder. CASE MakeRecorder
    BY <1>MakeRecorder DEF MakeRecorder, NoRecorder, HalfARecorder, NewRecorder, Flags
<1>TapBlock. CASE TapBlock
    BY <1>TapBlock DEF TapBlock, RecordBlock, TrySend, Accepts, Block, Flags
<1>TapHop. CASE TapHop
    BY <1>TapHop DEF TapHop, RecordHop, TrySend, Accepts, Hop, Flags
<1>FinishRecorder. CASE FinishRecorder
    BY <1>FinishRecorder DEF FinishRecorder, Finish, JoinWriter, WriterHasExited, Flags
<1>Unwind. CASE Unwind
    BY <1>Unwind DEF Unwind, DropRecorder, JoinWriter, WriterHasExited, Flags
<1>WriterTakes. CASE WriterTakes /\ UNCHANGED OutsideRecorder
    BY <1>WriterTakes DEF WriterTakes, WriteBlock, WriteHop, PeriodicFlush, Flags
<1>WriterFinalizes. CASE WriterFinalizes /\ UNCHANGED OutsideRecorder
    BY <1>WriterFinalizes DEF WriterFinalizes, Flags
<1>WriterPanics. CASE WriterPanics /\ UNCHANGED OutsideRecorder
    BY <1>WriterPanics DEF WriterPanics, Flags
<1> QED
    BY <1>quiet, <1>kept, <1>Start, <1>OpenSucceeds, <1>DropCapture, <1>RaiseQuit,
       <1>CallbackBegins, <1>CallbackEnds, <1>MakeRecorder, <1>TapBlock, <1>TapHop,
       <1>FinishRecorder, <1>Unwind, <1>WriterTakes, <1>WriterFinalizes, <1>WriterPanics
    DEF Next, ControlStep, AudioStep, WorkerStep, Writes, WriterStep

(* Every step keeps the types of the plane; SampleInv is what bounds the ring and the
   block. *)
LEMMA PlaneTypeStep ==
    ASSUME PlaneTypes, SampleInv, QueueInv, [Next]_vars
    PROVE  PlaneTypes'
<1>quiet. ASSUME \/ UNCHANGED vars
                 \/ CallbackBegins
                 \/ (WriterTakes /\ UNCHANGED OutsideRecorder)
                 \/ (WriterFinalizes /\ UNCHANGED OutsideRecorder)
                 \/ (WriterPanics /\ UNCHANGED OutsideRecorder)
          PROVE  UNCHANGED <<control, session, dropped, samples_dropped, captured, ring,
                             worker, output>>
    BY <1>quiet DEF
        CallbackBegins, WriterTakes, WriteBlock, WriteHop, PeriodicFlush, WriterFinalizes,
        WriterPanics
<1>kept. CASE UNCHANGED <<control, session, dropped, samples_dropped, captured, ring,
                          worker, output>>
    BY <1>kept DEF PlaneTypes
<1>Start. ASSUME NEW recovery \in BOOLEAN, Start(recovery)
          PROVE  PlaneTypes'
    BY <1>Start DEF Start, PlaneTypes
<1>OpenSucceeds. CASE OpenSucceeds
    BY <1>OpenSucceeds DEF OpenSucceeds, PlaneTypes
<1>OpenFails. CASE OpenFails
    BY <1>OpenFails DEF OpenFails, PlaneTypes
<1>DropCapture. CASE DropCapture
    BY <1>DropCapture DEF DropCapture, PlaneTypes
<1>RaiseQuit. CASE RaiseQuit
    BY <1>RaiseQuit DEF RaiseQuit, PlaneTypes
<1>JoinWorker. CASE JoinWorker
    BY <1>JoinWorker DEF JoinWorker, PlaneTypes
<1>ClearPublisher. CASE ClearPublisher
    BY <1>ClearPublisher DEF ClearPublisher, PlaneTypes, Snapshot
<1>PushSample. CASE PushSample
    <2>1. UNCHANGED <<control, session, samples_dropped, worker, output>>
        BY <1>PushSample DEF PushSample
    <2>2. captured < MaxSamples /\ captured' = captured + 1
        BY <1>PushSample DEF PushSample
    <2>3. \/ ring < RING_CAPACITY /\ ring' = ring + 1 /\ dropped' = dropped
          \/ dropped' = dropped + 1 /\ ring' = ring
        BY <1>PushSample DEF PushSample
    <2> QED
        BY <2>1, <2>2, <2>3 DEF PlaneTypes
<1>CallbackEnds. CASE CallbackEnds
    BY <1>CallbackEnds DEF CallbackEnds, PlaneTypes
<1>Build. CASE Build
    BY <1>Build DEF Build, PlaneTypes
<1>MakeRecorder. CASE MakeRecorder
    BY <1>MakeRecorder DEF MakeRecorder, NoRecorder, HalfARecorder, NewRecorder, PlaneTypes
<1>SeeBlock. CASE SeeBlock
    BY <1>SeeBlock DEF SeeBlock, PlaneTypes
<1>PopSample. CASE PopSample
    BY <1>PopSample DEF PopSample, PlaneTypes, SampleInv
<1>TapBlock. CASE TapBlock
    BY <1>TapBlock DEF TapBlock, RecordBlock, TrySend, Accepts, Block, PlaneTypes
<1>ProcessBlock. CASE ProcessBlock
    BY <1>ProcessBlock DEF ProcessBlock, PlaneTypes
<1>ProcessPanics. CASE ProcessPanics
    BY <1>ProcessPanics DEF ProcessPanics, DropSender, PlaneTypes
<1>TapHop. CASE TapHop
    BY <1>TapHop DEF TapHop, RecordHop, TrySend, Accepts, Hop, PlaneTypes
<1>Publish. CASE Publish
    BY <1>Publish DEF Publish, PlaneTypes, Snapshot
<1>PushFeature. CASE PushFeature
    <2> DEFINE snapshot == [session |-> session, hop |-> hop_index - 1]
    <2>1. UNCHANGED <<control, session, dropped, samples_dropped, captured, ring, block,
                      hop_index, latest, heard, published>> /\ pc' = "wait"
        BY <1>PushFeature DEF PushFeature
    <2>2. snapshot \in Snapshot
        BY <1>PushFeature DEF PushFeature, PlaneTypes, QueueInv, Snapshot
    <2>3. \/ /\ Len(features) < FEATURE_RING_CAPACITY
             /\ features' = Append(features, snapshot) /\ refused' = refused
          \/ refused' = refused \cup {snapshot} /\ features' = features
        BY <1>PushFeature DEF PushFeature
    <2>4. features \in Seq(Snapshot) /\ Len(features) <= FEATURE_RING_CAPACITY
        BY DEF PlaneTypes
    <2> HIDE DEF snapshot
    <2>5. features' \in Seq(Snapshot) /\ Len(features') <= FEATURE_RING_CAPACITY
        BY <2>2, <2>3, <2>4, AppendShape
    <2>6. refused' \subseteq Snapshot
        BY <2>2, <2>3 DEF PlaneTypes
    <2> QED
        BY <2>1, <2>5, <2>6 DEF PlaneTypes
<1>SeeQuit. CASE SeeQuit
    BY <1>SeeQuit DEF SeeQuit, DropSender, PlaneTypes
<1>FinishRecorder. CASE FinishRecorder
    BY <1>FinishRecorder DEF FinishRecorder, Finish, JoinWriter, WriterHasExited, PlaneTypes
<1>Unwind. CASE Unwind
    BY <1>Unwind DEF Unwind, DropRecorder, JoinWriter, WriterHasExited, PlaneTypes
<1>Drain. CASE Drain
    <2>1. UNCHANGED <<control, session, dropped, samples_dropped, captured, ring, worker,
                      latest, published, refused>>
        BY <1>Drain DEF Drain
    <2>2. features # <<>> /\ heard' = Head(features) /\ features' = Tail(features)
        BY <1>Drain DEF Drain
    <2>3. features \in Seq(Snapshot) /\ Len(features) <= FEATURE_RING_CAPACITY
        BY DEF PlaneTypes
    <2>4. heard' \in Snapshot /\ features' \in Seq(Snapshot)
          /\ Len(features') <= FEATURE_RING_CAPACITY
        BY <2>2, <2>3, TailShape
    <2> QED
        BY <2>1, <2>4 DEF PlaneTypes
<1> QED
    BY <1>quiet, <1>kept, <1>Start, <1>OpenSucceeds, <1>OpenFails, <1>DropCapture, <1>RaiseQuit,
       <1>JoinWorker, <1>ClearPublisher, <1>PushSample, <1>CallbackEnds, <1>Build,
       <1>MakeRecorder, <1>SeeBlock, <1>PopSample, <1>TapBlock, <1>ProcessBlock, <1>ProcessPanics,
       <1>TapHop, <1>Publish, <1>PushFeature, <1>SeeQuit, <1>FinishRecorder, <1>Unwind, <1>Drain
    DEF Next, ControlStep, AudioStep, WorkerStep, Writes, WriterStep

(* Every step keeps the types of the recorder. *)
LEMMA TraceTypeStep ==
    ASSUME TraceTypes, Flags, PlaneTypes, [Next]_vars
    PROVE  TraceTypes'
<1>quiet. ASSUME \/ UNCHANGED vars
                 \/ OpenSucceeds
                 \/ OpenFails
                 \/ DropCapture
                 \/ RaiseQuit
                 \/ JoinWorker
                 \/ ClearPublisher
                 \/ CallbackBegins
                 \/ PushSample
                 \/ CallbackEnds
                 \/ Build
                 \/ SeeBlock
                 \/ PopSample
                 \/ ProcessBlock
                 \/ Publish
                 \/ PushFeature
                 \/ Drain
          PROVE  UNCHANGED <<recorder_vars>>
    BY <1>quiet DEF
        OpenSucceeds, OpenFails, DropCapture, RaiseQuit, JoinWorker, ClearPublisher,
        CallbackBegins, PushSample, CallbackEnds, Build, SeeBlock, PopSample, ProcessBlock,
        Publish, PushFeature, Drain
<1>kept. CASE UNCHANGED <<recorder_vars>>
    BY <1>kept DEF TraceTypes
<1>Start. ASSUME NEW recovery \in BOOLEAN, Start(recovery)
          PROVE  TraceTypes'
    <2>1. UNCHANGED <<recorder, channel, n_hops_sent, writer, blocks_since_flush>>
          /\ wav' \in {wav, NoWav} /\ sidecar' \in {sidecar, NoSidecar}
          /\ manifest' \in {manifest, NoManifest}
        BY <1>Start DEF Start
    <2> QED
        BY <2>1, EmptyFiles DEF TraceTypes
<1>MakeRecorder. CASE MakeRecorder
    <2>1. session \in Nat
        BY DEF PlaneTypes
    <2>2. /\ wav' \in {wav, EmptyWav(session)} /\ sidecar' \in {sidecar, EmptySidecar(session)}
          /\ manifest' = manifest /\ recorder' \in {recorder, "open"}
          /\ channel' \in {channel, <<>>} /\ n_hops_sent' \in {n_hops_sent, 0}
          /\ writer' \in {writer, "running"}
          /\ blocks_since_flush' \in {blocks_since_flush, 0}
        BY <1>MakeRecorder DEF MakeRecorder, NoRecorder, HalfARecorder, NewRecorder
    <2>3. <<>> \in Seq(WriterMsg) /\ Len(<<>>) = 0
        BY EmptySeq
    <2>4. channel' \in Seq(WriterMsg) /\ Len(channel') <= CHANNEL_CAPACITY
        <3>1. CASE channel' = channel
            BY <3>1 DEF TraceTypes
        <3>2. CASE channel' = <<>>
            BY <2>3, <3>2
        <3> QED
            BY <2>2, <3>1, <3>2
    <2>5. /\ wav' \in [of: Nat, blocks: Seq(Nat), durable: Nat]
          /\ sidecar' \in [of: Nat, hops: Seq(Nat)]
        BY <2>1, <2>2, EmptyFiles DEF TraceTypes
    <2>6. manifest' \in [of: Nat, n_hops: Nat] /\ recorder' \in {"none", "open", "joining"}
          /\ writer' \in {"none", "running", "done", "panicked"}
        BY <2>2 DEF TraceTypes
    <2>7. n_hops_sent' \in Nat /\ blocks_since_flush' \in 0..(FLUSH_INTERVAL - 1)
        BY <2>2 DEF TraceTypes
    <2> QED
        BY ONLY <2>4, <2>5, <2>6, <2>7 DEF TraceTypes
<1>TapBlock. CASE TapBlock
    <2>1. CASE recorder = "none" /\ UNCHANGED recorder_vars
        BY <2>1 DEF TraceTypes
    <2>2. CASE recorder = "open" /\ TrySend(Block(hop_index)) /\ UNCHANGED worker_side
        <3>1. Block(hop_index) \in WriterMsg
            BY DEF Block, WriterMsg, PlaneTypes
        <3> QED
            BY <2>2, <3>1, TrySendShape DEF TraceTypes
    <2> QED
        BY <1>TapBlock, <2>1, <2>2 DEF TapBlock, RecordBlock
<1>TapHop. CASE TapHop
    <2>1. CASE recorder = "none" /\ UNCHANGED recorder_vars
        BY <2>1 DEF TraceTypes
    <2>2. CASE /\ recorder = "open" /\ TrySend(Hop(hop_index)) /\ UNCHANGED recorder
               /\ n_hops_sent' \in {n_hops_sent, n_hops_sent + 1}
        <3>1. Hop(hop_index) \in WriterMsg
            BY DEF Hop, WriterMsg, PlaneTypes
        <3> QED
            BY <2>2, <3>1, TrySendShape DEF TraceTypes
    <2> QED
        BY <1>TapHop, <2>1, <2>2 DEF TapHop, RecordHop
<1>ProcessPanics. CASE ProcessPanics
    BY <1>ProcessPanics DEF ProcessPanics, DropSender, TraceTypes
<1>SeeQuit. CASE SeeQuit
    BY <1>SeeQuit DEF SeeQuit, DropSender, TraceTypes
<1>FinishRecorder. CASE FinishRecorder
    <2>1. UNCHANGED <<channel, n_hops_sent, blocks_since_flush, wav, sidecar>>
          /\ recorder' = "none" /\ writer' = "none"
        BY <1>FinishRecorder DEF FinishRecorder, Finish, JoinWriter
    <2>2. manifest' \in {manifest, NoManifest, [of |-> session, n_hops |-> n_hops_sent]}
        BY <1>FinishRecorder DEF FinishRecorder, Finish
    <2> QED
        BY <2>1, <2>2 DEF TraceTypes, PlaneTypes
<1>Unwind. CASE Unwind
    BY <1>Unwind DEF Unwind, DropRecorder, JoinWriter, WriterHasExited, TraceTypes
<1>WriterTakes. CASE WriterTakes /\ UNCHANGED OutsideRecorder
    <2>1. channel' \in Seq(WriterMsg) /\ Len(channel') <= CHANNEL_CAPACITY
        <3>1. channel \in Seq(WriterMsg) /\ Len(channel) <= CHANNEL_CAPACITY
            BY DEF TraceTypes
        <3>2. channel # <<>> /\ channel' = Tail(channel)
            BY <1>WriterTakes, WriterTakesShape
        <3> QED
            BY <3>1, <3>2, TailShape
    <2> QED
        BY <1>WriterTakes, <2>1, WriterTakesShape DEF TraceTypes
<1>WriterFinalizes. CASE WriterFinalizes /\ UNCHANGED OutsideRecorder
    <2>1. UNCHANGED <<recorder, n_hops_sent, channel, blocks_since_flush, sidecar, manifest>>
          /\ writer' = "done"
        BY <1>WriterFinalizes DEF WriterFinalizes
    <2>2. wav' \in {wav, [of |-> wav.of, blocks |-> wav.blocks, durable |-> Len(wav.blocks)]}
        BY <1>WriterFinalizes DEF WriterFinalizes
    <2>3. wav' \in [of: Nat, blocks: Seq(Nat), durable: Nat]
        BY <2>2, LenProperties DEF TraceTypes
    <2> QED
        BY <2>1, <2>3 DEF TraceTypes
<1>WriterPanics. CASE WriterPanics /\ UNCHANGED OutsideRecorder
    BY <1>WriterPanics DEF WriterPanics, TraceTypes
<1> QED
    BY <1>quiet, <1>kept, <1>Start, <1>MakeRecorder, <1>TapBlock, <1>TapHop, <1>ProcessPanics,
       <1>SeeQuit, <1>FinishRecorder, <1>Unwind, <1>WriterTakes, <1>WriterFinalizes,
       <1>WriterPanics
    DEF Next, ControlStep, AudioStep, WorkerStep, Writes, WriterStep

(* The phases of the session, the worker and the capture stay in step. *)
LEMMA WhereStep ==
    ASSUME PlaneTypes, WhereInv, RecorderInv, [Next]_vars
    PROVE  WhereInv'
<1>quiet. ASSUME \/ UNCHANGED vars
                 \/ Drain
                 \/ (WriterTakes /\ UNCHANGED OutsideRecorder)
                 \/ (WriterFinalizes /\ UNCHANGED OutsideRecorder)
                 \/ (WriterPanics /\ UNCHANGED OutsideRecorder)
          PROVE  UNCHANGED <<control, session, pc, recorder, stream, in_callback, dropped>>
    BY <1>quiet DEF
        Drain, WriterTakes, WriteBlock, WriteHop, PeriodicFlush, WriterFinalizes,
        WriterPanics
<1>kept. CASE UNCHANGED <<control, session, pc, recorder, stream, in_callback, dropped>>
    BY <1>kept DEF WhereInv
<1>Start. ASSUME NEW recovery \in BOOLEAN, Start(recovery)
          PROVE  WhereInv'
    BY <1>Start DEF Start, WhereInv, PlaneTypes
<1>OpenSucceeds. CASE OpenSucceeds
    BY <1>OpenSucceeds DEF OpenSucceeds, WhereInv
<1>OpenFails. CASE OpenFails
    BY <1>OpenFails DEF OpenFails, WhereInv
<1>DropCapture. CASE DropCapture
    BY <1>DropCapture DEF DropCapture, WhereInv
<1>RaiseQuit. CASE RaiseQuit
    BY <1>RaiseQuit DEF RaiseQuit, WhereInv
<1>JoinWorker. CASE JoinWorker
    BY <1>JoinWorker DEF JoinWorker, WhereInv
<1>ClearPublisher. CASE ClearPublisher
    BY <1>ClearPublisher DEF ClearPublisher, WhereInv
<1>CallbackBegins. CASE CallbackBegins
    BY <1>CallbackBegins DEF CallbackBegins, WhereInv
<1>PushSample. CASE PushSample
    BY <1>PushSample DEF PushSample, WhereInv
<1>CallbackEnds. CASE CallbackEnds
    BY <1>CallbackEnds DEF CallbackEnds, WhereInv
<1>Build. CASE Build
    BY <1>Build DEF Build, WhereInv
<1>MakeRecorder. CASE MakeRecorder
    BY <1>MakeRecorder DEF MakeRecorder, NoRecorder, HalfARecorder, NewRecorder, WhereInv
<1>SeeBlock. CASE SeeBlock
    BY <1>SeeBlock DEF SeeBlock, WhereInv
<1>PopSample. CASE PopSample
    BY <1>PopSample DEF PopSample, WhereInv
<1>TapBlock. CASE TapBlock
    BY <1>TapBlock DEF TapBlock, RecordBlock, TrySend, Accepts, Block, WhereInv
<1>ProcessBlock. CASE ProcessBlock
    BY <1>ProcessBlock DEF ProcessBlock, WhereInv
<1>ProcessPanics. CASE ProcessPanics
    BY <1>ProcessPanics DEF ProcessPanics, DropSender, WhereInv
<1>TapHop. CASE TapHop
    BY <1>TapHop DEF TapHop, RecordHop, TrySend, Accepts, Hop, WhereInv
<1>Publish. CASE Publish
    BY <1>Publish DEF Publish, WhereInv
<1>PushFeature. CASE PushFeature
    BY <1>PushFeature DEF PushFeature, WhereInv
<1>SeeQuit. CASE SeeQuit
    BY <1>SeeQuit DEF SeeQuit, DropSender, WhereInv
<1>FinishRecorder. CASE FinishRecorder
    BY <1>FinishRecorder DEF FinishRecorder, Finish, JoinWriter, WriterHasExited, WhereInv
<1>Unwind. CASE Unwind
    BY <1>Unwind DEF Unwind, DropRecorder, JoinWriter, WriterHasExited, WhereInv
<1> QED
    BY <1>quiet, <1>kept, <1>Start, <1>OpenSucceeds, <1>OpenFails, <1>DropCapture, <1>RaiseQuit,
       <1>JoinWorker, <1>ClearPublisher, <1>CallbackBegins, <1>PushSample, <1>CallbackEnds,
       <1>Build, <1>MakeRecorder, <1>SeeBlock, <1>PopSample, <1>TapBlock, <1>ProcessBlock,
       <1>ProcessPanics, <1>TapHop, <1>Publish, <1>PushFeature, <1>SeeQuit, <1>FinishRecorder,
       <1>Unwind
    DEF Next, ControlStep, AudioStep, WorkerStep, Writes, WriterStep

(* Every sample is accounted for: only a push and a pop move one. *)
LEMMA SampleStep ==
    ASSUME PlaneTypes, WhereInv, SampleInv, [Next]_vars
    PROVE  SampleInv'
<1>quiet. ASSUME \/ UNCHANGED vars
                 \/ OpenSucceeds
                 \/ OpenFails
                 \/ DropCapture
                 \/ RaiseQuit
                 \/ JoinWorker
                 \/ ClearPublisher
                 \/ Drain
                 \/ (WriterTakes /\ UNCHANGED OutsideRecorder)
                 \/ (WriterFinalizes /\ UNCHANGED OutsideRecorder)
                 \/ (WriterPanics /\ UNCHANGED OutsideRecorder)
          PROVE  UNCHANGED <<captured, ring, hop_index, block, dropped, samples_dropped, pc>>
    BY <1>quiet DEF
        OpenSucceeds, OpenFails, DropCapture, RaiseQuit, JoinWorker, ClearPublisher, Drain,
        WriterTakes, WriteBlock, WriteHop, PeriodicFlush, WriterFinalizes, WriterPanics
<1>kept. CASE UNCHANGED <<captured, ring, hop_index, block, dropped, samples_dropped, pc>>
    BY <1>kept, TakenShape DEF SampleInv, PlaneTypes, WhereInv
<1>Start. ASSUME NEW recovery \in BOOLEAN, Start(recovery)
          PROVE  SampleInv'
    BY <1>Start, TakenShape DEF Start, SampleInv, PlaneTypes, WhereInv
<1>CallbackBegins. CASE CallbackBegins
    BY <1>CallbackBegins, TakenShape DEF CallbackBegins, SampleInv, PlaneTypes, WhereInv
<1>PushSample. CASE PushSample
    <2>1. UNCHANGED <<samples_dropped, hop_index, block, pc>> /\ captured' = captured + 1
        BY <1>PushSample DEF PushSample
    <2>2. \/ ring' = ring + 1 /\ dropped' = dropped
          \/ dropped' = dropped + 1 /\ ring' = ring
        BY <1>PushSample DEF PushSample
    <2>3. Taken \in Nat /\ Taken' = Taken
        BY <2>1, TakenShape DEF PlaneTypes
    <2>4. /\ captured \in Nat /\ ring \in Nat /\ dropped \in Nat
          /\ samples_dropped \in Nat /\ block \in Nat
        BY DEF PlaneTypes
    <2> QED
        BY <2>1, <2>2, <2>3, <2>4 DEF SampleInv
<1>CallbackEnds. CASE CallbackEnds
    BY <1>CallbackEnds, TakenShape DEF CallbackEnds, SampleInv, PlaneTypes, WhereInv
<1>Build. CASE Build
    BY <1>Build, TakenShape DEF Build, SampleInv, PlaneTypes, WhereInv
<1>MakeRecorder. CASE MakeRecorder
    BY <1>MakeRecorder, TakenShape
    DEF MakeRecorder, NoRecorder, HalfARecorder, NewRecorder, SampleInv, PlaneTypes,
        WhereInv
<1>SeeBlock. CASE SeeBlock
    BY <1>SeeBlock, TakenShape DEF SeeBlock, SampleInv, PlaneTypes, WhereInv
<1>PopSample. CASE PopSample
    BY <1>PopSample, TakenShape DEF PopSample, SampleInv, PlaneTypes, WhereInv
<1>TapBlock. CASE TapBlock
    BY <1>TapBlock, TakenShape
    DEF TapBlock, RecordBlock, TrySend, Accepts, Block, SampleInv, PlaneTypes, WhereInv
<1>ProcessBlock. CASE ProcessBlock
    BY <1>ProcessBlock, TakenShape DEF ProcessBlock, SampleInv, PlaneTypes, WhereInv
<1>ProcessPanics. CASE ProcessPanics
    BY <1>ProcessPanics, TakenShape
    DEF ProcessPanics, DropSender, SampleInv, PlaneTypes, WhereInv
<1>TapHop. CASE TapHop
    BY <1>TapHop, TakenShape
    DEF TapHop, RecordHop, TrySend, Accepts, Hop, SampleInv, PlaneTypes, WhereInv
<1>Publish. CASE Publish
    BY <1>Publish, TakenShape DEF Publish, SampleInv, PlaneTypes, WhereInv
<1>PushFeature. CASE PushFeature
    BY <1>PushFeature, TakenShape DEF PushFeature, SampleInv, PlaneTypes, WhereInv
<1>SeeQuit. CASE SeeQuit
    BY <1>SeeQuit, TakenShape DEF SeeQuit, DropSender, SampleInv, PlaneTypes, WhereInv
<1>FinishRecorder. CASE FinishRecorder
    BY <1>FinishRecorder, TakenShape
    DEF FinishRecorder, Finish, JoinWriter, WriterHasExited, SampleInv, PlaneTypes, WhereInv
<1>Unwind. CASE Unwind
    BY <1>Unwind, TakenShape
    DEF Unwind, DropRecorder, JoinWriter, WriterHasExited, SampleInv, PlaneTypes, WhereInv
<1> QED
    BY <1>quiet, <1>kept, <1>Start, <1>CallbackBegins, <1>PushSample, <1>CallbackEnds, <1>Build,
       <1>MakeRecorder, <1>SeeBlock, <1>PopSample, <1>TapBlock, <1>ProcessBlock, <1>ProcessPanics,
       <1>TapHop, <1>Publish, <1>PushFeature, <1>SeeQuit, <1>FinishRecorder, <1>Unwind
    DEF Next, ControlStep, AudioStep, WorkerStep, Writes, WriterStep

(* The queue, the latest value and what was drained: Publish, PushFeature and Drain
   disturb them, and Start, by which the session changes. *)
LEMMA QueueStep ==
    ASSUME PlaneTypes, WhereInv, QueueInv, [Next]_vars
    PROVE  QueueInv'
<1>quiet. ASSUME \/ UNCHANGED vars
                 \/ CallbackBegins
                 \/ PushSample
                 \/ CallbackEnds
                 \/ (WriterTakes /\ UNCHANGED OutsideRecorder)
                 \/ (WriterFinalizes /\ UNCHANGED OutsideRecorder)
                 \/ (WriterPanics /\ UNCHANGED OutsideRecorder)
          PROVE  UNCHANGED <<control, session, pc, hop_index, latest, features, heard,
                             published, refused>>
    BY <1>quiet DEF
        CallbackBegins, PushSample, CallbackEnds, WriterTakes, WriteBlock, WriteHop,
        PeriodicFlush, WriterFinalizes, WriterPanics
<1>kept. CASE UNCHANGED <<control, session, pc, hop_index, latest, features, heard,
                          published, refused>>
    BY <1>kept, QueueFrame
<1>Start. ASSUME NEW recovery \in BOOLEAN, Start(recovery)
          PROVE  QueueInv'
    <2>1. /\ session' = session + 1 /\ hop_index' = 0 /\ pc' = "build" /\ pc # "push"
          /\ UNCHANGED <<latest, features, heard, published, refused>>
        BY <1>Start DEF Start, WhereInv
    <2>2. session \in Nat
        BY DEF PlaneTypes
    <2>3. \A s \in Snapshot : s.session <= session => s.session < session'
        BY <2>1, <2>2 DEF Snapshot
    <2>4. \A s \in Snapshot : PushedBefore(s) => PushedBefore(s)'
        BY <2>1, <2>2, <2>3 DEF PushedBefore, Snapshot
    <2>5. \A s \in published : s.session < session'
        BY <2>1, <2>2, <2>3 DEF QueueInv, PlaneTypes, Snapshot
    <2>6. heard \in Snapshot /\ \A i \in 1..Len(features) : features[i] \in Snapshot
        BY ElementOfSeq DEF PlaneTypes
    <2>7. HopsInOrder' /\ OnlyOverflowLosesHops'
        BY <2>1 DEF QueueInv, HopsInOrder, OnlyOverflowLosesHops
    <2> QED
        BY <2>1, <2>4, <2>5, <2>6, <2>7 DEF QueueInv
<1>OpenSucceeds. CASE OpenSucceeds
    BY <1>OpenSucceeds, QueueFrame DEF OpenSucceeds, WhereInv
<1>OpenFails. CASE OpenFails
    BY <1>OpenFails, QueueFrame DEF OpenFails, WhereInv
<1>DropCapture. CASE DropCapture
    BY <1>DropCapture, QueueFrame DEF DropCapture, WhereInv
<1>RaiseQuit. CASE RaiseQuit
    BY <1>RaiseQuit, QueueFrame DEF RaiseQuit, WhereInv
<1>JoinWorker. CASE JoinWorker
    BY <1>JoinWorker, QueueFrame DEF JoinWorker, WhereInv
<1>ClearPublisher. CASE ClearPublisher
    BY <1>ClearPublisher, QueueFrame DEF ClearPublisher, WhereInv
<1>Build. CASE Build
    BY <1>Build, QueueFrame DEF Build, WhereInv
<1>MakeRecorder. CASE MakeRecorder
    BY <1>MakeRecorder, QueueFrame DEF MakeRecorder, WhereInv
<1>SeeBlock. CASE SeeBlock
    BY <1>SeeBlock, QueueFrame DEF SeeBlock, WhereInv
<1>PopSample. CASE PopSample
    BY <1>PopSample, QueueFrame DEF PopSample, WhereInv
<1>TapBlock. CASE TapBlock
    BY <1>TapBlock, QueueFrame DEF TapBlock, WhereInv
<1>ProcessBlock. CASE ProcessBlock
    BY <1>ProcessBlock, QueueFrame DEF ProcessBlock, WhereInv
<1>ProcessPanics. CASE ProcessPanics
    BY <1>ProcessPanics, QueueFrame DEF ProcessPanics, WhereInv
<1>TapHop. CASE TapHop
    BY <1>TapHop, QueueFrame DEF TapHop, WhereInv
<1>Publish. CASE Publish
    <2>1. /\ pc = "publish" /\ pc' = "push" /\ hop_index' = hop_index + 1
          /\ latest' = [session |-> session, hop |-> hop_index]
          /\ published' = published \cup {latest'}
          /\ UNCHANGED <<session, control, features, heard, refused>>
        BY <1>Publish DEF Publish
    <2>2. hop_index \in Nat /\ session \in Nat
        BY DEF PlaneTypes
    <2>3. latest' = [session |-> session', hop |-> hop_index' - 1]
        BY <2>1, <2>2
    <2>4. heard \in Snapshot /\ \A i \in 1..Len(features) : features[i] \in Snapshot
        BY ElementOfSeq DEF PlaneTypes
    <2>5. \A s \in Snapshot : PushedBefore(s) => PushedBefore(s)'
        BY <2>1, <2>2 DEF PushedBefore, Snapshot
    <2>6. \A s \in published' :
              s.session < session' \/ (s.session = session' /\ s.hop < hop_index')
        BY <2>1, <2>2 DEF QueueInv, PlaneTypes, Snapshot
    <2>7. HopsInOrder'
        BY <2>1 DEF QueueInv, HopsInOrder
    <2>8. OnlyOverflowLosesHops'
        BY <2>1, <2>3 DEF QueueInv, OnlyOverflowLosesHops
    <2> QED
        BY <2>1, <2>2, <2>3, <2>4, <2>5, <2>6, <2>7, <2>8 DEF QueueInv
<1>PushFeature. CASE PushFeature
    <2>0. PICK snapshot : snapshot = [session |-> session, hop |-> hop_index - 1]
        OBVIOUS
    <2>1. /\ pc = "push" /\ pc' = "wait"
          /\ UNCHANGED <<session, hop_index, control, latest, heard, published>>
          /\ \/ features' = Append(features, snapshot) /\ refused' = refused
             \/ refused' = refused \cup {snapshot} /\ features' = features
        BY <1>PushFeature, <2>0 DEF PushFeature
    <2>2. hop_index \in Nat \ {0} /\ session \in Nat \ {0}
        BY <2>1 DEF PlaneTypes, QueueInv, WhereInv
    <2>3. snapshot \in Snapshot /\ snapshot.session = session /\ snapshot.hop = hop_index - 1
        BY <2>0, <2>2 DEF Snapshot
    <2>4. features \in Seq(Snapshot) /\ heard \in Snapshot
          /\ \A i \in 1..Len(features) : features[i] \in Snapshot
        BY ElementOfSeq DEF PlaneTypes
    <2>5. \A s \in Snapshot : PushedBefore(s) => PushedBefore(s)' /\ Before(s, snapshot)
        BY <2>1, <2>2, <2>3 DEF PushedBefore, Snapshot, Before
    <2>6. PushedBefore(snapshot)' /\ Before(NoSnapshot, snapshot)
        BY <2>1, <2>2, <2>3 DEF PushedBefore, Before
    <2>7. Before(heard, snapshot)
        BY <2>4, <2>5, <2>6 DEF QueueInv
    <2>8. CASE features' = Append(features, snapshot) /\ refused' = refused
        <3>1. /\ Len(features) \in Nat /\ Len(features') = Len(features) + 1
              /\ features'[Len(features) + 1] = snapshot
              /\ \A i \in 1..Len(features) : features'[i] = features[i]
              /\ features' \in Seq(Snapshot)
            BY <2>3, <2>4, <2>8, AppendShape
        <3>2. (\A i \in 1..Len(features) : PushedBefore(features[i]) /\ features[i].session > 0)'
            <4>1. \A i \in 1..Len(features) :
                      /\ PushedBefore(features[i]) /\ features[i].session > 0
                      /\ features[i] \in Snapshot
                BY <2>4 DEF QueueInv
            <4> QED
                BY <2>1, <2>2, <2>3, <2>5, <2>6, <3>1, <4>1 DEF PushedBefore
        <3>3. HopsInOrder'
            BY <2>1, <2>4, <2>5, <2>7, <3>1 DEF QueueInv, HopsInOrder
        <3>4. \A s : s \in Range(features) \/ s = snapshot => s \in Range(features')
            BY <2>4, <3>1, RangeShape
        <3>5. OnlyOverflowLosesHops'
            BY <2>0, <2>1, <2>8, <3>4 DEF QueueInv, OnlyOverflowLosesHops
        <3> QED
            BY <2>1, <2>4, <2>5, <3>2, <3>3, <3>5 DEF QueueInv
    <2>9. CASE refused' = refused \cup {snapshot} /\ features' = features
        <3>1. HopsInOrder' /\ OnlyOverflowLosesHops'
            BY <2>0, <2>1, <2>9 DEF QueueInv, HopsInOrder, OnlyOverflowLosesHops
        <3> QED
            BY <2>1, <2>4, <2>5, <2>9, <3>1 DEF QueueInv
    <2> QED
        BY <2>1, <2>8, <2>9
<1>SeeQuit. CASE SeeQuit
    BY <1>SeeQuit, QueueFrame DEF SeeQuit, WhereInv
<1>FinishRecorder. CASE FinishRecorder
    BY <1>FinishRecorder, QueueFrame DEF FinishRecorder, WhereInv
<1>Unwind. CASE Unwind
    BY <1>Unwind, QueueFrame DEF Unwind, WhereInv
<1>Drain. CASE Drain
    <2>1. /\ features # <<>> /\ heard' = Head(features) /\ features' = Tail(features)
          /\ UNCHANGED <<control, session, pc, hop_index, latest, published, refused>>
        BY <1>Drain DEF Drain
    <2>2. features \in Seq(Snapshot) /\ heard \in Snapshot /\ published \subseteq Snapshot
          /\ \A i \in 1..Len(features) : features[i] \in Snapshot
        BY ElementOfSeq DEF PlaneTypes
    <2>3. /\ Len(features) \in Nat \ {0} /\ Len(features') = Len(features) - 1
          /\ heard' = features[1] /\ features' \in Seq(Snapshot)
          /\ \A i \in 1..(Len(features) - 1) : features'[i] = features[i + 1]
        BY <2>1, <2>2, TailShape
    <2>4. \A s : PushedBefore(s) => PushedBefore(s)'
        BY <2>1 DEF PushedBefore
    <2>5. (\A i \in 1..Len(features) : PushedBefore(features[i]) /\ features[i].session > 0)'
        <3>1. \A i \in 1..Len(features) : PushedBefore(features[i]) /\ features[i].session > 0
            BY DEF QueueInv
        <3>2. \A i \in 1..Len(features') :
                  i + 1 \in 1..Len(features) /\ features'[i] = features[i + 1]
            BY <2>3
        <3>3. UNCHANGED <<session, pc, hop_index>>
            BY <2>1
        <3> QED
            BY <3>1, <3>2, <3>3 DEF PushedBefore
    <2>6. HopsInOrder'
        BY <2>3 DEF QueueInv, HopsInOrder
    <2>7. ASSUME NEW s \in Snapshot, ~Before(heard, s)
          PROVE  ~Before(heard', s)
        <3>1. Before(heard, heard') /\ heard' \in Snapshot
            BY <2>2, <2>3 DEF QueueInv, HopsInOrder
        <3> QED
            BY <2>2, <2>7, <3>1, BeforeTransitive
    <2>8. ASSUME NEW s \in Snapshot, s \in Range(features)
          PROVE  s = heard' \/ s \in Range(features')
        <3>1. PICK i \in 1..Len(features) : s = features[i]
            BY <2>2, <2>8, RangeShape
        <3>2. CASE i = 1
            BY <2>3, <3>1, <3>2
        <3>3. CASE i # 1
            <4>1. i - 1 \in 1..Len(features') /\ s = features'[i - 1]
                BY <2>3, <3>1, <3>3
            <4> QED
                BY <2>3, <4>1, RangeShape
        <3> QED
            BY <3>2, <3>3
    <2>9. ~Before(heard', heard')
        BY <2>2, <2>3 DEF Before, Snapshot
    <2>10. OnlyOverflowLosesHops'
        BY <2>1, <2>2, <2>7, <2>8, <2>9 DEF QueueInv, OnlyOverflowLosesHops
    <2>11. PushedBefore(heard)'
        <3>1. PushedBefore(features[1])
            BY <2>3 DEF QueueInv
        <3>2. UNCHANGED <<session, pc, hop_index>> /\ heard' = features[1]
            BY <2>1, <2>3
        <3> QED
            BY <3>1, <3>2 DEF PushedBefore
    <2> QED
        BY <2>1, <2>5, <2>6, <2>10, <2>11 DEF QueueInv
<1> QED
    BY <1>quiet, <1>kept, <1>Start, <1>OpenSucceeds, <1>OpenFails, <1>DropCapture, <1>RaiseQuit,
       <1>JoinWorker, <1>ClearPublisher, <1>Build, <1>MakeRecorder, <1>SeeBlock, <1>PopSample,
       <1>TapBlock, <1>ProcessBlock, <1>ProcessPanics, <1>TapHop, <1>Publish, <1>PushFeature,
       <1>SeeQuit, <1>FinishRecorder, <1>Unwind, <1>Drain
    DEF Next, ControlStep, AudioStep, WorkerStep, Writes, WriterStep

(* The recorder lives and dies with the loop of its worker. *)
LEMMA RecorderStep ==
    ASSUME PlaneTypes, TraceTypes, WhereInv, RecorderInv, [Next]_vars
    PROVE  RecorderInv'
<1>quiet. ASSUME \/ UNCHANGED vars
                 \/ OpenSucceeds
                 \/ OpenFails
                 \/ DropCapture
                 \/ RaiseQuit
                 \/ JoinWorker
                 \/ ClearPublisher
                 \/ CallbackBegins
                 \/ PushSample
                 \/ CallbackEnds
                 \/ Drain
          PROVE  UNCHANGED <<session, pc, hop_index, recorder_vars>>
    BY <1>quiet DEF
        OpenSucceeds, OpenFails, DropCapture, RaiseQuit, JoinWorker, ClearPublisher,
        CallbackBegins, PushSample, CallbackEnds, Drain
<1>kept. CASE UNCHANGED <<session, pc, hop_index, recorder_vars>>
    BY <1>kept DEF RecorderInv
<1>Start. ASSUME NEW recovery \in BOOLEAN, Start(recovery)
          PROVE  RecorderInv'
    <2>1. /\ UNCHANGED <<recorder, writer>> /\ session' = session + 1
          /\ pc' = "build" /\ hop_index' = 0
          /\ recorder' = "none" /\ writer' = "none"
        BY <1>Start DEF Start, WhereInv, RecorderInv, TraceTypes
    <2>2. \/ UNCHANGED <<wav, sidecar, manifest>>
          \/ wav' = NoWav /\ sidecar' = NoSidecar /\ manifest' = NoManifest
        BY <1>Start DEF Start
    <2>3. NoWav.of = 0 /\ NoManifest.of = 0
        BY DEF EmptyWav
    <2>4. session \in Nat /\ wav.of \in Nat /\ manifest.of \in Nat
        BY DEF PlaneTypes, TraceTypes
    <2>5. /\ wav'.of < session' /\ manifest'.of < session'
          /\ wav'.of <= session' /\ manifest'.of <= session'
          /\ (manifest'.of = 0 => manifest' = NoManifest)
        BY <2>1, <2>2, <2>3, <2>4 DEF RecorderInv
    <2> QED
        BY <2>1, <2>5 DEF RecorderInv
<1>Build. CASE Build
    BY <1>Build DEF Build, RecorderInv
<1>MakeRecorder. CASE MakeRecorder
    <2>1. /\ pc = "new" /\ pc' = "wait" /\ session' = session /\ manifest' = manifest
          /\ recorder = "none" /\ writer = "none"
        BY <1>MakeRecorder
        DEF MakeRecorder, NoRecorder, HalfARecorder, NewRecorder, RecorderInv, TraceTypes
    <2>2. \/ UNCHANGED recorder_vars
          \/ wav' = EmptyWav(session) /\ recorder' = "none" /\ writer' = "none"
          \/ /\ wav' = EmptyWav(session) /\ sidecar' = EmptySidecar(session)
             /\ recorder' = "open" /\ writer' = "running"
        BY <1>MakeRecorder, <2>1
        DEF MakeRecorder, NoRecorder, HalfARecorder, NewRecorder
    <2>3. session \in Nat /\ wav.of \in Nat /\ manifest.of \in Nat
        BY DEF PlaneTypes, TraceTypes
    <2> QED
        BY <2>1, <2>2, <2>3, EmptyFiles DEF RecorderInv
<1>SeeBlock. CASE SeeBlock
    BY <1>SeeBlock DEF SeeBlock, RecorderInv
<1>PopSample. CASE PopSample
    BY <1>PopSample DEF PopSample, RecorderInv
<1>TapBlock. CASE TapBlock
    <2>1. /\ UNCHANGED <<session, recorder, writer, wav, sidecar, manifest>>
          /\ pc = "record_block" /\ pc' = "process"
        BY <1>TapBlock DEF TapBlock, RecordBlock, TrySend
    <2> QED
        BY <2>1 DEF RecorderInv
<1>ProcessBlock. CASE ProcessBlock
    BY <1>ProcessBlock DEF ProcessBlock, RecorderInv
<1>ProcessPanics. CASE ProcessPanics
    BY <1>ProcessPanics DEF ProcessPanics, DropSender, RecorderInv
<1>TapHop. CASE TapHop
    <2>1. /\ UNCHANGED <<session, recorder, writer, wav, sidecar, manifest>>
          /\ pc = "record_hop" /\ pc' = "publish"
        BY <1>TapHop DEF TapHop, RecordHop, TrySend
    <2> QED
        BY <2>1 DEF RecorderInv
<1>Publish. CASE Publish
    BY <1>Publish DEF Publish, RecorderInv
<1>PushFeature. CASE PushFeature
    BY <1>PushFeature DEF PushFeature, RecorderInv
<1>SeeQuit. CASE SeeQuit
    BY <1>SeeQuit DEF SeeQuit, DropSender, RecorderInv
<1>FinishRecorder. CASE FinishRecorder
    <2>1. /\ UNCHANGED <<session, wav, sidecar>> /\ pc' = "exited"
          /\ recorder' = "none" /\ writer' = "none" /\ session \in Nat \ {0}
        BY <1>FinishRecorder
        DEF FinishRecorder, Finish, JoinWriter, WhereInv, PlaneTypes
    <2>2. manifest' \in {manifest, NoManifest, [of |-> session, n_hops |-> n_hops_sent]}
        BY <1>FinishRecorder DEF FinishRecorder, Finish
    <2>3. manifest'.of <= session' /\ (manifest'.of = 0 => manifest' = NoManifest)
        BY <2>1, <2>2 DEF RecorderInv
    <2> QED
        BY <2>1, <2>3 DEF RecorderInv
<1>Unwind. CASE Unwind
    <2>1. /\ UNCHANGED <<session, wav, sidecar, manifest>> /\ pc = "unwind" /\ pc' = "exited"
          /\ recorder' = "none" /\ writer' = "none" /\ session \in Nat
        BY <1>Unwind
        DEF Unwind, DropRecorder, JoinWriter, RecorderInv, PlaneTypes, TraceTypes
    <2> QED
        BY <2>1 DEF RecorderInv
<1>WriterTakes. CASE WriterTakes /\ UNCHANGED OutsideRecorder
    <2>1. UNCHANGED <<session, pc, hop_index, recorder, writer, manifest>>
          /\ wav'.of = wav.of /\ sidecar'.of = sidecar.of
        BY <1>WriterTakes, WriterTakesShape
    <2> QED
        BY <2>1 DEF RecorderInv
<1>WriterFinalizes. CASE WriterFinalizes /\ UNCHANGED OutsideRecorder
    <2>1. UNCHANGED <<session, pc, hop_index, recorder, sidecar, manifest>> /\ writer' = "done"
          /\ recorder = "joining"
        BY <1>WriterFinalizes DEF WriterFinalizes
    <2>2. wav' \in {wav, [of |-> wav.of, blocks |-> wav.blocks, durable |-> Len(wav.blocks)]}
        BY <1>WriterFinalizes DEF WriterFinalizes
    <2>3. wav'.of = wav.of
        BY <2>2
    <2> QED
        BY <2>1, <2>3 DEF RecorderInv
<1>WriterPanics. CASE WriterPanics /\ UNCHANGED OutsideRecorder
    BY <1>WriterPanics DEF WriterPanics, RecorderInv
<1> QED
    BY <1>quiet, <1>kept, <1>Start, <1>Build, <1>MakeRecorder, <1>SeeBlock, <1>PopSample,
       <1>TapBlock, <1>ProcessBlock, <1>ProcessPanics, <1>TapHop, <1>Publish, <1>PushFeature,
       <1>SeeQuit, <1>FinishRecorder, <1>Unwind, <1>WriterTakes, <1>WriterFinalizes,
       <1>WriterPanics
    DEF Next, ControlStep, AudioStep, WorkerStep, Writes, WriterStep

(* An accepted offer extends the channel, and the writer moves its head to the file it
   belongs in. *)
LEMMA ValidStep ==
    ASSUME PlaneTypes, TraceTypes, Flags, WhereInv, RecorderInv, ValidInv, [Next]_vars
    PROVE  ValidInv'
<1>quiet. ASSUME \/ UNCHANGED vars
                 \/ OpenSucceeds
                 \/ OpenFails
                 \/ DropCapture
                 \/ RaiseQuit
                 \/ JoinWorker
                 \/ ClearPublisher
                 \/ CallbackBegins
                 \/ PushSample
                 \/ CallbackEnds
                 \/ Drain
          PROVE  UNCHANGED <<pc, hop_index, recorder_vars>>
    BY <1>quiet DEF
        OpenSucceeds, OpenFails, DropCapture, RaiseQuit, JoinWorker, ClearPublisher,
        CallbackBegins, PushSample, CallbackEnds, Drain
<1>kept. CASE UNCHANGED <<pc, hop_index, recorder_vars>>
    BY <1>kept DEF ValidInv, Offered, HopsOffered, Written
<1>Start. ASSUME NEW recovery \in BOOLEAN, Start(recovery)
          PROVE  ValidInv'
    <2>1. recorder = "none" /\ recorder' = "none"
        BY <1>Start DEF Start, WhereInv, RecorderInv, TraceTypes
    <2> QED
        BY <2>1 DEF ValidInv
<1>Build. CASE Build
    BY <1>Build DEF Build, ValidInv, Offered, HopsOffered, Written
<1>MakeRecorder. CASE MakeRecorder
    <2> SUFFICES ASSUME recorder' # "none", ~invalid', writer' # "panicked"
                 PROVE  ValidInv'
        BY DEF ValidInv
    <2>1. /\ pc' = "wait" /\ hop_index' = 0 /\ hop_index' = hop_index
        BY <1>MakeRecorder DEF MakeRecorder, RecorderInv
    <2>2. /\ channel' = <<>> /\ n_hops_sent' = 0 /\ writer' = "running"
          /\ blocks_since_flush' = 0
          /\ wav' = EmptyWav(session) /\ sidecar' = EmptySidecar(session)
        BY <1>MakeRecorder
        DEF MakeRecorder, NoRecorder, HalfARecorder, NewRecorder, RecorderInv, TraceTypes
    <2>3. /\ wav'.blocks = <<>> /\ wav'.durable = 0 /\ sidecar'.hops = <<>>
        BY <2>2, EmptyFiles DEF PlaneTypes
    <2>4. Len(wav'.blocks) = 0 /\ Len(sidecar'.hops) = 0 /\ Len(channel') = 0
        BY <2>2, <2>3
    <2>5. UpTo(0) = <<>>
        BY UpToAppend, EmptySeq
    <2>6. (Offered = 0)' /\ (HopsOffered = 0)' /\ (Written = 0)'
        BY <2>1, <2>4 DEF Offered, HopsOffered, Written
    <2> QED
        BY <2>2, <2>3, <2>4, <2>5, <2>6 DEF ValidInv
<1>SeeBlock. CASE SeeBlock
    BY <1>SeeBlock DEF SeeBlock, ValidInv, Offered, HopsOffered, Written
<1>PopSample. CASE PopSample
    BY <1>PopSample DEF PopSample, ValidInv, Offered, HopsOffered, Written
<1>TapBlock. CASE TapBlock
    <2> SUFFICES ASSUME recorder' # "none", ~invalid', writer' # "panicked"
                 PROVE  ValidInv'
        BY DEF ValidInv
    <2>1. /\ recorder = "open" /\ TrySend(Block(hop_index))
          /\ UNCHANGED <<recorder, n_hops_sent, hop_index>>
          /\ pc = "record_block" /\ pc' = "process"
        BY <1>TapBlock DEF TapBlock, RecordBlock
    <2>2. Block(hop_index) \in WriterMsg /\ 2 * hop_index \in Nat
          /\ IsOffer(Block(hop_index), 2 * hop_index)
        BY DEF Block, WriterMsg, PlaneTypes, IsOffer
    <2>3. /\ UNCHANGED <<writer, blocks_since_flush, wav, sidecar, finalized>>
          /\ ~invalid /\ Accepts /\ channel' = Append(channel, Block(hop_index))
        BY <2>1, <2>2, TrySendShape
    <2>4. /\ wav.blocks = UpTo(Len(wav.blocks)) /\ sidecar.hops = UpTo(Len(sidecar.hops))
          /\ Len(wav.blocks) \in {Len(sidecar.hops), Len(sidecar.hops) + 1}
          /\ \A k \in 1..Len(channel) : IsOffer(channel[k], Written + k - 1)
          /\ Written + Len(channel) = Offered
          /\ n_hops_sent = HopsOffered
          /\ writer = "running" => Len(wav.blocks) - wav.durable = blocks_since_flush
        BY <2>1, <2>3 DEF ValidInv
    <2>5. /\ Offered = 2 * hop_index /\ Offered' = 2 * hop_index + 1
          /\ HopsOffered' = HopsOffered /\ writer = "running"
        BY <2>1, <2>3 DEF Offered, HopsOffered, Accepts
    <2>6. /\ (\A k \in 1..Len(channel) : IsOffer(channel[k], Written + k - 1))'
          /\ (Written + Len(channel) = 2 * hop_index + 1)'
        BY <2>1, <2>2, <2>3, <2>4, <2>5, OfferShape
    <2> QED
        BY <2>1, <2>3, <2>4, <2>5, <2>6 DEF ValidInv
<1>ProcessBlock. CASE ProcessBlock
    BY <1>ProcessBlock DEF ProcessBlock, ValidInv, Offered, HopsOffered, Written
<1>ProcessPanics. CASE ProcessPanics
    BY <1>ProcessPanics DEF ProcessPanics, DropSender, ValidInv, Offered, HopsOffered, Written
<1>TapHop. CASE TapHop
    <2> SUFFICES ASSUME recorder' # "none", ~invalid', writer' # "panicked"
                 PROVE  ValidInv'
        BY DEF ValidInv
    <2>1. /\ recorder = "open" /\ TrySend(Hop(hop_index))
          /\ n_hops_sent' = IF Accepts THEN n_hops_sent + 1 ELSE n_hops_sent
          /\ UNCHANGED <<recorder, hop_index>>
          /\ pc = "record_hop" /\ pc' = "publish"
        BY <1>TapHop DEF TapHop, RecordHop
    <2>2. Hop(hop_index) \in WriterMsg /\ 2 * hop_index + 1 \in Nat
          /\ IsOffer(Hop(hop_index), 2 * hop_index + 1)
        BY DEF Hop, WriterMsg, PlaneTypes, IsOffer
    <2>3. /\ UNCHANGED <<writer, blocks_since_flush, wav, sidecar, finalized>>
          /\ ~invalid /\ Accepts /\ channel' = Append(channel, Hop(hop_index))
        BY <2>1, <2>2, TrySendShape
    <2>4. /\ wav.blocks = UpTo(Len(wav.blocks)) /\ sidecar.hops = UpTo(Len(sidecar.hops))
          /\ Len(wav.blocks) \in {Len(sidecar.hops), Len(sidecar.hops) + 1}
          /\ \A k \in 1..Len(channel) : IsOffer(channel[k], Written + k - 1)
          /\ Written + Len(channel) = Offered
          /\ n_hops_sent = HopsOffered
          /\ writer = "running" => Len(wav.blocks) - wav.durable = blocks_since_flush
        BY <2>1, <2>3 DEF ValidInv
    <2>5. /\ Offered = 2 * hop_index + 1 /\ (Offered = 2 * hop_index + 2)'
          /\ n_hops_sent = hop_index /\ n_hops_sent' = HopsOffered' /\ writer = "running"
        BY <2>1, <2>3, <2>4 DEF Offered, HopsOffered, Accepts
    <2>6. /\ (\A k \in 1..Len(channel) : IsOffer(channel[k], Written + k - 1))'
          /\ (Written + Len(channel) = 2 * hop_index + 1 + 1)'
        BY <2>1, <2>2, <2>3, <2>4, <2>5, OfferShape
    <2>7. 2 * hop_index + 1 + 1 = 2 * hop_index + 2
        BY DEF PlaneTypes
    <2> QED
        BY <2>1, <2>3, <2>4, <2>5, <2>6, <2>7 DEF ValidInv
<1>Publish. CASE Publish
    <2>1. /\ UNCHANGED recorder_vars /\ hop_index' = hop_index + 1
          /\ pc = "publish" /\ pc' = "push" /\ hop_index \in Nat
        BY <1>Publish DEF Publish, PlaneTypes
    <2>2. /\ Offered = 2 * hop_index + 2 /\ Offered' = 2 * (hop_index + 1)
          /\ HopsOffered = hop_index + 1 /\ HopsOffered' = hop_index + 1
        BY <2>1 DEF Offered, HopsOffered
    <2>3. Offered' = Offered /\ HopsOffered' = HopsOffered /\ Written' = Written
        BY <2>1, <2>2 DEF Written
    <2> QED
        BY <2>1, <2>3 DEF ValidInv, IsOffer
<1>PushFeature. CASE PushFeature
    BY <1>PushFeature DEF PushFeature, ValidInv, Offered, HopsOffered, Written
<1>SeeQuit. CASE SeeQuit
    BY <1>SeeQuit DEF SeeQuit, DropSender, ValidInv, Offered, HopsOffered, Written
<1>FinishRecorder. CASE FinishRecorder
    BY <1>FinishRecorder
    DEF FinishRecorder, Finish, JoinWriter, WriterHasExited, ValidInv, Offered, HopsOffered,
        Written
<1>Unwind. CASE Unwind
    <2>1. recorder' = "none"
        BY <1>Unwind DEF Unwind, DropRecorder, JoinWriter, RecorderInv, TraceTypes
    <2> QED
        BY <2>1 DEF ValidInv
<1>WriterTakes. CASE WriterTakes /\ UNCHANGED OutsideRecorder
    <2> SUFFICES ASSUME recorder' # "none", ~invalid', writer' # "panicked"
                 PROVE  ValidInv'
        BY DEF ValidInv
    <2> DEFINE message == Head(channel)
               W == Len(wav.blocks)
               H == Len(sidecar.hops)
    <2>1. /\ writer = "running" /\ channel # <<>> /\ channel' = Tail(channel)
          /\ UNCHANGED <<recorder, n_hops_sent, writer, finalized, pc, hop_index>> /\ ~invalid
        BY <1>WriterTakes, WriterTakesShape
    <2>2. channel \in Seq(WriterMsg) /\ wav.blocks \in Seq(Nat) /\ sidecar.hops \in Seq(Nat)
          /\ wav.durable \in Nat /\ blocks_since_flush \in Nat
        BY DEF TraceTypes
    <2>3. W \in Nat /\ H \in Nat
        BY <2>2, LenProperties
    <2>4. /\ wav.blocks = UpTo(W) /\ sidecar.hops = UpTo(H) /\ W \in {H, H + 1}
          /\ \A k \in 1..Len(channel) : IsOffer(channel[k], Written + k - 1)
          /\ Written + Len(channel) = Offered
          /\ n_hops_sent = HopsOffered
          /\ W - wav.durable = blocks_since_flush
        BY <2>1 DEF ValidInv
    <2>5. /\ Len(channel) \in Nat \ {0} /\ Len(channel') = Len(channel) - 1
          /\ message = channel[1] /\ message \in WriterMsg
          /\ \A k \in 1..Len(channel') : k + 1 \in 1..Len(channel) /\ channel'[k] = channel[k + 1]
        BY <2>1, <2>2, TailShape
    <2>6. message.hop \in Nat /\ IsOffer(message, W + H) /\ Written = W + H
        <3>1. Written = W + H /\ Written + 1 - 1 = Written
            BY <2>3 DEF Written
        <3>2. IsOffer(channel[1], Written + 1 - 1)
            BY <2>4, <2>5
        <3>3. message.hop \in Nat
            BY <2>5 DEF WriterMsg
        <3> QED
            BY <2>5, <3>1, <3>2, <3>3
    <2>7. Offered' = Offered /\ HopsOffered' = HopsOffered /\ writer' = "running"
        BY <2>1 DEF Offered, HopsOffered
    <2> HIDE DEF message, W, H
    <2>8. /\ wav'.blocks = UpTo(Len(wav'.blocks)) /\ sidecar'.hops = UpTo(Len(sidecar'.hops))
          /\ Len(wav'.blocks) \in {Len(sidecar'.hops), Len(sidecar'.hops) + 1}
          /\ Len(wav'.blocks) + Len(sidecar'.hops) = W + H + 1
          /\ Len(wav'.blocks) - wav'.durable = blocks_since_flush'
        <3>1. CASE /\ message.kind = "Block" /\ sidecar' = sidecar
                   /\ wav'.blocks = Append(wav.blocks, message.hop)
                   /\ \/ blocks_since_flush' = blocks_since_flush + 1 /\ wav'.durable = wav.durable
                      \/ blocks_since_flush' = 0 /\ wav'.durable = Len(wav'.blocks)
            <4>1. W = H /\ message.hop = W
                BY <2>3, <2>4, <2>6, <3>1 DEF IsOffer
            <4>2. wav'.blocks = UpTo(W + 1)
                BY <2>3, <2>4, <3>1, <4>1, UpToAppend
            <4>3. Len(wav'.blocks) = W + 1
                BY <2>3, <4>2, UpToAppend
            <4>4. sidecar'.hops = UpTo(H) /\ Len(sidecar'.hops) = H
                BY <2>4, <3>1 DEF H
            <4>5. Len(wav'.blocks) - wav'.durable = blocks_since_flush'
                BY <2>2, <2>3, <2>4, <3>1, <4>3
            <4>6. W + 1 + H = W + H + 1 /\ W + 1 \in {H, H + 1}
                BY <2>3, <4>1
            <4> QED
                BY <4>2, <4>3, <4>4, <4>5, <4>6
        <3>2. CASE /\ message.kind = "Hop" /\ wav' = wav
                   /\ blocks_since_flush' = blocks_since_flush
                   /\ sidecar'.hops = Append(sidecar.hops, message.hop)
            <4>1. W = H + 1 /\ message.hop = H
                BY <2>3, <2>4, <2>6, <3>2 DEF IsOffer
            <4>2. sidecar'.hops = UpTo(H + 1)
                BY <2>3, <2>4, <3>2, <4>1, UpToAppend
            <4>3. Len(sidecar'.hops) = H + 1
                BY <2>3, <4>2, UpToAppend
            <4>4. wav'.blocks = UpTo(W) /\ Len(wav'.blocks) = W
                BY <2>4, <3>2 DEF W
            <4>5. Len(wav'.blocks) - wav'.durable = blocks_since_flush'
                BY <2>4, <3>2, <4>4
            <4>6. W + (H + 1) = W + H + 1 /\ W \in {H + 1, H + 1 + 1}
                BY <2>3, <4>1
            <4> QED
                BY <4>2, <4>3, <4>4, <4>5, <4>6
        <3> QED
            BY <1>WriterTakes, <3>1, <3>2, WriterTakesShape DEF message
    <2>9. Written' = W + H + 1
        BY <2>8 DEF Written
    <2>10. ASSUME NEW k \in 1..Len(channel')
           PROVE  IsOffer(channel'[k], Written' + k - 1)
        <3>1. Written' + k - 1 = Written + (k + 1) - 1
            BY <2>3, <2>5, <2>6, <2>9
        <3> QED
            BY <2>4, <2>5, <3>1
    <2>11. Written' + Len(channel') = Offered
        BY <2>3, <2>4, <2>5, <2>6, <2>9
    <2> QED
        BY <2>1, <2>4, <2>7, <2>8, <2>10, <2>11 DEF ValidInv, IsOffer
<1>WriterFinalizes. CASE WriterFinalizes /\ UNCHANGED OutsideRecorder
    <2> SUFFICES ASSUME recorder' # "none", ~invalid', writer' # "panicked"
                 PROVE  ValidInv'
        BY DEF ValidInv
    <2>1. /\ writer = "running" /\ writer' = "done" /\ channel = <<>> /\ ~invalid
          /\ UNCHANGED <<recorder, n_hops_sent, channel, pc, hop_index, sidecar>>
          /\ finalized' = TRUE
          /\ wav' = [of |-> wav.of, blocks |-> wav.blocks, durable |-> Len(wav.blocks)]
        BY <1>WriterFinalizes DEF WriterFinalizes
    <2>2. wav'.blocks = wav.blocks /\ wav'.durable = Len(wav.blocks)
        BY <2>1
    <2>3. Written' = Written /\ Offered' = Offered /\ HopsOffered' = HopsOffered
        BY <2>1, <2>2 DEF Written, Offered, HopsOffered
    <2> QED
        BY <2>1, <2>2, <2>3 DEF ValidInv
<1>WriterPanics. CASE WriterPanics /\ UNCHANGED OutsideRecorder
    BY <1>WriterPanics DEF WriterPanics, ValidInv, Offered, HopsOffered, Written
<1> QED
    BY <1>quiet, <1>kept, <1>Start, <1>Build, <1>MakeRecorder, <1>SeeBlock, <1>PopSample,
       <1>TapBlock, <1>ProcessBlock, <1>ProcessPanics, <1>TapHop, <1>Publish, <1>PushFeature,
       <1>SeeQuit, <1>FinishRecorder, <1>Unwind, <1>WriterTakes, <1>WriterFinalizes,
       <1>WriterPanics
    DEF Next, ControlStep, AudioStep, WorkerStep, Writes, WriterStep

(* Only Finish makes a manifest claim anything, and then ValidInv has the files complete. *)
LEMMA ManifestStep ==
    ASSUME PlaneTypes, TraceTypes, Flags, RecorderInv, ValidInv, ManifestVouches, [Next]_vars
    PROVE  ManifestVouches'
<1>quiet. ASSUME \/ UNCHANGED vars
                 \/ OpenSucceeds
                 \/ OpenFails
                 \/ DropCapture
                 \/ RaiseQuit
                 \/ JoinWorker
                 \/ ClearPublisher
                 \/ CallbackBegins
                 \/ PushSample
                 \/ CallbackEnds
                 \/ Build
                 \/ SeeBlock
                 \/ PopSample
                 \/ TapBlock
                 \/ ProcessBlock
                 \/ ProcessPanics
                 \/ TapHop
                 \/ Publish
                 \/ PushFeature
                 \/ SeeQuit
                 \/ Unwind
                 \/ Drain
                 \/ (WriterPanics /\ UNCHANGED OutsideRecorder)
          PROVE  UNCHANGED <<wav, sidecar, finalized, manifest>>
    BY <1>quiet DEF
        OpenSucceeds, OpenFails, DropCapture, RaiseQuit, JoinWorker, ClearPublisher,
        CallbackBegins, PushSample, CallbackEnds, Build, SeeBlock, PopSample, TapBlock,
        RecordBlock, TrySend, Accepts, Block, ProcessBlock, ProcessPanics, DropSender,
        TapHop, RecordHop, Hop, Publish, PushFeature, SeeQuit, Unwind, DropRecorder,
        JoinWriter, WriterHasExited, Drain, WriterPanics
<1>kept. CASE UNCHANGED <<wav, sidecar, finalized, manifest>>
    BY <1>kept DEF ManifestVouches
<1>Start. ASSUME NEW recovery \in BOOLEAN, Start(recovery)
          PROVE  ManifestVouches'
    <2>1. \/ UNCHANGED <<wav, sidecar, finalized, manifest>>
          \/ manifest' = NoManifest
        BY <1>Start DEF Start
    <2> QED
        BY <2>1 DEF ManifestVouches
<1>MakeRecorder. CASE MakeRecorder
    <2>1. pc = "new" /\ manifest' = manifest
        BY <1>MakeRecorder DEF MakeRecorder, NoRecorder, HalfARecorder, NewRecorder
    <2>2. UNCHANGED <<wav, sidecar, finalized>> \/ wav' = EmptyWav(session)
        BY <1>MakeRecorder DEF MakeRecorder, NoRecorder, HalfARecorder, NewRecorder
    <2>3. manifest.of < session /\ session \in Nat /\ EmptyWav(session).of = session
        BY <2>1, EmptyFiles DEF RecorderInv, PlaneTypes
    <2>4. wav' = EmptyWav(session) => manifest'.of # wav'.of
        BY <2>1, <2>3
    <2> QED
        BY <2>1, <2>2, <2>4 DEF ManifestVouches
<1>FinishRecorder. CASE FinishRecorder
    <2>1. /\ UNCHANGED <<wav, sidecar, finalized, channel>> /\ pc = "finish"
          /\ recorder = "joining" /\ writer \in {"done", "panicked"}
          /\ invalid' = (invalid \/ writer = "panicked")
        BY <1>FinishRecorder DEF FinishRecorder, Finish, JoinWriter, WriterHasExited
    <2>2. \/ manifest' \in {manifest, NoManifest}
          \/ ~invalid' /\ manifest' = [of |-> session, n_hops |-> n_hops_sent]
        BY <1>FinishRecorder DEF FinishRecorder, Finish
    <2>3. CASE manifest' \in {manifest, NoManifest}
        BY <2>1, <2>3 DEF ManifestVouches
    <2>4. CASE ~invalid' /\ manifest' = [of |-> session, n_hops |-> n_hops_sent]
        <3>1. ~invalid /\ writer = "done" /\ writer # "panicked"
            BY <2>1, <2>4
        <3>2. /\ wav.blocks = UpTo(Len(wav.blocks)) /\ sidecar.hops = UpTo(Len(sidecar.hops))
              /\ Len(wav.blocks) \in {Len(sidecar.hops), Len(sidecar.hops) + 1}
              /\ Written + Len(channel) = Offered
              /\ n_hops_sent = HopsOffered
              /\ channel = <<>> /\ finalized /\ wav.durable = Len(wav.blocks)
            BY <2>1, <3>1 DEF ValidInv
        <3>3. wav.blocks \in Seq(Nat) /\ sidecar.hops \in Seq(Nat) /\ hop_index \in Nat
            BY DEF TraceTypes, PlaneTypes
        <3>4. Len(wav.blocks) \in Nat
            BY <3>3, LenProperties
        <3>5. Len(sidecar.hops) \in Nat
            BY <3>3, LenProperties
        <3>6. Offered = 2 * hop_index /\ n_hops_sent = hop_index
            BY <2>1, <3>2 DEF Offered, HopsOffered
        <3>7. Len(wav.blocks) + Len(sidecar.hops) = 2 * hop_index
            <4>1. Written \in Nat
                BY <3>3, LengthsAdd DEF Written
            <4>2. Len(channel) = 0
                BY <3>2
            <4>3. Written + 0 = 2 * hop_index
                BY <3>2, <3>6, <4>2
            <4>4. Written = 2 * hop_index
                BY <3>3, <4>1, <4>3
            <4> QED
                BY <4>4, Zenon DEF Written
        <3>8. Len(wav.blocks) = n_hops_sent /\ Len(sidecar.hops) = n_hops_sent
            BY <3>2, <3>3, <3>4, <3>5, <3>6, <3>7, Halves
        <3>9. wav.of = session /\ sidecar.of = session
            BY <2>1 DEF RecorderInv
        <3>10. manifest'.of = session /\ manifest'.n_hops = n_hops_sent
            BY <2>4
        <3> QED
            BY <2>1, <3>2, <3>8, <3>9, <3>10 DEF ManifestVouches, UpTo
    <2> QED
        BY <2>2, <2>3, <2>4
<1>WriterTakes. CASE WriterTakes /\ UNCHANGED OutsideRecorder
    <2>1. manifest' = manifest /\ wav'.of = wav.of /\ recorder # "none"
        BY <1>WriterTakes, WriterTakesShape DEF RecorderInv
    <2>2. manifest.of < session /\ wav.of = session /\ session \in Nat
        BY <2>1 DEF RecorderInv, PlaneTypes
    <2>3. manifest'.of # wav'.of
        BY <2>1, <2>2
    <2> QED
        BY <2>3 DEF ManifestVouches
<1>WriterFinalizes. CASE WriterFinalizes /\ UNCHANGED OutsideRecorder
    <2>1. manifest' = manifest /\ recorder # "none"
          /\ wav' \in {wav, [of |-> wav.of, blocks |-> wav.blocks, durable |-> Len(wav.blocks)]}
        BY <1>WriterFinalizes DEF WriterFinalizes
    <2>2. manifest.of < session /\ wav.of = session /\ session \in Nat
        BY <2>1 DEF RecorderInv, PlaneTypes
    <2>3. manifest'.of # wav'.of
        BY <2>1, <2>2
    <2> QED
        BY <2>3 DEF ManifestVouches
<1> QED
    BY <1>quiet, <1>kept, <1>Start, <1>MakeRecorder, <1>FinishRecorder, <1>WriterTakes,
       <1>WriterFinalizes
    DEF Next, ControlStep, AudioStep, WorkerStep, Writes, WriterStep


-----------------------------------------------------------------------------
(* The inductive invariant. *)
IInv ==
    /\ PlaneTypes /\ TraceTypes /\ Flags
    /\ WhereInv /\ SampleInv /\ QueueInv /\ RecorderInv /\ ValidInv
    /\ ManifestVouches

(* The program starts in the invariant. *)
LEMMA InitHolds == Init => IInv
<1> SUFFICES ASSUME Init PROVE IInv
    OBVIOUS
<1>1. PlaneTypes
    BY EmptySeq DEF Init, PlaneTypes, Snapshot
<1>2. TraceTypes
    <2>1. <<>> \in Seq(WriterMsg) /\ Len(<<>>) = 0
        BY EmptySeq
    <2>2. channel \in Seq(WriterMsg) /\ Len(channel) <= CHANNEL_CAPACITY
        BY <2>1 DEF Init, RecorderInit
    <2>3. wav \in [of: Nat, blocks: Seq(Nat), durable: Nat] /\ sidecar \in [of: Nat, hops: Seq(Nat)]
        BY EmptyFiles DEF Init, RecorderInit
    <2> QED
        BY <2>2, <2>3 DEF Init, RecorderInit, TraceTypes
<1>3. Flags
    BY DEF Init, RecorderInit, Flags
<1>4. WhereInv
    BY DEF Init, RecorderInit, WhereInv
<1>5. SampleInv
    BY TakenShape DEF Init, SampleInv, Taken
<1>6. QueueInv
    BY DEF Init, QueueInv, HopsInOrder, OnlyOverflowLosesHops
<1>7. RecorderInv
    BY EmptyFiles DEF Init, RecorderInit, RecorderInv
<1>8. ValidInv /\ ManifestVouches
    BY DEF Init, RecorderInit, ValidInv, ManifestVouches
<1> QED
    BY <1>1, <1>2, <1>3, <1>4, <1>5, <1>6, <1>7, <1>8 DEF IInv

(* Whatever the capacities, the block size and the flush interval, every step of the
   worker, the writer, the callback, the control thread and the head keeps IInv. *)
THEOREM Inductive == Spec => []IInv
<1>1. IInv /\ [Next]_vars => IInv'
    <2> SUFFICES ASSUME IInv, [Next]_vars PROVE IInv'
        OBVIOUS
    <2>1. /\ PlaneTypes /\ TraceTypes /\ Flags
          /\ WhereInv /\ SampleInv /\ QueueInv /\ RecorderInv /\ ValidInv
          /\ ManifestVouches
        BY DEF IInv
    <2>2. PlaneTypes'
        BY <2>1, PlaneTypeStep
    <2>3. TraceTypes'
        BY <2>1, TraceTypeStep
    <2>4. Flags'
        BY <2>1, FlagStep
    <2>5. WhereInv'
        BY <2>1, WhereStep
    <2>6. SampleInv'
        BY <2>1, SampleStep
    <2>7. QueueInv'
        BY <2>1, QueueStep
    <2>8. RecorderInv'
        BY <2>1, RecorderStep
    <2>9. ValidInv'
        BY <2>1, ValidStep
    <2>10. ManifestVouches'
        BY <2>1, ManifestStep
    <2> QED
        BY <2>2, <2>3, <2>4, <2>5, <2>6, <2>7, <2>8, <2>9, <2>10 DEF IInv
<1> QED
    BY <1>1, InitHolds, PTL DEF Spec

(* The types, the ring, the queue and the channel within their capacities
   (push_samples, push_feature, the bounded channel). *)
THEOREM TypeCorrect == Spec => []TypeOK
<1>1. IInv => TypeOK
    <2> SUFFICES ASSUME IInv PROVE TypeOK
        OBVIOUS
    <2>1. PlaneTypes /\ TraceTypes /\ Flags
        BY DEF IInv
    <2>2. RecorderTypeOK
        BY <2>1 DEF RecorderTypeOK, TraceTypes, Flags
    <2> QED
        BY <2>1, <2>2 DEF TypeOK, PlaneTypes, Flags
<1> QED
    BY <1>1, Inductive, PTL

(* A manifest of the recording that the WAV is of: finish writes one only over a WAV and
   a sidecar that are closed and hold every hop it counts.  A manifest left by the
   recording before a recovery is of another one, and vouches for nothing. *)
THEOREM ManifestVouchesAlways == Spec => []ManifestVouches
<1>1. IInv => ManifestVouches
    BY DEF IInv
<1> QED
    BY <1>1, Inductive, PTL

(* A process killed during a valid run loses less than one flush interval of what the
   writer took (the writer's periodic flush). *)
THEOREM KillLosesOneIntervalAlways == Spec => []KillLosesOneInterval
<1>1. IInv => KillLosesOneInterval
    <2> SUFFICES ASSUME IInv, writer = "running", ~invalid
                 PROVE  Len(wav.blocks) - wav.durable < FLUSH_INTERVAL
        BY DEF KillLosesOneInterval
    <2>1. recorder # "none"
        BY DEF IInv, RecorderInv
    <2>2. Len(wav.blocks) - wav.durable = blocks_since_flush
        BY <2>1 DEF IInv, ValidInv
    <2>3. blocks_since_flush \in 0..(FLUSH_INTERVAL - 1)
        BY DEF IInv, TraceTypes
    <2> QED
        BY <2>2, <2>3
<1> QED
    BY <1>1, Inductive, PTL

(* The count that stop reports is exact: of the captured samples, those the worker
   neither took nor left in the ring (push_samples, stop). *)
THEOREM DropsAreReportedAlways == Spec => []DropsAreReported
<1>1. IInv => DropsAreReported
    <2> SUFFICES ASSUME IInv, control = "joined" PROVE DropsAreReported
        BY DEF DropsAreReported
    <2>1. dropped = 0
        BY DEF IInv, WhereInv
    <2>2. captured = ring + Taken + block + dropped + samples_dropped
        BY DEF IInv, SampleInv
    <2>3. /\ captured \in Nat /\ ring \in Nat /\ block \in Nat /\ samples_dropped \in Nat
          /\ hop_index \in Nat
        BY DEF IInv, PlaneTypes
    <2>4. Taken \in Nat
        BY <2>3, TakenShape
    <2>5. samples_dropped = captured - ring - (Taken + block)
        BY <2>1, <2>2, <2>3, <2>4
    <2> QED
        BY <2>5 DEF DropsAreReported, Taken
<1> QED
    BY <1>1, Inductive, PTL

(* The queue stays in order behind what the head has drained (push_feature). *)
THEOREM HopsInOrderAlways == Spec => []HopsInOrder
<1>1. IInv => HopsInOrder
    BY DEF IInv, QueueInv
<1> QED
    BY <1>1, Inductive, PTL

(* A hop that was ever the latest is lost to the head only if the queue was full when
   it was pushed (push_feature, drain_features). *)
THEOREM OnlyOverflowLosesHopsAlways == Spec => []OnlyOverflowLosesHops
<1>1. IInv => OnlyOverflowLosesHops
    BY DEF IInv, QueueInv
<1> QED
    BY <1>1, Inductive, PTL

(* What the head drains is never newer than the latest value (run_worker stores it
   before it pushes). *)
THEOREM LatestIsNotBehindAlways == Spec => []LatestIsNotBehind
<1>1. IInv => LatestIsNotBehind
    <2> SUFFICES ASSUME IInv, control \in {"live", "stopping", "joining"},
                        NEW s \in Range(features) \cup {heard}, s.session = session
                 PROVE  ~Before(latest, s)
        BY DEF LatestIsNotBehind
    <2>1. features \in Seq(Snapshot) /\ heard \in Snapshot /\ session \in Nat /\ hop_index \in Nat
          /\ latest \in Snapshot
        BY DEF IInv, PlaneTypes
    <2>2. session > 0
        BY DEF IInv, WhereInv
    <2>3. s \in Snapshot /\ PushedBefore(s)
        <3>1. CASE s = heard
            BY <2>1, <2>2, <3>1 DEF IInv, QueueInv
        <3>2. CASE s \in Range(features)
            <4>1. PICK i \in 1..Len(features) : s = features[i]
                BY <2>1, <3>2, RangeShape
            <4> QED
                BY <2>1, <4>1, ElementOfSeq DEF IInv, QueueInv
        <3> QED
            BY <3>1, <3>2
    <2>4. s.hop \in Nat /\ s.session \in Nat /\ s.hop < hop_index
        BY <2>1, <2>3 DEF PushedBefore, Snapshot
    <2>5. latest = [session |-> session, hop |-> hop_index - 1]
        BY <2>1, <2>4 DEF IInv, QueueInv
    <2>6. latest.session = session /\ latest.hop = hop_index - 1
        BY <2>5
    <2> QED
        BY <2>1, <2>4, <2>6 DEF Before
<1> QED
    BY <1>1, Inductive, PTL

=============================================================================

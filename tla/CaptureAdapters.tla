--------------------------- MODULE CaptureAdapters ---------------------------
(***************************************************************************)
(* The adapters behind the AudioCapture, AudioDevices and AudioDriver      *)
(* ports (domain-adapters/audio-apple, audio-cpal, audio-wav).             *)
(*                                                                         *)
(* One capture from the permission to the end of the session: the stream   *)
(* is listed, its format negotiated, the stream opened, frames delivered   *)
(* from a thread the adapter does not own (CoreAudio's, cpal's) or that it *)
(* spawned (the WAV feeder), and the session dropped, which must not       *)
(* return before the last frame has.                                       *)
(*                                                                         *)
(* CoreAudio and cpal are outside: any of their calls may fail, and their  *)
(* stop returns once no callback is in progress and starts none after.     *)
(* A configuration is a rate and a number of channels; a WAV file is the   *)
(* number of its samples, and a frame's samples are their positions.       *)
(***************************************************************************)
EXTENDS Integers, Sequences

CONSTANTS Offers,           \* what a device offers: sequences of configurations
          Requests,         \* configurations asked for
          WavLengths,       \* samples of the WAV file
          ChunkFrames,      \* buffer_frames, or ten milliseconds
          SleepSteps,       \* bound: steps the feeder sleeps after a chunk
          DeviceFrames         \* bound: frames of a device

ASSUME AdapterAssumption ==
    /\ \A o \in Offers : o \in Seq([rate : Nat, channels : Nat]) /\ o # <<>>
    /\ Requests \subseteq [rate : Nat, channels : Nat]
    /\ WavLengths \subseteq Nat
    /\ ChunkFrames \in Nat \ {0}

VARIABLES
    adapter,        \* "mac", "ios", "cpal", "wav"
    offer, wav_length,  \* the device, or the file
    mic,            \* the permission: its status, the sink, how often it fired
    agreed,         \* the format negotiated
    doing,             \* what the thread that owns the session does next
    unit,           \* the AudioUnit, or cpal's stream
    boxed,          \* CallbackState
    callback,       \* the audio thread is inside the callback
    feeder,         \* the feeder thread
    stop_flag,           \* its flag
    delivered,         \* history: the frames delivered
    drop_seen         \* history: how many when the session's drop returned

adapter_vars == <<adapter, offer, wav_length, mic, agreed, doing, unit, boxed, callback,
                  feeder, stop_flag, delivered, drop_seen>>
device_vars == <<adapter, offer, wav_length>>
thread_vars == <<callback, feeder, stop_flag, delivered, drop_seen>>
unit_vars == <<unit, boxed>>

Apple == {"mac", "ios"}
NoConfig == [rate |-> 0, channels |-> 0]
MaxChannels == 64

AdapterInit ==
    /\ adapter \in {"mac", "ios", "cpal", "wav"}
    /\ offer \in Offers
    /\ wav_length \in (IF adapter = "wav" THEN WavLengths ELSE {0})
    /\ mic = [status |-> IF adapter = "ios" THEN "Undetermined" ELSE "Granted",
              sink |-> "none", fired |-> 0, dialog |-> FALSE]
    /\ agreed = NoConfig
    /\ doing = "idle"
    /\ unit = "none"
    /\ boxed = "none"
    /\ callback = FALSE
    /\ feeder = [at |-> "none", chunk |-> 0, slept |-> 0]
    /\ stop_flag = FALSE
    /\ delivered = <<>>
    /\ drop_seen = 0

-----------------------------------------------------------------------------
(* The driver. *)

(* Everywhere but on iOS the sink is signalled before request returns; there the
   completion block takes it out of its cell. *)
RequestPermission ==
    /\ doing = "idle"
    /\ mic.sink = "none"
    /\ mic' = IF adapter = "ios" THEN [mic EXCEPT !.sink = "held", !.dialog = TRUE]
              ELSE [mic EXCEPT !.sink = "used", !.fired = @ + 1]
    /\ UNCHANGED <<device_vars, agreed, doing, unit_vars, thread_vars>>

(* The person answers, and the system calls the block. *)
AnswerPermission(verdict) ==
    /\ mic.dialog
    /\ mic' = [mic EXCEPT !.status = IF @ = "Undetermined" THEN verdict ELSE @,
                          !.dialog = FALSE,
                          !.sink = "used",
                          !.fired = IF mic.sink = "held" THEN @ + 1 ELSE @]
    /\ UNCHANGED <<device_vars, agreed, doing, unit_vars, thread_vars>>

RefuseCapture ==
    /\ doing' = "failed"
    /\ UNCHANGED <<device_vars, mic, agreed, unit_vars, thread_vars>>

(* new_devices: only with the permission, and if the session activates. *)
NewDevices ==
    /\ doing = "idle"
    /\ \/ mic.status = "Granted" /\ doing' = "negotiate"
       \/ (mic.status # "Granted" \/ adapter = "ios") /\ doing' = "failed"
    /\ UNCHANGED <<device_vars, mic, agreed, unit_vars, thread_vars>>

-----------------------------------------------------------------------------
(* The devices and the format. *)

(* A listing has for each adapter one stream, with its channels and the rates it supports;
   no rates where they have to be probed.  What a device does not say is defaulted, and
   any of Core Audio's queries may fail: there is no device if that for its id does. *)
Stream(channels, rates) == [channels |-> channels, rates |-> rates]
AtLeastOne(channels) == IF channels >= 1 THEN channels ELSE 1
Rates == {offer[i].rate : i \in DOMAIN offer}

MacChannels == {1, AtLeastOne(offer[1].channels)}
MacRates == {{}, Rates}
MacStreams == {Stream(channels, rates) : channels \in MacChannels, rates \in MacRates}

IosStreams == {Stream(AtLeastOne(offer[1].channels), {})}

(* device_to_port: the channels of the first configuration that has any, and the
   rates of all of them. *)
CpalStreams ==
    LET with == {i \in DOMAIN offer : offer[i].channels > 0}
        channels == offer[CHOOSE i \in with : \A j \in with : i <= j].channels
    IN IF with = {} THEN {} ELSE {Stream(channels, Rates)}

(* A file without channels is not read at all. *)
WavStreams == IF offer[1].channels = 0 THEN {} ELSE {Stream(offer[1].channels, {offer[1].rate})}

Listed == CASE adapter = "mac" -> MacStreams
            [] adapter = "ios" -> IosStreams
            [] adapter = "cpal" -> CpalStreams
            [] adapter = "wav" -> WavStreams

(* Mutant of UsableFormat: a stream with no channels is opened. *)
UsableRateOnly(request) == request.rate > 0

UsableFormat(request) == request.rate > 0 /\ request.channels \in 1..MaxChannels

Negotiated(request) ==
    CASE adapter = "mac" -> IF UsableFormat(request) THEN {request} ELSE {}
      [] adapter = "ios" ->
            IF UsableFormat(request)
            THEN {[rate |-> IF o.rate > 0 THEN o.rate ELSE request.rate,
                   channels |-> IF o.channels >= 1 /\ o.channels < request.channels
                                THEN o.channels ELSE request.channels] :
                  o \in {offer[i] : i \in DOMAIN offer}}
            ELSE {}
      [] adapter = "cpal" -> {offer[i] : i \in {j \in DOMAIN offer : offer[j] = request}}
      [] OTHER -> IF offer[1] = request /\ request.rate > 0 /\ request.channels > 0
                  THEN {request} ELSE {}

Negotiate(request) ==
    /\ doing = "negotiate"
    /\ IF Negotiated(request) = {}
       THEN RefuseCapture
       ELSE /\ agreed' \in Negotiated(request)
            /\ doing' = "opening"
            /\ UNCHANGED <<device_vars, mic, unit_vars, thread_vars>>

-----------------------------------------------------------------------------
(* Opening on Apple's platforms: a sequence of calls, each of which may fail, and
   what is undone when it does. *)

Calls == IF adapter = "mac"
         THEN <<"find", "new", "warm_up", "enable", "disable", "device", "cool_down",
                "format", "box", "callback", "initialize", "start">>
         ELSE <<"find", "new", "enable", "disable", "format", "box", "callback",
                "initialize", "start">>
NextCall(call) == LET i == CHOOSE i \in DOMAIN Calls : Calls[i] = call
                  IN IF i = Len(Calls) THEN "running" ELSE Calls[i + 1]
Infallible == {"box", "cool_down"}
IsCall == \E i \in DOMAIN Calls : Calls[i] = doing

BeginOpen ==
    /\ doing = "opening" /\ adapter \in Apple
    /\ IF UsableFormat(agreed) THEN doing' = Calls[1] ELSE doing' = "failed"
    /\ UNCHANGED <<device_vars, mic, agreed, unit_vars, thread_vars>>

CallSucceeds ==
    /\ IsCall
    /\ doing' = NextCall(doing)
    /\ unit' = CASE doing = "new" -> "made"
                 [] doing \in {"warm_up", "initialize"} -> "initialized"
                 [] doing = "cool_down" -> "made"
                 [] doing = "start" -> "running"
                 [] OTHER -> unit
    /\ boxed' = IF doing = "box" THEN "owned" ELSE boxed
    /\ UNCHANGED <<device_vars, mic, agreed, thread_vars>>

(* A unit that is initialized is uninitialized before it is disposed of. *)
Disposed(u) == IF u \in {"none", "made"} THEN u ELSE "leaked"

(* Mutant of CleanUp: a failed start leaves the callback's state allocated. *)
CleanUpUnit(call) ==
    [unit |-> IF unit = "none" THEN "none" ELSE "disposed", boxed |-> boxed]

(* Calls after which the failing open uninitializes, then what it frees. *)
CleanUp(call) ==
    LET uninitialized == IF /\ call \in {"enable", "disable", "device", "start"}
                            /\ unit = "initialized"
                         THEN "made" ELSE unit
    IN [unit |-> IF unit = "none" THEN "none"
                 ELSE IF Disposed(uninitialized) = "made" THEN "disposed" ELSE "leaked",
        boxed |-> IF boxed = "owned" THEN "freed" ELSE boxed]

CallFails ==
    /\ IsCall
    /\ doing \notin Infallible
    /\ doing' = "failed"
    /\ unit' = CleanUp(doing).unit
    /\ boxed' = CleanUp(doing).boxed
    /\ UNCHANGED <<device_vars, mic, agreed, thread_vars>>

-----------------------------------------------------------------------------
(* Opening with cpal, and from a WAV file. *)

(* build_input_stream, then play; a stream that does not play is dropped. *)
OpenCpal ==
    /\ doing = "opening" /\ adapter = "cpal"
    /\ \/ doing' = "running" /\ unit' = "running"
       \/ doing' = "failed" /\ unit' \in {"none", "disposed"}
    /\ UNCHANGED <<device_vars, mic, agreed, boxed, thread_vars>>

(* The file is read again; a last frame cut short is refused, and the file may no longer
   be readable, or the feeder not be spawned. *)
OpenWav ==
    /\ doing = "opening" /\ adapter = "wav"
    /\ \/ /\ wav_length % agreed.channels = 0
          /\ doing' = "running"
          /\ feeder' = [at |-> "check", chunk |-> 0, slept |-> 0]
       \/ doing' = "failed" /\ UNCHANGED feeder
    /\ UNCHANGED <<device_vars, mic, agreed, unit_vars, callback, stop_flag, delivered,
                   drop_seen>>

-----------------------------------------------------------------------------
(* Frames. *)

EnterCallback ==
    /\ unit = "running"
    /\ ~callback
    /\ Len(delivered) < DeviceFrames
    /\ callback' = TRUE
    /\ UNCHANGED <<device_vars, mic, agreed, doing, unit_vars, feeder, stop_flag,
                   delivered, drop_seen>>

(* A frame is delivered unless rendering fails; on cpal it is what the stream has. *)
LeaveCallback ==
    /\ callback
    /\ callback' = FALSE
    /\ \/ delivered' = Append(delivered, [first |-> 0, samples |-> agreed.channels])
       \/ adapter \in Apple /\ UNCHANGED delivered
    /\ UNCHANGED <<device_vars, mic, agreed, doing, unit_vars, feeder, stop_flag,
                   drop_seen>>

ChunkSamples == ChunkFrames * agreed.channels
ChunkFirst == feeder.chunk * ChunkSamples
ChunkLength ==
    IF wav_length - ChunkFirst < ChunkSamples THEN wav_length - ChunkFirst ELSE ChunkSamples

(* The feeder looks at its flag before each chunk and before each sleep. *)
FeedChunk ==
    /\ feeder.at = "check"
    /\ IF stop_flag \/ ChunkFirst >= wav_length
       THEN feeder' = [feeder EXCEPT !.at = "returned"] /\ UNCHANGED delivered
       ELSE /\ delivered' = Append(delivered, [first |-> ChunkFirst, samples |-> ChunkLength])
            /\ feeder' = [at |-> "sleep", chunk |-> feeder.chunk + 1, slept |-> 0]
    /\ UNCHANGED <<device_vars, mic, agreed, doing, unit_vars, callback, stop_flag,
                   drop_seen>>

FeederSleeps ==
    /\ feeder.at = "sleep"
    /\ feeder' = IF stop_flag THEN [feeder EXCEPT !.at = "returned"]
                 ELSE IF feeder.slept = SleepSteps THEN [feeder EXCEPT !.at = "check"]
                 ELSE [feeder EXCEPT !.slept = @ + 1]
    /\ UNCHANGED <<device_vars, mic, agreed, doing, unit_vars, callback, stop_flag,
                   delivered, drop_seen>>

-----------------------------------------------------------------------------
(* Dropping the session. *)

(* Mutant of Stopped: the unit is torn down without waiting for the callback. *)
StoppedAtOnce == TRUE

Stopped == ~callback

StopUnit ==
    /\ doing = "running" /\ adapter # "wav"
    /\ Stopped
    /\ doing' = IF adapter = "cpal" THEN "closed" ELSE "uninitialize"
    /\ unit' = IF adapter = "cpal" THEN "disposed" ELSE "initialized"
    /\ drop_seen' = Len(delivered)
    /\ UNCHANGED <<device_vars, mic, agreed, boxed, callback, feeder, stop_flag,
                   delivered>>

UninitializeUnit ==
    /\ doing = "uninitialize"
    /\ doing' = "dispose"
    /\ unit' = "made"
    /\ UNCHANGED <<device_vars, mic, agreed, boxed, thread_vars>>

DisposeUnit ==
    /\ doing = "dispose"
    /\ doing' = "free"
    /\ unit' = IF Disposed(unit) = "made" THEN "disposed" ELSE "leaked"
    /\ UNCHANGED <<device_vars, mic, agreed, boxed, thread_vars>>

FreeState ==
    /\ doing = "free"
    /\ doing' = "closed"
    /\ boxed' = "freed"
    /\ drop_seen' = Len(delivered)
    /\ UNCHANGED <<device_vars, mic, agreed, unit, callback, feeder, stop_flag, delivered>>

StopFeeder ==
    /\ doing = "running" /\ adapter = "wav"
    /\ doing' = "join"
    /\ stop_flag' = TRUE
    /\ UNCHANGED <<device_vars, mic, agreed, unit_vars, callback, feeder, delivered,
                   drop_seen>>

(* Mutant of Joined: the drop does not wait for the feeder. *)
NotJoined == TRUE

Joined == feeder.at = "returned"

JoinFeeder ==
    /\ doing = "join"
    /\ Joined
    /\ doing' = "closed"
    /\ drop_seen' = Len(delivered)
    /\ UNCHANGED <<device_vars, mic, agreed, unit_vars, callback, feeder, stop_flag,
                   delivered>>

AdapterNext ==
    \/ RequestPermission \/ \E verdict \in {"Granted", "Denied"} : AnswerPermission(verdict)
    \/ NewDevices \/ \E request \in Requests : Negotiate(request)
    \/ BeginOpen \/ CallSucceeds \/ CallFails \/ OpenCpal \/ OpenWav
    \/ EnterCallback \/ LeaveCallback \/ FeedChunk \/ FeederSleeps
    \/ StopUnit \/ UninitializeUnit \/ DisposeUnit \/ FreeState \/ StopFeeder \/ JoinFeeder

AdapterSpec == AdapterInit /\ [][AdapterNext]_adapter_vars

-----------------------------------------------------------------------------
(* Once the session's drop has returned no frame is delivered and none is on its
   way; a callback never runs on state that was freed. *)
NoFrameAfterDrop ==
    /\ callback => boxed # "freed" /\ unit # "disposed"
    /\ doing = "closed" => Len(delivered) = drop_seen /\ feeder.at \in {"none", "returned"}

(* Wherever opening fails, and after every session, the unit is disposed of, never
   while it is initialized, and the callback's state is freed. *)
NothingIsLeft ==
    /\ unit # "leaked"
    /\ doing \in {"failed", "closed"} => unit \in {"none", "disposed"} /\ boxed # "owned"

(* The frames of a WAV file are its samples, in order, each once; all of them if the
   feeder was not stopped; and a frame is whole in every channel. *)
WavIsFedInOrder ==
    adapter = "wav" =>
         /\ \A i \in DOMAIN delivered :
              /\ delivered[i].samples % agreed.channels = 0
              /\ delivered[i].first = IF i = 1 THEN 0
                                ELSE delivered[i - 1].first + delivered[i - 1].samples
         /\ feeder.at = "returned" /\ ~stop_flag =>
              wav_length = IF delivered = <<>> THEN 0
                       ELSE delivered[Len(delivered)].first + delivered[Len(delivered)].samples

(* Streams that are listed and cannot be opened: one of more channels than Apple's adapter
   takes, and, where a cpal device's configurations differ in their channels, one at a rate
   that only another number of channels has. *)
Unopenable(stream) ==
    \/ adapter \in Apple /\ stream.channels > MaxChannels
    \/ adapter = "cpal" /\ \E i, j \in DOMAIN offer : offer[i].channels # offer[j].channels

(* A permission request is answered at most once; no stream runs without a rate and
   channels, unless it is a cpal device's own; and whatever the queries of a device answer,
   each stream it lists has a channel and, but for the two above, can be opened at every
   rate it advertises. *)
FormatIsAgreed ==
    /\ mic.fired <= 1
    /\ doing = "running" =>
         \/ agreed.rate > 0 /\ agreed.channels > 0
         \/ adapter = "cpal" /\ \E i \in DOMAIN offer : offer[i] = agreed
    /\ \A stream \in Listed :
         /\ stream.channels >= 1
         /\ ~Unopenable(stream) =>
              \A rate \in stream.rates \ {0} :
                  Negotiated([rate |-> rate, channels |-> stream.channels]) # {}

CaptureIsReleased == NoFrameAfterDrop /\ NothingIsLeft /\ WavIsFedInOrder /\ FormatIsAgreed
=============================================================================

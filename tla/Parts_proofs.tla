----------------------------- MODULE Parts_proofs -----------------------------
(***************************************************************************)
(* Proofs about the parts that MCParts checks side by side, for every      *)
(* value of their constants: the surface that a head inspects an engine    *)
(* through, the adapters that capture, the two writers whose files outlive *)
(* a crash, the log and the trace, and the replay of a trace.              *)
(***************************************************************************)
EXTENDS MCParts, Screens_proofs, Engine_proofs, ProofFacts, SequenceTheorems, FiniteSetTheorems

USE AdapterAssumption

-----------------------------------------------------------------------------
(* Inspect: types, and who may touch the list of ports and the tap. *)

Places == {"gone", "building", "resolving", "waiting", "tapping", "peeking", "exited"}

InspectTypes ==
    /\ engines \in Nat
    /\ plane \in {"stopped", "opening", "refused", "running", "joining", "clearing",
                 "cleared_list"}
    /\ unopened \subseteq 1..engines
    /\ node_ports.session \in 0..engines
    /\ tapper \in [at : Places, block_seq : Nat, loaded : Picks \cup {NoPick}, quit : BOOLEAN]
    /\ selection \in Picks \cup {NoPick}
    /\ tap.session \in Nat /\ tap.seq \in Nat
    /\ polled.session \in Nat /\ polled.seq \in Nat

(* A worker lives from the start of a session to the join that ends it, and runs blocks
   while its stream is open. *)
WorkerInv ==
    /\ plane = "stopped" => tapper.at \in {"gone", "exited"}
    /\ plane \in {"opening", "refused", "running", "joining"} => engines > 0 /\ tapper.at # "gone"
    /\ plane \in {"clearing", "cleared_list"} => tapper.at = "exited"
    /\ tapper.at \in {"tapping", "peeking"} => plane \in {"running", "joining"}

(* The session that is on, and the last one when the plane stands still, is among the
   unopened when its stream was refused. *)
OpenInv ==
    /\ plane \in {"opening", "running", "joining", "clearing", "cleared_list"} =>
         engines \notin unopened
    /\ plane = "refused" => engines \in unopened

(* The list is a session's whose stream was refused, as were those after it, until this
   session's worker lists its own ports; and there is no tap before. *)
ListInv ==
    /\ node_ports.session = 0 => node_ports = NoPorts
    /\ node_ports.session # 0 => node_ports.session..engines - 1 \subseteq unopened
    /\ plane = "stopped" /\ node_ports.session # 0 => engines \in unopened
    /\ plane \in {"stopped", "opening", "refused"} => tap = NoTap
    /\ tapper.at \in {"building", "resolving"} => tap = NoTap
    /\ plane = "cleared_list" => node_ports = NoPorts
    /\ tapper.at \in {"resolving", "waiting", "tapping", "peeking"} =>
         node_ports.session = engines
    /\ tap # NoTap => node_ports.session \in {0, engines}
    /\ tap # NoTap /\ plane = "running" => node_ports.session = engines

(* A tap is of this session and of a block that was run; so is what a head saw, if it
   was of this session. *)
SeqInv ==
    /\ tap # NoTap => /\ tap.session = engines /\ tap.session > 0 /\ engines \notin unopened
                      /\ tap.seq <= tapper.block_seq
    /\ polled.session <= engines
    /\ polled.session = 0 => polled.seq = 0
    /\ polled.session = engines => polled.seq <= tapper.block_seq
    /\ tap.session = polled.session => tap.seq >= polled.seq

(* A block that began after the selection is tapped with it, and none begins before the
   stream is open. *)
PickInv ==
    /\ plane \in {"opening", "refused"} => since_pick = "nothing"
    /\ since_pick # "nothing" /\ tapper.at = "peeking" => tapper.loaded = selection
    /\ plane = "running" /\ since_pick = "tapped" /\ selection.port \in DOMAIN EnginePorts =>
         tap.port = selection.port /\ tap.shape = selection.shape

InspectInv == InspectTypes /\ WorkerInv /\ OpenInv /\ ListInv /\ SeqInv /\ PickInv

-----------------------------------------------------------------------------
LEMMA InspectStarts == InspectInit => InspectInv
<1>. SUFFICES ASSUME InspectInit PROVE InspectInv
  OBVIOUS
<1>1. InspectTypes BY DEF InspectInit, InspectTypes, Places, NoTap, NoPorts, Gone
<1>2. WorkerInv /\ OpenInv BY DEF InspectInit, WorkerInv, OpenInv, Gone
<1>3. ListInv BY DEF InspectInit, ListInv, Gone, NoPorts
<1>4. SeqInv BY DEF InspectInit, SeqInv, NoTap, Gone
<1>5. PickInv BY DEF InspectInit, PickInv
<1>. QED BY <1>1, <1>2, <1>3, <1>4, <1>5 DEF InspectInv

\* What the head does: a selection makes every earlier block one of no interest, and what
\* it polls is what the tap is.
LEMMA HeadKeeps ==
  ASSUME InspectInv,
         (\E pick \in Picks \cup {NoPick} : SetSelection(pick)) \/ LatestTap
  PROVE  InspectInv'
<1>1. CASE \E pick \in Picks \cup {NoPick} : SetSelection(pick)
  BY <1>1
     DEF SetSelection, plane_side, InspectInv, InspectTypes, WorkerInv, OpenInv, ListInv, SeqInv,
         PickInv
<1>2. CASE LatestTap
  <2>0. /\ polled' = tap /\ tap' = tap /\ tapper' = tapper /\ engines' = engines
        /\ unopened' = unopened
        /\ tapper.block_seq \in Nat /\ tap.seq \in Nat /\ tap.session \in Nat
    BY <1>2 DEF LatestTap, plane_side, InspectInv, InspectTypes
  <2>1. SeqInv'
    BY <2>0 DEF InspectInv, InspectTypes, SeqInv, NoTap
  <2>2. InspectTypes' /\ WorkerInv' /\ OpenInv' /\ ListInv' /\ PickInv'
    BY <1>2 DEF LatestTap, plane_side, InspectInv, InspectTypes, WorkerInv, OpenInv, ListInv, PickInv
  <2>. QED BY <2>1, <2>2 DEF InspectInv
<1>. QED BY <1>1, <1>2

\* The worker's steps that leave the tap alone.
LEMMA WorkerKeeps ==
  ASSUME InspectInv,
         PublishNodePorts \/ ResolvedAll \/ TapperExits \/ RunEngineBlock \/ LoadSelection
  PROVE  InspectInv'
<1>. USE DEF InspectInv, plane_side, head_side
<1>1. CASE PublishNodePorts
  BY <1>1 DEF PublishNodePorts, TapperGoes, InspectTypes, WorkerInv, OpenInv, ListInv, SeqInv, PickInv,
              Places, NoPorts
<1>2. CASE ResolvedAll
  BY <1>2 DEF ResolvedAll, TapperGoes, InspectTypes, WorkerInv, OpenInv, ListInv, SeqInv, PickInv,
              Places
<1>3. CASE TapperExits
  BY <1>3 DEF TapperExits, InspectTypes, WorkerInv, OpenInv, ListInv, SeqInv, PickInv, Places
<1>4. CASE RunEngineBlock
  <2>2. /\ tapper'.block_seq = tapper.block_seq + 1 /\ tapper'.at = "tapping"
        /\ tapper' \in [at : Places, block_seq : Nat, loaded : Picks \cup {NoPick},
                       quit : BOOLEAN]
    <3>1. tapper' = [at |-> "tapping", block_seq |-> tapper.block_seq + 1,
                     loaded |-> tapper.loaded, quit |-> tapper.quit]
      BY <1>4 DEF RunEngineBlock, InspectTypes
    <3>. QED BY <3>1 DEF InspectTypes, Places
  <2>1. InspectTypes' /\ WorkerInv' /\ OpenInv' BY <1>4, <2>2 DEF RunEngineBlock, InspectTypes, WorkerInv, OpenInv
  <2>3. ListInv' BY <1>4, <2>2 DEF RunEngineBlock, ListInv, InspectTypes, WorkerInv, OpenInv
  <2>4. SeqInv' BY <1>4, <2>2 DEF RunEngineBlock, SeqInv, InspectTypes
  <2>5. PickInv' BY <1>4, <2>2 DEF RunEngineBlock, PickInv
  <2>. QED BY <2>1, <2>3, <2>4, <2>5
<1>5. CASE LoadSelection
  BY <1>5 DEF LoadSelection, InspectTypes, WorkerInv, OpenInv, ListInv, SeqInv, PickInv, Places
<1>. QED BY <1>1, <1>2, <1>3, <1>4, <1>5

\* A tap is stored while a session holds its worker, with the selection of its block.
LEMMA StoreKeeps ==
  ASSUME InspectInv, StoreTap
  PROVE  InspectInv'
<1>. USE DEF InspectInv, StoreTap, TapperGoes, plane_side, head_side
<1>1. InspectTypes' /\ WorkerInv' /\ OpenInv'
  BY DEF InspectTypes, WorkerInv, OpenInv, Places
<1>2. plane \in {"running", "joining"} /\ engines > 0 /\ engines \notin unopened
  BY DEF InspectTypes, WorkerInv, OpenInv, Places
<1>3. ListInv'
  BY <1>2 DEF InspectTypes, ListInv, NoTap
<1>4. SeqInv'
  BY <1>2 DEF InspectTypes, SeqInv, NoTap
<1>5. PickInv'
  <2>1. CASE since_pick = "nothing" BY <2>1 DEF PickInv, InspectTypes
  <2>2. CASE since_pick # "nothing"
    BY <2>2 DEF PickInv, InspectTypes
  <2>. QED BY <2>1, <2>2
<1>. QED BY <1>1, <1>3, <1>4, <1>5

\* A new worker finds the list that unopened sessions left, if any, and no tap.
LEMMA StartKeeps ==
  ASSUME InspectInv, StartEngine
  PROVE  InspectInv'
<1>. USE DEF InspectInv, StartEngine, head_side
<1>1. /\ tapper' = [at |-> "building", block_seq |-> 0, loaded |-> NoPick, quit |-> FALSE]
      /\ tapper' \in [at : Places, block_seq : Nat, loaded : Picks \cup {NoPick},
                      quit : BOOLEAN]
  BY DEF Gone, Places
<1>2. /\ engines \in Nat /\ engines' = engines + 1 /\ unopened' = unopened
      /\ tap = NoTap /\ tap' = tap /\ node_ports' = node_ports
      /\ unopened \subseteq 1..engines /\ node_ports.session \in 0..engines
  BY DEF InspectTypes, ListInv
<1>3. InspectTypes' BY <1>1, <1>2 DEF InspectTypes
<1>4. WorkerInv' /\ OpenInv' BY <1>1, <1>2 DEF WorkerInv, OpenInv
<1>5. ListInv'
  <2>1. ASSUME node_ports.session # 0 PROVE node_ports.session..engines \subseteq unopened
    <3>1. engines \in unopened /\ node_ports.session..engines - 1 \subseteq unopened
      BY <2>1 DEF ListInv
    <3>2. node_ports.session..engines = (node_ports.session..engines - 1) \cup {engines}
      BY <1>2
    <3>. QED BY <3>1, <3>2
  <2>2. engines' - 1 = engines BY <1>2
  <2>3. (node_ports.session # 0 => node_ports.session..engines - 1 \subseteq unopened)'
    BY <1>2, <2>1, <2>2
  <2>. QED BY <1>1, <1>2, <2>3 DEF ListInv
<1>6. SeqInv' BY <1>1, <1>2 DEF SeqInv, InspectTypes, NoTap
<1>7. PickInv' BY <1>1 DEF PickInv
<1>. QED BY <1>3, <1>4, <1>5, <1>6, <1>7

\* The stream opens, or is refused and the worker told to quit.
LEMMA StreamKeeps ==
  ASSUME InspectInv, OpenStream \/ RefuseStream
  PROVE  InspectInv'
<1>. USE DEF InspectInv, PlaneGoes, head_side
<1>1. CASE OpenStream
  <2>1. tap = NoTap BY <1>1 DEF OpenStream, ListInv
  <2>2. PickInv' BY <1>1 DEF OpenStream, PickInv
  <2>3. InspectTypes' /\ WorkerInv' /\ OpenInv'
    BY <1>1 DEF OpenStream, InspectTypes, WorkerInv, OpenInv
  <2>4. ListInv' /\ SeqInv' BY <1>1, <2>1 DEF OpenStream, ListInv, SeqInv
  <2>. QED BY <2>2, <2>3, <2>4
<1>2. CASE RefuseStream
  <2>1. /\ tap = NoTap /\ engines > 0 /\ engines \in Nat
        /\ tapper.at # "gone" /\ tapper.at \notin {"tapping", "peeking"}
    BY <1>2 DEF RefuseStream, ListInv, WorkerInv, InspectTypes
  <2>2. /\ tapper' \in [at : Places, block_seq : Nat, loaded : Picks \cup {NoPick},
                        quit : BOOLEAN]
        /\ tapper'.at = tapper.at /\ tapper'.block_seq = tapper.block_seq
        /\ tapper'.loaded = tapper.loaded
    BY <1>2 DEF RefuseStream, InspectTypes
  <2>3. InspectTypes' /\ WorkerInv' /\ OpenInv'
    BY <1>2, <2>1, <2>2 DEF RefuseStream, InspectTypes, WorkerInv, OpenInv
  <2>4. ListInv' BY <1>2, <2>1, <2>2 DEF RefuseStream, ListInv
  <2>5. SeqInv' BY <1>2, <2>1, <2>2 DEF RefuseStream, SeqInv
  <2>6. PickInv' BY <1>2, <2>1, <2>2 DEF RefuseStream, PickInv
  <2>. QED BY <2>3, <2>4, <2>5, <2>6
<1>. QED BY <1>1, <1>2

\* The join of a session that was open, and the clearing of what a head could see of it.
LEMMA PlaneKeeps ==
  ASSUME InspectInv,
         AskQuit \/ JoinTapper \/ ClearPorts \/ ClearTap
  PROVE  InspectInv'
<1>. USE DEF InspectInv, PlaneGoes, head_side
<1>2. CASE AskQuit
  BY <1>2 DEF AskQuit, InspectTypes, WorkerInv, OpenInv, ListInv, SeqInv, PickInv, Places
<1>3. CASE JoinTapper
  BY <1>3 DEF JoinTapper, WorkerJoined, InspectTypes, WorkerInv, OpenInv, ListInv, SeqInv,
              PickInv, Places
<1>4. CASE ClearPorts
  BY <1>4 DEF ClearPorts, InspectTypes, WorkerInv, OpenInv, ListInv, SeqInv, PickInv, Places,
              NoPorts
<1>5. CASE ClearTap
  BY <1>5 DEF ClearTap, InspectTypes, WorkerInv, OpenInv, ListInv, SeqInv, PickInv, Places,
              NoPorts, NoTap
<1>. QED BY <1>2, <1>3, <1>4, <1>5

LEMMA InspectStep == InspectInv /\ [InspectNext]_inspect_vars => InspectInv'
<1>. SUFFICES ASSUME InspectInv, [InspectNext]_inspect_vars
              PROVE  InspectInv'
  OBVIOUS
<1>1. CASE UNCHANGED inspect_vars
  BY <1>1 DEF inspect_vars, InspectInv, InspectTypes, WorkerInv, OpenInv, ListInv, SeqInv, PickInv
<1>. QED BY <1>1, HeadKeeps, WorkerKeeps, StoreKeeps, StartKeeps, StreamKeeps, PlaneKeeps
     DEF InspectNext

-----------------------------------------------------------------------------
(* For every set of ports and selections, and however long sessions last and however often
   the head picks and streams are refused: after a teardown (inspect.rs,
   InspectShared::clear) a head finds no list and no tap, and after a stream that was
   refused (control_plane.rs, bring_up_capture) it may find a list, of a session since
   which no stream was opened, but no tap; the tap it finds before is of the running
   session, never older than what it saw of it, and of the port it picked once a block
   has been tapped for the pick. *)
THEOREM TapsAreCurrentAlways == InspectSpec => []TapsAreCurrent
<1>1. InspectInv => TapsAreCurrent
  <2>. SUFFICES ASSUME InspectInv PROVE TapsAreCurrent
    OBVIOUS
  <2>. USE DEF InspectInv
  <2>1. /\ plane = "stopped" => tap = NoTap
        /\ tap # NoTap => tap.session = engines /\ engines \notin unopened
                          /\ node_ports.session \in {0, engines}
        /\ tap # NoTap /\ plane = "running" => node_ports.session = engines
    BY DEF ListInv, SeqInv
  <2>2. ListedBy(engines) BY DEF ListInv, ListedBy
  <2>3. ASSUME plane = "stopped", node_ports # NoPorts
        PROVE  /\ node_ports.session \in 1..engines
               /\ node_ports.session..engines \subseteq unopened
    <3>1. /\ engines \in Nat /\ node_ports.session \in 1..engines /\ engines \in unopened
          /\ node_ports.session..engines - 1 \subseteq unopened
      BY <2>3 DEF ListInv, InspectTypes
    <3>2. node_ports.session..engines = (node_ports.session..engines - 1) \cup {engines}
      BY <3>1
    <3>. QED BY <3>1, <3>2
  <2>4. /\ tap.session = polled.session => tap.seq >= polled.seq
        /\ plane = "running" /\ since_pick = "tapped" /\ selection.port \in DOMAIN EnginePorts =>
             tap.port = selection.port /\ tap.shape = selection.shape
    BY DEF SeqInv, PickInv
  <2>. QED BY <2>1, <2>2, <2>3, <2>4 DEF TapsAreCurrent
<1>. QED BY <1>1, InspectStarts, InspectStep, PTL DEF InspectSpec

-----------------------------------------------------------------------------
(* What holds of a capture at each step of its life. *)

Frames == [first : Nat, samples : Nat]
Configs == [rate : Nat, channels : Nat]
MacCalls == {"find", "new", "warm_up", "enable", "disable", "device", "cool_down", "format",
             "box", "callback", "initialize", "start"}
IosCalls == MacCalls \ {"warm_up", "device", "cool_down"}
CallsOf == IF adapter = "mac" THEN MacCalls ELSE IosCalls
Closing == {"uninitialize", "dispose", "free"}
Doings == {"idle", "negotiate", "opening", "failed", "running", "join", "closed"}
            \cup MacCalls \cup Closing

CaptureTypes ==
    /\ adapter \in {"mac", "ios", "cpal", "wav"}
    /\ offer \in Offers
    /\ wav_length \in Nat
    /\ mic.sink \in {"none", "held", "used"} /\ mic.fired \in Nat
    /\ agreed \in Configs
    /\ doing \in Doings
    /\ callback \in BOOLEAN /\ stop_flag \in BOOLEAN
    /\ delivered \in Seq(Frames)
    /\ feeder \in [at : {"none", "check", "sleep", "returned"}, chunk : Nat, slept : Nat]

MicInv ==
    /\ mic.sink # "used" => mic.fired = 0
    /\ mic.sink = "none" => ~mic.dialog
    /\ mic.fired <= 1

\* The unit and the callback's state at each call of Apple's open and of its teardown.
UnitInv ==
    /\ doing \in MacCalls => adapter \in Apple /\ doing \in CallsOf
    /\ doing \in Closing => adapter \in Apple
    /\ doing \in {"idle", "negotiate", "opening", "find", "new"} =>
         unit = "none" /\ boxed = "none"
    /\ doing \in {"warm_up", "format", "box"} => unit = "made" /\ boxed = "none"
    /\ doing \in {"enable", "disable", "device"} =>
         unit = (IF adapter = "mac" THEN "initialized" ELSE "made") /\ boxed = "none"
    /\ doing = "cool_down" => unit = "initialized" /\ boxed = "none"
    /\ doing \in {"callback", "initialize"} => unit = "made" /\ boxed = "owned"
    /\ doing \in {"start", "uninitialize"} => unit = "initialized" /\ boxed = "owned"
    /\ doing = "dispose" => unit = "made" /\ boxed = "owned"
    /\ doing = "free" => unit = "disposed" /\ boxed = "owned"
    /\ doing \in {"failed", "closed"} =>
         unit \in {"none", "disposed"} /\ boxed \in {"none", "freed"}
    /\ doing = "running" =>
         /\ unit = (IF adapter = "wav" THEN "none" ELSE "running")
         /\ adapter \in Apple => boxed = "owned"
    /\ doing = "join" => adapter = "wav" /\ unit = "none" /\ boxed = "none"
    /\ adapter \notin Apple => boxed = "none"
    /\ callback => doing = "running" /\ adapter # "wav"

\* A thread feeds frames from the start of a session to the end of its drop.
ThreadInv ==
    /\ doing \notin {"running", "join", "closed"} => feeder.at = "none"
    /\ adapter # "wav" => feeder.at = "none"
    /\ adapter = "wav" /\ doing \in {"running", "join"} => feeder.at # "none"
    /\ doing = "closed" => Len(delivered) = drop_seen /\ feeder.at \in {"none", "returned"}
    /\ doing \in {"uninitialize", "dispose", "free"} => ~callback
    /\ adapter = "wav" /\ feeder.at = "none" => delivered = <<>>

AgreedInv ==
    /\ doing \in Doings \ {"idle", "negotiate", "failed"} =>
         /\ adapter = "cpal" => \E i \in DOMAIN offer : offer[i] = agreed
         /\ adapter \in Apple /\ doing # "opening" => UsableFormat(agreed)
         /\ adapter = "wav" => agreed.rate > 0 /\ agreed.channels > 0
    /\ feeder.at # "none" => agreed.channels > 0 /\ Divides(agreed.channels, wav_length)

\* What was fed ends where the next chunk begins, or at the end of the file.
Fed == IF delivered = <<>> THEN 0
       ELSE delivered[Len(delivered)].first + delivered[Len(delivered)].samples

FeedInv ==
    adapter = "wav" =>
      /\ \A i \in DOMAIN delivered :
           /\ Divides(agreed.channels, delivered[i].samples)
           /\ delivered[i].first = IF i = 1 THEN 0
                                   ELSE delivered[i - 1].first + delivered[i - 1].samples
      /\ Fed = IF ChunkFirst < wav_length THEN ChunkFirst ELSE wav_length
      /\ feeder.at = "none" => feeder.chunk = 0
      /\ feeder.at = "returned" /\ ~stop_flag => ChunkFirst >= wav_length

CaptureInv == CaptureTypes /\ MicInv /\ UnitInv /\ ThreadInv /\ AgreedInv /\ FeedInv

-----------------------------------------------------------------------------
LEMMA CaptureStarts == AdapterInit => CaptureInv
<1>. SUFFICES ASSUME AdapterInit PROVE CaptureInv
  OBVIOUS
<1>1. CaptureTypes
  <2>1. wav_length \in Nat BY DEF AdapterInit
  <2>2. agreed \in Configs BY DEF AdapterInit, Configs, NoConfig
  <2>3. mic.sink \in {"none", "held", "used"} /\ mic.fired \in Nat BY DEF AdapterInit
  <2>4. delivered \in Seq(Frames) BY DEF AdapterInit
  <2>5. doing \in Doings BY DEF AdapterInit, Doings
  <2>. QED BY <2>1, <2>2, <2>3, <2>4, <2>5 DEF AdapterInit, CaptureTypes
<1>2. MicInv /\ UnitInv /\ ThreadInv
  BY DEF AdapterInit, MicInv, UnitInv, ThreadInv, MacCalls, Closing
<1>3. AgreedInv
  BY DEF AdapterInit, AgreedInv
<1>4. FeedInv
  <2>1. ChunkFirst = 0
    BY DEF AdapterInit, ChunkFirst, ChunkSamples, NoConfig
  <2>. QED BY <2>1 DEF AdapterInit, FeedInv, Fed
<1>. QED BY <1>1, <1>2, <1>3, <1>4 DEF CaptureInv

\* The order of the calls of an open.
LEMMA CallOrder ==
  ASSUME adapter \in Apple, IsCall
  PROVE  /\ doing \in CallsOf
         /\ doing = "find" => NextCall(doing) = "new"
         /\ doing = "new" => NextCall(doing) = IF adapter = "mac" THEN "warm_up" ELSE "enable"
         /\ doing = "warm_up" => NextCall(doing) = "enable"
         /\ doing = "enable" => NextCall(doing) = "disable"
         /\ doing = "disable" => NextCall(doing) = IF adapter = "mac" THEN "device" ELSE "format"
         /\ doing = "device" => NextCall(doing) = "cool_down"
         /\ doing = "cool_down" => NextCall(doing) = "format"
         /\ doing = "format" => NextCall(doing) = "box"
         /\ doing = "box" => NextCall(doing) = "callback"
         /\ doing = "callback" => NextCall(doing) = "initialize"
         /\ doing = "initialize" => NextCall(doing) = "start"
         /\ doing = "start" => NextCall(doing) = "running"
<1>1. CASE adapter = "mac"
  <2>1. PICK i \in 1..12 : Calls[i] = doing
    BY <1>1 DEF IsCall, Calls
  <2>2. \A j \in 1..12 : Calls[j] = doing => j = i
    BY <1>1, <2>1 DEF Calls
  <2>3. NextCall(doing) = IF i = 12 THEN "running" ELSE Calls[i + 1]
    <3>1. DOMAIN Calls = 1..12 /\ Len(Calls) = 12 BY <1>1 DEF Calls
    <3>2. i = CHOOSE j \in DOMAIN Calls : Calls[j] = doing BY <2>1, <2>2, <3>1
    <3>. QED BY <3>1, <3>2 DEF NextCall
  <2>. QED BY <1>1, <2>1, <2>3 DEF Calls, CallsOf, MacCalls
<1>2. CASE adapter = "ios"
  <2>1. PICK i \in 1..9 : Calls[i] = doing
    BY <1>2 DEF IsCall, Calls
  <2>2. \A j \in 1..9 : Calls[j] = doing => j = i
    BY <1>2, <2>1 DEF Calls
  <2>3. NextCall(doing) = IF i = 9 THEN "running" ELSE Calls[i + 1]
    <3>1. DOMAIN Calls = 1..9 /\ Len(Calls) = 9 BY <1>2 DEF Calls
    <3>2. i = CHOOSE j \in DOMAIN Calls : Calls[j] = doing BY <2>1, <2>2, <3>1
    <3>. QED BY <3>1, <3>2 DEF NextCall
  <2>. QED BY <1>2, <2>1, <2>3 DEF Calls, CallsOf, IosCalls, MacCalls
<1>. QED BY <1>1, <1>2 DEF Apple

-----------------------------------------------------------------------------
(* The driver, the devices and the format. *)

\* The permission is asked for and given without touching anything else.
LEMMA PermissionKeeps ==
  ASSUME CaptureInv,
         RequestPermission \/ \E verdict \in {"Granted", "Denied"} : AnswerPermission(verdict)
  PROVE  CaptureInv'
<1>1. UNCHANGED <<device_vars, agreed, doing, unit_vars, thread_vars>>
  BY DEF RequestPermission, AnswerPermission
<1>2. /\ mic'.sink \in {"none", "held", "used"} /\ mic'.fired \in Nat
      /\ MicInv'
  <2>1. CASE RequestPermission
    BY <2>1 DEF RequestPermission, CaptureInv, CaptureTypes, MicInv
  <2>2. ASSUME NEW verdict \in {"Granted", "Denied"}, AnswerPermission(verdict)
        PROVE  /\ mic'.sink \in {"none", "held", "used"} /\ mic'.fired \in Nat
               /\ MicInv'
    BY <2>2 DEF AnswerPermission, CaptureInv, CaptureTypes, MicInv
  <2>. QED BY <2>1, <2>2
<1>3. CaptureTypes' /\ UnitInv' /\ ThreadInv'
  BY <1>1, <1>2 DEF CaptureInv, CaptureTypes, UnitInv, ThreadInv, CallsOf, device_vars,
                    unit_vars, thread_vars
<1>4. AgreedInv' /\ FeedInv'
  BY <1>1 DEF CaptureInv, AgreedInv, FeedInv, Fed, ChunkFirst, ChunkSamples, device_vars,
              thread_vars
<1>. QED BY <1>2, <1>3, <1>4 DEF CaptureInv

\* Whatever is agreed is a configuration, one of the device's on cpal and one that has a rate
\* and channels from a file.
LEMMA AgreedIsAConfig ==
  ASSUME CaptureTypes, NEW request \in Requests, NEW a \in Negotiated(request)
  PROVE  /\ a \in Configs
         /\ adapter = "cpal" => \E i \in DOMAIN offer : offer[i] = a
         /\ adapter = "wav" => a.rate > 0 /\ a.channels > 0
<1>1. offer \in Seq(Configs) /\ offer # <<>> /\ request \in Configs
  BY DEF CaptureTypes, Configs
<1>2. CASE adapter = "mac"
  BY <1>1, <1>2 DEF Negotiated
<1>3. CASE adapter = "ios"
  <2>1. PICK i \in DOMAIN offer :
          a = [rate |-> IF offer[i].rate > 0 THEN offer[i].rate ELSE request.rate,
               channels |-> IF offer[i].channels >= 1 /\ offer[i].channels < request.channels
                            THEN offer[i].channels ELSE request.channels]
    BY <1>3 DEF Negotiated
  <2>2. offer[i] \in Configs BY <1>1
  <2>3. /\ (IF offer[i].rate > 0 THEN offer[i].rate ELSE request.rate) \in Nat
        /\ (IF offer[i].channels >= 1 /\ offer[i].channels < request.channels
            THEN offer[i].channels ELSE request.channels) \in Nat
    BY <1>1, <2>2 DEF Configs
  <2>. QED BY <1>3, <2>1, <2>3 DEF Configs
<1>4. CASE adapter = "cpal"
  <2>1. PICK i \in DOMAIN offer : offer[i] = request /\ a = offer[i]
    BY <1>4 DEF Negotiated
  <2>. QED BY <1>1, <1>4, <2>1
<1>5. CASE adapter = "wav"
  BY <1>1, <1>5 DEF Negotiated
<1>. QED BY <1>2, <1>3, <1>4, <1>5 DEF CaptureTypes

LEMMA FormatKeeps ==
  ASSUME CaptureInv, NewDevices \/ \E request \in Requests : Negotiate(request)
  PROVE  CaptureInv'
<1>1. CASE NewDevices
  <2>1. /\ doing = "idle" /\ doing' \in {"negotiate", "failed"}
        /\ UNCHANGED <<device_vars, mic, agreed, unit_vars, thread_vars>>
    BY <1>1 DEF NewDevices
  <2>2. CaptureTypes' /\ MicInv' /\ UnitInv' /\ ThreadInv'
    BY <2>1 DEF CaptureInv, CaptureTypes, MicInv, UnitInv, ThreadInv, Doings, MacCalls, Closing,
                device_vars, unit_vars, thread_vars
  <2>3. AgreedInv' /\ FeedInv'
    BY <2>1 DEF CaptureInv, AgreedInv, FeedInv, Fed, ChunkFirst, ChunkSamples, device_vars,
                thread_vars
  <2>. QED BY <2>2, <2>3 DEF CaptureInv
<1>2. ASSUME NEW request \in Requests, Negotiate(request)
      PROVE  CaptureInv'
  <2>1. /\ doing = "negotiate"
        /\ \/ doing' = "failed" /\ agreed' = agreed
           \/ doing' = "opening" /\ agreed' \in Negotiated(request)
        /\ UNCHANGED <<device_vars, mic, unit_vars, thread_vars>>
    BY <1>2 DEF Negotiate, RefuseCapture
  <2>2. agreed' \in Configs
    BY <2>1, AgreedIsAConfig DEF CaptureInv, CaptureTypes
  <2>3. CaptureTypes' /\ MicInv' /\ UnitInv' /\ ThreadInv'
    BY <2>1, <2>2 DEF CaptureInv, CaptureTypes, MicInv, UnitInv, ThreadInv, Doings, MacCalls,
                      Closing, device_vars, unit_vars, thread_vars
  <2>4. feeder.at = "none" /\ (adapter = "wav" => delivered = <<>> /\ feeder.chunk = 0)
    BY <2>1 DEF CaptureInv, ThreadInv, FeedInv
  <2>5. AgreedInv'
    BY <2>1, <2>4, AgreedIsAConfig DEF CaptureInv, AgreedInv, device_vars, thread_vars
  <2>6. FeedInv'
    <3>1. (ChunkFirst' = 0 /\ Fed' = 0) \/ adapter # "wav"
      BY <2>1, <2>2, <2>4
         DEF ChunkFirst, ChunkSamples, Fed, Configs, thread_vars
    <3>2. wav_length \in Nat BY DEF CaptureInv, CaptureTypes
    <3>. QED BY <2>1, <2>4, <3>1, <3>2 DEF FeedInv, device_vars, thread_vars
  <2>. QED BY <2>3, <2>5, <2>6 DEF CaptureInv
<1>. QED BY <1>1, <1>2

-----------------------------------------------------------------------------
(* Opening and dropping. *)

\* What the steps of a unit leave alone.
FormatUnchanged == UNCHANGED <<device_vars, mic, agreed, feeder, stop_flag>>

LEMMA AppleOpens ==
  ASSUME CaptureInv, BeginOpen \/ CallSucceeds \/ CallFails
  PROVE  CaptureInv'
<1>1. /\ adapter \in Apple /\ doing \in MacCalls \cup {"opening"}
      /\ UNCHANGED <<device_vars, mic, agreed, thread_vars>>
  BY CallOrder DEF BeginOpen, CallSucceeds, CallFails, IsCall, Calls, Apple, MacCalls,
                   CaptureInv, UnitInv
<1>2. /\ doing' \in CallsOf \cup {"running", "failed"}
      /\ UnitInv'
  <2>1. CASE BeginOpen
    <3>1. doing' \in {"find", "failed"} /\ UNCHANGED unit_vars /\ doing = "opening"
      BY <1>1, <2>1 DEF BeginOpen, Calls, Apple, unit_vars
    <3>. QED BY <1>1, <3>1 DEF CaptureInv, UnitInv, CallsOf, MacCalls, IosCalls, Closing, Apple,
                               unit_vars, device_vars, thread_vars
  <2>2. CASE CallSucceeds
    BY <1>1, <2>2, CallOrder DEF CallSucceeds, CaptureInv, UnitInv, CallsOf, MacCalls, IosCalls,
                                 Closing, Apple, device_vars, thread_vars
  <2>3. CASE CallFails
    BY <1>1, <2>3, CallOrder DEF CallFails, CleanUp, Disposed, Infallible, CaptureInv, UnitInv,
                                 CallsOf, MacCalls, IosCalls, Closing, Apple, device_vars,
                                 thread_vars
  <2>. QED BY <2>1, <2>2, <2>3
<1>3. ~callback /\ feeder.at = "none"
  BY <1>1 DEF CaptureInv, UnitInv, ThreadInv, MacCalls, Apple
<1>4. CaptureTypes' /\ MicInv' /\ ThreadInv'
  BY <1>1, <1>2, <1>3 DEF CaptureInv, CaptureTypes, MicInv, ThreadInv, Doings, MacCalls,
      IosCalls, CallsOf, Closing, Apple, device_vars, thread_vars
<1>5. AgreedInv'
  <2>1. doing = "opening" /\ doing' # "failed" => UsableFormat(agreed)
    BY <1>1 DEF BeginOpen, CallSucceeds, CallFails, IsCall, Calls, Apple
  <2>. QED BY <1>1, <1>3, <2>1 DEF CaptureInv, AgreedInv, UsableFormat, Apple, Doings, MacCalls,
                                    device_vars, thread_vars
<1>6. FeedInv'
  BY <1>1 DEF FeedInv, Apple, device_vars
<1>. QED BY <1>2, <1>4, <1>5, <1>6 DEF CaptureInv

\* An open with cpal, and a unit's teardown.
LEMMA UnitCloses ==
  ASSUME CaptureInv,
         OpenCpal \/ StopUnit \/ UninitializeUnit \/ DisposeUnit \/ FreeState
  PROVE  CaptureInv'
<1>1. adapter # "wav" /\ UNCHANGED <<device_vars, mic, agreed, feeder, stop_flag, delivered>>
  BY DEF OpenCpal, StopUnit, UninitializeUnit, DisposeUnit, FreeState, CaptureInv, UnitInv,
         Closing, Apple, thread_vars
<1>2. UnitInv' /\ doing' \in Doings /\ callback' \in BOOLEAN
  <2>. USE DEF CaptureInv, CaptureTypes, UnitInv, CallsOf, Doings, MacCalls, Closing, Apple,
               device_vars, thread_vars
  <2>1. CASE OpenCpal BY <1>1, <2>1 DEF OpenCpal
  <2>2. CASE StopUnit BY <1>1, <2>2 DEF StopUnit, Stopped
  <2>3. CASE UninitializeUnit BY <1>1, <2>3 DEF UninitializeUnit
  <2>4. CASE DisposeUnit BY <1>1, <2>4 DEF DisposeUnit, Disposed
  <2>5. CASE FreeState
    <3>1. /\ doing = "free" /\ doing' = "closed" /\ boxed' = "freed"
          /\ unit' = unit /\ callback' = callback
      BY <2>5 DEF FreeState
    <3>2. unit = "disposed" /\ ~callback /\ adapter \in Apple BY <3>1
    <3>. QED BY <1>1, <3>1, <3>2
  <2>. QED BY <2>1, <2>2, <2>3, <2>4, <2>5
<1>3. ThreadInv'
  BY <1>1 DEF OpenCpal, StopUnit, UninitializeUnit, DisposeUnit, FreeState, Stopped,
              CaptureInv, ThreadInv, device_vars, thread_vars
<1>4. CaptureTypes' /\ MicInv'
  BY <1>1, <1>2 DEF CaptureInv, CaptureTypes, MicInv, device_vars
<1>5. AgreedInv'
  BY <1>1 DEF OpenCpal, StopUnit, UninitializeUnit, DisposeUnit, FreeState, CaptureInv,
              AgreedInv, UsableFormat, Apple, Doings, Closing, MacCalls, device_vars
<1>6. FeedInv'
  BY <1>1 DEF FeedInv, device_vars
<1>. QED BY <1>2, <1>3, <1>4, <1>5, <1>6 DEF CaptureInv

\* A WAV file is opened if its last frame is whole, and its feeder is stopped and joined.
LEMMA FileOpensAndCloses ==
  ASSUME CaptureInv, OpenWav \/ StopFeeder \/ JoinFeeder
  PROVE  CaptureInv'
<1>1. /\ adapter = "wav"
      /\ UNCHANGED <<device_vars, mic, agreed, unit_vars, callback, delivered>>
  BY DEF OpenWav, StopFeeder, JoinFeeder, CaptureInv, UnitInv
<1>2. UnitInv' /\ doing' \in Doings
  BY <1>1 DEF OpenWav, StopFeeder, JoinFeeder, CaptureInv, UnitInv, CallsOf, Doings, MacCalls,
              Closing, Apple, device_vars, unit_vars
<1>3. CaptureTypes' /\ MicInv' /\ ThreadInv'
  <2>. USE DEF CaptureInv, CaptureTypes, MicInv, ThreadInv, device_vars, unit_vars
  <2>1. CASE OpenWav
    <3>1. doing = "opening" /\ feeder.at = "none" /\ UNCHANGED <<stop_flag, drop_seen>>
      BY <2>1 DEF OpenWav
    <3>2. CASE doing' = "running" /\ feeder' = [at |-> "check", chunk |-> 0, slept |-> 0]
      BY <1>1, <1>2, <3>1, <3>2
    <3>3. CASE doing' = "failed" /\ feeder' = feeder
      BY <1>1, <1>2, <3>1, <3>3
    <3>. QED BY <2>1, <3>2, <3>3 DEF OpenWav
  <2>2. CASE StopFeeder BY <1>1, <1>2, <2>2 DEF StopFeeder
  <2>3. CASE JoinFeeder BY <1>1, <1>2, <2>3 DEF JoinFeeder, Joined
  <2>. QED BY <2>1, <2>2, <2>3
<1>4. AgreedInv'
  <2>1. CASE OpenWav
    <3>1. agreed.channels \in Nat \ {0} /\ wav_length \in Nat
      BY <2>1 DEF OpenWav, CaptureInv, CaptureTypes, AgreedInv, Configs, Doings
    <3>2. feeder' # feeder => Divides(agreed.channels, wav_length)
      BY <2>1, <3>1, DividesMod DEF OpenWav
    <3>. QED BY <1>1, <2>1, <3>1, <3>2 DEF OpenWav, CaptureInv, AgreedInv, Doings, Apple,
                                           device_vars
  <2>2. CASE StopFeeder \/ JoinFeeder
    BY <1>1, <2>2 DEF StopFeeder, JoinFeeder, CaptureInv, AgreedInv, Doings, Apple, device_vars
  <2>. QED BY <2>1, <2>2
<1>5. FeedInv'
  <2>1. Fed' = Fed BY <1>1 DEF Fed
  <2>2. feeder'.chunk = feeder.chunk /\ (feeder'.at # feeder.at => feeder'.at = "check")
    BY <1>1 DEF OpenWav, StopFeeder, JoinFeeder, CaptureInv, ThreadInv, FeedInv
  <2>3. ChunkFirst' = ChunkFirst BY <1>1, <2>2 DEF ChunkFirst, ChunkSamples
  <2>4. ~stop_flag' => ~stop_flag
    BY <1>1 DEF OpenWav, StopFeeder, JoinFeeder, CaptureInv, CaptureTypes
  <2>5. feeder'.at = "none" => feeder.at = "none"
    BY <1>1 DEF OpenWav, StopFeeder, JoinFeeder
  <2>. QED BY <1>1, <2>1, <2>2, <2>3, <2>4, <2>5 DEF CaptureInv, FeedInv, device_vars
<1>. QED BY <1>2, <1>3, <1>4, <1>5 DEF CaptureInv

-----------------------------------------------------------------------------
(* Frames. *)

LEMMA CallbackKeeps ==
  ASSUME CaptureInv, EnterCallback \/ LeaveCallback
  PROVE  CaptureInv'
<1>1. /\ UNCHANGED <<device_vars, mic, agreed, doing, unit_vars, feeder, stop_flag, drop_seen>>
      /\ doing = "running" /\ adapter # "wav"
  <2>1. CASE EnterCallback
    BY <2>1 DEF EnterCallback, CaptureInv, CaptureTypes, UnitInv, Doings, MacCalls, Closing,
                Apple
  <2>2. CASE LeaveCallback
    BY <2>2 DEF LeaveCallback, CaptureInv, UnitInv
  <2>. QED BY <2>1, <2>2
<1>2. delivered' \in Seq(Frames) /\ callback' \in BOOLEAN
  <2>1. [first |-> 0, samples |-> agreed.channels] \in Frames
    BY DEF CaptureInv, CaptureTypes, Configs, Frames
  <2>2. delivered \in Seq(Frames) BY DEF CaptureInv, CaptureTypes
  <2>3. \/ delivered' = delivered
        \/ delivered' = Append(delivered, [first |-> 0, samples |-> agreed.channels])
    BY DEF EnterCallback, LeaveCallback
  <2>4. callback' \in BOOLEAN BY DEF EnterCallback, LeaveCallback
  <2>. QED BY <2>1, <2>2, <2>3, <2>4
<1>3. CaptureTypes' /\ MicInv' /\ UnitInv' /\ ThreadInv'
  BY <1>1, <1>2 DEF CaptureInv, CaptureTypes, MicInv, UnitInv, ThreadInv, CallsOf, MacCalls,
                    Closing, device_vars, unit_vars
<1>4. AgreedInv' /\ FeedInv'
  BY <1>1 DEF CaptureInv, AgreedInv, FeedInv, device_vars
<1>. QED BY <1>3, <1>4 DEF CaptureInv

\* A chunk begins where the last one ended, and is whole in every channel.
LEMMA ChunkFits ==
  ASSUME CaptureInv, feeder.at = "check", ChunkFirst < wav_length
  PROVE  /\ ChunkFirst \in Nat /\ ChunkLength \in Nat /\ ChunkSamples \in Nat \ {0}
         /\ Divides(agreed.channels, ChunkLength)
         /\ (feeder.chunk + 1) * ChunkSamples = ChunkFirst + ChunkSamples
<1>. DEFINE c == agreed.channels
<1>1. c \in Nat \ {0} /\ wav_length \in Nat /\ feeder.chunk \in Nat
  BY DEF CaptureInv, CaptureTypes, AgreedInv, Configs
<1>2. ChunkSamples = c * ChunkFrames /\ ChunkSamples \in Nat \ {0}
  BY <1>1 DEF ChunkSamples
<1>3. /\ ChunkFirst = feeder.chunk * ChunkSamples /\ ChunkFirst \in Nat
      /\ (feeder.chunk + 1) * ChunkSamples = ChunkFirst + ChunkSamples
  BY <1>1, <1>2, NextMultiple DEF ChunkFirst
<1>4. PICK q \in Nat : wav_length = c * q
  BY <1>1 DEF CaptureInv, AgreedInv, Divides
<1>5. CASE wav_length - ChunkFirst < ChunkSamples
  <2>1. ChunkLength = wav_length - ChunkFirst /\ ChunkLength \in Nat
    BY <1>1, <1>3, <1>5 DEF ChunkLength
  <2>2. ChunkFirst = c * (feeder.chunk * ChunkFrames) /\ feeder.chunk * ChunkFrames \in Nat
    <3>1. feeder.chunk * (c * ChunkFrames) = c * (feeder.chunk * ChunkFrames)
      <4>. HIDE DEF c
      <4>. QED BY <1>1, Regroup
    <3>2. feeder.chunk * ChunkFrames \in Nat BY <1>1, NextMultiple
    <3>3. ChunkFirst = feeder.chunk * (c * ChunkFrames)
      <4>. HIDE DEF c
      <4>. QED BY <1>2, <1>3, Zenon
    <3>. QED BY <3>1, <3>2, <3>3, Zenon
  <2>. DEFINE k == feeder.chunk * ChunkFrames
  <2>3. k \in Nat /\ ChunkFirst = c * k BY <2>2
  <2>. HIDE DEF k, c
  <2>4. ChunkLength = c * (q - k) BY <1>1, <1>4, <2>1, <2>3
  <2>5. q - k \in Nat BY <1>1, <1>4, <2>1, <2>3, <2>4
  <2>. QED BY <1>2, <1>3, <2>1, <2>4, <2>5 DEF Divides, c
<1>6. CASE ~(wav_length - ChunkFirst < ChunkSamples)
  <2>1. ChunkLength = c * ChunkFrames BY <1>2, <1>6 DEF ChunkLength
  <2>. QED BY <1>2, <1>3, <2>1 DEF Divides
<1>. QED BY <1>5, <1>6

LEMMA FeederKeeps ==
  ASSUME CaptureInv, FeedChunk \/ FeederSleeps
  PROVE  CaptureInv'
<1>1. /\ UNCHANGED <<device_vars, mic, agreed, doing, unit_vars, callback, stop_flag, drop_seen>>
      /\ adapter = "wav" /\ feeder.at \in {"check", "sleep"}
  BY DEF FeedChunk, FeederSleeps, CaptureInv, ThreadInv
<1>2. doing # "closed" /\ feeder'.at \in {"check", "sleep", "returned"}
      /\ feeder' \in [at : {"none", "check", "sleep", "returned"}, chunk : Nat, slept : Nat]
  <2>1. feeder \in [at : {"none", "check", "sleep", "returned"}, chunk : Nat, slept : Nat]
    BY DEF CaptureInv, CaptureTypes
  <2>2. CASE FeedChunk BY <1>1, <2>1, <2>2 DEF FeedChunk, CaptureInv, ThreadInv
  <2>3. CASE FeederSleeps BY <1>1, <2>1, <2>3 DEF FeederSleeps, CaptureInv, ThreadInv
  <2>. QED BY <2>2, <2>3
<1>3. delivered' \in Seq(Frames)
  <2>1. ASSUME feeder.at = "check", ChunkFirst < wav_length
        PROVE  [first |-> ChunkFirst, samples |-> ChunkLength] \in Frames
    BY <2>1, ChunkFits DEF Frames
  <2>2. ChunkFirst \in Nat /\ wav_length \in Nat
    BY NextMultiple DEF ChunkFirst, ChunkSamples, CaptureInv, CaptureTypes, Configs
  <2>3. delivered \in Seq(Frames) BY DEF CaptureInv, CaptureTypes
  <2>4. \/ delivered' = delivered
        \/ /\ feeder.at = "check" /\ ~(ChunkFirst >= wav_length)
           /\ delivered' = Append(delivered, [first |-> ChunkFirst, samples |-> ChunkLength])
    BY DEF FeedChunk, FeederSleeps
  <2>. QED BY <2>1, <2>2, <2>3, <2>4
<1>4. CaptureTypes' /\ MicInv' /\ UnitInv' /\ ThreadInv'
  BY <1>1, <1>2, <1>3 DEF CaptureInv, CaptureTypes, MicInv, UnitInv, ThreadInv, CallsOf,
                          device_vars, unit_vars
<1>5. AgreedInv'
  BY <1>1 DEF CaptureInv, AgreedInv, device_vars
<1>6. FeedInv'
  <2>0. /\ feeder \in [at : {"none", "check", "sleep", "returned"}, chunk : Nat, slept : Nat]
        /\ ChunkFirst \in Nat /\ wav_length \in Nat
    BY NextMultiple DEF ChunkFirst, ChunkSamples, CaptureInv, CaptureTypes, Configs
  <2>1. CASE delivered' = delivered /\ feeder'.chunk = feeder.chunk
    <3>1. ChunkFirst' = ChunkFirst /\ Fed' = Fed
      BY <1>1, <2>1 DEF ChunkFirst, ChunkSamples, Fed
    <3>2. feeder'.at = "returned" /\ ~stop_flag => ChunkFirst >= wav_length
      BY <1>1, <2>1, <2>0 DEF FeedChunk, FeederSleeps
    <3>. QED BY <1>1, <1>2, <2>1, <3>1, <3>2 DEF CaptureInv, FeedInv, device_vars
  <2>2. CASE ~(delivered' = delivered /\ feeder'.chunk = feeder.chunk)
    <3>. DEFINE f == [first |-> ChunkFirst, samples |-> ChunkLength]
    <3>0. ChunkFirst \in Nat /\ wav_length \in Nat
      BY NextMultiple DEF ChunkFirst, ChunkSamples, CaptureInv, CaptureTypes, Configs
    <3>1. /\ feeder.at = "check" /\ ChunkFirst < wav_length
          /\ delivered' = Append(delivered, f)
          /\ feeder'.chunk = feeder.chunk + 1 /\ feeder'.at = "sleep"
      BY <2>0, <2>2, <3>0 DEF FeedChunk, FeederSleeps
    <3>2. /\ ChunkLength \in Nat /\ ChunkSamples \in Nat \ {0}
          /\ Divides(agreed.channels, ChunkLength)
          /\ ChunkFirst' = ChunkFirst + ChunkSamples
      BY <1>1, <3>1, ChunkFits DEF ChunkFirst, ChunkSamples
    <3>3. delivered \in Seq(Frames) /\ Fed = ChunkFirst
      BY <1>1, <3>1 DEF CaptureInv, CaptureTypes, FeedInv
    <3>4. /\ Len(delivered') = Len(delivered) + 1 /\ delivered'[Len(delivered) + 1] = f
          /\ \A i \in DOMAIN delivered : delivered'[i] = delivered[i]
          /\ DOMAIN delivered' = DOMAIN delivered \cup {Len(delivered) + 1}
          /\ DOMAIN delivered = 1..Len(delivered) /\ Len(delivered) \in Nat
      BY <3>1, <3>3
    <3>5. f.first = ChunkFirst /\ f.samples = ChunkLength OBVIOUS
    <3>. HIDE DEF f
    <3>6. Fed' = ChunkFirst + ChunkLength
      BY <3>1, <3>3, <3>4, <3>5 DEF Fed
    <3>7. Fed' = IF ChunkFirst' < wav_length THEN ChunkFirst' ELSE wav_length
      BY <3>0, <3>1, <3>2, <3>6 DEF ChunkLength
    <3>8. ASSUME NEW i \in DOMAIN delivered'
          PROVE  /\ Divides(agreed.channels, delivered'[i].samples)
                 /\ delivered'[i].first = IF i = 1 THEN 0
                                  ELSE delivered'[i - 1].first + delivered'[i - 1].samples
      <4>1. CASE i \in DOMAIN delivered
        <5>1. i # 1 => i - 1 \in DOMAIN delivered BY <3>4, <4>1
        <5>. QED BY <1>1, <3>4, <4>1, <5>1 DEF CaptureInv, FeedInv
      <4>2. CASE i = Len(delivered) + 1
        <5>1. delivered'[i].first = Fed /\ Divides(agreed.channels, delivered'[i].samples)
          BY <3>2, <3>3, <3>4, <3>5, <4>2
        <5>2. i = 1 <=> delivered = <<>> BY <3>3, <3>4, <4>2
        <5>3. i # 1 => i - 1 = Len(delivered) /\ i - 1 \in DOMAIN delivered BY <3>4, <4>2
        <5>. QED BY <3>4, <5>1, <5>2, <5>3 DEF Fed
      <4>. QED BY <3>4, <4>1, <4>2
    <3>. QED BY <1>1, <3>1, <3>7, <3>8 DEF FeedInv, device_vars
  <2>. QED BY <2>1, <2>2
<1>. QED BY <1>4, <1>5, <1>6 DEF CaptureInv

LEMMA CaptureStep == CaptureInv /\ [AdapterNext]_adapter_vars => CaptureInv'
<1>. SUFFICES ASSUME CaptureInv, [AdapterNext]_adapter_vars
              PROVE  CaptureInv'
  OBVIOUS
<1>1. CASE UNCHANGED adapter_vars
  <2>1. CaptureTypes' /\ MicInv' /\ UnitInv' /\ ThreadInv'
    BY <1>1 DEF adapter_vars, CaptureInv, CaptureTypes, MicInv, UnitInv, ThreadInv, CallsOf
  <2>2. AgreedInv' /\ FeedInv'
    BY <1>1 DEF adapter_vars, CaptureInv, AgreedInv, FeedInv, Fed, ChunkFirst, ChunkSamples
  <2>. QED BY <2>1, <2>2 DEF CaptureInv
<1>. QED BY <1>1, PermissionKeeps, FormatKeeps, AppleOpens, UnitCloses, FileOpensAndCloses,
            CallbackKeeps, FeederKeeps DEF AdapterNext

-----------------------------------------------------------------------------
(* What the invariant says of a session's end, of its frames and of its format. *)

LEMMA FramesAreWhole == CaptureInv => WavIsFedInOrder
<1>. SUFFICES ASSUME CaptureInv, adapter = "wav" PROVE WavIsFedInOrder
  BY DEF WavIsFedInOrder
<1>1. ASSUME NEW i \in DOMAIN delivered
      PROVE  delivered[i].samples % agreed.channels = 0
  <2>1. delivered # <<>> BY DEF CaptureInv, CaptureTypes
  <2>2. agreed.channels \in Nat \ {0}
    BY <2>1 DEF CaptureInv, CaptureTypes, ThreadInv, AgreedInv, Configs
  <2>3. delivered \in Seq(Frames) BY DEF CaptureInv, CaptureTypes
  <2>4. delivered[i] \in Frames BY <2>3
  <2>5. delivered[i].samples \in Nat BY <2>4 DEF Frames
  <2>. QED BY <2>2, <2>5, DividesMod DEF CaptureInv, FeedInv
<1>2. feeder.at = "returned" /\ ~stop_flag => wav_length = Fed
  <2>1. ChunkFirst \in Nat /\ wav_length \in Nat
    BY NextMultiple DEF ChunkFirst, ChunkSamples, CaptureInv, CaptureTypes, Configs
  <2>. QED BY <2>1 DEF CaptureInv, FeedInv
<1>. QED BY <1>1, <1>2 DEF CaptureInv, FeedInv, Fed, WavIsFedInOrder

LEMMA ListedOpens ==
  ASSUME CaptureInv, NEW stream \in Listed
  PROVE  /\ stream.channels >= 1
         /\ ~Unopenable(stream) =>
              \A rate \in stream.rates \ {0} :
                 Negotiated([rate |-> rate, channels |-> stream.channels]) # {}
<1>1. offer \in Seq(Configs) /\ offer # <<>> /\ offer[1] \in Configs
  <2>1. offer \in Seq(Configs) /\ offer # <<>>
    BY DEF CaptureInv, CaptureTypes, Configs
  <2>. QED BY <2>1
<1>2. \A rate \in Rates : rate \in Nat /\ \E i \in DOMAIN offer : offer[i].rate = rate
  <2>1. \A i \in DOMAIN offer : offer[i] \in Configs BY <1>1
  <2>. QED BY <2>1 DEF Rates, Configs
<1>3. CASE adapter = "mac"
  <2>1. PICK channels \in MacChannels, rates \in MacRates : stream = Stream(channels, rates)
    BY <1>3 DEF Listed, MacStreams
  <2>2. channels \in Nat /\ channels >= 1 /\ rates \subseteq Rates
    BY <1>1, <2>1 DEF MacChannels, MacRates, AtLeastOne, Configs
  <2>3. stream.channels = channels /\ stream.rates = rates
    BY <2>1 DEF Stream
  <2>4. ASSUME ~Unopenable(stream), NEW rate \in stream.rates \ {0}
        PROVE  Negotiated([rate |-> rate, channels |-> stream.channels]) # {}
    <3>1. rate \in Nat /\ rate > 0 /\ channels \in 1..MaxChannels
      <4>1. rate \in Nat /\ rate # 0 BY <1>2, <2>2, <2>3
      <4>2. channels <= MaxChannels
        BY <1>3, <2>2, <2>3, <2>4 DEF Unopenable, Apple, MaxChannels
      <4>. QED BY <2>2, <4>1, <4>2 DEF MaxChannels
    <3>2. UsableFormat([rate |-> rate, channels |-> channels])
      BY <3>1 DEF UsableFormat
    <3>. QED BY <1>3, <2>3, <3>2 DEF Negotiated
  <2>. QED BY <2>2, <2>3, <2>4
<1>4. CASE adapter = "ios"
  BY <1>1, <1>4 DEF Listed, IosStreams, Stream, AtLeastOne, Configs
<1>5. CASE adapter = "cpal"
  <2>1. PICK i \in DOMAIN offer :
          offer[i].channels > 0 /\ stream = Stream(offer[i].channels, Rates)
    <3>. DEFINE with == {i \in DOMAIN offer : offer[i].channels > 0}
                first == CHOOSE i \in with : \A j \in with : i <= j
    <3>1. with # {} /\ stream = Stream(offer[first].channels, Rates)
      BY <1>5 DEF Listed, CpalStreams
    <3>2. \E i \in with : \A j \in with : i <= j
      <4>1. with \in SUBSET Nat BY <1>1
      <4>. HIDE DEF with
      <4>. QED BY <3>1, <4>1, LeastNat
    <3>3. first \in with BY <3>2
    <3>. QED BY <3>1, <3>3
  <2>2. stream.channels = offer[i].channels /\ stream.rates = Rates
    BY <2>1 DEF Stream
  <2>3. ASSUME ~Unopenable(stream), NEW rate \in stream.rates \ {0}
        PROVE  Negotiated([rate |-> rate, channels |-> stream.channels]) # {}
    <3>1. PICK j \in DOMAIN offer : offer[j].rate = rate BY <1>2, <2>2
    <3>2. offer[j].channels = stream.channels BY <1>5, <2>2, <2>3 DEF Unopenable
    <3>3. offer[j] = [rate |-> rate, channels |-> stream.channels]
      <4>1. offer[j] \in Configs BY <1>1
      <4>. QED BY <3>1, <3>2, <4>1 DEF Configs
    <3>. QED BY <1>5, <3>3 DEF Negotiated
  <2>4. offer[i] \in Configs BY <1>1
  <2>. QED BY <2>1, <2>2, <2>3, <2>4 DEF Configs
<1>6. CASE adapter = "wav"
  BY <1>1, <1>6 DEF Listed, WavStreams, Stream, Negotiated, Configs
<1>. QED BY <1>3, <1>4, <1>5, <1>6 DEF CaptureInv, CaptureTypes

(* Wherever an open fails and whenever a session is dropped, whatever the device offers and
   the file holds, nothing of it is left and no frame follows (capture.rs, UnitGuard and
   WavAudioCapture::open); the frames of a file are its samples in order and whole; and a
   stream is listed only if it has a channel and opens at the rates it advertises. *)
THEOREM CaptureIsReleasedAlways == AdapterSpec => []CaptureIsReleased
<1>1. CaptureInv => CaptureIsReleased
  <2>. SUFFICES ASSUME CaptureInv PROVE CaptureIsReleased
    OBVIOUS
  <2>1. NoFrameAfterDrop
    BY DEF NoFrameAfterDrop, CaptureInv, CaptureTypes, UnitInv, ThreadInv, Apple
  <2>2. NothingIsLeft
    BY DEF NothingIsLeft, CaptureInv, CaptureTypes, UnitInv, Doings, MacCalls, Closing, Apple
  <2>3. doing = "running" =>
          \/ agreed.rate > 0 /\ agreed.channels > 0
          \/ adapter = "cpal" /\ \E i \in DOMAIN offer : offer[i] = agreed
    <3>. SUFFICES ASSUME doing = "running"
                  PROVE  \/ agreed.rate > 0 /\ agreed.channels > 0
                         \/ adapter = "cpal" /\ \E i \in DOMAIN offer : offer[i] = agreed
      OBVIOUS
    <3>1. doing \in Doings \ {"idle", "negotiate", "failed"} BY DEF Doings
    <3>2. adapter \in Apple => UsableFormat(agreed)
      BY <3>1 DEF CaptureInv, AgreedInv
    <3>3. adapter \in Apple => agreed.rate > 0 /\ agreed.channels > 0
      <4>1. UsableFormat(agreed) => agreed.rate > 0 /\ agreed.channels \in 1..64
        BY DEF UsableFormat, MaxChannels
      <4>2. ASSUME NEW n \in 1..64 PROVE n > 0 OBVIOUS
      <4>. QED BY <3>2, <4>1, <4>2
    <3>. QED BY <3>1, <3>3 DEF CaptureInv, CaptureTypes, AgreedInv, Apple
  <2>4. FormatIsAgreed
    BY <2>3, ListedOpens DEF FormatIsAgreed, CaptureInv, MicInv
  <2>. QED BY <2>1, <2>2, <2>4, FramesAreWhole DEF CaptureIsReleased
<1>. QED BY <1>1, CaptureStarts, CaptureStep, PTL DEF AdapterSpec

-----------------------------------------------------------------------------
(* Sequences, for the two writers. *)

LEMMA PrefixIs ==
  ASSUME NEW S, NEW s \in Seq(S), NEW t \in Seq(S)
  PROVE  IsPrefix(s, t) <=> Len(s) <= Len(t) /\ \A i \in 1..Len(s) : t[i] = s[i]
<1>1. Len(s) \in Nat /\ Len(t) \in Nat BY LenProperties
<1>. SUFFICES ASSUME Len(s) <= Len(t)
              PROVE  SubSeq(s, 1, Len(s)) = SubSeq(t, 1, Len(s)) <=> \A i \in 1..Len(s) : t[i] = s[i]
  BY DEF IsPrefix
<1>2. SubSeq(s, 1, Len(s)) = s BY SubSeqFull
<1>. DEFINE u == SubSeq(t, 1, Len(s))
<1>3. u \in Seq(S) /\ Len(u) = Len(s) /\ \A i \in 1..Len(s) : u[i] = t[i]
  BY <1>1
<1>. HIDE DEF u
<1>4. s = u <=> \A i \in 1..Len(s) : t[i] = s[i]
  BY <1>3, SeqEqual
<1>. QED BY <1>2, <1>4 DEF u

-----------------------------------------------------------------------------
(* The log. *)

-----------------------------------------------------------------------------
(* Types, and which line a thread is at. *)

FieldNames == Keys \cup {"app", "app_version", "event", "t_ms"}
Bags == UNION {[names -> Nat] : names \in SUBSET FieldNames}
Lines == [by : Threads, nth : Nat, fields : Bags, scopes : Seq(Bags), whole : BOOLEAN]
Steps == {"returned", "made", "printed", "locked", "written", "done"}

LEMMA Regathered ==
  ASSUME NEW S, NEW d \in Seq(S), NEW v \in Seq(S), NEW w \in Seq(S)
  PROVE  (d \o v) \o w = d \o (v \o w)
BY ConcatAssociative

\* What a spill or a flush moves from the buffer to the disk is not lost.
LEMMA MovedIsKept ==
  \A d, u \in Seq(Lines) : \A n \in 0..Len(u) :
    /\ d \o SubSeq(u, 1, n) \in Seq(Lines) /\ SubSeq(u, n + 1, Len(u)) \in Seq(Lines)
    /\ (d \o SubSeq(u, 1, n)) \o SubSeq(u, n + 1, Len(u)) = d \o u
    /\ n = Len(u) => SubSeq(u, n + 1, Len(u)) = <<>>
<1>. TAKE d, u \in Seq(Lines)
<1>. TAKE n \in 0..Len(u)
<1>1. SubSeq(u, 1, n) \in Seq(Lines) /\ SubSeq(u, n + 1, Len(u)) \in Seq(Lines)
  OBVIOUS
<1>2. SubSeq(u, 1, n) \o SubSeq(u, n + 1, Len(u)) = SubSeq(u, 1, Len(u))
  <2>1. 1 \in 1..Len(u) + 1 /\ n \in 1 - 1..Len(u) /\ Len(u) \in n..Len(u) OBVIOUS
  <2>. QED BY <2>1, ConcatAdjacentSubSeq
<1>3. SubSeq(u, 1, Len(u)) = u
  BY SubSeqFull
<1>4. n = Len(u) => SubSeq(u, n + 1, Len(u)) = <<>>
  BY SubSeqEmpty
<1>5. (d \o SubSeq(u, 1, n)) \o SubSeq(u, n + 1, Len(u))
          = d \o (SubSeq(u, 1, n) \o SubSeq(u, n + 1, Len(u)))
  <2>1. \A a, b, c \in Seq(Lines) : (a \o b) \o c = a \o (b \o c) BY Regathered
  <2>. QED BY <1>1, <2>1, Zenon
<1>6. d \o SubSeq(u, 1, n) \in Seq(Lines) BY <1>1, ConcatProperties
<1>. QED BY <1>1, <1>2, <1>3, <1>4, <1>5, <1>6

LEMMA AppendedIsKept ==
  \A d, u \in Seq(Lines) : \A x \in Lines :
    /\ d \o Append(u, x) = Append(d \o u, x)
    /\ (d \o u) \o <<x>> = Append(d \o u, x)
    /\ u = <<>> => Append(u, x) = <<x>> /\ d \o u = d
<1>. TAKE d, u \in Seq(Lines)
<1>. TAKE x \in Lines
<1>1. <<x>> \in Seq(Lines) /\ d \o u \in Seq(Lines) OBVIOUS
<1>2. \A s \in Seq(Lines) : Append(s, x) = s \o <<x>> BY AppendIsConcat
<1>3. (d \o u) \o <<x>> = d \o (u \o <<x>>) BY <1>1, ConcatAssociative
<1>4. u = <<>> => Append(u, x) = <<x>> /\ d \o u = d
  BY <1>1, ConcatEmptySeq
<1>5. d \o Append(u, x) = Append(d \o u, x)
  BY <1>1, <1>2, <1>3
<1>6. (d \o u) \o <<x>> = Append(d \o u, x)
  BY <1>1, <1>2
<1>. QED BY <1>4, <1>5, <1>6

LogTypes ==
    /\ logger \in [Threads -> [context : Bags, scopes : Seq(Bags)]]
    /\ call \in [Threads -> [at : Steps, line : Lines \cup {NoLine}, calls : Nat]]
    /\ out_holder \in Threads \cup {Nobody} /\ file_holder \in Threads \cup {Nobody}
    /\ console \in Seq(Lines) /\ unflushed \in Seq(Lines) /\ on_disk \in Seq(Lines)
    /\ has_file \in BOOLEAN /\ killed \in BOOLEAN
    /\ lost \in [line : BOOLEAN, flush : BOOLEAN]

\* A line's fields are those of its scopes, from the logger's context on.
Scoped(fields, scopes) == FieldsAreScoped([fields |-> fields, scopes |-> scopes])
ScopeInv ==
    \A t \in Threads :
      /\ Scoped(logger[t].context, logger[t].scopes)
      /\ call[t].at # "returned" =>
           /\ call[t].line \in Lines /\ call[t].line.whole
           /\ call[t].line.by = t /\ call[t].line.nth = call[t].calls
           /\ Scoped(call[t].line.fields, call[t].line.scopes)

\* stderr's mutex is held from the line's printing to the end of the call.
Teeing(t) == call[t].at \in {"printed", "locked"}
HoldInv ==
    \A t \in Threads :
      /\ call[t].at \in {"printed", "locked", "written", "done"} => out_holder = t
      /\ call[t].at \in {"printed", "locked", "written"} => has_file

\* What stderr was given: each line once, those of calls that were made before; the line
\* of the call that is teed is the last.
ConsoleInv ==
    /\ \A i \in DOMAIN console :
         LET line == console[i]
         IN /\ line.whole /\ Scoped(line.fields, line.scopes)
            /\ line.nth <= call[line.by].calls
            /\ call[line.by].at = "made" => line.nth # call[line.by].calls
    /\ \A i, j \in DOMAIN console : console[i] = console[j] => i = j
    /\ \A t \in Threads : call[t].at \in {"printed", "locked", "written"} =>
         console # <<>> /\ console[Len(console)] = call[t].line

\* What the file has of it, buffered or on the disk.
FileInv ==
    /\ AreInOrder(Kept, console)
    /\ \A t \in Threads : Teeing(t) => \A i \in DOMAIN Kept : Kept[i] # call[t].line
    /\ ~has_file => Kept = <<>>
LossInv ==
    has_file =>
    /\ ~lost.line => IsPrefix(Kept, console)
    /\ ~lost.line /\ ~killed =>
         Len(console) = Len(Kept) + (IF \E t \in Threads : Teeing(t) THEN 1 ELSE 0)
    /\ ~lost.line /\ ~lost.flush /\ ~killed =>
         \/ unflushed = <<>>
         \/ \E t \in Threads : call[t].at = "written" /\ unflushed = <<call[t].line>>

\* The calls that returned, line by line.
HasReturned(line) == call[line.by].calls > line.nth \/ call[line.by].at = "returned"
SafeInv ==
    has_file /\ ~lost.line /\ ~lost.flush =>
        \A i \in DOMAIN console :
            HasReturned(console[i]) => \E j \in DOMAIN on_disk : on_disk[j] = console[i]

LogInv == LogTypes /\ ScopeInv /\ HoldInv /\ ConsoleInv /\ FileInv /\ LossInv /\ SafeInv

LEMMA LogInvImplies == LogInv => LogIsTeed
<1>. SUFFICES ASSUME LogInv PROVE LogIsTeed
  OBVIOUS
<1>1. \A i \in DOMAIN console : FieldsAreScoped(console[i])
  BY DEF LogInv, ConsoleInv, Scoped, FieldsAreScoped
<1>2. Kept \in Seq(Lines) BY ConcatProperties DEF LogInv, LogTypes, Kept
<1>3. has_file /\ ~lost.line => IsPrefix(Kept, console) /\ (killed \/ Len(console) <= Len(Kept) + 1)
  <2>. HIDE DEF Kept
  <2>1. Len(Kept) \in Nat BY <1>2, LenProperties
  <2>. QED BY <2>1 DEF LogInv, LossInv
<1>. QED
  BY <1>1, <1>3 DEF LogInv, FileInv, SafeInv, HasReturned, LogIsTeed

-----------------------------------------------------------------------------
(* Scopes. *)

LEMMA BagOf ==
  ASSUME NEW b, NEW names \in SUBSET FieldNames, b \in [names -> Nat]
  PROVE  b \in Bags
BY DEF Bags

LEMMA BagsAre ==
  /\ \A b \in Bags : DOMAIN b \subseteq FieldNames /\ \A key \in DOMAIN b : b[key] \in Nat
  /\ \A depth \in Nat : Bag(depth) \in Bags
  /\ RootContext \in Bags /\ Stamped \in Bags /\ <<>> \in Bags
<1>1. \A b \in Bags : DOMAIN b \subseteq FieldNames /\ \A key \in DOMAIN b : b[key] \in Nat
  BY DEF Bags
<1>2. \A depth \in Nat : Bag(depth) \in Bags
  <2>. SUFFICES ASSUME NEW depth \in Nat PROVE Bag(depth) \in Bags
    OBVIOUS
  <2>1. Bag(depth) \in [Keys -> Nat] /\ Keys \in SUBSET FieldNames BY DEF Bag, FieldNames
  <2>. QED BY <2>1 DEF Bags
<1>3. RootContext \in Bags
  <2>1. RootContext \in [Keys \cup {"app"} -> Nat] /\ Keys \cup {"app"} \in SUBSET FieldNames
    BY DEF RootContext, FieldNames
  <2>. QED BY <2>1 DEF Bags
<1>4. Stamped \in Bags
  <2>. DEFINE names == {"app_version", "event", "t_ms"}
  <2>1. Stamped \in [names -> Nat] /\ names \in SUBSET FieldNames
    BY DEF Stamped, FieldNames
  <2>. QED BY <2>1 DEF Bags
<1>5. <<>> \in Bags
  <2>1. <<>> \in [{} -> Nat] OBVIOUS
  <2>. QED BY <2>1 DEF Bags
<1>. QED BY <1>1, <1>2, <1>3, <1>4, <1>5

\* A child's context, and the fields of a call, lie over the context they come from.
LEMMA MergedIsScoped ==
  ASSUME NEW fields \in Bags, NEW scopes \in Seq(Bags), NEW scope \in Bags,
         Scoped(fields, scopes)
  PROVE  /\ MergedWith(fields, scope) \in Bags
         /\ Append(scopes, scope) \in Seq(Bags)
         /\ Scoped(MergedWith(fields, scope), Append(scopes, scope))
<1>. DEFINE m == MergedWith(fields, scope)
            a == Append(scopes, scope)
            n == Len(scopes)
<1>1. /\ a \in Seq(Bags) /\ Len(a) = n + 1 /\ a[n + 1] = scope /\ n \in Nat
      /\ \A i \in 1..n : a[i] = scopes[i]
      /\ DOMAIN a = 1..n + 1 /\ DOMAIN scopes = 1..n
  BY AppendProperties, LenProperties
<1>2. /\ DOMAIN m = DOMAIN fields \cup DOMAIN scope
      /\ \A key \in DOMAIN m : m[key] = IF key \in DOMAIN scope THEN scope[key] ELSE fields[key]
  BY DEF MergedWith
<1>3. m \in Bags
  <2>. DEFINE names == DOMAIN fields \cup DOMAIN scope
  <2>1. names \in SUBSET FieldNames BY BagsAre
  <2>2. m \in [names -> Nat] BY BagsAre DEF MergedWith
  <2>. HIDE DEF m, names
  <2>. QED BY <2>1, <2>2, BagOf
<1>4. /\ DOMAIN fields = UNION {DOMAIN scopes[i] : i \in 1..n}
      /\ \A key \in DOMAIN fields : \E i \in 1..n :
           /\ key \in DOMAIN scopes[i]
           /\ \A j \in 1..n : j > i => key \notin DOMAIN scopes[j]
           /\ fields[key] = scopes[i][key]
  BY <1>1 DEF Scoped, FieldsAreScoped
<1>. HIDE DEF m, a, n
<1>5. DOMAIN m = UNION {DOMAIN a[i] : i \in 1..n + 1}
  <2>1. \A key : (\E i \in 1..n + 1 : key \in DOMAIN a[i])
                  <=> (\E i \in 1..n : key \in DOMAIN scopes[i]) \/ key \in DOMAIN scope
    BY <1>1
  <2>2. \A key : key \in DOMAIN m <=> \E i \in 1..n + 1 : key \in DOMAIN a[i]
    <3>1. \A key : key \in DOMAIN fields <=> \E i \in 1..n : key \in DOMAIN scopes[i]
      BY <1>4
    <3>. QED BY <1>2, <2>1, <3>1
  <2>. QED BY <2>2
<1>6. ASSUME NEW key \in DOMAIN m
      PROVE  \E i \in 1..n + 1 :
               /\ key \in DOMAIN a[i]
               /\ \A j \in 1..n + 1 : j > i => key \notin DOMAIN a[j]
               /\ m[key] = a[i][key]
  <2>1. CASE key \in DOMAIN scope
    BY <1>1, <1>2, <2>1
  <2>2. CASE key \notin DOMAIN scope
    <3>1. PICK i \in 1..n : /\ key \in DOMAIN scopes[i]
                            /\ \A j \in 1..n : j > i => key \notin DOMAIN scopes[j]
                            /\ fields[key] = scopes[i][key]
      BY <1>2, <1>4, <2>2
    <3>2. \A j \in 1..n + 1 : j > i => key \notin DOMAIN a[j]
      BY <1>1, <2>2, <3>1
    <3>. QED BY <1>1, <1>2, <2>2, <3>1, <3>2
  <2>. QED BY <2>1, <2>2
<1>7. Scoped(m, a)
  <2>. DEFINE line == [fields |-> m, scopes |-> a]
  <2>1. line.fields = m /\ line.scopes = a /\ DOMAIN a = 1..n + 1 BY <1>1
  <2>. HIDE DEF line
  <2>2. DOMAIN m = UNION {DOMAIN a[i] : i \in DOMAIN a} BY <1>5, <2>1
  <2>3. \A key \in DOMAIN m : \E i \in DOMAIN a :
          /\ key \in DOMAIN a[i]
          /\ \A j \in DOMAIN a : j > i => key \notin DOMAIN a[j]
          /\ m[key] = a[i][key]
    BY <1>6, <2>1
  <2>4. FieldsAreScoped(line)
    BY <2>1, <2>2, <2>3 DEF FieldsAreScoped
  <2>. QED BY <2>4 DEF Scoped, line
<1>. QED BY <1>1, <1>3, <1>7 DEF m, a

LEMMA RootIsScoped ==
  ASSUME NEW b \in Bags
  PROVE  <<b>> \in Seq(Bags) /\ Scoped(b, <<b>>)
<1>1. <<b>> \in Seq(Bags) /\ DOMAIN <<b>> = {1} /\ <<b>>[1] = b
  OBVIOUS
<1>. DEFINE s == <<b>>
<1>. HIDE DEF s
<1>2. DOMAIN s = {1} /\ s[1] = b BY <1>1 DEF s
<1>3. DOMAIN b = UNION {DOMAIN s[i] : i \in DOMAIN s} BY <1>2
<1>4. Scoped(b, s) BY <1>2, <1>3 DEF Scoped, FieldsAreScoped
<1>. QED BY <1>1, <1>4 DEF s

-----------------------------------------------------------------------------
(* The order of the lines. *)

LEMMA InOrderIs ==
  ASSUME NEW lines, NEW shown
  PROVE  AreInOrder(lines, shown) <=>
           /\ \A i \in DOMAIN lines : lines[i].whole => \E a \in DOMAIN shown : shown[a] = lines[i]
           /\ \A i, j \in DOMAIN lines : \A a, b \in DOMAIN shown :
                /\ lines[i].whole /\ lines[j].whole
                /\ i < j /\ shown[a] = lines[i] /\ shown[b] = lines[j]
                => a < b
BY DEF AreInOrder

LEMMA BufferedInOrder ==
  ASSUME NEW lines \in Seq(Lines), NEW shown \in Seq(Lines), NEW x \in Lines,
         AreInOrder(lines, shown),
         \/ ~x.whole
         \/ /\ shown # <<>> /\ shown[Len(shown)] = x
            /\ \A i, j \in DOMAIN shown : shown[i] = shown[j] => i = j
            /\ \A i \in DOMAIN lines : lines[i] # x
  PROVE  AreInOrder(Append(lines, x), shown)
<1>. DEFINE l == Append(lines, x)
            n == Len(lines)
            m == Len(shown)
<1>1. /\ l \in Seq(Lines) /\ l[n + 1] = x /\ \A i \in 1..n : l[i] = lines[i]
      /\ DOMAIN l = 1..n + 1 /\ DOMAIN lines = 1..n /\ DOMAIN shown = 1..m
      /\ n \in Nat /\ m \in Nat
  BY AppendProperties, LenProperties
<1>2. shown # <<>> => m \in 1..m BY <1>1, EmptySeq
<1>3. /\ \A i \in 1..n : lines[i].whole => \E a \in 1..m : shown[a] = lines[i]
      /\ \A i, j \in 1..n : \A a, b \in 1..m :
           /\ lines[i].whole /\ lines[j].whole
           /\ i < j /\ shown[a] = lines[i] /\ shown[b] = lines[j]
           => a < b
  BY <1>1, InOrderIs
<1>. HIDE DEF l, n, m
<1>4. \A i \in 1..n + 1 : l[i].whole => \E a \in 1..m : shown[a] = l[i]
  <2>. SUFFICES ASSUME NEW i \in 1..n + 1, l[i].whole PROVE \E a \in 1..m : shown[a] = l[i]
    OBVIOUS
  <2>1. CASE i = n + 1 BY <1>1, <1>2, <2>1 DEF m
  <2>2. CASE i # n + 1
    <3>1. i \in 1..n BY <1>1, <2>2
    <3>. QED BY <1>1, <1>3, <3>1
  <2>. QED BY <2>1, <2>2
<1>5. ASSUME NEW i \in 1..n + 1, NEW j \in 1..n + 1, NEW a \in 1..m, NEW b \in 1..m,
             l[i].whole, l[j].whole, i < j, shown[a] = l[i], shown[b] = l[j]
      PROVE  a < b
  <2>1. i \in 1..n BY <1>1, <1>5
  <2>2. CASE j \in 1..n BY <1>1, <1>3, <1>5, <2>1, <2>2
  <2>3. CASE j = n + 1
    <3>1. x.whole BY <1>1, <1>5, <2>3
    <3>2. b = m BY <1>1, <1>2, <1>5, <2>3, <3>1 DEF m
    <3>4. shown[m] = x BY <3>1 DEF m
    <3>5. l[i] # x BY <1>1, <2>1, <3>1
    <3>3. a # m BY <1>5, <3>4, <3>5
    <3>. QED BY <1>1, <3>2, <3>3
  <2>. QED BY <1>1, <2>2, <2>3
<1>6. AreInOrder(l, shown) BY <1>1, <1>4, <1>5, InOrderIs
<1>. QED BY <1>6 DEF l

LEMMA ShownInOrder ==
  ASSUME NEW lines \in Seq(Lines), NEW shown \in Seq(Lines), NEW x \in Lines,
         AreInOrder(lines, shown), \A i \in DOMAIN lines : lines[i] # x
  PROVE  AreInOrder(lines, Append(shown, x))
<1>. DEFINE s == Append(shown, x)
            n == Len(lines)
            m == Len(shown)
<1>1. /\ s \in Seq(Lines) /\ s[m + 1] = x /\ \A i \in 1..m : s[i] = shown[i]
      /\ DOMAIN s = 1..m + 1 /\ DOMAIN lines = 1..n /\ DOMAIN shown = 1..m
      /\ n \in Nat /\ m \in Nat
  BY AppendProperties, LenProperties
<1>3. /\ \A i \in 1..n : lines[i].whole => \E a \in 1..m : shown[a] = lines[i]
      /\ \A i, j \in 1..n : \A a, b \in 1..m :
           /\ lines[i].whole /\ lines[j].whole
           /\ i < j /\ shown[a] = lines[i] /\ shown[b] = lines[j]
           => a < b
  BY <1>1, InOrderIs
<1>. HIDE DEF s, n, m
<1>4. \A i \in 1..n : lines[i].whole => \E a \in 1..m + 1 : s[a] = lines[i]
  <2>1. \A a \in 1..m : a \in 1..m + 1 BY <1>1
  <2>. QED BY <1>1, <1>3, <2>1
<1>5. \A i \in 1..n, a \in 1..m + 1 : s[a] = lines[i] => a \in 1..m /\ shown[a] = lines[i]
  <2>1. \A a \in 1..m + 1 : a = m + 1 \/ a \in 1..m BY <1>1
  <2>. QED BY <1>1, <2>1
<1>6. ASSUME NEW i \in 1..n, NEW j \in 1..n, NEW a \in 1..m + 1, NEW b \in 1..m + 1,
             lines[i].whole, lines[j].whole, i < j, s[a] = lines[i], s[b] = lines[j]
      PROVE  a < b
  BY <1>3, <1>5, <1>6
<1>7. AreInOrder(lines, s) BY <1>1, <1>4, <1>6, InOrderIs
<1>. QED BY <1>7 DEF s

LEMMA FlushedInOrder ==
  ASSUME NEW d \in Seq(Lines), NEW u \in Seq(Lines), NEW shown \in Seq(Lines),
         AreInOrder(d \o u, shown)
  PROVE  AreInOrder(d, shown)
<1>. DEFINE k == d \o u
<1>1. /\ DOMAIN d \subseteq DOMAIN k /\ \A i \in DOMAIN d : k[i] = d[i]
  BY ConcatProperties, LenProperties
<1>. HIDE DEF k
<1>2. AreInOrder(k, shown) BY DEF k
<1>. QED BY <1>1, <1>2, InOrderIs

-----------------------------------------------------------------------------
(* The steps of a thread. *)

LEMMA GoesIs ==
  ASSUME LogTypes, NEW t \in Threads, NEW at \in Steps, Goes(t, at)
  PROVE  /\ call'[t].at = at /\ call'[t].line = call[t].line /\ call'[t].calls = call[t].calls
         /\ \A u \in Threads : u # t => call'[u] = call[u]
         /\ call' \in [Threads -> [at : Steps, line : Lines \cup {NoLine}, calls : Nat]]
BY DEF LogTypes, Goes

\* Only one thread is beyond its printing.
LEMMA OneHolder ==
  ASSUME LogTypes, HoldInv, NEW t \in Threads, NEW u \in Threads,
         call[t].at \in {"printed", "locked", "written", "done"} \/ out_holder = Nobody,
         call[u].at \in {"printed", "locked", "written", "done"}
  PROVE  t = u
BY ThreadsAssumption DEF LogTypes, HoldInv, Nobody

LEMMA KeptIsLines ==
  ASSUME LogTypes
  PROVE  /\ Kept \in Seq(Lines) /\ DOMAIN Kept = 1..Len(Kept) /\ Len(Kept) \in Nat
         /\ DOMAIN console = 1..Len(console) /\ Len(console) \in Nat
BY ConcatProperties, LenProperties DEF LogTypes, Kept

\* What a line says is on the disk, when nothing of it went wrong.
LEMMA SafeFromLoss ==
  ASSUME LogTypes, ScopeInv, HoldInv, ConsoleInv, LossInv, ~killed
  PROVE  SafeInv
<1>. SUFFICES ASSUME has_file, ~lost.line, ~lost.flush, NEW i \in DOMAIN console, HasReturned(console[i])
              PROVE  \E j \in DOMAIN on_disk : on_disk[j] = console[i]
  BY DEF SafeInv
<1>. DEFINE k == Kept
            n == Len(console)
<1>0. k \in Seq(Lines) /\ Len(k) \in Nat /\ i \in 1..n /\ n \in Nat
  BY KeptIsLines
<1>1. /\ Len(k) <= n /\ \A j \in 1..Len(k) : console[j] = k[j]
      /\ n = Len(k) + (IF \E t \in Threads : Teeing(t) THEN 1 ELSE 0)
      /\ \/ unflushed = <<>>
         \/ \E t \in Threads : call[t].at = "written" /\ unflushed = <<call[t].line>>
  BY <1>0, PrefixIs DEF LossInv, LogTypes
<1>2. /\ on_disk \in Seq(Lines) /\ unflushed \in Seq(Lines) /\ Len(on_disk) \in Nat
      /\ DOMAIN on_disk = 1..Len(on_disk)
      /\ Len(k) = Len(on_disk) + Len(unflushed)
      /\ \A j \in 1..Len(on_disk) : k[j] = on_disk[j]
  BY ConcatProperties, LenProperties DEF LogTypes, Kept
<1>3. \A t \in Threads : call[t].at \in {"printed", "locked", "written"} => i # n
  <2>. SUFFICES ASSUME NEW t \in Threads, call[t].at \in {"printed", "locked", "written"}, i = n
                PROVE  FALSE
    OBVIOUS
  <2>1. console[i] = call[t].line BY DEF ConsoleInv
  <2>2. call[t].line.by = t /\ call[t].line.nth = call[t].calls /\ call[t].calls \in Nat
    BY DEF ScopeInv, LogTypes
  <2>. QED BY <2>1, <2>2 DEF HasReturned
<1>. HIDE DEF k, n
<1>4. i \in 1..Len(on_disk)
  <2>1. CASE unflushed = <<>>
    <3>1. Len(k) = Len(on_disk) BY <1>2, <2>1
    <3>2. (\E t \in Threads : Teeing(t)) => i # n BY <1>3 DEF Teeing
    <3>. QED BY <1>0, <1>1, <3>1, <3>2
  <2>2. CASE \E t \in Threads : call[t].at = "written" /\ unflushed = <<call[t].line>>
    <3>1. PICK t \in Threads : call[t].at = "written" /\ unflushed = <<call[t].line>> BY <2>2
    <3>2. \A u \in Threads : ~Teeing(u)
      <4>. SUFFICES ASSUME NEW u \in Threads, Teeing(u) PROVE FALSE
        OBVIOUS
      <4>1. t = u BY <3>1, OneHolder DEF Teeing
      <4>. QED BY <3>1, <4>1 DEF Teeing
    <3>3. i # n BY <1>3, <3>1
    <3>4. Len(unflushed) = 1 BY <3>1
    <3>. QED BY <1>0, <1>1, <1>2, <3>2, <3>3, <3>4
  <2>. QED BY <1>1, <2>1, <2>2
<1>5. i \in 1..Len(k) BY <1>0, <1>2, <1>4, LenProperties DEF LogTypes
<1>6. on_disk[i] = console[i] BY <1>1, <1>2, <1>4, <1>5
<1>. QED BY <1>2, <1>4, <1>6

LEMMA ReturnedIs ==
  ASSUME NEW n \in Nat
  PROVE  /\ Returned(n) \in [at : Steps, line : Lines \cup {NoLine}, calls : Nat]
         /\ Returned(n).at = "returned" /\ Returned(n).calls = n
BY DEF Returned, Steps

Core == LogTypes /\ ScopeInv /\ HoldInv /\ ConsoleInv /\ FileInv /\ LossInv /\ ~killed

\* Before the line is printed: the logger and the line.
LEMMA ChildKeeps ==
  ASSUME Core, NEW t \in Threads, Child(t)
  PROVE  Core'
<1>. DEFINE scope == Bag(Len(logger[t].scopes))
<1>1. /\ logger' = [logger EXCEPT ![t] = [context |-> MergedWith(logger[t].context, scope),
                                          scopes |-> Append(logger[t].scopes, scope)]]
      /\ UNCHANGED <<call, out_holder, file_holder, console, has_file, unflushed, on_disk, lost, killed>>
  BY DEF Child, sinks
<1>2. logger[t].context \in Bags /\ logger[t].scopes \in Seq(Bags) /\ scope \in Bags
  BY BagsAre, LenProperties DEF Core, LogTypes
<1>3. Scoped(logger[t].context, logger[t].scopes) BY DEF Core, ScopeInv
<1>. HIDE DEF scope
<1>4. /\ MergedWith(logger[t].context, scope) \in Bags
      /\ Append(logger[t].scopes, scope) \in Seq(Bags)
      /\ Scoped(MergedWith(logger[t].context, scope), Append(logger[t].scopes, scope))
  BY <1>2, <1>3, MergedIsScoped
<1>5. LogTypes' BY <1>1, <1>4 DEF Core, LogTypes
<1>6. ScopeInv'
  <2>1. \A u \in Threads : Scoped(logger'[u].context, logger'[u].scopes)
    <3>. TAKE u \in Threads
    <3>1. Scoped(logger[u].context, logger[u].scopes) BY DEF Core, ScopeInv
    <3>2. u = t => /\ logger'[u].context = MergedWith(logger[t].context, scope)
                   /\ logger'[u].scopes = Append(logger[t].scopes, scope)
      BY <1>1 DEF Core, LogTypes
    <3>3. u # t => logger'[u] = logger[u] BY <1>1 DEF Core, LogTypes
    <3>. QED BY <1>4, <3>1, <3>2, <3>3, Zenon
  <2>2. \A u \in Threads : call[u].at # "returned" =>
           /\ call[u].line \in Lines /\ call[u].line.whole
           /\ call[u].line.by = u /\ call[u].line.nth = call[u].calls
           /\ Scoped(call[u].line.fields, call[u].line.scopes)
    BY DEF Core, ScopeInv
  <2>. QED BY <1>1, <2>1, <2>2 DEF ScopeInv
<1>7. HoldInv' BY <1>1 DEF Core, HoldInv
<1>8. ConsoleInv' BY <1>1 DEF Core, ConsoleInv, Scoped, FieldsAreScoped
<1>9. FileInv' BY <1>1 DEF Core, FileInv, Teeing, Kept, AreInOrder
<1>10. LossInv' BY <1>1 DEF Core, LossInv, Teeing, Kept, IsPrefix
<1>. QED BY <1>1, <1>5, <1>6, <1>7, <1>8, <1>9, <1>10 DEF Core

LEMMA CallKeeps ==
  ASSUME Core, NEW t \in Threads, Log(t) \/ Emit(t)
  PROVE  Core'
<1>1. PICK fields \in Bags, scopes \in Seq(Bags) : Scoped(fields, scopes) /\ Call(t, fields, scopes)
  <2>1. CASE Emit(t)
    <3>1. Call(t, Stamped, <<Stamped>>) /\ Stamped \in Bags BY <2>1, BagsAre DEF Emit
    <3>. QED BY <3>1, RootIsScoped
  <2>2. CASE Log(t)
    <3>1. PICK scope \in {<<>>, Bag(Len(logger[t].scopes))} :
            Call(t, MergedWith(logger[t].context, scope), Append(logger[t].scopes, scope))
      BY <2>2 DEF Log
    <3>2. scope \in Bags /\ logger[t].context \in Bags /\ logger[t].scopes \in Seq(Bags)
      BY BagsAre, LenProperties DEF Core, LogTypes
    <3>3. Scoped(logger[t].context, logger[t].scopes) BY DEF Core, ScopeInv
    <3>. QED BY <3>1, <3>2, <3>3, MergedIsScoped
  <2>. QED BY <2>1, <2>2
<1>. DEFINE line == [by |-> t, nth |-> call[t].calls + 1, fields |-> fields, scopes |-> scopes,
                     whole |-> TRUE]
<1>2. /\ call[t].at = "returned"
      /\ call' = [call EXCEPT ![t] = [at |-> "made", calls |-> call[t].calls + 1, line |-> line]]
      /\ UNCHANGED <<logger, out_holder, file_holder, console, has_file, unflushed, on_disk, lost, killed>>
  BY <1>1 DEF Call, sinks
<1>3. call[t].calls \in Nat BY DEF Core, LogTypes
<1>4. line \in Lines /\ line.whole /\ line.by = t /\ line.nth = call[t].calls + 1
      /\ line.fields = fields /\ line.scopes = scopes
  BY <1>1, <1>3 DEF Lines
<1>. HIDE DEF line
<1>5. /\ call'[t].at = "made" /\ call'[t].calls = call[t].calls + 1 /\ call'[t].line = line
      /\ \A u \in Threads : u # t => call'[u] = call[u]
      /\ call' \in [Threads -> [at : Steps, line : Lines \cup {NoLine}, calls : Nat]]
  BY <1>2, <1>3, <1>4 DEF Core, LogTypes, Steps
<1>6. LogTypes' BY <1>2, <1>5 DEF Core, LogTypes
<1>7. ScopeInv'
  <2>1. \A u \in Threads : Scoped(logger[u].context, logger[u].scopes)
    BY DEF Core, ScopeInv
  <2>2. \A u \in Threads : call'[u].at # "returned" =>
           /\ call'[u].line \in Lines /\ call'[u].line.whole
           /\ call'[u].line.by = u /\ call'[u].line.nth = call'[u].calls
           /\ Scoped(call'[u].line.fields, call'[u].line.scopes)
    <3>. TAKE u \in Threads
    <3>1. CASE u = t BY <1>1, <1>4, <1>5, <3>1
    <3>2. CASE u # t BY <1>5, <3>2 DEF Core, ScopeInv
    <3>. QED BY <3>1, <3>2
  <2>. QED BY <1>2, <2>1, <2>2 DEF ScopeInv
<1>8. HoldInv' BY <1>2, <1>5 DEF Core, HoldInv
<1>9. ConsoleInv'
  <2>0. \A i \in DOMAIN console : console[i] \in Lines
    BY KeptIsLines, ElementOfSeq DEF Core, LogTypes
  <2>1. \A i \in DOMAIN console : console[i].by \in Threads /\ console[i].nth \in Nat
    BY <2>0 DEF Lines
  <2>2. \A i \in DOMAIN console :
         LET l == console[i]
         IN /\ l.nth <= call'[l.by].calls
            /\ call'[l.by].at = "made" => l.nth # call'[l.by].calls
    BY <1>3, <1>5, <2>1 DEF Core, ConsoleInv
  <2>. QED BY <1>2, <1>5, <2>2 DEF Core, ConsoleInv, Scoped, FieldsAreScoped
<1>10. \A u \in Threads : /\ Teeing(u)' <=> Teeing(u)
                          /\ Teeing(u) => call'[u].line = call[u].line
                          /\ call[u].at = "written" => call'[u] = call[u]
  BY <1>2, <1>5 DEF Teeing
<1>. HIDE DEF Teeing
<1>11. FileInv' BY <1>2, <1>10 DEF Core, FileInv, Kept, AreInOrder
<1>12. LossInv' BY <1>2, <1>10 DEF Core, LossInv, Kept, IsPrefix
<1>. QED BY <1>2, <1>6, <1>7, <1>8, <1>9, <1>11, <1>12 DEF Core

LEMMA WriteStderrKeeps ==
  ASSUME Core, NEW t \in Threads, WriteStderr(t)
  PROVE  Core'
<1>. DEFINE line == call[t].line
            n == Len(console)
            c2 == Append(console, line)
<1>1. /\ call[t].at = "made" /\ out_holder = Nobody /\ out_holder' = t /\ console' = c2
      /\ UNCHANGED <<logger, file_holder, has_file, unflushed, on_disk, lost, killed>>
  BY DEF WriteStderr
<1>2. /\ call'[t].at = (IF has_file THEN "printed" ELSE "done")
      /\ call'[t].line = line /\ call'[t].calls = call[t].calls
      /\ \A u \in Threads : u # t => call'[u] = call[u]
      /\ call' \in [Threads -> [at : Steps, line : Lines \cup {NoLine}, calls : Nat]]
  BY GoesIs DEF Core, WriteStderr, Steps
<1>3. /\ line \in Lines /\ line.whole /\ line.by = t /\ line.nth = call[t].calls
      /\ Scoped(line.fields, line.scopes) /\ call[t].calls \in Nat
  BY <1>1 DEF Core, ScopeInv, LogTypes
<1>4. /\ c2 \in Seq(Lines) /\ DOMAIN c2 = 1..n + 1 /\ c2[n + 1] = line /\ Len(c2) = n + 1
      /\ \A i \in 1..n : c2[i] = console[i]
      /\ DOMAIN console = 1..n /\ n \in Nat
  BY <1>3, AppendProperties, LenProperties DEF Core, LogTypes
<1>5. \A u \in Threads : call[u].at \notin {"printed", "locked", "written", "done"}
  BY <1>1, ThreadsAssumption DEF Core, HoldInv, Nobody
<1>. HIDE DEF line, n, c2
<1>6. \A i \in 1..n : console[i] # line
  BY <1>1, <1>3, <1>4 DEF Core, ConsoleInv, line
<1>7. \A i \in DOMAIN Kept : Kept[i] # line
  <2>. SUFFICES ASSUME NEW i \in DOMAIN Kept, Kept[i] = line PROVE FALSE
    OBVIOUS
  <2>1. \E a \in DOMAIN console : console[a] = Kept[i]
    BY <1>3, InOrderIs DEF Core, FileInv
  <2>. QED BY <1>4, <1>6, <2>1
<1>8. LogTypes' BY <1>1, <1>2, <1>4 DEF Core, LogTypes
<1>9. ScopeInv'
  <2>1. \A u \in Threads : Scoped(logger[u].context, logger[u].scopes)
    BY DEF Core, ScopeInv
  <2>2. \A u \in Threads : call'[u].at # "returned" =>
           /\ call'[u].line \in Lines /\ call'[u].line.whole
           /\ call'[u].line.by = u /\ call'[u].line.nth = call'[u].calls
           /\ Scoped(call'[u].line.fields, call'[u].line.scopes)
    <3>. TAKE u \in Threads
    <3>1. CASE u = t BY <1>2, <1>3, <3>1
    <3>2. CASE u # t BY <1>2, <3>2 DEF Core, ScopeInv
    <3>. QED BY <3>1, <3>2
  <2>. QED BY <1>1, <2>1, <2>2 DEF ScopeInv
<1>10. HoldInv' BY <1>1, <1>2, <1>5 DEF HoldInv
<1>11. ConsoleInv'
  <2>0. \A i \in 1..n : console[i] \in Lines
    BY <1>4, ElementOfSeq DEF Core, LogTypes, n
  <2>1. \A i \in 1..n : console[i].by \in Threads /\ console[i].nth \in Nat
    BY <2>0 DEF Lines
  <2>2. \A i \in 1..n + 1 :
         /\ c2[i].whole /\ Scoped(c2[i].fields, c2[i].scopes)
         /\ c2[i].nth <= call'[c2[i].by].calls
         /\ call'[c2[i].by].at = "made" => c2[i].nth # call'[c2[i].by].calls
    <3>. TAKE i \in 1..n + 1
    <3>1. CASE i = n + 1 BY <1>2, <1>3, <1>4, <3>1
    <3>2. CASE i \in 1..n
      <4>1. /\ console[i].whole /\ Scoped(console[i].fields, console[i].scopes)
            /\ console[i].nth <= call[console[i].by].calls
            /\ call[console[i].by].at = "made" => console[i].nth # call[console[i].by].calls
        BY <1>4, <3>2 DEF Core, ConsoleInv
      <4>. QED BY <1>2, <1>4, <2>1, <3>2, <4>1
    <3>. QED BY <1>4, <3>1, <3>2
  <2>3. \A i, j \in 1..n + 1 : c2[i] = c2[j] => i = j
    <3>1. \A i, j \in 1..n : console[i] = console[j] => i = j
      BY <1>4 DEF Core, ConsoleInv
    <3>2. \A i \in 1..n + 1 : i = n + 1 \/ i \in 1..n BY <1>4
    <3>. QED BY <1>4, <1>6, <3>1, <3>2
  <2>4. \A u \in Threads : call'[u].at \in {"printed", "locked", "written"} =>
          c2 # <<>> /\ c2[Len(c2)] = call'[u].line
    BY <1>2, <1>4, <1>5, EmptySeq
  <2>. QED BY <1>1, <1>4, <2>2, <2>3, <2>4 DEF ConsoleInv
<1>12. Kept' = Kept BY <1>1 DEF Kept
<1>13. \A u \in Threads : Teeing(u)' <=> u = t /\ has_file
  BY <1>2, <1>5 DEF Teeing
<1>14. FileInv'
  <2>1. AreInOrder(Kept, c2)
    BY <1>3, <1>7, KeptIsLines, ShownInOrder DEF Core, FileInv, LogTypes, c2
  <2>. HIDE DEF Teeing, Kept
  <2>. QED BY <1>1, <1>2, <1>7, <1>12, <1>13, <2>1 DEF Core, FileInv, line
<1>15. LossInv'
  <2>. SUFFICES ASSUME has_file, ~lost.line PROVE LossInv'
    BY <1>1 DEF LossInv
  <2>1. Len(Kept) \in Nat /\ Kept \in Seq(Lines) BY KeptIsLines DEF Core
  <2>2. /\ n = Len(Kept) /\ IsPrefix(Kept, console)
        /\ ~lost.flush => unflushed = <<>>
    BY <1>5, <2>1 DEF Core, LossInv, Teeing, n
  <2>3. IsPrefix(Kept, c2)
    <3>1. \A i \in 1..Len(Kept) : console[i] = Kept[i]
      BY <2>1, <2>2, PrefixIs DEF Core, LogTypes
    <3>. QED BY <1>4, <2>1, <2>2, <3>1, PrefixIs
  <2>4. \E u \in Threads : Teeing(u)' BY <1>13
  <2>. HIDE DEF Teeing, Kept
  <2>. QED BY <1>1, <1>4, <1>12, <2>1, <2>2, <2>3, <2>4 DEF LossInv
<1>. QED BY <1>1, <1>8, <1>9, <1>10, <1>11, <1>14, <1>15 DEF Core

\* From its printing on, a call only moves forward, until it gives the mutexes back.
LEMMA TeeingKeeps ==
  ASSUME Core, NEW t \in Threads, call[t].at \in {"printed", "locked", "written"},
         NEW at \in {"locked", "written", "done"}, Goes(t, at),
         UNCHANGED <<logger, out_holder, console, has_file>>
  PROVE  /\ ScopeInv' /\ HoldInv' /\ ConsoleInv'
         /\ call' \in [Threads -> [at : Steps, line : Lines \cup {NoLine}, calls : Nat]]
         /\ call'[t].at = at /\ call'[t].line = call[t].line
         /\ \A u \in Threads : u # t => call'[u] = call[u]
         /\ \A u \in Threads : u # t => call[u].at \notin {"printed", "locked", "written", "done"}
<1>1. /\ call'[t].at = at /\ call'[t].line = call[t].line /\ call'[t].calls = call[t].calls
      /\ \A u \in Threads : u # t => call'[u] = call[u]
      /\ call' \in [Threads -> [at : Steps, line : Lines \cup {NoLine}, calls : Nat]]
  BY GoesIs DEF Core, Steps
<1>2. \A u \in Threads : u # t => call[u].at \notin {"printed", "locked", "written", "done"}
  BY OneHolder DEF Core
<1>3. ScopeInv'
  <2>1. \A u \in Threads : Scoped(logger[u].context, logger[u].scopes)
    BY DEF Core, ScopeInv
  <2>2. \A u \in Threads : call'[u].at # "returned" =>
           /\ call'[u].line \in Lines /\ call'[u].line.whole
           /\ call'[u].line.by = u /\ call'[u].line.nth = call'[u].calls
           /\ Scoped(call'[u].line.fields, call'[u].line.scopes)
    <3>. TAKE u \in Threads
    <3>1. CASE u = t BY <1>1, <3>1 DEF Core, ScopeInv
    <3>2. CASE u # t BY <1>1, <3>2 DEF Core, ScopeInv
    <3>. QED BY <3>1, <3>2
  <2>. QED BY <2>1, <2>2 DEF ScopeInv
<1>4. HoldInv' BY <1>1, <1>2 DEF Core, HoldInv
<1>5. ConsoleInv'
  <2>1. \A i \in DOMAIN console :
         /\ console[i].whole /\ Scoped(console[i].fields, console[i].scopes)
         /\ console[i].nth <= call'[console[i].by].calls
         /\ call'[console[i].by].at = "made" => console[i].nth # call'[console[i].by].calls
    <3>0. \A i \in DOMAIN console : console[i] \in Lines
      BY KeptIsLines, ElementOfSeq DEF Core, LogTypes
    <3>1. \A i \in DOMAIN console : console[i].by \in Threads
      BY <3>0 DEF Lines
    <3>. QED BY <1>1, <3>1 DEF Core, ConsoleInv
  <2>2. \A i, j \in DOMAIN console : console[i] = console[j] => i = j
    BY DEF Core, ConsoleInv
  <2>3. \A u \in Threads : call'[u].at \in {"printed", "locked", "written"} =>
          console # <<>> /\ console[Len(console)] = call'[u].line
    BY <1>1, <1>2 DEF Core, ConsoleInv
  <2>. QED BY <2>1, <2>2, <2>3 DEF ConsoleInv
<1>. QED BY <1>1, <1>2, <1>3, <1>4, <1>5

LEMMA LockFileKeeps ==
  ASSUME Core, NEW t \in Threads, LockFile(t)
  PROVE  Core'
<1>1. /\ call[t].at = "printed" /\ file_holder' = t /\ Goes(t, "locked")
      /\ UNCHANGED <<logger, out_holder, console, has_file, unflushed, on_disk, lost, killed>>
  BY DEF LockFile, sinks
<1>2. /\ ScopeInv' /\ HoldInv' /\ ConsoleInv'
      /\ call' \in [Threads -> [at : Steps, line : Lines \cup {NoLine}, calls : Nat]]
      /\ call'[t].at = "locked" /\ call'[t].line = call[t].line
      /\ \A u \in Threads : u # t => call'[u] = call[u]
  BY <1>1, TeeingKeeps
<1>3. \A u \in Threads : /\ Teeing(u)' <=> Teeing(u)
                         /\ call'[u].line = call[u].line
                         /\ call[u].at = "written" <=> call'[u].at = "written"
  BY <1>1, <1>2 DEF Teeing
<1>4. LogTypes' BY <1>1, <1>2 DEF Core, LogTypes
<1>. HIDE DEF Teeing
<1>5. FileInv' BY <1>1, <1>3 DEF Core, FileInv, Kept, AreInOrder
<1>6. LossInv' BY <1>1, <1>3 DEF Core, LossInv, Kept, IsPrefix
<1>. QED BY <1>1, <1>2, <1>4, <1>5, <1>6 DEF Core

LEMMA WriteFileKeeps ==
  ASSUME Core, NEW t \in Threads, WriteFile(t)
  PROVE  Core'
<1>. DEFINE line == call[t].line
            cut == [line EXCEPT !.whole = FALSE]
            n == Len(console)
<1>1. /\ call[t].at = "locked" /\ Goes(t, "written")
      /\ UNCHANGED <<logger, out_holder, file_holder, console, has_file, killed>>
  BY DEF WriteFile
<1>2. /\ ScopeInv' /\ HoldInv' /\ ConsoleInv'
      /\ call' \in [Threads -> [at : Steps, line : Lines \cup {NoLine}, calls : Nat]]
      /\ call'[t].at = "written" /\ call'[t].line = line
      /\ \A u \in Threads : u # t => call'[u] = call[u]
      /\ \A u \in Threads : u # t => call[u].at \notin {"printed", "locked", "written", "done"}
  BY <1>1, TeeingKeeps
<1>3. /\ line \in Lines /\ line.whole /\ cut \in Lines /\ ~cut.whole /\ has_file
  BY <1>1 DEF Core, ScopeInv, HoldInv, Lines
<1>4. /\ console # <<>> /\ console[n] = line /\ n \in Nat /\ DOMAIN console = 1..n
      /\ \A i, j \in DOMAIN console : console[i] = console[j] => i = j
  BY <1>1, KeptIsLines DEF Core, ConsoleInv
<1>5. \A i \in DOMAIN Kept : Kept[i] # line
  BY <1>1 DEF Core, FileInv, Teeing
<1>6. ~ \E u \in Threads : Teeing(u)'
  BY <1>1, <1>2 DEF Teeing
<1>. HIDE DEF line, cut, n
<1>7. /\ unflushed \in Seq(Lines) /\ on_disk \in Seq(Lines) /\ console \in Seq(Lines)
      /\ Kept \in Seq(Lines) /\ Len(Kept) \in Nat /\ lost \in [line : BOOLEAN, flush : BOOLEAN]
      /\ Len(unflushed) \in Nat
  BY KeptIsLines, LenProperties DEF Core, LogTypes
<1>12. \A d, u \in Seq(Lines) : \A x \in Lines :
        /\ d \o Append(u, x) = Append(d \o u, x)
        /\ (d \o u) \o <<x>> = Append(d \o u, x)
        /\ u = <<>> => Append(u, x) = <<x>>
  BY AppendedIsKept
\* Either the whole line is added, or the loss is noted.
<1>8. /\ unflushed' \in Seq(Lines) /\ on_disk' \in Seq(Lines) /\ lost' \in [line : BOOLEAN, flush : BOOLEAN]
      /\ \/ /\ Kept' = Append(Kept, line) /\ lost' = lost
            /\ unflushed = <<>> => unflushed' = <<line>>
         \/ Kept' \in {Kept, Append(Kept, cut)} /\ lost'.line
  <2>1. CASE /\ unflushed' = Append(unflushed, line)
             /\ UNCHANGED <<on_disk, lost>>
    <3>1. Append(unflushed, line) \in Seq(Lines) BY <1>3, <1>7
    <3>2. /\ on_disk \o Append(unflushed, line) = Append(on_disk \o unflushed, line)
          /\ unflushed = <<>> => Append(unflushed, line) = <<line>>
      BY <1>3, <1>7, <1>12, Zenon
    <3>3. Kept' = Append(Kept, line)  BY <2>1, <3>2 DEF Kept
    <3>. QED BY <1>7, <2>1, <3>1, <3>2, <3>3
  <2>2. CASE /\ on_disk' = on_disk \o unflushed /\ unflushed' = <<line>>
             /\ UNCHANGED lost
    <3>1. on_disk \o unflushed \in Seq(Lines) /\ <<line>> \in Seq(Lines)
      BY <1>3, <1>7, ConcatProperties
    <3>2. (on_disk \o unflushed) \o <<line>> = Append(on_disk \o unflushed, line)
      BY <1>3, <1>7, <1>12, Zenon
    <3>3. Kept' = Append(Kept, line)  BY <2>2, <3>2 DEF Kept
    <3>. QED BY <1>7, <2>2, <3>1, <3>3
  <2>3. ASSUME NEW k \in 0..(Len(unflushed) - 1),
               on_disk' = on_disk \o SubSeq(unflushed, 1, k),
               LET left == SubSeq(unflushed, k + 1, Len(unflushed))
               IN unflushed' \in {left, Append(left, cut)},
               lost' = [lost EXCEPT !.line = TRUE]
        PROVE  /\ unflushed' \in Seq(Lines) /\ on_disk' \in Seq(Lines)
               /\ lost' \in [line : BOOLEAN, flush : BOOLEAN]
               /\ Kept' \in {Kept, Append(Kept, cut)} /\ lost'.line
    <3>. DEFINE left == SubSeq(unflushed, k + 1, Len(unflushed))
                d2 == on_disk \o SubSeq(unflushed, 1, k)
    <3>0. k \in 0..Len(unflushed) BY <1>7
    <3>1. d2 \in Seq(Lines) /\ left \in Seq(Lines) /\ d2 \o left = on_disk \o unflushed
      BY <1>7, <3>0, MovedIsKept, Zenon
    <3>2. on_disk' = d2 /\ unflushed' \in {left, Append(left, cut)} BY <2>3
    <3>. HIDE DEF left, d2
    <3>3. d2 \o Append(left, cut) = Append(d2 \o left, cut)
      BY <1>3, <3>1, <1>12, Zenon
    <3>6. Append(left, cut) \in Seq(Lines) BY <1>3, <3>1
    <3>4. Kept' \in {Kept, Append(Kept, cut)}
      BY <3>1, <3>2, <3>3 DEF Kept
    <3>5. lost' \in [line : BOOLEAN, flush : BOOLEAN] /\ lost'.line BY <1>7, <2>3
    <3>. QED BY <3>1, <3>2, <3>4, <3>5, <3>6
  <2>. QED BY <2>1, <2>2, <2>3 DEF WriteFile, line, cut
<1>9. LogTypes' BY <1>1, <1>2, <1>8 DEF Core, LogTypes
<1>10. FileInv'
  <2>1. \A x \in {line, cut} : AreInOrder(Append(Kept, x), console)
    BY <1>3, <1>4, <1>5, <1>7, BufferedInOrder DEF Core, FileInv, n
  <2>2. AreInOrder(Kept, console) BY DEF Core, FileInv
  <2>3. AreInOrder(Kept', console') BY <1>1, <1>8, <2>1, <2>2
  <2>. HIDE DEF Teeing, Kept
  <2>. QED BY <1>1, <1>3, <1>6, <2>3 DEF FileInv
<1>11. LossInv'
  <2>. SUFFICES ASSUME ~lost'.line PROVE LossInv'
    BY <1>6 DEF LossInv
  <2>1. Kept' = Append(Kept, line) /\ lost' = lost BY <1>8
  <2>2. n = Len(Kept) + 1 /\ \A i \in 1..Len(Kept) : console[i] = Kept[i]
    <3>1. IsPrefix(Kept, console) BY <1>3, <2>1 DEF Core, LossInv
    <3>2. n = Len(Kept) + 1 BY <1>1, <1>3, <2>1 DEF Core, LossInv, Teeing, n
    <3>. QED BY <1>7, <3>1, <3>2, PrefixIs
  <2>3. /\ Append(Kept, line) \in Seq(Lines) /\ Len(Append(Kept, line)) = n
        /\ \A i \in 1..n : console[i] = Append(Kept, line)[i]
    <3>1. /\ Append(Kept, line) \in Seq(Lines) /\ Len(Append(Kept, line)) = Len(Kept) + 1
          /\ Append(Kept, line)[Len(Kept) + 1] = line
          /\ \A i \in 1..Len(Kept) : Append(Kept, line)[i] = Kept[i]
      BY <1>3, <1>7, AppendProperties
    <3>2. \A i \in 1..n : i = n \/ i \in 1..Len(Kept) BY <1>7, <2>2
    <3>. QED BY <1>4, <2>2, <3>1, <3>2
  <2>4. IsPrefix(Append(Kept, line), console)
    <3>1. \A s \in Seq(Lines) : Len(s) <= Len(console) /\ (\A i \in 1..Len(s) : console[i] = s[i])
            => IsPrefix(s, console)
      BY <1>7, PrefixIs
    <3>. HIDE DEF Kept
    <3>2. Len(Append(Kept, line)) <= Len(console) BY <1>4, <2>3 DEF n
    <3>. QED BY <2>3, <3>1, <3>2
  <2>5. lost.flush \/ unflushed' = <<line>>
    <3>1. lost.flush \/ unflushed = <<>>
      BY <1>1, <1>2, <1>3, <2>1 DEF Core, LossInv
    <3>. QED BY <1>8, <2>1, <3>1, <1>7
  <2>. HIDE DEF Teeing, Kept
  <2>6. IsPrefix(Kept', console') /\ Len(console') = Len(Kept') BY <1>1, <2>1, <2>3, <2>4 DEF n
  <2>. QED BY <1>1, <1>2, <1>6, <2>1, <2>5, <2>6 DEF LossInv
<1>. QED BY <1>1, <1>2, <1>9, <1>10, <1>11 DEF Core

LEMMA FlushFileKeeps ==
  ASSUME Core, NEW t \in Threads, FlushFile(t)
  PROVE  Core'
<1>1. /\ call[t].at = "written" /\ Goes(t, "done")
      /\ UNCHANGED <<logger, out_holder, file_holder, console, has_file, killed>>
  BY DEF FlushFile
<1>2. /\ ScopeInv' /\ HoldInv' /\ ConsoleInv'
      /\ call' \in [Threads -> [at : Steps, line : Lines \cup {NoLine}, calls : Nat]]
      /\ call'[t].at = "done"
      /\ \A u \in Threads : u # t => call'[u] = call[u]
      /\ \A u \in Threads : u # t => call[u].at \notin {"printed", "locked", "written", "done"}
  BY <1>1, TeeingKeeps
<1>3. \A u \in Threads : ~Teeing(u)' /\ ~Teeing(u)
  BY <1>1, <1>2 DEF Teeing
<1>4. PICK n \in 0..Len(unflushed) :
        Flushed(n) /\ lost' = [lost EXCEPT !.flush = n < Len(unflushed)]
  BY DEF FlushFile
<1>5. /\ unflushed \in Seq(Lines) /\ on_disk \in Seq(Lines) /\ Len(unflushed) \in Nat
      /\ lost \in [line : BOOLEAN, flush : BOOLEAN]
  BY LenProperties DEF Core, LogTypes
<1>6. /\ unflushed' \in Seq(Lines) /\ on_disk' \in Seq(Lines)
      /\ on_disk' \o unflushed' = on_disk \o unflushed
      /\ n = Len(unflushed) => unflushed' = <<>>
  <2>1. /\ on_disk \o SubSeq(unflushed, 1, n) \in Seq(Lines)
        /\ SubSeq(unflushed, n + 1, Len(unflushed)) \in Seq(Lines)
        /\ (on_disk \o SubSeq(unflushed, 1, n)) \o SubSeq(unflushed, n + 1, Len(unflushed))
              = on_disk \o unflushed
        /\ n = Len(unflushed) => SubSeq(unflushed, n + 1, Len(unflushed)) = <<>>
    BY <1>5, MovedIsKept, Zenon
  <2>. QED BY <1>4, <2>1, Zenon DEF Flushed
<1>7. /\ lost' \in [line : BOOLEAN, flush : BOOLEAN] /\ lost'.line = lost.line
      /\ ~lost'.flush => n = Len(unflushed)
  <2>. DEFINE b == n < Len(unflushed)
  <2>1. b \in BOOLEAN OBVIOUS
  <2>2. ~b => n = Len(unflushed) BY <1>4, <1>5
  <2>3. lost' = [lost EXCEPT !.flush = b] BY <1>4
  <2>. HIDE DEF b
  <2>4. lost' \in [line : BOOLEAN, flush : BOOLEAN] /\ lost'.line = lost.line /\ lost'.flush = b
    BY <1>5, <2>1, <2>3
  <2>. QED BY <2>2, <2>4
<1>8. Kept' = Kept BY <1>6 DEF Kept
<1>9. LogTypes' BY <1>1, <1>2, <1>6, <1>7 DEF Core, LogTypes
<1>10. FileInv'
  <2>1. AreInOrder(Kept', console') BY <1>1, <1>8 DEF Core, FileInv
  <2>. HIDE DEF Teeing, Kept
  <2>. QED BY <1>1, <1>3, <1>8, <2>1 DEF Core, FileInv
<1>11. LossInv'
  <2>. HIDE DEF Teeing, Kept
  <2>1. has_file /\ ~lost.line => IsPrefix(Kept', console') BY <1>1, <1>8 DEF Core, LossInv
  <2>. QED BY <1>1, <1>3, <1>6, <1>7, <1>8, <2>1 DEF Core, LossInv
<1>. QED BY <1>1, <1>2, <1>9, <1>10, <1>11 DEF Core

LEMMA UnlockKeeps ==
  ASSUME Core, NEW t \in Threads, Unlock(t)
  PROVE  Core'
<1>1. /\ call[t].at = "done" /\ out_holder' \in {Nobody, out_holder} /\ file_holder' \in {Nobody, file_holder}
      /\ UNCHANGED <<logger, console, has_file, unflushed, on_disk, lost, killed>>
      /\ \/ UNCHANGED <<call, out_holder>>
         \/ call' = [call EXCEPT ![t] = Returned(call[t].calls)]
  BY DEF Unlock, sinks
<1>2. /\ \A u \in Threads : u # t => call'[u] = call[u]
      /\ call' \in [Threads -> [at : Steps, line : Lines \cup {NoLine}, calls : Nat]]
      /\ \A u \in Threads : call'[u].calls = call[u].calls
      /\ \/ UNCHANGED <<call, out_holder>>
         \/ call'[t].at = "returned"
  <2>. DEFINE r == Returned(call[t].calls)
  <2>1. call[t].calls \in Nat BY DEF Core, LogTypes
  <2>2. /\ r \in [at : Steps, line : Lines \cup {NoLine}, calls : Nat]
        /\ r.at = "returned" /\ r.calls = call[t].calls
    BY <2>1, ReturnedIs
  <2>3. UNCHANGED <<call, out_holder>> \/ call' = [call EXCEPT ![t] = r]
    BY <1>1
  <2>. HIDE DEF r
  <2>4. call \in [Threads -> [at : Steps, line : Lines \cup {NoLine}, calls : Nat]]
    BY DEF Core, LogTypes
  <2>. QED BY <2>2, <2>3, <2>4
<1>3. \A u \in Threads : u # t => call[u].at \notin {"printed", "locked", "written", "done"}
  BY <1>1, OneHolder DEF Core
<1>4. LogTypes' BY <1>1, <1>2 DEF Core, LogTypes
<1>5. ScopeInv'
  <2>1. \A u \in Threads : Scoped(logger[u].context, logger[u].scopes)
    BY DEF Core, ScopeInv
  <2>2. \A u \in Threads : call'[u].at # "returned" =>
           /\ call'[u].line \in Lines /\ call'[u].line.whole
           /\ call'[u].line.by = u /\ call'[u].line.nth = call'[u].calls
           /\ Scoped(call'[u].line.fields, call'[u].line.scopes)
    <3>. TAKE u \in Threads
    <3>1. CASE call'[u] = call[u] BY <3>1 DEF Core, ScopeInv
    <3>2. CASE call'[u].at = "returned" BY <3>2
    <3>. QED BY <1>2, <3>1, <3>2
  <2>. QED BY <1>1, <2>1, <2>2 DEF ScopeInv
<1>6. HoldInv' BY <1>1, <1>2, <1>3 DEF Core, HoldInv
<1>7. \A u \in Threads : call'[u].at \in {"made", "printed", "locked", "written"} => call'[u] = call[u]
  BY <1>2
<1>8. ConsoleInv'
  <2>1. \A i \in DOMAIN console :
         /\ console[i].whole /\ Scoped(console[i].fields, console[i].scopes)
         /\ console[i].nth <= call'[console[i].by].calls
         /\ call'[console[i].by].at = "made" => console[i].nth # call'[console[i].by].calls
    <3>0. \A i \in DOMAIN console : console[i] \in Lines
      BY KeptIsLines, ElementOfSeq DEF Core, LogTypes
    <3>1. \A i \in DOMAIN console : console[i].by \in Threads
      BY <3>0 DEF Lines
    <3>. QED BY <1>2, <1>7, <3>1 DEF Core, ConsoleInv
  <2>2. \A i, j \in DOMAIN console : console[i] = console[j] => i = j
    BY DEF Core, ConsoleInv
  <2>3. \A u \in Threads : call'[u].at \in {"printed", "locked", "written"} =>
          console # <<>> /\ console[Len(console)] = call'[u].line
    BY <1>7 DEF Core, ConsoleInv
  <2>. QED BY <1>1, <2>1, <2>2, <2>3 DEF ConsoleInv
<1>9. \A u \in Threads : ~Teeing(u)' /\ ~Teeing(u) /\ call[u].at # "written"
  BY <1>1, <1>2, <1>3 DEF Teeing
<1>. HIDE DEF Teeing
<1>10. FileInv' BY <1>1, <1>9 DEF Core, FileInv, Kept, AreInOrder
<1>11. LossInv' BY <1>1, <1>9 DEF Core, LossInv, Kept, IsPrefix
<1>. QED BY <1>1, <1>4, <1>5, <1>6, <1>8, <1>10, <1>11 DEF Core

\* What is lost with the process is what was not yet on the disk.
LEMMA KillKeeps ==
  ASSUME LogInv, KillLogger
  PROVE  LogInv'
<1>1. /\ killed' = TRUE /\ unflushed' = <<>>
      /\ UNCHANGED <<logger, call, out_holder, file_holder, console, has_file, on_disk, lost>>
  BY DEF KillLogger
<1>2. LogTypes' BY <1>1 DEF LogInv, LogTypes
<1>3. ScopeInv' BY <1>1 DEF LogInv, ScopeInv, Scoped, FieldsAreScoped
<1>4. HoldInv' BY <1>1 DEF LogInv, HoldInv
<1>5. ConsoleInv' BY <1>1 DEF LogInv, ConsoleInv, Scoped, FieldsAreScoped
<1>6. /\ on_disk \in Seq(Lines) /\ unflushed \in Seq(Lines) /\ console \in Seq(Lines)
      /\ on_disk \o unflushed \in Seq(Lines)
  BY ConcatProperties DEF LogInv, LogTypes
<1>7. Kept' = on_disk
  BY <1>1, <1>6, ConcatEmptySeq DEF Kept
<1>8. /\ DOMAIN on_disk \subseteq DOMAIN Kept /\ Len(on_disk) <= Len(Kept)
      /\ \A i \in DOMAIN on_disk : Kept[i] = on_disk[i]
      /\ DOMAIN on_disk = 1..Len(on_disk) /\ DOMAIN Kept = 1..Len(Kept)
      /\ Len(on_disk) \in Nat /\ Len(Kept) \in Nat
  BY <1>6, ConcatProperties, LenProperties DEF Kept
<1>9. FileInv'
  <2>1. AreInOrder(on_disk, console) BY <1>6, FlushedInOrder DEF LogInv, FileInv, Kept
  <2>2. AreInOrder(Kept', console') BY <1>1, <1>7, <2>1
  <2>3. \A u \in Threads : Teeing(u)' <=> Teeing(u) BY <1>1 DEF Teeing
  <2>4. \A u \in Threads : Teeing(u) => \A i \in DOMAIN on_disk : on_disk[i] # call[u].line
    BY <1>8 DEF LogInv, FileInv
  <2>5. ~has_file => on_disk = <<>>
    <3>1. ~has_file => Len(Kept) = 0 BY DEF LogInv, FileInv
    <3>. QED BY <1>6, <1>8, <3>1, EmptySeq
  <2>. HIDE DEF Teeing, Kept
  <2>. QED BY <1>1, <1>7, <2>2, <2>3, <2>4, <2>5 DEF FileInv
<1>10. LossInv'
  <2>1. has_file /\ ~lost.line => IsPrefix(on_disk, console)
    <3>. SUFFICES ASSUME has_file, ~lost.line PROVE IsPrefix(on_disk, console)
      OBVIOUS
    <3>0. Kept \in Seq(Lines) /\ IsPrefix(Kept, console)
      BY <1>6 DEF LogInv, LossInv, Kept
    <3>. HIDE DEF Kept
    <3>1. Len(Kept) <= Len(console) /\ \A i \in 1..Len(Kept) : console[i] = Kept[i]
      BY <1>6, <3>0, PrefixIs
    <3>2. Len(on_disk) <= Len(console) /\ \A i \in 1..Len(on_disk) : console[i] = on_disk[i]
      BY <1>6, <1>8, <3>1, LenProperties
    <3>. QED BY <1>6, <3>2, PrefixIs
  <2>2. has_file /\ ~lost.line => IsPrefix(Kept', console') BY <1>1, <1>7, <2>1
  <2>. QED BY <1>1, <2>2 DEF LossInv
<1>11. SafeInv' BY <1>1 DEF LogInv, SafeInv, HasReturned
<1>. QED BY <1>2, <1>3, <1>4, <1>5, <1>9, <1>10, <1>11 DEF LogInv

LEMMA LogInitHolds ==
  ASSUME LogInit
  PROVE  LogInv
<1>. USE DEF LogInit
<1>1. <<RootContext>> \in Seq(Bags) /\ RootContext \in Bags /\ Scoped(RootContext, <<RootContext>>)
  BY BagsAre, RootIsScoped
<1>2. Kept = <<>> BY DEF Kept
<1>3. LogTypes
  <2>1. call \in [Threads -> [at : Steps, line : Lines \cup {NoLine}, calls : Nat]]
    BY ReturnedIs
  <2>2. logger \in [Threads -> [context : Bags, scopes : Seq(Bags)]] BY <1>1
  <2>3. console \in Seq(Lines) /\ unflushed \in Seq(Lines) /\ on_disk \in Seq(Lines)
    OBVIOUS
  <2>. QED BY <2>1, <2>2, <2>3 DEF LogTypes
<1>4. ScopeInv BY <1>1 DEF ScopeInv, Returned
<1>5. HoldInv BY DEF HoldInv, Returned
<1>6. ConsoleInv BY DEF ConsoleInv, Returned
<1>7. FileInv BY <1>2 DEF FileInv, AreInOrder, Teeing, Returned
<1>8. LossInv
  <2>1. IsPrefix(<<>>, <<>>) BY DEF IsPrefix
  <2>. QED BY <1>2, <2>1 DEF LossInv, Teeing, Returned
<1>9. SafeInv BY DEF SafeInv
<1>. QED BY <1>3, <1>4, <1>5, <1>6, <1>7, <1>8, <1>9 DEF LogInv

LEMMA CoreIsSafe == Core => SafeInv
BY SafeFromLoss DEF Core

LEMMA LogInvInductive == LogInv /\ [LogNext]_log_vars => LogInv'
<1>. SUFFICES ASSUME LogInv, [LogNext]_log_vars PROVE LogInv'
  OBVIOUS
<1>1. CASE UNCHANGED log_vars
  <2>1. LogTypes' /\ HoldInv' BY <1>1 DEF log_vars, LogInv, LogTypes, HoldInv
  <2>2. ScopeInv' BY <1>1 DEF log_vars, LogInv, ScopeInv, Scoped, FieldsAreScoped
  <2>3. ConsoleInv' BY <1>1 DEF log_vars, LogInv, ConsoleInv, Scoped, FieldsAreScoped
  <2>4. FileInv' BY <1>1 DEF log_vars, LogInv, FileInv, Kept, Teeing, AreInOrder
  <2>5. LossInv' BY <1>1 DEF log_vars, LogInv, LossInv, Kept, Teeing, IsPrefix
  <2>6. SafeInv' BY <1>1 DEF log_vars, LogInv, SafeInv, HasReturned
  <2>. QED BY <2>1, <2>2, <2>3, <2>4, <2>5, <2>6 DEF LogInv
<1>2. CASE LogNext
  <2>1. CASE KillLogger BY <2>1, KillKeeps
  <2>2. ASSUME NEW t \in Threads, LogStep(t), ~killed PROVE LogInv'
    <3>1. Core BY <2>2 DEF Core, LogInv
    <3>2. Core'
      <4>1. CASE Child(t) BY <3>1, <4>1, ChildKeeps
      <4>2. CASE Log(t) \/ Emit(t) BY <3>1, <4>2, CallKeeps
      <4>3. CASE WriteStderr(t) BY <3>1, <4>3, WriteStderrKeeps
      <4>4. CASE LockFile(t) BY <3>1, <4>4, LockFileKeeps
      <4>5. CASE WriteFile(t) BY <3>1, <4>5, WriteFileKeeps
      <4>6. CASE FlushFile(t) BY <3>1, <4>6, FlushFileKeeps
      <4>7. CASE Unlock(t) BY <3>1, <4>7, UnlockKeeps
      <4>. QED BY <2>2, <4>1, <4>2, <4>3, <4>4, <4>5, <4>6, <4>7 DEF LogStep
    <3>4. SafeInv' BY <3>2, CoreIsSafe, PTL
    <3>. QED BY <3>2, <3>4 DEF Core, LogInv
  <2>. QED BY <1>2, <2>1, <2>2 DEF LogNext
<1>. QED BY <1>1, <1>2

(* The file has the lines that stderr was given, in their order; a line whose call has
   returned is on the disk whatever becomes of the process, unless a write to the file
   failed; and every line has the fields of its scopes: for any number of threads, calls
   and children, and a buffer of any size. *)
THEOREM LogIsTeedAlways == LogSpec => []LogIsTeed
<1>1. LogInit => LogInv BY LogInitHolds
<1>. QED BY <1>1, LogInvInductive, LogInvImplies, PTL DEF LogSpec

-----------------------------------------------------------------------------
(* The trace.  Its lines are of many shapes; what matters here of a line is its frame. *)

IsSequence(s) == s \in Seq({s[i] : i \in DOMAIN s})

LEMMA SequenceIs ==
  ASSUME NEW S, NEW s \in Seq(S)
  PROVE  IsSequence(s) /\ DOMAIN s = 1..Len(s) /\ Len(s) \in Nat
<1>1. DOMAIN s = 1..Len(s) /\ Len(s) \in Nat /\ s \in [1..Len(s) -> S] BY LenProperties
<1>. DEFINE T == {s[i] : i \in DOMAIN s}
            n == Len(s)
<1>2. s \in [1..n -> T] BY <1>1
<1>. HIDE DEF T, n
<1>3. n \in Nat BY <1>1 DEF n
<1>4. s \in Seq(T) BY <1>2, <1>3, IsASeq
<1>. QED BY <1>1, <1>4 DEF IsSequence, T

LEMMA JoinedIs ==
  ASSUME NEW a, NEW b, IsSequence(a), IsSequence(b)
  PROVE  /\ IsSequence(a \o b)
         /\ Len(a \o b) = Len(a) + Len(b) /\ Len(a) \in Nat /\ Len(b) \in Nat
         /\ \A i \in 1..Len(a) : (a \o b)[i] = a[i]
         /\ \A i \in 1..Len(b) : (a \o b)[i + Len(a)] = b[i]
<1>. DEFINE S == {a[i] : i \in DOMAIN a} \cup {b[i] : i \in DOMAIN b}
            A == {a[i] : i \in DOMAIN a}
            B == {b[i] : i \in DOMAIN b}
            c == a \o b
<1>1. a \in Seq(A) /\ b \in Seq(B) /\ A \subseteq S /\ B \subseteq S BY DEF IsSequence
<1>. HIDE DEF S, A, B
<1>2. a \in Seq(S) /\ b \in Seq(S)
  <2>1. /\ a \in [1..Len(a) -> A] /\ Len(a) \in Nat
        /\ b \in [1..Len(b) -> B] /\ Len(b) \in Nat
    BY <1>1, LenProperties
  <2>2. a \in [1..Len(a) -> S] /\ b \in [1..Len(b) -> S] BY <1>1, <2>1
  <2>. QED BY <2>1, <2>2, IsASeq
<1>3. /\ c \in Seq(S) /\ Len(c) = Len(a) + Len(b) /\ Len(a) \in Nat /\ Len(b) \in Nat
      /\ \A i \in 1..Len(a) : c[i] = a[i]
      /\ \A i \in 1..Len(b) : c[i + Len(a)] = b[i]
  BY <1>2, ConcatProperties, LenProperties
<1>. HIDE DEF c
<1>4. IsSequence(c) BY <1>3, SequenceIs
<1>. QED BY <1>3, <1>4 DEF c

\* A sequence cut after its first k.
LEMMA CutIs ==
  ASSUME NEW s, IsSequence(s), NEW k \in 0..Len(s)
  PROVE  /\ IsSequence(SubSeq(s, 1, k)) /\ Len(SubSeq(s, 1, k)) = k /\ Len(s) \in Nat
         /\ \A i \in 1..k : SubSeq(s, 1, k)[i] = s[i]
         /\ IsPrefix(SubSeq(s, 1, k), s)
         /\ \A j \in 0..k : IsPrefix(SubSeq(s, 1, j), SubSeq(s, 1, k))
<1>. DEFINE S == {s[i] : i \in DOMAIN s}
            u(j) == SubSeq(s, 1, j)
<1>1. s \in Seq(S) BY DEF IsSequence
<1>. HIDE DEF S
<1>2. Len(s) \in Nat BY <1>1, LenProperties
<1>3. \A j \in 0..Len(s) : u(j) \in Seq(S) /\ Len(u(j)) = j /\ \A i \in 1..j : u(j)[i] = s[i]
  BY <1>1, <1>2
<1>. HIDE DEF u
<1>4. IsSequence(u(k)) BY <1>3, SequenceIs
<1>5. IsPrefix(u(k), s)
  <2>1. u(k) \in Seq(S) /\ Len(u(k)) <= Len(s) /\ \A i \in 1..Len(u(k)) : s[i] = u(k)[i]
    BY <1>2, <1>3
  <2>. QED BY <1>1, <2>1, PrefixIs
<1>6. ASSUME NEW j \in 0..k PROVE IsPrefix(u(j), u(k))
  <2>1. /\ u(k) \in Seq(S) /\ u(j) \in Seq(S) /\ Len(u(j)) <= Len(u(k))
        /\ \A i \in 1..Len(u(j)) : u(k)[i] = u(j)[i]
    BY <1>2, <1>3
  <2>. QED BY <2>1, PrefixIs
<1>. QED BY <1>2, <1>3, <1>4, <1>5, <1>6 DEF u

\* One bucket for every frame of the lines.
LEMMA BucketsAre ==
  ASSUME NEW ls, IsSequence(ls), NEW n \in Nat,
         \A f \in 0..n - 1 : \E i \in 1..Len(ls) : ls[i].f = f
  PROVE  Len(Buckets(ls)) >= n
<1>. DEFINE frames == {ls[i].f : i \in DOMAIN ls}
            m == Cardinality(frames)
            nth(k) == CHOOSE f \in frames : Cardinality({g \in frames : g <= f}) = k
            bucket(k) == Bucket(ls, nth(k))
            bs == [k \in 1..m |-> bucket(k)]
            all == {bucket(k) : k \in 1..m}
<1>1. DOMAIN ls = 1..Len(ls) /\ Len(ls) \in Nat BY SequenceIs DEF IsSequence
<1>2. IsFiniteSet(frames)
  <2>1. IsFiniteSet(1..Len(ls))
    <3>1. 1 \in Int /\ Len(ls) \in Int BY <1>1
    <3>. QED BY <3>1, FS_Interval
  <2>. DEFINE g == [i \in 1..Len(ls) |-> ls[i].f]
  <2>2. g \in Surjection(1..Len(ls), frames) BY <1>1 DEF Surjection
  <2>. HIDE DEF g, frames
  <2>. QED BY <2>1, <2>2, FS_Surjection
<1>3. 0..n - 1 \subseteq frames BY <1>1
<1>4. Buckets(ls) = bs BY DEF Buckets
<1>. HIDE DEF frames
<1>5. n <= m /\ m \in Nat
  <2>1. Cardinality(0..n - 1) = n BY FS_Interval
  <2>2. Cardinality(0..n - 1) <= Cardinality(frames) BY <1>2, <1>3, FS_Subset
  <2>3. m \in Nat BY <1>2, FS_CardinalityType
  <2>. QED BY <2>1, <2>2, <2>3
<1>. HIDE DEF m, bucket
<1>6. bs \in [1..m -> all] OBVIOUS
<1>. HIDE DEF bs, all
<1>7. bs \in Seq(all) /\ Len(bs) = m BY <1>5, <1>6, IsASeq, LenProperties
<1>. QED BY <1>4, <1>5, <1>7

-----------------------------------------------------------------------------
InFrame == {"poll", "apply", "latest", "drain", "record", "last"}
Loaded == {"drive", "read", "shown", "ended"}

BufferInv ==
    /\ DOMAIN trace_buffer = {"events", "latest", "drained", "commands"}
    /\ IsSequence(trace_buffer.commands)

\* Every finished frame has a line below the flushed ones' end, after the run's own line;
\* the frame in progress has one.
LinesInv ==
    /\ IsSequence(trace_lines) /\ IsSequence(saw) /\ Len(trace_lines) >= 1
    /\ flushed \in 0..Len(trace_lines)
    /\ \A f \in 0..Len(saw) - 1 : \E i \in 2..flushed : trace_lines[i].f = f
    /\ trace_step \in InFrame => \E i \in 2..Len(trace_lines) : trace_lines[i].f = Len(saw)

\* What a run left on the disk is what it wrote up to some line, and no flushed one is missing.
LeftInv ==
    trace_step \in {"over", "refused"} \cup Loaded =>
        /\ \E k \in flushed..Len(trace_lines) : trace_file.lines = SubSeq(trace_lines, 1, k)
        /\ trace_step = "refused" => flushed = 0
        /\ trace_step \in Loaded => Len(loaded_trace) >= Len(saw)

TraceInv == BufferInv /\ LinesInv /\ LeftInv

LEMMA TraceInvImplies == TraceInv => FlushedFramesAreRecovered
<1>. SUFFICES ASSUME TraceInv, trace_step \in {"over", "refused", "drive", "read", "shown", "ended"}
              PROVE  /\ IsPrefix(SubSeq(trace_lines, 1, flushed), trace_file.lines)
                     /\ IsPrefix(trace_file.lines, trace_lines)
                     /\ trace_step = "refused" => flushed = 0
                     /\ trace_step \notin {"over", "refused"} => Len(loaded_trace) >= Len(saw)
  BY DEF FlushedFramesAreRecovered
<1>1. PICK k \in flushed..Len(trace_lines) : trace_file.lines = SubSeq(trace_lines, 1, k)
  BY DEF TraceInv, LeftInv, Loaded
<1>2. IsSequence(trace_lines) /\ flushed \in 0..Len(trace_lines) /\ Len(trace_lines) \in Nat
  BY SequenceIs DEF TraceInv, LinesInv, IsSequence
<1>3. k \in 0..Len(trace_lines) /\ flushed \in 0..k BY <1>1, <1>2
<1>4. /\ IsPrefix(SubSeq(trace_lines, 1, k), trace_lines)
      /\ IsPrefix(SubSeq(trace_lines, 1, flushed), SubSeq(trace_lines, 1, k))
  BY <1>2, <1>3, CutIs
<1>. QED BY <1>1, <1>4 DEF TraceInv, LeftInv, Loaded

LEMMA TraceInitHolds ==
  ASSUME TraceInit
  PROVE  TraceInv
<1>. USE DEF TraceInit
<1>1. /\ <<RunLine>> \in Seq({RunLine}) /\ Len(<<RunLine>>) = 1
      /\ <<>> \in Seq({RunLine}) /\ Len(<<>>) = 0
  OBVIOUS
<1>2. IsSequence(<<RunLine>>) /\ IsSequence(<<>>) BY <1>1, SequenceIs
<1>3. BufferInv BY <1>2 DEF BufferInv, EmptyBuffer
<1>4. LinesInv BY <1>1, <1>2 DEF LinesInv, InFrame
<1>5. LeftInv BY DEF LeftInv, Loaded
<1>. QED BY <1>3, <1>4, <1>5 DEF TraceInv

\* A step that writes nothing.
LEMMA NothingWritten ==
  ASSUME TraceInv, BufferInv', UNCHANGED <<saw, trace_lines, flushed, trace_file, loaded_trace>>,
         \/ trace_step' = trace_step
         \/ trace_step \in InFrame /\ trace_step' \in InFrame
         \/ trace_step \in Loaded /\ trace_step' \in Loaded
  PROVE  TraceInv'
BY DEF TraceInv, LinesInv, LeftInv, InFrame, Loaded, IsSequence

LEMMA LiveKeeps ==
  ASSUME TraceInv, LiveStep
  PROVE  TraceInv'
<1>1. CASE \E scale \in Scales : PublishMusic(scale)
  <2>1. UNCHANGED <<saw, trace_lines, flushed, trace_file, loaded_trace, trace_buffer, trace_step>>
    BY <1>1 DEF PublishMusic, Change, replaying
  <2>. QED BY <2>1, NothingWritten DEF TraceInv, BufferInv, IsSequence
<1>2. CASE StartSession \/ StopSession \/ Announce \/ ProduceHop
  <2>1. UNCHANGED <<saw, trace_lines, flushed, trace_file, loaded_trace, trace_buffer, trace_step>>
    BY <1>2 DEF StartSession, StopSession, Announce, ProduceHop, Change, replaying
  <2>. QED BY <2>1, NothingWritten DEF TraceInv, BufferInv, IsSequence
<1>3. CASE SendListDevices
  <2>1. /\ UNCHANGED <<saw, trace_lines, flushed, trace_file, loaded_trace, trace_step>>
        /\ trace_buffer' = [trace_buffer EXCEPT
              !.commands = Append(trace_buffer.commands, "AudioListDevices")]
    BY <1>3 DEF SendListDevices, replaying
  <2>2. IsSequence(Append(trace_buffer.commands, "AudioListDevices"))
    <3>. DEFINE c == trace_buffer.commands
                S == {c[i] : i \in DOMAIN c} \cup {"AudioListDevices"}
    <3>1. c \in Seq({c[i] : i \in DOMAIN c}) BY DEF TraceInv, BufferInv, IsSequence
    <3>. HIDE DEF c
    <3>2. c \in Seq(S) BY <3>1
    <3>. HIDE DEF S
    <3>3. "AudioListDevices" \in S BY DEF S
    <3>4. Append(c, "AudioListDevices") \in Seq(S) BY <3>2, <3>3
    <3>. QED BY <3>4, SequenceIs DEF c
  <2>3. BufferInv' BY <2>1, <2>2 DEF TraceInv, BufferInv, IsSequence
  <2>. QED BY <2>1, <2>3, NothingWritten
<1>4. CASE PollCoachEvents \/ ApplyEvents \/ PollLatest \/ DrainFeatures
  <2>1. /\ UNCHANGED <<saw, trace_lines, flushed, trace_file, loaded_trace>>
        /\ trace_step \in InFrame /\ trace_step' \in InFrame
    BY <1>4 DEF PollCoachEvents, ApplyEvents, PollLatest, DrainFeatures, replaying, live_run, InFrame
  <2>2. DOMAIN trace_buffer' = DOMAIN trace_buffer /\ trace_buffer'.commands = trace_buffer.commands
    BY <1>4 DEF PollCoachEvents, ApplyEvents, PollLatest, DrainFeatures, live_run, TraceInv, BufferInv
  <2>3. BufferInv' BY <2>2 DEF TraceInv, BufferInv, IsSequence
  <2>. QED BY <2>1, <2>3, NothingWritten
<1>5. ASSUME NEW inputs \in InputBatches, BeginFrame(inputs) PROVE TraceInv'
  <2>. DEFINE mapped == [i \in DOMAIN inputs |-> InputLine(frame_count, inputs[i])]
              first == <<FrameLine(frame_count)>>
  <2>1. /\ trace_lines' = (trace_lines \o first) \o mapped
        /\ trace_step = "first" /\ trace_step' = "poll"
        /\ UNCHANGED <<saw, trace_buffer, flushed, trace_file, loaded_trace>>
    BY <1>5 DEF BeginFrame, replaying
  <2>2. IsSequence(mapped)
    <3>. DEFINE S == {mapped[i] : i \in DOMAIN mapped}
    <3>1. \E n \in Nat : DOMAIN inputs = 1..n
      <4>1. inputs = <<Moved>> \/ inputs = <<Left, "F1">> BY DEF InputBatches
      <4>2. DOMAIN <<Moved>> = 1..1 /\ DOMAIN <<Left, "F1">> = 1..2 OBVIOUS
      <4>. QED BY <4>1, <4>2
    <3>2. PICK n \in Nat : DOMAIN inputs = 1..n BY <3>1
    <3>3. mapped \in [1..n -> S] BY <3>2
    <3>. HIDE DEF mapped
    <3>. QED BY <3>3, IsASeq DEF IsSequence
  <2>3. IsSequence(first) /\ Len(first) = 1 /\ first[1].f = frame_count
    <3>1. first \in Seq({FrameLine(frame_count)}) OBVIOUS
    <3>2. Len(first) = 1 /\ first[1] = FrameLine(frame_count) OBVIOUS
    <3>. QED BY <3>1, <3>2, SequenceIs DEF FrameLine
  <2>. HIDE DEF mapped, first
  <2>4. /\ IsSequence(trace_lines \o first) /\ Len(trace_lines \o first) = Len(trace_lines) + 1
        /\ \A i \in 1..Len(trace_lines) : (trace_lines \o first)[i] = trace_lines[i]
        /\ (trace_lines \o first)[Len(trace_lines) + 1] = first[1]
        /\ Len(trace_lines) \in Nat
    <3>1. IsSequence(trace_lines) /\ IsSequence(first) BY <2>3 DEF TraceInv, LinesInv
    <3>2. /\ IsSequence(trace_lines \o first)
          /\ Len(trace_lines \o first) = Len(trace_lines) + Len(first)
          /\ Len(trace_lines) \in Nat /\ Len(first) \in Nat
          /\ \A i \in 1..Len(trace_lines) : (trace_lines \o first)[i] = trace_lines[i]
          /\ \A i \in 1..Len(first) : (trace_lines \o first)[i + Len(trace_lines)] = first[i]
      BY <3>1, JoinedIs
    <3>3. 1 \in 1..Len(first) /\ 1 + Len(trace_lines) = Len(trace_lines) + 1 BY <2>3, <3>2
    <3>. QED BY <2>3, <3>2, <3>3
  <2>5. /\ IsSequence(trace_lines') /\ Len(trace_lines') = Len(trace_lines) + 1 + Len(mapped)
        /\ Len(mapped) \in Nat
        /\ \A i \in 1..Len(trace_lines) + 1 : trace_lines'[i] = (trace_lines \o first)[i]
    <3>1. /\ IsSequence((trace_lines \o first) \o mapped)
          /\ Len((trace_lines \o first) \o mapped) = Len(trace_lines \o first) + Len(mapped)
          /\ Len(mapped) \in Nat
          /\ \A i \in 1..Len(trace_lines \o first) :
               ((trace_lines \o first) \o mapped)[i] = (trace_lines \o first)[i]
      BY <2>2, <2>4, JoinedIs
    <3>. QED BY <2>1, <2>4, <3>1
  <2>6. \A f \in 0..Len(saw) - 1 : \E i \in 2..flushed : trace_lines'[i].f = f
    <3>1. \A i \in 2..flushed : trace_lines'[i] = trace_lines[i]
      BY <2>4, <2>5 DEF TraceInv, LinesInv
    <3>. QED BY <3>1 DEF TraceInv, LinesInv
  <2>7. Len(trace_lines) + 1 \in 2..Len(trace_lines') /\ trace_lines'[Len(trace_lines) + 1].f = Len(saw)
    BY <2>3, <2>4, <2>5 DEF TraceInv, LinesInv, frame_count
  <2>8. LinesInv'
    <3>1. IsSequence(saw') BY <2>1 DEF TraceInv, LinesInv
    <3>2. flushed' \in 0..Len(trace_lines') /\ Len(trace_lines') >= 1
      BY <2>1, <2>4, <2>5 DEF TraceInv, LinesInv
    <3>. QED BY <2>1, <2>5, <2>6, <2>7, <3>1, <3>2 DEF LinesInv
  <2>9. LeftInv' BY <2>1 DEF LeftInv, Loaded
  <2>. QED BY <2>1, <2>8, <2>9 DEF TraceInv, BufferInv, IsSequence
<1>6. CASE RecordCoach
  <2>. DEFINE reads == IF CoachRead(trace_buffer) = EmptyRead THEN <<>>
                       ELSE <<CoachLine(frame_count, CoachRead(trace_buffer))>>
              asked == [i \in DOMAIN trace_buffer.commands |->
                          CmdLine(frame_count, trace_buffer.commands[i])]
  <2>1. /\ trace_lines' = (trace_lines \o reads) \o asked
        /\ trace_step = "record" /\ trace_step' = "last" /\ trace_buffer' = EmptyBuffer
        /\ UNCHANGED <<saw, flushed, trace_file, loaded_trace>>
    BY <1>6 DEF RecordCoach, replaying
  <2>2. IsSequence(asked)
    <3>. DEFINE S == {asked[i] : i \in DOMAIN asked}
                n == Len(trace_buffer.commands)
    <3>1. DOMAIN trace_buffer.commands = 1..n /\ n \in Nat
      BY SequenceIs DEF TraceInv, BufferInv, IsSequence
    <3>2. asked \in [1..n -> S] BY <3>1
    <3>. HIDE DEF asked, n
    <3>. QED BY <3>1, <3>2, IsASeq DEF IsSequence
  <2>3. IsSequence(reads)
    <3>1. IsSequence(<<>>)
      <4>1. <<>> \in Seq({}) OBVIOUS
      <4>. QED BY <4>1, SequenceIs
    <3>2. IsSequence(<<CoachLine(frame_count, CoachRead(trace_buffer))>>)
      <4>1. <<CoachLine(frame_count, CoachRead(trace_buffer))>>
               \in Seq({CoachLine(frame_count, CoachRead(trace_buffer))}) OBVIOUS
      <4>. QED BY <4>1, SequenceIs
    <3>. QED BY <3>1, <3>2
  <2>. HIDE DEF reads, asked
  <2>4. /\ IsSequence(trace_lines \o reads)
        /\ Len(trace_lines \o reads) = Len(trace_lines) + Len(reads)
        /\ Len(trace_lines) \in Nat /\ Len(reads) \in Nat
        /\ \A i \in 1..Len(trace_lines) : (trace_lines \o reads)[i] = trace_lines[i]
    BY <2>3, JoinedIs DEF TraceInv, LinesInv
  <2>5. /\ IsSequence(trace_lines')
        /\ Len(trace_lines') = Len(trace_lines) + Len(reads) + Len(asked) /\ Len(asked) \in Nat
        /\ \A i \in 1..Len(trace_lines) + Len(reads) : trace_lines'[i] = (trace_lines \o reads)[i]
    BY <2>1, <2>2, <2>4, JoinedIs
  <2>6. \A i \in 1..Len(trace_lines) : trace_lines'[i] = trace_lines[i]
    BY <2>4, <2>5
  <2>7. \A f \in 0..Len(saw) - 1 : \E i \in 2..flushed : trace_lines'[i].f = f
    <3>1. \A i \in 2..flushed : trace_lines'[i] = trace_lines[i]
      BY <2>4, <2>6 DEF TraceInv, LinesInv
    <3>. QED BY <3>1 DEF TraceInv, LinesInv
  <2>8. \E i \in 2..Len(trace_lines') : trace_lines'[i].f = Len(saw)
    <3>1. PICK i \in 2..Len(trace_lines) : trace_lines[i].f = Len(saw)
      BY <2>1 DEF TraceInv, LinesInv, InFrame
    <3>2. i \in 2..Len(trace_lines') /\ trace_lines'[i] = trace_lines[i]
      BY <2>4, <2>5, <2>6
    <3>. QED BY <3>1, <3>2
  <2>9. LinesInv'
    <3>1. IsSequence(saw') BY <2>1 DEF TraceInv, LinesInv
    <3>2. flushed' \in 0..Len(trace_lines') /\ Len(trace_lines') >= 1
      BY <2>1, <2>4, <2>5 DEF TraceInv, LinesInv
    <3>. QED BY <2>1, <2>5, <2>7, <2>8, <3>1, <3>2 DEF LinesInv
  <2>10. LeftInv' BY <2>1 DEF LeftInv, Loaded
  <2>11. BufferInv'
    <3>1. <<>> \in Seq({}) OBVIOUS
    <3>2. IsSequence(<<>>) BY <3>1, SequenceIs
    <3>. QED BY <2>1, <3>2 DEF BufferInv, EmptyBuffer, IsSequence
  <2>. QED BY <2>9, <2>10, <2>11 DEF TraceInv
<1>7. CASE FlushWriter
  <2>1. /\ trace_step = "last" /\ trace_step' = "first" /\ flushed' = Len(trace_lines)
        /\ saw' = Append(saw, frame_read)
        /\ UNCHANGED <<trace_buffer, trace_lines, trace_file, loaded_trace>>
    BY <1>7 DEF FlushWriter, replaying
  <2>2. IsSequence(saw') /\ Len(saw') = Len(saw) + 1 /\ Len(saw) \in Nat
    <3>. DEFINE S == {saw[i] : i \in DOMAIN saw} \cup {frame_read}
    <3>1. saw \in Seq({saw[i] : i \in DOMAIN saw}) BY DEF TraceInv, LinesInv, IsSequence
    <3>2. saw \in Seq(S) BY <3>1
    <3>. HIDE DEF S
    <3>3. frame_read \in S BY DEF S
    <3>4. Append(saw, frame_read) \in Seq(S) /\ Len(Append(saw, frame_read)) = Len(saw) + 1
          /\ Len(saw) \in Nat
      BY <3>2, <3>3, AppendProperties, LenProperties
    <3>5. IsSequence(Append(saw, frame_read)) BY <3>4, SequenceIs
    <3>. QED BY <2>1, <3>4, <3>5 DEF IsSequence
  <2>3. Len(trace_lines) \in Nat
    BY SequenceIs DEF TraceInv, LinesInv, IsSequence
  <2>4. \A f \in 0..Len(saw) : \E i \in 2..Len(trace_lines) : trace_lines[i].f = f
    <3>1. \A f \in 0..Len(saw) : f = Len(saw) \/ f \in 0..Len(saw) - 1 BY <2>2
    <3>2. \E i \in 2..Len(trace_lines) : trace_lines[i].f = Len(saw)
      BY <2>1 DEF TraceInv, LinesInv, InFrame
    <3>3. \A f \in 0..Len(saw) - 1 : \E i \in 2..Len(trace_lines) : trace_lines[i].f = f
      BY <2>3 DEF TraceInv, LinesInv
    <3>. QED BY <3>1, <3>2, <3>3
  <2>5. Len(saw') - 1 = Len(saw) BY <2>2
  <2>6. LinesInv'
    <3>1. IsSequence(trace_lines') /\ Len(trace_lines') >= 1 BY <2>1 DEF TraceInv, LinesInv
    <3>2. flushed' \in 0..Len(trace_lines') BY <2>1, <2>3
    <3>. QED BY <2>1, <2>2, <2>4, <2>5, <3>1, <3>2 DEF LinesInv, InFrame
  <2>7. LeftInv' BY <2>1 DEF LeftInv, Loaded
  <2>. QED BY <2>1, <2>6, <2>7 DEF TraceInv, BufferInv, IsSequence
<1>. QED BY <1>1, <1>2, <1>3, <1>4, <1>5, <1>6, <1>7 DEF LiveStep

\* What is left of a run's file: all of it, or what a kill left of what was not flushed.
LEMMA LeaveKeeps ==
  ASSUME TraceInv, Exit \/ Panic \/ Kill
  PROVE  TraceInv'
<1>1. IsSequence(trace_lines) /\ Len(trace_lines) \in Nat /\ flushed \in 0..Len(trace_lines)
  BY SequenceIs DEF TraceInv, LinesInv, IsSequence
<1>2. PICK left : /\ Leave(left)
                  /\ \E k \in flushed..Len(trace_lines) : left.lines = SubSeq(trace_lines, 1, k)
  <2>1. CASE Exit \/ Panic
    <3>1. SubSeq(trace_lines, 1, Len(trace_lines)) = trace_lines
      BY <1>1, SubSeqFull DEF IsSequence
    <3>. DEFINE left == [lines |-> trace_lines, torn |-> FALSE]
    <3>2. Leave(left) /\ left.lines = trace_lines BY <2>1 DEF Exit, Panic
    <3>3. Len(trace_lines) \in flushed..Len(trace_lines) BY <1>1
    <3>. HIDE DEF left
    <3>. QED BY <3>1, <3>2, <3>3
  <2>2. CASE Kill
    <3>1. PICK kept \in flushed..Len(trace_lines), torn \in BOOLEAN :
            Leave([lines |-> SubSeq(trace_lines, 1, kept), torn |-> torn])
      BY <2>2 DEF Kill
    <3>. DEFINE left == [lines |-> SubSeq(trace_lines, 1, kept), torn |-> torn]
    <3>2. Leave(left) /\ left.lines = SubSeq(trace_lines, 1, kept) BY <3>1
    <3>. HIDE DEF left
    <3>. QED BY <3>1, <3>2
  <2>. QED BY <2>1, <2>2
<1>3. /\ trace_file' = left /\ trace_step' = "over" /\ trace_buffer' = EmptyBuffer
      /\ UNCHANGED <<saw, trace_lines, flushed, loaded_trace>>
  BY <1>2 DEF Leave, replaying
<1>4. BufferInv'
  <2>1. <<>> \in Seq({}) OBVIOUS
  <2>2. IsSequence(<<>>) BY <2>1, SequenceIs
  <2>. QED BY <1>3, <2>2 DEF BufferInv, EmptyBuffer, IsSequence
<1>5. LinesInv' BY <1>3 DEF TraceInv, LinesInv, InFrame, IsSequence
<1>6. LeftInv'
  <2>1. PICK k \in flushed..Len(trace_lines) : left.lines = SubSeq(trace_lines, 1, k) BY <1>2
  <2>. QED BY <1>3, <2>1 DEF LeftInv, Loaded
<1>. QED BY <1>4, <1>5, <1>6 DEF TraceInv

LEMMA ReplayKeeps ==
  ASSUME TraceInv, ReplayStep
  PROVE  TraceInv'
<1>1. ASSUME NEW hold \in BOOLEAN, Load(hold) PROVE TraceInv'
  <2>1. /\ trace_step = "over"
        /\ UNCHANGED <<saw, trace_lines, flushed, trace_file, trace_buffer>>
    BY <1>1 DEF Load, live_run
  <2>2. PICK k \in flushed..Len(trace_lines) : trace_file.lines = SubSeq(trace_lines, 1, k)
    BY <2>1 DEF TraceInv, LeftInv
  <2>3. IsSequence(trace_lines) /\ flushed \in 0..Len(trace_lines) /\ Len(trace_lines) \in Nat
    BY SequenceIs DEF TraceInv, LinesInv, IsSequence
  <2>4. k \in 0..Len(trace_lines) /\ flushed \in 0..k BY <2>2, <2>3
  <2>. DEFINE lines == trace_file.lines
  <2>5. IsSequence(lines) /\ Len(lines) = k /\ \A i \in 1..k : lines[i] = trace_lines[i]
    BY <2>2, <2>3, <2>4, CutIs
  <2>6. \/ lines = <<>> /\ trace_step' = "refused" /\ UNCHANGED loaded_trace
        \/ lines # <<>> /\ trace_step' = "drive" /\ loaded_trace' = Buckets(Tail(lines))
    BY <1>1 DEF Load, Decode
  <2>. HIDE DEF lines
  <2>7. CASE lines = <<>> /\ trace_step' = "refused" /\ UNCHANGED loaded_trace
    <3>1. Len(lines) = 0 BY <2>7
    <3>2. flushed = 0 BY <2>4, <2>5, <3>1
    <3>3. LinesInv' BY <2>1, <2>7 DEF TraceInv, LinesInv, InFrame, IsSequence
    <3>4. LeftInv' BY <2>1, <2>2, <2>7, <3>2 DEF LeftInv, Loaded
    <3>. QED BY <2>1, <3>3, <3>4 DEF TraceInv, BufferInv, IsSequence
  <2>8. CASE lines # <<>> /\ trace_step' = "drive" /\ loaded_trace' = Buckets(Tail(lines))
    <3>. DEFINE ls == Tail(lines)
    <3>1. IsSequence(ls) /\ Len(ls) = k - 1 /\ \A i \in 1..k - 1 : ls[i] = lines[i + 1]
      <4>. DEFINE S == {lines[i] : i \in DOMAIN lines}
      <4>1. lines \in Seq(S) BY <2>5 DEF IsSequence
      <4>. HIDE DEF S
      <4>2. /\ ls \in Seq(S) /\ Len(ls) = Len(lines) - 1
            /\ \A i \in 1..Len(ls) : ls[i] = lines[i + 1]
        BY <2>8, <4>1, HeadTailProperties
      <4>3. IsSequence(ls) BY <4>2, SequenceIs
      <4>. QED BY <2>5, <4>2, <4>3
    <3>. HIDE DEF ls
    <3>2. Len(saw) \in Nat BY SequenceIs DEF TraceInv, LinesInv, IsSequence
    <3>3. \A f \in 0..Len(saw) - 1 : \E i \in 1..Len(ls) : ls[i].f = f
      <4>. SUFFICES ASSUME NEW f \in 0..Len(saw) - 1 PROVE \E i \in 1..Len(ls) : ls[i].f = f
        OBVIOUS
      <4>1. PICK i \in 2..flushed : trace_lines[i].f = f BY DEF TraceInv, LinesInv
      <4>2. i - 1 \in 1..k - 1 /\ i \in 1..k /\ (i - 1) + 1 = i BY <2>4, <4>1
      <4>3. ls[i - 1] = trace_lines[i] BY <2>5, <3>1, <4>2
      <4>. QED BY <3>1, <4>1, <4>2, <4>3
    <3>4. Len(loaded_trace') >= Len(saw) BY <2>8, <3>1, <3>2, <3>3, BucketsAre DEF ls
    <3>5. LinesInv' BY <2>1, <2>8 DEF TraceInv, LinesInv, InFrame, IsSequence
    <3>6. LeftInv' BY <2>1, <2>2, <2>8, <3>4 DEF LeftInv, Loaded
    <3>. QED BY <2>1, <3>5, <3>6 DEF TraceInv, BufferInv, IsSequence
  <2>. QED BY <2>6, <2>7, <2>8
<1>2. CASE (\E stray \in {<<>>, <<Moved>>} : Drive(stray)) \/ ReadFrame \/ EndReplayedFrame
  <2>1. /\ UNCHANGED <<saw, trace_lines, flushed, trace_file, loaded_trace, trace_buffer>>
        /\ trace_step \in Loaded /\ trace_step' \in Loaded
    BY <1>2 DEF Drive, ReadFrame, EndReplayedFrame, live_run, replaying, Loaded
  <2>2. BufferInv' BY <2>1 DEF TraceInv, BufferInv, IsSequence
  <2>. QED BY <2>1, <2>2, NothingWritten
<1>. QED BY <1>1, <1>2 DEF ReplayStep

LEMMA TraceInvInductive == TraceInv /\ [TraceNext]_trace_vars => TraceInv'
<1>. SUFFICES ASSUME TraceInv, [TraceNext]_trace_vars PROVE TraceInv'
  OBVIOUS
<1>1. CASE UNCHANGED trace_vars
  <2>1. BufferInv' BY <1>1 DEF trace_vars, TraceInv, BufferInv, IsSequence
  <2>. QED BY <1>1, <2>1, NothingWritten DEF trace_vars
<1>2. CASE TraceNext
  BY <1>2, LiveKeeps, LeaveKeeps, ReplayKeeps DEF TraceNext
<1>. QED BY <1>1, <1>2

(* However a run ends, its flushed lines are in the file, in order and with no others before
   them, and the load that follows has a bucket for every frame the run had finished: for
   runs of any length and a coach that does anything at its port. *)
THEOREM FlushedFramesAreRecoveredAlways == TraceSpec => []FlushedFramesAreRecovered
<1>1. TraceInit => TraceInv BY TraceInitHolds
<1>. QED BY <1>1, TraceInvInductive, TraceInvImplies, PTL DEF TraceSpec

HIDE AdapterAssumption

-----------------------------------------------------------------------------
(* The replay.  Events, and the lines of a frame. *)

ConfiguredEvents == {Configured(scale) : scale \in Scales}
Events == {StateChanged, DevicesListed} \cup ConfiguredEvents
Heard == Events \cup {SyntheticListing}
Answered == {<<>>, <<SyntheticListing>>}

LEMMA EventsDiffer ==
  /\ SyntheticListing \notin Events
  /\ \A e \in Heard : e.kind = "MusicSessionConfigured" <=> e \in ConfiguredEvents
<1>. USE DEF Events, Heard, ConfiguredEvents, Configured, StateChanged, DevicesListed,
             SyntheticListing
<1>1. /\ DOMAIN SyntheticListing = {"kind", "device"} /\ DOMAIN StateChanged = {"kind"}
      /\ DOMAIN DevicesListed = {"kind"}
      /\ \A scale \in Scales : DOMAIN Configured(scale) = {"kind", "scale"}
  OBVIOUS
<1>2. {"kind", "device"} # {"kind"} /\ {"kind", "device"} # {"kind", "scale"} OBVIOUS
<1>3. SyntheticListing \notin Events
  <2>1. SyntheticListing # StateChanged /\ SyntheticListing # DevicesListed BY <1>1, <1>2
  <2>2. \A scale \in Scales : SyntheticListing # Configured(scale) BY <1>1, <1>2
  <2>. QED BY <2>1, <2>2
<1>4. /\ SyntheticListing.kind = "AudioDevicesListed" /\ DevicesListed.kind = "AudioDevicesListed"
      /\ StateChanged.kind = "AudioSessionStateChanged"
      /\ \A scale \in Scales : Configured(scale).kind = "MusicSessionConfigured"
  OBVIOUS
<1>5. /\ "AudioDevicesListed" # "MusicSessionConfigured"
      /\ "AudioSessionStateChanged" # "MusicSessionConfigured"
  OBVIOUS
<1>6. ASSUME NEW e \in Heard
      PROVE  e.kind = "MusicSessionConfigured" <=> e \in ConfiguredEvents
  <2>1. e = SyntheticListing \/ e = StateChanged \/ e = DevicesListed \/ e \in ConfiguredEvents
    OBVIOUS
  <2>2. e \in ConfiguredEvents => e.kind = "MusicSessionConfigured" BY <1>4
  <2>. QED BY <1>4, <1>5, <2>1, <2>2
<1>. QED BY <1>3, <1>6

LEMMA HeardEvents ==
  ASSUME NEW a \in Seq(Events)
  PROVE  a \in Seq(Heard)
BY SeqMonotonic DEF Heard

LEMMA AnsweredIs ==
  ASSUME NEW b \in Answered
  PROVE  b \in Seq(Heard) /\ Len(b) \in Nat /\ \A k \in 1..Len(b) : b[k] = SyntheticListing
<1>1. SyntheticListing \in Heard BY DEF Heard
<1>2. CASE b = <<>>
  <2>1. b \in Seq(Heard) /\ Len(b) = 0 BY <1>2
  <2>. QED BY <2>1
<1>3. CASE b = <<SyntheticListing>>
  <2>1. b \in Seq(Heard) /\ Len(b) = 1 /\ b[1] = SyntheticListing BY <1>1, <1>3
  <2>. QED BY <2>1
<1>. QED BY <1>2, <1>3 DEF Answered

LEMMA ConfiguresIs ==
  ASSUME NEW a \in Seq(Heard)
  PROVE  Configures(a) = Among(a, ConfiguredEvents)
<1>. DEFINE S == {e \in Range(a) : e.kind = "MusicSessionConfigured"}
<1>1. \A k \in 1..Len(a) : a[k] \in Heard /\ a[k] \in Range(a)
  BY ElementOfSeq, LenProperties DEF Range
<1>2. \A k \in 1..Len(a) : a[k] \in S <=> a[k] \in ConfiguredEvents
  BY <1>1, EventsDiffer
<1>3. Configures(a) = Among(a, S) BY DEF Configures
<1>. HIDE DEF S
<1>. QED BY <1>2, <1>3, SameAmong

LEMMA RecordedIs ==
  ASSUME NEW a \in Seq(Heard)
  PROVE  Recorded(a) = Among(a, Events)
<1>. DEFINE S == Range(a) \ {SyntheticListing}
<1>1. \A k \in 1..Len(a) : a[k] \in Heard /\ a[k] \in Range(a)
  BY ElementOfSeq, LenProperties DEF Range
<1>2. \A k \in 1..Len(a) : a[k] \in S <=> a[k] \in Events
  BY <1>1, EventsDiffer DEF Heard
<1>3. Recorded(a) = Among(a, S) BY DEF Recorded
<1>. HIDE DEF S
<1>. QED BY <1>2, <1>3, SameAmong

LEMMA LastJoined ==
  ASSUME NEW U, NEW p \in Seq(U), NEW q \in Seq(U), q # <<>>
  PROVE  p \o q # <<>> /\ Last(p \o q) = Last(q)
<1>1. /\ Len(p) \in Nat /\ Len(q) \in Nat \ {0} /\ Len(p \o q) = Len(p) + Len(q)
      /\ \A i \in 1..Len(p) + Len(q) :
           (p \o q)[i] = IF i <= Len(p) THEN p[i] ELSE q[i - Len(p)]
  BY LenProperties, EmptySeq, ConcatProperties
<1>2. p \o q # <<>> BY ConcatEqualIffEmpty
<1>3. (p \o q)[Len(p) + Len(q)] = q[Len(q)]
  <2>. DEFINE i == Len(p) + Len(q)
  <2>1. i \in 1..Len(p) + Len(q) /\ ~ (i <= Len(p)) /\ i - Len(p) = Len(q) BY <1>1
  <2>. HIDE DEF i
  <2>2. (p \o q)[i] = q[i - Len(p)] BY <1>1, <2>1
  <2>. QED BY <2>1, <2>2 DEF i
<1>. QED BY <1>1, <1>2, <1>3 DEF Last

\* The scale in force after some events and then some more.
LEMMA MusicJoined ==
  ASSUME NEW a \in Seq(Heard), NEW b \in Seq(Heard), NEW music
  PROVE  /\ MusicAfter(music, a \o b) = MusicAfter(MusicAfter(music, a), b)
         /\ Configures(a \o b) = <<>> <=> Configures(a) = <<>> /\ Configures(b) = <<>>
<1>. DEFINE p == Configures(a)
            q == Configures(b)
            r == Configures(a \o b)
<1>1. a \o b \in Seq(Heard) BY ConcatProperties
<1>2. r = p \o q
  <2>1. /\ Configures(a) = Among(a, ConfiguredEvents)
        /\ Configures(b) = Among(b, ConfiguredEvents)
        /\ Configures(a \o b) = Among(a \o b, ConfiguredEvents)
    BY <1>1, ConfiguresIs
  <2>2. Among(a \o b, ConfiguredEvents) = Among(a, ConfiguredEvents) \o Among(b, ConfiguredEvents)
    BY AmongJoined
  <2>. QED BY <2>1, <2>2
<1>3. p \in Seq(Heard) /\ q \in Seq(Heard) BY ConfiguresIs, AmongType
<1>4. /\ MusicAfter(music, a) = (IF p = <<>> THEN music ELSE Last(p).scale)
      /\ \A m : MusicAfter(m, b) = (IF q = <<>> THEN m ELSE Last(q).scale)
      /\ MusicAfter(music, a \o b) = (IF r = <<>> THEN music ELSE Last(r).scale)
  BY DEF MusicAfter
<1>. HIDE DEF p, q, r
<1>5. r = <<>> <=> p = <<>> /\ q = <<>> BY <1>2, <1>3, ConcatEqualIffEmpty
<1>6. CASE q = <<>>
  <2>1. r = p BY <1>2, <1>3, <1>6, ConcatEmptySeq
  <2>. QED BY <1>4, <1>5, <1>6, <2>1 DEF p, q, r
<1>7. CASE q # <<>>
  <2>1. r # <<>> /\ Last(r) = Last(q) BY <1>2, <1>3, <1>7, LastJoined
  <2>. QED BY <1>4, <1>5, <1>7, <2>1 DEF p, q, r
<1>. QED BY <1>6, <1>7

LEMMA MusicQuiet ==
  ASSUME NEW a, NEW m, NEW n
  PROVE  /\ Configures(a) = <<>> => MusicAfter(m, a) = m
         /\ Configures(a) # <<>> => MusicAfter(m, a) = MusicAfter(n, a)
BY DEF MusicAfter

LEMMA QuietEvents ==
  /\ Configures(<<>>) = <<>>
  /\ \A e \in {StateChanged, DevicesListed, SyntheticListing} : Configures(<<e>>) = <<>>
  /\ \A b \in Answered : Configures(b) = <<>>
<1>0. <<>> \in Seq(Heard) OBVIOUS
<1>1. Configures(<<>>) = <<>> BY <1>0, ConfiguresIs, EmptyAmong
<1>2. ASSUME NEW e \in {StateChanged, DevicesListed, SyntheticListing}
      PROVE  Configures(<<e>>) = <<>>
  <2>1. e \in Heard BY DEF Heard, Events
  <2>2. e.kind # "MusicSessionConfigured"
    <3>1. /\ SyntheticListing.kind = "AudioDevicesListed"
          /\ DevicesListed.kind = "AudioDevicesListed"
          /\ StateChanged.kind = "AudioSessionStateChanged"
      BY DEF StateChanged, DevicesListed, SyntheticListing
    <3>2. /\ "AudioDevicesListed" # "MusicSessionConfigured"
          /\ "AudioSessionStateChanged" # "MusicSessionConfigured"
      OBVIOUS
    <3>. QED BY <3>1, <3>2
  <2>3. e \notin ConfiguredEvents BY <2>1, <2>2, EventsDiffer
  <2>. HIDE DEF StateChanged, DevicesListed, SyntheticListing
  <2>4. <<e>> \in Seq(Heard) /\ \A k \in 1..Len(<<e>>) : <<e>>[k] = e BY <2>1
  <2>5. Among(<<e>>, ConfiguredEvents) = <<>> BY <2>3, <2>4, AmongNone
  <2>. QED BY <2>4, <2>5, ConfiguresIs
<1>. QED BY <1>1, <1>2 DEF Answered

LEMMA MusicConfigured ==
  ASSUME NEW scale \in Scales, NEW m
  PROVE  MusicAfter(m, <<Configured(scale)>>) = scale
<1>. DEFINE e == Configured(scale)
<1>1. e \in ConfiguredEvents /\ e \in Heard BY DEF ConfiguredEvents, Heard, Events
<1>2. e.scale = scale BY DEF Configured
<1>. HIDE DEF e
<1>3. <<e>> \in Seq(Heard) /\ Len(<<e>>) = 1 /\ \A k \in 1..Len(<<e>>) : <<e>>[k] = e BY <1>1
<1>4. Among(<<e>>, ConfiguredEvents) = <<e>> BY <1>1, <1>3, AmongAll
<1>5. Configures(<<e>>) = <<e>> BY <1>3, <1>4, ConfiguresIs
<1>6. <<e>> # <<>> /\ Last(<<e>>) = e BY <1>3 DEF Last
<1>7. MusicAfter(m, <<e>>) = e.scale BY <1>5, <1>6 DEF MusicAfter
<1>. QED BY <1>2, <1>7 DEF e

\* What a replayed frame records is what the run recorded: the answers are left out.
LEMMA RecordedAnswers ==
  ASSUME NEW a \in Seq(Heard), NEW b \in Answered
  PROVE  /\ a \in Seq(Events) => Recorded(a \o b) = a
         /\ a \in Answered => Recorded(a \o b) = <<>>
         /\ Configures(a \o b) = <<>> <=> Configures(a) = <<>>
<1>1. b \in Seq(Heard) /\ a \o b \in Seq(Heard) BY AnsweredIs, ConcatProperties
<1>2. ASSUME NEW c \in Answered PROVE Among(c, Events) = <<>>
  <2>1. c \in Seq(Heard) /\ \A k \in 1..Len(c) : c[k] \notin Events
    BY AnsweredIs, EventsDiffer
  <2>. QED BY <2>1, AmongNone
<1>3. Recorded(a \o b) = Among(a, Events) \o <<>>
  <2>1. Recorded(a \o b) = Among(a \o b, Events) BY <1>1, RecordedIs
  <2>2. Among(a \o b, Events) = Among(a, Events) \o Among(b, Events) BY <1>1, AmongJoined
  <2>. QED BY <1>2, <2>1, <2>2
<1>4. Recorded(a \o b) = Among(a, Events)
  <2>1. Among(a, Events) \in Seq(Heard) BY AmongType
  <2>. QED BY <1>3, <2>1, ConcatEmptySeq
<1>5. ASSUME a \in Seq(Events) PROVE Among(a, Events) = a
  <2>1. \A k \in 1..Len(a) : a[k] \in Events BY <1>5, ElementOfSeq
  <2>. QED BY <2>1, AmongAll
<1>6. Configures(a \o b) = <<>> <=> Configures(a) = <<>>
  BY <1>1, MusicJoined, QuietEvents
<1>. QED BY <1>2, <1>4, <1>5, <1>6

-----------------------------------------------------------------------------
LEMMA CommonType ==
  ASSUME NEW a, NEW b, IsSequence(a), IsSequence(b)
  PROVE  \E U : a \in Seq(U) /\ b \in Seq(U)
<1>. DEFINE A == {a[i] : i \in DOMAIN a}
            B == {b[i] : i \in DOMAIN b}
<1>1. a \in Seq(A) /\ b \in Seq(B) BY DEF IsSequence
<1>. HIDE DEF A, B
<1>2. a \in Seq(A \cup B) /\ b \in Seq(A \cup B) BY <1>1, SeqMonotonic
<1>. QED BY <1>2

LEMMA EmptyIs == IsSequence(<<>>) /\ Len(<<>>) = 0 /\ DOMAIN <<>> = {}
<1>1. <<>> \in Seq({}) /\ Len(<<>>) = 0 OBVIOUS
<1>2. IsSequence(<<>>) /\ DOMAIN <<>> = 1..Len(<<>>) BY <1>1, SequenceIs
<1>. QED BY <1>1, <1>2

LEMMA OneIs == ASSUME NEW e PROVE IsSequence(<<e>>) /\ Len(<<e>>) = 1 /\ <<e>>[1] = e
<1>1. <<e>> \in Seq({e}) /\ Len(<<e>>) = 1 /\ <<e>>[1] = e OBVIOUS
<1>. QED BY <1>1, SequenceIs

OfKind(ls, f, k) == {l \in Range(ls) : l.f = f /\ l.k = k}

LEMMA OfFrameType ==
  ASSUME NEW ls, IsSequence(ls), NEW f, NEW k
  PROVE  IsSequence(OfFrame(ls, f, k))
<1>. DEFINE S == {ls[i] : i \in DOMAIN ls}
<1>1. ls \in Seq(S) BY DEF IsSequence
<1>. HIDE DEF S
<1>2. OfFrame(ls, f, k) \in Seq(S) BY <1>1, AmongType DEF OfFrame
<1>. QED BY <1>2, SequenceIs

LEMMA OfFrameNone ==
  ASSUME NEW ls, IsSequence(ls), NEW f, NEW k, \A i \in 1..Len(ls) : ~ (ls[i].f = f /\ ls[i].k = k)
  PROVE  OfFrame(ls, f, k) = <<>>
<1>. DEFINE S == {ls[i] : i \in DOMAIN ls}
<1>1. ls \in Seq(S) BY DEF IsSequence
<1>. HIDE DEF S
<1>2. \A i \in 1..Len(ls) : ls[i] \notin OfKind(ls, f, k) BY DEF OfKind
<1>3. Among(ls, OfKind(ls, f, k)) = <<>> BY <1>1, <1>2, AmongNone
<1>. QED BY <1>3 DEF OfFrame, OfKind

LEMMA OfFrameAll ==
  ASSUME NEW ls, IsSequence(ls), NEW f, NEW k, \A i \in 1..Len(ls) : ls[i].f = f /\ ls[i].k = k
  PROVE  OfFrame(ls, f, k) = ls
<1>. DEFINE S == {ls[i] : i \in DOMAIN ls}
<1>1. ls \in Seq(S) /\ DOMAIN ls = 1..Len(ls) BY SequenceIs DEF IsSequence
<1>. HIDE DEF S
<1>2. \A i \in 1..Len(ls) : ls[i] \in OfKind(ls, f, k) BY <1>1 DEF OfKind, Range
<1>3. Among(ls, OfKind(ls, f, k)) = ls BY <1>1, <1>2, AmongAll
<1>. QED BY <1>3 DEF OfFrame, OfKind

LEMMA OfFrameJoined ==
  ASSUME NEW a, NEW b, IsSequence(a), IsSequence(b), NEW f, NEW k
  PROVE  OfFrame(a \o b, f, k) = OfFrame(a, f, k) \o OfFrame(b, f, k)
<1>. DEFINE S == OfKind(a \o b, f, k)
<1>1. PICK U : a \in Seq(U) /\ b \in Seq(U) BY CommonType
<1>2. /\ DOMAIN a = 1..Len(a) /\ DOMAIN b = 1..Len(b) /\ Len(a) \in Nat /\ Len(b) \in Nat
      /\ DOMAIN (a \o b) = 1..Len(a) + Len(b)
  BY <1>1, LenProperties, ConcatProperties
<1>3. /\ \A i \in 1..Len(a) : (a \o b)[i] = a[i]
      /\ \A i \in 1..Len(b) : (a \o b)[i + Len(a)] = b[i]
  BY JoinedIs
<1>4. \A i \in 1..Len(a) : a[i] \in S <=> a[i] \in OfKind(a, f, k)
  <2>1. \A i \in 1..Len(a) : i \in DOMAIN (a \o b) /\ i \in DOMAIN a BY <1>2
  <2>2. \A i \in 1..Len(a) : a[i] \in Range(a \o b) /\ a[i] \in Range(a)
    BY <1>3, <2>1 DEF Range
  <2>. QED BY <2>2 DEF OfKind
<1>5. \A i \in 1..Len(b) : b[i] \in S <=> b[i] \in OfKind(b, f, k)
  <2>1. \A i \in 1..Len(b) : i + Len(a) \in DOMAIN (a \o b) /\ i \in DOMAIN b BY <1>2
  <2>2. \A i \in 1..Len(b) : b[i] \in Range(a \o b) /\ b[i] \in Range(b)
    BY <1>3, <2>1 DEF Range
  <2>. QED BY <2>2 DEF OfKind
<1>. HIDE DEF S
<1>6. Among(a \o b, S) = Among(a, S) \o Among(b, S) BY <1>1, AmongJoined
<1>7. Among(a, S) = Among(a, OfKind(a, f, k)) BY <1>1, <1>4, SameAmong
<1>8. Among(b, S) = Among(b, OfKind(b, f, k)) BY <1>1, <1>5, SameAmong
<1>. QED BY <1>6, <1>7, <1>8 DEF OfFrame, OfKind, S

LEMMA EmptyJoins ==
  ASSUME NEW a, IsSequence(a)
  PROVE  a \o <<>> = a /\ <<>> \o a = a
<1>. DEFINE S == {a[i] : i \in DOMAIN a}
<1>1. a \in Seq(S) BY DEF IsSequence
<1>. HIDE DEF S
<1>. QED BY <1>1, ConcatEmptySeq

\* Lines that are none of a frame's, after others or before them, leave the frame alone.
LEMMA OthersPass ==
  ASSUME NEW ls, NEW new, IsSequence(ls), IsSequence(new), NEW f, NEW k,
         \A i \in 1..Len(new) : ~ (new[i].f = f /\ new[i].k = k)
  PROVE  /\ OfFrame(ls \o new, f, k) = OfFrame(ls, f, k)
         /\ OfFrame(new \o ls, f, k) = OfFrame(ls, f, k)
<1>1. OfFrame(new, f, k) = <<>> BY OfFrameNone
<1>2. IsSequence(OfFrame(ls, f, k)) BY OfFrameType
<1>3. /\ OfFrame(ls, f, k) \o <<>> = OfFrame(ls, f, k)
      /\ <<>> \o OfFrame(ls, f, k) = OfFrame(ls, f, k)
  BY <1>2, EmptyJoins
<1>4. /\ OfFrame(ls \o new, f, k) = OfFrame(ls, f, k) \o OfFrame(new, f, k)
      /\ OfFrame(new \o ls, f, k) = OfFrame(new, f, k) \o OfFrame(ls, f, k)
  BY OfFrameJoined
<1>. QED BY <1>1, <1>3, <1>4

-----------------------------------------------------------------------------
ReadsOf(frame) ==
    [events |-> frame.events, latest |-> frame.latest, drained |-> frame.drained]
CoachReads(frame) == IF ReadsOf(frame) = EmptyRead THEN <<>> ELSE <<ReadsOf(frame)>>

InputLines(f, inputs) == [i \in DOMAIN inputs |-> InputLine(f, inputs[i])]
CoachLines(f, reads) == [i \in DOMAIN reads |-> CoachLine(f, reads[i])]
Written(ls, f, inputs, reads) ==
    /\ OfFrame(ls, f, "input") = InputLines(f, inputs)
    /\ OfFrame(ls, f, "coach") = CoachLines(f, reads)

LEMMA LinesAre ==
  ASSUME NEW s, IsSequence(s), NEW f
  PROVE  /\ IsSequence(InputLines(f, s)) /\ Len(InputLines(f, s)) = Len(s)
         /\ \A i \in 1..Len(s) : InputLines(f, s)[i] = InputLine(f, s[i])
         /\ IsSequence(CoachLines(f, s)) /\ Len(CoachLines(f, s)) = Len(s)
         /\ \A i \in 1..Len(s) : CoachLines(f, s)[i] = CoachLine(f, s[i])
         /\ DOMAIN s = 1..Len(s) /\ Len(s) \in Nat /\ s = [i \in DOMAIN s |-> s[i]]
<1>. DEFINE n == Len(s)
            A == InputLines(f, s)
            B == CoachLines(f, s)
            S == {InputLine(f, s[i]) : i \in DOMAIN s}
            T == {CoachLine(f, s[i]) : i \in DOMAIN s}
<1>1. DOMAIN s = 1..n /\ n \in Nat /\ s = [i \in DOMAIN s |-> s[i]]
  <2>1. s \in Seq({s[i] : i \in DOMAIN s}) BY DEF IsSequence
  <2>2. s \in [1..Len(s) -> {s[i] : i \in DOMAIN s}] /\ Len(s) \in Nat
    BY <2>1, LenProperties
  <2>. QED BY <2>2
<1>. HIDE DEF n
<1>2. /\ A \in [1..n -> S] /\ B \in [1..n -> T]
      /\ \A i \in 1..n : A[i] = InputLine(f, s[i]) /\ B[i] = CoachLine(f, s[i])
  BY <1>1 DEF InputLines, CoachLines
<1>. HIDE DEF A, B, S, T
<1>3. A \in Seq(S) /\ Len(A) = n /\ B \in Seq(T) /\ Len(B) = n
  BY <1>1, <1>2, IsASeq, LenProperties
<1>4. IsSequence(A) /\ IsSequence(B) BY <1>3, SequenceIs
<1>. QED BY <1>1, <1>2, <1>3, <1>4 DEF A, B, n

LEMMA BatchIs == ASSUME NEW inputs \in InputBatches PROVE IsSequence(inputs)
<1>. DEFINE S == {Moved, Left, "F1"}
<1>1. inputs = <<Moved>> \/ inputs = <<Left, "F1">> BY DEF InputBatches
<1>2. <<Moved>> \in Seq(S) /\ <<Left, "F1">> \in Seq(S) OBVIOUS
<1>. QED BY <1>1, <1>2, SequenceIs

LEMMA CoachReadsAre ==
  ASSUME NEW frame
  PROVE  IsSequence(CoachReads(frame)) /\ Len(CoachReads(frame)) \in {0, 1}
         /\ (CoachReads(frame) # <<>> => Last(CoachReads(frame)) = ReadsOf(frame))
<1>1. CASE ReadsOf(frame) = EmptyRead
  <2>1. CoachReads(frame) = <<>> BY <1>1 DEF CoachReads
  <2>. HIDE DEF CoachReads
  <2>. QED BY <2>1, EmptyIs
<1>2. CASE ReadsOf(frame) # EmptyRead
  <2>1. CoachReads(frame) = <<ReadsOf(frame)>> BY <1>2 DEF CoachReads
  <2>. HIDE DEF CoachReads
  <2>2. IsSequence(<<ReadsOf(frame)>>) /\ Len(<<ReadsOf(frame)>>) = 1
        /\ <<ReadsOf(frame)>>[1] = ReadsOf(frame)
    BY OneIs
  <2>. QED BY <2>1, <2>2 DEF Last
<1>. QED BY <1>1, <1>2

\* What was written of a frame is what is loaded of it.
LEMMA BucketIs ==
  ASSUME NEW ls, NEW f, NEW inputs, NEW reads, IsSequence(inputs), IsSequence(reads),
         Written(ls, f, inputs, reads)
  PROVE  Bucket(ls, f).inputs = inputs /\ Bucket(ls, f).coach = reads
<1>. DEFINE A == InputLines(f, inputs)
            B == CoachLines(f, reads)
<1>1. /\ Bucket(ls, f).inputs = [i \in DOMAIN A |-> A[i].input]
      /\ Bucket(ls, f).coach = [i \in DOMAIN B |-> B[i].read]
  BY DEF Bucket, Written
<1>2. /\ DOMAIN A = DOMAIN inputs /\ \A i \in DOMAIN inputs : A[i].input = inputs[i]
      /\ DOMAIN B = DOMAIN reads /\ \A i \in DOMAIN reads : B[i].read = reads[i]
  BY DEF InputLines, CoachLines, InputLine, CoachLine
<1>. HIDE DEF A, B
<1>3. /\ [i \in DOMAIN A |-> A[i].input] = [i \in DOMAIN inputs |-> inputs[i]]
      /\ [i \in DOMAIN B |-> B[i].read] = [i \in DOMAIN reads |-> reads[i]]
  BY <1>2
<1>4. inputs = [i \in DOMAIN inputs |-> inputs[i]] /\ reads = [i \in DOMAIN reads |-> reads[i]]
  BY LinesAre
<1>. QED BY <1>1, <1>3, <1>4

LEMMA BucketType ==
  ASSUME NEW ls, IsSequence(ls), NEW f
  PROVE  IsSequence(Bucket(ls, f).inputs)
<1>. DEFINE A == OfFrame(ls, f, "input")
            B == [i \in DOMAIN A |-> A[i].input]
            S == {A[i].input : i \in DOMAIN A}
<1>1. IsSequence(A) BY OfFrameType
<1>2. DOMAIN A = 1..Len(A) /\ Len(A) \in Nat BY <1>1, SequenceIs DEF IsSequence
<1>3. Bucket(ls, f).inputs = B BY DEF Bucket
<1>. HIDE DEF A
<1>4. B \in [1..Len(A) -> S] BY <1>2
<1>. HIDE DEF B, S
<1>5. B \in Seq(S) BY <1>2, <1>4, IsASeq
<1>. QED BY <1>3, <1>5, SequenceIs

\* The frames of lines whose frames follow on from 0, and their buckets in order.
LEMMA BucketsInOrder ==
  ASSUME NEW ls, IsSequence(ls), NEW n \in Nat,
         \A i \in 1..Len(ls) : ls[i].f \in 0..n,
         \A f \in 0..n - 1 : \E i \in 1..Len(ls) : ls[i].f = f
  PROVE  /\ IsSequence(Buckets(ls)) /\ Len(Buckets(ls)) >= n
         /\ \A k \in 1..Len(Buckets(ls)) : IsSequence(Buckets(ls)[k].inputs)
         /\ \A k \in 1..n : Buckets(ls)[k] = Bucket(ls, k - 1)
<1>. DEFINE frames == {ls[i].f : i \in DOMAIN ls}
            m == Cardinality(frames)
            Nth(k, f) == Cardinality({g \in frames : g <= f}) = k
            nth(k) == CHOOSE f \in frames : Nth(k, f)
            bucket(k) == Bucket(ls, nth(k))
            bs == [k \in 1..m |-> bucket(k)]
            all == {bucket(k) : k \in 1..m}
<1>1. DOMAIN ls = 1..Len(ls) /\ Len(ls) \in Nat BY SequenceIs DEF IsSequence
<1>2. 0..n - 1 \subseteq frames /\ frames \subseteq 0..n BY <1>1
<1>3. Buckets(ls) = bs BY DEF Buckets
<1>. HIDE DEF frames
<1>4. n <= m /\ m \in Nat /\ IsFiniteSet(frames)
  <2>1. Cardinality(0..n - 1) = n
    <3>1. 0 \in Int /\ n - 1 \in Int /\ n \in Nat OBVIOUS
    <3>2. Cardinality(0..n - 1) = IF 0 > n - 1 THEN 0 ELSE (n - 1) - 0 + 1
      BY ONLY <3>1, FS_Interval
    <3>. QED BY <3>1, <3>2
  <2>2. IsFiniteSet(0..n) BY FS_Interval
  <2>3. IsFiniteSet(frames) BY <1>2, <2>2, FS_Subset
  <2>4. Cardinality(0..n - 1) <= Cardinality(frames) BY <1>2, <2>3, FS_Subset
  <2>5. m \in Nat BY <2>3, FS_CardinalityType
  <2>. QED BY <2>1, <2>3, <2>4, <2>5
<1>. HIDE DEF m
<1>5. ASSUME NEW k \in 1..n PROVE nth(k) = k - 1
  <2>1. ASSUME NEW f \in frames PROVE Nth(k, f) <=> f = k - 1
    <3>1. f \in 0..n /\ f \in Nat BY <1>2
    <3>2. CASE f < n
      <4>1. \A g : g \in frames /\ g <= f <=> g \in 0..f
        <5>1. \A g \in 0..f : g <= f /\ g \in 0..n - 1 BY <3>1, <3>2
        <5>2. \A g \in 0..n : g <= f => g \in 0..f BY <3>1
        <5>. QED BY <1>2, <5>1, <5>2
      <4>2. {g \in frames : g <= f} = 0..f BY <4>1
      <4>3. 0 \in Int /\ f \in Int BY <3>1
      <4>4. Cardinality(0..f) = f + 1 BY <3>1, <4>3, FS_Interval
      <4>5. Cardinality({g \in frames : g <= f}) = f + 1 BY <4>2, <4>4
      <4>6. f + 1 = k <=> f = k - 1 BY <3>1
      <4>. QED BY <4>5, <4>6
    <3>3. CASE f = n
      <4>1. \A g : g \in frames /\ g <= f <=> g \in 0..n
        <5>1. n \in frames BY <3>3
        <5>2. \A g \in 0..n : g <= n /\ (g = n \/ g \in 0..n - 1) OBVIOUS
        <5>. QED BY <1>2, <3>3, <5>1, <5>2
      <4>2. {g \in frames : g <= f} = 0..n BY <4>1
      <4>3. Cardinality(0..n) = n + 1 BY FS_Interval
      <4>4. Cardinality({g \in frames : g <= f}) = n + 1 BY <4>2, <4>3
      <4>5. n + 1 # k /\ n # k - 1 OBVIOUS
      <4>. QED BY <3>3, <4>4, <4>5
    <3>. QED BY <3>1, <3>2, <3>3
  <2>2. k - 1 \in frames BY <1>2
  <2>. HIDE DEF Nth
  <2>. QED BY <2>1, <2>2
<1>. HIDE DEF nth
<1>6. \A k \in 1..m : IsSequence(bucket(k).inputs) BY BucketType
<1>7. \A k \in 1..n : bucket(k) = Bucket(ls, k - 1) BY <1>5
<1>. HIDE DEF bucket
<1>8. bs \in [1..m -> all] /\ \A k \in 1..m : bs[k] = bucket(k) OBVIOUS
<1>. HIDE DEF bs, all
<1>9. bs \in Seq(all) /\ Len(bs) = m BY <1>4, <1>8, IsASeq, LenProperties
<1>10. IsSequence(bs) BY <1>9, SequenceIs
<1>. QED BY <1>3, <1>4, <1>6, <1>7, <1>8, <1>9, <1>10

-----------------------------------------------------------------------------
(* The replay.  What it shows is what the run saw, so each of them is told from the lines. *)

FrameFields == {"inputs", "events", "latest", "drained", "music", "cursor", "listed", "settled"}
CoachFields ==
    {"music", "latest", "hops", "events", "announcing", "running", "produced", "changes"}
Buffering == InFrame \cup {"first"}

ReadsAre(frame) ==
    frame.events \in Seq(Events) /\ frame.latest \in Nat /\ frame.drained \in Seq(Nat)

CoachShape ==
    /\ DOMAIN coach = CoachFields
    /\ coach.events \in Seq(Events) /\ coach.announcing \in Seq(Events)
    /\ coach.hops \in Seq(Nat) /\ coach.latest \in Nat /\ coach.produced \in Nat
FrameShape ==
    /\ DOMAIN frame_read = FrameFields
    /\ trace_step \in Buffering => ReadsAre(frame_read)
    /\ trace_step \in InFrame => frame_read.inputs \in InputBatches
SawShape == \A k \in 1..Len(saw) : ReadsAre(saw[k]) /\ saw[k].inputs \in InputBatches
ReplayShape ==
    /\ DOMAIN driver = {"cursor", "serving", "replay_cursor", "hold"}
    /\ DOMAIN replay_reads = {"events", "latest", "drained", "music"}

\* The shapes of what the run and the replay keep.
ShapeInv == CoachShape /\ FrameShape /\ SawShape /\ ReplayShape


\* What a step leaves for the head to be told.
Told(events, announcing, music) ==
    coach'.events = events /\ coach'.announcing = announcing /\ coach'.music = music

LEMMA CoachAnnounces ==
  ASSUME CoachShape, NEW e \in Events, NEW c, DOMAIN c = CoachFields,
         c.events = coach.events, c.hops = coach.hops, c.latest \in Nat,
         c.produced = coach.produced, Change(e, c)
  PROVE  CoachShape' /\ coach.announcing = <<>> /\ Told(coach.events, <<e>>, c.music)
<1>1. /\ coach' = [c EXCEPT !.changes = @ + 1, !.announcing = <<e>>]
      /\ coach.announcing = <<>>
  BY DEF Change
<1>2. <<e>> \in Seq(Events) OBVIOUS
<1>3. /\ DOMAIN coach' = CoachFields /\ coach'.music = c.music /\ coach'.announcing = <<e>>
      /\ coach'.events = c.events /\ coach'.hops = c.hops /\ coach'.latest = c.latest
      /\ coach'.produced = c.produced
  BY <1>1 DEF CoachFields
<1>. QED BY <1>1, <1>2, <1>3 DEF CoachShape, Told

LEMMA PublishIs ==
  ASSUME CoachShape, NEW scale \in Scales, PublishMusic(scale)
  PROVE  CoachShape' /\ coach.announcing = <<>>
         /\ Told(coach.events, <<Configured(scale)>>, scale)
<1>. DEFINE c == [coach EXCEPT !.music = scale]
<1>1. Change(Configured(scale), c) BY DEF PublishMusic
<1>2. Configured(scale) \in Events BY DEF Events, ConfiguredEvents
<1>3. /\ DOMAIN c = CoachFields /\ c.music = scale /\ c.events = coach.events
      /\ c.hops = coach.hops /\ c.latest \in Nat /\ c.produced = coach.produced
  BY DEF CoachShape, CoachFields
<1>. HIDE DEF c
<1>4. CoachShape' /\ coach.announcing = <<>> /\ Told(coach.events, <<Configured(scale)>>, c.music)
  BY <1>1, <1>2, <1>3, CoachAnnounces
<1>. QED BY <1>3, <1>4

LEMMA SessionIs ==
  ASSUME CoachShape, StartSession \/ StopSession
  PROVE  CoachShape' /\ coach.announcing = <<>>
         /\ Told(coach.events, <<StateChanged>>, coach.music)
<1>1. StateChanged \in Events BY DEF Events
<1>2. CASE StartSession
  <2>. DEFINE c == [coach EXCEPT !.running = TRUE]
  <2>1. Change(StateChanged, c) BY <1>2 DEF StartSession
  <2>2. /\ DOMAIN c = CoachFields /\ c.music = coach.music /\ c.events = coach.events
        /\ c.hops = coach.hops /\ c.latest \in Nat /\ c.produced = coach.produced
    BY DEF CoachShape, CoachFields
  <2>. HIDE DEF c
  <2>3. CoachShape' /\ coach.announcing = <<>> /\ Told(coach.events, <<StateChanged>>, c.music)
    BY <1>1, <2>1, <2>2, CoachAnnounces
  <2>. QED BY <2>2, <2>3
<1>3. CASE StopSession
  <2>. DEFINE c == [coach EXCEPT !.running = FALSE, !.latest = NoSnapshot]
  <2>1. Change(StateChanged, c) BY <1>3 DEF StopSession
  <2>2. /\ DOMAIN c = CoachFields /\ c.music = coach.music /\ c.events = coach.events
        /\ c.hops = coach.hops /\ c.latest \in Nat /\ c.produced = coach.produced
    BY DEF CoachShape, CoachFields, NoSnapshot
  <2>. HIDE DEF c
  <2>3. CoachShape' /\ coach.announcing = <<>> /\ Told(coach.events, <<StateChanged>>, c.music)
    BY <1>1, <2>1, <2>2, CoachAnnounces
  <2>. QED BY <2>2, <2>3
<1>. QED BY <1>2, <1>3

LEMMA AnnounceIs ==
  ASSUME CoachShape, Announce
  PROVE  CoachShape' /\ Told(coach.events \o coach.announcing, <<>>, coach.music)
<1>. DEFINE es == coach.events \o coach.announcing
<1>1. coach' = [coach EXCEPT !.events = es, !.announcing = <<>>] BY DEF Announce
<1>2. es \in Seq(Events) /\ <<>> \in Seq(Events) BY ConcatProperties DEF CoachShape
<1>. HIDE DEF es
<1>3. /\ DOMAIN coach' = CoachFields /\ coach'.events = es /\ coach'.announcing = <<>>
      /\ coach'.music = coach.music /\ coach'.hops = coach.hops /\ coach'.latest = coach.latest
      /\ coach'.produced = coach.produced
  BY <1>1 DEF CoachShape, CoachFields
<1>. QED BY <1>2, <1>3 DEF CoachShape, Told, es

LEMMA ProduceIs ==
  ASSUME CoachShape, ProduceHop
  PROVE  CoachShape' /\ Told(coach.events, coach.announcing, coach.music)
<1>. DEFINE p == coach.produced + 1
            hs == Append(coach.hops, p)
<1>1. coach' = [coach EXCEPT !.produced = p, !.latest = p, !.hops = hs] BY DEF ProduceHop
<1>2. hs \in Seq(Nat) /\ p \in Nat BY DEF CoachShape
<1>. HIDE DEF hs, p
<1>3. /\ DOMAIN coach' = CoachFields /\ coach'.events = coach.events
      /\ coach'.announcing = coach.announcing
      /\ coach'.music = coach.music /\ coach'.hops = hs /\ coach'.latest = p
      /\ coach'.produced = p
  BY <1>1 DEF CoachShape, CoachFields
<1>. QED BY <1>2, <1>3 DEF CoachShape, Told

LEMMA ListedIs ==
  ASSUME CoachShape, DOMAIN frame_read = FrameFields, SendListDevices
  PROVE  /\ CoachShape'
         /\ Told(coach.events \o <<DevicesListed>>, coach.announcing, coach.music)
         /\ DOMAIN frame_read' = FrameFields
         /\ frame_read'.inputs = frame_read.inputs /\ frame_read'.events = frame_read.events
         /\ frame_read'.latest = frame_read.latest /\ frame_read'.drained = frame_read.drained
         /\ frame_read'.music = frame_read.music /\ frame_read'.cursor = frame_read.cursor
         /\ frame_read'.settled = frame_read.settled
<1>. DEFINE es == coach.events \o <<DevicesListed>>
            when == IF trace_step = "poll" THEN "before" ELSE "after"
<1>1. DevicesListed \in Events BY DEF Events
<1>2. es \in Seq(Events) /\ Append(coach.events, DevicesListed) = es
  <2>1. <<DevicesListed>> \in Seq(Events) BY <1>1
  <2>. QED BY <1>1, <2>1, ConcatProperties, AppendIsConcat DEF CoachShape
<1>3. coach' = [coach EXCEPT !.events = es] /\ frame_read' = [frame_read EXCEPT !.listed = when]
  BY <1>2 DEF SendListDevices
<1>. HIDE DEF es, when
<1>4. /\ DOMAIN coach' = CoachFields /\ coach'.events = es
      /\ coach'.announcing = coach.announcing
      /\ coach'.music = coach.music /\ coach'.hops = coach.hops /\ coach'.latest = coach.latest
      /\ coach'.produced = coach.produced
  BY <1>3 DEF CoachShape, CoachFields
<1>5. /\ DOMAIN frame_read' = FrameFields
      /\ frame_read'.inputs = frame_read.inputs /\ frame_read'.events = frame_read.events
      /\ frame_read'.latest = frame_read.latest /\ frame_read'.drained = frame_read.drained
      /\ frame_read'.music = frame_read.music /\ frame_read'.cursor = frame_read.cursor
      /\ frame_read'.settled = frame_read.settled
  BY <1>3 DEF FrameFields
<1>6. CoachShape' /\ Told(es, coach.announcing, coach.music)
  BY <1>2, <1>4 DEF CoachShape, Told
<1>. QED BY <1>5, <1>6 DEF es

LEMMA BeginIs ==
  ASSUME DOMAIN frame_read = FrameFields, NEW inputs, BeginFrame(inputs)
  PROVE  /\ DOMAIN frame_read' = FrameFields /\ frame_read'.inputs = inputs
         /\ frame_read'.cursor = CursorAfter(frame_read.cursor, inputs)
         /\ frame_read'.events = frame_read.events
         /\ frame_read'.latest = frame_read.latest /\ frame_read'.drained = frame_read.drained
         /\ frame_read'.music = frame_read.music /\ frame_read'.settled = frame_read.settled
<1>. DEFINE after == CursorAfter(frame_read.cursor, inputs)
<1>1. frame_read' = [frame_read EXCEPT !.inputs = inputs, !.cursor = after, !.listed = "no"]
  BY DEF BeginFrame
<1>. HIDE DEF after
<1>2. /\ DOMAIN frame_read' = FrameFields /\ frame_read'.inputs = inputs
      /\ frame_read'.cursor = after
      /\ frame_read'.events = frame_read.events
      /\ frame_read'.latest = frame_read.latest /\ frame_read'.drained = frame_read.drained
      /\ frame_read'.music = frame_read.music /\ frame_read'.settled = frame_read.settled
  BY <1>1 DEF FrameFields
<1>. QED BY <1>2 DEF after

LEMMA PollIs ==
  ASSUME CoachShape, DOMAIN frame_read = FrameFields, PollCoachEvents
  PROVE  /\ CoachShape' /\ Told(<<>>, coach.announcing, coach.music)
         /\ DOMAIN frame_read' = FrameFields /\ frame_read'.events = coach.events
         /\ frame_read'.inputs = frame_read.inputs
         /\ frame_read'.latest = frame_read.latest /\ frame_read'.drained = frame_read.drained
         /\ frame_read'.music = frame_read.music /\ frame_read'.cursor = frame_read.cursor
         /\ frame_read'.settled = frame_read.settled
<1>1. /\ frame_read' = [frame_read EXCEPT !.events = coach.events]
      /\ coach' = [coach EXCEPT !.events = <<>>]
  BY DEF PollCoachEvents
<1>2. <<>> \in Seq(Events) OBVIOUS
<1>3. /\ DOMAIN coach' = CoachFields /\ coach'.events = <<>>
      /\ coach'.announcing = coach.announcing
      /\ coach'.music = coach.music /\ coach'.hops = coach.hops /\ coach'.latest = coach.latest
      /\ coach'.produced = coach.produced
  BY <1>1 DEF CoachShape, CoachFields
<1>4. /\ DOMAIN frame_read' = FrameFields /\ frame_read'.events = coach.events
      /\ frame_read'.inputs = frame_read.inputs
      /\ frame_read'.latest = frame_read.latest /\ frame_read'.drained = frame_read.drained
      /\ frame_read'.music = frame_read.music /\ frame_read'.cursor = frame_read.cursor
      /\ frame_read'.settled = frame_read.settled
  BY <1>1 DEF FrameFields
<1>. QED BY <1>2, <1>3, <1>4 DEF CoachShape, Told

LEMMA ApplyIs ==
  ASSUME DOMAIN frame_read = FrameFields, ApplyEvents
  PROVE  /\ DOMAIN frame_read' = FrameFields
         /\ frame_read'.music = (IF Configures(frame_read.events) = <<>> THEN frame_read.music
                                 ELSE coach.music)
         /\ frame_read'.settled <=> Configures(coach.announcing \o coach.events) = <<>>
         /\ frame_read'.inputs = frame_read.inputs /\ frame_read'.events = frame_read.events
         /\ frame_read'.latest = frame_read.latest /\ frame_read'.drained = frame_read.drained
         /\ frame_read'.cursor = frame_read.cursor
<1>. DEFINE m == IF Configures(frame_read.events) = <<>> THEN frame_read.music ELSE coach.music
            q == Configures(coach.announcing \o coach.events) = <<>>
<1>1. frame_read' = [frame_read EXCEPT !.music = m, !.settled = q] BY DEF ApplyEvents
<1>. HIDE DEF m, q
<1>2. /\ DOMAIN frame_read' = FrameFields /\ frame_read'.music = m /\ frame_read'.settled = q
      /\ frame_read'.inputs = frame_read.inputs /\ frame_read'.events = frame_read.events
      /\ frame_read'.latest = frame_read.latest /\ frame_read'.drained = frame_read.drained
      /\ frame_read'.cursor = frame_read.cursor
  BY <1>1 DEF FrameFields
<1>. QED BY <1>2 DEF m, q

LEMMA LatestIs ==
  ASSUME DOMAIN frame_read = FrameFields, PollLatest
  PROVE  /\ DOMAIN frame_read' = FrameFields /\ frame_read'.latest = coach.latest
         /\ frame_read'.inputs = frame_read.inputs /\ frame_read'.events = frame_read.events
         /\ frame_read'.drained = frame_read.drained
         /\ frame_read'.music = frame_read.music /\ frame_read'.cursor = frame_read.cursor
         /\ frame_read'.settled = frame_read.settled
<1>1. frame_read' = [frame_read EXCEPT !.latest = coach.latest] BY DEF PollLatest
<1>. QED BY <1>1 DEF FrameFields

LEMMA DrainIs ==
  ASSUME CoachShape, DOMAIN frame_read = FrameFields, DrainFeatures
  PROVE  /\ CoachShape' /\ Told(coach.events, coach.announcing, coach.music)
         /\ DOMAIN frame_read' = FrameFields /\ frame_read'.drained = coach.hops
         /\ frame_read'.inputs = frame_read.inputs /\ frame_read'.events = frame_read.events
         /\ frame_read'.latest = frame_read.latest
         /\ frame_read'.music = frame_read.music /\ frame_read'.cursor = frame_read.cursor
         /\ frame_read'.settled = frame_read.settled
<1>1. /\ frame_read' = [frame_read EXCEPT !.drained = coach.hops]
      /\ coach' = [coach EXCEPT !.hops = <<>>]
  BY DEF DrainFeatures
<1>2. <<>> \in Seq(Nat) OBVIOUS
<1>3. /\ DOMAIN coach' = CoachFields /\ coach'.events = coach.events
      /\ coach'.announcing = coach.announcing
      /\ coach'.music = coach.music /\ coach'.hops = <<>> /\ coach'.latest = coach.latest
      /\ coach'.produced = coach.produced
  BY <1>1 DEF CoachShape, CoachFields
<1>4. /\ DOMAIN frame_read' = FrameFields /\ frame_read'.drained = coach.hops
      /\ frame_read'.inputs = frame_read.inputs /\ frame_read'.events = frame_read.events
      /\ frame_read'.latest = frame_read.latest
      /\ frame_read'.music = frame_read.music /\ frame_read'.cursor = frame_read.cursor
      /\ frame_read'.settled = frame_read.settled
  BY <1>1 DEF FrameFields
<1>. QED BY <1>2, <1>3, <1>4 DEF CoachShape, Told

\* The decorator's buffer has what the frame has read, until it is recorded.
CopyInv ==
    /\ trace_buffer.events = IF trace_step \in {"apply", "latest", "drain", "record"}
                             THEN frame_read.events ELSE <<>>
    /\ trace_buffer.latest = IF trace_step \in {"drain", "record"}
                             THEN frame_read.latest ELSE NoSnapshot
    /\ trace_buffer.drained = IF trace_step = "record" THEN frame_read.drained ELSE <<>>

LEMMA FlushIs ==
  ASSUME IsSequence(saw), FlushWriter
  PROVE  /\ IsSequence(saw') /\ Len(saw') = Len(saw) + 1 /\ Len(saw) \in Nat
         /\ \A k \in 1..Len(saw) : saw'[k] = saw[k]
         /\ saw'[Len(saw) + 1] = frame_read
<1>. DEFINE S == {saw[i] : i \in DOMAIN saw} \cup {frame_read}
<1>1. saw \in Seq({saw[i] : i \in DOMAIN saw}) BY DEF IsSequence
<1>2. saw \in Seq(S) BY <1>1, SeqMonotonic
<1>. HIDE DEF S
<1>3. frame_read \in S BY DEF S
<1>4. saw' = Append(saw, frame_read) BY DEF FlushWriter
<1>5. Append(saw, frame_read) \in Seq(S) /\ Len(Append(saw, frame_read)) = Len(saw) + 1
      /\ Len(saw) \in Nat
      /\ \A k \in 1..Len(saw) : Append(saw, frame_read)[k] = saw[k]
      /\ Append(saw, frame_read)[Len(saw) + 1] = frame_read
  BY <1>2, <1>3, AppendProperties, LenProperties
<1>6. IsSequence(Append(saw, frame_read)) BY <1>5, SequenceIs
<1>. QED BY <1>4, <1>5, <1>6

\* A step of the coach alone.
LEMMA CoachStepKeeps ==
  ASSUME ShapeInv, CopyInv, CoachShape',
         UNCHANGED <<frame_read, trace_step, trace_buffer, saw, driver, replay_reads>>
  PROVE  ShapeInv' /\ CopyInv'
BY DEF ShapeInv, CopyInv, FrameShape, SawShape, ReplayShape, ReadsAre

LEMMA LiveShape ==
  ASSUME ShapeInv, CopyInv, BufferInv, IsSequence(saw), LiveStep
  PROVE  ShapeInv' /\ CopyInv'
<1>0. /\ CoachShape /\ FrameShape /\ SawShape /\ ReplayShape /\ DOMAIN frame_read = FrameFields
      /\ DOMAIN trace_buffer = {"events", "latest", "drained", "commands"}
  BY DEF ShapeInv, FrameShape, BufferInv
<1>1. CASE \E scale \in Scales : PublishMusic(scale)
  <2>1. CoachShape' BY <1>0, <1>1, PublishIs
  <2>2. UNCHANGED <<frame_read, trace_step, trace_buffer, saw, driver, replay_reads>>
    BY <1>1 DEF PublishMusic, Change, replaying
  <2>. QED BY <2>1, <2>2, CoachStepKeeps
<1>2. CASE StartSession \/ StopSession \/ Announce \/ ProduceHop
  <2>1. CoachShape' BY <1>0, <1>2, SessionIs, AnnounceIs, ProduceIs
  <2>2. UNCHANGED <<frame_read, trace_step, trace_buffer, saw, driver, replay_reads>>
    BY <1>2 DEF StartSession, StopSession, Announce, ProduceHop, Change, replaying
  <2>. QED BY <2>1, <2>2, CoachStepKeeps
<1>3. ASSUME NEW inputs \in InputBatches, BeginFrame(inputs) PROVE ShapeInv' /\ CopyInv'
  <2>1. /\ DOMAIN frame_read' = FrameFields /\ frame_read'.inputs = inputs
        /\ frame_read'.events = frame_read.events
        /\ frame_read'.latest = frame_read.latest /\ frame_read'.drained = frame_read.drained
    BY <1>0, <1>3, BeginIs
  <2>2. /\ trace_step = "first" /\ trace_step' = "poll"
        /\ UNCHANGED <<coach, saw, trace_buffer, driver, replay_reads>>
    BY <1>3 DEF BeginFrame, replaying
  <2>3. FrameShape' BY <1>0, <2>1, <2>2 DEF FrameShape, ReadsAre, Buffering, InFrame
  <2>4. CoachShape' /\ SawShape' /\ ReplayShape'
    BY <1>0, <2>2 DEF CoachShape, SawShape, ReplayShape, ReadsAre
  <2>5. CopyInv' BY <2>2 DEF CopyInv
  <2>. QED BY <2>3, <2>4, <2>5 DEF ShapeInv
<1>4. CASE SendListDevices
  <2>1. /\ CoachShape' /\ DOMAIN frame_read' = FrameFields
        /\ frame_read'.inputs = frame_read.inputs /\ frame_read'.events = frame_read.events
        /\ frame_read'.latest = frame_read.latest /\ frame_read'.drained = frame_read.drained
    BY <1>0, <1>4, ListedIs
  <2>2. /\ UNCHANGED <<saw, trace_step, driver, replay_reads>>
        /\ trace_buffer' = [trace_buffer EXCEPT
              !.commands = Append(trace_buffer.commands, "AudioListDevices")]
    BY <1>4 DEF SendListDevices, replaying
  <2>3. /\ trace_buffer'.events = trace_buffer.events /\ trace_buffer'.latest = trace_buffer.latest
        /\ trace_buffer'.drained = trace_buffer.drained
    BY <1>0, <2>2
  <2>4. FrameShape' BY <1>0, <2>1, <2>2 DEF FrameShape, ReadsAre
  <2>5. SawShape' /\ ReplayShape' BY <1>0, <2>2 DEF SawShape, ReplayShape, ReadsAre
  <2>6. CopyInv' BY <2>1, <2>2, <2>3 DEF CopyInv
  <2>. QED BY <2>1, <2>4, <2>5, <2>6 DEF ShapeInv
<1>5. CASE PollCoachEvents
  <2>1. /\ CoachShape' /\ DOMAIN frame_read' = FrameFields /\ frame_read'.events = coach.events
        /\ frame_read'.inputs = frame_read.inputs
        /\ frame_read'.latest = frame_read.latest /\ frame_read'.drained = frame_read.drained
    BY <1>0, <1>5, PollIs
  <2>2. /\ UNCHANGED <<saw, driver, replay_reads>>
        /\ trace_step = "poll" /\ trace_step' = "apply"
        /\ trace_buffer' = [trace_buffer EXCEPT !.events = trace_buffer.events \o coach.events]
    BY <1>5 DEF PollCoachEvents, replaying
  <2>3. trace_buffer.events \o coach.events = coach.events
    <3>1. trace_buffer.events = <<>> BY <2>2 DEF CopyInv
    <3>2. <<>> \o coach.events = coach.events BY <1>0, ConcatEmptySeq DEF CoachShape
    <3>. QED BY <3>1, <3>2
  <2>4. /\ trace_buffer'.events = coach.events /\ trace_buffer'.latest = trace_buffer.latest
        /\ trace_buffer'.drained = trace_buffer.drained
    BY <1>0, <2>2, <2>3
  <2>5. coach.events \in Seq(Events) BY <1>0 DEF CoachShape
  <2>6. FrameShape' BY <1>0, <2>1, <2>2, <2>5 DEF FrameShape, ReadsAre, Buffering, InFrame
  <2>7. SawShape' /\ ReplayShape' BY <1>0, <2>2 DEF SawShape, ReplayShape, ReadsAre
  <2>8. CopyInv' BY <2>1, <2>2, <2>4 DEF CopyInv
  <2>. QED BY <2>1, <2>6, <2>7, <2>8 DEF ShapeInv
<1>6. CASE ApplyEvents
  <2>1. /\ DOMAIN frame_read' = FrameFields
        /\ frame_read'.inputs = frame_read.inputs /\ frame_read'.events = frame_read.events
        /\ frame_read'.latest = frame_read.latest /\ frame_read'.drained = frame_read.drained
    BY <1>0, <1>6, ApplyIs
  <2>2. /\ UNCHANGED <<coach, saw, driver, replay_reads, trace_buffer>>
        /\ trace_step = "apply" /\ trace_step' = "latest"
    BY <1>6 DEF ApplyEvents, replaying, live_run
  <2>3. FrameShape' BY <1>0, <2>1, <2>2 DEF FrameShape, ReadsAre, Buffering, InFrame
  <2>4. CoachShape' /\ SawShape' /\ ReplayShape'
    BY <1>0, <2>2 DEF CoachShape, SawShape, ReplayShape, ReadsAre
  <2>5. CopyInv' BY <2>1, <2>2 DEF CopyInv
  <2>. QED BY <2>3, <2>4, <2>5 DEF ShapeInv
<1>7. CASE PollLatest
  <2>1. /\ DOMAIN frame_read' = FrameFields /\ frame_read'.latest = coach.latest
        /\ frame_read'.inputs = frame_read.inputs /\ frame_read'.events = frame_read.events
        /\ frame_read'.drained = frame_read.drained
    BY <1>0, <1>7, LatestIs
  <2>2. /\ UNCHANGED <<coach, saw, driver, replay_reads>>
        /\ trace_step = "latest" /\ trace_step' = "drain"
        /\ trace_buffer' = [trace_buffer EXCEPT !.latest = coach.latest]
    BY <1>7 DEF PollLatest, replaying
  <2>3. /\ trace_buffer'.events = trace_buffer.events /\ trace_buffer'.latest = coach.latest
        /\ trace_buffer'.drained = trace_buffer.drained
    BY <1>0, <2>2
  <2>4. coach.latest \in Nat BY <1>0 DEF CoachShape
  <2>5. FrameShape' BY <1>0, <2>1, <2>2, <2>4 DEF FrameShape, ReadsAre, Buffering, InFrame
  <2>6. CoachShape' /\ SawShape' /\ ReplayShape'
    BY <1>0, <2>2 DEF CoachShape, SawShape, ReplayShape, ReadsAre
  <2>7. CopyInv' BY <2>1, <2>2, <2>3 DEF CopyInv
  <2>. QED BY <2>5, <2>6, <2>7 DEF ShapeInv
<1>8. CASE DrainFeatures
  <2>1. /\ CoachShape' /\ DOMAIN frame_read' = FrameFields /\ frame_read'.drained = coach.hops
        /\ frame_read'.inputs = frame_read.inputs /\ frame_read'.events = frame_read.events
        /\ frame_read'.latest = frame_read.latest
    BY <1>0, <1>8, DrainIs
  <2>2. /\ UNCHANGED <<saw, driver, replay_reads>>
        /\ trace_step = "drain" /\ trace_step' = "record"
        /\ trace_buffer' = [trace_buffer EXCEPT !.drained = trace_buffer.drained \o coach.hops]
    BY <1>8 DEF DrainFeatures, replaying
  <2>3. trace_buffer.drained \o coach.hops = coach.hops
    <3>1. trace_buffer.drained = <<>> BY <2>2 DEF CopyInv
    <3>2. <<>> \o coach.hops = coach.hops BY <1>0, ConcatEmptySeq DEF CoachShape
    <3>. QED BY <3>1, <3>2
  <2>4. /\ trace_buffer'.drained = coach.hops /\ trace_buffer'.latest = trace_buffer.latest
        /\ trace_buffer'.events = trace_buffer.events
    BY <1>0, <2>2, <2>3
  <2>5. coach.hops \in Seq(Nat) BY <1>0 DEF CoachShape
  <2>6. FrameShape' BY <1>0, <2>1, <2>2, <2>5 DEF FrameShape, ReadsAre, Buffering, InFrame
  <2>7. SawShape' /\ ReplayShape' BY <1>0, <2>2 DEF SawShape, ReplayShape, ReadsAre
  <2>8. CopyInv' BY <2>1, <2>2, <2>4 DEF CopyInv
  <2>. QED BY <2>1, <2>6, <2>7, <2>8 DEF ShapeInv
<1>9. CASE RecordCoach
  <2>1. /\ UNCHANGED <<coach, frame_read, saw, driver, replay_reads>>
        /\ trace_step = "record" /\ trace_step' = "last" /\ trace_buffer' = EmptyBuffer
    BY <1>9 DEF RecordCoach, replaying
  <2>2. FrameShape' BY <1>0, <2>1 DEF FrameShape, ReadsAre, Buffering, InFrame
  <2>3. CoachShape' /\ SawShape' /\ ReplayShape'
    BY <1>0, <2>1 DEF CoachShape, SawShape, ReplayShape, ReadsAre
  <2>4. CopyInv' BY <2>1 DEF CopyInv, EmptyBuffer
  <2>. QED BY <2>2, <2>3, <2>4 DEF ShapeInv
<1>10. CASE FlushWriter
  <2>1. /\ UNCHANGED <<coach, frame_read, trace_buffer, driver, replay_reads>>
        /\ trace_step = "last" /\ trace_step' = "first"
    BY <1>10 DEF FlushWriter, replaying
  <2>2. /\ Len(saw') = Len(saw) + 1 /\ Len(saw) \in Nat
        /\ \A k \in 1..Len(saw) : saw'[k] = saw[k]
        /\ saw'[Len(saw) + 1] = frame_read
    BY <1>10, FlushIs
  <2>3. FrameShape' BY <1>0, <2>1 DEF FrameShape, ReadsAre, Buffering, InFrame
  <2>4. CoachShape' /\ ReplayShape' BY <1>0, <2>1 DEF CoachShape, ReplayShape
  <2>5. SawShape'
    <3>. SUFFICES ASSUME NEW k \in 1..Len(saw')
                  PROVE  ReadsAre(saw'[k]) /\ saw'[k].inputs \in InputBatches
      BY DEF SawShape, ReadsAre
    <3>1. k \in 1..Len(saw) \/ k = Len(saw) + 1 BY <2>2
    <3>2. ReadsAre(frame_read) /\ frame_read.inputs \in InputBatches
      BY <1>0, <2>1 DEF FrameShape, Buffering, InFrame
    <3>. QED BY <1>0, <2>2, <3>1, <3>2 DEF SawShape
  <2>6. CopyInv' BY <2>1 DEF CopyInv
  <2>. QED BY <2>3, <2>4, <2>5, <2>6 DEF ShapeInv
<1>. QED BY <1>1, <1>2, <1>3, <1>4, <1>5, <1>6, <1>7, <1>8, <1>9, <1>10 DEF LiveStep

-----------------------------------------------------------------------------
(* The lines of each frame. *)

Reported(step) == IF step = "last" THEN CoachReads(frame_read) ELSE <<>>

WrittenInv ==
    /\ trace_lines[1] = RunLine
    /\ \A i \in 1..Len(trace_lines) : trace_lines[i].f \in 0..Len(saw)
    /\ \A i \in flushed + 1..Len(trace_lines) : trace_lines[i].f = Len(saw)
    /\ \A k \in 1..Len(saw) :
         Written(trace_lines, k - 1, saw[k].inputs, CoachReads(saw[k]))
    /\ trace_step = "first" => Written(trace_lines, Len(saw), <<>>, <<>>)
    /\ trace_step \in InFrame =>
         Written(trace_lines, Len(saw), frame_read.inputs, Reported(trace_step))

\* More lines of the frame in progress.
LEMMA MoreLines ==
  ASSUME NEW new, IsSequence(new), \A i \in 1..Len(new) : new[i].f = Len(saw),
         LinesInv, WrittenInv,
         UNCHANGED <<saw, flushed>>, trace_lines' = trace_lines \o new
  PROVE  /\ IsSequence(trace_lines')
         /\ trace_lines'[1] = RunLine
         /\ \A i \in 1..Len(trace_lines') : trace_lines'[i].f \in 0..Len(saw')
         /\ \A i \in flushed' + 1..Len(trace_lines') : trace_lines'[i].f = Len(saw')
         /\ \A k \in 1..Len(saw') :
              Written(trace_lines', k - 1, saw'[k].inputs, CoachReads(saw'[k]))
         /\ \A kind : OfFrame(trace_lines', Len(saw), kind)
                        = OfFrame(trace_lines, Len(saw), kind) \o OfFrame(new, Len(saw), kind)
<1>. DEFINE n == Len(saw)
            a == Len(trace_lines)
            b == Len(new)
<1>1. /\ IsSequence(trace_lines) /\ IsSequence(saw) /\ n \in Nat /\ a \in Nat /\ a >= 1
      /\ flushed \in 0..a
  BY SequenceIs DEF LinesInv, IsSequence
<1>2. /\ IsSequence(trace_lines') /\ Len(trace_lines') = a + b /\ b \in Nat
      /\ \A i \in 1..a : trace_lines'[i] = trace_lines[i]
      /\ \A i \in 1..b : trace_lines'[i + a] = new[i]
  BY <1>1, JoinedIs
<1>. HIDE DEF a, b, n
<1>3. \A i \in 1..a + b : i \in 1..a \/ (i - a \in 1..b /\ (i - a) + a = i) BY <1>1, <1>2
<1>4. \A i \in 1..a + b : trace_lines'[i] = IF i \in 1..a THEN trace_lines[i] ELSE new[i - a]
  BY <1>1, <1>2, <1>3
<1>5. /\ \A i \in 1..a : trace_lines[i].f \in 0..n
      /\ \A i \in flushed + 1..a : trace_lines[i].f = n
      /\ \A i \in 1..b : new[i].f = n
  BY DEF WrittenInv, a, b, n
<1>6. \A i \in 1..Len(trace_lines') : trace_lines'[i].f \in 0..Len(saw')
  <2>1. n \in 0..n BY <1>1
  <2>. QED BY <1>2, <1>3, <1>4, <1>5, <2>1 DEF n
<1>7. \A i \in flushed' + 1..Len(trace_lines') : trace_lines'[i].f = Len(saw')
  <2>1. \A i \in flushed + 1..a + b : i \in 1..a + b /\ (i \in 1..a => i \in flushed + 1..a)
    BY <1>1, <1>2
  <2>. QED BY <1>2, <1>3, <1>4, <1>5, <2>1 DEF n
<1>8. trace_lines'[1] = RunLine
  <2>1. 1 \in 1..a BY <1>1
  <2>. QED BY <1>2, <2>1 DEF WrittenInv
<1>9. ASSUME NEW k \in 1..Len(saw')
      PROVE  Written(trace_lines', k - 1, saw'[k].inputs, CoachReads(saw'[k]))
  <2>1. k \in 1..n /\ k - 1 # n BY <1>1, <1>9 DEF n
  <2>2. \A kind : \A i \in 1..Len(new) : ~ (new[i].f = k - 1 /\ new[i].k = kind)
    BY <1>5, <2>1 DEF b
  <2>3. \A kind : OfFrame(trace_lines \o new, k - 1, kind) = OfFrame(trace_lines, k - 1, kind)
    BY <1>1, <2>2, OthersPass
  <2>4. Written(trace_lines, k - 1, saw[k].inputs, CoachReads(saw[k]))
    BY <2>1 DEF WrittenInv, n
  <2>. QED BY <2>3, <2>4 DEF Written
<1>10. \A kind : OfFrame(trace_lines', n, kind)
                   = OfFrame(trace_lines, n, kind) \o OfFrame(new, n, kind)
  BY <1>1, OfFrameJoined
<1>. QED BY <1>2, <1>6, <1>7, <1>8, <1>9, <1>10 DEF n

LEMMA FrameLines ==
  ASSUME NEW f, NEW inputs, IsSequence(inputs)
  PROVE  /\ IsSequence(<<FrameLine(f)>> \o InputLines(f, inputs))
         /\ \A i \in 1..Len(<<FrameLine(f)>> \o InputLines(f, inputs)) :
              (<<FrameLine(f)>> \o InputLines(f, inputs))[i].f = f
         /\ OfFrame(<<FrameLine(f)>> \o InputLines(f, inputs), f, "input") = InputLines(f, inputs)
         /\ OfFrame(<<FrameLine(f)>> \o InputLines(f, inputs), f, "coach") = <<>>
<1>. DEFINE first == <<FrameLine(f)>>
            rest == InputLines(f, inputs)
<1>1. IsSequence(first) /\ Len(first) = 1 /\ first[1] = FrameLine(f) BY OneIs
<1>2. FrameLine(f).f = f /\ FrameLine(f).k = "frame" BY DEF FrameLine
<1>3. \A i \in 1..Len(first) : first[i].f = f /\ first[i].k = "frame" BY <1>1, <1>2
<1>4. \A x : InputLine(f, x).f = f /\ InputLine(f, x).k = "input" BY DEF InputLine
<1>5. IsSequence(rest) /\ \A i \in 1..Len(rest) : rest[i].f = f /\ rest[i].k = "input"
  BY <1>4, LinesAre
<1>. HIDE DEF first, rest
<1>6. /\ IsSequence(first \o rest) /\ Len(first \o rest) = Len(first) + Len(rest)
      /\ Len(first) \in Nat /\ Len(rest) \in Nat
      /\ \A i \in 1..Len(first) : (first \o rest)[i] = first[i]
      /\ \A i \in 1..Len(rest) : (first \o rest)[i + Len(first)] = rest[i]
  <2>1. IsSequence(first) /\ IsSequence(rest) BY <1>1, <1>5
  <2>. QED BY <2>1, JoinedIs
<1>7. ASSUME NEW i \in 1..Len(first \o rest) PROVE (first \o rest)[i].f = f
  <2>1. CASE i \in 1..Len(first) BY <1>3, <1>6, <2>1
  <2>2. CASE i \notin 1..Len(first)
    <3>1. i - Len(first) \in 1..Len(rest) /\ (i - Len(first)) + Len(first) = i BY <1>6, <2>2
    <3>2. (first \o rest)[(i - Len(first)) + Len(first)] = rest[i - Len(first)] BY <1>6, <3>1
    <3>. QED BY <1>5, <3>1, <3>2
  <2>. QED BY <2>1, <2>2
<1>8. /\ OfFrame(first, f, "input") = <<>> /\ OfFrame(first, f, "coach") = <<>>
      /\ OfFrame(rest, f, "input") = rest /\ OfFrame(rest, f, "coach") = <<>>
  <2>1. "frame" # "input" /\ "frame" # "coach" /\ "input" # "coach" OBVIOUS
  <2>2. /\ \A i \in 1..Len(first) : ~ (first[i].f = f /\ first[i].k = "input")
        /\ \A i \in 1..Len(first) : ~ (first[i].f = f /\ first[i].k = "coach")
        /\ \A i \in 1..Len(rest) : ~ (rest[i].f = f /\ rest[i].k = "coach")
    BY <1>3, <1>5, <2>1
  <2>. QED BY <1>1, <1>3, <1>5, <2>2, OfFrameNone, OfFrameAll
<1>9. /\ OfFrame(first \o rest, f, "input") = <<>> \o rest
      /\ OfFrame(first \o rest, f, "coach") = <<>> \o <<>>
  <2>1. IsSequence(first) /\ IsSequence(rest) BY <1>1, <1>5
  <2>2. \A k : OfFrame(first \o rest, f, k) = OfFrame(first, f, k) \o OfFrame(rest, f, k)
    BY <2>1, OfFrameJoined
  <2>. QED BY <1>8, <2>2
<1>10. <<>> \o rest = rest /\ <<>> \o <<>> = <<>> BY <1>5, EmptyIs, EmptyJoins
<1>. QED BY <1>6, <1>7, <1>9, <1>10 DEF first, rest

LEMMA ReportLines ==
  ASSUME NEW f, NEW reads, IsSequence(reads), NEW asked, IsSequence(asked),
         \A i \in 1..Len(asked) : asked[i].f = f /\ asked[i].k = "cmd"
  PROVE  /\ IsSequence(CoachLines(f, reads) \o asked)
         /\ \A i \in 1..Len(CoachLines(f, reads) \o asked) :
              (CoachLines(f, reads) \o asked)[i].f = f
         /\ OfFrame(CoachLines(f, reads) \o asked, f, "input") = <<>>
         /\ OfFrame(CoachLines(f, reads) \o asked, f, "coach") = CoachLines(f, reads)
<1>. DEFINE first == CoachLines(f, reads)
<1>1. \A x : CoachLine(f, x).f = f /\ CoachLine(f, x).k = "coach" BY DEF CoachLine
<1>2. IsSequence(first) /\ \A i \in 1..Len(first) : first[i].f = f /\ first[i].k = "coach"
  BY <1>1, LinesAre
<1>. HIDE DEF first
<1>6. /\ IsSequence(first \o asked) /\ Len(first \o asked) = Len(first) + Len(asked)
      /\ Len(first) \in Nat /\ Len(asked) \in Nat
      /\ \A i \in 1..Len(first) : (first \o asked)[i] = first[i]
      /\ \A i \in 1..Len(asked) : (first \o asked)[i + Len(first)] = asked[i]
  BY <1>2, JoinedIs
<1>7. ASSUME NEW i \in 1..Len(first \o asked) PROVE (first \o asked)[i].f = f
  <2>1. CASE i \in 1..Len(first) BY <1>2, <1>6, <2>1
  <2>2. CASE i \notin 1..Len(first)
    <3>1. i - Len(first) \in 1..Len(asked) /\ (i - Len(first)) + Len(first) = i BY <1>6, <2>2
    <3>2. (first \o asked)[(i - Len(first)) + Len(first)] = asked[i - Len(first)] BY <1>6, <3>1
    <3>. QED BY <3>1, <3>2
  <2>. QED BY <2>1, <2>2
<1>8. /\ OfFrame(first, f, "input") = <<>> /\ OfFrame(first, f, "coach") = first
      /\ OfFrame(asked, f, "input") = <<>> /\ OfFrame(asked, f, "coach") = <<>>
  <2>1. "cmd" # "input" /\ "cmd" # "coach" /\ "input" # "coach" OBVIOUS
  <2>2. /\ \A i \in 1..Len(first) : ~ (first[i].f = f /\ first[i].k = "input")
        /\ \A i \in 1..Len(asked) : ~ (asked[i].f = f /\ asked[i].k = "input")
        /\ \A i \in 1..Len(asked) : ~ (asked[i].f = f /\ asked[i].k = "coach")
    BY <1>2, <2>1
  <2>. QED BY <1>2, <2>2, OfFrameNone, OfFrameAll
<1>9. /\ OfFrame(first \o asked, f, "input") = <<>> \o <<>>
      /\ OfFrame(first \o asked, f, "coach") = first \o <<>>
  <2>1. IsSequence(first) /\ IsSequence(asked) BY <1>2
  <2>2. \A k : OfFrame(first \o asked, f, k) = OfFrame(first, f, k) \o OfFrame(asked, f, k)
    BY <2>1, OfFrameJoined
  <2>. QED BY <1>8, <2>2
<1>10. first \o <<>> = first /\ <<>> \o <<>> = <<>> BY <1>2, EmptyIs, EmptyJoins
<1>. QED BY <1>6, <1>7, <1>9, <1>10 DEF first

\* The pointer goes where the inputs of each frame take it.
CursorBefore(k) == IF k = 1 THEN NoCursor ELSE saw[k - 1].cursor
CursorInv ==
    /\ \A k \in 1..Len(saw) : saw[k].cursor = CursorAfter(CursorBefore(k), saw[k].inputs)
    /\ trace_step = "first" => frame_read.cursor = CursorBefore(Len(saw) + 1)
    /\ trace_step \in InFrame =>
         frame_read.cursor = CursorAfter(CursorBefore(Len(saw) + 1), frame_read.inputs)

LEMMA JoinsAssociate ==
  ASSUME NEW a, NEW b, NEW c, IsSequence(a), IsSequence(b), IsSequence(c)
  PROVE  (a \o b) \o c = a \o (b \o c)
<1>1. PICK U : a \in Seq(U) /\ b \in Seq(U) BY CommonType
<1>. DEFINE T == {c[i] : i \in DOMAIN c}
<1>2. c \in Seq(T) BY DEF IsSequence
<1>. HIDE DEF T
<1>3. a \in Seq(U \cup T) /\ b \in Seq(U \cup T) /\ c \in Seq(U \cup T)
  BY <1>1, <1>2, SeqMonotonic
<1>. QED BY <1>3, ConcatAssociative

\* A step that writes no line and reads no input.
LEMMA NothingAppended ==
  ASSUME WrittenInv, CursorInv, UNCHANGED <<trace_lines, flushed, saw>>,
         trace_step \in Buffering => frame_read'.inputs = frame_read.inputs,
         trace_step \in Buffering => frame_read'.cursor = frame_read.cursor,
         \/ trace_step' = trace_step
            /\ (trace_step = "last" => ReadsOf(frame_read)' = ReadsOf(frame_read))
         \/ trace_step \in InFrame \ {"last"} /\ trace_step' \in InFrame \ {"last"}
         \/ trace_step' \notin Buffering
  PROVE  WrittenInv' /\ CursorInv'
<1>1. /\ trace_step' = "first" => trace_step = "first"
      /\ trace_step' \in InFrame => trace_step \in InFrame /\ Reported(trace_step)' = Reported(trace_step)
  <2>1. CASE trace_step' = trace_step
             /\ (trace_step = "last" => ReadsOf(frame_read)' = ReadsOf(frame_read))
    <3>1. trace_step = "last" => CoachReads(frame_read)' = CoachReads(frame_read)
      BY <2>1 DEF CoachReads
    <3>. QED BY <2>1, <3>1 DEF Reported
  <2>2. CASE trace_step \in InFrame \ {"last"} /\ trace_step' \in InFrame \ {"last"}
    <3>1. Reported(trace_step) = <<>> /\ Reported(trace_step)' = <<>> BY <2>2 DEF Reported
    <3>. QED BY <2>2, <3>1 DEF InFrame
  <2>3. CASE trace_step' \notin Buffering BY <2>3 DEF Buffering
  <2>. QED BY <2>1, <2>2, <2>3
<1>2. trace_step' \in InFrame \cup {"first"} =>
        frame_read'.inputs = frame_read.inputs /\ frame_read'.cursor = frame_read.cursor
  BY <1>1 DEF Buffering
<1>3. WrittenInv'
  BY <1>1, <1>2 DEF WrittenInv, Written, CoachReads, ReadsOf
<1>4. CursorInv'
  BY <1>1, <1>2 DEF CursorInv, CursorBefore
<1>. QED BY <1>3, <1>4

LEMMA LiveLines ==
  ASSUME ShapeInv, CopyInv, BufferInv, LinesInv, WrittenInv, CursorInv, LiveStep
  PROVE  WrittenInv' /\ CursorInv'
<1>0. /\ CoachShape /\ FrameShape /\ SawShape /\ DOMAIN frame_read = FrameFields
      /\ IsSequence(saw) /\ Len(saw) \in Nat /\ IsSequence(trace_lines)
  BY SequenceIs DEF ShapeInv, FrameShape, LinesInv, IsSequence
<1>1. CASE (\E scale \in Scales : PublishMusic(scale))
           \/ StartSession \/ StopSession \/ Announce \/ ProduceHop
  <2>1. UNCHANGED <<frame_read, trace_step, trace_lines, flushed, saw>>
    BY <1>1 DEF PublishMusic, StartSession, StopSession, Announce, ProduceHop, Change
  <2>2. ReadsOf(frame_read)' = ReadsOf(frame_read) BY <2>1
  <2>. QED BY <2>1, <2>2, NothingAppended
<1>2. CASE SendListDevices
  <2>1. /\ frame_read'.inputs = frame_read.inputs /\ frame_read'.cursor = frame_read.cursor
        /\ frame_read'.events = frame_read.events
        /\ frame_read'.latest = frame_read.latest /\ frame_read'.drained = frame_read.drained
    BY <1>0, <1>2, ListedIs
  <2>2. UNCHANGED <<trace_step, trace_lines, flushed, saw>> BY <1>2 DEF SendListDevices
  <2>3. ReadsOf(frame_read)' = ReadsOf(frame_read) BY <2>1 DEF ReadsOf
  <2>. QED BY <2>1, <2>2, <2>3, NothingAppended
<1>3. CASE PollCoachEvents \/ ApplyEvents \/ PollLatest \/ DrainFeatures
  <2>1. frame_read'.inputs = frame_read.inputs /\ frame_read'.cursor = frame_read.cursor
    BY <1>0, <1>3, PollIs, ApplyIs, LatestIs, DrainIs
  <2>2. /\ UNCHANGED <<trace_lines, flushed, saw>>
        /\ trace_step \in InFrame \ {"last"} /\ trace_step' \in InFrame \ {"last"}
    BY <1>3 DEF PollCoachEvents, ApplyEvents, PollLatest, DrainFeatures, live_run, InFrame
  <2>. QED BY <2>1, <2>2, NothingAppended
<1>4. ASSUME NEW inputs \in InputBatches, BeginFrame(inputs) PROVE WrittenInv' /\ CursorInv'
  <2>. DEFINE n == Len(saw)
              first == <<FrameLine(n)>>
              rest == InputLines(n, inputs)
              new == first \o rest
  <2>1. /\ trace_lines' = (trace_lines \o first) \o rest
        /\ trace_step = "first" /\ trace_step' = "poll"
        /\ UNCHANGED <<saw, flushed>>
    BY <1>4 DEF BeginFrame, InputLines, frame_count
  <2>2. /\ frame_read'.inputs = inputs
        /\ frame_read'.cursor = CursorAfter(frame_read.cursor, inputs)
    BY <1>0, <1>4, BeginIs
  <2>3. IsSequence(inputs) BY BatchIs
  <2>4. IsSequence(first) /\ IsSequence(rest) BY <2>3, OneIs, LinesAre
  <2>5. /\ IsSequence(new) /\ \A i \in 1..Len(new) : new[i].f = n
        /\ OfFrame(new, n, "input") = rest /\ OfFrame(new, n, "coach") = <<>>
    BY <2>3, FrameLines
  <2>6. trace_lines' = trace_lines \o new
    <3>. HIDE DEF first, rest
    <3>1. (trace_lines \o first) \o rest = trace_lines \o (first \o rest)
      BY <1>0, <2>4, JoinsAssociate
    <3>. QED BY <2>1, <3>1
  <2>. HIDE DEF new, rest
  <2>7. /\ trace_lines'[1] = RunLine
        /\ \A i \in 1..Len(trace_lines') : trace_lines'[i].f \in 0..Len(saw')
        /\ \A i \in flushed' + 1..Len(trace_lines') : trace_lines'[i].f = Len(saw')
        /\ \A k \in 1..Len(saw') :
             Written(trace_lines', k - 1, saw'[k].inputs, CoachReads(saw'[k]))
        /\ \A kind : OfFrame(trace_lines', Len(saw), kind)
                       = OfFrame(trace_lines, Len(saw), kind) \o OfFrame(new, Len(saw), kind)
    BY <2>1, <2>5, <2>6, MoreLines
  <2>8. OfFrame(trace_lines, n, "input") = <<>> /\ OfFrame(trace_lines, n, "coach") = <<>>
    <3>1. Written(trace_lines, n, <<>>, <<>>) BY <2>1 DEF WrittenInv
    <3>2. InputLines(n, <<>>) = <<>> /\ CoachLines(n, <<>>) = <<>>
      BY EmptyIs DEF InputLines, CoachLines
    <3>. QED BY <3>1, <3>2 DEF Written
  <2>9. <<>> \o rest = rest /\ <<>> \o <<>> = <<>> BY <2>4, EmptyIs, EmptyJoins
  <2>10. OfFrame(trace_lines', n, "input") = rest /\ OfFrame(trace_lines', n, "coach") = <<>>
    BY <2>5, <2>7, <2>8, <2>9
  <2>11. Written(trace_lines', n, inputs, <<>>)
    <3>1. CoachLines(n, <<>>) = <<>> BY EmptyIs DEF CoachLines
    <3>. QED BY <2>10, <3>1 DEF Written, rest
  <2>12. WrittenInv'
    <3>1. Reported(trace_step)' = <<>> BY <2>1 DEF Reported
    <3>2. Written(trace_lines', Len(saw'), frame_read'.inputs, Reported(trace_step)')
      BY <2>1, <2>2, <2>11, <3>1
    <3>. QED BY <2>1, <2>7, <3>2 DEF WrittenInv, Written, CoachReads, ReadsOf
  <2>13. CursorInv' BY <2>1, <2>2 DEF CursorInv, CursorBefore
  <2>. QED BY <2>12, <2>13
<1>5. CASE RecordCoach
  <2>. DEFINE n == Len(saw)
              reads == CoachReads(frame_read)
              cs == trace_buffer.commands
              asked == [i \in DOMAIN cs |-> CmdLine(n, cs[i])]
              first == CoachLines(n, reads)
              new == first \o asked
  <2>1. /\ trace_lines' = (trace_lines
              \o (IF CoachRead(trace_buffer) = EmptyRead THEN <<>>
                  ELSE <<CoachLine(n, CoachRead(trace_buffer))>>)) \o asked
        /\ trace_step = "record" /\ trace_step' = "last"
        /\ UNCHANGED <<saw, flushed, frame_read>>
    BY <1>5 DEF RecordCoach, frame_count
  <2>2. CoachRead(trace_buffer) = ReadsOf(frame_read)
    BY <2>1 DEF CopyInv, CoachRead, ReadsOf
  <2>3. first = IF CoachRead(trace_buffer) = EmptyRead THEN <<>>
                ELSE <<CoachLine(n, CoachRead(trace_buffer))>>
    <3>1. CASE ReadsOf(frame_read) = EmptyRead
      <4>1. reads = <<>> BY <3>1 DEF CoachReads
      <4>. HIDE DEF reads
      <4>2. first = <<>> BY <4>1, EmptyIs DEF CoachLines
      <4>. QED BY <2>2, <3>1, <4>2
    <3>2. CASE ReadsOf(frame_read) # EmptyRead
      <4>. DEFINE e == ReadsOf(frame_read)
      <4>1. reads = <<e>> BY <3>2 DEF CoachReads
      <4>. HIDE DEF reads, e
      <4>2. DOMAIN <<e>> = 1..1 /\ <<e>>[1] = e OBVIOUS
      <4>3. first = [i \in 1..1 |-> CoachLine(n, e)] BY <4>1, <4>2 DEF CoachLines
      <4>4. <<CoachLine(n, e)>> = [i \in 1..1 |-> CoachLine(n, e)] OBVIOUS
      <4>. QED BY <2>2, <3>2, <4>3, <4>4 DEF e
    <3>. QED BY <3>1, <3>2
  <2>4. IsSequence(reads) BY CoachReadsAre
  <2>5. IsSequence(asked) /\ \A i \in 1..Len(asked) : asked[i].f = n /\ asked[i].k = "cmd"
    <3>. DEFINE S == {asked[i] : i \in DOMAIN asked}
                c == Len(cs)
    <3>1. DOMAIN cs = 1..c /\ c \in Nat BY SequenceIs DEF BufferInv, IsSequence
    <3>2. \A x : CmdLine(n, x).f = n /\ CmdLine(n, x).k = "cmd" BY DEF CmdLine
    <3>. HIDE DEF cs, c
    <3>3. /\ asked \in [1..c -> S]
          /\ \A i \in 1..c : asked[i] = CmdLine(n, cs[i])
      BY <3>1
    <3>. HIDE DEF asked, S
    <3>4. asked \in Seq(S) /\ Len(asked) = c BY <3>1, <3>3, IsASeq, LenProperties
    <3>5. IsSequence(asked) BY <3>4, SequenceIs
    <3>. QED BY <3>2, <3>3, <3>4, <3>5
  <2>. HIDE DEF cs, asked, reads
  <2>6. IsSequence(first) BY <2>4, LinesAre
  <2>7. /\ IsSequence(new) /\ \A i \in 1..Len(new) : new[i].f = n
        /\ OfFrame(new, n, "input") = <<>> /\ OfFrame(new, n, "coach") = CoachLines(n, reads)
    BY <2>4, <2>5, ReportLines
  <2>. HIDE DEF first
  <2>8. trace_lines' = trace_lines \o new
    <3>1. (trace_lines \o first) \o asked = trace_lines \o (first \o asked)
      BY <1>0, <2>5, <2>6, JoinsAssociate
    <3>. QED BY <2>1, <2>3, <3>1
  <2>. HIDE DEF new
  <2>9. /\ trace_lines'[1] = RunLine
        /\ \A i \in 1..Len(trace_lines') : trace_lines'[i].f \in 0..Len(saw')
        /\ \A i \in flushed' + 1..Len(trace_lines') : trace_lines'[i].f = Len(saw')
        /\ \A k \in 1..Len(saw') :
             Written(trace_lines', k - 1, saw'[k].inputs, CoachReads(saw'[k]))
        /\ \A kind : OfFrame(trace_lines', Len(saw), kind)
                       = OfFrame(trace_lines, Len(saw), kind) \o OfFrame(new, Len(saw), kind)
    BY <2>1, <2>7, <2>8, MoreLines
  <2>10. Written(trace_lines, n, frame_read.inputs, <<>>)
    <3>1. Reported(trace_step) = <<>> BY <2>1 DEF Reported
    <3>. QED BY <2>1, <3>1 DEF WrittenInv, InFrame
  <2>11. Written(trace_lines', n, frame_read.inputs, reads)
    <3>1. IsSequence(frame_read.inputs) BY <1>0, <2>1, BatchIs DEF FrameShape, InFrame
    <3>2. IsSequence(InputLines(n, frame_read.inputs)) BY <3>1, LinesAre
    <3>3. InputLines(n, frame_read.inputs) \o <<>> = InputLines(n, frame_read.inputs)
      BY <3>2, EmptyJoins
    <3>4. CoachLines(n, <<>>) = <<>> BY EmptyIs DEF CoachLines
    <3>5. <<>> \o CoachLines(n, reads) = CoachLines(n, reads)
      BY <2>6, EmptyJoins DEF first
    <3>6. /\ OfFrame(trace_lines, n, "input") = InputLines(n, frame_read.inputs)
          /\ OfFrame(trace_lines, n, "coach") = <<>>
      BY <2>10, <3>4 DEF Written
    <3>7. /\ OfFrame(trace_lines', n, "input") = InputLines(n, frame_read.inputs)
          /\ OfFrame(trace_lines', n, "coach") = CoachLines(n, reads)
      BY <2>7, <2>9, <3>3, <3>5, <3>6
    <3>. QED BY <3>7 DEF Written
  <2>12. WrittenInv'
    <3>1. Reported(trace_step)' = reads BY <2>1 DEF Reported, CoachReads, ReadsOf, reads
    <3>2. Written(trace_lines', Len(saw'), frame_read'.inputs, Reported(trace_step)')
      BY <2>1, <2>11, <3>1
    <3>. QED BY <2>1, <2>9, <3>2 DEF WrittenInv, Written, CoachReads, ReadsOf
  <2>13. CursorInv' BY <2>1 DEF CursorInv, CursorBefore, InFrame
  <2>. QED BY <2>12, <2>13
<1>6. CASE FlushWriter
  <2>. DEFINE n == Len(saw)
              a == Len(trace_lines)
  <2>1. /\ UNCHANGED <<frame_read, trace_lines>> /\ flushed' = a
        /\ trace_step = "last" /\ trace_step' = "first"
    BY <1>6 DEF FlushWriter
  <2>2. /\ Len(saw') = n + 1 /\ n \in Nat
        /\ \A k \in 1..n : saw'[k] = saw[k]
        /\ saw'[n + 1] = frame_read
    BY <1>0, <1>6, FlushIs
  <2>3. a \in Nat BY <1>0, SequenceIs DEF IsSequence, a
  <2>4. \A i \in 1..a : trace_lines[i].f \in 0..n BY DEF WrittenInv
  <2>5. \A i \in 1..a : trace_lines[i].f \in 0..n + 1 BY <2>2, <2>4
  <2>6. \A i \in a + 1..a : FALSE BY <2>3
  <2>7. Written(trace_lines, n, frame_read.inputs, CoachReads(frame_read))
    BY <2>1 DEF WrittenInv, InFrame, Reported
  <2>8. ASSUME NEW k \in 1..n + 1
        PROVE  /\ Written(trace_lines, k - 1, saw'[k].inputs, CoachReads(saw'[k]))
               /\ saw'[k].cursor = CursorAfter(IF k = 1 THEN NoCursor ELSE saw'[k - 1].cursor,
                                               saw'[k].inputs)
    <3>1. CASE k \in 1..n
      <4>1. saw'[k] = saw[k] /\ (k # 1 => saw'[k - 1] = saw[k - 1]) BY <2>2, <3>1
      <4>2. saw[k].cursor = CursorAfter(CursorBefore(k), saw[k].inputs)
        BY <3>1 DEF CursorInv
      <4>3. Written(trace_lines, k - 1, saw[k].inputs, CoachReads(saw[k]))
        BY <3>1 DEF WrittenInv
      <4>. QED BY <4>1, <4>2, <4>3 DEF CursorBefore
    <3>2. CASE k = n + 1
      <4>1. saw'[k] = frame_read /\ (k # 1 => saw'[k - 1] = saw[k - 1]) /\ k - 1 = n
        BY <2>2, <3>2
      <4>2. frame_read.cursor = CursorAfter(CursorBefore(k), frame_read.inputs)
        BY <2>1, <3>2 DEF CursorInv, InFrame
      <4>. QED BY <2>7, <4>1, <4>2 DEF CursorBefore
    <3>. QED BY <2>2, <3>1, <3>2
  <2>9. Written(trace_lines, n + 1, <<>>, <<>>)
    <3>1. \A i \in 1..a : trace_lines[i].f # n + 1 BY <2>2, <2>4
    <3>2. \A kind : \A i \in 1..Len(trace_lines) :
            ~ (trace_lines[i].f = n + 1 /\ trace_lines[i].k = kind)
      BY <3>1
    <3>3. \A kind : OfFrame(trace_lines, n + 1, kind) = <<>> BY <1>0, <3>2, OfFrameNone
    <3>4. InputLines(n + 1, <<>>) = <<>> /\ CoachLines(n + 1, <<>>) = <<>>
      BY EmptyIs DEF InputLines, CoachLines
    <3>. QED BY <3>3, <3>4 DEF Written
  <2>10. trace_lines[1] = RunLine BY DEF WrittenInv
  <2>. HIDE DEF n, a
  <2>11. WrittenInv'
    <3>1. \A k \in 1..Len(saw') :
            Written(trace_lines', k - 1, saw'[k].inputs, CoachReads(saw'[k]))
      BY <2>1, <2>2, <2>8
    <3>2. /\ \A i \in 1..Len(trace_lines') : trace_lines'[i].f \in 0..Len(saw')
          /\ \A i \in flushed' + 1..Len(trace_lines') : trace_lines'[i].f = Len(saw')
      BY <2>1, <2>2, <2>5, <2>6 DEF a
    <3>3. Written(trace_lines', Len(saw'), <<>>, <<>>) BY <2>1, <2>2, <2>9
    <3>4. trace_step' = "first" /\ trace_lines'[1] = RunLine BY <2>1, <2>10
    <3>. QED BY <3>1, <3>2, <3>3, <3>4 DEF WrittenInv, Written, CoachReads, ReadsOf, InFrame
  <2>12. CursorInv'
    <3>1. \A k \in 1..Len(saw') : saw'[k].cursor =
             CursorAfter(IF k = 1 THEN NoCursor ELSE saw'[k - 1].cursor, saw'[k].inputs)
      BY <2>2, <2>8
    <3>2. Len(saw') + 1 # 1 /\ (Len(saw') + 1) - 1 = n + 1 BY <2>2
    <3>3. frame_read'.cursor = saw'[(Len(saw') + 1) - 1].cursor BY <2>1, <2>2, <3>2
    <3>. QED BY <2>1, <3>1, <3>2, <3>3 DEF CursorInv, CursorBefore, InFrame
  <2>. QED BY <2>11, <2>12
<1>. QED BY <1>1, <1>2, <1>3, <1>4, <1>5, <1>6 DEF LiveStep

-----------------------------------------------------------------------------
(* The scale in force: m[k] is the one the events of the first k frames leave. *)

Polled == IF trace_step \in {"apply", "latest", "drain", "record", "last"}
          THEN frame_read.events ELSE <<>>
Unapplied == IF trace_step = "apply" THEN frame_read.events ELSE <<>>
Pending == coach.events \o coach.announcing

MusicFolds(m) ==
    /\ m[0] = NoScale
    /\ \A k \in 1..Len(saw) : m[k] = MusicAfter(m[k - 1], saw[k].events)
ScalesSettle(m) == \A k \in 1..Len(saw) : saw[k].settled => saw[k].music = m[k]

\* The events still to be told, after those polled, lead from what the frames were told to what
\* the coach has; so they do from what the head shows, with those it has yet to apply.
Leads(m) ==
    /\ coach.music = MusicAfter(MusicAfter(m[Len(saw)], Polled), Pending)
    /\ coach.music = MusicAfter(MusicAfter(frame_read.music, Unapplied), Pending)
    /\ trace_step \in {"latest", "drain", "record", "last"} /\ frame_read.settled =>
         frame_read.music = MusicAfter(m[Len(saw)], frame_read.events)
LiveMusicInv(m) == ScalesSettle(m) /\ (trace_step \in Buffering => Leads(m))

LEMMA EmptyEvents == <<>> \in Seq(Heard) /\ \A x : MusicAfter(x, <<>>) = x
<1>1. <<>> \in Seq(Heard) OBVIOUS
<1>. QED BY <1>1, QuietEvents, MusicQuiet

\* A step of the coach: what it has to tell leads to the scale it has.
LEMMA CoachLeads ==
  ASSUME NEW m, Leads(m), UNCHANGED <<saw, trace_step>>,
         frame_read'.events = frame_read.events, frame_read'.music = frame_read.music,
         frame_read'.settled = frame_read.settled,
         NEW more \in Seq(Heard), Pending \in Seq(Heard),
         Pending' = Pending \o more,
         \A x : MusicAfter(x, Pending) = coach.music
                  => MusicAfter(MusicAfter(x, Pending), more) = coach'.music
  PROVE  Leads(m)'
<1>1. \A x : MusicAfter(x, Pending \o more) = MusicAfter(MusicAfter(x, Pending), more)
  BY MusicJoined
<1>2. /\ Polled' = Polled /\ Unapplied' = Unapplied
  BY DEF Polled, Unapplied
<1>3. coach'.music = MusicAfter(MusicAfter(m[Len(saw)], Polled), Pending \o more)
  BY <1>1 DEF Leads
<1>4. coach'.music = MusicAfter(MusicAfter(frame_read.music, Unapplied), Pending \o more)
  BY <1>1 DEF Leads
<1>. QED BY <1>2, <1>3, <1>4 DEF Leads

LEMMA PendingIs ==
  ASSUME CoachShape
  PROVE  /\ Pending \in Seq(Heard) /\ coach.events \in Seq(Heard)
         /\ coach.announcing \in Seq(Heard) /\ Pending \in Seq(Events)
<1>1. coach.events \in Seq(Events) /\ coach.announcing \in Seq(Events) BY DEF CoachShape
<1>2. Pending \in Seq(Events) BY <1>1, ConcatProperties DEF Pending
<1>. QED BY <1>1, <1>2, HeardEvents

\* A step of the coach that adds an announcement to none.
LEMMA AnnouncementLeads ==
  ASSUME NEW m, Leads(m), UNCHANGED <<saw, trace_step, frame_read>>, CoachShape,
         NEW e \in Events, NEW music, coach.announcing = <<>>,
         Told(coach.events, <<e>>, music),
         \A x : x = coach.music => MusicAfter(x, <<e>>) = music
  PROVE  Leads(m)'
<1>1. e \in Heard BY DEF Heard
<1>2. <<e>> \in Seq(Heard) BY <1>1
<1>3. Pending' = Pending \o <<e>>
  <2>1. coach.events \o <<>> = coach.events BY ConcatEmptySeq DEF CoachShape
  <2>. QED BY <2>1 DEF Pending, Told
<1>4. coach'.music = music BY DEF Told
<1>. QED BY <1>2, <1>3, <1>4, PendingIs, CoachLeads

\* The scales the frames leave go on after a step of the run.
MusicGoesOn == \E m2 : MusicFolds(m2)' /\ LiveMusicInv(m2)'

LEMMA MusicKept ==
  ASSUME NEW m, MusicFolds(m), LiveMusicInv(m), UNCHANGED saw, trace_step \in Buffering,
         Leads(m) => Leads(m)'
  PROVE  MusicGoesOn
<1>1. MusicFolds(m)' BY DEF MusicFolds
<1>2. Leads(m)' BY DEF LiveMusicInv
<1>3. ScalesSettle(m)' BY DEF LiveMusicInv, ScalesSettle
<1>4. LiveMusicInv(m)' BY <1>2, <1>3 DEF LiveMusicInv
<1>. QED BY <1>1, <1>4 DEF MusicGoesOn

LEMMA LiveMusic ==
  ASSUME ShapeInv, IsSequence(saw), NEW m, MusicFolds(m), LiveMusicInv(m), LiveStep
  PROVE  MusicGoesOn
<1>0. /\ CoachShape /\ FrameShape /\ DOMAIN frame_read = FrameFields
  BY DEF ShapeInv, FrameShape
<1>1. ASSUME NEW scale \in Scales, PublishMusic(scale) PROVE MusicGoesOn
  <2>1. /\ UNCHANGED <<saw, trace_step, frame_read>> /\ trace_step \in Buffering
    BY <1>1 DEF PublishMusic, Change, Living, Buffering, InFrame
  <2>2. coach.announcing = <<>> /\ Told(coach.events, <<Configured(scale)>>, scale)
    BY <1>0, <1>1, PublishIs
  <2>3. Configured(scale) \in Events BY DEF Events, ConfiguredEvents
  <2>4. \A x : x = coach.music => MusicAfter(x, <<Configured(scale)>>) = scale
    BY MusicConfigured
  <2>5. Leads(m) => Leads(m)'
    BY <1>0, <2>1, <2>2, <2>3, <2>4, AnnouncementLeads
  <2>. QED BY <2>1, <2>5, MusicKept
<1>2. CASE StartSession \/ StopSession
  <2>1. /\ UNCHANGED <<saw, trace_step, frame_read>> /\ trace_step \in Buffering
    BY <1>2 DEF StartSession, StopSession, Change, Living, Buffering, InFrame
  <2>2. coach.announcing = <<>> /\ Told(coach.events, <<StateChanged>>, coach.music)
    BY <1>0, <1>2, SessionIs
  <2>3. StateChanged \in Events BY DEF Events
  <2>4. \A x : x = coach.music => MusicAfter(x, <<StateChanged>>) = coach.music
    BY QuietEvents, MusicQuiet
  <2>5. Leads(m) => Leads(m)'
    BY <1>0, <2>1, <2>2, <2>3, <2>4, AnnouncementLeads
  <2>. QED BY <2>1, <2>5, MusicKept
<1>3. CASE Announce \/ ProduceHop
  <2>1. /\ UNCHANGED <<saw, trace_step, frame_read>> /\ trace_step \in Buffering
    BY <1>3 DEF Announce, ProduceHop, Living, Buffering, InFrame
  <2>2. Pending' = Pending /\ coach'.music = coach.music
    <3>1. CASE Announce
      <4>1. Told(coach.events \o coach.announcing, <<>>, coach.music) BY <1>0, <3>1, AnnounceIs
      <4>2. Pending \o <<>> = Pending BY <1>0, PendingIs, ConcatEmptySeq
      <4>. QED BY <4>1, <4>2 DEF Told, Pending
    <3>2. CASE ProduceHop
      <4>1. Told(coach.events, coach.announcing, coach.music) BY <1>0, <3>2, ProduceIs
      <4>. QED BY <4>1 DEF Told, Pending
    <3>. QED BY <1>3, <3>1, <3>2
  <2>3. Leads(m) => Leads(m)' BY <2>1, <2>2 DEF Leads, Polled, Unapplied
  <2>. QED BY <2>1, <2>3, MusicKept
<1>4. CASE SendListDevices
  <2>1. /\ UNCHANGED <<saw, trace_step>> /\ trace_step \in Buffering
    BY <1>4 DEF SendListDevices, Buffering, InFrame
  <2>2. /\ Told(coach.events \o <<DevicesListed>>, coach.announcing, coach.music)
        /\ frame_read'.events = frame_read.events /\ frame_read'.music = frame_read.music
        /\ frame_read'.settled = frame_read.settled
    BY <1>0, <1>4, ListedIs
  <2>3. \A x : MusicAfter(x, Pending') = MusicAfter(x, Pending)
    <3>. DEFINE a == coach.events
                b == <<DevicesListed>>
                c == coach.announcing
    <3>1. DevicesListed \in Heard BY DEF Heard, Events
    <3>2. a \in Seq(Heard) /\ b \in Seq(Heard) /\ c \in Seq(Heard) BY <1>0, <3>1, PendingIs
    <3>3. \A x : MusicAfter(x, b) = x BY QuietEvents, MusicQuiet
    <3>4. Pending' = (a \o b) \o c /\ Pending = a \o c BY <2>2 DEF Pending, Told
    <3>. HIDE DEF a, b, c
    <3>5. a \o b \in Seq(Heard) BY <3>2, ConcatProperties
    <3>6. ASSUME NEW x PROVE MusicAfter(x, (a \o b) \o c) = MusicAfter(x, a \o c)
      <4>1. MusicAfter(x, (a \o b) \o c) = MusicAfter(MusicAfter(x, a \o b), c)
        BY <3>2, <3>5, MusicJoined
      <4>2. MusicAfter(x, a \o b) = MusicAfter(MusicAfter(x, a), b) BY <3>2, MusicJoined
      <4>3. MusicAfter(x, a \o c) = MusicAfter(MusicAfter(x, a), c) BY <3>2, MusicJoined
      <4>. QED BY <3>3, <4>1, <4>2, <4>3
    <3>. QED BY <3>4, <3>6
  <2>4. coach'.music = coach.music BY <2>2 DEF Told
  <2>5. Polled' = Polled /\ Unapplied' = Unapplied BY <2>1, <2>2 DEF Polled, Unapplied
  <2>6. Leads(m) => Leads(m)' BY <2>1, <2>2, <2>3, <2>4, <2>5 DEF Leads
  <2>. QED BY <2>1, <2>6, MusicKept
<1>5. ASSUME NEW inputs \in InputBatches, BeginFrame(inputs) PROVE MusicGoesOn
  <2>1. UNCHANGED <<coach, saw>> /\ trace_step = "first" /\ trace_step' = "poll"
    BY <1>5 DEF BeginFrame
  <2>2. /\ frame_read'.events = frame_read.events /\ frame_read'.music = frame_read.music
    BY <1>0, <1>5, BeginIs
  <2>3. Leads(m) => Leads(m)' BY <2>1, <2>2 DEF Leads, Polled, Unapplied, Pending
  <2>. QED
    <3>1. trace_step \in Buffering BY <2>1 DEF Buffering, InFrame
    <3>. QED BY <3>1, <2>1, <2>3, MusicKept
<1>6. CASE PollCoachEvents
  <2>1. UNCHANGED saw /\ trace_step = "poll" /\ trace_step' = "apply"
    BY <1>6 DEF PollCoachEvents
  <2>2. /\ Told(<<>>, coach.announcing, coach.music)
        /\ frame_read'.events = coach.events /\ frame_read'.music = frame_read.music
    BY <1>0, <1>6, PollIs
  <2>3. Pending' = coach.announcing
    <3>1. <<>> \o coach.announcing = coach.announcing BY <1>0, ConcatEmptySeq DEF CoachShape
    <3>. QED BY <2>2, <3>1 DEF Pending, Told
  <2>4. /\ Polled = <<>> /\ Unapplied = <<>> /\ Polled' = coach.events /\ Unapplied' = coach.events
    BY <2>1, <2>2 DEF Polled, Unapplied
  <2>5. \A x : MusicAfter(MusicAfter(x, <<>>), Pending)
                 = MusicAfter(MusicAfter(x, coach.events), coach.announcing)
    <3>1. \A x : MusicAfter(x, coach.events \o coach.announcing)
                   = MusicAfter(MusicAfter(x, coach.events), coach.announcing)
      BY <1>0, PendingIs, MusicJoined
    <3>. QED BY <3>1, EmptyEvents DEF Pending
  <2>6. coach'.music = coach.music BY <2>2 DEF Told
  <2>7. Leads(m) => Leads(m)' BY <2>1, <2>2, <2>3, <2>4, <2>5, <2>6 DEF Leads
  <2>. QED
    <3>1. trace_step \in Buffering BY <2>1 DEF Buffering, InFrame
    <3>. QED BY <3>1, <2>1, <2>7, MusicKept
<1>7. CASE ApplyEvents
  <2>. DEFINE es == frame_read.events
  <2>1. UNCHANGED <<coach, saw>> /\ trace_step = "apply" /\ trace_step' = "latest"
    BY <1>7 DEF ApplyEvents, live_run
  <2>2. /\ frame_read'.events = es
        /\ frame_read'.music = IF Configures(es) = <<>> THEN frame_read.music ELSE coach.music
        /\ frame_read'.settled <=> Configures(coach.announcing \o coach.events) = <<>>
    BY <1>0, <1>7, ApplyIs
  <2>3. /\ Polled = es /\ Unapplied = es /\ Polled' = es /\ Unapplied' = <<>> /\ Pending' = Pending
    BY <2>1, <2>2 DEF Polled, Unapplied, Pending
  <2>. HIDE DEF es
  <2>4. SUFFICES ASSUME Leads(m) PROVE Leads(m)'
    <3>1. trace_step \in Buffering BY <2>1 DEF Buffering, InFrame
    <3>. QED BY <3>1, <2>1, MusicKept
  <2>5. /\ coach.music = MusicAfter(MusicAfter(m[Len(saw)], es), Pending)
        /\ coach.music = MusicAfter(MusicAfter(frame_read.music, es), Pending)
    BY <2>3, <2>4 DEF Leads
  <2>6. coach.music = MusicAfter(frame_read'.music, Pending)
    <3>1. CASE Configures(es) = <<>>
      <4>1. MusicAfter(frame_read.music, es) = frame_read.music BY <3>1, MusicQuiet
      <4>. QED BY <2>2, <2>5, <3>1, <4>1
    <3>2. CASE Configures(es) # <<>> /\ Configures(Pending) = <<>>
      <4>1. MusicAfter(coach.music, Pending) = coach.music BY <3>2, MusicQuiet
      <4>. QED BY <2>2, <3>2, <4>1
    <3>3. CASE Configures(es) # <<>> /\ Configures(Pending) # <<>>
      <4>1. MusicAfter(coach.music, Pending)
              = MusicAfter(MusicAfter(frame_read.music, es), Pending)
        BY <3>3, MusicQuiet
      <4>. QED BY <2>2, <2>5, <3>3, <4>1
    <3>. QED BY <3>1, <3>2, <3>3
  <2>7. ASSUME frame_read'.settled PROVE frame_read'.music = MusicAfter(m[Len(saw)], es)
    <3>1. Configures(coach.announcing \o coach.events) = <<>> BY <2>2, <2>7
    <3>2. coach.events \in Seq(Heard) /\ coach.announcing \in Seq(Heard) BY <1>0, PendingIs
    <3>3. Configures(coach.events) = <<>> /\ Configures(coach.announcing) = <<>>
      BY <3>1, <3>2, MusicJoined
    <3>4. Configures(Pending) = <<>> BY <3>2, <3>3, MusicJoined DEF Pending
    <3>5. \A x : MusicAfter(x, Pending) = x BY <3>4, MusicQuiet
    <3>. QED BY <2>5, <2>6, <3>5
  <2>8. MusicAfter(frame_read'.music, <<>>) = frame_read'.music BY EmptyEvents
  <2>. QED BY <2>1, <2>2, <2>3, <2>5, <2>6, <2>7, <2>8 DEF Leads
<1>8. CASE PollLatest \/ DrainFeatures \/ RecordCoach
  <2>1. /\ UNCHANGED saw
        /\ \/ trace_step = "latest" /\ trace_step' = "drain"
           \/ trace_step = "drain" /\ trace_step' = "record"
           \/ trace_step = "record" /\ trace_step' = "last"
    BY <1>8 DEF PollLatest, DrainFeatures, RecordCoach
  <2>2. /\ frame_read'.events = frame_read.events /\ frame_read'.music = frame_read.music
        /\ frame_read'.settled = frame_read.settled
        /\ coach'.events = coach.events /\ coach'.announcing = coach.announcing
        /\ coach'.music = coach.music
    <3>1. CASE PollLatest
      <4>1. UNCHANGED coach BY <3>1 DEF PollLatest
      <4>. QED BY <1>0, <3>1, <4>1, LatestIs
    <3>2. CASE DrainFeatures BY <1>0, <3>2, DrainIs DEF Told
    <3>3. CASE RecordCoach BY <3>3 DEF RecordCoach
    <3>. QED BY <1>8, <3>1, <3>2, <3>3
  <2>3. Polled' = Polled /\ Unapplied' = Unapplied /\ Pending' = Pending
    BY <2>1, <2>2 DEF Polled, Unapplied, Pending
  <2>4. Leads(m) => Leads(m)' BY <2>1, <2>2, <2>3 DEF Leads
  <2>. QED
    <3>1. trace_step \in Buffering BY <2>1 DEF Buffering, InFrame
    <3>. QED BY <3>1, <2>1, <2>4, MusicKept
<1>9. CASE FlushWriter
  <2>. DEFINE n == Len(saw)
              next == MusicAfter(m[n], frame_read.events)
  <2>1. UNCHANGED <<coach, frame_read>> /\ trace_step = "last" /\ trace_step' = "first"
    BY <1>9 DEF FlushWriter
  <2>2. /\ Len(saw') = n + 1 /\ n \in Nat
        /\ \A k \in 1..n : saw'[k] = saw[k]
        /\ saw'[n + 1] = frame_read
    BY <1>9, FlushIs
  <2>. HIDE DEF next
  <2>3. PICK m2 : m2[n + 1] = next /\ \A k \in 0..n : m2[k] = m[k]
    <3>. DEFINE longer == [k \in 0..n + 1 |-> IF k = n + 1 THEN next ELSE m[k]]
    <3>1. longer[n + 1] = next /\ \A k \in 0..n : longer[k] = m[k] BY <2>2
    <3>. QED BY <3>1
  <2>4. Leads(m) /\ ScalesSettle(m) BY <2>1 DEF LiveMusicInv, Buffering, InFrame
  <2>. HIDE DEF n
  <2>5. MusicFolds(m2)'
    <3>1. m2[0] = NoScale BY <2>2, <2>3 DEF MusicFolds
    <3>2. ASSUME NEW k \in 1..n + 1 PROVE m2[k] = MusicAfter(m2[k - 1], saw'[k].events)
      <4>1. CASE k \in 1..n
        <5>1. m[k] = MusicAfter(m[k - 1], saw[k].events) BY <4>1 DEF MusicFolds, n
        <5>2. k \in 0..n /\ k - 1 \in 0..n BY <2>2, <4>1
        <5>3. m2[k] = m[k] /\ m2[k - 1] = m[k - 1] BY <2>3, <5>2
        <5>. QED BY <2>2, <4>1, <5>1, <5>3
      <4>2. CASE k = n + 1
        <5>1. k - 1 = n /\ n \in 0..n BY <2>2, <4>2
        <5>. QED BY <2>2, <2>3, <4>2, <5>1 DEF next
      <4>. QED BY <2>2, <4>1, <4>2
    <3>. QED BY <2>2, <3>1, <3>2 DEF MusicFolds
  <2>6. ScalesSettle(m2)'
    <3>1. ASSUME NEW k \in 1..n + 1, saw'[k].settled PROVE saw'[k].music = m2[k]
      <4>1. CASE k \in 1..n
        <5>1. k \in 0..n BY <2>2, <4>1
        <5>. QED BY <2>2, <2>3, <2>4, <3>1, <4>1, <5>1 DEF ScalesSettle, n
      <4>2. CASE k = n + 1
        <5>1. frame_read.music = MusicAfter(m[Len(saw)], frame_read.events)
          BY <2>1, <2>2, <2>4, <3>1, <4>2 DEF Leads
        <5>. QED BY <2>2, <2>3, <4>2, <5>1 DEF next, n
      <4>. QED BY <2>2, <4>1, <4>2
    <3>. QED BY <2>2, <3>1 DEF ScalesSettle
  <2>7. Leads(m2)'
    <3>1. /\ Polled = frame_read.events /\ Unapplied = <<>> /\ Polled' = <<>> /\ Unapplied' = <<>>
          /\ Pending' = Pending
      BY <2>1 DEF Polled, Unapplied, Pending
    <3>2. coach.music = MusicAfter(next, Pending) BY <2>4, <3>1 DEF Leads, next, n
    <3>3. MusicAfter(m2[Len(saw')], <<>>) = next BY <2>2, <2>3, EmptyEvents
    <3>4. coach'.music = MusicAfter(MusicAfter(m2[Len(saw')], Polled'), Pending')
      BY <2>1, <3>1, <3>2, <3>3
    <3>5. coach'.music = MusicAfter(MusicAfter(frame_read'.music, Unapplied'), Pending')
      BY <2>1, <2>4, <3>1 DEF Leads
    <3>. QED BY <2>1, <3>4, <3>5 DEF Leads
  <2>8. LiveMusicInv(m2)' BY <2>6, <2>7 DEF LiveMusicInv
  <2>. QED BY <2>5, <2>8 DEF MusicGoesOn
<1>. QED BY <1>1, <1>2, <1>3, <1>4, <1>5, <1>6, <1>7, <1>8, <1>9 DEF LiveStep

-----------------------------------------------------------------------------
(* The load: what is loaded of a finished frame is what the run had of it. *)

LoadedInv ==
    trace_step \in Loaded =>
        /\ IsSequence(loaded_trace)
        /\ \A k \in 1..Len(loaded_trace) : IsSequence(loaded_trace[k].inputs)
        /\ \A k \in 1..Len(saw) :
             /\ loaded_trace[k].inputs = saw[k].inputs
             /\ loaded_trace[k].coach = CoachReads(saw[k])

\* A sequence cut after its first element and after its k-th.
Split(s, k, a, b) ==
    /\ s = (<<s[1]>> \o a) \o b
    /\ IsSequence(a) /\ IsSequence(b) /\ Len(a) = k - 1 /\ Len(b) = Len(s) - k
    /\ \A i \in 1..k - 1 : a[i] = s[i + 1]
    /\ \A i \in 1..Len(s) - k : b[i] = s[i + k]

LEMMA SplitIs ==
  ASSUME NEW s, IsSequence(s), NEW k \in 1..Len(s)
  PROVE  Split(s, k, Tail(SubSeq(s, 1, k)), SubSeq(s, k + 1, Len(s)))
<1>0. PICK a, b : a = Tail(SubSeq(s, 1, k)) /\ b = SubSeq(s, k + 1, Len(s)) OBVIOUS
<1>. DEFINE S == {s[i] : i \in DOMAIN s}
            n == Len(s)
            h == <<s[1]>>
<1>1. s \in Seq(S) BY DEF IsSequence
<1>2. n \in Nat /\ k \in 1..n /\ \A i \in 1..n : s[i] \in S BY <1>1, LenProperties, ElementOfSeq
<1>3. h \in Seq(S) /\ Len(h) = 1 /\ h[1] = s[1]
  <2>1. s[1] \in S BY <1>2
  <2>. QED BY <2>1
<1>. HIDE DEF S, n, h
<1>4. a \in Seq(S) /\ Len(a) = k - 1 /\ \A i \in 1..k - 1 : a[i] = s[i + 1]
  <2>. DEFINE u == SubSeq(s, 1, k)
  <2>1. k \in 0..Len(s) BY <1>2 DEF n
  <2>2. IsSequence(u) /\ Len(u) = k /\ \A i \in 1..k : u[i] = s[i] BY <2>1, CutIs
  <2>3. u \in Seq(S)
    <3>1. 1 \in Int /\ k \in Int /\ \A i \in 1..k : s[i] \in S BY <1>2
    <3>2. \A i \in 1..k : i \in DOMAIN s BY <1>1, <1>2, LenProperties DEF n
    <3>. QED BY <1>1, <1>2, <3>1, <3>2, SubSeqProperties DEF n
  <2>. HIDE DEF u
  <2>4. u # <<>> BY <1>2, <2>2, <2>3, EmptySeq
  <2>5. /\ Tail(u) \in Seq(S) /\ Len(Tail(u)) = Len(u) - 1
        /\ \A i \in 1..Len(Tail(u)) : Tail(u)[i] = u[i + 1]
    BY <2>3, <2>4, HeadTailProperties
  <2>6. a = Tail(u) BY <1>0 DEF u
  <2>7. \A i \in 1..k - 1 : i + 1 \in 1..k BY <1>2
  <2>. QED BY <2>2, <2>5, <2>6, <2>7
<1>5. b \in Seq(S) /\ Len(b) = n - k /\ \A i \in 1..n - k : b[i] = s[i + k]
  <2>1. b = SubSeq(s, k + 1, n) /\ k + 1 \in Int /\ n \in Int BY <1>0, <1>2 DEF n
  <2>. QED BY <1>1, <1>2, <2>1 DEF n
<1>. DEFINE c == h \o a
            d == c \o b
<1>10. IsSequence(a) /\ IsSequence(b) /\ IsSequence(h) BY <1>3, <1>4, <1>5, SequenceIs
<1>6. /\ IsSequence(c) /\ Len(c) = Len(h) + Len(a)
      /\ \A i \in 1..Len(h) : c[i] = h[i]
      /\ \A i \in 1..Len(a) : c[i + Len(h)] = a[i]
  <2>1. IsSequence(h) /\ IsSequence(a) BY <1>10
  <2>. QED BY ONLY <2>1, JoinedIs DEF c
<1>. HIDE DEF c
<1>7. /\ IsSequence(d) /\ Len(d) = Len(c) + Len(b)
      /\ \A i \in 1..Len(c) : d[i] = c[i]
      /\ \A i \in 1..Len(b) : d[i + Len(c)] = b[i]
  <2>1. IsSequence(c) /\ IsSequence(b) BY <1>6, <1>10
  <2>. QED BY ONLY <2>1, JoinedIs DEF d
<1>. HIDE DEF d
<1>11. Len(c) = k /\ Len(d) = n BY <1>2, <1>3, <1>4, <1>5, <1>6, <1>7
<1>8. ASSUME NEW i \in 1..n PROVE d[i] = s[i]
  <2>1. CASE i = 1
    <3>1. 1 \in 1..Len(c) /\ 1 \in 1..Len(h) BY <1>2, <1>3, <1>11
    <3>. QED BY <1>3, <1>6, <1>7, <2>1, <3>1
  <2>2. CASE i \in 2..k
    <3>1. i \in 1..Len(c) /\ i - 1 \in 1..Len(a) /\ i - 1 \in 1..k - 1
          /\ (i - 1) + Len(h) = i /\ (i - 1) + 1 = i
      BY <1>2, <1>3, <1>4, <1>11, <2>2
    <3>2. d[i] = c[i] /\ c[(i - 1) + Len(h)] = a[i - 1] BY <1>6, <1>7, <3>1
    <3>. QED BY <1>4, <3>1, <3>2
  <2>3. CASE i > k
    <3>1. i - k \in 1..Len(b) /\ i - k \in 1..n - k /\ (i - k) + Len(c) = i /\ (i - k) + k = i
      BY <1>2, <1>5, <1>11, <2>3
    <3>2. d[(i - k) + Len(c)] = b[i - k] BY <1>7, <3>1
    <3>. QED BY <1>5, <3>1, <3>2
  <2>. QED BY <1>2, <2>1, <2>2, <2>3
<1>9. d = s
  <2>1. IsSequence(d) /\ IsSequence(s) BY <1>7
  <2>2. PICK U : d \in Seq(U) /\ s \in Seq(U) BY <2>1, CommonType
  <2>3. Len(d) = Len(s) /\ \A i \in 1..Len(d) : d[i] = s[i] BY <1>8, <1>11 DEF n
  <2>. QED BY <2>2, <2>3, SeqEqual
<1>. QED BY <1>0, <1>4, <1>5, <1>9, <1>10 DEF d, c, h, n, Split

\* What a run left on the disk tells of its finished frames all that the run wrote.
LEMMA LeftTells ==
  ASSUME LinesInv, WrittenInv, NEW k \in flushed..Len(trace_lines), k >= 1,
         NEW ls, ls = Tail(SubSeq(trace_lines, 1, k)), NEW f \in 0..Len(saw) - 1,
         NEW kind \in {"input", "coach"}
  PROVE  OfFrame(ls, f, kind) = OfFrame(trace_lines, f, kind)
<1>. DEFINE n == Len(trace_lines)
            rest == SubSeq(trace_lines, k + 1, n)
            run == <<RunLine>>
<1>1. /\ IsSequence(trace_lines) /\ n \in Nat /\ flushed \in 0..n /\ k \in 1..n
      /\ Len(saw) \in Nat
  BY SequenceIs DEF LinesInv, IsSequence
<1>2. /\ trace_lines = (run \o ls) \o rest
      /\ IsSequence(ls) /\ IsSequence(rest) /\ Len(rest) = n - k
      /\ \A i \in 1..n - k : rest[i] = trace_lines[i + k]
  <2>1. PICK s, b : s = trace_lines /\ b = SubSeq(trace_lines, k + 1, n) OBVIOUS
  <2>2. /\ IsSequence(s) /\ k \in 1..Len(s) /\ ls = Tail(SubSeq(s, 1, k))
        /\ b = SubSeq(s, k + 1, Len(s))
    BY <1>1, <2>1
  <2>3. /\ s = (<<s[1]>> \o ls) \o b
        /\ IsSequence(ls) /\ IsSequence(b) /\ Len(b) = Len(s) - k
        /\ \A i \in 1..Len(s) - k : b[i] = s[i + k]
    <3>1. Split(s, k, Tail(SubSeq(s, 1, k)), SubSeq(s, k + 1, Len(s)))
      BY <2>2, SplitIs
    <3>2. Split(s, k, ls, b) BY <2>2, <3>1
    <3>. QED BY <3>2 DEF Split
  <2>4. trace_lines[1] = RunLine BY DEF WrittenInv
  <2>. QED BY <2>1, <2>3, <2>4
<1>3. \A i \in 1..Len(rest) : ~ (rest[i].f = f /\ rest[i].k = kind)
  <2>1. \A i \in 1..n - k : i + k \in flushed + 1..n BY <1>1
  <2>2. \A i \in 1..n - k : rest[i].f = Len(saw) BY <1>2, <2>1 DEF WrittenInv
  <2>3. f # Len(saw) BY <1>1
  <2>. QED BY <1>2, <2>2, <2>3
<1>4. \A i \in 1..Len(run) : ~ (run[i].f = f /\ run[i].k = kind)
  <2>1. Len(run) = 1 /\ run[1] = RunLine /\ RunLine.k = "run" BY OneIs DEF RunLine
  <2>. QED BY <2>1
<1>5. IsSequence(run) BY OneIs
<1>. HIDE DEF n, rest, run
<1>6. OfFrame(run \o ls, f, kind) = OfFrame(ls, f, kind)
  BY <1>2, <1>4, <1>5, OthersPass
<1>7. IsSequence(run \o ls) BY <1>2, <1>5, JoinedIs
<1>8. OfFrame((run \o ls) \o rest, f, kind) = OfFrame(run \o ls, f, kind)
  <2>1. IsSequence(rest) BY <1>2
  <2>. QED BY <1>3, <1>7, <2>1, OthersPass
<1>. QED BY <1>2, <1>6, <1>8

LEMMA LoadTells ==
  ASSUME LinesInv, LeftInv, WrittenInv, SawShape, NEW hold, Load(hold)
  PROVE  LoadedInv'
<1>. DEFINE n == Len(saw)
            m == Len(trace_lines)
<1>1. UNCHANGED saw /\ trace_step = "over" BY DEF Load
<1>2. PICK k \in flushed..m : trace_file.lines = SubSeq(trace_lines, 1, k)
  BY <1>1 DEF LeftInv
<1>3. /\ IsSequence(trace_lines) /\ m \in Nat /\ flushed \in 0..m /\ k \in 0..m /\ n \in Nat
      /\ \A i \in 1..m : trace_lines[i].f \in 0..n
  BY <1>2, SequenceIs DEF LinesInv, IsSequence, WrittenInv
<1>4. PICK lines, ls : lines = SubSeq(trace_lines, 1, k) /\ ls = Tail(lines) OBVIOUS
<1>5. IsSequence(lines) /\ Len(lines) = k
  <2>1. k \in 0..Len(trace_lines) BY <1>3
  <2>. QED BY <1>3, <1>4, <2>1, CutIs
<1>6. \/ trace_step' = "refused"
      \/ lines # <<>> /\ loaded_trace' = Buckets(ls)
  BY <1>2, <1>4 DEF Load, Decode
<1>7. CASE trace_step' = "refused" BY <1>7 DEF LoadedInv, Loaded
<1>8. CASE lines # <<>> /\ loaded_trace' = Buckets(ls)
  <2>1. k >= 1
    <3>1. k # 0 BY <1>5, <1>8, EmptySeq DEF IsSequence
    <3>. QED BY <1>3, <3>1
  <2>2. ls = Tail(SubSeq(trace_lines, 1, k)) BY <1>4
  <2>3. IsSequence(ls) /\ Len(ls) = k - 1 /\ \A i \in 1..k - 1 : ls[i] = trace_lines[i + 1]
    <3>1. PICK b : b = SubSeq(trace_lines, k + 1, m) OBVIOUS
    <3>2. k \in 1..Len(trace_lines) BY <1>3, <2>1
    <3>3. Split(trace_lines, k, Tail(SubSeq(trace_lines, 1, k)), SubSeq(trace_lines, k + 1, Len(trace_lines)))
      BY <1>3, <3>2, SplitIs
    <3>4. Split(trace_lines, k, ls, b) BY <2>2, <3>1, <3>3
    <3>. QED BY <3>4 DEF Split
  <2>4. \A i \in 1..Len(ls) : ls[i].f \in 0..n
    <3>1. \A i \in 1..k - 1 : i + 1 \in 1..m BY <1>3
    <3>. QED BY <1>3, <2>3, <3>1
  <2>5. \A f \in 0..n - 1 : \E i \in 1..Len(ls) : ls[i].f = f
    <3>. SUFFICES ASSUME NEW f \in 0..n - 1 PROVE \E i \in 1..Len(ls) : ls[i].f = f
      OBVIOUS
    <3>1. PICK i \in 2..flushed : trace_lines[i].f = f BY DEF LinesInv
    <3>2. i - 1 \in 1..k - 1 /\ (i - 1) + 1 = i BY <1>2, <1>3, <3>1
    <3>. QED BY <2>3, <3>1, <3>2
  <2>6. \A f \in 0..n - 1, kind \in {"input", "coach"} :
          OfFrame(ls, f, kind) = OfFrame(trace_lines, f, kind)
    BY <1>2, <2>1, <2>2, LeftTells
  <2>. HIDE DEF n, m
  <2>7. /\ IsSequence(Buckets(ls)) /\ Len(Buckets(ls)) >= n
        /\ \A j \in 1..Len(Buckets(ls)) : IsSequence(Buckets(ls)[j].inputs)
        /\ \A j \in 1..n : Buckets(ls)[j] = Bucket(ls, j - 1)
    BY ONLY <1>3, <2>3, <2>4, <2>5, BucketsInOrder
  <2>8. ASSUME NEW j \in 1..n
        PROVE  Bucket(ls, j - 1).inputs = saw[j].inputs
               /\ Bucket(ls, j - 1).coach = CoachReads(saw[j])
    <3>1. j - 1 \in 0..n - 1 BY <1>3
    <3>2. Written(trace_lines, j - 1, saw[j].inputs, CoachReads(saw[j])) BY DEF WrittenInv, n
    <3>3. Written(ls, j - 1, saw[j].inputs, CoachReads(saw[j])) BY <2>6, <3>1, <3>2 DEF Written
    <3>4. saw[j].inputs \in InputBatches BY DEF SawShape, n
    <3>5. IsSequence(saw[j].inputs) /\ IsSequence(CoachReads(saw[j]))
      BY <3>4, BatchIs, CoachReadsAre
    <3>. QED BY <3>3, <3>5, BucketIs
  <2>. QED BY <1>1, <1>8, <2>7, <2>8 DEF LoadedInv, n
<1>. QED BY <1>6, <1>7, <1>8

\* The pointer is where the inputs last took it, or where it was.
LEMMA PointerIs ==
  ASSUME NEW inputs, IsSequence(inputs), NEW cursor
  PROVE  /\ CursorAfter(cursor, inputs) \in {cursor, "recorded", NoCursor}
         /\ Len(inputs) = 0 => CursorAfter(cursor, inputs) = cursor
<1>. DEFINE n == Len(inputs)
            U == {cursor, "recorded", NoCursor}
            Go(i, q) == IF inputs[i] = Moved THEN "recorded"
                        ELSE IF inputs[i] = Left THEN NoCursor ELSE q
            G == [v \in Nat \X U |-> IF v[1] = 0 THEN cursor ELSE Go(v[1], v[2])]
            Next(p, i) == CASE i = 0 -> cursor
                            [] i > 0 /\ inputs[i] = Moved -> "recorded"
                            [] i > 0 /\ inputs[i] = Left -> NoCursor
                            [] OTHER -> p[i - 1]
            Is(p) == p = [i \in 0..n |-> Next(p, i)]
<1>1. n \in Nat /\ cursor \in U BY SequenceIs DEF IsSequence
<1>. HIDE DEF n
<1>2. G \in [Nat \X U -> U]
  <2>1. \A v \in Nat \X U : (IF v[1] = 0 THEN cursor ELSE Go(v[1], v[2])) \in U OBVIOUS
  <2>. HIDE DEF U, Go
  <2>. QED BY <2>1
<1>3. ASSUME NEW k \in 1..n, NEW q \in U PROVE G[<<k, q>>] = Go(k, q)
  <2>1. <<k, q>> \in Nat \X U /\ <<k, q>>[1] = k /\ <<k, q>>[2] = q /\ k # 0 BY <1>1
  <2>. HIDE DEF U, Go
  <2>. QED BY <2>1
<1>. HIDE DEF G, U
<1>4. PICK f \in [0..n -> U] : Iterated(f, G, cursor, 0, n)
  <2>1. 0 \in Nat OBVIOUS
  <2>. QED BY <1>1, <1>2, <2>1, Iterates
<1>5. \A p : Next(p, 0) = cursor OBVIOUS
<1>6. ASSUME NEW k \in 1..n, NEW p PROVE Next(p, k) = Go(k, p[k - 1])
  <2>1. k # 0 /\ k > 0 BY <1>1
  <2>2. Moved # Left BY DEF Moved, Left
  <2>. QED BY <2>1, <2>2
<1>. HIDE DEF Next
<1>7. \A k \in 0..n : f[k] = Next(f, k)
  <2>. SUFFICES ASSUME NEW k \in 0..n PROVE f[k] = Next(f, k)
    OBVIOUS
  <2>1. CASE k = 0
    <3>1. f[0] = cursor BY <1>1, <1>4, <2>1 DEF Iterated
    <3>. QED BY <1>5, <2>1, <3>1
  <2>2. CASE k \in 1..n
    <3>1. k - 1 \in 0..n /\ k # 0 BY <1>1, <2>2
    <3>2. f[k - 1] \in U BY <3>1
    <3>3. f[k] = G[<<k, f[k - 1]>>] BY <1>4, <3>1 DEF Iterated
    <3>4. G[<<k, f[k - 1]>>] = Go(k, f[k - 1]) BY <1>3, <2>2, <3>2
    <3>5. Next(f, k) = Go(k, f[k - 1]) BY <1>6, <2>2
    <3>. QED BY <3>3, <3>4, <3>5
  <2>. QED BY <1>1, <2>1, <2>2
<1>8. Is(f)
  <2>1. f = [i \in 0..n |-> f[i]] OBVIOUS
  <2>. QED BY <1>7, <2>1
<1>. DEFINE g == CHOOSE p : Is(p)
<1>9. Is(g)
  <2>1. \E p : Is(p) BY <1>8
  <2>. HIDE DEF Is
  <2>. QED BY <2>1
<1>10. CursorAfter(cursor, inputs) = g[n] BY DEF CursorAfter, Next, n
<1>. HIDE DEF g
<1>11. \A k \in 0..n : g[k] = Next(g, k)
  <2>1. \A k \in 0..n : [i \in 0..n |-> Next(g, i)][k] = Next(g, k) OBVIOUS
  <2>2. g = [i \in 0..n |-> Next(g, i)] BY <1>9
  <2>. HIDE DEF Is
  <2>. QED BY <2>1, <2>2
<1>12. g[0] = cursor
  <2>1. 0 \in 0..n BY <1>1
  <2>. QED BY <1>5, <1>11, <2>1
<1>13. \A k \in 0..n : g[k] \in U
  <2>. DEFINE T == {k \in 0..n : g[k] \in U}
  <2>1. 0 <= n => 0 \in T BY <1>1, <1>12
  <2>2. ASSUME NEW k \in 0..n, k < n, k \in T PROVE k + 1 \in T
    <3>1. k + 1 \in 1..n /\ (k + 1) - 1 = k /\ k + 1 \in 0..n BY <1>1, <2>2
    <3>2. g[k + 1] = Next(g, k + 1) BY <1>11, <3>1
    <3>3. Next(g, k + 1) = Go(k + 1, g[k]) BY <1>6, <3>1
    <3>4. Go(k + 1, g[k]) \in {"recorded", NoCursor, g[k]} OBVIOUS
    <3>5. g[k + 1] \in U BY <2>2, <3>2, <3>3, <3>4 DEF U
    <3>. QED BY <3>1, <3>5
  <2>. HIDE DEF T
  <2>3. 0..n \subseteq T BY <1>1, <2>1, <2>2, RangeInduction, 0 \in Nat
  <2>. QED BY <2>3 DEF T
<1>14. n \in 0..n BY <1>1
<1>. QED BY <1>10, <1>12, <1>13, <1>14 DEF U, n

-----------------------------------------------------------------------------
(* The replay, frame by frame. *)

\* Until something is loaded the driver is at the first frame and has served none.
StartInv ==
    /\ trace_step \notin Loaded =>
         /\ driver.cursor = 1 /\ driver.serving = 0 /\ driver.replay_cursor = NoCursor
         /\ replay_reads.music = NoScale /\ replay_reads.events = <<>>
         /\ replay_reads.drained = <<>>
    /\ trace_step \in {"over", "refused"} => frame_read.music = NoScale

\* After as many of its frames the replay is where the run was.
AtFrame(k, m) ==
    k <= Len(saw) => /\ replay_reads.music = m[k]
                     /\ driver.replay_cursor = CursorBefore(k + 1)

\* Between two frames nothing is left over of those served.
RestInv(m) ==
    trace_step \in Loaded =>
        /\ driver.cursor \in Nat \ {0} /\ driver.replay_cursor # "live"
        /\ AtFrame(driver.cursor - 1, m)
        /\ trace_step # "read" =>
             /\ replay_reads.events \in Answered /\ replay_reads.drained = <<>>
             /\ driver.cursor - 1 <= Len(saw) => frame_read.music = m[driver.cursor - 1]

\* What the window is given of a frame.
ServedInv ==
    trace_step \in {"read", "shown"} =>
        /\ frame_read.cursor # "live"
        /\ driver.serving \in {0, driver.cursor - 1}
        /\ driver.serving = 0 => frame_read.inputs = <<>>
        /\ driver.serving \in 1..Len(saw) =>
             /\ frame_read.inputs = Decoded(saw[driver.serving].inputs)
             /\ frame_read.cursor = saw[driver.serving].cursor

\* What the replayed coach has ready for the head's polls, and what the head then has.
Served(k) ==
    LET was == saw[k]
    IN /\ replay_reads.drained = was.drained
       /\ was.latest # NoSnapshot => replay_reads.latest = was.latest
       /\ \/ replay_reads.events = was.events
          \/ was.events = <<>> /\ replay_reads.events \in Answered
Displayed(k) ==
    LET was == saw[k]
    IN /\ frame_read.drained = was.drained
       /\ was.latest # NoSnapshot => frame_read.latest = was.latest
       /\ Recorded(frame_read.events) = was.events
ReadInv(m) ==
    /\ trace_step = "read" /\ driver.serving \in 1..Len(saw) =>
         Served(driver.serving) /\ frame_read.music = m[driver.serving - 1]
    /\ trace_step = "read" /\ driver.serving = 0 =>
         /\ replay_reads.events \in Answered
         /\ driver.cursor - 1 <= Len(saw) => frame_read.music = m[driver.cursor - 1]
ShownInv(m) ==
    trace_step = "shown" /\ driver.serving \in 1..Len(saw) =>
        Displayed(driver.serving) /\ frame_read.music = m[driver.serving]

ReplayInv(m) == RestInv(m) /\ ServedInv /\ ReadInv(m) /\ ShownInv(m)

-----------------------------------------------------------------------------
DriverFields == {"cursor", "serving", "replay_cursor", "hold"}

LEMMA DecodedIs ==
  ASSUME NEW inputs, IsSequence(inputs), NEW stray
  PROVE  /\ ResetInputs(stray) \o Decoded(inputs) = Decoded(inputs)
         /\ inputs = <<>> => Decoded(inputs) = <<>>
<1>. DEFINE S == {inputs[i] : i \in DOMAIN inputs}
<1>1. inputs \in Seq(S) BY DEF IsSequence
<1>. HIDE DEF S
<1>2. Decoded(inputs) \in Seq(S) BY <1>1, AmongType DEF Decoded
<1>3. <<>> \o Decoded(inputs) = Decoded(inputs) BY <1>2, ConcatEmptySeq
<1>. QED BY <1>3, EmptyAmong DEF ResetInputs, Decoded

\* Past the last frame nothing is served.
LEMMA DrivePast ==
  ASSUME DOMAIN frame_read = FrameFields, ReplayShape, NEW stray, Drive(stray),
         driver.cursor > Len(loaded_trace)
  PROVE  /\ DOMAIN frame_read' = FrameFields /\ ReplayShape'
         /\ frame_read'.inputs = <<>> /\ frame_read'.cursor = driver.replay_cursor
         /\ frame_read'.music = frame_read.music
         /\ driver'.cursor = driver.cursor /\ driver'.serving = 0
         /\ driver'.replay_cursor = driver.replay_cursor /\ UNCHANGED replay_reads
<1>. DEFINE in == ResetInputs(stray) \o Decoded(<<>>)
            to == CursorAfter(driver.replay_cursor, <<>>)
<1>1. in = <<>> /\ to = driver.replay_cursor BY EmptyIs, DecodedIs, PointerIs
<1>2. /\ frame_read' = [frame_read EXCEPT !.inputs = in, !.cursor = to]
      /\ driver' = [driver EXCEPT !.cursor = driver.cursor, !.serving = 0, !.replay_cursor = to]
      /\ UNCHANGED replay_reads
  BY DEF Drive, EnforceCursor
<1>. HIDE DEF in, to
<1>3. /\ DOMAIN frame_read' = FrameFields /\ frame_read'.inputs = in /\ frame_read'.cursor = to
      /\ frame_read'.music = frame_read.music
  BY <1>2 DEF FrameFields
<1>4. /\ DOMAIN driver' = DriverFields /\ driver'.cursor = driver.cursor /\ driver'.serving = 0
      /\ driver'.replay_cursor = to
  BY <1>2 DEF ReplayShape, DriverFields
<1>. QED BY <1>1, <1>2, <1>3, <1>4 DEF ReplayShape, DriverFields

LEMMA DriveServes ==
  ASSUME DOMAIN frame_read = FrameFields, ReplayShape, NEW stray, Drive(stray),
         NEW k, k = driver.cursor, ~ (k > Len(loaded_trace)),
         NEW inputs, inputs = loaded_trace[k].inputs, IsSequence(inputs),
         NEW reads, reads = loaded_trace[k].coach
  PROVE  /\ DOMAIN frame_read' = FrameFields /\ ReplayShape'
         /\ frame_read'.inputs = Decoded(inputs)
         /\ frame_read'.cursor = CursorAfter(driver.replay_cursor, inputs)
         /\ frame_read'.music = frame_read.music
         /\ driver'.cursor = k + 1 /\ driver'.serving = k
         /\ driver'.replay_cursor = CursorAfter(driver.replay_cursor, inputs)
         /\ reads = <<>> => UNCHANGED replay_reads
         /\ reads # <<>> =>
              /\ replay_reads'.events = Last(reads).events
              /\ replay_reads'.latest = Last(reads).latest
              /\ replay_reads'.drained = Last(reads).drained
              /\ replay_reads'.music = MusicAfter(replay_reads.music, Last(reads).events)
<1>. DEFINE in == ResetInputs(stray) \o Decoded(inputs)
            to == CursorAfter(driver.replay_cursor, inputs)
<1>1. in = Decoded(inputs) BY DecodedIs
<1>2. /\ frame_read' = [frame_read EXCEPT !.inputs = in, !.cursor = to]
      /\ driver' = [driver EXCEPT !.cursor = driver.cursor + 1, !.serving = k, !.replay_cursor = to]
      /\ IF reads = <<>> THEN UNCHANGED replay_reads ELSE LoadFrame(Last(reads))
  BY DEF Drive, EnforceCursor
<1>. HIDE DEF in, to
<1>3. /\ DOMAIN frame_read' = FrameFields /\ frame_read'.inputs = in /\ frame_read'.cursor = to
      /\ frame_read'.music = frame_read.music
  BY <1>2 DEF FrameFields
<1>4. /\ DOMAIN driver' = DriverFields /\ driver'.cursor = k + 1 /\ driver'.serving = k
      /\ driver'.replay_cursor = to
  BY <1>2 DEF ReplayShape, DriverFields
<1>5. CASE reads = <<>>
  BY <1>1, <1>2, <1>3, <1>4, <1>5 DEF ReplayShape, DriverFields, to
<1>6. CASE reads # <<>>
  <2>. DEFINE scale == MusicAfter(replay_reads.music, Last(reads).events)
  <2>1. replay_reads' = [events |-> Last(reads).events, latest |-> Last(reads).latest,
                         drained |-> Last(reads).drained, music |-> scale]
    BY <1>2, <1>6 DEF LoadFrame
  <2>. HIDE DEF scale
  <2>2. /\ DOMAIN replay_reads' = {"events", "latest", "drained", "music"}
        /\ replay_reads'.events = Last(reads).events /\ replay_reads'.latest = Last(reads).latest
        /\ replay_reads'.drained = Last(reads).drained /\ replay_reads'.music = scale
    BY <2>1
  <2>. QED BY <1>1, <1>3, <1>4, <1>6, <2>2 DEF ReplayShape, DriverFields, to, scale
<1>. QED BY <1>5, <1>6

LEMMA ReadIs ==
  ASSUME DOMAIN frame_read = FrameFields, ReplayShape, ReadFrame
  PROVE  \E before \in Answered, after \in Answered :
           LET events == replay_reads.events \o before
           IN /\ DOMAIN frame_read' = FrameFields /\ ReplayShape'
              /\ frame_read'.events = events /\ frame_read'.latest = replay_reads.latest
              /\ frame_read'.drained = replay_reads.drained
              /\ frame_read'.music = IF Configures(events) = <<>> THEN frame_read.music
                                     ELSE replay_reads.music
              /\ frame_read'.inputs = frame_read.inputs /\ frame_read'.cursor = frame_read.cursor
              /\ replay_reads'.events = after /\ replay_reads'.drained = <<>>
              /\ replay_reads'.music = replay_reads.music /\ UNCHANGED driver
<1>. DEFINE before == Answers("before")
            after == Answers("after")
            events == replay_reads.events \o before
            music == IF Configures(events) = <<>> THEN frame_read.music ELSE replay_reads.music
<1>1. before \in Answered /\ after \in Answered BY DEF Answers, Answered
<1>2. /\ frame_read' = [frame_read EXCEPT !.events = events, !.latest = replay_reads.latest,
                                          !.drained = replay_reads.drained, !.music = music]
      /\ replay_reads' = [replay_reads EXCEPT !.events = after, !.drained = <<>>]
      /\ UNCHANGED driver
  BY DEF ReadFrame
<1>. HIDE DEF before, after, events, music
<1>3. /\ DOMAIN frame_read' = FrameFields /\ frame_read'.events = events
      /\ frame_read'.latest = replay_reads.latest /\ frame_read'.drained = replay_reads.drained
      /\ frame_read'.music = music /\ frame_read'.inputs = frame_read.inputs
      /\ frame_read'.cursor = frame_read.cursor
  BY <1>2 DEF FrameFields
<1>4. /\ DOMAIN replay_reads' = {"events", "latest", "drained", "music"}
      /\ replay_reads'.events = after /\ replay_reads'.drained = <<>>
      /\ replay_reads'.music = replay_reads.music
  BY <1>2 DEF ReplayShape
<1>. QED BY <1>1, <1>2, <1>3, <1>4 DEF events, music, ReplayShape

LEMMA LoadStarts ==
  ASSUME StartInv, ReplayShape, IsSequence(saw), NEW m, MusicFolds(m), NEW hold, Load(hold)
  PROVE  StartInv' /\ ReplayShape' /\ ReplayInv(m)'
<1>1. /\ UNCHANGED <<frame_read, saw, replay_reads>> /\ trace_step = "over"
      /\ \/ trace_step' = "refused" /\ UNCHANGED driver
         \/ trace_step' = "drive" /\ driver' = [driver EXCEPT !.hold = hold]
  BY DEF Load
<1>2. /\ driver'.cursor = 1 /\ driver'.serving = 0 /\ driver'.replay_cursor = NoCursor
      /\ DOMAIN driver' = DriverFields
  BY <1>1 DEF StartInv, ReplayShape, DriverFields, Loaded
<1>3. ReplayShape' BY <1>1, <1>2 DEF ReplayShape, DriverFields
<1>4. /\ replay_reads'.music = NoScale /\ replay_reads'.events = <<>>
      /\ replay_reads'.drained = <<>> /\ frame_read'.music = NoScale
  BY <1>1 DEF StartInv, Loaded
<1>5. StartInv' BY <1>1, <1>2, <1>4 DEF StartInv
<1>6. AtFrame(driver.cursor - 1, m)'
  <2>1. m[0] = NoScale /\ driver'.cursor - 1 = 0 BY <1>2 DEF MusicFolds
  <2>2. (CursorBefore(driver.cursor - 1 + 1))' = NoCursor BY <1>2 DEF CursorBefore
  <2>. QED BY <1>2, <1>4, <2>1, <2>2 DEF AtFrame
<1>7. RestInv(m)'
  <2>1. NoCursor # "live" BY DEF NoCursor
  <2>2. m[0] = NoScale /\ driver'.cursor - 1 = 0 BY <1>2 DEF MusicFolds
  <2>. QED BY <1>1, <1>2, <1>4, <1>6, <2>1, <2>2 DEF RestInv, Loaded, Answered
<1>8. ReplayInv(m)' BY <1>1, <1>7 DEF ReplayInv, ServedInv, ReadInv, ShownInv
<1>. QED BY <1>3, <1>5, <1>8

\* A frame of the run is served as the run had it.
LEMMA DriveKeeps ==
  ASSUME DOMAIN frame_read = FrameFields, ReplayShape, SawShape, IsSequence(saw), CursorInv,
         trace_step \in Loaded => Len(loaded_trace) >= Len(saw),
         LoadedInv, NEW m, MusicFolds(m), ReplayInv(m), NEW stray, Drive(stray)
  PROVE  DOMAIN frame_read' = FrameFields /\ ReplayShape' /\ ReplayInv(m)'
<1>0. PICK k : k = driver.cursor OBVIOUS
<1>. DEFINE n == Len(saw)
<1>1. UNCHANGED <<saw, loaded_trace>> /\ trace_step = "drive" /\ trace_step' = "read"
  BY DEF Drive
<1>2. /\ IsSequence(loaded_trace) /\ Len(loaded_trace) \in Nat /\ n \in Nat
      /\ Len(loaded_trace) >= n
  BY <1>1, SequenceIs DEF LoadedInv, Loaded, IsSequence
<1>3. /\ k \in Nat \ {0} /\ driver.replay_cursor # "live" /\ AtFrame(k - 1, m)
      /\ replay_reads.events \in Answered /\ replay_reads.drained = <<>>
      /\ k - 1 <= n => frame_read.music = m[k - 1]
  BY <1>0, <1>1 DEF ReplayInv, RestInv, Loaded
<1>4. CASE k > Len(loaded_trace)
  <2>1. /\ DOMAIN frame_read' = FrameFields /\ ReplayShape'
        /\ frame_read'.inputs = <<>> /\ frame_read'.cursor = driver.replay_cursor
        /\ frame_read'.music = frame_read.music
        /\ driver'.cursor = driver.cursor /\ driver'.serving = 0
        /\ driver'.replay_cursor = driver.replay_cursor /\ UNCHANGED replay_reads
    BY <1>0, <1>4, DrivePast
  <2>2. AtFrame(driver.cursor - 1, m)'
    BY <1>0, <1>1, <1>3, <2>1 DEF AtFrame, CursorBefore
  <2>3. RestInv(m)' BY <1>0, <1>1, <1>3, <2>1, <2>2 DEF RestInv
  <2>4. ServedInv' BY <1>0, <1>1, <1>3, <2>1 DEF ServedInv
  <2>5. ReadInv(m)' /\ ShownInv(m)' BY <1>0, <1>1, <1>3, <2>1 DEF ReadInv, ShownInv
  <2>. QED BY <2>1, <2>3, <2>4, <2>5 DEF ReplayInv
<1>5. CASE ~ (k > Len(loaded_trace))
  <2>. DEFINE inputs == loaded_trace[k].inputs
              reads == loaded_trace[k].coach
              to == CursorAfter(driver.replay_cursor, inputs)
  <2>0. k \in 1..Len(loaded_trace) BY <1>2, <1>3, <1>5
  <2>1. IsSequence(inputs) BY <1>1, <2>0 DEF LoadedInv, Loaded
  <2>2. /\ DOMAIN frame_read' = FrameFields /\ ReplayShape'
        /\ frame_read'.inputs = Decoded(inputs) /\ frame_read'.cursor = to
        /\ frame_read'.music = frame_read.music
        /\ driver'.cursor = k + 1 /\ driver'.serving = k /\ driver'.replay_cursor = to
        /\ reads = <<>> => UNCHANGED replay_reads
        /\ reads # <<>> =>
             /\ replay_reads'.events = Last(reads).events
             /\ replay_reads'.latest = Last(reads).latest
             /\ replay_reads'.drained = Last(reads).drained
             /\ replay_reads'.music = MusicAfter(replay_reads.music, Last(reads).events)
    BY <1>0, <1>5, <2>1, DriveServes
  <2>3. to # "live"
    <3>1. to \in {driver.replay_cursor, "recorded", NoCursor} BY <2>1, PointerIs
    <3>. QED BY <1>3, <3>1 DEF NoCursor
  <2>4. k + 1 \in Nat \ {0} /\ (k + 1) - 1 = k /\ k # 0 BY <1>3
  <2>5. CASE k > n
    <3>1. AtFrame(driver.cursor - 1, m)' BY <1>1, <1>2, <2>2, <2>4, <2>5 DEF AtFrame
    <3>2. RestInv(m)' BY <1>1, <2>2, <2>3, <2>4, <3>1 DEF RestInv
    <3>3. ServedInv' BY <1>1, <1>2, <2>2, <2>3, <2>4, <2>5 DEF ServedInv
    <3>4. ReadInv(m)' /\ ShownInv(m)' BY <1>1, <1>2, <2>2, <2>4, <2>5 DEF ReadInv, ShownInv
    <3>. QED BY <2>2, <3>2, <3>3, <3>4 DEF ReplayInv
  <2>6. CASE k <= n
    <3>. DEFINE was == saw[k]
    <3>0. k \in 1..n /\ k - 1 <= n BY <1>2, <1>3, <2>6
    <3>1. inputs = was.inputs /\ reads = CoachReads(was) BY <1>1, <3>0 DEF LoadedInv, Loaded
    <3>2. /\ replay_reads.music = m[k - 1] /\ driver.replay_cursor = CursorBefore(k)
          /\ frame_read.music = m[k - 1]
      <4>1. k - 1 + 1 = k BY <1>3
      <4>. QED BY <1>3, <3>0, <4>1 DEF AtFrame
    <3>3. to = was.cursor BY <3>0, <3>1, <3>2 DEF CursorInv
    <3>4. m[k] = MusicAfter(m[k - 1], was.events) BY <3>0 DEF MusicFolds
    <3>5. replay_reads'.music = m[k] /\ Served(k)'
      <4>1. ReadsOf(was).events = was.events /\ ReadsOf(was).latest = was.latest
            /\ ReadsOf(was).drained = was.drained
        BY DEF ReadsOf
      <4>2. CASE reads = <<>>
        <5>1. ReadsOf(was) = EmptyRead
          <6>1. <<ReadsOf(was)>> # <<>> OBVIOUS
          <6>. QED BY <3>1, <4>2, <6>1 DEF CoachReads
        <5>2. was.events = <<>> /\ was.latest = NoSnapshot /\ was.drained = <<>>
          BY <4>1, <5>1 DEF EmptyRead
        <5>3. m[k] = m[k - 1] BY <3>4, <5>2, EmptyEvents
        <5>. QED BY <1>1, <1>3, <2>2, <3>2, <4>2, <5>2, <5>3 DEF Served
      <4>3. CASE reads # <<>>
        <5>1. Last(reads) = ReadsOf(was) BY <3>1, <4>3, CoachReadsAre
        <5>. QED BY <1>1, <2>2, <3>2, <3>4, <4>1, <4>3, <5>1 DEF Served
      <4>. QED BY <4>2, <4>3
    <3>6. AtFrame(driver.cursor - 1, m)'
      <4>1. CursorBefore(k + 1)' = was.cursor BY <1>1, <2>4 DEF CursorBefore
      <4>. QED BY <1>1, <2>2, <2>4, <3>3, <3>5, <4>1 DEF AtFrame
    <3>7. RestInv(m)' BY <1>1, <2>2, <2>3, <2>4, <3>6 DEF RestInv
    <3>8. ServedInv' BY <1>1, <2>2, <2>3, <2>4, <3>1, <3>3 DEF ServedInv
    <3>9. ReadInv(m)' /\ ShownInv(m)'
      BY <1>1, <2>2, <2>4, <3>2, <3>5 DEF ReadInv, ShownInv
    <3>. QED BY <2>2, <3>7, <3>8, <3>9 DEF ReplayInv
  <2>. QED BY <1>2, <1>3, <2>5, <2>6
<1>. QED BY <1>4, <1>5

\* What the head reads of a frame that was served is what it read in the run.
LEMMA ReadKeeps ==
  ASSUME DOMAIN frame_read = FrameFields, ReplayShape, SawShape, Len(saw) \in Nat,
         NEW m, MusicFolds(m), ReplayInv(m), ReadFrame
  PROVE  DOMAIN frame_read' = FrameFields /\ ReplayShape' /\ ReplayInv(m)'
<1>. DEFINE n == Len(saw)
<1>1. UNCHANGED <<saw, loaded_trace>> /\ trace_step = "read" /\ trace_step' = "shown"
  BY DEF ReadFrame
<1>2. PICK k, c : k = driver.serving /\ c = driver.cursor OBVIOUS
<1>a. PICK a : a = replay_reads.events OBVIOUS
<1>b. PICK before \in Answered, after \in Answered :
         LET events == replay_reads.events \o before
         IN /\ DOMAIN frame_read' = FrameFields /\ ReplayShape'
            /\ frame_read'.events = events /\ frame_read'.latest = replay_reads.latest
            /\ frame_read'.drained = replay_reads.drained
            /\ frame_read'.music = IF Configures(events) = <<>> THEN frame_read.music
                                   ELSE replay_reads.music
            /\ frame_read'.inputs = frame_read.inputs /\ frame_read'.cursor = frame_read.cursor
            /\ replay_reads'.events = after /\ replay_reads'.drained = <<>>
            /\ replay_reads'.music = replay_reads.music /\ UNCHANGED driver
  BY ReadIs
<1>c. PICK events : events = a \o before OBVIOUS
<1>3. /\ a = replay_reads.events /\ events = a \o before
      /\ DOMAIN frame_read' = FrameFields /\ ReplayShape'
      /\ frame_read'.events = events /\ frame_read'.latest = replay_reads.latest
      /\ frame_read'.drained = replay_reads.drained
      /\ frame_read'.music = IF Configures(events) = <<>> THEN frame_read.music
                                ELSE replay_reads.music
      /\ frame_read'.inputs = frame_read.inputs /\ frame_read'.cursor = frame_read.cursor
      /\ replay_reads'.events = after /\ replay_reads'.drained = <<>>
      /\ replay_reads'.music = replay_reads.music /\ UNCHANGED driver
  BY <1>a, <1>b, <1>c
<1>4. /\ c \in Nat \ {0} /\ driver.replay_cursor # "live" /\ AtFrame(c - 1, m)
      /\ frame_read.cursor # "live" /\ k \in {0, c - 1}
  BY <1>1, <1>2 DEF ReplayInv, RestInv, ServedInv, Loaded
<1>5. k \in 1..n => Served(k) /\ frame_read.music = m[k - 1] /\ k = c - 1
  BY <1>1, <1>2, <1>4 DEF ReplayInv, ReadInv
<1>6. k = 0 => a \in Answered /\ (c - 1 <= n => frame_read.music = m[c - 1])
  BY <1>1, <1>2, <1>3 DEF ReplayInv, ReadInv
<1>7. ASSUME k \in 1..n
      PROVE  Recorded(events) = saw[k].events /\ frame_read'.music = m[k]
  <2>. DEFINE was == saw[k]
  <2>1. was.events \in Seq(Events) /\ m[k] = MusicAfter(m[k - 1], was.events)
    BY <1>7 DEF SawShape, ReadsAre, MusicFolds
  <2>2. \/ a = was.events
        \/ was.events = <<>> /\ a \in Answered
    BY <1>3, <1>5, <1>7 DEF Served
  <2>3. replay_reads.music = m[k] BY <1>4, <1>5, <1>7 DEF AtFrame
  <2>. HIDE DEF was
  <2>4. a \in Seq(Heard) BY <2>1, <2>2, HeardEvents, AnsweredIs
  <2>5. /\ a \in Seq(Events) => Recorded(events) = a
        /\ a \in Answered => Recorded(events) = <<>>
        /\ Configures(events) = <<>> <=> Configures(a) = <<>>
    BY <1>3, <2>4, RecordedAnswers
  <2>6. Recorded(events) = was.events BY <2>1, <2>2, <2>5
  <2>7. Configures(a) = <<>> => m[k] = m[k - 1]
    <3>1. Configures(a) = <<>> => Configures(was.events) = <<>> BY <2>2, QuietEvents
    <3>. QED BY <2>1, <3>1, MusicQuiet
  <2>8. frame_read'.music = m[k] BY <1>3, <1>5, <1>7, <2>3, <2>5, <2>7
  <2>. QED BY <2>6, <2>8 DEF was
<1>8. ASSUME c - 1 <= n PROVE frame_read'.music = m[c - 1]
  <2>1. CASE k = 0
    <3>1. a \in Answered /\ frame_read.music = m[c - 1] BY <1>6, <1>8, <2>1
    <3>2. a \in Seq(Heard) /\ Configures(a) = <<>> BY <3>1, AnsweredIs, QuietEvents
    <3>3. Configures(events) = <<>> BY <1>3, <3>2, RecordedAnswers
    <3>. QED BY <1>3, <3>1, <3>3
  <2>2. CASE k # 0
    <3>1. k \in 1..n /\ k = c - 1 BY <1>4, <1>8, <2>2
    <3>. QED BY <1>7, <3>1
  <2>. QED BY <2>1, <2>2
<1>9. RestInv(m)'
  <2>1. AtFrame(c - 1, m)' BY <1>1, <1>3, <1>4 DEF AtFrame, CursorBefore
  <2>. QED BY <1>1, <1>2, <1>3, <1>4, <1>8, <2>1 DEF RestInv
<1>10. ServedInv'
  <2>1. /\ k = 0 => frame_read.inputs = <<>>
        /\ k \in 1..n => /\ frame_read.inputs = Decoded(saw[k].inputs)
                         /\ frame_read.cursor = saw[k].cursor
    BY <1>1, <1>2 DEF ReplayInv, ServedInv
  <2>. QED BY <1>1, <1>2, <1>3, <1>4, <2>1 DEF ServedInv
<1>11. ReadInv(m)' BY <1>1 DEF ReadInv
<1>12. ShownInv(m)'
  <2>1. k \in 1..n => Displayed(k)'
    BY <1>1, <1>3, <1>5, <1>7 DEF Served, Displayed
  <2>. QED BY <1>1, <1>2, <1>3, <1>7, <2>1 DEF ShownInv
<1>. QED BY <1>3, <1>9, <1>10, <1>11, <1>12 DEF ReplayInv

LEMMA EndKeeps ==
  ASSUME ReplayShape, NEW m, ReplayInv(m), EndReplayedFrame
  PROVE  ReplayShape' /\ ReplayInv(m)'
<1>1. /\ UNCHANGED <<frame_read, saw, driver, replay_reads>>
      /\ trace_step = "shown" /\ trace_step' \in {"ended", "drive"}
  BY DEF EndReplayedFrame, replaying
<1>. QED BY <1>1 DEF ReplayShape, ReplayInv, RestInv, ServedInv, ReadInv, ShownInv, Loaded,
                     AtFrame, CursorBefore

\* What the replay shows is what the run saw.
LEMMA ReplayShows ==
  ASSUME IsSequence(saw), NEW m, ReplayInv(m), LiveMusicInv(m)
  PROVE  ReplayFollowsTheRun
<1>1. DOMAIN saw = 1..Len(saw) BY SequenceIs DEF IsSequence
<1>2. ReplayIsClosed BY DEF ReplayIsClosed, ReplayInv, ServedInv
<1>3. PICK k : k = driver.serving OBVIOUS
<1>4. ASSUME trace_step = "shown", k \in 1..Len(saw)
      PROVE  /\ Recorded(frame_read.events) = saw[k].events
             /\ frame_read.drained = saw[k].drained
             /\ frame_read.inputs = Decoded(saw[k].inputs)
             /\ frame_read.cursor = saw[k].cursor
             /\ saw[k].latest # NoSnapshot => frame_read.latest = saw[k].latest
             /\ saw[k].settled => frame_read.music = saw[k].music
  <2>1. Displayed(k) /\ frame_read.music = m[k] BY <1>3, <1>4 DEF ReplayInv, ShownInv
  <2>2. saw[k].settled => saw[k].music = m[k] BY <1>4 DEF LiveMusicInv, ScalesSettle
  <2>3. frame_read.inputs = Decoded(saw[k].inputs) /\ frame_read.cursor = saw[k].cursor
    BY <1>3, <1>4 DEF ReplayInv, ServedInv
  <2>. QED BY <2>1, <2>2, <2>3 DEF Displayed
<1>. QED BY <1>1, <1>2, <1>3, <1>4 DEF ReplayFollowsTheRun

\* All that the replay's theorem rests on.
ReplayedInv ==
    /\ TraceInv /\ ShapeInv /\ CopyInv /\ WrittenInv /\ CursorInv /\ StartInv /\ LoadedInv
    /\ \E m : MusicFolds(m) /\ LiveMusicInv(m) /\ ReplayInv(m)

LEMMA NoLines ==
  ASSUME NEW f
  PROVE  InputLines(f, <<>>) = <<>> /\ CoachLines(f, <<>>) = <<>>
<1>1. IsSequence(<<>>) /\ Len(<<>>) = 0 BY EmptyIs
<1>2. /\ IsSequence(InputLines(f, <<>>)) /\ Len(InputLines(f, <<>>)) = 0
      /\ IsSequence(CoachLines(f, <<>>)) /\ Len(CoachLines(f, <<>>)) = 0
  BY <1>1, LinesAre
<1>3. ASSUME NEW s, IsSequence(s), Len(s) = 0 PROVE s = <<>>
  BY <1>3, EmptySeq DEF IsSequence
<1>. QED BY <1>2, <1>3

LEMMA ReplayedInit ==
  ASSUME TraceInit
  PROVE  ReplayedInv
<1>. USE DEF TraceInit
<1>1. /\ saw = <<>> /\ Len(saw) = 0 /\ trace_step = "first" /\ trace_step \in Buffering
      /\ trace_step \notin InFrame \cup Loaded
  BY EmptyIs DEF Buffering, InFrame, Loaded
<1>2. TraceInv BY TraceInitHolds
<1>3. ShapeInv
  <2>1. /\ <<>> \in Seq(Events) /\ <<>> \in Seq(Nat) /\ NoSnapshot \in Nat
    BY DEF NoSnapshot
  <2>2. CoachShape BY <2>1 DEF CoachShape, NewCoach, CoachFields
  <2>3. FrameShape BY <1>1, <2>1 DEF FrameShape, NewHead, FrameFields, ReadsAre
  <2>4. SawShape BY <1>1 DEF SawShape
  <2>5. ReplayShape BY DEF ReplayShape
  <2>. QED BY <2>2, <2>3, <2>4, <2>5 DEF ShapeInv
<1>4. CopyInv BY DEF CopyInv, EmptyBuffer
<1>5. WrittenInv
  <2>1. IsSequence(trace_lines) /\ Len(trace_lines) = 1 /\ trace_lines[1] = RunLine
    BY OneIs
  <2>2. RunLine.f = 0 /\ RunLine.k = "run" BY DEF RunLine
  <2>3. \A kind \in {"input", "coach"} : OfFrame(trace_lines, 0, kind) = <<>>
    <3>1. \A kind \in {"input", "coach"} :
            \A i \in 1..Len(trace_lines) : ~ (trace_lines[i].f = 0 /\ trace_lines[i].k = kind)
      BY <2>1, <2>2
    <3>. QED BY <2>1, <3>1, OfFrameNone
  <2>4. Written(trace_lines, 0, <<>>, <<>>) BY <2>3, NoLines DEF Written
  <2>. QED BY <1>1, <2>1, <2>2, <2>4 DEF WrittenInv
<1>6. CursorInv BY <1>1 DEF CursorInv, CursorBefore, NewHead
<1>7. StartInv BY <1>1 DEF StartInv, NoScale
<1>8. LoadedInv BY <1>1 DEF LoadedInv
<1>9. PICK m : m = [k \in {0} |-> NoScale] OBVIOUS
<1>10. m[0] = NoScale /\ MusicFolds(m) BY <1>1, <1>9 DEF MusicFolds
<1>11. LiveMusicInv(m)
  <2>1. ScalesSettle(m) BY <1>1 DEF ScalesSettle
  <2>2. Pending = <<>> BY EmptyIs, EmptyJoins DEF Pending, NewCoach
  <2>3. Polled = <<>> /\ Unapplied = <<>> BY DEF Polled, Unapplied
  <2>4. coach.music = NoScale /\ frame_read.music = NoScale BY DEF NewCoach, NewHead
  <2>5. \A x : MusicAfter(MusicAfter(x, <<>>), <<>>) = x BY EmptyEvents
  <2>6. Leads(m) BY <1>1, <1>10, <2>2, <2>3, <2>4, <2>5 DEF Leads
  <2>. QED BY <2>1, <2>6 DEF LiveMusicInv
<1>12. ReplayInv(m) BY <1>1 DEF ReplayInv, RestInv, ServedInv, ReadInv, ShownInv
<1>. QED BY <1>2, <1>3, <1>4, <1>5, <1>6, <1>7, <1>8, <1>10, <1>11, <1>12 DEF ReplayedInv

LEMMA ReplayedLive ==
  ASSUME ReplayedInv, LiveStep
  PROVE  ReplayedInv'
<1>1. /\ trace_step \in Buffering /\ trace_step' \in Buffering
      /\ UNCHANGED <<driver, replay_reads>>
  BY DEF LiveStep, PublishMusic, StartSession, StopSession, Change, Announce, ProduceHop,
         BeginFrame, SendListDevices, PollCoachEvents, ApplyEvents, PollLatest, DrainFeatures,
         RecordCoach, FlushWriter, replaying, Living, Buffering, InFrame
<1>2. trace_step' \notin Loaded \cup {"over", "refused"} /\ trace_step \notin Loaded
  BY <1>1 DEF Buffering, InFrame, Loaded
<1>3. TraceInv' BY LiveKeeps DEF ReplayedInv
<1>4. ShapeInv' /\ CopyInv' /\ WrittenInv' /\ CursorInv'
  BY LiveShape, LiveLines DEF ReplayedInv, TraceInv, LinesInv
<1>5. StartInv' BY <1>1, <1>2 DEF ReplayedInv, StartInv
<1>6. LoadedInv' BY <1>2 DEF LoadedInv
<1>7. PICK m : MusicFolds(m) /\ LiveMusicInv(m) BY DEF ReplayedInv
<1>8. MusicGoesOn BY <1>7, LiveMusic DEF ReplayedInv, TraceInv, LinesInv
<1>9. PICK m2 : MusicFolds(m2)' /\ LiveMusicInv(m2)' BY <1>8 DEF MusicGoesOn
<1>10. ReplayInv(m2)'
  <2>1. trace_step' \notin {"read", "shown"} BY <1>2 DEF Loaded
  <2>. QED BY <1>2, <2>1 DEF ReplayInv, RestInv, ServedInv, ReadInv, ShownInv
<1>. QED BY <1>3, <1>4, <1>5, <1>6, <1>9, <1>10 DEF ReplayedInv

LEMMA ReplayedLeave ==
  ASSUME ReplayedInv, Exit \/ Panic \/ Kill
  PROVE  ReplayedInv'
<1>1. PICK left : trace_step \in Buffering /\ Leave(left)
  BY DEF Exit, Panic, Kill, Living, Buffering, InFrame
<1>2. /\ trace_step' = "over" /\ coach' = NewCoach /\ frame_read' = NewHead
      /\ trace_buffer' = EmptyBuffer /\ UNCHANGED <<saw, trace_lines, flushed, driver, replay_reads>>
      /\ trace_step' \notin Loaded \cup Buffering /\ trace_step \notin Loaded
  BY <1>1 DEF Leave, replaying, Loaded, Buffering, InFrame
<1>3. TraceInv' BY LeaveKeeps DEF ReplayedInv
<1>4. ShapeInv'
  <2>1. /\ <<>> \in Seq(Events) /\ <<>> \in Seq(Nat) /\ NoSnapshot \in Nat
    BY DEF NoSnapshot
  <2>2. CoachShape' BY <1>2, <2>1 DEF CoachShape, NewCoach, CoachFields
  <2>3. FrameShape'
    <3>1. DOMAIN NewHead = FrameFields BY DEF NewHead, FrameFields
    <3>. QED BY <1>2, <3>1 DEF FrameShape, Buffering
  <2>4. SawShape' /\ ReplayShape'
    BY <1>2 DEF ReplayedInv, ShapeInv, SawShape, ReplayShape, ReadsAre
  <2>. QED BY <2>2, <2>3, <2>4 DEF ShapeInv
<1>5. CopyInv' BY <1>2 DEF CopyInv, EmptyBuffer
<1>6. WrittenInv' BY <1>2 DEF ReplayedInv, WrittenInv, Buffering, InFrame
<1>7. CursorInv' BY <1>2 DEF ReplayedInv, CursorInv, CursorBefore, Buffering, InFrame
<1>8. StartInv' BY <1>2 DEF ReplayedInv, StartInv, NewHead
<1>9. LoadedInv' BY <1>2 DEF LoadedInv
<1>10. PICK m : MusicFolds(m) /\ LiveMusicInv(m) BY DEF ReplayedInv
<1>11. MusicFolds(m)' /\ LiveMusicInv(m)'
  BY <1>2, <1>10 DEF MusicFolds, LiveMusicInv, ScalesSettle
<1>12. ReplayInv(m)'
  <2>1. trace_step' \notin {"read", "shown"} BY <1>2
  <2>. QED BY <1>2, <2>1 DEF ReplayInv, RestInv, ServedInv, ReadInv, ShownInv
<1>. QED BY <1>3, <1>4, <1>5, <1>6, <1>7, <1>8, <1>9, <1>11, <1>12 DEF ReplayedInv

\* Of what the run had, the replay changes nothing.
LEMMA RunIsKept ==
  ASSUME ReplayedInv, trace_step' \notin Buffering,
         UNCHANGED <<coach, saw, trace_buffer, trace_lines, flushed>>,
         trace_step \in {"over", "refused"} \cup Loaded,
         DOMAIN frame_read' = FrameFields, ReplayShape'
  PROVE  /\ ShapeInv' /\ CopyInv' /\ WrittenInv' /\ CursorInv'
         /\ \A m : MusicFolds(m) /\ LiveMusicInv(m) => MusicFolds(m)' /\ LiveMusicInv(m)'
<1>1. trace_step' \notin InFrame \cup {"first"} BY DEF Buffering
<1>2. ShapeInv'
  <2>1. CoachShape' BY DEF ReplayedInv, ShapeInv, CoachShape
  <2>2. FrameShape' BY <1>1 DEF FrameShape, Buffering
  <2>3. SawShape' BY DEF ReplayedInv, ShapeInv, SawShape, ReadsAre
  <2>. QED BY <2>1, <2>2, <2>3 DEF ShapeInv
<1>3. CopyInv'
  <2>1. trace_buffer.events = <<>> /\ trace_buffer.latest = NoSnapshot /\ trace_buffer.drained = <<>>
    BY DEF ReplayedInv, CopyInv, Loaded
  <2>. QED BY <1>1, <2>1 DEF CopyInv, InFrame
<1>4. WrittenInv' BY <1>1 DEF ReplayedInv, WrittenInv
<1>5. CursorInv' BY <1>1 DEF ReplayedInv, CursorInv, CursorBefore
<1>6. \A m : MusicFolds(m) /\ LiveMusicInv(m) => MusicFolds(m)' /\ LiveMusicInv(m)'
  BY DEF MusicFolds, LiveMusicInv, ScalesSettle
<1>. QED BY <1>2, <1>3, <1>4, <1>5, <1>6

LEMMA ReplayedReplay ==
  ASSUME ReplayedInv, ReplayStep
  PROVE  ReplayedInv'
<1>1. PICK m : MusicFolds(m) /\ LiveMusicInv(m) /\ ReplayInv(m) BY DEF ReplayedInv
<1>2. /\ DOMAIN frame_read = FrameFields /\ ReplayShape /\ SawShape /\ IsSequence(saw)
      /\ CursorInv /\ LoadedInv /\ StartInv /\ LinesInv /\ LeftInv /\ WrittenInv
      /\ Len(saw) \in Nat
      /\ trace_step \in Loaded => Len(loaded_trace) >= Len(saw)
  BY SequenceIs DEF ReplayedInv, ShapeInv, FrameShape, TraceInv, LinesInv, LeftInv, IsSequence
<1>3. /\ UNCHANGED <<coach, saw, trace_buffer, trace_lines, flushed>>
      /\ trace_step \in {"over", "refused"} \cup Loaded /\ trace_step' \notin Buffering
  BY DEF ReplayStep, Load, Drive, ReadFrame, EndReplayedFrame, live_run, Loaded, Buffering,
         InFrame
<1>4. /\ DOMAIN frame_read' = FrameFields /\ ReplayShape' /\ StartInv' /\ LoadedInv'
      /\ ReplayInv(m)'
  <2>1. ASSUME NEW hold \in BOOLEAN, Load(hold)
        PROVE  /\ DOMAIN frame_read' = FrameFields /\ ReplayShape' /\ StartInv' /\ LoadedInv'
               /\ ReplayInv(m)'
    <3>1. UNCHANGED frame_read BY <2>1 DEF Load
    <3>2. LoadedInv' BY <1>2, <2>1, LoadTells
    <3>3. StartInv' /\ ReplayShape' /\ ReplayInv(m)' BY <1>1, <1>2, <2>1, LoadStarts
    <3>. QED BY <1>2, <3>1, <3>2, <3>3
  <2>2. CASE (\E stray \in {<<>>, <<Moved>>} : Drive(stray)) \/ ReadFrame \/ EndReplayedFrame
    <3>1. /\ UNCHANGED <<saw, loaded_trace>> /\ trace_step \in Loaded /\ trace_step' \in Loaded
      BY <2>2 DEF Drive, ReadFrame, EndReplayedFrame, replaying, Loaded
    <3>2. LoadedInv' BY <1>2, <3>1 DEF LoadedInv, IsSequence
    <3>3. StartInv' BY <3>1 DEF StartInv, Loaded
    <3>4. DOMAIN frame_read' = FrameFields /\ ReplayShape' /\ ReplayInv(m)'
      <4>1. CASE \E stray \in {<<>>, <<Moved>>} : Drive(stray)
        BY <1>1, <1>2, <4>1, DriveKeeps
      <4>2. CASE ReadFrame BY <1>1, <1>2, <4>2, ReadKeeps
      <4>3. CASE EndReplayedFrame
        <5>1. UNCHANGED frame_read BY <4>3 DEF EndReplayedFrame
        <5>2. ReplayShape' /\ ReplayInv(m)' BY <1>1, <1>2, <4>3, EndKeeps
        <5>. QED BY <1>2, <5>1, <5>2
      <4>. QED BY <2>2, <4>1, <4>2, <4>3
    <3>. QED BY <3>2, <3>3, <3>4
  <2>. QED BY <2>1, <2>2 DEF ReplayStep
<1>5. ShapeInv' /\ CopyInv' /\ WrittenInv' /\ CursorInv' /\ MusicFolds(m)' /\ LiveMusicInv(m)'
  BY <1>1, <1>3, <1>4, RunIsKept
<1>6. TraceInv' BY ReplayKeeps DEF ReplayedInv
<1>. QED BY <1>4, <1>5, <1>6 DEF ReplayedInv

LEMMA ReplayedInvInductive == ReplayedInv /\ [TraceNext]_trace_vars => ReplayedInv'
<1>. SUFFICES ASSUME ReplayedInv, [TraceNext]_trace_vars PROVE ReplayedInv'
  OBVIOUS
<1>1. CASE UNCHANGED trace_vars
  <2>. USE <1>1 DEF trace_vars
  <2>1. TraceInv' BY TraceInvInductive DEF ReplayedInv
  <2>2. ShapeInv'
    BY DEF ReplayedInv, ShapeInv, CoachShape, FrameShape, SawShape, ReplayShape, ReadsAre
  <2>3. CopyInv' BY DEF ReplayedInv, CopyInv
  <2>4. WrittenInv' BY DEF ReplayedInv, WrittenInv, Reported
  <2>5. CursorInv' BY DEF ReplayedInv, CursorInv, CursorBefore
  <2>6. StartInv' /\ LoadedInv' BY DEF ReplayedInv, StartInv, LoadedInv, IsSequence
  <2>7. PICK m : MusicFolds(m) /\ LiveMusicInv(m) /\ ReplayInv(m) BY DEF ReplayedInv
  <2>8. MusicFolds(m)' /\ LiveMusicInv(m)'
    BY <2>7 DEF MusicFolds, LiveMusicInv, ScalesSettle, Leads, Polled, Unapplied, Pending
  <2>9. ReplayInv(m)'
    BY <2>7 DEF ReplayInv, RestInv, ServedInv, ReadInv, ShownInv, AtFrame, CursorBefore, Served,
                Displayed
  <2>. QED BY <2>1, <2>2, <2>3, <2>4, <2>5, <2>6, <2>8, <2>9 DEF ReplayedInv
<1>2. CASE TraceNext
  BY <1>2, ReplayedLive, ReplayedLeave, ReplayedReplay DEF TraceNext
<1>. QED BY <1>1, <1>2

(* Whatever the coach did at its port and however the run ended, a replay of it shows the
   head, in each frame the run had finished, the events, the hops, the inputs and the
   pointer that frame had, a snapshot that was live then and, once no configuration is on
   its way, its music; and nothing the person at the window does reaches the head: for
   runs of any length and any number of scales. *)
THEOREM ReplayFollowsTheRunAlways == TraceSpec => []ReplayFollowsTheRun
<1>1. TraceInit => ReplayedInv BY ReplayedInit
<1>2. ReplayedInv => ReplayFollowsTheRun
  BY ReplayShows DEF ReplayedInv, TraceInv, LinesInv
<1>. QED BY <1>1, <1>2, ReplayedInvInductive, PTL DEF TraceSpec

-----------------------------------------------------------------------------
(* The parts side by side. *)

\* A behaviour of the parts is one of each of them.
LEMMA PartsMoveAlone ==
  MCSpec => /\ AdapterSpec /\ InspectSpec /\ GraphSpec /\ WidgetsSpec /\ LogSpec /\ TraceSpec
            /\ YinSpec /\ VibratoSpec
<1>1. MCInit => /\ AdapterInit /\ InspectInit /\ GraphInit /\ WidgetsInit /\ LogInit /\ TraceInit
                /\ YinInit /\ VibratoInit
  BY DEF MCInit
<1>2. [MCNext]_<<subject, trace_vars, engine_vars, detector_vars, yin_vars, vibrato_vars,
                 adapter_vars, graph_vars, song_vars, tonality_vars, widget_vars, log_vars,
                 inspect_vars>>
        => /\ [AdapterNext]_adapter_vars /\ [InspectNext]_inspect_vars
           /\ [GraphNext]_graph_vars /\ [WidgetsNext]_widget_vars
           /\ [LogNext]_log_vars /\ [TraceNext]_trace_vars
           /\ [YinNext]_yin_vars /\ [VibratoNext]_vibrato_vars
  BY DEF MCNext
<1>. QED BY <1>1, <1>2, PTL
     DEF MCSpec, AdapterSpec, InspectSpec, GraphSpec, WidgetsSpec, LogSpec, TraceSpec,
         YinSpec, VibratoSpec

(* Nothing of a session outlives it in the adapters that capture, and in what a head
   inspects nothing but the list of ports of a session whose stream was refused, however
   the two interleave with the rest of the program's parts. *)
THEOREM SessionsEndCleanAlways == MCSpec => []SessionsEndClean
BY PartsMoveAlone, CaptureIsReleasedAlways, TapsAreCurrentAlways, PTL DEF SessionsEndClean

(* Every painter of the graph keeps up with what it shows, and every widget but in the four
   cases that WidgetsShowTheState excepts, whatever the program's other parts do in
   between. *)
THEOREM ScreensKeepUpAlways == MCSpec => []ScreensKeepUp
BY PartsMoveAlone, PaintKeepsUpAlways, WidgetsShowTheStateAlways, PTL DEF ScreensKeepUp

(* What a writer has flushed outlives a crash of the process, in the trace and in the log. *)
THEOREM FlushedIsKeptAlways == MCSpec => []FlushedIsKept
BY PartsMoveAlone, LogIsTeedAlways, FlushedFramesAreRecoveredAlways, PTL DEF FlushedIsKept

(* Both analyses of a hop compute what they are said to: what repeats is heard at its
   period, and a vibrato where the transform of the contour has a peak that stands out. *)
THEOREM EstimatesAreExactAlways == MCSpec => []EstimatesAreExact
BY PartsMoveAlone, PeriodIsHeardAlways, AnalysisIsExactAlways, PTL DEF EstimatesAreExact
=============================================================================

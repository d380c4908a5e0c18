------------------------------- MODULE Inspect -------------------------------
(***************************************************************************)
(* The inspection port: a debugging head picks an out-port of the engine   *)
(* and watches its latest block (domain-ports/src/engine_inspect.rs,       *)
(* domain-adapters/app-coach/src/inspect.rs).                              *)
(*                                                                         *)
(* Three slots are shared by the head, the worker of a session and the     *)
(* control plane, with no lock around them: the selection, the tap, and    *)
(* the list of ports.  The control plane clears the last two once it has   *)
(* joined the worker of a session that was open, and leaves them when the  *)
(* stream could not be opened; the selection stays for the next session.   *)
(*                                                                         *)
(* A port's samples in a block are that block's number; which shape a port *)
(* is classified as is a constant.                                         *)
(***************************************************************************)
EXTENDS Naturals, FiniteSets

CONSTANTS EnginePorts,      \* the out-ports of the engine, a function to their shapes
          Picks,            \* selections a head makes: records of a port and a shape
          MaxPicks,         \* bound: selections made
          MaxEngines,       \* bound: sessions
          MaxTapBlocks      \* bound: blocks of a session

NoTap == [session |-> 0, seq |-> 0, port |-> "none", shape |-> "none", samples |-> 0]
NoPick == [port |-> "none", shape |-> "none"]

(* "none" is no port. *)
ASSUME PortsAssumption == "none" \notin DOMAIN EnginePorts

VARIABLES
    selection,      \* NoPick for None
    tap,            \* NoTap for None
    node_ports,     \* the list: its session, and the ports
    tapper,         \* the worker: where it is, its block, the selection it loaded
    plane,          \* the control plane: "stopped", "running", or on its way
    engines,        \* sessions so far
    unopened,       \* history: the sessions whose stream could not be opened
    picks,          \* selections made
    since_pick,     \* history: nothing, a block begun, or one tapped since the selection
    polled          \* history: the latest tap a head has seen

inspect_vars == <<selection, tap, node_ports, tapper, plane, engines, unopened,
                  picks, since_pick, polled>>
head_side == <<selection, picks, polled>>
plane_side == <<plane, engines, unopened>>

Gone == [at |-> "gone", block_seq |-> 0, loaded |-> NoPick, quit |-> FALSE]
NoPorts == [session |-> 0, ports |-> {}]

InspectInit ==
    /\ selection = NoPick
    /\ tap = NoTap
    /\ node_ports = NoPorts
    /\ tapper = Gone
    /\ plane = "stopped"
    /\ engines = 0
    /\ unopened = {}
    /\ picks = 0
    /\ since_pick = "nothing"
    /\ polled = NoTap

-----------------------------------------------------------------------------
(* The head. *)

SetSelection(pick) ==
    /\ picks < MaxPicks
    /\ picks' = picks + 1
    /\ selection' = pick
    /\ since_pick' = "nothing"
    /\ UNCHANGED <<tap, node_ports, tapper, plane_side, polled>>

LatestTap ==
    /\ polled' = tap
    /\ UNCHANGED <<selection, picks, tap, node_ports, tapper, plane_side, since_pick>>

-----------------------------------------------------------------------------
(* The worker. *)

TapperGoes(from, to) == tapper.at = from /\ tapper' = [tapper EXCEPT !.at = to]

PublishNodePorts ==
    /\ TapperGoes("building", "resolving")
    /\ node_ports' = [session |-> engines,
                      ports |-> {[port |-> p, shape |-> EnginePorts[p]] :
                                 p \in DOMAIN EnginePorts}]
    /\ UNCHANGED <<head_side, tap, plane_side, since_pick>>

ResolvedAll ==
    /\ TapperGoes("resolving", "waiting")
    /\ UNCHANGED <<head_side, tap, node_ports, plane_side, since_pick>>

(* It exits when it is told to, when the capture is gone, when it cannot build an engine or
   resolve its ports, and wherever it panics. *)
TapperExits ==
    /\ tapper.at \notin {"gone", "exited"}
    /\ tapper' = [tapper EXCEPT !.at = "exited"]
    /\ UNCHANGED <<head_side, tap, node_ports, plane_side, since_pick>>

(* A block takes samples, and they come once the stream is open. *)
RunEngineBlock ==
    /\ tapper.at = "waiting" /\ ~tapper.quit
    /\ plane \in {"running", "joining"}
    /\ tapper.block_seq < MaxTapBlocks
    /\ tapper' = [tapper EXCEPT !.at = "tapping", !.block_seq = @ + 1]
    /\ since_pick' = IF since_pick = "nothing" THEN "begun" ELSE since_pick
    /\ UNCHANGED <<head_side, tap, node_ports, plane_side>>

(* Mutant of LoadSelection: the selection of the session's first block is kept. *)
LoadSelectionOnce ==
    /\ tapper.at = "tapping"
    /\ tapper' = [tapper EXCEPT !.at = "peeking",
                                !.loaded = IF tapper.block_seq = 1 THEN selection ELSE @]
    /\ UNCHANGED <<head_side, tap, node_ports, plane_side, since_pick>>

(* tap_if_selected: one load of the selection; the snapshot has its port and its shape,
   whatever the head selects meanwhile. *)
LoadSelection ==
    /\ tapper.at = "tapping"
    /\ tapper' = [tapper EXCEPT !.at = "peeking", !.loaded = selection]
    /\ UNCHANGED <<head_side, tap, node_ports, plane_side, since_pick>>

StoreTap ==
    /\ TapperGoes("peeking", "waiting")
    /\ tap' = IF tapper.loaded.port \in DOMAIN EnginePorts
              THEN [session |-> engines, seq |-> tapper.block_seq,
                    port |-> tapper.loaded.port, shape |-> tapper.loaded.shape,
                    samples |-> tapper.block_seq]
              ELSE tap
    /\ since_pick' = IF since_pick = "begun" THEN "tapped" ELSE since_pick
    /\ UNCHANGED <<head_side, node_ports, plane_side>>

-----------------------------------------------------------------------------
(* The control plane: a session's worker, its stream, and its end. *)

StartEngine ==
    /\ plane = "stopped" /\ engines < MaxEngines
    /\ plane' = "opening"
    /\ engines' = engines + 1
    /\ tapper' = [Gone EXCEPT !.at = "building"]
    /\ since_pick' = "nothing"
    /\ UNCHANGED <<head_side, tap, node_ports, unopened>>

PlaneGoes(from, to) == plane = from /\ plane' = to

OpenStream ==
    /\ PlaneGoes("opening", "running")
    /\ UNCHANGED <<head_side, tap, node_ports, tapper, engines, unopened, since_pick>>

(* The stream does not open: the worker is told to quit and joined, and that is all. *)
RefuseStream ==
    /\ PlaneGoes("opening", "refused")
    /\ unopened' = unopened \union {engines}
    /\ tapper' = [tapper EXCEPT !.quit = TRUE]
    /\ UNCHANGED <<head_side, tap, node_ports, engines, since_pick>>

AskQuit ==
    /\ PlaneGoes("running", "joining")
    /\ tapper' = [tapper EXCEPT !.quit = TRUE]
    /\ UNCHANGED <<head_side, tap, node_ports, engines, unopened, since_pick>>

(* Mutant of WorkerJoined: the worker is left to end by itself. *)
WorkerDetached == TRUE

WorkerJoined == tapper.at = "exited"

(* Mutant of JoinTapper: the list and the tap of every session are left to the next one. *)
JoinTapperOnly ==
    /\ PlaneGoes("joining", "stopped") \/ PlaneGoes("refused", "stopped")
    /\ WorkerJoined
    /\ UNCHANGED <<head_side, tap, node_ports, tapper, engines, unopened, since_pick>>

JoinTapper ==
    /\ PlaneGoes("joining", "clearing") \/ PlaneGoes("refused", "stopped")
    /\ WorkerJoined
    /\ UNCHANGED <<head_side, tap, node_ports, tapper, engines, unopened, since_pick>>

(* Two stores: the list, then the tap. *)
ClearPorts ==
    /\ PlaneGoes("clearing", "cleared_list")
    /\ node_ports' = NoPorts
    /\ UNCHANGED <<head_side, tap, tapper, engines, unopened, since_pick>>

ClearTap ==
    /\ PlaneGoes("cleared_list", "stopped")
    /\ tap' = NoTap
    /\ UNCHANGED <<head_side, node_ports, tapper, engines, unopened, since_pick>>

InspectNext ==
    \/ \E pick \in Picks \cup {NoPick} : SetSelection(pick)
    \/ LatestTap
    \/ PublishNodePorts \/ ResolvedAll \/ TapperExits
    \/ RunEngineBlock \/ LoadSelection \/ StoreTap
    \/ StartEngine \/ OpenStream \/ RefuseStream
    \/ AskQuit \/ JoinTapper \/ ClearPorts \/ ClearTap

InspectSpec == InspectInit /\ [][InspectNext]_inspect_vars

-----------------------------------------------------------------------------
(* The list is of this session or of none; or it was left by a session whose stream could
   not be opened, and no stream has been since, nor has this worker listed its own. *)
ListedBy(session) ==
    node_ports.session \in {0, session}
        \/ node_ports.session..session - 1 \subseteq unopened

(* A head sees no tap of a session that ended, and its ports only as long as every stream
   since was refused: the teardown of one that was open leaves neither, and while one is
   open a tap comes with the ports of its own session.  In a session taps do not go
   back, and once the worker has tapped a block since the head selected a port that
   exists, in this session, the tap is of that port, in the shape it was selected in. *)
TapsAreCurrent ==
    /\ plane = "stopped" => tap = NoTap
    /\ plane = "stopped" /\ node_ports # NoPorts =>
         node_ports.session \in 1..engines /\ node_ports.session..engines \subseteq unopened
    /\ ListedBy(engines)
    /\ tap # NoTap => tap.session = engines /\ engines \notin unopened
                      /\ node_ports.session \in {0, engines}
    /\ tap # NoTap /\ plane = "running" => node_ports.session = engines
    /\ tap.session = polled.session => tap.seq >= polled.seq
    /\ plane = "running" /\ since_pick = "tapped" /\ selection.port \in DOMAIN EnginePorts =>
         tap.port = selection.port /\ tap.shape = selection.shape
=============================================================================

----------------------------- MODULE EngineGraph -----------------------------
(***************************************************************************)
(* The DSP engine (dsp/engine/src/graph.rs): a World, the wiring of nodes  *)
(* and of boundary ports, becomes an Engine that runs its nodes once per   *)
(* block, producers before consumers.                                      *)
(*                                                                         *)
(* Engine::build checks the World, sorts its nodes (Kahn's algorithm),     *)
(* resolves the boundary ports and computes each node's latency.           *)
(* process_block then zeroes the input accumulators, stages the boundary   *)
(* inputs, runs every node in order adding its output into its consumers'  *)
(* accumulators, and captures the boundary outputs.                        *)
(*                                                                         *)
(* Node ids are their positions in the World: build does not reject two    *)
(* nodes with one id, and that ids are distinct is an assumption here.     *)
(* A sample is abstracted to where it comes from: an accumulator to how    *)
(* often each connection was added into it since it was zeroed, an output  *)
(* buffer to the block that wrote it.                                      *)
(***************************************************************************)
EXTENDS Integers, Sequences, FiniteSets

CONSTANTS Worlds,       \* the worlds to build
          Registry,     \* node type -> its ports, with their types, and its latency
          BLOCK_SIZE,   \* samples of a buffer
          MaxBlocks     \* bound: blocks processed

(* A World's connections join two endpoints; which of these exist is for build to say. *)
Endpoint == [node : Nat, port : STRING]
ASSUME WorldsAssumption ==
    \A w \in Worlds : /\ w.nodes \in Seq(STRING)
                     /\ w.connections \in Seq([from : Endpoint, to : Endpoint])
ASSUME RegistryAssumption == \A t \in DOMAIN Registry : Registry[t].latency \in Nat
ASSUME BlocksAssumption == BLOCK_SIZE \in Nat /\ MaxBlocks \in Nat

VARIABLES
    world,              \* the World being built
    engine_step,               \* what build, or the host, does next
    in_degree, queue, consumers, topo_order,        \* topo_sort
    loop_pos,                \* position of the loop in progress
    latency,            \* node_latency_cache
    mixed,              \* input_buffers: per connection and sample, times added
    outputs,            \* output_buffers: per node and sample, the block
    captured,           \* out_port_buffers: per out-port and sample, the block
    last_n_frames,
    blocks              \* blocks started

sorting == <<in_degree, queue, consumers, topo_order>>
buffers == <<mixed, outputs, captured, last_n_frames, blocks>>
engine_vars == <<world, engine_step, sorting, loop_pos, latency, buffers>>

Boundary == 0           \* parse_endpoint: a path without a dot has no node
Nodes == 1..Len(world.nodes)
Connections == DOMAIN world.connections
From(c) == world.connections[c].from
To(c) == world.connections[c].to
Src(c) == From(c).node
Dst(c) == To(c).node
Samples == 1..BLOCK_SIZE

Type(n) == Registry[world.nodes[n]]

(* Node-to-node connections, and those of declared boundary ports.  A connection of
   an undeclared boundary port is in none of these: build passes over it. *)
Edges == {c \in Connections : Src(c) # Boundary /\ Dst(c) # Boundary}
Staged == {c \in Connections :
             /\ Src(c) = Boundary /\ Dst(c) # Boundary
             /\ From(c).port \in world.in_ports}
Sources(p) == {c \in Connections : Dst(c) = Boundary /\ To(c).port = p /\ Src(c) # Boundary}
Into(n) == {c \in Edges \cup Staged : Dst(c) = n}

(* An endpoint names a port that its node's type declares. *)
HasOutput(end) == end.node \in Nodes /\ end.port \in DOMAIN Type(end.node).outs
HasInput(end) == end.node \in Nodes /\ end.port \in DOMAIN Type(end.node).ins

-----------------------------------------------------------------------------
(* What build rejects before it sorts, in the order it looks; of several errors of
   one stage it reports one. *)

IdConflict == \E p \in world.in_ports \cup world.out_ports :
                  \E n \in Nodes : world.ids[n] = p
UnknownType == \E n \in Nodes : world.nodes[n] \notin DOMAIN Registry
BoundaryMisused ==
    \E c \in Connections :
        \/ Src(c) = Boundary /\ Dst(c) = Boundary
        \/ Dst(c) = Boundary /\ To(c).port \in world.in_ports
        \/ Src(c) = Boundary /\ From(c).port \in world.out_ports
Unresolved == \E c \in Edges : ~HasOutput(From(c)) \/ ~HasInput(To(c))

WorldIsSortable == ~IdConflict /\ ~UnknownType /\ ~BoundaryMisused /\ ~Unresolved

EngineInit ==
    /\ world \in Worlds
    /\ engine_step = "validate"
    /\ in_degree = [n \in Nodes |-> 0]
    /\ queue = <<>>
    /\ consumers = {}
    /\ topo_order = <<>>
    /\ loop_pos = 1
    /\ latency = [n \in Nodes |-> 0]
    /\ mixed = [c \in Connections |-> [i \in Samples |-> 0]]
    /\ outputs = [n \in Nodes |-> [i \in Samples |-> 0]]
    /\ captured = [p \in world.out_ports |-> [i \in Samples |-> 0]]
    /\ last_n_frames = 0
    /\ blocks = 0

Reject ==
    /\ engine_step' = "rejected"
    /\ UNCHANGED <<world, sorting, loop_pos, latency, buffers>>

-----------------------------------------------------------------------------
(* topo_sort. *)

CountEdges ==
    /\ engine_step = "validate"
    /\ WorldIsSortable
    /\ engine_step' = "seed"
    /\ in_degree' = [n \in Nodes |-> Cardinality({c \in Edges : Dst(c) = n})]
    /\ UNCHANGED <<world, queue, consumers, topo_order, loop_pos, latency, buffers>>

RejectWorld == engine_step = "validate" /\ ~WorldIsSortable /\ Reject

(* The nodes nothing feeds, in ascending order. *)
SeedQueue ==
    /\ engine_step = "seed"
    /\ IF loop_pos \in Nodes
       THEN /\ queue' = IF in_degree[loop_pos] = 0 THEN Append(queue, loop_pos) ELSE queue
            /\ loop_pos' = loop_pos + 1
            /\ UNCHANGED engine_step
       ELSE /\ engine_step' = "sort"
            /\ loop_pos' = 1
            /\ UNCHANGED queue
    /\ UNCHANGED <<world, in_degree, consumers, topo_order, latency, buffers>>

visited == {topo_order[i] : i \in DOMAIN topo_order}

PopNode ==
    /\ engine_step = "sort"
    /\ consumers = {}
    /\ queue # <<>>
    /\ queue' = Tail(queue)
    /\ IF Head(queue) \in visited
       THEN UNCHANGED <<consumers, topo_order>>
       ELSE /\ topo_order' = Append(topo_order, Head(queue))
            /\ consumers' = {c \in Edges : Src(c) = Head(queue)}
    /\ UNCHANGED <<world, engine_step, in_degree, loop_pos, latency, buffers>>

(* Mutant of NowReady: a consumer is queued with its first producer. *)
ReadyEarly(degree) == TRUE

NowReady(degree) == degree = 0

(* One consumer of the node just popped, in ascending order. *)
DecrementConsumer ==
    /\ engine_step = "sort"
    /\ \E c \in consumers :
         /\ \A d \in consumers : Dst(c) <= Dst(d)
         /\ consumers' = consumers \ {c}
         /\ in_degree' = [in_degree EXCEPT ![Dst(c)] = @ - 1]
         /\ queue' = IF NowReady(in_degree[Dst(c)] - 1) THEN Append(queue, Dst(c))
                     ELSE queue
    /\ UNCHANGED <<world, engine_step, topo_order, loop_pos, latency, buffers>>

Sorted == engine_step = "sort" /\ consumers = {} /\ queue = <<>>

CycleDetected == Sorted /\ Len(topo_order) # Len(world.nodes) /\ Reject

-----------------------------------------------------------------------------
(* The boundary ports, then the latencies. *)

InPortOf(p) == {c \in Staged : From(c).port = p}

(* Two connections that copy into one accumulator would lose one of them. *)
StagedApart == \A c, d \in Staged : To(c) = To(d) => c = d

(* Mutant of PortsResolve: build accepts two in-ports at one destination. *)
PortsResolveShared ==
    /\ \A p \in world.in_ports : InPortOf(p) # {}
    /\ \A c \in Staged : HasInput(To(c))
    /\ \A p \in world.out_ports :
         Cardinality({c \in Sources(p) : HasOutput(From(c))}) = 1

PortsResolve ==
    /\ \A p \in world.in_ports :
         /\ InPortOf(p) # {}
         /\ \A c \in InPortOf(p) : HasInput(To(c))
         /\ \A c, d \in InPortOf(p) :
              Type(Dst(c)).ins[To(c).port] = Type(Dst(d)).ins[To(d).port]
    /\ StagedApart
    /\ \A p \in world.out_ports :
         Cardinality({c \in Sources(p) : HasOutput(From(c))}) = 1

ResolvePorts ==
    /\ Sorted
    /\ Len(topo_order) = Len(world.nodes)
    /\ PortsResolve
    /\ engine_step' = "latency"
    /\ UNCHANGED <<world, sorting, loop_pos, latency, buffers>>

RejectPorts == Sorted /\ Len(topo_order) = Len(world.nodes) /\ ~PortsResolve /\ Reject

Producers(n) == {Src(c) : c \in {d \in Edges : Dst(d) = n}}

(* Mutant of Upstream: the first producer's latency, whatever the others' are. *)
UpstreamOfFirst(producers) ==
    IF producers = {} THEN 0
    ELSE latency[CHOOSE m \in producers : \A k \in producers : m <= k]

(* The latency of the slowest input. *)
Upstream(producers) ==
    IF producers = {} THEN 0
    ELSE latency[CHOOSE m \in producers : \A k \in producers : latency[k] <= latency[m]]

ComputeLatency ==
    /\ engine_step = "latency"
    /\ IF loop_pos \in DOMAIN topo_order
       THEN /\ LET n == topo_order[loop_pos]
               IN latency' = [latency EXCEPT ![n] = Type(n).latency + Upstream(Producers(n))]
            /\ loop_pos' = loop_pos + 1
            /\ UNCHANGED engine_step
       ELSE /\ engine_step' = "idle"
            /\ loop_pos' = 1
            /\ UNCHANGED latency
    /\ UNCHANGED <<world, sorting, buffers>>

-----------------------------------------------------------------------------
(* process_block. *)

(* The samples of a buffer a block of n_frames does not touch keep their value. *)
Fill(buffer, n_frames, value) ==
    [i \in Samples |-> IF i <= n_frames THEN value ELSE buffer[i]]

(* A copy replaces whatever its accumulator holds: the last one wins. *)
LastCopied(c) == c \in Staged /\ \A d \in Staged : To(d) = To(c) => d <= c

(* Mutant of ZeroAndStage: the accumulators keep the last block's sums. *)
StageOnly(n_frames) ==
    [c \in Connections |-> IF LastCopied(c) THEN Fill(mixed[c], n_frames, 1) ELSE mixed[c]]

ZeroAndStage(n_frames) ==
    [c \in Connections |-> Fill(mixed[c], n_frames, IF LastCopied(c) THEN 1 ELSE 0)]

(* The host has written the in-ports. *)
BeginBlock(n_frames) ==
    /\ engine_step = "idle"
    /\ blocks < MaxBlocks
    /\ engine_step' = "run"
    /\ loop_pos' = 1
    /\ blocks' = blocks + 1
    /\ last_n_frames' = n_frames
    /\ mixed' = ZeroAndStage(n_frames)
    /\ UNCHANGED <<world, sorting, latency, outputs, captured>>

(* One node processes the block, and its output is added into its consumers. *)
RunNode ==
    /\ engine_step = "run"
    /\ loop_pos \in DOMAIN topo_order
    /\ loop_pos' = loop_pos + 1
    /\ outputs' = [outputs EXCEPT ![topo_order[loop_pos]] = Fill(@, last_n_frames, blocks)]
    /\ mixed' = [c \in Connections |->
                   IF c \in Edges /\ Src(c) = topo_order[loop_pos]
                   THEN [i \in Samples |->
                           mixed[c][i] + (IF i <= last_n_frames THEN 1 ELSE 0)]
                   ELSE mixed[c]]
    /\ UNCHANGED <<world, engine_step, sorting, latency, captured, last_n_frames, blocks>>

SourceOf(p) == Src(CHOOSE c \in Sources(p) : HasOutput(From(c)))

(* Mutant of CaptureOutputs: one sample of a full block is left behind. *)
CaptureShort ==
    [p \in world.out_ports |->
       [i \in Samples |-> IF i < last_n_frames THEN outputs[SourceOf(p)][i]
                          ELSE captured[p][i]]]

CaptureOutputs ==
    [p \in world.out_ports |->
       [i \in Samples |-> IF i <= last_n_frames THEN outputs[SourceOf(p)][i]
                          ELSE captured[p][i]]]

EndBlock ==
    /\ engine_step = "run"
    /\ loop_pos \notin DOMAIN topo_order
    /\ engine_step' = "idle"
    /\ captured' = CaptureOutputs
    /\ UNCHANGED <<world, sorting, loop_pos, latency, mixed, outputs, last_n_frames,
                   blocks>>

(* After an interruption: nothing is there to be read until the next block. *)
ResetEngine ==
    /\ engine_step = "idle"
    /\ blocks > 0
    /\ captured' = [p \in world.out_ports |-> [i \in Samples |-> 0]]
    /\ last_n_frames' = 0
    /\ UNCHANGED <<world, engine_step, sorting, loop_pos, latency, mixed, outputs, blocks>>

EngineNext ==
    \/ RejectWorld \/ CountEdges \/ SeedQueue \/ PopNode \/ DecrementConsumer
    \/ CycleDetected \/ RejectPorts \/ ResolvePorts \/ ComputeLatency
    \/ \E n_frames \in Samples : BeginBlock(n_frames)
    \/ RunNode \/ EndBlock \/ ResetEngine

EngineSpec == EngineInit /\ [][EngineNext]_engine_vars

-----------------------------------------------------------------------------
EachInputOncePerBlock ==
    engine_step = "run" /\ loop_pos \in DOMAIN topo_order =>
        \A c \in Into(topo_order[loop_pos]), i \in 1..last_n_frames : mixed[c][i] = 1

ReadsShowTheLastBlock ==
    engine_step = "idle" =>
        \A i \in 1..last_n_frames :
            /\ \A p \in world.out_ports : captured[p][i] = blocks
            /\ \A n \in Nodes : outputs[n][i] = blocks

(* When a node runs, each of its connections has been added into its inputs exactly
   once this block: its producers have run, and none of their last block is left.
   And between blocks, what out_port, peek and read_into hand out is the last block and
   nothing older, however many frames each block had. *)
BlocksAreWhole == EachInputOncePerBlock /\ ReadsShowTheLastBlock

PathsOf(k) == {p \in [1..k -> Nodes] :
                 \A i \in 1..k - 1 : \E c \in Edges : Src(c) = p[i] /\ Dst(c) = p[i + 1]}
Paths == UNION {PathsOf(k) : k \in Nodes}

(* The latencies of a path's nodes, summed up to each of them. *)
SumsAlong(p) ==
    LET sum[i \in DOMAIN p] == Type(p[i]).latency + (IF i = 1 THEN 0 ELSE sum[i - 1])
    IN sum
LatencyAlong(p) == SumsAlong(p)[Len(p)]

(* A built engine's latency at a node is that of the slowest path to it: not the first
   producer's, nor the sum of parallel ones. *)
LatencyIsLongestPath ==
    engine_step = "idle" /\ blocks = 0 =>
        \A n \in Nodes :
            LET to_n == {LatencyAlong(p) : p \in {q \in Paths : q[Len(q)] = n}}
            IN latency[n] \in to_n /\ \A l \in to_n : l <= latency[n]
=============================================================================

---------------------------- MODULE Engine_proofs ----------------------------
(***************************************************************************)
(* Proofs about the DSP engine: the graph, for every World, every registry *)
(* of node types and every size of a block; the detector nodes, for every  *)
(* length of ring, window, hop and block; the pitch detector, for every    *)
(* window and range of pitches; and the vibrato analysis, for every        *)
(* contour, every size and signal of its transform and every band.         *)
(***************************************************************************)
EXTENDS EngineGraph, Detectors, PitchYin, Vibrato, FiniteSetTheorems, FunctionTheorems,
        SequenceTheorems, ProofFacts, TLAPS

Sortings == {"seed", "sort"}
Built == {"latency", "idle", "run"}

EngineTypes ==
    /\ world \in Worlds
    /\ engine_step \in {"validate", "rejected"} \cup Sortings \cup Built
    /\ in_degree \in [Nodes -> Int]
    /\ queue \in Seq(Nodes)
    /\ consumers \subseteq Edges
    /\ topo_order \in Seq(Nodes)
    /\ loop_pos \in Nat \ {0}
    /\ mixed \in [Connections -> [Samples -> Nat]]
    /\ outputs \in [Nodes -> [Samples -> Nat]]
    /\ captured \in [world.out_ports -> [Samples -> Nat]]
    /\ last_n_frames \in IF engine_step \in {"idle", "run"} THEN 0..BLOCK_SIZE ELSE {0}
    /\ blocks \in Nat

(* What build has found of the World before it sorts, and when it has sorted. *)
CheckedInv ==
    /\ engine_step \in Sortings \cup Built => WorldIsSortable
    /\ engine_step \in Built =>
         Len(topo_order) = Len(world.nodes) /\ consumers = {} /\ PortsResolve

(* The edges into a node that its in-degree still counts: their producer is not in the
   order yet, or has not come to this consumer. *)
Unconsumed(n) == {c \in Edges : Dst(c) = n /\ (Src(c) \notin visited \/ c \in consumers)}

DegreeInv ==
    engine_step \in Sortings =>
        /\ \A n \in Nodes : in_degree[n] = Cardinality(Unconsumed(n))
        /\ \A i \in DOMAIN queue : in_degree[queue[i]] = 0

(* No node is in the order twice, and none before its producers. *)
OrderInv ==
    /\ engine_step = "validate" => queue = <<>>
    /\ engine_step \in {"validate", "seed"} => topo_order = <<>> /\ consumers = {}
    /\ \A j, k \in DOMAIN topo_order : topo_order[j] = topo_order[k] => j = k
    /\ \A c \in Edges, k \in DOMAIN topo_order :
         Dst(c) = topo_order[k] => \E j \in 1..k - 1 : Src(c) = topo_order[j]
    /\ \A c \in consumers : Src(c) \in visited

gone_by == {topo_order[j] : j \in {k \in DOMAIN topo_order : k < loop_pos}}

(* Within a block, the accumulators hold the boundary inputs and the outputs of the nodes
   that ran, each once. *)
BlockInv ==
    engine_step = "run" =>
        /\ loop_pos <= Len(topo_order) + 1
        /\ \A i \in 1..last_n_frames :
             /\ \A c \in Staged : mixed[c][i] = 1
             /\ \A c \in Edges : mixed[c][i] = IF Src(c) \in gone_by THEN 1 ELSE 0
             /\ \A n \in Nodes \cap gone_by : outputs[n][i] = blocks

EngineInv ==
    EngineTypes /\ CheckedInv /\ DegreeInv /\ OrderInv /\ BlockInv /\ ReadsShowTheLastBlock

-----------------------------------------------------------------------------
(* The World.                                                              *)

LEMMA WorldFacts ==
  ASSUME world \in Worlds
  PROVE  /\ Len(world.nodes) \in Nat /\ Nodes = 1..Len(world.nodes)
         /\ Connections \subseteq Nat /\ IsFiniteSet(Connections)
         /\ Edges \subseteq Connections /\ Staged \subseteq Connections
         /\ Edges \cap Staged = {}
         /\ \A S \in SUBSET Edges : IsFiniteSet(S)
<1>1. /\ world.nodes \in Seq(STRING)
      /\ world.connections \in Seq([from : Endpoint, to : Endpoint])
  BY WorldsAssumption
<1>2. Connections = 1..Len(world.connections) /\ Len(world.connections) \in Nat
  BY <1>1 DEF Connections
<1>3. IsFiniteSet(Connections)
  BY <1>2, FS_Interval
<1>4. Edges \subseteq Connections /\ Staged \subseteq Connections /\ Edges \cap Staged = {}
  BY DEF Edges, Staged
<1>5. \A S \in SUBSET Edges : IsFiniteSet(S)
  BY <1>3, <1>4, FS_Subset
<1>6. Len(world.nodes) \in Nat /\ Nodes = 1..Len(world.nodes)
  BY <1>1 DEF Nodes
<1>. QED BY <1>2, <1>3, <1>4, <1>5, <1>6

\* Both ends of an edge are nodes, once build has looked.
LEMMA EdgeEnds ==
  ASSUME WorldIsSortable, NEW c \in Edges
  PROVE  Src(c) \in Nodes /\ Dst(c) \in Nodes
BY DEF WorldIsSortable, Unresolved, HasOutput, HasInput, Src, Dst

\* What the World says does not change.
LEMMA SameWorld ==
  ASSUME world' = world
  PROVE  /\ Nodes' = Nodes /\ Connections' = Connections /\ Edges' = Edges
         /\ Staged' = Staged /\ (WorldIsSortable' <=> WorldIsSortable)
         /\ (PortsResolve' <=> PortsResolve)
         /\ \A c : Src(c)' = Src(c) /\ Dst(c)' = Dst(c)
<1>. USE DEF From, To, Src, Dst
<1>1. Nodes' = Nodes /\ Connections' = Connections
  BY DEF Nodes, Connections
<1>2. Edges' = Edges /\ Staged' = Staged
  BY <1>1 DEF Edges, Staged
<1>3. WorldIsSortable' <=> WorldIsSortable
  BY <1>1, <1>2
     DEF WorldIsSortable, IdConflict, UnknownType, BoundaryMisused, Unresolved, HasOutput,
         HasInput, Type
<1>4. PortsResolve' <=> PortsResolve
  BY <1>1, <1>2
     DEF PortsResolve, InPortOf, HasInput, HasOutput, Type, StagedApart, Sources
<1>5. \A c : Src(c)' = Src(c) /\ Dst(c)' = Dst(c)
  OBVIOUS
<1>. QED BY <1>1, <1>2, <1>3, <1>4, <1>5

-----------------------------------------------------------------------------
(* Initial states, and what keeps the order.                               *)

LEMMA EngineStarts == EngineInit => EngineInv
<1>. SUFFICES ASSUME EngineInit PROVE EngineInv
  OBVIOUS
<1>0. world \in Worlds /\ blocks = 0 /\ last_n_frames = 0 /\ engine_step = "validate"
      /\ topo_order = <<>> /\ consumers = {} /\ queue = <<>>
  BY DEF EngineInit
<1>1. EngineTypes
  BY <1>0, BlocksAssumption DEF EngineInit, EngineTypes
<1>2. CheckedInv BY <1>0 DEF CheckedInv, Sortings, Built
<1>3. DegreeInv BY <1>0 DEF DegreeInv, Sortings
<1>4. OrderInv BY <1>0 DEF OrderInv
<1>5. BlockInv /\ ReadsShowTheLastBlock BY <1>0 DEF BlockInv, ReadsShowTheLastBlock
<1>. QED BY <1>1, <1>2, <1>3, <1>4, <1>5 DEF EngineInv

\* A step that leaves the sort alone keeps what is known of it.
LEMMA SortingKept ==
  ASSUME EngineInv, world' = world, UNCHANGED sorting,
         engine_step' \in Sortings => engine_step \in Sortings,
         engine_step' \notin {"validate", "seed"}
  PROVE  DegreeInv' /\ OrderInv'
<1>. USE SameWorld DEF sorting, EngineInv
<1>0. visited' = visited BY DEF visited
<1>1. \A n : Unconsumed(n)' = Unconsumed(n) BY <1>0 DEF Unconsumed
<1>2. DegreeInv' BY <1>1 DEF DegreeInv
<1>3. OrderInv' BY <1>0 DEF OrderInv
<1>. QED BY <1>2, <1>3

\* While build is at work no block runs, and none has run.
LEMMA NoBlockYet ==
  ASSUME engine_step' \notin {"run", "idle"}
  PROVE  BlockInv' /\ ReadsShowTheLastBlock'
BY DEF BlockInv, ReadsShowTheLastBlock

-----------------------------------------------------------------------------
(* topo_sort.                                                              *)

\* An in-degree of zero: all producers are in the order.
LEMMA NothingPending ==
  ASSUME EngineTypes, NEW n \in Nodes, Cardinality(Unconsumed(n)) = 0
  PROVE  \A c \in Edges : Dst(c) = n => Src(c) \in visited /\ c \notin consumers
<1>1. Unconsumed(n) \in SUBSET Edges BY DEF Unconsumed
<1>2. IsFiniteSet(Unconsumed(n)) BY <1>1, WorldFacts DEF EngineTypes
<1>3. Unconsumed(n) = {} BY <1>2, FS_EmptySet
<1>. QED BY <1>3 DEF Unconsumed

LEMMA CountKeeps ==
  ASSUME EngineInv, CountEdges
  PROVE  EngineInv'
<1>. USE SameWorld DEF EngineInv, CountEdges, sorting, buffers
<1>0. /\ topo_order = <<>> /\ consumers = {} /\ visited = {} /\ visited' = {}
      /\ topo_order' = <<>> /\ consumers' = {} /\ queue' = queue /\ world \in Worlds
  BY DEF OrderInv, visited, EngineTypes
<1>1. EngineTypes'
  <2>1. \A n \in Nodes : Cardinality({c \in Edges : Dst(c) = n}) \in Int
    BY <1>0, WorldFacts, FS_CardinalityType
  <2>. QED BY <2>1 DEF EngineTypes, Sortings
<1>2. CheckedInv' BY DEF CheckedInv, Sortings, Built
<1>3. DegreeInv'
  <2>1. \A n : Unconsumed(n)' = {c \in Edges : Dst(c) = n}
    BY <1>0 DEF Unconsumed
  <2>2. \A n \in Nodes : in_degree'[n] = Cardinality(Unconsumed(n)')
    BY <2>1
  <2>3. queue = <<>> BY DEF OrderInv
  <2>. QED BY <1>0, <2>2, <2>3 DEF DegreeInv
<1>4. OrderInv' BY <1>0 DEF OrderInv
<1>5. BlockInv' /\ ReadsShowTheLastBlock' BY NoBlockYet
<1>. QED BY <1>1, <1>2, <1>3, <1>4, <1>5

LEMMA SeedKeeps ==
  ASSUME EngineInv, SeedQueue
  PROVE  EngineInv'
<1>. USE SameWorld DEF EngineInv, SeedQueue, buffers
<1>0. /\ consumers' = consumers /\ topo_order' = topo_order /\ visited' = visited
      /\ in_degree' = in_degree /\ engine_step' \in Sortings /\ world \in Worlds
  BY DEF visited, Sortings, EngineTypes
<1>a. queue \in Seq(Nodes) BY DEF EngineTypes
<1>b. \/ queue' = queue
      \/ loop_pos \in Nodes /\ in_degree[loop_pos] = 0 /\ queue' = Append(queue, loop_pos)
  OBVIOUS
<1>1. EngineTypes'
  <2>1. queue' \in Seq(Nodes)
    <3>1. CASE queue' = queue BY <1>a, <3>1
    <3>2. CASE loop_pos \in Nodes /\ queue' = Append(queue, loop_pos) BY <1>a, <3>2
    <3>. QED BY <1>b, <3>1, <3>2
  <2>2. loop_pos' \in Nat \ {0} BY DEF EngineTypes
  <2>. QED BY <1>0, <2>1, <2>2 DEF EngineTypes
<1>2. CheckedInv' BY <1>0 DEF CheckedInv, Sortings, Built
<1>3. DegreeInv'
  <2>1. \A n : Unconsumed(n)' = Unconsumed(n) BY <1>0 DEF Unconsumed
  <2>2. \A i \in DOMAIN queue : in_degree[queue[i]] = 0
    BY DEF DegreeInv, Sortings
  <2>3. \A i \in DOMAIN queue' : in_degree[queue'[i]] = 0
    BY <1>a, <1>b, <2>2
  <2>. QED BY <1>0, <2>1, <2>3 DEF DegreeInv, Sortings
<1>4. OrderInv' BY <1>0 DEF OrderInv, Sortings
<1>5. BlockInv' /\ ReadsShowTheLastBlock' BY <1>0, NoBlockYet DEF Sortings
<1>. QED BY <1>1, <1>2, <1>3, <1>4, <1>5

\* A node that is popped twice is passed over.
LEMMA PopAgainKeeps ==
  ASSUME EngineInv, PopNode, Head(queue) \in visited
  PROVE  EngineInv'
<1>. USE SameWorld DEF EngineInv, PopNode, buffers
<1>0. /\ consumers' = consumers /\ topo_order' = topo_order /\ visited' = visited
      /\ queue \in Seq(Nodes) /\ queue # <<>>
  BY DEF visited, EngineTypes
<1>1. EngineTypes' BY <1>0 DEF EngineTypes
<1>2. CheckedInv' BY DEF CheckedInv, Sortings, Built
<1>3. DegreeInv'
  <2>1. \A n : Unconsumed(n)' = Unconsumed(n) BY <1>0 DEF Unconsumed
  <2>2. \A i \in DOMAIN queue' : i + 1 \in DOMAIN queue /\ queue'[i] = queue[i + 1]
    BY <1>0
  <2>. QED BY <1>0, <2>1, <2>2 DEF DegreeInv, Sortings
<1>4. OrderInv' BY <1>0 DEF OrderInv
<1>5. BlockInv' /\ ReadsShowTheLastBlock' BY NoBlockYet
<1>. QED BY <1>1, <1>2, <1>3, <1>4, <1>5

\* A node enters the order after all its producers, and its consumers are to be told.
LEMMA PopKeeps ==
  ASSUME EngineInv, PopNode, Head(queue) \notin visited
  PROVE  EngineInv'
<1>. DEFINE h == Head(queue)
<1>. USE SameWorld DEF EngineInv, PopNode, buffers
<1>0. /\ queue \in Seq(Nodes) /\ queue # <<>> /\ topo_order \in Seq(Nodes)
      /\ h \in Nodes /\ consumers = {} /\ consumers' = {c \in Edges : Src(c) = h}
      /\ topo_order' = Append(topo_order, h)
      /\ engine_step = "sort" /\ h = queue[1] /\ 1 \in DOMAIN queue
  BY DEF EngineTypes
<1>. HIDE DEF h
<1>a. /\ DOMAIN topo_order = 1..Len(topo_order) /\ Len(topo_order) \in Nat
      /\ DOMAIN topo_order' = 1..Len(topo_order) + 1
      /\ \A i \in DOMAIN topo_order : topo_order'[i] = topo_order[i]
      /\ topo_order'[Len(topo_order) + 1] = h
  BY <1>0
<1>1. visited' = visited \cup {h}
  BY <1>a DEF visited
<1>2. h \notin visited BY DEF h
<1>3. EngineTypes'
  <2>1. queue' \in Seq(Nodes) /\ topo_order' \in Seq(Nodes) BY <1>0
  <2>. QED BY <1>0, <2>1 DEF EngineTypes
<1>4. CheckedInv' BY DEF CheckedInv, Sortings, Built
<1>5. DegreeInv'
  <2>1. \A n : Unconsumed(n)' = Unconsumed(n) BY <1>0, <1>1, <1>2 DEF Unconsumed
  <2>2. \A i \in DOMAIN queue' : i + 1 \in DOMAIN queue /\ queue'[i] = queue[i + 1]
    BY <1>0
  <2>. QED BY <1>0, <2>1, <2>2 DEF DegreeInv, Sortings
<1>6. OrderInv'
  <2>1. \A c \in Edges : Dst(c) = h => Src(c) \in visited
    BY <1>0, NothingPending DEF DegreeInv, Sortings
  <2>2. \A j, k \in DOMAIN topo_order' : topo_order'[j] = topo_order'[k] => j = k
    BY <1>a, <1>2 DEF OrderInv, visited
  <2>3. ASSUME NEW c \in Edges, NEW k \in DOMAIN topo_order', Dst(c) = topo_order'[k]
        PROVE  \E j \in 1..k - 1 : Src(c) = topo_order'[j]
    <3>1. CASE k \in DOMAIN topo_order
      <4>1. topo_order'[k] = topo_order[k] BY <1>a, <3>1
      <4>2. PICK j \in 1..k - 1 : Src(c) = topo_order[j]
        BY <2>3, <3>1, <4>1 DEF OrderInv
      <4>3. topo_order'[j] = topo_order[j] BY <1>a, <3>1
      <4>. QED BY <4>2, <4>3
    <3>2. CASE k \notin DOMAIN topo_order
      <4>1. k = Len(topo_order) + 1 /\ topo_order'[k] = h BY <1>a, <3>2
      <4>2. Src(c) \in visited BY <2>1, <2>3, <4>1
      <4>3. PICK j \in DOMAIN topo_order : Src(c) = topo_order[j]
        BY <4>2 DEF visited
      <4>4. topo_order'[j] = topo_order[j] /\ j \in 1..k - 1 BY <1>a, <4>1
      <4>. QED BY <4>3, <4>4
    <3>. QED BY <3>1, <3>2
  <2>4. \A c \in consumers' : Src(c) \in visited' BY <1>0, <1>1
  <2>5. engine_step' = "sort" BY <1>0
  <2>6. \A c \in Edges, k \in DOMAIN topo_order' :
          Dst(c) = topo_order'[k] => \E j \in 1..k - 1 : Src(c) = topo_order'[j]
    BY <2>3
  <2>. QED BY <2>2, <2>4, <2>5, <2>6 DEF OrderInv
<1>7. BlockInv' /\ ReadsShowTheLastBlock' BY <1>0, NoBlockYet
<1>. QED BY <1>3, <1>4, <1>5, <1>6, <1>7

\* A consumer that has been told is owed one producer less, and is queued for none.
LEMMA DecrementKeeps ==
  ASSUME EngineInv, NEW c \in consumers, engine_step = "sort",
         consumers' = consumers \ {c},
         in_degree' = [in_degree EXCEPT ![Dst(c)] = @ - 1],
         queue' = IF NowReady(in_degree[Dst(c)] - 1) THEN Append(queue, Dst(c)) ELSE queue,
         UNCHANGED <<world, engine_step, topo_order, loop_pos, latency, buffers>>
  PROVE  EngineInv'
<1>. DEFINE n == Dst(c)
<1>. USE SameWorld DEF EngineInv, buffers
<1>0. /\ c \in Edges /\ Src(c) \in visited /\ n \in Nodes /\ visited' = visited
      /\ world \in Worlds /\ queue \in Seq(Nodes) /\ in_degree \in [Nodes -> Int]
      /\ \A m \in Nodes : in_degree[m] = Cardinality(Unconsumed(m))
      /\ \A i \in DOMAIN queue : in_degree[queue[i]] = 0
  <2>1. c \in Edges /\ Src(c) \in visited BY DEF EngineTypes, OrderInv
  <2>2. n \in Nodes BY <2>1, EdgeEnds DEF CheckedInv, Sortings
  <2>. QED BY <2>1, <2>2 DEF EngineTypes, DegreeInv, Sortings, visited
<1>. HIDE DEF n
<1>1. \A m \in Nodes : Unconsumed(m)' = IF m = n THEN Unconsumed(m) \ {c} ELSE Unconsumed(m)
  BY <1>0 DEF Unconsumed, n
<1>2. \A m \in Nodes : Unconsumed(m) \in SUBSET Edges /\ IsFiniteSet(Unconsumed(m))
  BY <1>0, WorldFacts DEF Unconsumed
<1>3. c \in Unconsumed(n) BY <1>0 DEF Unconsumed, n
<1>4. /\ Cardinality(Unconsumed(n) \ {c}) = Cardinality(Unconsumed(n)) - 1
      /\ Cardinality(Unconsumed(n)) # 0
  BY <1>0, <1>2, <1>3, FS_RemoveElement, FS_EmptySet
<1>5. in_degree' = [in_degree EXCEPT ![n] = @ - 1] BY DEF n
<1>6. \A m \in Nodes : in_degree'[m] = Cardinality(Unconsumed(m)')
  BY <1>0, <1>1, <1>4, <1>5
<1>7. \/ queue' = queue
      \/ in_degree[n] - 1 = 0 /\ queue' = Append(queue, n)
  BY DEF NowReady, n
<1>8. queue' \in Seq(Nodes) /\ \A i \in DOMAIN queue' : in_degree'[queue'[i]] = 0
  <2>1. \A i \in DOMAIN queue : queue[i] \in Nodes /\ in_degree'[queue[i]] = 0
    BY <1>0, <1>4, <1>5
  <2>2. CASE queue' = queue BY <1>0, <2>1, <2>2
  <2>3. CASE in_degree[n] - 1 = 0 /\ queue' = Append(queue, n)
    <3>1. in_degree'[n] = 0 BY <1>0, <1>5, <2>3
    <3>. QED BY <1>0, <2>1, <2>3, <3>1
  <2>. QED BY <1>7, <2>2, <2>3
<1>9. EngineTypes'
  <2>1. in_degree' \in [Nodes -> Int] BY <1>0, <1>5
  <2>. QED BY <1>8, <2>1 DEF EngineTypes
<1>10. CheckedInv' BY DEF CheckedInv, Sortings, Built
<1>11. DegreeInv' BY <1>6, <1>8 DEF DegreeInv
<1>12. OrderInv' BY <1>0 DEF OrderInv
<1>13. BlockInv' /\ ReadsShowTheLastBlock' BY NoBlockYet
<1>. QED BY <1>9, <1>10, <1>11, <1>12, <1>13

-----------------------------------------------------------------------------
(* The rest of build.                                                      *)

LEMMA RejectKeeps ==
  ASSUME EngineInv, Reject, engine_step \notin {"idle", "run"}
  PROVE  EngineInv'
<1>. USE SameWorld DEF EngineInv, Reject, sorting, buffers
<1>1. EngineTypes' BY DEF EngineTypes
<1>2. CheckedInv' BY DEF CheckedInv, Sortings, Built
<1>3. DegreeInv' /\ OrderInv' BY SortingKept DEF Sortings
<1>4. BlockInv' /\ ReadsShowTheLastBlock' BY NoBlockYet
<1>. QED BY <1>1, <1>2, <1>3, <1>4

LEMMA ResolveKeeps ==
  ASSUME EngineInv, ResolvePorts
  PROVE  EngineInv'
<1>. USE SameWorld DEF EngineInv, ResolvePorts, Sorted, sorting, buffers
<1>1. EngineTypes' BY DEF EngineTypes, Built
<1>2. CheckedInv' BY DEF CheckedInv, Sortings, Built
<1>3. DegreeInv' /\ OrderInv' BY SortingKept DEF Sortings
<1>4. BlockInv' /\ ReadsShowTheLastBlock' BY NoBlockYet
<1>. QED BY <1>1, <1>2, <1>3, <1>4

\* An engine is built with no frame to read.
LEMMA LatencyKeeps ==
  ASSUME EngineInv, ComputeLatency
  PROVE  EngineInv'
<1>. USE SameWorld DEF EngineInv, ComputeLatency, sorting, buffers
<1>0. /\ engine_step' \in {"latency", "idle"} /\ loop_pos' \in Nat \ {0}
      /\ last_n_frames = 0 /\ 0 \in 0..BLOCK_SIZE
  BY BlocksAssumption DEF EngineTypes
<1>1. EngineTypes' BY <1>0 DEF EngineTypes, Built
<1>2. CheckedInv' BY <1>0 DEF CheckedInv, Sortings, Built
<1>3. DegreeInv' /\ OrderInv' BY <1>0, SortingKept DEF Sortings
<1>4. BlockInv' /\ ReadsShowTheLastBlock'
  BY <1>0 DEF BlockInv, ReadsShowTheLastBlock
<1>. QED BY <1>1, <1>2, <1>3, <1>4

-----------------------------------------------------------------------------
(* process_block.                                                          *)

\* As many nodes in the order as there are, and none twice: every node is in it.
LEMMA EveryNodeIsSorted ==
  ASSUME EngineTypes, OrderInv, Len(topo_order) = Len(world.nodes)
  PROVE  \A n \in Nodes : \E k \in DOMAIN topo_order : topo_order[k] = n
<1>1. /\ Len(world.nodes) \in Nat /\ Nodes = 1..Len(world.nodes)
      /\ topo_order \in [1..Len(topo_order) -> Nodes]
  BY WorldFacts DEF EngineTypes
<1>2. IsFiniteSet(Nodes) BY <1>1, FS_Interval
<1>3. topo_order \in Injection(Nodes, Nodes)
  <2>1. /\ topo_order \in [Nodes -> Nodes] /\ DOMAIN topo_order = Nodes
    BY <1>1
  <2>2. \A j, k \in Nodes : topo_order[j] = topo_order[k] => j = k
    BY <2>1 DEF OrderInv
  <2>. QED BY <2>1, <2>2 DEF Injection, IsInjective
<1>4. topo_order \in Surjection(Nodes, Nodes)
  BY <1>2, <1>3, FS_Injection
<1>. QED BY <1>1, <1>4 DEF Surjection

LEMMA BeginKeeps ==
  ASSUME EngineInv, NEW n_frames \in Samples, BeginBlock(n_frames)
  PROVE  EngineInv'
<1>. USE SameWorld DEF EngineInv, BeginBlock, sorting
<1>0. /\ world \in Worlds /\ engine_step = "idle" /\ engine_step' = "run" /\ loop_pos' = 1
      /\ last_n_frames' = n_frames /\ n_frames \in 1..BLOCK_SIZE /\ BLOCK_SIZE \in Nat
      /\ blocks' = blocks + 1 /\ blocks \in Nat /\ topo_order' = topo_order
      /\ mixed \in [Connections -> [Samples -> Nat]]
      /\ topo_order \in Seq(Nodes)
  BY BlocksAssumption DEF EngineTypes, Samples
<1>1. /\ mixed' \in [Connections -> [Samples -> Nat]]
      /\ \A c \in Connections, i \in 1..n_frames :
           mixed'[c][i] = IF LastCopied(c) THEN 1 ELSE 0
  BY <1>0 DEF ZeroAndStage, Fill, Samples
<1>2. EngineTypes' BY <1>0, <1>1 DEF EngineTypes, Built
<1>3. CheckedInv' BY <1>0 DEF CheckedInv, Sortings, Built
<1>4. DegreeInv' /\ OrderInv' BY <1>0, SortingKept DEF Sortings
<1>5. BlockInv'
  <2>1. \A c \in Staged : LastCopied(c)
    BY <1>0, WorldFacts DEF CheckedInv, Built, PortsResolve, StagedApart, LastCopied
  <2>2. \A c \in Edges : ~LastCopied(c)
    BY <1>0, WorldFacts DEF LastCopied
  <2>3. gone_by' = {} BY <1>0 DEF gone_by
  <2>4. Edges \subseteq Connections /\ Staged \subseteq Connections
    BY <1>0, WorldFacts
  <2>5. loop_pos' <= Len(topo_order') + 1 BY <1>0
  <2>. QED BY <1>0, <1>1, <2>1, <2>2, <2>3, <2>4, <2>5 DEF BlockInv
<1>6. ReadsShowTheLastBlock' BY <1>0 DEF ReadsShowTheLastBlock
<1>. QED BY <1>2, <1>3, <1>4, <1>5, <1>6

\* A node's output reaches its consumers once, because the node runs once.
LEMMA RunKeeps ==
  ASSUME EngineInv, RunNode
  PROVE  EngineInv'
<1>. DEFINE n == topo_order[loop_pos]
<1>. USE SameWorld DEF EngineInv, RunNode, sorting
<1>0. /\ world \in Worlds /\ engine_step = "run" /\ engine_step' = "run"
      /\ loop_pos' = loop_pos + 1 /\ loop_pos \in 1..Len(topo_order)
      /\ loop_pos \in DOMAIN topo_order /\ Len(topo_order) \in Nat
      /\ last_n_frames' = last_n_frames /\ last_n_frames \in 0..BLOCK_SIZE
      /\ BLOCK_SIZE \in Nat /\ blocks' = blocks /\ blocks \in Nat
      /\ topo_order' = topo_order /\ topo_order \in Seq(Nodes) /\ n \in Nodes
      /\ mixed \in [Connections -> [Samples -> Nat]]
      /\ outputs \in [Nodes -> [Samples -> Nat]]
  BY BlocksAssumption DEF EngineTypes
<1>1. /\ outputs' = [outputs EXCEPT ![n] = Fill(@, last_n_frames, blocks)]
      /\ mixed' = [c \in Connections |->
                     IF c \in Edges /\ Src(c) = n
                     THEN [i \in Samples |->
                             mixed[c][i] + (IF i <= last_n_frames THEN 1 ELSE 0)]
                     ELSE mixed[c]]
  OBVIOUS
<1>. HIDE DEF n
<1>2. gone_by' = gone_by \cup {n}
  BY <1>0 DEF gone_by, n
<1>3. n \notin gone_by
  BY <1>0 DEF gone_by, n, OrderInv
<1>4. /\ mixed' \in [Connections -> [Samples -> Nat]]
      /\ outputs' \in [Nodes -> [Samples -> Nat]]
  <2>1. \A c \in Connections :
          [i \in Samples |-> mixed[c][i] + (IF i <= last_n_frames THEN 1 ELSE 0)]
            \in [Samples -> Nat]
    BY <1>0
  <2>2. Fill(outputs[n], last_n_frames, blocks) \in [Samples -> Nat]
    BY <1>0 DEF Fill
  <2>3. mixed' \in [Connections -> [Samples -> Nat]] BY <1>0, <1>1, <2>1
  <2>4. outputs' \in [Nodes -> [Samples -> Nat]] BY <1>0, <1>1, <2>2
  <2>. QED BY <2>3, <2>4
<1>5. EngineTypes' BY <1>0, <1>4 DEF EngineTypes, Built
<1>6. CheckedInv' BY <1>0 DEF CheckedInv, Sortings, Built
<1>7. DegreeInv' /\ OrderInv' BY <1>0, SortingKept DEF Sortings
<1>8. BlockInv'
  <2>1. /\ Edges \subseteq Connections /\ Staged \subseteq Connections
        /\ Edges \cap Staged = {}
    BY <1>0, WorldFacts
  <2>2. \A i \in 1..last_n_frames : i \in Samples /\ i <= last_n_frames
    BY <1>0 DEF Samples
  <2>3. \A i \in 1..last_n_frames, c \in Staged : mixed'[c][i] = 1
    BY <1>0, <1>1, <2>1 DEF BlockInv
  <2>4. \A i \in 1..last_n_frames, c \in Edges :
          mixed'[c][i] = IF Src(c) \in gone_by \cup {n} THEN 1 ELSE 0
    <3>. SUFFICES ASSUME NEW i \in 1..last_n_frames, NEW c \in Edges
                  PROVE  mixed'[c][i] = IF Src(c) \in gone_by \cup {n} THEN 1 ELSE 0
      OBVIOUS
    <3>1. mixed[c][i] = IF Src(c) \in gone_by THEN 1 ELSE 0 BY <1>0 DEF BlockInv
    <3>2. c \in Connections /\ i \in Samples /\ i <= last_n_frames BY <2>1, <2>2
    <3>3. CASE Src(c) = n
      <4>1. mixed[c][i] = 0 BY <1>3, <3>1, <3>3
      <4>. QED BY <1>1, <3>2, <3>3, <4>1
    <3>4. CASE Src(c) # n BY <1>1, <3>1, <3>2, <3>4
    <3>. QED BY <3>3, <3>4
  <2>5. \A i \in 1..last_n_frames, m \in Nodes \cap (gone_by \cup {n}) :
          outputs'[m][i] = blocks
    BY <1>0, <1>1, <2>2 DEF BlockInv, Fill
  <2>6. loop_pos' <= Len(topo_order') + 1 BY <1>0
  <2>7. \A i \in 1..last_n_frames :
          /\ \A c \in Staged : mixed'[c][i] = 1
          /\ \A c \in Edges : mixed'[c][i] = IF Src(c) \in gone_by' THEN 1 ELSE 0
          /\ \A m \in Nodes \cap gone_by' : outputs'[m][i] = blocks
    BY ONLY <1>2, <2>3, <2>4, <2>5
  <2>8. /\ Staged' = Staged /\ Edges' = Edges /\ Nodes' = Nodes
        /\ \A c : Src(c)' = Src(c)
    OBVIOUS
  <2>9. last_n_frames' = last_n_frames /\ blocks' = blocks BY <1>0
  <2>. QED BY ONLY <2>6, <2>7, <2>8, <2>9 DEF BlockInv
<1>9. ReadsShowTheLastBlock' BY <1>0 DEF ReadsShowTheLastBlock
<1>. QED BY <1>5, <1>6, <1>7, <1>8, <1>9

\* By the end of a block every node has written its output, and the out-ports take it.
LEMMA EndOfBlockKeeps ==
  ASSUME EngineInv, EndBlock
  PROVE  EngineInv'
<1>. USE SameWorld DEF EngineInv, EndBlock, sorting
<1>0. /\ world \in Worlds /\ engine_step = "run" /\ engine_step' = "idle"
      /\ loop_pos' = loop_pos /\ loop_pos \in Nat \ {0} /\ loop_pos \notin DOMAIN topo_order
      /\ last_n_frames' = last_n_frames /\ last_n_frames \in 0..BLOCK_SIZE
      /\ BLOCK_SIZE \in Nat /\ blocks' = blocks /\ outputs' = outputs
      /\ topo_order' = topo_order /\ topo_order \in Seq(Nodes) /\ captured' = CaptureOutputs
      /\ outputs \in [Nodes -> [Samples -> Nat]]
      /\ captured \in [world.out_ports -> [Samples -> Nat]]
      /\ Len(topo_order) = Len(world.nodes) /\ PortsResolve
  BY BlocksAssumption DEF EngineTypes, CheckedInv, Built
<1>1. loop_pos = Len(topo_order) + 1
  <2>1. loop_pos <= Len(topo_order) + 1 BY <1>0 DEF BlockInv
  <2>2. DOMAIN topo_order = 1..Len(topo_order) /\ Len(topo_order) \in Nat BY <1>0
  <2>3. loop_pos \in Nat \ {0} /\ loop_pos \notin 1..Len(topo_order) BY <1>0, <2>2
  <2>. QED BY ONLY <2>1, <2>2, <2>3
<1>2. Nodes \subseteq gone_by
  BY <1>0, <1>1, EveryNodeIsSorted DEF gone_by
<1>3. \A p \in world.out_ports : SourceOf(p) \in Nodes
  <2>1. ASSUME NEW p \in world.out_ports
        PROVE  \E c \in Sources(p) : HasOutput(From(c))
    <3>1. Cardinality({c \in Sources(p) : HasOutput(From(c))}) = 1
      BY <1>0 DEF PortsResolve
    <3>. QED BY <3>1, FS_EmptySet
  <2>. QED BY <2>1 DEF SourceOf, HasOutput, Src
<1>4. captured' \in [world.out_ports -> [Samples -> Nat]]
  BY <1>0, <1>3 DEF CaptureOutputs, Samples
<1>5. EngineTypes' BY <1>0, <1>4 DEF EngineTypes, Built
<1>6. CheckedInv' BY <1>0 DEF CheckedInv, Sortings, Built
<1>7. DegreeInv' /\ OrderInv' BY <1>0, SortingKept DEF Sortings
<1>8. BlockInv' BY <1>0 DEF BlockInv
<1>9. ReadsShowTheLastBlock'
  <2>1. \A i \in 1..last_n_frames, n \in Nodes : outputs[n][i] = blocks
    BY <1>0, <1>2 DEF BlockInv
  <2>2. \A i \in 1..last_n_frames, p \in world.out_ports :
          captured'[p][i] = outputs[SourceOf(p)][i]
    BY <1>0 DEF CaptureOutputs, Samples
  <2>. QED BY <1>0, <1>3, <2>1, <2>2 DEF ReadsShowTheLastBlock
<1>. QED BY <1>5, <1>6, <1>7, <1>8, <1>9

LEMMA ResetKeeps ==
  ASSUME EngineInv, ResetEngine
  PROVE  EngineInv'
<1>. USE SameWorld DEF EngineInv, ResetEngine, sorting
<1>0. engine_step = "idle" /\ engine_step' = "idle" /\ last_n_frames' = 0
      /\ 0 \in 0..BLOCK_SIZE /\ world' = world
  BY BlocksAssumption
<1>1. EngineTypes' BY <1>0 DEF EngineTypes, Built
<1>2. CheckedInv' BY <1>0 DEF CheckedInv, Sortings, Built
<1>3. DegreeInv' /\ OrderInv' BY <1>0, SortingKept DEF Sortings
<1>4. BlockInv' /\ ReadsShowTheLastBlock'
  BY <1>0 DEF BlockInv, ReadsShowTheLastBlock
<1>. QED BY <1>1, <1>2, <1>3, <1>4

-----------------------------------------------------------------------------
LEMMA EngineStep == EngineInv /\ [EngineNext]_engine_vars => EngineInv'
<1>. SUFFICES ASSUME EngineInv, [EngineNext]_engine_vars
              PROVE  EngineInv'
  OBVIOUS
<1>1. CASE UNCHANGED engine_vars
  <2>. USE <1>1, SameWorld DEF EngineInv, engine_vars, sorting, buffers
  <2>1. EngineTypes' BY DEF EngineTypes
  <2>2. CheckedInv' BY DEF CheckedInv
  <2>3. visited' = visited /\ gone_by' = gone_by BY DEF visited, gone_by
  <2>4. DegreeInv'
    <3>1. \A n : Unconsumed(n)' = Unconsumed(n) BY <2>3 DEF Unconsumed
    <3>. QED BY <3>1 DEF DegreeInv
  <2>5. OrderInv' BY <2>3 DEF OrderInv
  <2>6. BlockInv' BY <2>3 DEF BlockInv
  <2>7. ReadsShowTheLastBlock' BY DEF ReadsShowTheLastBlock
  <2>. QED BY <2>1, <2>2, <2>4, <2>5, <2>6, <2>7
<1>2. CASE RejectWorld \/ CycleDetected \/ RejectPorts
  BY <1>2, RejectKeeps DEF RejectWorld, CycleDetected, RejectPorts, Sorted
<1>3. CASE PopNode BY <1>3, PopKeeps, PopAgainKeeps
<1>4. CASE DecrementConsumer
  <2>1. PICK c \in consumers :
          /\ consumers' = consumers \ {c}
          /\ in_degree' = [in_degree EXCEPT ![Dst(c)] = @ - 1]
          /\ queue' = IF NowReady(in_degree[Dst(c)] - 1) THEN Append(queue, Dst(c)) ELSE queue
    BY <1>4 DEF DecrementConsumer
  <2>2. /\ engine_step = "sort"
        /\ UNCHANGED <<world, engine_step, topo_order, loop_pos, latency, buffers>>
    BY <1>4 DEF DecrementConsumer
  <2>. QED BY <2>1, <2>2, DecrementKeeps
<1>5. CASE \E n_frames \in Samples : BeginBlock(n_frames) BY <1>5, BeginKeeps
<1>. QED BY <1>1, <1>2, <1>3, <1>4, <1>5, CountKeeps, SeedKeeps, ResolveKeeps, LatencyKeeps,
            RunKeeps, EndOfBlockKeeps, ResetKeeps DEF EngineNext

LEMMA EngineInductive == EngineSpec => []EngineInv
BY EngineStarts, EngineStep, PTL DEF EngineSpec

(* Whatever World build accepts (graph.rs, topo_sort, process_block): when a node runs, each
   of its inputs has been added exactly once this block, and between blocks every out-port
   and every output is of the last block, however many nodes there are and however long
   the blocks. *)
THEOREM BlocksAreWholeAlways == EngineSpec => []BlocksAreWhole
<1>1. ASSUME EngineInv PROVE BlocksAreWhole
  <2>. USE <1>1 DEF EngineInv
  <2>1. ASSUME engine_step = "run", loop_pos \in DOMAIN topo_order,
               NEW c \in Into(topo_order[loop_pos]), NEW i \in 1..last_n_frames
        PROVE  mixed[c][i] = 1
    <3>1. CASE c \in Staged BY <2>1, <3>1 DEF BlockInv
    <3>2. CASE c \in Edges
      <4>1. PICK j \in 1..loop_pos - 1 : Src(c) = topo_order[j]
        BY <2>1, <3>2 DEF OrderInv, Into
      <4>2. j \in DOMAIN topo_order /\ j < loop_pos BY <2>1 DEF EngineTypes
      <4>3. Src(c) \in gone_by BY <4>1, <4>2 DEF gone_by
      <4>. QED BY <2>1, <3>2, <4>3 DEF BlockInv
    <3>. QED BY <3>1, <3>2 DEF Into
  <2>2. EachInputOncePerBlock BY <2>1 DEF EachInputOncePerBlock
  <2>. QED BY <2>2 DEF BlocksAreWhole
<1>. QED BY <1>1, EngineInductive, PTL

-----------------------------------------------------------------------------
(* Sums along a path, and the largest of finitely many numbers.            *)

\* Up to every position there is a function of the sums.
LEMMA SumsExist ==
  ASSUME NEW n \in Nat, NEW f \in [1..n -> Nat], NEW k \in 0..n
  PROVE  \E s \in [1..k -> Nat] :
           \A i \in 1..k : s[i] = f[i] + (IF i = 1 THEN 0 ELSE s[i - 1])
<1>. DEFINE OK(m) == \E s \in [1..m -> Nat] :
                       \A i \in 1..m : s[i] = f[i] + (IF i = 1 THEN 0 ELSE s[i - 1])
            K == {m \in Nat : m <= n => OK(m)}
<1>1. 0 \in K
  <2>1. [i \in 1..0 |-> 0] \in [1..0 -> Nat] /\ 1..0 = {} OBVIOUS
  <2>2. OK(0) BY <2>1
  <2>. QED BY <2>2
<1>2. ASSUME NEW m \in Nat, m \in K PROVE m + 1 \in K
  <2>. SUFFICES ASSUME m + 1 <= n PROVE OK(m + 1)
    OBVIOUS
  <2>1. PICK s \in [1..m -> Nat] :
          \A i \in 1..m : s[i] = f[i] + (IF i = 1 THEN 0 ELSE s[i - 1])
    BY <1>2
  <2>. DEFINE last == f[m + 1] + (IF m + 1 = 1 THEN 0 ELSE s[m])
              t == [i \in 1..m + 1 |-> IF i = m + 1 THEN last ELSE s[i]]
  <2>2. last \in Nat
    <3>1. f[m + 1] \in Nat OBVIOUS
    <3>2. m # 0 => s[m] \in Nat BY <2>1
    <3>. QED BY <3>1, <3>2
  <2>. HIDE DEF last
  <2>3. t \in [1..m + 1 -> Nat] BY <2>1, <2>2
  <2>4. ASSUME NEW i \in 1..m + 1
        PROVE  t[i] = f[i] + (IF i = 1 THEN 0 ELSE t[i - 1])
    <3>1. CASE i = m + 1 BY <3>1 DEF last
    <3>2. CASE i \in 1..m
      <4>1. t[i] = s[i] /\ (i # 1 => t[i - 1] = s[i - 1]) BY <3>2
      <4>. HIDE DEF t
      <4>. QED BY <2>1, <3>2, <4>1
    <3>. QED BY <3>1, <3>2
  <2>. HIDE DEF t
  <2>. QED BY <2>3, <2>4
<1>3. Nat \subseteq K
  <2>. HIDE DEF K
  <2>. QED BY <1>1, <1>2, SetInduction
<1>4. k \in Nat /\ k <= n OBVIOUS
<1>5. k \in K
  <2>. HIDE DEF K
  <2>. QED BY <1>3, <1>4
<1>6. OK(k) BY <1>4, <1>5
<1>. QED BY <1>6

\* Of finitely many numbers one is the largest.
LEMMA LargestExists ==
  ASSUME NEW n \in Nat, NEW S \in SUBSET (1..n), S # {}, NEW f, \A m \in S : f[m] \in Nat
  PROVE  \E m \in S : \A k \in S : f[k] <= f[m]
<1>. DEFINE Top(T, m) == m \in T /\ \A k \in T : f[k] <= f[m]
            K == {j \in Nat : S \cap 1..j = {} \/ \E m : Top(S \cap 1..j, m)}
<1>1. 0 \in K BY 1..0 = {}
<1>2. ASSUME NEW j \in Nat, j \in K PROVE j + 1 \in K
  <2>1. 1..j + 1 = 1..j \cup {j + 1} OBVIOUS
  <2>2. CASE j + 1 \notin S
    <3>1. S \cap 1..j + 1 = S \cap 1..j BY <2>1, <2>2
    <3>. QED BY <1>2, <3>1
  <2>3. CASE j + 1 \in S /\ S \cap 1..j = {}
    <3>1. S \cap 1..j + 1 = {j + 1} BY <2>1, <2>3
    <3>2. Top({j + 1}, j + 1) BY <2>3
    <3>. QED BY <3>1, <3>2
  <2>4. CASE j + 1 \in S /\ S \cap 1..j # {}
    <3>1. PICK m : Top(S \cap 1..j, m) BY <1>2, <2>4
    <3>2. f[m] \in Nat /\ f[j + 1] \in Nat /\ \A k \in S : f[k] \in Nat BY <2>4, <3>1
    <3>3. S \cap 1..j + 1 = (S \cap 1..j) \cup {j + 1} BY <2>1, <2>4
    <3>4. CASE f[j + 1] <= f[m]
      <4>1. Top(S \cap 1..j + 1, m) BY <3>1, <3>3, <3>4
      <4>. QED BY <4>1
    <3>5. CASE f[m] <= f[j + 1]
      <4>1. \A k \in S \cap 1..j : f[k] <= f[j + 1] BY <3>1, <3>2, <3>5
      <4>2. Top(S \cap 1..j + 1, j + 1) BY <3>2, <3>3, <4>1
      <4>. QED BY <4>2
    <3>. QED BY <3>2, <3>4, <3>5
  <2>. QED BY <2>2, <2>3, <2>4
<1>3. Nat \subseteq K
  <2>. HIDE DEF K
  <2>. QED BY <1>1, <1>2, SetInduction
<1>4. S \cap 1..n = S OBVIOUS
<1>. QED BY <1>3, <1>4

\* What the sums of a path are.
LEMMA SumsOfPath ==
  ASSUME WorldIsSortable, NEW k \in Nat, NEW p \in [1..k -> Nodes]
  PROVE  /\ SumsAlong(p) \in [1..k -> Nat]
         /\ \A i \in 1..k : SumsAlong(p)[i] =
              Type(p[i]).latency + (IF i = 1 THEN 0 ELSE SumsAlong(p)[i - 1])
<1>. DEFINE f == [i \in 1..k |-> Type(p[i]).latency]
            s == SumsAlong(p)
            IsSums(g) == g = [i \in 1..k |-> Type(p[i]).latency + (IF i = 1 THEN 0 ELSE g[i - 1])]
<1>1. f \in [1..k -> Nat]
  BY RegistryAssumption DEF WorldIsSortable, UnknownType, Type
<1>2. PICK g \in [1..k -> Nat] : \A i \in 1..k : g[i] = f[i] + (IF i = 1 THEN 0 ELSE g[i - 1])
  <2>. HIDE DEF f
  <2>1. k \in 0..k OBVIOUS
  <2>. QED BY <1>1, <2>1, SumsExist
<1>3. IsSums(g)
  BY <1>2
<1>4. s = CHOOSE h : IsSums(h)
  BY DOMAIN p = 1..k DEF SumsAlong
<1>5. IsSums(s)
  <2>. HIDE DEF IsSums, s
  <2>. QED BY <1>3, <1>4
<1>. DEFINE K == {i \in Nat : i \in 1..k => s[i] = g[i]}
<1>. HIDE DEF s
<1>6. 0 \in K OBVIOUS
<1>7. ASSUME NEW i \in Nat, i \in K PROVE i + 1 \in K
  <2>. SUFFICES ASSUME i + 1 \in 1..k PROVE s[i + 1] = g[i + 1]
    OBVIOUS
  <2>1. i + 1 # 1 => s[i] = g[i] BY <1>7
  <2>2. s[i + 1] = Type(p[i + 1]).latency + (IF i + 1 = 1 THEN 0 ELSE s[i]) BY <1>5
  <2>3. g[i + 1] = Type(p[i + 1]).latency + (IF i + 1 = 1 THEN 0 ELSE g[i]) BY <1>3
  <2>. QED BY <2>1, <2>2, <2>3
<1>8. Nat \subseteq K
  <2>. HIDE DEF K
  <2>. QED BY <1>6, <1>7, SetInduction
<1>9. s = g BY <1>2, <1>5, <1>8
<1>10. \A i \in 1..k : g[i] = Type(p[i]).latency + (IF i = 1 THEN 0 ELSE g[i - 1])
  BY <1>3
<1>. QED BY <1>2, <1>9, <1>10 DEF s

-----------------------------------------------------------------------------
(* Latencies. *)

\* A node has the latency of its slowest input, and its own.
HasLatency(n) ==
    /\ \A m \in Producers(n) : Type(n).latency + latency[m] <= latency[n]
    /\ \/ Producers(n) = {} /\ latency[n] = Type(n).latency
       \/ \E m \in Producers(n) : latency[n] = Type(n).latency + latency[m]

LatencyInv ==
    /\ latency \in [Nodes -> Nat]
    /\ engine_step = "sort" => loop_pos = 1
    /\ engine_step = "latency" => \A n \in gone_by : HasLatency(n)
    /\ engine_step \in {"idle", "run"} => \A n \in Nodes : HasLatency(n)

LEMMA UpstreamIsLargest ==
  ASSUME EngineInv, WorldIsSortable, NEW n \in Nodes, latency \in [Nodes -> Nat]
  PROVE  /\ Producers(n) \subseteq Nodes /\ Upstream(Producers(n)) \in Nat
         /\ \A m \in Producers(n) : latency[m] <= Upstream(Producers(n))
         /\ Producers(n) = {} => Upstream(Producers(n)) = 0
         /\ Producers(n) # {} => \E m \in Producers(n) : latency[m] = Upstream(Producers(n))
<1>1. Producers(n) \subseteq Nodes BY EdgeEnds DEF Producers
<1>2. CASE Producers(n) = {}
  BY <1>2 DEF Upstream
<1>3. CASE Producers(n) # {}
  <2>1. Nodes = 1..Len(world.nodes) /\ Len(world.nodes) \in Nat
    BY WorldFacts DEF EngineInv, EngineTypes
  <2>. DEFINE S == Producers(n)
              top == CHOOSE m \in S : \A k \in S : latency[k] <= latency[m]
  <2>2. \E m \in S : \A k \in S : latency[k] <= latency[m]
    <3>1. S \in SUBSET (1..Len(world.nodes)) /\ \A m \in S : latency[m] \in Nat
      BY <1>1, <2>1
    <3>. HIDE DEF S
    <3>. QED BY <1>3, <2>1, <3>1, LargestExists DEF S
  <2>3. top \in S /\ \A k \in S : latency[k] <= latency[top]
    BY <2>2
  <2>4. Upstream(S) = latency[top] BY <1>3 DEF Upstream
  <2>. HIDE DEF top
  <2>. QED BY <1>1, <1>3, <2>3, <2>4
<1>. QED BY <1>1, <1>2, <1>3

\* What was settled stays so when a node is computed that feeds none of it.
LEMMA SettledStays ==
  ASSUME world' = world, NEW n \in Nodes, NEW m \in Nodes \ {n}, n \notin Producers(m),
         Producers(m) \subseteq Nodes, HasLatency(m),
         latency \in [Nodes -> Nat], latency' \in [Nodes -> Nat],
         \A k \in Nodes \ {n} : latency'[k] = latency[k]
  PROVE  HasLatency(m)'
<1>1. Producers(m)' = Producers(m) /\ Type(m)' = Type(m)
  BY SameWorld DEF Producers, Type
<1>2. latency'[m] = latency[m] /\ \A k \in Producers(m) : latency'[k] = latency[k]
  OBVIOUS
<1>. QED BY <1>1, <1>2 DEF HasLatency

LEMMA ComputeKeepsLatency ==
  ASSUME EngineInv, LatencyInv, ComputeLatency
  PROVE  LatencyInv'
<1>0. /\ engine_step = "latency" /\ world' = world /\ topo_order' = topo_order
      /\ WorldIsSortable /\ Nodes' = Nodes
      /\ topo_order \in Seq(Nodes) /\ loop_pos \in Nat \ {0}
      /\ latency \in [Nodes -> Nat] /\ \A n \in gone_by : HasLatency(n)
  BY SameWorld DEF ComputeLatency, EngineInv, EngineTypes, CheckedInv, LatencyInv, Built, sorting
<1>1. CASE loop_pos \in DOMAIN topo_order
  <2>0. PICK n \in Nodes : n = topo_order[loop_pos]
    BY <1>0, <1>1
  <2>1. /\ latency' = [latency EXCEPT ![n] = Type(n).latency + Upstream(Producers(n))]
        /\ loop_pos' = loop_pos + 1 /\ engine_step' = "latency"
    BY <1>0, <1>1, <2>0 DEF ComputeLatency
  <2>3. Type(n).latency \in Nat /\ Upstream(Producers(n)) \in Nat
    BY <1>0, UpstreamIsLargest, RegistryAssumption DEF WorldIsSortable, UnknownType, Type
  <2>4. latency' \in [Nodes -> Nat] BY <1>0, <2>1, <2>3
  <2>5. /\ latency'[n] = Type(n).latency + Upstream(Producers(n))
        /\ \A k \in Nodes \ {n} : latency'[k] = latency[k]
    BY <1>0, <2>1
  \* No node that is computed is fed by this one or by itself.
  <2>6. ASSUME NEW k \in DOMAIN topo_order, k <= loop_pos
        PROVE  n \notin Producers(topo_order[k])
    <3>. SUFFICES ASSUME NEW c \in Edges, Dst(c) = topo_order[k], Src(c) = n PROVE FALSE
      BY DEF Producers
    <3>1. PICK j \in 1..k - 1 : Src(c) = topo_order[j]
      BY DEF EngineInv, OrderInv
    <3>2. j \in DOMAIN topo_order /\ j # loop_pos BY <1>0, <1>1, <2>6
    <3>3. topo_order[j] = topo_order[loop_pos] BY <2>0, <3>1
    <3>. QED BY <1>1, <3>2, <3>3 DEF EngineInv, OrderInv
  <2>7. HasLatency(n)'
    <3>1. Producers(n)' = Producers(n) /\ Type(n)' = Type(n)
      BY <1>0, SameWorld DEF Producers, Type
    <3>2. Producers(n) \subseteq Nodes \ {n}
      BY <1>0, <1>1, <2>0, <2>6, UpstreamIsLargest
    <3>3. \A m \in Producers(n) : latency'[m] = latency[m] /\ latency[m] \in Nat
      BY <1>0, <2>5, <3>2
    <3>4. /\ \A m \in Producers(n) : latency[m] <= Upstream(Producers(n))
          /\ Producers(n) = {} => Upstream(Producers(n)) = 0
          /\ Producers(n) # {} => \E m \in Producers(n) : latency[m] = Upstream(Producers(n))
      BY <1>0, UpstreamIsLargest
    <3>. QED BY <2>3, <2>5, <3>1, <3>3, <3>4 DEF HasLatency
  <2>8. ASSUME NEW m \in gone_by' PROVE HasLatency(m)'
    <3>1. PICK k \in DOMAIN topo_order : k <= loop_pos /\ m = topo_order[k]
      BY <1>0, <2>1, <2>8 DEF gone_by
    <3>2. CASE k = loop_pos BY <2>0, <2>7, <3>1, <3>2
    <3>3. CASE k < loop_pos
      <4>1. m \in gone_by /\ m \in Nodes BY <1>0, <3>1, <3>3 DEF gone_by
      <4>2. m # n
        <5>1. k # loop_pos BY <1>0, <3>3
        <5>. QED BY <1>1, <2>0, <3>1, <5>1 DEF EngineInv, OrderInv
      <4>3. n \notin Producers(m) BY <2>6, <3>1
      <4>4. Producers(m) \subseteq Nodes BY <1>0, <4>1, UpstreamIsLargest
      <4>. QED BY <1>0, <2>4, <2>5, <4>1, <4>2, <4>3, <4>4, SettledStays
    <3>. QED BY <1>0, <3>1, <3>2, <3>3
  <2>. QED BY <1>0, <2>1, <2>4, <2>8 DEF LatencyInv
<1>2. CASE loop_pos \notin DOMAIN topo_order
  <2>1. engine_step' = "idle" /\ latency' = latency
    BY <1>2 DEF ComputeLatency
  <2>2. Nodes \subseteq gone_by
    <3>1. \A n \in Nodes : \E k \in DOMAIN topo_order : topo_order[k] = n
      BY <1>0, EveryNodeIsSorted DEF EngineInv, CheckedInv, Built
    <3>2. \A k \in DOMAIN topo_order : k < loop_pos BY <1>0, <1>2
    <3>. QED BY <3>1, <3>2 DEF gone_by
  <2>3. ASSUME NEW n \in Nodes PROVE HasLatency(n)'
    <3>1. Producers(n)' = Producers(n) /\ Type(n)' = Type(n)
      BY <1>0, SameWorld DEF Producers, Type
    <3>. QED BY <1>0, <2>1, <2>2, <3>1 DEF HasLatency
  <2>. QED BY <1>0, <2>1, <2>3 DEF LatencyInv
<1>. QED BY <1>1, <1>2

LEMMA LatencyStep == EngineInv /\ LatencyInv /\ [EngineNext]_engine_vars => LatencyInv'
<1>. SUFFICES ASSUME EngineInv, LatencyInv, [EngineNext]_engine_vars PROVE LatencyInv'
  OBVIOUS
<1>1. CASE ComputeLatency BY <1>1, ComputeKeepsLatency
<1>2. ASSUME world' = world, latency' = latency, topo_order' = topo_order,
             engine_step' = "sort" => loop_pos' = 1,
             engine_step' = "latency" =>
                 loop_pos' = 1 \/ (engine_step = "latency" /\ loop_pos' = loop_pos),
             engine_step' \in {"idle", "run"} => engine_step \in {"idle", "run"}
      PROVE  LatencyInv'
  <2>1. \A n : HasLatency(n)' <=> HasLatency(n)
    <3>1. \A n : Producers(n)' = Producers(n) /\ Type(n)' = Type(n)
      BY <1>2, SameWorld DEF Producers, Type
    <3>. QED BY <1>2, <3>1 DEF HasLatency
  <2>2. engine_step' = "latency" => gone_by' = {} \/ (engine_step = "latency" /\ gone_by' = gone_by)
    BY <1>2 DEF EngineInv, EngineTypes, gone_by
  <2>. QED BY <1>2, <2>1, <2>2, SameWorld DEF LatencyInv
<1>3. CASE UNCHANGED engine_vars
  BY <1>2, <1>3 DEF engine_vars, sorting, LatencyInv
<1>4. CASE RejectWorld \/ CycleDetected \/ RejectPorts
  BY <1>2, <1>4 DEF RejectWorld, CycleDetected, RejectPorts, Reject, sorting
<1>5. CASE CountEdges \/ SeedQueue
  BY <1>2, <1>5 DEF CountEdges, SeedQueue, sorting
<1>6. CASE PopNode \/ DecrementConsumer
  <2>1. engine_step' = "sort" /\ engine_step = "sort" /\ UNCHANGED <<world, latency, loop_pos>>
    BY <1>6 DEF PopNode, DecrementConsumer
  <2>. QED BY <2>1, SameWorld DEF LatencyInv
<1>7. CASE ResolvePorts
  BY <1>2, <1>7 DEF ResolvePorts, Sorted, LatencyInv, sorting
<1>8. CASE (\E n_frames \in Samples : BeginBlock(n_frames)) \/ RunNode \/ EndBlock \/ ResetEngine
  BY <1>2, <1>8 DEF BeginBlock, RunNode, EndBlock, ResetEngine, sorting
<1>. QED BY <1>1, <1>3, <1>4, <1>5, <1>6, <1>7, <1>8 DEF EngineNext

\* The sums along a path never exceed the latency of the node they have come to.
LEMMA PathsAreNoSlower ==
  ASSUME EngineInv, WorldIsSortable, latency \in [Nodes -> Nat],
         \A n \in Nodes : HasLatency(n),
         NEW p \in Paths
  PROVE  /\ p # <<>> /\ p[Len(p)] \in Nodes
         /\ LatencyAlong(p) <= latency[p[Len(p)]]
<1>1. PICK k \in Nodes : /\ p \in [1..k -> Nodes]
                         /\ \A i \in 1..k - 1 : \E c \in Edges : Src(c) = p[i] /\ Dst(c) = p[i + 1]
  <2>1. PICK k \in Nodes : p \in PathsOf(k) BY DEF Paths
  <2>. QED BY <2>1 DEF PathsOf
<1>2. k \in Nat \ {0} /\ Len(p) = k /\ p # <<>> /\ p[k] \in Nodes
  BY <1>1, WorldFacts DEF EngineInv, EngineTypes
<1>. DEFINE sums == SumsAlong(p)
            K == {i \in Nat : i \in 1..k => sums[i] <= latency[p[i]]}
<1>3. /\ sums \in [1..k -> Nat]
      /\ \A i \in 1..k : sums[i] = Type(p[i]).latency + (IF i = 1 THEN 0 ELSE sums[i - 1])
  BY <1>1, <1>2, SumsOfPath
<1>. HIDE DEF sums
<1>4. 0 \in K OBVIOUS
<1>5. ASSUME NEW i \in Nat, i \in K PROVE i + 1 \in K
  <2>. SUFFICES ASSUME i + 1 \in 1..k PROVE sums[i + 1] <= latency[p[i + 1]]
    OBVIOUS
  <2>1. /\ p[i + 1] \in Nodes /\ latency[p[i + 1]] \in Nat /\ Type(p[i + 1]).latency \in Nat
        /\ HasLatency(p[i + 1])
    BY <1>1, RegistryAssumption DEF WorldIsSortable, UnknownType, Type
  <2>2. CASE i = 0
    <3>1. sums[1] = Type(p[1]).latency BY <1>2, <1>3, <2>1, <2>2
    <3>2. Type(p[1]).latency <= latency[p[1]]
      <4>1. Producers(p[1]) \subseteq Nodes
        BY <2>1, <2>2, UpstreamIsLargest
      <4>2. \A m \in Producers(p[1]) : latency[m] \in Nat BY <4>1
      <4>. QED BY <2>1, <2>2, <4>2 DEF HasLatency
    <3>. QED BY <2>2, <3>1, <3>2
  <2>3. CASE i # 0
    <3>1. i \in 1..k /\ i \in 1..k - 1 BY <1>2, <2>3
    <3>2. p[i] \in Producers(p[i + 1])
      BY <1>1, <3>1 DEF Producers
    <3>3. Type(p[i + 1]).latency + latency[p[i]] <= latency[p[i + 1]]
      BY <2>1, <3>2 DEF HasLatency
    <3>4. sums[i] <= latency[p[i]] /\ sums[i] \in Nat /\ latency[p[i]] \in Nat
      BY <1>1, <1>3, <1>5, <3>1
    <3>5. sums[i + 1] = Type(p[i + 1]).latency + sums[i]
      BY <1>3, <2>3
    <3>. QED BY <2>1, <3>3, <3>4, <3>5
  <2>. QED BY <2>2, <2>3
<1>6. Nat \subseteq K
  <2>. HIDE DEF K
  <2>. QED BY <1>4, <1>5, SetInduction
<1>7. sums[k] <= latency[p[k]] BY <1>2, <1>6
<1>. QED BY <1>2, <1>7 DEF LatencyAlong, sums

\* A path's sums go on where it goes on.
Longer(p, k, n) == [i \in 1..k + 1 |-> IF i = k + 1 THEN n ELSE p[i]]
IsLonger(p, k, n, q) == /\ q \in [1..k + 1 -> Nodes] /\ Len(q) = k + 1
                        /\ LatencyAlong(q) = LatencyAlong(p) + Type(n).latency
LEMMA PathExtends ==
  ASSUME WorldIsSortable, NEW k \in Nat, k > 0, NEW p \in [1..k -> Nodes],
         NEW n \in Nodes
  PROVE  IsLonger(p, k, n, Longer(p, k, n))
<1>. DEFINE q == Longer(p, k, n)
<1>1. q \in [1..k + 1 -> Nodes] /\ Len(q) = k + 1 /\ Len(p) = k
  BY DEF Longer, q
<1>. DEFINE s == SumsAlong(p)  t == SumsAlong(q)
            K == {i \in Nat : i \in 1..k => t[i] = s[i]}
<1>2. /\ s \in [1..k -> Nat]
      /\ \A i \in 1..k : s[i] = Type(p[i]).latency + (IF i = 1 THEN 0 ELSE s[i - 1])
  BY SumsOfPath
<1>3. /\ t \in [1..k + 1 -> Nat]
      /\ \A i \in 1..k + 1 : t[i] = Type(q[i]).latency + (IF i = 1 THEN 0 ELSE t[i - 1])
  <2>. HIDE DEF t
  <2>1. PICK l \in Nat : l = k + 1 OBVIOUS
  <2>2. q \in [1..l -> Nodes] BY <1>1, <2>1
  <2>3. /\ t \in [1..l -> Nat]
        /\ \A i \in 1..l : t[i] = Type(q[i]).latency + (IF i = 1 THEN 0 ELSE t[i - 1])
    BY <2>2, SumsOfPath DEF t
  <2>. QED BY <2>1, <2>3
<1>. HIDE DEF q, s, t
<1>4. 0 \in K OBVIOUS
<1>5. ASSUME NEW i \in Nat, i \in K PROVE i + 1 \in K
  <2>. SUFFICES ASSUME i + 1 \in 1..k PROVE t[i + 1] = s[i + 1]
    OBVIOUS
  <2>1. q[i + 1] = p[i + 1] BY DEF Longer, q
  <2>2. i + 1 # 1 => t[i] = s[i] BY <1>5
  <2>3. s[i + 1] = Type(p[i + 1]).latency + (IF i + 1 = 1 THEN 0 ELSE s[i]) BY <1>2
  <2>4. t[i + 1] = Type(q[i + 1]).latency + (IF i + 1 = 1 THEN 0 ELSE t[i]) BY <1>3
  <2>. QED BY <2>1, <2>2, <2>3, <2>4
<1>6. Nat \subseteq K
  <2>. HIDE DEF K
  <2>. QED BY <1>4, <1>5, SetInduction
<1>7. t[k] = s[k] BY <1>6
<1>8. t[k + 1] = Type(n).latency + t[k] /\ t[k] \in Nat /\ Type(n).latency \in Nat
  <2>1. q[k + 1] = n BY DEF Longer, q
  <2>2. t[k + 1] = Type(q[k + 1]).latency + t[k] BY <1>3
  <2>3. Type(n).latency \in Nat
    BY RegistryAssumption DEF WorldIsSortable, UnknownType, Type
  <2>. QED BY <1>3, <2>1, <2>2, <2>3
<1>9. Len(p) = k OBVIOUS
<1>10. IsLonger(p, k, n, q) BY <1>1, <1>7, <1>8, <1>9 DEF LatencyAlong, s, t, IsLonger
<1>. QED BY <1>10 DEF q

\* Each node is reached by a path as slow as its latency says.
LEMMA SomePathIsAsSlow ==
  ASSUME EngineInv, WorldIsSortable, latency \in [Nodes -> Nat],
         \A n \in Nodes : HasLatency(n), Len(topo_order) = Len(world.nodes),
         NEW n \in Nodes
  PROVE  \E p \in Paths : p[Len(p)] = n /\ LatencyAlong(p) = latency[n]
<1>0. /\ topo_order \in Seq(Nodes) /\ Nodes = 1..Len(topo_order) /\ Len(topo_order) \in Nat
      /\ DOMAIN topo_order = Nodes
  BY WorldFacts DEF EngineInv, EngineTypes
\* As long a path as the node's place in the order at most, so that it is a path.
<1>. DEFINE Reached(j) ==
              \E k \in 1..j : \E p \in [1..k -> Nodes] :
                /\ \A i \in 1..k - 1 : \E c \in Edges : Src(c) = p[i] /\ Dst(c) = p[i + 1]
                /\ p[k] = topo_order[j] /\ LatencyAlong(p) = latency[topo_order[j]]
            Bad == {j \in Nodes : ~Reached(j)}
<1>1. ASSUME NEW j \in Nodes, \A i \in Nodes : i < j => Reached(i)
      PROVE  Reached(j)
  <2>. DEFINE m == topo_order[j]
  <2>1. m \in Nodes /\ HasLatency(m) /\ j \in Nat \ {0} /\ Type(m).latency \in Nat
    <3>1. m \in Nodes /\ j \in Nat \ {0} BY <1>0
    <3>. HIDE DEF m
    <3>. QED BY <3>1, RegistryAssumption DEF WorldIsSortable, UnknownType, Type
  <2>2. CASE Producers(m) = {} /\ latency[m] = Type(m).latency
    <3>. DEFINE p == [i \in 1..1 |-> m]
    <3>1. p \in [1..1 -> Nodes] /\ p[1] = m /\ Len(p) = 1 BY <2>1
    <3>. HIDE DEF p, m
    <3>2. SumsAlong(p)[1] = Type(p[1]).latency + 0
      <4>1. \A i \in 1..1 : SumsAlong(p)[i] =
              Type(p[i]).latency + (IF i = 1 THEN 0 ELSE SumsAlong(p)[i - 1])
        BY <3>1, SumsOfPath, 1 \in Nat
      <4>. QED BY <4>1
    <3>3. LatencyAlong(p) = latency[m] BY <2>1, <2>2, <3>1, <3>2 DEF LatencyAlong
    <3>4. 1 \in 1..j /\ 1..1 - 1 = {} BY <2>1
    <3>. QED BY <3>1, <3>3, <3>4 DEF m
  <2>3. ASSUME NEW u \in Producers(m), latency[m] = Type(m).latency + latency[u]
        PROVE  Reached(j)
    <3>1. PICK c \in Edges : Dst(c) = m /\ Src(c) = u BY DEF Producers
    <3>2. PICK i \in 1..j - 1 : u = topo_order[i]
      BY <1>0, <3>1 DEF EngineInv, OrderInv
    <3>3. i \in Nodes /\ i < j BY <1>0, <3>2
    <3>4. PICK k \in 1..i : \E p \in [1..k -> Nodes] :
            /\ \A l \in 1..k - 1 : \E d \in Edges : Src(d) = p[l] /\ Dst(d) = p[l + 1]
            /\ p[k] = u /\ LatencyAlong(p) = latency[u]
      BY <1>1, <3>2, <3>3
    <3>5. PICK p \in [1..k -> Nodes] :
            /\ \A l \in 1..k - 1 : \E d \in Edges : Src(d) = p[l] /\ Dst(d) = p[l + 1]
            /\ p[k] = u /\ LatencyAlong(p) = latency[u]
      BY <3>4
    <3>. DEFINE q == Longer(p, k, m)
    <3>6. k \in Nat /\ k > 0 /\ k + 1 \in 1..j /\ u \in Nodes
      BY <1>0, <3>2, <3>3, <3>4
    <3>7. /\ q \in [1..k + 1 -> Nodes] /\ Len(q) = k + 1
          /\ LatencyAlong(q) = LatencyAlong(p) + Type(m).latency
      <4>. HIDE DEF m
      <4>1. k \in Nat /\ k > 0 /\ p \in [1..k -> Nodes] /\ m \in Nodes /\ q = Longer(p, k, m)
        BY <2>1, <3>5, <3>6
      <4>. HIDE DEF q
      <4>2. IsLonger(p, k, m, q) BY <4>1, PathExtends
      <4>. QED BY <4>2 DEF IsLonger
    <3>8. LatencyAlong(q) = latency[m]
      <4>1. latency[u] \in Nat BY <3>6
      <4>. HIDE DEF q, m
      <4>. QED BY <2>1, <2>3, <3>5, <3>7, <4>1
    <3>9. q[k + 1] = m /\ \A l \in 1..k : q[l] = p[l] BY <3>6 DEF Longer
    <3>10. ASSUME NEW l \in 1..(k + 1) - 1
           PROVE  \E d \in Edges : Src(d) = q[l] /\ Dst(d) = q[l + 1]
      <4>. HIDE DEF q, m
      <4>1. CASE l = k BY <3>1, <3>5, <3>6, <3>9, <4>1
      <4>2. CASE l \in 1..k - 1
        <5>1. l \in 1..k /\ l + 1 \in 1..k BY <3>6, <4>2
        <5>. QED BY <3>5, <3>9, <4>2, <5>1
      <4>. QED BY <3>6, <4>1, <4>2
    <3>. HIDE DEF q
    <3>. QED BY <3>6, <3>7, <3>8, <3>9, <3>10
  <2>. QED BY <2>1, <2>2, <2>3 DEF HasLatency
<1>2. Bad = {}
  <2>. SUFFICES ASSUME Bad # {} PROVE FALSE
    OBVIOUS
  <2>1. Bad \in SUBSET Nat BY <1>0
  <2>2. PICK j \in Bad : \A i \in Bad : j <= i
    <3>. HIDE DEF Bad
    <3>. QED BY <2>1, LeastNat
  <2>3. \A i \in Nodes : i < j => Reached(i)
    <3>. HIDE DEF Reached
    <3>. QED BY <1>0, <2>2
  <2>. HIDE DEF Reached
  <2>. QED BY <1>1, <2>2, <2>3
<1>3. PICK j \in Nodes : topo_order[j] = n
  BY <1>0, EveryNodeIsSorted DEF EngineInv
<1>4. Reached(j)
  <2>. HIDE DEF Reached
  <2>. QED BY <1>2, <1>3
<1>5. PICK k \in 1..j : \E p \in [1..k -> Nodes] :
        /\ \A i \in 1..k - 1 : \E c \in Edges : Src(c) = p[i] /\ Dst(c) = p[i + 1]
        /\ p[k] = n /\ LatencyAlong(p) = latency[n]
  BY <1>3, <1>4
<1>6. PICK p \in [1..k -> Nodes] :
        /\ \A i \in 1..k - 1 : \E c \in Edges : Src(c) = p[i] /\ Dst(c) = p[i + 1]
        /\ p[k] = n /\ LatencyAlong(p) = latency[n]
  BY <1>5
<1>7. k \in Nodes /\ Len(p) = k BY <1>0, <1>5, <1>6
<1>8. p \in Paths
  <2>1. p \in PathsOf(k) BY <1>6 DEF PathsOf
  <2>. QED BY <1>7, <2>1, Zenon DEF Paths
<1>. QED BY <1>6, <1>7, <1>8

(* Whatever World build accepts and whatever its nodes' latencies, the latency computed at
   a node (graph.rs, node_latency_cache) is the sum along the slowest path that leads to it:
   no path is slower, and one is as slow. *)
THEOREM LatencyIsLongestPathAlways == EngineSpec => []LatencyIsLongestPath
<1>1. EngineInit => LatencyInv
  <2>1. EngineInit => latency \in [Nodes -> Nat] BY DEF EngineInit
  <2>. QED BY <2>1 DEF EngineInit, LatencyInv
<1>2. EngineInv /\ LatencyInv => LatencyIsLongestPath
  <2>. SUFFICES ASSUME EngineInv, LatencyInv, engine_step = "idle", NEW n \in Nodes
                PROVE  LET to_n == {LatencyAlong(p) : p \in {q \in Paths : q[Len(q)] = n}}
                       IN latency[n] \in to_n /\ \A l \in to_n : l <= latency[n]
    BY DEF LatencyIsLongestPath
  <2>1. /\ WorldIsSortable /\ latency \in [Nodes -> Nat] /\ \A m \in Nodes : HasLatency(m)
        /\ Len(topo_order) = Len(world.nodes)
    BY DEF EngineInv, CheckedInv, LatencyInv, Built
  <2>2. \E p \in Paths : p[Len(p)] = n /\ LatencyAlong(p) = latency[n]
    BY <2>1, SomePathIsAsSlow
  <2>3. \A p \in Paths : LatencyAlong(p) <= latency[p[Len(p)]]
    BY <2>1, PathsAreNoSlower
  <2>. QED BY <2>2, <2>3
<1>. QED BY <1>1, <1>2, LatencyStep, EngineInductive, PTL DEF EngineSpec

-----------------------------------------------------------------------------
(* Sums. *)

LEMMA SumsAre ==
  ASSUME NEW n \in Nat, NEW s \in [1..n -> Int]
  PROVE  /\ SumsOf(s) \in [0..n -> Int] /\ SumsOf(s)[0] = 0 /\ SumOf(s) = SumsOf(s)[n]
         /\ \A k \in 1..n : SumsOf(s)[k] = SumsOf(s)[k - 1] + s[k]
<1>. DEFINE term == [k \in Nat |-> IF k \in 1..n THEN s[k] ELSE 0]
            G == [v \in Nat \X Int |-> v[2] + term[v[1]]]
            Is(f) == f = [k \in 0..n |-> IF k = 0 THEN 0 ELSE f[k - 1] + s[k]]
<1>1. s \in Seq(Int) /\ Len(s) = n
  BY IsASeq, LenProperties
<1>2. term \in [Nat -> Int] /\ \A k \in 1..n : term[k] = s[k]
  OBVIOUS
<1>. HIDE DEF term
<1>3. G \in [Nat \X Int -> Int] /\ \A k \in Nat, x \in Int : G[<<k, x>>] = x + term[k]
  <2>1. \A v \in Nat \X Int : v[1] \in Nat /\ v[2] \in Int OBVIOUS
  <2>2. \A v \in Nat \X Int : v[2] + term[v[1]] \in Int BY <1>2, <2>1
  <2>3. \A k \in Nat, x \in Int :
          <<k, x>> \in Nat \X Int /\ <<k, x>>[1] = k /\ <<k, x>>[2] = x
    OBVIOUS
  <2>4. G \in [Nat \X Int -> Int] BY <2>2
  <2>5. \A v \in Nat \X Int : G[v] = v[2] + term[v[1]] OBVIOUS
  <2>. HIDE DEF G
  <2>. QED BY <2>3, <2>4, <2>5
<1>. HIDE DEF G
<1>4. PICK f \in [0..n -> Int] : Iterated(f, G, 0, 0, n)
  <2>1. 0 \in Int /\ 0 \in Nat OBVIOUS
  <2>. QED BY <1>3, <2>1, Iterates
<1>5. \A k \in 1..n : f[k] = f[k - 1] + s[k]
  <2>. TAKE k \in 1..n
  <2>1. k \in Nat /\ k \in 0..n /\ k - 1 \in 0..n /\ k # 0 OBVIOUS
  <2>2. f[k] = G[<<k, f[k - 1]>>] BY <1>4, <2>1 DEF Iterated
  <2>3. f[k - 1] \in Int BY <2>1
  <2>. QED BY <1>2, <1>3, <2>1, <2>2, <2>3
<1>6. f[0] = 0
  <2>1. 0 \in 0..n OBVIOUS
  <2>. QED BY <1>4, <2>1 DEF Iterated
<1>7. Is(f) BY <1>5, <1>6
<1>8. Is(SumsOf(s))
  <2>1. \E g : Is(g) BY <1>7
  <2>2. SumsOf(s) = CHOOSE g : Is(g) BY <1>1 DEF SumsOf
  <2>. HIDE DEF Is
  <2>. QED BY <2>1, <2>2
<1>. DEFINE g == SumsOf(s)
<1>. HIDE DEF g
<1>9. g = [k \in 0..n |-> IF k = 0 THEN 0 ELSE g[k - 1] + s[k]] BY <1>8 DEF g
<1>10. /\ DOMAIN g = 0..n /\ g[0] = 0
       /\ \A k \in 1..n : g[k] = g[k - 1] + s[k]
  BY <1>9
<1>11. 0..n \subseteq {k \in Nat : g[k] \in Int}
  <2>. DEFINE T == {k \in Nat : g[k] \in Int}
  <2>1. 0 \in T BY <1>10
  <2>2. ASSUME NEW k \in 0..n, k < n, k \in T PROVE k + 1 \in T
    <3>1. k + 1 \in 1..n /\ (k + 1) - 1 = k BY <2>2
    <3>2. g[k + 1] = g[k] + s[k + 1] BY <1>10, <3>1
    <3>3. s[k + 1] \in Int BY <3>1
    <3>. QED BY <2>2, <3>1, <3>2, <3>3
  <2>. HIDE DEF T
  <2>3. \A k \in 0..n : k < n /\ k \in T => k + 1 \in T BY <2>2
  <2>4. 0..n \subseteq T BY <2>1, <2>3, RangeInduction, 0 \in Nat
  <2>. QED BY <2>4 DEF T
<1>12. g \in [0..n -> Int] BY <1>9, <1>11
<1>. QED BY <1>1, <1>10, <1>12 DEF g, SumOf

(* What a window holds when the next term comes in and the first one falls out. *)
Shifted(d, x, w) == [j \in 1..w |-> IF j < w THEN d[j + 1] ELSE x]

LEMMA ShiftedSum ==
  ASSUME NEW w \in Nat \ {0}, NEW d \in [1..w -> Int], NEW x \in Int
  PROVE  /\ Shifted(d, x, w) \in [1..w -> Int]
         /\ SumOf(Shifted(d, x, w)) = SumOf(d) + x - d[1]
         /\ SumOf(d) \in Int
<1>. DEFINE e == Shifted(d, x, w)
            S == SumsOf(d)
            U == SumsOf(e)
<1>1. e \in [1..w -> Int] /\ e[w] = x /\ \A j \in 1..w : j < w => e[j] = d[j + 1]
  BY DEF Shifted
<1>. HIDE DEF e
<1>2. /\ S \in [0..w -> Int] /\ S[0] = 0 /\ SumOf(d) = S[w]
      /\ \A k \in 1..w : S[k] = S[k - 1] + d[k]
  BY SumsAre
<1>3. /\ U \in [0..w -> Int] /\ U[0] = 0 /\ SumOf(e) = U[w]
      /\ \A k \in 1..w : U[k] = U[k - 1] + e[k]
  BY <1>1, SumsAre
<1>. HIDE DEF S, U
<1>. DEFINE T == {k \in Nat : k < w => U[k] = S[k + 1] - d[1]}
<1>4. 0 \in T
  <2>1. 1 \in 1..w /\ d[1] \in Int /\ 0 + 1 = 1 /\ 1 - 1 = 0 OBVIOUS
  <2>2. S[1] = d[1] BY <1>2, <2>1
  <2>. QED BY <1>3, <2>1, <2>2
<1>5. ASSUME NEW k \in 0..w, k < w, k \in T PROVE k + 1 \in T
  <2>. SUFFICES ASSUME k + 1 < w PROVE U[k + 1] = S[(k + 1) + 1] - d[1]
    OBVIOUS
  <2>1. /\ k + 1 \in 1..w /\ (k + 1) + 1 \in 1..w /\ (k + 1) - 1 = k /\ ((k + 1) + 1) - 1 = k + 1
        /\ 1 \in 1..w /\ k + 1 \in 0..w
    OBVIOUS
  <2>2. U[k + 1] = U[k] + e[k + 1] /\ e[k + 1] = d[(k + 1) + 1] BY <1>1, <1>3, <2>1
  <2>3. S[(k + 1) + 1] = S[k + 1] + d[(k + 1) + 1] BY <1>2, <2>1
  <2>4. S[k + 1] \in Int /\ d[1] \in Int /\ d[(k + 1) + 1] \in Int BY <1>2, <2>1
  <2>5. U[k] = S[k + 1] - d[1] BY <1>5
  <2>. QED BY <2>2, <2>3, <2>4, <2>5
<1>6. w - 1 \in T
  <2>. HIDE DEF T
  <2>1. \A k \in 0..w : k < w /\ k \in T => k + 1 \in T BY <1>5
  <2>2. 0..w \subseteq T BY <1>4, <2>1, RangeInduction, 0 \in Nat
  <2>. QED BY <2>2
<1>7. U[w - 1] = S[w] - d[1]
  <2>1. w - 1 < w /\ (w - 1) + 1 = w OBVIOUS
  <2>. QED BY <1>6, <2>1
<1>8. U[w] = U[w - 1] + x
  <2>1. w \in 1..w OBVIOUS
  <2>. QED BY <1>1, <1>3, <2>1
<1>9. S[w] \in Int /\ d[1] \in Int
  <2>1. w \in 0..w /\ 1 \in 1..w OBVIOUS
  <2>. QED BY <1>2, <2>1
<1>10. SumOf(e) = SumOf(d) + x - d[1] /\ SumOf(d) \in Int BY <1>2, <1>3, <1>7, <1>8, <1>9
<1>. QED BY <1>1, <1>10 DEF e

LEMMA SumOfNothing ==
  ASSUME NEW w \in Nat
  PROVE  SumOf([j \in 1..w |-> 0]) = 0
<1>. DEFINE d == [j \in 1..w |-> 0]
            S == SumsOf(d)
<1>1. d \in [1..w -> Int] /\ \A j \in 1..w : d[j] = 0 OBVIOUS
<1>. HIDE DEF d
<1>2. /\ S \in [0..w -> Int] /\ S[0] = 0 /\ SumOf(d) = S[w]
      /\ \A k \in 1..w : S[k] = S[k - 1] + d[k]
  BY <1>1, SumsAre
<1>. HIDE DEF S
<1>. DEFINE T == {k \in Nat : S[k] = 0}
<1>3. 0 \in T BY <1>2
<1>4. ASSUME NEW k \in 0..w, k < w, k \in T PROVE k + 1 \in T
  <2>1. k + 1 \in 1..w /\ (k + 1) - 1 = k BY <1>4
  <2>2. S[k + 1] = S[k] + d[k + 1] /\ d[k + 1] = 0 BY <1>1, <1>2, <2>1
  <2>. QED BY <1>4, <2>2
<1>5. w \in T
  <2>. HIDE DEF T
  <2>1. \A k \in 0..w : k < w /\ k \in T => k + 1 \in T BY <1>4
  <2>2. 0..w \subseteq T BY <1>3, <2>1, RangeInduction, 0 \in Nat
  <2>. QED BY <2>2
<1>. QED BY <1>2, <1>5 DEF d

-----------------------------------------------------------------------------
(* Rings. *)

(* The last w terms of f at n, and a ring of a frame that holds such a window, the oldest
   term where the next one will be written. *)
LastSamples(f, w, n) == [j \in 1..w |-> f[n - w + j]]
InRing(ring, write, d) ==
    /\ ring \in [1..frame_samples -> Int] /\ write \in 1..frame_samples
    /\ \A j \in 1..frame_samples :
         ring[IF write + j - 1 <= frame_samples THEN write + j - 1
              ELSE write + j - 1 - frame_samples] = d[j]

LEMMA LastSamplesMove ==
  ASSUME NEW w \in Nat \ {0}, NEW n \in Nat, NEW f \in [Int -> Int], NEW g \in [Int -> Int],
         \A k \in Int : k <= n => g[k] = f[k]
  PROVE  /\ LastSamples(f, w, n) \in [1..w -> Int]
         /\ LastSamples(g, w, n + 1) = Shifted(LastSamples(f, w, n), g[n + 1], w)
         /\ \A i \in Nat : i <= n => LastSamples(g, w, i) = LastSamples(f, w, i)
<1>1. LastSamples(f, w, n) \in [1..w -> Int] BY DEF LastSamples
<1>2. \A j \in 1..w : j < w => g[n + 1 - w + j] = f[n - w + (j + 1)]
  <2>. TAKE j \in 1..w
  <2>1. n + 1 - w + j = n - w + (j + 1) /\ n + 1 - w + j \in Int OBVIOUS
  <2>. QED BY <2>1
<1>3. \A j \in 1..w : ~ (j < w) => g[n + 1 - w + j] = g[n + 1]
  <2>. SUFFICES ASSUME NEW j \in 1..w, ~ (j < w) PROVE n + 1 - w + j = n + 1
    OBVIOUS
  <2>. QED OBVIOUS
<1>4. \A j \in 1..w : j < w => j + 1 \in 1..w OBVIOUS
<1>5. LastSamples(g, w, n + 1) = Shifted(LastSamples(f, w, n), g[n + 1], w)
  <2>1. \A j \in 1..w : j < w => LastSamples(f, w, n)[j + 1] = f[n - w + (j + 1)]
    BY <1>4 DEF LastSamples
  <2>2. \A j \in 1..w : g[n + 1 - w + j] = IF j < w THEN LastSamples(f, w, n)[j + 1] ELSE g[n + 1]
    BY <1>2, <1>3, <2>1
  <2>3. LastSamples(g, w, n + 1) = [j \in 1..w |-> g[n + 1 - w + j]] BY DEF LastSamples
  <2>. QED BY <2>2, <2>3 DEF Shifted
<1>6. ASSUME NEW i \in Nat, i <= n PROVE LastSamples(g, w, i) = LastSamples(f, w, i)
  <2>1. \A j \in 1..w : i - w + j \in Int /\ i - w + j <= n BY <1>6
  <2>. QED BY <2>1 DEF LastSamples
<1>. QED BY <1>1, <1>5, <1>6

LEMMA AdvanceIs ==
  ASSUME DetectorAssumption, NEW write \in 1..frame_samples
  PROVE  Advance(write) = IF write = frame_samples THEN 1 ELSE write + 1
<1>1. frame_samples \in Nat \ {0} BY DEF DetectorAssumption
<1>2. write \in Nat /\ write < 2 * frame_samples BY <1>1
<1>3. write % frame_samples = IF write < frame_samples THEN write ELSE write - frame_samples
  BY <1>1, <1>2, SmallRemainder
<1>. QED BY <1>1, <1>3 DEF Advance

LEMMA OldestIsNext ==
  ASSUME DetectorAssumption, NEW d, NEW ring, NEW write, InRing(ring, write, d)
  PROVE  ring[write] = d[1]
<1>1. frame_samples \in Nat \ {0} /\ write \in 1..frame_samples
  BY DEF DetectorAssumption, InRing
<1>2. 1 \in 1..frame_samples /\ write + 1 - 1 = write /\ write <= frame_samples BY <1>1
<1>3. ring[IF write + 1 - 1 <= frame_samples THEN write + 1 - 1
           ELSE write + 1 - 1 - frame_samples] = d[1]
  BY <1>2 DEF InRing
<1>. QED BY <1>2, <1>3

LEMMA RingMoves ==
  ASSUME DetectorAssumption, NEW d \in [1..frame_samples -> Int], NEW x \in Int,
         NEW ring, NEW write, InRing(ring, write, d)
  PROVE  InRing([ring EXCEPT ![write] = x], Advance(write), Shifted(d, x, frame_samples))
<1>. DEFINE w == frame_samples
            next == IF write = w THEN 1 ELSE write + 1
            moved == [ring EXCEPT ![write] = x]
            At(p, j) == IF p + j - 1 <= w THEN p + j - 1 ELSE p + j - 1 - w
<1>1. w \in Nat \ {0} BY DEF DetectorAssumption
<1>2. /\ ring \in [1..w -> Int] /\ write \in 1..w
      /\ \A j \in 1..w : ring[At(write, j)] = d[j]
  BY DEF InRing
<1>3. Advance(write) = next BY <1>2, AdvanceIs
<1>. HIDE DEF w
<1>4. /\ moved \in [1..w -> Int] /\ moved[write] = x
      /\ \A k \in 1..w : k # write => moved[k] = ring[k]
  BY <1>2
<1>. HIDE DEF moved
<1>5. ASSUME NEW j \in 1..w
      PROVE  moved[At(next, j)] = Shifted(d, x, w)[j]
  <2>1. CASE j < w
    <3>1. At(next, j) = At(write, j + 1) /\ At(next, j) # write /\ At(next, j) \in 1..w
          /\ j + 1 \in 1..w
      BY <1>1, <1>2, <2>1
    <3>2. moved[At(next, j)] = d[j + 1] BY <1>2, <1>4, <3>1
    <3>. QED BY <2>1, <3>2 DEF Shifted
  <2>2. CASE j = w
    <3>1. At(next, j) = write BY <1>1, <1>2, <2>2
    <3>. QED BY <1>4, <2>2, <3>1 DEF Shifted
  <2>. QED BY <1>1, <2>1, <2>2
<1>6. InRing(moved, next, Shifted(d, x, w))
  <2>1. next \in 1..w BY <1>1, <1>2
  <2>. QED BY <1>4, <1>5, <2>1 DEF InRing, w
<1>. QED BY <1>3, <1>6 DEF w, moved

(* A ring and its running sum. *)
Holds(ring, write, sum, f, n) ==
    InRing(ring, write, LastSamples(f, frame_samples, n)) /\ sum = SumOf(LastSamples(f, frame_samples, n))

LEMMA SumMoves ==
  ASSUME DetectorAssumption, NEW n \in Nat, NEW f \in [Int -> Int], NEW g \in [Int -> Int],
         \A k \in Int : k <= n => g[k] = f[k],
         NEW ring, NEW write, NEW sum, Holds(ring, write, sum, f, n)
  PROVE  /\ Holds([ring EXCEPT ![write] = g[n + 1]], Advance(write),
                  sum + g[n + 1] - ring[write], g, n + 1)
         /\ sum \in Int /\ ring[write] \in Int
<1>. DEFINE d == LastSamples(f, frame_samples, n)
            x == g[n + 1]
<1>1. frame_samples \in Nat \ {0} /\ x \in Int BY DEF DetectorAssumption
<1>2. d \in [1..frame_samples -> Int] BY <1>1, LastSamplesMove
<1>3. LastSamples(g, frame_samples, n + 1) = Shifted(d, x, frame_samples) BY <1>1, LastSamplesMove
<1>4. InRing(ring, write, d) /\ sum = SumOf(d) BY DEF Holds
<1>. HIDE DEF d, x
<1>5. InRing([ring EXCEPT ![write] = x], Advance(write), Shifted(d, x, frame_samples))
      /\ ring[write] = d[1]
  <2>1. x \in Int BY <1>1
  <2>2. InRing(ring, write, d) BY <1>4
  <2>3. ring[write] = d[1] BY <2>2, OldestIsNext
  <2>4. InRing([ring EXCEPT ![write] = x], Advance(write), Shifted(d, x, frame_samples))
    BY <1>2, <2>1, <2>2, RingMoves
  <2>. QED BY <2>3, <2>4
<1>6. /\ SumOf(Shifted(d, x, frame_samples)) = SumOf(d) + x - d[1]
      /\ SumOf(d) \in Int /\ d[1] \in Int
  <2>1. 1 \in 1..frame_samples BY <1>1
  <2>. QED BY <1>1, <1>2, <2>1, ShiftedSum
<1>7. sum + x - ring[write] = SumOf(Shifted(d, x, frame_samples)) BY <1>4, <1>5, <1>6
<1>8. Holds([ring EXCEPT ![write] = x], Advance(write), sum + x - ring[write], g, n + 1)
  BY <1>3, <1>5, <1>7 DEF Holds
<1>. QED BY <1>4, <1>5, <1>6, <1>8 DEF x

-----------------------------------------------------------------------------
(* The energies of the samples. *)

Squares(h) == [k \in Int |-> IF k \in 1..Len(h) THEN h[k] * h[k] ELSE 0]
Rises(h) == [k \in Int |-> IF k \in 1..Len(h) THEN Rise(h, k) * Rise(h, k) ELSE 0]

LEMMA AppendIs ==
  ASSUME NEW S, NEW s \in Seq(S), NEW x \in S
  PROVE  /\ Append(s, x) \in Seq(S) /\ Len(Append(s, x)) = Len(s) + 1 /\ Len(s) \in Nat
         /\ \A i \in 1..Len(s) : Append(s, x)[i] = s[i] /\ s[i] \in S
         /\ Append(s, x)[Len(s) + 1] = x
BY AppendProperties, LenProperties, ElementOfSeq

LEMMA TermsAre ==
  ASSUME NEW h \in Seq(Int), NEW x \in Int
  PROVE  /\ Squares(h) \in [Int -> Int] /\ Rises(h) \in [Int -> Int]
         /\ \A k \in Int : k <= Len(h) =>
              Squares(Append(h, x))[k] = Squares(h)[k] /\ Rises(Append(h, x))[k] = Rises(h)[k]
         /\ Squares(Append(h, x))[Len(h) + 1] = x * x
         /\ Rises(Append(h, x))[Len(h) + 1] = (x - SampleAt(h, Len(h))) * (x - SampleAt(h, Len(h)))
         /\ SampleAt(h, Len(h)) \in Int
<1>. DEFINE n == Len(h)
            l == Append(h, x)
<1>1. /\ l \in Seq(Int) /\ Len(l) = n + 1 /\ n \in Nat /\ l[n + 1] = x
      /\ \A i \in 1..n : l[i] = h[i] /\ h[i] \in Int
  BY AppendIs
<1>. HIDE DEF n, l
<1>2. \A a, b \in Int : (a - b) * (a - b) \in Int /\ a * a \in Int OBVIOUS
<1>3. \A i \in 0..n : SampleAt(h, i) \in Int /\ SampleAt(l, i) = SampleAt(h, i)
  BY <1>1 DEF SampleAt
<1>4. \A k \in 1..n : Rise(h, k) * Rise(h, k) \in Int /\ Rise(l, k) = Rise(h, k)
  <2>. TAKE k \in 1..n
  <2>1. k \in 0..n /\ k - 1 \in 0..n BY <1>1
  <2>. QED BY <1>2, <1>3, <2>1 DEF Rise
<1>5. SampleAt(l, n + 1) = x /\ (n + 1) - 1 = n BY <1>1 DEF SampleAt
<1>6. Rise(l, n + 1) = x - SampleAt(h, n) /\ SampleAt(h, n) \in Int
  <2>1. n \in 0..n BY <1>1
  <2>. QED BY <1>3, <1>5, <2>1 DEF Rise
<1>7. Squares(h) \in [Int -> Int] BY <1>1, <1>2 DEF Squares, n
<1>8. Rises(h) \in [Int -> Int] BY <1>1, <1>4 DEF Rises, n
<1>9. ASSUME NEW k \in Int, k <= n
      PROVE  Squares(l)[k] = Squares(h)[k] /\ Rises(l)[k] = Rises(h)[k]
  <2>1. k \in 1..Len(l) <=> k \in 1..n BY <1>1, <1>9
  <2>2. CASE k \in 1..n BY <1>1, <1>4, <2>1, <2>2 DEF Squares, Rises, n
  <2>3. CASE k \notin 1..n BY <2>1, <2>3 DEF Squares, Rises, n
  <2>. QED BY <2>2, <2>3
<1>10. Squares(l)[n + 1] = x * x BY <1>1 DEF Squares
<1>11. Rises(l)[n + 1] = (x - SampleAt(h, n)) * (x - SampleAt(h, n)) BY <1>1, <1>6 DEF Rises
<1>. QED BY <1>6, <1>7, <1>8, <1>9, <1>10, <1>11 DEF n, l

LEMMA EnergyIs ==
  ASSUME DetectorAssumption, NEW h \in Seq(Int), NEW i \in FullFrames(h)
  PROVE  /\ Energy(h, i) = SumOf(LastSamples(Squares(h), frame_samples, i)) /\ Energy(h, i) \in Int
         /\ HighFrequency(h, i) = SumOf(LastSamples(Rises(h), frame_samples, i))
         /\ HighFrequency(h, i) \in Int
<1>1. frame_samples \in Nat \ {0} /\ Len(h) \in Nat /\ i \in frame_samples..Len(h)
  BY LenProperties DEF DetectorAssumption, FullFrames
<1>2. \A j \in 1..frame_samples : i - frame_samples + j \in 1..Len(h) /\ i - frame_samples + j \in Int
  BY <1>1
<1>3. LastSamples(Squares(h), frame_samples, i)
        = [j \in 1..frame_samples |-> h[i - frame_samples + j] * h[i - frame_samples + j]]
  BY <1>2 DEF LastSamples, Squares
<1>4. LastSamples(Rises(h), frame_samples, i)
        = [j \in 1..frame_samples |-> Rise(h, i - frame_samples + j) * Rise(h, i - frame_samples + j)]
  BY <1>2 DEF LastSamples, Rises
<1>5. Squares(h) \in [Int -> Int] /\ Rises(h) \in [Int -> Int] BY 0 \in Int, TermsAre
<1>6. /\ LastSamples(Squares(h), frame_samples, i) \in [1..frame_samples -> Int]
      /\ LastSamples(Rises(h), frame_samples, i) \in [1..frame_samples -> Int]
  <2>1. ASSUME NEW f \in [Int -> Int] PROVE LastSamples(f, frame_samples, i) \in [1..frame_samples -> Int]
    <3>1. \A j \in 1..frame_samples : f[i - frame_samples + j] \in Int BY <1>2
    <3>. QED BY <3>1 DEF LastSamples
  <2>. QED BY <1>5, <2>1
<1>7. /\ SumOf(LastSamples(Squares(h), frame_samples, i)) \in Int
      /\ SumOf(LastSamples(Rises(h), frame_samples, i)) \in Int
  BY <1>1, <1>6, 0 \in Int, ShiftedSum
<1>. QED BY <1>3, <1>4, <1>7 DEF Energy, HighFrequency

\* The samples that are still to come change no energy of those that were heard.
LEMMA EnergyStays ==
  ASSUME DetectorAssumption, NEW h \in Seq(Int), NEW x \in Int, NEW i \in FullFrames(h)
  PROVE  /\ i \in FullFrames(Append(h, x))
         /\ Energy(Append(h, x), i) = Energy(h, i)
         /\ HighFrequency(Append(h, x), i) = HighFrequency(h, i)
<1>1. /\ Append(h, x) \in Seq(Int) /\ Len(Append(h, x)) = Len(h) + 1 /\ Len(h) \in Nat
      /\ frame_samples \in Nat \ {0} /\ i \in frame_samples..Len(h)
  BY AppendIs DEF DetectorAssumption, FullFrames
<1>2. i \in FullFrames(Append(h, x)) BY <1>1 DEF FullFrames
<1>3. /\ Squares(h) \in [Int -> Int] /\ Rises(h) \in [Int -> Int]
      /\ \A k \in Int : k <= Len(h) => Squares(Append(h, x))[k] = Squares(h)[k]
                                       /\ Rises(Append(h, x))[k] = Rises(h)[k]
  BY TermsAre
<1>4. \A j \in 1..frame_samples : i - frame_samples + j \in Int /\ i - frame_samples + j <= Len(h)
  BY <1>1
<1>5. LastSamples(Squares(Append(h, x)), frame_samples, i) = LastSamples(Squares(h), frame_samples, i)
  BY <1>3, <1>4 DEF LastSamples
<1>6. LastSamples(Rises(Append(h, x)), frame_samples, i) = LastSamples(Rises(h), frame_samples, i)
  BY <1>3, <1>4 DEF LastSamples
<1>7. /\ Energy(Append(h, x), i) = SumOf(LastSamples(Squares(Append(h, x)), frame_samples, i))
      /\ HighFrequency(Append(h, x), i) = SumOf(LastSamples(Rises(Append(h, x)), frame_samples, i))
  BY <1>1, <1>2, EnergyIs
<1>8. /\ Energy(h, i) = SumOf(LastSamples(Squares(h), frame_samples, i))
      /\ HighFrequency(h, i) = SumOf(LastSamples(Rises(h), frame_samples, i))
  BY EnergyIs
<1>. QED BY <1>2, <1>5, <1>6, <1>7, <1>8

-----------------------------------------------------------------------------
(* The baseline. *)

LEMMA BaselineIs ==
  ASSUME DetectorAssumption, NEW h \in Seq(Int), NEW p, NEW i \in FullFrames(h)
  PROVE  /\ Baseline(h, p)[i] \in Int
         /\ Baseline(h, p)[i] = IF i = frame_samples \/ p[i] = 1 THEN Level(Energy(h, i))
                                ELSE Toward(Baseline(h, p)[i - 1], Level(Energy(h, i)))
<1>. DEFINE w == frame_samples
            n == Len(h)
            level == [k \in Nat |-> IF k \in w..n THEN Level(Energy(h, k)) ELSE 0]
            G == [v \in Nat \X Int |-> IF p[v[1]] = 1 THEN level[v[1]] ELSE Toward(v[2], level[v[1]])]
            Is(f) == f = [k \in w..n |-> IF k = w \/ p[k] = 1 THEN Level(Energy(h, k))
                                         ELSE Toward(f[k - 1], Level(Energy(h, k)))]
<1>1. w \in Nat \ {0} /\ n \in Nat BY LenProperties DEF DetectorAssumption
<1>2. \A k \in w..n : Level(Energy(h, k)) \in Int
  <2>. TAKE k \in w..n
  <2>1. k \in FullFrames(h) BY DEF FullFrames
  <2>2. Energy(h, k) \in Int BY <2>1, EnergyIs
  <2>. QED BY <2>2 DEF Level
<1>3. level \in [Nat -> Int] /\ \A k \in w..n : level[k] = Level(Energy(h, k))
  BY <1>1, <1>2
<1>. HIDE DEF level, w, n
<1>4. \A a, b \in Int : Toward(a, b) \in Int BY DEF Toward
<1>5. G \in [Nat \X Int -> Int]
      /\ \A k \in Nat, x \in Int : G[<<k, x>>] = IF p[k] = 1 THEN level[k] ELSE Toward(x, level[k])
  <2>1. \A v \in Nat \X Int : v[1] \in Nat /\ v[2] \in Int OBVIOUS
  <2>2. \A v \in Nat \X Int :
          (IF p[v[1]] = 1 THEN level[v[1]] ELSE Toward(v[2], level[v[1]])) \in Int
    BY <1>3, <1>4, <2>1
  <2>3. \A k \in Nat, x \in Int :
          <<k, x>> \in Nat \X Int /\ <<k, x>>[1] = k /\ <<k, x>>[2] = x
    OBVIOUS
  <2>4. G \in [Nat \X Int -> Int] BY <2>2
  <2>5. \A v \in Nat \X Int : G[v] = IF p[v[1]] = 1 THEN level[v[1]] ELSE Toward(v[2], level[v[1]])
    OBVIOUS
  <2>. HIDE DEF G
  <2>. QED BY <2>3, <2>4, <2>5
<1>. HIDE DEF G
<1>6. PICK f \in [w..n -> Int] : Iterated(f, G, level[w], w, n)
  <2>1. level[w] \in Int BY <1>1, <1>3
  <2>. QED BY <1>1, <1>5, <2>1, Iterates
<1>7. Is(f)
  <2>1. ASSUME NEW k \in w..n
        PROVE  f[k] = IF k = w \/ p[k] = 1 THEN Level(Energy(h, k))
                      ELSE Toward(f[k - 1], Level(Energy(h, k)))
    <3>1. f[k] = IF k = w THEN level[w] ELSE G[<<k, f[k - 1]>>] BY <1>6 DEF Iterated
    <3>2. CASE k = w BY <1>3, <3>1, <3>2
    <3>3. CASE k # w
      <4>1. k \in Nat /\ f[k - 1] \in Int
        <5>1. k - 1 \in w..n /\ k \in Nat BY <1>1, <3>3
        <5>. QED BY <5>1
      <4>2. G[<<k, f[k - 1]>>] = IF p[k] = 1 THEN level[k] ELSE Toward(f[k - 1], level[k])
        BY <1>5, <4>1
      <4>. QED BY <1>3, <3>1, <3>3, <4>2
    <3>. QED BY <3>2, <3>3
  <2>. QED BY <2>1
<1>8. Is(Baseline(h, p))
  <2>1. \E g : Is(g) BY <1>7
  <2>2. Baseline(h, p) = CHOOSE g : Is(g) BY DEF Baseline, FullFrames, w, n
  <2>. HIDE DEF Is
  <2>. QED BY <2>1, <2>2
<1>. DEFINE g == Baseline(h, p)
<1>. HIDE DEF g
<1>9. \A k \in w..n : g[k] = IF k = w \/ p[k] = 1 THEN Level(Energy(h, k))
                             ELSE Toward(g[k - 1], Level(Energy(h, k)))
  BY <1>8 DEF g
<1>10. w..n \subseteq {k \in Nat : g[k] \in Int}
  <2>. DEFINE T == {k \in Nat : g[k] \in Int}
  <2>1. w <= n => w \in T
    <3>. SUFFICES ASSUME w <= n PROVE w \in T OBVIOUS
    <3>1. w \in w..n BY <1>1
    <3>2. g[w] = Level(Energy(h, w)) BY <1>9, <3>1
    <3>. QED BY <1>1, <1>2, <3>1, <3>2
  <2>2. ASSUME NEW k \in w..n, k < n, k \in T PROVE k + 1 \in T
    <3>1. k + 1 \in w..n /\ (k + 1) - 1 = k /\ k + 1 # w /\ k + 1 \in Nat BY <1>1, <2>2
    <3>2. g[k + 1] = IF p[k + 1] = 1 THEN Level(Energy(h, k + 1))
                     ELSE Toward(g[k], Level(Energy(h, k + 1)))
      BY <1>9, <3>1
    <3>3. Level(Energy(h, k + 1)) \in Int /\ g[k] \in Int BY <1>2, <2>2, <3>1
    <3>4. g[k + 1] \in Int BY <1>4, <3>2, <3>3
    <3>. QED BY <3>1, <3>4
  <2>. HIDE DEF T
  <2>3. \A k \in w..n : k < n /\ k \in T => k + 1 \in T BY <2>2
  <2>4. w..n \subseteq T BY <1>1, <2>1, <2>3, RangeInduction
  <2>. QED BY <2>4 DEF T
<1>11. i \in w..n BY DEF FullFrames, w, n
<1>. QED BY <1>9, <1>10, <1>11 DEF g, w

LEMMA BaselineStays ==
  ASSUME DetectorAssumption, NEW h \in Seq(Int), NEW x \in Int,
         NEW p \in Seq(Int), Len(p) = Len(h), NEW y \in Int, NEW i \in FullFrames(h)
  PROVE  Baseline(Append(h, x), Append(p, y))[i] = Baseline(h, p)[i]
<1>. DEFINE w == frame_samples
            n == Len(h)
            old == Baseline(h, p)
            new == Baseline(Append(h, x), Append(p, y))
            T == {k \in Nat : new[k] = old[k]}
<1>1. w \in Nat \ {0} /\ n \in Nat /\ FullFrames(h) = w..n
  BY LenProperties DEF DetectorAssumption, FullFrames
<1>2. Append(h, x) \in Seq(Int) BY AppendIs
<1>3. \A k \in 1..n : Append(p, y)[k] = p[k] BY AppendIs
<1>4. ASSUME NEW k \in w..n
      PROVE  /\ new[k] = IF k = w \/ p[k] = 1 THEN Level(Energy(h, k))
                         ELSE Toward(new[k - 1], Level(Energy(h, k)))
             /\ old[k] = IF k = w \/ p[k] = 1 THEN Level(Energy(h, k))
                         ELSE Toward(old[k - 1], Level(Energy(h, k)))
  <2>1. k \in FullFrames(h) BY <1>1
  <2>2. /\ k \in FullFrames(Append(h, x)) /\ Energy(Append(h, x), k) = Energy(h, k)
    BY <2>1, EnergyStays
  <2>3. old[k] = IF k = w \/ p[k] = 1 THEN Level(Energy(h, k))
                 ELSE Toward(old[k - 1], Level(Energy(h, k)))
    BY <2>1, BaselineIs
  <2>4. new[k] = IF k = w \/ Append(p, y)[k] = 1 THEN Level(Energy(Append(h, x), k))
                 ELSE Toward(new[k - 1], Level(Energy(Append(h, x), k)))
    BY <1>2, <2>2, BaselineIs
  <2>5. Append(p, y)[k] = p[k] BY <1>1, <1>3
  <2>. QED BY <2>2, <2>3, <2>4, <2>5
<1>. HIDE DEF w, n, old, new
<1>5. w <= n => w \in T
  <2>. SUFFICES ASSUME w <= n PROVE w \in T OBVIOUS
  <2>1. w \in w..n BY <1>1
  <2>. QED BY <1>1, <1>4, <2>1
<1>6. ASSUME NEW k \in w..n, k < n, k \in T PROVE k + 1 \in T
  <2>. HIDE DEF T
  <2>1. k + 1 \in w..n /\ (k + 1) - 1 = k /\ k + 1 \in Nat BY <1>1, <1>6
  <2>. QED BY <1>4, <1>6, <2>1 DEF T
<1>7. w..n \subseteq T
  <2>. HIDE DEF T
  <2>1. \A k \in w..n : k < n /\ k \in T => k + 1 \in T BY <1>6
  <2>. QED BY <1>1, <1>5, <2>1, RangeInduction
<1>. QED BY <1>1, <1>7 DEF old, new

-----------------------------------------------------------------------------
(* Onset. *)

OnsetState ==
    [ring : [1..frame_samples -> Int], write : 1..frame_samples, sum : Int, filled : BOOLEAN,
     baseline : Int, initialised : BOOLEAN, since : 0..min_separation, out : Seq(Int)]

RiseAt(h, p, i) ==
    /\ i > frame_samples
    /\ Level(Energy(h, i)) - Baseline(h, p)[i - 1] > onset_threshold
    /\ \A j \in 1..i - 1 : p[j] = 1 => i - j >= min_separation

(* The cooldown counts from the last pulse. *)
SinceInv(since, n, p) ==
    /\ \A j \in 1..n : p[j] = 1 => n - j >= since
    /\ since < min_separation => \E j \in 1..n : p[j] = 1 /\ n - j = since

OnsetInv(o, h, p) ==
    /\ o \in OnsetState /\ h \in Seq(Int) /\ p \in Seq(Int) /\ Len(p) = Len(h)
    /\ Holds(o.ring, o.write, o.sum, Squares(h), Len(h))
    /\ Len(h) < frame_samples => o.write = Len(h) + 1
    /\ o.filled <=> Len(h) >= frame_samples
    /\ o.initialised <=> Len(h) >= frame_samples
    /\ o.initialised => o.baseline = Baseline(h, p)[Len(h)]
    /\ SinceInv(o.since, Len(h), p)
    /\ \A i \in 1..Len(h) : p[i] = 1 <=> RiseAt(h, p, i)

\* What one sample makes of the state, and what it puts out.
LEMMA HearOnsetIs ==
  ASSUME DetectorAssumption, NEW o \in OnsetState, NEW x \in Int, Advance(o.write) \in 1..frame_samples
  PROVE  LET sum == o.sum + x * x - o.ring[o.write]
             filled == o.filled \/ Advance(o.write) = 1
             since == Saturated(o.since, min_separation)
             pulse == /\ filled /\ o.initialised
                      /\ Level(sum) - o.baseline > onset_threshold /\ since >= min_separation
             n == HearOnset(o, x)
         IN /\ n \in OnsetState
            /\ n.ring = [o.ring EXCEPT ![o.write] = x * x] /\ n.write = Advance(o.write)
            /\ n.sum = sum
            /\ n.filled <=> filled
            /\ n.initialised <=> filled \/ o.initialised
            /\ n.since = (IF pulse THEN 0 ELSE since) /\ since \in 0..min_separation
            /\ n.baseline = IF ~filled THEN o.baseline
                            ELSE IF ~o.initialised \/ pulse THEN Level(sum)
                            ELSE Toward(o.baseline, Level(sum))
            /\ n.out = Append(o.out, IF pulse THEN 1 ELSE 0)
<1>. DEFINE square == x * x
            ring == [o.ring EXCEPT ![o.write] = square]
            write == Advance(o.write)
            sum == o.sum + square - o.ring[o.write]
            filled == o.filled \/ write = 1
            since == Saturated(o.since, min_separation)
            level == Level(sum)
            moved == [o EXCEPT !.ring[o.write] = square, !.sum = sum, !.write = write,
                               !.filled = filled, !.since = since]
            pulse == /\ filled /\ o.initialised
                     /\ level - o.baseline > onset_threshold /\ since >= min_separation
<1>1. square \in Int OBVIOUS
<1>2. min_separation \in Nat BY DEF DetectorAssumption
<1>3. /\ o.ring \in [1..frame_samples -> Int] /\ o.write \in 1..frame_samples /\ o.sum \in Int
      /\ o.filled \in BOOLEAN /\ o.baseline \in Int /\ o.initialised \in BOOLEAN
      /\ o.since \in 0..min_separation /\ o.out \in Seq(Int)
  BY DEF OnsetState
<1>. HIDE DEF square
<1>4. ring \in [1..frame_samples -> Int] BY <1>1, <1>3
<1>5. sum \in Int /\ write \in 1..frame_samples
  <2>1. o.ring[o.write] \in Int BY <1>3
  <2>2. \A a, b, c \in Int : a + b - c \in Int OBVIOUS
  <2>3. sum \in Int BY <1>1, <1>3, <2>1, <2>2
  <2>4. write \in 1..frame_samples OBVIOUS
  <2>. QED BY <2>3, <2>4
<1>6. filled \in BOOLEAN BY <1>3
<1>7. since \in 0..min_separation BY <1>2, <1>3 DEF Saturated
<1>8. level \in Int /\ Toward(o.baseline, level) \in Int BY <1>3, <1>5 DEF Level, Toward
<1>9. HearOnset(o, x) =
        IF ~moved.filled THEN [moved EXCEPT !.out = Append(@, 0)]
        ELSE IF ~moved.initialised
        THEN [moved EXCEPT !.baseline = Level(moved.sum), !.initialised = TRUE, !.out = Append(@, 0)]
        ELSE IF Pulse(Level(moved.sum), moved)
        THEN [moved EXCEPT !.baseline = Level(moved.sum), !.since = 0, !.out = Append(@, 1)]
        ELSE [moved EXCEPT !.baseline = Toward(@, Level(moved.sum)), !.out = Append(@, 0)]
  BY DEF HearOnset, square
<1>. HIDE DEF write, sum, filled, since
<1>10. /\ moved \in OnsetState
       /\ moved.ring = ring /\ moved.write = write /\ moved.sum = sum /\ moved.filled = filled
       /\ moved.since = since /\ moved.baseline = o.baseline /\ moved.initialised = o.initialised
       /\ moved.out = o.out
  BY <1>3, <1>4, <1>5, <1>6, <1>7 DEF OnsetState
<1>. HIDE DEF moved, ring, level
<1>11. Pulse(level, moved) <=> level - o.baseline > onset_threshold /\ since >= min_separation
  BY <1>10 DEF Pulse
<1>12. \A y \in {0, 1} : Append(o.out, y) \in Seq(Int)
  <2>1. \A y \in {0, 1} : y \in Int OBVIOUS
  <2>. QED BY <1>3, <2>1, AppendIs
<1>. DEFINE n == HearOnset(o, x)
            Result(baseline, cooled, y) ==
              /\ n \in OnsetState
              /\ n.ring = ring /\ n.write = write /\ n.sum = sum /\ n.filled = filled
              /\ (n.initialised <=> filled \/ o.initialised)
              /\ n.since = cooled /\ n.baseline = baseline /\ n.out = Append(o.out, y)
<1>13. CASE ~filled
  <2>1. n = [moved EXCEPT !.out = Append(@, 0)] BY <1>9, <1>10, <1>13
  <2>2. Result(o.baseline, since, 0)
    BY <1>10, <1>12, <1>13, <2>1 DEF OnsetState
  <2>. QED BY <1>7, <1>13, <2>2 DEF ring, level, write, sum, filled, since, square
<1>14. CASE filled /\ ~o.initialised
  <2>1. n = [moved EXCEPT !.baseline = level, !.initialised = TRUE, !.out = Append(@, 0)]
    BY <1>9, <1>10, <1>14 DEF level
  <2>2. Result(level, since, 0)
    BY <1>8, <1>10, <1>12, <1>14, <2>1 DEF OnsetState
  <2>. QED BY <1>7, <1>14, <2>2 DEF ring, level, write, sum, filled, since, square
<1>15. CASE filled /\ o.initialised /\ pulse
  <2>1. n = [moved EXCEPT !.baseline = level, !.since = 0, !.out = Append(@, 1)]
    BY <1>9, <1>10, <1>11, <1>15 DEF level
  <2>2. Result(level, 0, 1)
    <3>1. 0 \in 0..min_separation BY <1>2
    <3>. QED BY <1>8, <1>10, <1>12, <1>15, <2>1, <3>1 DEF OnsetState
  <2>. QED BY <1>7, <1>15, <2>2 DEF ring, level, write, sum, filled, since, square
<1>16. CASE filled /\ o.initialised /\ ~pulse
  <2>1. n = [moved EXCEPT !.baseline = Toward(@, level), !.out = Append(@, 0)]
    BY <1>9, <1>10, <1>11, <1>16 DEF level
  <2>2. Result(Toward(o.baseline, level), since, 0)
    BY <1>8, <1>10, <1>12, <1>16, <2>1 DEF OnsetState
  <2>. QED BY <1>7, <1>16, <2>2 DEF ring, level, write, sum, filled, since, square
<1>. QED BY <1>13, <1>14, <1>15, <1>16

LEMMA SinceMoves ==
  ASSUME DetectorAssumption, NEW since \in 0..min_separation, NEW n \in Nat, NEW p, NEW q,
         \A j \in 1..n : q[j] = p[j], SinceInv(since, n, p)
  PROVE  LET next == Saturated(since, min_separation)
         IN /\ next >= min_separation <=> \A j \in 1..n : p[j] = 1 => (n + 1) - j >= min_separation
            /\ q[n + 1] # 1 => SinceInv(next, n + 1, q)
            /\ q[n + 1] = 1 => SinceInv(0, n + 1, q)
<1>. DEFINE next == Saturated(since, min_separation)
<1>1. min_separation \in Nat BY DEF DetectorAssumption
<1>2. next = IF since < min_separation THEN since + 1 ELSE since
  BY <1>1 DEF Saturated
<1>. HIDE DEF next
<1>3. \A j \in 1..n : p[j] = 1 => n - j >= since BY DEF SinceInv
<1>4. ASSUME q[n + 1] = 1 PROVE SinceInv(0, n + 1, q)
  <2>1. \A i \in 1..n + 1 : (n + 1) - i >= 0 OBVIOUS
  <2>2. n + 1 \in 1..n + 1 /\ (n + 1) - (n + 1) = 0 OBVIOUS
  <2>. QED BY <1>4, <2>1, <2>2 DEF SinceInv
<1>5. CASE since < min_separation
  <2>1. PICK j \in 1..n : p[j] = 1 /\ n - j = since BY <1>5 DEF SinceInv
  <2>2. next >= min_separation <=> \A i \in 1..n : p[i] = 1 => (n + 1) - i >= min_separation
    BY <1>1, <1>2, <1>3, <1>5, <2>1
  <2>3. ASSUME q[n + 1] # 1 PROVE SinceInv(next, n + 1, q)
    <3>1. \A i \in 1..n + 1 : i \in 1..n \/ i = n + 1 OBVIOUS
    <3>2. \A i \in 1..n + 1 : q[i] = 1 => (n + 1) - i >= next
      BY <1>1, <1>2, <1>3, <1>5, <2>3, <3>1
    <3>3. j \in 1..n + 1 /\ q[j] = 1 /\ (n + 1) - j = next BY <1>2, <1>5, <2>1
    <3>. QED BY <3>2, <3>3 DEF SinceInv
  <2>. QED BY <1>4, <2>2, <2>3 DEF next
<1>6. CASE since = min_separation
  <2>1. next >= min_separation /\ \A i \in 1..n : p[i] = 1 => (n + 1) - i >= min_separation
    BY <1>1, <1>2, <1>3, <1>6
  <2>2. ASSUME q[n + 1] # 1 PROVE SinceInv(next, n + 1, q)
    <3>1. \A i \in 1..n + 1 : i \in 1..n \/ i = n + 1 OBVIOUS
    <3>2. \A i \in 1..n + 1 : q[i] = 1 => (n + 1) - i >= next
      BY <1>1, <1>2, <1>3, <1>6, <2>2, <3>1
    <3>. QED BY <1>1, <1>2, <1>6, <3>2 DEF SinceInv
  <2>. QED BY <1>4, <2>1, <2>2 DEF next
<1>. QED BY <1>1, <1>5, <1>6

\* What was a rise stays one.
LEMMA RiseStays ==
  ASSUME DetectorAssumption, NEW h \in Seq(Int), NEW x \in Int,
         NEW p \in Seq(Int), Len(p) = Len(h), NEW y \in Int, NEW i \in 1..Len(h)
  PROVE  RiseAt(Append(h, x), Append(p, y), i) <=> RiseAt(h, p, i)
<1>1. Len(h) \in Nat /\ \A j \in 1..Len(h) : Append(p, y)[j] = p[j] BY AppendIs
<1>2. CASE i > frame_samples
  <2>1. i \in FullFrames(h) /\ i - 1 \in FullFrames(h)
    BY <1>1, <1>2 DEF FullFrames, DetectorAssumption
  <2>2. Energy(Append(h, x), i) = Energy(h, i) BY <2>1, EnergyStays
  <2>3. Baseline(Append(h, x), Append(p, y))[i - 1] = Baseline(h, p)[i - 1]
    BY <2>1, BaselineStays
  <2>4. \A j \in 1..i - 1 : Append(p, y)[j] = p[j] BY <1>1
  <2>. QED BY <2>2, <2>3, <2>4 DEF RiseAt
<1>3. CASE ~ (i > frame_samples) BY <1>3 DEF RiseAt
<1>. QED BY <1>2, <1>3

LEMMA OnsetMoves ==
  ASSUME DetectorAssumption, NEW o, NEW h, NEW p, OnsetInv(o, h, p), NEW x \in Int
  PROVE  \E y \in Int : /\ HearOnset(o, x).out = Append(o.out, y)
                        /\ OnsetInv(HearOnset(o, x), Append(h, x), Append(p, y))
<1>. DEFINE n == Len(h)
            w == frame_samples
            l == Append(h, x)
            square == x * x
            sum == o.sum + square - o.ring[o.write]
            filled == o.filled \/ Advance(o.write) = 1
            since == Saturated(o.since, min_separation)
            pulse == /\ filled /\ o.initialised
                     /\ Level(sum) - o.baseline > onset_threshold /\ since >= min_separation
            m == HearOnset(o, x)
            y == IF pulse THEN 1 ELSE 0
            q == Append(p, y)
<1>1. /\ o \in OnsetState /\ h \in Seq(Int) /\ p \in Seq(Int) /\ Len(p) = n /\ n \in Nat
      /\ w \in Nat \ {0} /\ min_separation \in Nat /\ y \in Int
  BY LenProperties DEF OnsetInv, DetectorAssumption
<1>2. /\ o.write \in 1..w /\ o.since \in 0..min_separation /\ o.initialised \in BOOLEAN
      /\ o.filled \in BOOLEAN
  BY <1>1 DEF OnsetState
<1>3. Advance(o.write) = IF o.write = w THEN 1 ELSE o.write + 1 BY <1>2, AdvanceIs
<1>4. Advance(o.write) \in 1..w BY <1>1, <1>2, <1>3
<1>5. /\ m \in OnsetState
      /\ m.ring = [o.ring EXCEPT ![o.write] = square] /\ m.write = Advance(o.write)
      /\ m.sum = sum
      /\ m.filled <=> filled
      /\ m.initialised <=> filled \/ o.initialised
      /\ m.since = (IF pulse THEN 0 ELSE since)
      /\ m.baseline = IF ~filled THEN o.baseline
                      ELSE IF ~o.initialised \/ pulse THEN Level(sum)
                      ELSE Toward(o.baseline, Level(sum))
      /\ m.out = Append(o.out, y)
  BY <1>1, <1>4, HearOnsetIs
<1>6. /\ l \in Seq(Int) /\ Len(l) = n + 1
      /\ Squares(h) \in [Int -> Int] /\ Squares(l) \in [Int -> Int]
      /\ \A k \in Int : k <= n => Squares(l)[k] = Squares(h)[k]
      /\ Squares(l)[n + 1] = square
  <2>1. l \in Seq(Int) /\ Len(l) = n + 1 BY <1>1, AppendIs
  <2>2. h \in Seq(Int) /\ x \in Int BY <1>1
  <2>3. /\ Squares(h) \in [Int -> Int]
        /\ \A k \in Int : k <= n => Squares(l)[k] = Squares(h)[k]
        /\ Squares(l)[n + 1] = square
    BY <2>2, TermsAre
  <2>4. Squares(l) \in [Int -> Int] BY <2>1, <2>2, TermsAre
  <2>. QED BY <2>1, <2>3, <2>4
<1>7. /\ q \in Seq(Int) /\ Len(q) = n + 1 /\ q[n + 1] = y
      /\ \A j \in 1..n : q[j] = p[j]
  BY <1>1, AppendIs
<1>8. Holds(o.ring, o.write, o.sum, Squares(h), n) BY DEF OnsetInv
<1>. HIDE DEF square
<1>9. Holds(m.ring, m.write, m.sum, Squares(l), n + 1)
  <2>1. Holds([o.ring EXCEPT ![o.write] = Squares(l)[n + 1]], Advance(o.write),
              o.sum + Squares(l)[n + 1] - o.ring[o.write], Squares(l), n + 1)
    BY <1>1, <1>6, <1>8, SumMoves
  <2>. QED BY <1>5, <1>6, <2>1
<1>10. filled <=> n + 1 >= w
  BY <1>1, <1>2, <1>3 DEF OnsetInv
<1>11. n + 1 < w => Advance(o.write) = (n + 1) + 1
  BY <1>1, <1>2, <1>3 DEF OnsetInv
<1>12. filled => n + 1 \in FullFrames(l) /\ Level(sum) = Level(Energy(l, n + 1))
  <2>. SUFFICES ASSUME filled
                PROVE  n + 1 \in FullFrames(l) /\ Level(sum) = Level(Energy(l, n + 1))
    OBVIOUS
  <2>1. n + 1 \in FullFrames(l) BY <1>1, <1>6, <1>10 DEF FullFrames
  <2>2. Energy(l, n + 1) = SumOf(LastSamples(Squares(l), w, n + 1)) BY <1>6, <2>1, EnergyIs
  <2>. QED BY <1>5, <1>9, <2>1, <2>2 DEF Holds
<1>13. o.initialised <=> n >= w BY DEF OnsetInv
<1>14. o.initialised => /\ n \in FullFrames(h) /\ o.baseline = Baseline(h, p)[n]
                        /\ Baseline(l, q)[n] = Baseline(h, p)[n]
  <2>. SUFFICES ASSUME o.initialised
                PROVE  /\ n \in FullFrames(h) /\ o.baseline = Baseline(h, p)[n]
                       /\ Baseline(l, q)[n] = Baseline(h, p)[n]
    OBVIOUS
  <2>1. n \in FullFrames(h) BY <1>1, <1>13 DEF FullFrames
  <2>2. Baseline(l, q)[n] = Baseline(h, p)[n] BY <1>1, <2>1, BaselineStays
  <2>. QED BY <2>1, <2>2 DEF OnsetInv
<1>. HIDE DEF sum, filled, since, m, q, l, w, n
<1>15. SinceInv(o.since, n, p) BY DEF OnsetInv, n
<1>16. /\ since >= min_separation <=> \A j \in 1..n : p[j] = 1 => (n + 1) - j >= min_separation
       /\ q[n + 1] # 1 => SinceInv(since, n + 1, q)
       /\ q[n + 1] = 1 => SinceInv(0, n + 1, q)
  BY <1>1, <1>2, <1>7, <1>15, SinceMoves DEF since
<1>17. pulse <=> RiseAt(l, q, n + 1)
  <2>1. (n + 1) - 1 = n /\ (n + 1 > w <=> n >= w) /\ (n >= w => n + 1 >= w) BY <1>1
  <2>2. (\A j \in 1..n : q[j] = 1 => (n + 1) - j >= min_separation)
          <=> since >= min_separation
    BY <1>7, <1>16
  <2>3. RiseAt(l, q, n + 1) <=>
          /\ n >= w
          /\ Level(Energy(l, n + 1)) - Baseline(l, q)[n] > onset_threshold
          /\ since >= min_separation
    BY <2>1, <2>2 DEF RiseAt, w
  <2>4. CASE n >= w BY <1>10, <1>12, <1>13, <1>14, <2>1, <2>3, <2>4
  <2>5. CASE ~ (n >= w) BY <1>13, <2>3, <2>5
  <2>. QED BY <2>4, <2>5
<1>18. y = 1 <=> pulse BY 1 # 0
<1>. HIDE DEF y, pulse
<1>19. \A i \in 1..n + 1 : q[i] = 1 <=> RiseAt(l, q, i)
  <2>. TAKE i \in 1..n + 1
  <2>1. CASE i = n + 1 BY <1>7, <1>17, <1>18, <2>1
  <2>2. CASE i \in 1..n
    <3>1. p[i] = 1 <=> RiseAt(h, p, i) BY <2>2 DEF OnsetInv, n
    <3>2. RiseAt(l, q, i) <=> RiseAt(h, p, i) BY <1>1, <2>2, RiseStays DEF l, q, n
    <3>. QED BY <1>7, <2>2, <3>1, <3>2
  <2>. QED BY <1>1, <2>1, <2>2
<1>20. m.initialised => m.baseline = Baseline(l, q)[n + 1]
  <2>. SUFFICES ASSUME m.initialised PROVE m.baseline = Baseline(l, q)[n + 1]
    OBVIOUS
  <2>1. filled /\ n + 1 \in FullFrames(l) BY <1>1, <1>5, <1>10, <1>12, <1>13
  <2>2. Baseline(l, q)[n + 1] = IF n + 1 = w \/ q[n + 1] = 1 THEN Level(Energy(l, n + 1))
                                ELSE Toward(Baseline(l, q)[(n + 1) - 1], Level(Energy(l, n + 1)))
    BY <1>6, <2>1, BaselineIs DEF w
  <2>3. (n + 1) - 1 = n /\ (n + 1 = w <=> ~o.initialised) BY <1>1, <1>10, <1>13, <2>1
  <2>. QED BY <1>5, <1>7, <1>12, <1>14, <1>18, <2>1, <2>2, <2>3
<1>21. /\ m.filled <=> n + 1 >= w
       /\ m.initialised <=> n + 1 >= w
       /\ n + 1 < w => m.write = (n + 1) + 1
  BY <1>1, <1>5, <1>10, <1>11, <1>13
<1>22. SinceInv(m.since, n + 1, q) BY <1>5, <1>7, <1>16, <1>18
<1>23. OnsetInv(m, l, q)
  BY <1>5, <1>6, <1>7, <1>9, <1>19, <1>20, <1>21, <1>22 DEF OnsetInv, w
<1>24. m.out = Append(o.out, y) /\ y \in Int BY <1>1, <1>5
<1>. QED BY <1>23, <1>24 DEF m, l, q

-----------------------------------------------------------------------------
(* Breath: the latch, of the frames that enter and those that exit. *)

ReleasedBy(B, j, i) ==
    \E k \in j + 1..i : k - j >= release_samples /\ k - release_samples + 1..k \subseteq B
OnAt(A, B, i) == \E j \in A : j <= i /\ ~ReleasedBy(B, j, i)

(* The latch is on, and how many frames have been below the exit since one was not. *)
LatchInv(latched, below, A, B, n) ==
    /\ latched <=> OnAt(A, B, n)
    /\ latched => /\ below < release_samples /\ n - below \notin B
                  /\ n - below + 1..n \subseteq B

LEMMA ReleaseIs ==
  ASSUME DetectorAssumption
  PROVE  release_samples \in Nat \ {0}
         /\ \A b \in Nat : b + 1 >= min_release <=> b + 1 >= release_samples
BY DEF DetectorAssumption, release_samples

LEMMA LatchMoves ==
  ASSUME DetectorAssumption, NEW A \in SUBSET Nat, NEW B \in SUBSET Nat, A \cap B = {},
         NEW n \in Nat, NEW latched \in BOOLEAN, NEW below \in Nat, LatchInv(latched, below, A, B, n)
  PROVE  /\ ~latched /\ n + 1 \in A => LatchInv(TRUE, 0, A, B, n + 1)
         /\ ~latched /\ n + 1 \notin A => LatchInv(FALSE, below, A, B, n + 1)
         /\ latched /\ n + 1 \notin B => LatchInv(TRUE, 0, A, B, n + 1)
         /\ latched /\ n + 1 \in B /\ below + 1 >= release_samples
              => LatchInv(FALSE, 0, A, B, n + 1)
         /\ latched /\ n + 1 \in B /\ below + 1 < release_samples
              => LatchInv(TRUE, below + 1, A, B, n + 1)
<1>. DEFINE r == release_samples
<1>1. r \in Nat \ {0} BY ReleaseIs
<1>. HIDE DEF r
<1>2. /\ latched <=> OnAt(A, B, n)
      /\ latched => below < r /\ n - below \notin B /\ n - below + 1..n \subseteq B
  BY DEF LatchInv, r
<1>3. \A j \in Nat : ReleasedBy(B, j, n) => ReleasedBy(B, j, n + 1)
  <2>. SUFFICES ASSUME NEW j \in Nat, ReleasedBy(B, j, n) PROVE ReleasedBy(B, j, n + 1)
    OBVIOUS
  <2>1. PICK k \in j + 1..n : k - j >= r /\ k - r + 1..k \subseteq B BY DEF ReleasedBy, r
  <2>2. k \in j + 1..n + 1 OBVIOUS
  <2>. QED BY <2>1, <2>2 DEF ReleasedBy, r
\* A release that is new at n + 1 ends there.
<1>4. \A j \in Nat : ReleasedBy(B, j, n + 1) /\ ~ReleasedBy(B, j, n) =>
         (n + 1) - j >= r /\ (n + 1) - r + 1..n + 1 \subseteq B /\ n + 1 \in B
  <2>. SUFFICES ASSUME NEW j \in Nat, ReleasedBy(B, j, n + 1), ~ReleasedBy(B, j, n)
                PROVE  (n + 1) - j >= r /\ (n + 1) - r + 1..n + 1 \subseteq B /\ n + 1 \in B
    OBVIOUS
  <2>1. PICK k \in j + 1..n + 1 : k - j >= r /\ k - r + 1..k \subseteq B BY DEF ReleasedBy, r
  <2>2. k = n + 1
    <3>1. k \in j + 1..n \/ k = n + 1 OBVIOUS
    <3>. QED BY <2>1, <3>1 DEF ReleasedBy, r
  <2>3. n + 1 \in (n + 1) - r + 1..n + 1 BY <1>1
  <2>. QED BY <2>1, <2>2, <2>3
<1>5. ASSUME ~latched, n + 1 \in A PROVE LatchInv(TRUE, 0, A, B, n + 1)
  <2>1. ~ReleasedBy(B, n + 1, n + 1)
    <3>1. (n + 1) + 1..n + 1 = {} OBVIOUS
    <3>. QED BY <3>1 DEF ReleasedBy
  <2>2. OnAt(A, B, n + 1) BY <1>5, <2>1 DEF OnAt
  <2>3. n + 1 \notin B /\ (n + 1) - 0 = n + 1 /\ (n + 1) - 0 + 1..n + 1 = {} BY <1>5
  <2>. QED BY <1>1, <2>2, <2>3 DEF LatchInv, r
<1>6. ASSUME ~latched, n + 1 \notin A PROVE LatchInv(FALSE, below, A, B, n + 1)
  <2>1. SUFFICES ASSUME NEW j \in A, j <= n + 1, ~ReleasedBy(B, j, n + 1) PROVE FALSE
    BY DEF LatchInv, OnAt
  <2>2. j <= n /\ j \in Nat BY <1>6, <2>1
  <2>3. ReleasedBy(B, j, n) BY <1>2, <1>6, <2>2 DEF OnAt
  <2>. QED BY <1>3, <2>1, <2>2, <2>3
<1>7. ASSUME latched PROVE \E j \in A : j <= n /\ ~ReleasedBy(B, j, n)
  BY <1>2, <1>7 DEF OnAt
<1>8. ASSUME latched, n + 1 \notin B PROVE LatchInv(TRUE, 0, A, B, n + 1)
  <2>1. PICK j \in A : j <= n /\ ~ReleasedBy(B, j, n) BY <1>7, <1>8
  <2>2. ~ReleasedBy(B, j, n + 1) BY <1>4, <1>8, <2>1
  <2>3. OnAt(A, B, n + 1)
    <3>1. j <= n + 1 BY <2>1
    <3>. QED BY <2>2, <3>1 DEF OnAt
  <2>4. (n + 1) - 0 = n + 1 /\ (n + 1) - 0 + 1..n + 1 = {} OBVIOUS
  <2>. QED BY <1>1, <1>8, <2>3, <2>4 DEF LatchInv, r
<1>9. ASSUME latched, n + 1 \in B, below + 1 >= r PROVE LatchInv(FALSE, 0, A, B, n + 1)
  <2>1. SUFFICES ASSUME NEW j \in A, j <= n + 1, ~ReleasedBy(B, j, n + 1) PROVE FALSE
    BY DEF LatchInv, OnAt
  <2>2. below + 1 = r BY <1>1, <1>2, <1>9
  <2>3. \A k \in (n + 1) - r + 1..n + 1 : k \in B
    <3>. TAKE k \in (n + 1) - r + 1..n + 1
    <3>1. k = n + 1 \/ k \in n - below + 1..n BY <1>1, <2>2
    <3>. QED BY <1>2, <1>9, <3>1
  <2>4. j \notin (n + 1) - r + 1..n + 1 BY <2>3
  <2>5. (n + 1) - j >= r /\ n + 1 \in j + 1..n + 1 BY <1>1, <2>1, <2>4
  <2>. QED BY <2>1, <2>3, <2>5 DEF ReleasedBy, r
<1>10. ASSUME latched, n + 1 \in B, below + 1 < r PROVE LatchInv(TRUE, below + 1, A, B, n + 1)
  <2>1. PICK j \in A : j <= n /\ ~ReleasedBy(B, j, n) BY <1>7, <1>10
  <2>2. n - below \in (n + 1) - r + 1..n + 1 BY <1>1, <1>10
  <2>3. ~ReleasedBy(B, j, n + 1) BY <1>2, <1>4, <1>10, <2>1, <2>2
  <2>4. OnAt(A, B, n + 1)
    <3>1. j <= n + 1 BY <2>1
    <3>. QED BY <2>3, <3>1 DEF OnAt
  <2>5. (n + 1) - (below + 1) = n - below OBVIOUS
  <2>6. \A k \in n - below + 1..n + 1 : k \in B
    <3>. TAKE k \in n - below + 1..n + 1
    <3>1. k = n + 1 \/ k \in n - below + 1..n OBVIOUS
    <3>. QED BY <1>2, <1>10, <3>1
  <2>. QED BY <1>1, <1>2, <1>10, <2>4, <2>5, <2>6 DEF LatchInv, r
<1>. QED BY <1>5, <1>6, <1>8, <1>9, <1>10 DEF r

-----------------------------------------------------------------------------
(* Breath. *)

BreathState ==
    [total_ring : [1..frame_samples -> Int], total : Int, hf_ring : [1..frame_samples -> Int],
     hf : Int, write : 1..frame_samples, filled : BOOLEAN, prev : Int, latched : BOOLEAN,
     below : Nat, out : Seq(Int)]

Entering(h) == {i \in FullFrames(h) : Enters(HighFrequency(h, i), Energy(h, i))}
Exiting(h) == {i \in FullFrames(h) : Exits(HighFrequency(h, i), Energy(h, i))}
IsOn(h, i) == OnAt(Entering(h), Exiting(h), i)

BreathInv(b, h, p) ==
    /\ b \in BreathState /\ h \in Seq(Int) /\ p \in Seq(Int) /\ Len(p) = Len(h)
    /\ Holds(b.total_ring, b.write, b.total, Squares(h), Len(h))
    /\ Holds(b.hf_ring, b.write, b.hf, Rises(h), Len(h))
    /\ Len(h) < frame_samples => b.write = Len(h) + 1
    /\ b.filled <=> Len(h) >= frame_samples
    /\ b.prev = SampleAt(h, Len(h))
    /\ LatchInv(b.latched, b.below, Entering(h), Exiting(h), Len(h))
    /\ \A i \in 1..Len(h) : p[i] = 1 <=> IsOn(h, i)

\* What enters does not exit, and what was heard enters or exits as before.
LEMMA EnteringIs ==
  ASSUME DetectorAssumption, NEW h \in Seq(Int), NEW x \in Int
  PROVE  /\ Entering(h) \in SUBSET Nat /\ Exiting(h) \in SUBSET Nat
         /\ Entering(h) \cap Exiting(h) = {}
         /\ \A k \in Nat : k <= Len(h) =>
              /\ k \in Entering(Append(h, x)) <=> k \in Entering(h)
              /\ k \in Exiting(Append(h, x)) <=> k \in Exiting(h)
<1>1. Len(h) \in Nat /\ Len(Append(h, x)) = Len(h) + 1 /\ frame_samples \in Nat
  BY AppendIs DEF DetectorAssumption
<1>2. FullFrames(h) \subseteq Nat BY <1>1 DEF FullFrames
<1>3. \A i \in FullFrames(h) : Energy(h, i) \in Int /\ HighFrequency(h, i) \in Int
  BY EnergyIs
<1>4. Entering(h) \cap Exiting(h) = {}
  <2>. SUFFICES ASSUME NEW i \in FullFrames(h), Enters(HighFrequency(h, i), Energy(h, i)),
                       Exits(HighFrequency(h, i), Energy(h, i))
                PROVE  FALSE
    BY DEF Entering, Exiting
  <2>. QED BY <1>3 DEF Enters, Exits
<1>5. ASSUME NEW k \in Nat, k <= Len(h)
      PROVE  /\ k \in Entering(Append(h, x)) <=> k \in Entering(h)
             /\ k \in Exiting(Append(h, x)) <=> k \in Exiting(h)
  <2>1. k \in FullFrames(Append(h, x)) <=> k \in FullFrames(h) BY <1>1, <1>5 DEF FullFrames
  <2>2. k \in FullFrames(h) =>
          /\ Energy(Append(h, x), k) = Energy(h, k)
          /\ HighFrequency(Append(h, x), k) = HighFrequency(h, k)
    BY EnergyStays
  <2>. QED BY <2>1, <2>2 DEF Entering, Exiting
<1>. QED BY <1>2, <1>4, <1>5 DEF Entering, Exiting

LEMMA OnStays ==
  ASSUME DetectorAssumption, NEW A \in SUBSET Nat, NEW B \in SUBSET Nat,
         NEW C \in SUBSET Nat, NEW D \in SUBSET Nat, NEW n \in Nat,
         \A k \in Nat : k <= n => (k \in C <=> k \in A) /\ (k \in D <=> k \in B)
  PROVE  \A i \in 0..n : OnAt(C, D, i) <=> OnAt(A, B, i)
<1>. DEFINE r == release_samples
<1>1. r \in Nat \ {0} BY ReleaseIs
<1>. HIDE DEF r
<1>2. ASSUME NEW i \in 0..n, NEW j \in Nat
      PROVE  ReleasedBy(D, j, i) <=> ReleasedBy(B, j, i)
  <2>1. \A k \in j + 1..i : k - j >= r => \A m \in k - r + 1..k : m \in D <=> m \in B
    <3>. SUFFICES ASSUME NEW k \in j + 1..i, k - j >= r, NEW m \in k - r + 1..k
                  PROVE  m \in D <=> m \in B
      OBVIOUS
    <3>1. m \in Nat /\ m <= n BY <1>1
    <3>. QED BY <3>1
  <2>. QED BY <2>1 DEF ReleasedBy, r
<1>3. ASSUME NEW i \in 0..n PROVE OnAt(C, D, i) <=> OnAt(A, B, i)
  <2>1. \A j \in Nat : j <= i => (j \in C <=> j \in A) OBVIOUS
  <2>. QED BY <1>2, <2>1 DEF OnAt
<1>. QED BY <1>3

LEMMA LatchStays ==
  ASSUME DetectorAssumption, NEW A \in SUBSET Nat, NEW B \in SUBSET Nat,
         NEW C \in SUBSET Nat, NEW D \in SUBSET Nat, NEW n \in Nat,
         \A k \in Nat : k <= n => (k \in C <=> k \in A) /\ (k \in D <=> k \in B),
         NEW latched \in BOOLEAN, NEW below \in Nat, LatchInv(latched, below, A, B, n)
  PROVE  LatchInv(latched, below, C, D, n)
<1>1. OnAt(C, D, n) <=> OnAt(A, B, n)
  <2>1. n \in 0..n OBVIOUS
  <2>. QED BY <2>1, OnStays
<1>2. n - below <= n /\ \A m \in n - below + 1..n : m <= n
  OBVIOUS
<1>3. release_samples \in Nat \ {0} BY ReleaseIs
<1>. QED BY <1>1, <1>2, <1>3 DEF LatchInv

\* A latch that turns, or stays, leaves the rest of the state alone.
Turned(b, s, below) ==
    /\ s \in BreathState /\ s.below = below
    /\ s.total_ring = b.total_ring /\ s.total = b.total /\ s.hf_ring = b.hf_ring
    /\ s.hf = b.hf /\ s.write = b.write /\ s.prev = b.prev /\ s.filled = b.filled
    /\ s.out = b.out

LEMMA LatchTurns ==
  ASSUME NEW b \in BreathState, NEW below \in Nat
  PROVE  /\ Turned(b, [b EXCEPT !.latched = TRUE, !.below = below], below)
         /\ [b EXCEPT !.latched = TRUE, !.below = below].latched = TRUE
         /\ Turned(b, [b EXCEPT !.latched = FALSE, !.below = below], below)
         /\ ~[b EXCEPT !.latched = FALSE, !.below = below].latched
<1>1. ASSUME NEW latched \in BOOLEAN
      PROVE  LET s == [b EXCEPT !.latched = latched, !.below = below]
             IN Turned(b, s, below) /\ s.latched = latched
  <2>. DEFINE t == [b EXCEPT !.latched = latched]
              s == [b EXCEPT !.latched = latched, !.below = below]
  <2>1. t \in BreathState /\ \A u \in BreathState : [u EXCEPT !.below = below] \in BreathState
    BY DEF BreathState
  <2>2. s \in BreathState BY <2>1
  <2>. QED BY <2>2 DEF BreathState, Turned
<1>. QED BY <1>1

LEMMA HearBreathIs ==
  ASSUME DetectorAssumption, NEW b \in BreathState, NEW x \in Int, Advance(b.write) \in 1..frame_samples
  PROVE  LET rise == (x - b.prev) * (x - b.prev)
             total == b.total + x * x - b.total_ring[b.write]
             hf == b.hf + rise - b.hf_ring[b.write]
             filled == b.filled \/ Advance(b.write) = 1
             over == Exits(hf, total) /\ b.below + 1 >= min_release
             m == HearBreath(b, x)
         IN /\ m \in BreathState
            /\ m.total_ring = [b.total_ring EXCEPT ![b.write] = x * x] /\ m.total = total
            /\ m.hf_ring = [b.hf_ring EXCEPT ![b.write] = rise] /\ m.hf = hf
            /\ m.write = Advance(b.write) /\ m.prev = x
            /\ m.filled <=> filled
            /\ m.latched <=> IF ~filled THEN b.latched
                             ELSE IF b.latched THEN ~over ELSE Enters(hf, total)
            /\ m.below = IF ~filled \/ (~b.latched /\ ~Enters(hf, total)) THEN b.below
                         ELSE IF ~b.latched \/ ~Exits(hf, total) \/ over THEN 0 ELSE b.below + 1
            /\ m.out = Append(b.out, IF filled /\ m.latched THEN 1 ELSE 0)
<1>. DEFINE square == x * x
            rise == (x - b.prev) * (x - b.prev)
            total == b.total + square - b.total_ring[b.write]
            hf == b.hf + rise - b.hf_ring[b.write]
            write == Advance(b.write)
            filled == b.filled \/ write = 1
            enters == Enters(hf, total)
            exits == Exits(hf, total)
            over == exits /\ b.below + 1 >= min_release
            moved == [b EXCEPT !.total_ring[b.write] = square, !.total = total,
                               !.hf_ring[b.write] = rise, !.hf = hf,
                               !.prev = x, !.write = write, !.filled = filled]
            latch == IF moved.filled THEN Latch(moved) ELSE moved
            m == HearBreath(b, x)
<1>1. /\ b.total_ring \in [1..frame_samples -> Int] /\ b.hf_ring \in [1..frame_samples -> Int]
      /\ b.write \in 1..frame_samples /\ b.total \in Int /\ b.hf \in Int /\ b.filled \in BOOLEAN
      /\ b.prev \in Int /\ b.latched \in BOOLEAN /\ b.below \in Nat /\ b.out \in Seq(Int)
  BY DEF BreathState
<1>2. square \in Int /\ rise \in Int
  <2>1. \A a, c \in Int : (a - c) * (a - c) \in Int /\ a * a \in Int OBVIOUS
  <2>. QED BY <1>1, <2>1
<1>3. m = [latch EXCEPT !.out = Append(@, IF moved.filled /\ latch.latched THEN 1 ELSE 0)]
  BY DEF HearBreath
<1>. HIDE DEF square, rise, m
<1>4. total \in Int /\ hf \in Int /\ write \in 1..frame_samples
  <2>1. b.total_ring[b.write] \in Int /\ b.hf_ring[b.write] \in Int BY <1>1
  <2>2. \A a, c, d \in Int : a + c - d \in Int OBVIOUS
  <2>3. total \in Int /\ hf \in Int BY <1>1, <1>2, <2>1, <2>2
  <2>4. write \in 1..frame_samples OBVIOUS
  <2>. QED BY <2>3, <2>4
<1>5. /\ [b.total_ring EXCEPT ![b.write] = square] \in [1..frame_samples -> Int]
      /\ [b.hf_ring EXCEPT ![b.write] = rise] \in [1..frame_samples -> Int]
  BY <1>1, <1>2
<1>6. filled \in BOOLEAN BY <1>1
<1>. HIDE DEF total, hf, write, filled
<1>7. /\ moved \in BreathState
      /\ moved.total_ring = [b.total_ring EXCEPT ![b.write] = square] /\ moved.total = total
      /\ moved.hf_ring = [b.hf_ring EXCEPT ![b.write] = rise] /\ moved.hf = hf
      /\ moved.write = write /\ moved.prev = x /\ moved.filled = filled
      /\ moved.latched = b.latched /\ moved.below = b.below /\ moved.out = b.out
  BY <1>1, <1>4, <1>5, <1>6 DEF BreathState
<1>. HIDE DEF moved
<1>8. Latch(moved) =
        IF ~moved.latched
        THEN IF enters THEN [moved EXCEPT !.latched = TRUE, !.below = 0] ELSE moved
        ELSE IF ~exits THEN [moved EXCEPT !.below = 0]
        ELSE IF moved.below + 1 >= min_release THEN [moved EXCEPT !.latched = FALSE, !.below = 0]
        ELSE [moved EXCEPT !.below = @ + 1]
  BY <1>7 DEF Latch
<1>. HIDE DEF enters, exits
<1>. DEFINE Keeps(s, latched, below) ==
              /\ s \in BreathState /\ (s.latched <=> latched) /\ s.below = below
              /\ s.total_ring = moved.total_ring /\ s.total = total
              /\ s.hf_ring = moved.hf_ring /\ s.hf = hf
              /\ s.write = write /\ s.prev = x /\ s.filled = filled /\ s.out = b.out
            latched == IF ~filled THEN b.latched ELSE IF b.latched THEN ~over ELSE enters
            below == IF ~filled \/ (~b.latched /\ ~enters) THEN b.below
                     ELSE IF ~b.latched \/ ~exits \/ over THEN 0 ELSE b.below + 1
<1>9. Keeps(latch, latched, below)
  <2>1. CASE ~filled BY <1>7, <2>1
  <2>2. CASE filled /\ ~b.latched /\ enters
    <3>1. latch = [moved EXCEPT !.latched = TRUE, !.below = 0] BY <1>7, <1>8, <2>2
    <3>2. Turned(moved, latch, 0) /\ latch.latched = TRUE
      <4>. HIDE DEF latch
      <4>. QED BY <1>7, <3>1, LatchTurns
    <3>3. Keeps(latch, TRUE, 0) BY <1>7, <3>2 DEF Turned
    <3>. QED BY <2>2, <3>3
  <2>3. CASE filled /\ ~b.latched /\ ~enters
    <3>1. latch = moved BY <1>7, <1>8, <2>3
    <3>. QED BY <1>7, <2>3, <3>1
  <2>4. CASE filled /\ b.latched /\ ~exits
    <3>1. latch = [moved EXCEPT !.latched = TRUE, !.below = 0]
      <4>1. latch = [moved EXCEPT !.below = 0] BY <1>7, <1>8, <2>4
      <4>. QED BY <1>7, <2>4, <4>1 DEF BreathState
    <3>2. Turned(moved, latch, 0) /\ latch.latched = TRUE
      <4>. HIDE DEF latch
      <4>. QED BY <1>7, <3>1, LatchTurns
    <3>3. Keeps(latch, TRUE, 0) BY <1>7, <3>2 DEF Turned
    <3>. QED BY <2>4, <3>3
  <2>5. CASE filled /\ b.latched /\ over
    <3>1. latch = [moved EXCEPT !.latched = FALSE, !.below = 0] BY <1>7, <1>8, <2>5
    <3>2. Turned(moved, latch, 0) /\ ~latch.latched BY <1>7, <3>1, LatchTurns
    <3>3. Keeps(latch, FALSE, 0) BY <1>7, <3>2 DEF Turned
    <3>. QED BY <2>5, <3>3
  <2>6. CASE filled /\ b.latched /\ exits /\ ~over
    <3>1. latch = [moved EXCEPT !.latched = TRUE, !.below = b.below + 1]
      <4>1. latch = [moved EXCEPT !.below = @ + 1] BY <1>7, <1>8, <2>6
      <4>. QED BY <1>7, <2>6, <4>1 DEF BreathState
    <3>2. b.below + 1 \in Nat BY <1>1
    <3>3. Turned(moved, latch, b.below + 1) /\ latch.latched = TRUE
      <4>. HIDE DEF latch
      <4>. QED BY <1>7, <3>1, <3>2, LatchTurns
    <3>4. Keeps(latch, TRUE, b.below + 1) BY <1>7, <3>3 DEF Turned
    <3>. QED BY <2>6, <3>4
  <2>. QED BY <2>1, <2>2, <2>3, <2>4, <2>5, <2>6
<1>. HIDE DEF latch, latched, below
<1>. DEFINE y == IF filled /\ latch.latched THEN 1 ELSE 0
<1>10. m = [latch EXCEPT !.out = Append(@, y)] BY <1>3, <1>7
<1>11. Append(b.out, y) \in Seq(Int)
  <2>1. y \in Int OBVIOUS
  <2>. QED BY <1>1, <2>1, AppendIs
<1>12. Keeps([m EXCEPT !.out = b.out], latched, below) /\ m \in BreathState
       /\ m.latched = latch.latched /\ m.out = Append(b.out, y)
       /\ m.below = latch.below /\ m.total_ring = latch.total_ring /\ m.total = latch.total
       /\ m.hf_ring = latch.hf_ring /\ m.hf = latch.hf /\ m.write = latch.write
       /\ m.prev = latch.prev /\ m.filled = latch.filled
  BY <1>1, <1>9, <1>10, <1>11 DEF BreathState
<1>13. m.out = Append(b.out, IF filled /\ m.latched THEN 1 ELSE 0) BY <1>12
<1>. QED
  BY <1>7, <1>9, <1>12, <1>13
  DEF square, rise, total, hf, write, filled, enters, exits, latched, below, m

LEMMA BreathMoves ==
  ASSUME DetectorAssumption, NEW b, NEW h, NEW p, BreathInv(b, h, p), NEW x \in Int
  PROVE  \E y \in Int : /\ HearBreath(b, x).out = Append(b.out, y)
                        /\ BreathInv(HearBreath(b, x), Append(h, x), Append(p, y))
<1>. DEFINE n == Len(h)
            w == frame_samples
            l == Append(h, x)
            square == x * x
            rise == (x - b.prev) * (x - b.prev)
            total == b.total + square - b.total_ring[b.write]
            hf == b.hf + rise - b.hf_ring[b.write]
            filled == b.filled \/ Advance(b.write) = 1
            over == Exits(hf, total) /\ b.below + 1 >= min_release
            m == HearBreath(b, x)
            y == IF filled /\ m.latched THEN 1 ELSE 0
            q == Append(p, y)
<1>1. /\ b \in BreathState /\ h \in Seq(Int) /\ p \in Seq(Int) /\ Len(p) = n /\ n \in Nat
      /\ w \in Nat \ {0} /\ y \in Int
  BY LenProperties DEF BreathInv, DetectorAssumption
<1>2. /\ b.write \in 1..w /\ b.latched \in BOOLEAN /\ b.filled \in BOOLEAN /\ b.below \in Nat
  BY <1>1 DEF BreathState
<1>3. Advance(b.write) = IF b.write = w THEN 1 ELSE b.write + 1 BY <1>2, AdvanceIs
<1>4. Advance(b.write) \in 1..w BY <1>1, <1>2, <1>3
<1>5. /\ m \in BreathState
      /\ m.total_ring = [b.total_ring EXCEPT ![b.write] = square] /\ m.total = total
      /\ m.hf_ring = [b.hf_ring EXCEPT ![b.write] = rise] /\ m.hf = hf
      /\ m.write = Advance(b.write) /\ m.prev = x
      /\ m.filled <=> filled
      /\ m.latched <=> IF ~filled THEN b.latched
                       ELSE IF b.latched THEN ~over ELSE Enters(hf, total)
      /\ m.below = IF ~filled \/ (~b.latched /\ ~Enters(hf, total)) THEN b.below
                   ELSE IF ~b.latched \/ ~Exits(hf, total) \/ over THEN 0 ELSE b.below + 1
      /\ m.out = Append(b.out, y)
  BY <1>1, <1>4, HearBreathIs
<1>6. /\ l \in Seq(Int) /\ Len(l) = n + 1 /\ l[n + 1] = x
  BY <1>1, AppendIs
<1>7. b.prev = SampleAt(h, n) BY DEF BreathInv
<1>8. /\ Squares(h) \in [Int -> Int] /\ Squares(l) \in [Int -> Int]
      /\ Rises(h) \in [Int -> Int] /\ Rises(l) \in [Int -> Int]
      /\ \A k \in Int : k <= n => Squares(l)[k] = Squares(h)[k] /\ Rises(l)[k] = Rises(h)[k]
      /\ Squares(l)[n + 1] = square /\ Rises(l)[n + 1] = rise
  <2>1. h \in Seq(Int) /\ x \in Int BY <1>1
  <2>2. /\ Squares(h) \in [Int -> Int] /\ Rises(h) \in [Int -> Int]
        /\ \A k \in Int : k <= n => Squares(l)[k] = Squares(h)[k] /\ Rises(l)[k] = Rises(h)[k]
        /\ Squares(l)[n + 1] = square
        /\ Rises(l)[n + 1] = (x - SampleAt(h, n)) * (x - SampleAt(h, n))
    BY <2>1, TermsAre
  <2>3. Rises(l)[n + 1] = rise BY <1>7, <2>2
  <2>4. Squares(l) \in [Int -> Int] /\ Rises(l) \in [Int -> Int] BY <1>6, <2>1, TermsAre
  <2>. QED BY <2>2, <2>3, <2>4
<1>9. /\ q \in Seq(Int) /\ Len(q) = n + 1 /\ q[n + 1] = y
      /\ \A j \in 1..n : q[j] = p[j]
  BY <1>1, AppendIs
<1>10. /\ Holds(b.total_ring, b.write, b.total, Squares(h), n)
       /\ Holds(b.hf_ring, b.write, b.hf, Rises(h), n)
  BY DEF BreathInv
<1>. HIDE DEF square, rise
<1>11. /\ Holds(m.total_ring, m.write, m.total, Squares(l), n + 1)
       /\ Holds(m.hf_ring, m.write, m.hf, Rises(l), n + 1)
  <2>1. Holds([b.total_ring EXCEPT ![b.write] = Squares(l)[n + 1]], Advance(b.write),
              b.total + Squares(l)[n + 1] - b.total_ring[b.write], Squares(l), n + 1)
    BY <1>1, <1>8, <1>10, SumMoves
  <2>2. Holds([b.hf_ring EXCEPT ![b.write] = Rises(l)[n + 1]], Advance(b.write),
              b.hf + Rises(l)[n + 1] - b.hf_ring[b.write], Rises(l), n + 1)
    BY <1>1, <1>8, <1>10, SumMoves
  <2>. QED BY <1>5, <1>8, <2>1, <2>2
<1>12. filled <=> n + 1 >= w
  BY <1>1, <1>2, <1>3 DEF BreathInv
<1>13. n + 1 < w => m.write = (n + 1) + 1
  BY <1>1, <1>2, <1>3, <1>5 DEF BreathInv
<1>. DEFINE A == Entering(l)
            B == Exiting(l)
<1>14. /\ A \in SUBSET Nat /\ B \in SUBSET Nat /\ A \cap B = {}
       /\ Entering(h) \in SUBSET Nat /\ Exiting(h) \in SUBSET Nat
       /\ \A k \in Nat : k <= n => (k \in A <=> k \in Entering(h)) /\ (k \in B <=> k \in Exiting(h))
  BY <1>1, <1>6, EnteringIs
<1>15. filled => (n + 1 \in A <=> Enters(hf, total)) /\ (n + 1 \in B <=> Exits(hf, total))
  <2>. SUFFICES ASSUME filled
                PROVE  (n + 1 \in A <=> Enters(hf, total)) /\ (n + 1 \in B <=> Exits(hf, total))
    OBVIOUS
  <2>1. n + 1 \in FullFrames(l) BY <1>1, <1>6, <1>12 DEF FullFrames
  <2>2. Energy(l, n + 1) = total /\ HighFrequency(l, n + 1) = hf
    BY <1>5, <1>6, <1>11, <2>1, EnergyIs DEF Holds
  <2>. QED BY <2>1, <2>2 DEF Entering, Exiting
<1>16. ~filled => ~b.latched /\ n + 1 \notin A
  <2>. SUFFICES ASSUME ~filled PROVE ~b.latched /\ n + 1 \notin A
    OBVIOUS
  <2>1. FullFrames(h) = {} /\ n + 1 \notin FullFrames(l) BY <1>1, <1>6, <1>12 DEF FullFrames
  <2>2. Entering(h) = {} /\ n + 1 \notin A BY <2>1 DEF Entering
  <2>3. b.latched <=> OnAt(Entering(h), Exiting(h), n) BY DEF BreathInv, LatchInv
  <2>. QED BY <2>2, <2>3 DEF OnAt
<1>17. LatchInv(b.latched, b.below, A, B, n)
  <2>1. LatchInv(b.latched, b.below, Entering(h), Exiting(h), n) BY DEF BreathInv
  <2>. HIDE DEF A, B, n, w, hf, total, filled, m, l, q, y
  <2>2. n \in Nat /\ b.latched \in BOOLEAN /\ b.below \in Nat BY <1>1, <1>2
  <2>3. /\ A \in SUBSET Nat /\ B \in SUBSET Nat
        /\ Entering(h) \in SUBSET Nat /\ Exiting(h) \in SUBSET Nat
        /\ \A k \in Nat : k <= n => (k \in A <=> k \in Entering(h)) /\ (k \in B <=> k \in Exiting(h))
    BY <1>14
  <2>. QED BY <2>1, <2>2, <2>3, LatchStays
<1>. HIDE DEF A, B, n, w, hf, total, filled, m, l, q
<1>18. /\ ~b.latched /\ n + 1 \in A => LatchInv(TRUE, 0, A, B, n + 1)
       /\ ~b.latched /\ n + 1 \notin A => LatchInv(FALSE, b.below, A, B, n + 1)
       /\ b.latched /\ n + 1 \notin B => LatchInv(TRUE, 0, A, B, n + 1)
       /\ b.latched /\ n + 1 \in B /\ b.below + 1 >= release_samples
            => LatchInv(FALSE, 0, A, B, n + 1)
       /\ b.latched /\ n + 1 \in B /\ b.below + 1 < release_samples
            => LatchInv(TRUE, b.below + 1, A, B, n + 1)
  BY <1>1, <1>2, <1>14, <1>17, LatchMoves
<1>19. /\ b.below + 1 >= min_release <=> b.below + 1 >= release_samples
       /\ ~ (b.below + 1 >= release_samples) <=> b.below + 1 < release_samples
  BY <1>2, ReleaseIs
<1>20. LatchInv(m.latched, m.below, A, B, n + 1)
  <2>0. m.latched \in BOOLEAN BY <1>5 DEF BreathState
  <2>1. CASE ~filled
    <3>1. m.latched = FALSE /\ m.below = b.below BY <1>5, <1>16, <2>0, <2>1
    <3>. QED BY <1>16, <1>18, <2>1, <3>1
  <2>2. CASE filled /\ ~b.latched /\ Enters(hf, total)
    <3>1. m.latched = TRUE /\ m.below = 0 BY <1>5, <2>0, <2>2
    <3>. QED BY <1>15, <1>18, <2>2, <3>1
  <2>3. CASE filled /\ ~b.latched /\ ~Enters(hf, total)
    <3>1. m.latched = FALSE /\ m.below = b.below BY <1>5, <2>0, <2>3
    <3>. QED BY <1>15, <1>18, <2>3, <3>1
  <2>4. CASE filled /\ b.latched /\ ~Exits(hf, total)
    <3>1. m.latched = TRUE /\ m.below = 0 BY <1>5, <2>0, <2>4
    <3>. QED BY <1>15, <1>18, <2>4, <3>1
  <2>5. CASE filled /\ b.latched /\ over
    <3>1. m.latched = FALSE /\ m.below = 0 BY <1>5, <2>0, <2>5
    <3>. QED BY <1>15, <1>18, <1>19, <2>5, <3>1
  <2>6. CASE filled /\ b.latched /\ Exits(hf, total) /\ ~over
    <3>1. m.latched = TRUE /\ m.below = b.below + 1 BY <1>5, <2>0, <2>6
    <3>. QED BY <1>15, <1>18, <1>19, <2>6, <3>1
  <2>. QED BY <2>1, <2>2, <2>3, <2>4, <2>5, <2>6
<1>21. y = 1 <=> OnAt(A, B, n + 1)
  <2>1. m.latched <=> OnAt(A, B, n + 1) BY <1>20 DEF LatchInv
  <2>2. ~filled => ~m.latched BY <1>5, <1>16
  <2>. QED BY <2>1, <2>2
<1>. HIDE DEF y
<1>22. \A i \in 1..n + 1 : q[i] = 1 <=> OnAt(A, B, i)
  <2>. TAKE i \in 1..n + 1
  <2>1. CASE i = n + 1 BY <1>9, <1>21, <2>1
  <2>2. CASE i \in 1..n
    <3>1. p[i] = 1 <=> OnAt(Entering(h), Exiting(h), i) BY <2>2 DEF BreathInv, IsOn, n
    <3>2. OnAt(A, B, i) <=> OnAt(Entering(h), Exiting(h), i)
      <4>1. i \in 0..n BY <2>2
      <4>. QED BY <1>1, <1>14, <4>1, OnStays
    <3>. QED BY <1>9, <2>2, <3>1, <3>2
  <2>. QED BY <1>1, <2>1, <2>2
<1>23. SampleAt(l, n + 1) = x BY <1>1, <1>6 DEF SampleAt
<1>24. BreathInv(m, l, q)
  BY <1>5, <1>6, <1>9, <1>11, <1>12, <1>13, <1>20, <1>22, <1>23 DEF BreathInv, IsOn, A, B, w
<1>. QED BY <1>1, <1>5, <1>24 DEF m, l, q

-----------------------------------------------------------------------------
(* PitchYin and Vibrato. *)

HeldState ==
    [ring : [0..window_samples - 1 -> Int], write : 0..window_samples - 1, since : Nat,
     total : Nat, estimate : Seq(Int)]

Past(h) == [k \in Int |-> IF k \in 1..Len(h) THEN h[k] ELSE 0]
\* Where a ring is read, j samples from its oldest.
Turn(p, j) == (p + j - 1) % window_samples
HoldsPast(ring, write, f, n) ==
    \A j \in 1..window_samples : ring[Turn(write, j)] = f[n - window_samples + j]
Estimated(h, n) ==
    IF n < first_due THEN NoEstimate
    ELSE SubSeq(h, LastDue(n) - window_samples + 1, LastDue(n))

Filled(n) == IF n < window_samples THEN n ELSE window_samples
SinceDue(n) == IF n < first_due THEN n ELSE (n - first_due) % hop_samples

HeldInv(s, h) ==
    /\ s \in HeldState /\ h \in Seq(Int)
    /\ HoldsPast(s.ring, s.write, Past(h), Len(h))
    /\ s.total = Filled(Len(h))
    /\ s.since = SinceDue(Len(h))
    /\ s.estimate = Estimated(h, Len(h))

LEMMA TurnIs ==
  ASSUME DetectorAssumption, NEW write \in 0..window_samples - 1, NEW j \in 1..window_samples
  PROVE  /\ (write + j - 1) % window_samples =
              IF write + j - 1 < window_samples THEN write + j - 1
              ELSE write + j - 1 - window_samples
         /\ (write + 1) % window_samples = IF write + 1 < window_samples THEN write + 1 ELSE 0
         /\ (write + 1) % window_samples \in 0..window_samples - 1
<1>. DEFINE w == window_samples
            a == write + j - 1
            c == write + 1
<1>1. w \in Nat \ {0} /\ write \in 0..w - 1 /\ j \in 1..w BY DEF DetectorAssumption
<1>. HIDE DEF w
<1>2. a \in Nat /\ a < 2 * w /\ c \in Nat /\ c < 2 * w /\ c <= w BY <1>1
<1>. HIDE DEF a, c
<1>3. a % w = IF a < w THEN a ELSE a - w BY <1>1, <1>2, SmallRemainder
<1>4. c % w = IF c < w THEN c ELSE c - w BY <1>1, <1>2, SmallRemainder
<1>5. c % w = IF c < w THEN c ELSE 0 BY <1>1, <1>2, <1>4
<1>6. c % w \in 0..w - 1 BY <1>1, <1>2, <1>5
<1>. QED BY <1>3, <1>5, <1>6 DEF w, a, c

LEMMA TurnMoves ==
  ASSUME DetectorAssumption, NEW p \in 0..window_samples - 1, NEW j \in 1..window_samples
  PROVE  LET q == (p + 1) % window_samples
         IN /\ q \in 0..window_samples - 1
            /\ j < window_samples => /\ Turn(q, j) = Turn(p, j + 1) /\ Turn(q, j) # p
                                     /\ Turn(q, j) \in 0..window_samples - 1
            /\ ~ (j < window_samples) => Turn(q, j) = p
<1>. DEFINE w == window_samples
            q == (p + 1) % w
            At(c, i) == IF c + i - 1 < w THEN c + i - 1 ELSE c + i - 1 - w
<1>1. w \in Nat \ {0} /\ p \in 0..w - 1 /\ j \in 1..w BY DEF DetectorAssumption
<1>2. \A c \in 0..w - 1, i \in 1..w : Turn(c, i) = At(c, i) BY TurnIs DEF Turn
<1>3. q = (IF p + 1 < w THEN p + 1 ELSE 0) /\ q \in 0..w - 1 BY TurnIs
<1>. HIDE DEF w, q
<1>4. CASE j < w /\ p + 1 < w
  <2>1. q + j - 1 = p + j /\ p + (j + 1) - 1 = p + j /\ j + 1 \in 1..w BY <1>1, <1>3, <1>4
  <2>2. Turn(q, j) = IF p + j < w THEN p + j ELSE p + j - w BY <1>1, <1>2, <1>3, <2>1
  <2>3. Turn(p, j + 1) = IF p + j < w THEN p + j ELSE p + j - w BY <1>1, <1>2, <2>1
  <2>. QED BY <1>1, <1>3, <1>4, <2>2, <2>3 DEF w, q
<1>5. CASE j < w /\ ~ (p + 1 < w)
  <2>1. q + j - 1 = j - 1 /\ p + (j + 1) - 1 - w = j - 1 /\ j + 1 \in 1..w /\ j - 1 < w
        /\ ~ (p + (j + 1) - 1 < w)
    BY <1>1, <1>3, <1>5
  <2>2. Turn(q, j) = j - 1 BY <1>1, <1>2, <1>3, <2>1
  <2>3. Turn(p, j + 1) = j - 1 BY <1>1, <1>2, <2>1
  <2>4. j - 1 # p /\ j - 1 \in 0..w - 1 BY <1>1, <1>5
  <2>. QED BY <1>3, <1>5, <2>2, <2>3, <2>4 DEF w, q
<1>6. CASE ~ (j < w)
  <2>1. q + j - 1 = IF p + 1 < w THEN p + w ELSE p BY <1>1, <1>3, <1>6
  <2>2. Turn(q, j) = p BY <1>1, <1>2, <1>3, <2>1
  <2>. QED BY <1>3, <1>6, <2>2 DEF w, q
<1>. QED BY <1>4, <1>5, <1>6

LEMMA PastMoves ==
  ASSUME DetectorAssumption, NEW n \in Nat, NEW f \in [Int -> Int], NEW g \in [Int -> Int],
         \A k \in Int : k <= n => g[k] = f[k],
         NEW ring \in [0..window_samples - 1 -> Int], NEW write \in 0..window_samples - 1,
         HoldsPast(ring, write, f, n)
  PROVE  HoldsPast([ring EXCEPT ![write] = g[n + 1]], (write + 1) % window_samples, g, n + 1)
<1>. DEFINE w == window_samples
            next == (write + 1) % w
            moved == [ring EXCEPT ![write] = g[n + 1]]
<1>1. w \in Nat \ {0} BY DEF DetectorAssumption
<1>2. /\ moved \in [0..w - 1 -> Int] /\ moved[write] = g[n + 1]
      /\ \A k \in 0..w - 1 : k # write => moved[k] = ring[k]
  <2>1. g[n + 1] \in Int OBVIOUS
  <2>. QED BY <2>1
<1>3. \A j \in 1..w : ring[Turn(write, j)] = f[n - w + j] BY DEF HoldsPast
<1>4. \A j \in 1..w :
        /\ j < w => /\ Turn(next, j) = Turn(write, j + 1) /\ Turn(next, j) # write
                    /\ Turn(next, j) \in 0..w - 1
        /\ ~ (j < w) => Turn(next, j) = write
  BY TurnMoves
<1>. HIDE DEF moved, next, w
<1>5. ASSUME NEW j \in 1..w PROVE moved[Turn(next, j)] = g[(n + 1) - w + j]
  <2>1. CASE j < w
    <3>1. j + 1 \in 1..w /\ n - w + (j + 1) \in Int /\ n - w + (j + 1) <= n
          /\ (n + 1) - w + j = n - w + (j + 1)
      BY <1>1, <2>1
    <3>2. moved[Turn(next, j)] = ring[Turn(write, j + 1)] BY <1>2, <1>4, <2>1
    <3>3. ring[Turn(write, j + 1)] = f[n - w + (j + 1)] BY <1>3, <3>1
    <3>. QED BY <3>1, <3>2, <3>3
  <2>2. CASE ~ (j < w)
    <3>1. (n + 1) - w + j = n + 1 BY <1>1, <2>2
    <3>2. Turn(next, j) = write BY <1>4, <2>2
    <3>. QED BY <1>2, <3>1, <3>2
  <2>. QED BY <2>1, <2>2
<1>6. HoldsPast(moved, next, g, n + 1) BY <1>5 DEF HoldsPast, w
<1>. QED BY <1>6 DEF next, moved, w

LEMMA HearHeldIs ==
  ASSUME DetectorAssumption, NEW s \in HeldState, NEW x \in Int
  PROVE  LET ring == [s.ring EXCEPT ![s.write] = x]
             write == (s.write + 1) % window_samples
             total == Saturated(s.total, window_samples)
             due == s.since + 1 >= hop_samples /\ total >= window_samples
             m == HearHeld(s, x)
         IN /\ m \in HeldState
            /\ m.ring = ring /\ m.write = write /\ m.total = total
            /\ m.since = IF due THEN 0 ELSE s.since + 1
            /\ m.estimate =
                 IF due THEN [j \in 1..window_samples |-> ring[(write + j - 1) % window_samples]]
                 ELSE s.estimate
<1>. DEFINE w == window_samples
            ring == [s.ring EXCEPT ![s.write] = x]
            write == (s.write + 1) % w
            total == Saturated(s.total, w)
            since == s.since + 1
            moved == [s EXCEPT !.ring[s.write] = x, !.write = write, !.since = since,
                               !.total = total]
            window == [j \in 1..w |-> ring[(write + j - 1) % w]]
            due == since >= hop_samples /\ total >= w
            m == HearHeld(s, x)
<1>1. /\ s.ring \in [0..w - 1 -> Int] /\ s.write \in 0..w - 1 /\ s.since \in Nat
      /\ s.total \in Nat /\ s.estimate \in Seq(Int) /\ w \in Nat \ {0}
  BY DEF HeldState, DetectorAssumption
<1>2. ring \in [0..w - 1 -> Int] BY <1>1
<1>3. write \in 0..w - 1
  <2>1. 1 \in 1..w BY <1>1
  <2>. QED BY <1>1, <2>1, TurnIs
<1>4. total \in Nat /\ since \in Nat BY <1>1 DEF Saturated
<1>5. window \in Seq(Int)
  <2>. HIDE DEF ring, write
  <2>1. \A j \in 1..w : (write + j - 1) % w \in 0..w - 1 BY <1>1, <1>3
  <2>2. window \in [1..w -> Int] BY <1>2, <2>1
  <2>. HIDE DEF window
  <2>. QED BY <1>1, <2>2
<1>6. m = IF Due(moved) THEN [moved EXCEPT !.since = 0, !.estimate = Analyse(moved)] ELSE moved
  BY DEF HearHeld
<1>. HIDE DEF total, write, since
<1>7. moved \in HeldState /\ moved.ring = ring /\ moved.write = write /\ moved.total = total
      /\ moved.since = since /\ moved.estimate = s.estimate
  BY <1>1, <1>2, <1>3, <1>4 DEF HeldState
<1>. HIDE DEF ring, moved
<1>8. (Due(moved) <=> due) /\ Analyse(moved) = window BY <1>7 DEF Due, Analyse
<1>. HIDE DEF window, m
<1>9. CASE due
  <2>1. m = [moved EXCEPT !.since = 0, !.estimate = window] BY <1>6, <1>8, <1>9
  <2>2. m \in HeldState /\ m.ring = ring /\ m.write = write /\ m.total = total
        /\ m.since = 0 /\ m.estimate = window
    BY <1>5, <1>7, <2>1 DEF HeldState
  <2>. QED BY <1>9, <2>2 DEF m, window, ring, write, total, since
<1>10. CASE ~due
  <2>1. m = moved BY <1>6, <1>8, <1>10
  <2>. QED BY <1>7, <1>10, <2>1 DEF m, ring, write, total, since
<1>. QED BY <1>9, <1>10

LEMMA LastOfIs ==
  ASSUME NEW h \in Seq(Int), NEW w \in Nat \ {0}, NEW e \in w..Len(h)
  PROVE  SubSeq(h, e - w + 1, e) = [j \in 1..w |-> h[e - w + j]]
<1>1. Len(h) \in Nat BY LenProperties
<1>2. 1 <= e - w + 1 /\ e - w + 1 \in Nat /\ e \in Nat /\ e <= Len(h) BY <1>1
<1>3. SubSeq(h, e - w + 1, e) = [i \in 1..e - (e - w + 1) + 1 |-> h[i + (e - w + 1) - 1]]
  OBVIOUS
<1>4. e - (e - w + 1) + 1 = w /\ \A i \in 1..w : i + (e - w + 1) - 1 = e - w + i
  BY <1>2
<1>. QED BY <1>3, <1>4

\* The last hop that was due, straight from the samples since.
LEMMA LastDueIs ==
  ASSUME DetectorAssumption, NEW n \in Nat, n >= first_due
  PROVE  /\ LastDue(n) = n - ((n - first_due) % hop_samples)
         /\ LastDue(n) \in first_due..n
         /\ (n - first_due) % hop_samples \in 0..hop_samples - 1
<1>. DEFINE a == n - first_due
            q == a \div hop_samples
            r == a % hop_samples
<1>1. /\ first_due \in Nat /\ hop_samples \in Nat \ {0} /\ a \in Nat
  BY DEF DetectorAssumption, first_due
<1>2. a = hop_samples * q + r /\ q \in Nat /\ r \in 0..hop_samples - 1 BY <1>1
<1>3. LastDue(n) = first_due + hop_samples * q BY DEF LastDue
<1>. HIDE DEF q, r
<1>4. hop_samples * q \in Nat BY <1>1, <1>2
<1>5. LastDue(n) = n - r /\ LastDue(n) >= first_due
  <2>. DEFINE z == hop_samples * q
  <2>. HIDE DEF z
  <2>1. z \in Nat /\ n - first_due = z + r /\ LastDue(n) = first_due + z
    BY <1>2, <1>3, <1>4 DEF z
  <2>. QED BY <1>1, <1>2, <2>1
<1>. QED BY <1>1, <1>2, <1>5 DEF r

LEMMA EstimatedStays ==
  ASSUME DetectorAssumption, NEW h \in Seq(Int), NEW x \in Int, NEW n \in Nat, n <= Len(h)
  PROVE  Estimated(Append(h, x), n) = Estimated(h, n) /\ Estimated(h, n) \in Seq(Int)
<1>. DEFINE l == Append(h, x)
            e == LastDue(n)
            w == window_samples
<1>1. /\ l \in Seq(Int) /\ Len(l) = Len(h) + 1 /\ Len(h) \in Nat
      /\ \A i \in 1..Len(h) : l[i] = h[i] /\ h[i] \in Int
  BY AppendIs
<1>2. w \in Nat \ {0} /\ hop_samples \in Nat BY DEF DetectorAssumption
<1>3. CASE n < first_due BY <1>3 DEF Estimated, NoEstimate
<1>4. CASE ~ (n < first_due)
  <2>0. first_due \in Nat /\ first_due >= w BY <1>2 DEF first_due
  <2>1. e \in first_due..n BY <1>4, <2>0, LastDueIs
  <2>2. e \in w..Len(h) /\ e \in w..Len(l) BY <1>1, <1>2, <2>0, <2>1
  <2>. HIDE DEF l, e, w
  <2>3. /\ SubSeq(h, e - w + 1, e) = [j \in 1..w |-> h[e - w + j]]
        /\ SubSeq(l, e - w + 1, e) = [j \in 1..w |-> l[e - w + j]]
    BY <1>1, <1>2, <2>2, LastOfIs
  <2>4. \A j \in 1..w : e - w + j \in 1..Len(h) BY <1>1, <1>2, <2>2
  <2>5. SubSeq(l, e - w + 1, e) = SubSeq(h, e - w + 1, e) BY <1>1, <2>3, <2>4
  <2>6. [j \in 1..w |-> h[e - w + j]] \in Seq(Int)
    <3>. DEFINE v == [j \in 1..w |-> h[e - w + j]]
    <3>1. v \in [1..w -> Int] BY <1>1, <2>4
    <3>. HIDE DEF v
    <3>2. v \in Seq(Int) BY <1>2, <3>1
    <3>. QED BY <3>2 DEF v
  <2>7. SubSeq(h, e - w + 1, e) \in Seq(Int) BY <2>3, <2>6
  <2>. QED BY <1>4, <2>5, <2>7 DEF Estimated, l, e, w
<1>. QED BY <1>3, <1>4

\* When an analysis is due, and how long since the last.
LEMMA HopMoves ==
  ASSUME DetectorAssumption, NEW n \in Nat
  PROVE  LET now == Saturated(Filled(n), window_samples)
             due == SinceDue(n) + 1 >= hop_samples /\ now >= window_samples
         IN /\ now = Filled(n + 1)
            /\ (IF due THEN 0 ELSE SinceDue(n) + 1) = SinceDue(n + 1)
            /\ due => n + 1 >= first_due /\ LastDue(n + 1) = n + 1
            /\ ~due => \/ n + 1 < first_due
                       \/ n >= first_due /\ LastDue(n + 1) = LastDue(n)
<1>. DEFINE w == window_samples
            hop == hop_samples
            fd == first_due
            now == Saturated(Filled(n), w)
            due == SinceDue(n) + 1 >= hop /\ now >= w
            k == n + 1
            r == (n - fd) % hop
            r2 == (k - fd) % hop
            Goal == /\ now = Filled(k)
                    /\ (IF due THEN 0 ELSE SinceDue(n) + 1) = SinceDue(k)
                    /\ due => k >= fd /\ LastDue(k) = k
                    /\ ~due => k < fd \/ (n >= fd /\ LastDue(k) = LastDue(n))
<1>. SUFFICES Goal
  OBVIOUS
<1>1. w \in Nat \ {0} /\ hop \in Nat \ {0} /\ k \in Nat BY DEF DetectorAssumption
<1>2. fd \in Nat /\ fd >= w /\ fd >= hop /\ fd = (IF w > hop THEN w ELSE hop)
  BY <1>1 DEF first_due
<1>3. now = Filled(k) /\ Filled(k) = IF k < w THEN k ELSE w BY <1>1 DEF Saturated, Filled
<1>4. /\ n < fd => SinceDue(n) = n
      /\ ~ (n < fd) => SinceDue(n) = r
      /\ k < fd => SinceDue(k) = k
      /\ ~ (k < fd) => SinceDue(k) = r2
  BY DEF SinceDue
<1>5. k >= fd => LastDue(k) = k - r2 BY <1>1, LastDueIs
<1>6. n >= fd => LastDue(n) = n - r /\ r \in 0..hop - 1 BY LastDueIs
<1>7. k = fd => r2 = 0
  <2>. SUFFICES ASSUME k = fd PROVE r2 = 0
    OBVIOUS
  <2>. HIDE DEF hop, fd, k
  <2>1. k - fd = hop * 0 + 0 /\ 0 \in 0..hop - 1 BY <1>1, <1>2
  <2>2. (hop * 0 + 0) % hop = 0 BY <1>1, <2>1, Remainder
  <2>. QED BY <2>1, <2>2
<1>8. n >= fd => r2 = IF r + 1 = hop THEN 0 ELSE r + 1
  <2>. SUFFICES ASSUME n >= fd PROVE r2 = IF r + 1 = hop THEN 0 ELSE r + 1
    OBVIOUS
  <2>. DEFINE a == n - fd
  <2>. HIDE DEF hop, fd
  <2>1. a \in Nat /\ k - fd = a + 1 BY <1>2
  <2>. HIDE DEF a, k
  <2>2. (a + 1) % hop = IF (a % hop) + 1 = hop THEN 0 ELSE (a % hop) + 1
    BY <1>1, <2>1, NextRemainder
  <2>. QED BY <2>1, <2>2 DEF a
<1>. HIDE DEF w, hop, fd, now, r, r2
<1>9. CASE k < fd
  <2>1. SinceDue(n) = n /\ SinceDue(k) = k BY <1>1, <1>2, <1>4, <1>9
  <2>2. ~due BY <1>1, <1>2, <1>3, <1>9, <2>1
  <2>. QED BY <1>1, <1>2, <1>3, <1>9, <2>1, <2>2
<1>10. CASE k = fd
  <2>1. SinceDue(n) = n /\ SinceDue(k) = 0 BY <1>1, <1>2, <1>4, <1>7, <1>10
  <2>2. due BY <1>1, <1>2, <1>3, <1>10, <2>1
  <2>3. LastDue(k) = k /\ k >= fd BY <1>1, <1>2, <1>5, <1>7, <1>10
  <2>. QED BY <1>3, <2>1, <2>2, <2>3
<1>11. CASE k > fd
  <2>1. n >= fd /\ k >= fd /\ ~ (k < fd) /\ ~ (n < fd) BY <1>1, <1>2, <1>11
  <2>2. SinceDue(n) = r /\ SinceDue(k) = r2 /\ r \in 0..hop - 1 BY <1>4, <1>6, <2>1
  <2>3. now = w BY <1>1, <1>2, <1>3, <1>11
  <2>4. due <=> r + 1 = hop BY <1>1, <2>2, <2>3
  <2>5. LastDue(k) = k - r2 /\ LastDue(n) = n - r BY <1>5, <1>6, <2>1
  <2>6. CASE r + 1 = hop
    <3>1. due /\ r2 = 0 BY <1>8, <2>1, <2>4, <2>6
    <3>2. LastDue(k) = k BY <1>1, <2>5, <3>1
    <3>. QED BY <1>3, <2>1, <2>2, <3>1, <3>2
  <2>7. CASE r + 1 # hop
    <3>1. ~due /\ r2 = r + 1 BY <1>8, <2>1, <2>4, <2>7
    <3>2. LastDue(k) = LastDue(n) BY <1>1, <2>2, <2>5, <3>1
    <3>. QED BY <1>3, <2>1, <2>2, <3>1, <3>2
  <2>. QED BY <2>6, <2>7
<1>. QED BY <1>1, <1>2, <1>9, <1>10, <1>11

LEMMA HeldMoves ==
  ASSUME DetectorAssumption, NEW s, NEW h, HeldInv(s, h), NEW x \in Int
  PROVE  HeldInv(HearHeld(s, x), Append(h, x))
<1>. DEFINE n == Len(h)
            w == window_samples
            l == Append(h, x)
            ring == [s.ring EXCEPT ![s.write] = x]
            write == (s.write + 1) % w
            total == Saturated(s.total, w)
            due == s.since + 1 >= hop_samples /\ total >= w
            m == HearHeld(s, x)
<1>1. /\ s \in HeldState /\ h \in Seq(Int) /\ n \in Nat /\ w \in Nat \ {0}
      /\ HoldsPast(s.ring, s.write, Past(h), n)
      /\ s.total = Filled(n)
      /\ s.since = SinceDue(n)
      /\ s.estimate = Estimated(h, n)
  BY LenProperties DEF HeldInv, DetectorAssumption
<1>2. /\ l \in Seq(Int) /\ Len(l) = n + 1 /\ l[n + 1] = x
      /\ \A i \in 1..n : l[i] = h[i] /\ h[i] \in Int
  BY <1>1, AppendIs
<1>3. s.ring \in [0..w - 1 -> Int] /\ s.write \in 0..w - 1 BY <1>1 DEF HeldState
<1>4. /\ m \in HeldState
      /\ m.ring = ring /\ m.write = write /\ m.total = total
      /\ m.since = IF due THEN 0 ELSE s.since + 1
      /\ m.estimate = IF due THEN [j \in 1..w |-> ring[(write + j - 1) % w]] ELSE s.estimate
  BY <1>1, HearHeldIs
<1>5. /\ Past(h) \in [Int -> Int] /\ Past(l) \in [Int -> Int]
      /\ \A k \in Int : k <= n => Past(l)[k] = Past(h)[k]
      /\ Past(l)[n + 1] = x
      /\ \A k \in 1..n + 1 : Past(l)[k] = l[k]
  <2>1. \A k \in 1..n + 1 : k \in 1..n \/ k = n + 1 BY <1>1
  <2>2. \A k \in 1..n + 1 : l[k] \in Int BY <1>2, <2>1
  <2>3. Past(h) \in [Int -> Int] /\ Past(l) \in [Int -> Int] BY <1>2, <2>2 DEF Past
  <2>4. \A k \in Int : k <= n => (k \in 1..n + 1 <=> k \in 1..n) BY <1>1
  <2>5. n + 1 \in 1..n + 1 /\ 1..n + 1 \subseteq Int BY <1>1
  <2>. HIDE DEF l
  <2>. QED BY <1>2, <2>3, <2>4, <2>5 DEF Past
<1>6. HoldsPast(ring, write, Past(l), n + 1)
  <2>1. HoldsPast([s.ring EXCEPT ![s.write] = Past(l)[n + 1]], (s.write + 1) % window_samples,
                  Past(l), n + 1)
    BY <1>1, <1>3, <1>5, PastMoves
  <2>. QED BY <1>5, <2>1
<1>7. /\ total = Filled(n + 1)
      /\ (IF due THEN 0 ELSE s.since + 1) = SinceDue(n + 1)
      /\ due => n + 1 >= first_due /\ LastDue(n + 1) = n + 1
      /\ ~due => \/ n + 1 < first_due
                 \/ n >= first_due /\ LastDue(n + 1) = LastDue(n)
  BY <1>1, HopMoves
<1>8. first_due \in Nat /\ first_due >= w BY <1>1 DEF first_due, DetectorAssumption
<1>9. Estimated(l, n) = Estimated(h, n)
  <2>1. n <= Len(h) BY <1>1
  <2>. QED BY <1>1, <2>1, EstimatedStays
<1>. HIDE DEF due, l, n, ring, write, total, w, m
<1>10. m.estimate = Estimated(l, n + 1)
  <2>1. CASE due
    <3>1. n + 1 >= first_due /\ ~ (n + 1 < first_due) /\ LastDue(n + 1) = n + 1 /\ n + 1 \in w..n + 1
      BY <1>1, <1>7, <1>8, <2>1
    <3>2. Estimated(l, n + 1) = SubSeq(l, (n + 1) - w + 1, n + 1) BY <3>1 DEF Estimated, w
    <3>3. SubSeq(l, (n + 1) - w + 1, n + 1) = [j \in 1..w |-> l[(n + 1) - w + j]]
      <4>. DEFINE e == n + 1
      <4>1. e \in w..Len(l) BY <1>2, <3>1
      <4>. HIDE DEF e
      <4>2. SubSeq(l, e - w + 1, e) = [j \in 1..w |-> l[e - w + j]] BY <1>1, <1>2, <4>1, LastOfIs
      <4>. QED BY <4>2 DEF e
    <3>4. \A j \in 1..w : (n + 1) - w + j \in 1..n + 1 BY <1>1, <3>1
    <3>5. \A j \in 1..w : ring[(write + j - 1) % w] = l[(n + 1) - w + j]
      <4>1. \A j \in 1..w : ring[Turn(write, j)] = Past(l)[(n + 1) - w + j]
        BY <1>6 DEF HoldsPast, w
      <4>. QED BY <1>5, <3>4, <4>1 DEF Turn, w
    <3>. QED BY <1>4, <2>1, <3>2, <3>3, <3>5
  <2>2. CASE ~due
    <3>1. m.estimate = Estimated(l, n) BY <1>1, <1>4, <1>9, <2>2
    <3>2. Estimated(l, n) = Estimated(l, n + 1)
      <4>1. CASE n + 1 < first_due
        <5>1. n < first_due BY <1>1, <1>8, <4>1
        <5>. QED BY <4>1, <5>1 DEF Estimated
      <4>2. CASE n >= first_due /\ LastDue(n + 1) = LastDue(n)
        <5>1. ~ (n < first_due) /\ ~ (n + 1 < first_due) BY <1>1, <1>8, <4>2
        <5>. QED BY <4>2, <5>1 DEF Estimated
      <4>. QED BY <1>7, <2>2, <4>1, <4>2
    <3>. QED BY <3>1, <3>2
  <2>. QED BY <2>1, <2>2
<1>. QED BY <1>2, <1>4, <1>6, <1>7, <1>10 DEF HeldInv, l, w, m

-----------------------------------------------------------------------------
(* A block. *)

LEMMA ConcatAppend ==
  \A s, t \in Seq(Int), x \in Int : s \o Append(t, x) = Append(s \o t, x)
<1>. DEFINE S == Int
<1>. SUFFICES ASSUME NEW s \in Seq(S), NEW t \in Seq(S), NEW x \in S
              PROVE  s \o Append(t, x) = Append(s \o t, x)
  OBVIOUS
<1>. HIDE DEF S
<1>1. Append(t, x) = t \o <<x>> /\ s \o t \in Seq(S) /\ <<x>> \in Seq(S)
  BY AppendIsConcat, ConcatProperties
<1>2. Append(s \o t, x) = (s \o t) \o <<x>> BY <1>1, AppendIsConcat
<1>3. (s \o t) \o <<x>> = s \o (t \o <<x>>) BY <1>1, ConcatAssociative
<1>. QED BY <1>1, <1>2, <1>3

NodesState == [onset : OnsetState, breath : BreathState, held : HeldState]

LEMMA HearIs ==
  ASSUME DetectorAssumption, NEW v \in NodesState, NEW x \in Int
  PROVE  /\ Hear(v, x) \in NodesState
         /\ Hear(v, x).onset = HearOnset(v.onset, x)
         /\ Hear(v, x).breath = HearBreath(v.breath, x)
         /\ Hear(v, x).held = HearHeld(v.held, x)
<1>1. v.onset \in OnsetState /\ v.breath \in BreathState /\ v.held \in HeldState
  BY DEF NodesState
<1>2. Advance(v.onset.write) \in 1..frame_samples /\ Advance(v.breath.write) \in 1..frame_samples
  <2>1. v.onset.write \in 1..frame_samples /\ v.breath.write \in 1..frame_samples
    BY <1>1 DEF OnsetState, BreathState
  <2>2. \A k \in 1..frame_samples : Advance(k) \in 1..frame_samples
    <3>. TAKE k \in 1..frame_samples
    <3>1. Advance(k) = IF k = frame_samples THEN 1 ELSE k + 1 BY AdvanceIs
    <3>2. frame_samples \in Nat \ {0} BY DEF DetectorAssumption
    <3>. QED BY <3>1, <3>2
  <2>. QED BY <2>1, <2>2
<1>3. HearOnset(v.onset, x) \in OnsetState BY <1>1, <1>2, HearOnsetIs
<1>4. HearBreath(v.breath, x) \in BreathState BY <1>1, <1>2, HearBreathIs
<1>5. HearHeld(v.held, x) \in HeldState BY <1>1, HearHeldIs
<1>. QED BY <1>3, <1>4, <1>5 DEF Hear, NodesState

\* The nodes after each sample are those after the one before, that have heard it.
LEMMA AfterEachIs ==
  ASSUME DetectorAssumption, NEW v \in NodesState, NEW samples \in Seq(Int)
  PROVE  /\ AfterEach(v, samples)[0] = v
         /\ \A k \in 1..Len(samples) :
              AfterEach(v, samples)[k] = Hear(AfterEach(v, samples)[k - 1], samples[k])
<1>. DEFINE n == Len(samples)
            G == [a \in Nat \X NodesState |->
                    IF a[1] \in 1..n THEN Hear(a[2], samples[a[1]]) ELSE a[2]]
            Is(f) == f = [k \in 0..n |-> IF k = 0 THEN v ELSE Hear(f[k - 1], samples[k])]
<1>1. n \in Nat /\ \A k \in 1..n : samples[k] \in Int BY LenProperties, ElementOfSeq
<1>. HIDE DEF n
<1>2. G \in [Nat \X NodesState -> NodesState]
      /\ \A k \in 1..n, u \in NodesState : G[<<k, u>>] = Hear(u, samples[k])
  <2>1. \A a \in Nat \X NodesState : a[1] \in Nat /\ a[2] \in NodesState OBVIOUS
  <2>2. \A u \in NodesState, x \in Int : Hear(u, x) \in NodesState BY HearIs
  <2>3. \A a \in Nat \X NodesState :
          (IF a[1] \in 1..n THEN Hear(a[2], samples[a[1]]) ELSE a[2]) \in NodesState
    BY <1>1, <2>1, <2>2
  <2>4. \A k \in 1..n, u \in NodesState :
          <<k, u>> \in Nat \X NodesState /\ <<k, u>>[1] = k /\ <<k, u>>[2] = u
    BY <1>1
  <2>5. G \in [Nat \X NodesState -> NodesState] BY <2>3
  <2>6. \A a \in Nat \X NodesState :
          G[a] = IF a[1] \in 1..n THEN Hear(a[2], samples[a[1]]) ELSE a[2]
    OBVIOUS
  <2>. HIDE DEF G
  <2>. QED BY <2>4, <2>5, <2>6
<1>. HIDE DEF G
<1>3. PICK f \in [0..n -> NodesState] : Iterated(f, G, v, 0, n)
  <2>1. 0 \in Nat OBVIOUS
  <2>. QED BY <1>1, <1>2, <2>1, Iterates
<1>4. Is(f)
  <2>1. ASSUME NEW k \in 0..n
        PROVE  f[k] = IF k = 0 THEN v ELSE Hear(f[k - 1], samples[k])
    <3>1. f[k] = IF k = 0 THEN v ELSE G[<<k, f[k - 1]>>] BY <1>3 DEF Iterated
    <3>2. CASE k = 0 BY <3>1, <3>2
    <3>3. CASE k # 0
      <4>1. k \in 1..n /\ k - 1 \in 0..n BY <1>1, <3>3
      <4>2. f[k - 1] \in NodesState BY <4>1
      <4>3. G[<<k, f[k - 1]>>] = Hear(f[k - 1], samples[k]) BY <1>2, <4>1, <4>2
      <4>. QED BY <3>1, <3>3, <4>3
    <3>. QED BY <3>2, <3>3
  <2>. QED BY <2>1
<1>5. Is(AfterEach(v, samples))
  <2>1. \E g : Is(g) BY <1>4
  <2>2. AfterEach(v, samples) = CHOOSE g : Is(g) BY DEF AfterEach, n
  <2>. HIDE DEF Is
  <2>. QED BY <2>1, <2>2
<1>. DEFINE g == AfterEach(v, samples)
<1>. HIDE DEF g
<1>6. \A k \in 0..n : g[k] = IF k = 0 THEN v ELSE Hear(g[k - 1], samples[k]) BY <1>5 DEF g
<1>7. 0 \in 0..n /\ \A k \in 1..n : k \in 0..n /\ k # 0 BY <1>1
<1>8. g[0] = v /\ \A k \in 1..n : g[k] = Hear(g[k - 1], samples[k]) BY <1>6, <1>7
<1>. QED BY <1>8 DEF g, n

\* The nodes after the samples u of a block: h, p and r are the histories before it.
NodesInv(v, h, p, r, u) ==
    /\ OnsetInv(v.onset, h \o u, p \o v.onset.out)
    /\ BreathInv(v.breath, h \o u, r \o v.breath.out)
    /\ HeldInv(v.held, h \o u)

LEMMA HearMoves ==
  ASSUME DetectorAssumption, NEW h \in Seq(Int), NEW p \in Seq(Int), NEW r \in Seq(Int),
         NEW v \in NodesState, NEW u \in Seq(Int), NEW x \in Int, NodesInv(v, h, p, r, u)
  PROVE  Hear(v, x) \in NodesState /\ NodesInv(Hear(v, x), h, p, r, Append(u, x))
<1>. DEFINE m == Hear(v, x)
            l == h \o u
            o == v.onset
            b == v.breath
<1>1. /\ m \in NodesState /\ m.onset = HearOnset(o, x) /\ m.breath = HearBreath(b, x)
      /\ m.held = HearHeld(v.held, x)
  BY HearIs
<1>2. o.out \in Seq(Int) /\ b.out \in Seq(Int) BY DEF NodesState, OnsetState, BreathState
<1>3. h \o Append(u, x) = Append(l, x) BY ConcatAppend, Zenon
<1>4. /\ OnsetInv(o, l, p \o o.out) /\ BreathInv(b, l, r \o b.out) /\ HeldInv(v.held, l)
  BY DEF NodesInv
<1>. HIDE DEF m, l, o, b
<1>5. OnsetInv(m.onset, Append(l, x), p \o m.onset.out)
  <2>1. PICK y \in Int : /\ HearOnset(o, x).out = Append(o.out, y)
                         /\ OnsetInv(HearOnset(o, x), Append(l, x), Append(p \o o.out, y))
    BY <1>4, OnsetMoves
  <2>2. p \o Append(o.out, y) = Append(p \o o.out, y) BY <1>2, ConcatAppend, Zenon
  <2>. QED BY <1>1, <2>1, <2>2
<1>6. BreathInv(m.breath, Append(l, x), r \o m.breath.out)
  <2>1. PICK y \in Int : /\ HearBreath(b, x).out = Append(b.out, y)
                         /\ BreathInv(HearBreath(b, x), Append(l, x), Append(r \o b.out, y))
    BY <1>4, BreathMoves
  <2>2. r \o Append(b.out, y) = Append(r \o b.out, y) BY <1>2, ConcatAppend, Zenon
  <2>. QED BY <1>1, <2>1, <2>2
<1>7. HeldInv(m.held, Append(l, x)) BY <1>1, <1>4, HeldMoves
<1>8. NodesInv(m, h, p, r, Append(u, x)) BY <1>3, <1>5, <1>6, <1>7 DEF NodesInv
<1>. QED BY <1>1, <1>8 DEF m

LEMMA PrefixGrows ==
  ASSUME NEW samples, NEW k \in Nat, NEW u \in Seq(Int), Len(u) = k,
         \A i \in 1..k : u[i] = samples[i], NEW x \in Int, x = samples[k + 1]
  PROVE  /\ Append(u, x) \in Seq(Int) /\ Len(Append(u, x)) = k + 1
         /\ \A i \in 1..k + 1 : Append(u, x)[i] = samples[i]
<1>. DEFINE t == Append(u, x)
<1>1. /\ t \in Seq(Int) /\ Len(t) = Len(u) + 1 /\ t[Len(u) + 1] = x
      /\ \A i \in 1..Len(u) : t[i] = u[i]
  BY AppendIs
<1>2. \A i \in 1..k + 1 : i \in 1..k \/ i = k + 1 OBVIOUS
<1>. HIDE DEF t
<1>. QED BY <1>1, <1>2 DEF t

LEMMA BlockMoves ==
  ASSUME DetectorAssumption, NEW h \in Seq(Int), NEW p \in Seq(Int), NEW r \in Seq(Int),
         NEW v \in NodesState, NodesInv(v, h, p, r, <<>>), NEW samples \in Seq(Int)
  PROVE  /\ AfterEach(v, samples)[Len(samples)] \in NodesState
         /\ NodesInv(AfterEach(v, samples)[Len(samples)], h, p, r, samples)
<1>. DEFINE n == Len(samples)
            g == AfterEach(v, samples)
            Prefix(u, k) == u \in Seq(Int) /\ Len(u) = k /\ \A i \in 1..k : u[i] = samples[i]
            T == {k \in Nat : g[k] \in NodesState
                              /\ \E u : Prefix(u, k) /\ NodesInv(g[k], h, p, r, u)}
<1>1. n \in Nat /\ \A k \in 1..n : samples[k] \in Int BY LenProperties, ElementOfSeq
<1>2. g[0] = v /\ \A k \in 1..n : g[k] = Hear(g[k - 1], samples[k]) BY AfterEachIs
<1>. HIDE DEF n, g
<1>3. 0 \in T
  <2>1. Prefix(<<>>, 0) BY EmptySeq
  <2>2. 0 \in Nat /\ g[0] \in NodesState /\ NodesInv(g[0], h, p, r, <<>>) BY <1>2
  <2>. HIDE DEF Prefix
  <2>. QED BY <2>1, <2>2
<1>4. ASSUME NEW k \in 0..n, k < n, k \in T PROVE k + 1 \in T
  <2>1. PICK u : Prefix(u, k) /\ NodesInv(g[k], h, p, r, u) BY <1>4
  <2>2. k + 1 \in 1..n /\ (k + 1) - 1 = k /\ k + 1 \in Nat /\ g[k] \in NodesState
    BY <1>1, <1>4
  <2>. DEFINE x == samples[k + 1]
              t == Append(u, x)
  <2>3. x \in Int /\ g[k + 1] = Hear(g[k], x) BY <1>1, <1>2, <2>2
  <2>. HIDE DEF x
  <2>4. u \in Seq(Int) /\ Len(u) = k /\ \A i \in 1..k : u[i] = samples[i] BY <2>1
  <2>5. g[k + 1] \in NodesState /\ NodesInv(g[k + 1], h, p, r, t)
    <3>. DEFINE a == g[k]
    <3>1. a \in NodesState /\ u \in Seq(Int) /\ x \in Int /\ NodesInv(a, h, p, r, u)
      BY <2>1, <2>2, <2>3, <2>4
    <3>. HIDE DEF a, Prefix
    <3>2. Hear(a, x) \in NodesState /\ NodesInv(Hear(a, x), h, p, r, Append(u, x))
      BY <3>1, HearMoves, Zenon
    <3>. QED BY <2>3, <3>2 DEF a
  <2>6. Prefix(t, k + 1)
    <3>1. x = samples[k + 1] /\ k \in Nat BY <1>4 DEF x
    <3>. HIDE DEF x
    <3>. QED BY <2>3, <2>4, <3>1, PrefixGrows
  <2>. HIDE DEF Prefix, t
  <2>. QED BY <2>2, <2>5, <2>6
<1>5. n \in T
  <2>. HIDE DEF T
  <2>1. \A k \in 0..n : k < n /\ k \in T => k + 1 \in T BY <1>4
  <2>2. 0..n \subseteq T BY <1>1, <1>3, <2>1, RangeInduction, 0 \in Nat
  <2>3. n \in 0..n BY <1>1
  <2>. QED BY <2>2, <2>3
<1>6. PICK u : Prefix(u, n) /\ NodesInv(g[n], h, p, r, u) BY <1>5
<1>7. u = samples
  <2>1. u \in Seq(Int) /\ Len(u) = n /\ \A i \in 1..n : u[i] = samples[i] BY <1>6
  <2>2. Len(u) = Len(samples) /\ \A i \in 1..Len(u) : u[i] = samples[i] BY <2>1 DEF n
  <2>. QED BY <2>1, <2>2, SeqEqual
<1>. QED BY <1>5, <1>6, <1>7 DEF n, g

-----------------------------------------------------------------------------
(* The detectors. *)

DetectorsInv ==
    /\ OnsetInv(onset, heard, pulses)
    /\ BreathInv(breath, heard, breaths)
    /\ HeldInv(hop_held, heard)

LEMMA SilenceIs ==
  ASSUME DetectorAssumption
  PROVE  /\ Holds([i \in 1..frame_samples |-> 0], 1, 0, Squares(<<>>), 0)
         /\ Holds([i \in 1..frame_samples |-> 0], 1, 0, Rises(<<>>), 0)
<1>. DEFINE w == frame_samples
            zeros == [i \in 1..w |-> 0]
<1>1. w \in Nat \ {0} BY DEF DetectorAssumption
<1>2. LastSamples(Squares(<<>>), w, 0) = zeros /\ LastSamples(Rises(<<>>), w, 0) = zeros
  <2>1. \A k \in Int : Squares(<<>>)[k] = 0 /\ Rises(<<>>)[k] = 0
    <3>1. \A k \in Int : k \notin 1..Len(<<>>) BY EmptySeq
    <3>. QED BY <3>1 DEF Squares, Rises
  <2>2. \A j \in 1..w : 0 - w + j \in Int BY <1>1
  <2>. QED BY <2>1, <2>2 DEF LastSamples
<1>3. SumOf(zeros) = 0 BY <1>1, SumOfNothing
<1>. HIDE DEF w
<1>4. /\ zeros \in [1..w -> Int] /\ 1 \in 1..w /\ \A j \in 1..w : zeros[j] = 0
      /\ \A j \in 1..w : (IF 1 + j - 1 <= w THEN 1 + j - 1 ELSE 1 + j - 1 - w) = j
  BY <1>1
<1>. HIDE DEF zeros
<1>5. InRing(zeros, 1, zeros) BY <1>4 DEF InRing, w
<1>. QED BY <1>2, <1>3, <1>5 DEF Holds, zeros, w

LEMMA FreshIs ==
  ASSUME DetectorAssumption
  PROVE  /\ OnsetInv(NewOnset, <<>>, <<>>)
         /\ BreathInv(NewBreath, <<>>, <<>>)
         /\ HeldInv(NewHeld, <<>>)
<1>1. /\ frame_samples \in Nat \ {0} /\ window_samples \in Nat \ {0} /\ hop_samples \in Nat \ {0}
      /\ min_separation \in Nat
  BY DEF DetectorAssumption
<1>2. <<>> \in Seq(Int) /\ Len(<<>>) = 0 BY EmptySeq
<1>3. [i \in 1..frame_samples |-> 0] \in [1..frame_samples -> Int] /\ 1 \in 1..frame_samples
      /\ 1 = 0 + 1
  BY <1>1
<1>4. FullFrames(<<>>) = {} BY <1>1, <1>2 DEF FullFrames
<1>5. OnsetInv(NewOnset, <<>>, <<>>)
  <2>1. NewOnset \in OnsetState BY <1>1, <1>2, <1>3 DEF NewOnset, OnsetState
  <2>2. SinceInv(min_separation, 0, <<>>) BY <1>1 DEF SinceInv
  <2>. QED BY <1>1, <1>2, <2>1, <2>2, SilenceIs DEF OnsetInv, NewOnset
<1>6. BreathInv(NewBreath, <<>>, <<>>)
  <2>1. NewBreath \in BreathState BY <1>1, <1>2, <1>3 DEF NewBreath, BreathState
  <2>2. LatchInv(FALSE, 0, Entering(<<>>), Exiting(<<>>), 0)
    BY <1>4 DEF LatchInv, Entering, OnAt
  <2>3. SampleAt(<<>>, 0) = 0 BY DEF SampleAt
  <2>. DEFINE b == NewBreath
              zeros == [i \in 1..frame_samples |-> 0]
  <2>4. /\ b.total_ring = zeros /\ b.hf_ring = zeros /\ b.total = 0 /\ b.hf = 0 /\ b.write = 1
        /\ b.filled = FALSE /\ b.prev = 0 /\ b.latched = FALSE /\ b.below = 0
    BY DEF NewBreath
  <2>. HIDE DEF b
  <2>5. Holds(b.total_ring, b.write, b.total, Squares(<<>>), 0)
        /\ Holds(b.hf_ring, b.write, b.hf, Rises(<<>>), 0)
    BY <2>4, SilenceIs
  <2>6. LatchInv(b.latched, b.below, Entering(<<>>), Exiting(<<>>), 0) BY <2>2, <2>4
  <2>7. BreathInv(b, <<>>, <<>>)
    BY <1>1, <1>2, <2>1, <2>3, <2>4, <2>5, <2>6 DEF BreathInv, b
  <2>. QED BY <2>7 DEF b
<1>7. HeldInv(NewHeld, <<>>)
  <2>1. NewHeld \in HeldState
    <3>1. [i \in 0..window_samples - 1 |-> 0] \in [0..window_samples - 1 -> Int]
          /\ 0 \in 0..window_samples - 1
      BY <1>1
    <3>. QED BY <1>2, <3>1 DEF NewHeld, HeldState, NoEstimate
  <2>2. HoldsPast([i \in 0..window_samples - 1 |-> 0], 0, Past(<<>>), 0)
    <3>1. \A j \in 1..window_samples : Turn(0, j) \in 0..window_samples - 1
      <4>. TAKE j \in 1..window_samples
      <4>1. 0 + j - 1 = j - 1 /\ j - 1 < window_samples /\ 0 \in 0..window_samples - 1
            /\ j - 1 \in 0..window_samples - 1
        BY <1>1
      <4>. QED BY <4>1, TurnIs DEF Turn
    <3>2. \A j \in 1..window_samples : 0 - window_samples + j \in Int BY <1>1
    <3>3. \A k \in Int : Past(<<>>)[k] = 0
      <4>1. \A k \in Int : k \notin 1..Len(<<>>) BY EmptySeq
      <4>. QED BY <4>1 DEF Past
    <3>. QED BY <3>1, <3>2, <3>3 DEF HoldsPast
  <2>3. 0 < first_due BY <1>1 DEF first_due
  <2>4. Filled(0) = 0 /\ SinceDue(0) = 0 /\ Estimated(<<>>, 0) = NoEstimate
    BY <1>1, <2>3 DEF Filled, SinceDue, Estimated
  <2>. QED BY <1>2, <2>1, <2>2, <2>4 DEF HeldInv, NewHeld
<1>. QED BY <1>5, <1>6, <1>7

\* What the invariant says of the detectors' answers.
LEMMA AnswersAre ==
  ASSUME DetectorAssumption, DetectorsInv
  PROVE  DetectorsFollowTheirInput
<1>1. /\ heard \in Seq(Int) /\ pulses \in Seq(Int) /\ breaths \in Seq(Int)
      /\ Len(pulses) = Len(heard) /\ Len(breaths) = Len(heard)
  BY DEF DetectorsInv, OnsetInv, BreathInv
<1>2. DOMAIN pulses = 1..Len(heard) /\ DOMAIN breaths = 1..Len(heard) /\ Len(heard) \in Nat
  BY <1>1, LenProperties
<1>3. OnsetsAreTheRises
  <2>1. \A i \in 1..Len(heard) : pulses[i] = 1 <=> RiseAt(heard, pulses, i)
    BY DEF DetectorsInv, OnsetInv
  <2>. QED BY <1>1, <1>2, <2>1 DEF OnsetsAreTheRises, RiseAt
<1>4. BreathHoldsItsLatch
  <2>. DEFINE A == Entering(heard)
              B == Exiting(heard)
  <2>1. \A i \in 1..Len(heard) : breaths[i] = 1 <=> OnAt(A, B, i)
    BY DEF DetectorsInv, BreathInv, IsOn
  <2>2. release_samples \in Nat \ {0} BY ReleaseIs
  <2>3. ASSUME NEW i \in 1..Len(heard), NEW j \in FullFrames(heard)
        PROVE  ReleasedBy(B, j, i) <=> Released(heard, j, i)
    <3>1. ASSUME NEW k \in j + 1..i, k - j >= release_samples
          PROVE  k - release_samples + 1..k \subseteq B <=>
                   \A l \in k - release_samples + 1..k : Exits(HighFrequency(heard, l), Energy(heard, l))
      <4>1. \A l \in k - release_samples + 1..k : l \in FullFrames(heard)
        BY <1>2, <2>2, <3>1 DEF FullFrames, DetectorAssumption
      <4>. QED BY <4>1 DEF Exiting
    <3>. QED BY <3>1 DEF ReleasedBy, Released
  <2>4. ASSUME NEW i \in 1..Len(heard)
        PROVE  (breaths[i] = 1) <=>
                 \E j \in FullFrames(heard) :
                     /\ j <= i
                     /\ Enters(HighFrequency(heard, j), Energy(heard, j))
                     /\ ~Released(heard, j, i)
    BY <2>1, <2>3 DEF OnAt, Entering
  <2>. QED BY <1>1, <1>2, <2>4 DEF BreathHoldsItsLatch
<1>5. EstimateIsOfTheLatestHop
  BY DEF DetectorsInv, HeldInv, Estimated, EstimateIsOfTheLatestHop
<1>. QED BY <1>3, <1>4, <1>5 DEF DetectorsFollowTheirInput

LEMMA DetectorsBegin ==
  ASSUME DetectorAssumption, DetectorsInit
  PROVE  DetectorsInv
BY FreshIs DEF DetectorsInit, DetectorsInv

LEMMA DetectorsMove ==
  ASSUME DetectorAssumption, DetectorsInv, [DetectorsNext]_detector_vars
  PROVE  DetectorsInv'
<1>1. ASSUME NEW n \in BlockSizes, NEW samples \in [1..n -> Levels], ProcessBlock(samples)
      PROVE  DetectorsInv'
  <2>. DEFINE v == BlockStart
              z == AfterEach(v, samples)[Len(samples)]
              o == onset
              b == breath
              h == heard
              p == pulses
              r == breaths
  <2>1. samples \in Seq(Int)
    <3>1. n \in Nat /\ Levels \subseteq Int BY DEF DetectorAssumption
    <3>2. samples \in [1..n -> Int] BY <3>1
    <3>. QED BY <3>1, <3>2
  <2>2. OnsetInv(o, h, p) /\ BreathInv(b, h, r) /\ HeldInv(hop_held, h)
    BY DEF DetectorsInv
  <2>3. h \in Seq(Int) /\ p \in Seq(Int) /\ r \in Seq(Int) /\ o \in OnsetState /\ b \in BreathState
        /\ hop_held \in HeldState
    BY <2>2 DEF OnsetInv, BreathInv, HeldInv
  <2>4. /\ v.onset = [o EXCEPT !.out = <<>>] /\ v.breath = [b EXCEPT !.out = <<>>]
        /\ v.held = hop_held
        /\ v = [onset |-> v.onset, breath |-> v.breath, held |-> v.held]
    BY DEF BlockStart
  <2>5. <<>> \in Seq(Int) BY EmptySeq
  <2>6. v.onset \in OnsetState /\ v.breath \in BreathState /\ v.onset.out = <<>> /\ v.breath.out = <<>>
    BY <2>3, <2>4, <2>5 DEF OnsetState, BreathState
  <2>. HIDE DEF v
  <2>7. OnsetInv(v.onset, h, p)
    BY <2>2, <2>3, <2>4, <2>6 DEF OnsetInv, OnsetState
  <2>8. BreathInv(v.breath, h, r)
    BY <2>2, <2>3, <2>4, <2>6 DEF BreathInv, BreathState
  <2>9. h \o <<>> = h /\ p \o v.onset.out = p /\ r \o v.breath.out = r
    BY <2>3, <2>6, ConcatEmptySeq
  <2>10. NodesInv(v, h, p, r, <<>>) BY <2>2, <2>4, <2>7, <2>8, <2>9 DEF NodesInv
  <2>11. v \in NodesState BY <2>3, <2>4, <2>6 DEF NodesState
  <2>12. NodesInv(z, h, p, r, samples) BY <2>1, <2>3, <2>10, <2>11, BlockMoves
  <2>13. /\ onset' = z.onset /\ breath' = z.breath /\ hop_held' = z.held
         /\ heard' = h \o samples
         /\ pulses' = p \o onset'.out /\ breaths' = r \o breath'.out
    BY <1>1 DEF ProcessBlock, v
  <2>. HIDE DEF z, h, p, r
  <2>14. OnsetInv(onset', heard', pulses') /\ BreathInv(breath', heard', breaths')
         /\ HeldInv(hop_held', heard')
    BY <2>12, <2>13, Zenon DEF NodesInv
  <2>. QED BY <2>14 DEF DetectorsInv, OnsetInv, BreathInv, HeldInv
<1>2. CASE ResetDetectors
  <2>1. /\ onset' = NewOnset /\ breath' = NewBreath /\ hop_held' = NewHeld
        /\ heard' = <<>> /\ pulses' = <<>> /\ breaths' = <<>>
    BY <1>2 DEF ResetDetectors, Fresh
  <2>2. OnsetInv(onset', heard', pulses') /\ BreathInv(breath', heard', breaths')
        /\ HeldInv(hop_held', heard')
    BY <2>1, FreshIs, Zenon
  <2>. QED BY <2>2 DEF DetectorsInv
<1>3. CASE UNCHANGED detector_vars
  BY <1>3 DEF detector_vars, DetectorsInv
<1>. QED BY <1>1, <1>2, <1>3 DEF DetectorsNext

THEOREM DetectorsFollowTheirInputAlways == DetectorsSpec => []DetectorsFollowTheirInput
<1>1. DetectorsInit => DetectorsInv BY DetectorAssumption, DetectorsBegin
<1>2. DetectorsInv /\ [DetectorsNext]_detector_vars => DetectorsInv'
  BY DetectorAssumption, DetectorsMove
<1>3. DetectorsInv => DetectorsFollowTheirInput BY DetectorAssumption, AnswersAre
<1>. QED BY <1>1, <1>2, <1>3, PTL DEF DetectorsSpec

-----------------------------------------------------------------------------
(* The pitch detector. *)

YinSteps == {"difference", "normalise", "search", "accept", "held"}
Normal(t) == IF RunningSum(t) > 0 THEN Fraction(t * diff[t], RunningSum(t)) ELSE One

(* The first dip of the range, or any lag of a range without one. *)
IsFound(c) ==
    /\ c \in tau_search_min..tau_max
    /\ \/ IsDip(c) /\ \A t \in tau_search_min..c - 1 : ~IsDip(t)
       \/ \A t \in tau_search_min..tau_max : ~IsDip(t)

YinInv ==
    /\ yin_window \in Windows /\ yin_step \in YinSteps
    /\ yin_step # "difference" => diff = [t \in Lags |-> Difference(t)]
    /\ yin_step \in {"search", "accept", "held"} => dprime = [t \in Lags |-> Normal(t)]
    /\ yin_step \in {"difference", "normalise"} => tau = tau_search_min
    /\ yin_step = "search" =>
         tau \in tau_search_min..tau_max + 1 /\ \A t \in tau_search_min..tau - 1 : ~IsDip(t)
    /\ yin_step = "accept" => IsFound(chosen_tau)
    /\ yin_step = "held" =>
         \E c \in tau_search_min..tau_max :
           IsFound(c) /\ chosen_tau = IF Accepted(c) THEN c ELSE NoLag

LEMMA QuotientAtLeast ==
  ASSUME NEW d \in Nat \ {0}, NEW a \in Nat, NEW k \in Nat, a >= d * k
  PROVE  a \div d \in Nat /\ a \div d >= k
<1>. DEFINE q == a \div d
            r == a % d
<1>1. a = d * q + r /\ q \in Int /\ r \in 0..d - 1 OBVIOUS
<1>. HIDE DEF q, r
<1>2. d * (q + 1) > d * k
  <2>1. d * (q + 1) = d * q + d BY <1>1
  <2>. QED BY <1>1, <2>1
<1>3. \A x, y \in Int : d * x > d * y => x > y
  <2>1. \A x, y \in Int : x <= y => d * x <= d * y OBVIOUS
  <2>. QED BY <2>1
<1>4. q + 1 > k BY <1>1, <1>2, <1>3
<1>5. q >= k BY <1>1, <1>4
<1>. QED BY <1>1, <1>5 DEF q

\* The lags of a window: there are at least two, and every one is shorter than the window.
LEMMA LagsExist ==
  ASSUME yin_window \in Windows
  PROVE  /\ Len(yin_window) \in Nat /\ Len(yin_window) >= 4 /\ yin_window \in Seq(Int)
         /\ half \in Nat /\ 2 * half <= Len(yin_window)
         /\ tau_max \in 2..half /\ tau_min \in 1..tau_max /\ tau_search_min \in 2..tau_max
<1>1. yin_window \in Seq(Int) /\ Len(yin_window) \in Nat /\ Len(yin_window) >= 4
  BY YinHasLags, LenProperties
<1>. DEFINE n == Len(yin_window)
<1>2. half \in Nat /\ 2 * half <= n /\ half >= 2
  <2>1. n \in Nat /\ n >= 4 BY <1>1
  <2>. HIDE DEF n
  <2>2. n \div 2 \in Nat /\ 2 * (n \div 2) <= n /\ n \div 2 >= 2 BY <2>1
  <2>. QED BY <2>2 DEF half, n
<1>. DEFINE a == (sample_rate + fmin_hz - 1) \div fmin_hz
            b == sample_rate \div fmax_hz
            c == sample_rate \div 4000
<1>3. a \in Nat /\ a >= 2
  <2>1. sample_rate \in Nat /\ fmin_hz \in 1..sample_rate - 1 BY YinHasLags
  <2>2. sample_rate + fmin_hz - 1 \in Nat /\ fmin_hz \in Nat \ {0} /\ 2 \in Nat
        /\ sample_rate + fmin_hz - 1 >= fmin_hz * 2 BY <2>1
  <2>. HIDE DEF a
  <2>. QED BY <2>2, QuotientAtLeast DEF a
<1>4. b \in Nat
  <2>1. sample_rate \in Nat /\ fmax_hz \in Nat \ {0} /\ 0 \in Nat /\ sample_rate >= fmax_hz * 0
    BY YinHasLags
  <2>. QED BY <2>1, QuotientAtLeast
<1>5. c \in Nat
  <2>1. sample_rate \in Nat /\ 4000 \in Nat \ {0} /\ 0 \in Nat /\ sample_rate >= 4000 * 0
    BY YinHasLags
  <2>. QED BY <2>1, QuotientAtLeast
<1>. HIDE DEF a, b, c
<1>6. Clamped(a) \in 2..half
  BY <1>2, <1>3 DEF Clamped, Greatest, Least
<1>7. Clamped(b) \in 1..half
  BY <1>2, <1>4 DEF Clamped, Greatest, Least
<1>8. tau_max \in 2..half BY <1>6 DEF tau_max, a
<1>9. tau_min \in 1..tau_max
  <2>1. tau_min = Least(Clamped(b), tau_max) BY DEF tau_min, b
  <2>. QED BY <1>2, <1>7, <1>8, <2>1 DEF Least
<1>10. tau_search_min \in 2..tau_max
  <2>1. tau_search_min = Greatest(2, Least(tau_min, c)) BY DEF tau_search_min, c
  <2>. QED BY <1>2, <1>5, <1>8, <1>9, <2>1 DEF Least, Greatest
<1>. QED BY <1>1, <1>2, <1>8, <1>9, <1>10

\* A difference is never negative, and nothing only where the window repeats.
LEMMA DifferenceIsRepeat ==
  ASSUME yin_window \in Windows, NEW t \in Lags
  PROVE  Difference(t) \in Nat /\ (Difference(t) = 0 <=> RepeatsAfter(t))
<1>. DEFINE n == Len(yin_window) - t
            f == [j \in 1..n |-> Squared(yin_window[j] - yin_window[j + t])]
<1>1. /\ Len(yin_window) \in Nat /\ n \in Nat /\ t \in Nat
      /\ \A j \in 1..n : yin_window[j] \in Int /\ yin_window[j + t] \in Int
  <2>1. t \in 1..tau_max /\ tau_max \in 2..half /\ half \in Nat /\ 2 * half <= Len(yin_window)
        /\ Len(yin_window) \in Nat /\ yin_window \in Seq(Int)
    BY LagsExist DEF Lags
  <2>2. \A j \in 1..n : j \in 1..Len(yin_window) /\ j + t \in 1..Len(yin_window) BY <2>1
  <2>3. \A j \in 1..Len(yin_window) : yin_window[j] \in Int BY <2>1, ElementOfSeq
  <2>. QED BY <2>1, <2>2, <2>3
<1>2. \A x \in Int : x * x \in Nat /\ (x * x = 0 <=> x = 0) OBVIOUS
<1>3. \A j \in 1..n : f[j] \in Nat /\ (f[j] = 0 <=> yin_window[j] = yin_window[j + t])
  <2>. SUFFICES ASSUME NEW j \in 1..n
                PROVE  f[j] \in Nat /\ (f[j] = 0 <=> yin_window[j] = yin_window[j + t])
    OBVIOUS
  <2>. DEFINE x == yin_window[j] - yin_window[j + t]
  <2>1. x \in Int /\ (x = 0 <=> yin_window[j] = yin_window[j + t]) BY <1>1
  <2>2. f[j] = x * x BY DEF Squared
  <2>. HIDE DEF x, f
  <2>. QED BY <1>2, <2>1, <2>2
<1>4. Difference(t) = SumTo(f, n) BY DEF Difference
<1>. HIDE DEF f, n
<1>5. SumTo(f, n) \in Nat /\ (SumTo(f, n) = 0 <=> \A j \in 1..n : f[j] = 0)
  BY <1>1, <1>3, SumGrows
<1>6. RepeatsAfter(t) <=> \A j \in 1..n : yin_window[j] = yin_window[j + t]
  BY DEF RepeatsAfter, n
<1>. QED BY <1>3, <1>4, <1>5, <1>6

\* What has been added up, and the fraction it makes.
LEMMA NormalIsFraction ==
  ASSUME yin_window \in Windows, diff = [t \in Lags |-> Difference(t)], NEW t \in Lags
  PROVE  /\ t \in Nat \ {0} /\ diff[t] \in Nat /\ (diff[t] = 0 <=> RepeatsAfter(t))
         /\ RunningSum(t) \in Nat /\ (RunningSum(t) = 0 <=> \A u \in 1..t : RepeatsAfter(u))
         /\ Normal(t).num \in Nat /\ Normal(t).den \in Nat \ {0}
         /\ RunningSum(t) > 0 => Normal(t).num = t * diff[t] /\ Normal(t).den = RunningSum(t)
         /\ RunningSum(t) = 0 => Normal(t).num = 1 /\ Normal(t).den = 1
<1>1. t \in Nat \ {0} /\ \A u \in 1..t : u \in Lags
  BY LagsExist DEF Lags
<1>2. \A u \in 1..t : diff[u] \in Nat /\ (diff[u] = 0 <=> RepeatsAfter(u))
  BY <1>1, DifferenceIsRepeat
<1>3. diff[t] \in Nat /\ (diff[t] = 0 <=> RepeatsAfter(t))
  BY <1>1, <1>2
<1>4. SumTo(diff, t) \in Nat /\ (SumTo(diff, t) = 0 <=> \A u \in 1..t : diff[u] = 0)
  BY ONLY <1>1, <1>2, SumGrows
<1>5. RunningSum(t) \in Nat /\ (RunningSum(t) = 0 <=> \A u \in 1..t : RepeatsAfter(u))
  BY <1>2, <1>4 DEF RunningSum
<1>6. /\ RunningSum(t) > 0 => Normal(t).num = t * diff[t] /\ Normal(t).den = RunningSum(t)
      /\ RunningSum(t) = 0 => Normal(t).num = 1 /\ Normal(t).den = 1
  BY <1>5 DEF Normal, Fraction, One
<1>7. t * diff[t] \in Nat BY ONLY <1>1, <1>3
<1>8. Normal(t).num \in Nat /\ Normal(t).den \in Nat \ {0}
  BY <1>5, <1>6, <1>7
<1>. QED BY <1>1, <1>3, <1>5, <1>6, <1>8

LEMMA Scaled ==
  ASSUME NEW a \in Int, NEW b \in Int, NEW c \in Nat \ {0}
  PROVE  (a < b => a * c < b * c) /\ (a >= b => a * c >= b * c)
OBVIOUS

\* What is below another, which is at most a third, is below the third.
LEMMA LessIsTransitive ==
  ASSUME NEW un \in Nat, NEW ud \in Nat \ {0}, NEW tn \in Nat, NEW td \in Nat \ {0},
         NEW mn \in Nat, NEW md \in Nat \ {0}, ~(un * td < tn * ud), mn * td < tn * md
  PROVE  ~(un * md < mn * ud)
<1>. SUFFICES ASSUME un * md < mn * ud PROVE FALSE OBVIOUS
<1>. DEFINE p == un * td
            q == tn * ud
            r == mn * td
            s == tn * md
            v == un * md
            w == mn * ud
<1>1. p \in Int /\ q \in Int /\ r \in Int /\ s \in Int /\ v \in Int /\ w \in Int OBVIOUS
<1>2. p >= q /\ r < s /\ v < w BY <1>1
<1>3. p * md = v * td /\ q * md = s * ud /\ w * td = r * ud OBVIOUS
<1>. HIDE DEF p, q, r, s, v, w
<1>4. p * md >= q * md /\ v * td < w * td /\ r * ud < s * ud BY <1>1, <1>2, Scaled
<1>5. /\ p * md \in Int /\ q * md \in Int /\ v * td \in Int /\ w * td \in Int
      /\ r * ud \in Int /\ s * ud \in Int BY <1>1
<1>. QED BY <1>3, <1>4, <1>5

\* A range of fractions has a lowest.
LEMMA LowestFraction ==
  ASSUME NEW a \in Nat, NEW b \in Nat, a <= b, NEW f,
         \A t \in a..b : f[t].num \in Nat /\ f[t].den \in Nat \ {0}
  PROVE  \E t \in a..b : \A u \in a..b : ~Less(f[u], f[t])
<1>. DEFINE T == {m \in a..b : \E t \in a..m : \A u \in a..m : ~Less(f[u], f[t])}
<1>1. a <= b => a \in T
  <2>1. \A u \in a..a : u = a OBVIOUS
  <2>2. ~Less(f[a], f[a])
    <3>1. f[a].num \in Nat /\ f[a].den \in Nat OBVIOUS
    <3>2. \A x, y \in Nat : ~(x * y < x * y) OBVIOUS
    <3>. QED BY <3>1, <3>2 DEF Less
  <2>3. a \in a..a /\ a \in a..b OBVIOUS
  <2>. QED BY <2>1, <2>2, <2>3
<1>2. ASSUME NEW m \in a..b, m < b, m \in T PROVE m + 1 \in T
  <2>1. m + 1 \in a..b /\ \A u \in a..m + 1 : u \in a..m \/ u = m + 1 BY <1>2
  <2>2. PICK t \in a..m : \A u \in a..m : ~Less(f[u], f[t]) BY <1>2
  <2>3. t \in a..b /\ t \in a..m + 1 /\ m + 1 \in a..m + 1 BY <2>1
  <2>4. CASE ~Less(f[m + 1], f[t])
    <3>. QED BY <2>1, <2>2, <2>3, <2>4
  <2>5. CASE Less(f[m + 1], f[t])
    <3>1. ASSUME NEW u \in a..m PROVE ~Less(f[u], f[m + 1])
      <4>1. u \in a..b BY <2>1, <3>1
      <4>2. f[u].num \in Nat /\ f[u].den \in Nat \ {0} BY <4>1
      <4>3. f[t].num \in Nat /\ f[t].den \in Nat \ {0} BY <2>3
      <4>4. f[m + 1].num \in Nat /\ f[m + 1].den \in Nat \ {0} BY <2>1
      <4>5. ~Less(f[u], f[t]) /\ Less(f[m + 1], f[t]) BY <2>2, <2>5, <3>1
      <4>. QED BY ONLY <4>2, <4>3, <4>4, <4>5, LessIsTransitive DEF Less
    <3>2. ~Less(f[m + 1], f[m + 1])
      <4>1. f[m + 1].num \in Nat /\ f[m + 1].den \in Nat BY <2>1
      <4>2. \A x, y \in Nat : ~(x * y < x * y) OBVIOUS
      <4>. QED BY <4>1, <4>2 DEF Less
    <3>. QED BY <2>1, <2>3, <3>1, <3>2
  <2>. QED BY <2>4, <2>5
<1>. HIDE DEF T
<1>3. a..b \subseteq T BY <1>1, <1>2, RangeInduction
<1>4. b \in a..b OBVIOUS
<1>. QED BY <1>3, <1>4 DEF T

\* The parameters of a window stay with it.
LEMMA SameLags ==
  ASSUME yin_window' = yin_window
  PROVE  /\ half' = half /\ tau_max' = tau_max /\ tau_min' = tau_min
         /\ tau_search_min' = tau_search_min /\ Lags' = Lags
<1>1. half' = half BY DEF half
<1>2. tau_max' = tau_max BY <1>1 DEF tau_max, Clamped
<1>3. tau_min' = tau_min BY <1>1, <1>2 DEF tau_min, Clamped
<1>4. tau_search_min' = tau_search_min BY <1>3 DEF tau_search_min
<1>5. Lags' = Lags BY <1>2 DEF Lags
<1>. QED BY <1>1, <1>2, <1>3, <1>4, <1>5

LEMMA SameDips ==
  ASSUME yin_window' = yin_window, diff' = diff, dprime' = dprime
  PROVE  /\ \A t : IsDip(t)' <=> IsDip(t)
         /\ \A t : IsFound(t)' <=> IsFound(t)
         /\ \A t : Difference(t)' = Difference(t)
         /\ \A t : Normal(t)' = Normal(t)
         /\ \A t : Accepted(t)' <=> Accepted(t)
<1>1. \A t : IsDip(t)' <=> IsDip(t) BY SameLags DEF IsDip
<1>2. \A t : IsFound(t)' <=> IsFound(t) BY <1>1, SameLags DEF IsFound
<1>3. \A t : Difference(t)' = Difference(t) BY DEF Difference
<1>4. \A t : Normal(t)' = Normal(t) BY DEF Normal, RunningSum
<1>5. \A t : Accepted(t)' <=> Accepted(t) BY SameLags DEF Accepted
<1>. QED BY <1>1, <1>2, <1>3, <1>4, <1>5

LEMMA YinInitially == YinInit => YinInv
<1>. SUFFICES ASSUME YinInit PROVE YinInv OBVIOUS
<1>. QED BY DEF YinInit, YinInv, YinSteps

LEMMA YinStep == YinInv /\ [YinNext]_yin_vars => YinInv'
<1>. SUFFICES ASSUME YinInv, [YinNext]_yin_vars PROVE YinInv' OBVIOUS
<1>. USE DEF YinSteps
<1>1. /\ yin_window' = yin_window /\ half' = half /\ tau_max' = tau_max /\ tau_min' = tau_min
      /\ tau_search_min' = tau_search_min /\ Lags' = Lags
  <2>1. yin_window' = yin_window
    BY DEF YinNext, yin_vars, DifferenceFunction, Normalise, Search, Fallback, Accept
  <2>. QED BY <2>1, SameLags
<1>2. /\ yin_window \in Windows /\ tau_max \in 2..half /\ half \in Nat
      /\ tau_min \in 1..tau_max /\ tau_search_min \in 2..tau_max
  BY LagsExist DEF YinInv
<1>3. CASE DifferenceFunction
  <2>1. \A t : Difference(t)' = Difference(t) BY <1>1 DEF Difference
  <2>2. diff' = [t \in Lags |-> Difference(t)] /\ yin_step' = "normalise" /\ tau' = tau
        /\ tau = tau_search_min
    BY <1>3 DEF DifferenceFunction, YinInv
  <2>3. (diff = [t \in Lags |-> Difference(t)])' BY <1>1, <2>1, <2>2
  <2>. QED BY <1>1, <1>2, <2>2, <2>3 DEF YinInv
<1>4. CASE Normalise
  <2>1. \A t : Difference(t)' = Difference(t) BY <1>1 DEF Difference
  <2>2. /\ yin_step = "normalise" /\ yin_step' = "search" /\ diff' = diff /\ tau' = tau
        /\ tau = tau_search_min /\ diff = [t \in Lags |-> Difference(t)]
    BY <1>4 DEF Normalise, YinInv
  <2>3. \A t : Normal(t)' = Normal(t) BY <2>2 DEF Normal, RunningSum
  <2>4. dprime' = [t \in Lags |-> Normal(t)] BY <1>4 DEF Normalise, Normal
  <2>5. (dprime = [t \in Lags |-> Normal(t)])' BY <1>1, <2>3, <2>4
  <2>6. (diff = [t \in Lags |-> Difference(t)])' BY <1>1, <2>1, <2>2
  <2>7. tau' \in tau_search_min'..tau_max' + 1 /\ \A t \in tau_search_min'..tau' - 1 : FALSE
    BY <1>1, <1>2, <2>2
  <2>. QED BY <1>1, <1>2, <2>2, <2>5, <2>6, <2>7 DEF YinInv
<1>5. CASE yin_step \in {"search", "accept", "held"} /\ yin_step' \in {"search", "accept", "held"}
           /\ UNCHANGED <<yin_window, diff, dprime>>
  <2>0. /\ \A t : IsDip(t)' <=> IsDip(t)
        /\ \A t : IsFound(t)' <=> IsFound(t)
        /\ \A t : Difference(t)' = Difference(t)
        /\ \A t : Normal(t)' = Normal(t)
        /\ \A t : Accepted(t)' <=> Accepted(t)
    BY <1>5, SameDips
  <2>1. /\ (diff = [t \in Lags |-> Difference(t)])' /\ (dprime = [t \in Lags |-> Normal(t)])'
    <3>1. diff = [t \in Lags |-> Difference(t)] /\ dprime = [t \in Lags |-> Normal(t)]
      BY <1>5 DEF YinInv
    <3>. QED BY <1>1, <1>5, <2>0, <3>1
  <2>2. CASE Search
    <3>1. /\ yin_step = "search" /\ tau \in tau_search_min..tau_max + 1 /\ tau <= tau_max
          /\ \A t \in tau_search_min..tau - 1 : ~IsDip(t)
      BY <2>2 DEF Search, YinInv
    <3>2. tau \in tau_search_min..tau_max BY <1>2, <3>1
    <3>3. CASE IsDip(tau)
      <4>1. yin_step' = "accept" /\ chosen_tau' = tau BY <2>2, <3>3 DEF Search
      <4>2. IsFound(tau) BY <3>1, <3>2, <3>3 DEF IsFound
      <4>3. IsFound(chosen_tau)' BY <2>0, <1>1, <4>1, <4>2 DEF IsFound
      <4>. QED BY <1>1, <1>2, <2>1, <4>1, <4>3 DEF YinInv
    <3>4. CASE ~IsDip(tau)
      <4>1. yin_step' = "search" /\ tau' = tau + 1 BY <2>2, <3>1, <3>4 DEF Search
      <4>2. tau' \in tau_search_min..tau_max + 1 BY <1>2, <3>2, <4>1
      <4>3. \A t \in tau_search_min..tau' - 1 : t = tau \/ t \in tau_search_min..tau - 1
        BY <1>2, <3>2, <4>1
      <4>4. \A t \in tau_search_min'..tau' - 1 : ~IsDip(t)' BY <1>1, <2>0, <3>1, <3>4, <4>3
      <4>. QED BY <1>1, <1>2, <2>1, <4>1, <4>2, <4>4 DEF YinInv
    <3>. QED BY <3>3, <3>4
  <2>3. CASE Fallback
    <3>1. /\ tau \in tau_search_min..tau_max + 1 /\ tau > tau_max
          /\ \A t \in tau_search_min..tau - 1 : ~IsDip(t)
          /\ yin_step' = "accept"
      BY <2>3 DEF Fallback, YinInv
    <3>2. \A t \in tau_search_min..tau_max : ~IsDip(t)
      <4>1. tau - 1 = tau_max BY <1>2, <3>1
      <4>. QED BY <3>1, <4>1
    <3>. DEFINE range == tau_search_min..tau_max
                lowest == {t \in range : \A u \in range : ~Less(dprime[u], dprime[t])}
    <3>3. lowest # {}
      <4>1. \A t \in range : dprime[t].num \in Nat /\ dprime[t].den \in Nat \ {0}
        <5>1. diff = [t \in Lags |-> Difference(t)] /\ dprime = [t \in Lags |-> Normal(t)]
          BY <1>5 DEF YinInv
        <5>2. \A t \in range : t \in Lags BY <1>2 DEF Lags
        <5>3. \A t \in range : dprime[t] = Normal(t) BY <5>1, <5>2
        <5>. QED BY <1>2, <5>1, <5>2, <5>3, NormalIsFraction
      <4>2. tau_search_min \in Nat /\ tau_max \in Nat /\ tau_search_min <= tau_max BY <1>2
      <4>3. \E t \in range : \A u \in range : ~Less(dprime[u], dprime[t])
        BY <4>1, <4>2, LowestFraction
      <4>. QED BY <4>3
    <3>4. \E t \in lowest : \A u \in lowest : t <= u
      <4>1. lowest \in SUBSET Nat BY <1>2
      <4>. HIDE DEF lowest
      <4>. QED BY <3>3, <4>1, LeastNat
    <3>5. chosen_tau' = CHOOSE t \in lowest : \A u \in lowest : t <= u BY <2>3 DEF Fallback
    <3>6. chosen_tau' \in lowest
      <4>. HIDE DEF lowest
      <4>. QED BY <3>4, <3>5
    <3>7. IsFound(chosen_tau)'
      <4>1. chosen_tau' \in tau_search_min'..tau_max' BY <1>1, <3>6
      <4>2. \A t \in tau_search_min'..tau_max' : ~IsDip(t)' BY <1>1, <2>0, <3>2
      <4>. QED BY <4>1, <4>2 DEF IsFound
    <3>. QED BY <1>1, <1>2, <2>1, <3>1, <3>7 DEF YinInv
  <2>4. CASE Accept
    <3>1. /\ IsFound(chosen_tau) /\ yin_step' = "held"
          /\ chosen_tau' = IF Accepted(chosen_tau) THEN chosen_tau ELSE NoLag
      BY <2>4 DEF Accept, YinInv
    <3>2. PICK c : c = chosen_tau OBVIOUS
    <3>3. c \in tau_search_min'..tau_max' /\ IsFound(c)' /\ NoLag' = NoLag
      BY <1>1, <2>0, <3>1, <3>2 DEF IsFound, NoLag
    <3>4. chosen_tau' = IF Accepted(c)' THEN c ELSE NoLag' BY <2>0, <3>1, <3>2, <3>3
    <3>. QED BY <1>1, <1>2, <2>1, <3>1, <3>3, <3>4 DEF YinInv
  <2>5. CASE UNCHANGED yin_vars
    <3>1. tau' = tau /\ chosen_tau' = chosen_tau /\ yin_step' = yin_step BY <2>5 DEF yin_vars
    <3>2. yin_step = "search" =>
            tau' \in tau_search_min'..tau_max' + 1
              /\ \A t \in tau_search_min'..tau' - 1 : ~IsDip(t)'
      BY <1>1, <2>0, <3>1 DEF YinInv
    <3>3. yin_step = "accept" => IsFound(chosen_tau)'
      BY <1>1, <2>0, <3>1 DEF YinInv, IsFound
    <3>4. yin_step = "held" =>
            \E c \in tau_search_min'..tau_max' :
              IsFound(c)' /\ chosen_tau' = IF Accepted(c)' THEN c ELSE NoLag'
      BY <1>1, <2>0, <3>1 DEF YinInv, NoLag
    <3>. QED BY <1>1, <1>2, <1>5, <2>1, <3>1, <3>2, <3>3, <3>4 DEF YinInv
  <2>6. Search \/ Fallback \/ Accept \/ UNCHANGED yin_vars
    BY <1>5 DEF YinNext, DifferenceFunction, Normalise
  <2>. QED BY <2>2, <2>3, <2>4, <2>5, <2>6
<1>6. CASE UNCHANGED yin_vars
  <2>1. \A t : Difference(t)' = Difference(t) BY <1>1 DEF Difference
  <2>2. CASE yin_step \in {"difference", "normalise"}
    <3>1. yin_step' = yin_step /\ diff' = diff /\ tau' = tau BY <1>6 DEF yin_vars
    <3>2. yin_step = "normalise" => (diff = [t \in Lags |-> Difference(t)])'
      BY <1>1, <2>1, <3>1 DEF YinInv
    <3>. QED BY <1>1, <1>2, <2>2, <3>1, <3>2 DEF YinInv
  <2>3. CASE yin_step \in {"search", "accept", "held"}
    BY <1>5, <1>6, <2>3 DEF yin_vars
  <2>. QED BY <2>2, <2>3 DEF YinInv
<1>7. CASE Search \/ Fallback \/ Accept
  BY <1>5, <1>7 DEF Search, Fallback, Accept
<1>. QED BY <1>3, <1>4, <1>6, <1>7 DEF YinNext

\* The period of a window that repeats is the first lag at which it does.
LEMMA PeriodIsFirst ==
  ASSUME yin_window \in Windows, Repeats # {}
  PROVE  Period \in Repeats /\ Period \in Nat /\ \A u \in Repeats : Period <= u
<1>1. Repeats \in SUBSET Nat BY LagsExist DEF Repeats
<1>2. \E t \in Repeats : \A u \in Repeats : t <= u BY <1>1, LeastNat
<1>. QED BY <1>1, <1>2 DEF Period

LEMMA YinInvPitch == YinInv => PeriodIsHeard
<1>. SUFFICES ASSUME YinInv, yin_step = "held"
              PROVE  /\ 1 \in Repeats => chosen_tau = NoLag
                     /\ Repeats # {} /\ Period \in tau_search_min..tau_max =>
                          /\ chosen_tau <= Period
                          /\ (\A t \in tau_search_min..Period - 1 : ~Less(dprime[t], yin_threshold)) =>
                               chosen_tau = IF Period \in tau_min..tau_max - 1 THEN Period ELSE NoLag
  BY DEF PeriodIsHeard
<1>1. /\ yin_window \in Windows /\ tau_max \in 2..half /\ half \in Nat
      /\ tau_min \in 1..tau_max /\ tau_search_min \in 2..tau_max
  BY LagsExist DEF YinInv
<1>2. PICK c \in tau_search_min..tau_max :
        IsFound(c) /\ chosen_tau = IF Accepted(c) THEN c ELSE NoLag
  BY DEF YinInv
<1>3. diff = [t \in Lags |-> Difference(t)] /\ dprime = [t \in Lags |-> Normal(t)]
  BY DEF YinInv
<1>4. \A t \in 1..tau_max : t \in Lags /\ dprime[t] = Normal(t) BY <1>3 DEF Lags
<1>5. c \in 1..tau_max /\ c \in Nat BY <1>1, <1>2
<1>6. ASSUME 1 \in Repeats PROVE chosen_tau = NoLag
  <2>1. \A u \in 1..c : RepeatsAfter(u)
    <3>1. RepeatsAfter(1) BY <1>6 DEF Repeats
    <3>2. Len(yin_window) \in Nat BY <1>1, LagsExist
    <3>. DEFINE T == {u \in 1..c : RepeatsAfter(u)}
    <3>3. 1 <= c => 1 \in T BY <1>5, <3>1
    <3>4. ASSUME NEW u \in 1..c, u < c, u \in T PROVE u + 1 \in T
      <4>1. \A j \in 1..Len(yin_window) - (u + 1) :
              yin_window[j] = yin_window[j + u] /\ yin_window[j + u] = yin_window[j + (u + 1)]
        <5>. SUFFICES ASSUME NEW j \in 1..Len(yin_window) - (u + 1)
                      PROVE  yin_window[j] = yin_window[j + u]
                             /\ yin_window[j + u] = yin_window[j + (u + 1)]
          OBVIOUS
        <5>1. j \in 1..Len(yin_window) - u /\ j + u \in 1..Len(yin_window) - 1
              /\ (j + u) + 1 = j + (u + 1) BY <1>5, <3>2
        <5>2. RepeatsAfter(u) BY <3>4
        <5>. QED BY <3>1, <5>1, <5>2 DEF RepeatsAfter
      <4>2. RepeatsAfter(u + 1) BY <4>1 DEF RepeatsAfter
      <4>. QED BY <1>5, <3>4, <4>2
    <3>. HIDE DEF T
    <3>5. 1..c \subseteq T BY <1>5, <3>3, <3>4, RangeInduction, 1 \in Nat
    <3>. QED BY <3>5 DEF T
  <2>2. dprime[c].num = 1 /\ dprime[c].den = 1
    BY <1>1, <1>3, <1>4, <1>5, <2>1, NormalIsFraction
  <2>3. ~Accepted(c)
    <3>1. Less(UnvoicedThreshold, dprime[c])
      <4>1. UnvoicedThreshold.num = 4 /\ UnvoicedThreshold.den = 5
        BY DEF UnvoicedThreshold, Fraction
      <4>. QED BY <2>2, <4>1 DEF Less
    <3>. QED BY <3>1 DEF Accepted
  <2>. QED BY <1>2, <2>3
<1>7. ASSUME Repeats # {}, Period \in tau_search_min..tau_max
      PROVE  /\ chosen_tau <= Period
             /\ (\A t \in tau_search_min..Period - 1 : ~Less(dprime[t], yin_threshold)) =>
                  chosen_tau = IF Period \in tau_min..tau_max - 1 THEN Period ELSE NoLag
  <2>1. PICK p : p = Period OBVIOUS
  <2>2. /\ p \in tau_search_min..tau_max /\ p \in Repeats /\ \A u \in Repeats : p <= u
        /\ p \in 2..tau_max /\ RepeatsAfter(p)
    BY <1>1, <1>7, <2>1, PeriodIsFirst DEF Repeats
  <2>3. \A u \in 1..p - 1 : ~RepeatsAfter(u) BY <1>1, <2>2 DEF Repeats
  <2>4. ~RepeatsAfter(1)
    <3>1. 1 \in 1..p - 1 BY <2>2, <1>1
    <3>. QED BY <2>3, <3>1
  <2>5. \A t \in 1..tau_max : /\ dprime[t].num \in Nat /\ dprime[t].den \in Nat \ {0}
                              /\ dprime[t].num = t * diff[t]
                              /\ diff[t] \in Nat /\ (diff[t] = 0 <=> RepeatsAfter(t))
    <3>. SUFFICES ASSUME NEW t \in 1..tau_max
                  PROVE  /\ dprime[t].num \in Nat /\ dprime[t].den \in Nat \ {0}
                         /\ dprime[t].num = t * diff[t]
                         /\ diff[t] \in Nat /\ (diff[t] = 0 <=> RepeatsAfter(t))
      OBVIOUS
    <3>1. RunningSum(t) \in Nat /\ RunningSum(t) # 0
      <4>1. 1 \in 1..t BY <1>1
      <4>. QED BY <1>1, <1>3, <1>4, <2>4, <4>1, NormalIsFraction
    <3>2. RunningSum(t) > 0 BY <3>1
    <3>. QED BY <1>1, <1>3, <1>4, <3>2, NormalIsFraction
  <2>6. dprime[p].num = 0
    <3>1. diff[p] = 0 /\ p \in Nat BY <1>1, <2>2, <2>5
    <3>. QED BY <1>1, <2>2, <2>5, <3>1
  <2>7. \A f : f.num \in Nat /\ f.den \in Nat => ~Less(f, dprime[p])
    <3>. SUFFICES ASSUME NEW f, f.num \in Nat, f.den \in Nat PROVE ~Less(f, dprime[p])
      OBVIOUS
    <3>1. f.num * dprime[p].den \in Nat /\ 0 * f.den = 0
      <4>1. dprime[p].den \in Nat BY <2>2, <2>5, <1>1
      <4>. QED BY <4>1
    <3>. QED BY <2>6, <3>1 DEF Less
  <2>8. Less(dprime[p], yin_threshold)
    <3>1. yin_threshold.num \in Nat \ {0} /\ yin_threshold.den \in Nat BY YinHasLags
    <3>2. dprime[p].den \in Nat \ {0} BY <1>1, <2>2, <2>5
    <3>3. 0 * yin_threshold.den = 0 /\ yin_threshold.num * dprime[p].den > 0
      BY ONLY <3>1, <3>2
    <3>. QED BY <2>6, <3>3 DEF Less
  <2>9. IsDip(p)
    <3>1. p > tau_search_min => Less(dprime[p], dprime[p - 1])
      <4>1. p - 1 \in 1..p - 1 /\ p - 1 \in 1..tau_max BY <1>1, <2>2
      <4>2. diff[p - 1] \in Nat \ {0} /\ p - 1 \in Nat \ {0} BY <2>3, <2>5, <4>1
      <4>3. dprime[p - 1].num = (p - 1) * diff[p - 1] /\ dprime[p - 1].den \in Nat
        BY <2>5, <4>1
      <4>4. (p - 1) * diff[p - 1] \in Nat \ {0}
        <5>1. \A x, y \in Nat \ {0} : x * y \in Nat \ {0}
          <6>1. \A x, y \in Nat \ {0} : x * y \in Nat /\ x * y >= x OBVIOUS
          <6>. QED BY <6>1
        <5>. QED BY ONLY <4>2, <5>1
      <4>5. dprime[p].den \in Nat \ {0} BY <1>1, <2>2, <2>5
      <4>6. 0 * dprime[p - 1].den = 0 /\ dprime[p - 1].num * dprime[p].den > 0
        BY ONLY <4>3, <4>4, <4>5
      <4>. QED BY <2>6, <4>6 DEF Less
    <3>2. p < tau_max => ~Less(dprime[p + 1], dprime[p])
      <4>. SUFFICES ASSUME p < tau_max PROVE ~Less(dprime[p + 1], dprime[p]) OBVIOUS
      <4>1. p + 1 \in 1..tau_max BY <1>1, <2>2
      <4>2. dprime[p + 1].num \in Nat /\ dprime[p + 1].den \in Nat BY <2>5, <4>1
      <4>. QED BY <2>7, <4>2
    <3>. QED BY <2>8, <3>1, <3>2 DEF IsDip
  <2>10. c <= p /\ IsDip(c)
    <3>1. IsDip(c) /\ \A t \in tau_search_min..c - 1 : ~IsDip(t)
      BY <1>2, <2>2, <2>9 DEF IsFound
    <3>2. ~(p \in tau_search_min..c - 1) BY <2>9, <3>1
    <3>. QED BY <1>1, <1>5, <2>2, <3>1, <3>2
  <2>11. chosen_tau <= p BY <1>2, <1>5, <2>2, <2>10, <1>1 DEF NoLag
  <2>12. ASSUME \A t \in tau_search_min..p - 1 : ~Less(dprime[t], yin_threshold)
         PROVE  chosen_tau = IF p \in tau_min..tau_max - 1 THEN p ELSE NoLag
    <3>1. Less(dprime[c], yin_threshold) BY <2>10 DEF IsDip
    <3>2. c = p
      <4>1. ~(c \in tau_search_min..p - 1) BY <2>12, <3>1
      <4>. QED BY <1>1, <1>2, <2>2, <2>10, <4>1
    <3>3. ~Less(UnvoicedThreshold, dprime[p])
      <4>1. UnvoicedThreshold.num = 4 /\ UnvoicedThreshold.den = 5
        BY DEF UnvoicedThreshold, Fraction
      <4>. QED BY <2>7, <4>1
    <3>4. Accepted(p) <=> p \in tau_min..tau_max - 1
      BY <1>1, <2>2, <3>3 DEF Accepted
    <3>. QED BY <1>2, <3>2, <3>4
  <2>. QED BY <2>1, <2>11, <2>12
<1>. QED BY <1>6, <1>7

\* For every window, range of pitches and threshold: what repeats is heard at its period
\* and never an octave below, and silence has no pitch (PitchYin::analyse).
THEOREM PeriodIsHeardAlways == YinSpec => []PeriodIsHeard
<1>1. YinInit => YinInv BY YinInitially
<1>2. YinInv /\ [YinNext]_yin_vars => YinInv' BY YinStep
<1>3. YinInv => PeriodIsHeard BY YinInvPitch
<1>. QED BY <1>1, <1>2, <1>3, PTL DEF YinSpec

-----------------------------------------------------------------------------
(* The gaps of a pitch contour. *)

GapSteps == {"voiced", "rejected", "gaps", "filled"}
FourierSteps == {"permute", "stages", "transformed"}
PeakSteps == {"peak", "median", "judged"}

(* On the straight line between the voiced slots around it. *)
IsStraight(k) ==
    \E a, b \in Voiced :
      /\ a < k /\ k < b
      /\ \A j \in a + 1..b - 1 : j \notin Voiced
      /\ (grid[k] - grid[a]) * (b - a) = (grid[b] - grid[a]) * (k - a)

(* Filled up to the anchor, and from there on as it was. *)
FilledTo ==
    /\ FirstVoiced \in Voiced /\ LastVoiced \in Voiced /\ anchor \in Voiced
    /\ \A k \in Voiced : FirstVoiced <= k /\ k <= LastVoiced /\ grid[k] = contour[k]
    /\ DOMAIN grid = GridSlots /\ \A k \in GridSlots : grid[k] \in Int
    /\ \A k \in anchor..LastVoiced : grid[k] = contour[k]
    /\ \A k \in GridSlots \ Voiced :
         /\ k < FirstVoiced => grid[k] = contour[FirstVoiced]
         /\ k > LastVoiced => grid[k] = contour[LastVoiced]
         /\ FirstVoiced < k /\ k < anchor => IsStraight(k)

GapsInv ==
    /\ vibrato_step \in GapSteps \cup FourierSteps \cup PeakSteps
    /\ vibrato_step \in GapSteps => contour \in Contours
    /\ vibrato_step \in {"gaps", "filled"} /\ GridSlots # {} => FilledTo
    /\ vibrato_step = "filled" /\ GridSlots # {} => anchor = LastVoiced

\* The voiced slots of a contour that has any lie between the first and the last.
LEMMA VoicedEnds ==
  ASSUME contour \in Contours, Voiced # {}
  PROVE  /\ GridSlots = 1..Len(contour) /\ Len(contour) \in Nat
         /\ \A k \in GridSlots : contour[k] \in Int
         /\ FirstVoiced \in Voiced /\ LastVoiced \in Voiced /\ Voiced \subseteq GridSlots
         /\ \A k \in Voiced : FirstVoiced <= k /\ k <= LastVoiced /\ k \in Nat
<1>1. contour \in Seq(Int) BY GapsDivide
<1>2. GridSlots = 1..Len(contour) /\ Len(contour) \in Nat
      /\ \A k \in GridSlots : contour[k] \in Int
  BY <1>1, LenProperties, ElementOfSeq DEF GridSlots
<1>3. Voiced \subseteq GridSlots /\ Voiced \in SUBSET Nat BY <1>2 DEF Voiced
<1>4. \E k \in Voiced : \A j \in Voiced : k <= j BY <1>3, LeastNat
<1>5. FirstVoiced \in Voiced /\ \A j \in Voiced : FirstVoiced <= j
  BY <1>4 DEF FirstVoiced
<1>6. \E k \in Voiced : \A j \in Voiced : j <= k
  <2>. DEFINE T == {m \in Nat : \A j \in Voiced : j <= m}
  <2>1. Len(contour) \in T BY <1>2, <1>3
  <2>2. PICK m \in T : \A x \in T : m <= x
    <3>1. T \in SUBSET Nat /\ T # {} BY <2>1
    <3>. HIDE DEF T
    <3>. QED BY <3>1, LeastNat
  <2>3. m \in Voiced
    <3>. SUFFICES ASSUME m \notin Voiced PROVE FALSE OBVIOUS
    <3>1. \A j \in Voiced : j <= m /\ j \in Nat /\ j # m /\ j >= 1 BY <1>2, <1>3, <2>2
    <3>2. m \in Nat /\ m >= 1 BY <1>5, <3>1
    <3>3. \A j \in Voiced : j <= m - 1 BY <3>1, <3>2
    <3>4. m - 1 \in T BY <3>2, <3>3
    <3>. QED BY <2>2, <3>2, <3>4
  <2>. QED BY <2>2, <2>3
<1>7. LastVoiced \in Voiced /\ \A j \in Voiced : j <= LastVoiced
  BY <1>6 DEF LastVoiced
<1>. QED BY <1>2, <1>3, <1>5, <1>7

\* A contour of at least half its slots voiced has a voiced slot, if it has a slot.
LEMMA SomeAreVoiced ==
  ASSUME contour \in Contours, GridSlots # {}, 2 * Cardinality(Voiced) >= Len(contour)
  PROVE  Voiced # {}
<1>. SUFFICES ASSUME Voiced = {} PROVE FALSE OBVIOUS
<1>1. Cardinality(Voiced) = 0 BY FS_EmptySet
<1>2. contour \in Seq(Int) BY GapsDivide
<1>3. GridSlots = 1..Len(contour) /\ Len(contour) \in Nat BY <1>2, LenProperties DEF GridSlots
<1>. QED BY <1>1, <1>3

LEMMA GapsInitially == VibratoInit => GapsInv
<1>. SUFFICES ASSUME VibratoInit PROVE GapsInv OBVIOUS
<1>. QED BY DEF VibratoInit, GapsInv, GapSteps, FourierSteps, PeakSteps

\* What depends on the contour alone stays with it.
LEMMA SameVoiced ==
  ASSUME contour' = contour
  PROVE  /\ GridSlots' = GridSlots /\ Voiced' = Voiced
         /\ FirstVoiced' = FirstVoiced /\ LastVoiced' = LastVoiced
<1>1. GridSlots' = GridSlots BY DEF GridSlots
<1>2. Voiced' = Voiced BY <1>1 DEF Voiced
<1>. QED BY <1>1, <1>2 DEF FirstVoiced, LastVoiced

\* A gap that is filled is filled straight, and nothing else is touched.
LEMMA FillGapStep ==
  ASSUME contour \in Contours, GridSlots # {}, FilledTo, FillGap
  PROVE  FilledTo'
<1>. DEFINE F == FirstVoiced
            L == LastVoiced
<1>1. contour' = contour BY DEF FillGap
<1>2. /\ GridSlots' = GridSlots /\ Voiced' = Voiced
      /\ FirstVoiced' = FirstVoiced /\ LastVoiced' = LastVoiced
  BY <1>1, SameVoiced
<1>3. /\ GridSlots = 1..Len(contour) /\ Len(contour) \in Nat
      /\ \A k \in GridSlots : contour[k] \in Int
      /\ F \in Voiced /\ L \in Voiced /\ Voiced \subseteq GridSlots
      /\ \A k \in Voiced : F <= k /\ k <= L /\ k \in Nat
  <2>1. Voiced # {} BY DEF FilledTo
  <2>. QED BY <2>1, VoicedEnds
<1>4. PICK b \in anchor + 1..L :
         /\ grid[b] # Unvoiced
         /\ \A k \in anchor + 1..b - 1 : grid[k] = Unvoiced
         /\ grid' = [k \in GridSlots |->
                       IF anchor < k /\ k < b THEN Between(anchor, b, k) ELSE grid[k]]
         /\ anchor' = b
  BY DEF FillGap
<1>5. PICK a : a = anchor OBVIOUS
<1>6. a \in Voiced /\ a \in Nat /\ F \in Nat /\ L \in Nat /\ b \in Nat /\ a < b /\ b <= L /\ F <= a
  BY <1>3, <1>4, <1>5 DEF FilledTo
<1>7. \A k \in a + 1..b : k \in GridSlots /\ grid[k] = contour[k]
  <2>1. \A k \in a + 1..b : k \in a..L /\ k \in GridSlots BY <1>3, <1>6
  <2>. QED BY <1>5, <2>1 DEF FilledTo
<1>8. b \in Voiced /\ \A k \in a + 1..b - 1 : k \notin Voiced
  <2>1. b \in a + 1..b BY <1>6
  <2>2. b \in Voiced BY <1>4, <1>7, <2>1 DEF Voiced
  <2>3. \A k \in a + 1..b - 1 : k \in a + 1..b /\ grid[k] = Unvoiced
    BY <1>4, <1>5, <1>6
  <2>4. \A k \in a + 1..b - 1 : k \notin Voiced BY <1>7, <2>3 DEF Voiced
  <2>. QED BY <2>2, <2>4
<1>9. grid[a] = contour[a] /\ grid[b] = contour[b] /\ grid[a] \in Int /\ grid[b] \in Int
  BY <1>3, <1>6, <1>8 DEF FilledTo
<1>10. PICK q \in Int : grid[b] - grid[a] = (b - a) * q
  <2>1. (contour[b] - contour[a]) % (b - a) = 0
    <3>1. a \in DOMAIN contour /\ b \in DOMAIN contour /\ contour[a] # Unvoiced
          /\ contour[b] # Unvoiced
      BY <1>3, <1>6, <1>8 DEF Voiced, GridSlots
    <3>. QED BY <1>6, <3>1, GapsDivide
  <2>. DEFINE x == contour[b] - contour[a]
              d == b - a
  <2>2. x \in Int /\ d \in Nat \ {0} /\ x % d = 0 BY <1>3, <1>6, <1>8, <2>1
  <2>. HIDE DEF x, d
  <2>3. x = d * (x \div d) + (x % d) /\ x \div d \in Int BY <2>2
  <2>4. x = d * (x \div d) BY <2>2, <2>3
  <2>5. grid[b] - grid[a] = x BY <1>9 DEF x
  <2>. QED BY <2>3, <2>4, <2>5 DEF d
<1>11. \A k \in a + 1..b - 1 : grid'[k] = grid[a] + (k - a) * q /\ grid'[k] \in Int
  <2>. SUFFICES ASSUME NEW k \in a + 1..b - 1
                PROVE  grid'[k] = grid[a] + (k - a) * q /\ grid'[k] \in Int
    OBVIOUS
  <2>1. k \in GridSlots /\ a < k /\ k < b /\ k \in Nat BY <1>6, <1>7
  <2>2. grid'[k] = Between(a, b, k) BY <1>4, <1>5, <2>1
  <2>3. (k - a) * ((b - a) * q) = (b - a) * ((k - a) * q)
    BY ONLY <1>6, <2>1, q \in Int
  <2>4. ((b - a) * ((k - a) * q)) \div (b - a) = (k - a) * q
    <3>1. b - a \in Nat \ {0} /\ (k - a) * q \in Int BY ONLY <1>6, <2>1, q \in Int
    <3>. QED BY <3>1, ExactDivision
  <2>5. Between(a, b, k) = grid[a] + (k - a) * q BY <1>10, <2>3, <2>4 DEF Between
  <2>6. (k - a) * q \in Int BY ONLY <1>6, <2>1, q \in Int
  <2>. QED BY <1>9, <2>2, <2>5, <2>6
<1>12. \A k \in GridSlots : k \notin a + 1..b - 1 => grid'[k] = grid[k]
  <2>1. \A k \in GridSlots : k \notin a + 1..b - 1 => ~(a < k /\ k < b) BY <1>3, <1>6
  <2>. QED BY <1>4, <1>5, <2>1
<1>13. DOMAIN grid' = GridSlots /\ \A k \in GridSlots : grid'[k] \in Int
  <2>1. DOMAIN grid' = GridSlots BY <1>4
  <2>2. \A k \in GridSlots : grid[k] \in Int BY DEF FilledTo
  <2>. QED BY <1>11, <1>12, <2>1, <2>2
<1>14. \A k \in Voiced : grid'[k] = grid[k] BY <1>3, <1>8, <1>12
<1>15. \A k \in Voiced : F <= k /\ k <= L /\ grid'[k] = contour[k]
  BY <1>3, <1>14 DEF FilledTo
<1>16. \A k \in b..L : grid'[k] = contour[k]
  <2>1. \A k \in b..L : k \in a..L /\ k \in GridSlots /\ k \notin a + 1..b - 1
    BY <1>3, <1>6
  <2>2. \A k \in b..L : grid[k] = contour[k] BY <1>5, <2>1 DEF FilledTo
  <2>. QED BY <1>12, <2>1, <2>2
<1>17. ASSUME NEW k \in GridSlots \ Voiced
       PROVE  /\ k < F => grid'[k] = contour[F]
              /\ k > L => grid'[k] = contour[L]
              /\ F < k /\ k < b => IsStraight(k)'
  <2>0. k \in Nat BY <1>3
  <2>1. k < F => grid'[k] = contour[F]
    <3>1. k < F => k \notin a + 1..b - 1 BY <1>6, <2>0
    <3>. QED BY <1>12, <3>1 DEF FilledTo
  <2>2. k > L => grid'[k] = contour[L]
    <3>1. k > L => k \notin a + 1..b - 1 BY <1>6, <2>0
    <3>. QED BY <1>12, <3>1 DEF FilledTo
  <2>3. ASSUME F < k, k < a PROVE IsStraight(k)'
    <3>1. IsStraight(k) BY <1>5, <2>3 DEF FilledTo
    <3>2. k \notin a + 1..b - 1 BY <1>6, <2>0, <2>3
    <3>3. grid'[k] = grid[k] BY <1>12, <3>2
    <3>4. PICK u, v \in Voiced :
            /\ u < k /\ k < v
            /\ \A j \in u + 1..v - 1 : j \notin Voiced
            /\ (grid[k] - grid[u]) * (v - u) = (grid[v] - grid[u]) * (k - u)
      BY <3>1 DEF IsStraight
    <3>5. (grid'[k] - grid'[u]) * (v - u) = (grid'[v] - grid'[u]) * (k - u)
      BY <1>14, <3>3, <3>4
    <3>. QED BY <1>2, <3>4, <3>5 DEF IsStraight
  <2>4. ASSUME a < k, k < b PROVE IsStraight(k)'
    <3>1. k \in a + 1..b - 1 BY <1>6, <2>0, <2>4
    <3>2. grid'[k] = grid[a] + (k - a) * q BY <1>11, <3>1
    <3>3. grid'[a] = grid[a] /\ grid'[b] = grid[b] BY <1>6, <1>8, <1>14
    <3>4. (k - a) * q \in Int /\ ((k - a) * q) * (b - a) = ((b - a) * q) * (k - a)
      BY ONLY <1>6, <2>0, q \in Int
    <3>5. grid'[k] - grid'[a] = (k - a) * q BY <1>9, <3>2, <3>3, <3>4
    <3>6. grid'[b] - grid'[a] = (b - a) * q BY <1>10, <3>3
    <3>7. (grid'[k] - grid'[a]) * (b - a) = (grid'[b] - grid'[a]) * (k - a)
      BY <3>4, <3>5, <3>6
    <3>. QED BY <1>2, <1>6, <1>8, <2>4, <3>7 DEF IsStraight
  <2>5. k # a BY <1>6
  <2>. QED BY <1>6, <2>0, <2>1, <2>2, <2>3, <2>4, <2>5
<1>18. anchor' = b BY <1>4
<1>. QED BY <1>1, <1>2, <1>3, <1>8, <1>13, <1>15, <1>16, <1>17, <1>18 DEF FilledTo

\* The ends are held, and the rest is as it was.
LEMMA FillEndsStep ==
  ASSUME contour \in Contours, GridSlots # {}, FillEnds
  PROVE  FilledTo'
<1>1. contour' = contour BY DEF FillEnds
<1>2. /\ GridSlots' = GridSlots /\ Voiced' = Voiced
      /\ FirstVoiced' = FirstVoiced /\ LastVoiced' = LastVoiced
  BY <1>1, SameVoiced
<1>3. /\ GridSlots = 1..Len(contour) /\ Len(contour) \in Nat
      /\ \A k \in GridSlots : contour[k] \in Int
      /\ FirstVoiced \in Voiced /\ LastVoiced \in Voiced /\ Voiced \subseteq GridSlots
      /\ \A k \in Voiced : FirstVoiced <= k /\ k <= LastVoiced /\ k \in Nat
  <2>1. Voiced # {} BY SomeAreVoiced DEF FillEnds
  <2>. QED BY <2>1, VoicedEnds
<1>4. /\ grid' = [k \in GridSlots |-> IF k < FirstVoiced THEN contour[FirstVoiced]
                                ELSE IF k > LastVoiced THEN contour[LastVoiced]
                                ELSE contour[k]]
      /\ anchor' = FirstVoiced
  BY DEF FillEnds
<1>5. \A k \in GridSlots :
        /\ k < FirstVoiced => grid'[k] = contour[FirstVoiced]
        /\ k > LastVoiced => grid'[k] = contour[LastVoiced]
        /\ FirstVoiced <= k /\ k <= LastVoiced => grid'[k] = contour[k]
  BY <1>3, <1>4
<1>6. \A k \in FirstVoiced..LastVoiced : k \in GridSlots /\ FirstVoiced <= k /\ k <= LastVoiced
  BY <1>3
<1>7. DOMAIN grid' = GridSlots /\ \A k \in GridSlots : grid'[k] \in Int
  BY <1>3, <1>4, <1>5
<1>8. \A k \in GridSlots \ Voiced : ~(FirstVoiced < k /\ k < FirstVoiced) BY <1>3
<1>. QED BY <1>1, <1>2, <1>3, <1>4, <1>5, <1>6, <1>7, <1>8 DEF FilledTo

LEMMA GapsStep == GapsInv /\ [VibratoNext]_vibrato_vars => GapsInv'
<1>. SUFFICES ASSUME GapsInv, [VibratoNext]_vibrato_vars PROVE GapsInv' OBVIOUS
<1>. USE DEF GapSteps, FourierSteps, PeakSteps
<1>1. CASE TooFewVoiced
  BY <1>1 DEF TooFewVoiced, GapsInv, gap_vars
<1>2. CASE FillEnds
  <2>1. contour \in Contours /\ contour' = contour /\ vibrato_step' = "gaps"
    BY <1>2 DEF FillEnds, GapsInv
  <2>2. GridSlots' = GridSlots BY <2>1, SameVoiced
  <2>3. GridSlots # {} => FilledTo' BY <1>2, <2>1, FillEndsStep
  <2>. QED BY <2>1, <2>2, <2>3 DEF GapsInv
<1>3. CASE FillGap
  <2>1. contour \in Contours /\ contour' = contour /\ vibrato_step = "gaps"
        /\ vibrato_step' = "gaps"
    BY <1>3 DEF FillGap, GapsInv
  <2>2. GridSlots' = GridSlots BY <2>1, SameVoiced
  <2>3. GridSlots # {} => FilledTo' BY <1>3, <2>1, FillGapStep DEF GapsInv
  <2>. QED BY <2>1, <2>2, <2>3 DEF GapsInv
<1>4. CASE UNCHANGED gap_vars /\ (vibrato_step' = vibrato_step \/ GapsFilled)
  <2>1. contour' = contour /\ grid' = grid /\ anchor' = anchor BY <1>4 DEF gap_vars
  <2>2. /\ GridSlots' = GridSlots /\ Voiced' = Voiced
        /\ FirstVoiced' = FirstVoiced /\ LastVoiced' = LastVoiced
    BY <2>1, SameVoiced
  <2>3. \A k : IsStraight(k)' <=> IsStraight(k) BY <2>1, <2>2 DEF IsStraight
  <2>4. FilledTo' <=> FilledTo BY <2>1, <2>2, <2>3 DEF FilledTo
  <2>5. CASE vibrato_step' = vibrato_step BY <2>1, <2>2, <2>4, <2>5 DEF GapsInv
  <2>6. CASE GapsFilled
    <3>1. vibrato_step = "gaps" /\ vibrato_step' = "filled" /\ anchor = LastVoiced
      BY <2>6 DEF GapsFilled
    <3>. QED BY <2>1, <2>2, <2>4, <3>1 DEF GapsInv
  <2>. QED BY <1>4, <2>5, <2>6
<1>5. CASE UNCHANGED gap_vars /\ vibrato_step' \in FourierSteps \cup PeakSteps
  BY <1>5 DEF GapsInv, gap_vars
<1>6. CASE GapsFilled BY <1>4, <1>6 DEF GapsFilled
<1>7. CASE Permute \/ Butterflies \/ Transformed
  <2>1. UNCHANGED gap_vars /\ vibrato_step' \in FourierSteps
    BY <1>7 DEF Permute, Butterflies, Transformed
  <2>. QED BY <1>5, <2>1
<1>8. CASE FindPeak \/ SelectNext \/ Dominates
  <2>1. UNCHANGED gap_vars /\ vibrato_step' \in PeakSteps
    BY <1>8 DEF FindPeak, SelectNext, Dominates
  <2>. QED BY <1>5, <2>1
<1>9. CASE UNCHANGED vibrato_vars
  <2>1. UNCHANGED gap_vars /\ vibrato_step' = vibrato_step BY <1>9 DEF vibrato_vars, gap_vars
  <2>. QED BY <1>4, <2>1
<1>. QED BY <1>1, <1>2, <1>3, <1>6, <1>7, <1>8, <1>9 DEF VibratoNext

LEMMA GapsInvStraight == GapsInv => GapsAreStraight
<1>. SUFFICES ASSUME GapsInv, vibrato_step = "filled" PROVE GapsAreStraight
  BY DEF GapsAreStraight
<1>1. contour \in Contours BY DEF GapsInv, GapSteps
<1>2. CASE GridSlots = {}
  BY <1>2 DEF GapsAreStraight, Voiced
<1>3. CASE GridSlots # {}
  <2>1. FilledTo /\ anchor = LastVoiced BY <1>3 DEF GapsInv
  <2>2. /\ GridSlots = 1..Len(contour) /\ Len(contour) \in Nat
        /\ FirstVoiced \in Voiced /\ LastVoiced \in Voiced /\ Voiced \subseteq GridSlots
        /\ FirstVoiced \in Nat /\ LastVoiced \in Nat
    BY <1>1, <2>1, VoicedEnds DEF FilledTo
  <2>3. \A k \in Voiced : grid[k] = contour[k] BY <2>1 DEF FilledTo
  <2>4. ASSUME NEW k \in GridSlots \ Voiced
        PROVE  \/ k < FirstVoiced /\ grid[k] = contour[FirstVoiced]
               \/ k > LastVoiced /\ grid[k] = contour[LastVoiced]
               \/ IsStraight(k)
    <3>1. k \in Nat /\ k # FirstVoiced /\ k # LastVoiced BY <2>2
    <3>2. k < FirstVoiced \/ k > LastVoiced \/ (FirstVoiced < k /\ k < anchor)
      BY <2>1, <2>2, <3>1
    <3>. QED BY <2>1, <3>2 DEF FilledTo
  <2>. QED BY <2>3, <2>4 DEF GapsAreStraight, IsStraight
<1>. QED BY <1>2, <1>3

\* For every contour whose gaps divide: its voiced slots are left alone, its ends are held,
\* and every gap lies on the line between the slots around it (Vibrato::analyse).
THEOREM GapsAreStraightAlways == VibratoSpec => []GapsAreStraight
<1>1. VibratoInit => GapsInv BY GapsInitially
<1>2. GapsInv /\ [VibratoNext]_vibrato_vars => GapsInv' BY GapsStep
<1>3. GapsInv => GapsAreStraight BY GapsInvStraight
<1>. QED BY <1>1, <1>2, <1>3, PTL DEF VibratoSpec

-----------------------------------------------------------------------------
(* The peak of a band and the median away from it. *)

\* How many of the first n values lie below a value, and how many do not lie above it.
BelowIn(s, v) == Cardinality({i \in DOMAIN s : s[i] < v})
UpToIn(s, v) == Cardinality({i \in DOMAIN s : s[i] <= v})
RankedIn(s, r) ==
    CHOOSE v \in {s[i] : i \in DOMAIN s} : BelowIn(s, v) < r /\ r <= UpToIn(s, v)

\* A list of n numbers in another order.
IsOrderOf(p, n) ==
    /\ p \in [1..n -> 1..n]
    /\ \A i, j \in 1..n : p[i] = p[j] => i = j
    /\ \A i \in 1..n : \E j \in 1..n : p[j] = i

\* The r-th of a list by counting is the r-th of its order, as far as that is sorted.
LEMMA RankedIsSorted ==
  ASSUME NEW n \in Nat, NEW s \in [1..n -> Int], NEW p, IsOrderOf(p, n), NEW r \in 1..n,
         \A i \in 1..r : \A j \in 1..n : i < j => s[p[i]] <= s[p[j]]
  PROVE  RankedIn(s, r) = s[p[r]]
<1>. DEFINE v == s[p[r]]
            Under(x) == {i \in 1..n : s[i] < x}
            Upto(x) == {i \in 1..n : s[i] <= x}
<1>1. DOMAIN s = 1..n /\ \A i \in 1..n : s[i] \in Int /\ p[i] \in 1..n BY DEF IsOrderOf
<1>2. r \in Nat /\ v \in Int /\ v \in {s[i] : i \in DOMAIN s} BY <1>1
<1>3. \A x : /\ IsFiniteSet(Under(x)) /\ IsFiniteSet(Upto(x))
             /\ Cardinality(Under(x)) \in Nat /\ Cardinality(Upto(x)) \in Nat
             /\ BelowIn(s, x) = Cardinality(Under(x)) /\ UpToIn(s, x) = Cardinality(Upto(x))
  <2>1. IsFiniteSet(1..n) BY FS_Interval
  <2>. TAKE x
  <2>2. IsFiniteSet(Under(x)) /\ IsFiniteSet(Upto(x))
    <3>1. Under(x) \in SUBSET (1..n) /\ Upto(x) \in SUBSET (1..n) OBVIOUS
    <3>. HIDE DEF Under, Upto
    <3>. QED BY <2>1, <3>1, FS_Subset
  <2>3. BelowIn(s, x) = Cardinality(Under(x)) /\ UpToIn(s, x) = Cardinality(Upto(x))
    BY <1>1 DEF BelowIn, UpToIn
  <2>. HIDE DEF Under, Upto
  <2>. QED BY <2>2, <2>3, FS_CardinalityType
<1>4. Cardinality(Under(v)) < r
  <2>. DEFINE B == Under(v)
              g == [i \in B |-> CHOOSE j \in 1..n : p[j] = i]
  <2>1. \A i \in B : g[i] \in 1..n /\ p[g[i]] = i
    <3>. SUFFICES ASSUME NEW i \in B PROVE g[i] \in 1..n /\ p[g[i]] = i OBVIOUS
    <3>1. i \in 1..n OBVIOUS
    <3>2. \E j \in 1..n : p[j] = i BY <3>1 DEF IsOrderOf
    <3>. QED BY <3>2
  <2>2. \A i \in B : g[i] \in 1..r - 1
    <3>. SUFFICES ASSUME NEW i \in B PROVE g[i] \in 1..r - 1 OBVIOUS
    <3>1. g[i] \in 1..n /\ p[g[i]] = i /\ s[i] < v /\ s[i] \in Int BY <1>1, <2>1
    <3>. HIDE DEF g
    <3>2. g[i] # r BY <1>2, <3>1
    <3>3. ~(r < g[i])
      <4>1. r \in 1..r BY <1>2
      <4>2. r < g[i] => v <= s[p[g[i]]] BY <3>1, <4>1
      <4>. QED BY <1>2, <3>1, <4>2
    <3>. QED BY <1>2, <3>1, <3>2, <3>3
  <2>3. g \in Injection(B, 1..r - 1)
    <3>1. g \in [B -> 1..r - 1] BY <2>2
    <3>2. \A i, k \in B : g[i] = g[k] => i = k BY <2>1
    <3>. HIDE DEF g, B
    <3>. QED BY <3>1, <3>2 DEF Injection, IsInjective
  <2>4. IsFiniteSet(1..r - 1) /\ Cardinality(1..r - 1) = r - 1
    <3>1. 1 \in Int /\ r - 1 \in Int /\ (1 > r - 1 => r - 1 = 0) BY <1>2
    <3>. QED BY <3>1, FS_Interval
  <2>5. Cardinality(B) \in Nat BY <1>3
  <2>. HIDE DEF g, B
  <2>6. Cardinality(B) <= r - 1 BY <2>3, <2>4, FS_Injection
  <2>. QED BY <1>2, <2>5, <2>6 DEF B
<1>5. r <= Cardinality(Upto(v))
  <2>. DEFINE U == Upto(v)
              g == [j \in 1..r |-> p[j]]
  <2>1. \A j \in 1..r : j \in 1..n /\ p[j] \in U
    <3>. SUFFICES ASSUME NEW j \in 1..r PROVE j \in 1..n /\ p[j] \in U OBVIOUS
    <3>1. j \in 1..n BY <1>2
    <3>2. p[j] \in 1..n /\ s[p[j]] \in Int BY <1>1, <3>1
    <3>3. s[p[j]] <= v
      <4>1. CASE j = r BY <1>2, <4>1
      <4>2. CASE j < r BY <4>2
      <4>. QED BY <1>2, <4>1, <4>2
    <3>. QED BY <3>1, <3>2, <3>3
  <2>2. g \in Injection(1..r, U)
    <3>1. g \in [1..r -> U] BY <2>1
    <3>2. \A i, k \in 1..r : g[i] = g[k] => i = k BY <2>1 DEF IsOrderOf
    <3>. HIDE DEF g, U
    <3>. QED BY <3>1, <3>2 DEF Injection, IsInjective
  <2>3. IsFiniteSet(U) BY <1>3
  <2>4. IsFiniteSet(1..r) /\ Cardinality(1..r) = r
    <3>1. 1 \in Int /\ r \in Int /\ ~(1 > r) BY <1>2
    <3>. QED BY <3>1, FS_Interval
  <2>. HIDE DEF g, U
  <2>5. Cardinality(1..r) <= Cardinality(U) BY <2>2, <2>3, FS_Injection
  <2>. QED BY <2>4, <2>5 DEF U
<1>6. \A x, y \in Int : x < y => Cardinality(Upto(x)) <= Cardinality(Under(y))
  <2>. SUFFICES ASSUME NEW x \in Int, NEW y \in Int, x < y
                PROVE  Cardinality(Upto(x)) <= Cardinality(Under(y))
    OBVIOUS
  <2>1. \A i \in 1..n : s[i] <= x => s[i] < y BY <1>1
  <2>2. Upto(x) \in SUBSET Under(y) BY <2>1
  <2>3. IsFiniteSet(Under(y)) BY <1>3
  <2>. HIDE DEF Upto, Under
  <2>. QED BY <2>2, <2>3, FS_Subset
<1>. DEFINE Is(x) == BelowIn(s, x) < r /\ r <= UpToIn(s, x)
<1>7. Is(v) BY <1>3, <1>4, <1>5
<1>8. \A x \in {s[i] : i \in DOMAIN s} : Is(x) => x = v
  <2>. SUFFICES ASSUME NEW x \in {s[i] : i \in DOMAIN s}, Is(x) PROVE x = v OBVIOUS
  <2>1. x \in Int BY <1>1
  <2>2. Cardinality(Under(x)) < r /\ r <= Cardinality(Upto(x)) BY <1>3
  <2>3. /\ Cardinality(Under(x)) \in Nat /\ Cardinality(Upto(x)) \in Nat
        /\ Cardinality(Under(v)) \in Nat /\ Cardinality(Upto(v)) \in Nat
    BY <1>3
  <2>. HIDE DEF Is, Under, Upto, v
  <2>4. ~(x < v)
    <3>1. x < v => Cardinality(Upto(x)) <= Cardinality(Under(v)) BY <1>2, <1>6, <2>1
    <3>. QED BY <1>2, <1>4, <2>2, <2>3, <3>1
  <2>5. ~(v < x)
    <3>1. v < x => Cardinality(Upto(v)) <= Cardinality(Under(x)) BY <1>2, <1>6, <2>1
    <3>. QED BY <1>2, <1>5, <2>2, <2>3, <3>1
  <2>. QED BY <1>2, <2>1, <2>4, <2>5
<1>9. RankedIn(s, r) = CHOOSE x \in {s[i] : i \in DOMAIN s} : Is(x) BY DEF RankedIn
<1>. HIDE DEF Is, v
<1>10. (CHOOSE x \in {s[i] : i \in DOMAIN s} : Is(x)) = v BY <1>2, <1>7, <1>8
<1>. QED BY <1>9, <1>10 DEF v

(* The values away from the peak, as the band has them. *)
FarValues == [i \in DOMAIN FarFromPeak |-> band[FarFromPeak[i]]]

(* Selected so far: the scratch is an order of the far values, sorted to the front. *)
SelectedTo ==
    /\ sorted \in 0..Len(FarValues)
    /\ FarValues = <<>> \/ sorted <= Len(FarValues) \div 2 + 1
    /\ \E p : /\ IsOrderOf(p, Len(FarValues))
              /\ scratch = [i \in 1..Len(FarValues) |-> FarValues[p[i]]]
    /\ \A i \in 1..sorted : \A j \in 1..Len(FarValues) : i < j => scratch[i] <= scratch[j]

PeakInv ==
    /\ vibrato_step \in GapSteps \cup FourierSteps \cup PeakSteps
    /\ vibrato_step \in PeakSteps => band \in Spectra
    /\ vibrato_step = "median" => SelectedTo
    /\ vibrato_step = "judged" => PeakStandsOut

LEMMA PeakExists ==
  ASSUME band \in Spectra
  PROVE  /\ PeakBin \in DOMAIN band /\ band[PeakBin] \in Int
         /\ FarValues \in Seq(Int) /\ Len(FarValues) \in Nat
         /\ DOMAIN FarValues = 1..Len(FarValues)
         /\ FarValues = [i \in 1..Len(FarValues) |-> FarValues[i]]
         /\ \A i \in 1..Len(FarValues) : FarValues[i] \in Int
<1>. DEFINE n == Len(band)
<1>1. /\ band \in Seq(Int) /\ n \in Nat /\ n >= 1 /\ DOMAIN band = 1..n
      /\ \A b \in 1..n : band[b] \in Int
  <2>1. band \in Seq(Int) /\ band # <<>> BY InputsAreSampled
  <2>. QED BY <2>1, LenProperties, ElementOfSeq, EmptySeq
<1>2. \E j \in 1..n : /\ \A k \in 1..n : band[k] <= band[j]
                      /\ \A k \in 1..j - 1 : band[k] < band[j]
  <2>. DEFINE f == [b \in 1..n |-> -band[b]]
  <2>1. \A b \in 1..n : f[b] \in Int /\ f[b] = -band[b] BY <1>1
  <2>. HIDE DEF f
  <2>2. PICK j \in 1..n : /\ \A k \in 1..n : f[j] <= f[k]
                          /\ \A k \in 1..j - 1 : f[j] < f[k]
    BY <1>1, <2>1, FirstLowest
  <2>3. \A k \in 1..j - 1 : k \in 1..n BY <1>1
  <2>4. \A k \in 1..n : band[k] <= band[j] BY <1>1, <2>1, <2>2
  <2>5. \A k \in 1..j - 1 : band[k] < band[j] BY <1>1, <2>1, <2>2, <2>3
  <2>. QED BY <2>4, <2>5
<1>3. PeakBin \in 1..n BY <1>1, <1>2 DEF PeakBin
<1>4. FarFromPeak \in Seq(1..n)
  <2>. DEFINE s == [b \in DOMAIN band |-> b]
  <2>1. s \in Seq(1..n)
    <3>1. s = [b \in 1..n |-> b] BY <1>1
    <3>. QED BY <1>1, <3>1, IsASeq
  <2>. HIDE DEF s
  <2>2. Among(s, DOMAIN band \ (PeakBin - 1..PeakBin + 1)) \in Seq(1..n) BY <2>1, AmongType
  <2>. QED BY <2>2 DEF FarFromPeak, s
<1>5. FarValues \in Seq(Int)
  <2>. DEFINE m == Len(FarFromPeak)
  <2>1. DOMAIN FarFromPeak = 1..m /\ m \in Nat /\ \A i \in 1..m : FarFromPeak[i] \in 1..n
    BY <1>4, LenProperties, ElementOfSeq
  <2>2. FarValues = [i \in 1..m |-> band[FarFromPeak[i]]] BY <2>1 DEF FarValues
  <2>3. \A i \in 1..m : band[FarFromPeak[i]] \in Int BY <1>1, <2>1
  <2>. HIDE DEF m
  <2>. QED BY <2>1, <2>2, <2>3, IsASeq
<1>6. /\ Len(FarValues) \in Nat /\ DOMAIN FarValues = 1..Len(FarValues)
      /\ \A i \in 1..Len(FarValues) : FarValues[i] \in Int
  BY <1>5, LenProperties, ElementOfSeq
<1>7. FarValues = [i \in DOMAIN FarValues |-> FarValues[i]] BY DEF FarValues
<1>. QED BY <1>1, <1>3, <1>5, <1>6, <1>7

LEMMA SameFar ==
  ASSUME band' = band
  PROVE  PeakBin' = PeakBin /\ FarFromPeak' = FarFromPeak /\ FarValues' = FarValues
<1>1. PeakBin' = PeakBin BY DEF PeakBin
<1>2. FarFromPeak' = FarFromPeak BY <1>1 DEF FarFromPeak
<1>. QED BY <1>1, <1>2 DEF FarValues

LEMMA FindPeakStep ==
  ASSUME band \in Spectra, FindPeak
  PROVE  SelectedTo'
<1>1. band' = band /\ scratch' = FarValues /\ sorted' = 0 BY DEF FindPeak, FarValues
<1>2. FarValues' = FarValues BY <1>1, SameFar
<1>. DEFINE n == Len(FarValues)
            p == [i \in 1..n |-> i]
<1>3. /\ n \in Nat
      /\ FarValues = [i \in 1..n |-> FarValues[i]]
  BY PeakExists
<1>4. IsOrderOf(p, n)
  <2>1. p \in [1..n -> 1..n] /\ \A i \in 1..n : p[i] = i OBVIOUS
  <2>. HIDE DEF p
  <2>. QED BY <2>1 DEF IsOrderOf
<1>5. scratch' = [i \in 1..n |-> FarValues[p[i]]]
  <2>1. \A i \in 1..n : FarValues[p[i]] = FarValues[i] OBVIOUS
  <2>. QED BY <1>1, <1>3, <2>1
<1>. HIDE DEF p
<1>6. \E q : IsOrderOf(q, n) /\ scratch' = [i \in 1..n |-> FarValues[q[i]]] BY <1>4, <1>5
<1>7. 0 \in 0..n /\ 0 <= n \div 2 + 1 /\ 1..0 = {} BY <1>3
<1>. QED BY <1>1, <1>2, <1>6, <1>7 DEF SelectedTo

\* An order with two of its places swapped is one.
LEMMA SwappedOrder ==
  ASSUME NEW n \in Nat, NEW p, IsOrderOf(p, n), NEW a \in 1..n, NEW b \in 1..n
  PROVE  IsOrderOf([p EXCEPT ![a] = p[b], ![b] = p[a]], n)
<1>. DEFINE q == [p EXCEPT ![a] = p[b], ![b] = p[a]]
<1>1. p \in [1..n -> 1..n] BY DEF IsOrderOf
<1>2. \A i \in 1..n : q[i] = IF i = b THEN p[a] ELSE IF i = a THEN p[b] ELSE p[i] BY <1>1
<1>3. q \in [1..n -> 1..n] BY <1>1
<1>. HIDE DEF q
<1>4. \A i, j \in 1..n : q[i] = q[j] => i = j BY <1>2 DEF IsOrderOf
<1>5. ASSUME NEW i \in 1..n PROVE \E j \in 1..n : q[j] = i
  <2>1. PICK j \in 1..n : p[j] = i BY DEF IsOrderOf
  <2>2. q[IF j = a THEN b ELSE IF j = b THEN a ELSE j] = i BY <1>2, <2>1
  <2>. QED BY <2>2
<1>6. IsOrderOf(q, n) BY <1>3, <1>4, <1>5 DEF IsOrderOf
<1>. QED BY <1>6 DEF q

LEMMA SelectNextStep ==
  ASSUME band \in Spectra, SelectedTo, SelectNext
  PROVE  SelectedTo'
<1>. DEFINE n == Len(FarValues)
            i == sorted + 1
            LowestFrom(j) == /\ \A k \in i..Len(scratch) : scratch[j] <= scratch[k]
                        /\ \A k \in i..j - 1 : scratch[j] < scratch[k]
            least == CHOOSE j \in i..Len(scratch) : LowestFrom(j)
<1>1. /\ band' = band /\ sorted' = sorted + 1
      /\ scratch' = [scratch EXCEPT ![i] = scratch[least], ![least] = scratch[i]]
      /\ ~(sorted > middle) /\ scratch # <<>>
  BY DEF SelectNext, SortedFar
<1>2. FarValues' = FarValues BY <1>1, SameFar
<1>3. n \in Nat /\ (\A k \in 1..n : FarValues[k] \in Int) /\ FarValues \in Seq(Int)
  BY PeakExists
<1>4. PICK p : IsOrderOf(p, n) /\ scratch = [k \in 1..n |-> FarValues[p[k]]]
  BY DEF SelectedTo
<1>5. \A k \in 1..n : scratch[k] \in Int /\ p[k] \in 1..n BY <1>3, <1>4 DEF IsOrderOf
<1>6. scratch \in [1..n -> Int] /\ scratch \in Seq(Int) /\ Len(scratch) = n
  <2>1. scratch \in [1..n -> Int] BY <1>4, <1>5
  <2>2. scratch \in Seq(Int) BY <1>3, <2>1, SeqDef
  <2>3. DOMAIN scratch = 1..n BY <2>1
  <2>. QED BY <1>3, <2>1, <2>2, <2>3, LenProperties
<1>7. n >= 1
  <2>1. scratch = <<>> \/ Len(scratch) # 0 BY <1>6, EmptySeq
  <2>. QED BY <1>1, <1>3, <1>6, <2>1
<1>8. sorted \in Nat /\ sorted <= n \div 2 /\ i \in 1..n
  <2>1. sorted \in 0..n BY DEF SelectedTo
  <2>2. ~(sorted > n \div 2) BY <1>1, <1>6 DEF middle
  <2>. QED BY <1>3, <1>7, <2>1, <2>2
<1>. HIDE DEF i
<1>9. least \in i..n /\ LowestFrom(least)
  <2>1. \A k \in i..n : scratch[k] \in Int BY <1>5, <1>8
  <2>2. i \in Nat /\ i <= n BY <1>8
  <2>3. \E j \in i..n : /\ \A k \in i..n : scratch[j] <= scratch[k]
                        /\ \A k \in i..j - 1 : scratch[j] < scratch[k]
    BY <1>3, <2>1, <2>2, FirstLowest
  <2>4. \E j \in i..Len(scratch) : LowestFrom(j) BY <1>6, <2>3
  <2>. HIDE DEF LowestFrom
  <2>. QED BY <1>6, <2>4
<1>10. PICK l : l = least OBVIOUS
<1>11. l \in i..n /\ l \in 1..n /\ \A k \in i..n : scratch[l] <= scratch[k]
  <2>. HIDE DEF least, LowestFrom
  <2>1. l \in i..n /\ LowestFrom(l) BY <1>9, <1>10
  <2>2. l \in 1..n BY <1>3, <1>8, <2>1
  <2>. QED BY <1>6, <2>1, <2>2 DEF LowestFrom
<1>. DEFINE q == [p EXCEPT ![i] = p[l], ![l] = p[i]]
<1>12. scratch' = [scratch EXCEPT ![i] = scratch[l], ![l] = scratch[i]] BY <1>1, <1>10
<1>. HIDE DEF least, LowestFrom
<1>13. IsOrderOf(q, n) BY <1>3, <1>4, <1>8, <1>11, SwappedOrder
<1>14. \A k \in 1..n : scratch'[k] = IF k = l THEN scratch[i] ELSE IF k = i THEN scratch[l]
                                     ELSE scratch[k]
  BY <1>6, <1>8, <1>11, <1>12
<1>15. scratch' = [k \in 1..n |-> FarValues[q[k]]]
  <2>1. p \in [1..n -> 1..n] BY <1>4 DEF IsOrderOf
  <2>2. \A k \in 1..n : q[k] = IF k = l THEN p[i] ELSE IF k = i THEN p[l] ELSE p[k]
    BY <1>8, <1>11, <2>1
  <2>. HIDE DEF q
  <2>3. \A k \in 1..n : scratch'[k] = FarValues[q[k]] BY <1>4, <1>8, <1>11, <1>14, <2>2
  <2>4. scratch' = [k \in 1..n |-> scratch'[k]] BY <1>6, <1>12
  <2>. QED BY <2>3, <2>4
<1>. HIDE DEF q
<1>16. \A a \in 1..sorted + 1 : \A b \in 1..n : a < b => scratch'[a] <= scratch'[b]
  <2>. SUFFICES ASSUME NEW a \in 1..sorted + 1, NEW b \in 1..n, a < b
                PROVE  scratch'[a] <= scratch'[b]
    OBVIOUS
  <2>1. /\ \A k \in 1..n : scratch'[k] \in Int
        /\ i = sorted + 1 /\ sorted \in Nat /\ a \in 1..n /\ l >= i
    BY <1>5, <1>8, <1>11, <1>14 DEF i
  <2>2. CASE a = i
    <3>1. scratch'[a] = scratch[l] BY <1>8, <1>14, <2>2
    <3>2. \A k \in i..n : scratch'[b] = scratch[b] \/ scratch'[b] = scratch[i]
      BY <1>14, <2>1, <2>2
    <3>3. b \in i..n /\ i \in i..n BY <1>8, <2>1, <2>2
    <3>. QED BY <1>11, <3>1, <3>2, <3>3
  <2>3. CASE a < i
    <3>1. a \in 1..sorted /\ a # l /\ a # i BY <2>1, <2>3
    <3>2. scratch'[a] = scratch[a] BY <1>14, <2>1, <3>1
    <3>3. \A k \in 1..n : a < k => scratch[a] <= scratch[k] BY <3>1 DEF SelectedTo
    <3>4. scratch'[b] \in {scratch[b], scratch[i], scratch[l]} BY <1>14
    <3>5. a < l /\ a < i BY <2>1, <2>3, <1>11
    <3>6. scratch[a] <= scratch[b] /\ scratch[a] <= scratch[i] /\ scratch[a] <= scratch[l]
      BY <1>8, <1>11, <3>3, <3>5
    <3>. QED BY <3>2, <3>4, <3>6
  <2>. QED BY <2>1, <2>2, <2>3
<1>17. sorted + 1 \in 0..n /\ sorted + 1 <= n \div 2 + 1 BY <1>3, <1>8 DEF i
<1>18. \E r : IsOrderOf(r, n) /\ scratch' = [k \in 1..n |-> FarValues[r[k]]] BY <1>13, <1>15
<1>19. sorted' = sorted + 1 BY <1>1
<1>20. /\ sorted' \in 0..n /\ sorted' <= n \div 2 + 1
       /\ \A a \in 1..sorted' : \A b \in 1..n : a < b => scratch'[a] <= scratch'[b]
  BY ONLY <1>16, <1>17, <1>19
<1>. QED BY ONLY <1>2, <1>18, <1>20 DEF SelectedTo

LEMMA DominatesStep ==
  ASSUME band \in Spectra, SelectedTo, Dominates
  PROVE  PeakStandsOut'
<1>. DEFINE n == Len(FarValues)
<1>1. /\ band' = band
      /\ vibrato_held' = IF band[PeakBin] < TwiceMedian THEN NoVibrato ELSE PeakBin
      /\ sorted > middle \/ scratch = <<>>
  BY DEF Dominates, SortedFar, band_vars
<1>2. PeakBin' = PeakBin /\ FarFromPeak' = FarFromPeak /\ FarValues' = FarValues
  BY <1>1, SameFar
<1>3. /\ n \in Nat /\ (\A k \in 1..n : FarValues[k] \in Int) /\ FarValues \in Seq(Int)
      /\ band[PeakBin] \in Int /\ FarValues \in [1..n -> Int] /\ DOMAIN FarValues = 1..n
  BY PeakExists
<1>4. PICK p : IsOrderOf(p, n) /\ scratch = [k \in 1..n |-> FarValues[p[k]]]
  BY DEF SelectedTo
<1>5. \A k \in 1..n : scratch[k] \in Int /\ p[k] \in 1..n /\ scratch[k] = FarValues[p[k]]
  BY <1>3, <1>4 DEF IsOrderOf
<1>6. scratch \in [1..n -> Int] /\ scratch \in Seq(Int) /\ Len(scratch) = n
  <2>1. scratch \in [1..n -> Int] BY <1>4, <1>5
  <2>2. scratch \in Seq(Int) BY <1>3, <2>1, SeqDef
  <2>3. DOMAIN scratch = 1..n BY <2>1
  <2>. QED BY <1>3, <2>1, <2>2, <2>3, LenProperties
<1>7. scratch = <<>> <=> FarValues = <<>>
  BY <1>3, <1>6, EmptySeq
<1>8. TwiceMedian \in Int /\ TwiceMedian = MedianTwice(FarValues)
  <2>1. CASE scratch = <<>>
    <3>1. MedianTwice(FarValues) = 0 BY <1>7, <2>1 DEF MedianTwice
    <3>2. TwiceMedian = 0 BY <2>1 DEF TwiceMedian
    <3>. QED BY <3>1, <3>2
  <2>2. CASE scratch # <<>>
    <3>1. n # 0 /\ n \in Nat BY <1>3, <1>6, <2>2, EmptySeq
    <3>2. /\ sorted \in 0..n /\ sorted > n \div 2
          /\ \A i \in 1..sorted : \A j \in 1..n : i < j => scratch[i] <= scratch[j]
      BY <1>1, <1>6, <2>2 DEF SelectedTo, middle
    <3>3. ASSUME NEW r \in 1..sorted PROVE RankedIn(FarValues, r) = scratch[r]
      <4>1. r \in 1..n /\ \A i \in 1..r : i \in 1..sorted /\ i \in 1..n BY <3>1, <3>2
      <4>2. \A i \in 1..r : \A j \in 1..n : i < j => FarValues[p[i]] <= FarValues[p[j]]
        BY <1>5, <3>2, <4>1
      <4>3. RankedIn(FarValues, r) = FarValues[p[r]]
        BY <1>3, <1>4, <4>1, <4>2, RankedIsSorted
      <4>. QED BY <1>5, <4>1, <4>3
    <3>4. MedianTwice(FarValues) =
            IF n % 2 = 1 THEN 2 * RankedIn(FarValues, (n + 1) \div 2)
            ELSE RankedIn(FarValues, n \div 2) + RankedIn(FarValues, n \div 2 + 1)
      BY <1>7, <2>2 DEF MedianTwice, RankedIn, BelowIn, UpToIn
    <3>5. CASE n % 2 = 1
      <4>1. (n + 1) \div 2 = n \div 2 + 1 /\ n \div 2 + 1 \in 1..sorted /\ n \div 2 + 1 \in 1..n
        BY <3>1, <3>2, <3>5
      <4>2. TwiceMedian = 2 * scratch[n \div 2 + 1]
        BY <1>6, <2>2, <3>5 DEF TwiceMedian, middle
      <4>. QED BY <1>5, <3>3, <3>4, <3>5, <4>1, <4>2
    <3>6. CASE n % 2 # 1
      <4>1. /\ n \div 2 \in 1..sorted /\ n \div 2 \in 1..n
            /\ n \div 2 + 1 \in 1..sorted /\ n \div 2 + 1 \in 1..n
        BY <3>1, <3>2, <3>6
      <4>2. TwiceMedian = scratch[n \div 2] + scratch[n \div 2 + 1]
        BY <1>6, <2>2, <3>6 DEF TwiceMedian, middle
      <4>. QED BY <1>5, <3>3, <3>4, <3>6, <4>1, <4>2
    <3>. QED BY <3>5, <3>6
  <2>. QED BY <2>1, <2>2
<1>9. vibrato_held' = IF band[PeakBin] >= MedianTwice(FarValues) THEN PeakBin ELSE NoVibrato
  <2>1. band[PeakBin] < TwiceMedian <=> ~(band[PeakBin] >= TwiceMedian) BY <1>3, <1>8
  <2>. QED BY <1>1, <1>8, <2>1
<1>10. MedianTwice(FarValues)' = MedianTwice(FarValues) BY <1>2 DEF MedianTwice
<1>11. PeakStandsOut' <=>
         (vibrato_step = "judged" =>
            vibrato_held = IF band[PeakBin] >= MedianTwice(FarValues)
                           THEN PeakBin ELSE NoVibrato)'
  BY DEF PeakStandsOut, FarValues
<1>. QED BY <1>1, <1>2, <1>9, <1>10, <1>11

LEMMA PeakInitially == VibratoInit => PeakInv
<1>. SUFFICES ASSUME VibratoInit PROVE PeakInv OBVIOUS
<1>. QED BY DEF VibratoInit, PeakInv, GapSteps, FourierSteps, PeakSteps

LEMMA PeakStep == PeakInv /\ [VibratoNext]_vibrato_vars => PeakInv'
<1>. SUFFICES ASSUME PeakInv, [VibratoNext]_vibrato_vars PROVE PeakInv' OBVIOUS
<1>. USE DEF GapSteps, FourierSteps, PeakSteps
<1>1. CASE FindPeak
  <2>1. band \in Spectra /\ band' = band /\ vibrato_step' = "median"
    BY <1>1 DEF FindPeak, PeakInv
  <2>2. SelectedTo' BY <1>1, <2>1, FindPeakStep
  <2>. QED BY <2>1, <2>2 DEF PeakInv
<1>2. CASE SelectNext
  <2>1. band \in Spectra /\ band' = band /\ vibrato_step' = "median" /\ SelectedTo
    BY <1>2 DEF SelectNext, PeakInv
  <2>2. SelectedTo' BY <1>2, <2>1, SelectNextStep
  <2>. QED BY <2>1, <2>2 DEF PeakInv
<1>3. CASE Dominates
  <2>1. band \in Spectra /\ band' = band /\ vibrato_step' = "judged" /\ SelectedTo
    BY <1>3 DEF Dominates, PeakInv, band_vars
  <2>2. PeakStandsOut' BY <1>3, <2>1, DominatesStep
  <2>. QED BY <2>1, <2>2 DEF PeakInv
<1>4. CASE /\ UNCHANGED <<band_vars, vibrato_held>>
           /\ vibrato_step' \in GapSteps \cup FourierSteps
  BY <1>4 DEF PeakInv
<1>5. CASE TooFewVoiced \/ FillEnds \/ FillGap \/ GapsFilled
  <2>1. UNCHANGED <<band_vars, vibrato_held>> /\ vibrato_step' \in GapSteps
    BY <1>5 DEF TooFewVoiced, FillEnds, FillGap, GapsFilled
  <2>. QED BY <1>4, <2>1
<1>6. CASE Permute \/ Butterflies \/ Transformed
  <2>1. UNCHANGED <<band_vars, vibrato_held>> /\ vibrato_step' \in FourierSteps
    BY <1>6 DEF Permute, Butterflies, Transformed
  <2>. QED BY <1>4, <2>1
<1>7. CASE UNCHANGED vibrato_vars
  <2>1. band' = band /\ scratch' = scratch /\ sorted' = sorted /\ vibrato_held' = vibrato_held
        /\ vibrato_step' = vibrato_step
    BY <1>7 DEF vibrato_vars
  <2>2. PeakBin' = PeakBin /\ FarFromPeak' = FarFromPeak /\ FarValues' = FarValues
    BY <2>1, SameFar
  <2>3. SelectedTo' <=> SelectedTo BY <2>1, <2>2 DEF SelectedTo
  <2>4. PeakStandsOut' <=> PeakStandsOut BY <2>1, <2>2 DEF PeakStandsOut, MedianTwice
  <2>. QED BY <2>1, <2>3, <2>4 DEF PeakInv
<1>. QED BY <1>1, <1>2, <1>3, <1>5, <1>6, <1>7 DEF VibratoNext

LEMMA PeakInvStandsOut == PeakInv => PeakStandsOut
<1>. SUFFICES ASSUME PeakInv PROVE PeakStandsOut OBVIOUS
<1>1. vibrato_step = "judged" \/ PeakStandsOut BY DEF PeakStandsOut
<1>. QED BY <1>1 DEF PeakInv

\* For every band of magnitudes: a vibrato is held for the first of its highest bins, and
\* only if that is as high as twice the median of the bins away from it, which the
\* partial selection sort has in the middle of its scratch (Vibrato::analyse).
THEOREM PeakStandsOutAlways == VibratoSpec => []PeakStandsOut
<1>1. VibratoInit => PeakInv BY PeakInitially
<1>2. PeakInv /\ [VibratoNext]_vibrato_vars => PeakInv' BY PeakStep
<1>3. PeakInv => PeakStandsOut BY PeakInvStandsOut
<1>. QED BY <1>1, <1>2, <1>3, PTL DEF VibratoSpec

-----------------------------------------------------------------------------
(* The transform of every t-th sample from b on, w of them. *)

Part(s, b, t, w, j) ==
    SumTo([n \in 1..w |-> s[b + t * (n - 1)] * Power(Root, (t * (n - 1)) * j)], w)

\* Every t-th of u samples w times.
LEMMA InStride ==
  ASSUME NEW b \in Nat, NEW t \in Nat, NEW w \in Nat, NEW m \in Nat, b < t, m < w
  PROVE  b + t * m \in 0..t * w - 1
<1>1. t * m \in Nat /\ t * w = t * m + t * (w - m) OBVIOUS
<1>2. t * (w - m) = t + t * (w - m - 1) /\ t * (w - m - 1) \in Nat
  <2>1. w - m - 1 \in Nat OBVIOUS
  <2>2. \A x \in Nat : t * (x + 1) = t + t * x /\ t * x \in Nat OBVIOUS
  <2>3. w - m = (w - m - 1) + 1 OBVIOUS
  <2>. QED BY <2>1, <2>2, <2>3
<1>. QED BY <1>1, <1>2

LEMMA PartTerms ==
  ASSUME NEW N \in Nat, NEW s \in [0..N - 1 -> Int], NEW b \in Nat, NEW t \in Nat, NEW w \in Nat,
         b < t, N = t * w, NEW j \in Nat
  PROVE  /\ \A n \in 1..w : /\ s[b + t * (n - 1)] \in Int
                            /\ (t * (n - 1)) * j \in Nat
                            /\ Power(Root, (t * (n - 1)) * j) \in Int
                            /\ s[b + t * (n - 1)] * Power(Root, (t * (n - 1)) * j) \in Int
         /\ Part(s, b, t, w, j) \in Int
<1>1. ASSUME NEW n \in 1..w
      PROVE  /\ s[b + t * (n - 1)] \in Int
             /\ (t * (n - 1)) * j \in Nat
             /\ Power(Root, (t * (n - 1)) * j) \in Int
             /\ s[b + t * (n - 1)] * Power(Root, (t * (n - 1)) * j) \in Int
  <2>1. n - 1 \in Nat /\ n - 1 < w OBVIOUS
  <2>2. b + t * (n - 1) \in 0..t * w - 1 BY <2>1, InStride
  <2>3. s[b + t * (n - 1)] \in Int BY <2>2
  <2>4. t * (n - 1) \in Nat BY <2>1
  <2>5. (t * (n - 1)) * j \in Nat BY <2>4
  <2>6. Root \in Int BY RootHasOrder
  <2>7. Power(Root, (t * (n - 1)) * j) \in Int BY <2>5, <2>6, PowerType
  <2>8. \A x, y \in Int : x * y \in Int OBVIOUS
  <2>. QED BY <2>3, <2>5, <2>7, <2>8
<1>. DEFINE f == [n \in 1..w |-> s[b + t * (n - 1)] * Power(Root, (t * (n - 1)) * j)]
<1>2. \A n \in 1..w : f[n] \in Int BY <1>1
<1>. HIDE DEF f
<1>3. SumTo(f, w) \in Int BY <1>2, SumType
<1>. QED BY <1>1, <1>3 DEF Part, f

\* Where the even and the odd powers of bin i lie, by those of bin j of half as many
\* bins: the odd ones a factor c away.
Turns(u, j, i, c) ==
    \A r \in Nat :
      /\ Alike(Prime, Power(Root, (u * (2 * r)) * i), Power(Root, ((2 * u) * r) * j))
      /\ Alike(Prime, Power(Root, (u * (2 * r + 1)) * i),
                      c * (Power(Root, u * j) * Power(Root, ((2 * u) * r) * j)))

LEMMA LowerTurns ==
  ASSUME NEW u \in Nat \ {0}, NEW j \in Nat
  PROVE  Turns(u, j, j, 1)
<1>. SUFFICES ASSUME NEW r \in Nat
              PROVE  /\ Alike(Prime, Power(Root, (u * (2 * r)) * j), Power(Root, ((2 * u) * r) * j))
                     /\ Alike(Prime, Power(Root, (u * (2 * r + 1)) * j),
                              1 * (Power(Root, u * j) * Power(Root, ((2 * u) * r) * j)))
  BY DEF Turns
<1>1. (u * (2 * r)) * j = ((2 * u) * r) * j OBVIOUS
<1>2. (u * (2 * r + 1)) * j = u * j + ((2 * u) * r) * j OBVIOUS
<1>3. u * j \in Nat /\ ((2 * u) * r) * j \in Nat
  <2>1. u * j \in Nat /\ (2 * u) * r \in Nat OBVIOUS
  <2>. QED BY <2>1
<1>4. Root \in Int /\ Prime \in Nat \ {0} BY RootHasOrder
<1>5. Power(Root, u * j + ((2 * u) * r) * j) = Power(Root, u * j) * Power(Root, ((2 * u) * r) * j)
  BY <1>3, <1>4, PowerSum
<1>6. PICK D \in Int : D = Power(Root, u * j) BY <1>3, <1>4, PowerType
<1>7. PICK P \in Int : P = Power(Root, ((2 * u) * r) * j) BY <1>3, <1>4, PowerType
<1>8. D * P \in Int /\ 1 * (D * P) = D * P
  <2>1. D * P \in Int OBVIOUS
  <2>. QED BY <2>1
<1>9. Alike(Prime, P, P) /\ Alike(Prime, D * P, D * P) BY <1>4, <1>8, AlikeSame
<1>10. Power(Root, (u * (2 * r)) * j) = P BY <1>1, <1>7
<1>11. Power(Root, (u * (2 * r + 1)) * j) = D * P BY <1>2, <1>5, <1>6, <1>7
<1>. QED BY <1>6, <1>7, <1>8, <1>9, <1>10, <1>11

LEMMA UpperTurns ==
  ASSUME NEW u \in Nat \ {0}, NEW w \in Nat \ {0}, NEW j \in Nat,
         Alike(Prime, Power(Root, u * w), -1)
  PROVE  Turns(u, j, j + w, -1)
<1>. SUFFICES ASSUME NEW r \in Nat
              PROVE  /\ Alike(Prime, Power(Root, (u * (2 * r)) * (j + w)),
                                     Power(Root, ((2 * u) * r) * j))
                     /\ Alike(Prime, Power(Root, (u * (2 * r + 1)) * (j + w)),
                              (-1) * (Power(Root, u * j) * Power(Root, ((2 * u) * r) * j)))
  BY DEF Turns
<1>1. PICK h \in Nat : h = u * w
  <2>1. u * w \in Nat OBVIOUS
  <2>. QED BY <2>1
<1>2. PICK e \in Nat : e = ((2 * u) * r) * j
  <2>1. (2 * u) * r \in Nat OBVIOUS
  <2>2. ((2 * u) * r) * j \in Nat BY <2>1
  <2>. QED BY <2>2
<1>3. PICK d \in Nat : d = u * j
  <2>1. u * j \in Nat OBVIOUS
  <2>. QED BY <2>1
<1>4. Root \in Int /\ Prime \in Nat \ {0} BY RootHasOrder
<1>5. (u * (2 * r)) * (j + w) = e + (h + h) * r
  <2>1. (u * (2 * r)) * (j + w) = ((2 * u) * r) * j + (u * w + u * w) * r OBVIOUS
  <2>. QED BY <1>1, <1>2, <2>1
<1>6. (u * (2 * r + 1)) * (j + w) = (d + e) + ((h + h) * r + h)
  <2>1. (u * (2 * r + 1)) * (j + w)
          = (u * j + ((2 * u) * r) * j) + ((u * w + u * w) * r + u * w)
    OBVIOUS
  <2>. QED BY <1>1, <1>2, <1>3, <2>1
<1>7. h + h \in Nat /\ (h + h) * r \in Nat /\ (h + h) * r + h \in Nat /\ d + e \in Nat
  <2>1. h + h \in Nat /\ d + e \in Nat OBVIOUS
  <2>2. (h + h) * r \in Nat BY <2>1
  <2>. QED BY <2>1, <2>2
<1>8. /\ Power(Root, h) \in Int /\ Power(Root, e) \in Int /\ Power(Root, d) \in Int
      /\ Power(Root, (h + h) * r) \in Int /\ Power(Root, (h + h) * r + h) \in Int
      /\ Power(Root, d + e) \in Int
  BY <1>4, <1>7, PowerType
<1>9. Alike(Prime, Power(Root, h), -1) BY <1>1
<1>10. Alike(Prime, Power(Root, h + h), 1)
  <2>1. Power(Root, h + h) = Power(Root, h) * Power(Root, h) BY <1>4, PowerSum
  <2>2. -1 \in Int /\ (-1) * (-1) = 1 OBVIOUS
  <2>3. Alike(Prime, Power(Root, h) * Power(Root, h), (-1) * (-1))
    BY <1>4, <1>8, <1>9, <2>2, AlikeProduct
  <2>. QED BY <2>1, <2>2, <2>3
<1>11. Alike(Prime, Power(Root, (h + h) * r), 1) BY <1>4, <1>7, <1>10, RoundTurns
<1>12. Alike(Prime, Power(Root, e + (h + h) * r), Power(Root, e))
  <2>1. Power(Root, e + (h + h) * r) = Power(Root, e) * Power(Root, (h + h) * r)
    BY <1>4, <1>7, PowerSum
  <2>2. Alike(Prime, Power(Root, e), Power(Root, e)) BY <1>4, <1>8, AlikeSame
  <2>3. Alike(Prime, Power(Root, e) * Power(Root, (h + h) * r), Power(Root, e) * 1)
    BY <1>4, <1>8, <1>11, <2>2, AlikeProduct, 1 \in Int
  <2>4. Power(Root, e) * 1 = Power(Root, e) BY <1>8
  <2>. QED BY <2>1, <2>3, <2>4
<1>13. Alike(Prime, Power(Root, (h + h) * r + h), -1)
  <2>1. Power(Root, (h + h) * r + h) = Power(Root, (h + h) * r) * Power(Root, h)
    BY <1>4, <1>7, PowerSum
  <2>2. -1 \in Int /\ 1 \in Int /\ 1 * (-1) = -1 OBVIOUS
  <2>3. Alike(Prime, Power(Root, (h + h) * r) * Power(Root, h), 1 * (-1))
    BY <1>4, <1>8, <1>9, <1>11, <2>2, AlikeProduct
  <2>. QED BY <2>1, <2>2, <2>3
<1>14. Alike(Prime, Power(Root, (d + e) + ((h + h) * r + h)),
                    (-1) * (Power(Root, d) * Power(Root, e)))
  <2>1. Power(Root, (d + e) + ((h + h) * r + h))
          = Power(Root, d + e) * Power(Root, (h + h) * r + h)
    BY <1>4, <1>7, PowerSum
  <2>2. Power(Root, d + e) = Power(Root, d) * Power(Root, e) BY <1>4, PowerSum
  <2>3. -1 \in Int /\ Power(Root, d + e) * (-1) = (-1) * Power(Root, d + e) BY <1>8
  <2>4. Alike(Prime, Power(Root, d + e), Power(Root, d + e)) BY <1>4, <1>8, AlikeSame
  <2>5. Alike(Prime, Power(Root, d + e) * Power(Root, (h + h) * r + h),
                     Power(Root, d + e) * (-1))
    BY <1>4, <1>8, <1>13, <2>3, <2>4, AlikeProduct
  <2>. QED BY <2>1, <2>2, <2>3, <2>5
<1>. QED BY <1>2, <1>3, <1>5, <1>6, <1>12, <1>14

\* One bin from the even and the odd samples: c is 1 in the lower half and -1 in the upper.
LEMMA BinJoins ==
  ASSUME NEW N \in Nat, NEW s \in [0..N - 1 -> Int], NEW u \in Nat \ {0}, NEW w \in Nat \ {0},
         N = u * (2 * w), N = (2 * u) * w, NEW b \in Nat, b < u, NEW j \in Nat, NEW i \in Nat,
         NEW c \in Int, Turns(u, j, i, c)
  PROVE  Alike(Prime, Part(s, b, u, 2 * w, i),
                      Part(s, b, 2 * u, w, j)
                        + (c * Power(Root, u * j)) * Part(s, b + u, 2 * u, w, j))
<1>. DEFINE f == [n \in 1..2 * w |-> s[b + u * (n - 1)] * Power(Root, (u * (n - 1)) * i)]
            E == [n \in 1..w |-> f[2 * n - 1]]
            O == [n \in 1..w |-> f[2 * n]]
            e == [n \in 1..w |-> s[b + (2 * u) * (n - 1)] * Power(Root, ((2 * u) * (n - 1)) * j)]
            o == [n \in 1..w |-> s[(b + u) + (2 * u) * (n - 1)]
                                   * Power(Root, ((2 * u) * (n - 1)) * j)]
            d == c * Power(Root, u * j)
<1>1. Root \in Int /\ Prime \in Nat \ {0} BY RootHasOrder
<1>2. Power(Root, u * j) \in Int /\ d \in Int
  <2>1. u * j \in Nat OBVIOUS
  <2>2. Power(Root, u * j) \in Int BY <1>1, <2>1, PowerType
  <2>3. \A x \in Int : c * x \in Int OBVIOUS
  <2>. QED BY <2>2, <2>3
<1>3. /\ 2 * u \in Nat /\ 2 * w \in Nat /\ b < 2 * u /\ b + u < 2 * u /\ b + u \in Nat
  OBVIOUS
<1>4. \A n \in 1..2 * w : /\ s[b + u * (n - 1)] \in Int
                          /\ Power(Root, (u * (n - 1)) * i) \in Int
                          /\ s[b + u * (n - 1)] * Power(Root, (u * (n - 1)) * i) \in Int
  BY <1>3, PartTerms
<1>5. \A n \in 1..w : /\ s[b + (2 * u) * (n - 1)] \in Int
                      /\ Power(Root, ((2 * u) * (n - 1)) * j) \in Int
                      /\ s[b + (2 * u) * (n - 1)] * Power(Root, ((2 * u) * (n - 1)) * j) \in Int
  BY <1>3, PartTerms
<1>6. \A n \in 1..w : /\ s[(b + u) + (2 * u) * (n - 1)] \in Int
                      /\ s[(b + u) + (2 * u) * (n - 1)]
                           * Power(Root, ((2 * u) * (n - 1)) * j) \in Int
  BY <1>3, PartTerms
<1>7. \A n \in 1..2 * w : f[n] \in Int BY <1>4
<1>8. ASSUME NEW n \in 1..w
      PROVE  /\ E[n] \in Int /\ e[n] \in Int /\ Alike(Prime, E[n], 1 * e[n])
             /\ O[n] \in Int /\ o[n] \in Int /\ Alike(Prime, O[n], d * o[n])
  <2>1. PICK r \in Nat : r = n - 1 OBVIOUS
  <2>2. /\ 2 * n - 1 \in 1..2 * w /\ 2 * n \in 1..2 * w
        /\ (2 * n - 1) - 1 = 2 * r /\ 2 * n - 1 = 2 * r + 1
    BY <2>1
  <2>3. PICK P \in Int : P = Power(Root, ((2 * u) * r) * j) BY <1>5, <2>1
  <2>4. /\ Alike(Prime, Power(Root, (u * (2 * r)) * i), P)
        /\ Alike(Prime, Power(Root, (u * (2 * r + 1)) * i), c * (Power(Root, u * j) * P))
    BY <2>3 DEF Turns
  <2>5. /\ E[n] = s[b + u * (2 * r)] * Power(Root, (u * (2 * r)) * i)
        /\ s[b + u * (2 * r)] \in Int /\ Power(Root, (u * (2 * r)) * i) \in Int
        /\ E[n] \in Int
    BY <1>4, <2>2
  <2>6. /\ O[n] = s[b + u * (2 * r + 1)] * Power(Root, (u * (2 * r + 1)) * i)
        /\ s[b + u * (2 * r + 1)] \in Int /\ Power(Root, (u * (2 * r + 1)) * i) \in Int
        /\ O[n] \in Int
    BY <1>4, <2>2
  <2>7. e[n] = s[b + (2 * u) * r] * P /\ e[n] \in Int BY <1>5, <2>1, <2>3
  <2>8. o[n] = s[(b + u) + (2 * u) * r] * P /\ o[n] \in Int BY <1>6, <2>1, <2>3
  <2>9. b + (2 * u) * r = b + u * (2 * r) /\ (b + u) + (2 * u) * r = b + u * (2 * r + 1)
    BY <2>1
  <2>. HIDE DEF E, O, e, o, f
  <2>10. PICK x \in Int : x = s[b + u * (2 * r)] BY <2>5
  <2>11. PICK y \in Int : y = s[b + u * (2 * r + 1)] BY <2>6
  <2>12. PICK D \in Int : D = Power(Root, u * j) BY <1>2
  <2>13. Alike(Prime, E[n], x * P)
    <3>1. Alike(Prime, x, x) BY <1>1, AlikeSame
    <3>2. PICK A \in Int : A = Power(Root, (u * (2 * r)) * i) BY <2>5
    <3>3. E[n] = x * A BY <2>5, <2>10, <3>2
    <3>4. Alike(Prime, A, P) BY <2>4, <3>2
    <3>5. Alike(Prime, x * A, x * P) BY <1>1, <3>1, <3>4, AlikeProduct
    <3>. QED BY <3>3, <3>5
  <2>14. Alike(Prime, O[n], y * (c * (D * P)))
    <3>1. Alike(Prime, y, y) BY <1>1, AlikeSame
    <3>2. \A q \in Int : c * (D * q) \in Int OBVIOUS
    <3>3. c * (D * P) \in Int BY <3>2
    <3>4. PICK A \in Int : A = Power(Root, (u * (2 * r + 1)) * i) BY <2>6
    <3>5. O[n] = y * A BY <2>6, <2>11, <3>4
    <3>6. Alike(Prime, A, c * (D * P)) BY <2>4, <2>12, <3>4
    <3>7. Alike(Prime, y * A, y * (c * (D * P))) BY <1>1, <3>1, <3>3, <3>6, AlikeProduct
    <3>. QED BY <3>5, <3>7
  <2>15. x * P = 1 * e[n] BY <2>7, <2>9, <2>10
  <2>16. y * (c * (D * P)) = d * o[n]
    <3>1. y * (c * (D * P)) = (c * D) * (y * P) OBVIOUS
    <3>. QED BY <2>8, <2>9, <2>11, <2>12, <3>1
  <2>. QED BY <2>5, <2>6, <2>7, <2>8, <2>13, <2>14, <2>15, <2>16
<1>9. SumTo(f, 2 * w) = SumTo(E, w) + SumTo(O, w) BY <1>7, SumPairs
<1>10. /\ Part(s, b, u, 2 * w, i) = SumTo(f, 2 * w)
       /\ Part(s, b, 2 * u, w, j) = SumTo(e, w)
       /\ Part(s, b + u, 2 * u, w, j) = SumTo(o, w)
  BY DEF Part
<1>. HIDE DEF f, E, O, e, o, d
<1>11. /\ SumTo(E, w) \in Int /\ SumTo(O, w) \in Int /\ SumTo(e, w) \in Int /\ SumTo(o, w) \in Int
  BY <1>8, SumType
<1>12. Alike(Prime, SumTo(E, w), 1 * SumTo(e, w)) BY <1>1, <1>8, AlikeSums, 1 \in Int
<1>13. Alike(Prime, SumTo(O, w), d * SumTo(o, w)) BY <1>1, <1>2, <1>8, AlikeSums
<1>14. \A x \in Int : d * x \in Int /\ 1 * x = x BY <1>2
<1>15. Alike(Prime, SumTo(E, w) + SumTo(O, w), SumTo(e, w) + d * SumTo(o, w))
  BY <1>1, <1>11, <1>12, <1>13, <1>14, AlikeSum
<1>. QED BY <1>9, <1>10, <1>15 DEF d

-----------------------------------------------------------------------------
(* The bits of a number, the other way round. *)

\* The lowest c bits of a number, mirrored.
Reversed(k, c) ==
    LET reversed[b \in 0..c] ==
            IF b = 0 THEN 0 ELSE 2 * reversed[b - 1] + ((k \div Power(2, b - 1)) % 2)
    IN reversed[c]

Mirrors(h, k, c) ==
    h[0] = 0 /\ \A b \in 1..c : h[b] = 2 * h[b - 1] + ((k \div Power(2, b - 1)) % 2)

\* The powers of two.
LEMMA PowersOfTwo ==
  /\ \A k \in Nat : Power(2, k) \in Nat \ {0} /\ Power(2, k + 1) = 2 * Power(2, k)
  /\ Power(2, 0) = 1
<1>1. Power(2, 0) = 1 BY PowerNone
<1>2. \A k \in Nat : Power(2, k + 1) = 2 * Power(2, k)
  <2>. SUFFICES ASSUME NEW k \in Nat PROVE Power(2, k + 1) = 2 * Power(2, k) OBVIOUS
  <2>1. 2 \in Int OBVIOUS
  <2>. QED BY <2>1, PowerNext
<1>. DEFINE T == {k \in Nat : Power(2, k) \in Nat \ {0}}
<1>3. 0 \in T BY <1>1
<1>4. ASSUME NEW k \in Nat, k \in T PROVE k + 1 \in T BY <1>2, <1>4
<1>. HIDE DEF T
<1>5. Nat \subseteq T BY <1>3, <1>4, SetInduction
<1>. QED BY <1>1, <1>2, <1>5 DEF T

LEMMA ReversedIs ==
  ASSUME NEW k \in Nat, NEW c \in Nat
  PROVE  \E h \in [0..c -> Int] : Mirrors(h, k, c) /\ Reversed(k, c) = h[c]
<1>. DEFINE Bit(b) == (k \div Power(2, b - 1)) % 2
            G == [v \in Nat \X Int |-> IF v[1] \in 1..c THEN 2 * v[2] + Bit(v[1]) ELSE 0]
            Next(h, b) == 2 * h[b - 1] + ((k \div Power(2, b - 1)) % 2)
            Is(h) == h = [b \in 0..c |-> IF b = 0 THEN 0 ELSE Next(h, b)]
<1>0. \A b \in 1..c : Bit(b) \in Int
  <2>. SUFFICES ASSUME NEW b \in 1..c PROVE Bit(b) \in Int OBVIOUS
  <2>1. b - 1 \in Nat OBVIOUS
  <2>2. PICK d \in Nat \ {0} : d = Power(2, b - 1) BY <2>1, PowersOfTwo
  <2>3. (k \div d) % 2 \in Int OBVIOUS
  <2>. QED BY <2>2, <2>3
<1>. HIDE DEF Bit
<1>1. G \in [Nat \X Int -> Int]
  <2>1. ASSUME NEW v \in Nat \X Int
        PROVE  (IF v[1] \in 1..c THEN 2 * v[2] + Bit(v[1]) ELSE 0) \in Int
    <3>1. v[2] \in Int OBVIOUS
    <3>2. v[1] \in 1..c => Bit(v[1]) \in Int BY <1>0
    <3>. QED BY <3>1, <3>2
  <2>. QED BY <2>1
<1>2. ASSUME NEW b \in 1..c, NEW a \in Int PROVE G[<<b, a>>] = 2 * a + Bit(b)
  <2>1. <<b, a>> \in Nat \X Int /\ <<b, a>>[1] = b /\ <<b, a>>[2] = a OBVIOUS
  <2>. QED BY <2>1
<1>. HIDE DEF G
<1>3. PICK g \in [0..c -> Int] : Iterated(g, G, 0, 0, c)
  <2>1. 0 \in Nat /\ 0 \in Int OBVIOUS
  <2>. QED BY <1>1, <2>1, Iterates
<1>4. ASSUME NEW b \in 1..c PROVE g[b] = Next(g, b)
  <2>1. b \in 0..c /\ b - 1 \in 0..c /\ b # 0 OBVIOUS
  <2>2. g[b] = G[<<b, g[b - 1]>>] BY <1>3, <2>1 DEF Iterated
  <2>3. g[b - 1] \in Int BY <2>1
  <2>4. g[b] = 2 * g[b - 1] + Bit(b) BY <1>2, <2>2, <2>3
  <2>. QED BY <2>4 DEF Bit
<1>5. g[0] = 0
  <2>1. 0 \in 0..c OBVIOUS
  <2>. QED BY <1>3, <2>1 DEF Iterated
<1>. HIDE DEF Next
<1>6. Is(g)
  <2>1. \A b \in 0..c : b = 0 \/ b \in 1..c OBVIOUS
  <2>2. \A b \in 0..c : g[b] = IF b = 0 THEN 0 ELSE Next(g, b) BY <1>4, <1>5, <2>1
  <2>. QED BY <2>2
<1>. DEFINE t == CHOOSE h : Is(h)
<1>7. Is(t)
  <2>1. \E h : Is(h) BY <1>6
  <2>. HIDE DEF Is
  <2>. QED BY <2>1
<1>8. Reversed(k, c) = t[c] BY DEF Reversed, Next
<1>. HIDE DEF t
<1>9. /\ t[0] = 0 /\ \A b \in 1..c : t[b] = Next(t, b)
      /\ DOMAIN t = 0..c
  <2>1. 0 \in 0..c /\ \A b \in 1..c : b \in 0..c /\ b # 0 OBVIOUS
  <2>2. /\ DOMAIN [b \in 0..c |-> IF b = 0 THEN 0 ELSE Next(t, b)] = 0..c
        /\ \A b \in 0..c : [j \in 0..c |-> IF j = 0 THEN 0 ELSE Next(t, j)][b]
                             = IF b = 0 THEN 0 ELSE Next(t, b)
    OBVIOUS
  <2>3. t = [b \in 0..c |-> IF b = 0 THEN 0 ELSE Next(t, b)] BY <1>7
  <2>. HIDE DEF Is
  <2>4. DOMAIN t = 0..c BY <2>2, <2>3
  <2>5. \A b \in 0..c : t[b] = IF b = 0 THEN 0 ELSE Next(t, b) BY <2>2, <2>3
  <2>. QED BY <2>1, <2>4, <2>5
<1>10. \A b \in 0..c : t[b] \in Int
  <2>. DEFINE T == {b \in 0..c : t[b] \in Int}
  <2>1. 0 <= c => 0 \in T BY <1>9
  <2>2. ASSUME NEW b \in 0..c, b < c, b \in T PROVE b + 1 \in T
    <3>1. b + 1 \in 1..c /\ (b + 1) - 1 = b /\ b + 1 \in 0..c BY <2>2
    <3>2. t[b + 1] = 2 * t[b] + Bit(b + 1) /\ t[b] \in Int
      BY <1>9, <2>2, <3>1 DEF Next, Bit
    <3>. QED BY <1>0, <3>1, <3>2
  <2>. HIDE DEF T
  <2>3. 0..c \subseteq T BY <2>1, <2>2, RangeInduction, 0 \in Nat
  <2>. QED BY <2>3 DEF T
<1>11. t \in [0..c -> Int]
  <2>1. t = [b \in 0..c |-> t[b]] BY <1>7, <1>9
  <2>. QED BY <1>10, <2>1
<1>12. Mirrors(t, k, c) BY <1>9 DEF Next, Mirrors
<1>. QED BY <1>8, <1>11, <1>12

LEMMA ReversedNone ==
  ASSUME NEW k \in Nat
  PROVE  Reversed(k, 0) = 0
<1>1. 0 \in Nat OBVIOUS
<1>2. PICK h \in [0..0 -> Int] : Mirrors(h, k, 0) /\ Reversed(k, 0) = h[0] BY <1>1, ReversedIs
<1>. QED BY <1>2 DEF Mirrors

LEMMA ReversedNext ==
  ASSUME NEW k \in Nat, NEW c \in Nat
  PROVE  Reversed(k, c + 1) = 2 * Reversed(k, c) + ((k \div Power(2, c)) % 2)
<1>1. c + 1 \in Nat OBVIOUS
<1>2. PICK g \in [0..c -> Int] : Mirrors(g, k, c) /\ Reversed(k, c) = g[c] BY ReversedIs
<1>3. PICK h \in [0..c + 1 -> Int] : Mirrors(h, k, c + 1) /\ Reversed(k, c + 1) = h[c + 1]
  BY <1>1, ReversedIs
<1>4. g[c] = h[c]
  <2>. DEFINE T == {b \in 0..c : g[b] = h[b]}
  <2>1. 0 <= c => 0 \in T BY <1>2, <1>3 DEF Mirrors
  <2>2. ASSUME NEW b \in 0..c, b < c, b \in T PROVE b + 1 \in T
    <3>1. b + 1 \in 1..c /\ b + 1 \in 1..c + 1 /\ (b + 1) - 1 = b /\ b + 1 \in 0..c BY <2>2
    <3>2. /\ g[b + 1] = 2 * g[b] + ((k \div Power(2, b)) % 2)
          /\ h[b + 1] = 2 * h[b] + ((k \div Power(2, b)) % 2)
      BY <1>2, <1>3, <3>1 DEF Mirrors
    <3>. QED BY <2>2, <3>1, <3>2
  <2>. HIDE DEF T
  <2>3. 0..c \subseteq T BY <2>1, <2>2, RangeInduction, 0 \in Nat
  <2>4. c \in 0..c OBVIOUS
  <2>. QED BY <2>3, <2>4 DEF T
<1>5. h[c + 1] = 2 * h[(c + 1) - 1] + ((k \div Power(2, (c + 1) - 1)) % 2) /\ (c + 1) - 1 = c
  <2>1. c + 1 \in 1..c + 1 OBVIOUS
  <2>. QED BY <1>3, <2>1 DEF Mirrors
<1>. QED BY <1>2, <1>3, <1>4, <1>5

\* The lowest bit comes out on top of the rest.
LEMMA LowestBitOnTop ==
  ASSUME NEW q \in Nat, NEW e \in {0, 1}
  PROVE  \A c \in Nat : Reversed(2 * q + e, c + 1) = e * Power(2, c) + Reversed(q, c)
<1>. DEFINE k == 2 * q + e
            T == {c \in Nat : Reversed(k, c + 1) = e * Power(2, c) + Reversed(q, c)}
<1>0. k \in Nat OBVIOUS
<1>1. 0 \in T
  <2>1. Reversed(k, 0) = 0 /\ Reversed(q, 0) = 0 /\ Power(2, 0) = 1
    BY <1>0, ReversedNone, PowersOfTwo
  <2>2. k \div 1 = k /\ k % 2 = e OBVIOUS
  <2>. HIDE DEF k
  <2>3. Reversed(k, 0 + 1) = 2 * Reversed(k, 0) + ((k \div Power(2, 0)) % 2)
    BY <1>0, ReversedNext
  <2>. QED BY <2>1, <2>2, <2>3
<1>2. ASSUME NEW c \in Nat, c \in T PROVE c + 1 \in T
  <2>1. c + 1 \in Nat OBVIOUS
  <2>2. PICK d \in Nat \ {0} : d = Power(2, c) BY PowersOfTwo
  <2>3. Power(2, c + 1) = 2 * d BY <2>2, PowersOfTwo
  <2>4. k \div (2 * d) = q \div d
    <3>1. PICK a \in Int, r \in 0..d - 1 : q = d * a + r /\ q \div d = a
      <4>1. q \div d \in Int /\ q % d \in 0..d - 1 /\ q = d * (q \div d) + (q % d) OBVIOUS
      <4>. QED BY <4>1
    <3>2. k = (2 * d) * a + (2 * r + e) /\ 2 * r + e \in 0..2 * d - 1 BY <3>1
    <3>3. PICK a2 \in Int, r2 \in 0..2 * d - 1 : k = (2 * d) * a2 + r2 /\ k \div (2 * d) = a2
                                                 /\ r2 = k % (2 * d)
      <4>1. PICK D \in Nat \ {0} : D = 2 * d OBVIOUS
      <4>2. k \div D \in Int /\ k % D \in 0..D - 1 /\ k = D * (k \div D) + (k % D)
        BY <1>0
      <4>. QED BY <4>1, <4>2
    <3>4. r2 = 2 * r + e
      <4>1. 2 * d \in Nat \ {0} OBVIOUS
      <4>2. ((2 * d) * a + (2 * r + e)) % (2 * d) = 2 * r + e BY <3>2, <4>1, Remainder
      <4>. QED BY <3>2, <3>3, <4>2
    <3>5. (2 * d) * a = (2 * d) * a2 BY <3>2, <3>3, <3>4
    <3>6. a = a2
      <4>1. PICK D \in Nat \ {0} : D = 2 * d OBVIOUS
      <4>2. \A x, y \in Int : x < y => D * x < D * y OBVIOUS
      <4>3. D * a = D * a2 /\ D * a \in Int BY <3>5, <4>1
      <4>4. ~(a < a2) /\ ~(a2 < a) BY <3>1, <3>3, <4>2, <4>3
      <4>. QED BY <3>1, <3>3, <4>4
    <3>. QED BY <3>1, <3>3, <3>6
  <2>. HIDE DEF k
  <2>5. Reversed(k, (c + 1) + 1) = 2 * Reversed(k, c + 1) + ((k \div Power(2, c + 1)) % 2)
    BY <1>0, <2>1, ReversedNext
  <2>6. Reversed(q, c + 1) = 2 * Reversed(q, c) + ((q \div Power(2, c)) % 2)
    BY ReversedNext
  <2>7. Reversed(k, c + 1) = e * d + Reversed(q, c) BY <1>2, <2>2
  <2>8. Reversed(q, c) \in Int
    <3>1. c \in 0..c OBVIOUS
    <3>. QED BY <3>1, ReversedIs
  <2>9. PICK bit \in Int : bit = (q \div d) % 2 OBVIOUS
  <2>10. e * d \in Int /\ e * (2 * d) = 2 * (e * d) OBVIOUS
  <2>11. Reversed(k, (c + 1) + 1) = e * Power(2, c + 1) + Reversed(q, c + 1)
    BY <2>2, <2>3, <2>4, <2>5, <2>6, <2>7, <2>8, <2>9, <2>10
  <2>. QED BY <2>1, <2>11
<1>. HIDE DEF T
<1>3. Nat \subseteq T BY <1>1, <1>2, SetInduction
<1>. QED BY <1>3 DEF T

\* The mirror of c bits is a number of c bits.
LEMMA ReversedFits ==
  \A c \in Nat : \A q \in 0..Power(2, c) - 1 : Reversed(q, c) \in 0..Power(2, c) - 1
<1>. DEFINE T == {c \in Nat : \A q \in 0..Power(2, c) - 1 : Reversed(q, c) \in 0..Power(2, c) - 1}
<1>1. 0 \in T
  <2>1. Power(2, 0) = 1 BY PowersOfTwo
  <2>2. \A q \in 0..0 : q \in Nat OBVIOUS
  <2>. QED BY <2>1, <2>2, ReversedNone
<1>2. ASSUME NEW c \in Nat, c \in T PROVE c + 1 \in T
  <2>1. PICK d \in Nat \ {0} : d = Power(2, c) BY PowersOfTwo
  <2>2. Power(2, c + 1) = 2 * d BY <2>1, PowersOfTwo
  <2>3. ASSUME NEW k \in 0..2 * d - 1 PROVE Reversed(k, c + 1) \in 0..2 * d - 1
    <3>1. PICK q \in 0..d - 1, e \in {0, 1} : k = 2 * q + e
      <4>1. k \div 2 \in 0..d - 1 /\ k % 2 \in {0, 1} /\ k = 2 * (k \div 2) + (k % 2) OBVIOUS
      <4>. QED BY <4>1
    <3>2. q \in Nat OBVIOUS
    <3>3. Reversed(2 * q + e, c + 1) = e * Power(2, c) + Reversed(q, c)
      BY <3>2, LowestBitOnTop
    <3>4. Reversed(q, c) \in 0..d - 1 BY <1>2, <2>1
    <3>. QED BY <2>1, <3>1, <3>3, <3>4
  <2>. QED BY <2>2, <2>3
<1>. HIDE DEF T
<1>3. Nat \subseteq T BY <1>1, <1>2, SetInduction
<1>. QED BY <1>3 DEF T

-----------------------------------------------------------------------------
(* The transform, stage by stage. *)

(* After s stages, every block holds the transform of the samples a stride apart. *)
Stage(s) ==
    /\ width = Power(2, s)
    /\ DOMAIN buf = Bins
    /\ \A q \in 0..Power(2, LOG2_SIZE - s) - 1 : \A j \in 0..width - 1 :
         /\ buf[q * width + j] \in Int
         /\ s > 0 => buf[q * width + j] \in 0..Prime - 1
         /\ Alike(Prime, buf[q * width + j],
                  Part(signal, Reversed(q, LOG2_SIZE - s), Power(2, LOG2_SIZE - s), width, j))

FourierInv ==
    /\ vibrato_step \in GapSteps \cup FourierSteps \cup PeakSteps
    /\ vibrato_step \in FourierSteps => signal \in Signals
    /\ vibrato_step = "permute" => width = 1
    /\ vibrato_step = "stages" => \E s \in 0..LOG2_SIZE : Stage(s)
    /\ vibrato_step = "transformed" => TransformIsFourier

LEMMA SizeFacts ==
  /\ FFT_SIZE \in Nat \ {0} /\ LOG2_SIZE \in Nat \ {0} /\ FFT_SIZE = Power(2, LOG2_SIZE)
  /\ Root \in Int /\ Prime \in Nat \ {0}
  /\ \A k \in Nat : Twiddle(k) \in Int /\ Alike(Prime, Twiddle(k), Power(Root, k))
<1>1. FFT_SIZE \in Nat \ {0} BY SizeIsAPower, PowersOfTwo
<1>2. Root \in Int /\ Prime \in Nat \ {0} BY RootHasOrder
<1>3. ASSUME NEW k \in Nat PROVE Twiddle(k) \in Int /\ Alike(Prime, Twiddle(k), Power(Root, k))
  <2>1. Power(Root, k) \in Int BY <1>2, PowerType
  <2>. QED BY <1>2, <2>1, AlikeRemainder DEF Twiddle
<1>. QED BY <1>1, <1>2, <1>3, SizeIsAPower

LEMMA PermuteStep ==
  ASSUME signal \in Signals, width = 1, Permute
  PROVE  Stage(0)'
<1>1. signal' = signal /\ width' = 1 /\ buf' = [i \in Bins |-> signal[BitReversed(i)]]
  BY DEF Permute
<1>2. PICK N \in Nat \ {0} : N = FFT_SIZE /\ N = Power(2, LOG2_SIZE) BY SizeFacts
<1>3. signal \in [0..N - 1 -> Int] /\ Bins = 0..N - 1 BY <1>2, InputsAreSampled DEF Bins
<1>4. LOG2_SIZE \in Nat /\ LOG2_SIZE - 0 = LOG2_SIZE /\ Power(2, 0) = 1
  BY SizeFacts, PowersOfTwo
<1>5. ASSUME NEW q \in 0..N - 1, NEW j \in 0..0
      PROVE  /\ buf'[q * 1 + j] \in Int
             /\ Alike(Prime, buf'[q * 1 + j],
                      Part(signal, Reversed(q, LOG2_SIZE), N, 1, j))
  <2>1. j = 0 /\ q * 1 + j = q /\ q \in Bins BY <1>3
  <2>2. PICK b : b = Reversed(q, LOG2_SIZE) OBVIOUS
  <2>3. b \in 0..N - 1 BY <1>2, <1>4, <2>2, ReversedFits
  <2>4. BitReversed(q) = b BY <2>2 DEF BitReversed, Reversed
  <2>5. buf'[q] = signal[b] /\ signal[b] \in Int BY <1>1, <1>3, <2>1, <2>3, <2>4
  <2>6. Part(signal, b, N, 1, 0) = signal[b]
    <3>. DEFINE f == [n \in 1..1 |-> signal[b + N * (n - 1)] * Power(Root, (N * (n - 1)) * 0)]
    <3>1. f[1] = signal[b + N * (1 - 1)] * Power(Root, (N * (1 - 1)) * 0) OBVIOUS
    <3>2. b + N * (1 - 1) = b /\ (N * (1 - 1)) * 0 = 0 BY <2>3
    <3>3. Power(Root, 0) = 1 BY SizeFacts, PowerNone
    <3>4. f[1] = signal[b] BY <2>5, <3>1, <3>2, <3>3
    <3>. HIDE DEF f
    <3>5. 0 \in Nat /\ 0 + 1 = 1 /\ \A n \in 1..0 + 1 : n = 1 OBVIOUS
    <3>6. \A n \in 1..0 + 1 : f[n] \in Int BY <2>5, <3>4, <3>5
    <3>7. SumTo(f, 0 + 1) = SumTo(f, 0) + f[0 + 1] BY <3>5, <3>6, SumNext
    <3>8. SumTo(f, 0) = 0 BY SumNone
    <3>9. SumTo(f, 1) = signal[b] BY <2>5, <3>4, <3>7, <3>8
    <3>. QED BY <3>9 DEF Part, f
  <2>7. Alike(Prime, signal[b], signal[b]) BY <2>5, SizeFacts, AlikeSame
  <2>. QED BY <2>1, <2>2, <2>5, <2>6, <2>7
<1>6. DOMAIN buf' = Bins' BY <1>1 DEF Bins
<1>7. \A q \in 0..Power(2, LOG2_SIZE - 0) - 1 : \A j \in 0..width' - 1 :
         /\ buf'[q * width' + j] \in Int
         /\ 0 > 0 => buf'[q * width' + j] \in 0..Prime - 1
         /\ Alike(Prime, buf'[q * width' + j],
                  Part(signal', Reversed(q, LOG2_SIZE - 0), Power(2, LOG2_SIZE - 0), width', j))
  <2>1. width' - 1 = 0 /\ Power(2, LOG2_SIZE - 0) = N BY <1>1, <1>2, <1>4
  <2>. QED BY <1>1, <1>4, <1>5, <2>1
<1>8. width' = Power(2, 0) BY <1>1, <1>4
<1>. QED BY <1>6, <1>7, <1>8 DEF Stage

\* What a stage needs to know of the sizes.
LEMMA StageSizes ==
  ASSUME NEW s \in Nat, s < LOG2_SIZE
  PROVE  \E u \in Nat \ {0}, w \in Nat \ {0} :
           /\ w = Power(2, s) /\ 2 * w = Power(2, s + 1)
           /\ u = Power(2, LOG2_SIZE - (s + 1)) /\ 2 * u = Power(2, LOG2_SIZE - s)
           /\ FFT_SIZE = u * (2 * w) /\ FFT_SIZE = (2 * u) * w
           /\ FFT_SIZE \div (2 * w) = u
           /\ Alike(Prime, Power(Root, u * w), -1)
<1>. DEFINE c == LOG2_SIZE - (s + 1)
<1>1. c \in Nat /\ c + 1 = LOG2_SIZE - s /\ (c + 1) + s = LOG2_SIZE BY SizeFacts
<1>. HIDE DEF c
<1>2. PICK u \in Nat \ {0} : u = Power(2, c) BY <1>1, PowersOfTwo
<1>3. PICK w \in Nat \ {0} : w = Power(2, s) BY PowersOfTwo
<1>4. 2 * u = Power(2, c + 1) /\ 2 * w = Power(2, s + 1) BY <1>1, <1>2, <1>3, PowersOfTwo
<1>5. FFT_SIZE = (2 * u) * w
  <2>1. c + 1 \in Nat /\ 2 \in Int BY <1>1
  <2>2. Power(2, (c + 1) + s) = Power(2, c + 1) * Power(2, s) BY <2>1, PowerSum
  <2>. QED BY <1>1, <1>3, <1>4, <2>2, SizeFacts
<1>6. (2 * u) * w = u * (2 * w) /\ (2 * u) * w = (2 * w) * u /\ (2 * u) * w = 2 * (u * w)
      /\ u * w \in Int /\ 2 * w \in Nat \ {0} /\ u \in Int /\ u * w \in Nat
  OBVIOUS
<1>7. FFT_SIZE \div (2 * w) = u
  <2>1. ((2 * w) * u) \div (2 * w) = u BY <1>6, ExactDivision
  <2>. QED BY <1>5, <1>6, <2>1
<1>8. FFT_SIZE \div 2 = u * w
  <2>1. (2 * (u * w)) \div 2 = u * w BY <1>6, ExactDivision, 2 \in Nat \ {0}
  <2>. QED BY <1>5, <1>6, <2>1
<1>9. Alike(Prime, Power(Root, u * w), -1)
  <2>1. PICK x \in Int : x = Power(Root, u * w) BY <1>6, SizeFacts, PowerType
  <2>2. x % Prime = Prime - 1 BY <1>8, <2>1, RootHasOrder
  <2>3. Prime \in Nat \ {0} BY SizeFacts
  <2>4. x \div Prime \in Int /\ x = Prime * (x \div Prime) + (x % Prime) BY <2>3
  <2>5. PICK z \in Int : x = Prime * z + (Prime - 1) BY <2>2, <2>4
  <2>6. Prime * (z + 1) = Prime * z + Prime /\ Prime * z \in Int BY <2>3
  <2>7. x = -1 + Prime * (z + 1) /\ z + 1 \in Int BY <2>3, <2>5, <2>6
  <2>. QED BY <2>1, <2>7 DEF Alike
<1>. QED BY <1>1, <1>2, <1>3, <1>4, <1>5, <1>6, <1>7, <1>9 DEF c

\* Which half of its pair a bin is in.
LEMMA LowerHalf ==
  ASSUME NEW w \in Nat \ {0}, NEW q \in Nat, NEW j \in 0..w - 1, NEW e \in {0, 1}
  PROVE  /\ (q * (2 * w) + (e * w + j)) % w = j
         /\ ((q * (2 * w) + (e * w + j)) \div w) % 2 = e
         /\ q * (2 * w) + (e * w + j) = (2 * q + e) * w + j
<1>1. PICK i \in Int, a \in Int : /\ i = q * (2 * w) + (e * w + j) /\ i = w * a + j
                                  /\ a = 2 * q + e
  <2>1. q * (2 * w) + (e * w + j) = w * (2 * q + e) + j
    <3>1. CASE e = 0
      <4>1. q * (2 * w) + (0 * w + j) = w * (2 * q + 0) + j OBVIOUS
      <4>. QED BY <3>1, <4>1
    <3>2. CASE e = 1
      <4>1. q * (2 * w) + (1 * w + j) = w * (2 * q + 1) + j OBVIOUS
      <4>. QED BY <3>2, <4>1
    <3>. QED BY <3>1, <3>2
  <2>2. 2 * q + e \in Int /\ w * (2 * q + e) + j \in Int OBVIOUS
  <2>. QED BY <2>1, <2>2
<1>2. i % w = j BY <1>1, Remainder
<1>3. i \div w = a
  <2>1. i \div w \in Int /\ i = w * (i \div w) + (i % w) OBVIOUS
  <2>2. PICK z \in Int : z = i \div w BY <2>1
  <2>3. w * z = w * a BY <1>1, <1>2, <2>1, <2>2
  <2>4. \A x, y \in Int : x < y => w * x < w * y OBVIOUS
  <2>5. w * z \in Int OBVIOUS
  <2>6. ~(z < a) /\ ~(a < z) BY <1>1, <2>3, <2>4, <2>5
  <2>. QED BY <1>1, <2>2, <2>6
<1>4. a % 2 = e
  <2>1. 2 \in Nat \ {0} /\ q \in Int /\ e \in 0..2 - 1 OBVIOUS
  <2>2. (2 * q + e) % 2 = e BY <2>1, Remainder
  <2>. QED BY <1>1, <2>2
<1>5. w * a + j = (2 * q + e) * w + j BY <1>1
<1>. QED BY <1>1, <1>2, <1>3, <1>4, <1>5

LEMMA ButterfliesStep ==
  ASSUME signal \in Signals, NEW s \in 0..LOG2_SIZE, Stage(s), Butterflies
  PROVE  s + 1 \in 0..LOG2_SIZE /\ Stage(s + 1)'
<1>1. /\ width < FFT_SIZE /\ width' = 2 * width /\ signal' = signal
      /\ buf' = [i \in Bins |->
                   LET j == i % width
                   IN IF (i \div width) % 2 = 0
                      THEN (buf[i] + TwiddleOf(j) * buf[i + width]) % Prime
                      ELSE (buf[i - width] - TwiddleOf(j) * buf[i]) % Prime]
  BY DEF Butterflies
<1>2. s \in Nat /\ s < LOG2_SIZE
  <2>1. FFT_SIZE \in Nat /\ FFT_SIZE = Power(2, LOG2_SIZE) /\ LOG2_SIZE \in Nat BY SizeFacts
  <2>2. s # LOG2_SIZE BY <1>1, <2>1 DEF Stage
  <2>. QED BY <2>1, <2>2
<1>3. s + 1 \in 0..LOG2_SIZE /\ s + 1 > 0 /\ LOG2_SIZE \in Nat BY <1>2, SizeFacts
<1>4. PICK u \in Nat \ {0}, w \in Nat \ {0} :
           /\ w = Power(2, s) /\ 2 * w = Power(2, s + 1)
           /\ u = Power(2, LOG2_SIZE - (s + 1)) /\ 2 * u = Power(2, LOG2_SIZE - s)
           /\ FFT_SIZE = u * (2 * w) /\ FFT_SIZE = (2 * u) * w
           /\ FFT_SIZE \div (2 * w) = u
           /\ Alike(Prime, Power(Root, u * w), -1)
  BY <1>2, StageSizes
<1>5. width = w /\ width' = 2 * w BY <1>1, <1>4 DEF Stage
<1>6. PICK N \in Nat \ {0} : N = FFT_SIZE BY SizeFacts
<1>7. /\ signal \in [0..N - 1 -> Int] /\ Bins = 0..N - 1 /\ N = u * (2 * w) /\ N = (2 * u) * w
      /\ Root \in Int /\ Prime \in Nat \ {0}
  BY <1>4, <1>6, InputsAreSampled, SizeFacts DEF Bins
<1>8. PICK c \in Nat : c = LOG2_SIZE - (s + 1) /\ c + 1 = LOG2_SIZE - s BY <1>2, <1>3
<1>9. u = Power(2, c) /\ 2 * u = Power(2, c + 1) BY <1>4, <1>8
<1>10. ASSUME NEW q \in 0..u - 1, NEW j \in 0..w - 1
       PROVE  /\ buf'[q * (2 * w) + j] \in 0..Prime - 1
              /\ Alike(Prime, buf'[q * (2 * w) + j], Part(signal, Reversed(q, c), u, 2 * w, j))
              /\ buf'[q * (2 * w) + (j + w)] \in 0..Prime - 1
              /\ Alike(Prime, buf'[q * (2 * w) + (j + w)],
                              Part(signal, Reversed(q, c), u, 2 * w, j + w))
  <2>0. /\ q \in Nat /\ j \in Nat /\ 2 * q + 0 \in 0..2 * u - 1 /\ 2 * q + 1 \in 0..2 * u - 1
        /\ u * j \in Nat
    OBVIOUS
  <2>1. PICK b \in Nat : b = Reversed(q, c) /\ b < u
    <3>1. Reversed(q, c) \in 0..u - 1 BY <1>9, ReversedFits
    <3>. QED BY <3>1
  <2>2. Reversed(2 * q + 0, c + 1) = b /\ Reversed(2 * q + 1, c + 1) = b + u
    <3>1. Reversed(2 * q + 0, c + 1) = 0 * Power(2, c) + Reversed(q, c) BY <2>0, LowestBitOnTop
    <3>2. Reversed(2 * q + 1, c + 1) = 1 * Power(2, c) + Reversed(q, c) BY <2>0, LowestBitOnTop
    <3>. QED BY <1>9, <2>1, <3>1, <3>2
  <2>3. PICK x \in Int : x = buf[(2 * q + 0) * w + j]
                         /\ Alike(Prime, x, Part(signal, b, 2 * u, w, j))
    BY <1>5, <1>8, <1>9, <2>0, <2>2 DEF Stage
  <2>4. PICK y \in Int : y = buf[(2 * q + 1) * w + j]
                         /\ Alike(Prime, y, Part(signal, b + u, 2 * u, w, j))
    BY <1>5, <1>8, <1>9, <2>0, <2>2 DEF Stage
  <2>5. PICK X \in Int : X = Part(signal, b, 2 * u, w, j)
    BY <1>7, <2>0, <2>1, PartTerms
  <2>6. PICK Y \in Int : Y = Part(signal, b + u, 2 * u, w, j)
    <3>1. b + u \in Nat /\ b + u < 2 * u BY <2>1
    <3>. QED BY <1>7, <2>0, <3>1, PartTerms
  <2>7. PICK D \in Int : D = Power(Root, u * j) BY <1>7, <2>0, PowerType
  <2>8. PICK T \in Int : T = TwiddleOf(j) /\ Alike(Prime, T, D)
    <3>1. TwiddleOf(j) = Twiddle(u * j)
      <4>1. j * u = u * j OBVIOUS
      <4>. QED BY <1>4, <1>5, <4>1 DEF TwiddleOf
    <3>. QED BY <2>0, <2>7, <3>1, SizeFacts
  <2>9. /\ T * y \in Int /\ x + T * y \in Int /\ x - T * y \in Int /\ D * Y \in Int
        /\ X + D * Y \in Int /\ X - D * Y \in Int
    <3>1. T * y \in Int /\ D * Y \in Int OBVIOUS
    <3>. QED BY <3>1
  <2>10. Alike(Prime, x + T * y, X + D * Y) /\ Alike(Prime, x - T * y, X - D * Y)
    <3>1. Alike(Prime, T * y, D * Y) BY <1>7, <2>4, <2>6, <2>8, AlikeProduct
    <3>. QED BY <1>7, <2>3, <2>5, <2>9, <3>1, AlikeSum
  <2>11. \A e \in {0, 1} : /\ (q * (2 * w) + (e * w + j)) % w = j
                           /\ ((q * (2 * w) + (e * w + j)) \div w) % 2 = e
                           /\ q * (2 * w) + (e * w + j) = (2 * q + e) * w + j
    BY <2>0, LowerHalf
  <2>12. q * (2 * w) + j \in Bins /\ q * (2 * w) + (j + w) \in Bins
    <3>1. j < 2 * w /\ j + w < 2 * w /\ 2 * w \in Nat /\ j + w \in Nat /\ q < u OBVIOUS
    <3>2. j + (2 * w) * q \in 0..(2 * w) * u - 1 /\ (j + w) + (2 * w) * q \in 0..(2 * w) * u - 1
      BY <2>0, <3>1, InStride
    <3>3. (2 * w) * q = q * (2 * w) /\ (2 * w) * u = u * (2 * w) /\ q * (2 * w) \in Int OBVIOUS
    <3>4. j + q * (2 * w) = q * (2 * w) + j /\ (j + w) + q * (2 * w) = q * (2 * w) + (j + w)
      BY <3>3
    <3>. QED BY <1>7, <3>2, <3>3, <3>4
  <2>13. buf'[q * (2 * w) + j] = (x + T * y) % Prime
    <3>1. 0 * w + j = j OBVIOUS
    <3>2. PICK i \in Bins : i = q * (2 * w) + j BY <2>12
    <3>3. i % w = j /\ (i \div w) % 2 = 0 /\ i = (2 * q + 0) * w + j BY <2>11, <3>1, <3>2
    <3>4. i + w = (2 * q + 1) * w + j
      <4>1. ((2 * q + 0) * w + j) + w = (2 * q + 1) * w + j OBVIOUS
      <4>. QED BY <3>3, <4>1
    <3>5. buf'[i] = (buf[i] + TwiddleOf(j) * buf[i + w]) % Prime BY <1>1, <1>5, <3>3
    <3>6. buf[i] = x BY <2>3, <3>3
    <3>7. buf[i + w] = y BY <2>4, <3>4
    <3>. QED BY <2>8, <3>2, <3>5, <3>6, <3>7
  <2>14. buf'[q * (2 * w) + (j + w)] = (x - T * y) % Prime
    <3>1. 1 * w + j = j + w OBVIOUS
    <3>2. PICK i \in Bins : i = q * (2 * w) + (j + w) BY <2>12
    <3>3. i % w = j /\ (i \div w) % 2 = 1 /\ i = (2 * q + 1) * w + j BY <2>11, <3>1, <3>2
    <3>4. i - w = (2 * q + 0) * w + j
      <4>1. ((2 * q + 1) * w + j) - w = (2 * q + 0) * w + j OBVIOUS
      <4>. QED BY <3>3, <4>1
    <3>5. buf'[i] = (buf[i - w] - TwiddleOf(j) * buf[i]) % Prime BY <1>1, <1>5, <3>3
    <3>6. buf[i - w] = x BY <2>3, <3>4
    <3>7. buf[i] = y BY <2>4, <3>3
    <3>. QED BY <2>8, <3>2, <3>5, <3>6, <3>7
  <2>15. Alike(Prime, Part(signal, b, u, 2 * w, j), X + D * Y)
    <3>1. Turns(u, j, j, 1) BY <2>0, LowerTurns
    <3>2. Alike(Prime, Part(signal, b, u, 2 * w, j),
                       Part(signal, b, 2 * u, w, j)
                         + (1 * Power(Root, u * j)) * Part(signal, b + u, 2 * u, w, j))
      BY <1>7, <2>0, <2>1, <3>1, BinJoins, 1 \in Int
    <3>3. 1 * D = D OBVIOUS
    <3>. QED BY <2>5, <2>6, <2>7, <3>2, <3>3
  <2>16. Alike(Prime, Part(signal, b, u, 2 * w, j + w), X - D * Y)
    <3>0. j + w \in Nat OBVIOUS
    <3>1. Turns(u, j, j + w, -1) BY <1>4, <2>0, UpperTurns
    <3>2. Alike(Prime, Part(signal, b, u, 2 * w, j + w),
                       Part(signal, b, 2 * u, w, j)
                         + ((-1) * Power(Root, u * j)) * Part(signal, b + u, 2 * u, w, j))
      BY <1>7, <2>0, <2>1, <3>0, <3>1, BinJoins, -1 \in Int
    <3>3. X + ((-1) * D) * Y = X - D * Y
      <4>1. ((-1) * D) * Y = -(D * Y) OBVIOUS
      <4>. QED BY <2>9, <4>1
    <3>. QED BY <2>5, <2>6, <2>7, <3>2, <3>3
  <2>17. PICK F \in Int : F = Part(signal, b, u, 2 * w, j)
    BY <1>7, <2>0, <2>1, PartTerms, 2 * w \in Nat
  <2>18. PICK G \in Int : G = Part(signal, b, u, 2 * w, j + w)
    <3>1. j + w \in Nat OBVIOUS
    <3>. QED BY <1>7, <3>1, <2>1, PartTerms, 2 * w \in Nat
  <2>19. PICK m \in Int : m = (x + T * y) % Prime /\ m \in 0..Prime - 1 /\ Alike(Prime, m, F)
    <3>1. (x + T * y) % Prime \in 0..Prime - 1 /\ Alike(Prime, (x + T * y) % Prime, x + T * y)
      BY <1>7, <2>9, AlikeRemainder
    <3>2. PICK m \in Int : m = (x + T * y) % Prime BY <3>1
    <3>3. Alike(Prime, m, X + D * Y) BY <1>7, <2>9, <2>10, <3>1, <3>2, AlikeChain
    <3>4. Alike(Prime, X + D * Y, F) BY <1>7, <2>9, <2>15, <2>17, AlikeBack
    <3>5. Alike(Prime, m, F) BY <1>7, <2>9, <3>3, <3>4, AlikeChain
    <3>. QED BY <3>1, <3>2, <3>5
  <2>20. PICK n \in Int : n = (x - T * y) % Prime /\ n \in 0..Prime - 1 /\ Alike(Prime, n, G)
    <3>1. (x - T * y) % Prime \in 0..Prime - 1 /\ Alike(Prime, (x - T * y) % Prime, x - T * y)
      BY <1>7, <2>9, AlikeRemainder
    <3>2. PICK n \in Int : n = (x - T * y) % Prime BY <3>1
    <3>3. Alike(Prime, n, X - D * Y) BY <1>7, <2>9, <2>10, <3>1, <3>2, AlikeChain
    <3>4. Alike(Prime, X - D * Y, G) BY <1>7, <2>9, <2>16, <2>18, AlikeBack
    <3>5. Alike(Prime, n, G) BY <1>7, <2>9, <3>3, <3>4, AlikeChain
    <3>. QED BY <3>1, <3>2, <3>5
  <2>. QED BY <2>1, <2>13, <2>14, <2>17, <2>18, <2>19, <2>20
<1>11. ASSUME NEW q \in 0..u - 1, NEW j \in 0..2 * w - 1
       PROVE  /\ buf'[q * (2 * w) + j] \in 0..Prime - 1
              /\ Alike(Prime, buf'[q * (2 * w) + j], Part(signal, Reversed(q, c), u, 2 * w, j))
  <2>1. CASE j < w
    <3>1. j \in 0..w - 1 BY <2>1
    <3>. QED BY <1>10, <3>1
  <2>2. CASE j >= w
    <3>1. PICK i \in 0..w - 1 : j = i + w
      <4>1. j - w \in 0..w - 1 /\ j = (j - w) + w BY <2>2
      <4>. QED BY <4>1
    <3>. QED BY <1>10, <3>1
  <2>. QED BY <2>1, <2>2
<1>12. \A q \in 0..Power(2, LOG2_SIZE - (s + 1)) - 1 : \A j \in 0..width' - 1 :
         /\ buf'[q * width' + j] \in Int
         /\ s + 1 > 0 => buf'[q * width' + j] \in 0..Prime - 1
         /\ Alike(Prime, buf'[q * width' + j],
                  Part(signal', Reversed(q, LOG2_SIZE - (s + 1)),
                       Power(2, LOG2_SIZE - (s + 1)), width', j))
  <2>1. /\ Power(2, LOG2_SIZE - (s + 1)) = u /\ width' = 2 * w /\ signal' = signal
        /\ LOG2_SIZE - (s + 1) = c
    BY <1>1, <1>4, <1>5, <1>8
  <2>2. Prime \in Nat \ {0} BY <1>7
  <2>. SUFFICES ASSUME NEW q \in 0..u - 1, NEW j \in 0..2 * w - 1
                PROVE  /\ buf'[q * (2 * w) + j] \in Int
                       /\ buf'[q * (2 * w) + j] \in 0..Prime - 1
                       /\ Alike(Prime, buf'[q * (2 * w) + j],
                                Part(signal, Reversed(q, c), u, 2 * w, j))
    BY <2>1, Zenon
  <2>3. /\ buf'[q * (2 * w) + j] \in 0..Prime - 1
        /\ Alike(Prime, buf'[q * (2 * w) + j], Part(signal, Reversed(q, c), u, 2 * w, j))
    BY <1>11
  <2>. QED BY ONLY <2>2, <2>3
<1>13. DOMAIN buf' = Bins' BY <1>1 DEF Bins
<1>14. width' = Power(2, s + 1) BY <1>4, <1>5
<1>. QED BY <1>3, <1>12, <1>13, <1>14 DEF Stage

\* The last stage: one block, with every sample.
LEMMA TransformedStep ==
  ASSUME signal \in Signals, NEW s \in 0..LOG2_SIZE, Stage(s), width = FFT_SIZE
  PROVE  \A k \in Bins :
            buf[k] = SumTo([n \in 1..FFT_SIZE |->
                              signal[n - 1] * Twiddle(((n - 1) * k) % FFT_SIZE)], FFT_SIZE) % Prime
<1>1. PICK N \in Nat \ {0} : N = FFT_SIZE BY SizeFacts
<1>2. /\ signal \in [0..N - 1 -> Int] /\ Bins = 0..N - 1
      /\ Root \in Int /\ Prime \in Nat \ {0} /\ LOG2_SIZE \in Nat \ {0}
      /\ N = Power(2, LOG2_SIZE)
  BY <1>1, InputsAreSampled, SizeFacts DEF Bins
<1>3. s = LOG2_SIZE
  <2>. SUFFICES ASSUME s < LOG2_SIZE PROVE FALSE BY <1>2
  <2>1. PICK u \in Nat \ {0}, w \in Nat \ {0} :
           w = Power(2, s) /\ FFT_SIZE = (2 * u) * w
    BY StageSizes
  <2>2. w = (2 * u) * w BY <2>1 DEF Stage
  <2>3. (2 * u) * w = u * w + u * w /\ u * w >= w /\ u * w \in Int OBVIOUS
  <2>. QED BY <2>2, <2>3
<1>4. LOG2_SIZE - s = 0 /\ Power(2, 0) = 1 /\ s > 0 BY <1>2, <1>3, PowersOfTwo
<1>5. Alike(Prime, Power(Root, N), 1)
  <2>1. 0 \in Nat /\ 0 < LOG2_SIZE BY <1>2
  <2>2. PICK u \in Nat \ {0}, w \in Nat \ {0} :
           /\ FFT_SIZE = (2 * u) * w /\ Alike(Prime, Power(Root, u * w), -1)
    BY <2>1, StageSizes
  <2>3. PICK h \in Nat : h = u * w
    <3>1. u * w \in Nat OBVIOUS
    <3>. QED BY <3>1
  <2>4. N = h + h
    <3>1. (2 * u) * w = u * w + u * w OBVIOUS
    <3>. QED BY <1>1, <2>2, <2>3, <3>1
  <2>5. Power(Root, h + h) = Power(Root, h) * Power(Root, h) BY <1>2, PowerSum
  <2>6. PICK x \in Int : x = Power(Root, h) BY <1>2, PowerType
  <2>7. Alike(Prime, x, -1) BY <2>2, <2>3, <2>6
  <2>8. -1 \in Int /\ (-1) * (-1) = 1 OBVIOUS
  <2>9. Alike(Prime, x * x, (-1) * (-1)) BY <1>2, <2>7, <2>8, AlikeProduct
  <2>. QED BY <2>4, <2>5, <2>6, <2>8, <2>9
<1>. SUFFICES ASSUME NEW k \in 0..N - 1
              PROVE  buf[k] = SumTo([n \in 1..N |->
                                signal[n - 1] * Twiddle(((n - 1) * k) % N)], N) % Prime
  BY <1>1, <1>2
<1>. DEFINE f == [n \in 1..N |-> signal[n - 1] * Twiddle(((n - 1) * k) % N)]
            g == [n \in 1..N |-> signal[0 + 1 * (n - 1)] * Power(Root, (1 * (n - 1)) * k)]
<1>6. k \in Nat /\ 0 \in 0..1 - 1 /\ 0 * N + k = k OBVIOUS
<1>7. buf[k] \in 0..Prime - 1 /\ Alike(Prime, buf[k], Part(signal, Reversed(0, 0), 1, N, k))
  <2>1. 0 \in 0..Power(2, LOG2_SIZE - s) - 1 /\ width = N BY <1>1, <1>4
  <2>2. /\ buf[0 * width + k] \in 0..Prime - 1
        /\ Alike(Prime, buf[0 * width + k],
                 Part(signal, Reversed(0, LOG2_SIZE - s), Power(2, LOG2_SIZE - s), width, k))
    BY <1>4, <2>1 DEF Stage
  <2>. QED BY <1>4, <1>6, <2>1, <2>2
<1>8. Reversed(0, 0) = 0 BY ReversedNone, 0 \in Nat
<1>9. ASSUME NEW n \in 1..N
      PROVE  f[n] \in Int /\ g[n] \in Int /\ Alike(Prime, f[n], 1 * g[n])
  <2>1. n - 1 \in 0..N - 1 /\ 0 + 1 * (n - 1) = n - 1 /\ 1 * (n - 1) = n - 1 OBVIOUS
  <2>2. PICK x \in Int : x = signal[n - 1] BY <1>2, <2>1
  <2>3. PICK e \in Nat : e = (n - 1) * k
    <3>1. (n - 1) * k \in Nat BY <1>6, <2>1
    <3>. QED BY <3>1
  <2>4. PICK r \in 0..N - 1, z \in Nat : r = e % N /\ e = N * z + r
    <3>1. e % N \in 0..N - 1 /\ e \div N \in Int /\ e = N * (e \div N) + (e % N) OBVIOUS
    <3>2. e \div N >= 0 OBVIOUS
    <3>. QED BY <3>1, <3>2
  <2>5. Twiddle(r) \in Int /\ Alike(Prime, Twiddle(r), Power(Root, r)) BY SizeFacts
  <2>6. PICK P \in Int, Q \in Int, R \in Int :
          P = Power(Root, e) /\ Q = Power(Root, N * z) /\ R = Power(Root, r)
    <3>1. N * z \in Nat /\ r \in Nat OBVIOUS
    <3>. QED BY <1>2, <3>1, PowerType
  <2>7. P = Q * R
    <3>1. N * z \in Nat /\ r \in Nat OBVIOUS
    <3>2. Power(Root, N * z + r) = Power(Root, N * z) * Power(Root, r) BY <1>2, <3>1, PowerSum
    <3>. QED BY <2>4, <2>6, <3>2
  <2>8. Alike(Prime, Q, 1) BY <1>2, <1>5, <2>6, RoundTurns
  <2>9. Alike(Prime, R, P)
    <3>1. Alike(Prime, R, R) BY <1>2, AlikeSame
    <3>2. Alike(Prime, Q * R, 1 * R) BY <1>2, <2>8, <3>1, AlikeProduct, 1 \in Int
    <3>3. 1 * R = R OBVIOUS
    <3>. QED BY <1>2, <2>7, <3>2, <3>3, AlikeBack
  <2>10. PICK t \in Int : t = Twiddle(r) BY <2>5
  <2>11. Alike(Prime, t, P) BY <1>2, <2>5, <2>6, <2>9, <2>10, AlikeChain
  <2>12. f[n] = x * t BY <2>2, <2>3, <2>4, <2>10
  <2>13. g[n] = x * P BY <2>1, <2>2, <2>3, <2>6
  <2>14. x * t \in Int /\ x * P \in Int /\ 1 * (x * P) = x * P
    <3>1. x * t \in Int /\ x * P \in Int OBVIOUS
    <3>. QED BY <3>1
  <2>15. Alike(Prime, x * t, x * P)
    <3>1. Alike(Prime, x, x) BY <1>2, AlikeSame
    <3>. QED BY <1>2, <2>11, <3>1, AlikeProduct
  <2>. QED BY <2>12, <2>13, <2>14, <2>15
<1>10. Part(signal, 0, 1, N, k) = SumTo(g, N) BY DEF Part
<1>. HIDE DEF f, g
<1>11. Alike(Prime, SumTo(f, N), 1 * SumTo(g, N)) BY <1>2, <1>9, AlikeSums, 1 \in Int
<1>12. PICK F \in Int, G \in Int : F = SumTo(f, N) /\ G = SumTo(g, N) BY <1>9, SumType
<1>13. Alike(Prime, F, G)
  <2>1. 1 * G = G OBVIOUS
  <2>. QED BY <1>11, <1>12, <2>1
<1>14. PICK y \in Int : y = buf[k] BY <1>2, <1>7
<1>15. y \in 0..Prime - 1 /\ Alike(Prime, y, G) BY <1>7, <1>8, <1>10, <1>12, <1>14
<1>16. y % Prime = y
  <2>1. Prime * 0 + y = y BY <1>2
  <2>2. (Prime * 0 + y) % Prime = y BY <1>2, <1>15, Remainder, 0 \in Int
  <2>. QED BY <2>1, <2>2
<1>17. y % Prime = G % Prime /\ F % Prime = G % Prime
  BY <1>2, <1>13, <1>15, RemaindersAgree
<1>. QED BY <1>12, <1>14, <1>16, <1>17 DEF f

LEMMA FourierInitially == VibratoInit => FourierInv
<1>. SUFFICES ASSUME VibratoInit PROVE FourierInv OBVIOUS
<1>. QED BY DEF VibratoInit, FourierInv, GapSteps, FourierSteps, PeakSteps

LEMMA FourierStep == FourierInv /\ [VibratoNext]_vibrato_vars => FourierInv'
<1>. SUFFICES ASSUME FourierInv, [VibratoNext]_vibrato_vars PROVE FourierInv' OBVIOUS
<1>. USE DEF GapSteps, FourierSteps, PeakSteps
<1>1. CASE Permute
  <2>1. signal \in Signals /\ signal' = signal /\ vibrato_step' = "stages" /\ width = 1
    BY <1>1 DEF Permute, FourierInv
  <2>2. Stage(0)' BY <1>1, <2>1, PermuteStep
  <2>3. 0 \in 0..LOG2_SIZE BY SizeFacts
  <2>4. \E s \in 0..LOG2_SIZE : Stage(s)' BY <2>2, <2>3
  <2>. QED BY <2>1, <2>4 DEF FourierInv
<1>2. CASE Butterflies
  <2>1. signal \in Signals /\ signal' = signal /\ vibrato_step' = "stages"
        /\ vibrato_step = "stages"
    BY <1>2 DEF Butterflies, FourierInv
  <2>2. PICK s \in 0..LOG2_SIZE : Stage(s) BY <2>1 DEF FourierInv
  <2>3. s + 1 \in 0..LOG2_SIZE /\ Stage(s + 1)' BY <1>2, <2>1, <2>2, ButterfliesStep
  <2>4. \E r \in 0..LOG2_SIZE : Stage(r)' BY <2>3
  <2>. QED BY <2>1, <2>4 DEF FourierInv
<1>3. CASE Transformed
  <2>1. /\ signal \in Signals /\ signal' = signal /\ buf' = buf /\ vibrato_step = "stages"
        /\ vibrato_step' = "transformed" /\ width = FFT_SIZE
    BY <1>3 DEF Transformed, FourierInv, fft_vars
  <2>2. PICK s \in 0..LOG2_SIZE : Stage(s) BY <2>1 DEF FourierInv
  <2>3. \A k \in Bins :
            buf[k] = SumTo([n \in 1..FFT_SIZE |->
                              signal[n - 1] * Twiddle(((n - 1) * k) % FFT_SIZE)], FFT_SIZE) % Prime
    BY <2>1, <2>2, TransformedStep
  <2>4. TransformIsFourier' BY <2>1, <2>3 DEF TransformIsFourier, Bins, Twiddle
  <2>. QED BY <2>1, <2>4 DEF FourierInv
<1>4. CASE UNCHANGED fft_vars /\ vibrato_step' \in GapSteps \cup PeakSteps
  BY <1>4 DEF FourierInv
<1>5. CASE TooFewVoiced \/ FillEnds \/ FillGap \/ GapsFilled
  <2>1. vibrato_step' \in GapSteps /\ UNCHANGED fft_vars
    BY <1>5 DEF TooFewVoiced, FillEnds, FillGap, GapsFilled, FourierInv
  <2>. QED BY <1>4, <2>1
<1>6. CASE FindPeak \/ SelectNext \/ Dominates
  <2>1. vibrato_step' \in PeakSteps /\ UNCHANGED fft_vars
    BY <1>6 DEF FindPeak, SelectNext, Dominates
  <2>. QED BY <1>4, <2>1
<1>7. CASE UNCHANGED vibrato_vars
  <2>1. signal' = signal /\ buf' = buf /\ width' = width /\ vibrato_step' = vibrato_step
    BY <1>7 DEF vibrato_vars
  <2>2. \A s : Stage(s)' <=> Stage(s) BY <2>1 DEF Stage, Bins
  <2>3. TransformIsFourier' <=> TransformIsFourier
    BY <2>1 DEF TransformIsFourier, Bins, Twiddle
  <2>. QED BY <2>1, <2>2, <2>3 DEF FourierInv
<1>. QED BY <1>1, <1>2, <1>3, <1>5, <1>6, <1>7 DEF VibratoNext

LEMMA FourierInvTransforms == FourierInv => TransformIsFourier
<1>. SUFFICES ASSUME FourierInv PROVE TransformIsFourier OBVIOUS
<1>1. vibrato_step = "transformed" \/ TransformIsFourier BY DEF TransformIsFourier
<1>. QED BY <1>1 DEF FourierInv

\* For every power of two, every signal and every root of that order: the butterflies in
\* place, on the samples in bit-reversed order, make the discrete Fourier transform
\* (Vibrato::fft).
THEOREM TransformIsFourierAlways == VibratoSpec => []TransformIsFourier
<1>1. VibratoInit => FourierInv BY FourierInitially
<1>2. FourierInv /\ [VibratoNext]_vibrato_vars => FourierInv' BY FourierStep
<1>3. FourierInv => TransformIsFourier BY FourierInvTransforms
<1>. QED BY <1>1, <1>2, <1>3, PTL DEF VibratoSpec

(* The three parts of an analysis together. *)
THEOREM AnalysisIsExactAlways == VibratoSpec => []AnalysisIsExact
BY GapsAreStraightAlways, TransformIsFourierAlways, PeakStandsOutAlways, PTL
   DEF AnalysisIsExact
=============================================================================

---------------------------- MODULE Screens_proofs ----------------------------
(***************************************************************************)
(* Proofs about what the head's screens show: the scrolling graph, for     *)
(* every scene that is projected and whichever painters run before the     *)
(* projection, and the widgets, in every order of systems and handlers.    *)
(***************************************************************************)
EXTENDS TimeGraph, Widgets, ProofFacts, FiniteSetTheorems

-----------------------------------------------------------------------------
(* The graph's painters.                                                   *)

\* The systems that a frame of the game screen has still to run, in the order of its
\* stages: before the scene is written, after it, and when only the lane is to be measured.
Stages ==
    /\ head_screen \in {"away", "game"}
    /\ head_screen = "away" => frame_todo \subseteq {"drain"}
    /\ frame_todo \subseteq GameSystems
    /\ head_screen = "game" /\ frame_todo # {} => "measure" \in frame_todo
    /\ "refresh" \in frame_todo => {"events", "lane"} \subseteq frame_todo
    /\ "drain" \in frame_todo /\ head_screen = "game" => Unordered \subseteq frame_todo
    /\ "drain" \in frame_todo /\ head_screen = "game" => "refresh" \in frame_todo
    /\ "events" \in frame_todo => "lane" \in frame_todo
    /\ "refresh" \notin frame_todo /\ head_screen = "game" =>
         "events" \in frame_todo \/ frame_todo \subseteq {"measure"}

GraphTypes ==
    /\ layout \in Layouts
    /\ unseen \subseteq Unordered
    /\ DOMAIN painted = MeshPainters \union {"lane", "grid", "events"}

\* Before the scene is written it is that of the last frame, and after that every painter
\* of a mesh has it to paint.
SceneInv ==
    /\ head_screen = "away" => painted = NothingPainted /\ unseen = Unordered
    /\ head_screen = "away" \/ frame_todo = {} \/ "refresh" \in frame_todo =>
         last_frame.live = live_scene
    /\ head_screen = "game" /\ frame_todo # {} /\ "refresh" \notin frame_todo =>
         \A kind \in MeshPainters : kind \in frame_todo => kind \in unseen

LastFramesLane == {<<lane, layout>>, <<last_frame.lane, last_frame.layout>>}

\* A mesh that has not been painted in this frame shows the last one's scene; one that
\* has shows the scene as it was when its painter ran.
ShowsLast(kind) ==
    /\ painted[kind] # Unpainted
    /\ painted[kind].shows = MeshOf(kind, last_frame.live)
    /\ <<painted[kind].lane, painted[kind].layout>> \in LastFramesLane
ShowsScene(kind) == painted[kind] = OnLane(MeshOf(kind, live_scene))
ShowsSceneOf(kind) ==
    painted[kind] = [shows |-> MeshOf(kind, live_scene), lane |-> last_frame.lane,
                     layout |-> last_frame.layout]

MeshIsKept(kind) ==
    /\ lane = Nothing => painted[kind] = Unpainted
    /\ frame_todo = {} \/ {"refresh", kind} \subseteq frame_todo =>
         kind \in unseen \/ painted[kind] = Unpainted \/ ShowsSceneOf(kind)
    /\ "refresh" \in frame_todo /\ kind \notin frame_todo => lane = Nothing \/ ShowsLast(kind)
    /\ /\ frame_todo # {} /\ "refresh" \notin frame_todo /\ kind \notin frame_todo
       /\ head_screen = "game" /\ lane # Nothing
       => ShowsScene(kind) \/ (kind \in unseen /\ ShowsLast(kind))
MeshInv == \A kind \in MeshPainters : MeshIsKept(kind)

\* The grooves that are on the screen are those of the scene, unless they are to be painted.
GridInv ==
    /\ "grid" \notin unseen /\ painted["grid"] # Unpainted => painted["grid"].shows = grid_scene
    /\ head_screen = "game" /\ frame_todo # {} /\ "grid" \notin frame_todo /\ lane # Nothing
         /\ "grid" \notin unseen /\ grid_scene # {} => painted["grid"] # Unpainted

LateInv ==
    head_screen = "game" /\ FrameIsPainted /\ lane # Nothing =>
        /\ painted["events"] = PaintedMarkers
        /\ painted["lane"] = OnLane("background")

PaintInv == Stages /\ GraphTypes /\ SceneInv /\ MeshInv /\ GridInv /\ LateInv

LEMMA PaintInit == GraphInit => PaintInv
<1>. SUFFICES ASSUME GraphInit PROVE PaintInv
  OBVIOUS
<1>. USE DEF GraphInit
<1>1. Stages BY DEF Stages, GameSystems
<1>2. GraphTypes
  BY DEF GraphTypes, Layouts, NothingPainted
<1>3. SceneInv BY DEF SceneInv
<1>4. MeshInv BY DEF MeshInv, MeshIsKept, Unordered, NothingPainted
<1>5. GridInv /\ LateInv BY DEF GridInv, LateInv, FrameIsPainted, Unordered
<1>. QED BY <1>1, <1>2, <1>3, <1>4, <1>5 DEF PaintInv

\* Systems that only read or feed the scene's inputs.
LEMMA InputsKeepPaint ==
  ASSUME PaintInv, UNCHANGED <<head_screen, projector_vars, scene_vars, unseen, screen_vars, painted,
                               last_frame>>,
         frame_todo' = frame_todo \/ (frame_todo' = frame_todo \ {"drain"} /\ "drain" \in frame_todo)
  PROVE  PaintInv'
<1>. USE DEF PaintInv, projector_vars, scene_vars, screen_vars
<1>1. Stages' BY DEF Stages, Unordered, MeshPainters, GameSystems
<1>2. GraphTypes' BY DEF GraphTypes
<1>3. SceneInv' BY DEF SceneInv, Stages, MeshPainters, Unordered, GameSystems
<1>4. MeshInv'
  <2>. SUFFICES ASSUME NEW kind \in MeshPainters PROVE MeshIsKept(kind)'
    BY DEF MeshInv
  <2>1. MeshIsKept(kind) BY DEF MeshInv
  <2>2. /\ ShowsLast(kind)' <=> ShowsLast(kind)
        /\ ShowsScene(kind)' <=> ShowsScene(kind)
        /\ ShowsSceneOf(kind)' <=> ShowsSceneOf(kind)
    BY DEF ShowsLast, ShowsScene, ShowsSceneOf, OnLane, MeshOf, LastFramesLane
  <2>3. frame_todo' = {} /\ frame_todo # {} => painted[kind] = Unpainted
    BY DEF Stages, SceneInv, NothingPainted, MeshPainters
  <2>4. kind \in frame_todo' <=> kind \in frame_todo
    BY DEF MeshPainters
  <2>5. "refresh" \in frame_todo' <=> "refresh" \in frame_todo
    OBVIOUS
  <2>. QED BY <2>1, <2>2, <2>3, <2>4, <2>5 DEF MeshIsKept
<1>5. GridInv' BY DEF GridInv, Stages
<1>6. LateInv' BY DEF LateInv, FrameIsPainted, Stages, PaintedMarkers, OnLane
<1>. QED BY <1>1, <1>2, <1>3, <1>4, <1>5, <1>6

\* What each painter leaves.
LEMMA PaintersPaint ==
  ASSUME GraphTypes, NEW painters, RunPainters(painters)
  PROVE  /\ DOMAIN painted' = DOMAIN painted
         /\ \A painter \in DOMAIN painted : painter \notin painters =>
               painted'[painter] = painted[painter]
         /\ \A kind \in MeshPainters : kind \in painters => painted'[kind] = PaintedMesh(kind)
         /\ "grid" \in painters => painted'["grid"] = PaintedGrid
         /\ "lane" \in painters => painted'["lane"] = PaintedLane
         /\ "events" \in painters => painted'["events"] = PaintedMarkers
         /\ frame_todo' = frame_todo \ painters
         /\ unseen' = unseen \ painters
         /\ UNCHANGED <<head_screen, live_scene, grid_scene, layout, lane, last_frame>>
<1>. DEFINE Left(painter) == IF painter \notin painters THEN painted[painter]
                             ELSE CASE painter \in MeshPainters -> PaintedMesh(painter)
                                    [] painter = "grid" -> PaintedGrid
                                    [] painter = "lane" -> PaintedLane
                                    [] painter = "events" -> PaintedMarkers
<1>1. painted' = [painter \in DOMAIN painted |-> Left(painter)]
  BY DEF RunPainters
<1>2. \A painter : painter \notin painters => Left(painter) = painted[painter]
  OBVIOUS
<1>3. \A kind \in MeshPainters : kind \in painters => Left(kind) = PaintedMesh(kind)
  BY DEF MeshPainters
<1>4. /\ "grid" \in painters => Left("grid") = PaintedGrid
      /\ "lane" \in painters => Left("lane") = PaintedLane
      /\ "events" \in painters => Left("events") = PaintedMarkers
  BY DEF MeshPainters
<1>5. MeshPainters \union {"grid", "lane", "events"} \subseteq DOMAIN painted
  BY DEF GraphTypes
<1>6. /\ frame_todo' = frame_todo \ painters /\ unseen' = unseen \ painters
      /\ UNCHANGED <<head_screen, live_scene, grid_scene, layout, lane, last_frame>>
  BY DEF RunPainters, scene_vars, screen_vars
<1>. HIDE DEF Left
<1>. QED BY <1>1, <1>2, <1>3, <1>4, <1>5, <1>6

LEMMA PaintedMeshIs ==
  ASSUME NEW kind, PaintInv
  PROVE  /\ IsFresh(kind) \/ lane = Nothing => PaintedMesh(kind) = painted[kind]
         /\ ~IsFresh(kind) /\ lane # Nothing => /\ PaintedMesh(kind) = OnLane(MeshOf(kind, live_scene))
                             /\ PaintedMesh(kind) # Unpainted
<1>1. \A what : OnLane(what) # Unpainted
  BY DEF OnLane, Unpainted, PaintInv, GraphTypes, Layouts
<1>. QED BY <1>1 DEF PaintedMesh

\* Painters that run before the scene is written.
LEMMA EarlyKeepsPaint ==
  ASSUME PaintInv, PaintEarly
  PROVE  PaintInv'
<1>1. PICK painters \in EarlyPainters : RunPainters(painters)
  BY DEF PaintEarly
<1>2. /\ painters \subseteq Unordered /\ Unordered \union {"refresh"} \subseteq frame_todo
      /\ "drain" \notin frame_todo /\ {"events", "lane", "refresh"} \cap painters = {}
  BY <1>1, EarlyAssumption DEF PaintEarly, Unordered, MeshPainters
<1>3. head_screen = "game" /\ "measure" \in frame_todo
  BY <1>2 DEF PaintInv, Stages
<1>. USE DEF PaintInv
<1>4. Stages'
  BY <1>1, <1>2, <1>3, PaintersPaint DEF Stages, Unordered, MeshPainters
<1>5. GraphTypes'
  BY <1>1, PaintersPaint DEF GraphTypes
<1>6. SceneInv'
  BY <1>1, <1>2, <1>3, PaintersPaint DEF SceneInv
<1>7. MeshInv'
  <2>. SUFFICES ASSUME NEW kind \in MeshPainters PROVE MeshIsKept(kind)'
    BY DEF MeshInv
  <2>1. MeshIsKept(kind) /\ kind \in DOMAIN painted /\ kind \in frame_todo
    BY <1>2 DEF MeshInv, GraphTypes, Unordered
  <2>2. "refresh" \in frame_todo' /\ frame_todo' # {} /\ UNCHANGED <<lane, layout, last_frame, live_scene>>
    BY <1>1, <1>2, PaintersPaint
  <2>3. CASE kind \in painters
    <3>1. painted'[kind] = PaintedMesh(kind) /\ kind \notin frame_todo'
      BY <1>1, <2>3, PaintersPaint
    <3>2. ASSUME lane # Nothing PROVE ShowsLast(kind)'
      <4>1. CASE IsFresh(kind)
        <5>1. painted'[kind] = painted[kind] BY <3>1, <3>2, <4>1, PaintedMeshIs
        <5>2. ShowsSceneOf(kind) /\ painted[kind] # Unpainted
          BY <1>2, <2>1, <4>1 DEF MeshIsKept, IsFresh
        <5>. QED BY <1>2, <2>2, <5>1, <5>2 DEF ShowsLast, ShowsSceneOf, SceneInv, LastFramesLane, MeshOf
      <4>2. CASE ~IsFresh(kind)
        <5>1. /\ painted'[kind] = OnLane(MeshOf(kind, live_scene)) /\ painted'[kind] # Unpainted
          BY <3>1, <3>2, <4>2, PaintedMeshIs
        <5>. QED BY <1>2, <2>2, <5>1 DEF ShowsLast, OnLane, SceneInv, LastFramesLane, MeshOf
      <4>. QED BY <4>1, <4>2
    <3>3. lane = Nothing => painted'[kind] = Unpainted
      BY <2>1, <3>1, PaintedMeshIs DEF MeshIsKept
    <3>. QED BY <2>2, <3>1, <3>2, <3>3 DEF MeshIsKept, Unpainted
  <2>4. CASE kind \notin painters
    <3>1. painted'[kind] = painted[kind] /\ kind \in frame_todo'
          /\ (kind \in unseen' <=> kind \in unseen)
      BY <1>1, <2>1, <2>4, PaintersPaint
    <3>2. ShowsSceneOf(kind)' <=> ShowsSceneOf(kind)
      BY <2>2, <3>1 DEF ShowsSceneOf, MeshOf
    <3>. QED BY <1>2, <2>1, <2>2, <3>1, <3>2 DEF MeshIsKept
  <2>. QED BY <2>3, <2>4
<1>8. GridInv'
  <2>1. "grid" \in DOMAIN painted /\ "grid" \in frame_todo /\ lane' = lane /\ grid_scene' = grid_scene
    BY <1>1, <1>2, PaintersPaint DEF GraphTypes, Unordered
  <2>2. CASE "grid" \in painters
    <3>1. painted'["grid"] = PaintedGrid BY <1>1, <2>2, PaintersPaint
    <3>2. \A what : OnLane(what) # Unpainted /\ OnLane(what).shows = what
      BY DEF OnLane, Unpainted, GraphTypes, Layouts
    <3>. QED BY <2>1, <3>1, <3>2 DEF GridInv, PaintedGrid, IsFresh
  <2>3. CASE "grid" \notin painters
    <3>1. /\ painted'["grid"] = painted["grid"] /\ "grid" \in frame_todo'
          /\ ("grid" \in unseen' <=> "grid" \in unseen)
      BY <1>1, <2>1, <2>3, PaintersPaint
    <3>. QED BY <2>1, <3>1 DEF GridInv
  <2>. QED BY <2>2, <2>3
<1>9. LateInv'
  BY <1>1, <1>2, PaintersPaint DEF LateInv, FrameIsPainted
<1>. QED BY <1>4, <1>5, <1>6, <1>7, <1>8, <1>9

\* The scene is written: every mesh has something to paint again.
LEMMA RefreshKeepsPaint ==
  ASSUME PaintInv, RefreshScene
  PROVE  PaintInv'
<1>. USE DEF PaintInv
<1>1. /\ "refresh" \in frame_todo /\ frame_todo' = frame_todo \ {"refresh"}
      /\ "events" \in frame_todo' /\ "measure" \in frame_todo'
      /\ unseen' = unseen \union MeshPainters \union (IF grid_scene' # grid_scene THEN {"grid"} ELSE {})
      /\ UNCHANGED <<head_screen, layout, lane, painted, last_frame>>
      /\ head_screen = "game" /\ last_frame.live = live_scene
  BY DEF RefreshScene, screen_vars, Stages, SceneInv
<1>2. "drain" \notin frame_todo BY DEF RefreshScene
<1>3. Stages' BY <1>1, <1>2 DEF Stages
<1>4. GraphTypes' BY <1>1 DEF GraphTypes, Unordered
<1>5. SceneInv' BY <1>1 DEF SceneInv
<1>6. MeshInv'
  <2>. SUFFICES ASSUME NEW kind \in MeshPainters PROVE MeshIsKept(kind)'
    BY DEF MeshInv
  <2>1. kind \in unseen' /\ kind # "refresh" BY <1>1 DEF MeshPainters
  <2>2. ShowsLast(kind)' <=> ShowsLast(kind)
    BY <1>1 DEF ShowsLast, LastFramesLane, MeshOf
  <2>. QED BY <1>1, <2>1, <2>2 DEF MeshInv, MeshIsKept
<1>7. GridInv' BY <1>1 DEF GridInv, MeshPainters
<1>8. LateInv' BY <1>1 DEF LateInv, FrameIsPainted
<1>. QED BY <1>3, <1>4, <1>5, <1>6, <1>7, <1>8

\* The painters that are left run after it.
LEMMA LateKeepsPaint ==
  ASSUME PaintInv, PaintLate
  PROVE  PaintInv'
<1>. DEFINE painters == frame_todo \ {"measure"}
<1>. USE DEF PaintInv
<1>1. RunPainters(painters) BY DEF PaintLate
<1>2. /\ "refresh" \notin frame_todo /\ "events" \in frame_todo /\ head_screen = "game"
      /\ "measure" \in frame_todo /\ "drain" \notin frame_todo
  BY DEF PaintLate, Stages
<1>3. frame_todo' = {"measure"} BY <1>1, <1>2, PaintersPaint
<1>. HIDE DEF painters
<1>4. Stages' BY <1>1, <1>2, <1>3, PaintersPaint DEF Stages, GameSystems
<1>5. GraphTypes' BY <1>1, PaintersPaint DEF GraphTypes
<1>6. SceneInv' BY <1>1, <1>2, <1>3, PaintersPaint DEF SceneInv, MeshPainters
<1>7. MeshInv'
  <2>. SUFFICES ASSUME NEW kind \in MeshPainters PROVE MeshIsKept(kind)'
    BY DEF MeshInv
  <2>0. kind \in DOMAIN painted /\ kind \notin {"measure", "refresh"}
    BY DEF GraphTypes, MeshPainters
  <2>1. UNCHANGED <<lane, layout, last_frame, live_scene>>
    BY <1>1, PaintersPaint
  <2>4. lane = Nothing => painted'[kind] = Unpainted
    <3>1. lane = Nothing => painted[kind] = Unpainted BY DEF MeshInv, MeshIsKept
    <3>2. kind \notin painters => painted'[kind] = painted[kind] BY <1>1, <2>0, PaintersPaint
    <3>3. kind \in painters => painted'[kind] = PaintedMesh(kind) BY <1>1, PaintersPaint
    <3>. QED BY <3>1, <3>2, <3>3, PaintedMeshIs
  <2>. SUFFICES ASSUME lane # Nothing
                PROVE  ShowsScene(kind)' \/ (kind \in unseen' /\ ShowsLast(kind)')
    BY <1>3, <2>0, <2>1, <2>4 DEF MeshIsKept, Unpainted
  <2>2. CASE kind \in frame_todo
    <3>1. kind \in painters BY <2>0, <2>2 DEF painters
    <3>2. ~IsFresh(kind) BY <1>2, <2>2 DEF SceneInv, IsFresh
    <3>3. painted'[kind] = OnLane(MeshOf(kind, live_scene))
      BY <1>1, <3>1, <3>2, PaintersPaint, PaintedMeshIs
    <3>4. OnLane(MeshOf(kind, live_scene))' = OnLane(MeshOf(kind, live_scene))
      BY <2>1 DEF OnLane, MeshOf
    <3>5. ShowsScene(kind)' BY <3>3, <3>4 DEF ShowsScene
    <3>. QED BY <3>5
  <2>3. CASE kind \notin frame_todo
    <3>1. painted'[kind] = painted[kind] /\ (kind \in unseen' <=> kind \in unseen)
      BY <1>1, <2>0, <2>3, PaintersPaint DEF painters
    <3>2. ShowsScene(kind) \/ (kind \in unseen /\ ShowsLast(kind))
      BY <1>2, <2>3 DEF MeshInv, MeshIsKept
    <3>. QED BY <2>1, <3>1, <3>2 DEF ShowsScene, ShowsLast, OnLane, MeshOf, LastFramesLane
  <2>. QED BY <2>2, <2>3
<1>8. GridInv'
  <2>1. "grid" \in DOMAIN painted /\ lane' = lane /\ grid_scene' = grid_scene /\ head_screen' = head_screen
    BY <1>1, PaintersPaint DEF GraphTypes
  <2>2. CASE "grid" \in frame_todo
    <3>1. painted'["grid"] = PaintedGrid BY <1>1, <2>2, PaintersPaint DEF painters
    <3>2. \A what : OnLane(what) # Unpainted /\ OnLane(what).shows = what
      BY DEF OnLane, Unpainted, GraphTypes, Layouts
    <3>. QED BY <2>1, <3>1, <3>2 DEF GridInv, PaintedGrid, IsFresh
  <2>3. CASE "grid" \notin frame_todo
    <3>1. painted'["grid"] = painted["grid"] /\ ("grid" \in unseen' <=> "grid" \in unseen)
      BY <1>1, <2>1, <2>3, PaintersPaint DEF painters
    <3>. QED BY <1>2, <2>1, <2>3, <3>1 DEF GridInv
  <2>. QED BY <2>2, <2>3
<1>9. LateInv'
  <2>1. "events" \in painters /\ "lane" \in painters
    BY <1>2 DEF painters, Stages
  <2>2. painted'["events"] = PaintedMarkers /\ painted'["lane"] = PaintedLane
        /\ UNCHANGED <<lane, layout, live_scene>>
    BY <1>1, <2>1, PaintersPaint
  <2>. QED BY <2>2 DEF LateInv, PaintedMarkers, PaintedLane, OnLane
<1>. QED BY <1>4, <1>5, <1>6, <1>7, <1>8, <1>9

LEMMA MeasureKeepsPaint ==
  ASSUME PaintInv, MeasureLane
  PROVE  PaintInv'
<1>. USE DEF PaintInv, MeasureLane
<1>1. /\ head_screen = "game" /\ UNCHANGED <<head_screen, unseen, layout, painted, live_scene, grid_scene>>
      /\ frame_todo = {"measure"} /\ frame_todo' = {}
  BY DEF Stages, scene_vars
<1>2. Stages' /\ GraphTypes' BY <1>1 DEF Stages, GraphTypes
<1>3. SceneInv' BY <1>1 DEF SceneInv
<1>4. MeshInv'
  <2>. SUFFICES ASSUME NEW kind \in MeshPainters PROVE MeshIsKept(kind)'
    BY DEF MeshInv
  <2>1. MeshIsKept(kind) /\ kind # "measure" BY DEF MeshInv, MeshPainters
  <2>2. ShowsScene(kind) => ShowsSceneOf(kind)'
    BY <1>1 DEF ShowsScene, ShowsSceneOf, OnLane, MeshOf
  <2>3. CASE lane = Nothing BY <1>1, <2>1, <2>3 DEF MeshIsKept, Unpainted, GraphTypes
  <2>4. CASE lane # Nothing
    <3>1. lane' # Nothing BY LayoutAssumption DEF GraphTypes
    <3>2. kind \in unseen \/ ShowsScene(kind) BY <1>1, <2>1, <2>4 DEF MeshIsKept
    <3>. QED BY <1>1, <2>2, <3>1, <3>2 DEF MeshIsKept
  <2>. QED BY <2>3, <2>4
<1>5. GridInv' /\ LateInv' BY <1>1 DEF GridInv, LateInv, FrameIsPainted
<1>. QED BY <1>2, <1>3, <1>4, <1>5

\* Between two frames.
LEMMA FramesKeepPaint ==
  ASSUME PaintInv, BeginGraphFrame \/ EnterGame \/ ExitGame \/ Resize
  PROVE  PaintInv'
<1>. USE DEF PaintInv
<1>1. frame_todo = {} BY DEF BeginGraphFrame, EnterGame, ExitGame, Resize
<1>2. CASE BeginGraphFrame \/ EnterGame
  <2>1. /\ UNCHANGED <<live_scene, grid_scene, unseen, layout, lane, painted, last_frame>>
        /\ head_screen' \in {"away", "game"}
        /\ head_screen' = "away" => head_screen = "away" /\ frame_todo' = {"drain"}
        /\ head_screen' = "game" => frame_todo' = GameSystems
    BY <1>2 DEF BeginGraphFrame, EnterGame, scene_vars, screen_vars, Stages
  <2>2. Stages' BY <2>1 DEF Stages, GameSystems, Unordered
  <2>3. GraphTypes' BY <2>1 DEF GraphTypes
  <2>4. SceneInv' BY <1>1, <2>1 DEF SceneInv, GameSystems
  <2>5. MeshInv'
    <3>. SUFFICES ASSUME NEW kind \in MeshPainters PROVE MeshIsKept(kind)'
      BY DEF MeshInv
    <3>1. MeshIsKept(kind) BY DEF MeshInv
    <3>2. ShowsSceneOf(kind)' <=> ShowsSceneOf(kind)
      BY <2>1 DEF ShowsSceneOf, MeshOf
    <3>3. head_screen' = "game" => {kind, "refresh"} \subseteq frame_todo'
      BY <2>1 DEF GameSystems, Unordered
    <3>. QED BY <1>1, <2>1, <3>1, <3>2, <3>3 DEF MeshIsKept, Unpainted
  <2>6. GridInv' /\ LateInv'
    BY <1>1, <2>1 DEF GridInv, LateInv, FrameIsPainted, GameSystems, Unordered
  <2>. QED BY <2>2, <2>3, <2>4, <2>5, <2>6
<1>3. CASE ExitGame
  <2>1. /\ head_screen' = "away" /\ frame_todo' = {"drain"} /\ unseen' = Unordered
        /\ painted' = NothingPainted /\ last_frame'.live = live_scene'
        /\ UNCHANGED <<layout, lane>>
    BY <1>3 DEF ExitGame, screen_vars
  <2>2. Stages' BY <2>1 DEF Stages, GameSystems
  <2>3. GraphTypes' BY <2>1 DEF GraphTypes, NothingPainted
  <2>4. SceneInv' BY <2>1 DEF SceneInv
  <2>5. MeshInv' BY <2>1 DEF MeshInv, MeshIsKept, Unordered, NothingPainted, Unpainted
  <2>6. GridInv' /\ LateInv'
    BY <2>1 DEF GridInv, LateInv, FrameIsPainted, Unordered
  <2>. QED BY <2>2, <2>3, <2>4, <2>5, <2>6
<1>4. CASE Resize
  <2>1. /\ UNCHANGED <<head_screen, frame_todo, live_scene, grid_scene, unseen, lane, painted, last_frame>>
        /\ layout' \in Layouts
    BY <1>4 DEF Resize, scene_vars, Layouts
  <2>2. Stages' /\ GraphTypes' BY <2>1 DEF Stages, GraphTypes
  <2>3. SceneInv' BY <2>1 DEF SceneInv
  <2>4. MeshInv'
    <3>. SUFFICES ASSUME NEW kind \in MeshPainters PROVE MeshIsKept(kind)'
      BY DEF MeshInv
    <3>1. MeshIsKept(kind) BY DEF MeshInv
    <3>2. ShowsSceneOf(kind)' <=> ShowsSceneOf(kind)
      BY <2>1 DEF ShowsSceneOf, MeshOf
    <3>. QED BY <1>1, <2>1, <3>1, <3>2 DEF MeshIsKept, Unpainted
  <2>5. GridInv' /\ LateInv' BY <1>1, <2>1 DEF GridInv, LateInv, FrameIsPainted
  <2>. QED BY <2>2, <2>3, <2>4, <2>5
<1>. QED BY <1>2, <1>3, <1>4

LEMMA PaintStep == PaintInv /\ [GraphNext]_graph_vars => PaintInv'
<1>. SUFFICES ASSUME PaintInv, [GraphNext]_graph_vars PROVE PaintInv'
  OBVIOUS
<1>1. ASSUME NEW sound, NEW lost, NEW ticks, DrainHop(sound, lost, ticks) PROVE PaintInv'
  BY <1>1, InputsKeepPaint DEF DrainHop
<1>2. CASE DrainReturns \/ NumberHopsAnew
  BY <1>2, InputsKeepPaint DEF DrainReturns, NumberHopsAnew
<1>3. CASE UNCHANGED graph_vars
  <2>1. /\ UNCHANGED <<head_screen, projector_vars, scene_vars, unseen, screen_vars, painted, last_frame>>
        /\ frame_todo' = frame_todo
    BY <1>3 DEF graph_vars
  <2>. QED BY <2>1, InputsKeepPaint
<1>. QED
  BY <1>1, <1>2, <1>3, RefreshKeepsPaint, EarlyKeepsPaint, LateKeepsPaint, MeasureKeepsPaint,
     FramesKeepPaint DEF GraphNext

(* No painter is more than a frame behind the scene (time_graph/systems.rs), in whatever order
   the painters run against the projection, and however long the session. *)
THEOREM PaintKeepsUpAlways == GraphSpec => []PaintKeepsUp
<1>1. PaintInv => PaintKeepsUp
  <2>. SUFFICES ASSUME PaintInv, FrameIsPainted, lane # Nothing
                PROVE  PaintKeepsUp
    BY DEF PaintKeepsUp
  <2>1. head_screen = "game" /\ frame_todo = {"measure"}
    BY DEF PaintInv, Stages, FrameIsPainted
  <2>2. ASSUME NEW kind \in MeshPainters
        PROVE  /\ painted[kind] # Unpainted
               /\ \/ painted[kind] = OnLane(MeshOf(kind, live_scene))
                  \/ /\ kind \in unseen
                     /\ painted[kind].shows = MeshOf(kind, last_frame.live)
                     /\ <<painted[kind].lane, painted[kind].layout>> \in
                          {<<lane, layout>>, <<last_frame.lane, last_frame.layout>>}
    <3>1. OnLane(MeshOf(kind, live_scene)) # Unpainted
      BY DEF OnLane, Unpainted, PaintInv, GraphTypes, Layouts
    <3>2. kind # "measure" BY DEF MeshPainters
    <3>3. ShowsScene(kind) \/ (kind \in unseen /\ ShowsLast(kind))
      BY <2>1, <3>2 DEF PaintInv, MeshInv, MeshIsKept
    <3>. QED BY <3>1, <3>3 DEF ShowsScene, ShowsLast, LastFramesLane
  <2>. QED BY <2>1, <2>2 DEF PaintKeepsUp, PaintInv, LateInv, GridInv
<1>. QED BY PaintInit, PaintStep, <1>1, PTL DEF GraphSpec

-----------------------------------------------------------------------------
(* The graph's history. *)

Sample == [hop : Nat, t_ms : Nat, pitch : Int \union {Nothing}, breath : BOOLEAN, onset : BOOLEAN,
           session : Nat, first : Nat]
Climbing(samples) == \A i, j \in DOMAIN samples : i < j => samples[i].t_ms <= samples[j].t_ms
Within(samples, newest) == \A i \in DOMAIN samples : samples[i].t_ms \in Cutoff(newest)..newest

\* What is evicted is the oldest.
LEMMA EvictedAreTheOldest ==
  ASSUME NEW s \in Seq(Sample), Climbing(s), NEW newest \in Nat
  PROVE  \E lo \in 1..Len(s) + 1 :
           /\ Evicted(s, newest) = SubSeq(s, lo, Len(s))
           /\ Len(s) - lo + 1 <= history_capacity
           /\ \A i \in lo..Len(s) : s[i].t_ms >= Cutoff(newest)
<1>. DEFINE n == Len(s)
            S == {x \in Range(s) : x.t_ms >= Cutoff(newest)}
            T == {i \in 1..n + 1 : i = n + 1 \/ s[i].t_ms >= Cutoff(newest)}
<1>1. /\ n \in Nat /\ DOMAIN s = 1..n /\ \A k \in 1..n : s[k] \in Sample
      /\ \A k \in 1..n : s[k].t_ms \in Nat
  <2>1. n \in Nat /\ DOMAIN s = 1..n /\ \A k \in 1..n : s[k] \in Sample BY LenProperties, ElementOfSeq
  <2>. QED BY <2>1 DEF Sample
<1>2. Cutoff(newest) \in Nat /\ history_capacity \in Nat \ {0}
  <2>1. history_window \in Nat /\ history_capacity \in Nat \ {0} BY GraphAssumption
  <2>. QED BY <2>1 DEF Cutoff, Larger
<1>. HIDE DEF n
<1>3. PICK lo \in T : \A j \in T : lo <= j
  <2>1. T \in SUBSET Nat /\ n + 1 \in T BY <1>1
  <2>. HIDE DEF T
  <2>. QED BY <2>1, LeastNat
<1>4. lo \in 1..n + 1 /\ lo \in Nat BY <1>1, <1>3
<1>5. ASSUME NEW i \in 1..n, i < lo PROVE s[i] \notin S
  <2>1. i \notin T BY <1>1, <1>3, <1>5
  <2>. QED BY <1>1, <2>1
<1>6. ASSUME NEW i \in lo..n PROVE s[i] \in S /\ s[i].t_ms >= Cutoff(newest)
  <2>1. i \in 1..n /\ lo \in 1..n BY <1>1, <1>4, <1>6
  <2>2. s[lo].t_ms >= Cutoff(newest) BY <1>1, <1>3, <2>1
  <2>3. lo < i => s[lo].t_ms <= s[i].t_ms BY <1>1, <2>1 DEF Climbing
  <2>4. s[i].t_ms >= Cutoff(newest) BY <1>1, <1>2, <1>4, <2>1, <2>2, <2>3
  <2>5. s[i] \in Range(s) BY <1>1, <2>1 DEF Range
  <2>. QED BY <2>4, <2>5
<1>. HIDE DEF S, T
<1>. DEFINE a == SubSeq(s, 1, lo - 1)
            b == SubSeq(s, lo, n)
<1>7. /\ a \in Seq(Sample) /\ Len(a) = lo - 1 /\ \A k \in 1..lo - 1 : a[k] = s[k]
      /\ b \in Seq(Sample) /\ Len(b) = n - lo + 1 /\ \A k \in 1..n - lo + 1 : b[k] = s[lo + k - 1]
  <2>1. 1 \in Int /\ lo - 1 \in Int /\ lo \in Int /\ n \in Int BY <1>1, <1>4
  <2>2. /\ \A i \in 1..lo - 1 : s[i] \in Sample /\ i = 1 + i - 1
        /\ \A i \in lo..n : s[i] \in Sample
    BY <1>1, <1>4
  <2>3. a \in Seq(Sample) /\ Len(a) = lo - 1 /\ \A k \in 1..lo - 1 : a[k] = s[k]
    <3>1. /\ a \in Seq(Sample) /\ Len(a) = IF 1 <= lo - 1 THEN (lo - 1) - 1 + 1 ELSE 0
          /\ \A k \in 1..(lo - 1) - 1 + 1 : a[k] = s[1 + k - 1]
      BY <2>1, <2>2, SubSeqProperties
    <3>. QED BY <1>4, <2>2, <3>1
  <2>4. b \in Seq(Sample) /\ Len(b) = n - lo + 1 /\ \A k \in 1..n - lo + 1 : b[k] = s[lo + k - 1]
    <3>1. /\ b \in Seq(Sample) /\ Len(b) = IF lo <= n THEN n - lo + 1 ELSE 0
          /\ \A k \in 1..n - lo + 1 : b[k] = s[lo + k - 1]
      BY <2>1, <2>2, SubSeqProperties
    <3>. QED BY <1>1, <1>4, <3>1
  <2>. QED BY <2>3, <2>4
<1>8. s = a \o b
  <2>1. 1 \in 1..Len(s) + 1 /\ lo - 1 \in 1 - 1..Len(s) /\ n \in lo - 1..Len(s)
    BY <1>1, <1>4 DEF n
  <2>2. a \o SubSeq(s, (lo - 1) + 1, n) = SubSeq(s, 1, n)
    BY <2>1, ConcatAdjacentSubSeq
  <2>3. (lo - 1) + 1 = lo BY <1>4
  <2>4. SubSeq(s, 1, n) = s BY SubSeqFull DEF n
  <2>. QED BY <2>2, <2>3, <2>4
<1>9. Among(s, S) = b
  <2>1. \A k \in 1..Len(a) : a[k] \notin S BY <1>1, <1>4, <1>5, <1>7
  <2>2. \A k \in 1..Len(b) : b[k] \in S BY <1>1, <1>4, <1>6, <1>7
  <2>. HIDE DEF a, b
  <2>3. Among(a, S) = <<>> BY <1>7, <2>1, AmongNone
  <2>4. Among(b, S) = b BY <1>7, <2>2, AmongAll
  <2>5. Among(a \o b, S) = Among(a, S) \o Among(b, S) BY <1>7, AmongJoined
  <2>. QED BY <1>7, <1>8, <2>3, <2>4, <2>5, ConcatEmptySeq
<1>. DEFINE k == n - lo + 1
            m == Larger(1, k - history_capacity + 1)
<1>10. Evicted(s, newest) = SubSeq(b, m, k)
  BY <1>7, <1>9 DEF Evicted, S
<1>11. k \in Nat /\ m \in Nat /\ m >= 1 /\ k - m + 1 <= history_capacity
       /\ (k # 0 => m \in 1..k) /\ (k = 0 => m = 1)
  BY <1>1, <1>2, <1>4 DEF Larger
<1>. HIDE DEF m
<1>12. CASE k = 0
  <2>1. lo = n + 1 /\ 1 \in Int /\ 0 \in Int /\ 0 < 1 /\ n + 1 \in Int /\ n \in Int /\ n < n + 1
    BY <1>1, <1>4, <1>12
  <2>2. SubSeq(b, 1, 0) = <<>> /\ SubSeq(s, n + 1, n) = <<>> BY <2>1, SubSeqEmpty
  <2>3. Evicted(s, newest) = SubSeq(s, lo, n) BY <1>10, <1>11, <1>12, <2>1, <2>2
  <2>4. n - lo + 1 <= history_capacity BY <1>1, <1>2, <1>4, <1>12
  <2>. QED BY <1>4, <1>6, <2>3, <2>4 DEF n
<1>13. CASE k # 0
  <2>1. /\ lo \in 1..Len(s) /\ n \in 1..Len(s) /\ m \in 1..n - lo + 1 /\ k \in 1..n - lo + 1
        /\ lo + k - 1 = n
    BY <1>1, <1>4, <1>11, <1>13 DEF n
  <2>2. SubSeq(b, m, k) = SubSeq(s, lo + m - 1, lo + k - 1) BY <2>1, SubSeqOfSubSeq
  <2>3. Evicted(s, newest) = SubSeq(s, lo + m - 1, n) BY <1>10, <2>1, <2>2
  <2>4. lo + m - 1 \in 1..n + 1 /\ n - (lo + m - 1) + 1 <= history_capacity
        /\ \A i \in lo + m - 1..n : i \in lo..n
    BY <1>1, <1>2, <1>4, <1>11, <1>13
  <2>. QED BY <1>6, <2>3, <2>4 DEF n
<1>. QED BY <1>12, <1>13

Clocks == [time : Nat, index : Nat, hops : Nat, sessions : Nat, first : Nat \union {Nothing}]

\* A sample after one of another session is the first of its session that was drained.
FirstAtSeams(samples) ==
    \A i \in 2..Len(samples) : samples[i].session # samples[i - 1].session =>
                                 samples[i].hop = samples[i].first

HistoryInv ==
    /\ hop_clock \in Clocks
    /\ history \in Seq(Sample) /\ Climbing(history) /\ Len(history) <= history_capacity
    /\ max_seen = Nothing => history = <<>>
    /\ max_seen # Nothing =>
         max_seen \in Nat /\ max_seen <= hop_clock.time /\ Within(history, max_seen)
    /\ FirstAtSeams(history)
    /\ head_screen # "game" => history = <<>>
    /\ history # <<>> /\ history[Len(history)].session # hop_clock.sessions =>
         hop_clock.first = Nothing

LEMMA EmptyHistory ==
  /\ <<>> \in Seq(Sample) /\ Climbing(<<>>) /\ Len(<<>>) <= history_capacity
  /\ FirstAtSeams(<<>>)
<1>1. history_capacity \in Nat BY GraphAssumption
<1>2. <<>> \in Seq(Sample) /\ Len(<<>>) = 0 /\ DOMAIN <<>> = {} OBVIOUS
<1>. QED BY <1>1, <1>2 DEF Climbing, FirstAtSeams

LEMMA HistoryBegins == GraphInit => HistoryInv
BY EmptyHistory DEF GraphInit, HistoryInv, Clocks

LEMMA HopsAreKept ==
  ASSUME HistoryInv, NEW sound \in Sounds, NEW lost \in 0..1, NEW ticks \in HopTicks,
         DrainHop(sound, lost, ticks)
  PROVE  HistoryInv'
<1>. DEFINE t == hop_clock.time + ticks
            index == hop_clock.index + lost
            first == IF hop_clock.first = Nothing THEN index ELSE hop_clock.first
            sample == [hop |-> index, t_ms |-> t, pitch |-> sound.pitch,
                       breath |-> sound.breath, onset |-> sound.onset,
                       session |-> hop_clock.sessions, first |-> first]
            newest == IF max_seen = Nothing THEN t ELSE Larger(max_seen, t)
            s == Append(history, sample)
<1>1. /\ hop_clock \in Clocks
      /\ history \in Seq(Sample) /\ Climbing(history) /\ Len(history) <= history_capacity
      /\ max_seen = Nothing => history = <<>>
      /\ max_seen # Nothing =>
           max_seen \in Nat /\ max_seen <= hop_clock.time /\ Within(history, max_seen)
      /\ FirstAtSeams(history)
      /\ head_screen # "game" => history = <<>>
      /\ history # <<>> /\ history[Len(history)].session # hop_clock.sessions =>
           hop_clock.first = Nothing
  BY DEF HistoryInv
<1>2. /\ t \in Nat /\ hop_clock.time \in Nat /\ hop_clock.time <= t /\ index \in Nat
      /\ first \in Nat /\ hop_clock.hops \in Nat /\ hop_clock.sessions \in Nat
  <2>1. ticks \in Nat BY GraphAssumption
  <2>. QED BY <1>1, <2>1 DEF Clocks
<1>. HIDE DEF index, first
<1>3. /\ sample \in Sample /\ sample.t_ms = t /\ sample.hop = index /\ sample.first = first
      /\ sample.session = hop_clock.sessions
  <2>1. sound.pitch \in Int \union {Nothing} /\ sound.breath \in BOOLEAN /\ sound.onset \in BOOLEAN
    BY GraphAssumption
  <2>2. t \in Nat BY <1>2
  <2>. HIDE DEF t
  <2>. QED BY <1>2, <2>1, <2>2 DEF Sample
<1>4. newest = t BY <1>1, <1>2 DEF Larger
<1>5. /\ hop_clock' \in Clocks /\ hop_clock'.time = t /\ hop_clock'.sessions = hop_clock.sessions
      /\ head_screen' = head_screen
  <2>1. /\ hop_clock' = [hop_clock EXCEPT !.time = t, !.hops = @ + 1, !.index = index + 1,
                                          !.first = first]
        /\ head_screen' = head_screen
    BY DEF DrainHop, index, first
  <2>2. index + 1 \in Nat /\ hop_clock.hops + 1 \in Nat /\ t \in Nat BY <1>2
  <2>. HIDE DEF t
  <2>3. hop_clock' = [time |-> t, index |-> index + 1, hops |-> hop_clock.hops + 1,
                      sessions |-> hop_clock.sessions, first |-> first]
    BY <1>1, <2>1 DEF Clocks
  <2>. QED BY <1>2, <2>1, <2>2, <2>3 DEF Clocks
<1>6. CASE head_screen = "game"
  <2>1. max_seen' = t /\ history' = Evicted(s, t)
    <3>1. max_seen' = newest /\ history' = Evicted(Append(history, sample), newest)
      BY <1>6 DEF DrainHop, index, first
    <3>. HIDE DEF newest, sample, t
    <3>. QED BY <1>4, <3>1
  <2>. HIDE DEF sample, newest, t
  <2>2. /\ s \in Seq(Sample) /\ Len(s) = Len(history) + 1 /\ s[Len(history) + 1] = sample
        /\ \A i \in 1..Len(history) : s[i] = history[i]
        /\ Len(history) \in Nat /\ DOMAIN history = 1..Len(history) /\ DOMAIN s = 1..Len(s)
    BY <1>1, <1>3, AppendProperties, LenProperties
  <2>. HIDE DEF s
  <2>3. \A i \in 1..Len(history) : history[i].t_ms <= t
    <3>. SUFFICES ASSUME NEW i \in 1..Len(history) PROVE history[i].t_ms <= t OBVIOUS
    <3>1. max_seen # Nothing
      <4>1. Len(<<>>) = 0 OBVIOUS
      <4>. QED BY <1>1, <4>1
    <3>2. /\ history[i].t_ms \in Cutoff(max_seen)..max_seen /\ max_seen \in Nat /\ max_seen <= t
          /\ history[i].t_ms \in Nat
      <4>1. history[i] \in Sample BY <1>1, ElementOfSeq
      <4>2. history[i].t_ms \in Nat BY <4>1 DEF Sample
      <4>. QED BY <1>1, <1>2, <2>2, <3>1, <4>2 DEF Within
    <3>3. Cutoff(max_seen) \in Nat
      <4>1. history_window \in Nat BY GraphAssumption
      <4>. QED BY <3>2, <4>1 DEF Cutoff, Larger
    <3>. QED BY <1>2, <3>2, <3>3
  <2>4. Climbing(s)
    <3>. SUFFICES ASSUME NEW i \in DOMAIN s, NEW j \in DOMAIN s, i < j
                  PROVE  s[i].t_ms <= s[j].t_ms
      BY DEF Climbing
    <3>1. i \in 1..Len(history) /\ (j \in 1..Len(history) \/ j = Len(history) + 1) BY <2>2
    <3>. QED BY <1>1, <1>3, <2>2, <2>3, <3>1 DEF Climbing
  <2>5. \A i \in DOMAIN s : s[i].t_ms \in Nat /\ s[i].t_ms <= t
    <3>. SUFFICES ASSUME NEW i \in DOMAIN s PROVE s[i].t_ms \in Nat /\ s[i].t_ms <= t OBVIOUS
    <3>1. s[i].t_ms \in Nat
      <4>1. s[i] \in Sample BY <2>2, ElementOfSeq
      <4>. QED BY <4>1 DEF Sample
    <3>2. i \in 1..Len(history) \/ i = Len(history) + 1 BY <2>2
    <3>. QED BY <1>2, <1>3, <2>2, <2>3, <3>1, <3>2
  <2>15. FirstAtSeams(s)
    <3>. SUFFICES ASSUME NEW i \in 2..Len(s), s[i].session # s[i - 1].session
                  PROVE  s[i].hop = s[i].first
      BY DEF FirstAtSeams
    <3>1. CASE i \in 1..Len(history)
      <4>1. i \in 2..Len(history) /\ i - 1 \in 1..Len(history) BY <2>2, <3>1
      <4>. QED BY <1>1, <2>2, <3>1, <4>1 DEF FirstAtSeams
    <3>2. CASE i = Len(history) + 1
      <4>1. i - 1 = Len(history) /\ Len(history) \in 1..Len(history) BY <2>2, <3>2
      <4>2. history # <<>>
        <5>1. Len(<<>>) = 0 OBVIOUS
        <5>. QED BY <4>1, <5>1
      <4>3. hop_clock.first = Nothing BY <1>1, <1>3, <2>2, <3>2, <4>1, <4>2
      <4>4. first = index BY <4>3 DEF first
      <4>. QED BY <1>3, <2>2, <3>2, <4>4
    <3>. QED BY <2>2, <3>1, <3>2
  <2>6. PICK lo \in 1..Len(s) + 1 :
          /\ Evicted(s, t) = SubSeq(s, lo, Len(s))
          /\ Len(s) - lo + 1 <= history_capacity
          /\ \A i \in lo..Len(s) : s[i].t_ms >= Cutoff(t)
    BY <1>2, <2>2, <2>4, EvictedAreTheOldest
  <2>. DEFINE e == SubSeq(s, lo, Len(s))
  <2>7. /\ e \in Seq(Sample) /\ Len(e) = Len(s) - lo + 1 /\ DOMAIN e = 1..Len(e)
        /\ \A i \in 1..Len(e) : e[i] = s[lo + i - 1] /\ lo + i - 1 \in lo..Len(s)
                                /\ lo + i - 1 \in DOMAIN s
    <3>1. lo \in Int /\ Len(s) \in Int /\ \A i \in lo..Len(s) : s[i] \in Sample
      <4>1. \A i \in 1..Len(s) : s[i] \in Sample BY <2>2, ElementOfSeq
      <4>. QED BY <2>2, <4>1
    <3>2. /\ e \in Seq(Sample) /\ Len(e) = IF lo <= Len(s) THEN Len(s) - lo + 1 ELSE 0
          /\ \A i \in 1..Len(s) - lo + 1 : e[i] = s[lo + i - 1]
      BY <3>1, SubSeqProperties
    <3>3. DOMAIN e = 1..Len(e) BY <3>2, LenProperties
    <3>4. Len(e) = Len(s) - lo + 1 BY <2>2, <3>2
    <3>. QED BY <2>2, <3>2, <3>3, <3>4
  <2>8. history' = e BY <2>1, <2>6
  <2>. HIDE DEF e
  <2>9. Climbing(e)
    <3>. SUFFICES ASSUME NEW i \in DOMAIN e, NEW j \in DOMAIN e, i < j
                  PROVE  e[i].t_ms <= e[j].t_ms
      BY DEF Climbing
    <3>1. i \in 1..Len(e) /\ j \in 1..Len(e) BY <2>7
    <3>2. lo + i - 1 < lo + j - 1 BY <2>2, <2>7, <3>1
    <3>. QED BY <2>4, <2>7, <3>1, <3>2 DEF Climbing
  <2>10. Within(e, t)
    <3>. SUFFICES ASSUME NEW i \in DOMAIN e PROVE e[i].t_ms \in Cutoff(t)..t
      BY DEF Within
    <3>1. i \in 1..Len(e) BY <2>7
    <3>2. Cutoff(t) \in Nat
      <4>1. history_window \in Nat BY GraphAssumption
      <4>. QED BY <1>2, <4>1 DEF Cutoff, Larger
    <3>3. /\ e[i] = s[lo + i - 1] /\ s[lo + i - 1].t_ms \in Nat /\ s[lo + i - 1].t_ms <= t
          /\ s[lo + i - 1].t_ms >= Cutoff(t)
      BY <2>5, <2>6, <2>7, <3>1
    <3>. QED BY <1>2, <3>2, <3>3
  <2>11. Len(e) <= history_capacity BY <2>6, <2>7
  <2>16. FirstAtSeams(e)
    <3>. SUFFICES ASSUME NEW i \in 2..Len(e), e[i].session # e[i - 1].session
                  PROVE  e[i].hop = e[i].first
      BY DEF FirstAtSeams
    <3>1. i \in 1..Len(e) /\ i - 1 \in 1..Len(e) BY <2>2, <2>7
    <3>2. /\ e[i] = s[lo + i - 1] /\ e[i - 1] = s[(lo + i - 1) - 1]
          /\ lo + i - 1 \in 2..Len(s)
      <4>1. e[i - 1] = s[lo + (i - 1) - 1] /\ e[i] = s[lo + i - 1] /\ lo + i - 1 \in lo..Len(s)
        BY <2>7, <3>1
      <4>. QED BY <2>2, <3>1, <4>1
    <3>. QED BY <2>15, <3>2 DEF FirstAtSeams
  <2>17. e # <<>> => e[Len(e)].session = hop_clock'.sessions
    <3>. SUFFICES ASSUME e # <<>> PROVE e[Len(e)].session = hop_clock'.sessions OBVIOUS
    <3>1. Len(e) \in 1..Len(e) /\ lo + Len(e) - 1 = Len(history) + 1
      <4>1. Len(e) \in Nat /\ Len(e) # 0 BY <2>7, LenProperties, EmptySeq
      <4>. QED BY <2>2, <2>7, <4>1
    <3>. QED BY <1>3, <1>5, <2>2, <2>7, <3>1
  <2>12. t # Nothing BY <1>2, GraphAssumption
  <2>13. /\ history' \in Seq(Sample) /\ Climbing(history') /\ Len(history') <= history_capacity
         /\ FirstAtSeams(history')
    BY <2>7, <2>8, <2>9, <2>11, <2>16
  <2>14. max_seen' \in Nat /\ max_seen' <= hop_clock'.time /\ Within(history', max_seen')
    BY <1>2, <1>5, <2>1, <2>8, <2>10
  <2>18. /\ head_screen' = "game"
         /\ history' # <<>> => history'[Len(history')].session = hop_clock'.sessions
    BY <1>5, <1>6, <2>8, <2>17
  <2>. QED BY <1>5, <2>1, <2>12, <2>13, <2>14, <2>18 DEF HistoryInv
<1>7. CASE head_screen # "game"
  <2>1. max_seen' = max_seen /\ history' = history BY <1>7 DEF DrainHop, feature_vars
  <2>. HIDE DEF t
  <2>2. max_seen # Nothing => max_seen <= t BY <1>1, <1>2
  <2>. QED BY <1>1, <1>5, <1>7, <2>1, <2>2 DEF HistoryInv
<1>. QED BY <1>6, <1>7

LEMMA HistoryIsKept ==
  ASSUME HistoryInv, GraphNext
  PROVE  HistoryInv'
<1>. USE DEF feature_vars
<1>1. CASE \E sound \in Sounds, lost \in 0..1, ticks \in HopTicks : DrainHop(sound, lost, ticks)
  BY <1>1, HopsAreKept
<1>2. CASE NumberHopsAnew
  <2>1. /\ hop_clock' = [hop_clock EXCEPT !.index = 0, !.sessions = @ + 1, !.first = Nothing]
        /\ history' = history /\ max_seen' = max_seen /\ head_screen' = head_screen
    BY <1>2 DEF NumberHopsAnew
  <2>2. hop_clock \in Clocks BY DEF HistoryInv
  <2>3. /\ hop_clock' \in Clocks
        /\ hop_clock'.time = hop_clock.time /\ hop_clock'.first = Nothing
    <3>1. hop_clock' = [time |-> hop_clock.time, index |-> 0, hops |-> hop_clock.hops,
                        sessions |-> hop_clock.sessions + 1, first |-> Nothing]
      BY <2>1, <2>2 DEF Clocks
    <3>2. hop_clock.time \in Nat /\ hop_clock.hops \in Nat /\ hop_clock.sessions + 1 \in Nat
      BY <2>2 DEF Clocks
    <3>. QED BY <3>1, <3>2 DEF Clocks
  <2>. QED BY <2>1, <2>3 DEF HistoryInv
<1>3. CASE ExitGame
  <2>1. history' = <<>> /\ max_seen' = Nothing /\ hop_clock' = hop_clock BY <1>3 DEF ExitGame
  <2>. QED BY <2>1, EmptyHistory DEF HistoryInv
<1>4. CASE \/ DrainReturns \/ RefreshScene \/ PaintEarly \/ PaintLate \/ MeasureLane
           \/ BeginGraphFrame \/ EnterGame \/ Resize
  <2>1. UNCHANGED <<hop_clock, history, max_seen>> /\ (head_screen' # "game" => head_screen # "game")
    BY <1>4 DEF DrainReturns, RefreshScene, PaintEarly, PaintLate, RunPainters, MeasureLane,
                BeginGraphFrame, EnterGame, Resize
  <2>. QED BY <2>1 DEF HistoryInv
<1>. QED BY <1>1, <1>2, <1>3, <1>4 DEF GraphNext

\* Of the samples held, those whose indices follow are the hops that follow.
LEMMA IndicesTellTheHops ==
  ASSUME HistoryInv, NEW k \in 2..Len(history)
  PROVE  Follows(history, k) <=> history[k].hop = history[k - 1].hop + 1
<1>1. history \in Seq(Sample) /\ FirstAtSeams(history) BY DEF HistoryInv
<1>2. k \in 1..Len(history) /\ k - 1 \in 1..Len(history)
  <2>1. Len(history) \in Nat BY <1>1, LenProperties
  <2>. QED BY <2>1
<1>3. /\ history[k - 1].hop \in Nat /\ history[k].first \in Nat
      /\ history[k].session # history[k - 1].session => history[k].hop = history[k].first
  <2>1. history[k] \in Sample /\ history[k - 1] \in Sample BY <1>1, <1>2, ElementOfSeq
  <2>. QED BY <1>1, <2>1 DEF Sample, FirstAtSeams
<1>. QED BY <1>3 DEF Follows

LEMMA HistoryInvBounds == HistoryInv => HistoryIsBounded
<1>. SUFFICES ASSUME HistoryInv PROVE HistoryIsBounded OBVIOUS
<1>1. /\ Len(history) <= history_capacity /\ history \in Seq(Sample) /\ Climbing(history)
      /\ Len(history) \in Nat /\ DOMAIN history = 1..Len(history)
  BY LenProperties DEF HistoryInv
<1>2. ASSUME NEW i \in DOMAIN history PROVE history[i].t_ms \in Cutoff(max_seen)..max_seen
  <2>1. max_seen # Nothing
    <3>1. DOMAIN <<>> = {} OBVIOUS
    <3>. QED BY <3>1 DEF HistoryInv
  <2>. QED BY <2>1 DEF HistoryInv, Within
<1>3. ASSUME NEW i \in 2..Len(history) PROVE history[i].t_ms >= history[i - 1].t_ms
  <2>1. i - 1 \in 1..Len(history) /\ i \in 1..Len(history) /\ i - 1 < i BY <1>1
  <2>2. history[i - 1].t_ms <= history[i].t_ms BY <1>1, <2>1 DEF Climbing
  <2>3. history[i - 1].t_ms \in Nat /\ history[i].t_ms \in Nat
    <3>1. history[i - 1] \in Sample /\ history[i] \in Sample BY <1>1, <2>1, ElementOfSeq
    <3>. QED BY <3>1 DEF Sample
  <2>. QED BY <2>2, <2>3
<1>. QED BY <1>1, <1>2, <1>3 DEF HistoryIsBounded

-----------------------------------------------------------------------------
(* The pitch window. *)

LEMMA SmallestOf ==
  ASSUME NEW n \in Nat, n >= 1, NEW f \in [1..n -> Int]
  PROVE  \E i \in 1..n : \A j \in 1..n : f[i] <= f[j]
<1>. DEFINE T == {k \in 1..n : \E i \in 1..k : \A j \in 1..k : f[i] <= f[j]}
<1>1. 1 <= n => 1 \in T
  <2>1. 1 \in 1..n /\ f[1] \in Int /\ \A j \in 1..1 : j = 1 OBVIOUS
  <2>. QED BY <2>1
<1>2. ASSUME NEW k \in 1..n, k < n, k \in T PROVE k + 1 \in T
  <2>1. PICK i \in 1..k : \A j \in 1..k : f[i] <= f[j] BY <1>2
  <2>2. k + 1 \in 1..n /\ f[k + 1] \in Int /\ f[i] \in Int /\ i \in 1..k + 1 /\ k + 1 \in 1..k + 1
        /\ \A j \in 1..k + 1 : (j \in 1..k \/ j = k + 1) /\ f[j] \in Int
    BY <1>2
  <2>3. CASE f[i] <= f[k + 1] BY <2>1, <2>2, <2>3
  <2>4. CASE f[k + 1] <= f[i]
    <3>1. \A j \in 1..k + 1 : f[k + 1] <= f[j] BY <2>1, <2>2, <2>4
    <3>. QED BY <2>2, <3>1
  <2>. QED BY <2>2, <2>3, <2>4
<1>. HIDE DEF T
<1>3. 1..n \subseteq T
  <2>1. 1 \in Nat OBVIOUS
  <2>. QED BY <1>1, <1>2, <2>1, RangeInduction
<1>4. n \in T BY <1>3
<1>. QED BY <1>4 DEF T

LEMMA VoicedHasEnds ==
  ASSUME NEW s \in Seq(Sample), VoicedIn(s) # {}
  PROVE  /\ VoicedIn(s) \subseteq Int
         /\ Min(VoicedIn(s)) \in Int /\ Max(VoicedIn(s)) \in Int
         /\ \A p \in VoicedIn(s) : Min(VoicedIn(s)) <= p /\ p <= Max(VoicedIn(s))
         /\ Min(VoicedIn(s)) <= Max(VoicedIn(s))
<1>. DEFINE V == VoicedIn(s)
            n == Len(s)
<1>1. n \in Nat /\ DOMAIN s = 1..n /\ \A i \in 1..n : s[i].pitch \in Int \union {Nothing}
  <2>1. n \in Nat /\ DOMAIN s = 1..n /\ \A i \in 1..n : s[i] \in Sample BY LenProperties, ElementOfSeq
  <2>. QED BY <2>1 DEF Sample
<1>. HIDE DEF n
<1>2. V \subseteq Int BY <1>1 DEF VoicedIn, IsHeard
<1>3. PICK m \in 1..n : s[m].pitch # Nothing BY <1>1 DEF VoicedIn, IsHeard
<1>4. \A i \in 1..n : s[i].pitch # Nothing => s[i].pitch \in V BY <1>1 DEF VoicedIn, IsHeard
<1>5. \A p \in V : \E i \in 1..n : p = s[i].pitch /\ s[i].pitch # Nothing BY <1>1 DEF VoicedIn, IsHeard
<1>. HIDE DEF V
<1>. DEFINE up == [i \in 1..n |-> IF s[i].pitch = Nothing THEN s[m].pitch ELSE s[i].pitch]
            down == [i \in 1..n |-> -up[i]]
<1>6. n >= 1 /\ up \in [1..n -> Int] /\ down \in [1..n -> Int]
      /\ \A i \in 1..n : up[i] \in V /\ down[i] = -up[i] /\ (s[i].pitch # Nothing => up[i] = s[i].pitch)
  <2>1. n >= 1 BY <1>1, <1>3
  <2>2. \A i \in 1..n : up[i] \in V /\ (s[i].pitch # Nothing => up[i] = s[i].pitch) BY <1>3, <1>4
  <2>3. up \in [1..n -> Int]
    <3>1. \A i \in 1..n : up[i] \in Int BY <1>2, <2>2
    <3>. QED BY <3>1
  <2>. HIDE DEF up
  <2>4. \A i \in 1..n : -up[i] \in Int BY <2>3
  <2>. QED BY <2>1, <2>2, <2>3, <2>4
<1>. HIDE DEF up, down
<1>7. \E x \in V : \A y \in V : x <= y
  <2>1. PICK i \in 1..n : \A j \in 1..n : up[i] <= up[j] BY <1>1, <1>6, SmallestOf
  <2>2. up[i] \in V BY <1>6
  <2>3. ASSUME NEW y \in V PROVE up[i] <= y
    <3>1. PICK j \in 1..n : y = s[j].pitch /\ s[j].pitch # Nothing BY <1>5
    <3>2. up[j] = s[j].pitch BY <1>6, <3>1
    <3>3. up[i] <= up[j] BY <2>1
    <3>. QED BY <3>1, <3>2, <3>3
  <2>. QED BY <2>2, <2>3
<1>8. \E x \in V : \A y \in V : x >= y
  <2>1. PICK i \in 1..n : \A j \in 1..n : down[i] <= down[j] BY <1>1, <1>6, SmallestOf
  <2>2. \A j \in 1..n : up[i] >= up[j]
    <3>1. \A j \in 1..n : up[j] \in Int /\ down[j] = -up[j] BY <1>6
    <3>. QED BY <2>1, <3>1
  <2>3. up[i] \in V BY <1>6
  <2>4. ASSUME NEW y \in V PROVE up[i] >= y
    <3>1. PICK j \in 1..n : y = s[j].pitch /\ s[j].pitch # Nothing BY <1>5
    <3>2. up[j] = s[j].pitch BY <1>6, <3>1
    <3>3. up[i] >= up[j] BY <2>2
    <3>. QED BY <3>1, <3>2, <3>3
  <2>. QED BY <2>3, <2>4
<1>9. Min(V) \in V /\ \A y \in V : Min(V) <= y
  BY <1>7 DEF Min
<1>10. Max(V) \in V /\ \A y \in V : Max(V) >= y
  BY <1>8 DEF Max
<1>11. Min(V) \in Int /\ Max(V) \in Int /\ \A y \in V : y \in Int BY <1>2, <1>9, <1>10
<1>12. \A y \in V : Min(V) <= y /\ y <= Max(V) BY <1>9, <1>10, <1>11
<1>. QED BY <1>2, <1>9, <1>11, <1>12 DEF V

Window == [min : Int, max : Int]

\* The window aimed at has every voiced pitch.
LEMMA TargetHasAll ==
  ASSUME NEW s \in Seq(Sample), VoicedIn(s) # {}
  PROVE  /\ TargetWindow(s) \in Window /\ TargetWindow(s).min <= TargetWindow(s).max
         /\ \A p \in VoicedIn(s) : TargetWindow(s).min <= p /\ p <= TargetWindow(s).max
<1>. DEFINE V == VoicedIn(s)
<1>1. /\ V \subseteq Int /\ Min(V) \in Int /\ Max(V) \in Int
      /\ \A p \in V : Min(V) <= p /\ p <= Max(V)
      /\ Min(V) <= Max(V)
  BY VoicedHasEnds
<1>2. PITCH_PADDING \in Nat /\ MIN_PITCH_SPAN \in Nat BY GraphAssumption
<1>. DEFINE low == Min(V) - PITCH_PADDING
            high == Max(V) + PITCH_PADDING
            centre == (low + high) \div 2
            half == MIN_PITCH_SPAN \div 2
<1>3. low \in Int /\ high \in Int /\ low <= high /\ \A p \in V : low <= p /\ p <= high /\ p \in Int
  BY <1>1, <1>2
<1>4. TargetWindow(s) = IF high - low < MIN_PITCH_SPAN
                        THEN [min |-> centre - half, max |-> centre + half]
                        ELSE [min |-> low, max |-> high]
  BY DEF TargetWindow
<1>. HIDE DEF V, low, high
<1>5. centre \in Int /\ half \in Int /\ 2 * centre <= low + high /\ low + high <= 2 * centre + 1
      /\ 2 * half <= MIN_PITCH_SPAN /\ MIN_PITCH_SPAN <= 2 * half + 1
  BY <1>2, <1>3
<1>. HIDE DEF centre, half
<1>6. CASE high - low < MIN_PITCH_SPAN
  <2>1. TargetWindow(s) = [min |-> centre - half, max |-> centre + half] BY <1>4, <1>6
  <2>2. centre - half <= low /\ high <= centre + half
    BY <1>2, <1>3, <1>5, <1>6
  <2>3. \A p \in V : centre - half <= p /\ p <= centre + half BY <1>3, <1>5, <2>2
  <2>4. centre - half \in Int /\ centre + half \in Int /\ centre - half <= centre + half
    BY <1>3, <1>5, <2>2
  <2>. QED BY <2>1, <2>3, <2>4 DEF Window, V
<1>7. CASE ~(high - low < MIN_PITCH_SPAN)
  <2>1. TargetWindow(s) = [min |-> low, max |-> high] BY <1>4, <1>7
  <2>. QED BY <1>3, <2>1 DEF Window, V
<1>. QED BY <1>6, <1>7

\* An edge never passes the one it eases to.
LEMMA ContractedStops ==
  ASSUME NEW edge \in Int, NEW toward \in Int, NEW dt \in Nat
  PROVE  /\ Contracted(edge, toward, dt) \in Int
         /\ edge <= toward => Contracted(edge, toward, dt) <= toward
         /\ edge >= toward => Contracted(edge, toward, dt) >= toward
<1>. DEFINE rest == Larger(edge - toward, toward - edge)
            all == rest * dt + HalfLife - 1
            moved == (rest * dt + HalfLife - 1) \div HalfLife
<1>1. HalfLife \in Nat \ {0} /\ SNAP_EPSILON \in Nat BY GraphAssumption
<1>2. rest \in Nat /\ rest = IF edge <= toward THEN toward - edge ELSE edge - toward
  BY DEF Larger
<1>. HIDE DEF rest
<1>3. all \in Nat
  <2>1. rest * dt \in Nat BY <1>2
  <2>. QED BY <1>1, <2>1
<1>4. moved \in Int /\ moved >= 0
  <2>. HIDE DEF all
  <2>1. all \div HalfLife \in Int /\ all = HalfLife * (all \div HalfLife) + (all % HalfLife)
        /\ all % HalfLife \in 0..HalfLife - 1
    BY <1>1, <1>3
  <2>2. (all \div HalfLife) >= 0 BY <1>1, <1>3, <2>1
  <2>3. moved = all \div HalfLife BY DEF all
  <2>. QED BY <2>1, <2>2, <2>3
<1>5. Contracted(edge, toward, dt) =
        IF rest - moved < SNAP_EPSILON THEN toward
        ELSE IF edge < toward THEN edge + moved ELSE edge - moved
  BY DEF Contracted, rest
<1>. HIDE DEF moved
<1>. QED BY <1>1, <1>2, <1>4, <1>5

\* However it moves, the window has every voiced pitch.
LEMMA WindowHasAll ==
  ASSUME NEW s \in Seq(Sample), VoicedIn(s) # {}, NEW newest \in Nat \union {Nothing},
         pitch_window = Nothing \/ (pitch_window \in Window /\ pitch_window.min <= pitch_window.max),
         last_ms \in Nat \union {Nothing}
  PROVE  /\ NextWindow(s, newest) \in Window
         /\ NextWindow(s, newest).min <= NextWindow(s, newest).max
         /\ \A p \in VoicedIn(s) : InWindow(p, NextWindow(s, newest))
<1>. DEFINE target == TargetWindow(s)
            dt == IF last_ms = Nothing \/ newest = Nothing THEN 0
                  ELSE Lesser(Larger(0, newest - last_ms), MAX_EASE_STEP)
            a == IF target.min < pitch_window.min THEN target.min
                 ELSE Contracted(pitch_window.min, target.min, dt)
            b == IF target.max > pitch_window.max THEN target.max
                 ELSE Contracted(pitch_window.max, target.max, dt)
<1>1. /\ target \in Window /\ target.min \in Int /\ target.max \in Int /\ target.min <= target.max
      /\ \A p \in VoicedIn(s) : target.min <= p /\ p <= target.max /\ p \in Int
  BY TargetHasAll, VoicedHasEnds DEF Window
<1>2. dt \in Nat
  <2>1. MAX_EASE_STEP \in Nat BY GraphAssumption
  <2>. QED BY <2>1 DEF Lesser, Larger
<1>3. NextWindow(s, newest) =
        IF \/ pitch_window = Nothing
           \/ target.min > pitch_window.max \/ target.max < pitch_window.min
        THEN target ELSE [min |-> a, max |-> b]
  BY DEF NextWindow
<1>. HIDE DEF target, dt
<1>4. CASE \/ pitch_window = Nothing
           \/ target.min > pitch_window.max \/ target.max < pitch_window.min
  <2>1. NextWindow(s, newest) = target BY <1>3, <1>4
  <2>. QED BY <1>1, <2>1 DEF InWindow
<1>5. CASE ~(\/ pitch_window = Nothing
             \/ target.min > pitch_window.max \/ target.max < pitch_window.min)
  <2>1. NextWindow(s, newest) = [min |-> a, max |-> b] BY <1>3, <1>5
  <2>2. pitch_window.min \in Int /\ pitch_window.max \in Int BY <1>5 DEF Window
  <2>3. a \in Int /\ a <= target.min 
    <3>1. CASE target.min < pitch_window.min BY <1>1, <3>1
    <3>2. CASE ~(target.min < pitch_window.min)
      <4>1. pitch_window.min <= target.min BY <1>1, <2>2, <3>2
      <4>2. a = Contracted(pitch_window.min, target.min, dt) BY <3>2
      <4>. HIDE DEF a
      <4>. QED BY <1>1, <1>2, <2>2, <4>1, <4>2, ContractedStops
    <3>. QED BY <3>1, <3>2
  <2>4. b \in Int /\ b >= target.max 
    <3>1. CASE target.max > pitch_window.max BY <1>1, <3>1
    <3>2. CASE ~(target.max > pitch_window.max)
      <4>1. pitch_window.max >= target.max BY <1>1, <2>2, <3>2
      <4>2. b = Contracted(pitch_window.max, target.max, dt) BY <3>2
      <4>. HIDE DEF b
      <4>. QED BY <1>1, <1>2, <2>2, <4>1, <4>2, ContractedStops
    <3>. QED BY <3>1, <3>2
  <2>. HIDE DEF a, b
  <2>5. a <= b /\ \A p \in VoicedIn(s) : a <= p /\ p <= b BY <1>1, <2>3, <2>4
  <2>. QED BY <2>1, <2>3, <2>4, <2>5 DEF InWindow, Window
<1>. QED BY <1>4, <1>5

-----------------------------------------------------------------------------
(* The grooves. *)

LEMMA MostMultiples ==
  ASSUME NEW d \in Nat \ {0}, NEW a \in Int, NEW k \in Int
  PROVE  k * d <= a <=> k <= a \div d
<1>. DEFINE q == a \div d
            r == a % d
<1>1. a = d * q + r /\ q \in Int /\ r \in 0..d - 1 OBVIOUS
<1>. HIDE DEF q, r
<1>2. CASE k <= q
  <2>1. q - k \in Nat BY <1>1, <1>2
  <2>2. d * (q - k) >= 0 BY <2>1
  <2>3. d * (q - k) = d * q - k * d BY <1>1
  <2>. QED BY <1>1, <1>2, <2>2, <2>3 DEF q
<1>3. CASE k > q
  <2>1. k - q - 1 \in Nat BY <1>1, <1>3
  <2>2. d * (k - q - 1) >= 0 BY <2>1
  <2>3. d * (k - q - 1) = k * d - d * q - d BY <1>1
  <2>. QED BY <1>1, <1>3, <2>2, <2>3 DEF q
<1>. QED BY <1>1, <1>2, <1>3 DEF q

LEMMA FewestMultiples ==
  ASSUME NEW d \in Nat \ {0}, NEW a \in Int, NEW k \in Int
  PROVE  k * d >= a <=> k >= (a + d - 1) \div d
<1>. DEFINE q == (a + d - 1) \div d
<1>1. (k + 1) * d <= a + d - 1 <=> k + 1 <= q
  <2>1. k + 1 \in Int /\ a + d - 1 \in Int OBVIOUS
  <2>. QED BY <2>1, MostMultiples
<1>2. q \in Int OBVIOUS
<1>. HIDE DEF q
<1>3. (k + 1) * d = k * d + d /\ k * d \in Int OBVIOUS
<1>4. k * d >= a <=> k >= q BY <1>1, <1>2, <1>3
<1>. QED BY <1>4 DEF q

LEMMA GroovesFill ==
  ASSUME NEW shown \in Window
  PROVE  {groove.y : groove \in GrooveLines(shown)} =
           {y \in 0..shown.max - shown.min : (shown.min + y) % Octave \in SlotPitches}
<1>. DEFINE octaves(slot) == (shown.min - slot + Octave - 1) \div Octave
                               .. (shown.max - slot) \div Octave
            pitches == UNION {{slot + k * Octave : k \in octaves(slot)} : slot \in SlotPitches}
            G == {[y |-> pitch - shown.min, of |-> shown.max - shown.min] : pitch \in pitches}
            Y == {y \in 0..shown.max - shown.min : (shown.min + y) % Octave \in SlotPitches}
<1>1. Octave \in Nat \ {0} /\ SlotPitches \subseteq 0..Octave - 1 BY GraphAssumption
<1>2. shown.min \in Int /\ shown.max \in Int BY DEF Window
<1>3. GrooveLines(shown) = G BY DEF GrooveLines
<1>4. ASSUME NEW slot \in SlotPitches, NEW k \in octaves(slot)
      PROVE  (slot + k * Octave) - shown.min \in Y
  <2>1. slot \in Int /\ slot \in 0..Octave - 1 BY <1>1
  <2>2. k \in Int /\ k >= (shown.min - slot + Octave - 1) \div Octave /\ k <= (shown.max - slot) \div Octave
    <3>1. (shown.min - slot + Octave - 1) \div Octave \in Int /\ (shown.max - slot) \div Octave \in Int
      BY <1>1, <1>2, <2>1
    <3>. QED BY <3>1
  <2>3. k * Octave >= shown.min - slot /\ k * Octave <= shown.max - slot
    <3>1. shown.min - slot \in Int /\ shown.max - slot \in Int BY <1>2, <2>1
    <3>. QED BY <1>1, <2>2, <3>1, MostMultiples, FewestMultiples
  <2>4. (Octave * k + slot) % Octave = slot BY <1>1, <2>1, <2>2, Remainder
  <2>5. k * Octave \in Int /\ Octave * k = k * Octave BY <1>1, <2>2
  <2>. DEFINE m == k * Octave
  <2>6. m \in Int /\ m >= shown.min - slot /\ m <= shown.max - slot /\ (m + slot) % Octave = slot
    BY <2>3, <2>4, <2>5
  <2>. HIDE DEF m
  <2>7. (slot + m) - shown.min \in 0..shown.max - shown.min
        /\ shown.min + ((slot + m) - shown.min) = m + slot
    BY <1>2, <2>1, <2>6
  <2>8. (slot + m) - shown.min \in Y BY <2>6, <2>7
  <2>. QED BY <2>8 DEF m
<1>5. ASSUME NEW y \in Y
      PROVE  \E slot \in SlotPitches : \E k \in octaves(slot) : y = (slot + k * Octave) - shown.min
  <2>. DEFINE p == shown.min + y
              slot == p % Octave
              k == p \div Octave
  <2>1. p \in Int /\ p >= shown.min /\ p <= shown.max /\ slot \in SlotPitches /\ y = p - shown.min
    BY <1>2, <1>5
  <2>. HIDE DEF p
  <2>2. p = Octave * k + slot /\ k \in Int /\ slot \in Int BY <1>1, <2>1
  <2>3. Octave * k = k * Octave /\ k * Octave \in Int BY <1>1, <2>2
  <2>. HIDE DEF slot, k
  <2>. DEFINE m == k * Octave
  <2>4. m \in Int /\ p = m + slot BY <2>2, <2>3
  <2>5. k * Octave >= shown.min - slot /\ k * Octave <= shown.max - slot
    <3>. HIDE DEF m
    <3>1. m >= shown.min - slot /\ m <= shown.max - slot BY <1>2, <2>1, <2>2, <2>4
    <3>. QED BY <3>1 DEF m
  <2>6. k >= (shown.min - slot + Octave - 1) \div Octave /\ k <= (shown.max - slot) \div Octave
    <3>1. shown.min - slot \in Int /\ shown.max - slot \in Int BY <1>2, <2>2
    <3>. QED BY <1>1, <2>2, <2>5, <3>1, MostMultiples, FewestMultiples
  <2>7. k \in octaves(slot)
    <3>1. (shown.min - slot + Octave - 1) \div Octave \in Int /\ (shown.max - slot) \div Octave \in Int
      BY <1>1, <1>2, <2>2
    <3>. QED BY <2>2, <2>6, <3>1
  <2>8. y = (slot + k * Octave) - shown.min
    <3>. HIDE DEF m
    <3>1. y = (slot + m) - shown.min BY <1>2, <2>1, <2>2, <2>4
    <3>. QED BY <3>1 DEF m
  <2>. QED BY <2>1, <2>7, <2>8
<1>. HIDE DEF octaves, Y
<1>6. \A pitch \in pitches : pitch - shown.min \in Y BY <1>4
<1>7. \A y \in Y : \E pitch \in pitches : y = pitch - shown.min
  <2>. SUFFICES ASSUME NEW y \in Y PROVE \E pitch \in pitches : y = pitch - shown.min OBVIOUS
  <2>1. PICK slot \in SlotPitches : \E k \in octaves(slot) : y = (slot + k * Octave) - shown.min BY <1>5
  <2>2. PICK k \in octaves(slot) : y = (slot + k * Octave) - shown.min BY <2>1
  <2>3. slot + k * Octave \in pitches OBVIOUS
  <2>. QED BY <2>2, <2>3
<1>. HIDE DEF pitches
<1>8. {groove.y : groove \in G} = {pitch - shown.min : pitch \in pitches}
  <2>. DEFINE line(pitch) == [y |-> pitch - shown.min, of |-> shown.max - shown.min]
  <2>1. \A pitch : line(pitch).y = pitch - shown.min OBVIOUS
  <2>2. G = {line(pitch) : pitch \in pitches} OBVIOUS
  <2>. HIDE DEF line, G
  <2>. QED BY <2>1, <2>2
<1>9. {pitch - shown.min : pitch \in pitches} = Y BY <1>6, <1>7
<1>. QED BY <1>3, <1>8, <1>9 DEF Y

-----------------------------------------------------------------------------
(* Runs of hops, one after another. *)

Pairs == Nat \X Nat
HopFollows(s, H, k) == k \in H /\ k - 1 \in H /\ s[k].hop = s[k - 1].hop + 1

\* The runs of the first k samples: the last of them grows or a new one begins.
Grown(s, H, k, runs) ==
    IF k \notin H THEN runs
    ELSE IF HopFollows(s, H, k) /\ runs # <<>>
         THEN [runs EXCEPT ![Len(runs)] = <<runs[Len(runs)][1], k>>]
         ELSE Append(runs, <<k, k>>)
GrowingRuns(s, H, R) == R[0] = <<>> /\ \A k \in 1..Len(s) : R[k] = Grown(s, H, k, R[k - 1])

IsRun(s, H, i, a, b) ==
    /\ 1 <= a /\ a <= b /\ b <= i /\ a \in H /\ ~HopFollows(s, H, a)
    /\ \A k \in a + 1..b : HopFollows(s, H, k)
    /\ b = i \/ ~HopFollows(s, H, b + 1)
AreRuns(s, H, i, runs) == \A x \in 1..Len(runs) : IsRun(s, H, i, runs[x][1], runs[x][2])
InTurn(runs) == \A x, y \in 1..Len(runs) : x < y => runs[x][2] < runs[y][1]
CoverAll(H, i, runs) ==
    \A k \in H : k <= i => \E x \in 1..Len(runs) : runs[x][1] <= k /\ k <= runs[x][2]
RunsUpTo(s, H, i, runs) ==
    runs \in Seq(Pairs) /\ AreRuns(s, H, i, runs) /\ InTurn(runs) /\ CoverAll(H, i, runs)

LEMMA PairsIn ==
  ASSUME NEW runs \in Seq(Pairs)
  PROVE  /\ Len(runs) \in Nat /\ DOMAIN runs = 1..Len(runs)
         /\ \A x \in 1..Len(runs) : runs[x] \in Pairs /\ runs[x][1] \in Nat /\ runs[x][2] \in Nat
                                    /\ runs[x] = <<runs[x][1], runs[x][2]>>
<1>1. /\ Len(runs) \in Nat /\ DOMAIN runs = 1..Len(runs)
      /\ \A x \in 1..Len(runs) : runs[x] \in Pairs
  BY LenProperties, ElementOfSeq
<1>2. \A p \in Pairs : p[1] \in Nat /\ p[2] \in Nat /\ p = <<p[1], p[2]>> BY DEF Pairs
<1>. QED BY <1>1, <1>2

LEMMA GrownIs ==
  ASSUME NEW s, NEW H, NEW k \in Nat, NEW runs \in Seq(Pairs)
  PROVE  /\ Grown(s, H, k, runs) \in Seq(Pairs)
         /\ k \notin H => Grown(s, H, k, runs) = runs
         /\ k \in H /\ HopFollows(s, H, k) /\ runs # <<>> =>
              /\ Len(Grown(s, H, k, runs)) = Len(runs) /\ Len(runs) >= 1
              /\ Grown(s, H, k, runs)[Len(runs)] = <<runs[Len(runs)][1], k>>
              /\ \A x \in 1..Len(runs) - 1 : Grown(s, H, k, runs)[x] = runs[x]
         /\ k \in H /\ ~(HopFollows(s, H, k) /\ runs # <<>>) =>
              /\ Len(Grown(s, H, k, runs)) = Len(runs) + 1
              /\ Grown(s, H, k, runs)[Len(runs) + 1] = <<k, k>>
              /\ \A x \in 1..Len(runs) : Grown(s, H, k, runs)[x] = runs[x]
<1>. DEFINE n == Len(runs)
            g == Grown(s, H, k, runs)
<1>1. n \in Nat /\ DOMAIN runs = 1..n /\ \A x \in 1..n : runs[x] \in Pairs /\ runs[x][1] \in Nat
  BY PairsIn
<1>2. CASE k \notin H BY <1>2 DEF Grown
<1>3. CASE k \in H /\ HopFollows(s, H, k) /\ runs # <<>>
  <2>1. g = [runs EXCEPT ![n] = <<runs[n][1], k>>] BY <1>3 DEF Grown
  <2>2. n >= 1
    <3>1. runs = <<>> <=> Len(runs) = 0 BY EmptySeq
    <3>. QED BY <1>1, <1>3, <3>1
  <2>. HIDE DEF n
  <2>3. <<runs[n][1], k>> \in Pairs BY <1>1, <2>2 DEF Pairs
  <2>4. g \in Seq(Pairs) /\ Len(g) = n
    BY <2>1, <2>2, <2>3, ExceptSeq DEF n
  <2>5. g[n] = <<runs[n][1], k>> /\ \A x \in 1..n - 1 : g[x] = runs[x]
    BY <1>1, <2>1, <2>2
  <2>. QED BY <1>3, <2>2, <2>4, <2>5 DEF n
<1>4. CASE k \in H /\ ~(HopFollows(s, H, k) /\ runs # <<>>)
  <2>1. g = Append(runs, <<k, k>>) BY <1>4 DEF Grown
  <2>2. <<k, k>> \in Pairs BY DEF Pairs
  <2>. QED BY <1>4, <2>1, <2>2, AppendProperties
<1>. QED BY <1>2, <1>3, <1>4

LEMMA RunsGrow ==
  ASSUME NEW s, NEW H, NEW k \in Nat, k >= 1, H \subseteq Nat \ {0}, NEW runs,
         RunsUpTo(s, H, k - 1, runs)
  PROVE  RunsUpTo(s, H, k, Grown(s, H, k, runs))
<1>. DEFINE n == Len(runs)
            g == Grown(s, H, k, runs)
<1>1. /\ runs \in Seq(Pairs) /\ g \in Seq(Pairs)
      /\ AreRuns(s, H, k - 1, runs) /\ InTurn(runs) /\ CoverAll(H, k - 1, runs)
  BY GrownIs DEF RunsUpTo
<1>2. /\ n \in Nat /\ DOMAIN runs = 1..n
      /\ \A x \in 1..n : runs[x][1] \in Nat /\ runs[x][2] \in Nat /\ runs[x] = <<runs[x][1], runs[x][2]>>
  BY <1>1, PairsIn
<1>. HIDE DEF n, g
<1>3. CASE k \notin H
  <2>1. g = runs BY <1>1, <1>3, GrownIs DEF g
  <2>2. AreRuns(s, H, k, runs)
    <3>. SUFFICES ASSUME NEW x \in 1..Len(runs) PROVE IsRun(s, H, k, runs[x][1], runs[x][2])
      BY DEF AreRuns
    <3>1. IsRun(s, H, k - 1, runs[x][1], runs[x][2]) BY <1>1 DEF AreRuns
    <3>2. runs[x][1] \in Nat /\ runs[x][2] \in Nat BY <1>2 DEF n
    <3>3. ~HopFollows(s, H, k) BY <1>3 DEF HopFollows
    <3>4. runs[x][2] = k - 1 => runs[x][2] + 1 = k BY <3>2
    <3>. QED BY <3>1, <3>2, <3>3, <3>4 DEF IsRun
  <2>3. CoverAll(H, k, runs)
    <3>1. \A h \in H : h <= k => h <= k - 1 BY <1>3
    <3>. QED BY <1>1, <3>1 DEF CoverAll
  <2>. QED BY <1>1, <2>1, <2>2, <2>3 DEF RunsUpTo, g
<1>4. CASE k \in H /\ HopFollows(s, H, k)
  <2>1. k - 1 \in H BY <1>4 DEF HopFollows
  <2>2. PICK z \in 1..n : runs[z][1] <= k - 1 /\ k - 1 <= runs[z][2]
    <3>1. k - 1 <= k - 1 OBVIOUS
    <3>. QED BY <1>1, <2>1, <3>1 DEF CoverAll, n
  <2>3. n >= 1 /\ runs # <<>> /\ n \in 1..n
    <3>1. n >= 1 BY <1>2, <2>2
    <3>2. runs = <<>> => Len(runs) = 0 BY EmptySeq
    <3>. QED BY <1>2, <3>1, <3>2 DEF n
  <2>4. \A x \in 1..n : IsRun(s, H, k - 1, runs[x][1], runs[x][2])
    BY <1>1 DEF AreRuns, n
  <2>5. \A x \in 1..n - 1 : runs[x][2] < runs[n][1] /\ x \in 1..n
    BY <1>1, <1>2, <2>3 DEF InTurn, n
  <2>6. runs[n][2] = k - 1
    <3>1. runs[n][1] <= runs[n][2] /\ runs[n][2] <= k - 1 /\ runs[z][2] <= k - 1
      BY <2>3, <2>4 DEF IsRun
    <3>2. z # n => runs[z][2] < runs[n][1] BY <1>2, <2>2, <2>5
    <3>3. runs[n][1] \in Nat /\ runs[n][2] \in Nat /\ runs[z][2] \in Nat BY <1>2, <2>2, <2>3
    <3>. QED BY <2>2, <3>1, <3>2, <3>3
  <2>7. /\ Len(g) = n /\ g[n] = <<runs[n][1], k>> /\ g[n][1] = runs[n][1] /\ g[n][2] = k
        /\ \A x \in 1..n - 1 : g[x] = runs[x]
    <3>1. Len(g) = n /\ g[n] = <<runs[n][1], k>> /\ \A x \in 1..n - 1 : g[x] = runs[x]
      BY <1>1, <1>4, <2>3, GrownIs DEF g, n
    <3>. QED BY <3>1
  <2>8. \A x \in 1..n : x = n \/ x \in 1..n - 1 BY <1>2
  <2>9. AreRuns(s, H, k, g)
    <3>. SUFFICES ASSUME NEW x \in 1..n PROVE IsRun(s, H, k, g[x][1], g[x][2])
      BY <2>7 DEF AreRuns
    <3>1. CASE x = n
      <4>1. IsRun(s, H, k - 1, runs[n][1], runs[n][2]) /\ runs[n][1] \in Nat BY <1>2, <2>3, <2>4
      <4>2. \A h \in runs[n][1] + 1..k : h \in runs[n][1] + 1..k - 1 \/ h = k BY <4>1
      <4>3. \A h \in runs[n][1] + 1..k : HopFollows(s, H, h) BY <1>4, <2>6, <4>1, <4>2 DEF IsRun
      <4>4. IsRun(s, H, k, runs[n][1], k) BY <2>6, <4>1, <4>3 DEF IsRun
      <4>. QED BY <2>7, <3>1, <4>4
    <3>2. CASE x \in 1..n - 1
      <4>1. IsRun(s, H, k - 1, runs[x][1], runs[x][2]) /\ runs[x][1] \in Nat /\ runs[x][2] \in Nat
        BY <1>2, <2>4
      <4>2. runs[x][2] < k - 1
        <5>1. runs[n][1] <= runs[n][2] /\ runs[n][1] \in Nat BY <1>2, <2>3, <2>4 DEF IsRun
        <5>. QED BY <2>5, <2>6, <3>2, <4>1, <5>1
      <4>3. IsRun(s, H, k, runs[x][1], runs[x][2]) BY <4>1, <4>2 DEF IsRun
      <4>. QED BY <2>7, <3>2, <4>3
    <3>. QED BY <2>8, <3>1, <3>2
  <2>10. InTurn(g)
    <3>. SUFFICES ASSUME NEW x \in 1..n, NEW y \in 1..n, x < y PROVE g[x][2] < g[y][1]
      BY <2>7 DEF InTurn
    <3>1. x \in 1..n - 1 BY <1>2
    <3>2. g[y][1] = runs[y][1] BY <2>7, <2>8
    <3>. QED BY <1>1, <2>7, <3>1, <3>2 DEF InTurn, n
  <2>11. CoverAll(H, k, g)
    <3>. SUFFICES ASSUME NEW h \in H, h <= k
                  PROVE  \E x \in 1..n : g[x][1] <= h /\ h <= g[x][2]
      BY <2>7 DEF CoverAll
    <3>1. CASE h = k
      <4>1. runs[n][1] <= k
        <5>1. runs[n][1] <= runs[n][2] /\ runs[n][1] \in Nat BY <1>2, <2>3, <2>4 DEF IsRun
        <5>. QED BY <2>6, <5>1
      <4>2. h <= k BY <3>1
      <4>. QED BY <2>3, <2>7, <3>1, <4>1, <4>2
    <3>2. CASE h # k
      <4>1. h <= k - 1 /\ h \in Nat BY <3>2
      <4>2. PICK x \in 1..n : runs[x][1] <= h /\ h <= runs[x][2]
        BY <1>1, <4>1 DEF CoverAll, n
      <4>3. CASE x = n
        <5>1. g[n][1] <= h /\ h <= g[n][2] BY <2>7, <4>1, <4>2, <4>3
        <5>. QED BY <4>3, <5>1
      <4>4. CASE x \in 1..n - 1 BY <2>7, <4>2, <4>4
      <4>. QED BY <2>8, <4>3, <4>4
    <3>. QED BY <3>1, <3>2
  <2>. QED BY <1>1, <2>9, <2>10, <2>11 DEF RunsUpTo, g
<1>5. CASE k \in H /\ ~HopFollows(s, H, k)
  <2>1. /\ Len(g) = n + 1 /\ g[n + 1] = <<k, k>> /\ g[n + 1][1] = k /\ g[n + 1][2] = k
        /\ \A x \in 1..n : g[x] = runs[x]
    <3>1. Len(g) = n + 1 /\ g[n + 1] = <<k, k>> /\ \A x \in 1..n : g[x] = runs[x]
      BY <1>1, <1>5, GrownIs DEF g, n
    <3>. QED BY <3>1
  <2>2. \A x \in 1..n + 1 : x = n + 1 \/ x \in 1..n BY <1>2
  <2>3. \A x \in 1..n : IsRun(s, H, k - 1, runs[x][1], runs[x][2])
    BY <1>1 DEF AreRuns, n
  <2>4. AreRuns(s, H, k, g)
    <3>. SUFFICES ASSUME NEW x \in 1..n + 1 PROVE IsRun(s, H, k, g[x][1], g[x][2])
      BY <2>1 DEF AreRuns
    <3>1. CASE x = n + 1
      <4>1. \A h \in k + 1..k : FALSE OBVIOUS
      <4>2. IsRun(s, H, k, k, k) BY <1>5, <4>1 DEF IsRun
      <4>. QED BY <2>1, <3>1, <4>2
    <3>2. CASE x \in 1..n
      <4>1. IsRun(s, H, k - 1, runs[x][1], runs[x][2]) /\ runs[x][1] \in Nat /\ runs[x][2] \in Nat
        BY <1>2, <2>3, <3>2
      <4>2. runs[x][2] = k - 1 => runs[x][2] + 1 = k BY <4>1
      <4>3. IsRun(s, H, k, runs[x][1], runs[x][2]) BY <1>5, <4>1, <4>2 DEF IsRun
      <4>. QED BY <2>1, <3>2, <4>3
    <3>. QED BY <2>2, <3>1, <3>2
  <2>5. InTurn(g)
    <3>. SUFFICES ASSUME NEW x \in 1..n + 1, NEW y \in 1..n + 1, x < y PROVE g[x][2] < g[y][1]
      BY <2>1 DEF InTurn
    <3>1. x \in 1..n /\ g[x] = runs[x] BY <1>2, <2>1
    <3>2. CASE y = n + 1
      <4>1. runs[x][2] <= k - 1 /\ runs[x][2] \in Nat BY <1>2, <2>3, <3>1 DEF IsRun
      <4>. QED BY <2>1, <3>1, <3>2, <4>1
    <3>3. CASE y \in 1..n BY <1>1, <2>1, <3>1, <3>3 DEF InTurn, n
    <3>. QED BY <2>2, <3>2, <3>3
  <2>6. CoverAll(H, k, g)
    <3>. SUFFICES ASSUME NEW h \in H, h <= k
                  PROVE  \E x \in 1..n + 1 : g[x][1] <= h /\ h <= g[x][2]
      BY <2>1 DEF CoverAll
    <3>1. CASE h = k
      <4>1. n + 1 \in 1..n + 1 /\ k <= k BY <1>2
      <4>. QED BY <2>1, <3>1, <4>1
    <3>2. CASE h # k
      <4>1. h <= k - 1 BY <3>2
      <4>2. PICK x \in 1..n : runs[x][1] <= h /\ h <= runs[x][2]
        BY <1>1, <4>1 DEF CoverAll, n
      <4>3. x \in 1..n + 1 BY <1>2
      <4>. QED BY <2>1, <4>2, <4>3
    <3>. QED BY <3>1, <3>2
  <2>. QED BY <1>1, <2>4, <2>5, <2>6 DEF RunsUpTo, g
<1>. QED BY <1>3, <1>4, <1>5

LEMMA RunsExist ==
  ASSUME NEW s \in Seq(Sample), NEW H \in SUBSET (1..Len(s))
  PROVE  \E R \in [0..Len(s) -> Seq(Pairs)] :
           GrowingRuns(s, H, R) /\ \A k \in 0..Len(s) : RunsUpTo(s, H, k, R[k])
<1>. DEFINE n == Len(s)
            G == [v \in Nat \X Seq(Pairs) |-> Grown(s, H, v[1], v[2])]
<1>1. n \in Nat BY LenProperties
<1>. HIDE DEF n
<1>2. \A v \in Nat \X Seq(Pairs) : v[1] \in Nat /\ v[2] \in Seq(Pairs) OBVIOUS
<1>3. G \in [Nat \X Seq(Pairs) -> Seq(Pairs)]
  <2>1. \A v \in Nat \X Seq(Pairs) : Grown(s, H, v[1], v[2]) \in Seq(Pairs) BY <1>2, GrownIs
  <2>. QED BY <2>1
<1>4. ASSUME NEW k \in Nat, NEW q \in Seq(Pairs) PROVE G[<<k, q>>] = Grown(s, H, k, q)
  <2>1. <<k, q>> \in Nat \X Seq(Pairs) /\ <<k, q>>[1] = k /\ <<k, q>>[2] = q OBVIOUS
  <2>. QED BY <2>1
<1>. HIDE DEF G
<1>5. PICK R \in [0..n -> Seq(Pairs)] : Iterated(R, G, <<>>, 0, n)
  <2>1. <<>> \in Seq(Pairs) /\ 0 \in Nat OBVIOUS
  <2>. QED BY <1>1, <1>3, <2>1, Iterates
<1>6. R[0] = <<>> /\ \A k \in 1..n : R[k] = Grown(s, H, k, R[k - 1])
  <2>1. 0 \in 0..n BY <1>1
  <2>2. R[0] = <<>> BY <1>5, <2>1 DEF Iterated
  <2>3. ASSUME NEW k \in 1..n PROVE R[k] = Grown(s, H, k, R[k - 1])
    <3>1. k \in 0..n /\ k # 0 /\ k - 1 \in 0..n /\ k \in Nat BY <1>1
    <3>2. R[k] = G[<<k, R[k - 1]>>] BY <1>5, <3>1 DEF Iterated
    <3>3. R[k - 1] \in Seq(Pairs) BY <3>1
    <3>. QED BY <1>4, <3>1, <3>2, <3>3
  <2>. QED BY <2>2, <2>3
<1>. DEFINE T == {k \in 0..n : RunsUpTo(s, H, k, R[k])}
<1>7. 0 <= n => 0 \in T
  <2>1. <<>> \in Seq(Pairs) /\ \A x \in 1..Len(<<>>) : FALSE OBVIOUS
  <2>2. \A k \in H : ~(k <= 0) BY <1>1 DEF n
  <2>3. RunsUpTo(s, H, 0, <<>>) BY <2>1, <2>2 DEF RunsUpTo, AreRuns, InTurn, CoverAll
  <2>4. 0 \in 0..n BY <1>1
  <2>. QED BY <1>6, <2>3, <2>4
<1>8. ASSUME NEW k \in 0..n, k < n, k \in T PROVE k + 1 \in T
  <2>1. k + 1 \in 1..n /\ (k + 1) - 1 = k /\ k + 1 \in 0..n /\ k + 1 \in Nat /\ k + 1 >= 1
    BY <1>1, <1>8
  <2>2. H \subseteq Nat \ {0} BY <1>1 DEF n
  <2>3. RunsUpTo(s, H, (k + 1) - 1, R[k]) BY <1>8, <2>1
  <2>4. RunsUpTo(s, H, k + 1, Grown(s, H, k + 1, R[k])) BY <2>1, <2>2, <2>3, RunsGrow
  <2>5. R[k + 1] = Grown(s, H, k + 1, R[k]) BY <1>6, <2>1
  <2>. QED BY <2>1, <2>4, <2>5
<1>. HIDE DEF T
<1>9. 0..n \subseteq T BY <1>1, <1>7, <1>8, RangeInduction, 0 \in Nat
<1>10. \A k \in 0..n : RunsUpTo(s, H, k, R[k]) BY <1>9 DEF T
<1>. QED BY <1>5, <1>6, <1>10 DEF n, GrowingRuns

LEMMA RunsAreMaximal ==
  ASSUME NEW s \in Seq(Sample), NEW H \in SUBSET (1..Len(s)), NEW runs,
         RunsUpTo(s, H, Len(s), runs),
         \A k \in 2..Len(s) : Follows(s, k) <=> s[k].hop = s[k - 1].hop + 1
  PROVE  /\ MaximalRuns(s, H) = {runs[x] : x \in 1..Len(runs)}
         /\ Cardinality(MaximalRuns(s, H)) = Len(runs)
<1>. DEFINE n == Len(s)
            m == Len(runs)
            M == MaximalRuns(s, H)
<1>1. n \in Nat /\ DOMAIN s = 1..n BY LenProperties
<1>2. /\ runs \in Seq(Pairs) /\ AreRuns(s, H, n, runs) /\ InTurn(runs) /\ CoverAll(H, n, runs)
  BY DEF RunsUpTo
<1>3. /\ m \in Nat /\ DOMAIN runs = 1..m
      /\ \A x \in 1..m : runs[x][1] \in Nat /\ runs[x][2] \in Nat /\ runs[x] = <<runs[x][1], runs[x][2]>>
  BY <1>2, PairsIn
<1>4. H \subseteq 1..n OBVIOUS
<1>5. M = {r \in (1..n) \X (1..n) :
             /\ r[1] <= r[2] /\ OneRun(s, H, r[1], r[2])
             /\ r[1] = 1 \/ ~OneRun(s, H, r[1] - 1, r[2])
             /\ r[2] = n \/ ~OneRun(s, H, r[1], r[2] + 1)}
  BY <1>1 DEF MaximalRuns
<1>6. ASSUME NEW x \in 1..m PROVE IsRun(s, H, n, runs[x][1], runs[x][2])
  BY <1>2 DEF AreRuns
<1>7. ASSUME NEW a \in Int, NEW b \in Int, a <= b
      PROVE  OneRun(s, H, a, b) <=> a \in H /\ \A k \in a + 1..b : HopFollows(s, H, k)
  <2>3. ASSUME NEW k \in Int, k \in H, k - 1 \in H
        PROVE  Follows(s, k) <=> s[k].hop = s[k - 1].hop + 1
    <3>1. k \in 2..n BY <1>1, <1>4, <2>3
    <3>. QED BY <3>1
  <2>1. ASSUME OneRun(s, H, a, b) PROVE a \in H /\ \A k \in a + 1..b : HopFollows(s, H, k)
    <3>1. a \in a..b BY <1>7
    <3>2. ASSUME NEW k \in a + 1..b PROVE HopFollows(s, H, k)
      <4>1. k \in a..b /\ k - 1 \in a..b /\ k > a /\ k \in Int BY <1>7
      <4>2. k \in H /\ k - 1 \in H /\ Follows(s, k) BY <2>1, <4>1 DEF OneRun
      <4>. QED BY <2>3, <4>1, <4>2 DEF HopFollows
    <3>. QED BY <2>1, <3>1, <3>2 DEF OneRun
  <2>2. ASSUME a \in H, \A k \in a + 1..b : HopFollows(s, H, k) PROVE OneRun(s, H, a, b)
    <3>. SUFFICES ASSUME NEW k \in a..b
                  PROVE  k \in H /\ (k > a => Follows(s, k))
      BY DEF OneRun
    <3>1. k = a \/ k \in a + 1..b BY <1>7
    <3>2. (k = a => ~(k > a)) /\ k \in Int BY <1>7
    <3>. QED BY <2>2, <2>3, <3>1, <3>2 DEF HopFollows
  <2>. QED BY <2>1, <2>2
<1>. HIDE DEF n, m, M
<1>8. ASSUME NEW x \in 1..m PROVE runs[x] \in M
  <2>. DEFINE a == runs[x][1]
              b == runs[x][2]
  <2>1. /\ a \in Nat /\ b \in Nat /\ runs[x] = <<a, b>> BY <1>3
  <2>2. /\ 1 <= a /\ a <= b /\ b <= n /\ a \in H /\ ~HopFollows(s, H, a)
        /\ \A k \in a + 1..b : HopFollows(s, H, k)
        /\ b = n \/ ~HopFollows(s, H, b + 1)
    BY <1>6 DEF IsRun
  <2>. HIDE DEF a, b
  <2>3. OneRun(s, H, a, b) BY <1>7, <2>1, <2>2
  <2>4. ~OneRun(s, H, a - 1, b)
    <3>1. a - 1 \in Int /\ a - 1 <= b /\ b \in Int /\ a \in (a - 1) + 1..b BY <2>1, <2>2
    <3>. QED BY <1>7, <2>2, <3>1
  <2>5. b = n \/ ~OneRun(s, H, a, b + 1)
    <3>1. b + 1 \in Int /\ a <= b + 1 /\ a \in Int /\ b + 1 \in a + 1..b + 1 BY <2>1, <2>2
    <3>. QED BY <1>7, <2>2, <3>1
  <2>6. <<a, b>> \in (1..n) \X (1..n) /\ <<a, b>>[1] = a /\ <<a, b>>[2] = b BY <1>1, <2>1, <2>2
  <2>7. <<a, b>> \in M BY <1>5, <2>2, <2>3, <2>4, <2>5, <2>6
  <2>. QED BY <2>1, <2>7
<1>9. ASSUME NEW r \in M PROVE \E x \in 1..m : r = runs[x]
  <2>. DEFINE a == r[1]
              b == r[2]
  <2>1. /\ a \in 1..n /\ b \in 1..n /\ r = <<a, b>> /\ a <= b /\ OneRun(s, H, a, b)
        /\ a = 1 \/ ~OneRun(s, H, a - 1, b)
        /\ b = n \/ ~OneRun(s, H, a, b + 1)
    BY <1>5
  <2>. HIDE DEF a, b
  <2>2. a \in Int /\ b \in Int /\ a \in Nat /\ b \in Nat BY <1>1, <2>1
  <2>3. a \in H /\ \A k \in a + 1..b : HopFollows(s, H, k) BY <1>7, <2>1, <2>2
  <2>4. PICK x \in 1..m : runs[x][1] <= a /\ a <= runs[x][2]
    <3>1. a <= n BY <2>1
    <3>. QED BY <1>2, <2>3, <3>1 DEF CoverAll, m
  <2>. DEFINE c == runs[x][1]
              d == runs[x][2]
  <2>5. /\ c \in Nat /\ d \in Nat /\ runs[x] = <<c, d>> BY <1>3
  <2>6. /\ 1 <= c /\ c <= d /\ d <= n /\ c \in H /\ ~HopFollows(s, H, c)
        /\ \A k \in c + 1..d : HopFollows(s, H, k)
        /\ d = n \/ ~HopFollows(s, H, d + 1)
    BY <1>6 DEF IsRun
  <2>7. c <= a /\ a <= d BY <2>4
  <2>. HIDE DEF c, d
  <2>8. c = a
    <3>. SUFFICES ASSUME c < a PROVE FALSE BY <2>2, <2>5, <2>7
    <3>1. a \in c + 1..d BY <2>2, <2>5, <2>7
    <3>2. a - 1 \in H /\ HopFollows(s, H, a) BY <2>6, <3>1 DEF HopFollows
    <3>3. a - 1 \in Int /\ a - 1 <= b /\ \A k \in (a - 1) + 1..b : k = a \/ k \in a + 1..b BY <2>1, <2>2
    <3>4. OneRun(s, H, a - 1, b) BY <1>7, <2>2, <2>3, <3>2, <3>3
    <3>5. a # 1 BY <1>4, <3>2
    <3>. QED BY <2>1, <3>4, <3>5
  <2>9. b >= d
    <3>. SUFFICES ASSUME b < d PROVE FALSE BY <2>2, <2>5
    <3>1. b + 1 \in c + 1..d /\ b # n BY <1>1, <2>1, <2>2, <2>5, <2>6, <2>8
    <3>2. b + 1 \in Int /\ a <= b + 1 /\ \A k \in a + 1..b + 1 : k = b + 1 \/ k \in a + 1..b BY <2>1, <2>2
    <3>3. OneRun(s, H, a, b + 1) BY <1>7, <2>2, <2>3, <2>6, <3>1, <3>2
    <3>. QED BY <2>1, <3>1, <3>3
  <2>10. b <= d
    <3>. SUFFICES ASSUME d < b PROVE FALSE BY <2>2, <2>5
    <3>1. d + 1 \in a + 1..b /\ d # n BY <1>1, <2>1, <2>2, <2>5, <2>7
    <3>. QED BY <2>3, <2>6, <3>1
  <2>11. b = d BY <2>2, <2>5, <2>9, <2>10
  <2>. QED BY <2>1, <2>5, <2>8, <2>11
<1>10. M = {runs[x] : x \in 1..m} BY <1>8, <1>9
<1>11. Cardinality(M) = m
  <2>. DEFINE f == [x \in 1..m |-> runs[x]]
  <2>1. ASSUME NEW x \in 1..m, NEW y \in 1..m, x < y PROVE runs[x] # runs[y]
    <3>1. runs[x][2] < runs[y][1] BY <1>2, <2>1 DEF InTurn, m
    <3>2. runs[y][1] <= runs[y][2] BY <1>6 DEF IsRun
    <3>3. runs[x][2] \in Nat /\ runs[y][1] \in Nat /\ runs[y][2] \in Nat BY <1>3
    <3>4. runs[x][2] # runs[y][2] BY <3>1, <3>2, <3>3
    <3>. QED BY <3>4
  <2>2. \A x, y \in 1..m : runs[x] = runs[y] => x = y
    <3>. SUFFICES ASSUME NEW x \in 1..m, NEW y \in 1..m, runs[x] = runs[y] PROVE x = y OBVIOUS
    <3>1. x < y \/ y < x \/ x = y BY <1>3
    <3>. QED BY <2>1, <3>1
  <2>3. f \in Bijection(1..m, M)
    <3>1. f \in [1..m -> M] BY <1>8
    <3>2. \A x, y \in 1..m : f[x] = f[y] => x = y BY <2>2
    <3>3. \A r \in M : \E x \in 1..m : f[x] = r BY <1>9
    <3>. HIDE DEF f
    <3>. QED BY <3>1, <3>2, <3>3 DEF Bijection, Injection, Surjection, IsInjective
  <2>. HIDE DEF f
  <2>4. ExistsBijection(1..m, M) BY <2>3 DEF ExistsBijection
  <2>. QED BY <1>3, <2>4, FS_CountingElements
<1>. QED BY <1>10, <1>11 DEF M, m

\* The last run ends where the samples end, when the last of them is in one.
LEMMA LastRunIsOpen ==
  ASSUME NEW s, NEW H, NEW k \in Nat, NEW runs, RunsUpTo(s, H, k, runs), k \in H
  PROVE  Len(runs) \in Nat \ {0} /\ runs[Len(runs)][2] = k /\ runs # <<>>
<1>. DEFINE n == Len(runs)
<1>1. /\ runs \in Seq(Pairs) /\ AreRuns(s, H, k, runs) /\ InTurn(runs) /\ CoverAll(H, k, runs)
  BY DEF RunsUpTo
<1>2. n \in Nat /\ \A x \in 1..n : runs[x][1] \in Nat /\ runs[x][2] \in Nat
  BY <1>1, PairsIn
<1>. HIDE DEF n
<1>3. PICK z \in 1..n : runs[z][1] <= k /\ k <= runs[z][2]
  <2>1. k <= k OBVIOUS
  <2>. QED BY <1>1, <2>1 DEF CoverAll, n
<1>4. n >= 1 /\ n \in 1..n BY <1>2, <1>3
<1>5. \A x \in 1..n : runs[x][1] <= runs[x][2] /\ runs[x][2] <= k
  BY <1>1 DEF AreRuns, IsRun, n
<1>6. z # n => runs[z][2] < runs[n][1] BY <1>1, <1>2, <1>3, <1>4 DEF InTurn, n
<1>7. runs[n][1] \in Nat /\ runs[n][2] \in Nat /\ runs[z][2] \in Nat BY <1>2, <1>3, <1>4
<1>8. runs[n][2] = k BY <1>3, <1>4, <1>5, <1>6, <1>7
<1>9. runs # <<>>
  <2>1. runs = <<>> => Len(runs) = 0 BY EmptySeq
  <2>. QED BY <1>4, <2>1 DEF n
<1>. QED BY <1>2, <1>4, <1>8, <1>9 DEF n

\* What is made of the first m runs.
Each(F, runs, m) == [x \in 1..m |-> F[runs[x]]]

LEMMA EachAppend ==
  ASSUME NEW F, NEW runs, NEW m \in Nat \ {0}
  PROVE  Append(Each(F, runs, m - 1), F[runs[m]]) = Each(F, runs, m)
<1>. DEFINE U == {F[runs[x]] : x \in 1..m}
            a == Each(F, runs, m - 1)
            b == Each(F, runs, m)
<1>1. \A x \in 1..m : F[runs[x]] \in U OBVIOUS
<1>2. /\ \A x \in 1..m - 1 : F[runs[x]] \in U
      /\ m - 1 \in Nat /\ m \in 1..m
  BY <1>1
<1>3. a \in Seq(U) /\ Len(a) = m - 1 /\ \A x \in 1..m - 1 : a[x] = F[runs[x]]
  <2>1. a \in [1..m - 1 -> U] BY <1>2 DEF Each
  <2>. QED BY <1>2, <2>1 DEF Each
<1>4. b \in Seq(U) /\ Len(b) = m /\ \A x \in 1..m : b[x] = F[runs[x]]
  <2>1. b \in [1..m -> U] BY <1>1 DEF Each
  <2>. QED BY <2>1 DEF Each
<1>. HIDE DEF a, b
<1>5. F[runs[m]] \in U BY <1>1, <1>2
<1>. HIDE DEF U
<1>. DEFINE c == Append(a, F[runs[m]])
<1>6. /\ c \in Seq(U) /\ Len(c) = m /\ c[m] = F[runs[m]] /\ \A x \in 1..m - 1 : c[x] = a[x]
  <2>1. (m - 1) + 1 = m OBVIOUS
  <2>2. /\ c \in Seq(U) /\ Len(c) = Len(a) + 1 /\ c[Len(a) + 1] = F[runs[m]]
        /\ \A x \in 1..Len(a) : c[x] = a[x]
    BY <1>3, <1>5, AppendProperties
  <2>. QED BY <1>3, <2>1, <2>2
<1>. HIDE DEF c
<1>7. \A x \in 1..m : c[x] = b[x]
  <2>1. \A x \in 1..m : x = m \/ x \in 1..m - 1 OBVIOUS
  <2>. QED BY <1>3, <1>4, <1>6, <2>1
<1>8. c = b BY <1>4, <1>6, <1>7, SeqEqual
<1>. QED BY <1>8 DEF a, b, c

LEMMA EachAlike ==
  ASSUME NEW F, NEW a, NEW b, NEW m \in Nat, \A x \in 1..m : a[x] = b[x]
  PROVE  Each(F, a, m) = Each(F, b, m)
BY DEF Each

\* What is made of the runs so far: of those that ended, and of the one that goes on.
Holding(F, H, k, runs, ended, open) ==
    IF k \in H THEN ended = Each(F, runs, Len(runs) - 1) /\ open = F[runs[Len(runs)]]
    ELSE ended = Each(F, runs, Len(runs)) /\ open = <<>>
SomeOfEach(F, n) == \A a, b \in 1..n : a <= b => F[<<a, b>>] # <<>>

LEMMA HoldingAll ==
  ASSUME NEW s, NEW H, NEW n \in Nat, NEW k \in 0..n, NEW runs, RunsUpTo(s, H, k, runs),
         NEW F, SomeOfEach(F, n), NEW ended, NEW open, Holding(F, H, k, runs, ended, open)
  PROVE  /\ Finished(ended, open) = Each(F, runs, Len(runs))
         /\ k \in H => open # <<>>
<1>1. k \in Nat BY DEF RunsUpTo
<1>2. CASE k \in H
  <2>. DEFINE m == Len(runs)
              r == runs[m]
  <2>1. m \in Nat \ {0} /\ r[2] = k BY <1>1, <1>2, LastRunIsOpen
  <2>2. r = <<r[1], r[2]>> /\ r[1] \in Nat /\ IsRun(s, H, k, r[1], r[2])
    <3>1. m \in 1..m BY <2>1
    <3>2. runs \in Seq(Pairs) /\ AreRuns(s, H, k, runs) BY DEF RunsUpTo
    <3>. QED BY <3>1, <3>2, PairsIn DEF AreRuns
  <2>. HIDE DEF m, r
  <2>3. r[1] \in 1..n /\ k \in 1..n /\ r[1] <= k BY <1>1, <2>1, <2>2 DEF IsRun
  <2>4. F[r] # <<>> BY <2>1, <2>2, <2>3 DEF SomeOfEach
  <2>5. ended = Each(F, runs, m - 1) /\ open = F[runs[m]] BY <1>2 DEF Holding, m
  <2>6. Finished(ended, open) = Append(Each(F, runs, m - 1), F[runs[m]])
    BY <2>4, <2>5 DEF Finished, r
  <2>7. Finished(ended, open) = Each(F, runs, m) BY <2>1, <2>6, EachAppend
  <2>. QED BY <2>4, <2>5, <2>7 DEF m, r
<1>3. CASE k \notin H BY <1>3 DEF Holding, Finished
<1>. QED BY <1>2, <1>3

LEMMA HoldingSteps ==
  ASSUME NEW s, NEW n \in Nat, NEW H \in SUBSET (1..n), NEW k \in 1..n, NEW runs,
         RunsUpTo(s, H, k - 1, runs),
         NEW F, SomeOfEach(F, n), NEW ended, NEW open, Holding(F, H, k - 1, runs, ended, open)
  PROVE  /\ k \notin H => Holding(F, H, k, Grown(s, H, k, runs), Finished(ended, open), <<>>)
         /\ HopFollows(s, H, k) =>
              \E a \in 1..k - 1 : /\ open = F[<<a, k - 1>>]
                                  /\ Holding(F, H, k, Grown(s, H, k, runs), ended, F[<<a, k>>])
         /\ k \in H /\ ~HopFollows(s, H, k) =>
              Holding(F, H, k, Grown(s, H, k, runs), Finished(ended, open), F[<<k, k>>])
<1>. DEFINE m == Len(runs)
            g == Grown(s, H, k, runs)
<1>1. k \in Nat /\ k - 1 \in Nat /\ k - 1 \in 0..n /\ runs \in Seq(Pairs) /\ m \in Nat
      /\ AreRuns(s, H, k - 1, runs)
  BY PairsIn DEF RunsUpTo
<1>2. Finished(ended, open) = Each(F, runs, m) BY <1>1, HoldingAll
<1>3. ASSUME k \notin H PROVE Holding(F, H, k, g, Finished(ended, open), <<>>)
  <2>1. g = runs BY <1>1, <1>3, GrownIs
  <2>. HIDE DEF g
  <2>. QED BY <1>2, <1>3, <2>1 DEF Holding
<1>4. ASSUME HopFollows(s, H, k)
      PROVE  \E a \in 1..k - 1 : open = F[<<a, k - 1>>] /\ Holding(F, H, k, g, ended, F[<<a, k>>])
  <2>. DEFINE a == runs[m][1]
  <2>1. k \in H /\ k - 1 \in H BY <1>4 DEF HopFollows
  <2>2. m \in Nat \ {0} /\ runs[m][2] = k - 1 /\ runs # <<>> BY <1>1, <2>1, LastRunIsOpen
  <2>3. runs[m] = <<a, k - 1>> /\ a \in Nat /\ IsRun(s, H, k - 1, a, k - 1)
    <3>1. m \in 1..m BY <2>2
    <3>2. runs[m] = <<runs[m][1], runs[m][2]>> /\ runs[m][1] \in Nat BY <1>1, <3>1, PairsIn
    <3>. QED BY <1>1, <2>2, <3>1, <3>2 DEF AreRuns
  <2>4. a \in 1..k - 1 BY <1>1, <2>3 DEF IsRun
  <2>5. ended = Each(F, runs, m - 1) /\ open = F[<<a, k - 1>>] BY <2>1, <2>3 DEF Holding
  <2>6. Len(g) = m /\ g[m] = <<a, k>> /\ \A x \in 1..m - 1 : g[x] = runs[x]
    BY <1>1, <1>4, <2>1, <2>2, GrownIs
  <2>. HIDE DEF g, a, m
  <2>7. Each(F, g, m - 1) = Each(F, runs, m - 1)
    <3>1. m - 1 \in Nat BY <2>2
    <3>. QED BY <2>6, <3>1, EachAlike
  <2>8. Holding(F, H, k, g, ended, F[<<a, k>>]) BY <2>1, <2>5, <2>6, <2>7 DEF Holding
  <2>. QED BY <2>4, <2>5, <2>8
<1>5. ASSUME k \in H, ~HopFollows(s, H, k)
      PROVE  Holding(F, H, k, g, Finished(ended, open), F[<<k, k>>])
  <2>1. Len(g) = m + 1 /\ g[m + 1] = <<k, k>> /\ \A x \in 1..m : g[x] = runs[x]
    BY <1>1, <1>5, GrownIs
  <2>. HIDE DEF g, m
  <2>2. Each(F, g, m) = Each(F, runs, m) BY <1>1, <2>1, EachAlike
  <2>3. (m + 1) - 1 = m BY <1>1
  <2>. QED BY <1>2, <1>5, <2>1, <2>2, <2>3 DEF Holding
<1>. QED BY <1>3, <1>4, <1>5

-----------------------------------------------------------------------------
(* The traces of a history are its runs of voiced hops. *)

LineOf(s) == [r \in Pairs |-> SubSeq(s, r[1], r[2])]

TraceBegin == [segments |-> <<>>, points |-> <<>>]
TraceStep(s, k, acc) ==
    CASE ~IsHeard(s[k]) -> [segments |-> Finished(acc.segments, acc.points), points |-> <<>>]
      [] IsHeard(s[k]) /\ (k = 1 \/ Contiguous(s, k)) -> [acc EXCEPT !.points = Append(@, s[k])]
      [] OTHER -> [segments |-> Finished(acc.segments, acc.points), points |-> <<s[k]>>]
TraceStates == [segments : Seq(Seq(Sample)), points : Seq(Sample)]

LEMMA FinishedIs ==
  ASSUME NEW U, NEW segments \in Seq(Seq(U)), NEW points \in Seq(U)
  PROVE  Finished(segments, points) \in Seq(Seq(U))
BY AppendProperties DEF Finished

LEMMA TraceStepIs ==
  ASSUME NEW s, NEW k, s[k] \in Sample, NEW acc \in TraceStates
  PROVE  TraceStep(s, k, acc) \in TraceStates
<1>1. acc.segments \in Seq(Seq(Sample)) /\ acc.points \in Seq(Sample) BY DEF TraceStates
<1>2. Finished(acc.segments, acc.points) \in Seq(Seq(Sample)) BY <1>1, FinishedIs
<1>3. Append(acc.points, s[k]) \in Seq(Sample) BY <1>1, AppendProperties
<1>4. <<>> \in Seq(Sample) /\ <<s[k]>> \in Seq(Sample) OBVIOUS
<1>5. [acc EXCEPT !.points = Append(@, s[k])] \in TraceStates
  <2>1. [acc EXCEPT !.points = Append(@, s[k])]
          = [segments |-> acc.segments, points |-> Append(acc.points, s[k])]
    <3>. DEFINE p == Append(acc.points, s[k])
    <3>1. [acc EXCEPT !.points = Append(@, s[k])] = [acc EXCEPT !.points = p] OBVIOUS
    <3>. HIDE DEF p
    <3>2. [acc EXCEPT !.points = p] = [segments |-> acc.segments, points |-> p] BY DEF TraceStates
    <3>. QED BY <3>1, <3>2 DEF p
  <2>. QED BY <1>1, <1>3, <2>1 DEF TraceStates
<1>6. /\ [segments |-> Finished(acc.segments, acc.points), points |-> <<>>] \in TraceStates
      /\ [segments |-> Finished(acc.segments, acc.points), points |-> <<s[k]>>] \in TraceStates
  BY <1>2, <1>4 DEF TraceStates
<1>. QED BY <1>5, <1>6 DEF TraceStep

\* A recursion over the samples has a solution, and what is chosen is one.
LEMMA TraceIs ==
  ASSUME NEW s \in Seq(Sample)
  PROVE  \E g : /\ g[0] = TraceBegin
                /\ \A k \in 1..Len(s) : g[k] = TraceStep(s, k, g[k - 1])
                /\ TraceSegments(s) = Finished(g[Len(s)].segments, g[Len(s)].points)
<1>. DEFINE n == Len(s)
            G == [v \in Nat \X TraceStates |->
                    IF v[1] \in 1..n THEN TraceStep(s, v[1], v[2]) ELSE v[2]]
            Body(h, i) ==
              CASE i = 0 -> [segments |-> <<>>, points |-> <<>>]
                [] i > 0 /\ ~IsHeard(s[i]) ->
                     [segments |-> Finished(h[i - 1].segments, h[i - 1].points),
                      points |-> <<>>]
                [] i > 0 /\ IsHeard(s[i]) /\ (i = 1 \/ Contiguous(s, i)) ->
                     [h[i - 1] EXCEPT !.points = Append(@, s[i])]
                [] OTHER ->
                     [segments |-> Finished(h[i - 1].segments, h[i - 1].points),
                      points |-> <<s[i]>>]
            Is(h) == h = [i \in 0..n |-> Body(h, i)]
<1>1. n \in Nat /\ \A k \in 1..n : s[k] \in Sample
  BY LenProperties, ElementOfSeq
<1>. HIDE DEF n
<1>2. G \in [Nat \X TraceStates -> TraceStates]
  <2>1. \A v \in Nat \X TraceStates : v[2] \in TraceStates OBVIOUS
  <2>2. ASSUME NEW v \in Nat \X TraceStates, v[1] \in 1..n PROVE TraceStep(s, v[1], v[2]) \in TraceStates
    BY <1>1, <2>1, <2>2, TraceStepIs
  <2>. QED BY <2>1, <2>2
<1>3. ASSUME NEW k \in 1..n, NEW q \in TraceStates PROVE G[<<k, q>>] = TraceStep(s, k, q)
  <2>1. <<k, q>> \in Nat \X TraceStates /\ <<k, q>>[1] = k /\ <<k, q>>[2] = q BY <1>1
  <2>. QED BY <2>1
<1>. HIDE DEF G
<1>4. TraceBegin \in TraceStates BY DEF TraceBegin, TraceStates
<1>5. PICK f \in [0..n -> TraceStates] : Iterated(f, G, TraceBegin, 0, n)
  <2>1. 0 \in Nat OBVIOUS
  <2>. QED BY <1>1, <1>2, <1>4, <2>1, Iterates
<1>6. ASSUME NEW h PROVE /\ Body(h, 0) = TraceBegin
                         /\ \A k \in 1..n : Body(h, k) = TraceStep(s, k, h[k - 1])
  <2>1. Body(h, 0) = TraceBegin BY DEF TraceBegin
  <2>2. ASSUME NEW k \in 1..n PROVE Body(h, k) = TraceStep(s, k, h[k - 1])
    <3>1. k > 0 /\ k # 0 BY <1>1
    <3>2. CASE ~IsHeard(s[k]) BY <3>1, <3>2 DEF TraceStep
    <3>3. CASE IsHeard(s[k]) /\ (k = 1 \/ Contiguous(s, k)) BY <3>1, <3>3 DEF TraceStep
    <3>4. CASE IsHeard(s[k]) /\ ~(k = 1 \/ Contiguous(s, k)) BY <3>1, <3>4 DEF TraceStep
    <3>. QED BY <3>2, <3>3, <3>4
  <2>. QED BY <2>1, <2>2
<1>7. Is(f)
  <2>1. \A k \in 0..n : k = 0 \/ k \in 1..n BY <1>1
  <2>2. ASSUME NEW k \in 0..n PROVE f[k] = Body(f, k)
    <3>1. CASE k = 0
      <4>1. f[0] = TraceBegin BY <1>5, <3>1 DEF Iterated
      <4>. QED BY <1>6, <3>1, <4>1
    <3>2. CASE k \in 1..n
      <4>1. k # 0 /\ k - 1 \in 0..n BY <1>1, <3>2
      <4>2. f[k] = G[<<k, f[k - 1]>>] BY <1>5, <4>1 DEF Iterated
      <4>3. f[k - 1] \in TraceStates BY <4>1
      <4>. HIDE DEF Body
      <4>4. f[k] = TraceStep(s, k, f[k - 1])
        <5>1. G[<<k, f[k - 1]>>] = TraceStep(s, k, f[k - 1]) BY ONLY <1>3, <3>2, <4>3
        <5>. QED BY ONLY <4>2, <5>1
      <4>5. Body(f, k) = TraceStep(s, k, f[k - 1]) BY ONLY <1>6, <3>2
      <4>. QED BY ONLY <4>4, <4>5
    <3>. QED BY <2>1, <3>1, <3>2
  <2>. HIDE DEF Body
  <2>. QED BY <2>2
<1>. DEFINE g == CHOOSE h : Is(h)
<1>8. Is(g)
  <2>1. \E h : Is(h) BY <1>7
  <2>. HIDE DEF Is
  <2>. QED BY <2>1
<1>9. TraceSegments(s) = Finished(g[n].segments, g[n].points) BY DEF TraceSegments, n
<1>. HIDE DEF g, Body
<1>10. \A k \in 0..n : g[k] = Body(g, k)
  <2>1. \A k \in 0..n : [i \in 0..n |-> Body(g, i)][k] = Body(g, k) OBVIOUS
  <2>2. g = [i \in 0..n |-> Body(g, i)] BY <1>8
  <2>. HIDE DEF Is
  <2>. QED BY <2>1, <2>2
<1>11. g[0] = TraceBegin /\ \A k \in 1..n : g[k] = TraceStep(s, k, g[k - 1])
  <2>1. 0 \in 0..n /\ \A k \in 1..n : k \in 0..n BY <1>1
  <2>. QED BY <1>6, <1>10, <2>1
<1>. QED BY <1>9, <1>11 DEF n

LEMMA LinesAreSome ==
  ASSUME NEW s \in Seq(Sample)
  PROVE  /\ \A a, b \in Nat : LineOf(s)[<<a, b>>] = SubSeq(s, a, b)
         /\ SomeOfEach(LineOf(s), Len(s))
         /\ \A a, b \in 1..Len(s) : a <= b =>
              /\ SubSeq(s, a, b) \in Seq(Sample) /\ Len(SubSeq(s, a, b)) = b - a + 1
              /\ \A i \in 1..b - a + 1 : SubSeq(s, a, b)[i] = s[a + i - 1]
<1>1. ASSUME NEW a \in Nat, NEW b \in Nat PROVE LineOf(s)[<<a, b>>] = SubSeq(s, a, b)
  <2>1. <<a, b>> \in Pairs /\ <<a, b>>[1] = a /\ <<a, b>>[2] = b BY DEF Pairs
  <2>. QED BY <2>1 DEF LineOf
<1>2. Len(s) \in Nat /\ \A i \in 1..Len(s) : s[i] \in Sample BY LenProperties, ElementOfSeq
<1>3. ASSUME NEW a \in 1..Len(s), NEW b \in 1..Len(s), a <= b
      PROVE  /\ SubSeq(s, a, b) \in Seq(Sample) /\ Len(SubSeq(s, a, b)) = b - a + 1
             /\ \A i \in 1..b - a + 1 : SubSeq(s, a, b)[i] = s[a + i - 1]
  <2>1. a \in Int /\ b \in Int /\ \A i \in a..b : s[i] \in Sample BY <1>2
  <2>. QED BY <1>3, <2>1, SubSeqProperties
<1>4. ASSUME NEW a \in 1..Len(s), NEW b \in 1..Len(s), a <= b PROVE LineOf(s)[<<a, b>>] # <<>>
  <2>1. a \in Nat /\ b \in Nat /\ b - a + 1 # 0 BY <1>2, <1>4
  <2>2. Len(SubSeq(s, a, b)) # 0 BY <1>3, <1>4, <2>1
  <2>3. Len(<<>>) = 0 OBVIOUS
  <2>. QED BY <1>1, <2>1, <2>2, <2>3
<1>. QED BY <1>1, <1>3, <1>4 DEF SomeOfEach

LEMMA SegmentsAreRuns ==
  ASSUME NEW s \in Seq(Sample), NEW R,
         GrowingRuns(s, VoicedHops(s), R), \A k \in 0..Len(s) : RunsUpTo(s, VoicedHops(s), k, R[k])
  PROVE  TraceSegments(s) = Each(LineOf(s), R[Len(s)], Len(R[Len(s)]))
<1>. DEFINE n == Len(s)
            H == VoicedHops(s)
            F == LineOf(s)
<1>1. n \in Nat /\ DOMAIN s = 1..n BY LenProperties
<1>2. H \in SUBSET (1..n) /\ \A k \in 1..n : k \in H <=> IsHeard(s[k])
  BY <1>1 DEF VoicedHops
<1>3. SomeOfEach(F, n) /\ \A a, b \in Nat : F[<<a, b>>] = SubSeq(s, a, b)
  BY LinesAreSome
<1>4. PICK g : /\ g[0] = TraceBegin
               /\ \A k \in 1..n : g[k] = TraceStep(s, k, g[k - 1])
               /\ TraceSegments(s) = Finished(g[n].segments, g[n].points)
  BY TraceIs
<1>5. R[0] = <<>> /\ \A k \in 1..n : R[k] = Grown(s, H, k, R[k - 1]) BY DEF GrowingRuns
<1>6. \A k \in 0..n : RunsUpTo(s, H, k, R[k]) OBVIOUS
<1>. HIDE DEF n, H, F
<1>. DEFINE T == {k \in 0..n : /\ g[k] \in TraceStates
                                /\ Holding(F, H, k, R[k], g[k].segments, g[k].points)}
<1>7. 0 <= n => 0 \in T
  <2>1. 0 \notin H /\ 0 \in 0..n BY <1>1, <1>2
  <2>2. g[0].segments = <<>> /\ g[0].points = <<>> BY <1>4 DEF TraceBegin
  <2>4. g[0] \in TraceStates BY <1>4 DEF TraceBegin, TraceStates
  <2>3. Each(F, <<>>, Len(<<>>)) = <<>>
    <3>1. Len(<<>>) = 0 /\ \A x : ~(x \in 1..0) OBVIOUS
    <3>. QED BY <3>1 DEF Each
  <2>. QED BY <1>5, <2>1, <2>2, <2>3, <2>4 DEF Holding
<1>8. ASSUME NEW j \in 0..n, j < n, j \in T PROVE j + 1 \in T
  <2>. DEFINE k == j + 1
              acc == g[j]
  <2>1. k \in 1..n /\ k - 1 = j /\ k \in 0..n /\ j \in Nat /\ k \in Nat BY <1>1, <1>8
  <2>. HIDE DEF k
  <2>2. /\ RunsUpTo(s, H, k - 1, R[j]) /\ Holding(F, H, k - 1, R[j], acc.segments, acc.points)
        /\ R[k] = Grown(s, H, k, R[j]) /\ g[k] = TraceStep(s, k, acc)
        /\ acc \in TraceStates
    BY <1>4, <1>5, <1>6, <1>8, <2>1
  <2>. HIDE DEF acc
  <2>3. /\ k \notin H => Holding(F, H, k, R[k], Finished(acc.segments, acc.points), <<>>)
        /\ HopFollows(s, H, k) =>
             \E a \in 1..k - 1 : /\ acc.points = F[<<a, k - 1>>]
                                 /\ Holding(F, H, k, R[k], acc.segments, F[<<a, k>>])
        /\ k \in H /\ ~HopFollows(s, H, k) =>
             Holding(F, H, k, R[k], Finished(acc.segments, acc.points), F[<<k, k>>])
    <3>. DEFINE new == Grown(s, H, k, R[j])
    <3>1. /\ k \notin H => Holding(F, H, k, new, Finished(acc.segments, acc.points), <<>>)
          /\ HopFollows(s, H, k) =>
               \E a \in 1..k - 1 : /\ acc.points = F[<<a, k - 1>>]
                                   /\ Holding(F, H, k, new, acc.segments, F[<<a, k>>])
          /\ k \in H /\ ~HopFollows(s, H, k) =>
               Holding(F, H, k, new, Finished(acc.segments, acc.points), F[<<k, k>>])
      BY <1>1, <1>2, <1>3, <2>1, <2>2, HoldingSteps
    <3>2. R[k] = new BY <2>2
    <3>. HIDE DEF new
    <3>. QED BY <3>1, <3>2
  <2>4. Holding(F, H, k, R[k], g[k].segments, g[k].points)
    <3>1. CASE k \notin H
      <4>1. ~IsHeard(s[k]) BY <1>2, <2>1, <3>1
      <4>2. g[k].segments = Finished(acc.segments, acc.points) /\ g[k].points = <<>>
        BY <2>2, <4>1 DEF TraceStep
      <4>. QED BY <2>3, <3>1, <4>2
    <3>2. CASE HopFollows(s, H, k)
      <4>1. k \in H /\ k - 1 \in H /\ s[k].hop = s[k - 1].hop + 1 BY <3>2 DEF HopFollows
      <4>2. IsHeard(s[k]) /\ Contiguous(s, k)
        <5>1. k > 1 BY <1>2, <2>1, <4>1
        <5>. QED BY <1>2, <2>1, <4>1, <5>1 DEF Contiguous
      <4>3. g[k] = [acc EXCEPT !.points = Append(@, s[k])] BY <2>2, <4>2 DEF TraceStep
      <4>4. PICK a \in 1..k - 1 : /\ acc.points = F[<<a, k - 1>>]
                                  /\ Holding(F, H, k, R[k], acc.segments, F[<<a, k>>])
        BY <2>3, <3>2
      <4>5. Append(acc.points, s[k]) = F[<<a, k>>]
        <5>1. a \in 1..Len(s) /\ k \in a..Len(s) /\ a \in Nat /\ k - 1 \in Nat /\ k - 1 \in 1..Len(s)
              /\ a <= k - 1
          BY <2>1, <4>4 DEF n
        <5>2. SubSeq(s, a, k) = SubSeq(s, a, k - 1) \o <<s[k]>>
          BY <5>1, SubSeqRecursiveSecond
        <5>3. SubSeq(s, a, k - 1) \in Seq(Sample) /\ s[k] \in Sample
          <6>1. SubSeq(s, a, k - 1) \in Seq(Sample) BY <5>1, LinesAreSome
          <6>2. k \in 1..Len(s) BY <2>1 DEF n
          <6>. QED BY <6>1, <6>2, ElementOfSeq
        <5>4. Append(SubSeq(s, a, k - 1), s[k]) = SubSeq(s, a, k - 1) \o <<s[k]>>
          BY <5>3, AppendIsConcat
        <5>5. F[<<a, k - 1>>] = SubSeq(s, a, k - 1) /\ F[<<a, k>>] = SubSeq(s, a, k)
          BY <1>3, <2>1, <5>1
        <5>. QED BY <4>4, <5>2, <5>4, <5>5
      <4>6. g[k].segments = acc.segments /\ g[k].points = Append(acc.points, s[k])
        BY <2>2, <4>3 DEF TraceStates
      <4>. QED BY <4>4, <4>5, <4>6
    <3>3. CASE k \in H /\ ~HopFollows(s, H, k)
      <4>1. IsHeard(s[k]) BY <1>2, <2>1, <3>3
      <4>2. F[<<k, k>>] = <<s[k]>>
        <5>1. k \in 1..Len(s) /\ k \in k..Len(s) /\ k \in Int /\ k - 1 \in Int /\ k - 1 < k
          BY <2>1 DEF n
        <5>2. SubSeq(s, k, k) = SubSeq(s, k, k - 1) \o <<s[k]>> BY <5>1, SubSeqRecursiveSecond
        <5>3. SubSeq(s, k, k - 1) = <<>> BY <5>1, SubSeqEmpty
        <5>4. s[k] \in Sample BY <5>1, ElementOfSeq
        <5>5. <<s[k]>> \in Seq(Sample) BY <5>4
        <5>6. <<>> \o <<s[k]>> = <<s[k]>> BY <5>5, ConcatEmptySeq
        <5>. QED BY <1>3, <2>1, <5>2, <5>3, <5>6
      <4>3. CASE k = 1 \/ Contiguous(s, k)
        <5>1. k - 1 \notin H
          <6>1. k = 1 => k - 1 \notin H BY <1>2
          <6>2. Contiguous(s, k) => k - 1 \notin H BY <3>3 DEF Contiguous, HopFollows
          <6>. QED BY <4>3, <6>1, <6>2
        <5>2. acc.points = <<>> BY <2>2, <5>1 DEF Holding
        <5>3. Finished(acc.segments, acc.points) = acc.segments BY <5>2 DEF Finished
        <5>4. g[k] = [acc EXCEPT !.points = Append(@, s[k])] BY <2>2, <4>1, <4>3 DEF TraceStep
        <5>5. g[k].segments = acc.segments /\ g[k].points = Append(acc.points, s[k])
          BY <2>2, <5>4 DEF TraceStates
        <5>6. Append(acc.points, s[k]) = <<s[k]>> BY <5>2
        <5>. QED BY <2>3, <3>3, <4>2, <5>3, <5>5, <5>6
      <4>4. CASE ~(k = 1 \/ Contiguous(s, k))
        <5>1. g[k].segments = Finished(acc.segments, acc.points) /\ g[k].points = <<s[k]>>
          BY <2>2, <4>1, <4>4 DEF TraceStep
        <5>. QED BY <2>3, <3>3, <4>2, <5>1
      <4>. QED BY <4>3, <4>4
    <3>. QED BY <3>1, <3>2, <3>3 DEF HopFollows
  <2>5. g[k] \in TraceStates
    <3>1. s[k] \in Sample
      <4>1. k \in 1..Len(s) BY <2>1 DEF n
      <4>. QED BY <4>1, ElementOfSeq
    <3>. QED BY <2>2, <3>1, TraceStepIs
  <2>6. k \in T BY <2>1, <2>4, <2>5
  <2>. QED BY <2>6 DEF k
<1>. HIDE DEF T
<1>9. 0..n \subseteq T BY <1>1, <1>7, <1>8, RangeInduction, 0 \in Nat
<1>10. n \in 0..n BY <1>1
<1>11. Holding(F, H, n, R[n], g[n].segments, g[n].points) BY <1>9, <1>10 DEF T
<1>12. Finished(g[n].segments, g[n].points) = Each(F, R[n], Len(R[n]))
  BY <1>1, <1>3, <1>6, <1>10, <1>11, HoldingAll
<1>. QED BY <1>4, <1>12 DEF n, F

-----------------------------------------------------------------------------
(* The spans of a history are its runs of breathing hops. *)

SpanOf(s) == [r \in Pairs |-> <<s[r[1]].t_ms, s[r[2]].t_ms>>]

SpanBegin == [spans |-> <<>>, open |-> <<>>]
SpanStep(s, k, acc) ==
    LET goes_on == acc.open # <<>> /\ Contiguous(s, k)
        t == s[k].t_ms
    IN [spans |-> IF goes_on /\ s[k].breath THEN acc.spans ELSE Finished(acc.spans, acc.open),
        open |-> CASE ~s[k].breath -> <<>>
                   [] s[k].breath /\ goes_on -> <<acc.open[1], t>>
                   [] OTHER -> <<t, t>>]
SpanStates == [spans : Seq(Seq(Nat)), open : Seq(Nat)]

LEMMA SpanStepIs ==
  ASSUME NEW s, NEW k, s[k] \in Sample, NEW acc \in SpanStates
  PROVE  SpanStep(s, k, acc) \in SpanStates
<1>1. acc.spans \in Seq(Seq(Nat)) /\ acc.open \in Seq(Nat) BY DEF SpanStates
<1>2. Finished(acc.spans, acc.open) \in Seq(Seq(Nat)) BY <1>1, FinishedIs
<1>3. s[k].t_ms \in Nat /\ s[k].breath \in BOOLEAN BY DEF Sample
<1>4. <<>> \in Seq(Nat) /\ <<s[k].t_ms, s[k].t_ms>> \in Seq(Nat) BY <1>3
<1>5. acc.open # <<>> => acc.open[1] \in Nat
  <2>1. acc.open # <<>> => 1 \in 1..Len(acc.open)
    <3>1. Len(acc.open) \in Nat /\ (acc.open = <<>> <=> Len(acc.open) = 0) BY <1>1, EmptySeq, LenProperties
    <3>. QED BY <3>1
  <2>. QED BY <1>1, <2>1, ElementOfSeq
<1>6. acc.open # <<>> => <<acc.open[1], s[k].t_ms>> \in Seq(Nat) BY <1>3, <1>5
<1>7. SpanStep(s, k, acc).spans \in Seq(Seq(Nat)) BY <1>1, <1>2 DEF SpanStep
<1>8. SpanStep(s, k, acc).open \in Seq(Nat) BY <1>3, <1>4, <1>6 DEF SpanStep
<1>9. SpanStep(s, k, acc) = [spans |-> SpanStep(s, k, acc).spans, open |-> SpanStep(s, k, acc).open]
  BY DEF SpanStep
<1>. QED BY <1>7, <1>8, <1>9 DEF SpanStates

LEMMA SpansIs ==
  ASSUME NEW s \in Seq(Sample)
  PROVE  \E g : /\ g[0] = SpanBegin
                /\ \A k \in 1..Len(s) : g[k] = SpanStep(s, k, g[k - 1])
                /\ BreathSpans(s) = Finished(g[Len(s)].spans, g[Len(s)].open)
<1>. DEFINE n == Len(s)
            G == [v \in Nat \X SpanStates |->
                    IF v[1] \in 1..n THEN SpanStep(s, v[1], v[2]) ELSE v[2]]
            Body(h, i) ==
              IF i = 0 THEN [spans |-> <<>>, open |-> <<>>]
              ELSE LET before == h[i - 1]
                       goes_on == before.open # <<>> /\ Contiguous(s, i)
                       t == s[i].t_ms
                   IN [spans |-> IF goes_on /\ s[i].breath THEN before.spans
                                 ELSE Finished(before.spans, before.open),
                       open |-> CASE ~s[i].breath -> <<>>
                                  [] s[i].breath /\ goes_on -> <<before.open[1], t>>
                                  [] OTHER -> <<t, t>>]
            Is(h) == h = [i \in 0..n |-> Body(h, i)]
<1>1. n \in Nat /\ \A k \in 1..n : s[k] \in Sample
  BY LenProperties, ElementOfSeq
<1>. HIDE DEF n
<1>2. G \in [Nat \X SpanStates -> SpanStates]
  <2>1. \A v \in Nat \X SpanStates : v[2] \in SpanStates OBVIOUS
  <2>2. ASSUME NEW v \in Nat \X SpanStates, v[1] \in 1..n PROVE SpanStep(s, v[1], v[2]) \in SpanStates
    BY <1>1, <2>1, <2>2, SpanStepIs
  <2>. QED BY <2>1, <2>2
<1>3. ASSUME NEW k \in 1..n, NEW q \in SpanStates PROVE G[<<k, q>>] = SpanStep(s, k, q)
  <2>1. <<k, q>> \in Nat \X SpanStates /\ <<k, q>>[1] = k /\ <<k, q>>[2] = q BY <1>1
  <2>. QED BY <2>1
<1>. HIDE DEF G
<1>4. SpanBegin \in SpanStates BY DEF SpanBegin, SpanStates
<1>5. PICK f \in [0..n -> SpanStates] : Iterated(f, G, SpanBegin, 0, n)
  <2>1. 0 \in Nat OBVIOUS
  <2>. QED BY <1>1, <1>2, <1>4, <2>1, Iterates
<1>6. ASSUME NEW h PROVE /\ Body(h, 0) = SpanBegin
                         /\ \A k \in 1..n : Body(h, k) = SpanStep(s, k, h[k - 1])
  <2>1. Body(h, 0) = SpanBegin BY DEF SpanBegin
  <2>2. ASSUME NEW k \in 1..n PROVE Body(h, k) = SpanStep(s, k, h[k - 1])
    <3>1. k # 0 BY <1>1
    <3>. QED BY <3>1 DEF SpanStep
  <2>. QED BY <2>1, <2>2
<1>7. Is(f)
  <2>1. \A k \in 0..n : k = 0 \/ k \in 1..n BY <1>1
  <2>2. ASSUME NEW k \in 0..n PROVE f[k] = Body(f, k)
    <3>1. CASE k = 0
      <4>1. f[0] = SpanBegin BY <1>5, <3>1 DEF Iterated
      <4>. QED BY <1>6, <3>1, <4>1
    <3>2. CASE k \in 1..n
      <4>1. k # 0 /\ k - 1 \in 0..n BY <1>1, <3>2
      <4>2. f[k] = G[<<k, f[k - 1]>>] BY <1>5, <4>1 DEF Iterated
      <4>3. f[k - 1] \in SpanStates BY <4>1
      <4>. HIDE DEF Body
      <4>4. f[k] = SpanStep(s, k, f[k - 1])
        <5>1. G[<<k, f[k - 1]>>] = SpanStep(s, k, f[k - 1]) BY ONLY <1>3, <3>2, <4>3
        <5>. QED BY ONLY <4>2, <5>1
      <4>5. Body(f, k) = SpanStep(s, k, f[k - 1]) BY ONLY <1>6, <3>2
      <4>. QED BY ONLY <4>4, <4>5
    <3>. QED BY <2>1, <3>1, <3>2
  <2>. HIDE DEF Body
  <2>. QED BY <2>2
<1>. DEFINE g == CHOOSE h : Is(h)
<1>8. Is(g)
  <2>1. \E h : Is(h) BY <1>7
  <2>. HIDE DEF Is
  <2>. QED BY <2>1
<1>9. BreathSpans(s) = Finished(g[n].spans, g[n].open) BY DEF BreathSpans, n
<1>. HIDE DEF g, Body
<1>10. \A k \in 0..n : g[k] = Body(g, k)
  <2>1. \A k \in 0..n : [i \in 0..n |-> Body(g, i)][k] = Body(g, k) OBVIOUS
  <2>2. g = [i \in 0..n |-> Body(g, i)] BY <1>8
  <2>. HIDE DEF Is
  <2>. QED BY <2>1, <2>2
<1>11. g[0] = SpanBegin /\ \A k \in 1..n : g[k] = SpanStep(s, k, g[k - 1])
  <2>1. 0 \in 0..n /\ \A k \in 1..n : k \in 0..n BY <1>1
  <2>. QED BY <1>6, <1>10, <2>1
<1>. QED BY <1>9, <1>11 DEF n

LEMMA SpansAreSome ==
  ASSUME NEW s \in Seq(Sample)
  PROVE  /\ \A a, b \in Nat : SpanOf(s)[<<a, b>>] = <<s[a].t_ms, s[b].t_ms>>
         /\ SomeOfEach(SpanOf(s), Len(s))
<1>1. ASSUME NEW a \in Nat, NEW b \in Nat PROVE SpanOf(s)[<<a, b>>] = <<s[a].t_ms, s[b].t_ms>>
  <2>1. <<a, b>> \in Pairs /\ <<a, b>>[1] = a /\ <<a, b>>[2] = b BY DEF Pairs
  <2>. QED BY <2>1 DEF SpanOf
<1>2. \A a, b \in 1..Len(s) : a \in Nat /\ b \in Nat BY LenProperties
<1>3. \A t, u : <<t, u>> # <<>> OBVIOUS
<1>4. ASSUME NEW a \in 1..Len(s), NEW b \in 1..Len(s) PROVE SpanOf(s)[<<a, b>>] # <<>>
  <2>1. SpanOf(s)[<<a, b>>] = <<s[a].t_ms, s[b].t_ms>> BY <1>1, <1>2
  <2>. QED BY <1>3, <2>1
<1>5. SomeOfEach(SpanOf(s), Len(s)) BY <1>4 DEF SomeOfEach
<1>. QED BY <1>1, <1>5

LEMMA SpansAreRuns ==
  ASSUME NEW s \in Seq(Sample), NEW R,
         GrowingRuns(s, BreathingHops(s), R), \A k \in 0..Len(s) : RunsUpTo(s, BreathingHops(s), k, R[k])
  PROVE  BreathSpans(s) = Each(SpanOf(s), R[Len(s)], Len(R[Len(s)]))
<1>. DEFINE n == Len(s)
            H == BreathingHops(s)
            F == SpanOf(s)
<1>1. n \in Nat /\ DOMAIN s = 1..n BY LenProperties
<1>2. H \in SUBSET (1..n) /\ \A k \in 1..n : k \in H <=> s[k].breath
  BY <1>1 DEF BreathingHops
<1>3. SomeOfEach(F, n) /\ \A a, b \in Nat : F[<<a, b>>] = <<s[a].t_ms, s[b].t_ms>>
  BY SpansAreSome
<1>4. PICK g : /\ g[0] = SpanBegin
               /\ \A k \in 1..n : g[k] = SpanStep(s, k, g[k - 1])
               /\ BreathSpans(s) = Finished(g[n].spans, g[n].open)
  BY SpansIs
<1>5. R[0] = <<>> /\ \A k \in 1..n : R[k] = Grown(s, H, k, R[k - 1]) BY DEF GrowingRuns
<1>6. \A k \in 0..n : RunsUpTo(s, H, k, R[k]) OBVIOUS
<1>. HIDE DEF n, H, F
<1>. DEFINE T == {k \in 0..n : Holding(F, H, k, R[k], g[k].spans, g[k].open)}
<1>7. 0 <= n => 0 \in T
  <2>1. 0 \notin H /\ 0 \in 0..n BY <1>1, <1>2
  <2>2. g[0].spans = <<>> /\ g[0].open = <<>> BY <1>4 DEF SpanBegin
  <2>3. Each(F, <<>>, Len(<<>>)) = <<>>
    <3>1. Len(<<>>) = 0 /\ \A x : ~(x \in 1..0) OBVIOUS
    <3>. QED BY <3>1 DEF Each
  <2>. QED BY <1>5, <2>1, <2>2, <2>3 DEF Holding
<1>8. ASSUME NEW j \in 0..n, j < n, j \in T PROVE j + 1 \in T
  <2>. DEFINE k == j + 1
              acc == g[j]
              goes_on == acc.open # <<>> /\ Contiguous(s, k)
              t == s[k].t_ms
  <2>1. k \in 1..n /\ k - 1 = j /\ k \in 0..n /\ j \in 0..n /\ k \in Nat BY <1>1, <1>8
  <2>. HIDE DEF k
  <2>2. /\ RunsUpTo(s, H, k - 1, R[j]) /\ Holding(F, H, k - 1, R[j], acc.spans, acc.open)
        /\ R[k] = Grown(s, H, k, R[j]) /\ g[k] = SpanStep(s, k, acc)
    BY <1>4, <1>5, <1>6, <1>8, <2>1
  <2>3. /\ g[k].spans = IF goes_on /\ s[k].breath THEN acc.spans ELSE Finished(acc.spans, acc.open)
        /\ g[k].open = CASE ~s[k].breath -> <<>>
                         [] s[k].breath /\ goes_on -> <<acc.open[1], t>>
                         [] OTHER -> <<t, t>>
    BY <2>2 DEF SpanStep
  <2>. HIDE DEF acc
  <2>4. /\ k \notin H => Holding(F, H, k, R[k], Finished(acc.spans, acc.open), <<>>)
        /\ HopFollows(s, H, k) =>
             \E a \in 1..k - 1 : /\ acc.open = F[<<a, k - 1>>]
                                 /\ Holding(F, H, k, R[k], acc.spans, F[<<a, k>>])
        /\ k \in H /\ ~HopFollows(s, H, k) =>
             Holding(F, H, k, R[k], Finished(acc.spans, acc.open), F[<<k, k>>])
    <3>. DEFINE new == Grown(s, H, k, R[j])
    <3>1. /\ k \notin H => Holding(F, H, k, new, Finished(acc.spans, acc.open), <<>>)
          /\ HopFollows(s, H, k) =>
               \E a \in 1..k - 1 : /\ acc.open = F[<<a, k - 1>>]
                                   /\ Holding(F, H, k, new, acc.spans, F[<<a, k>>])
          /\ k \in H /\ ~HopFollows(s, H, k) =>
               Holding(F, H, k, new, Finished(acc.spans, acc.open), F[<<k, k>>])
      BY <1>1, <1>2, <1>3, <2>1, <2>2, HoldingSteps
    <3>2. R[k] = new BY <2>2
    <3>. HIDE DEF new
    <3>. QED BY <3>1, <3>2
  <2>5. acc.open # <<>> <=> k - 1 \in H
    <3>1. k - 1 \in H => acc.open # <<>>
      <4>1. k - 1 \in 0..n BY <2>1
      <4>. QED BY <1>1, <1>3, <2>2, <4>1, HoldingAll
    <3>2. k - 1 \notin H => acc.open = <<>> BY <2>2 DEF Holding
    <3>. QED BY <3>1, <3>2
  <2>6. goes_on /\ k \in H <=> HopFollows(s, H, k)
    <3>1. k - 1 \in H => k > 1 BY <1>2, <2>1
    <3>. QED BY <2>5, <3>1 DEF HopFollows, Contiguous
  <2>7. k \in H <=> s[k].breath BY <1>2, <2>1
  <2>. HIDE DEF goes_on
  <2>8. Holding(F, H, k, R[k], g[k].spans, g[k].open)
    <3>1. CASE k \notin H
      <4>1. g[k].spans = Finished(acc.spans, acc.open) /\ g[k].open = <<>> BY <2>3, <2>7, <3>1
      <4>. QED BY <2>4, <3>1, <4>1
    <3>2. CASE HopFollows(s, H, k)
      <4>1. PICK a \in 1..k - 1 : /\ acc.open = F[<<a, k - 1>>]
                                  /\ Holding(F, H, k, R[k], acc.spans, F[<<a, k>>])
        BY <2>4, <3>2
      <4>2. F[<<a, k - 1>>] = <<s[a].t_ms, s[k - 1].t_ms>> /\ F[<<a, k>>] = <<s[a].t_ms, s[k].t_ms>>
        <5>1. a \in Nat /\ k - 1 \in Nat BY <2>1, <4>1
        <5>. QED BY <1>3, <2>1, <5>1
      <4>3. <<acc.open[1], t>> = F[<<a, k>>] BY <4>1, <4>2
      <4>4. g[k].spans = acc.spans /\ g[k].open = <<acc.open[1], t>> BY <2>3, <2>6, <2>7, <3>2
      <4>. QED BY <4>1, <4>3, <4>4
    <3>3. CASE k \in H /\ ~HopFollows(s, H, k)
      <4>1. F[<<k, k>>] = <<t, t>> BY <1>3, <2>1
      <4>2. g[k].spans = Finished(acc.spans, acc.open) /\ g[k].open = <<t, t>> BY <2>3, <2>6, <2>7, <3>3
      <4>. QED BY <2>4, <3>3, <4>1, <4>2
    <3>. QED BY <3>1, <3>2, <3>3 DEF HopFollows
  <2>9. k \in T BY <2>1, <2>8
  <2>. QED BY <2>9 DEF k
<1>. HIDE DEF T
<1>9. 0..n \subseteq T BY <1>1, <1>7, <1>8, RangeInduction, 0 \in Nat
<1>10. n \in 0..n BY <1>1
<1>11. Holding(F, H, n, R[n], g[n].spans, g[n].open) BY <1>9, <1>10 DEF T
<1>12. Finished(g[n].spans, g[n].open) = Each(F, R[n], Len(R[n]))
  BY <1>1, <1>3, <1>6, <1>10, <1>11, HoldingAll
<1>. QED BY <1>4, <1>12 DEF n, F

-----------------------------------------------------------------------------
(* The scene of a history. *)

\* The window is one that the projector moves, and it has what is voiced.
WindowHolds ==
    /\ pitch_window = Nothing \/ (pitch_window \in Window /\ pitch_window.min <= pitch_window.max)
    /\ pitch_window = Nothing => VoicedIn(history) = {}
    /\ pitch_window # Nothing => \A p \in VoicedIn(history) : InWindow(p, pitch_window)

Point == [age : Int, y : Int, vibrato_t : Nat]
PointOf(p) == [age |-> max_seen - p.t_ms, y |-> p.pitch - pitch_window.min,
               vibrato_t |-> Larger(0, p.t_ms - vibrato_latency)]
LineFrom(a, b) == [i \in 1..b - a + 1 |-> PointOf(history[a + i - 1])]

LEMMA HistoryHas ==
  ASSUME HistoryInv, NEW k \in 1..Len(history)
  PROVE  /\ max_seen \in Nat /\ max_seen # Nothing
         /\ history[k] \in Sample /\ history[k].t_ms \in Nat /\ Visible(history[k].t_ms, max_seen)
         /\ Cutoff(max_seen) \in Nat
<1>1. history \in Seq(Sample) /\ DOMAIN history = 1..Len(history) BY LenProperties DEF HistoryInv
<1>2. history[k] \in Sample BY <1>1, ElementOfSeq
<1>3. history[k].t_ms \in Nat BY <1>2 DEF Sample
<1>4. max_seen # Nothing
  <2>1. Len(<<>>) = 0 OBVIOUS
  <2>. QED BY <2>1 DEF HistoryInv
<1>5. max_seen \in Nat /\ history[k].t_ms \in Cutoff(max_seen)..max_seen
  BY <1>1, <1>4 DEF HistoryInv, Within
<1>6. Cutoff(max_seen) \in Nat
  <2>1. history_window \in Nat BY GraphAssumption
  <2>. QED BY <1>5, <2>1 DEF Cutoff, Larger
<1>. QED BY <1>2, <1>3, <1>4, <1>5, <1>6 DEF Visible

LEMMA PointIs ==
  ASSUME HistoryInv, WindowHolds, NEW k \in 1..Len(history), IsHeard(history[k])
  PROVE  /\ InWindow(history[k].pitch, pitch_window)
         /\ PointOf(history[k]) \in Point
         /\ PointOf(history[k]).age = Age(k)
         /\ PointOf(history[k]).y \in 0..pitch_window.max - pitch_window.min
<1>1. /\ max_seen \in Nat /\ history[k] \in Sample /\ history[k].t_ms \in Nat
  BY HistoryHas
<1>2. history[k].pitch \in VoicedIn(history) /\ history[k].pitch \in Int
  <2>1. DOMAIN history = 1..Len(history)
    <3>1. history \in Seq(Sample) BY DEF HistoryInv
    <3>. QED BY <3>1, LenProperties
  <2>2. history[k].pitch # Nothing /\ history[k].pitch \in Int \union {Nothing}
    BY <1>1 DEF IsHeard, Sample
  <2>. QED BY <2>1, <2>2 DEF VoicedIn
<1>3. pitch_window # Nothing BY <1>2 DEF WindowHolds
<1>4. /\ pitch_window.min \in Int /\ pitch_window.max \in Int
      /\ InWindow(history[k].pitch, pitch_window)
  BY <1>2, <1>3 DEF WindowHolds, Window
<1>5. vibrato_latency \in Nat BY GraphAssumption
<1>6. /\ PointOf(history[k]).age = max_seen - history[k].t_ms
      /\ PointOf(history[k]).y = history[k].pitch - pitch_window.min
  BY DEF PointOf
<1>7. Larger(0, history[k].t_ms - vibrato_latency) \in Nat BY <1>1, <1>5 DEF Larger
<1>8. PointOf(history[k]) \in Point BY <1>1, <1>2, <1>4, <1>7 DEF PointOf, Point
<1>. QED BY <1>2, <1>4, <1>6, <1>8 DEF Age, InWindow

\* Every hop of a line is there.
LEMMA LineIsWhole ==
  ASSUME HistoryInv, WindowHolds, NEW a \in 1..Len(history), NEW b \in 1..Len(history), a <= b,
         \A k \in a..b : IsHeard(history[k])
  PROVE  /\ Survivors(SubSeq(history, a, b), max_seen, pitch_window) = LineFrom(a, b)
         /\ LineFrom(a, b) \in Seq(Point) /\ Len(LineFrom(a, b)) = b - a + 1
         /\ LineFrom(a, b) # <<>>
<1>. DEFINE q == SubSeq(history, a, b)
            n == b - a + 1
            S == {p \in Range(q) : Visible(p.t_ms, max_seen) /\ InWindow(p.pitch, pitch_window)}
<1>1. history \in Seq(Sample) /\ Len(history) \in Nat BY LenProperties DEF HistoryInv
<1>2. n \in Nat \ {0} /\ a \in Int /\ b \in Int BY <1>1
<1>3. q \in Seq(Sample) /\ Len(q) = n /\ \A i \in 1..n : q[i] = history[a + i - 1]
  BY <1>1, LinesAreSome
<1>4. \A i \in 1..n : a + i - 1 \in 1..Len(history) /\ a + i - 1 \in a..b BY <1>1, <1>2
<1>. HIDE DEF q, n
<1>5. DOMAIN q = 1..n BY <1>3, LenProperties
<1>. HIDE DEF S
<1>6. \A i \in 1..n : q[i] \in S
  <2>. SUFFICES ASSUME NEW i \in 1..n PROVE q[i] \in S OBVIOUS
  <2>1. q[i] = history[a + i - 1] /\ a + i - 1 \in 1..Len(history) /\ IsHeard(history[a + i - 1])
    BY <1>3, <1>4
  <2>2. Visible(q[i].t_ms, max_seen) /\ InWindow(q[i].pitch, pitch_window)
    BY <2>1, HistoryHas, PointIs
  <2>3. q[i] \in Range(q) BY <1>5 DEF Range
  <2>. QED BY <2>2, <2>3 DEF S
<1>7. Among(q, S) = q BY <1>3, <1>6, AmongAll
<1>8. Survivors(q, max_seen, pitch_window) = [i \in DOMAIN q |-> PointOf(q[i])]
  BY <1>7 DEF Survivors, S, PointOf
<1>9. [i \in DOMAIN q |-> PointOf(q[i])] = [i \in 1..n |-> PointOf(history[a + i - 1])]
  BY <1>3, <1>5
<1>10. LineFrom(a, b) \in [1..n -> Point]
  <2>1. \A i \in 1..n : PointOf(history[a + i - 1]) \in Point BY <1>4, PointIs
  <2>2. LineFrom(a, b) = [i \in 1..n |-> PointOf(history[a + i - 1])] BY DEF LineFrom, n
  <2>. QED BY <2>1, <2>2
<1>11. LineFrom(a, b) \in Seq(Point) /\ Len(LineFrom(a, b)) = n
  <2>. DEFINE l == LineFrom(a, b)
  <2>1. l \in [1..n -> Point] BY <1>10
  <2>. HIDE DEF l
  <2>2. l \in Seq(Point) /\ Len(l) = n BY <1>2, <2>1
  <2>. QED BY <2>2 DEF l
<1>12. LineFrom(a, b) # <<>>
  <2>1. Len(<<>>) = 0 OBVIOUS
  <2>. QED BY <1>2, <1>11, <2>1
<1>. QED BY <1>8, <1>9, <1>11, <1>12 DEF LineFrom, q, n

\* The hops of a run are heard.
LEMMA RunsAreOf ==
  ASSUME NEW s, NEW n \in Nat, NEW H \in SUBSET (1..n), NEW runs, RunsUpTo(s, H, n, runs),
         NEW x \in 1..Len(runs)
  PROVE  /\ Len(runs) \in Nat /\ runs[x] = <<runs[x][1], runs[x][2]>>
         /\ runs[x][1] \in 1..n /\ runs[x][2] \in 1..n /\ runs[x][1] <= runs[x][2]
         /\ \A k \in runs[x][1]..runs[x][2] : k \in H
<1>1. runs \in Seq(Pairs) /\ AreRuns(s, H, n, runs) BY DEF RunsUpTo
<1>2. /\ Len(runs) \in Nat /\ runs[x][1] \in Nat /\ runs[x][2] \in Nat
      /\ runs[x] = <<runs[x][1], runs[x][2]>>
  BY <1>1, PairsIn
<1>. DEFINE a == runs[x][1]
            b == runs[x][2]
<1>3. IsRun(s, H, n, a, b) BY <1>1 DEF AreRuns
<1>. HIDE DEF a, b
<1>4. a \in 1..n /\ b \in 1..n /\ a <= b /\ a \in Nat /\ b \in Nat BY <1>2, <1>3 DEF IsRun, a, b
<1>5. ASSUME NEW k \in a..b PROVE k \in H
  <2>1. k = a \/ k \in a + 1..b BY <1>4
  <2>. QED BY <1>3, <2>1 DEF IsRun, HopFollows
<1>. QED BY <1>2, <1>4, <1>5 DEF a, b

SceneIs ==
    /\ live_scene = ProjectLive(history, max_seen, pitch_window)
    /\ grid_scene = IF pitch_window = Nothing THEN {} ELSE GrooveLines(pitch_window)

\* The lines of a scene are those of the runs of its history.
LinesFrom(runs) == [x \in 1..Len(runs) |-> LineFrom(runs[x][1], runs[x][2])]

LEMMA LinesAreOfRuns ==
  ASSUME HistoryInv, WindowHolds, SceneIs
  PROVE  \E runs : /\ RunsUpTo(history, VoicedHops(history), Len(history), runs)
                   /\ live_scene.segments = LinesFrom(runs)
<1>. DEFINE n == Len(history)
            H == VoicedHops(history)
<1>1. history \in Seq(Sample) /\ n \in Nat /\ DOMAIN history = 1..n BY LenProperties DEF HistoryInv
<1>2. H \in SUBSET (1..n) /\ \A k \in H : IsHeard(history[k]) BY <1>1 DEF VoicedHops
<1>3. CASE max_seen = Nothing \/ pitch_window = Nothing
  <2>1. H = {}
    <3>1. CASE max_seen = Nothing
      <4>1. history = <<>> BY <3>1 DEF HistoryInv
      <4>2. DOMAIN <<>> = {} OBVIOUS
      <4>. QED BY <4>1, <4>2 DEF VoicedHops
    <3>2. CASE pitch_window = Nothing BY <3>2 DEF WindowHolds, VoicedIn, VoicedHops
    <3>. QED BY <1>3, <3>1, <3>2
  <2>2. RunsUpTo(history, H, n, <<>>)
    <3>1. <<>> \in Seq(Pairs) /\ \A x \in 1..Len(<<>>) : FALSE OBVIOUS
    <3>. HIDE DEF H
    <3>. QED BY <2>1, <3>1 DEF RunsUpTo, AreRuns, InTurn, CoverAll
  <2>3. live_scene.segments = <<>>
    <3>1. \A S : Among(<<>>, S) = <<>> BY EmptyAmong
    <3>2. CASE max_seen = Nothing BY <3>2 DEF SceneIs, ProjectLive, NoLive
    <3>3. CASE max_seen # Nothing BY <1>3, <3>1, <3>3 DEF SceneIs, ProjectLive
    <3>. QED BY <3>2, <3>3
  <2>4. LinesFrom(<<>>) = <<>>
    <3>1. Len(<<>>) = 0 /\ 1..0 = {} OBVIOUS
    <3>. QED BY <3>1 DEF LinesFrom
  <2>. QED BY <2>2, <2>3, <2>4
<1>4. CASE max_seen # Nothing /\ pitch_window # Nothing
  <2>1. PICK runs : /\ RunsUpTo(history, H, n, runs)
                    /\ TraceSegments(history) = Each(LineOf(history), runs, Len(runs))
    <3>1. PICK R \in [0..n -> Seq(Pairs)] :
            GrowingRuns(history, H, R) /\ \A k \in 0..n : RunsUpTo(history, H, k, R[k])
      BY <1>1, <1>2, RunsExist
    <3>2. RunsUpTo(history, H, n, R[n]) BY <1>1, <3>1
    <3>3. TraceSegments(history) = Each(LineOf(history), R[n], Len(R[n]))
      BY <1>1, <3>1, SegmentsAreRuns
    <3>. QED BY <3>2, <3>3
  <2>. DEFINE m == Len(runs)
              segments == TraceSegments(history)
              all == [x \in DOMAIN segments |-> Survivors(segments[x], max_seen, pitch_window)]
              some == Among(all, {points \in Range(all) : points # <<>>})
  <2>2. RunsUpTo(history, H, n, runs) BY <2>1
  <2>3. segments = Each(LineOf(history), runs, m) BY <2>1
  <2>4. live_scene.segments = some BY <1>4 DEF SceneIs, ProjectLive
  <2>. HIDE DEF m, segments, some
  <2>5. m \in Nat BY <2>2, PairsIn DEF RunsUpTo, m
  <2>6. ASSUME NEW x \in 1..m
        PROVE  /\ segments[x] = SubSeq(history, runs[x][1], runs[x][2])
               /\ Survivors(segments[x], max_seen, pitch_window) = LineFrom(runs[x][1], runs[x][2])
               /\ LineFrom(runs[x][1], runs[x][2]) \in Seq(Point)
               /\ LineFrom(runs[x][1], runs[x][2]) # <<>>
    <3>. DEFINE a == runs[x][1]
                b == runs[x][2]
    <3>1. a \in 1..n /\ b \in 1..n /\ a <= b /\ \A k \in a..b : k \in H
      BY <1>1, <1>2, <2>2, RunsAreOf DEF m
    <3>6. runs[x] = <<a, b>> BY <2>2, PairsIn DEF RunsUpTo, m
    <3>. HIDE DEF a, b
    <3>2. segments[x] = LineOf(history)[<<a, b>>] BY <2>3, <3>6 DEF Each
    <3>3. segments[x] = SubSeq(history, a, b)
      <4>1. a \in Nat /\ b \in Nat BY <3>1
      <4>. QED BY <1>1, <3>2, <4>1, LinesAreSome
    <3>4. \A k \in a..b : IsHeard(history[k]) BY <1>2, <3>1
    <3>5. /\ Survivors(SubSeq(history, a, b), max_seen, pitch_window) = LineFrom(a, b)
          /\ LineFrom(a, b) \in Seq(Point) /\ LineFrom(a, b) # <<>>
      BY <3>1, <3>4, LineIsWhole
    <3>. QED BY <3>3, <3>5 DEF a, b
  <2>7. DOMAIN segments = 1..m BY <2>3 DEF Each
  <2>8. all = LinesFrom(runs) BY <2>6, <2>7 DEF LinesFrom, m
  <2>9. all \in Seq(Seq(Point)) /\ Len(all) = m /\ DOMAIN all = 1..m
        /\ \A x \in 1..m : all[x] # <<>>
    <3>1. all \in [1..m -> Seq(Point)] /\ \A x \in 1..m : all[x] # <<>> BY <2>6, <2>7
    <3>. HIDE DEF all
    <3>2. all \in Seq(Seq(Point)) /\ Len(all) = m BY <2>5, <3>1
    <3>. QED BY <3>1, <3>2
  <2>. HIDE DEF all
  <2>10. some = all
    <3>. DEFINE S == {points \in Range(all) : points # <<>>}
    <3>1. \A x \in 1..m : all[x] \in S BY <2>9 DEF Range
    <3>. HIDE DEF S
    <3>2. Among(all, S) = all BY <2>9, <3>1, AmongAll
    <3>. QED BY <3>2 DEF some, S
  <2>11. live_scene.segments = LinesFrom(runs) BY <2>4, <2>8, <2>10
  <2>. QED BY <2>2, <2>11
<1>. QED BY <1>3, <1>4

LEMMA SceneHasLines ==
  ASSUME HistoryInv, WindowHolds, SceneIs
  PROVE  LinesAreTheRuns
<1>. DEFINE n == Len(history)
            H == VoicedHops(history)
            lines == live_scene.segments
            M == MaximalRuns(history, H)
<1>1. history \in Seq(Sample) /\ n \in Nat /\ DOMAIN history = 1..n BY LenProperties DEF HistoryInv
<1>2. H \in SUBSET (1..n) /\ \A k \in H : IsHeard(history[k]) BY <1>1 DEF VoicedHops
<1>3. PICK runs : RunsUpTo(history, H, n, runs) /\ lines = LinesFrom(runs) BY LinesAreOfRuns
<1>. DEFINE m == Len(runs)
<1>4. M = {runs[x] : x \in 1..m} /\ Cardinality(M) = m
  BY <1>1, <1>2, <1>3, IndicesTellTheHops, RunsAreMaximal
<1>5. m \in Nat BY <1>3, PairsIn DEF RunsUpTo
<1>6. ASSUME NEW x \in 1..m
      PROVE  /\ lines[x] = LineFrom(runs[x][1], runs[x][2])
             /\ Len(lines[x]) = runs[x][2] - runs[x][1] + 1
             /\ DOMAIN lines[x] = 1..runs[x][2] - runs[x][1] + 1
             /\ \A i \in DOMAIN lines[x] :
                  /\ lines[x][i].age = Age(runs[x][1] + i - 1)
                  /\ lines[x][i].y \in 0..pitch_window.max - pitch_window.min
             /\ 1 \in DOMAIN lines[x]
  <2>. DEFINE a == runs[x][1]
              b == runs[x][2]
  <2>1. /\ a \in 1..n /\ b \in 1..n /\ a <= b /\ \A k \in a..b : k \in H
    BY <1>1, <1>2, <1>3, RunsAreOf
  <2>2. lines[x] = LineFrom(a, b) BY <1>3 DEF LinesFrom
  <2>. HIDE DEF a, b, n, H, lines, m
  <2>3. /\ LineFrom(a, b) \in Seq(Point) /\ Len(LineFrom(a, b)) = b - a + 1
    BY <1>2, <2>1, LineIsWhole DEF n
  <2>4. DOMAIN LineFrom(a, b) = 1..b - a + 1 BY <2>3, LenProperties
  <2>5. ASSUME NEW i \in 1..b - a + 1
        PROVE  /\ lines[x][i].age = Age(a + i - 1)
               /\ lines[x][i].y \in 0..pitch_window.max - pitch_window.min
    <3>1. lines[x][i] = PointOf(history[a + i - 1]) BY <2>2 DEF LineFrom
    <3>2. a + i - 1 \in a..b /\ a + i - 1 \in 1..n BY <1>1, <2>1, <2>5
    <3>3. IsHeard(history[a + i - 1]) BY <1>2, <2>1, <3>2
    <3>. QED BY <3>1, <3>2, <3>3, PointIs DEF n
  <2>6. 1 \in 1..b - a + 1 BY <1>1, <2>1
  <2>. QED BY <2>2, <2>3, <2>4, <2>5, <2>6 DEF a, b
<1>7. Len(lines) = m /\ DOMAIN lines = 1..m
  <2>1. lines \in [1..m -> {lines[x] : x \in 1..m}] BY <1>3 DEF LinesFrom
  <2>. HIDE DEF lines, m
  <2>2. lines \in Seq({lines[x] : x \in 1..m}) /\ Len(lines) = m BY <1>5, <2>1
  <2>. QED BY <2>1, <2>2
<1>. DEFINE run == [x \in 1..m |-> runs[x]]
<1>8. run \in [1..m -> M] /\ \A x \in 1..m : run[x] = runs[x]
  <2>. HIDE DEF M, lines, m
  <2>. QED BY <1>4
<1>9. \A x \in 2..m : x - 1 \in 1..m /\ x \in 1..m /\ runs[x - 1][2] < runs[x][1]
  BY <1>3, <1>5 DEF RunsUpTo, InTurn
<1>. HIDE DEF M, lines, m, run
<1>10. Len(lines) = Cardinality(M) BY <1>4, <1>7
<1>11. \A x \in 1..m : /\ Len(lines[x]) = run[x][2] - run[x][1] + 1
                       /\ \A i \in DOMAIN lines[x] :
                            /\ lines[x][i].age = Age(run[x][1] + i - 1)
                            /\ lines[x][i].y \in 0..pitch_window.max - pitch_window.min
  BY <1>6, <1>8
<1>12. \A x \in 2..m : run[x - 1][2] < run[x][1] BY <1>8, <1>9
<1>. QED BY <1>7, <1>8, <1>10, <1>11, <1>12 DEF LinesAreTheRuns, M, lines

-----------------------------------------------------------------------------
(* The bands of a scene. *)

Aging(points) == \A i, j \in 1..Len(points) : i < j => points[i].age >= points[j].age

\* An end is the right one for an age: that of a pair around it, or of a point as old, or
\* the first or last of all.
EndsFit(points, age, lo, hi) ==
    IF lo < hi
    THEN points[lo].age >= age /\ age > points[hi].age
    ELSE \/ age = points[lo].age
         \/ lo = 1 /\ age > points[lo].age
         \/ lo = Len(points) /\ age < points[lo].age

\* As many points are as old as the age as come before the pair around it.
LEMMA StraddlingFits ==
  ASSUME NEW points \in Seq(Point), points # <<>>, Aging(points), NEW age \in Int
  PROVE  EndsFit(points, age, Straddling(points, age)[1], Straddling(points, age)[2])
<1>. DEFINE n == Len(points)
            Old == {i \in 1..n : points[i].age >= age}
            lo == Cardinality(Old)
<1>1. n \in Nat \ {0} /\ \A i \in 1..n : points[i].age \in Int
  <2>1. n \in Nat /\ \A i \in 1..n : points[i] \in Point BY LenProperties, ElementOfSeq
  <2>2. n # 0 BY EmptySeq
  <2>. QED BY <2>1, <2>2 DEF Point
<1>2. Straddling(points, age) =
        CASE n = 1 \/ age >= points[1].age -> <<1, 1>>
          [] n > 1 /\ age < points[1].age /\ age <= points[n].age -> <<n, n>>
          [] OTHER -> <<lo, lo + 1>>
  BY DEF Straddling
<1>3. 1 \in 1..n /\ n \in 1..n BY <1>1
<1>. HIDE DEF lo
<1>4. CASE n = 1 \/ age >= points[1].age
  <2>1. Straddling(points, age) = <<1, 1>>
    <3>1. ~(n > 1 /\ age < points[1].age)
      <4>1. points[1].age \in Int /\ n \in Nat BY <1>1, <1>3
      <4>. HIDE DEF n
      <4>. QED BY <1>4, <4>1
    <3>. QED BY <1>2, <1>4, <3>1
  <2>2. Straddling(points, age)[1] = 1 /\ Straddling(points, age)[2] = 1 BY <2>1
  <2>3. points[1].age \in Int BY <1>1, <1>3
  <2>. QED BY <1>4, <2>2, <2>3 DEF EndsFit
<1>5. CASE ~(n = 1 \/ age >= points[1].age) /\ age <= points[n].age
  <2>1. Straddling(points, age) = <<n, n>>
    <3>1. n > 1 /\ age < points[1].age
      <4>1. points[1].age \in Int /\ n \in Nat \ {0} BY <1>1, <1>3
      <4>. HIDE DEF n
      <4>. QED BY <1>5, <4>1
    <3>. QED BY <1>2, <1>5, <3>1
  <2>2. Straddling(points, age)[1] = n /\ Straddling(points, age)[2] = n BY <2>1
  <2>3. points[n].age \in Int BY <1>1, <1>3
  <2>. QED BY <1>1, <1>5, <2>2, <2>3 DEF EndsFit
<1>6. CASE ~(n = 1 \/ age >= points[1].age) /\ ~(age <= points[n].age)
  <2>1. Straddling(points, age) = <<lo, lo + 1>> BY <1>2, <1>6
  <2>. DEFINE Young == {i \in 1..n : points[i].age < age}
  <2>2. n \in Young /\ 1 \notin Young BY <1>1, <1>3, <1>6
  <2>3. PICK y \in Young : \A j \in Young : y <= j
    <3>1. Young \in SUBSET Nat BY <1>1
    <3>. HIDE DEF Young
    <3>. QED BY <2>2, <3>1, LeastNat
  <2>4. y \in 1..n /\ y # 1 /\ y - 1 \in 1..n /\ y - 1 \in Nat BY <1>1, <2>2, <2>3
  <2>5. Old = 1..y - 1
    <3>1. ASSUME NEW i \in 1..n, i <= y - 1 PROVE points[i].age >= age
      <4>1. i \notin Young BY <2>3, <2>4, <3>1
      <4>. QED BY <1>1, <4>1
    <3>2. ASSUME NEW i \in 1..n, ~(i <= y - 1) PROVE ~(points[i].age >= age)
      <4>1. i = y \/ y < i BY <2>4, <3>2
      <4>2. y < i => points[y].age >= points[i].age BY <2>4 DEF Aging
      <4>3. points[y].age < age BY <2>3
      <4>. QED BY <1>1, <2>4, <4>1, <4>2, <4>3
    <3>. QED BY <2>4, <3>1, <3>2
  <2>6. lo = y - 1
    <3>1. Cardinality(1..y - 1) = IF 1 > y - 1 THEN 0 ELSE (y - 1) - 1 + 1
      <4>1. 1 \in Int /\ y - 1 \in Int BY <2>4
      <4>. QED BY <4>1, FS_Interval
    <3>2. lo = Cardinality(1..y - 1) BY <2>5 DEF lo
    <3>3. ~(1 > y - 1) /\ (y - 1) - 1 + 1 = y - 1 BY <2>4
    <3>. QED BY <3>1, <3>2, <3>3
  <2>7. Straddling(points, age)[1] = y - 1 /\ Straddling(points, age)[2] = y
    <3>1. lo + 1 = y BY <2>4, <2>6
    <3>. QED BY <2>1, <2>6, <3>1
  <2>8. points[y - 1].age >= age /\ age > points[y].age
    <3>1. y - 1 \in Old /\ y \in Young BY <2>3, <2>4, <2>5
    <3>. QED BY <1>1, <2>4, <3>1
  <2>. QED BY <2>4, <2>7, <2>8 DEF EndsFit
<1>. QED BY <1>4, <1>5, <1>6

\* A line's points, the oldest first.
LEMMA LinesAge ==
  ASSUME HistoryInv, WindowHolds, NEW a \in 1..Len(history), NEW b \in 1..Len(history), a <= b,
         \A k \in a..b : IsHeard(history[k])
  PROVE  Aging(LineFrom(a, b))
<1>1. history \in Seq(Sample) /\ Len(history) \in Nat /\ DOMAIN history = 1..Len(history)
      /\ Climbing(history)
  BY LenProperties DEF HistoryInv
<1>2. Len(LineFrom(a, b)) = b - a + 1 BY LineIsWhole
<1>3. ASSUME NEW i \in 1..b - a + 1
      PROVE  /\ LineFrom(a, b)[i].age = Age(a + i - 1)
             /\ a + i - 1 \in 1..Len(history)
  <2>1. LineFrom(a, b)[i] = PointOf(history[a + i - 1]) BY DEF LineFrom
  <2>2. a + i - 1 \in a..b /\ a + i - 1 \in 1..Len(history) BY <1>1
  <2>. QED BY <2>1, <2>2, PointIs
<1>. SUFFICES ASSUME NEW i \in 1..b - a + 1, NEW j \in 1..b - a + 1, i < j
              PROVE  LineFrom(a, b)[i].age >= LineFrom(a, b)[j].age
  BY <1>2 DEF Aging
<1>. DEFINE k == a + i - 1
            l == a + j - 1
<1>4. k \in 1..Len(history) /\ l \in 1..Len(history) /\ k < l BY <1>1, <1>3
<1>5. LineFrom(a, b)[i].age = Age(k) /\ LineFrom(a, b)[j].age = Age(l) BY <1>3
<1>. HIDE DEF k, l
<1>6. history[k].t_ms <= history[l].t_ms BY <1>1, <1>4 DEF Climbing
<1>7. max_seen \in Nat /\ history[k].t_ms \in Nat /\ history[l].t_ms \in Nat BY <1>4, HistoryHas
<1>8. Age(k) >= Age(l) BY <1>6, <1>7 DEF Age
<1>. QED BY <1>5, <1>8

LEMMA BandFits ==
  ASSUME NEW points \in Seq(Point), points # <<>>, Aging(points), NEW newest \in Nat,
         NEW i \in DOMAIN BandOf(points, newest)
  PROVE  LET at_point == BandOf(points, newest)[i]
         IN EndsFit(points, at_point.age, at_point.ends[1], at_point.ends[2])
<1>. DEFINE band == BandOf(points, newest)
            t == points[i].vibrato_t
            shown_at == Visible(t, newest)
            age == newest - t
            ends == IF shown_at THEN Straddling(points, age) ELSE <<i, i>>
<1>1. i \in 1..Len(points) /\ Len(points) \in Nat /\ points[i] \in Point /\ DOMAIN points = 1..Len(points)
  <2>1. DOMAIN band = DOMAIN points BY DEF BandOf
  <2>2. DOMAIN points = 1..Len(points) /\ Len(points) \in Nat BY LenProperties
  <2>. QED BY <2>1, <2>2, ElementOfSeq
<1>2. t \in Nat /\ points[i].age \in Int BY <1>1 DEF Point
<1>3. band[i].age = (IF shown_at THEN age ELSE points[i].age) /\ band[i].ends = ends
  <2>. DEFINE made(k) ==
               LET shown == Visible(points[k].vibrato_t, newest)
                   aged == newest - points[k].vibrato_t
                   around == IF shown THEN Straddling(points, aged) ELSE <<k, k>>
               IN [age |-> IF shown THEN aged ELSE points[k].age, ends |-> around,
                   centres |-> <<SmoothCentre(points, around[1]), SmoothCentre(points, around[2])>>]
  <2>1. band = [k \in DOMAIN points |-> made(k)] BY DEF BandOf
  <2>2. made(i).age = (IF shown_at THEN age ELSE points[i].age) /\ made(i).ends = ends OBVIOUS
  <2>. HIDE DEF made, band, ends, age, shown_at
  <2>3. band[i] = made(i) BY <1>1, <2>1
  <2>. QED BY <2>2, <2>3
<1>4. CASE shown_at
  <2>1. age \in Int BY <1>2
  <2>2. EndsFit(points, age, Straddling(points, age)[1], Straddling(points, age)[2])
    <3>. HIDE DEF age
    <3>. QED BY <2>1, StraddlingFits
  <2>3. band[i].age = age /\ band[i].ends = Straddling(points, age) BY <1>3, <1>4
  <2>. HIDE DEF band, age
  <2>4. EndsFit(points, band[i].age, band[i].ends[1], band[i].ends[2]) BY <2>2, <2>3
  <2>. QED BY <2>4 DEF band
<1>5. CASE ~shown_at
  <2>1. band[i].age = points[i].age /\ band[i].ends = <<i, i>> BY <1>3, <1>5
  <2>. HIDE DEF band
  <2>2. band[i].ends[1] = i /\ band[i].ends[2] = i BY <2>1
  <2>3. EndsFit(points, band[i].age, band[i].ends[1], band[i].ends[2]) BY <1>1, <2>1, <2>2 DEF EndsFit
  <2>. QED BY <2>3 DEF band
<1>. QED BY <1>4, <1>5

LEMMA SceneHasBands ==
  ASSUME HistoryInv, WindowHolds, SceneIs
  PROVE  BandsAreCentred
<1>. DEFINE n == Len(history)
            H == VoicedHops(history)
            lines == live_scene.segments
            bands == live_scene.bands
<1>1. history \in Seq(Sample) /\ n \in Nat /\ DOMAIN history = 1..n BY LenProperties DEF HistoryInv
<1>2. H \in SUBSET (1..n) /\ \A k \in H : IsHeard(history[k]) BY <1>1 DEF VoicedHops
<1>3. PICK runs : RunsUpTo(history, H, n, runs) /\ lines = LinesFrom(runs) BY LinesAreOfRuns
<1>4. max_seen = Nothing => bands = <<>> BY DEF SceneIs, ProjectLive, NoLive
<1>5. max_seen # Nothing => max_seen \in Nat /\ bands = [s \in DOMAIN lines |-> BandOf(lines[s], max_seen)]
  BY DEF HistoryInv, SceneIs, ProjectLive
<1>. HIDE DEF lines, bands
<1>6. ASSUME NEW s \in DOMAIN bands, NEW i \in DOMAIN bands[s]
      PROVE  EndsFit(lines[s], bands[s][i].age, bands[s][i].ends[1], bands[s][i].ends[2])
  <2>1. max_seen # Nothing
    <3>1. DOMAIN <<>> = {} OBVIOUS
    <3>. QED BY <1>4, <3>1
  <2>2. /\ max_seen \in Nat /\ s \in 1..Len(runs) /\ bands[s] = BandOf(lines[s], max_seen)
        /\ lines[s] = LineFrom(runs[s][1], runs[s][2])
    BY <1>3, <1>5, <2>1 DEF LinesFrom
  <2>. DEFINE a == runs[s][1]
              b == runs[s][2]
  <2>3. a \in 1..n /\ b \in 1..n /\ a <= b /\ \A k \in a..b : k \in H
    BY <1>1, <1>2, <1>3, <2>2, RunsAreOf
  <2>. HIDE DEF a, b, n, H
  <2>4. \A k \in a..b : IsHeard(history[k]) BY <1>2, <2>3
  <2>5. LineFrom(a, b) \in Seq(Point) /\ LineFrom(a, b) # <<>> /\ Aging(LineFrom(a, b))
    BY <2>3, <2>4, LineIsWhole, LinesAge DEF n
  <2>6. lines[s] \in Seq(Point) /\ lines[s] # <<>> /\ Aging(lines[s]) BY <2>2, <2>5 DEF a, b
  <2>. DEFINE points == lines[s]
  <2>7. /\ points \in Seq(Point) /\ points # <<>> /\ Aging(points)
        /\ i \in DOMAIN BandOf(points, max_seen)
    BY <2>2, <2>6
  <2>. HIDE DEF points
  <2>8. EndsFit(points, BandOf(points, max_seen)[i].age, BandOf(points, max_seen)[i].ends[1],
                BandOf(points, max_seen)[i].ends[2])
    BY <2>2, <2>7, BandFits
  <2>. QED BY <2>2, <2>8 DEF points
<1>. QED BY <1>6 DEF BandsAreCentred, EndsFit, lines, bands

-----------------------------------------------------------------------------
(* The spans of a scene. *)

SpansFrom(runs) == [x \in 1..Len(runs) |-> <<Age(runs[x][1]), Age(runs[x][2])>>]

LEMMA SpansAreOfRuns ==
  ASSUME HistoryInv, SceneIs
  PROVE  \E runs : /\ RunsUpTo(history, BreathingHops(history), Len(history), runs)
                   /\ live_scene.spans = SpansFrom(runs)
<1>. DEFINE n == Len(history)
            H == BreathingHops(history)
<1>1. history \in Seq(Sample) /\ n \in Nat /\ DOMAIN history = 1..n BY LenProperties DEF HistoryInv
<1>2. H \in SUBSET (1..n) BY <1>1 DEF BreathingHops
<1>3. CASE max_seen = Nothing
  <2>1. H = {}
    <3>1. history = <<>> BY <1>3 DEF HistoryInv
    <3>2. DOMAIN <<>> = {} OBVIOUS
    <3>. QED BY <3>1, <3>2 DEF BreathingHops
  <2>2. RunsUpTo(history, H, n, <<>>)
    <3>1. <<>> \in Seq(Pairs) /\ \A x \in 1..Len(<<>>) : FALSE OBVIOUS
    <3>. HIDE DEF H
    <3>. QED BY <2>1, <3>1 DEF RunsUpTo, AreRuns, InTurn, CoverAll
  <2>3. live_scene.spans = <<>> BY <1>3 DEF SceneIs, ProjectLive, NoLive
  <2>4. SpansFrom(<<>>) = <<>>
    <3>1. Len(<<>>) = 0 /\ 1..0 = {} OBVIOUS
    <3>. QED BY <3>1 DEF SpansFrom
  <2>. QED BY <2>2, <2>3, <2>4
<1>4. CASE max_seen # Nothing
  <2>1. PICK runs : /\ RunsUpTo(history, H, n, runs)
                    /\ BreathSpans(history) = Each(SpanOf(history), runs, Len(runs))
    <3>1. PICK R \in [0..n -> Seq(Pairs)] :
            GrowingRuns(history, H, R) /\ \A k \in 0..n : RunsUpTo(history, H, k, R[k])
      BY <1>1, <1>2, RunsExist
    <3>2. RunsUpTo(history, H, n, R[n]) BY <1>1, <3>1
    <3>3. BreathSpans(history) = Each(SpanOf(history), R[n], Len(R[n]))
      BY <1>1, <3>1, SpansAreRuns
    <3>. QED BY <3>2, <3>3
  <2>. DEFINE m == Len(runs)
              breaths == BreathSpans(history)
              S == {b \in Range(breaths) : b[2] >= Cutoff(max_seen) /\ b[1] <= max_seen}
              spans == Among(breaths, S)
              age(t) == Lesser(max_seen - t, history_window)
  <2>2. live_scene.spans = [i \in DOMAIN spans |-> <<age(spans[i][1]), age(spans[i][2])>>]
    BY <1>4 DEF SceneIs, ProjectLive
  <2>3. m \in Nat BY <2>1, PairsIn DEF RunsUpTo
  <2>4. breaths = [x \in 1..m |-> SpanOf(history)[runs[x]]] BY <2>1 DEF Each
  <2>5. ASSUME NEW x \in 1..m
        PROVE  /\ breaths[x] = <<history[runs[x][1]].t_ms, history[runs[x][2]].t_ms>>
               /\ breaths[x] \in Seq(Nat)
               /\ breaths[x][2] >= Cutoff(max_seen) /\ breaths[x][1] <= max_seen
               /\ age(breaths[x][1]) = Age(runs[x][1]) /\ age(breaths[x][2]) = Age(runs[x][2])
    <3>. DEFINE a == runs[x][1]
                b == runs[x][2]
    <3>1. a \in 1..n /\ b \in 1..n /\ a <= b BY <1>1, <1>2, <2>1, RunsAreOf
    <3>2. runs[x] = <<a, b>> BY <2>1, PairsIn DEF RunsUpTo
    <3>. HIDE DEF a, b, breaths
    <3>3. breaths[x] = <<history[a].t_ms, history[b].t_ms>>
      <4>1. a \in Nat /\ b \in Nat BY <3>1
      <4>2. breaths[x] = SpanOf(history)[<<a, b>>] BY <2>4, <3>2
      <4>. QED BY <1>1, <4>1, <4>2, SpansAreSome
    <3>4. /\ max_seen \in Nat /\ history[a].t_ms \in Nat /\ history[b].t_ms \in Nat
          /\ Visible(history[a].t_ms, max_seen) /\ Visible(history[b].t_ms, max_seen)
      BY <3>1, HistoryHas
    <3>5. ASSUME NEW k \in 1..n PROVE age(history[k].t_ms) = Age(k)
      <4>1. /\ max_seen \in Nat /\ history[k].t_ms \in Nat /\ history[k].t_ms >= Cutoff(max_seen)
            /\ history[k].t_ms <= max_seen
        BY <3>5, HistoryHas DEF Visible
      <4>2. history_window \in Nat BY GraphAssumption
      <4>3. max_seen - history[k].t_ms <= history_window BY <4>1, <4>2 DEF Cutoff, Larger
      <4>. QED BY <4>1, <4>2, <4>3 DEF Lesser, Age
    <3>6. breaths[x][1] = history[a].t_ms /\ breaths[x][2] = history[b].t_ms /\ breaths[x] \in Seq(Nat)
      BY <3>3, <3>4
    <3>7. age(breaths[x][1]) = Age(a) /\ age(breaths[x][2]) = Age(b) BY <3>1, <3>5, <3>6
    <3>8. breaths[x][2] >= Cutoff(max_seen) /\ breaths[x][1] <= max_seen BY <3>4, <3>6 DEF Visible
    <3>. HIDE DEF age
    <3>. QED BY <3>3, <3>6, <3>7, <3>8 DEF a, b
  <2>. HIDE DEF m, breaths, S, spans, age
  <2>6. breaths \in Seq(Seq(Nat)) /\ Len(breaths) = m /\ DOMAIN breaths = 1..m
    <3>1. breaths \in [1..m -> Seq(Nat)] BY <2>4, <2>5
    <3>2. breaths \in Seq(Seq(Nat)) /\ Len(breaths) = m BY <2>3, <3>1
    <3>. QED BY <3>1, <3>2
  <2>7. spans = breaths
    <3>1. \A x \in 1..m : breaths[x] \in S BY <2>5, <2>6 DEF Range, S
    <3>2. Among(breaths, S) = breaths BY <2>6, <3>1, AmongAll
    <3>. QED BY <3>2 DEF spans
  <2>8. live_scene.spans = SpansFrom(runs)
    <3>1. live_scene.spans = [x \in 1..m |-> <<age(breaths[x][1]), age(breaths[x][2])>>]
      BY <2>2, <2>6, <2>7
    <3>2. \A x \in 1..m : <<age(breaths[x][1]), age(breaths[x][2])>> = <<Age(runs[x][1]), Age(runs[x][2])>>
      BY <2>5
    <3>. QED BY <3>1, <3>2 DEF SpansFrom, m
  <2>. QED BY <2>1, <2>8
<1>. QED BY <1>3, <1>4

LEMMA SceneHasSpans ==
  ASSUME HistoryInv, SceneIs
  PROVE  SpansAreTheBreaths
<1>. DEFINE n == Len(history)
            H == BreathingHops(history)
            spans == live_scene.spans
            M == MaximalRuns(history, H)
<1>1. history \in Seq(Sample) /\ n \in Nat /\ DOMAIN history = 1..n BY LenProperties DEF HistoryInv
<1>2. H \in SUBSET (1..n) BY <1>1 DEF BreathingHops
<1>3. PICK runs : RunsUpTo(history, H, n, runs) /\ spans = SpansFrom(runs) BY SpansAreOfRuns
<1>. DEFINE m == Len(runs)
<1>4. M = {runs[x] : x \in 1..m} /\ Cardinality(M) = m
  BY <1>1, <1>2, <1>3, IndicesTellTheHops, RunsAreMaximal
<1>5. m \in Nat BY <1>3, PairsIn DEF RunsUpTo
<1>6. \A x \in 1..m : spans[x] = <<Age(runs[x][1]), Age(runs[x][2])>> BY <1>3 DEF SpansFrom
<1>7. Len(spans) = m /\ DOMAIN spans = 1..m
  <2>1. spans \in [1..m -> {spans[x] : x \in 1..m}] BY <1>3 DEF SpansFrom
  <2>. HIDE DEF spans, m
  <2>2. spans \in Seq({spans[x] : x \in 1..m}) /\ Len(spans) = m BY <1>5, <2>1
  <2>. QED BY <2>1, <2>2
<1>. DEFINE run == [x \in 1..m |-> runs[x]]
<1>8. run \in [1..m -> M] /\ \A x \in 1..m : run[x] = runs[x]
  <2>. HIDE DEF M, spans, m
  <2>. QED BY <1>4
<1>9. \A x \in 2..m : x - 1 \in 1..m /\ x \in 1..m /\ runs[x - 1][2] < runs[x][1]
  BY <1>3, <1>5 DEF RunsUpTo, InTurn
<1>. HIDE DEF M, spans, m, run
<1>10. Len(spans) = Cardinality(M) BY <1>4, <1>7
<1>11. \A x \in 1..m : spans[x] = <<Age(run[x][1]), Age(run[x][2])>> BY <1>6, <1>8
<1>12. \A x \in 2..m : run[x - 1][2] < run[x][1] BY <1>8, <1>9
<1>. QED BY <1>7, <1>8, <1>10, <1>11, <1>12 DEF SpansAreTheBreaths, M, spans

LEMMA SceneHasGrooves ==
  ASSUME WindowHolds, SceneIs
  PROVE  GroovesFillTheWindow
<1>1. CASE pitch_window = Nothing BY <1>1 DEF SceneIs, GroovesFillTheWindow
<1>2. CASE pitch_window # Nothing
  <2>1. pitch_window \in Window /\ grid_scene = GrooveLines(pitch_window)
    BY <1>2 DEF WindowHolds, SceneIs
  <2>. QED BY <1>2, <2>1, GroovesFill DEF GroovesFillTheWindow
<1>. QED BY <1>1, <1>2

-----------------------------------------------------------------------------
(* From the projection on, the scene is that of the history. *)

WindowMoves ==
    /\ pitch_window = Nothing \/ (pitch_window \in Window /\ pitch_window.min <= pitch_window.max)
    /\ last_ms \in Nat \union {Nothing}
SceneWritten ==
    head_screen = "game" /\ frame_todo # {} /\ "refresh" \notin frame_todo => WindowHolds /\ SceneIs
ShownHistoryInv == PaintInv /\ HistoryInv /\ WindowMoves /\ SceneWritten

LEMMA SceneIsWritten ==
  ASSUME ShownHistoryInv, RefreshScene
  PROVE  WindowMoves' /\ WindowHolds' /\ SceneIs'
<1>. DEFINE next == NextWindow(history, max_seen)
<1>1. /\ history' = history /\ max_seen' = max_seen /\ pitch_window' = next
      /\ last_ms' = IF max_seen = Nothing THEN last_ms ELSE max_seen
      /\ live_scene' = ProjectLive(history, max_seen, pitch_window')
      /\ grid_scene' = IF pitch_window' = Nothing THEN {} ELSE GrooveLines(pitch_window')
  BY DEF RefreshScene, feature_vars
<1>2. history \in Seq(Sample) /\ max_seen \in Nat \union {Nothing} BY DEF ShownHistoryInv, HistoryInv
<1>3. /\ pitch_window = Nothing \/ (pitch_window \in Window /\ pitch_window.min <= pitch_window.max)
      /\ last_ms \in Nat \union {Nothing}
  BY DEF ShownHistoryInv, WindowMoves
<1>4. CASE VoicedIn(history) = {}
  <2>1. next = pitch_window BY <1>4 DEF NextWindow
  <2>. HIDE DEF next
  <2>2. WindowMoves' BY <1>1, <1>2, <1>3, <2>1 DEF WindowMoves
  <2>3. WindowHolds' BY <1>1, <1>3, <1>4, <2>1 DEF WindowHolds
  <2>. QED BY <1>1, <2>2, <2>3 DEF SceneIs
<1>5. CASE VoicedIn(history) # {}
  <2>1. next \in Window /\ next.min <= next.max /\ \A p \in VoicedIn(history) : InWindow(p, next)
    BY <1>2, <1>3, <1>5, WindowHasAll
  <2>. HIDE DEF next
  <2>2. next # Nothing BY <2>1, GraphAssumption DEF Window
  <2>3. WindowMoves' BY <1>1, <1>2, <1>3, <2>1 DEF WindowMoves
  <2>4. WindowHolds' BY <1>1, <2>1, <2>2 DEF WindowHolds
  <2>. QED BY <1>1, <2>3, <2>4 DEF SceneIs
<1>. QED BY <1>4, <1>5

LEMMA ShownHistoryStep == ShownHistoryInv /\ [GraphNext]_graph_vars => ShownHistoryInv'
<1>. SUFFICES ASSUME ShownHistoryInv, [GraphNext]_graph_vars PROVE ShownHistoryInv' OBVIOUS
<1>1. PaintInv' BY PaintStep DEF ShownHistoryInv
<1>2. Stages BY DEF ShownHistoryInv, PaintInv
<1>3. CASE UNCHANGED graph_vars
  <2>. USE DEF graph_vars, feature_vars, projector_vars, scene_vars
  <2>1. HistoryInv' BY <1>3 DEF ShownHistoryInv, HistoryInv
  <2>2. WindowMoves' BY <1>3 DEF ShownHistoryInv, WindowMoves
  <2>3. SceneWritten' BY <1>3 DEF ShownHistoryInv, SceneWritten, WindowHolds, SceneIs
  <2>. QED BY <1>1, <2>1, <2>2, <2>3 DEF ShownHistoryInv
<1>4. CASE GraphNext
  <2>1. HistoryInv' BY <1>4, HistoryIsKept DEF ShownHistoryInv
  <2>. USE DEF feature_vars, projector_vars, scene_vars
  <2>2. CASE RefreshScene
    <3>1. WindowMoves' /\ WindowHolds' /\ SceneIs' BY <2>2, SceneIsWritten
    <3>. QED BY <1>1, <2>1, <3>1 DEF ShownHistoryInv, SceneWritten
  <2>3. CASE \/ \E sound \in Sounds, lost \in 0..1, ticks \in HopTicks :
                  DrainHop(sound, lost, ticks)
             \/ NumberHopsAnew
    <3>1. /\ "drain" \in frame_todo /\ frame_todo' = frame_todo /\ head_screen' = head_screen
          /\ UNCHANGED <<pitch_window, last_ms>>
      BY <2>3 DEF DrainHop, NumberHopsAnew
    <3>2. head_screen = "game" => "refresh" \in frame_todo BY <1>2, <3>1 DEF Stages
    <3>3. WindowMoves' BY <3>1 DEF ShownHistoryInv, WindowMoves
    <3>4. SceneWritten' BY <3>1, <3>2 DEF SceneWritten
    <3>. QED BY <1>1, <2>1, <3>3, <3>4 DEF ShownHistoryInv
  <2>4. CASE DrainReturns \/ PaintEarly \/ PaintLate \/ MeasureLane
    <3>1. /\ UNCHANGED <<head_screen, history, max_seen, pitch_window, last_ms, grid_scene, live_scene>>
          /\ \E done : frame_todo' = frame_todo \ done /\ "refresh" \notin done
      <4>1. CASE DrainReturns
        <5>1. frame_todo' = frame_todo \ {"drain"} /\ "refresh" \notin {"drain"}
          BY <4>1 DEF DrainReturns
        <5>. QED BY <4>1, <5>1 DEF DrainReturns
      <4>2. CASE PaintEarly
        <5>1. PICK painters \in EarlyPainters : RunPainters(painters) BY <4>2 DEF PaintEarly
        <5>2. "refresh" \notin painters BY EarlyAssumption
        <5>. QED BY <5>1, <5>2 DEF RunPainters
      <4>3. CASE PaintLate
        <5>1. RunPainters(frame_todo \ {"measure"}) /\ "refresh" \notin frame_todo
          BY <4>3 DEF PaintLate
        <5>. QED BY <5>1 DEF RunPainters
      <4>4. CASE MeasureLane
        <5>1. frame_todo' = frame_todo \ {"measure"} /\ "refresh" \notin {"measure"}
          BY <4>4 DEF MeasureLane
        <5>. QED BY <4>4, <5>1 DEF MeasureLane
      <4>. QED BY <2>4, <4>1, <4>2, <4>3, <4>4
    <3>2. WindowMoves' BY <3>1 DEF ShownHistoryInv, WindowMoves
    <3>3. frame_todo' # {} /\ "refresh" \notin frame_todo' => frame_todo # {} /\ "refresh" \notin frame_todo
      BY <3>1
    <3>4. SceneWritten' BY <3>1, <3>3 DEF ShownHistoryInv, SceneWritten, WindowHolds, SceneIs
    <3>. QED BY <1>1, <2>1, <3>2, <3>4 DEF ShownHistoryInv
  <2>5. CASE BeginGraphFrame \/ EnterGame
    <3>1. /\ UNCHANGED <<pitch_window, last_ms>>
          /\ head_screen' = "game" => "refresh" \in frame_todo'
      BY <2>5 DEF BeginGraphFrame, EnterGame, GameSystems
    <3>2. WindowMoves' BY <3>1 DEF ShownHistoryInv, WindowMoves
    <3>3. SceneWritten' BY <3>1 DEF SceneWritten
    <3>. QED BY <1>1, <2>1, <3>2, <3>3 DEF ShownHistoryInv
  <2>6. CASE ExitGame
    <3>1. pitch_window' = Nothing /\ last_ms' = Nothing /\ head_screen' = "away" BY <2>6 DEF ExitGame
    <3>2. WindowMoves' BY <3>1 DEF WindowMoves
    <3>3. SceneWritten' BY <3>1 DEF SceneWritten
    <3>. QED BY <1>1, <2>1, <3>2, <3>3 DEF ShownHistoryInv
  <2>7. CASE Resize
    <3>1. /\ UNCHANGED <<pitch_window, last_ms>> /\ frame_todo' = {}
      BY <2>7 DEF Resize
    <3>2. WindowMoves' BY <3>1 DEF ShownHistoryInv, WindowMoves
    <3>3. SceneWritten' BY <3>1 DEF SceneWritten
    <3>. QED BY <1>1, <2>1, <3>2, <3>3 DEF ShownHistoryInv
  <2>. QED BY <1>4, <2>2, <2>3, <2>4, <2>5, <2>6, <2>7 DEF GraphNext
<1>. QED BY <1>3, <1>4

(* Whatever is heard, dropped, evicted or resized, and though hops share a time, the scene
   of a frame is that of the history (coach-game/src/semantic_graph.rs): a line for each
   run of voiced hops of a session, whole and inside the lane, a band on the pitch of its
   time, a span for each run of breaths, and every groove.  Runs of two sessions are one
   line only where the later session's first hops were dropped and its indices follow. *)
THEOREM GraphShowsTheHistoryAlways == GraphSpec => []GraphShowsTheHistory
<1>1. GraphInit => ShownHistoryInv
  <2>. SUFFICES ASSUME GraphInit PROVE ShownHistoryInv OBVIOUS
  <2>1. head_screen = "away" /\ pitch_window = Nothing /\ last_ms = Nothing BY DEF GraphInit
  <2>2. WindowMoves /\ SceneWritten BY <2>1 DEF WindowMoves, SceneWritten
  <2>. QED BY <2>2, PaintInit, HistoryBegins DEF ShownHistoryInv
<1>2. ShownHistoryInv => GraphShowsTheHistory
  <2>. SUFFICES ASSUME ShownHistoryInv PROVE GraphShowsTheHistory OBVIOUS
  <2>1. HistoryIsBounded BY HistoryInvBounds DEF ShownHistoryInv
  <2>2. ASSUME FrameIsPainted
        PROVE  LinesAreTheRuns /\ BandsAreCentred /\ SpansAreTheBreaths /\ GroovesFillTheWindow
    <3>1. frame_todo = {"measure"} BY <2>2 DEF FrameIsPainted
    <3>2. head_screen = "game"
      <4>1. Stages BY DEF ShownHistoryInv, PaintInv
      <4>. QED BY <3>1, <4>1 DEF Stages
    <3>3. HistoryInv /\ WindowHolds /\ SceneIs BY <3>1, <3>2 DEF ShownHistoryInv, SceneWritten
    <3>. QED BY <3>3, SceneHasLines, SceneHasBands, SceneHasSpans, SceneHasGrooves
  <2>. QED BY <2>1, <2>2 DEF GraphShowsTheHistory
<1>. QED BY <1>1, <1>2, ShownHistoryStep, PTL DEF GraphSpec

-----------------------------------------------------------------------------
(* The widgets.                                                            *)

WidgetTypes ==
    /\ part \in DOMAIN Chain
    /\ screen \in [on : BOOLEAN, again : BOOLEAN]
    /\ next_screen \in {"Unchanged", "Home", "Away"}
    /\ DOMAIN value = DOMAIN Defaults[part]
    /\ DOMAIN pending = Systems(part)
    /\ DOMAIN drawn = DOMAIN Spawned[part] /\ DOMAIN deferred \subseteq DOMAIN drawn
    /\ quiet \in 0..Settled
    /\ ran = {} \/ "Update" \in ran
    /\ ran = {} => deferred = <<>>
    /\ part \notin {"devices", "music", "pause", "prompt"} => deferred = <<>>

\* What a system changes that another one watches, and not a handler or a visit.
Derived == {"MusicMasterRow", "k", "scale", "needle", "scene"}

\* A frame after the last write every system has seen it; one more, and every system
\* has seen what the others made of it, but for a needle that moves in every frame.
SeenWrites(s) == quiet >= 2 \/ (quiet >= 1 /\ s \in ran)
SeenAll(s) == quiet >= 3 \/ (quiet >= 2 /\ s \in ran)
QuietInv ==
    screen.on => \A s \in Systems(part) :
        /\ SeenWrites(s) => pending[s] \subseteq Derived
        /\ SeenAll(s) => pending[s] \subseteq {"needle"}

\* What a widget will show when what is spawned is there.
Shown(widget) == IF widget \in DOMAIN deferred THEN deferred[widget] ELSE drawn[widget]

\* A widget shows its resources unless its system has a change of them still to see.
TabsInv ==
    screen.on /\ pending["sync_tab_visibility"] \cap {"tab", "TabContent", "TabButton"} = {} =>
        drawn.content = value.tab /\ drawn.button = value.tab

DevicesInv ==
    screen.on /\ pending["rebuild_device_list"] \cap {"known", "selected", "mic"} = {} =>
        Shown("list") = DeviceRows \/ (Shown("list") = {} /\ "known" \notin fresh)

RowNames == {"ReferenceHz", "TuningKind"}
RowsShow(rows, settings) ==
    /\ rows \subseteq [row : RowNames, shows : {settings}, marked : BOOLEAN]
    /\ \A name \in RowNames : \E r \in rows : r.row = name
AreRows(rows) == \A r \in rows : {"row", "marked"} \subseteq DOMAIN r
MusicInv ==
  /\ "detail" \notin DOMAIN deferred
  /\ AreRows(drawn.rows) /\ AreRows(Shown("rows"))
  /\ screen.on =>
    /\ pending["rebuild_settings_list"] \cap {"settings", "ReferenceHzList", "TuningKindList"} = {}
         => Shown("pickers") = value.settings
    /\ pending["rebuild_master_rows"] \cap {"settings", "MusicMasterPane"} = {}
         => RowsShow(Shown("rows"), value.settings)
    /\ pending["sync_music_detail"] \cap
           {"selection", "ReferenceHzList", "TuningKindList", "MusicMasterRow"} = {}
         => /\ drawn.detail = value.selection
            /\ \A r \in drawn.rows : r.marked = (r.row = value.selection)
    /\ quiet >= 2 => deferred = <<>>

PauseInv ==
    /\ "resume" \notin DOMAIN deferred
    /\ ~screen.on /\ next_screen = "Home" => "locked" \in pending["sync_resume_locked"]
    /\ screen.on /\ "confirm" \notin pending["sync_confirm_modal"] => Shown("modal") = value.confirm
    /\ screen.on /\ "locked" \notin pending["sync_resume_locked"] =>
         drawn.resume = ~value.locked \/ (screen.again /\ "locked" \notin fresh)

PromptInv ==
    screen.on /\ "prompt" \notin pending["sync_permission_modal"] =>
        \/ Shown("modal") = ModalOf(value.prompt)
        \/ Shown("modal") = Absent /\ "prompt" \notin fresh

\* The dial: the box is measured, and the slots, their colours and the needle are drawn.
MeasuredInv ==
    /\ "rebuild_slots" \in ran => "update_dial_metrics" \in ran
    /\ screen.on => /\ "box" \notin pending["update_dial_metrics"] => value.k = value.box
                    /\ "k" \notin pending["update_hub_size"] => drawn.hub = value.k
SlotsInv ==
    /\ "music" \notin pending["repaint_slots"] /\ value.scale # Absent /\ value.music # Absent =>
         value.scale = value.music
    /\ screen.on /\ SeenWrites("repaint_slots") /\ value.music # Absent =>
         value.scale = value.music
    /\ screen.on /\ pending["rebuild_slots"] \cap {"scale", "k"} = {} =>
         drawn.slots = value.scale /\ drawn.size = value.k
\* Slots are spawned without colour, and coloured in the same frame: what one of the two
\* systems has still to see of them, the other has too.
ColoursInv ==
    screen.on =>
    /\ pending["apply_state"] \cap {"scale", "k"} = {} =>
         drawn.paint = value.scale \/ (drawn.paint = Absent /\ "torn" \in fresh)
    /\ "torn" \notin fresh =>
         /\ pending["rebuild_slots"] \cap {"scale", "k"} \subseteq pending["apply_state"]
         /\ BetweenTheTwo => pending["rebuild_slots"] \cap {"scale", "k"} = {}
NeedleInv ==
    screen.on =>
    /\ "needle" \notin pending["apply_state"] => drawn.needle = value.needle
    /\ SeenWrites("update_from_features") => value.needle = NeedleNow
    /\ SeenAll("apply_state") => drawn.needle = NeedleNow
DialInv == MeasuredInv /\ SlotsInv /\ ColoursInv /\ NeedleInv

HudInv ==
    screen.on => /\ "music" \notin pending["refresh"] => value.scene = value.music
                 /\ "scene" \notin pending["sync_text"] => drawn.text = value.scene

WidgetsInv ==
    /\ WidgetTypes /\ QuietInv
    /\ part = "tabs" => TabsInv
    /\ part = "devices" => DevicesInv
    /\ part = "music" => MusicInv
    /\ part = "pause" => PauseInv
    /\ part = "prompt" => PromptInv
    /\ part = "dial" => DialInv
    /\ part = "hud" => HudInv

\* The systems of each part, and the order of the dial's chain.
LEMMA SystemsOf ==
  /\ Systems("tabs") = {"sync_tab_visibility"}
  /\ Systems("devices") = {"rebuild_device_list"}
  /\ Systems("music") = {"rebuild_settings_list", "rebuild_master_rows", "sync_music_detail"}
  /\ Systems("pause") = {"sync_confirm_modal", "sync_resume_locked"}
  /\ Systems("prompt") = {"sync_permission_modal"}
  /\ Systems("dial") = {"update_dial_metrics", "rebuild_slots", "apply_state", "update_hub_size",
                        "repaint_slots", "update_from_features"}
  /\ Systems("hud") = {"refresh", "sync_text"}
<1>1. \A p \in DOMAIN Chain : p # "dial" => Systems(p) = Chain[p][1]
  <2>. SUFFICES ASSUME NEW p \in DOMAIN Chain, p # "dial" PROVE Systems(p) = Chain[p][1]
    OBVIOUS
  <2>1. DOMAIN Chain[p] = {1} BY DEF Chain
  <2>2. p \notin DOMAIN Glue BY DEF Glue
  <2>. QED BY <2>1, <2>2, Zenon DEF Systems, InChain
<1>2. Systems("dial") = Chain["dial"][1] \cup Chain["dial"][2] \cup Chain["dial"][3] \cup Chain["dial"][4]
                         \cup Glue["dial"]
  <2>1. DOMAIN Chain["dial"] = {1, 2, 3, 4} BY DEF Chain
  <2>2. InChain("dial") = Chain["dial"][1] \cup Chain["dial"][2] \cup Chain["dial"][3] \cup Chain["dial"][4]
    BY <2>1 DEF InChain
  <2>3. "dial" \in DOMAIN Glue BY DEF Glue
  <2>. QED BY <2>2, <2>3 DEF Systems
<1>3. Systems("dial") = {"update_dial_metrics", "rebuild_slots", "apply_state", "update_hub_size",
                        "repaint_slots", "update_from_features"}
  BY <1>2 DEF Chain, Glue
<1>. QED BY <1>1, <1>3 DEF Chain

LEMMA DialOrder ==
  ASSUME part = "dial", NEW s, Runs(s)
  PROVE  /\ s = "rebuild_slots" => "update_dial_metrics" \in ran
         /\ s = "apply_state" => {"update_dial_metrics", "rebuild_slots"} \subseteq ran
         /\ s = "update_hub_size" => "update_dial_metrics" \in ran
<1>1. \A i, j \in DOMAIN Chain["dial"] :
         s \in Chain["dial"][j] /\ i < j => Chain["dial"][i] \subseteq ran
  BY DEF Runs
<1>2. DOMAIN Chain["dial"] = {1, 2, 3, 4} BY DEF Chain
<1>3. Chain["dial"] = <<{"update_dial_metrics"}, {"rebuild_slots"}, {"apply_state"}, {"update_hub_size"}>>
  BY DEF Chain
<1>4. s \in Chain["dial"][2] => Chain["dial"][1] \subseteq ran
  BY <1>1, <1>2
<1>5. s \in Chain["dial"][3] => Chain["dial"][1] \subseteq ran /\ Chain["dial"][2] \subseteq ran
  BY <1>1, <1>2
<1>6. s \in Chain["dial"][4] => Chain["dial"][1] \subseteq ran
  BY <1>1, <1>2
<1>. QED BY <1>3, <1>4, <1>5, <1>6

\* Change detection, system by system.
LEMMA MarkIs ==
  ASSUME WidgetTypes, NEW things
  PROVE  /\ DOMAIN Mark(things) = Systems(part)
         /\ \A t \in Systems(part) : Mark(things)[t] = pending[t] \cup things
BY DEF WidgetTypes, Mark

LEMMA LookedIs ==
  ASSUME WidgetTypes, NEW s \in Systems(part), NEW things
  PROVE  /\ DOMAIN Looked(s, things) = Systems(part)
         /\ Looked(s, things)[s] = {}
         /\ \A t \in Systems(part) : t # s => Looked(s, things)[t] = pending[t] \cup things
<1>. DEFINE m == Mark(things)
<1>1. DOMAIN m = Systems(part)
      /\ \A t \in Systems(part) : m[t] = pending[t] \cup things
  BY MarkIs
<1>2. Looked(s, things) = [m EXCEPT ![s] = {}] BY DEF Looked
<1>. HIDE DEF m
<1>. QED BY <1>1, <1>2

BasicInv == WidgetTypes /\ QuietInv
NextScreens == {"Unchanged", "Home", "Away"}

\* A write starts the count of quiet frames anew.
LEMMA WriteKeeps ==
  ASSUME BasicInv, NEW resource \in DOMAIN value, NEW v, NEW goes \in NextScreens, Write(resource, v, goes)
  PROVE  /\ BasicInv'
         /\ value' = [value EXCEPT ![resource] = v]
         /\ \A t \in Systems(part) : pending'[t] = pending[t] \cup {resource}
         /\ fresh' = fresh \cup {resource} /\ quiet' = 0
         /\ next_screen' \in {goes, next_screen}
         /\ UNCHANGED <<part, screen, drawn, deferred, ran>>
<1>1. /\ pending' = Mark({resource}) /\ value' = [value EXCEPT ![resource] = v]
      /\ fresh' = fresh \cup {resource} /\ quiet' = 0
      /\ next_screen' \in {goes, next_screen}
      /\ UNCHANGED <<part, screen, drawn, deferred, ran>>
  BY DEF Write
<1>2. DOMAIN pending' = Systems(part)
      /\ \A t \in Systems(part) : pending'[t] = pending[t] \cup {resource}
  BY <1>1, MarkIs DEF BasicInv
<1>3. WidgetTypes'
  <2>1. Systems(part)' = Systems(part) BY <1>1 DEF Systems, InChain
  <2>2. next_screen' \in {"Unchanged", "Home", "Away"} BY <1>1 DEF BasicInv, WidgetTypes, NextScreens
  <2>3. DOMAIN value' = DOMAIN Defaults[part'] BY <1>1 DEF BasicInv, WidgetTypes
  <2>4. quiet' \in 0..Settled BY <1>1 DEF Settled
  <2>. QED BY <1>1, <1>2, <2>1, <2>2, <2>3, <2>4 DEF BasicInv, WidgetTypes
<1>4. QuietInv' BY <1>1 DEF QuietInv, SeenWrites, SeenAll
<1>. QED BY <1>1, <1>2, <1>3, <1>4 DEF BasicInv

\* A system that runs has seen every change, and hardly ever makes one.
LEMMA LookKeeps ==
  ASSUME BasicInv, NEW s \in Systems(part), Runs(s),
         NEW things \in SUBSET Derived, pending' = Looked(s, things),
         quiet >= 2 => things \subseteq {"needle"},
         DOMAIN value' = DOMAIN value, DOMAIN drawn' = DOMAIN drawn,
         DOMAIN deferred' \subseteq DOMAIN drawn,
         deferred' = deferred \/ part \in {"devices", "music", "pause", "prompt"}
  PROVE  /\ BasicInv'
         /\ pending'[s] = {}
         /\ \A t \in Systems(part) : t # s => pending'[t] = pending[t] \cup things
         /\ ran' = ran \cup {s} /\ s \notin ran /\ "Update" \in ran /\ screen.on
         /\ UNCHANGED <<part, screen, next_screen, quiet>>
<1>1. /\ ran' = ran \cup {s} /\ s \notin ran /\ "Update" \in ran /\ screen.on
      /\ UNCHANGED <<part, screen, next_screen, quiet>>
  BY DEF Runs
<1>3. /\ DOMAIN pending' = Systems(part) /\ pending'[s] = {}
      /\ \A t \in Systems(part) : t # s => pending'[t] = pending[t] \cup things
  BY LookedIs DEF BasicInv
<1>4. WidgetTypes'
  BY <1>1, <1>3 DEF BasicInv, WidgetTypes, Systems, InChain
<1>5. QuietInv'
  <2>1. Systems(part)' = Systems(part) BY <1>1 DEF Systems, InChain
  <2>. SUFFICES ASSUME NEW t \in Systems(part)
                PROVE  /\ SeenWrites(t)' => pending'[t] \subseteq Derived
                       /\ SeenAll(t)' => pending'[t] \subseteq {"needle"}
    BY <1>1, <2>1 DEF QuietInv
  <2>2. quiet \in Nat BY DEF BasicInv, WidgetTypes, Settled
  <2>3. CASE t = s BY <1>3, <2>3
  <2>4. CASE t # s
    <3>1. /\ SeenWrites(t) => pending[t] \subseteq Derived
          /\ SeenAll(t) => pending[t] \subseteq {"needle"}
      BY <1>1 DEF BasicInv, QuietInv
    <3>. QED BY <1>1, <1>3, <2>2, <2>4, <3>1 DEF SeenWrites, SeenAll
  <2>. QED BY <2>3, <2>4
<1>. QED BY <1>1, <1>3, <1>4, <1>5 DEF BasicInv

LEMMA DrawsKeeps ==
  ASSUME BasicInv, NEW s \in Systems(part), NEW watched, NEW drawing,
         DOMAIN drawing = DOMAIN drawn, Draws(s, watched, drawing)
  PROVE  /\ BasicInv'
         /\ pending'[s] = {} /\ \A t \in Systems(part) : t # s => pending'[t] = pending[t]
         /\ drawn' = IF pending[s] \cap watched # {} THEN drawing ELSE drawn
         /\ ran' = ran \cup {s} /\ s \notin ran /\ "Update" \in ran /\ screen.on
         /\ UNCHANGED <<part, screen, next_screen, quiet, value, deferred, fresh>>
<1>1. /\ Runs(s) /\ pending' = Looked(s, {})
      /\ drawn' = IF pending[s] \cap watched # {} THEN drawing ELSE drawn
      /\ UNCHANGED <<value, deferred, fresh>>
  BY DEF Draws, Sees
<1>2. DOMAIN deferred \subseteq DOMAIN drawn BY DEF BasicInv, WidgetTypes
<1>3. /\ {} \in SUBSET Derived /\ quiet >= 2 => {} \subseteq {"needle"}
      /\ DOMAIN value' = DOMAIN value /\ DOMAIN drawn' = DOMAIN drawn
      /\ DOMAIN deferred' \subseteq DOMAIN drawn /\ deferred' = deferred
  BY <1>1, <1>2
<1>4. /\ BasicInv'
      /\ pending'[s] = {}
      /\ \A t \in Systems(part) : t # s => pending'[t] = pending[t] \cup {}
      /\ ran' = ran \cup {s} /\ s \notin ran /\ "Update" \in ran /\ screen.on
      /\ UNCHANGED <<part, screen, next_screen, quiet>>
  BY <1>1, <1>3, LookKeeps
<1>. QED BY <1>1, <1>4

LEMMA SpawnsKeeps ==
  ASSUME BasicInv, NEW s \in Systems(part), NEW watched, NEW widget \in DOMAIN drawn, NEW v,
         NEW spawning, spawning = [w \in {widget} |-> v],
         part \in {"devices", "music", "pause", "prompt"},
         Spawns(s, watched, spawning)
  PROVE  /\ BasicInv'
         /\ pending'[s] = {} /\ \A t \in Systems(part) : t # s => pending'[t] = pending[t]
         /\ pending[s] \cap watched = {} => deferred' = deferred
         /\ pending[s] \cap watched # {} => /\ DOMAIN deferred' = DOMAIN deferred \cup {widget}
                                           /\ deferred'[widget] = v
         /\ \A w \in DOMAIN deferred : w # widget => deferred'[w] = deferred[w]
         /\ ran' = ran \cup {s} /\ s \notin ran /\ "Update" \in ran /\ screen.on
         /\ UNCHANGED <<part, screen, next_screen, quiet, value, drawn, fresh>>
<1>1. /\ Runs(s) /\ pending' = Looked(s, {})
      /\ deferred' = IF pending[s] \cap watched # {} THEN Over(spawning, deferred) ELSE deferred
      /\ UNCHANGED <<value, drawn, fresh>>
  BY DEF Spawns, Sees
<1>2. DOMAIN deferred \subseteq DOMAIN drawn BY DEF BasicInv, WidgetTypes
<1>3. LET o == Over(spawning, deferred)
      IN /\ DOMAIN o = DOMAIN deferred \cup {widget}
         /\ o[widget] = v
         /\ \A w \in DOMAIN deferred : w # widget => o[w] = deferred[w]
  BY DEF Over
<1>4. DOMAIN deferred' \subseteq DOMAIN drawn BY <1>1, <1>2, <1>3
<1>. HIDE DEF Over
<1>5. /\ {} \in SUBSET Derived /\ quiet >= 2 => {} \subseteq {"needle"}
      /\ DOMAIN value' = DOMAIN value /\ DOMAIN drawn' = DOMAIN drawn
  BY <1>1
<1>6. /\ BasicInv'
      /\ pending'[s] = {}
      /\ \A t \in Systems(part) : t # s => pending'[t] = pending[t] \cup {}
      /\ ran' = ran \cup {s} /\ s \notin ran /\ "Update" \in ran /\ screen.on
      /\ UNCHANGED <<part, screen, next_screen, quiet>>
  BY <1>1, <1>4, <1>5, LookKeeps
<1>. QED BY <1>1, <1>3, <1>6

\* Frames begin and end, and the player asks for another screen.
LEMMA FrameKeeps ==
  ASSUME BasicInv, BeginUpdate \/ EndFrame \/ Visit \/ Depart
  PROVE  /\ BasicInv'
         /\ \A s \in Systems(part) :
              screen.on => (SeenWrites(s)' => SeenWrites(s)) /\ (SeenAll(s)' => SeenAll(s))
         /\ ran' = {} \/ ran' = {"Update"} \/ ran' = ran
         /\ quiet' >= 2 => quiet >= 2 \/ deferred = <<>>
         /\ next_screen' = "Home" => next_screen = "Home" \/ part # "pause"
         /\ UNCHANGED <<part, screen, value, pending, drawn, deferred, fresh>>
<1>1. /\ UNCHANGED <<part, screen, value, pending, drawn, deferred, fresh>>
      /\ next_screen' = "Home" => next_screen = "Home" \/ part # "pause"
      /\ next_screen' \in {"Unchanged", "Home", "Away"}
  BY DEF BeginUpdate, EndFrame, Visit, Depart, BasicInv, WidgetTypes
<1>2. \/ quiet' = quiet /\ (ran' = ran \/ (ran = {} /\ ran' = {"Update"}))
      \/ /\ quiet' = (IF quiet < Settled THEN quiet + 1 ELSE quiet) /\ ran' = {} /\ deferred = <<>>
         /\ screen.on => Systems(part) \subseteq ran
  BY DEF BeginUpdate, EndFrame, Visit, Depart, AllRan
<1>3. quiet \in 0..3 BY DEF BasicInv, WidgetTypes, Settled
<1>4. Systems(part)' = Systems(part) BY <1>1 DEF Systems, InChain
<1>5. WidgetTypes'
  BY <1>1, <1>2, <1>3, <1>4 DEF BasicInv, WidgetTypes, Settled
<1>6. \A s \in Systems(part) :
        screen.on => (SeenWrites(s)' => SeenWrites(s)) /\ (SeenAll(s)' => SeenAll(s))
  <2>1. "Update" \notin Systems(part) BY SystemsOf DEF BasicInv, WidgetTypes, Chain
  <2>. QED BY <1>2, <1>3, <2>1 DEF SeenWrites, SeenAll, Settled
<1>7. QuietInv'
  BY <1>1, <1>4, <1>6 DEF BasicInv, QuietInv
<1>8. /\ ran' = {} \/ ran' = {"Update"} \/ ran' = ran
      /\ quiet' >= 2 => quiet >= 2 \/ deferred = <<>>
  BY <1>2
<1>. QED BY <1>1, <1>5, <1>6, <1>7, <1>8 DEF BasicInv

LEMMA ResetIs ==
  ASSUME WidgetTypes
  PROVE  /\ DOMAIN Reset \subseteq DOMAIN value
         /\ part = "tabs" => Reset = [tab |-> "Audio"]
         /\ part = "music" => Reset = [selection |-> "ReferenceHz"]
         /\ part = "pause" => Reset = [confirm |-> FALSE]
         /\ part = "dial" => Reset = [scale |-> Absent, needle |-> Absent, k |-> 0]
         /\ part = "hud" => Reset = [scene |-> value.music]
         /\ part \in {"devices", "prompt"} => Reset = <<>>
<1>1. /\ part = "tabs" => Reset = [tab |-> "Audio"]
      /\ part = "music" => Reset = [selection |-> "ReferenceHz"]
      /\ part = "pause" => Reset = [confirm |-> FALSE]
      /\ part = "dial" => Reset = [scale |-> Absent, needle |-> Absent, k |-> 0]
      /\ part = "hud" => Reset = [scene |-> value.music]
      /\ part \in {"devices", "prompt"} => Reset = <<>>
  BY DEF Reset
<1>2. DOMAIN Reset \subseteq DOMAIN Defaults[part]
  BY <1>1 DEF WidgetTypes, Chain, Defaults
<1>. QED BY <1>1, <1>2 DEF WidgetTypes

\* A screen is spawned, with what it is entered with, or gone.
LEMMA ChangeKeeps ==
  ASSUME BasicInv, ChangeWidgets
  PROVE  /\ BasicInv'
         /\ screen'.on => next_screen = "Home" /\ screen'.again = screen.on
         /\ drawn' = Spawned[part] /\ deferred = <<>> /\ deferred' = <<>>
         /\ next_screen' = "Unchanged"
         /\ next_screen = "Home" \/ part = "pause" =>
              \A r \in DOMAIN value :
                value'[r] = IF r \in DOMAIN Reset THEN Reset[r] ELSE value[r]
         /\ next_screen # "Home" /\ part # "pause" => value' = value
         /\ next_screen = "Home" =>
              \A s \in Systems(part) : pending'[s] = pending[s] \cup Added[part] \cup DOMAIN Reset
         /\ fresh' = {} /\ quiet' = 0 /\ ran = {} /\ UNCHANGED <<part, ran>>
<1>1. /\ screen' = [on |-> next_screen = "Home", again |-> screen.on /\ next_screen = "Home"]
      /\ drawn' = Spawned[part] /\ ran = {} /\ next_screen' = "Unchanged"
      /\ value' = IF next_screen = "Home" \/ part = "pause" THEN Over(Reset, value) ELSE value
      /\ pending' = IF next_screen = "Home" THEN Mark(Added[part] \cup DOMAIN Reset)
                    ELSE IF part = "pause" THEN Mark({"confirm"}) ELSE pending
      /\ fresh' = {} /\ quiet' = 0 /\ UNCHANGED <<part, ran, deferred>>
  BY DEF ChangeWidgets
<1>2. deferred = <<>> BY <1>1 DEF BasicInv, WidgetTypes
<1>3. DOMAIN Reset \subseteq DOMAIN value BY ResetIs DEF BasicInv
<1>4. /\ DOMAIN Over(Reset, value) = DOMAIN value
      /\ \A r \in DOMAIN value :
           Over(Reset, value)[r] = IF r \in DOMAIN Reset THEN Reset[r] ELSE value[r]
  BY <1>3 DEF Over
<1>5. /\ DOMAIN pending' = Systems(part)
      /\ next_screen = "Home" =>
           \A s \in Systems(part) : pending'[s] = pending[s] \cup Added[part] \cup DOMAIN Reset
  <2>1. /\ DOMAIN Mark(Added[part] \cup DOMAIN Reset) = Systems(part)
        /\ \A s \in Systems(part) : Mark(Added[part] \cup DOMAIN Reset)[s] =
                                       pending[s] \cup (Added[part] \cup DOMAIN Reset)
    BY MarkIs DEF BasicInv
  <2>2. DOMAIN Mark({"confirm"}) = Systems(part) BY MarkIs DEF BasicInv
  <2>. QED BY <1>1, <2>1, <2>2 DEF BasicInv, WidgetTypes
<1>6. Systems(part)' = Systems(part) BY <1>1 DEF Systems, InChain
<1>7. WidgetTypes'
  <2>1. DOMAIN value' = DOMAIN Defaults[part]' BY <1>1, <1>4 DEF BasicInv, WidgetTypes
  <2>2. DOMAIN <<>> = {} OBVIOUS
  <2>. QED BY <1>1, <1>2, <1>5, <1>6, <2>1, <2>2 DEF BasicInv, WidgetTypes, Settled
<1>8. QuietInv' BY <1>1 DEF QuietInv, SeenWrites, SeenAll
<1>9. screen'.on => next_screen = "Home" /\ screen'.again = screen.on
  BY <1>1 DEF BasicInv, WidgetTypes
<1>10. /\ next_screen = "Home" \/ part = "pause" =>
            \A r \in DOMAIN value :
              value'[r] = IF r \in DOMAIN Reset THEN Reset[r] ELSE value[r]
       /\ next_screen # "Home" /\ part # "pause" => value' = value
  BY <1>1, <1>4
<1>. QED BY <1>1, <1>2, <1>5, <1>7, <1>8, <1>9, <1>10 DEF BasicInv

\* What was spawned is there.
LEMMA FlushKeeps ==
  ASSUME BasicInv, Flush, part = "music" /\ screen.on /\ quiet >= 2 => deferred = <<>>
  PROVE  /\ BasicInv'
         /\ \A w \in DOMAIN drawn : Shown(w)' = Shown(w) /\ drawn'[w] = Shown(w)
         /\ deferred' = <<>>
         /\ \A s \in Systems(part) :
              pending'[s] = pending[s] \cup (IF "rows" \in DOMAIN deferred THEN {"MusicMasterRow"} ELSE {})
         /\ part \in {"devices", "music", "pause", "prompt"}
         /\ UNCHANGED <<part, screen, next_screen, value, ran, fresh, quiet>>
<1>1. /\ deferred # <<>> /\ deferred' = <<>> /\ drawn' = Over(deferred, drawn)
      /\ pending' = Mark(Rows)
      /\ UNCHANGED <<part, screen, next_screen, value, ran, fresh, quiet>>
  BY DEF Flush
<1>2. part \in {"devices", "music", "pause", "prompt"} /\ ran # {}
  BY <1>1 DEF BasicInv, WidgetTypes
<1>3. /\ DOMAIN Over(deferred, drawn) = DOMAIN drawn
      /\ \A w \in DOMAIN drawn : Over(deferred, drawn)[w] = Shown(w)
  BY DEF Over, Shown, BasicInv, WidgetTypes
<1>4. DOMAIN <<>> = {} OBVIOUS
<1>5. \A w \in DOMAIN drawn : Shown(w)' = Shown(w) /\ drawn'[w] = Shown(w)
  BY <1>1, <1>3, <1>4 DEF Shown
<1>6. DOMAIN pending' = Systems(part)
      /\ \A s \in Systems(part) : pending'[s] = pending[s] \cup Rows
  BY <1>1, MarkIs DEF BasicInv
<1>7. Systems(part)' = Systems(part) BY <1>1 DEF Systems, InChain
<1>8. WidgetTypes'
  BY <1>1, <1>2, <1>3, <1>4, <1>6, <1>7 DEF BasicInv, WidgetTypes
<1>9. QuietInv'
  <2>1. part # "music" => "rows" \notin DOMAIN deferred
    BY <1>2 DEF BasicInv, WidgetTypes, Spawned
  <2>2. screen.on /\ Rows # {} => ~(quiet >= 2) /\ Rows \subseteq Derived
    BY <1>1, <2>1 DEF Rows, Derived
  <2>3. quiet \in Nat BY DEF BasicInv, WidgetTypes, Settled
  <2>. SUFFICES ASSUME screen.on, NEW s \in Systems(part)
                PROVE  /\ SeenWrites(s)' => pending'[s] \subseteq Derived
                       /\ SeenAll(s)' => pending'[s] \subseteq {"needle"}
    BY <1>1, <1>7 DEF QuietInv
  <2>4. /\ SeenWrites(s) => pending[s] \subseteq Derived
        /\ SeenAll(s) => pending[s] \subseteq {"needle"}
    BY DEF BasicInv, QuietInv
  <2>. QED BY <1>1, <1>6, <2>2, <2>3, <2>4 DEF SeenWrites, SeenAll
<1>. QED BY <1>1, <1>2, <1>5, <1>6, <1>8, <1>9 DEF BasicInv, Rows

\* Each part moves with the screen and by its own systems and handlers.
FrameStep == BeginUpdate \/ EndFrame \/ Visit \/ Depart
TabsStep == Tabs \/ HandleTabClick
DevicesStep == DeviceList \/ DrainDevices \/ HandleRow
MusicStep == SettingsLists \/ MasterRows \/ MusicDetail \/ HandleMusicRows
PauseStep == ConfirmModal \/ ResumeLocked \/ HandleQuitToMain \/ HandleConfirm \/ DrainInterruption
PromptStep == PermissionModal \/ HandleNewGame \/ HandleModal \/ DrainAnswer
DialStep == \/ DialMetrics \/ RebuildSlots \/ ApplyState \/ HubSize \/ RepaintSlots
            \/ UpdateFromFeatures \/ DrainMusic \/ ResizeDial
HudStep == HudRefresh \/ HudText \/ DrainMusic

LEMMA PartMoves ==
  ASSUME WidgetTypes, WidgetsNext
  PROVE  \/ FrameStep \/ ChangeWidgets \/ Flush
         \/ part = "tabs" /\ TabsStep
         \/ part = "devices" /\ DevicesStep
         \/ part = "music" /\ MusicStep
         \/ part = "pause" /\ PauseStep
         \/ part = "prompt" /\ PromptStep
         \/ part = "dial" /\ DialStep
         \/ part = "hud" /\ HudStep
<1>1. part \in {"tabs", "devices", "music", "pause", "prompt", "dial", "hud"}
  BY DEF WidgetTypes, Chain
<1>2. \A s : Runs(s) => s \in Systems(part) BY DEF Runs
<1>3. /\ Tabs => part = "tabs"
      /\ DeviceList => part = "devices"
      /\ SettingsLists \/ MasterRows \/ MusicDetail => part = "music"
      /\ ConfirmModal \/ ResumeLocked => part = "pause"
      /\ PermissionModal => part = "prompt"
  BY <1>1, <1>2, SystemsOf
  DEF Tabs, DeviceList, SettingsLists, MasterRows, MusicDetail, ConfirmModal, ResumeLocked,
      PermissionModal, Draws, Spawns
<1>4. DialMetrics \/ RebuildSlots \/ ApplyState \/ HubSize \/ RepaintSlots \/ UpdateFromFeatures
        => part = "dial"
  BY <1>1, <1>2, SystemsOf
  DEF DialMetrics, RebuildSlots, ApplyState, HubSize, RepaintSlots, UpdateFromFeatures, Draws
<1>5. HudRefresh \/ HudText => part = "hud"
  BY <1>1, <1>2, SystemsOf DEF HudRefresh, HudText, Draws
<1>6. Sync => \/ FrameStep \/ ChangeWidgets \/ Flush
              \/ part = "tabs" /\ TabsStep
              \/ part = "devices" /\ DevicesStep
              \/ part = "music" /\ MusicStep
              \/ part = "pause" /\ PauseStep
              \/ part = "prompt" /\ PromptStep
              \/ part = "dial" /\ DialStep
              \/ part = "hud" /\ HudStep
  BY <1>3, <1>4, <1>5
  DEF Sync, FrameStep, TabsStep, DevicesStep, MusicStep, PauseStep, PromptStep, DialStep, HudStep
<1>7. /\ HandleTabClick => part = "tabs"
      /\ DrainDevices \/ HandleRow => part = "devices"
      /\ HandleMusicRows => part = "music"
      /\ HandleQuitToMain \/ HandleConfirm \/ DrainInterruption => part = "pause"
      /\ HandleNewGame \/ HandleModal \/ DrainAnswer => part = "prompt"
      /\ ResizeDial => part = "dial"
      /\ DrainMusic => part \in {"dial", "hud"}
  BY DEF HandleTabClick, DrainDevices, HandleRow, HandleMusicRows, HandleQuitToMain, HandleConfirm,
         DrainInterruption, HandleNewGame, HandleModal, DrainAnswer, ResizeDial, DrainMusic
<1>8. Writers => \/ FrameStep
                 \/ part = "tabs" /\ TabsStep
                 \/ part = "devices" /\ DevicesStep
                 \/ part = "music" /\ MusicStep
                 \/ part = "pause" /\ PauseStep
                 \/ part = "prompt" /\ PromptStep
                 \/ part = "dial" /\ DialStep
                 \/ part = "hud" /\ HudStep
  BY <1>7
  DEF Writers, FrameStep, TabsStep, DevicesStep, MusicStep, PauseStep, PromptStep, DialStep, HudStep
<1>. QED BY <1>6, <1>8 DEF WidgetsNext

LEMMA TabsKeeps ==
  ASSUME BasicInv, part = "tabs", TabsInv, FrameStep \/ ChangeWidgets \/ TabsStep
  PROVE  BasicInv' /\ TabsInv'
<1>0. /\ Systems(part) = {"sync_tab_visibility"}
      /\ DOMAIN value = {"tab"} /\ DOMAIN drawn = {"content", "button"}
  BY SystemsOf DEF BasicInv, WidgetTypes, Defaults, Spawned
<1>1. CASE FrameStep
  BY <1>1, FrameKeeps DEF FrameStep, TabsInv
<1>2. CASE ChangeWidgets
  <2>1. screen'.on => "tab" \in pending'["sync_tab_visibility"]
    BY <1>0, <1>2, ChangeKeeps, ResetIs DEF BasicInv
  <2>. QED BY <1>2, <2>1, ChangeKeeps DEF TabsInv
<1>3. CASE Tabs
  BY <1>0, <1>3, DrawsKeeps DEF Tabs, TabsInv
<1>4. CASE HandleTabClick
  <2>1. PICK tab : Write("tab", tab, "Unchanged") BY <1>4 DEF HandleTabClick, Handles
  <2>. QED BY <1>0, <2>1, WriteKeeps DEF TabsInv, NextScreens
<1>. QED BY <1>1, <1>2, <1>3, <1>4 DEF TabsStep

LEMMA DevicesKeeps ==
  ASSUME BasicInv, part = "devices", DevicesInv, FrameStep \/ ChangeWidgets \/ Flush \/ DevicesStep
  PROVE  BasicInv' /\ DevicesInv'
<1>. DEFINE s == "rebuild_device_list"
            watched == {"known", "selected", "mic"}
<1>0. /\ s \in Systems(part) /\ DOMAIN value = watched /\ DOMAIN drawn = {"list"}
  BY SystemsOf DEF BasicInv, WidgetTypes, Defaults, Spawned
<1>1. CASE FrameStep
  <2>1. BasicInv' /\ UNCHANGED <<screen, value, pending, drawn, deferred, fresh>>
    BY <1>1, FrameKeeps DEF FrameStep
  <2>2. DeviceRows' = DeviceRows BY <2>1 DEF DeviceRows, Row
  <2>. QED BY <2>1, <2>2 DEF DevicesInv, Shown
<1>2. CASE ChangeWidgets
  <2>1. Shown("list")' = {} /\ fresh' = {}
    BY <1>2, ChangeKeeps DEF Shown, Spawned
  <2>. QED BY <1>2, <2>1, ChangeKeeps DEF DevicesInv
<1>3. CASE Flush
  <2>1. Shown("list")' = Shown("list") BY <1>0, <1>3, FlushKeeps
  <2>2. DeviceRows' = DeviceRows BY <1>3, FlushKeeps DEF DeviceRows, Row
  <2>3. pending'[s] = pending[s] \cup (IF "rows" \in DOMAIN deferred THEN {"MusicMasterRow"} ELSE {})
    BY <1>0, <1>3, FlushKeeps
  <2>. QED BY <1>3, <2>1, <2>2, <2>3, FlushKeeps DEF DevicesInv
<1>4. CASE DeviceList
  <2>1. [list |-> DeviceRows] = [w \in {"list"} |-> DeviceRows] OBVIOUS
  <2>2. Spawns(s, watched, [list |-> DeviceRows]) BY <1>4 DEF DeviceList
  <2>3. /\ BasicInv' /\ pending'[s] = {}
        /\ pending[s] \cap watched = {} => deferred' = deferred
        /\ pending[s] \cap watched # {} => "list" \in DOMAIN deferred' /\ deferred'["list"] = DeviceRows
        /\ UNCHANGED <<value, drawn, fresh>> /\ screen.on
    <3>. HIDE DEF watched
    <3>. QED BY <1>0, <2>1, <2>2, SpawnsKeeps
  <2>4. DeviceRows' = DeviceRows BY <2>3 DEF DeviceRows, Row
  <2>. QED BY <2>3, <2>4 DEF DevicesInv, Shown
<1>5. CASE DrainDevices \/ HandleRow
  <2>1. PICK r \in watched : \E v : Write(r, v, "Unchanged")
    BY <1>5 DEF DrainDevices, HandleRow, Handles
  <2>2. PICK v : Write(r, v, "Unchanged") BY <2>1
  <2>3. BasicInv' /\ r \in pending'[s]
    BY <1>0, <2>2, WriteKeeps DEF NextScreens
  <2>. QED BY <2>1, <2>3 DEF DevicesInv
<1>. QED BY <1>1, <1>2, <1>3, <1>4, <1>5 DEF DevicesStep

LEMMA PromptKeeps ==
  ASSUME BasicInv, part = "prompt", PromptInv, FrameStep \/ ChangeWidgets \/ Flush \/ PromptStep
  PROVE  BasicInv' /\ PromptInv'
<1>. DEFINE s == "sync_permission_modal"
            watched == {"prompt"}
<1>0. /\ s \in Systems(part) /\ DOMAIN value = watched /\ DOMAIN drawn = {"modal"}
  BY SystemsOf DEF BasicInv, WidgetTypes, Defaults, Spawned
<1>1. CASE FrameStep
  BY <1>1, FrameKeeps DEF FrameStep, PromptInv, ModalOf, Shown
<1>2. CASE ChangeWidgets
  <2>1. Shown("modal")' = Absent /\ fresh' = {}
    BY <1>2, ChangeKeeps DEF Shown, Spawned
  <2>. QED BY <1>2, <2>1, ChangeKeeps DEF PromptInv
<1>3. CASE Flush
  <2>1. Shown("modal")' = Shown("modal") BY <1>0, <1>3, FlushKeeps
  <2>2. ModalOf(value.prompt)' = ModalOf(value.prompt) BY <1>3, FlushKeeps DEF ModalOf
  <2>3. pending'[s] = pending[s] \cup (IF "rows" \in DOMAIN deferred THEN {"MusicMasterRow"} ELSE {})
    BY <1>0, <1>3, FlushKeeps
  <2>. QED BY <1>3, <2>1, <2>2, <2>3, FlushKeeps DEF PromptInv
<1>4. CASE PermissionModal
  <2>1. [modal |-> ModalOf(value.prompt)] = [w \in {"modal"} |-> ModalOf(value.prompt)] OBVIOUS
  <2>2. Spawns(s, watched, [modal |-> ModalOf(value.prompt)]) BY <1>4 DEF PermissionModal
  <2>3. /\ BasicInv' /\ pending'[s] = {}
        /\ pending[s] \cap watched = {} => deferred' = deferred
        /\ pending[s] \cap watched # {} =>
             "modal" \in DOMAIN deferred' /\ deferred'["modal"] = ModalOf(value.prompt)
        /\ UNCHANGED <<value, drawn, fresh>> /\ screen.on
    <3>. HIDE DEF watched
    <3>. QED BY <1>0, <2>1, <2>2, SpawnsKeeps
  <2>4. ModalOf(value.prompt)' = ModalOf(value.prompt) BY <2>3 DEF ModalOf
  <2>. QED BY <2>3, <2>4 DEF PromptInv, Shown
<1>5. CASE HandleNewGame \/ HandleModal \/ DrainAnswer
  <2>1. \E goes \in {"Unchanged", "Away"} : \E v : Write("prompt", v, goes)
    <3>1. HandleNewGame \/ HandleModal => \E v : Write("prompt", v, "Unchanged")
      BY DEF HandleNewGame, HandleModal, Handles
    <3>2. DrainAnswer => \/ \E v : Write("prompt", v, "Unchanged")
                         \/ \E v : Write("prompt", v, "Away")
      BY DEF DrainAnswer, Handles
    <3>. QED BY <1>5, <3>1, <3>2
  <2>3. PICK goes \in NextScreens : \E v : Write("prompt", v, goes) BY <2>1 DEF NextScreens
  <2>0. PICK v : Write("prompt", v, goes) BY <2>3
  <2>2. BasicInv' /\ "prompt" \in pending'[s]
    BY <1>0, <2>0, WriteKeeps
  <2>. QED BY <2>2 DEF PromptInv
<1>. QED BY <1>1, <1>2, <1>3, <1>4, <1>5 DEF PromptStep

LEMMA PauseKeeps ==
  ASSUME BasicInv, part = "pause", PauseInv, FrameStep \/ ChangeWidgets \/ Flush \/ PauseStep
  PROVE  BasicInv' /\ PauseInv'
<1>. DEFINE c == "sync_confirm_modal"
            l == "sync_resume_locked"
<1>0. /\ Systems(part) = {c, l} /\ DOMAIN value = {"confirm", "locked"}
      /\ DOMAIN drawn = {"modal", "resume"} /\ c # l
  BY SystemsOf DEF BasicInv, WidgetTypes, Defaults, Spawned
<1>1. CASE FrameStep
  BY <1>1, FrameKeeps DEF FrameStep, PauseInv, Shown
<1>2. CASE ChangeWidgets
  <2>1. /\ BasicInv' /\ next_screen' = "Unchanged" /\ fresh' = {} /\ deferred' = <<>>
        /\ screen'.on => /\ "confirm" \in pending'[c]
                         /\ screen'.again \/ "locked" \in pending'[l]
    BY <1>0, <1>2, ChangeKeeps, ResetIs DEF BasicInv, PauseInv
  <2>2. DOMAIN <<>> = {} OBVIOUS
  <2>. QED BY <2>1, <2>2 DEF PauseInv
<1>3. CASE Flush
  <2>1. /\ Shown("modal")' = Shown("modal") /\ drawn'["resume"] = Shown("resume")
        /\ \A s \in Systems(part) : pending[s] \subseteq pending'[s]
        /\ BasicInv' /\ UNCHANGED <<screen, next_screen, value, fresh>>
    BY <1>0, <1>3, FlushKeeps
  <2>. QED BY <1>0, <1>3, <2>1, FlushKeeps DEF PauseInv, Shown
<1>4. CASE ConfirmModal
  <2>. DEFINE watched == {"confirm"}
  <2>1. [modal |-> value.confirm] = [w \in {"modal"} |-> value.confirm] OBVIOUS
  <2>2. Spawns(c, watched, [modal |-> value.confirm]) BY <1>4 DEF ConfirmModal
  <2>3. /\ BasicInv'
        /\ pending'[c] = {} /\ \A t \in Systems(part) : t # c => pending'[t] = pending[t]
        /\ pending[c] \cap watched = {} => deferred' = deferred
        /\ pending[c] \cap watched # {} => /\ DOMAIN deferred' = DOMAIN deferred \cup {"modal"}
                                          /\ deferred'["modal"] = value.confirm
        /\ screen.on
        /\ UNCHANGED <<screen, next_screen, value, drawn, fresh>>
    <3>1. c \in Systems(part) /\ "modal" \in DOMAIN drawn BY <1>0
    <3>. HIDE DEF c, watched
    <3>. QED BY <2>1, <2>2, <3>1, SpawnsKeeps
  <2>. QED BY <1>0, <2>3 DEF PauseInv, Shown
<1>5. CASE ResumeLocked
  BY <1>0, <1>5, DrawsKeeps DEF ResumeLocked, PauseInv, Shown
<1>6. CASE HandleQuitToMain \/ HandleConfirm \/ DrainInterruption
  <2>1. PICK r \in {"confirm", "locked"}, goes \in NextScreens :
          (r = "locked" \/ goes # "Home") /\ \E v : Write(r, v, goes)
    <3>1. HandleQuitToMain => \E v : Write("confirm", v, "Unchanged")
      BY DEF HandleQuitToMain, Handles
    <3>2. HandleConfirm => \/ \E v : Write("confirm", v, "Unchanged")
                           \/ \E v : Write("confirm", v, "Away")
      BY DEF HandleConfirm, Handles
    <3>3. DrainInterruption => \/ \E v : Write("locked", v, "Unchanged")
                               \/ \E v : Write("locked", v, "Home")
      BY DEF DrainInterruption
    <3>. QED BY <1>6, <3>1, <3>2, <3>3 DEF NextScreens
  <2>0. PICK v : Write(r, v, goes) BY <2>1
  <2>2. /\ BasicInv' /\ \A t \in Systems(part) : pending'[t] = pending[t] \cup {r}
        /\ value' = [value EXCEPT ![r] = v] /\ fresh' = fresh \cup {r}
        /\ next_screen' \in {goes, next_screen} /\ UNCHANGED <<screen, drawn, deferred>>
    BY <1>0, <2>0, WriteKeeps
  <2>. QED BY <1>0, <2>1, <2>2 DEF PauseInv, Shown
<1>. QED BY <1>1, <1>2, <1>3, <1>4, <1>5, <1>6 DEF PauseStep

\* The rows are marked again as they are, and so stay the rows of the settings.
LEMMA RemarkedShow ==
  ASSUME NEW settings, RowsShow(drawn.rows, settings)
  PROVE  RowsShow(Remarked, settings)
<1>. DEFINE Row2(r) == [r EXCEPT !.marked = r.row = value.selection]
            All == [row : RowNames, shows : {settings}, marked : BOOLEAN]
<1>1. \A r \in All : Row2(r) \in All /\ Row2(r).row = r.row
  OBVIOUS
<1>2. Remarked = {Row2(r) : r \in drawn.rows} BY DEF Remarked
<1>3. drawn.rows \subseteq All /\ \A name \in RowNames : \E r \in drawn.rows : r.row = name
  BY DEF RowsShow
<1>. HIDE DEF Row2, All
<1>4. Remarked \subseteq All /\ \A name \in RowNames : \E r \in Remarked : r.row = name
  BY <1>1, <1>2, <1>3
<1>. QED BY <1>4 DEF RowsShow, All

LEMMA MusicKeeps ==
  ASSUME BasicInv, part = "music", MusicInv, FrameStep \/ ChangeWidgets \/ Flush \/ MusicStep
  PROVE  BasicInv' /\ MusicInv'
<1>. DEFINE p == "rebuild_settings_list"
            m == "rebuild_master_rows"
            d == "sync_music_detail"
            pickers == {"settings", "ReferenceHzList", "TuningKindList"}
            master == {"settings", "MusicMasterPane"}
            detail == {"selection", "ReferenceHzList", "TuningKindList", "MusicMasterRow"}
<1>0. /\ Systems(part) = {p, m, d} /\ DOMAIN value = {"settings", "selection"}
      /\ DOMAIN drawn = {"pickers", "rows", "detail"} /\ p # m /\ p # d /\ m # d
      /\ DOMAIN deferred \subseteq {"pickers", "rows"}
  BY SystemsOf DEF BasicInv, WidgetTypes, Defaults, Spawned, MusicInv
<1>1. CASE FrameStep
  <2>1. /\ BasicInv'
        /\ quiet' >= 2 => quiet >= 2 \/ deferred = <<>>
        /\ UNCHANGED <<screen, value, pending, drawn, deferred>>
    BY <1>1, FrameKeeps DEF FrameStep
  <2>. QED BY <2>1 DEF MusicInv, Shown
<1>2. CASE ChangeWidgets
  <2>1. /\ BasicInv' /\ deferred' = <<>>
        /\ screen'.on => /\ "ReferenceHzList" \in pending'[p] /\ "MusicMasterPane" \in pending'[m]
                         /\ "ReferenceHzList" \in pending'[d]
    BY <1>0, <1>2, ChangeKeeps DEF Added
  <2>2. DOMAIN <<>> = {} OBVIOUS
  <2>3. drawn'.rows = {} BY <1>2, ChangeKeeps DEF Spawned
  <2>. QED BY <2>1, <2>2, <2>3 DEF MusicInv, Shown, AreRows
<1>3. CASE Flush
  <2>1. /\ \A w \in DOMAIN drawn : Shown(w)' = Shown(w) /\ drawn'[w] = Shown(w)
        /\ \A s \in Systems(part) : pending'[s] =
             pending[s] \cup (IF "rows" \in DOMAIN deferred THEN {"MusicMasterRow"} ELSE {})
        /\ BasicInv' /\ deferred' = <<>> /\ UNCHANGED <<screen, value>>
    BY <1>3, FlushKeeps DEF MusicInv
  <2>2. DOMAIN <<>> = {} OBVIOUS
  <2>3. drawn'.detail = drawn.detail /\ ("rows" \notin DOMAIN deferred => drawn'.rows = drawn.rows)
    BY <1>0, <2>1 DEF Shown
  <2>4. /\ pending[p] \subseteq pending'[p] /\ pending[m] \subseteq pending'[m]
        /\ pending[d] \subseteq pending'[d]
        /\ "rows" \in DOMAIN deferred => "MusicMasterRow" \in pending'[d]
    BY <1>0, <2>1
  <2>. QED BY <1>0, <2>1, <2>2, <2>3, <2>4 DEF MusicInv
<1>4. CASE SettingsLists
  <2>1. [pickers |-> value.settings] = [w \in {"pickers"} |-> value.settings] OBVIOUS
  <2>2. Spawns(p, pickers, [pickers |-> value.settings]) BY <1>4 DEF SettingsLists
  <2>3. /\ BasicInv'
        /\ pending'[p] = {} /\ \A t \in Systems(part) : t # p => pending'[t] = pending[t]
        /\ pending[p] \cap pickers = {} => deferred' = deferred
        /\ pending[p] \cap pickers # {} => /\ DOMAIN deferred' = DOMAIN deferred \cup {"pickers"}
                                          /\ deferred'["pickers"] = value.settings
        /\ \A w \in DOMAIN deferred : w # "pickers" => deferred'[w] = deferred[w]
        /\ screen.on
        /\ UNCHANGED <<screen, quiet, value, drawn>>
    <3>1. p \in Systems(part) /\ "pickers" \in DOMAIN drawn BY <1>0
    <3>. DEFINE spawning == [pickers |-> value.settings]
    <3>2. spawning = [w \in {"pickers"} |-> value.settings] BY <2>1
    <3>3. Spawns(p, pickers, spawning) BY <2>2
    <3>4. part \in {"devices", "music", "pause", "prompt"} OBVIOUS
    <3>. HIDE DEF p, pickers, spawning
    <3>5. /\ BasicInv'
          /\ pending'[p] = {} /\ \A t \in Systems(part) : t # p => pending'[t] = pending[t]
          /\ pending[p] \cap pickers = {} => deferred' = deferred
          /\ pending[p] \cap pickers # {} => /\ DOMAIN deferred' = DOMAIN deferred \cup {"pickers"}
                                            /\ deferred'["pickers"] = value.settings
          /\ \A w \in DOMAIN deferred : w # "pickers" => deferred'[w] = deferred[w]
          /\ ran' = ran \cup {p} /\ p \notin ran /\ "Update" \in ran /\ screen.on
          /\ UNCHANGED <<part, screen, next_screen, quiet, value, drawn, fresh>>
      BY <3>1, <3>2, <3>3, <3>4, SpawnsKeeps
    <3>. QED BY <3>5
  <2>4. quiet >= 2 => pending[p] \cap pickers = {}
    BY <1>0, <2>3 DEF BasicInv, QuietInv, SeenWrites, Derived
  <2>. QED BY <1>0, <2>3, <2>4 DEF MusicInv, Shown
<1>5. CASE MasterRows
  <2>. DEFINE spawned == Highlighted({"ReferenceHz", "TuningKind"}, value.settings)
  <2>1. [rows |-> spawned] = [w \in {"rows"} |-> spawned] OBVIOUS
  <2>2. Spawns(m, master, [rows |-> spawned]) BY <1>5 DEF MasterRows
  <2>3. /\ BasicInv'
        /\ pending'[m] = {} /\ \A t \in Systems(part) : t # m => pending'[t] = pending[t]
        /\ pending[m] \cap master = {} => deferred' = deferred
        /\ pending[m] \cap master # {} => /\ DOMAIN deferred' = DOMAIN deferred \cup {"rows"}
                                         /\ deferred'["rows"] = spawned
        /\ \A w \in DOMAIN deferred : w # "rows" => deferred'[w] = deferred[w]
        /\ screen.on
        /\ UNCHANGED <<screen, quiet, value, drawn>>
    <3>1. m \in Systems(part) /\ "rows" \in DOMAIN drawn BY <1>0
    <3>. DEFINE spawning == [rows |-> spawned]
    <3>2. spawning = [w \in {"rows"} |-> spawned] BY <2>1
    <3>3. Spawns(m, master, spawning) BY <2>2
    <3>4. part \in {"devices", "music", "pause", "prompt"} OBVIOUS
    <3>. HIDE DEF m, master, spawned, spawning
    <3>5. /\ BasicInv'
          /\ pending'[m] = {} /\ \A t \in Systems(part) : t # m => pending'[t] = pending[t]
          /\ pending[m] \cap master = {} => deferred' = deferred
          /\ pending[m] \cap master # {} => /\ DOMAIN deferred' = DOMAIN deferred \cup {"rows"}
                                           /\ deferred'["rows"] = spawned
          /\ \A w \in DOMAIN deferred : w # "rows" => deferred'[w] = deferred[w]
          /\ ran' = ran \cup {m} /\ m \notin ran /\ "Update" \in ran /\ screen.on
          /\ UNCHANGED <<part, screen, next_screen, quiet, value, drawn, fresh>>
      BY <3>1, <3>2, <3>3, <3>4, SpawnsKeeps
    <3>. QED BY <3>5
  <2>4. quiet >= 2 => pending[m] \cap master = {}
    BY <1>0, <2>3 DEF BasicInv, QuietInv, SeenWrites, Derived
  <2>6. AreRows(spawned) BY DEF AreRows, Highlighted
  <2>5. RowsShow(spawned, value.settings) 
    <3>1. spawned = {[row |-> name, shows |-> value.settings, marked |-> name = value.selection] :
                       name \in RowNames}
      BY DEF Highlighted, RowNames
    <3>. DEFINE RowOf(name) ==
                  [row |-> name, shows |-> value.settings, marked |-> name = value.selection]
                All == [row : RowNames, shows : {value.settings}, marked : BOOLEAN]
    <3>2. \A name \in RowNames : RowOf(name) \in All /\ RowOf(name).row = name
      OBVIOUS
    <3>3. spawned = {RowOf(name) : name \in RowNames} BY <3>1
    <3>. HIDE DEF spawned, RowOf, All
    <3>4. spawned \subseteq All BY <3>2, <3>3
    <3>5. \A name \in RowNames : \E r \in spawned : r.row = name BY <3>2, <3>3
    <3>. QED BY <3>4, <3>5 DEF RowsShow, All
  <2>. HIDE DEF spawned
  <2>. QED BY <1>0, <2>3, <2>4, <2>5, <2>6 DEF MusicInv, Shown
<1>6. CASE MusicDetail
  <2>. DEFINE drawing == [drawn EXCEPT !.detail = value.selection, !.rows = Remarked]
  <2>1. Draws(d, detail, drawing) BY <1>6 DEF MusicDetail
  <2>2. /\ BasicInv'
        /\ pending'[d] = {} /\ \A t \in Systems(part) : t # d => pending'[t] = pending[t]
        /\ drawn' = IF pending[d] \cap detail # {} THEN drawing ELSE drawn
        /\ screen.on
        /\ UNCHANGED <<screen, quiet, value, deferred>>
    <3>1. d \in Systems(part) /\ DOMAIN drawing = DOMAIN drawn BY <1>0
    <3>. HIDE DEF d, detail, drawing
    <3>. QED BY <2>1, <3>1, DrawsKeeps
  <2>3. /\ drawing.detail = value.selection /\ drawing.rows = Remarked
        /\ drawing.pickers = drawn.pickers
    BY <1>0
  <2>4. AreRows(Remarked) /\ \A r \in Remarked : r.marked = (r.row = value.selection)
    <3>. SUFFICES ASSUME NEW q \in drawn.rows,
                         NEW r, r = [q EXCEPT !.marked = q.row = value.selection]
                  PROVE  {"row", "marked"} \subseteq DOMAIN r /\ r.marked = (r.row = value.selection)
      BY DEF Remarked, AreRows
    <3>1. {"row", "marked"} \subseteq DOMAIN q BY DEF MusicInv, AreRows
    <3>. QED BY <3>1
  <2>. HIDE DEF drawing
  <2>5. Shown("pickers")' = Shown("pickers")
    BY <1>0, <2>2, <2>3 DEF Shown
  <2>6. RowsShow(Shown("rows"), value.settings) => RowsShow(Shown("rows")', value.settings)
    BY <1>0, <2>2, <2>3, RemarkedShow DEF Shown
  <2>. QED BY <1>0, <2>2, <2>3, <2>4, <2>5, <2>6 DEF MusicInv, AreRows, Shown
<1>7. CASE HandleMusicRows
  <2>1. PICK r \in DOMAIN value : \E v : Write(r, v, "Unchanged")
    BY <1>0, <1>7 DEF HandleMusicRows, Handles
  <2>2. PICK v : Write(r, v, "Unchanged") BY <2>1
  <2>3. /\ BasicInv' /\ \A t \in Systems(part) : pending'[t] = pending[t] \cup {r}
        /\ value' = [value EXCEPT ![r] = v] /\ quiet' = 0
        /\ UNCHANGED <<screen, drawn, deferred>>
    BY <1>0, <2>2, WriteKeeps DEF NextScreens
  <2>. QED BY <1>0, <2>1, <2>3 DEF MusicInv, Shown, AreRows
<1>. QED BY <1>1, <1>2, <1>3, <1>4, <1>5, <1>6, <1>7 DEF MusicStep

DialNames ==
    /\ part = "dial"
    /\ Systems(part) = {"update_dial_metrics", "rebuild_slots", "apply_state", "update_hub_size",
                        "repaint_slots", "update_from_features"}
    /\ DOMAIN value = {"music", "sung", "box", "scale", "needle", "k"}
    /\ DOMAIN drawn = {"slots", "size", "paint", "needle", "hub"}

LEMMA DialIsNamed ==
  ASSUME BasicInv, part = "dial"
  PROVE  DialNames
BY SystemsOf DEF BasicInv, WidgetTypes, Defaults, Spawned, DialNames

\* Frames, visits and writes.
LEMMA DialWaits ==
  ASSUME BasicInv, part = "dial", DialInv, FrameStep \/ ChangeWidgets \/ DrainMusic \/ ResizeDial
  PROVE  BasicInv' /\ DialInv'
<1>0. DialNames BY DialIsNamed
<1>1. CASE FrameStep
  <2>1. /\ BasicInv'
        /\ \A s \in Systems(part) :
              screen.on => (SeenWrites(s)' => SeenWrites(s)) /\ (SeenAll(s)' => SeenAll(s))
        /\ ran' = {} \/ ran' = {"Update"} \/ ran' = ran
        /\ UNCHANGED <<part, screen, value, pending, drawn, fresh>>
    BY <1>1, FrameKeeps DEF FrameStep
  <2>2. screen.on => /\ SeenWrites("repaint_slots")' => SeenWrites("repaint_slots")
                     /\ SeenWrites("update_from_features")' => SeenWrites("update_from_features")
                     /\ SeenAll("apply_state")' => SeenAll("apply_state")
    BY <1>0, <2>1 DEF DialNames
  <2>. HIDE DEF SeenWrites, SeenAll
  <2>3. MeasuredInv' BY <2>1 DEF DialInv, MeasuredInv
  <2>4. SlotsInv' BY <2>1, <2>2 DEF DialInv, SlotsInv
  <2>5. ColoursInv' BY <2>1 DEF DialInv, ColoursInv, BetweenTheTwo
  <2>6. NeedleInv' BY <2>1, <2>2 DEF DialInv, NeedleInv, NeedleNow
  <2>. QED BY <2>1, <2>3, <2>4, <2>5, <2>6 DEF DialInv
<1>2. CASE ChangeWidgets
  <2>1. /\ BasicInv' /\ quiet' = 0 /\ ran' = {}
        /\ screen'.on => \A s \in Systems(part) : {"box", "scale", "needle", "k"} \subseteq pending'[s]
    BY <1>2, ChangeKeeps DEF Added
  <2>2. Reset = [scale |-> Absent, needle |-> Absent, k |-> 0] BY ResetIs DEF BasicInv
  <2>3. next_screen = "Home" \/ (value' = value /\ pending' = pending)
    BY <1>2, <2>2 DEF ChangeWidgets
  <2>4. next_screen = "Home" => value'.scale = Absent
    BY <1>0, <1>2, <2>2, ChangeKeeps DEF DialNames
  <2>5. MeasuredInv' BY <1>0, <2>1 DEF DialNames, MeasuredInv
  <2>6. SlotsInv' BY <1>0, <2>1, <2>3, <2>4 DEF DialNames, DialInv, SlotsInv, SeenWrites
  <2>7. ColoursInv' BY <1>0, <2>1 DEF DialNames, ColoursInv, BetweenTheTwo
  <2>8. NeedleInv' BY <1>0, <2>1 DEF DialNames, NeedleInv, SeenWrites, SeenAll
  <2>. QED BY <2>1, <2>5, <2>6, <2>7, <2>8 DEF DialInv
<1>3. CASE DrainMusic \/ ResizeDial
  <2>1. PICK r \in {"music", "sung", "box"} : \E v : Write(r, v, "Unchanged")
    BY <1>3 DEF DrainMusic, ResizeDial
  <2>2. PICK v : Write(r, v, "Unchanged") BY <2>1
  <2>3. /\ BasicInv' /\ \A t \in Systems(part) : pending'[t] = pending[t] \cup {r}
        /\ value' = [value EXCEPT ![r] = v] /\ fresh' = fresh \cup {r} /\ quiet' = 0
        /\ UNCHANGED <<part, screen, drawn, ran>>
    BY <1>0, <2>1, <2>2, WriteKeeps DEF NextScreens, DialNames
  <2>4. MeasuredInv' BY <1>0, <2>1, <2>3 DEF DialNames, DialInv, MeasuredInv
  <2>5. SlotsInv' BY <1>0, <2>1, <2>3 DEF DialNames, DialInv, SlotsInv, SeenWrites
  <2>6. ColoursInv' BY <1>0, <2>1, <2>3 DEF DialNames, DialInv, ColoursInv, BetweenTheTwo
  <2>7. NeedleInv' BY <1>0, <2>1, <2>3 DEF DialNames, DialInv, NeedleInv, SeenWrites, SeenAll
  <2>. QED BY <2>3, <2>4, <2>5, <2>6, <2>7 DEF DialInv
<1>. QED BY <1>1, <1>2, <1>3

\* The systems that draw.
LEMMA DialDraws ==
  ASSUME BasicInv, part = "dial", DialInv, RebuildSlots \/ ApplyState \/ HubSize
  PROVE  BasicInv' /\ DialInv'
<1>0. DialNames BY DialIsNamed
<1>1. CASE RebuildSlots
  <2>. DEFINE s == "rebuild_slots"
              watched == {"scale", "k"}
              drawing == [drawn EXCEPT !.slots = value.scale, !.size = value.k, !.paint = Absent]
  <2>1. Draws(s, watched, drawing) /\ s \in Systems(part) /\ DOMAIN drawing = DOMAIN drawn
    BY <1>0, <1>1 DEF RebuildSlots, DialNames
  <2>2. /\ BasicInv'
        /\ pending'[s] = {} /\ \A t \in Systems(part) : t # s => pending'[t] = pending[t]
        /\ drawn' = IF pending[s] \cap watched # {} THEN drawing ELSE drawn
        /\ ran' = ran \cup {s} /\ screen.on
        /\ UNCHANGED <<part, screen, quiet, value, fresh>>
    <3>. HIDE DEF s, watched, drawing
    <3>. QED BY <2>1, DrawsKeeps
  <2>3. "update_dial_metrics" \in ran
    BY <1>1, DialOrder DEF RebuildSlots, Draws
  <2>4. MeasuredInv' BY <1>0, <2>2, <2>3 DEF DialNames, DialInv, MeasuredInv
  <2>5. SlotsInv' BY <1>0, <2>2 DEF DialNames, DialInv, SlotsInv, SeenWrites
  <2>6. ColoursInv' BY <1>0, <2>2 DEF DialNames, DialInv, ColoursInv, BetweenTheTwo
  <2>7. NeedleInv' BY <1>0, <2>2 DEF DialNames, DialInv, NeedleInv, SeenWrites, SeenAll, NeedleNow
  <2>. QED BY <2>2, <2>4, <2>5, <2>6, <2>7 DEF DialInv
<1>2. CASE ApplyState
  <2>. DEFINE s == "apply_state"
              watched == {"needle", "scale", "k"}
              drawing == [drawn EXCEPT !.paint = value.scale, !.needle = value.needle]
  <2>1. Draws(s, watched, drawing) /\ s \in Systems(part) /\ DOMAIN drawing = DOMAIN drawn
    BY <1>0, <1>2 DEF ApplyState, DialNames
  <2>2. /\ BasicInv'
        /\ pending'[s] = {} /\ \A t \in Systems(part) : t # s => pending'[t] = pending[t]
        /\ drawn' = IF pending[s] \cap watched # {} THEN drawing ELSE drawn
        /\ ran' = ran \cup {s} /\ s \notin ran /\ screen.on
        /\ UNCHANGED <<part, screen, quiet, value, fresh>>
    <3>. HIDE DEF s, watched, drawing
    <3>. QED BY <2>1, DrawsKeeps
  <2>3. BetweenTheTwo
    BY <1>2, <2>2, DialOrder DEF ApplyState, Draws, BetweenTheTwo
  <2>4. MeasuredInv' BY <1>0, <2>2, <2>3 DEF DialNames, DialInv, MeasuredInv
  <2>5. SlotsInv' BY <1>0, <2>2 DEF DialNames, DialInv, SlotsInv, SeenWrites
  <2>6. ColoursInv' BY <1>0, <2>2, <2>3 DEF DialNames, DialInv, ColoursInv, BetweenTheTwo
  <2>7. drawn'.needle = value.needle BY <1>0, <2>2 DEF DialNames, DialInv, NeedleInv
  <2>8. SeenAll(s)' => quiet >= 2 BY <2>2 DEF SeenAll, BasicInv, WidgetTypes, Settled
  <2>9. NeedleInv'
    BY <1>0, <2>2, <2>7, <2>8 DEF DialNames, DialInv, NeedleInv, SeenWrites, NeedleNow
  <2>. QED BY <2>2, <2>4, <2>5, <2>6, <2>9 DEF DialInv
<1>3. CASE HubSize
  <2>. DEFINE s == "update_hub_size"
              watched == {"k"}
              drawing == [drawn EXCEPT !.hub = value.k]
  <2>1. Draws(s, watched, drawing) /\ s \in Systems(part) /\ DOMAIN drawing = DOMAIN drawn
    BY <1>0, <1>3 DEF HubSize, DialNames
  <2>2. /\ BasicInv'
        /\ pending'[s] = {} /\ \A t \in Systems(part) : t # s => pending'[t] = pending[t]
        /\ drawn' = IF pending[s] \cap watched # {} THEN drawing ELSE drawn
        /\ ran' = ran \cup {s} /\ screen.on
        /\ UNCHANGED <<part, screen, quiet, value, fresh>>
    <3>. HIDE DEF s, watched, drawing
    <3>. QED BY <2>1, DrawsKeeps
  <2>4. MeasuredInv' BY <1>0, <2>2 DEF DialNames, DialInv, MeasuredInv
  <2>5. SlotsInv' BY <1>0, <2>2 DEF DialNames, DialInv, SlotsInv, SeenWrites
  <2>6. ColoursInv' BY <1>0, <2>2 DEF DialNames, DialInv, ColoursInv, BetweenTheTwo
  <2>7. NeedleInv' BY <1>0, <2>2 DEF DialNames, DialInv, NeedleInv, SeenWrites, SeenAll, NeedleNow
  <2>. QED BY <2>2, <2>4, <2>5, <2>6, <2>7 DEF DialInv
<1>. QED BY <1>1, <1>2, <1>3

\* The systems that change the dial: not two frames after the last write, but for a needle.
LEMMA DialChanges ==
  ASSUME BasicInv, part = "dial", DialInv, DialMetrics \/ RepaintSlots \/ UpdateFromFeatures
  PROVE  BasicInv' /\ DialInv'
<1>0. DialNames BY DialIsNamed
<1>1. CASE DialMetrics
  <2>. DEFINE s == "update_dial_metrics"
  <2>1. Runs(s) /\ UNCHANGED <<drawn, deferred, fresh>> BY <1>1 DEF DialMetrics
  <2>2. PICK things \in {{}, {"k"}} :
          /\ pending' = Looked(s, things)
          /\ things = {} => value' = value /\ "box" \notin pending[s]
          /\ things = {"k"} => value' = [value EXCEPT !.k = value.box] /\ "box" \in pending[s]
    BY <1>1 DEF DialMetrics, Sees
  <2>3. quiet >= 2 => things \subseteq {"needle"}
    BY <1>0, <2>1, <2>2 DEF DialNames, BasicInv, QuietInv, SeenWrites, Derived, Runs
  <2>4. /\ BasicInv' /\ pending'[s] = {}
        /\ \A t \in Systems(part) : t # s => pending'[t] = pending[t] \cup things
        /\ ran' = ran \cup {s} /\ s \notin ran /\ screen.on
        /\ UNCHANGED <<part, screen, quiet>>
    <3>1. /\ s \in Systems(part) /\ things \in SUBSET Derived
          /\ DOMAIN value' = DOMAIN value
          /\ DOMAIN drawn' = DOMAIN drawn /\ DOMAIN deferred' \subseteq DOMAIN drawn
          /\ deferred' = deferred
      BY <1>0, <2>1, <2>2 DEF DialNames, Derived, BasicInv, WidgetTypes
    <3>. HIDE DEF s
    <3>. QED BY <2>1, <2>2, <2>3, <3>1, LookKeeps
  <2>5. /\ value'.k = value.box \/ (value'.k = value.k /\ things = {} /\ "box" \notin pending[s])
        /\ \A r \in DOMAIN value : r # "k" => value'[r] = value[r]
    BY <1>0, <2>2 DEF DialNames
  <2>6. MeasuredInv' BY <1>0, <2>1, <2>2, <2>4, <2>5 DEF DialNames, DialInv, MeasuredInv
  <2>7. SlotsInv' BY <1>0, <2>1, <2>2, <2>4, <2>5 DEF DialNames, DialInv, SlotsInv, SeenWrites
  <2>8. ~BetweenTheTwo' BY <2>4 DEF DialInv, MeasuredInv, BetweenTheTwo
  <2>9. ColoursInv' BY <1>0, <2>1, <2>2, <2>4, <2>5, <2>8 DEF DialNames, DialInv, ColoursInv
  <2>10. NeedleInv'
    BY <1>0, <2>1, <2>2, <2>4, <2>5 DEF DialNames, DialInv, NeedleInv, SeenWrites, SeenAll, NeedleNow
  <2>. QED BY <2>4, <2>6, <2>7, <2>9, <2>10 DEF DialInv
<1>2. CASE RepaintSlots
  <2>. DEFINE s == "repaint_slots"
  <2>1. Runs(s) /\ UNCHANGED <<drawn, deferred>> BY <1>2 DEF RepaintSlots
  <2>2. PICK things \in {{}, {"scale"}} :
          /\ pending' = Looked(s, things)
          /\ things = {} => /\ value' = value /\ fresh' = fresh
                            /\ value.music = Absent \/ ("music" \notin pending[s] /\ value.scale # Absent)
          /\ things = {"scale"} => /\ value' = [value EXCEPT !.scale = value.music]
                                   /\ fresh' = fresh \cup (IF BetweenTheTwo THEN {"torn"} ELSE {})
                                   /\ value.music # Absent
                                   /\ "music" \in pending[s] \/ value.scale = Absent
    BY <1>2 DEF RepaintSlots, Sees
  <2>3. quiet >= 2 => things \subseteq {"needle"}
    BY <1>0, <2>1, <2>2 DEF DialNames, BasicInv, QuietInv, SeenWrites, Derived, Runs, DialInv, SlotsInv
  <2>4. /\ BasicInv' /\ pending'[s] = {}
        /\ \A t \in Systems(part) : t # s => pending'[t] = pending[t] \cup things
        /\ ran' = ran \cup {s} /\ s \notin ran /\ screen.on
        /\ UNCHANGED <<part, screen, quiet>>
    <3>1. /\ s \in Systems(part) /\ things \in SUBSET Derived
          /\ DOMAIN value' = DOMAIN value
          /\ DOMAIN drawn' = DOMAIN drawn /\ DOMAIN deferred' \subseteq DOMAIN drawn
          /\ deferred' = deferred
      BY <1>0, <2>1, <2>2 DEF DialNames, Derived, BasicInv, WidgetTypes
    <3>. HIDE DEF s
    <3>. QED BY <2>1, <2>2, <2>3, <3>1, LookKeeps
  <2>5. /\ \A r \in DOMAIN value : r # "scale" => value'[r] = value[r]
        /\ value.music # Absent => value'.scale = value.music
        /\ things = {} => value'.scale = value.scale
    BY <1>0, <2>2 DEF DialNames, DialInv, SlotsInv
  <2>6. MeasuredInv' BY <1>0, <2>1, <2>2, <2>4, <2>5 DEF DialNames, DialInv, MeasuredInv
  <2>7. SlotsInv' BY <1>0, <2>1, <2>2, <2>4, <2>5 DEF DialNames, DialInv, SlotsInv
  <2>9. ColoursInv' BY <1>0, <2>1, <2>2, <2>4, <2>5 DEF DialNames, DialInv, ColoursInv, BetweenTheTwo
  <2>10. NeedleInv'
    BY <1>0, <2>1, <2>2, <2>4, <2>5 DEF DialNames, DialInv, NeedleInv, SeenWrites, SeenAll, NeedleNow
  <2>. QED BY <2>4, <2>6, <2>7, <2>9, <2>10 DEF DialInv
<1>3. CASE UpdateFromFeatures
  <2>. DEFINE s == "update_from_features"
  <2>1. Runs(s) /\ UNCHANGED <<drawn, deferred, fresh>> BY <1>3 DEF UpdateFromFeatures
  <2>2. PICK things \in {{}, {"needle"}} :
          /\ pending' = Looked(s, things)
          /\ value' = [value EXCEPT !.needle = NeedleNow]
          /\ things = {} => value.needle = NeedleNow
    BY <1>3 DEF UpdateFromFeatures
  <2>4. /\ BasicInv' /\ pending'[s] = {}
        /\ \A t \in Systems(part) : t # s => pending'[t] = pending[t] \cup things
        /\ ran' = ran \cup {s} /\ s \notin ran /\ screen.on
        /\ UNCHANGED <<part, screen, quiet>>
    <3>1. /\ s \in Systems(part) /\ things \in SUBSET Derived /\ things \subseteq {"needle"}
          /\ DOMAIN value' = DOMAIN value
          /\ DOMAIN drawn' = DOMAIN drawn /\ DOMAIN deferred' \subseteq DOMAIN drawn
          /\ deferred' = deferred
      BY <1>0, <2>1, <2>2 DEF DialNames, Derived, BasicInv, WidgetTypes
    <3>. HIDE DEF s
    <3>. QED BY <2>1, <2>2, <3>1, LookKeeps
  <2>5. /\ \A r \in DOMAIN value : r # "needle" => value'[r] = value[r]
        /\ value'.needle = NeedleNow /\ (things = {} => value'.needle = value.needle)
    BY <1>0, <2>2 DEF DialNames
  <2>6. NeedleNow' = NeedleNow BY <1>0, <2>5 DEF DialNames, NeedleNow
  <2>7. MeasuredInv' BY <1>0, <2>1, <2>2, <2>4, <2>5 DEF DialNames, DialInv, MeasuredInv
  <2>8. SlotsInv' BY <1>0, <2>1, <2>2, <2>4, <2>5 DEF DialNames, DialInv, SlotsInv, SeenWrites
  <2>9. ColoursInv' BY <1>0, <2>1, <2>2, <2>4, <2>5 DEF DialNames, DialInv, ColoursInv, BetweenTheTwo
  <2>10. NeedleInv'
    BY <1>0, <2>1, <2>2, <2>4, <2>5, <2>6 DEF DialNames, DialInv, NeedleInv, SeenWrites, SeenAll
  <2>. QED BY <2>4, <2>7, <2>8, <2>9, <2>10 DEF DialInv
<1>. QED BY <1>1, <1>2, <1>3

LEMMA HudKeeps ==
  ASSUME BasicInv, part = "hud", HudInv, FrameStep \/ ChangeWidgets \/ HudStep
  PROVE  BasicInv' /\ HudInv'
<1>0. /\ Systems(part) = {"refresh", "sync_text"}
      /\ DOMAIN value = {"music", "scene"} /\ DOMAIN drawn = {"text"}
  BY SystemsOf DEF BasicInv, WidgetTypes, Defaults, Spawned
<1>1. CASE FrameStep
  BY <1>1, FrameKeeps DEF FrameStep, HudInv
<1>2. CASE ChangeWidgets
  <2>1. Reset = [scene |-> value.music] BY ResetIs DEF BasicInv
  <2>2. screen'.on => /\ value'.scene = value'.music
                      /\ "scene" \in pending'["sync_text"]
    BY <1>0, <1>2, <2>1, ChangeKeeps
  <2>. QED BY <1>2, <2>2, ChangeKeeps DEF HudInv
<1>3. CASE HudRefresh
  <2>. DEFINE s == "refresh"
  <2>1. Runs(s) /\ UNCHANGED <<drawn, deferred, fresh>> BY <1>3 DEF HudRefresh
  <2>2. PICK things \in {{}, {"scene"}} :
          /\ pending' = Looked(s, things)
          /\ things = {} => value' = value /\ ("music" \notin pending[s] \/ value.scene = value.music)
          /\ things = {"scene"} => value' = [value EXCEPT !.scene = value.music] /\ "music" \in pending[s]
    BY <1>3 DEF HudRefresh, Sees
  <2>3. quiet >= 2 => things \subseteq {"needle"}
    BY <1>0, <2>1, <2>2 DEF BasicInv, QuietInv, SeenWrites, Derived, Runs
  <2>4. /\ BasicInv' /\ pending'[s] = {}
        /\ \A t \in Systems(part) : t # s => pending'[t] = pending[t] \cup things
        /\ ran' = ran \cup {s} /\ s \notin ran /\ "Update" \in ran /\ screen.on
        /\ UNCHANGED <<part, screen, next_screen, quiet>>
    <3>1. /\ s \in Systems(part) /\ things \in SUBSET Derived
          /\ DOMAIN value' = DOMAIN value
          /\ DOMAIN drawn' = DOMAIN drawn /\ DOMAIN deferred' \subseteq DOMAIN drawn
          /\ deferred' = deferred
      BY <1>0, <2>1, <2>2 DEF Derived, BasicInv, WidgetTypes
    <3>. HIDE DEF s
    <3>. QED BY <2>1, <2>2, <2>3, <3>1, LookKeeps
  <2>. QED BY <1>0, <2>1, <2>2, <2>4 DEF HudInv
<1>4. CASE HudText
  <2>. DEFINE drawing == [text |-> value.scene]
              watched == {"scene"}
  <2>1. Draws("sync_text", watched, drawing) /\ DOMAIN drawing = DOMAIN drawn
    BY <1>0, <1>4 DEF HudText
  <2>2. /\ BasicInv'
        /\ pending'["refresh"] = pending["refresh"]
        /\ drawn' = IF pending["sync_text"] \cap watched # {} THEN drawing ELSE drawn
        /\ UNCHANGED <<screen, value>>
    <3>. HIDE DEF drawing, watched
    <3>. QED BY <1>0, <2>1, DrawsKeeps
  <2>. QED BY <2>2 DEF HudInv
<1>5. CASE DrainMusic
  <2>1. \E v : Write("music", v, "Unchanged") BY <1>5 DEF DrainMusic
  <2>2. PICK v : Write("music", v, "Unchanged") BY <2>1
  <2>3. /\ BasicInv' /\ \A t \in Systems(part) : pending'[t] = pending[t] \cup {"music"}
        /\ value' = [value EXCEPT !["music"] = v] /\ UNCHANGED <<screen, drawn>>
    BY <1>0, <2>2, WriteKeeps DEF NextScreens
  <2>. QED BY <1>0, <2>3 DEF HudInv
<1>. QED BY <1>1, <1>2, <1>3, <1>4, <1>5 DEF HudStep

LEMMA WidgetsInitially == WidgetsInit => WidgetsInv
<1>. SUFFICES ASSUME WidgetsInit PROVE WidgetsInv
  OBVIOUS
<1>1. WidgetTypes
  <2>1. DOMAIN pending = Systems(part) /\ DOMAIN value = DOMAIN Defaults[part]
    BY DEF WidgetsInit
  <2>2. DOMAIN deferred = {} BY DEF WidgetsInit
  <2>. QED BY <2>1, <2>2 DEF WidgetsInit, WidgetTypes, Settled
<1>2. ~screen.on /\ quiet = 0 /\ next_screen = "Unchanged" /\ DOMAIN deferred = {} /\ ran = {}
  BY DEF WidgetsInit
<1>3. part = "music" => drawn.rows = {} BY DEF WidgetsInit, Spawned
<1>4. part = "dial" => value.music = Absent BY DEF WidgetsInit, Defaults
<1>5. QuietInv /\ TabsInv /\ DevicesInv /\ PauseInv /\ PromptInv /\ HudInv
  BY <1>2 DEF QuietInv, TabsInv, DevicesInv, PauseInv, PromptInv, HudInv
<1>6. part = "music" => MusicInv
  BY <1>2, <1>3 DEF MusicInv, AreRows, Shown
<1>7. part = "dial" => DialInv
  BY <1>2, <1>4 DEF DialInv, MeasuredInv, SlotsInv, ColoursInv, NeedleInv
<1>. QED BY <1>1, <1>5, <1>6, <1>7 DEF WidgetsInv

LEMMA WidgetsKeep == WidgetsInv /\ [WidgetsNext]_widget_vars => WidgetsInv'
<1>. SUFFICES ASSUME WidgetsInv, [WidgetsNext]_widget_vars PROVE WidgetsInv'
  OBVIOUS
<1>0. BasicInv BY DEF WidgetsInv, BasicInv
<1>1. CASE UNCHANGED widget_vars
  <2>. USE <1>1 DEF widget_vars
  <2>1. WidgetTypes' /\ QuietInv'
    BY DEF WidgetsInv, WidgetTypes, QuietInv, SeenWrites, SeenAll, Systems, InChain
  <2>2. TabsInv' = TabsInv BY DEF TabsInv
  <2>3. DevicesInv' = DevicesInv BY DEF DevicesInv, DeviceRows, Row, Shown
  <2>4. MusicInv' = MusicInv BY DEF MusicInv, RowsShow, AreRows, Shown
  <2>5. PauseInv' = PauseInv BY DEF PauseInv, Shown
  <2>6. PromptInv' = PromptInv BY DEF PromptInv, ModalOf, Shown
  <2>7. MeasuredInv' = MeasuredInv /\ SlotsInv' = SlotsInv
    BY DEF MeasuredInv, SlotsInv, SeenWrites
  <2>8. ColoursInv' = ColoursInv /\ NeedleInv' = NeedleInv
    BY DEF ColoursInv, BetweenTheTwo, NeedleInv, NeedleNow, SeenWrites, SeenAll
  <2>9. HudInv' = HudInv BY DEF HudInv
  <2>. QED BY <2>1, <2>2, <2>3, <2>4, <2>5, <2>6, <2>7, <2>8, <2>9 DEF WidgetsInv, DialInv
<1>2. CASE WidgetsNext
  <2>1. part' = part
    <3>1. CASE FrameStep BY <3>1, <1>0, FrameKeeps DEF FrameStep
    <3>2. CASE ChangeWidgets BY <3>2 DEF ChangeWidgets
    <3>3. CASE Flush BY <3>3 DEF Flush
    <3>4. CASE ~FrameStep /\ ~ChangeWidgets /\ ~Flush
      BY <1>2, <3>4 DEF WidgetsNext, Sync, Writers, FrameStep, Tabs, DeviceList, SettingsLists, MasterRows,
        MusicDetail, ConfirmModal, ResumeLocked, PermissionModal, DialMetrics, RebuildSlots, ApplyState,
        HubSize, RepaintSlots, UpdateFromFeatures, HudRefresh, HudText, Draws, Spawns, Runs,
        HandleTabClick, DrainDevices, HandleRow, HandleMusicRows, HandleQuitToMain, HandleConfirm,
        DrainInterruption, HandleNewGame, HandleModal, DrainAnswer, DrainMusic, ResizeDial, Handles, Write
    <3>. QED BY <3>1, <3>2, <3>3, <3>4
  <2>2. part \in DOMAIN Chain BY <1>0 DEF BasicInv, WidgetTypes
  <2>3. part \in {"tabs", "devices", "music", "pause", "prompt", "dial", "hud"} BY <2>2 DEF Chain
  <2>4. Flush => part \in {"devices", "music", "pause", "prompt"}
    BY <1>0 DEF Flush, BasicInv, WidgetTypes
  <2>5. \/ FrameStep \/ ChangeWidgets \/ Flush
        \/ part = "tabs" /\ TabsStep
        \/ part = "devices" /\ DevicesStep
        \/ part = "music" /\ MusicStep
        \/ part = "pause" /\ PauseStep
        \/ part = "prompt" /\ PromptStep
        \/ part = "dial" /\ DialStep
        \/ part = "hud" /\ HudStep
    BY <1>0, <1>2, PartMoves DEF BasicInv
  <2>11. CASE part = "tabs"
    <3>1. FrameStep \/ ChangeWidgets \/ TabsStep BY <2>4, <2>5, <2>11
    <3>2. BasicInv' /\ TabsInv' BY <1>0, <2>11, <3>1, TabsKeeps DEF WidgetsInv
    <3>. QED BY <2>1, <2>11, <3>2 DEF WidgetsInv, BasicInv
  <2>12. CASE part = "devices"
    <3>1. FrameStep \/ ChangeWidgets \/ Flush \/ DevicesStep BY <2>5, <2>12
    <3>2. BasicInv' /\ DevicesInv' BY <1>0, <2>12, <3>1, DevicesKeeps DEF WidgetsInv
    <3>. QED BY <2>1, <2>12, <3>2 DEF WidgetsInv, BasicInv
  <2>13. CASE part = "music"
    <3>1. FrameStep \/ ChangeWidgets \/ Flush \/ MusicStep BY <2>5, <2>13
    <3>2. BasicInv' /\ MusicInv' BY <1>0, <2>13, <3>1, MusicKeeps DEF WidgetsInv
    <3>. QED BY <2>1, <2>13, <3>2 DEF WidgetsInv, BasicInv
  <2>14. CASE part = "pause"
    <3>1. FrameStep \/ ChangeWidgets \/ Flush \/ PauseStep BY <2>5, <2>14
    <3>2. BasicInv' /\ PauseInv' BY <1>0, <2>14, <3>1, PauseKeeps DEF WidgetsInv
    <3>. QED BY <2>1, <2>14, <3>2 DEF WidgetsInv, BasicInv
  <2>15. CASE part = "prompt"
    <3>1. FrameStep \/ ChangeWidgets \/ Flush \/ PromptStep BY <2>5, <2>15
    <3>2. BasicInv' /\ PromptInv' BY <1>0, <2>15, <3>1, PromptKeeps DEF WidgetsInv
    <3>. QED BY <2>1, <2>15, <3>2 DEF WidgetsInv, BasicInv
  <2>16. CASE part = "dial"
    <3>1. FrameStep \/ ChangeWidgets \/ DialStep BY <2>4, <2>5, <2>16
    <3>2. BasicInv' /\ DialInv'
      BY <1>0, <2>16, <3>1, DialWaits, DialDraws, DialChanges DEF WidgetsInv, DialStep
    <3>. QED BY <2>1, <2>16, <3>2 DEF WidgetsInv, BasicInv
  <2>17. CASE part = "hud"
    <3>1. FrameStep \/ ChangeWidgets \/ HudStep BY <2>4, <2>5, <2>17
    <3>2. BasicInv' /\ HudInv' BY <1>0, <2>17, <3>1, HudKeeps DEF WidgetsInv
    <3>. QED BY <2>1, <2>17, <3>2 DEF WidgetsInv, BasicInv
  <2>. QED BY <2>3, <2>11, <2>12, <2>13, <2>14, <2>15, <2>16, <2>17
<1>. QED BY <1>1, <1>2

\* When all is quiet every system has seen all there was to see, and nothing is on its way.
LEMMA QuietShows == WidgetsInv => WidgetsShowTheState
<1>. SUFFICES ASSUME WidgetsInv, screen.on, next_screen = "Unchanged", ran = {}, quiet = Settled
              PROVE  Agrees
  BY DEF WidgetsShowTheState
<1>1. /\ \A s \in Systems(part) : pending[s] \subseteq {"needle"} /\ SeenAll(s) /\ SeenWrites(s)
      /\ DOMAIN deferred = {}
  BY DEF WidgetsInv, QuietInv, SeenAll, SeenWrites, Settled, WidgetTypes
<1>2. part \in {"tabs", "devices", "music", "pause", "prompt", "dial", "hud"}
  <2>1. part \in DOMAIN Chain BY DEF WidgetsInv, WidgetTypes
  <2>. QED BY <2>1 DEF Chain
<1>. HIDE DEF SeenAll, SeenWrites
<1>3. CASE part = "tabs" BY <1>1, <1>3, SystemsOf DEF WidgetsInv, TabsInv, Agrees
<1>4. CASE part = "devices" BY <1>1, <1>4, SystemsOf DEF WidgetsInv, DevicesInv, Shown, Agrees
<1>5. CASE part = "music"
  <2>1. drawn.pickers = value.settings /\ drawn.detail = value.selection
    BY <1>1, <1>5, SystemsOf DEF WidgetsInv, MusicInv, Shown
  <2>2. /\ RowsShow(drawn.rows, value.settings)
        /\ \A r \in drawn.rows : r.marked = (r.row = value.selection)
    BY <1>1, <1>5, SystemsOf DEF WidgetsInv, MusicInv, Shown
  <2>. DEFINE RowOf(name) ==
                [row |-> name, shows |-> value.settings, marked |-> name = value.selection]
  <2>3. \A r \in drawn.rows : r.row \in RowNames /\ r = RowOf(r.row)
    BY <2>2 DEF RowsShow
  <2>4. \A name \in RowNames : \E r \in drawn.rows : r.row = name
    BY <2>2 DEF RowsShow
  <2>. HIDE DEF RowOf
  <2>5. drawn.rows = {RowOf(name) : name \in RowNames} BY <2>3, <2>4
  <2>6. drawn.rows = Highlighted({"ReferenceHz", "TuningKind"}, value.settings)
    BY <2>5 DEF Highlighted, RowOf, RowNames
  <2>. QED BY <1>5, <2>1, <2>6 DEF Agrees
<1>6. CASE part = "pause" BY <1>1, <1>6, SystemsOf DEF WidgetsInv, PauseInv, Shown, Agrees
<1>7. CASE part = "prompt" BY <1>1, <1>7, SystemsOf DEF WidgetsInv, PromptInv, Shown, Agrees
<1>8. CASE part = "dial"
  <2>1. DialInv BY <1>8 DEF WidgetsInv
  <2>2. value.music # Absent => value.scale = value.music
    BY <1>1, <1>8, <2>1, SystemsOf DEF DialInv, SlotsInv
  <2>3. drawn.slots = value.scale /\ drawn.size = value.k
    BY <1>1, <1>8, <2>1, SystemsOf DEF DialInv, SlotsInv
  <2>4. value.k = value.box /\ drawn.hub = value.k
    BY <1>1, <1>8, <2>1, SystemsOf DEF DialInv, MeasuredInv
  <2>5. drawn.paint = value.scale \/ (drawn.paint = Absent /\ "torn" \in fresh)
    BY <1>1, <1>8, <2>1, SystemsOf DEF DialInv, ColoursInv
  <2>6. drawn.needle = NeedleNow
    BY <1>1, <1>8, <2>1, SystemsOf DEF DialInv, NeedleInv
  <2>. QED BY <1>8, <2>2, <2>3, <2>4, <2>5, <2>6 DEF Agrees
<1>9. CASE part = "hud" BY <1>1, <1>9, SystemsOf DEF WidgetsInv, HudInv, Agrees
<1>. QED BY <1>2, <1>3, <1>4, <1>5, <1>6, <1>7, <1>8, <1>9

(* Two frames after the last change the widgets of a screen show what the resources say,
   in whatever order the handlers, the systems and the sync points of the frames ran
   (coach-game/src/menu, game, widgets), but in the four places where the code's change
   detection does lose a write: a device list before the listing that the screen asked
   for, a prompt that outlived a visit of the menu, the lock of a Pause screen that was
   entered from itself, and the colours of slots spawned after apply_state had heard of
   the change. *)
THEOREM WidgetsShowTheStateAlways == WidgetsSpec => []WidgetsShowTheState
<1>1. WidgetsInit => WidgetsInv BY WidgetsInitially
<1>2. WidgetsInv /\ [WidgetsNext]_widget_vars => WidgetsInv' BY WidgetsKeep
<1>3. WidgetsInv => WidgetsShowTheState BY QuietShows
<1>. QED BY <1>1, <1>2, <1>3, PTL DEF WidgetsSpec
=============================================================================

------------------------------ MODULE TimeGraph ------------------------------
(***************************************************************************)
(* The scrolling pitch graph of the game screen: from the hops the head    *)
(* drains to what is painted (coach-game/src: feature_history.rs,          *)
(* semantic_graph.rs, widgets/time_graph, game/time_graph.rs).             *)
(*                                                                         *)
(* One Bevy frame after another.  A frame of the game screen drains the    *)
(* coach, projects the history to a scene, and paints; the painters of the *)
(* meshes are not ordered against the projection, and each repaints only   *)
(* what its change detection tells it to.  The layout, which a resize of   *)
(* the window changes, is measured after the painting.                     *)
(*                                                                         *)
(* Times are ticks, pitches steps of Octave to the octave: what the code   *)
(* divides by a fixed span is left undivided.  Colours are left out.       *)
(***************************************************************************)
EXTENDS Music, Filtering

CONSTANTS
    PITCH_PADDING, MIN_PITCH_SPAN,
    HalfLife, SNAP_EPSILON, MAX_EASE_STEP,  \* the easing of the pitch window
    history_window, history_capacity,       \* FeatureHistory
    vibrato_latency,                        \* t_ms - vibrato_t_ms
    CENTER_SMOOTH_WINDOW,
    SlotPitches,    \* the slots of the tuning: their pitches in one octave
    Sounds,         \* what a hop may hold: a pitch or Nothing, a breath, an onset
    HopTicks,       \* bound: how far the clock is on from one hop to the next
    EarlyPainters,  \* bound: which painters run before the projection in one frame
    MaxSessions,    \* bound: sessions
    MaxFeatures,    \* bound: hops drained of all sessions
    MaxIndex        \* bound: hops of one session, those that were dropped among them

Layouts == {"upright", "sideways"}      \* bound: two sizes of the window

ASSUME LayoutAssumption == Nothing \notin Layouts
ASSUME GraphAssumption ==
    /\ Nothing \notin Int /\ Nothing \notin [min : Int, max : Int]
    /\ {Octave, HalfLife, history_capacity} \subseteq Nat \ {0}
    /\ {PITCH_PADDING, MIN_PITCH_SPAN, SNAP_EPSILON, MAX_EASE_STEP, history_window,
        vibrato_latency} \subseteq Nat
    /\ SlotPitches \subseteq 0..Octave - 1 /\ HopTicks \subseteq Nat
    /\ Sounds \subseteq [pitch : Int \union {Nothing}, breath : BOOLEAN, onset : BOOLEAN]
ASSUME EarlyAssumption == EarlyPainters \subseteq SUBSET {"trace", "band", "grid"}

VARIABLES
    head_screen,    \* on the game screen or away from it
    frame_todo,     \* the systems still to run in this frame
    hop_clock,      \* the coach: its time, the index of the next hop, hops and sessions so
                    \* far; history: the first hop of this session that was drained
    history,        \* the samples held; history: of which session each is, and the first
                    \* hop that was drained of it
    max_seen,       \* max_seen_t_ms
    pitch_window, last_ms,      \* GraphProjector
    grid_scene, live_scene,     \* the scene, split by how often it changes
    unseen,         \* the painters that have not run since their scene was written
    layout,         \* the size of the window
    lane,           \* TimeGraphPitchLanePhysRect: of which layout
    painted,        \* what is on the screen, and for which lane and layout
    last_frame      \* history: the scene, lane and layout of the frame before

feature_vars == <<history, max_seen>>
projector_vars == <<pitch_window, last_ms>>
scene_vars == <<grid_scene, live_scene>>
screen_vars == <<layout, lane>>
graph_vars == <<head_screen, frame_todo, hop_clock, feature_vars, projector_vars, scene_vars,
                unseen, screen_vars, painted, last_frame>>

NoLive == [segments |-> <<>>, bands |-> <<>>, ticks |-> <<>>, spans |-> <<>>]
MeshPainters == {"trace", "band"}
Unpainted == [shows |-> <<>>, lane |-> Nothing, layout |-> "none"]
NothingPainted == [painter \in MeshPainters \union {"lane", "grid", "events"} |-> Unpainted]
Unordered == MeshPainters \union {"grid"}       \* painters with no order to the projection
GameSystems == {"drain", "refresh", "events", "lane", "measure"} \union Unordered

Larger(a, b) == IF a >= b THEN a ELSE b

GraphInit ==
    /\ head_screen = "away"
    /\ frame_todo = {}
    /\ hop_clock = [time |-> 0, index |-> 0, hops |-> 0, sessions |-> 1, first |-> Nothing]
    /\ history = <<>> /\ max_seen = Nothing
    /\ pitch_window = Nothing /\ last_ms = Nothing
    /\ grid_scene = {} /\ live_scene = NoLive
    /\ unseen = Unordered
    /\ layout = "upright" /\ lane = Nothing
    /\ painted = NothingPainted
    /\ last_frame = [live |-> NoLive, lane |-> Nothing, layout |-> "upright"]

-----------------------------------------------------------------------------
(* FeatureHistory. *)

(* Mutant of Evicted: only the capacity bounds the history. *)
EvictedByCount(samples, newest) ==
    SubSeq(samples, Larger(1, Len(samples) - history_capacity + 1), Len(samples))

Cutoff(newest) == Larger(0, newest - history_window)

(* evict: what is too old, then the oldest beyond the capacity. *)
Evicted(samples, newest) ==
    LET kept == Among(samples, {s \in Range(samples) : s.t_ms >= Cutoff(newest)})
    IN SubSeq(kept, Larger(1, Len(kept) - history_capacity + 1), Len(kept))

(* A hop of the coach, stamped when its block is processed: the hops of a backlog share a
   time.  It is drained with the others of the frame, and pushed on the game screen
   only.  A hop that the ring had no room for leaves a gap in the indices; a later
   session numbers its hops from 0 again. *)
DrainHop(sound, lost, ticks) ==
    /\ "drain" \in frame_todo
    /\ hop_clock.hops < MaxFeatures /\ hop_clock.index + lost < MaxIndex
    /\ LET t == hop_clock.time + ticks
           index == hop_clock.index + lost
           first == IF hop_clock.first = Nothing THEN index ELSE hop_clock.first
           sample == [hop |-> index, t_ms |-> t, pitch |-> sound.pitch,
                      breath |-> sound.breath, onset |-> sound.onset,
                      session |-> hop_clock.sessions, first |-> first]
           newest == IF max_seen = Nothing THEN t ELSE Larger(max_seen, t)
       IN /\ hop_clock' = [hop_clock EXCEPT !.time = t, !.hops = @ + 1,
                                            !.index = index + 1, !.first = first]
          /\ IF head_screen = "game"
             THEN /\ max_seen' = newest
                  /\ history' = Evicted(Append(history, sample), newest)
             ELSE UNCHANGED feature_vars
    /\ UNCHANGED <<head_screen, frame_todo, projector_vars, scene_vars, unseen, screen_vars,
                   painted, last_frame>>

DrainReturns ==
    /\ "drain" \in frame_todo
    /\ frame_todo' = frame_todo \ {"drain"}
    /\ UNCHANGED <<head_screen, hop_clock, feature_vars, projector_vars, scene_vars, unseen,
                   screen_vars, painted, last_frame>>

NumberHopsAnew ==
    /\ "drain" \in frame_todo
    /\ hop_clock.sessions < MaxSessions
    /\ hop_clock.index > 0
    /\ hop_clock' = [hop_clock EXCEPT !.index = 0, !.sessions = @ + 1, !.first = Nothing]
    /\ UNCHANGED <<head_screen, frame_todo, feature_vars, projector_vars, scene_vars, unseen,
                   screen_vars, painted, last_frame>>

-----------------------------------------------------------------------------
(* GraphProjector: the pitch window. *)

IsHeard(sample) == sample.pitch # Nothing
VoicedIn(samples) == {samples[i].pitch : i \in {j \in DOMAIN samples : IsHeard(samples[j])}}

(* target_pitch_window: every voiced pitch held, padded, and never too narrow. *)
TargetWindow(samples) ==
    LET low == Min(VoicedIn(samples)) - PITCH_PADDING
        high == Max(VoicedIn(samples)) + PITCH_PADDING
        centre == (low + high) \div 2
    IN IF high - low < MIN_PITCH_SPAN
       THEN [min |-> centre - MIN_PITCH_SPAN \div 2, max |-> centre + MIN_PITCH_SPAN \div 2]
       ELSE [min |-> low, max |-> high]

(* One step of the easing; a step of no time moves nothing, and one that ends within
   SNAP_EPSILON of the target ends on it. *)
Contracted(edge, toward, dt) ==
    LET rest == Larger(edge - toward, toward - edge)
        moved == (rest * dt + HalfLife - 1) \div HalfLife
    IN IF rest - moved < SNAP_EPSILON THEN toward
       ELSE IF edge < toward THEN edge + moved ELSE edge - moved

(* update_pitch_window: a window grows at once and shrinks slowly; one that has
   nothing in common with its target jumps. *)
NextWindow(samples, newest) ==
    IF VoicedIn(samples) = {} THEN pitch_window
    ELSE LET target == TargetWindow(samples)
             dt == IF last_ms = Nothing \/ newest = Nothing THEN 0
                   ELSE Lesser(Larger(0, newest - last_ms), MAX_EASE_STEP)
         IN IF \/ pitch_window = Nothing
               \/ target.min > pitch_window.max \/ target.max < pitch_window.min
            THEN target
            ELSE [min |-> IF target.min < pitch_window.min THEN target.min
                          ELSE Contracted(pitch_window.min, target.min, dt),
                  max |-> IF target.max > pitch_window.max THEN target.max
                          ELSE Contracted(pitch_window.max, target.max, dt)]

-----------------------------------------------------------------------------
(* GraphProjector: the traces, the events, the grooves. *)

(* Mutant of Contiguous: the next sample held is taken to be the next hop. *)
NextHeld(samples, i) == i > 1

(* Mutant of Contiguous: the hops of a new session go on where the last ended. *)
NextOrAnew(samples, i) == i > 1 /\ samples[i].hop \in {samples[i - 1].hop + 1, 0}

Contiguous(samples, i) == i > 1 /\ samples[i].hop = samples[i - 1].hop + 1

(* finish_segment *)
Finished(segments, points) == IF points = <<>> THEN segments ELSE Append(segments, points)

(* trace_segments: a segment ends with silence, and before a hop that does not follow. *)
TraceSegments(samples) ==
    LET traced[i \in 0..Len(samples)] ==
          CASE i = 0 -> [segments |-> <<>>, points |-> <<>>]
            [] i > 0 /\ ~IsHeard(samples[i]) ->
                 [segments |-> Finished(traced[i - 1].segments, traced[i - 1].points),
                  points |-> <<>>]
            [] i > 0 /\ IsHeard(samples[i]) /\ (i = 1 \/ Contiguous(samples, i)) ->
                 [traced[i - 1] EXCEPT !.points = Append(@, samples[i])]
            [] OTHER ->
                 [segments |-> Finished(traced[i - 1].segments, traced[i - 1].points),
                  points |-> <<samples[i]>>]
        done == traced[Len(samples)]
    IN Finished(done.segments, done.points)

(* breath_spans: consecutive hops above the threshold; only a finished or a last one
   is cut short. *)
BreathSpans(samples) ==
    LET spanned[i \in 0..Len(samples)] ==
          IF i = 0 THEN [spans |-> <<>>, open |-> <<>>]
          ELSE LET before == spanned[i - 1]
                   goes_on == before.open # <<>> /\ Contiguous(samples, i)
                   t == samples[i].t_ms
               IN [spans |-> IF goes_on /\ samples[i].breath THEN before.spans
                             ELSE Finished(before.spans, before.open),
                   open |-> CASE ~samples[i].breath -> <<>>
                              [] samples[i].breath /\ goes_on -> <<before.open[1], t>>
                              [] OTHER -> <<t, t>>]
        done == spanned[Len(samples)]
    IN Finished(done.spans, done.open)

OnsetTicks(samples) ==
    LET heard_onsets == Among(samples, {s \in Range(samples) : s.onset})
    IN [i \in DOMAIN heard_onsets |-> heard_onsets[i].t_ms]

(* groove_lines: each slot in every octave that reaches into the window, their order
   left out. *)
GrooveLines(shown) ==
    LET octaves(slot) == (shown.min - slot + Octave - 1) \div Octave
                           .. (shown.max - slot) \div Octave
        pitches == UNION {{slot + k * Octave : k \in octaves(slot)} : slot \in SlotPitches}
    IN {[y |-> pitch - shown.min, of |-> shown.max - shown.min] : pitch \in pitches}

-----------------------------------------------------------------------------
(* project_scene: how old a point is when the newest is on the right edge, and how
   high above the lower edge of the pitch window. *)

Visible(t, newest) == t >= Cutoff(newest) /\ t <= newest
InWindow(pitch, shown) == pitch >= shown.min /\ pitch <= shown.max

Survivors(segment, newest, shown) ==
    LET in_window == Among(segment, {p \in Range(segment) : Visible(p.t_ms, newest)
                                                             /\ InWindow(p.pitch, shown)})
    IN [i \in DOMAIN in_window |->
          [age |-> newest - in_window[i].t_ms, y |-> in_window[i].pitch - shown.min,
           vibrato_t |-> Larger(0, in_window[i].t_ms - vibrato_latency)]]

(* smooth: what the centre of the band is a mean of. *)
SmoothCentre(points, i) ==
    LET reach == CENTER_SMOOTH_WINDOW \div 2
        near == Larger(1, i - reach)..Lesser(Len(points), i + reach)
    IN [sum |-> FoldSet(LAMBDA j, acc : acc + points[j].y, 0, near), of |-> Cardinality(near)]

(* Mutant of Straddling: the pair of points is found one too late. *)
StraddlingLate(points, age) ==
    LET n == Len(points)
        lo == Lesser(n, Cardinality({i \in 1..n : points[i].age >= age}) + 1)
    IN <<lo, Lesser(lo + 1, n)>>

(* sample_center_at_x: the points the centre is interpolated between. *)
Straddling(points, age) ==
    LET n == Len(points)
        lo == Cardinality({i \in 1..n : points[i].age >= age})
    IN CASE n = 1 \/ age >= points[1].age -> <<1, 1>>
         [] n > 1 /\ age < points[1].age /\ age <= points[n].age -> <<n, n>>
         [] OTHER -> <<lo, lo + 1>>

(* pdc_align: a band point is as old as its vibrato, and its centre is the pitch of
   that time, or its own where that time is not shown. *)
BandOf(points, newest) ==
    [i \in DOMAIN points |->
       LET shown_at == Visible(points[i].vibrato_t, newest)
           age == newest - points[i].vibrato_t
           ends == IF shown_at THEN Straddling(points, age) ELSE <<i, i>>
       IN [age |-> IF shown_at THEN age ELSE points[i].age, ends |-> ends,
           centres |-> <<SmoothCentre(points, ends[1]), SmoothCentre(points, ends[2])>>]]

ProjectLive(samples, newest, shown) ==
    IF newest = Nothing THEN NoLive
    ELSE LET all == IF shown = Nothing THEN <<>>
                    ELSE LET segments == TraceSegments(samples)
                         IN [s \in DOMAIN segments |-> Survivors(segments[s], newest, shown)]
             some == Among(all, {points \in Range(all) : points # <<>>})
             onsets == OnsetTicks(samples)
             ticks == Among(onsets, {t \in Range(onsets) : Visible(t, newest)})
             breaths == BreathSpans(samples)
             spans == Among(breaths, {b \in Range(breaths) :
                                        b[2] >= Cutoff(newest) /\ b[1] <= newest})
             age(t) == Lesser(newest - t, history_window)
         IN [segments |-> some,
             bands |-> [s \in DOMAIN some |-> BandOf(some[s], newest)],
             ticks |-> [i \in DOMAIN ticks |-> newest - ticks[i]],
             spans |-> [i \in DOMAIN spans |-> <<age(spans[i][1]), age(spans[i][2])>>]]

(* refresh_semantic_graph, then refresh_scene: the slow half is written only when it
   differs, the fast one in every frame. *)
RefreshScene ==
    /\ "refresh" \in frame_todo /\ "drain" \notin frame_todo
    /\ frame_todo' = frame_todo \ {"refresh"}
    /\ pitch_window' = NextWindow(history, max_seen)
    /\ last_ms' = IF max_seen = Nothing THEN last_ms ELSE max_seen
    /\ live_scene' = ProjectLive(history, max_seen, pitch_window')
    /\ grid_scene' = IF pitch_window' = Nothing THEN {} ELSE GrooveLines(pitch_window')
    /\ unseen' = unseen \union MeshPainters
                        \union (IF grid_scene' # grid_scene THEN {"grid"} ELSE {})
    /\ UNCHANGED <<head_screen, hop_clock, feature_vars, screen_vars, painted, last_frame>>

-----------------------------------------------------------------------------
(* Painting.  A world coordinate comes of the lane, measured in the last frame, and
   of the window as it is. *)

OnLane(what) == [shows |-> what, lane |-> lane, layout |-> layout]

(* Mutant of IsFresh: a painter that has nothing on the screen waits for a change. *)
IsFreshOnly(painter) == painter \notin unseen

(* The scene has not changed since the painter last ran, and its mesh is there. *)
IsFresh(painter) == painter \notin unseen /\ painted[painter] # Unpainted

(* A line or a band of one point draws nothing. *)
Drawn(segments) == Among(segments, {points \in Range(segments) : Len(points) >= 2})
MeshOf(kind, live) == Drawn(IF kind = "trace" THEN live.segments ELSE live.bands)

(* apply_mesh_trace and apply_mesh_band: one mesh each, made once and mutated. *)
PaintedMesh(kind) ==
    IF IsFresh(kind) \/ lane = Nothing THEN painted[kind]
    ELSE OnLane(MeshOf(kind, live_scene))

(* apply_mesh_gridlines: all are despawned, and those of the scene spawned. *)
PaintedGrid ==
    IF IsFresh("grid") THEN painted["grid"]
    ELSE IF lane = Nothing \/ grid_scene = {} THEN Unpainted ELSE OnLane(grid_scene)

(* apply_mesh_lane_bg: the lane is measured anew in every frame. *)
PaintedLane == IF lane = Nothing THEN Unpainted ELSE OnLane("background")

(* apply_events: nodes that follow the layout by themselves. *)
PaintedMarkers == <<live_scene.ticks, live_scene.spans>>

(* No painter touches what another reads: those that run before the projection are
   taken together, and so are those that run after it. *)
RunPainters(painters) ==
    /\ frame_todo' = frame_todo \ painters
    /\ unseen' = unseen \ painters
    /\ painted' = [painter \in DOMAIN painted |->
                     IF painter \notin painters THEN painted[painter]
                     ELSE CASE painter \in MeshPainters -> PaintedMesh(painter)
                            [] painter = "grid" -> PaintedGrid
                            [] painter = "lane" -> PaintedLane
                            [] painter = "events" -> PaintedMarkers]
    /\ UNCHANGED <<head_screen, hop_clock, feature_vars, projector_vars, scene_vars,
                   screen_vars, last_frame>>

PaintEarly ==
    /\ Unordered \union {"refresh"} \subseteq frame_todo /\ "drain" \notin frame_todo
    /\ \E painters \in EarlyPainters : RunPainters(painters)

PaintLate ==
    /\ "refresh" \notin frame_todo /\ "events" \in frame_todo
    /\ RunPainters(frame_todo \ {"measure"})

(* capture_pitch_lane_size, after the layout of the frame. *)
MeasureLane ==
    /\ frame_todo = {"measure"}
    /\ frame_todo' = {}
    /\ lane' = layout
    /\ last_frame' = [live |-> live_scene, lane |-> lane, layout |-> layout]
    /\ UNCHANGED <<head_screen, hop_clock, feature_vars, projector_vars, scene_vars, unseen,
                   layout, painted>>

-----------------------------------------------------------------------------
(* Frames. *)

BeginGraphFrame ==
    /\ frame_todo = {}
    /\ frame_todo' = IF head_screen = "game" THEN GameSystems ELSE {"drain"}
    /\ UNCHANGED <<head_screen, hop_clock, feature_vars, projector_vars, scene_vars, unseen,
                   screen_vars, painted, last_frame>>

(* A fresh tree of nodes, with no mesh in it. *)
EnterGame ==
    /\ frame_todo = {} /\ head_screen = "away"
    /\ head_screen' = "game"
    /\ frame_todo' = GameSystems
    /\ UNCHANGED <<hop_clock, feature_vars, projector_vars, scene_vars, unseen, screen_vars,
                   painted, last_frame>>

(* on_exit, clear_trace_mesh_handles, clear_band_mesh_handles, and DespawnOnExit. *)
ExitGame ==
    /\ frame_todo = {} /\ head_screen = "game"
    /\ head_screen' = "away"
    /\ frame_todo' = {"drain"}
    /\ history' = <<>> /\ max_seen' = Nothing
    /\ pitch_window' = Nothing /\ last_ms' = Nothing
    /\ grid_scene' = {} /\ live_scene' = NoLive
    /\ unseen' = Unordered
    /\ painted' = NothingPainted
    /\ last_frame' = [live |-> NoLive, lane |-> lane, layout |-> layout]
    /\ UNCHANGED <<hop_clock, screen_vars>>

(* The window is resized, or the device turned, between two frames. *)
Resize ==
    /\ frame_todo = {}
    /\ layout = "upright"       \* bound: once
    /\ layout' = "sideways"
    /\ UNCHANGED <<head_screen, frame_todo, hop_clock, feature_vars, projector_vars,
                   scene_vars, unseen, lane, painted, last_frame>>

GraphNext ==
    \/ \E sound \in Sounds, lost \in 0..1, ticks \in HopTicks : DrainHop(sound, lost, ticks)
    \/ DrainReturns \/ NumberHopsAnew \/ RefreshScene
    \/ PaintEarly \/ PaintLate \/ MeasureLane
    \/ BeginGraphFrame \/ EnterGame \/ ExitGame \/ Resize

GraphSpec == GraphInit /\ [][GraphNext]_graph_vars

-----------------------------------------------------------------------------
(* The scene is written and every painter has run. *)
FrameIsPainted == frame_todo = {"measure"}

VoicedHops(samples) == {i \in DOMAIN samples : IsHeard(samples[i])}
BreathingHops(samples) == {i \in DOMAIN samples : samples[i].breath}

(* Sample i is of the hop after that of the sample before it: of the same session.  Of
   two sessions it is so only for the graph, which looks at the indices: they follow
   only where the first hops of the later session were dropped. *)
Follows(samples, i) ==
    /\ samples[i].hop = samples[i - 1].hop + 1
    /\ samples[i].session = samples[i - 1].session \/ samples[i].first > 0

(* Samples i to j are of hops that were heard one after another. *)
OneRun(samples, hops, i, j) ==
    \A k \in i..j : k \in hops /\ (k > i => Follows(samples, k))
MaximalRuns(samples, hops) ==
    {r \in (DOMAIN samples) \X (DOMAIN samples) :
       /\ r[1] <= r[2] /\ OneRun(samples, hops, r[1], r[2])
       /\ r[1] = 1 \/ ~OneRun(samples, hops, r[1] - 1, r[2])
       /\ r[2] = Len(samples) \/ ~OneRun(samples, hops, r[1], r[2] + 1)}

(* The history is never older than the time shown nor longer than its capacity, and
   in the order of the hops. *)
HistoryIsBounded ==
    /\ Len(history) <= history_capacity
    /\ \A i \in DOMAIN history : history[i].t_ms \in Cutoff(max_seen)..max_seen
    /\ \A i \in 2..Len(history) : history[i].t_ms >= history[i - 1].t_ms

Age(i) == max_seen - history[i].t_ms

(* A line for each run of voiced hops, in their order: every hop of it is there, once and
   inside the lane. *)
LinesAreTheRuns ==
    LET lines == live_scene.segments
        runs == MaximalRuns(history, VoicedHops(history))
    IN /\ Len(lines) = Cardinality(runs)
       /\ \E run \in [DOMAIN lines -> runs] :
            /\ \A s \in DOMAIN lines :
                 /\ Len(lines[s]) = run[s][2] - run[s][1] + 1
                 /\ \A i \in DOMAIN lines[s] :
                      /\ lines[s][i].age = Age(run[s][1] + i - 1)
                      /\ lines[s][i].y \in 0..pitch_window.max - pitch_window.min
            /\ \A s \in 2..Len(lines) : run[s - 1][2] < run[s][1]

(* The centre of a band is interpolated between the points around its own time. *)
BandsAreCentred ==
    \A s \in DOMAIN live_scene.bands : \A i \in DOMAIN live_scene.bands[s] :
        LET at_point == live_scene.bands[s][i]
            points == live_scene.segments[s]
            lo == at_point.ends[1]
            hi == at_point.ends[2]
        IN IF lo < hi
           THEN points[lo].age >= at_point.age /\ at_point.age > points[hi].age
           ELSE \/ at_point.age = points[lo].age
                \/ lo = 1 /\ at_point.age > points[lo].age
                \/ lo = Len(points) /\ at_point.age < points[lo].age

(* A span for each run of breathing hops, in their order. *)
SpansAreTheBreaths ==
    LET spans == live_scene.spans
        runs == MaximalRuns(history, BreathingHops(history))
    IN /\ Len(spans) = Cardinality(runs)
       /\ \E run \in [DOMAIN spans -> runs] :
            /\ \A s \in DOMAIN spans : spans[s] = <<Age(run[s][1]), Age(run[s][2])>>
            /\ \A s \in 2..Len(spans) : run[s - 1][2] < run[s][1]

(* The grooves are those of every slot, in every octave that the window holds. *)
GroovesFillTheWindow ==
    {groove.y : groove \in grid_scene} =
        IF pitch_window = Nothing THEN {}
        ELSE {y \in 0..pitch_window.max - pitch_window.min :
                (pitch_window.min + y) % Octave \in SlotPitches}

(* The scene of a frame has every voiced hop held, once and inside the lane, however the
   pitch window moves and however many hops share a time; a line never bridges silence
   or a hop that was dropped in a session, nor does a breath, and neither goes on into
   another session, but where hops of its beginning were dropped and the indices follow
   by chance; a band is centred on the pitch of its own time; and the grooves
   are all those that the window holds. *)
GraphShowsTheHistory ==
    /\ HistoryIsBounded
    /\ FrameIsPainted =>
         LinesAreTheRuns /\ BandsAreCentred /\ SpansAreTheBreaths /\ GroovesFillTheWindow

(* What a frame leaves on the screen: once the lane is measured every mesh is there,
   and no painter is more than a frame behind: one that ran after the projection shows
   this frame, in the lane drawn under it; one that ran before it may show the last,
   but nothing older, whatever the window has done and whichever visit to the screen
   this is. *)
PaintKeepsUp ==
    FrameIsPainted /\ lane # Nothing =>
        /\ \A kind \in MeshPainters :
             LET mesh == painted[kind]
             IN /\ mesh # Unpainted
                /\ \/ mesh = OnLane(MeshOf(kind, live_scene))
                   \/ /\ kind \in unseen
                      /\ mesh.shows = MeshOf(kind, last_frame.live)
                      /\ <<mesh.lane, mesh.layout>> \in
                           {<<lane, layout>>, <<last_frame.lane, last_frame.layout>>}
        /\ painted["events"] = PaintedMarkers
        /\ painted["lane"] = OnLane("background")
        /\ "grid" \notin unseen /\ grid_scene # {} =>
             painted["grid"] # Unpainted /\ painted["grid"].shows = grid_scene
=============================================================================

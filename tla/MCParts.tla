------------------------------- MODULE MCParts -------------------------------
(***************************************************************************)
(* The parts of the program that share no state in these models, checked   *)
(* in one run: a behaviour is a behaviour of one of them, its subject,     *)
(* while the others stand where they begin.                                *)
(***************************************************************************)
EXTENDS UxTrace, EngineGraph, Detectors, PitchYin, Vibrato, CaptureAdapters, TimeGraph,
        Tonics, Tonality, Widgets, TelemetryLog, Inspect

CONSTANT Subjects           \* the parts to check

VARIABLE subject

(* Engine worlds: every wiring of three nodes, cycles and nodes fed by nobody among
   them; of four, around a diamond; two boundary ports at one input; and one for each
   reason build has to reject a World before it sorts. *)
MCRegistry ==
    [mix |-> [ins |-> [a |-> "audio", b |-> "audio"], outs |-> [out |-> "audio"],
              latency |-> 1],
     slow |-> [ins |-> [a |-> "audio", b |-> "pitch"], outs |-> [out |-> "audio"],
               latency |-> 3]]
NodeEnd(n, port) == [node |-> n, port |-> port]
BoundaryEnd(port) == [node |-> Boundary, port |-> port]
Wire(from, to) == [from |-> from, to |-> to]
Wired(edges) ==
    FoldSet(LAMBDA e, acc : Append(acc, Wire(NodeEnd(e[1], "out"), NodeEnd(e[2], "a"))),
            <<>>, edges)
MCWorld(nodes, edges, ins, outs) ==
    [nodes |-> nodes, ids |-> <<"n1", "n2", "n3", "n4">>, in_ports |-> {"mic"},
     out_ports |-> {"spk"},
     connections |-> Wired(edges)
        \o [i \in DOMAIN ins |-> Wire(BoundaryEnd("mic"), NodeEnd(1, ins[i]))]
        \o [i \in DOMAIN outs |-> Wire(NodeEnd(outs[i], "out"), BoundaryEnd("spk"))]]
SharedInput ==
    [nodes |-> <<"mix">>, ids |-> <<"n1">>, in_ports |-> {"mic", "mic2"}, out_ports |-> {},
     connections |-> <<Wire(BoundaryEnd("mic"), NodeEnd(1, "a")),
                       Wire(BoundaryEnd("mic2"), NodeEnd(1, "a"))>>]
MCWorlds ==
    {MCWorld(<<"mix", "slow", "mix">>, edges, <<"a">>, <<3>>) :
        edges \in SUBSET ((1..3) \X (1..3))}
    \union {MCWorld(<<"mix", "slow", "mix", "mix">>, edges, <<"a", "b">>, <<4>>) :
        edges \in SUBSET {<<1, 2>>, <<1, 3>>, <<2, 4>>, <<3, 4>>, <<3, 2>>, <<4, 2>>}}
    \union {SharedInput}
    \union {[SharedInput EXCEPT !.nodes = <<"reverb">>],
            [SharedInput EXCEPT !.ids = <<"mic">>],
            [SharedInput EXCEPT !.connections = <<Wire(BoundaryEnd("mic"), BoundaryEnd("mic2"))>>],
            [SharedInput EXCEPT !.connections = <<Wire(NodeEnd(1, "out"), NodeEnd(1, "c"))>>]}

(* Samples, and windows that repeat after one to six of them. *)
MCLevels == {-1, 0, 1}
MCWindows == UNION {{[j \in 1..12 |-> pattern[((j - 1) % t) + 1]] :
                        pattern \in [1..t -> {-1, 0, 1}]} : t \in 1..6}
MCThreshold == Fraction(1, 10)

(* A pitch contour, a signal, the bins of a band. *)
MCContours == [1..6 -> {0, 60, 180}]
MCSignals == [0..7 -> {0, 3}]
MCSpectra == UNION {[1..n -> 0..3] : n \in 2..6}

(* A device with one configuration, one with two rates, a broken one, and one of more
   channels than Apple's adapter opens. *)
Config(rate, channels) == [rate |-> rate, channels |-> channels]
MCOffers == {<<Config(1, 1)>>, <<Config(2, 2), Config(1, 2)>>, <<Config(0, 0)>>,
             <<Config(1, 65)>>}
MCRequests == {Config(1, 1), Config(2, 2), Config(0, 1), Config(1, 0),
               Config(1, 65)}

(* A breath, a voiced breath with an onset, and a pitch in another octave. *)
Hop(pitch, is_breath, is_onset) == [pitch |-> pitch, breath |-> is_breath, onset |-> is_onset]
MCSounds == {Hop(Nothing, TRUE, FALSE), Hop(3, TRUE, TRUE), Hop(17, FALSE, FALSE)}
(* In a frame the traces and the grooves are painted ahead of the projection, or all
   painters behind it. *)
MCEarly == {{"trace", "grid"}}

(* An even tuning and an uneven one with another number of slots. *)
MCRatioPitches == [even |-> <<0, 3, 6, 9>>, uneven |-> <<0, 2, 6, 7, 9>>]
MCCatalogue == <<<<1, 2, 1>>, <<1, 1, 1, 1>>, <<2, 1, 2>>>>
MCDefaultScale ==
    Scale(FromWidths(<<1, 2, 1>>),
          TuningRotated(TuningAbsolute(KindIntervals("even"), 5), 1), 2)
MCPitches == -2..26

(* Three writes and two visits of a screen; the dial has more systems to interleave. *)
MCInputs == [p \in DOMAIN Chain |-> IF p = "dial" THEN 2 ELSE 3]
MCVisits == [p \in DOMAIN Chain |-> IF p = "dial" THEN 1 ELSE 2]

(* Two threads that log; two ports of the engine, and a selection of a third. *)
MCThreads == {"audio", "ui"}
MCEnginePorts == [f0 |-> "hz", onset |-> "event"]
MCPicks == {[port |-> "f0", shape |-> "hz"], [port |-> "onset", shape |-> "event"],
            [port |-> "gone", shape |-> "control"]}

ParkedVibrato == [k \in 1..6 |-> 60]

MCInit ==
    /\ subject \in Subjects
    /\ TraceInit /\ DetectorsInit /\ GraphInit
    /\ EngineInit /\ (subject # "engine" => world = SharedInput)
    /\ YinInit /\ (subject # "yin" => yin_window = [j \in 1..12 |-> 0])
    /\ VibratoInit /\ (subject # "vibrato" => contour = ParkedVibrato)
    /\ AdapterInit
    /\ subject # "capture" =>
         adapter = "cpal" /\ offer = <<Config(1, 1)>>
    /\ SongInit
    /\ subject # "song" =>
         song.kind = "even" /\ \A hz \in References : song.reference <= hz
    /\ TonalityInit
    /\ subject # "tonality" =>
         app_settings.kind = "even" /\ \A hz \in References : app_settings.reference <= hz
    /\ WidgetsInit /\ (subject # "widgets" => part = "tabs")
    /\ LogInit /\ (subject # "log" => ~has_file)
    /\ InspectInit

MCNext ==
    /\ UNCHANGED subject
    /\ IF subject = "trace" THEN TraceNext ELSE UNCHANGED trace_vars
    /\ IF subject = "engine" THEN EngineNext ELSE UNCHANGED engine_vars
    /\ IF subject = "detectors" THEN DetectorsNext ELSE UNCHANGED detector_vars
    /\ IF subject = "yin" THEN YinNext ELSE UNCHANGED yin_vars
    /\ IF subject = "vibrato" THEN VibratoNext ELSE UNCHANGED vibrato_vars
    /\ IF subject = "capture" THEN AdapterNext ELSE UNCHANGED adapter_vars
    /\ IF subject = "graph" THEN GraphNext ELSE UNCHANGED graph_vars
    /\ IF subject = "song" THEN SongNext ELSE UNCHANGED song_vars
    /\ IF subject = "tonality" THEN TonalityNext ELSE UNCHANGED tonality_vars
    /\ IF subject = "widgets" THEN WidgetsNext ELSE UNCHANGED widget_vars
    /\ IF subject = "log" THEN LogNext ELSE UNCHANGED log_vars
    /\ IF subject = "inspect" THEN InspectNext ELSE UNCHANGED inspect_vars

MCSpec == MCInit /\ [][MCNext]_<<subject, trace_vars, engine_vars, detector_vars, yin_vars,
                                 vibrato_vars, adapter_vars, graph_vars, song_vars,
                                 tonality_vars, widget_vars, log_vars, inspect_vars>>

-----------------------------------------------------------------------------
(* Both analyses of a hop, of the pitch and of the vibrato, compute what they are said
   to: a window is heard at its period, and a contour's vibrato where its transform
   has a peak that stands out. *)
EstimatesAreExact == PeriodIsHeard /\ AnalysisIsExact

(* What is on the screen follows what it shows: no painter of the graph is more than a
   frame behind its scene, and every widget is drawn again for what changed of its
   resources, but in the four cases that WidgetsShowTheState excepts. *)
ScreensKeepUp == PaintKeepsUp /\ WidgetsShowTheState

(* What a writer has flushed outlives a crash: the frames of a trace, which load as they
   were, and the lines of the log, which no other thread's lines disturb. *)
FlushedIsKept == FlushedFramesAreRecovered /\ LogIsTeed

(* Nothing of a session outlives it, of what a capture allocated and the threads that call
   it back, and of the taps and the ports that a head inspects: but the list of ports of
   a session whose stream could not be opened, which stays until a later session writes
   its own or is torn down whole. *)
SessionsEndClean == CaptureIsReleased /\ TapsAreCurrent
=============================================================================

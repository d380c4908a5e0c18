------------------------------ MODULE Tonality ------------------------------
(***************************************************************************)
(* The musical frame of a session on its way round: the head's settings    *)
(* and song tonality, the commands that configure the coach with it, the   *)
(* coach's answers, and what the game screen shows of them: the dial and   *)
(* the scale picker (coach-game/src: state.rs, menu/settings/music.rs,     *)
(* game/note_dial.rs, game/scale_picker.rs, coach.rs; app-coach:           *)
(* do_configure_session, do_list_scales).                                  *)
(*                                                                         *)
(* Commands and events are queues, taken in order.  A frame of the game    *)
(* drains the events first; the click handlers and the painters then run   *)
(* in any order but the three that are chained.  At most one button is     *)
(* clicked in a frame.                                                     *)
(***************************************************************************)
EXTENDS Music

CONSTANTS SungPitches,      \* pitches the features may hold
          MaxScreens,       \* bound: times the game screen is entered
          MaxClicks         \* bound: clicks in the game and in the settings

VARIABLES
    game_shown,         \* the game screen, or another one
    app_settings,       \* AppSettings: kind and reference
    song_tonality,      \* SongTonality
    mailbox,            \* commands on their way to the coach
    session_model,      \* the coach's scale, published with it
    outbox,             \* its answers
    music_info,         \* MusicInfoRes
    known_scales,       \* KnownScales
    showing_picker,     \* ShowingScalePicker
    overlay,            \* the rows of the overlay, or Nothing
    dial,               \* the slots and the needle of the dial, or Nothing
    sung,               \* LatestFeatures: the pitch
    unread,             \* painters whose resource changed since they last ran
    to_run,             \* the systems still to run in this frame
    clicked,            \* the button clicked in this frame
    visits, clicks      \* history: bounds

coach_side == <<mailbox, session_model, outbox>>
screen_side == <<game_shown, overlay, dial, showing_picker>>
tonality_vars == <<coach_side, screen_side, app_settings, song_tonality, music_info,
                   known_scales, sung, unread, to_run, clicked, visits, clicks>>

(* None, where the coach or the head may hold a scale. *)
NoModel == [none |-> TRUE]
ASSUME DefaultIsAScale == DefaultScale # NoModel

On(button) == [on |-> button, row |-> 0]
OnRow(i) == [on |-> "row", row |-> i]
NoClick == On("nothing")
Painters == {"sync_picker", "sync_rows", "repaint_slots"}
GameRuns == Painters \union {"drain", "handlers"}

TonalityInit ==
    /\ game_shown = FALSE
    /\ app_settings \in [kind : Kinds, reference : References]
    /\ song_tonality = DefaultScale
    /\ mailbox = <<>> /\ session_model = NoModel /\ outbox = <<>>
    /\ music_info = NoModel
    /\ known_scales = <<>>
    /\ showing_picker = FALSE
    /\ overlay = Nothing /\ dial = Nothing
    /\ sung = Nothing
    /\ unread = Painters
    /\ to_run = {} /\ clicked = NoClick
    /\ visits = 0 /\ clicks = 0

-----------------------------------------------------------------------------
(* The coach. *)

(* The scales of the grid the coach holds. *)
ListedFor(model) == IF model = NoModel THEN <<>> ELSE ScalesFor(SlotsOf(model))

(* Mutant of AnswerConfigure: a head that configures again is told nothing. *)
AnswerConfigureOnce(scale) ==
    /\ session_model' = scale
    /\ outbox' = IF session_model = NoModel THEN Append(outbox, [event |-> "configured"])
                 ELSE outbox

(* do_configure_session: hold the scale, publish it, then say so. *)
AnswerConfigure(scale) ==
    /\ session_model' = scale
    /\ outbox' = Append(outbox, [event |-> "configured"])

(* do_list_scales *)
AnswerListScales ==
    /\ outbox' = Append(outbox, [event |-> "listed", shapes |-> ListedFor(session_model)])
    /\ UNCHANGED session_model

CoachTakesCommand ==
    /\ mailbox # <<>>
    /\ mailbox' = Tail(mailbox)
    /\ LET command == Head(mailbox)
       IN IF command.cmd = "MusicListScales" THEN AnswerListScales
          ELSE AnswerConfigure(command.scale)
    /\ UNCHANGED <<screen_side, app_settings, song_tonality, music_info, known_scales, sung,
                   unread, to_run, clicked, visits, clicks>>

-----------------------------------------------------------------------------
(* drain_events: every event polled, in order; a configured session is read from the
   coach's snapshot as it is now.  The features are read last. *)
DrainAnswers(pitch) ==
    /\ "drain" \in to_run
    /\ to_run' = to_run \ {"drain"}
    /\ LET lists == SelectSeq(outbox, LAMBDA e : e.event = "listed")
           configured == \E i \in DOMAIN outbox : outbox[i].event = "configured"
       IN /\ known_scales' = IF lists = <<>> THEN known_scales ELSE Last(lists).shapes
          /\ music_info' = IF configured THEN session_model ELSE music_info
          /\ unread' = unread \union (IF lists = <<>> THEN {} ELSE {"sync_rows"})
                              \union (IF configured THEN {"repaint_slots"} ELSE {})
    /\ outbox' = <<>>
    /\ sung' = IF game_shown THEN pitch ELSE Nothing
    /\ UNCHANGED <<screen_side, mailbox, session_model, app_settings, song_tonality, clicked,
                   visits, clicks>>

-----------------------------------------------------------------------------
(* Click handlers of the game screen. *)

ConfigureSession(scale) == [cmd |-> "MusicConfigureSession", scale |-> scale]
Configure(scale) ==
    /\ song_tonality' = scale
    /\ mailbox' = Append(mailbox, ConfigureSession(scale))

SetShowing(flag) ==
    /\ showing_picker' = flag
    /\ unread' = unread \union {"sync_picker"}

(* handle_hub_capture; nothing without a voiced pitch. *)
HandleHubCapture ==
    /\ clicked.on = "hub"
    /\ IF sung = Nothing THEN UNCHANGED <<song_tonality, mailbox>>
       ELSE Configure(CaptureScale(AbsoluteOf(app_settings), song_tonality, sung))
    /\ UNCHANGED <<showing_picker, unread>>

(* handle_hud_click, chained before the painters of the picker. *)
HandleHudClick ==
    /\ clicked.on = "badge"
    /\ IF showing_picker THEN UNCHANGED <<mailbox, showing_picker, unread>>
       ELSE mailbox' = Append(mailbox, [cmd |-> "MusicListScales"]) /\ SetShowing(TRUE)
    /\ UNCHANGED song_tonality

(* handle_row_click: the row's index into the scales known by now. *)
HandleRowClick ==
    /\ clicked.on = "row"
    /\ IF clicked.row > Len(known_scales)
       THEN UNCHANGED <<song_tonality, mailbox, showing_picker, unread>>
       ELSE /\ Configure(SelectScale(song_tonality, known_scales[clicked.row]))
            /\ SetShowing(FALSE)

HandleCloseClick ==
    /\ clicked.on = "close"
    /\ SetShowing(FALSE)
    /\ UNCHANGED <<song_tonality, mailbox>>

RunHandlers ==
    /\ "handlers" \in to_run /\ "drain" \notin to_run
    /\ clicked.on = "badge" => {"sync_picker", "sync_rows"} \subseteq to_run
    /\ to_run' = to_run \ {"handlers"}
    /\ \/ HandleHubCapture \/ HandleHudClick \/ HandleRowClick \/ HandleCloseClick
       \/ clicked = NoClick /\ UNCHANGED <<song_tonality, mailbox, showing_picker, unread>>
    /\ UNCHANGED <<game_shown, overlay, dial, app_settings, session_model, outbox, music_info,
                   known_scales, sung, clicked, visits, clicks>>

-----------------------------------------------------------------------------
(* Painters of the game screen. *)

RunPainter(painter) ==
    /\ painter \in to_run /\ "drain" \notin to_run
    /\ to_run' = to_run \ {painter}
    /\ unread' = unread \ {painter}
    /\ UNCHANGED <<coach_side, game_shown, showing_picker, app_settings, song_tonality,
                   music_info, known_scales, sung, clicked, visits, clicks>>

(* sync_picker: only when the flag has changed. *)
SyncPicker ==
    /\ RunPainter("sync_picker")
    /\ clicked.on = "badge" => "handlers" \notin to_run
    /\ overlay' = IF "sync_picker" \notin unread THEN overlay
                  ELSE IF showing_picker THEN known_scales ELSE Nothing
    /\ UNCHANGED dial

(* sync_rows: only when the scales have changed and the overlay is there. *)
SyncRows ==
    /\ RunPainter("sync_rows") /\ "sync_picker" \notin to_run
    /\ overlay' = IF showing_picker /\ "sync_rows" \in unread /\ overlay # Nothing
                  THEN known_scales ELSE overlay
    /\ UNCHANGED dial

(* Mutant of NeedsSlots: the slots are built once. *)
NeedsSlotsOnce == dial.slots = <<>>

NeedsSlots == "repaint_slots" \in unread \/ dial.slots = <<>>

(* repaint_slots, rebuild_slots and apply_state of the widget, and update_from_features,
   which is taken with them: nothing but the drain writes what they read. *)
PaintDial ==
    /\ RunPainter("repaint_slots")
    /\ dial' = [slots |-> IF music_info # NoModel /\ NeedsSlots THEN BuildSlots(music_info)
                          ELSE dial.slots,
                needle |-> IF music_info = NoModel \/ sung = Nothing THEN Nothing
                           ELSE NeedleAngle(music_info, sung)]
    /\ UNCHANGED overlay

-----------------------------------------------------------------------------
(* Screens. *)

(* on_enter configures before it starts audio; the widgets are new. *)
EnterGameScreen ==
    /\ to_run = {} /\ ~game_shown /\ visits < MaxScreens
    /\ game_shown' = TRUE /\ visits' = visits + 1
    /\ mailbox' = Append(mailbox, ConfigureSession(song_tonality))
    /\ dial' = [slots |-> <<>>, needle |-> Nothing]
    /\ to_run' = GameRuns /\ clicked' = NoClick
    /\ UNCHANGED <<session_model, outbox, overlay, showing_picker, app_settings, song_tonality,
                   music_info, known_scales, sung, unread, clicks>>

(* Everything below InGameRoot is despawned. *)
LeaveGameScreen ==
    /\ to_run = {} /\ game_shown
    /\ game_shown' = FALSE
    /\ overlay' = Nothing /\ dial' = Nothing
    /\ to_run' = {"drain"} /\ clicked' = NoClick
    /\ UNCHANGED <<coach_side, showing_picker, app_settings, song_tonality, music_info,
                   known_scales, sung, unread, visits, clicks>>

(* What there is to click on. *)
Buttons == {On("hub"), On("badge")}
             \union (IF overlay = Nothing THEN {}
                     ELSE {On("close")} \union {OnRow(i) : i \in DOMAIN overlay})

BeginGameFrame ==
    /\ to_run = {} /\ game_shown
    /\ to_run' = GameRuns
    /\ \/ clicked' = NoClick /\ UNCHANGED clicks
       \/ clicks < MaxClicks /\ clicked' \in Buttons /\ clicks' = clicks + 1
    /\ UNCHANGED <<coach_side, screen_side, app_settings, song_tonality, music_info,
                   known_scales, sung, unread, visits>>

BeginMenuFrame ==
    /\ to_run = {} /\ ~game_shown
    /\ to_run' = {"drain"}
    /\ UNCHANGED <<coach_side, screen_side, app_settings, song_tonality, music_info,
                   known_scales, sung, unread, clicked, visits, clicks>>

(* handle_tuning_kind_click, handle_reference_hz_click: the song is left as it is. *)
ClickSettings ==
    /\ to_run = {} /\ ~game_shown /\ clicks < MaxClicks
    /\ clicks' = clicks + 1
    /\ \/ \E kind \in Kinds : app_settings' = [app_settings EXCEPT !.kind = kind]
       \/ \E hz \in References : app_settings' = [app_settings EXCEPT !.reference = hz]
    /\ UNCHANGED <<coach_side, screen_side, song_tonality, music_info, known_scales, sung,
                   unread, to_run, clicked, visits>>

TonalityNext ==
    \/ CoachTakesCommand
    \/ \E pitch \in SungPitches \union {Nothing} : DrainAnswers(pitch)
    \/ RunHandlers \/ SyncPicker \/ SyncRows \/ PaintDial
    \/ EnterGameScreen \/ LeaveGameScreen \/ BeginGameFrame \/ BeginMenuFrame \/ ClickSettings

TonalitySpec == TonalityInit /\ [][TonalityNext]_tonality_vars

-----------------------------------------------------------------------------
(* Nothing is on its way and every painter has seen what is there. *)
IsSettled == mailbox = <<>> /\ outbox = <<>> /\ to_run = {} /\ unread = {}

(* Once the commands are answered and drained, and however clicks, answers and frames
   fell together, the coach holds the scale the head believes in, the dial shows its
   slots, and an open picker lists the scales of the grid the coach had when it was
   last asked. *)
HeadAndCoachAgree ==
    IsSettled /\ game_shown =>
        /\ session_model = song_tonality
        /\ music_info = session_model
        /\ dial.slots = BuildSlots(session_model)
        /\ overlay # Nothing => showing_picker /\ overlay = known_scales

(* What scale_picker.rs says of the flag: "True while the scale picker overlay is on
   screen."  It is not reset when the screen with the overlay is left. *)
ShowingMeansOnScreen == IsSettled /\ game_shown /\ showing_picker => overlay # Nothing
=============================================================================

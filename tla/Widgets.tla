------------------------------- MODULE Widgets -------------------------------
(***************************************************************************)
(* What the head draws of its resources, and when it draws them again.     *)
(*                                                                         *)
(* A screen is spawned when it is entered and despawned when it is left    *)
(* (coach-game/src/menu, game and widgets).  While it is there its sync    *)
(* systems run once per frame, in no order but that of their chains, and   *)
(* each draws only if what it watches has changed, or was added, since it  *)
(* ran last, also if that was on another visit.  Handlers and drain_events *)
(* write the resources at any point of a frame; entities that a system     *)
(* spawns are there from the next sync point.                              *)
(*                                                                         *)
(* A behaviour watches one part of the screen: the others share nothing    *)
(* with it but the screen.  Layout, texts and colours are left out; what a *)
(* widget shows is the value of the resources it was drawn from.           *)
(***************************************************************************)
EXTENDS Naturals

CONSTANTS MaxInputs,        \* bound: writes of a resource, for each part
          MaxVisits         \* bound: times its screen is entered, likewise

VARIABLES
    part,           \* the part watched
    screen,         \* is its screen on, and what was on before
    next_screen,    \* NextState
    value,          \* the resources, and the dial's components
    pending,         \* per system: what changed since it ran
    drawn,          \* what the widgets show
    deferred,       \* Commands not applied yet
    ran,            \* systems that ran this frame
    fresh,          \* history: resources written since the screen was entered
    quiet,          \* history: whole frames since something was written
    written, entries \* counts, for the bounds

widget_vars == <<part, screen, next_screen, value, pending, drawn, deferred, ran, fresh, quiet,
                 written, entries>>

Absent == "absent"
Settled == 3            \* frames: the one written in, a redraw, what the redraw added

(* The systems that draw a part, in the order of their chains. *)
Chain ==
    [tabs |-> <<{"sync_tab_visibility"}>>,
     devices |-> <<{"rebuild_device_list"}>>,
     music |-> <<{"rebuild_settings_list", "rebuild_master_rows", "sync_music_detail"}>>,
     pause |-> <<{"sync_confirm_modal", "sync_resume_locked"}>>,
     prompt |-> <<{"sync_permission_modal"}>>,
     dial |-> <<{"update_dial_metrics"}, {"rebuild_slots"}, {"apply_state"},
                {"update_hub_size"}>>,
     hud |-> <<{"refresh", "sync_text"}>>]
Glue == [dial |-> {"repaint_slots", "update_from_features"}]

InChain(p) == UNION {Chain[p][i] : i \in DOMAIN Chain[p]}
Systems(p) == InChain(p) \cup (IF p \in DOMAIN Glue THEN Glue[p] ELSE {})

(* Resources before anything was written. *)
Defaults ==
    [tabs |-> [tab |-> "Audio"],
     devices |-> [known |-> {}, selected |-> "default", mic |-> "Undetermined"],
     music |-> [settings |-> "A", selection |-> "ReferenceHz"],
     pause |-> [confirm |-> FALSE, locked |-> FALSE],
     prompt |-> [prompt |-> "Hidden"],
     dial |-> [music |-> Absent, sung |-> Absent, box |-> 1,
               scale |-> Absent, needle |-> Absent, k |-> 0],
     hud |-> [music |-> Absent, scene |-> Absent]]

(* What OnEnter spawns: lists without rows, an enabled Resume, no modal, no slots, and
   the components that count as added. *)
Spawned ==
    [tabs |-> [content |-> "Audio", button |-> "Audio"],
     devices |-> [list |-> {}],
     music |-> [pickers |-> Absent, rows |-> {}, detail |-> "ReferenceHz"],
     pause |-> [modal |-> FALSE, resume |-> TRUE],
     prompt |-> [modal |-> Absent],
     dial |-> [slots |-> Absent, size |-> 0, paint |-> Absent, needle |-> Absent, hub |-> 0],
     hud |-> [text |-> Absent]]
Added ==
    [tabs |-> {"TabContent", "TabButton"}, devices |-> {},
     music |-> {"ReferenceHzList", "TuningKindList", "MusicMasterPane"},
     pause |-> {}, prompt |-> {}, dial |-> {"box", "scale", "needle", "k"}, hud |-> {}]

(* What OnEnter and OnExit write, whatever it was before. *)
Reset ==
    CASE part = "tabs" -> [tab |-> "Audio"]
      [] part = "music" -> [selection |-> "ReferenceHz"]
      [] part = "pause" -> [confirm |-> FALSE]
      [] part = "dial" -> [scale |-> Absent, needle |-> Absent, k |-> 0]
      [] part = "hud" -> [scene |-> value.music]
      [] OTHER -> <<>>

(* A function, with another's values where that one has none. *)
Over(f, g) == [x \in DOMAIN f \cup DOMAIN g |-> IF x \in DOMAIN f THEN f[x] ELSE g[x]]

WidgetsInit ==
    /\ part \in DOMAIN Chain
    /\ screen = [on |-> FALSE, again |-> FALSE]
    /\ next_screen = "Unchanged"
    /\ value = Defaults[part]
    /\ pending = [s \in Systems(part) |-> DOMAIN value]
    /\ drawn = Spawned[part]
    /\ deferred = <<>>
    /\ ran = {}
    /\ fresh = {}
    /\ quiet = 0
    /\ written = 0
    /\ entries = 0

-----------------------------------------------------------------------------
(* Change detection. *)

Mark(things) == [s \in DOMAIN pending |-> pending[s] \cup things]

(* A system that runs has seen everything; it may change something itself. *)
Looked(s, things) == [Mark(things) EXCEPT ![s] = {}]
Sees(s, things) == pending[s] \cap things # {}

Runs(s) ==
    /\ s \in Systems(part)
    /\ screen.on
    /\ "Update" \in ran
    /\ s \notin ran
    /\ \A i, j \in DOMAIN Chain[part] :
         s \in Chain[part][j] /\ i < j => Chain[part][i] \subseteq ran
    /\ ran' = ran \cup {s}
    /\ UNCHANGED <<part, screen, next_screen, quiet, written, entries>>

(* Draws at once what is there already. *)
Draws(s, watched, drawing) ==
    /\ Runs(s)
    /\ pending' = Looked(s, {})
    /\ drawn' = IF Sees(s, watched) THEN drawing ELSE drawn
    /\ UNCHANGED <<value, deferred, fresh>>

(* Spawns what will be there from the next sync point. *)
Spawns(s, watched, spawning) ==
    /\ Runs(s)
    /\ pending' = Looked(s, {})
    /\ deferred' = IF Sees(s, watched) THEN Over(spawning, deferred) ELSE deferred
    /\ UNCHANGED <<value, drawn, fresh>>

Rows == IF "rows" \in DOMAIN deferred THEN {"MusicMasterRow"} ELSE {}

(* A sync point, which another chain may put anywhere in the frame. *)
Flush ==
    /\ deferred # <<>>
    /\ drawn' = Over(deferred, drawn)
    /\ deferred' = <<>>
    /\ pending' = Mark(Rows)
    /\ UNCHANGED <<part, screen, next_screen, value, ran, fresh, quiet, written, entries>>

BeginUpdate ==
    /\ ran = {} /\ next_screen = "Unchanged"
    /\ ran' = {"Update"}
    /\ UNCHANGED <<part, screen, next_screen, value, pending, drawn, deferred, fresh, quiet,
                   written, entries>>

AllRan == ran = {"Update"} \cup (IF screen.on THEN Systems(part) ELSE {})

EndFrame ==
    /\ AllRan /\ deferred = <<>>
    /\ ran' = {}
    /\ quiet' = IF quiet < Settled THEN quiet + 1 ELSE quiet
    /\ UNCHANGED <<part, screen, next_screen, value, pending, drawn, deferred, fresh, written,
                   entries>>

(* StateTransition, before the frame's systems: OnExit and OnEnter, also from a screen
   to itself. *)
ChangeWidgets ==
    /\ ran = {}
    /\ next_screen # "Unchanged"
    /\ next_screen' = "Unchanged"
    /\ screen' = [on |-> next_screen = "Home", again |-> screen.on /\ next_screen = "Home"]
    /\ drawn' = Spawned[part]
    /\ value' = IF next_screen = "Home" \/ part = "pause" THEN Over(Reset, value)
                ELSE value
    /\ pending' = IF next_screen = "Home" THEN Mark(Added[part] \cup DOMAIN Reset)
                 ELSE IF part = "pause" THEN Mark({"confirm"}) ELSE pending
    /\ fresh' = {}
    /\ quiet' = 0
    /\ UNCHANGED <<part, deferred, ran, written, entries>>

-----------------------------------------------------------------------------
(* The sync systems. *)

Tabs == Draws("sync_tab_visibility", {"tab", "TabContent", "TabButton"},
              [content |-> value.tab, button |-> value.tab])

Row(name, marked) == [row |-> name, marked |-> marked]

(* A row for the default and for each device, or the panel that asks for permission. *)
DeviceRows ==
    CASE value.mic # "Granted" -> {Row(value.mic, FALSE)}
      [] value.known = {} -> {Row("No microphone found.", FALSE)}
      [] OTHER -> {Row(device, device = value.selected) :
                     device \in value.known \cup {"default"}}

DeviceList == Spawns("rebuild_device_list", {"known", "selected", "mic"},
                     [list |-> DeviceRows])

SettingsLists == Spawns("rebuild_settings_list",
                        {"settings", "ReferenceHzList", "TuningKindList"},
                        [pickers |-> value.settings])

(* The master rows show the settings; the selected one is marked. *)
Highlighted(names, settings) ==
    {[row |-> name, shows |-> settings, marked |-> name = value.selection] : name \in names}

MasterRows == Spawns("rebuild_master_rows", {"settings", "MusicMasterPane"},
                     [rows |-> Highlighted({"ReferenceHz", "TuningKind"}, value.settings)])

(* Marks the rows that are there, as they are. *)
Remarked == {[r EXCEPT !.marked = r.row = value.selection] : r \in drawn.rows}

MusicDetail ==
    Draws("sync_music_detail",
          {"selection", "ReferenceHzList", "TuningKindList", "MusicMasterRow"},
          [drawn EXCEPT !.detail = value.selection, !.rows = Remarked])

ConfirmModal == Spawns("sync_confirm_modal", {"confirm"}, [modal |-> value.confirm])

(* Mutant of ResumeLocked: a lock that came with the screen is not looked at. *)
ResumeLockedHere == Draws("sync_resume_locked", {"locked"} \cap fresh,
                          [drawn EXCEPT !.resume = ~value.locked])

ResumeLocked == Draws("sync_resume_locked", {"locked"},
                      [drawn EXCEPT !.resume = ~value.locked])

ModalOf(prompt) == IF prompt \in {"Hidden", "CheckingHardware"} THEN Absent ELSE prompt

PermissionModal == Spawns("sync_permission_modal", {"prompt"},
                          [modal |-> ModalOf(value.prompt)])

(* The dial: what is measured of its box, its slots, their colours and the needle. *)
DialMetrics ==
    /\ Runs("update_dial_metrics")
    /\ IF Sees("update_dial_metrics", {"box"})
       THEN /\ value' = [value EXCEPT !.k = value.box]
            /\ pending' = Looked("update_dial_metrics", {"k"})
       ELSE /\ pending' = Looked("update_dial_metrics", {})
            /\ UNCHANGED value
    /\ UNCHANGED <<drawn, deferred, fresh>>

(* The chain puts a sync point behind it. *)
RebuildSlots ==
    Draws("rebuild_slots", {"scale", "k"},
          [drawn EXCEPT !.slots = value.scale, !.size = value.k, !.paint = Absent])

ApplyState ==
    Draws("apply_state", {"needle", "scale", "k"},
          [drawn EXCEPT !.paint = value.scale, !.needle = value.needle])

HubSize == Draws("update_hub_size", {"k"}, [drawn EXCEPT !.hub = value.k])

(* Of one change apply_state hears this frame, rebuild_slots the next: it repaints slots
   that are then spawned anew. *)
BetweenTheTwo == "rebuild_slots" \in ran /\ "apply_state" \notin ran

(* The glue of the dial, in no order with its chain: slots for a new tuning, or for a
   dial that has none yet; a needle for what is sung, written in every frame. *)
RepaintSlots ==
    /\ Runs("repaint_slots")
    /\ IF value.music # Absent /\ (Sees("repaint_slots", {"music"}) \/ value.scale = Absent)
       THEN /\ value' = [value EXCEPT !.scale = value.music]
            /\ pending' = Looked("repaint_slots", {"scale"})
            /\ fresh' = fresh \cup (IF BetweenTheTwo THEN {"torn"} ELSE {})
       ELSE /\ pending' = Looked("repaint_slots", {})
            /\ UNCHANGED <<value, fresh>>
    /\ UNCHANGED <<drawn, deferred>>

NeedleNow == IF value.music = Absent THEN Absent ELSE value.sung

UpdateFromFeatures ==
    /\ Runs("update_from_features")
    /\ value' = [value EXCEPT !.needle = NeedleNow]
    /\ pending' = Looked("update_from_features",
                        IF NeedleNow = Absent /\ value.needle = Absent THEN {} ELSE {"needle"})
    /\ UNCHANGED <<drawn, deferred, fresh>>

HudRefresh ==
    /\ Runs("refresh")
    /\ IF Sees("refresh", {"music"}) /\ value.scene # value.music
       THEN /\ value' = [value EXCEPT !.scene = value.music]
            /\ pending' = Looked("refresh", {"scene"})
       ELSE /\ pending' = Looked("refresh", {})
            /\ UNCHANGED value
    /\ UNCHANGED <<drawn, deferred, fresh>>

HudText == Draws("sync_text", {"scene"}, [text |-> value.scene])

-----------------------------------------------------------------------------
(* Who writes the resources. *)

Write(resource, v, goes) ==
    /\ "Update" \in ran
    /\ written < MaxInputs[part]
    /\ written' = written + 1
    /\ value' = [value EXCEPT ![resource] = v]
    /\ pending' = Mark({resource})
    /\ next_screen' = IF goes = "Unchanged" THEN next_screen ELSE goes
    /\ fresh' = fresh \cup {resource}
    /\ quiet' = 0
    /\ UNCHANGED <<part, screen, drawn, deferred, ran, entries>>

(* A handler of the screen, in a frame that is on it. *)
Handles(resource, v, goes) == screen.on /\ Write(resource, v, goes)

HandleTabClick == part = "tabs" /\ \E tab \in {"Audio", "Music"} \ {value.tab} :
                      Handles("tab", tab, "Unchanged")

(* The screen asks for the devices when it is entered; they are listed later, if at all,
   and a status may come whenever it likes. *)
DrainDevices ==
    /\ part = "devices"
    /\ \/ \E devices \in {{}, {"usb"}} : Write("known", devices, "Unchanged")
       \/ \E mic \in {"Undetermined", "Granted"} \ {value.mic} :
            Write("mic", mic, "Unchanged")

HandleRow ==
    /\ part = "devices"
    /\ \E device \in {"default", "usb"} :
         /\ \E r \in drawn.list : r.row = device
         /\ Handles("selected", device, "Unchanged")

HandleMusicRows ==
    /\ part = "music"
    /\ \/ /\ drawn.pickers # Absent
          /\ \E choice \in {"A", "B"} : Handles("settings", choice, "Unchanged")
       \/ /\ drawn.rows # {}
          /\ \E row \in {"ReferenceHz", "TuningKind"} \ {value.selection} :
               Handles("selection", row, "Unchanged")

HandleQuitToMain == part = "pause" /\ Handles("confirm", TRUE, "Unchanged")
HandleConfirm ==
    /\ part = "pause" /\ drawn.modal
    /\ \E goes \in {"Away", "Unchanged"} : Handles("confirm", FALSE, goes)

(* An interruption shows the Pause screen and locks it; its end, or a pause by the
   player in the game, unlocks it. *)
DrainInterruption ==
    /\ part = "pause"
    /\ \/ Write("locked", TRUE, "Home")
       \/ Write("locked", FALSE, "Unchanged")
       \/ ~screen.on /\ Write("locked", FALSE, "Home")

HandleNewGame ==
    /\ part = "prompt"
    /\ \E prompt \in {"CheckingHardware", "NeedsPermission"} :
         Handles("prompt", prompt, "Unchanged")

HandleModal ==
    /\ part = "prompt"
    /\ \/ drawn.modal = "NeedsPermission" /\ Handles("prompt", "RequestPending", "Unchanged")
       \/ drawn.modal \in {"NeedsPermission", "NoHardware"}
          /\ Handles("prompt", "Hidden", "Unchanged")

(* The answers: to the request on any screen, about the hardware on the menu. *)
DrainAnswer ==
    /\ part = "prompt"
    /\ \/ /\ value.prompt = "RequestPending"
          /\ \E prompt \in {"NeedsPermission", "CheckingHardware"} :
               Write("prompt", prompt, "Unchanged")
       \/ /\ value.prompt = "CheckingHardware"
          /\ \/ Handles("prompt", "NoHardware", "Unchanged")
             \/ Handles("prompt", "Hidden", "Away")

DrainMusic ==
    /\ part \in {"dial", "hud"}
    /\ \/ \E tuning \in {"even", "uneven"} : Write("music", tuning, "Unchanged")
       \/ part = "dial" /\ \E sung \in {Absent, "note"} : Write("sung", sung, "Unchanged")

(* Layout, after the frame's systems. *)
ResizeDial ==
    /\ part = "dial"
    /\ screen.on /\ AllRan
    /\ \E box \in {1, 2} \ {value.box} : Write("box", box, "Unchanged")

Visit ==
    /\ ~screen.on /\ next_screen = "Unchanged" /\ "Update" \in ran
    /\ part # "pause"
    /\ entries < MaxVisits[part]
    /\ entries' = entries + 1
    /\ next_screen' = "Home"
    /\ UNCHANGED <<part, screen, value, pending, drawn, deferred, ran, fresh, quiet, written>>

Depart ==
    /\ screen.on /\ next_screen = "Unchanged" /\ "Update" \in ran
    /\ next_screen' = "Away"
    /\ UNCHANGED <<part, screen, value, pending, drawn, deferred, ran, fresh, quiet, written,
                   entries>>

-----------------------------------------------------------------------------
Sync ==
    \/ Tabs \/ DeviceList \/ SettingsLists \/ MasterRows \/ MusicDetail
    \/ ConfirmModal \/ ResumeLocked \/ PermissionModal
    \/ DialMetrics \/ RebuildSlots \/ ApplyState \/ HubSize
    \/ RepaintSlots \/ UpdateFromFeatures \/ HudRefresh \/ HudText
    \/ BeginUpdate \/ Flush \/ EndFrame \/ ChangeWidgets

Writers ==
    \/ HandleTabClick \/ DrainDevices \/ HandleRow \/ HandleMusicRows
    \/ HandleQuitToMain \/ HandleConfirm \/ DrainInterruption
    \/ HandleNewGame \/ HandleModal \/ DrainAnswer
    \/ DrainMusic \/ ResizeDial
    \/ Visit \/ Depart

WidgetsNext == Sync \/ Writers
WidgetsSpec == WidgetsInit /\ [][WidgetsNext]_widget_vars

-----------------------------------------------------------------------------
Agrees ==
    CASE part = "tabs" -> drawn.content = value.tab /\ drawn.button = value.tab
      [] part = "devices" ->
           \/ drawn.list = DeviceRows
           \/ drawn.list = {} /\ "known" \notin fresh
      [] part = "music" ->
           /\ drawn.pickers = value.settings
           /\ drawn.rows = Highlighted({"ReferenceHz", "TuningKind"}, value.settings)
           /\ drawn.detail = value.selection
      [] part = "pause" ->
           /\ drawn.modal = value.confirm
           /\ \/ drawn.resume = ~value.locked
              \/ screen.again /\ "locked" \notin fresh
      [] part = "prompt" ->
           \/ drawn.modal = ModalOf(value.prompt)
           \/ drawn.modal = Absent /\ "prompt" \notin fresh
      [] part = "dial" ->
           /\ value.music # Absent => value.scale = value.music
           /\ drawn.slots = value.scale
           /\ \/ drawn.paint = value.scale
              \/ drawn.paint = Absent /\ "torn" \in fresh
           /\ drawn.size = value.box /\ drawn.hub = value.box
           /\ drawn.needle = NeedleNow
      [] part = "hud" -> drawn.text = value.music

(* Two frames after the last change what is on the screen is what the resources say,
   whatever changed while the screen was off, and in whatever order the systems and the
   handlers ran.  Four things are not drawn again, and excepted: a device list before
   the listing that the screen asked for, a prompt that outlived a visit of the menu, the
   lock of a Pause screen that was entered from itself, and the colours of slots that
   were spawned after apply_state had heard of the change. *)
WidgetsShowTheState ==
    screen.on /\ next_screen = "Unchanged" /\ ran = {} /\ quiet = Settled => Agrees
=============================================================================

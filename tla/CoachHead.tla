------------------------------ MODULE CoachHead ------------------------------
(***************************************************************************)
(* The game's screens (coach-game/src: lib.rs, coach.rs, game/mod.rs,      *)
(* menu/) on top of the port: one Bevy schedule of a frame after another.  *)
(*                                                                         *)
(* A frame applies the state change asked for in the last one, with its    *)
(* OnExit and OnEnter systems, then runs the Update systems of the screen. *)
(* drain_events polls once and handles one event after another.  Handlers  *)
(* of input that lib.rs orders after drain_events run after it, the others *)
(* anywhere in Update: Bevy leaves their order open.  More than one may    *)
(* run in a frame, and a later write of the next state overwrites an       *)
(* earlier one.                                                            *)
(*                                                                         *)
(* Left out: what is drawn, the device chosen, music, features and quitting. *)
(***************************************************************************)
EXTENDS CoachPort

CONSTANTS
  MaxInbox,              \* bound: commands waiting when the player changes the screen
  MaxAsk                 \* bound: commands waiting when the player asks the coach

ASSUME InboxAssumption == MaxInbox \in Nat /\ MaxAsk \in Nat

VARIABLES
  app_state,             \* State<AppState>
  next_state,            \* NextState<AppState>
  pc,                    \* where the frame is
  events,                \* the events this frame polled and has not handled
  has_paused,            \* HasPausedSession
  resume_locked,         \* ResumeLocked
  resume_enabled,        \* can the Resume button on the screen be pressed?
  showing_confirm,       \* ShowingQuitConfirm
  mic_status,            \* MicStatus
  prompt,                \* PermissionPrompt
  devices_known,         \* is KnownDevices not empty?
  devices_changed        \* was KnownDevices written since advance_checking_hardware ran?

pause == <<has_paused, resume_locked, resume_enabled, showing_confirm>>
mic == <<mic_status, prompt, devices_known, devices_changed>>
headVars == <<app_state, next_state, pc, events, pause, mic>>
vars == <<coachVars, headVars>>

AppState == {"MainMenu", "Settings", "InGame", "Paused"}
PermissionPrompt ==
  {"Hidden", "NeedsPermission", "PermissionDenied", "RequestPending",
   "CheckingHardware", "NoHardware"}

HeadTypeOK ==
  /\ app_state \in AppState /\ next_state \in AppState \union {"Unchanged"}
  /\ pc \in {"early", "drain", "late", "end"}
  /\ events \in Seq(CoachEvent)
  /\ has_paused \in BOOLEAN /\ resume_locked \in BOOLEAN
  /\ resume_enabled \in BOOLEAN /\ showing_confirm \in BOOLEAN
  /\ mic_status \in AudioInitStatus
  /\ prompt \in PermissionPrompt
  /\ devices_known \in BOOLEAN /\ devices_changed \in BOOLEAN

TypeOK == CoachTypeOK /\ HeadTypeOK

-----------------------------------------------------------------------------
(* The frame.                                                              *)

\* The commands the systems of OnExit and OnEnter send.
ExitCommands(screen) == IF screen = "InGame" THEN <<"Stop">> ELSE <<>>

EnterCommands(screen) ==
  CASE screen = "MainMenu" -> <<"PermissionQuery">>
    [] screen = "Settings" -> <<"ListDevices">>
    [] screen = "InGame"   -> <<"Start">>
    [] screen = "Paused"   -> <<>>

\* The first frame, when it has entered the menu, or with --autostart the game.
Init ==
  /\ CoachInit
  /\ \/ app_state = "MainMenu" /\ inbox = EnterCommands("MainMenu")
     \/ app_state = "InGame" /\ inbox = EnterCommands("MainMenu") \o EnterCommands("InGame")
  /\ next_state = "Unchanged"
  /\ pc = "early"
  /\ events = <<>>
  /\ has_paused = FALSE /\ resume_locked = FALSE
  /\ resume_enabled = FALSE /\ showing_confirm = FALSE
  /\ mic_status = "Undetermined"
  /\ prompt = "Hidden"
  /\ devices_known = FALSE /\ devices_changed = TRUE

\* Nothing was asked for: the next frame begins.
StayOnScreen ==
  /\ pc = "end" /\ next_state = "Unchanged"
  /\ pc' = "early"
  /\ UNCHANGED <<coachVars, app_state, next_state, events, pause, mic>>

\* Mutant of ChangeScreen: entering the game leaves the mark of the pause.
ChangeScreenKeepsMark ==
  /\ pc = "end" /\ next_state # "Unchanged"
  /\ pc' = "early"
  /\ app_state' = next_state /\ next_state' = "Unchanged"
  /\ inbox' = inbox \o ExitCommands(app_state) \o EnterCommands(next_state)
  /\ showing_confirm' = (showing_confirm /\ "Paused" \notin {app_state, next_state})
  /\ resume_enabled' = FALSE
  /\ UNCHANGED <<session, interrupted, asking, permission, queue, events,
                 has_paused, resume_locked, mic>>

\* The state change, also one to the same state.  A button is not pressed in
\* the frame that spawns it, and one just spawned is enabled afterwards.
ChangeScreen ==
  /\ pc = "end" /\ next_state # "Unchanged"
  /\ pc' = "early"
  /\ app_state' = next_state /\ next_state' = "Unchanged"
  /\ inbox' = inbox \o ExitCommands(app_state) \o EnterCommands(next_state)
  /\ has_paused' = (has_paused /\ next_state # "InGame")
  /\ showing_confirm' = (showing_confirm /\ "Paused" \notin {app_state, next_state})
  /\ resume_enabled' = FALSE
  /\ UNCHANGED <<session, interrupted, asking, permission, queue, events,
                 resume_locked, mic>>

\* poll_events; on the Pause screen sync_resume_locked ran before.
PollEvents ==
  /\ pc = "early"
  /\ pc' = "drain"
  /\ events' = Drained
  /\ DrainInto
  /\ resume_enabled' = (app_state = "Paused" /\ ~resume_locked)
  /\ UNCHANGED <<inbox, session, interrupted, asking, permission, app_state, next_state,
                 has_paused, resume_locked, showing_confirm, mic>>

Handle(kind) ==
  /\ pc = "drain"
  /\ events # <<>> /\ Head(events).kind = kind
  /\ events' = Tail(events)
  /\ UNCHANGED <<session, interrupted, asking, permission, queue, app_state, pc,
                 resume_enabled, showing_confirm>>

HandleDevicesListed ==
  /\ Handle("DevicesListed")
  /\ devices_known' = Head(events).value
  /\ devices_changed' = TRUE
  /\ UNCHANGED <<inbox, next_state, has_paused, resume_locked, mic_status, prompt>>

\* A dead session ends the game; elsewhere there is nothing to leave.
HandleSessionError ==
  /\ Handle("SessionError")
  /\ next_state' = IF app_state \in {"InGame", "Paused"} THEN "MainMenu" ELSE next_state
  /\ UNCHANGED <<inbox, has_paused, resume_locked, mic>>

\* Mutant of HandleBegan: the lock is set, the screen stays.
HandleBeganOnlyLocks ==
  /\ Handle("Began")
  /\ resume_locked' = TRUE
  /\ has_paused' = (has_paused \/ app_state # "InGame")
  /\ UNCHANGED <<inbox, next_state, mic>>

\* An interruption shows the Pause screen, from wherever the head is.
HandleBegan ==
  /\ Handle("Began")
  /\ resume_locked' = TRUE
  /\ has_paused' = TRUE
  /\ next_state' = "Paused"
  /\ UNCHANGED <<inbox, mic>>

HandleEnded ==
  /\ Handle("Ended")
  /\ resume_locked' = (resume_locked /\ ~Head(events).value)
  /\ UNCHANGED <<inbox, next_state, has_paused, mic>>

\* Mutant of HandlePermissionStatus: a denial does not answer the prompt.
HandlePermissionStatusForgetsDenial ==
  /\ Handle("PermissionStatus")
  /\ mic_status' = Head(events).value
  /\ IF prompt = "RequestPending" /\ Head(events).value = "Granted"
     THEN prompt' = "CheckingHardware" /\ inbox' = Append(inbox, "ListDevices")
     ELSE UNCHANGED <<prompt, inbox>>
  /\ UNCHANGED <<next_state, has_paused, resume_locked, devices_known, devices_changed>>

\* A status also answers a request that is pending.
HandlePermissionStatus ==
  /\ Handle("PermissionStatus")
  /\ LET status == Head(events).value
     IN  /\ mic_status' = status
         /\ CASE prompt = "RequestPending" /\ status = "Denied" ->
                   prompt' = "PermissionDenied" /\ UNCHANGED inbox
              [] prompt = "RequestPending" /\ status = "Granted" ->
                   /\ prompt' = "CheckingHardware"
                   /\ inbox' = Append(inbox, "ListDevices")
              [] OTHER -> UNCHANGED <<prompt, inbox>>
  /\ UNCHANGED <<next_state, has_paused, resume_locked, devices_known, devices_changed>>

\* Dropped events are only logged.
HandleEventsDropped ==
  /\ Handle("EventsDropped")
  /\ UNCHANGED <<inbox, next_state, has_paused, resume_locked, mic>>

DrainReturns ==
  /\ pc = "drain" /\ events = <<>>
  /\ pc' = "late"
  /\ UNCHANGED <<coachVars, app_state, next_state, events, pause, mic>>

\* Mutant of AdvanceCheckingHardware: a list is old on every other screen too.
AdvanceCheckingHardwareForgets ==
  /\ pc = "late"
  /\ pc' = "end"
  /\ devices_changed' = FALSE
  /\ IF app_state = "MainMenu" /\ devices_changed /\ prompt = "CheckingHardware"
     THEN IF devices_known THEN prompt' = "Hidden" /\ next_state' = "InGame"
                           ELSE prompt' = "NoHardware" /\ UNCHANGED next_state
     ELSE UNCHANGED <<prompt, next_state>>
  /\ UNCHANGED <<coachVars, app_state, events, pause, mic_status, devices_known>>

\* On the menu, a list of devices ends the check of the hardware.
AdvanceCheckingHardware ==
  /\ pc = "late"
  /\ pc' = "end"
  /\ devices_changed' = (devices_changed /\ app_state # "MainMenu")
  /\ IF app_state = "MainMenu" /\ devices_changed /\ prompt = "CheckingHardware"
     THEN IF devices_known THEN prompt' = "Hidden" /\ next_state' = "InGame"
                           ELSE prompt' = "NoHardware" /\ UNCHANGED next_state
     ELSE UNCHANGED <<prompt, next_state>>
  /\ UNCHANGED <<coachVars, app_state, events, pause, mic_status, devices_known>>

Frame ==
  \/ StayOnScreen \/ ChangeScreen \/ PollEvents
  \/ HandleDevicesListed \/ HandleSessionError \/ HandleBegan \/ HandleEnded
  \/ HandlePermissionStatus \/ HandleEventsDropped
  \/ DrainReturns \/ AdvanceCheckingHardware

-----------------------------------------------------------------------------
(* The player.                                                             *)

\* A handler of a screen's input, in any order with drain_events.
Press(screen) ==
  /\ app_state = screen
  /\ pc \in {"early", "late", "end"}
  /\ Len(inbox) <= MaxInbox
  /\ UNCHANGED <<session, interrupted, asking, permission, queue, app_state, pc, events,
                 resume_enabled, mic_status, devices_known, devices_changed>>

\* One that lib.rs orders after drain_events.
PressAfterDrain(screen) == Press(screen) /\ pc # "early"

\* handle_new_game: ask for permission, or for the devices.
NewGame ==
  /\ Press("MainMenu")
  /\ Len(inbox) <= MaxAsk
  /\ CASE mic_status = "Granted" ->
            prompt' = "CheckingHardware" /\ inbox' = Append(inbox, "ListDevices")
       [] mic_status = "Undetermined" -> prompt' = "NeedsPermission" /\ UNCHANGED inbox
       [] mic_status = "Denied" -> prompt' = "PermissionDenied" /\ UNCHANGED inbox
  /\ UNCHANGED <<next_state, has_paused, resume_locked, showing_confirm>>

OpenSettings ==
  /\ Press("MainMenu")
  /\ next_state' = "Settings"
  /\ UNCHANGED <<inbox, prompt, has_paused, resume_locked, showing_confirm>>

Back ==
  /\ Press("Settings")
  /\ next_state' = "MainMenu"
  /\ UNCHANGED <<inbox, prompt, has_paused, resume_locked, showing_confirm>>

\* The buttons of the prompt are taken to be there whenever the prompt is: more
\* than the code allows, which does not draw them again after another screen.
AllowMic ==
  /\ PressAfterDrain("MainMenu")
  /\ Len(inbox) <= MaxAsk
  /\ prompt = "NeedsPermission"
  /\ inbox' = Append(inbox, "PermissionRequest")
  /\ prompt' = "RequestPending"
  /\ UNCHANGED <<next_state, has_paused, resume_locked, showing_confirm>>

CancelPrompt ==
  /\ PressAfterDrain("MainMenu")
  /\ prompt \in {"NeedsPermission", "PermissionDenied", "NoHardware"}
  /\ prompt' = "Hidden"
  /\ UNCHANGED <<inbox, next_state, has_paused, resume_locked, showing_confirm>>

\* request_pause, for Escape and for the pause button.
RequestPause ==
  /\ PressAfterDrain("InGame")
  /\ has_paused' = TRUE
  /\ resume_locked' = FALSE
  /\ next_state' = "Paused"
  /\ UNCHANGED <<inbox, prompt, showing_confirm>>

\* Escape on the Pause screen.
EscPaused ==
  /\ Press("Paused")
  /\ next_state' = "InGame"
  /\ UNCHANGED <<inbox, prompt, has_paused, resume_locked, showing_confirm>>

Resume ==
  /\ Press("Paused")
  /\ resume_enabled
  /\ next_state' = "InGame"
  /\ UNCHANGED <<inbox, prompt, has_paused, resume_locked, showing_confirm>>

QuitToMain ==
  /\ Press("Paused")
  /\ showing_confirm' = TRUE
  /\ UNCHANGED <<inbox, prompt, next_state, has_paused, resume_locked>>

ConfirmYes ==
  /\ Press("Paused")
  /\ showing_confirm
  /\ has_paused' = FALSE
  /\ showing_confirm' = FALSE
  /\ next_state' = "MainMenu"
  /\ UNCHANGED <<inbox, prompt, resume_locked>>

ConfirmCancel ==
  /\ Press("Paused")
  /\ showing_confirm
  /\ showing_confirm' = FALSE
  /\ UNCHANGED <<inbox, prompt, next_state, has_paused, resume_locked>>

\* query_on_foreground: the app comes back to the foreground.
ReturnToForeground ==
  /\ Len(inbox) <= MaxAsk
  /\ \E screen \in AppState : Press(screen)
  /\ inbox' = Append(inbox, "PermissionQuery")
  /\ UNCHANGED <<prompt, next_state, has_paused, resume_locked, showing_confirm>>

Player ==
  \/ NewGame \/ OpenSettings \/ Back \/ AllowMic \/ CancelPrompt
  \/ RequestPause \/ EscPaused \/ Resume \/ QuitToMain \/ ConfirmYes \/ ConfirmCancel
  \/ ReturnToForeground

-----------------------------------------------------------------------------
\* While drain_events handles what it polled it reads nothing of the coach and
\* at most appends a command: a step of the coach in between commutes with it,
\* and is taken before or after.
CoachStep == pc # "drain" /\ (CoachTakes \/ CoachAlone) /\ UNCHANGED headVars

Next == Frame \/ Player \/ CoachStep

Spec == Init /\ [][Next]_vars

-----------------------------------------------------------------------------
(* Properties.                                                             *)

\* The session comes to rest in Idle when the mailbox has been worked off.
EndsIdle ==
  \/ \E i \in DOMAIN inbox :
       inbox[i] = "Stop" /\ \A j \in DOMAIN inbox : j > i => inbox[j] # "Start"
  \/ session = "Idle" /\ \A i \in DOMAIN inbox : inbox[i] # "Start"

\* Nothing polled or queued waits, no start or stop and no change of screen is
\* on its way.
Settled ==
  /\ next_state = "Unchanged"
  /\ events = <<>> /\ outbound = <<>>
  /\ \A i \in DOMAIN inbox : inbox[i] \notin {"Start", "Stop"}

IsQueued(kind) ==
  \/ \E i \in DOMAIN outbound : outbound[i].kind = kind
  \/ \E i \in DOMAIN events : events[i].kind = kind

IsSent(input) == \E i \in DOMAIN inbox : inbox[i] = input

\* Off the game screen the microphone is off and the next start will be
\* accepted, as soon as the coach has taken what was sent: no error,
\* interruption or key leaves a session open or in Error behind the menu, also
\* when the queue lost the event that told of it.
MicrophoneOffOutsideGame == app_state # "InGame" => EndsIdle

\* A player on the game screen is heard: when everything sent and announced has
\* been handled, the session runs, unless the queue lost an event.
GameIsHeard == app_state = "InGame" /\ Settled /\ ~lost => session = "Running"

\* HasPausedSession, which three handlers write and the menu's "Continue" reads:
\* the Pause screen is marked until it is left for good, the game is not.
PauseIsMarked ==
  /\ app_state = "Paused" /\ next_state \in {"Unchanged", "Paused"} => has_paused
  /\ app_state = "InGame" /\ next_state \in {"Unchanged", "InGame"} => ~has_paused

\* Nobody waits for devices in vain: while the hardware is being checked, the
\* question, the answer, or a list not looked at yet is under way, on whatever
\* screen it arrives.
CheckIsAnswered ==
  prompt = "CheckingHardware" /\ ~lost =>
    IsSent("ListDevices") \/ IsQueued("DevicesListed") \/ devices_changed

\* On the menu the prompt that waits for a permission, and cannot be cancelled,
\* has a request, a query or an answer under way: a bump of the generation that
\* made the answer stale is made up for by the query of the menu.
RequestIsAnswered ==
  app_state = "MainMenu" /\ prompt = "RequestPending" /\ ~lost =>
    \/ IsSent("PermissionRequest") \/ IsSent("PermissionQuery")
    \/ asking = "current"
    \/ IsQueued("PermissionStatus")

\* "Enter Pause with Resume locked so the player can't try to sing while the mic
\* is gone" (coach.rs:239-240): the game is not resumed from a locked Pause screen.
LockIsObeyed == [][app_state = "Paused" /\ app_state' = "InGame" => ~resume_locked]_vars
=============================================================================

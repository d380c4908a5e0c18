--------------------------- MODULE CoachHead_proofs ---------------------------
(***************************************************************************)
(* Proofs about CoachHead, for every size of the outbound queue and every  *)
(* bound on the mailbox.                                                   *)
(***************************************************************************)
EXTENDS CoachHead, TLAPS

USE OutboundAssumption

-----------------------------------------------------------------------------
(* Types.                                                                  *)

\* The events the coach and the poll make are events.
LEMMA EventType ==
  /\ \A b \in BOOLEAN : Event("DevicesListed", b) \in CoachEvent /\ Event("Ended", b) \in CoachEvent
  /\ \A status \in AudioInitStatus : Event("PermissionStatus", status) \in CoachEvent
  /\ Event("SessionError", "-") \in CoachEvent
  /\ Event("Began", "-") \in CoachEvent
  /\ Event("EventsDropped", "-") \in CoachEvent
BY DEF Event, CoachEvent

\* push keeps the queue within its capacity and its count within its width.
LEMMA PushType ==
  ASSUME CoachTypeOK, NEW ev \in CoachEvent, Push(ev)
  PROVE  /\ outbound' \in Seq(CoachEvent) /\ Len(outbound') <= OUTBOUND_QUEUE_CAP
         /\ pending_dropped' \in 0..MAX_COUNT
         /\ lost' \in BOOLEAN
<1>1. CASE Len(outbound) >= OUTBOUND_QUEUE_CAP
  <2>1. outbound # <<>> BY <1>1 DEF CoachTypeOK
  <2>2. Tail(outbound) \in Seq(CoachEvent) /\ Len(Tail(outbound)) = Len(outbound) - 1
    BY <2>1 DEF CoachTypeOK
  <2>3. outbound' \in Seq(CoachEvent) /\ Len(outbound') <= OUTBOUND_QUEUE_CAP
    BY <1>1, <2>2 DEF Push, CoachTypeOK
  <2>. QED BY <1>1, <2>3 DEF Push, CoachTypeOK
<1>2. CASE ~(Len(outbound) >= OUTBOUND_QUEUE_CAP)
  BY <1>2 DEF Push, CoachTypeOK
<1>. QED BY <1>1, <1>2

\* What a poll returns is a sequence of events.
LEMMA DrainedType == CoachTypeOK => Drained \in Seq(CoachEvent)
BY EventType DEF Drained, CoachTypeOK

LEMMA TakeType ==
  ASSUME CoachTypeOK, NEW input, Take(input)
  PROVE  inbox' \in Seq(Input)
BY DEF Take, CoachTypeOK

\* What the systems of OnExit and OnEnter send are commands.
LEMMA CommandsTail ==
  ASSUME NEW old \in AppState, NEW new \in AppState, NEW q \in Seq(Input)
  PROVE  \E s \in Seq(Input) : q \o ExitCommands(old) \o EnterCommands(new) = q \o s
<1>1. <<>> \in Seq(Input) /\ \A c \in Input : <<c>> \in Seq(Input)
  OBVIOUS
<1>2. \A c \in Command : c \in Input BY DEF Input
<1>3. ExitCommands(old) \in Seq(Input)
  BY <1>1, <1>2 DEF ExitCommands, Command
<1>4. EnterCommands(new) \in Seq(Input)
  <2>1. CASE new = "MainMenu" BY <1>1, <1>2, <2>1 DEF EnterCommands, Command
  <2>2. CASE new = "Settings" BY <1>1, <1>2, <2>2 DEF EnterCommands, Command
  <2>3. CASE new = "InGame" BY <1>1, <1>2, <2>3 DEF EnterCommands, Command
  <2>4. CASE new = "Paused" BY <1>1, <1>2, <2>4 DEF EnterCommands, Command
  <2>. QED BY <2>1, <2>2, <2>3, <2>4 DEF AppState
<1>5. ExitCommands(old) \o EnterCommands(new) \in Seq(Input)
  BY <1>3, <1>4
<1>6. q \o ExitCommands(old) \o EnterCommands(new) = q \o (ExitCommands(old) \o EnterCommands(new))
  BY <1>3, <1>4
<1>. QED BY <1>5, <1>6

LEMMA InitType == Init => TypeOK
<1>. SUFFICES ASSUME Init PROVE TypeOK OBVIOUS
<1>1. inbox \in Seq(Input)
  <2>1. EnterCommands("MainMenu") = <<"PermissionQuery">> /\ EnterCommands("InGame") = <<"Start">>
    BY DEF EnterCommands
  <2>2. <<"PermissionQuery">> \in Seq(Input) /\ <<"Start">> \in Seq(Input)
    BY DEF Input, Command
  <2>3. <<"PermissionQuery">> \o <<"Start">> \in Seq(Input) BY <2>2
  <2>. QED BY <2>1, <2>2, <2>3 DEF Init
<1>2. CoachTypeOK
  <2>1. <<>> \in Seq(CoachEvent) /\ Len(<<>>) = 0 OBVIOUS
  <2>2. 0 \in 0..MAX_COUNT /\ 0 <= OUTBOUND_QUEUE_CAP OBVIOUS
  <2>3. CoachInit BY DEF Init
  <2>. QED BY <1>1, <2>1, <2>2, <2>3 DEF CoachInit, CoachTypeOK
<1>3. HeadTypeOK
  <2>1. <<>> \in Seq(CoachEvent) OBVIOUS
  <2>. QED BY <2>1 DEF Init, HeadTypeOK, AppState, PermissionPrompt, AudioInitStatus
<1>. QED BY <1>2, <1>3 DEF TypeOK

\* A step of the coach leaves the head alone and keeps its own types.
LEMMA CoachStepType == TypeOK /\ CoachStep => TypeOK'
<1>. SUFFICES ASSUME TypeOK, CoachStep PROVE TypeOK'
  OBVIOUS
<1>. USE DEF queue
<1>1. HeadTypeOK' BY DEF CoachStep, headVars, pause, mic, HeadTypeOK, TypeOK
<1>2. CoachTypeOK BY DEF TypeOK
<1>3. CASE TakeStart
  <2>1. inbox' \in Seq(Input) BY <1>2, <1>3, TakeType DEF TakeStart
  <2>2. interrupted' \in BOOLEAN /\ asking' \in {"no", "current", "stale"} /\ permission' \in AudioInitStatus
    BY <1>2, <1>3 DEF TakeStart, NewGeneration, SameGeneration, CoachTypeOK
  <2>3. UNCHANGED queue \/ Push(Event("SessionError", "-")) BY <1>3 DEF TakeStart
  <2>4. session' \in {"Idle", "Running", "Error"} BY <1>2, <1>3 DEF TakeStart, CoachTypeOK
  <2>5. CASE UNCHANGED queue BY <1>1, <1>2, <2>1, <2>2, <2>4, <2>5 DEF CoachTypeOK, TypeOK
  <2>6. CASE Push(Event("SessionError", "-"))
    BY <1>1, <1>2, <2>1, <2>2, <2>4, <2>6, PushType, EventType DEF CoachTypeOK, TypeOK
  <2>. QED BY <1>1, <2>3, <2>5, <2>6 DEF TypeOK
<1>4. CASE TakeStop
  BY <1>1, <1>2, <1>4, TakeType DEF TakeStop, NewGeneration, SameGeneration, CoachTypeOK, TypeOK
<1>5. CASE TakeListDevices
  <2>1. PICK found \in BOOLEAN : Push(Event("DevicesListed", found))
    BY <1>5 DEF TakeListDevices
  <2>2. inbox' \in Seq(Input) BY <1>2, <1>5, TakeType DEF TakeListDevices
  <2>. QED BY <1>1, <1>2, <1>5, <2>1, <2>2, PushType, EventType
         DEF TakeListDevices, SameGeneration, CoachTypeOK, TypeOK
<1>6. CASE TakePermissionQuery
  <2>1. inbox' \in Seq(Input) BY <1>2, <1>6, TakeType DEF TakePermissionQuery
  <2>2. Event("PermissionStatus", permission) \in CoachEvent BY <1>2, EventType DEF CoachTypeOK
  <2>. QED BY <1>1, <1>2, <1>6, <2>1, <2>2, PushType
         DEF TakePermissionQuery, SameGeneration, CoachTypeOK, TypeOK
<1>7. CASE TakePermissionRequest
  BY <1>1, <1>2, <1>7, TakeType DEF TakePermissionRequest, CoachTypeOK, TypeOK
<1>8. CASE TakePermissionResolved
  <2>1. inbox' \in Seq(Input) BY <1>2, <1>8, TakeType DEF TakePermissionResolved
  <2>2. Event("PermissionStatus", permission) \in CoachEvent BY <1>2, EventType DEF CoachTypeOK
  <2>3. CASE asking = "current"
    BY <1>1, <1>2, <1>8, <2>1, <2>2, <2>3, PushType DEF TakePermissionResolved, CoachTypeOK, TypeOK
  <2>4. CASE asking # "current"
    BY <1>1, <1>2, <1>8, <2>1, <2>4 DEF TakePermissionResolved, CoachTypeOK, TypeOK
  <2>. QED BY <2>3, <2>4
<1>9. CASE Interrupt
  BY <1>1, <1>2, <1>9, PushType, EventType DEF Interrupt, CoachTypeOK, TypeOK
<1>10. CASE EndInterruption
  <2>1. PICK should_resume \in BOOLEAN : Push(Event("Ended", should_resume))
    BY <1>10 DEF EndInterruption
  <2>. QED BY <1>1, <1>2, <1>10, <2>1, PushType, EventType DEF EndInterruption, CoachTypeOK, TypeOK
<1>11. CASE SessionFails
  BY <1>1, <1>2, <1>11, PushType, EventType DEF SessionFails, NewGeneration, CoachTypeOK, TypeOK
<1>12. CASE SessionRecovers
  BY <1>1, <1>2, <1>12 DEF SessionRecovers, NewGeneration, CoachTypeOK, TypeOK
<1>13. CASE PlayerAnswers
  <2>1. "PermissionResolved" \in Input BY DEF Input
  <2>2. permission' \in AudioInitStatus BY <1>2, <1>13 DEF PlayerAnswers, CoachTypeOK, AudioInitStatus
  <2>. QED BY <1>1, <1>2, <1>13, <2>1, <2>2 DEF PlayerAnswers, CoachTypeOK, TypeOK
<1>. QED BY <1>3, <1>4, <1>5, <1>6, <1>7, <1>8, <1>9, <1>10, <1>11, <1>12, <1>13
       DEF CoachStep, CoachTakes, CoachAlone

LEMMA FrameType == TypeOK /\ Frame => TypeOK'
<1>. SUFFICES ASSUME TypeOK, Frame PROVE TypeOK'
  OBVIOUS
<1>. USE DEF queue, pause, mic, coachVars, TypeOK, HeadTypeOK
<1>1. CASE StayOnScreen BY <1>1 DEF StayOnScreen, CoachTypeOK
<1>2. CASE ChangeScreen
  <2>1. next_state \in AppState BY <1>2 DEF ChangeScreen
  <2>2. inbox \in Seq(Input) BY DEF CoachTypeOK
  <2>3. PICK s \in Seq(Input) : inbox' = inbox \o s
    BY <1>2, <2>1, <2>2, CommandsTail DEF ChangeScreen
  <2>4. inbox' \in Seq(Input) BY <2>2, <2>3
  <2>. QED BY <1>2, <2>1, <2>4 DEF ChangeScreen, CoachTypeOK
<1>3. CASE PollEvents
  <2>1. CoachTypeOK' BY <1>3 DEF PollEvents, DrainInto, CoachTypeOK
  <2>. QED BY <1>3, <2>1, DrainedType DEF PollEvents
<1>4. ASSUME NEW kind, Handle(kind)
      PROVE  /\ Head(events) \in CoachEvent /\ events' \in Seq(CoachEvent)
             /\ kind \in {"DevicesListed", "Ended"} => Head(events).value \in BOOLEAN
             /\ kind = "PermissionStatus" => Head(events).value \in AudioInitStatus
  <2>1. Head(events) \in CoachEvent /\ events' \in Seq(CoachEvent) BY <1>4 DEF Handle
  <2>2. Head(events).kind = kind BY <1>4 DEF Handle
  <2>. QED BY <2>1, <2>2 DEF CoachEvent
<1>5. CASE HandleDevicesListed BY <1>4, <1>5 DEF HandleDevicesListed, Handle, CoachTypeOK
<1>6. CASE HandleSessionError
  BY <1>4, <1>6 DEF HandleSessionError, Handle, CoachTypeOK, AppState
<1>7. CASE HandleBegan BY <1>4, <1>7 DEF HandleBegan, Handle, CoachTypeOK, AppState
<1>8. CASE HandleEnded BY <1>4, <1>8 DEF HandleEnded, Handle, CoachTypeOK
<1>9. CASE HandlePermissionStatus
  <2>1. "ListDevices" \in Input BY DEF Input, Command
  <2>2. Append(inbox, "ListDevices") \in Seq(Input) BY <2>1 DEF CoachTypeOK
  <2>3. mic_status' \in AudioInitStatus BY <1>4, <1>9 DEF HandlePermissionStatus
  <2>4. /\ prompt' \in PermissionPrompt
        /\ inbox' = inbox \/ inbox' = Append(inbox, "ListDevices")
    BY <1>9 DEF HandlePermissionStatus, PermissionPrompt
  <2>5. inbox' \in Seq(Input) BY <2>2, <2>4 DEF CoachTypeOK
  <2>. QED BY <1>4, <1>9, <2>3, <2>4, <2>5 DEF HandlePermissionStatus, Handle, CoachTypeOK
<1>10. CASE HandleEventsDropped BY <1>4, <1>10 DEF HandleEventsDropped, Handle, CoachTypeOK
<1>11. CASE DrainReturns BY <1>11 DEF DrainReturns, CoachTypeOK
<1>12. CASE AdvanceCheckingHardware
  <2>1. CoachTypeOK' BY <1>12 DEF AdvanceCheckingHardware, CoachTypeOK
  <2>. QED BY <1>12, <2>1 DEF AdvanceCheckingHardware, AppState, PermissionPrompt
<1>. QED BY <1>1, <1>2, <1>3, <1>5, <1>6, <1>7, <1>8, <1>9, <1>10, <1>11, <1>12 DEF Frame

LEMMA PlayerType == TypeOK /\ Player => TypeOK'
<1>. SUFFICES ASSUME TypeOK, Player PROVE TypeOK'
  OBVIOUS
<1>. USE DEF queue, TypeOK, HeadTypeOK, Press, PressAfterDrain
<1>1. /\ Append(inbox, "ListDevices") \in Seq(Input)
      /\ Append(inbox, "PermissionRequest") \in Seq(Input)
      /\ Append(inbox, "PermissionQuery") \in Seq(Input)
  BY DEF CoachTypeOK, Input, Command
<1>2. CASE NewGame
  <2>1. inbox' = inbox \/ inbox' = Append(inbox, "ListDevices")
    BY <1>2 DEF NewGame, AudioInitStatus
  <2>2. prompt' \in PermissionPrompt BY <1>2 DEF NewGame, AudioInitStatus, PermissionPrompt
  <2>3. inbox' \in Seq(Input) BY <1>1, <2>1 DEF CoachTypeOK
  <2>4. CoachTypeOK' BY <1>2, <2>3 DEF NewGame, CoachTypeOK
  <2>. QED BY <1>2, <2>2, <2>4 DEF NewGame
<1>3. CASE OpenSettings BY <1>3 DEF OpenSettings, CoachTypeOK, AppState
<1>4. CASE Back BY <1>4 DEF Back, CoachTypeOK, AppState
<1>5. CASE AllowMic BY <1>1, <1>5 DEF AllowMic, CoachTypeOK, PermissionPrompt
<1>6. CASE CancelPrompt BY <1>6 DEF CancelPrompt, CoachTypeOK, PermissionPrompt
<1>7. CASE RequestPause BY <1>7 DEF RequestPause, CoachTypeOK, AppState
<1>8. CASE EscPaused BY <1>8 DEF EscPaused, CoachTypeOK, AppState
<1>9. CASE Resume BY <1>9 DEF Resume, CoachTypeOK, AppState
<1>10. CASE QuitToMain BY <1>10 DEF QuitToMain, CoachTypeOK
<1>11. CASE ConfirmYes BY <1>11 DEF ConfirmYes, CoachTypeOK, AppState
<1>12. CASE ConfirmCancel BY <1>12 DEF ConfirmCancel, CoachTypeOK
<1>13. CASE ReturnToForeground BY <1>1, <1>13 DEF ReturnToForeground, CoachTypeOK
<1>. QED BY <1>2, <1>3, <1>4, <1>5, <1>6, <1>7, <1>8, <1>9, <1>10, <1>11, <1>12, <1>13 DEF Player

LEMMA NextType == TypeOK /\ [Next]_vars => TypeOK'
<1>1. TypeOK /\ UNCHANGED vars => TypeOK'
  BY DEF vars, coachVars, headVars, queue, pause, mic, TypeOK, CoachTypeOK, HeadTypeOK
<1>. QED BY <1>1, FrameType, PlayerType, CoachStepType DEF Next

\* Every field keeps its type, and the outbound queue its capacity.
THEOREM TypeCorrect == Spec => []TypeOK
BY InitType, NextType, PTL DEF Spec

-----------------------------------------------------------------------------
(* The mark of the pause.                                                  *)

\* The invariant: the mark is set as soon as the Pause screen is asked for.
PauseMark == PauseIsMarked /\ (next_state = "Paused" => has_paused)

\* Three handlers write HasPausedSession, five ask for a screen, and several of
\* them may run in one frame.
THEOREM PauseIsMarkedAlways == Spec => []PauseIsMarked
<1>1. Init => PauseMark
  BY DEF Init, PauseMark, PauseIsMarked
<1>2. TypeOK /\ PauseMark /\ [Next]_vars => PauseMark'
  <2>. SUFFICES ASSUME TypeOK, PauseMark, [Next]_vars PROVE PauseMark'
    OBVIOUS
  <2>. USE DEF PauseMark, PauseIsMarked, pause
  <2>1. CASE UNCHANGED vars BY <2>1 DEF vars, headVars
  <2>2. CASE CoachStep BY <2>2 DEF CoachStep, headVars
  <2>3. CASE Frame
    <3>1. CASE StayOnScreen BY <3>1 DEF StayOnScreen
    <3>2. CASE ChangeScreen BY <3>2 DEF ChangeScreen
    <3>3. CASE PollEvents BY <3>3 DEF PollEvents
    <3>4. CASE HandleDevicesListed BY <3>4 DEF HandleDevicesListed, Handle
    <3>5. CASE HandleSessionError BY <3>5 DEF HandleSessionError, Handle
    <3>6. CASE HandleBegan BY <3>6 DEF HandleBegan, Handle
    <3>7. CASE HandleEnded BY <3>7 DEF HandleEnded, Handle
    <3>8. CASE HandlePermissionStatus BY <3>8 DEF HandlePermissionStatus, Handle
    <3>9. CASE HandleEventsDropped BY <3>9 DEF HandleEventsDropped, Handle
    <3>10. CASE DrainReturns BY <3>10 DEF DrainReturns
    <3>11. CASE AdvanceCheckingHardware BY <3>11 DEF AdvanceCheckingHardware
    <3>. QED BY <2>3, <3>1, <3>2, <3>3, <3>4, <3>5, <3>6, <3>7, <3>8, <3>9, <3>10, <3>11
           DEF Frame
  <2>4. CASE Player
    <3>. USE DEF Press, PressAfterDrain
    <3>1. CASE NewGame \/ OpenSettings \/ Back \/ AllowMic \/ CancelPrompt
      BY <3>1 DEF NewGame, OpenSettings, Back, AllowMic, CancelPrompt
    <3>2. CASE RequestPause BY <3>2 DEF RequestPause
    <3>3. CASE EscPaused \/ Resume BY <3>3 DEF EscPaused, Resume
    <3>4. CASE ConfirmYes BY <3>4 DEF ConfirmYes
    <3>5. CASE QuitToMain \/ ConfirmCancel BY <3>5 DEF QuitToMain, ConfirmCancel
    <3>6. CASE ReturnToForeground BY <3>6 DEF ReturnToForeground
    <3>. QED BY <2>4, <3>1, <3>2, <3>3, <3>4, <3>5, <3>6 DEF Player
  <2>. QED BY <2>1, <2>2, <2>3, <2>4 DEF Next
<1>3. PauseMark => PauseIsMarked BY DEF PauseMark
<1>. QED BY <1>1, <1>2, <1>3, TypeCorrect, PTL DEF Spec

-----------------------------------------------------------------------------
(* The microphone.                                                         *)

\* A command that is not a start, sent behind the others, changes nothing.
LEMMA SendKeepsEndsIdle ==
  ASSUME TypeOK, EndsIdle, NEW c \in Input, c # "Start",
         inbox' = Append(inbox, c), session' = session
  PROVE  EndsIdle'
<1>1. /\ inbox \in Seq(Input) /\ DOMAIN inbox = 1..Len(inbox)
      /\ DOMAIN inbox' = 1..(Len(inbox) + 1)
      /\ \A i \in DOMAIN inbox : inbox'[i] = inbox[i]
      /\ inbox'[Len(inbox) + 1] = c
  BY DEF TypeOK, CoachTypeOK
<1>. QED BY <1>1 DEF EndsIdle

\* What an input at the head of the mailbox may do to the session.
LEMMA TakeKeepsEndsIdle ==
  ASSUME TypeOK, EndsIdle, NEW input \in Input, Take(input),
         input = "Stop" => session' = "Idle",
         input \notin {"Start", "Stop"} => session' = session
  PROVE  EndsIdle'
<1>1. /\ Len(inbox) \in Nat \ {0} /\ inbox[1] = input
      /\ DOMAIN inbox = 1..Len(inbox) /\ DOMAIN inbox' = 1..(Len(inbox) - 1)
      /\ \A i \in DOMAIN inbox' : inbox'[i] = inbox[i + 1]
  BY DEF Take, TypeOK, CoachTypeOK
<1>2. ASSUME NEW i \in DOMAIN inbox, i > 1, inbox[i] = "Stop",
             \A j \in DOMAIN inbox : j > i => inbox[j] # "Start"
      PROVE  EndsIdle'
  <2>1. i - 1 \in DOMAIN inbox' /\ inbox'[i - 1] = "Stop" BY <1>1, <1>2
  <2>2. \A j \in DOMAIN inbox' : j > i - 1 => inbox'[j] # "Start" BY <1>1, <1>2
  <2>. QED BY <2>1, <2>2 DEF EndsIdle
<1>3. ASSUME \A i \in DOMAIN inbox : i > 1 => inbox[i] # "Start", session' = "Idle"
      PROVE  EndsIdle'
  <2>1. \A i \in DOMAIN inbox' : inbox'[i] # "Start" BY <1>1, <1>3
  <2>. QED BY <1>3, <2>1 DEF EndsIdle
<1>4. CASE \E i \in DOMAIN inbox :
             inbox[i] = "Stop" /\ \A j \in DOMAIN inbox : j > i => inbox[j] # "Start"
  <2>1. PICK i \in DOMAIN inbox :
               inbox[i] = "Stop" /\ \A j \in DOMAIN inbox : j > i => inbox[j] # "Start"
    BY <1>4
  <2>2. CASE i > 1 BY <1>2, <2>1, <2>2
  <2>3. CASE i = 1 BY <1>1, <1>3, <2>1, <2>3
  <2>. QED BY <1>1, <2>2, <2>3
<1>5. CASE session = "Idle" /\ \A i \in DOMAIN inbox : inbox[i] # "Start"
  <2>1. session' = "Idle" BY <1>1, <1>5
  <2>. QED BY <1>3, <1>5, <2>1
<1>. QED BY <1>4, <1>5 DEF EndsIdle

\* Whatever the coach does, a session that was going to end Idle still is.
LEMMA CoachKeepsEndsIdle == TypeOK /\ EndsIdle /\ CoachStep => EndsIdle'
<1>. SUFFICES ASSUME TypeOK, EndsIdle, CoachStep PROVE EndsIdle'
  OBVIOUS
<1>. USE DEF Input, Command
<1>1. CASE TakeStart BY <1>1, TakeKeepsEndsIdle DEF TakeStart
<1>2. CASE TakeStop BY <1>2, TakeKeepsEndsIdle DEF TakeStop
<1>3. CASE TakeListDevices BY <1>3, TakeKeepsEndsIdle DEF TakeListDevices
<1>4. CASE TakePermissionQuery BY <1>4, TakeKeepsEndsIdle DEF TakePermissionQuery
<1>5. CASE TakePermissionRequest BY <1>5, TakeKeepsEndsIdle DEF TakePermissionRequest
<1>6. CASE TakePermissionResolved BY <1>6, TakeKeepsEndsIdle DEF TakePermissionResolved
<1>7. CASE Interrupt \/ SessionFails \/ SessionRecovers
  BY <1>7 DEF Interrupt, SessionFails, SessionRecovers, EndsIdle
<1>8. CASE EndInterruption BY <1>8 DEF EndInterruption, EndsIdle
<1>9. CASE PlayerAnswers BY <1>9, SendKeepsEndsIdle DEF PlayerAnswers
<1>. QED BY <1>1, <1>2, <1>3, <1>4, <1>5, <1>6, <1>7, <1>8, <1>9
       DEF CoachStep, CoachTakes, CoachAlone

\* The mailbox after leaving the game for another screen ends in a stop, and
\* after a change between other screens it has no new start.
LEMMA LeavingStops ==
  ASSUME TypeOK, MicrophoneOffOutsideGame, ChangeScreen
  PROVE  MicrophoneOffOutsideGame'
<1>1. /\ next_state \in AppState /\ app_state' = next_state
      /\ inbox' = inbox \o ExitCommands(app_state) \o EnterCommands(next_state)
      /\ session' = session
  BY DEF ChangeScreen, TypeOK, HeadTypeOK
<1>. SUFFICES ASSUME next_state # "InGame" PROVE EndsIdle'
  BY <1>1 DEF MicrophoneOffOutsideGame
<1>2. inbox \in Seq(Input) BY DEF TypeOK, CoachTypeOK
<1>3. PICK tail \in {<<>>, <<"PermissionQuery">>, <<"ListDevices">>} :
             EnterCommands(next_state) = tail
  BY <1>1 DEF EnterCommands, AppState
<1>4. CASE app_state = "InGame"
  <2>1. inbox' = inbox \o <<"Stop">> \o tail BY <1>1, <1>3, <1>4 DEF ExitCommands
  <2>2. CASE tail = <<>>
    <3>1. inbox' = Append(inbox, "Stop") BY <1>2, <2>1, <2>2 DEF Input, Command
    <3>2. /\ Len(inbox) + 1 \in DOMAIN inbox' /\ inbox'[Len(inbox) + 1] = "Stop"
          /\ \A j \in DOMAIN inbox' : ~(j > Len(inbox) + 1)
      BY <1>2, <3>1 DEF Input, Command
    <3>. QED BY <3>2 DEF EndsIdle
  <2>3. ASSUME NEW c \in {"PermissionQuery", "ListDevices"}, tail = <<c>>
        PROVE  EndsIdle'
    <3>1. inbox' = Append(Append(inbox, "Stop"), c) BY <1>2, <2>1, <2>3 DEF Input, Command
    <3>2. /\ Len(inbox) + 1 \in DOMAIN inbox' /\ inbox'[Len(inbox) + 1] = "Stop"
          /\ \A j \in DOMAIN inbox' : j > Len(inbox) + 1 => inbox'[j] = c
      BY <1>2, <3>1 DEF Input, Command
    <3>. QED BY <2>3, <3>2 DEF EndsIdle
  <2>. QED BY <2>2, <2>3
<1>5. CASE app_state # "InGame"
  <2>1. EndsIdle BY <1>5 DEF MicrophoneOffOutsideGame
  <2>2. inbox' = inbox \o tail BY <1>1, <1>2, <1>3, <1>5 DEF ExitCommands
  <2>3. CASE tail = <<>> BY <1>1, <1>2, <2>1, <2>2, <2>3 DEF EndsIdle
  <2>4. ASSUME NEW c \in {"PermissionQuery", "ListDevices"}, tail = <<c>>
        PROVE  EndsIdle'
    <3>1. inbox' = Append(inbox, c) BY <1>2, <2>2, <2>4 DEF Input, Command
    <3>. QED BY <1>1, <2>1, <3>1, SendKeepsEndsIdle DEF Input, Command
  <2>. QED BY <2>3, <2>4
<1>. QED BY <1>4, <1>5

\* No order of errors, interruptions, lost events and keys leaves a session open,
\* or in Error, behind a screen that is not the game's.
THEOREM MicrophoneOff == Spec => []MicrophoneOffOutsideGame
<1>1. Init => MicrophoneOffOutsideGame
  <2>. SUFFICES ASSUME Init, app_state # "InGame" PROVE EndsIdle
    BY DEF MicrophoneOffOutsideGame
  <2>1. session = "Idle" /\ inbox = <<"PermissionQuery">>
    BY DEF Init, CoachInit, EnterCommands
  <2>. QED BY <2>1 DEF EndsIdle
<1>2. TypeOK /\ MicrophoneOffOutsideGame /\ [Next]_vars => MicrophoneOffOutsideGame'
  <2>. SUFFICES ASSUME TypeOK, MicrophoneOffOutsideGame, [Next]_vars
                PROVE  MicrophoneOffOutsideGame'
    OBVIOUS
  <2>. USE DEF MicrophoneOffOutsideGame
  <2>1. ASSUME app_state' = app_state,
               EndsIdle => EndsIdle'
        PROVE  MicrophoneOffOutsideGame'
    BY <2>1
  <2>2. ASSUME app_state' = app_state, inbox' = inbox, session' = session
        PROVE  MicrophoneOffOutsideGame'
    BY <2>2 DEF EndsIdle
  <2>3. ASSUME app_state' = app_state, session' = session,
               NEW c \in Input, c # "Start", inbox' = Append(inbox, c)
        PROVE  MicrophoneOffOutsideGame'
    BY <2>1, <2>3, SendKeepsEndsIdle
  <2>4. CASE UNCHANGED vars BY <2>2, <2>4 DEF vars, coachVars, headVars
  <2>5. CASE CoachStep BY <2>1, <2>5, CoachKeepsEndsIdle DEF CoachStep, headVars
  <2>6. CASE Frame
    <3>. USE DEF Handle, coachVars
    <3>1. CASE StayOnScreen \/ PollEvents \/ DrainReturns \/ AdvanceCheckingHardware
      BY <2>2, <3>1 DEF StayOnScreen, PollEvents, DrainReturns, AdvanceCheckingHardware
    <3>2. CASE ChangeScreen BY <3>2, LeavingStops
    <3>3. CASE \/ HandleDevicesListed \/ HandleSessionError \/ HandleBegan
               \/ HandleEnded \/ HandleEventsDropped
      BY <2>2, <3>3 DEF HandleDevicesListed, HandleSessionError, HandleBegan, HandleEnded,
                        HandleEventsDropped
    <3>4. CASE HandlePermissionStatus
      <4>1. inbox' = inbox \/ inbox' = Append(inbox, "ListDevices")
        BY <3>4 DEF HandlePermissionStatus
      <4>2. "ListDevices" \in Input BY DEF Input, Command
      <4>. QED BY <2>2, <2>3, <3>4, <4>1, <4>2 DEF HandlePermissionStatus
    <3>. QED BY <2>6, <3>1, <3>2, <3>3, <3>4 DEF Frame
  <2>7. CASE Player
    <3>. USE DEF Press, PressAfterDrain
    <3>1. \A c \in Command : c \in Input BY DEF Input
    <3>2. CASE NewGame
      <4>1. inbox' = inbox \/ inbox' = Append(inbox, "ListDevices")
        BY <3>2 DEF NewGame, TypeOK, HeadTypeOK, AudioInitStatus
      <4>. QED BY <2>2, <2>3, <3>1, <3>2, <4>1 DEF NewGame, Command
    <3>3. CASE AllowMic BY <2>3, <3>1, <3>3 DEF AllowMic, Command
    <3>4. CASE ReturnToForeground BY <2>3, <3>1, <3>4 DEF ReturnToForeground, Command
    <3>5. CASE \/ OpenSettings \/ Back \/ CancelPrompt \/ RequestPause \/ EscPaused
               \/ Resume \/ QuitToMain \/ ConfirmYes \/ ConfirmCancel
      BY <2>2, <3>5 DEF OpenSettings, Back, CancelPrompt, RequestPause, EscPaused, Resume,
                        QuitToMain, ConfirmYes, ConfirmCancel
    <3>. QED BY <2>7, <3>2, <3>3, <3>4, <3>5 DEF Player
  <2>. QED BY <2>4, <2>5, <2>6, <2>7 DEF Next
<1>. QED BY <1>1, <1>2, TypeCorrect, PTL DEF Spec

-----------------------------------------------------------------------------
(* The check of the hardware.                                              *)

\* The invariant: a poll never overwrites events that were not handled.
CheckInv == CheckIsAnswered /\ (pc # "drain" => events = <<>>)

\* What keeps an answer on its way when neither the prompt nor the list changes.
Answered == IsSent("ListDevices") \/ IsQueued("DevicesListed")

\* push queues its event, and loses none without a trace.
LEMMA PushQueues ==
  ASSUME TypeOK, NEW ev \in CoachEvent, Push(ev), UNCHANGED events, NEW kind
  PROVE  /\ ev.kind = kind => IsQueued(kind)'
         /\ IsQueued(kind) /\ ~lost' => IsQueued(kind)'
         /\ ~lost' => ~lost
<1>1. outbound \in Seq(CoachEvent) BY DEF TypeOK, CoachTypeOK
<1>2. CASE Len(outbound) >= OUTBOUND_QUEUE_CAP
  <2>1. Len(outbound) \in Nat \ {0} BY <1>1, <1>2
  <2>2. /\ Len(outbound) \in DOMAIN outbound' /\ outbound'[Len(outbound)] = ev
        /\ lost' = TRUE
    BY <1>1, <1>2, <2>1 DEF Push
  <2>. QED BY <2>2 DEF IsQueued
<1>3. CASE ~(Len(outbound) >= OUTBOUND_QUEUE_CAP)
  <2>1. /\ Len(outbound) + 1 \in DOMAIN outbound' /\ outbound'[Len(outbound) + 1] = ev
        /\ \A i \in DOMAIN outbound : i \in DOMAIN outbound' /\ outbound'[i] = outbound[i]
        /\ lost' = lost
    BY <1>1, <1>3 DEF Push
  <2>. QED BY <2>1 DEF IsQueued
<1>. QED BY <1>2, <1>3

\* An input sent stays in the mailbox while others are taken, and while others
\* are sent.
LEMMA SentStays ==
  ASSUME TypeOK, NEW c \in Input, IsSent(c)
  PROVE  /\ \A input \in Input : Take(input) /\ input # c => IsSent(c)'
         /\ \A d \in Input : inbox' = Append(inbox, d) => IsSent(c)'
         /\ \A s \in Seq(Input) : inbox' = inbox \o s => IsSent(c)'
<1>1. inbox \in Seq(Input) BY DEF TypeOK, CoachTypeOK
<1>2. PICK i \in DOMAIN inbox : inbox[i] = c BY DEF IsSent
<1>3. ASSUME NEW input \in Input, Take(input), input # c PROVE IsSent(c)'
  <2>1. i # 1 BY <1>1, <1>2, <1>3 DEF Take
  <2>2. i - 1 \in DOMAIN inbox' /\ inbox'[i - 1] = c BY <1>1, <1>2, <1>3, <2>1 DEF Take
  <2>. QED BY <2>2 DEF IsSent
<1>4. ASSUME NEW d \in Input, inbox' = Append(inbox, d) PROVE IsSent(c)'
  <2>1. i \in DOMAIN inbox' /\ inbox'[i] = c BY <1>1, <1>2, <1>4
  <2>. QED BY <2>1 DEF IsSent
<1>5. ASSUME NEW s \in Seq(Input), inbox' = inbox \o s PROVE IsSent(c)'
  <2>1. i \in DOMAIN inbox' /\ inbox'[i] = c BY <1>1, <1>2, <1>5
  <2>. QED BY <2>1 DEF IsSent
<1>. QED BY <1>3, <1>4, <1>5

\* The list that was asked for is queued when the coach takes the question, and
\* no step of the coach loses either, except where the full queue records it.
LEMMA CoachKeepsAnswered ==
  ASSUME TypeOK, CoachStep
  PROVE  /\ ~lost' => ~lost
         /\ Answered /\ ~lost' => Answered'
<1>. USE DEF Input, Command, queue
<1>1. events' = events BY DEF CoachStep, headVars
<1>2. ASSUME UNCHANGED queue,
             \/ inbox' = inbox
             \/ \E c \in Input : c # "ListDevices" /\ Take(c)
             \/ \E c \in Input : inbox' = Append(inbox, c)
      PROVE  (~lost' => ~lost) /\ (Answered => Answered')
  BY <1>1, <1>2, SentStays DEF Answered, IsQueued, IsSent
<1>3. ASSUME NEW ev \in CoachEvent, Push(ev),
             inbox' = inbox \/ \E c \in Input : c # "ListDevices" /\ Take(c)
      PROVE  (~lost' => ~lost) /\ (Answered /\ ~lost' => Answered')
  <2>1. IsSent("ListDevices") => IsSent("ListDevices")' BY <1>3, SentStays DEF IsSent
  <2>. QED BY <1>1, <1>3, <2>1, PushQueues DEF Answered
<1>4. CASE TakeStart
  <2>1. UNCHANGED queue \/ Push(Event("SessionError", "-")) BY <1>4 DEF TakeStart
  <2>2. Take("Start") BY <1>4 DEF TakeStart
  <2>. QED BY <1>2, <1>3, <2>1, <2>2, EventType
<1>5. CASE TakeStop \/ TakePermissionRequest
  BY <1>2, <1>5 DEF TakeStop, TakePermissionRequest
<1>6. CASE TakeListDevices
  <2>1. PICK found \in BOOLEAN : Push(Event("DevicesListed", found))
    BY <1>6 DEF TakeListDevices
  <2>2. Event("DevicesListed", found).kind = "DevicesListed" BY DEF Event
  <2>. QED BY <1>1, <2>1, <2>2, PushQueues, EventType DEF Answered
<1>7. CASE TakePermissionQuery
  <2>1. Event("PermissionStatus", permission) \in CoachEvent
    BY EventType DEF TypeOK, CoachTypeOK
  <2>. QED BY <1>3, <1>7, <2>1 DEF TakePermissionQuery
<1>8. CASE TakePermissionResolved
  <2>1. Event("PermissionStatus", permission) \in CoachEvent
    BY EventType DEF TypeOK, CoachTypeOK
  <2>. QED BY <1>2, <1>3, <1>8, <2>1 DEF TakePermissionResolved
<1>9. CASE Interrupt \/ SessionFails
  BY <1>3, <1>9, EventType DEF Interrupt, SessionFails
<1>10. CASE EndInterruption
  <2>1. PICK should_resume \in BOOLEAN : Push(Event("Ended", should_resume))
    BY <1>10 DEF EndInterruption
  <2>. QED BY <1>3, <1>10, <2>1, EventType DEF EndInterruption
<1>11. CASE SessionRecovers \/ PlayerAnswers
  BY <1>2, <1>11 DEF SessionRecovers, PlayerAnswers
<1>. QED BY <1>4, <1>5, <1>6, <1>7, <1>8, <1>9, <1>10, <1>11
       DEF CoachStep, CoachTakes, CoachAlone

\* A poll takes every event along, a handler takes only its own kind away.
LEMMA PollKeepsQueued ==
  ASSUME TypeOK, PollEvents, events = <<>>, NEW kind, IsQueued(kind)
  PROVE  IsQueued(kind)'
<1>1. outbound \in Seq(CoachEvent) BY DEF TypeOK, CoachTypeOK
<1>2. PICK i \in DOMAIN outbound : outbound[i].kind = kind BY DEF IsQueued
<1>3. CASE pending_dropped > 0
  <2>1. /\ events' = <<Event("EventsDropped", "-")>> \o outbound
        /\ <<Event("EventsDropped", "-")>> \in Seq(CoachEvent)
    BY <1>3, EventType DEF PollEvents, Drained
  <2>2. i + 1 \in DOMAIN events' /\ events'[i + 1] = outbound[i] BY <1>1, <1>2, <2>1
  <2>. QED BY <1>2, <2>2 DEF IsQueued
<1>4. CASE ~(pending_dropped > 0)
  BY <1>2, <1>4 DEF PollEvents, Drained, IsQueued
<1>. QED BY <1>3, <1>4

LEMMA HandleKeepsQueued ==
  ASSUME TypeOK, NEW handled, Handle(handled), NEW kind, kind # handled, IsQueued(kind)
  PROVE  IsQueued(kind)'
<1>1. events \in Seq(CoachEvent) /\ outbound' = outbound /\ events # <<>>
  BY DEF TypeOK, HeadTypeOK, Handle, queue
<1>2. CASE \E i \in DOMAIN outbound : outbound[i].kind = kind
  BY <1>1, <1>2 DEF IsQueued
<1>3. CASE \E i \in DOMAIN events : events[i].kind = kind
  <2>1. PICK i \in DOMAIN events : events[i].kind = kind BY <1>3
  <2>2. i # 1 BY <1>1, <2>1 DEF Handle
  <2>3. i - 1 \in DOMAIN events' /\ events'[i - 1] = events[i]
    BY <1>1, <2>1, <2>2 DEF Handle
  <2>. QED BY <2>1, <2>3 DEF IsQueued
<1>. QED BY <1>2, <1>3 DEF IsQueued

\* A list of devices asked for on the menu and delivered on another screen is
\* still looked at: no order of screens, polls and keys leaves the player with
\* "checking the hardware" for ever, unless the full queue lost the list.
THEOREM CheckIsAnsweredAlways == Spec => []CheckIsAnswered
<1>1. Init => CheckInv
  BY DEF Init, CheckInv, CheckIsAnswered
<1>2. TypeOK /\ CheckInv /\ [Next]_vars => CheckInv'
  <2>. SUFFICES ASSUME TypeOK, CheckInv, [Next]_vars PROVE CheckInv'
    OBVIOUS
  <2>. USE DEF mic, queue, coachVars
  <2>1. /\ prompt = "CheckingHardware" /\ ~lost => Answered \/ devices_changed
        /\ pc # "drain" => events = <<>>
    BY DEF CheckInv, CheckIsAnswered, Answered
  <2>2. ASSUME prompt' # "CheckingHardware", pc' # "drain" => events' = <<>>
        PROVE  CheckInv'
    BY <2>2 DEF CheckInv, CheckIsAnswered
  <2>3. ASSUME prompt' = prompt, ~lost' => ~lost, devices_changed => devices_changed',
               Answered /\ ~lost' => Answered', pc' # "drain" => events' = <<>>
        PROVE  CheckInv'
    BY <2>1, <2>3 DEF CheckInv, CheckIsAnswered, Answered
  <2>4. ASSUME inbox' = Append(inbox, "ListDevices"), pc' # "drain" => events' = <<>>
        PROVE  CheckInv'
    <3>1. IsSent("ListDevices")'
      <4>1. inbox \in Seq(Input) BY DEF TypeOK, CoachTypeOK
      <4>2. Len(inbox) + 1 \in DOMAIN inbox' /\ inbox'[Len(inbox) + 1] = "ListDevices"
        BY <2>4, <4>1 DEF Input, Command
      <4>. QED BY <4>2 DEF IsSent
    <3>. QED BY <2>4, <3>1 DEF CheckInv, CheckIsAnswered
  <2>5. ASSUME UNCHANGED <<inbox, queue, events>> PROVE Answered => Answered'
    BY <2>5 DEF Answered, IsSent, IsQueued
  <2>6. CASE UNCHANGED vars BY <2>1, <2>3, <2>5, <2>6 DEF vars, headVars
  <2>7. CASE CoachStep BY <2>1, <2>3, <2>7, CoachKeepsAnswered DEF CoachStep, headVars
  <2>8. CASE Frame
    <3>1. CASE StayOnScreen \/ DrainReturns
      BY <2>1, <2>3, <2>5, <3>1 DEF StayOnScreen, DrainReturns
    <3>2. CASE ChangeScreen
      <4>1. next_state \in AppState /\ app_state \in AppState
        BY <3>2 DEF ChangeScreen, TypeOK, HeadTypeOK
      <4>2. IsSent("ListDevices") => IsSent("ListDevices")'
        <5>. SUFFICES ASSUME IsSent("ListDevices") PROVE IsSent("ListDevices")'
          OBVIOUS
        <5>1. inbox \in Seq(Input) BY DEF TypeOK, CoachTypeOK
        <5>2. PICK s \in Seq(Input) : inbox' = inbox \o s
          BY <3>2, <4>1, <5>1, CommandsTail DEF ChangeScreen
        <5>. QED BY <5>2, SentStays DEF Input, Command
      <4>. QED BY <2>1, <2>3, <3>2, <4>2 DEF ChangeScreen, Answered, IsQueued
    <3>3. CASE PollEvents
      <4>1. events = <<>> BY <2>1, <3>3 DEF PollEvents
      <4>. QED BY <2>3, <3>3, <4>1, PollKeepsQueued DEF PollEvents, DrainInto, Answered, IsSent
    <3>4. CASE HandleDevicesListed
      BY <2>1, <3>4 DEF HandleDevicesListed, Handle, CheckInv, CheckIsAnswered
    <3>5. CASE HandleSessionError \/ HandleBegan \/ HandleEnded \/ HandleEventsDropped
      <4>1. PICK handled \in {"SessionError", "Began", "Ended", "EventsDropped"} : Handle(handled)
        BY <3>5 DEF HandleSessionError, HandleBegan, HandleEnded, HandleEventsDropped
      <4>2. IsQueued("DevicesListed") => IsQueued("DevicesListed")'
        BY <4>1, HandleKeepsQueued
      <4>3. inbox' = inbox /\ UNCHANGED mic
        BY <3>5 DEF HandleSessionError, HandleBegan, HandleEnded, HandleEventsDropped
      <4>. QED BY <2>3, <4>1, <4>2, <4>3 DEF Handle, Answered, IsSent
    <3>6. CASE HandlePermissionStatus
      <4>1. IsQueued("DevicesListed") => IsQueued("DevicesListed")'
        BY <3>6, HandleKeepsQueued DEF HandlePermissionStatus
      <4>2. pc' = "drain" BY <3>6 DEF HandlePermissionStatus, Handle
      <4>3. \/ inbox' = Append(inbox, "ListDevices")
            \/ inbox' = inbox /\ (prompt' = prompt \/ prompt' = "PermissionDenied")
        BY <3>6 DEF HandlePermissionStatus
      <4>. QED BY <2>2, <2>3, <2>4, <3>6, <4>1, <4>2, <4>3
             DEF HandlePermissionStatus, Handle, Answered, IsSent
    <3>7. CASE AdvanceCheckingHardware
      <4>1. events' = <<>> BY <2>1, <3>7 DEF AdvanceCheckingHardware
      <4>2. CASE app_state = "MainMenu" /\ devices_changed /\ prompt = "CheckingHardware"
        BY <2>2, <3>7, <4>1, <4>2 DEF AdvanceCheckingHardware
      <4>3. CASE ~(app_state = "MainMenu" /\ devices_changed /\ prompt = "CheckingHardware")
        <5>1. prompt' = prompt /\ UNCHANGED <<inbox, queue, events>>
          BY <3>7, <4>3 DEF AdvanceCheckingHardware
        <5>2. prompt = "CheckingHardware" /\ devices_changed => devices_changed'
          BY <3>7, <4>3 DEF AdvanceCheckingHardware
        <5>. QED BY <2>1, <2>2, <2>5, <4>1, <5>1, <5>2 DEF CheckInv, CheckIsAnswered, Answered
      <4>. QED BY <4>2, <4>3
    <3>. QED BY <2>8, <3>1, <3>2, <3>3, <3>4, <3>5, <3>6, <3>7 DEF Frame
  <2>9. CASE Player
    <3>. USE DEF Press, PressAfterDrain
    <3>1. pc' = pc /\ events' = events /\ UNCHANGED <<queue, devices_changed>>
      BY <2>9 DEF Player, NewGame, OpenSettings, Back, AllowMic, CancelPrompt, RequestPause,
                  EscPaused, Resume, QuitToMain, ConfirmYes, ConfirmCancel, ReturnToForeground
    <3>2. CASE NewGame
      <4>1. \/ inbox' = Append(inbox, "ListDevices")
            \/ prompt' \in {"NeedsPermission", "PermissionDenied"}
        BY <3>2 DEF NewGame, TypeOK, HeadTypeOK, AudioInitStatus
      <4>. QED BY <2>1, <2>2, <2>4, <3>1, <4>1
    <3>3. CASE AllowMic \/ CancelPrompt
      BY <2>1, <2>2, <3>1, <3>3 DEF AllowMic, CancelPrompt
    <3>4. CASE ReturnToForeground
      <4>1. /\ inbox' = Append(inbox, "PermissionQuery") /\ prompt' = prompt
            /\ "PermissionQuery" \in Input /\ "ListDevices" \in Input
        BY <3>4 DEF ReturnToForeground, Input, Command
      <4>2. Answered => Answered'
        BY <3>1, <4>1, SentStays DEF Answered, IsQueued
      <4>. QED BY <2>1, <2>3, <3>1, <4>1, <4>2
    <3>5. CASE \/ OpenSettings \/ Back \/ RequestPause \/ EscPaused
               \/ Resume \/ QuitToMain \/ ConfirmYes \/ ConfirmCancel
      <4>1. prompt' = prompt /\ inbox' = inbox
        BY <3>5 DEF OpenSettings, Back, RequestPause, EscPaused, Resume, QuitToMain,
                    ConfirmYes, ConfirmCancel
      <4>. QED BY <2>1, <2>3, <2>5, <3>1, <4>1
    <3>. QED BY <2>9, <3>2, <3>3, <3>4, <3>5 DEF Player
  <2>. QED BY <2>6, <2>7, <2>8, <2>9 DEF Next
<1>3. CheckInv => CheckIsAnswered BY DEF CheckInv
<1>. QED BY <1>1, <1>2, <1>3, TypeCorrect, PTL DEF Spec

-----------------------------------------------------------------------------
(* A player on the game screen is heard.  This and the next property depend on the order
   of what is in the mailbox. *)

\* The session is Idle when the coach comes to the input at i: a stop is before
\* it with no start in between, or it is Idle and no start is before it.
IdleBefore(i) ==
  \/ \E k \in DOMAIN inbox :
       /\ k < i /\ inbox[k] = "Stop"
       /\ \A j \in DOMAIN inbox : k < j /\ j < i => inbox[j] # "Start"
  \/ session = "Idle" /\ \A j \in DOMAIN inbox : j < i => inbox[j] # "Start"

\* The last start or stop under way is a start that will not be refused.
StartComes ==
  \E i \in DOMAIN inbox :
    /\ inbox[i] = "Start" /\ IdleBefore(i)
    /\ \A j \in DOMAIN inbox : j > i => inbox[j] \notin {"Start", "Stop"}

NothingComes == \A i \in DOMAIN inbox : inbox[i] \notin {"Start", "Stop"}

\* What brings the player off the game screen again.
LeavesGame == next_state # "Unchanged" \/ IsQueued("Began") \/ IsQueued("SessionError")

HeardInv ==
  app_state = "InGame" /\ ~lost =>
    StartComes \/ (session = "Running" /\ NothingComes) \/ LeavesGame

-----------------------------------------------------------------------------
(* The mailbox.                                                            *)

\* What Take does to the positions of the inputs behind.
LEMMA TakeShifts ==
  ASSUME TypeOK, NEW input \in Input, Take(input)
  PROVE  /\ Len(inbox) \in Nat \ {0} /\ inbox[1] = input
         /\ DOMAIN inbox = 1..Len(inbox) /\ DOMAIN inbox' = 1..(Len(inbox) - 1)
         /\ \A i \in DOMAIN inbox' : inbox'[i] = inbox[i + 1]
BY DEF Take, TypeOK, CoachTypeOK

\* An input taken in front of the start leaves the session as the start needs it.
LEMMA TakeKeepsStart ==
  ASSUME TypeOK, NEW input \in Input, Take(input),
         input = "Stop" => session' = "Idle",
         input \notin {"Start", "Stop"} => session' = session,
         NEW i \in DOMAIN inbox, inbox[i] = "Start", IdleBefore(i), i > 1,
         \A j \in DOMAIN inbox : j > i => inbox[j] \notin {"Start", "Stop"}
  PROVE  StartComes'
<1>1. /\ Len(inbox) \in Nat \ {0} /\ inbox[1] = input
      /\ DOMAIN inbox = 1..Len(inbox) /\ DOMAIN inbox' = 1..(Len(inbox) - 1)
      /\ \A j \in DOMAIN inbox' : inbox'[j] = inbox[j + 1]
  BY TakeShifts
<1>2. /\ i - 1 \in DOMAIN inbox' /\ inbox'[i - 1] = "Start"
      /\ \A j \in DOMAIN inbox' : j > i - 1 => inbox'[j] \notin {"Start", "Stop"}
  BY <1>1
<1>3. ASSUME session' = "Idle", \A j \in DOMAIN inbox : 1 < j /\ j < i => inbox[j] # "Start"
      PROVE  IdleBefore(i - 1)'
  <2>1. \A j \in DOMAIN inbox' : j < i - 1 => inbox'[j] # "Start" BY <1>1, <1>3
  <2>. QED BY <1>3, <2>1 DEF IdleBefore
<1>4. IdleBefore(i - 1)'
  <2>1. CASE \E k \in DOMAIN inbox :
               /\ k < i /\ inbox[k] = "Stop"
               /\ \A j \in DOMAIN inbox : k < j /\ j < i => inbox[j] # "Start"
    <3>1. PICK k \in DOMAIN inbox :
               /\ k < i /\ inbox[k] = "Stop"
               /\ \A j \in DOMAIN inbox : k < j /\ j < i => inbox[j] # "Start"
      BY <2>1
    <3>2. CASE k = 1
      <4>1. session' = "Idle" BY <1>1, <3>1, <3>2
      <4>. QED BY <1>3, <3>1, <3>2, <4>1
    <3>3. CASE k # 1
      <4>1. k - 1 \in DOMAIN inbox' /\ k - 1 < i - 1 /\ inbox'[k - 1] = "Stop"
        BY <1>1, <3>1, <3>3
      <4>2. \A j \in DOMAIN inbox' : k - 1 < j /\ j < i - 1 => inbox'[j] # "Start"
        BY <1>1, <3>1
      <4>. QED BY <4>1, <4>2 DEF IdleBefore
    <3>. QED BY <3>2, <3>3
  <2>2. CASE session = "Idle" /\ \A j \in DOMAIN inbox : j < i => inbox[j] # "Start"
    <3>1. input # "Start" BY <1>1, <2>2
    <3>2. session' = "Idle" BY <2>2, <3>1
    <3>. QED BY <1>3, <2>2, <3>2
  <2>. QED BY <2>1, <2>2 DEF IdleBefore
<1>. QED BY <1>2, <1>4 DEF StartComes

\* A command that is no start and no stop, sent behind the others, changes nothing.
LEMMA SendKeepsStart ==
  ASSUME TypeOK, NEW c \in Input \ {"Start", "Stop"}, inbox' = Append(inbox, c),
         session' = session
  PROVE  /\ StartComes => StartComes'
         /\ NothingComes => NothingComes'
<1>1. /\ Len(inbox) \in Nat /\ DOMAIN inbox = 1..Len(inbox)
      /\ DOMAIN inbox' = 1..(Len(inbox) + 1)
      /\ \A i \in DOMAIN inbox : inbox'[i] = inbox[i]
      /\ inbox'[Len(inbox) + 1] = c
  BY DEF TypeOK, CoachTypeOK
<1>2. NothingComes => NothingComes' BY <1>1 DEF NothingComes
<1>3. ASSUME StartComes PROVE StartComes'
  <2>1. PICK i \in DOMAIN inbox :
          /\ inbox[i] = "Start" /\ IdleBefore(i)
          /\ \A j \in DOMAIN inbox : j > i => inbox[j] \notin {"Start", "Stop"}
    BY <1>3 DEF StartComes
  <2>2. /\ i \in DOMAIN inbox' /\ inbox'[i] = "Start"
        /\ \A j \in DOMAIN inbox' : j > i => inbox'[j] \notin {"Start", "Stop"}
    BY <1>1, <2>1
  <2>3. \A j \in DOMAIN inbox' : j < i => j \in DOMAIN inbox BY <1>1, <2>1
  <2>4. IdleBefore(i)'
    <3>1. CASE \E k \in DOMAIN inbox :
                 /\ k < i /\ inbox[k] = "Stop"
                 /\ \A j \in DOMAIN inbox : k < j /\ j < i => inbox[j] # "Start"
      <4>1. PICK k \in DOMAIN inbox :
                 /\ k < i /\ inbox[k] = "Stop"
                 /\ \A j \in DOMAIN inbox : k < j /\ j < i => inbox[j] # "Start"
        BY <3>1
      <4>2. k \in DOMAIN inbox' /\ inbox'[k] = "Stop" BY <1>1, <4>1
      <4>. QED BY <1>1, <2>3, <4>1, <4>2 DEF IdleBefore
    <3>2. CASE session = "Idle" /\ \A j \in DOMAIN inbox : j < i => inbox[j] # "Start"
      BY <1>1, <2>3, <3>2 DEF IdleBefore
    <3>. QED BY <2>1, <3>1, <3>2 DEF IdleBefore
  <2>. QED BY <2>2, <2>4 DEF StartComes
<1>. QED BY <1>2, <1>3

\* The start sent on entering the game is not refused: the screen left behind
\* ended in Idle, or sends its stop right before.
LEMMA EnteringStarts ==
  ASSUME TypeOK, MicrophoneOffOutsideGame, ChangeScreen, next_state = "InGame"
  PROVE  StartComes'
<1>1. /\ inbox \in Seq(Input) /\ Len(inbox) \in Nat /\ DOMAIN inbox = 1..Len(inbox)
      /\ session' = session
      /\ inbox' = inbox \o ExitCommands(app_state) \o <<"Start">>
  BY DEF ChangeScreen, TypeOK, CoachTypeOK, EnterCommands
<1>n. PICK n \in Nat : n = Len(inbox) BY <1>1
<1>2. CASE app_state = "InGame"
  <2>1. inbox' = Append(Append(inbox, "Stop"), "Start")
    BY <1>1, <1>n, <1>2 DEF ExitCommands, Input, Command
  <2>2. /\ DOMAIN inbox' = 1..(n + 2)
        /\ inbox'[n + 1] = "Stop" /\ inbox'[n + 2] = "Start"
    BY <1>1, <1>n, <2>1 DEF Input, Command
  <2>3. IdleBefore(n + 2)'
    <3>1. \A j \in DOMAIN inbox' : ~(n + 1 < j /\ j < n + 2)
      BY <1>1, <1>n, <2>2
    <3>2. n + 1 \in DOMAIN inbox' /\ n + 1 < n + 2
      BY <1>1, <1>n, <2>2
    <3>. QED BY <2>2, <3>1, <3>2 DEF IdleBefore
  <2>4. \A j \in DOMAIN inbox' : ~(j > n + 2) BY <1>1, <1>n, <2>2
  <2>5. n + 2 \in DOMAIN inbox' BY <1>1, <1>n, <2>2
  <2>. QED BY <2>2, <2>3, <2>4, <2>5 DEF StartComes
<1>3. CASE app_state # "InGame"
  <2>1. inbox' = Append(inbox, "Start")
    BY <1>1, <1>n, <1>3 DEF ExitCommands, Input, Command
  <2>2. /\ DOMAIN inbox' = 1..(n + 1)
        /\ \A j \in DOMAIN inbox : inbox'[j] = inbox[j]
        /\ inbox'[n + 1] = "Start"
    BY <1>1, <1>n, <2>1 DEF Input, Command
  <2>3. \A j \in DOMAIN inbox' : j < n + 1 => j \in DOMAIN inbox
    BY <1>1, <1>n, <2>2
  <2>4. IdleBefore(n + 1)'
    <3>1. EndsIdle BY <1>3 DEF MicrophoneOffOutsideGame
    <3>2. CASE \E k \in DOMAIN inbox :
                 inbox[k] = "Stop" /\ \A j \in DOMAIN inbox : j > k => inbox[j] # "Start"
      <4>1. PICK k \in DOMAIN inbox :
                 inbox[k] = "Stop" /\ \A j \in DOMAIN inbox : j > k => inbox[j] # "Start"
        BY <3>2
      <4>2. k \in DOMAIN inbox' /\ k < n + 1 /\ inbox'[k] = "Stop"
        BY <1>1, <1>n, <2>2, <4>1
      <4>. QED BY <1>1, <1>n, <2>2, <2>3, <4>1, <4>2 DEF IdleBefore
    <3>3. CASE session = "Idle" /\ \A j \in DOMAIN inbox : inbox[j] # "Start"
      BY <1>1, <1>n, <2>2, <2>3, <3>3 DEF IdleBefore
    <3>. QED BY <3>1, <3>2, <3>3 DEF EndsIdle
  <2>5. \A j \in DOMAIN inbox' : ~(j > n + 1) BY <1>1, <1>n, <2>2
  <2>6. n + 1 \in DOMAIN inbox' BY <1>1, <1>n, <2>2
  <2>. QED BY <2>2, <2>4, <2>5, <2>6 DEF StartComes
<1>. QED BY <1>2, <1>3

-----------------------------------------------------------------------------
(* The steps.                                                              *)

\* A poll overwrites no event that was not handled.
EventsHandled == pc # "drain" => events = <<>>

LEMMA HandledBeforePoll == Spec => []EventsHandled
<1>1. Init => EventsHandled BY DEF Init, EventsHandled
<1>2. TypeOK /\ EventsHandled /\ [Next]_vars => EventsHandled'
  <2>. SUFFICES ASSUME TypeOK, EventsHandled, [Next]_vars PROVE EventsHandled'
    OBVIOUS
  <2>. USE DEF EventsHandled
  <2>1. CASE UNCHANGED vars BY <2>1 DEF vars, headVars
  <2>2. CASE CoachStep BY <2>2 DEF CoachStep, headVars
  <2>3. CASE Frame
    BY <2>3 DEF Frame, StayOnScreen, ChangeScreen, PollEvents, HandleDevicesListed,
      HandleSessionError, HandleBegan, HandleEnded, HandlePermissionStatus,
      HandleEventsDropped, DrainReturns, AdvanceCheckingHardware, Handle
  <2>4. CASE Player
    BY <2>4 DEF Player, NewGame, OpenSettings, Back, AllowMic, CancelPrompt, RequestPause,
      EscPaused, Resume, QuitToMain, ConfirmYes, ConfirmCancel, ReturnToForeground,
      Press, PressAfterDrain
  <2>. QED BY <2>1, <2>2, <2>3, <2>4 DEF Next
<1>. QED BY <1>1, <1>2, TypeCorrect, PTL DEF Spec

\* No step of the coach ends a session, or refuses one, in silence.
LEMMA CoachKeepsHeard == TypeOK /\ HeardInv /\ CoachStep => HeardInv'
<1>. SUFFICES ASSUME TypeOK, HeardInv, CoachStep, app_state = "InGame", ~lost'
              PROVE  \/ StartComes' \/ (session' = "Running" /\ NothingComes')
                     \/ LeavesGame'
  BY DEF HeardInv, CoachStep, headVars
<1>. USE DEF queue
<1>1. events' = events /\ next_state' = next_state BY DEF CoachStep, headVars
<1>2. Event("PermissionStatus", permission) \in CoachEvent
  BY EventType DEF TypeOK, CoachTypeOK
<1>3. ASSUME NEW ev \in CoachEvent, Push(ev)
      PROVE  ~lost /\ (ev.kind \in {"Began", "SessionError"} => LeavesGame')
             /\ (LeavesGame => LeavesGame')
  BY <1>1, <1>3, PushQueues DEF LeavesGame
<1>4. ASSUME UNCHANGED queue PROVE ~lost /\ (LeavesGame => LeavesGame')
  BY <1>1, <1>4 DEF LeavesGame, IsQueued
<1>5. ~lost /\ (LeavesGame => LeavesGame')
  <2>1. CASE UNCHANGED queue BY <1>4, <2>1
  <2>2. CASE \E ev \in CoachEvent : Push(ev) BY <1>3, <2>2
  <2>. QED BY <1>2, <2>1, <2>2, EventType
         DEF CoachStep, CoachTakes, CoachAlone, TakeStart, TakeStop, TakeListDevices,
             TakePermissionQuery, TakePermissionRequest, TakePermissionResolved, Interrupt,
             EndInterruption, SessionFails, SessionRecovers, PlayerAnswers
<1>6. CASE LeavesGame BY <1>5, <1>6
<1>7. ASSUME NEW input \in Input \ {"Start", "Stop"}, Take(input), session' = session
      PROVE  (StartComes => StartComes') /\ (NothingComes => NothingComes')
  <2>1. /\ Len(inbox) \in Nat \ {0} /\ inbox[1] = input
        /\ DOMAIN inbox = 1..Len(inbox) /\ DOMAIN inbox' = 1..(Len(inbox) - 1)
        /\ \A j \in DOMAIN inbox' : inbox'[j] = inbox[j + 1]
    BY <1>7, TakeShifts
  <2>2. NothingComes => NothingComes' BY <2>1 DEF NothingComes
  <2>3. ASSUME StartComes PROVE StartComes'
    <3>1. PICK i \in DOMAIN inbox :
            /\ inbox[i] = "Start" /\ IdleBefore(i)
            /\ \A j \in DOMAIN inbox : j > i => inbox[j] \notin {"Start", "Stop"}
      BY <2>3 DEF StartComes
    <3>2. i > 1 BY <2>1, <3>1
    <3>. QED BY <1>7, <3>1, <3>2, TakeKeepsStart
  <2>. QED BY <2>2, <2>3
<1>8. CASE StartComes
  <2>1. PICK i \in DOMAIN inbox :
          /\ inbox[i] = "Start" /\ IdleBefore(i)
          /\ \A j \in DOMAIN inbox : j > i => inbox[j] \notin {"Start", "Stop"}
    BY <1>8 DEF StartComes
  <2>2. CASE TakeStart
    <3>1. Take("Start") /\ "Start" \in Input BY <2>2 DEF TakeStart, Input, Command
    <3>2. /\ Len(inbox) \in Nat \ {0} /\ inbox[1] = "Start"
          /\ DOMAIN inbox = 1..Len(inbox) /\ DOMAIN inbox' = 1..(Len(inbox) - 1)
          /\ \A j \in DOMAIN inbox' : inbox'[j] = inbox[j + 1]
      BY <3>1, TakeShifts
    <3>3. CASE i > 1 BY <2>1, <3>1, <3>3, TakeKeepsStart
    <3>4. CASE i = 1
      <4>1. session = "Idle" BY <2>1, <3>2, <3>4 DEF IdleBefore
      <4>2. NothingComes' BY <2>1, <3>2, <3>4 DEF NothingComes
      <4>3. \/ session' = "Running"
            \/ Push(Event("SessionError", "-"))
        BY <2>2, <4>1 DEF TakeStart
      <4>4. Event("SessionError", "-").kind = "SessionError" BY DEF Event
      <4>. QED BY <1>3, <4>2, <4>3, <4>4, EventType
    <3>. QED BY <2>1, <3>2, <3>3, <3>4
  <2>3. CASE TakeStop
    <3>1. Take("Stop") /\ session' = "Idle" /\ "Stop" \in Input
      BY <2>3 DEF TakeStop, Input, Command
    <3>2. i > 1 BY <2>1, <3>1, TakeShifts
    <3>. QED BY <2>1, <3>1, <3>2, TakeKeepsStart
  <2>4. CASE TakeListDevices \/ TakePermissionQuery \/ TakePermissionRequest
             \/ TakePermissionResolved
    BY <1>7, <1>8, <2>4 DEF TakeListDevices, TakePermissionQuery, TakePermissionRequest,
                           TakePermissionResolved, Input, Command
  <2>5. CASE Interrupt \/ SessionFails \/ SessionRecovers
    <3>1. session = "Running" /\ inbox' = inbox
      BY <2>5 DEF Interrupt, SessionFails, SessionRecovers
    <3>2. IdleBefore(i)' BY <2>1, <3>1 DEF IdleBefore
    <3>. QED BY <2>1, <3>1, <3>2 DEF StartComes
  <2>6. CASE EndInterruption
    BY <1>8, <2>6 DEF EndInterruption, StartComes, IdleBefore
  <2>7. CASE PlayerAnswers
    BY <1>8, <2>7, SendKeepsStart DEF PlayerAnswers, Input, Command
  <2>. QED BY <2>2, <2>3, <2>4, <2>5, <2>6, <2>7 DEF CoachStep, CoachTakes, CoachAlone
<1>9. CASE session = "Running" /\ NothingComes
  <2>1. CASE TakeStart \/ TakeStop
    <3>1. PICK input \in {"Start", "Stop"} : Take(input) BY <2>1 DEF TakeStart, TakeStop
    <3>. QED BY <1>9, <3>1, TakeShifts DEF NothingComes, Input, Command
  <2>2. CASE TakeListDevices \/ TakePermissionQuery \/ TakePermissionRequest
             \/ TakePermissionResolved
    BY <1>7, <1>9, <2>2 DEF TakeListDevices, TakePermissionQuery, TakePermissionRequest,
                           TakePermissionResolved, Input, Command
  <2>3. CASE Interrupt
    <3>1. Event("Began", "-").kind = "Began" BY DEF Event
    <3>. QED BY <1>3, <2>3, <3>1, EventType DEF Interrupt
  <2>4. CASE SessionFails
    <3>1. Event("SessionError", "-").kind = "SessionError" BY DEF Event
    <3>. QED BY <1>3, <2>4, <3>1, EventType DEF SessionFails
  <2>5. CASE SessionRecovers \/ EndInterruption
    BY <1>9, <2>5 DEF SessionRecovers, EndInterruption, NothingComes
  <2>6. CASE PlayerAnswers
    BY <1>9, <2>6, SendKeepsStart DEF PlayerAnswers, Input, Command
  <2>. QED BY <2>1, <2>2, <2>3, <2>4, <2>5, <2>6 DEF CoachStep, CoachTakes, CoachAlone
<1>. QED BY <1>5, <1>6, <1>8, <1>9 DEF HeardInv

\* A key may ask for another screen, and sends neither a start nor a stop.
LEMMA PlayerKeepsHeard == TypeOK /\ HeardInv /\ Player => HeardInv'
<1>. SUFFICES ASSUME TypeOK, HeardInv, Player PROVE HeardInv'
  OBVIOUS
<1>. USE DEF Press, PressAfterDrain, queue
<1>1. UNCHANGED <<session, queue, events, app_state>>
  BY DEF Player, NewGame, OpenSettings, Back, AllowMic, CancelPrompt, RequestPause,
         EscPaused, Resume, QuitToMain, ConfirmYes, ConfirmCancel, ReturnToForeground
<1>2. next_state' = next_state \/ next_state' # "Unchanged"
  BY DEF Player, NewGame, OpenSettings, Back, AllowMic, CancelPrompt, RequestPause,
         EscPaused, Resume, QuitToMain, ConfirmYes, ConfirmCancel, ReturnToForeground
<1>3. \/ inbox' = inbox
      \/ \E c \in Input \ {"Start", "Stop"} : inbox' = Append(inbox, c)
  <2>1. {"ListDevices", "PermissionRequest", "PermissionQuery"} \subseteq Input \ {"Start", "Stop"}
    BY DEF Input, Command
  <2>2. CASE NewGame
    <3>1. inbox' = inbox \/ inbox' = Append(inbox, "ListDevices")
      BY <2>2 DEF NewGame, TypeOK, HeadTypeOK, AudioInitStatus
    <3>. QED BY <2>1, <3>1
  <2>3. CASE ~NewGame
    BY <2>1, <2>3
       DEF Player, OpenSettings, Back, AllowMic, CancelPrompt, RequestPause, EscPaused,
           Resume, QuitToMain, ConfirmYes, ConfirmCancel, ReturnToForeground
  <2>. QED BY <2>2, <2>3
<1>4. (StartComes => StartComes') /\ (NothingComes => NothingComes')
  <2>1. CASE inbox' = inbox
    BY <1>1, <2>1 DEF StartComes, IdleBefore, NothingComes
  <2>2. CASE \E c \in Input \ {"Start", "Stop"} : inbox' = Append(inbox, c)
    BY <1>1, <2>2, SendKeepsStart
  <2>. QED BY <1>3, <2>1, <2>2
<1>. QED BY <1>1, <1>2, <1>4 DEF HeardInv, LeavesGame, IsQueued

\* A handler in the frame acts on the end of a session, or leaves it for later.
LEMMA FrameKeepsHeard ==
  TypeOK /\ MicrophoneOffOutsideGame /\ HeardInv /\ EventsHandled /\ Frame
    => HeardInv'
<1>. SUFFICES ASSUME TypeOK, MicrophoneOffOutsideGame, HeardInv,
                     EventsHandled, Frame
              PROVE  HeardInv'
  OBVIOUS
<1>. USE DEF coachVars, queue
<1>1. ASSUME UNCHANGED <<inbox, session, lost, app_state>>, LeavesGame => LeavesGame'
      PROVE  HeardInv'
  BY <1>1 DEF HeardInv, StartComes, IdleBefore, NothingComes
<1>2. CASE StayOnScreen \/ DrainReturns
  BY <1>1, <1>2 DEF StayOnScreen, DrainReturns, LeavesGame, IsQueued
<1>3. CASE ChangeScreen
  BY <1>3, EnteringStarts DEF ChangeScreen, HeardInv
<1>4. CASE PollEvents
  <2>1. LeavesGame => LeavesGame'
    BY <1>4, PollKeepsQueued DEF PollEvents, LeavesGame, EventsHandled
  <2>. QED BY <1>1, <1>4, <2>1 DEF PollEvents, DrainInto
<1>5. CASE HandleDevicesListed \/ HandleEnded \/ HandleEventsDropped
  <2>1. PICK kind \in {"DevicesListed", "Ended", "EventsDropped"} : Handle(kind)
    BY <1>5 DEF HandleDevicesListed, HandleEnded, HandleEventsDropped
  <2>2. next_state' = next_state /\ inbox' = inbox
    BY <1>5 DEF HandleDevicesListed, HandleEnded, HandleEventsDropped
  <2>3. LeavesGame => LeavesGame' BY <2>1, <2>2, HandleKeepsQueued DEF LeavesGame
  <2>. QED BY <1>1, <2>1, <2>2, <2>3 DEF Handle
<1>6. CASE HandlePermissionStatus
  <2>1. Handle("PermissionStatus") /\ next_state' = next_state
        /\ UNCHANGED <<session, lost, app_state>>
    BY <1>6 DEF HandlePermissionStatus, Handle
  <2>2. LeavesGame => LeavesGame' BY <2>1, HandleKeepsQueued DEF LeavesGame
  <2>3. inbox' = inbox \/ inbox' = Append(inbox, "ListDevices")
    BY <1>6 DEF HandlePermissionStatus
  <2>4. CASE inbox' = inbox BY <1>1, <2>1, <2>2, <2>4
  <2>5. CASE inbox' = Append(inbox, "ListDevices")
    <3>1. "ListDevices" \in Input \ {"Start", "Stop"} BY DEF Input, Command
    <3>. QED BY <2>1, <2>2, <2>5, <3>1, SendKeepsStart DEF HeardInv
  <2>. QED BY <2>3, <2>4, <2>5
<1>7. CASE HandleSessionError \/ HandleBegan
  <2>1. app_state' = "InGame" => next_state' # "Unchanged"
    BY <1>7 DEF HandleSessionError, HandleBegan, Handle
  <2>. QED BY <2>1 DEF HeardInv, LeavesGame
<1>8. CASE AdvanceCheckingHardware
  BY <1>1, <1>8 DEF AdvanceCheckingHardware, LeavesGame, IsQueued
<1>. QED BY <1>2, <1>3, <1>4, <1>5, <1>6, <1>7, <1>8 DEF Frame

-----------------------------------------------------------------------------
\* A player on the game screen is heard, in whatever order the head's frames, the
\* keys, the coach's handlers and the failures of a session come: when all that
\* was sent and announced has been handled the session runs, unless the full
\* queue lost an event.
THEOREM GameIsHeardAlways == Spec => []GameIsHeard
<1>1. Init => HeardInv
  <2>. SUFFICES ASSUME Init, app_state = "InGame" PROVE StartComes
    BY DEF HeardInv
  <2>1. session = "Idle" /\ inbox = <<"PermissionQuery", "Start">>
    BY DEF Init, CoachInit, EnterCommands
  <2>2. IdleBefore(2) BY <2>1 DEF IdleBefore
  <2>3. 2 \in DOMAIN inbox /\ inbox[2] = "Start" /\ \A j \in DOMAIN inbox : ~(j > 2)
    BY <2>1
  <2>. QED BY <2>2, <2>3 DEF StartComes
<1>2. TypeOK /\ MicrophoneOffOutsideGame /\ HeardInv /\ EventsHandled
        /\ [Next]_vars => HeardInv'
  <2>1. HeardInv /\ UNCHANGED vars => HeardInv'
    BY DEF HeardInv, vars, coachVars, headVars, queue, StartComes, IdleBefore, NothingComes,
           LeavesGame, IsQueued
  <2>. QED BY <2>1, CoachKeepsHeard, PlayerKeepsHeard, FrameKeepsHeard DEF Next
<1>3. HeardInv => GameIsHeard
  <2>. SUFFICES ASSUME HeardInv, app_state = "InGame", Settled, ~lost
                PROVE  session = "Running"
    BY DEF GameIsHeard
  <2>1. ~StartComes BY DEF Settled, StartComes
  <2>2. ~LeavesGame BY DEF Settled, LeavesGame, IsQueued
  <2>. QED BY <2>1, <2>2 DEF HeardInv
<1>. QED BY <1>1, <1>2, <1>3, TypeCorrect, MicrophoneOff, HandledBeforePoll, PTL DEF Spec

-----------------------------------------------------------------------------
(* A prompt that waits for a permission is answered. *)

Queued(S) ==
  \/ \E i \in DOMAIN outbound : outbound[i] \in S
  \/ \E i \in DOMAIN events : events[i] \in S

\* The events that answer a request, and those that only a granted permission
\* lets the coach announce.
Answers == {Event("PermissionStatus", "Granted"), Event("PermissionStatus", "Denied")}
GrantedOnly == {Event("Began", "-"), Event("DevicesListed", TRUE)}

\* As long as the permission is undetermined nothing but --autostart opens the
\* game, so no start follows a request, and none makes its answer stale.
UndeterminedInv ==
  permission = "Undetermined" =>
    /\ ~Queued(GrantedOnly) /\ ~devices_known /\ session # "Running"
    /\ app_state \in {"MainMenu", "Settings"} => next_state \notin {"InGame", "Paused"}
    /\ app_state \in {"InGame", "Paused"} => ~IsSent("PermissionRequest") /\ asking = "no"
    /\ ~IsSent("PermissionResolved")
    /\ asking # "no" => ~IsSent("Start")
    /\ \A i, j \in DOMAIN inbox :
         i < j /\ inbox[i] = "PermissionRequest" => inbox[j] # "Start"

\* On the menu, the query that entering it sent is behind every start and stop.
MenuInv ==
  app_state = "MainMenu" =>
    \/ \E i \in DOMAIN inbox :
         /\ inbox[i] = "PermissionQuery"
         /\ \A j \in DOMAIN inbox : j > i => inbox[j] \notin {"Start", "Stop"}
    \/ NothingComes

\* On whatever screen, the answer comes, or the next query of the menu will give it.
AnswerComes ==
  \/ IsSent("PermissionRequest")
  \/ asking = "current"
  \/ Queued(Answers)
  \/ permission # "Undetermined" /\ (app_state = "MainMenu" => IsSent("PermissionQuery"))

AnswerInv == prompt = "RequestPending" /\ ~lost => AnswerComes

-----------------------------------------------------------------------------
(* Events and inputs under way.                                            *)

\* push queues its event and nothing else, and loses none without a trace.
LEMMA PushOfSet ==
  ASSUME TypeOK, NEW ev \in CoachEvent, Push(ev), UNCHANGED events, NEW S
  PROVE  /\ ev \in S => Queued(S)'
         /\ Queued(S) /\ ~lost' => Queued(S)'
         /\ Queued(S)' => Queued(S) \/ ev \in S
<1>1. outbound \in Seq(CoachEvent) BY DEF TypeOK, CoachTypeOK
<1>2. CASE Len(outbound) >= OUTBOUND_QUEUE_CAP
  <2>1. Len(outbound) \in Nat \ {0} BY <1>1, <1>2
  <2>2. /\ DOMAIN outbound' = 1..Len(outbound) /\ outbound'[Len(outbound)] = ev
        /\ \A i \in 1..(Len(outbound) - 1) : outbound'[i] = outbound[i + 1]
        /\ lost' = TRUE
    BY <1>1, <1>2, <2>1 DEF Push
  <2>3. ASSUME NEW i \in DOMAIN outbound'
        PROVE  outbound'[i] = ev \/ (outbound'[i] = outbound[i + 1] /\ i + 1 \in DOMAIN outbound)
    <3>1. DOMAIN outbound = 1..Len(outbound) BY <1>1
    <3>2. i = Len(outbound) \/ (i \in 1..(Len(outbound) - 1) /\ i + 1 \in DOMAIN outbound)
      BY <2>1, <2>2, <3>1
    <3>. QED BY <2>2, <3>2
  <2>. QED BY <2>1, <2>2, <2>3 DEF Queued
<1>3. CASE ~(Len(outbound) >= OUTBOUND_QUEUE_CAP)
  <2>1. /\ DOMAIN outbound' = 1..(Len(outbound) + 1) /\ DOMAIN outbound = 1..Len(outbound)
        /\ outbound'[Len(outbound) + 1] = ev /\ Len(outbound) \in Nat
        /\ \A i \in DOMAIN outbound : outbound'[i] = outbound[i]
    BY <1>1, <1>3 DEF Push
  <2>2. \A i \in DOMAIN outbound' : outbound'[i] = ev \/ i \in DOMAIN outbound BY <2>1
  <2>3. Len(outbound) + 1 \in DOMAIN outbound' /\ DOMAIN outbound \subseteq DOMAIN outbound'
    BY <2>1
  <2>. QED BY <2>1, <2>2, <2>3 DEF Queued
<1>. QED BY <1>2, <1>3

\* A poll takes along what is queued, and adds at most the report of drops.
LEMMA PollOfSet ==
  ASSUME TypeOK, PollEvents, events = <<>>, NEW S
  PROVE  /\ Queued(S) => Queued(S)'
         /\ Queued(S)' => Queued(S) \/ Event("EventsDropped", "-") \in S
<1>1. outbound \in Seq(CoachEvent) /\ outbound' = <<>>
  BY DEF TypeOK, CoachTypeOK, PollEvents, DrainInto
<1>2. CASE pending_dropped > 0
  <2>1. /\ events' = <<Event("EventsDropped", "-")>> \o outbound
        /\ <<Event("EventsDropped", "-")>> \in Seq(CoachEvent)
    BY <1>2, EventType DEF PollEvents, Drained
  <2>2. /\ DOMAIN events' = 1..(Len(outbound) + 1) /\ DOMAIN outbound = 1..Len(outbound)
        /\ Len(outbound) \in Nat /\ events'[1] = Event("EventsDropped", "-")
        /\ \A i \in DOMAIN outbound : events'[i + 1] = outbound[i]
    BY <1>1, <2>1
  <2>3. /\ \A i \in DOMAIN outbound : i + 1 \in DOMAIN events'
        /\ \A i \in DOMAIN events' :
             i = 1 \/ (i - 1 \in DOMAIN outbound /\ events'[i] = outbound[i - 1])
    <3>1. ASSUME NEW i \in DOMAIN events', i # 1
          PROVE  i - 1 \in DOMAIN outbound /\ events'[i] = outbound[i - 1]
      <4>1. i - 1 \in DOMAIN outbound /\ (i - 1) + 1 = i BY <2>2, <3>1
      <4>. QED BY <2>2, <4>1
    <3>2. \A i \in DOMAIN outbound : i + 1 \in DOMAIN events' BY <2>2
    <3>. QED BY <3>1, <3>2
  <2>4. Queued(S) => Queued(S)' BY <2>2, <2>3 DEF Queued
  <2>5. Queued(S)' => Queued(S) \/ Event("EventsDropped", "-") \in S
    BY <1>1, <2>2, <2>3 DEF Queued
  <2>. QED BY <2>4, <2>5
<1>3. CASE ~(pending_dropped > 0)
  <2>1. events' = outbound BY <1>3 DEF PollEvents, Drained
  <2>. QED BY <1>1, <2>1 DEF Queued
<1>. QED BY <1>2, <1>3

\* A handler takes one event away and queues none.
LEMMA HandleOfSet ==
  ASSUME TypeOK, NEW kind, Handle(kind), NEW S
  PROVE  /\ Queued(S)' => Queued(S)
         /\ Queued(S) /\ Head(events) \notin S => Queued(S)'
         /\ Head(events) \in S => Queued(S)
<1>1. events \in Seq(CoachEvent) /\ outbound' = outbound /\ events # <<>>
  BY DEF TypeOK, HeadTypeOK, Handle, queue
<1>2. /\ DOMAIN events = 1..Len(events) /\ Len(events) \in Nat \ {0}
      /\ DOMAIN events' = 1..(Len(events) - 1) /\ Head(events) = events[1]
      /\ \A i \in DOMAIN events' : events'[i] = events[i + 1]
  BY <1>1 DEF Handle
<1>3. Queued(S)' => Queued(S)
  <2>1. \A i \in DOMAIN events' : i + 1 \in DOMAIN events BY <1>2
  <2>. QED BY <1>1, <1>2, <2>1 DEF Queued
<1>4. ASSUME Queued(S), Head(events) \notin S PROVE Queued(S)'
  <2>1. CASE \E i \in DOMAIN outbound : outbound[i] \in S BY <1>1, <2>1 DEF Queued
  <2>2. CASE \E i \in DOMAIN events : events[i] \in S
    <3>1. PICK i \in DOMAIN events : events[i] \in S BY <2>2
    <3>2. i - 1 \in DOMAIN events' /\ (i - 1) + 1 = i BY <1>2, <1>4, <3>1
    <3>3. events'[i - 1] = events[i] BY <1>2, <3>2
    <3>. QED BY <3>1, <3>2, <3>3 DEF Queued
  <2>. QED BY <1>4, <2>1, <2>2 DEF Queued
<1>5. Head(events) \in S => Queued(S) BY <1>2 DEF Queued
<1>. QED BY <1>3, <1>4, <1>5

\* What is sent after an input is taken was sent before.
LEMMA TakeSendsNothing ==
  ASSUME TypeOK, NEW input \in Input, Take(input), NEW c, IsSent(c)'
  PROVE  IsSent(c)
<1>1. PICK i \in DOMAIN inbox' : inbox'[i] = c BY DEF IsSent
<1>2. i + 1 \in DOMAIN inbox /\ inbox[i + 1] = c BY <1>1, TakeShifts
<1>. QED BY <1>2 DEF IsSent

\* What appending an input does to the mailbox.
LEMMA SendAppends ==
  ASSUME TypeOK, NEW c \in Input, inbox' = Append(inbox, c)
  PROVE  /\ Len(inbox) \in Nat /\ DOMAIN inbox = 1..Len(inbox)
         /\ DOMAIN inbox' = 1..(Len(inbox) + 1)
         /\ \A i \in DOMAIN inbox : i \in DOMAIN inbox' /\ inbox'[i] = inbox[i]
         /\ inbox'[Len(inbox) + 1] = c
         /\ \A i \in DOMAIN inbox' : i \in DOMAIN inbox \/ i = Len(inbox) + 1
         /\ IsSent(c)'
         /\ \A d : IsSent(d) => IsSent(d)'
         /\ \A d : IsSent(d)' => IsSent(d) \/ d = c
<1>1. /\ Len(inbox) \in Nat /\ DOMAIN inbox = 1..Len(inbox)
      /\ DOMAIN inbox' = 1..(Len(inbox) + 1)
      /\ \A i \in DOMAIN inbox : inbox'[i] = inbox[i]
      /\ inbox'[Len(inbox) + 1] = c
  BY DEF TypeOK, CoachTypeOK
<1>2. /\ \A i \in DOMAIN inbox' : i \in DOMAIN inbox \/ i = Len(inbox) + 1
      /\ \A i \in DOMAIN inbox : i \in DOMAIN inbox'
      /\ Len(inbox) + 1 \in DOMAIN inbox'
  BY <1>1
<1>. QED BY <1>1, <1>2 DEF IsSent

-----------------------------------------------------------------------------
(* The permission that is undetermined.                                    *)

\* The coach announces nothing that needs a permission before there is one, and
\* takes a request only with no start behind it.
LEMMA CoachKeepsUndetermined == TypeOK /\ UndeterminedInv /\ CoachStep => UndeterminedInv'
<1>. SUFFICES ASSUME TypeOK, UndeterminedInv, CoachStep, permission' = "Undetermined"
              PROVE  UndeterminedInv'
  BY DEF UndeterminedInv
<1>. USE DEF queue
<1>1. /\ events' = events /\ app_state' = app_state /\ next_state' = next_state
      /\ devices_known' = devices_known
  BY DEF CoachStep, headVars, mic
<1>2. permission = "Undetermined"
  BY DEF CoachStep, CoachTakes, CoachAlone, TakeStart, TakeStop, TakeListDevices,
         TakePermissionQuery, TakePermissionRequest, TakePermissionResolved, Interrupt,
         EndInterruption, SessionFails, SessionRecovers, PlayerAnswers
<1>3. /\ ~Queued(GrantedOnly) /\ ~devices_known /\ session # "Running"
      /\ app_state \in {"MainMenu", "Settings"} => next_state \notin {"InGame", "Paused"}
      /\ app_state \in {"InGame", "Paused"} => ~IsSent("PermissionRequest") /\ asking = "no"
      /\ ~IsSent("PermissionResolved")
      /\ asking # "no" => ~IsSent("Start")
      /\ \A i, j \in DOMAIN inbox :
           i < j /\ inbox[i] = "PermissionRequest" => inbox[j] # "Start"
  BY <1>2 DEF UndeterminedInv
<1>4. ~(Interrupt \/ SessionFails \/ SessionRecovers)
  BY <1>3 DEF Interrupt, SessionFails, SessionRecovers
<1>5. ~PlayerAnswers BY <1>2 DEF PlayerAnswers
<1>6. ASSUME UNCHANGED queue PROVE ~Queued(GrantedOnly)'
  BY <1>1, <1>3, <1>6 DEF Queued
<1>7. ASSUME NEW ev \in CoachEvent, Push(ev), ev \notin GrantedOnly
      PROVE  ~Queued(GrantedOnly)'
  BY <1>1, <1>3, <1>7, PushOfSet
<1>8. /\ Event("SessionError", "-") \notin GrantedOnly
      /\ Event("DevicesListed", FALSE) \notin GrantedOnly
      /\ \A v : Event("PermissionStatus", v) \notin GrantedOnly /\ Event("Ended", v) \notin GrantedOnly
  BY DEF Event, GrantedOnly
<1>9. Event("PermissionStatus", permission) \in CoachEvent
  BY EventType DEF TypeOK, CoachTypeOK
<1>10. ASSUME NEW input \in Input, Take(input), session' # "Running",
              ~Queued(GrantedOnly)',
                            asking = "no" => asking' = "no" \/ input = "PermissionRequest"
       PROVE  UndeterminedInv'
  <2>1. /\ Len(inbox) \in Nat \ {0} /\ inbox[1] = input
        /\ DOMAIN inbox = 1..Len(inbox) /\ DOMAIN inbox' = 1..(Len(inbox) - 1)
        /\ \A j \in DOMAIN inbox' : inbox'[j] = inbox[j + 1]
    BY <1>10, TakeShifts
  <2>2. \A c : IsSent(c)' => IsSent(c) BY <1>10, TakeSendsNothing
  <2>3. input = "PermissionRequest" => IsSent("PermissionRequest") /\ ~IsSent("Start")'
    <3>1. 1 \in DOMAIN inbox BY <2>1
    <3>2. \A j \in DOMAIN inbox' : j + 1 \in DOMAIN inbox /\ 1 < j + 1 BY <2>1
    <3>. QED BY <1>3, <2>1, <3>1, <3>2 DEF IsSent
  <2>4. asking' # "no" => ~IsSent("Start")' BY <1>3, <1>10, <2>2, <2>3
  <2>5. app_state \in {"InGame", "Paused"} => ~IsSent("PermissionRequest")' /\ asking' = "no"
    BY <1>3, <1>10, <2>2, <2>3
  <2>6. \A i, j \in DOMAIN inbox' :
          i < j /\ inbox'[i] = "PermissionRequest" => inbox'[j] # "Start"
    <3>1. SUFFICES ASSUME NEW i \in DOMAIN inbox', NEW j \in DOMAIN inbox', i < j,
                          inbox'[i] = "PermissionRequest"
                   PROVE  inbox'[j] # "Start"
      OBVIOUS
    <3>2. i + 1 \in DOMAIN inbox /\ j + 1 \in DOMAIN inbox /\ i + 1 < j + 1
      BY <2>1, <3>1
    <3>. QED BY <1>3, <2>1, <3>1, <3>2
  <2>. QED BY <1>1, <1>3, <1>10, <2>2, <2>4, <2>5, <2>6 DEF UndeterminedInv
<1>. USE DEF Input, Command
<1>11. CASE TakeStart
  <2>1. Take("Start") BY <1>11 DEF TakeStart
  <2>2. IsSent("Start")
    <3>1. 1 \in DOMAIN inbox /\ inbox[1] = "Start" BY <2>1, TakeShifts
    <3>. QED BY <3>1 DEF IsSent
  <2>3. asking = "no" BY <1>3, <2>2
  <2>4. session' # "Running" /\ asking' = "no"
    BY <1>2, <1>3, <1>11, <2>3 DEF TakeStart, NewGeneration, SameGeneration
  <2>5. UNCHANGED queue \/ Push(Event("SessionError", "-")) BY <1>11 DEF TakeStart
  <2>6. ~Queued(GrantedOnly)' BY <1>6, <1>7, <1>8, <2>5, EventType
  <2>. QED BY <1>10, <2>1, <2>3, <2>4, <2>6
<1>12. CASE TakeStop
  <2>1. Take("Stop") /\ session' = "Idle" /\ asking' = asking /\ UNCHANGED queue
    BY <1>3, <1>12 DEF TakeStop, SameGeneration
  <2>. QED BY <1>6, <1>10, <2>1
<1>13. CASE TakeListDevices
  <2>1. Push(Event("DevicesListed", FALSE)) BY <1>2, <1>13 DEF TakeListDevices
  <2>2. Take("ListDevices") /\ session' = session /\ asking' = asking
    BY <1>13 DEF TakeListDevices, SameGeneration
  <2>3. ~Queued(GrantedOnly)' BY <1>7, <1>8, <2>1, EventType
  <2>. QED BY <1>3, <1>10, <2>2, <2>3
<1>14. CASE TakePermissionQuery
  <2>1. Take("PermissionQuery") /\ session' = session /\ asking' = asking
        /\ Push(Event("PermissionStatus", permission))
    BY <1>14 DEF TakePermissionQuery, SameGeneration
  <2>2. ~Queued(GrantedOnly)' BY <1>7, <1>8, <1>9, <2>1
  <2>. QED BY <1>3, <1>10, <2>1, <2>2
<1>15. CASE TakePermissionRequest
  <2>1. Take("PermissionRequest") /\ session' = session /\ asking' = "current" /\ UNCHANGED queue
    BY <1>15 DEF TakePermissionRequest
  <2>. QED BY <1>3, <1>6, <1>10, <2>1
<1>16. ~TakePermissionResolved
  <2>. SUFFICES ASSUME Take("PermissionResolved") PROVE FALSE
    BY DEF TakePermissionResolved
  <2>1. 1 \in DOMAIN inbox /\ inbox[1] = "PermissionResolved" BY TakeShifts
  <2>. QED BY <1>3, <2>1 DEF IsSent
<1>17. CASE EndInterruption
  <2>1. PICK b \in BOOLEAN : Push(Event("Ended", b)) BY <1>17 DEF EndInterruption
  <2>2. ~Queued(GrantedOnly)' BY <1>7, <1>8, <2>1, EventType
  <2>. QED BY <1>1, <1>3, <1>17, <2>2 DEF EndInterruption, UndeterminedInv, IsSent
<1>. QED BY <1>4, <1>5, <1>11, <1>12, <1>13, <1>14, <1>15, <1>16, <1>17
       DEF CoachStep, CoachTakes, CoachAlone

\* A key asks for the permission on the menu only, and for no game before it is there.
LEMMA PlayerKeepsUndetermined == TypeOK /\ UndeterminedInv /\ Player => UndeterminedInv'
<1>. SUFFICES ASSUME TypeOK, UndeterminedInv, Player, permission = "Undetermined"
              PROVE  UndeterminedInv'
  BY DEF UndeterminedInv, Player, NewGame, OpenSettings, Back, AllowMic, CancelPrompt,
         RequestPause, EscPaused, Resume, QuitToMain, ConfirmYes, ConfirmCancel,
         ReturnToForeground, Press, PressAfterDrain
<1>. USE DEF Press, PressAfterDrain, queue
<1>1. UNCHANGED <<session, asking, permission, queue, app_state, events, devices_known>>
  BY DEF Player, NewGame, OpenSettings, Back, AllowMic, CancelPrompt, RequestPause,
         EscPaused, Resume, QuitToMain, ConfirmYes, ConfirmCancel, ReturnToForeground
<1>2. app_state \in {"MainMenu", "Settings"} =>
        next_state' = next_state \/ next_state' \in {"MainMenu", "Settings"}
  BY DEF Player, NewGame, OpenSettings, Back, AllowMic, CancelPrompt, RequestPause,
         EscPaused, Resume, QuitToMain, ConfirmYes, ConfirmCancel, ReturnToForeground
<1>3. \/ inbox' = inbox
      \/ \E c \in {"ListDevices", "PermissionQuery"} : inbox' = Append(inbox, c)
      \/ app_state = "MainMenu" /\ inbox' = Append(inbox, "PermissionRequest")
  <2>1. CASE NewGame BY <2>1 DEF NewGame, TypeOK, HeadTypeOK, AudioInitStatus
  <2>2. CASE AllowMic BY <2>2 DEF AllowMic
  <2>3. CASE ~NewGame /\ ~AllowMic
    BY <2>3 DEF Player, OpenSettings, Back, CancelPrompt, RequestPause,
         EscPaused, Resume, QuitToMain, ConfirmYes, ConfirmCancel, ReturnToForeground
  <2>. QED BY <2>1, <2>2, <2>3
<1>4. ~Queued(GrantedOnly)' BY <1>1 DEF UndeterminedInv, Queued
<1>5. CASE inbox' = inbox
  BY <1>1, <1>2, <1>4, <1>5 DEF UndeterminedInv, IsSent
<1>6. ASSUME NEW c \in {"ListDevices", "PermissionQuery", "PermissionRequest"},
             inbox' = Append(inbox, c), c = "PermissionRequest" => app_state = "MainMenu"
      PROVE  UndeterminedInv'
  <2>1. c \in Input BY DEF Input, Command
  <2>2. /\ Len(inbox) \in Nat /\ DOMAIN inbox = 1..Len(inbox)
        /\ \A i \in DOMAIN inbox : inbox'[i] = inbox[i]
        /\ inbox'[Len(inbox) + 1] = c
        /\ \A i \in DOMAIN inbox' : i \in DOMAIN inbox \/ i = Len(inbox) + 1
        /\ \A d : IsSent(d)' => IsSent(d) \/ d = c
    BY <1>6, <2>1, SendAppends
  <2>3. \A i, j \in DOMAIN inbox' :
          i < j /\ inbox'[i] = "PermissionRequest" => inbox'[j] # "Start"
    BY <2>2 DEF UndeterminedInv
  <2>. QED BY <1>1, <1>2, <1>4, <1>6, <2>2, <2>3 DEF UndeterminedInv
<1>. QED BY <1>3, <1>5, <1>6

\* No handler leads from the menu to the game or the Pause screen before the
\* permission is determined: no device is listed, and no interruption began.
LEMMA FrameKeepsUndetermined ==
  TypeOK /\ EventsHandled /\ UndeterminedInv /\ Frame => UndeterminedInv'
<1>. SUFFICES ASSUME TypeOK, EventsHandled, UndeterminedInv, Frame, permission = "Undetermined"
              PROVE  UndeterminedInv'
  BY DEF UndeterminedInv, Frame, StayOnScreen, ChangeScreen, PollEvents, HandleDevicesListed,
      HandleSessionError, HandleBegan, HandleEnded, HandlePermissionStatus,
      HandleEventsDropped, DrainReturns, AdvanceCheckingHardware, Handle, coachVars
<1>. USE DEF queue, coachVars, mic
<1>1. /\ ~Queued(GrantedOnly) /\ ~devices_known /\ session # "Running"
      /\ app_state \in {"MainMenu", "Settings"} => next_state \notin {"InGame", "Paused"}
      /\ app_state \in {"InGame", "Paused"} => ~IsSent("PermissionRequest") /\ asking = "no"
      /\ ~IsSent("PermissionResolved")
      /\ asking # "no" => ~IsSent("Start")
      /\ \A i, j \in DOMAIN inbox :
           i < j /\ inbox[i] = "PermissionRequest" => inbox[j] # "Start"
  BY DEF UndeterminedInv
<1>2. ASSUME UNCHANGED <<inbox, session, asking, permission, app_state>>,
             ~Queued(GrantedOnly)', ~devices_known',
             next_state' = next_state \/ next_state' = "MainMenu"
      PROVE  UndeterminedInv'
  BY <1>1, <1>2 DEF UndeterminedInv, IsSent
<1>3. CASE StayOnScreen \/ DrainReturns
  BY <1>1, <1>2, <1>3 DEF StayOnScreen, DrainReturns, Queued
<1>4. CASE ChangeScreen
  <2>1. /\ app_state' = next_state /\ next_state' = "Unchanged" /\ next_state \in AppState
        /\ app_state \in AppState /\ UNCHANGED <<session, asking, devices_known, permission>>
        /\ inbox' = inbox \o ExitCommands(app_state) \o EnterCommands(next_state)
    BY <1>4 DEF ChangeScreen, TypeOK, HeadTypeOK
  <2>2. ~Queued(GrantedOnly)' BY <1>1, <1>4 DEF ChangeScreen, Queued
  <2>3. next_state \in {"InGame", "Paused"} => app_state \in {"InGame", "Paused"}
    BY <1>1, <2>1 DEF AppState
  <2>4. /\ inbox \in Seq(Input) /\ Len(inbox) \in Nat /\ DOMAIN inbox = 1..Len(inbox)
    BY DEF TypeOK, CoachTypeOK
  <2>5. PICK s \in {<<>>, <<"Stop">>} : ExitCommands(app_state) = s
    BY DEF ExitCommands
  <2>6. PICK t \in {<<>>, <<"PermissionQuery">>, <<"ListDevices">>, <<"Start">>} :
          /\ EnterCommands(next_state) = t
          /\ t = <<"Start">> => next_state = "InGame"
    BY <2>1 DEF EnterCommands, AppState
  <2>7. /\ \A i \in DOMAIN inbox : inbox'[i] = inbox[i]
        /\ \A i \in DOMAIN inbox' :
             \/ i \in DOMAIN inbox
             \/ inbox'[i] \in {"Stop", "PermissionQuery", "ListDevices"}
             \/ inbox'[i] = "Start" /\ next_state = "InGame"
    <3>1. s \in Seq(Input) /\ t \in Seq(Input)
      <4>1. /\ <<>> \in Seq(Input) /\ <<"Stop">> \in Seq(Input)
            /\ <<"PermissionQuery">> \in Seq(Input) /\ <<"ListDevices">> \in Seq(Input)
            /\ <<"Start">> \in Seq(Input)
        BY DEF Input, Command
      <4>. QED BY <2>5, <2>6, <4>1
    <3>2. PICK r \in Seq(Input) : r = s \o t
      <4>1. s \o t \in Seq(Input) BY ONLY <3>1
      <4>. QED BY ONLY <4>1
    <3>3. inbox' = inbox \o r BY <2>1, <2>4, <2>5, <2>6, <3>1, <3>2
    <3>4. /\ DOMAIN inbox' = 1..(Len(inbox) + Len(r)) /\ Len(r) \in Nat
          /\ \A i \in DOMAIN inbox : inbox'[i] = inbox[i]
          /\ \A i \in DOMAIN inbox' :
               i \notin DOMAIN inbox =>
                 i - Len(inbox) \in 1..Len(r) /\ inbox'[i] = r[i - Len(inbox)]
      BY <2>4, <3>3
    <3>5. \A k \in 1..Len(r) :
            \/ r[k] \in {"Stop", "PermissionQuery", "ListDevices"}
            \/ r[k] = "Start" /\ next_state = "InGame"
      <4>1. CASE t = <<>> BY <2>5, <3>2, <4>1
      <4>2. ASSUME NEW c, t = <<c>>
            PROVE  \A k \in 1..Len(r) : r[k] = "Stop" \/ r[k] = c
        BY <2>5, <3>2, <4>2
      <4>3. CASE t = <<"PermissionQuery">> BY <4>2, <4>3
      <4>4. CASE t = <<"ListDevices">> BY <4>2, <4>4
      <4>5. CASE t = <<"Start">> BY <2>6, <4>2, <4>5
      <4>. QED BY <2>6, <4>1, <4>3, <4>4, <4>5
    <3>. QED BY <3>4, <3>5
  <2>8. /\ IsSent("PermissionRequest")' => IsSent("PermissionRequest")
        /\ IsSent("PermissionResolved")' => IsSent("PermissionResolved")
        /\ IsSent("Start")' => IsSent("Start") \/ next_state = "InGame"
    BY <2>7 DEF IsSent
  <2>9. \A i, j \in DOMAIN inbox' :
          i < j /\ inbox'[i] = "PermissionRequest" => inbox'[j] # "Start"
    <3>1. SUFFICES ASSUME NEW i \in DOMAIN inbox', NEW j \in DOMAIN inbox', i < j,
                          inbox'[i] = "PermissionRequest"
                   PROVE  inbox'[j] # "Start"
      OBVIOUS
    <3>2. i \in DOMAIN inbox /\ inbox[i] = "PermissionRequest" BY <2>7, <3>1
    <3>3. next_state # "InGame" BY <1>1, <2>3, <3>2 DEF IsSent
    <3>. QED BY <1>1, <2>7, <3>1, <3>2, <3>3
  <2>. QED BY <1>1, <2>1, <2>2, <2>3, <2>8, <2>9 DEF UndeterminedInv
<1>5. CASE PollEvents
  <2>1. events = <<>> BY <1>5 DEF PollEvents, EventsHandled
  <2>2. Event("EventsDropped", "-") \notin GrantedOnly BY DEF Event, GrantedOnly
  <2>3. ~Queued(GrantedOnly)' BY <1>1, <1>5, <2>1, <2>2, PollOfSet
  <2>. QED BY <1>1, <1>2, <1>5, <2>3 DEF PollEvents, DrainInto
<1>6. CASE HandleSessionError \/ HandleEnded \/ HandleEventsDropped
  <2>1. PICK kind : Handle(kind)
    BY <1>6 DEF HandleSessionError, HandleEnded, HandleEventsDropped
  <2>2. ~Queued(GrantedOnly)' BY <1>1, <2>1, HandleOfSet
  <2>3. /\ inbox' = inbox /\ devices_known' = devices_known
        /\ next_state' = next_state \/ next_state' = "MainMenu"
    BY <1>6 DEF HandleSessionError, HandleEnded, HandleEventsDropped
  <2>. QED BY <1>1, <1>2, <2>1, <2>2, <2>3 DEF Handle
<1>7. CASE HandleDevicesListed
  <2>1. Handle("DevicesListed") BY <1>7 DEF HandleDevicesListed
  <2>2. Head(events) \in CoachEvent /\ Head(events).kind = "DevicesListed"
    BY <2>1 DEF Handle, TypeOK, HeadTypeOK
  <2>3. Head(events) \notin GrantedOnly BY <1>1, <2>1, HandleOfSet
  <2>4. Head(events).value = FALSE
    <3>1. Head(events) = Event("DevicesListed", Head(events).value)
          /\ Head(events).value \in BOOLEAN
      BY <2>2 DEF CoachEvent, Event
    <3>. QED BY <2>3, <3>1 DEF GrantedOnly
  <2>5. ~Queued(GrantedOnly)' BY <1>1, <2>1, HandleOfSet
  <2>. QED BY <1>2, <1>7, <2>1, <2>4, <2>5 DEF HandleDevicesListed, Handle
<1>8. CASE HandleBegan
  <2>1. Handle("Began") BY <1>8 DEF HandleBegan
  <2>2. Head(events) \in CoachEvent /\ Head(events).kind = "Began"
    BY <2>1 DEF Handle, TypeOK, HeadTypeOK
  <2>3. Head(events) = Event("Began", "-") BY <2>2 DEF CoachEvent, Event
  <2>. QED BY <1>1, <2>1, <2>3, HandleOfSet DEF GrantedOnly
<1>9. CASE HandlePermissionStatus
  <2>1. Handle("PermissionStatus") BY <1>9 DEF HandlePermissionStatus
  <2>2. ~Queued(GrantedOnly)' BY <1>1, <2>1, HandleOfSet
  <2>3. /\ UNCHANGED <<session, asking, permission, app_state, next_state, devices_known>>
        /\ inbox' = inbox \/ inbox' = Append(inbox, "ListDevices")
    BY <1>9 DEF HandlePermissionStatus, Handle
  <2>4. CASE inbox' = inbox BY <1>1, <1>2, <2>2, <2>3, <2>4
  <2>5. CASE inbox' = Append(inbox, "ListDevices")
    <3>1. "ListDevices" \in Input BY DEF Input, Command
    <3>2. /\ Len(inbox) \in Nat /\ DOMAIN inbox = 1..Len(inbox)
          /\ \A i \in DOMAIN inbox : inbox'[i] = inbox[i]
          /\ inbox'[Len(inbox) + 1] = "ListDevices"
          /\ \A i \in DOMAIN inbox' : i \in DOMAIN inbox \/ i = Len(inbox) + 1
          /\ \A d : IsSent(d)' => IsSent(d) \/ d = "ListDevices"
      BY <2>5, <3>1, SendAppends
    <3>3. \A i, j \in DOMAIN inbox' :
            i < j /\ inbox'[i] = "PermissionRequest" => inbox'[j] # "Start"
      BY <1>1, <3>2
    <3>. QED BY <1>1, <2>2, <2>3, <3>2, <3>3 DEF UndeterminedInv
  <2>. QED BY <2>3, <2>4, <2>5
<1>10. CASE AdvanceCheckingHardware
  BY <1>1, <1>2, <1>10 DEF AdvanceCheckingHardware, Queued
<1>. QED BY <1>3, <1>4, <1>5, <1>6, <1>7, <1>8, <1>9, <1>10 DEF Frame
-----------------------------------------------------------------------------
(* The menu's query.                                                       *)

\* A command sent behind the query leaves it there, and so do those taken in front
\* of it; when it is taken itself, no start or stop is behind it.
LEMMA SendKeepsMenu ==
  ASSUME TypeOK, MenuInv, NEW c \in Input \ {"Start", "Stop"}, inbox' = Append(inbox, c),
         app_state' = app_state
  PROVE  MenuInv'
<1>. SUFFICES ASSUME app_state = "MainMenu" PROVE MenuInv'
  BY DEF MenuInv
<1>1. /\ Len(inbox) \in Nat /\ DOMAIN inbox = 1..Len(inbox)
      /\ \A i \in DOMAIN inbox : i \in DOMAIN inbox' /\ inbox'[i] = inbox[i]
      /\ inbox'[Len(inbox) + 1] = c
      /\ \A i \in DOMAIN inbox' : i \in DOMAIN inbox \/ i = Len(inbox) + 1
  BY SendAppends
<1>2. CASE NothingComes BY <1>1, <1>2 DEF MenuInv, NothingComes
<1>3. ASSUME NEW i \in DOMAIN inbox, inbox[i] = "PermissionQuery",
             \A j \in DOMAIN inbox : j > i => inbox[j] \notin {"Start", "Stop"}
      PROVE  MenuInv'
  <2>1. i \in DOMAIN inbox' /\ inbox'[i] = "PermissionQuery" BY <1>1, <1>3
  <2>2. \A j \in DOMAIN inbox' : j > i => inbox'[j] \notin {"Start", "Stop"}
    BY <1>1, <1>3
  <2>. QED BY <2>1, <2>2 DEF MenuInv
<1>. QED BY <1>2, <1>3 DEF MenuInv

LEMMA CoachKeepsMenu == TypeOK /\ MenuInv /\ CoachStep => MenuInv'
<1>. SUFFICES ASSUME TypeOK, MenuInv, CoachStep, app_state = "MainMenu" PROVE MenuInv'
  BY DEF MenuInv, CoachStep, headVars
<1>1. \/ inbox' = inbox
      \/ \E input \in Input : Take(input)
      \/ inbox' = Append(inbox, "PermissionResolved")
  BY DEF CoachStep, CoachTakes, CoachAlone, TakeStart, TakeStop, TakeListDevices,
         TakePermissionQuery, TakePermissionRequest, TakePermissionResolved, Interrupt,
         EndInterruption, SessionFails, SessionRecovers, PlayerAnswers, Input, Command
<1>2. CASE inbox' = inbox BY <1>2 DEF MenuInv, NothingComes
<1>3. ASSUME NEW input \in Input, Take(input) PROVE MenuInv'
  <2>1. /\ Len(inbox) \in Nat \ {0} /\ inbox[1] = input
        /\ DOMAIN inbox = 1..Len(inbox) /\ DOMAIN inbox' = 1..(Len(inbox) - 1)
        /\ \A j \in DOMAIN inbox' : inbox'[j] = inbox[j + 1]
    BY <1>3, TakeShifts
  <2>2. \A j \in DOMAIN inbox' : j + 1 \in DOMAIN inbox BY <2>1
  <2>3. CASE NothingComes BY <2>1, <2>2, <2>3 DEF MenuInv, NothingComes
  <2>4. ASSUME NEW i \in DOMAIN inbox, inbox[i] = "PermissionQuery",
               \A j \in DOMAIN inbox : j > i => inbox[j] \notin {"Start", "Stop"}
        PROVE  MenuInv'
    <3>1. CASE i = 1
      <4>1. \A j \in DOMAIN inbox' : j + 1 > i BY <2>1, <3>1
      <4>. QED BY <2>1, <2>2, <2>4, <4>1 DEF MenuInv, NothingComes
    <3>2. CASE i # 1
      <4>1. i - 1 \in DOMAIN inbox' /\ (i - 1) + 1 = i BY <2>1, <3>2
      <4>2. inbox'[i - 1] = "PermissionQuery" BY <2>1, <2>4, <4>1
      <4>3. \A j \in DOMAIN inbox' : j > i - 1 => inbox'[j] \notin {"Start", "Stop"}
        BY <2>1, <2>2, <2>4
      <4>. QED BY <4>1, <4>2, <4>3 DEF MenuInv
    <3>. QED BY <3>1, <3>2
  <2>. QED BY <2>3, <2>4 DEF MenuInv
<1>4. CASE inbox' = Append(inbox, "PermissionResolved")
  <2>1. "PermissionResolved" \in Input BY DEF Input
  <2>. QED BY <1>4, <2>1, SendKeepsMenu DEF CoachStep, headVars
<1>. QED BY <1>1, <1>2, <1>3, <1>4

\* Entering the menu sends its query behind everything else.
LEMMA MenuAsks ==
  ASSUME TypeOK, ChangeScreen, next_state = "MainMenu"
  PROVE  \E n \in DOMAIN inbox' :
           inbox'[n] = "PermissionQuery" /\ \A j \in DOMAIN inbox' : ~(j > n)
<1>1. /\ inbox \in Seq(Input)
      /\ inbox' = inbox \o ExitCommands(app_state) \o <<"PermissionQuery">>
  BY DEF ChangeScreen, TypeOK, CoachTypeOK, EnterCommands
<1>2. CASE app_state = "InGame"
  <2>1. inbox' = Append(Append(inbox, "Stop"), "PermissionQuery")
    BY <1>1, <1>2 DEF ExitCommands, Input, Command
  <2>2. DOMAIN inbox' = 1..(Len(inbox) + 2) /\ inbox'[Len(inbox) + 2] = "PermissionQuery"
    BY <1>1, <2>1 DEF Input, Command
  <2>3. /\ Len(inbox) + 2 \in DOMAIN inbox'
        /\ \A j \in DOMAIN inbox' : ~(j > Len(inbox) + 2)
    BY <1>1, <2>2
  <2>. QED BY <2>2, <2>3
<1>3. CASE app_state # "InGame"
  <2>1. inbox' = Append(inbox, "PermissionQuery")
    BY <1>1, <1>3 DEF ExitCommands, Input, Command
  <2>2. DOMAIN inbox' = 1..(Len(inbox) + 1) /\ inbox'[Len(inbox) + 1] = "PermissionQuery"
    BY <1>1, <2>1 DEF Input, Command
  <2>3. /\ Len(inbox) + 1 \in DOMAIN inbox'
        /\ \A j \in DOMAIN inbox' : ~(j > Len(inbox) + 1)
    BY <1>1, <2>2
  <2>. QED BY <2>2, <2>3
<1>. QED BY <1>2, <1>3

\* The head sends a start or a stop only with a change of screen, and the query behind
\* it when that screen is the menu.
LEMMA HeadKeepsMenu == TypeOK /\ MenuInv /\ (Frame \/ Player) => MenuInv'
<1>. SUFFICES ASSUME TypeOK, MenuInv, Frame \/ Player PROVE MenuInv'
  OBVIOUS
<1>. USE DEF coachVars
<1>1. {"ListDevices", "PermissionRequest", "PermissionQuery"} \subseteq Input \ {"Start", "Stop"}
  BY DEF Input, Command
<1>2. ASSUME app_state' = app_state,
             \/ inbox' = inbox
             \/ \E c \in {"ListDevices", "PermissionRequest", "PermissionQuery"} :
                  inbox' = Append(inbox, c)
      PROVE  MenuInv'
  <2>1. CASE inbox' = inbox BY <1>2, <2>1 DEF MenuInv, NothingComes
  <2>. QED BY <1>1, <1>2, <2>1, SendKeepsMenu
<1>3. CASE ChangeScreen
  <2>. SUFFICES ASSUME app_state' = "MainMenu" PROVE MenuInv'
    BY DEF MenuInv
  <2>1. next_state = "MainMenu" BY <1>3 DEF ChangeScreen
  <2>. QED BY <1>3, <2>1, MenuAsks DEF MenuInv
<1>4. CASE Frame /\ ~ChangeScreen
  <2>1. CASE HandlePermissionStatus
    <3>1. inbox' = inbox \/ inbox' = Append(inbox, "ListDevices")
      BY <2>1 DEF HandlePermissionStatus
    <3>. QED BY <1>2, <2>1, <3>1 DEF HandlePermissionStatus, Handle
  <2>2. CASE ~HandlePermissionStatus
    <3>1. UNCHANGED <<inbox, app_state>>
      BY <1>4, <2>2
         DEF Frame, StayOnScreen, PollEvents, HandleDevicesListed, HandleSessionError,
             HandleBegan, HandleEnded, HandleEventsDropped, DrainReturns,
             AdvanceCheckingHardware, Handle
    <3>. QED BY <1>2, <3>1
  <2>. QED BY <2>1, <2>2
<1>5. CASE Player
  <2>. USE DEF Press, PressAfterDrain
  <2>1. CASE NewGame
    BY <1>2, <2>1 DEF NewGame, TypeOK, HeadTypeOK, AudioInitStatus
  <2>2. CASE ~NewGame
    BY <1>2, <1>5, <2>2
       DEF Player, OpenSettings, Back, AllowMic, CancelPrompt, RequestPause, EscPaused,
           Resume, QuitToMain, ConfirmYes, ConfirmCancel, ReturnToForeground
  <2>. QED BY <2>1, <2>2
<1>. QED BY <1>3, <1>4, <1>5

-----------------------------------------------------------------------------
(* The answer.                                                             *)

\* What the coach takes it answers, and an answer it makes stale the menu's query,
\* or the next visit of the menu, will give.
LEMMA CoachKeepsAnswer ==
  TypeOK /\ MicrophoneOffOutsideGame /\ UndeterminedInv /\ MenuInv /\ AnswerInv /\ CoachStep
    => AnswerInv'
<1>. SUFFICES ASSUME TypeOK, MicrophoneOffOutsideGame, UndeterminedInv, MenuInv, AnswerInv,
                     CoachStep, prompt = "RequestPending", ~lost'
              PROVE  AnswerComes'
  BY DEF AnswerInv, CoachStep, headVars, mic
<1>. USE DEF queue
<1>1. events' = events /\ app_state' = app_state BY DEF CoachStep, headVars
<1>2. Event("PermissionStatus", permission) \in CoachEvent
  BY EventType DEF TypeOK, CoachTypeOK
<1>3. ASSUME NEW ev \in CoachEvent, Push(ev)
      PROVE  /\ ~lost /\ (ev \in Answers => Queued(Answers)')
             /\ Queued(Answers) => Queued(Answers)'
  BY <1>1, <1>3, PushQueues, PushOfSet
<1>4. ASSUME UNCHANGED queue PROVE ~lost /\ (Queued(Answers) => Queued(Answers)')
  BY <1>1, <1>4 DEF Queued
<1>5. ~lost /\ (Queued(Answers) => Queued(Answers)')
  <2>1. CASE UNCHANGED queue BY <1>4, <2>1
  <2>2. CASE \E ev \in CoachEvent : Push(ev) BY <1>3, <2>2
  <2>. QED BY <1>2, <2>1, <2>2, EventType
         DEF CoachStep, CoachTakes, CoachAlone, TakeStart, TakeStop, TakeListDevices,
             TakePermissionQuery, TakePermissionRequest, TakePermissionResolved, Interrupt,
             EndInterruption, SessionFails, SessionRecovers, PlayerAnswers
<1>6. AnswerComes BY <1>5 DEF AnswerInv
<1>7. permission # "Undetermined" =>
        /\ permission' # "Undetermined"
        /\ Event("PermissionStatus", permission) \in Answers
  <2>1. permission # "Undetermined" => permission' # "Undetermined"
    BY DEF CoachStep, CoachTakes, CoachAlone, TakeStart, TakeStop, TakeListDevices,
           TakePermissionQuery, TakePermissionRequest, TakePermissionResolved, Interrupt,
           EndInterruption, SessionFails, SessionRecovers, PlayerAnswers
  <2>2. permission \in {"Undetermined", "Granted", "Denied"}
    BY DEF TypeOK, CoachTypeOK, AudioInitStatus
  <2>. QED BY <2>1, <2>2 DEF Answers
<1>8. ASSUME asking' = asking \/ asking = "no",
             \A c \in {"PermissionRequest", "PermissionQuery"} : IsSent(c) => IsSent(c)'
      PROVE  AnswerComes'
  BY <1>1, <1>5, <1>6, <1>7, <1>8 DEF AnswerComes
<1>9. ASSUME NEW input \in Input, Take(input)
      PROVE  \A c \in Input : c # input /\ IsSent(c) => IsSent(c)'
  BY <1>9, SentStays
<1>. USE DEF Input, Command
\* A new generation: the permission is determined, the menu's query is behind.
<1>10. ASSUME asking = "current", permission # "Undetermined",
              \/ session = "Running" /\ inbox' = inbox
              \/ \E input \in {"Start", "Stop"} : Take(input)
       PROVE  AnswerComes'
  <2>. SUFFICES ASSUME app_state = "MainMenu" PROVE IsSent("PermissionQuery")'
    BY <1>1, <1>7, <1>10 DEF AnswerComes
  <2>1. \E i \in DOMAIN inbox : inbox[i] \in {"Start", "Stop"}
    <3>1. CASE session = "Running"
      BY <3>1 DEF MicrophoneOffOutsideGame, EndsIdle
    <3>2. ASSUME NEW input \in {"Start", "Stop"}, Take(input)
          PROVE  \E i \in DOMAIN inbox : inbox[i] \in {"Start", "Stop"}
      <4>1. 1 \in DOMAIN inbox /\ inbox[1] = input BY <3>2, TakeShifts
      <4>. QED BY <4>1
    <3>. QED BY <1>10, <3>1, <3>2
  <2>2. IsSent("PermissionQuery") BY <2>1 DEF MenuInv, NothingComes, IsSent
  <2>. QED BY <1>9, <1>10, <2>2 DEF IsSent
<1>11. CASE TakeStart
  <2>1. Take("Start") /\ (asking' = asking \/ asking' = IF asking = "no" THEN "no" ELSE "stale")
    BY <1>11 DEF TakeStart, NewGeneration, SameGeneration
  <2>2. IsSent("Start")
    <3>1. 1 \in DOMAIN inbox /\ inbox[1] = "Start" BY <2>1, TakeShifts
    <3>. QED BY <3>1 DEF IsSent
  <2>3. asking = "current" => permission # "Undetermined" BY <2>2 DEF UndeterminedInv
  <2>4. CASE asking = "current" BY <1>10, <2>1, <2>3, <2>4
  <2>5. CASE asking # "current"
    BY <1>1, <1>5, <1>6, <1>7, <1>9, <2>1, <2>5 DEF AnswerComes
  <2>. QED BY <2>4, <2>5
<1>12. CASE TakeStop
  <2>1. /\ Take("Stop")
        /\ \/ asking' = asking
           \/ session = "Running" /\ asking' = IF asking = "no" THEN "no" ELSE "stale"
    BY <1>12 DEF TakeStop, NewGeneration, SameGeneration
  <2>2. session = "Running" => permission # "Undetermined" BY DEF UndeterminedInv
  <2>3. CASE asking' = asking BY <1>8, <1>9, <2>1, <2>3
  <2>4. CASE session = "Running" /\ asking = "current" BY <1>10, <2>1, <2>2, <2>4
  <2>5. CASE session = "Running" /\ asking # "current"
    BY <1>1, <1>5, <1>6, <1>7, <1>9, <2>1, <2>5 DEF AnswerComes
  <2>. QED BY <2>1, <2>3, <2>4, <2>5
<1>13. CASE TakeListDevices
  <2>1. Take("ListDevices") /\ asking' = asking BY <1>13 DEF TakeListDevices, SameGeneration
  <2>. QED BY <1>8, <1>9, <2>1
<1>14. CASE TakePermissionQuery
  <2>1. /\ Take("PermissionQuery") /\ asking' = asking
        /\ Push(Event("PermissionStatus", permission))
    BY <1>14 DEF TakePermissionQuery, SameGeneration
  <2>2. CASE permission # "Undetermined"
    BY <1>2, <1>3, <1>7, <2>1, <2>2 DEF AnswerComes
  <2>3. CASE permission = "Undetermined"
    BY <1>5, <1>6, <1>9, <2>1, <2>3 DEF AnswerComes
  <2>. QED BY <2>2, <2>3
<1>15. CASE TakePermissionRequest
  BY <1>15 DEF TakePermissionRequest, AnswerComes
<1>16. CASE TakePermissionResolved
  <2>1. Take("PermissionResolved") BY <1>16 DEF TakePermissionResolved
  <2>2. CASE asking = "current"
    <3>1. IsSent("PermissionResolved")
      <4>1. 1 \in DOMAIN inbox /\ inbox[1] = "PermissionResolved" BY <2>1, TakeShifts
      <4>. QED BY <4>1 DEF IsSent
    <3>2. permission # "Undetermined" BY <3>1 DEF UndeterminedInv
    <3>3. Push(Event("PermissionStatus", permission))
      BY <1>16, <2>2 DEF TakePermissionResolved
    <3>. QED BY <1>2, <1>3, <1>7, <3>2, <3>3 DEF AnswerComes
  <2>3. CASE asking # "current"
    BY <1>1, <1>5, <1>6, <1>7, <1>9, <2>1, <2>3 DEF AnswerComes
  <2>. QED BY <2>2, <2>3
<1>17. CASE Interrupt \/ EndInterruption
  BY <1>8, <1>17 DEF Interrupt, EndInterruption, IsSent
<1>18. CASE SessionFails \/ SessionRecovers
  <2>1. session = "Running" /\ inbox' = inbox
        /\ asking' = IF asking = "no" THEN "no" ELSE "stale"
    BY <1>18 DEF SessionFails, SessionRecovers, NewGeneration
  <2>2. permission # "Undetermined" BY <2>1 DEF UndeterminedInv
  <2>3. CASE asking = "current" BY <1>10, <2>1, <2>2, <2>3
  <2>4. CASE asking # "current"
    BY <1>1, <1>5, <1>6, <1>7, <2>1, <2>4 DEF AnswerComes, IsSent
  <2>. QED BY <2>3, <2>4
<1>19. CASE PlayerAnswers
  <2>1. inbox' = Append(inbox, "PermissionResolved") /\ asking' = asking
    BY <1>19 DEF PlayerAnswers
  <2>. QED BY <1>8, <2>1, SentStays
<1>. QED BY <1>11, <1>12, <1>13, <1>14, <1>15, <1>16, <1>17, <1>18, <1>19
       DEF CoachStep, CoachTakes, CoachAlone

\* A handler that takes the answer away answers the prompt with it.
LEMMA HeadKeepsAnswer ==
  TypeOK /\ EventsHandled /\ AnswerInv /\ (Frame \/ Player) => AnswerInv'
<1>. SUFFICES ASSUME TypeOK, EventsHandled, AnswerInv, Frame \/ Player PROVE AnswerInv'
  OBVIOUS
<1>. USE DEF queue, coachVars, mic
<1>1. ASSUME UNCHANGED <<asking, permission, lost, app_state, prompt>>,
             Queued(Answers) => Queued(Answers)',
             \A c \in {"PermissionRequest", "PermissionQuery"} : IsSent(c) => IsSent(c)'
      PROVE  AnswerInv'
  BY <1>1 DEF AnswerInv, AnswerComes
<1>2. ASSUME prompt' # "RequestPending" PROVE AnswerInv'
  BY <1>2 DEF AnswerInv
<1>3. CASE StayOnScreen \/ DrainReturns
  BY <1>1, <1>3 DEF StayOnScreen, DrainReturns, Queued, IsSent
<1>4. CASE ChangeScreen
  <2>1. next_state \in AppState /\ app_state \in AppState /\ inbox \in Seq(Input)
    BY <1>4 DEF ChangeScreen, TypeOK, HeadTypeOK, CoachTypeOK
  <2>2. PICK s \in Seq(Input) : inbox' = inbox \o s
    BY <1>4, <2>1, CommandsTail DEF ChangeScreen
  <2>3. \A c \in Input : IsSent(c) => IsSent(c)' BY <2>2, SentStays
  <2>4. app_state' = "MainMenu" => IsSent("PermissionQuery")'
    <3>. SUFFICES ASSUME app_state' = "MainMenu" PROVE IsSent("PermissionQuery")'
      OBVIOUS
    <3>1. next_state = "MainMenu" BY <1>4 DEF ChangeScreen
    <3>. QED BY <1>4, <3>1, MenuAsks DEF IsSent
  <2>5. Queued(Answers) => Queued(Answers)' BY <1>4 DEF ChangeScreen, Queued
  <2>6. UNCHANGED <<asking, permission, lost, prompt>> BY <1>4 DEF ChangeScreen
  <2>7. "PermissionRequest" \in Input BY DEF Input, Command
  <2>. QED BY <2>3, <2>4, <2>5, <2>6, <2>7 DEF AnswerInv, AnswerComes
<1>5. CASE PollEvents
  <2>1. events = <<>> BY <1>5 DEF PollEvents, EventsHandled
  <2>. QED BY <1>1, <1>5, <2>1, PollOfSet DEF PollEvents, DrainInto, IsSent
<1>6. CASE HandleDevicesListed \/ HandleSessionError \/ HandleBegan \/ HandleEnded
           \/ HandleEventsDropped
  <2>1. PICK kind \in {"DevicesListed", "SessionError", "Began", "Ended", "EventsDropped"} :
          Handle(kind)
    BY <1>6 DEF HandleDevicesListed, HandleSessionError, HandleBegan, HandleEnded,
                HandleEventsDropped
  <2>2. Head(events) \notin Answers BY <2>1 DEF Handle, Answers, Event
  <2>3. Queued(Answers) => Queued(Answers)' BY <2>1, <2>2, HandleOfSet
  <2>4. inbox' = inbox /\ prompt' = prompt
    BY <1>6 DEF HandleDevicesListed, HandleSessionError, HandleBegan, HandleEnded,
                HandleEventsDropped
  <2>. QED BY <1>1, <2>1, <2>3, <2>4 DEF Handle, IsSent
<1>7. CASE HandlePermissionStatus
  <2>1. Handle("PermissionStatus") BY <1>7 DEF HandlePermissionStatus
  <2>2. CASE prompt = "RequestPending" /\ Head(events) \in Answers
    <3>1. Head(events).value \in {"Denied", "Granted"} BY <2>2 DEF Answers, Event
    <3>2. CASE Head(events).value = "Denied"
      <4>1. prompt' = "PermissionDenied" BY <1>7, <2>2, <3>2 DEF HandlePermissionStatus
      <4>. QED BY <1>2, <4>1
    <3>3. CASE Head(events).value = "Granted"
      <4>1. prompt' = "CheckingHardware" BY <1>7, <2>2, <3>3 DEF HandlePermissionStatus
      <4>. QED BY <1>2, <4>1
    <3>. QED BY <3>1, <3>2, <3>3
  <2>3. CASE prompt # "RequestPending"
    <3>1. prompt' # "RequestPending" BY <1>7, <2>3 DEF HandlePermissionStatus
    <3>. QED BY <1>2, <3>1
  <2>4. CASE Head(events) \notin Answers
    <3>1. Queued(Answers) => Queued(Answers)' BY <2>1, <2>4, HandleOfSet
    <3>2. prompt' # "RequestPending" \/ (prompt' = prompt /\ inbox' = inbox)
      BY <1>7 DEF HandlePermissionStatus
    <3>. QED BY <1>1, <1>2, <2>1, <3>1, <3>2 DEF Handle, IsSent
  <2>. QED BY <2>2, <2>3, <2>4
<1>8. CASE AdvanceCheckingHardware
  <2>1. prompt' # "RequestPending" \/ prompt' = prompt
    BY <1>8 DEF AdvanceCheckingHardware
  <2>. QED BY <1>1, <1>2, <1>8, <2>1 DEF AdvanceCheckingHardware, Queued, IsSent
<1>9. CASE Player
  <2>. USE DEF Press, PressAfterDrain
  <2>1. /\ UNCHANGED <<asking, permission, lost, app_state>>
        /\ Queued(Answers) => Queued(Answers)'
    BY <1>9 DEF Player, NewGame, OpenSettings, Back, AllowMic, CancelPrompt, RequestPause,
           EscPaused, Resume, QuitToMain, ConfirmYes, ConfirmCancel, ReturnToForeground, Queued
  <2>2. CASE NewGame
    <3>1. prompt' # "RequestPending"
      BY <2>2 DEF NewGame, TypeOK, HeadTypeOK, AudioInitStatus
    <3>. QED BY <1>2, <3>1
  <2>3. CASE AllowMic
    <3>1. inbox' = Append(inbox, "PermissionRequest") /\ "PermissionRequest" \in Input
      BY <2>3 DEF AllowMic, Input, Command
    <3>2. IsSent("PermissionRequest")' BY <3>1, SendAppends
    <3>. QED BY <3>2 DEF AnswerInv, AnswerComes
  <2>4. CASE CancelPrompt BY <1>2, <2>4 DEF CancelPrompt
  <2>5. CASE ReturnToForeground
    <3>1. inbox' = Append(inbox, "PermissionQuery") /\ "PermissionQuery" \in Input
          /\ prompt' = prompt
      BY <2>5 DEF ReturnToForeground, Input, Command
    <3>2. \A c : IsSent(c) => IsSent(c)' BY <3>1, SendAppends
    <3>. QED BY <1>1, <2>1, <3>1, <3>2
  <2>6. CASE \/ OpenSettings \/ Back \/ RequestPause \/ EscPaused \/ Resume \/ QuitToMain
             \/ ConfirmYes \/ ConfirmCancel
    <3>1. inbox' = inbox /\ prompt' = prompt
      BY <2>6 DEF OpenSettings, Back, RequestPause, EscPaused, Resume, QuitToMain,
                  ConfirmYes, ConfirmCancel
    <3>. QED BY <1>1, <2>1, <3>1 DEF IsSent
  <2>. QED BY <1>9, <2>2, <2>3, <2>4, <2>5, <2>6 DEF Player
<1>. QED BY <1>3, <1>4, <1>5, <1>6, <1>7, <1>8, <1>9 DEF Frame

-----------------------------------------------------------------------------
AskInv == UndeterminedInv /\ MenuInv /\ AnswerInv

\* On the menu, the prompt that waits for a permission and cannot be cancelled is
\* answered: a start, stop, failure or recovery that made the answer stale has the
\* menu's own query behind it, and by then the permission is determined, unless the
\* full queue lost an event.
THEOREM RequestIsAnsweredAlways == Spec => []RequestIsAnswered
<1>1. Init => AskInv
  <2>. SUFFICES ASSUME Init PROVE AskInv
    OBVIOUS
  <2>1. /\ \/ app_state = "MainMenu" /\ inbox = <<"PermissionQuery">>
           \/ app_state = "InGame" /\ inbox = <<"PermissionQuery", "Start">>
        /\ session = "Idle" /\ asking = "no" /\ ~devices_known /\ prompt = "Hidden"
        /\ outbound = <<>> /\ events = <<>> /\ next_state = "Unchanged"
    BY DEF Init, CoachInit, EnterCommands
  <2>2. ~Queued(GrantedOnly) BY <2>1 DEF Queued
  <2>3. \A i \in DOMAIN inbox : inbox[i] \in {"PermissionQuery", "Start"} BY <2>1
  <2>4. UndeterminedInv BY <2>1, <2>2, <2>3 DEF UndeterminedInv, IsSent
  <2>5. MenuInv BY <2>1 DEF MenuInv, NothingComes
  <2>. QED BY <2>1, <2>4, <2>5 DEF AskInv, AnswerInv
<1>2. TypeOK /\ MicrophoneOffOutsideGame /\ EventsHandled /\ AskInv /\ [Next]_vars => AskInv'
  <2>1. AskInv /\ UNCHANGED vars => AskInv'
    BY DEF AskInv, UndeterminedInv, MenuInv, AnswerInv, AnswerComes, NothingComes, Queued,
           IsSent, vars, coachVars, headVars, queue, mic
  <2>2. CASE CoachStep
    BY <2>2, CoachKeepsUndetermined, CoachKeepsMenu, CoachKeepsAnswer DEF AskInv
  <2>3. CASE Frame
    BY <2>3, FrameKeepsUndetermined, HeadKeepsMenu, HeadKeepsAnswer DEF AskInv
  <2>4. CASE Player
    BY <2>4, PlayerKeepsUndetermined, HeadKeepsMenu, HeadKeepsAnswer DEF AskInv
  <2>. QED BY <2>1, <2>2, <2>3, <2>4 DEF Next
<1>3. AskInv => RequestIsAnswered
  <2>. SUFFICES ASSUME AskInv, app_state = "MainMenu", prompt = "RequestPending", ~lost
                PROVE  \/ IsSent("PermissionRequest") \/ IsSent("PermissionQuery")
                       \/ asking = "current" \/ IsQueued("PermissionStatus")
    BY DEF RequestIsAnswered
  <2>1. AnswerComes BY DEF AskInv, AnswerInv
  <2>2. Queued(Answers) => IsQueued("PermissionStatus")
    BY DEF Queued, Answers, Event, IsQueued
  <2>. QED BY <2>1, <2>2 DEF AnswerComes
<1>. QED BY <1>1, <1>2, <1>3, TypeCorrect, MicrophoneOff, HandledBeforePoll, PTL DEF Spec
=============================================================================

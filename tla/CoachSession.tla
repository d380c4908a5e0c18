---------------------------- MODULE CoachSession ----------------------------
(***************************************************************************)
(* What the AppCoach port promises a head about a session                  *)
(* (domain-ports/src/app_coach.rs): inputs are taken in order, and one     *)
(* that does not fit the state is dropped; `Idle' is left only for a start *)
(* the head asked for and `Error' only for a stop; the negotiated          *)
(* parameters appear before `Running' is announced and are gone before     *)
(* anything else is.  A session that recovers goes through `Stopping' and  *)
(* `Starting' unasked.                                                     *)
(***************************************************************************)
EXTENDS Naturals, Sequences

VARIABLES
  mail,      \* inputs the coach has not taken yet
  session,   \* the AudioSessionState last announced
  info,      \* is audio_info() Some?
  resetting, \* a stop was taken in Error and is being carried out
  up         \* shutdown has not completed

vars == <<mail, session, info, resetting, up>>

Init ==
  /\ mail = <<>>
  /\ session = "Idle"
  /\ info = FALSE
  /\ resetting = FALSE
  /\ up = TRUE

\* An input is added; or taken and dropped, or taken for something that is not
\* visible here.
Post ==
  /\ mail' # <<>>
  /\ mail' = Append(mail, mail'[Len(mail')])
  /\ UNCHANGED <<session, info, resetting, up>>

Take == mail # <<>> /\ mail' = Tail(mail)

Drop == Take /\ UNCHANGED <<session, info, resetting, up>>

\* AudioStartSession, accepted in Idle only.
Start ==
  /\ up /\ session = "Idle"
  /\ Take /\ Head(mail).kind = "Start"
  /\ session' = "Starting"
  /\ UNCHANGED <<info, resetting, up>>

\* Idle -> Starting -> Running, the info first.
PublishInfo ==
  /\ up /\ session = "Starting"
  /\ info' = TRUE
  /\ UNCHANGED <<mail, session, resetting, up>>

Run ==
  /\ up /\ session = "Starting" /\ info
  /\ session' = "Running"
  /\ UNCHANGED <<mail, info, resetting, up>>

\* Out of Running: the info goes first, for an input or for a deadline.
RetractInfo ==
  /\ up /\ session = "Running"
  /\ info' = FALSE
  /\ Take \/ UNCHANGED mail
  /\ UNCHANGED <<session, resetting, up>>

Leave ==
  /\ up /\ session = "Running" /\ ~info
  /\ session' = "Stopping"
  /\ UNCHANGED <<mail, info, resetting, up>>

\* Stopping ends in Idle, or in Starting where the session recovers.
Settle ==
  /\ up /\ session = "Stopping"
  /\ session' \in {"Idle", "Starting"}
  /\ UNCHANGED <<mail, info, resetting, up>>

Fail ==
  /\ up /\ session \in {"Starting", "Running"} /\ ~info
  /\ session' = "Error"
  /\ UNCHANGED <<mail, info, resetting, up>>

\* AudioStopSession in Error, the only way out of it.
BeginReset ==
  /\ up /\ session = "Error"
  /\ Take /\ Head(mail).kind = "Stop"
  /\ resetting' = TRUE
  /\ UNCHANGED <<session, info, up>>

Reset ==
  /\ up /\ session = "Error" /\ resetting
  /\ session' = "Idle"
  /\ resetting' = FALSE
  /\ UNCHANGED <<mail, info, up>>

Shutdown ==
  /\ up
  /\ up' = FALSE
  /\ info' = FALSE
  /\ UNCHANGED <<mail, session, resetting>>

Next ==
  \/ Post \/ Drop \/ Start \/ PublishInfo \/ Run \/ RetractInfo \/ Leave
  \/ Settle \/ Fail \/ BeginReset \/ Reset \/ Shutdown

Spec == Init /\ [][Next]_vars
=============================================================================

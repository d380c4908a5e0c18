------------------------------ MODULE CoachPort ------------------------------
(***************************************************************************)
(* The coach as a head meets it: a mailbox of commands, and the bounded    *)
(* queue of events it polls (app-coach/src/outbound.rs).  Between the two, *)
(* a handler of the control thread is one step, in the order in which the  *)
(* thread takes its inputs; ControlPlane has the same handlers in detail.  *)
(*                                                                         *)
(* The session's states are those the thread rests in between handlers.   *)
(* A generation is known by what still belongs to the current one: the     *)
(* interruption whose end would be announced, the permission request whose *)
(* answer would be taken.  Left out: the commands and events about music,  *)
(* and the state changes, which the head only logs.                        *)
(***************************************************************************)
EXTENDS Integers, Sequences

CONSTANTS
  OUTBOUND_QUEUE_CAP,    \* events the queue holds
  MAX_COUNT              \* largest dropped count, u32::MAX

ASSUME OutboundAssumption == OUTBOUND_QUEUE_CAP \in Nat \ {0} /\ MAX_COUNT \in Nat \ {0}

VARIABLES
  inbox,                 \* mpsc channel of Input, oldest first
  session,               \* the session, between two handlers
  interrupted,           \* would an end of the last interruption pass the generation gate?
  asking,                \* the last permission sink: unused, current or stale
  permission,            \* the OS microphone permission, init_status()
  outbound,              \* the events of the outbound queue
  pending_dropped,       \* its count of dropped events not yet reported
  lost                   \* history: was any event ever dropped?

queue == <<outbound, pending_dropped, lost>>
coachVars == <<inbox, session, interrupted, asking, permission, queue>>

AudioInitStatus == {"Undetermined", "Denied", "Granted"}
Command == {"Start", "Stop", "ListDevices", "PermissionQuery", "PermissionRequest"}
Input == Command \union {"PermissionResolved"}

\* An event and its payload: whether a device was listed, the permission
\* status, should_resume.
Event(kind, value) == [kind |-> kind, value |-> value]
CoachEvent ==
  [kind : {"DevicesListed", "Ended"}, value : BOOLEAN]
    \union [kind : {"PermissionStatus"}, value : AudioInitStatus]
    \union [kind : {"SessionError", "Began", "EventsDropped"}, value : {"-"}]

CoachTypeOK ==
  /\ inbox \in Seq(Input)
  /\ session \in {"Idle", "Running", "Error"}
  /\ interrupted \in BOOLEAN /\ lost \in BOOLEAN
  /\ asking \in {"no", "current", "stale"}
  /\ permission \in AudioInitStatus
  /\ outbound \in Seq(CoachEvent) /\ Len(outbound) <= OUTBOUND_QUEUE_CAP
  /\ pending_dropped \in 0..MAX_COUNT

CoachInit ==
  /\ session = "Idle"
  /\ interrupted = FALSE
  /\ asking = "no"
  /\ permission \in AudioInitStatus
  /\ outbound = <<>> /\ pending_dropped = 0 /\ lost = FALSE

-----------------------------------------------------------------------------
(* OutboundQueue.                                                          *)

\* Mutant of Push: the queue is not bounded.
PushUnbounded(ev) == outbound' = Append(outbound, ev) /\ UNCHANGED <<pending_dropped, lost>>

\* push: a full queue loses its oldest event and counts it.
Push(ev) ==
  IF Len(outbound) >= OUTBOUND_QUEUE_CAP
  THEN /\ outbound' = Append(Tail(outbound), ev)
       /\ pending_dropped' = IF pending_dropped < MAX_COUNT THEN pending_dropped + 1
                                                            ELSE MAX_COUNT
       /\ lost' = TRUE
  ELSE outbound' = Append(outbound, ev) /\ UNCHANGED <<pending_dropped, lost>>

\* drain_into: what a poll returns, the report of drops first.
Drained ==
  IF pending_dropped > 0 THEN <<Event("EventsDropped", "-")>> \o outbound ELSE outbound

DrainInto == outbound' = <<>> /\ pending_dropped' = 0 /\ UNCHANGED lost

-----------------------------------------------------------------------------
(* The control thread.                                                     *)

Take(input) == inbox # <<>> /\ Head(inbox) = input /\ inbox' = Tail(inbox)

\* A bump of the generation: what was asked or interrupted under the old one
\* is not heard of again.
NewGeneration ==
  /\ interrupted' = FALSE
  /\ asking' = IF asking = "no" THEN "no" ELSE "stale"

SameGeneration == UNCHANGED <<interrupted, asking>>

\* do_start_session: from Idle only; any step of it may fail.
TakeStart ==
  /\ Take("Start")
  /\ \/ /\ session = "Idle"
        /\ NewGeneration
        /\ \/ permission = "Granted" /\ session' = "Running" /\ UNCHANGED queue
           \/ session' = "Error" /\ Push(Event("SessionError", "-"))
     \/ session # "Idle" /\ SameGeneration /\ UNCHANGED <<session, queue>>
  /\ UNCHANGED permission

\* Mutant of TakeStop: a session in Error is not reset.
TakeStopKeepsError ==
  /\ Take("Stop")
  /\ session' = IF session = "Running" THEN "Idle" ELSE session
  /\ IF session = "Running" THEN NewGeneration ELSE SameGeneration
  /\ UNCHANGED <<permission, queue>>

\* do_stop_session.
TakeStop ==
  /\ Take("Stop")
  /\ session' = "Idle"
  /\ IF session = "Running" THEN NewGeneration ELSE SameGeneration
  /\ UNCHANGED <<permission, queue>>

\* do_list_devices: nothing is listed without permission, or when it fails.
TakeListDevices ==
  /\ Take("ListDevices")
  /\ \E found \in BOOLEAN :
       /\ found => permission = "Granted"
       /\ Push(Event("DevicesListed", found))
  /\ SameGeneration
  /\ UNCHANGED <<session, permission>>

TakePermissionQuery ==
  /\ Take("PermissionQuery")
  /\ Push(Event("PermissionStatus", permission))
  /\ SameGeneration
  /\ UNCHANGED <<session, permission>>

\* AudioPermissionRequest: a sink that froze this generation goes to the driver.
TakePermissionRequest ==
  /\ Take("PermissionRequest")
  /\ asking' = "current"
  /\ UNCHANGED <<session, interrupted, permission, queue>>

\* PermissionResolved: dropped when stale.
TakePermissionResolved ==
  /\ Take("PermissionResolved")
  /\ IF asking = "current" THEN Push(Event("PermissionStatus", permission))
                           ELSE UNCHANGED queue
  /\ asking' = "no"
  /\ UNCHANGED <<session, interrupted, permission>>

CoachTakes ==
  \/ TakeStart \/ TakeStop \/ TakeListDevices
  \/ TakePermissionQuery \/ TakePermissionRequest \/ TakePermissionResolved

-----------------------------------------------------------------------------
(* What the operating system makes of a session, when its input is taken.  *)

\* on_interrupted, in Running; the generation stays for the end to pass.
Interrupt ==
  /\ session = "Running"
  /\ session' = "Idle"
  /\ interrupted' = TRUE
  /\ Push(Event("Began", "-"))
  /\ UNCHANGED <<inbox, asking, permission>>

\* on_interruption_ended.
EndInterruption ==
  /\ interrupted
  /\ interrupted' = FALSE
  /\ \E should_resume \in BOOLEAN : Push(Event("Ended", should_resume))
  /\ UNCHANGED <<inbox, session, asking, permission>>

\* A terminal event, or a recovery that spent its budget.
SessionFails ==
  /\ session = "Running"
  /\ session' = "Error"
  /\ NewGeneration
  /\ Push(Event("SessionError", "-"))
  /\ UNCHANGED <<inbox, permission>>

\* A recovery that succeeds: the same session under a new generation.
SessionRecovers ==
  /\ session = "Running"
  /\ NewGeneration
  /\ UNCHANGED <<inbox, session, permission, queue>>

\* The player answers the permission dialog, if it was not answered before.
PlayerAnswers ==
  /\ asking # "no" /\ \A i \in DOMAIN inbox : inbox[i] # "PermissionResolved"
  /\ IF permission = "Undetermined" THEN permission' \in {"Granted", "Denied"}
                                    ELSE UNCHANGED permission
  /\ inbox' = Append(inbox, "PermissionResolved")
  /\ UNCHANGED <<session, interrupted, asking, queue>>

CoachAlone == Interrupt \/ EndInterruption \/ SessionFails \/ SessionRecovers \/ PlayerAnswers
=============================================================================

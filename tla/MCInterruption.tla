--------------------------- MODULE MCInterruption ---------------------------
(***************************************************************************)
(* ControlPlane with one history variable: has the timeout of the last     *)
(* interruption passed, with no end of it in the mailbox by then?          *)
(***************************************************************************)
EXTENDS MCControlPlane

VARIABLE timed_out

HInit == Init /\ timed_out = FALSE

HNext ==
  /\ Next
  /\ timed_out' = \/ ServiceDeadlines /\ interruption_timeout = 0 /\ inbox = <<>>
                  \/ timed_out /\ event' # "InterruptionBegan"

HSpec == HInit /\ [][HNext]_<<vars, timed_out>> /\ Fairness

\* What app_coach.rs says of an interruption that times out without an end: no
\* InterruptionEnded event follows, the InterruptionBegan was the last signal.
NoEndAfterTimeout == event = "InterruptionEnded" => ~timed_out
=============================================================================

--------------------------- MODULE MCControlPlane ---------------------------
(* Small instances of ControlPlane for TLC: the heads that drive it. *)
EXTENDS ControlPlane

\* A head that starts, stops and configures.
Player == {"Start", "Stop", "Configure"}

\* A head that keeps the mailbox busy: queries and permission requests never end.
BusyHead == {"Start", "Stop", "Query", "PermissionRequest"}

\* A head that starts and stops, and one that only starts.
StartStop == {"Start", "Stop"}
Starter == {"Start"}
=============================================================================

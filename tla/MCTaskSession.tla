--------------------------- MODULE MCTaskSession ---------------------------
(* Bounds for TLC: two artifacts, three failing calls, two invocations.     *)
EXTENDS TaskSession

=============================================================================

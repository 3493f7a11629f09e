------------------------- MODULE MCConsoleDelivery -------------------------
(* ConsoleDelivery over the logs of the configurations. *)
EXTENDS ConsoleDelivery
=============================================================================

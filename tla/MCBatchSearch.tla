--------------------------- MODULE MCBatchSearch ---------------------------
(* BatchSearch over the grids and memory sizes of the configurations. *)
EXTENDS BatchSearch
=============================================================================

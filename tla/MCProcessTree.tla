--------------------------- MODULE MCProcessTree ---------------------------
(* Bounds for TLC; process ids are interchangeable, births are not.         *)
EXTENDS ProcessTree, TLC

Symmetry == Permutations(Pids \ Helpers)
=============================================================================

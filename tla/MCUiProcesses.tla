--------------------------- MODULE MCUiProcesses ---------------------------
(* Model-checking instance of UiProcesses; the constants are in the cfg files. *)
EXTENDS UiProcesses, TLC

\* nothing distinguishes one process id from another, nor, when all of them are in
\* Conveyors, one robot from another
Symmetry == Permutations(Pids) \cup Permutations(Robots)
=============================================================================

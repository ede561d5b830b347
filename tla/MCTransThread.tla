--------------------------- MODULE MCTransThread ---------------------------
(* Model-checking instance of TransThread; the constants are in the cfg files. *)
EXTENDS TransThread
=============================================================================

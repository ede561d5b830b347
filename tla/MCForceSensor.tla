--------------------------- MODULE MCForceSensor ---------------------------
(* Model-checking instance of ForceSensor; the constants are in the cfg files. *)
EXTENDS ForceSensor
=============================================================================

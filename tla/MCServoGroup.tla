---------------------------- MODULE MCServoGroup ----------------------------
(* Model-checking instance of ServoGroup; the constants are in the cfg files. *)
EXTENDS ServoGroup
=============================================================================

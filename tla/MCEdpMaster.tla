---------------------------- MODULE MCEdpMaster ----------------------------
(* Model-checking instance of EdpMaster; the constants are in the cfg files. *)
EXTENDS EdpMaster
=============================================================================

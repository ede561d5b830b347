---------------------------- MODULE MCUiDialogs ----------------------------
(* Model-checking instance of UiDialogs; the constants are in the cfg file. *)
EXTENDS UiDialogs
=============================================================================

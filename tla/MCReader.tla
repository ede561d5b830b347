------------------------------ MODULE MCReader ------------------------------
(* Model-checking instance of Reader; the constants are in the cfg file. *)
EXTENDS Reader
=============================================================================

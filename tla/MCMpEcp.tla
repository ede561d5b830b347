------------------------------ MODULE MCMpEcp ------------------------------
(* Model-checking instance of MpEcp; the constants are in the cfg files. *)
EXTENDS MpEcp, TLC

\* the robots are alike
Symmetry == Permutations(ECPs)
=============================================================================

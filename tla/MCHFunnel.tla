----------------------------- MODULE MCHFunnel ------------------------------
(* Small instances of HFunnel for TLC: every constant is a model value or a *)
(* set of them.  No symmetry, for the run checks refinement and liveness.   *)
EXTENDS HFunnel
=============================================================================

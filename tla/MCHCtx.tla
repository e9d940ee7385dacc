------------------------------- MODULE MCHCtx -------------------------------
(* Small instances of HCtx for TLC. *)
EXTENDS HCtx
=============================================================================

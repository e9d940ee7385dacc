------------------------------- MODULE MCHPair ------------------------------
(* A small instance of HPair for TLC. *)
EXTENDS HPair, TLC

(* Two rings of different size. *)
MCRoom == (0 :> 1) @@ (1 :> 2)

(* Each pipe is used in the same ways. *)
Symmetry == Permutations(Pipes)
=============================================================================

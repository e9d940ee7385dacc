------------------------------ MODULE MCHNode -------------------------------
(* Small instances of HNode for TLC. *)
EXTENDS HNode, TLC

(* Endpoints that meet in one bucket of four; two still do in eight. *)
MCEndpoints == {1, 5, 9}

(* The threads that own sockets are interchangeable. *)
Symmetry == Permutations(Sockets)
=============================================================================

------------------------------ MODULE MCHFlood ------------------------------
(* Small instances of HFlood for TLC. *)
EXTENDS HFlood

(* No payload; an empty payload and then one in two pieces, the second one *)
(* byte short.                                                             *)
MCSizes == {<<>>, <<0, 3>>}
=============================================================================

------------------------------- MODULE MCHMsg -------------------------------
(* Small instances of HMsg for TLC. *)
EXTENDS HMsg

(* Every element a sender can use, and one that neither side knows. *)
MCLetters == {"i", "1", "2", "4", "8", "d", "p", "b", "z"}
=============================================================================

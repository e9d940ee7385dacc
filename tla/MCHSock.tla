------------------------------- MODULE MCHSock -------------------------------
(* Small instances of HSock for TLC. *)
EXTENDS HSock, TLC

Symmetry == Permutations(Sockets) \cup Permutations(Mailboxes)
=============================================================================

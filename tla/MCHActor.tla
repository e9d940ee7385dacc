------------------------------ MODULE MCHActor ------------------------------
(* Small instances of HActor for TLC. *)
EXTENDS HActor, TLC

MCRoom == (0 :> 1) @@ (1 :> 1)

ScriptsUpTo(n) == UNION {[1 .. k -> Ops] : k \in 0 .. n}

MCOwnerScripts == ScriptsUpTo(3)
MCHandlerScripts == ScriptsUpTo(4)
=============================================================================

------------------------------ MODULE RoundUp -------------------------------
(***************************************************************************)
(* Rounding up to a power of two, as hqueue_new does with the capacity,    *)
(* and the macros kv_roundup32 and kroundup32 with the number of sockets   *)
(* and of buckets: all bits below the highest one are set, between a       *)
(* decrement and an increment.  hqueue_new goes on to a shift by 32, which *)
(* makes no difference to what fits in 31 bits.                            *)
(***************************************************************************)
EXTENDS Integers, Bitwise

(* c |= c >> shift *)
Smear(c, shift) == c | shiftR(c, shift)

Rounded(c) == Smear(Smear(Smear(Smear(Smear(c - 1, 1), 2), 4), 8), 16) + 1

(* What it is for: the smallest power of two that is enough. *)
IsLeastPowerFor(p, c) == \E k \in 0 .. 30 : p = 2 ^ k /\ p >= c /\ (k > 0 => 2 ^ (k - 1) < c)
=============================================================================

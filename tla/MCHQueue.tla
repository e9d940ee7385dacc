------------------------------ MODULE MCHQueue ------------------------------
(* Small instances of HQueue for TLC. *)
EXTENDS HQueue, RoundUp

(* The ring has as many slots as hqueue_new makes. *)
ASSUME SizeRounded == Size = Rounded(Capacity)

ASSUME RoundedAssumption ==
  \A c \in 1 .. 300 \cup {511, 512, 513, 1024, 65535, 65536, 65537, 2 ^ 29 + 1} :
    IsLeastPowerFor(Rounded(c), c)
=============================================================================

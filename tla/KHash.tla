------------------------------- MODULE KHash --------------------------------
(***************************************************************************)
(* khash.h as hctx.c instantiates it (KHASH_MAP_INIT_INT): a hash table    *)
(* with open addressing whose keys are integers, each its own hash.  The   *)
(* registry never deletes a key, so a bucket is empty or in use and the    *)
(* table only grows; allocation failure aborts the process elsewhere.      *)
(*                                                                         *)
(* A table is a record: n_buckets, a power of two or 0; entry, of each     *)
(* bucket a <<key, value>> or Empty.                                       *)
(***************************************************************************)
EXTENDS Integers, FiniteSets

Empty == <<>>

kh_init == [n_buckets |-> 0, entry |-> <<>>]

Buckets(n) == 0 .. n - 1
Used(h) == {x \in Buckets(h.n_buckets) : h.entry[x] # Empty}
Key(e) == e[1]

(* (khint_t)(n_buckets * __ac_HASH_UPPER + 0.5), with 0.77 *)
UpperBound(n) == (77 * n + 50) \div 100

(* i = (i + (++step)) & mask, step times from the hash. *)
Probe(n, key, step) == (key + (step * (step + 1)) \div 2) % n

Least(S) == CHOOSE x \in S : \A y \in S : x <= y

(* The first bucket on the way of a key that is one of some; n if the way   *)
(* is back where it began before.                                           *)
Search(n, key, stops) ==
  LET ends == {s \in 0 .. 2 * n :
                 \/ Probe(n, key, s) \in stops
                 \/ s > 0 /\ Probe(n, key, s) = Probe(n, key, 0)}
      x == Probe(n, key, Least(ends))
  IN  IF x \in stops THEN x ELSE n

(* Where a key is or would go. *)
Site(h, key) ==
  Search(h.n_buckets, key,
         {x \in Buckets(h.n_buckets) : h.entry[x] = Empty \/ Key(h.entry[x]) = key})

(* The bucket of a key, or n_buckets, kh_end. *)
kh_get(h, key) ==
  LET x == IF h.n_buckets = 0 THEN 0 ELSE Site(h, key)
  IN  IF x \in Used(h) THEN x ELSE h.n_buckets

-----------------------------------------------------------------------------
(* kh_resize, to twice the buckets.  The arrays are extended and the entries *)
(* moved within them: old holds the buckets still to be moved, new those      *)
(* that have got their entry, and an entry in hand has been taken out of one  *)
(* and not been put in another.                                               *)

Put(r, x) == [r EXCEPT !.entry[x] = r.hand, !.new = @ \cup {x}, !.hand = Empty]

(* The place of the entry in hand is that of one still to be moved. *)
KickOut(r, x) ==
  [r EXCEPT !.entry[x] = r.hand, !.new = @ \cup {x}, !.hand = r.entry[x], !.old = @ \ {x}]

Take(r) ==
  LET j == Least(r.old) IN [r EXCEPT !.hand = r.entry[j], !.old = @ \ {j}]

Step_NoKickOut(n, r) ==
  IF r.hand = Empty
    THEN IF r.old = {} THEN r ELSE Take(r)
    ELSE Put(r, Search(n, Key(r.hand), Buckets(n) \ r.new))

Step(n, r) ==
  IF r.hand = Empty
    THEN IF r.old = {} THEN r ELSE Take(r)
    ELSE LET x == Search(n, Key(r.hand), Buckets(n) \ r.new)
         IN  IF x \in r.old THEN KickOut(r, x) ELSE Put(r, x)

(* The buckets there will be: 4 at first, then twice as many. *)
Grown(n) == IF n = 0 THEN 4 ELSE 2 * n

Begin(n, h) ==
  [entry |-> [x \in Buckets(n) |-> IF x \in Used(h) THEN h.entry[x] ELSE Empty],
   old |-> Used(h), new |-> {}, hand |-> Empty]

(* Steps enough to move everything. *)
Rehash(n, r) ==
  LET run[s \in 0 .. 2 * n] == IF s = 0 THEN r ELSE Step(n, run[s - 1])
  IN  run[2 * n]

kh_resize(h) ==
  LET n == Grown(h.n_buckets)
      end == Rehash(n, Begin(n, h))
  IN  [n_buckets |-> n,
       entry |-> [x \in Buckets(n) |-> IF x \in end.new THEN end.entry[x] ELSE Empty]]

-----------------------------------------------------------------------------
(* kh_put, and kh_val of its result set to a value. *)

Room(h) ==
  IF Cardinality(Used(h)) >= UpperBound(h.n_buckets) THEN kh_resize(h) ELSE h

(* ret: whether the key was not there. *)
absent(h, key) == kh_get(h, key) = h.n_buckets

kh_put(h, key, val) ==
  LET g == Room(h) IN [g EXCEPT !.entry[Site(g, key)] = <<key, val>>]

(* What the table says of a key. *)
Value(h, key) == h.entry[kh_get(h, key)][2]
=============================================================================

---------------------------- MODULE HNodeProofs -----------------------------
(***************************************************************************)
(* The registry of HCtx.tla and the nodes of HNode.tla, for every number   *)
(* of sockets, endpoints and nodes and every size of the bitmap, with the  *)
(* hash table of KHash.tla for every set of keys.                          *)
(***************************************************************************)
EXTENDS HNode, WellFoundedInduction, SequenceTheorems, FiniteSetTheorems, TLAPS

(* The bitmap has a word for every index. *)
FreelistShape == sockid_freelist \in [0 .. Words - 1 -> SUBSET Ids]

(* The lock is held by who searches and by who is giving an id back.  *)
LockHeld == ~exited => \A s \in Sockets : lock = s <=> pc[s] \in {"scan", "unstore"}

(* What a thread knows between two steps is still so. *)
Known(s) ==
  /\ pc[s] = "scan" => \A w \in 0 .. i[s] - 1 : sockid_freelist[w] = {}
  /\ pc[s] \in {"load", "store"} => i[s] < Words /\ id[s] \in sockid_freelist[i[s]]
  /\ pc[s] = "store" => word[s] = sockid_freelist[i[s]]
  /\ pc[s] \in {"enter", "open", "unload", "unstore"} => id[s] \in Ids
  /\ pc[s] = "open" => mailbox[id[s]] = s
  /\ pc[s] = "unstore" => word[s] = sockid_freelist[WordOf(id[s])]
  /\ bound[s] # NULL => pc[s] = "open" /\ server_map[bound[s]] = id[s]

(* An endpoint with an id is the endpoint of a bound socket. *)
Served == \A e \in Endpoints : server_map[e] \in Ids => \E s \in Sockets : bound[s] = e

RegInv ==
  /\ TypeOK
  /\ FreelistShape
  /\ OneAtATime
  /\ LockHeld
  /\ \A s \in Sockets : Known(s)
  /\ Served
  /\ StatusTrue
  /\ NoIdLost

-----------------------------------------------------------------------------
(* Ids and words *)

(* An id lies in the word its quotient names, and in no other. *)
LEMMA IdsByWord ==
  ASSUME NEW n \in Ids
  PROVE  /\ WordOf(n) \in 0 .. Words - 1
         /\ n \in IdsOf(WordOf(n))
         /\ \A w \in 0 .. Words - 1 : n \in IdsOf(w) => w = WordOf(n)
<1> DEFINE v == WordOf(n)
<1>1. n \in Nat /\ n < Words * WordBits
  BY RegistryAssumption DEF Ids
<1>2. v \in Nat /\ v * WordBits <= n /\ n < (v + 1) * WordBits
  BY <1>1, RegistryAssumption DEF WordOf
<1> HIDE DEF v
<1>3. v \in 0 .. Words - 1
  BY <1>1, <1>2, RegistryAssumption
<1>4. ASSUME NEW w \in 0 .. Words - 1, n \in IdsOf(w) PROVE w = v
  <2>1. w * WordBits <= n /\ n < (w + 1) * WordBits
    BY <1>4, RegistryAssumption DEF IdsOf
  <2>2. w < v + 1 /\ v < w + 1
    BY <1>1, <1>2, <2>1, RegistryAssumption
  <2> QED
    BY <1>2, <2>2
<1>5. n \in IdsOf(v)
  BY <1>1, <1>2, RegistryAssumption DEF IdsOf
<1> QED
  BY <1>3, <1>4, <1>5 DEF v

(* The ids of a word are ids. *)
LEMMA WordsAreIds ==
  ASSUME NEW w \in 0 .. Words - 1
  PROVE  IdsOf(w) \subseteq Ids
<1> USE RegistryAssumption DEF Ids, IdsOf
<1>1. (w + 1) * WordBits <= Words * WordBits
  OBVIOUS
<1>2. w * WordBits \in Nat
  OBVIOUS
<1> QED
  BY <1>1, <1>2

(* A set of numbers that is not empty has a least one. *)
LEMMA LeastNumber ==
  ASSUME NEW S, S \subseteq Nat, S # {}
  PROVE  \E n \in S : \A m \in S : n <= m
<1>1. PICK n \in S : \A m \in S : ~ (<<m, n>> \in OpToRel(<, Nat))
  BY NatLessThanWellFounded, WFMin
<1>2. \A m \in S : ~ (m < n)
  <2> SUFFICES ASSUME NEW m \in S, m < n PROVE FALSE
    OBVIOUS
  <2>1. <<m, n>> \in Nat \X Nat /\ <<m, n>>[1] < <<m, n>>[2]
    OBVIOUS
  <2>2. <<m, n>> \in OpToRel(<, Nat)
    BY <2>1, Zenon DEF OpToRel
  <2> QED
    BY <1>1, <2>2
<1> QED
  BY <1>2

(* ffs finds a bit that is set. *)
LEMMA LowestIsThere ==
  ASSUME NEW S, S \subseteq Nat, S # {}
  PROVE  Lowest(S) \in S
<1>1. \E n \in S : \A m \in S : n <= m
  BY LeastNumber
<1> QED
  BY <1>1 DEF Lowest

(* A bit is set in the bitmap if it is set in the word of its id. *)
LEMMA FreeByWord ==
  ASSUME NEW f, \A w \in 0 .. Words - 1 : f[w] \subseteq IdsOf(w), NEW n \in Ids
  PROVE  n \in UNION {f[w] : w \in 0 .. Words - 1} <=> n \in f[WordOf(n)]
<1>1. /\ WordOf(n) \in 0 .. Words - 1
      /\ \A w \in 0 .. Words - 1 : n \in f[w] => w = WordOf(n)
  BY IdsByWord
<1>2. n \in UNION {f[w] : w \in 0 .. Words - 1} <=> \E w \in 0 .. Words - 1 : n \in f[w]
  OBVIOUS
<1> QED
  BY <1>1, <1>2

-----------------------------------------------------------------------------
(* Steps of the registry *)

LEMMA RegInit == Init => RegInv
<1> SUFFICES ASSUME Init PROVE RegInv
  OBVIOUS
<1>1. TypeOK /\ FreelistShape
  <2>1. \A w \in 0 .. Words - 1 : sockid_freelist[w] = IdsOf(w) /\ IdsOf(w) \in SUBSET Ids
    BY WordsAreIds DEF Init
  <2>2. FreelistShape
    BY <2>1 DEF FreelistShape, Init
  <2>3. i \in [Sockets -> 0 .. Words]
    BY RegistryAssumption DEF Init
  <2>4. exited \in BOOLEAN
    BY Zenon DEF Init
  <2>5. /\ lock \in Sockets \cup {NULL}
        /\ mailbox \in [Ids -> Sockets \cup {NULL}]
        /\ server_map \in [Endpoints -> Ids \cup {-1, NULL}]
        /\ pc \in [Sockets -> {"none", "scan", "load", "store", "enter", "open", "unload", "unstore"}]
        /\ id \in [Sockets -> Ids \cup {NULL}]
        /\ word \in [Sockets -> SUBSET Ids]
        /\ bound \in [Sockets -> Endpoints \cup {NULL}]
    BY DEF Init
  <2> QED
    BY <2>1, <2>2, <2>3, <2>4, <2>5 DEF TypeOK
<1>2. OneAtATime /\ LockHeld
  BY RegistryAssumption DEF Init, OneAtATime, LockHeld, Registering
<1>3. \A s \in Sockets : Known(s)
  BY DEF Init, Known
<1>4. Served
  BY RegistryAssumption DEF Init, Served, Ids
<1>5. StatusTrue
  BY DEF Init, StatusTrue, Holders
<1>6. NoIdLost
  <2>1. \A n \in Ids : n \in FreeIds
    <3> SUFFICES ASSUME NEW n \in Ids PROVE n \in FreeIds
      OBVIOUS
    <3>1. n \in sockid_freelist[WordOf(n)]
      BY IdsByWord DEF Init
    <3> QED
      BY <1>1, <3>1, FreeByWord DEF FreeIds, TypeOK
  <2> QED
    BY <2>1 DEF NoIdLost, Init
<1> QED
  BY <1>1, <1>2, <1>3, <1>4, <1>5, <1>6 DEF RegInv

LEMMA StepRegisterLock ==
  ASSUME RegInv, NEW s \in Sockets, RegisterLock(s), OneAtATime'
  PROVE  RegInv'
<1> USE DEF RegInv, RegisterLock, Goes
<1>1. TypeOK' /\ FreelistShape'
  BY RegistryAssumption DEF TypeOK, FreelistShape
<1>2. \A t \in Sockets : pc'[t] = IF t = s THEN "scan" ELSE pc[t]
  BY DEF TypeOK
<1>3. LockHeld'
  BY <1>2, RegistryAssumption DEF LockHeld
<1>4. ASSUME NEW t \in Sockets PROVE Known(t)'
  <2>1. CASE t = s
    BY <2>1 DEF Known, TypeOK
  <2>2. CASE t # s
    BY <1>2, <2>2 DEF Known, TypeOK
  <2> QED
    BY <2>1, <2>2
<1>5. Holders' = Holders
  BY <1>2 DEF Holders
<1>6. Served' /\ StatusTrue' /\ NoIdLost'
  BY <1>5 DEF Served, StatusTrue, NoIdLost, FreeIds
<1> QED
  BY <1>1, <1>3, <1>4, <1>6

LEMMA StepRegisterSkip ==
  ASSUME RegInv, NEW s \in Sockets, RegisterSkip(s), OneAtATime'
  PROVE  RegInv'
<1> USE DEF RegInv, RegisterSkip, registry
<1>1. TypeOK' /\ FreelistShape'
  <2>1. i[s] + 1 \in 0 .. Words
    BY RegistryAssumption DEF TypeOK
  <2> QED
    BY <2>1 DEF TypeOK, FreelistShape
<1>2. LockHeld'
  BY DEF LockHeld
<1>3. ASSUME NEW t \in Sockets PROVE Known(t)'
  <2>1. CASE t = s
    <3>1. i'[s] = i[s] + 1 /\ i[s] \in Nat
      BY DEF TypeOK
    <3>2. \A w \in 0 .. i[s] - 1 : sockid_freelist[w] = {}
      BY DEF Known
    <3>3. \A w \in 0 .. i'[s] - 1 : sockid_freelist[w] = {}
      BY <3>1, <3>2
    <3> QED
      BY <2>1, <3>3 DEF Known
  <2>2. CASE t # s
    BY <2>2 DEF Known, TypeOK
  <2> QED
    BY <2>1, <2>2
<1>4. Served' /\ StatusTrue' /\ NoIdLost'
  BY DEF Served, StatusTrue, NoIdLost, FreeIds, Holders
<1> QED
  BY <1>1, <1>2, <1>3, <1>4

(* A thread that creates a socket is alone in it. *)
LEMMA Alone ==
  ASSUME RegInv, NEW s \in Registering, NEW t \in Sockets, t # s
  PROVE  pc[t] \in {"none", "open"}
BY DEF RegInv, OneAtATime, Registering, Unregistering, TypeOK

LEMMA StepRegisterFound ==
  ASSUME RegInv, NEW s \in Sockets, RegisterFound(s), OneAtATime'
  PROVE  RegInv'
<1> USE DEF RegInv, RegisterFound, Goes
<1>1. i[s] \in 0 .. Words - 1 /\ sockid_freelist[i[s]] \subseteq Ids
  BY RegistryAssumption DEF TypeOK, FreelistShape
<1>2. Lowest(sockid_freelist[i[s]]) \in sockid_freelist[i[s]]
  BY <1>1, LowestIsThere, RegistryAssumption DEF Ids
<1>3. id'[s] \in sockid_freelist[i[s]] /\ id'[s] \in Ids
  BY <1>1, <1>2 DEF TypeOK
<1>4. TypeOK' /\ FreelistShape'
  BY <1>1, <1>2 DEF TypeOK, FreelistShape
<1>5. \A t \in Sockets : pc'[t] = (IF t = s THEN "load" ELSE pc[t]) /\ (t # s => id'[t] = id[t])
  BY DEF TypeOK
<1>6. \A t \in Sockets : t # s => pc[t] \in {"none", "open"}
  BY Alone DEF Registering
<1>7. LockHeld'
  BY <1>5, <1>6, RegistryAssumption DEF LockHeld
<1>8. ASSUME NEW t \in Sockets PROVE Known(t)'
  <2>1. CASE t = s
    BY <1>1, <1>3, <1>5, <2>1 DEF Known
  <2>2. CASE t # s
    BY <1>5, <2>2 DEF Known
  <2> QED
    BY <2>1, <2>2
<1>9. Holders' = Holders /\ s \notin Holders
  BY <1>5 DEF Holders
<1>10. Served' /\ StatusTrue' /\ NoIdLost'
  BY <1>5, <1>9 DEF Served, StatusTrue, NoIdLost, FreeIds, Holders
<1> QED
  BY <1>4, <1>7, <1>8, <1>10

LEMMA StepRegisterFull ==
  ASSUME RegInv, NEW s \in Sockets, RegisterFull(s), OneAtATime'
  PROVE  RegInv'
<1> USE DEF RegInv, RegisterFull, locals
<1>1. TypeOK' /\ FreelistShape'
  BY DEF TypeOK, FreelistShape
<1>2. LockHeld'
  BY DEF LockHeld
<1>3. (\A t \in Sockets : Known(t))' /\ Served' /\ StatusTrue'
  BY DEF Known, Served, StatusTrue, FreeIds, Holders
<1>4. NoIdLost'
  <2>1. \A w \in 0 .. Words - 1 : sockid_freelist[w] = {}
    BY RegistryAssumption DEF Known
  <2>2. FreeIds = {}
    BY <2>1 DEF FreeIds
  <2>3. \A n \in Ids : \E t \in Holders : id[t] = n
    BY <2>2 DEF NoIdLost
  <2> QED
    BY <2>3 DEF NoIdLost, FreeIds, Holders
<1> QED
  BY <1>1, <1>2, <1>3, <1>4

LEMMA StepRegisterLoad ==
  ASSUME RegInv, NEW s \in Sockets, RegisterLoad(s), OneAtATime'
  PROVE  RegInv'
<1> USE DEF RegInv, RegisterLoad, Goes, registry
<1>1. i[s] \in 0 .. Words - 1
  BY RegistryAssumption DEF Known, TypeOK
<1>2. TypeOK' /\ FreelistShape'
  BY <1>1 DEF TypeOK, FreelistShape
<1>3. \A t \in Sockets : pc'[t] = IF t = s THEN "store" ELSE pc[t]
  BY DEF TypeOK
<1>4. LockHeld'
  BY <1>3 DEF LockHeld
<1>5. ASSUME NEW t \in Sockets PROVE Known(t)'
  <2>1. CASE t = s
    BY <1>1, <1>3, <2>1 DEF Known, TypeOK
  <2>2. CASE t # s
    BY <1>3, <2>2 DEF Known, TypeOK
  <2> QED
    BY <2>1, <2>2
<1>6. Holders' = Holders
  BY <1>3 DEF Holders
<1>7. Served' /\ StatusTrue' /\ NoIdLost'
  BY <1>6 DEF Served, StatusTrue, NoIdLost, FreeIds
<1> QED
  BY <1>2, <1>4, <1>5, <1>7

LEMMA StepRegisterStore ==
  ASSUME RegInv, NEW s \in Sockets, RegisterStore(s), OneAtATime'
  PROVE  RegInv'
<1> USE DEF RegInv, RegisterStore, Goes
<1>1. /\ i[s] \in 0 .. Words - 1 /\ id[s] \in sockid_freelist[i[s]]
      /\ word[s] = sockid_freelist[i[s]] /\ word[s] \subseteq IdsOf(i[s])
  BY RegistryAssumption DEF Known, TypeOK
<1>2. id[s] \in Ids /\ WordOf(id[s]) = i[s]
  BY <1>1, WordsAreIds, IdsByWord
<1>3. sockid_freelist' = [sockid_freelist EXCEPT ![i[s]] = sockid_freelist[i[s]] \ {id[s]}]
  BY <1>1
<1>4. /\ \A w \in 0 .. Words - 1 : sockid_freelist'[w] =
           IF w = i[s] THEN sockid_freelist[w] \ {id[s]} ELSE sockid_freelist[w]
      /\ FreelistShape'
  BY <1>1, <1>3 DEF FreelistShape
<1>5. TypeOK'
  <2>1. \A w \in 0 .. Words - 1 : sockid_freelist'[w] \subseteq IdsOf(w)
    <3> SUFFICES ASSUME NEW w \in 0 .. Words - 1 PROVE sockid_freelist'[w] \subseteq sockid_freelist[w]
      BY DEF TypeOK
    <3>1. sockid_freelist'[w] = IF w = i[s] THEN sockid_freelist[w] \ {id[s]} ELSE sockid_freelist[w]
      BY <1>4
    <3> QED
      BY <3>1
  <2>2. word' \in [Sockets -> SUBSET Ids]
    BY DEF TypeOK
  <2>3. pc' \in [Sockets -> {"none", "scan", "load", "store", "enter", "open", "unload", "unstore"}]
    BY DEF TypeOK
  <2> QED
    BY <2>1, <2>2, <2>3 DEF TypeOK
<1>6. \A t \in Sockets : pc'[t] = IF t = s THEN "enter" ELSE pc[t]
  BY DEF TypeOK
<1>7. \A t \in Sockets : t # s => pc[t] \in {"none", "open"}
  BY Alone DEF Registering
<1>8. LockHeld'
  BY <1>6 DEF LockHeld
<1>9. ASSUME NEW t \in Sockets PROVE Known(t)'
  <2>1. CASE t = s
    BY <1>2, <1>6, <2>1 DEF Known
  <2>2. CASE t # s
    BY <1>6, <1>7, <2>2 DEF Known
  <2> QED
    BY <2>1, <2>2
<1>10. \A n \in Ids : n \in FreeIds' <=> n \in FreeIds /\ n # id[s]
  <2> SUFFICES ASSUME NEW n \in Ids
               PROVE  n \in FreeIds' <=> n \in FreeIds /\ n # id[s]
    OBVIOUS
  <2>1. n \in FreeIds <=> n \in sockid_freelist[WordOf(n)]
    BY FreeByWord DEF FreeIds, TypeOK
  <2>2. n \in FreeIds' <=> n \in sockid_freelist'[WordOf(n)]
    <3>1. \A w \in 0 .. Words - 1 : sockid_freelist'[w] \subseteq IdsOf(w)
      BY <1>5 DEF TypeOK
    <3>2. n \in UNION {sockid_freelist'[w] : w \in 0 .. Words - 1} <=> n \in sockid_freelist'[WordOf(n)]
      BY <3>1, FreeByWord
    <3> QED
      BY <3>2 DEF FreeIds
  <2>3. WordOf(n) \in 0 .. Words - 1
    BY IdsByWord
  <2>4. n \in sockid_freelist'[WordOf(n)] <=> n \in sockid_freelist[WordOf(n)] /\ n # id[s]
    <3>1. sockid_freelist'[WordOf(n)] =
            IF WordOf(n) = i[s] THEN sockid_freelist[WordOf(n)] \ {id[s]} ELSE sockid_freelist[WordOf(n)]
      BY <1>4, <2>3
    <3> QED
      BY <1>2, <3>1
  <2> QED
    BY <2>1, <2>2, <2>4, Zenon
<1>11. id[s] \in FreeIds
  BY <1>1 DEF FreeIds
<1>12. Holders' = Holders \cup {s} /\ id' = id
  BY <1>6 DEF Holders
<1>13. \A t \in Holders : id[t] \in Ids
  BY DEF Known, Holders
<1>14. StatusTrue'
  BY <1>2, <1>10, <1>11, <1>12, <1>13 DEF StatusTrue
<1>15. NoIdLost'
  <2>1. \A n \in Ids : n \in FreeIds' \/ \E t \in Holders' : id'[t] = n
    BY <1>10, <1>12 DEF NoIdLost
  <2>2. exited' = exited /\ ~exited
    OBVIOUS
  <2> QED
    BY <2>1, <2>2 DEF NoIdLost
<1>16. Served'
  BY DEF Served
<1> QED
  BY <1>4, <1>5, <1>8, <1>9, <1>14, <1>15, <1>16

LEMMA StepRegisterEnter ==
  ASSUME RegInv, NEW s \in Sockets, RegisterEnter(s), OneAtATime'
  PROVE  RegInv'
<1> USE DEF RegInv, RegisterEnter, Goes
<1>1. id[s] \in Ids
  BY DEF Known
<1>2. TypeOK' /\ FreelistShape'
  BY <1>1, RegistryAssumption DEF TypeOK, FreelistShape
<1>3. \A t \in Sockets : pc'[t] = IF t = s THEN "open" ELSE pc[t]
  BY DEF TypeOK
<1>4. LockHeld'
  BY <1>3 DEF LockHeld
<1>5. \A t \in Sockets : t # s /\ t \in Holders => id[t] # id[s]
  BY DEF StatusTrue, Holders
<1>6. ASSUME NEW t \in Sockets PROVE Known(t)'
  <2>1. CASE t = s
    BY <1>1, <1>3, <2>1 DEF Known, TypeOK
  <2>2. CASE t # s
    <3>1. pc[t] = "open" => mailbox'[id[t]] = mailbox[id[t]]
      BY <1>5, <2>2 DEF Holders, Known, TypeOK
    <3> QED
      BY <1>3, <2>2, <3>1 DEF Known, TypeOK
  <2> QED
    BY <2>1, <2>2
<1>7. Holders' = Holders
  BY <1>3 DEF Holders
<1>8. Served' /\ StatusTrue' /\ NoIdLost'
  BY <1>7 DEF Served, StatusTrue, NoIdLost, FreeIds
<1> QED
  BY <1>2, <1>4, <1>6, <1>8

LEMMA StepUnregisterClear ==
  ASSUME RegInv, NEW s \in Sockets, UnregisterClear(s), OneAtATime'
  PROVE  RegInv'
<1> USE DEF RegInv, UnregisterClear, Goes, locals
<1>1. id[s] \in Ids
  BY DEF Known
<1>2. TypeOK' /\ FreelistShape'
  BY <1>1, RegistryAssumption DEF TypeOK, FreelistShape
<1>3. \A t \in Sockets : pc'[t] = IF t = s THEN "unload" ELSE pc[t]
  BY DEF TypeOK
<1>4. LockHeld'
  BY <1>3 DEF LockHeld
<1>5. \A t \in Sockets : t # s /\ t \in Holders => id[t] # id[s]
  BY DEF StatusTrue, Holders
<1>6. ASSUME NEW t \in Sockets PROVE Known(t)'
  <2>1. CASE t = s
    BY <1>1, <1>3, <2>1 DEF Known
  <2>2. CASE t # s
    <3>1. pc[t] = "open" => mailbox'[id[t]] = mailbox[id[t]]
      BY <1>5, <2>2 DEF Holders, Known, TypeOK
    <3> QED
      BY <1>3, <2>2, <3>1 DEF Known
  <2> QED
    BY <2>1, <2>2
<1>7. Holders' = Holders
  BY <1>3 DEF Holders
<1>8. Served' /\ StatusTrue' /\ NoIdLost'
  BY <1>7 DEF Served, StatusTrue, NoIdLost, FreeIds
<1> QED
  BY <1>2, <1>4, <1>6, <1>8

LEMMA StepUnregisterLoad ==
  ASSUME RegInv, NEW s \in Sockets, UnregisterLoad(s), OneAtATime'
  PROVE  RegInv'
<1> USE DEF RegInv, UnregisterLoad, Goes
<1>1. id[s] \in Ids /\ WordOf(id[s]) \in 0 .. Words - 1
  BY IdsByWord DEF Known
<1>2. sockid_freelist[WordOf(id[s])] \subseteq Ids
  BY <1>1 DEF FreelistShape
<1>3. TypeOK' /\ FreelistShape'
  BY <1>2 DEF TypeOK, FreelistShape
<1>4. \A t \in Sockets : pc'[t] = IF t = s THEN "unstore" ELSE pc[t]
  BY DEF TypeOK
<1>5. LockHeld'
  BY <1>4, RegistryAssumption DEF LockHeld
<1>6. ASSUME NEW t \in Sockets PROVE Known(t)'
  <2>1. CASE t = s
    BY <1>1, <1>4, <2>1 DEF Known, TypeOK
  <2>2. CASE t # s
    BY <1>4, <2>2 DEF Known, TypeOK
  <2> QED
    BY <2>1, <2>2
<1>7. Holders' = Holders
  BY <1>4 DEF Holders
<1>8. Served' /\ StatusTrue' /\ NoIdLost'
  BY <1>7 DEF Served, StatusTrue, NoIdLost, FreeIds
<1> QED
  BY <1>3, <1>5, <1>6, <1>8

LEMMA StepUnregisterStore ==
  ASSUME RegInv, NEW s \in Sockets, UnregisterStore(s), OneAtATime'
  PROVE  RegInv'
<1> USE DEF RegInv, UnregisterStore, Goes
<1> DEFINE n0 == id[s]
           v == WordOf(n0)
<1>1. n0 \in Ids /\ v \in 0 .. Words - 1 /\ n0 \in IdsOf(v) /\ word[s] = sockid_freelist[v]
  BY IdsByWord DEF Known
<1>2. sockid_freelist' = [sockid_freelist EXCEPT ![v] = sockid_freelist[v] \cup {n0}]
  BY <1>1
<1>3. \A w \in 0 .. Words - 1 : sockid_freelist'[w] =
        IF w = v THEN sockid_freelist[w] \cup {n0} ELSE sockid_freelist[w]
  BY <1>1, <1>2 DEF FreelistShape
<1>4. FreelistShape'
  BY <1>1, <1>2 DEF FreelistShape
<1>5. \A w \in 0 .. Words - 1 : sockid_freelist'[w] \subseteq IdsOf(w)
  <2> SUFFICES ASSUME NEW w \in 0 .. Words - 1 PROVE sockid_freelist'[w] \subseteq IdsOf(w)
    OBVIOUS
  <2>1. sockid_freelist'[w] = IF w = v THEN sockid_freelist[w] \cup {n0} ELSE sockid_freelist[w]
    BY <1>3
  <2>2. sockid_freelist[w] \subseteq IdsOf(w)
    BY DEF TypeOK
  <2> QED
    BY <1>1, <2>1, <2>2
<1>6. TypeOK'
  <2>1. /\ id' \in [Sockets -> Ids \cup {NULL}] /\ word' \in [Sockets -> SUBSET Ids]
        /\ pc' \in [Sockets -> {"none", "scan", "load", "store", "enter", "open", "unload", "unstore"}]
    BY DEF TypeOK
  <2> QED
    BY <1>5, <2>1 DEF TypeOK
<1>7. \A t \in Sockets : pc'[t] = (IF t = s THEN "none" ELSE pc[t]) /\ (t # s => id'[t] = id[t])
  BY DEF TypeOK
<1>8. LockHeld'
  BY <1>7, RegistryAssumption DEF LockHeld
<1>9. \A t \in Sockets : pc[t] \notin {"scan", "load", "store", "enter"} /\ (t # s => pc[t] # "unstore")
  <2>1. \A t \in Sockets : pc[t] \notin {"scan", "load", "store", "enter"}
    BY Alone DEF Registering
  <2>2. \A t \in Sockets : t # s => pc[t] # "unstore"
    BY DEF LockHeld
  <2> QED
    BY <2>1, <2>2
<1>10. ASSUME NEW t \in Sockets PROVE Known(t)'
  <2>1. CASE t = s
    BY <1>7, <2>1 DEF Known
  <2>2. CASE t # s
    BY <1>7, <1>9, <2>2 DEF Known
  <2> QED
    BY <2>1, <2>2
<1>11. \A n \in Ids : n \in FreeIds' <=> n \in FreeIds \/ n = n0
  <2> SUFFICES ASSUME NEW n \in Ids PROVE n \in FreeIds' <=> n \in FreeIds \/ n = n0
    OBVIOUS
  <2>1. n \in FreeIds <=> n \in sockid_freelist[WordOf(n)]
    BY FreeByWord DEF FreeIds, TypeOK
  <2>2. n \in FreeIds' <=> n \in sockid_freelist'[WordOf(n)]
    <3>1. n \in UNION {sockid_freelist'[w] : w \in 0 .. Words - 1} <=> n \in sockid_freelist'[WordOf(n)]
      BY <1>5, FreeByWord
    <3> QED
      BY <3>1 DEF FreeIds
  <2>3. sockid_freelist'[WordOf(n)] =
          IF WordOf(n) = v THEN sockid_freelist[WordOf(n)] \cup {n0} ELSE sockid_freelist[WordOf(n)]
    BY <1>3, IdsByWord
  <2>4. n \in sockid_freelist'[WordOf(n)] <=> n \in sockid_freelist[WordOf(n)] \/ n = n0
    BY <2>3
  <2> QED
    BY <2>1, <2>2, <2>4, Zenon
<1>12. Holders' = Holders \ {s} /\ s \in Holders
  BY <1>7 DEF Holders
<1>13. \A t \in Holders : id[t] \in Ids
  BY DEF Known, Holders
<1>14. StatusTrue'
  <2>1. \A t \in Holders' : t \in Holders /\ id'[t] = id[t] /\ id[t] # n0
    BY <1>7, <1>12 DEF StatusTrue, Holders
  <2> QED
    BY <1>11, <1>13, <2>1 DEF StatusTrue
<1>15. NoIdLost'
  <2>1. ASSUME NEW n \in Ids PROVE n \in FreeIds' \/ \E t \in Holders' : id'[t] = n
    <3>1. CASE n = n0
      BY <1>11, <3>1
    <3>2. CASE n \in FreeIds
      BY <1>11, <3>2
    <3>3. CASE n # n0 /\ n \notin FreeIds
      <4>1. PICK t \in Holders : id[t] = n
        BY <3>3 DEF NoIdLost
      <4>2. t \in Holders' /\ id'[t] = n
        BY <1>7, <1>12, <3>3, <4>1 DEF Holders
      <4> QED
        BY <4>2
    <3> QED
      BY <3>1, <3>2, <3>3
  <2>2. exited' = exited /\ ~exited
    OBVIOUS
  <2> QED
    BY <2>1, <2>2 DEF NoIdLost
<1>16. Served'
  BY DEF Served
<1> QED
  BY <1>4, <1>6, <1>8, <1>10, <1>14, <1>15, <1>16

LEMMA StepBind ==
  ASSUME RegInv, NEW s \in Sockets, NEW e \in Endpoints, Bind(s, e), OneAtATime'
  PROVE  RegInv'
<1> USE DEF RegInv, Bind, locals
<1>1. id[s] \in Ids
  BY DEF Known
<1>2. TypeOK' /\ FreelistShape'
  BY <1>1 DEF TypeOK, FreelistShape
<1>3. LockHeld'
  BY DEF LockHeld
<1>4. server_map[e] \notin Ids
  BY RegistryAssumption DEF Ids
<1>5. ASSUME NEW t \in Sockets PROVE Known(t)'
  <2>1. CASE t = s
    BY <2>1 DEF Known, TypeOK
  <2>2. CASE t # s
    <3>1. bound'[t] = bound[t]
      BY <2>2 DEF TypeOK
    <3>2. bound[t] # NULL => id[t] \in Ids /\ server_map[bound[t]] = id[t] /\ bound[t] \in Endpoints
      BY DEF Known, TypeOK
    <3>3. bound[t] # NULL => bound[t] # e
      BY <1>4, <3>2
    <3>4. bound[t] # NULL => server_map'[bound[t]] = server_map[bound[t]]
      BY <3>2, <3>3 DEF TypeOK
    <3> QED
      BY <3>1, <3>4 DEF Known
  <2> QED
    BY <2>1, <2>2
<1>6. Served'
  <2> SUFFICES ASSUME NEW f \in Endpoints, server_map'[f] \in Ids
               PROVE  \E t \in Sockets : bound'[t] = f
    BY DEF Served
  <2>1. CASE f = e
    BY <2>1 DEF TypeOK
  <2>2. CASE f # e
    <3>1. server_map'[f] = server_map[f]
      BY <2>2 DEF TypeOK
    <3>2. PICK t \in Sockets : bound[t] = f
      BY <3>1 DEF Served
    <3>3. bound'[t] = f
      BY <3>2, RegistryAssumption DEF TypeOK
    <3> QED
      BY <3>3
  <2> QED
    BY <2>1, <2>2
<1>7. StatusTrue' /\ NoIdLost'
  BY DEF StatusTrue, NoIdLost, FreeIds, Holders
<1> QED
  BY <1>2, <1>3, <1>5, <1>6, <1>7

LEMMA StepUnbind ==
  ASSUME RegInv, NEW s \in Sockets, Unbind(s), OneAtATime'
  PROVE  RegInv'
<1> USE DEF RegInv, Unbind, locals
<1> DEFINE e == bound[s]
<1>1. e \in Endpoints /\ server_map[e] = id[s] /\ id[s] \in Ids
  BY DEF Known, TypeOK
<1>2. TypeOK' /\ FreelistShape'
  BY <1>1 DEF TypeOK, FreelistShape
<1>3. LockHeld'
  BY DEF LockHeld
<1>4. server_map' = [server_map EXCEPT ![e] = -1] /\ bound' = [bound EXCEPT ![s] = NULL]
  OBVIOUS
<1>5. ASSUME NEW t \in Sockets, t # s, bound[t] # NULL
      PROVE  bound[t] \in Endpoints /\ server_map[bound[t]] = id[t] /\ bound[t] # e
  <2>1. pc[t] = "open" /\ bound[t] \in Endpoints /\ server_map[bound[t]] = id[t]
    BY <1>5 DEF Known, TypeOK
  <2>2. id[t] # id[s]
    BY <1>5, <2>1 DEF StatusTrue, Holders
  <2> QED
    BY <1>1, <2>1, <2>2
<1>6. ASSUME NEW t \in Sockets PROVE Known(t)'
  <2>1. CASE t = s
    BY <2>1 DEF Known, TypeOK
  <2>2. CASE t # s
    <3>1. bound'[t] = bound[t]
      BY <2>2 DEF TypeOK
    <3>2. bound[t] # NULL => server_map'[bound[t]] = server_map[bound[t]]
      BY <1>4, <1>5, <2>2 DEF TypeOK
    <3> QED
      BY <3>1, <3>2 DEF Known
  <2> QED
    BY <2>1, <2>2
<1>7. Served'
  <2> SUFFICES ASSUME NEW f \in Endpoints, server_map'[f] \in Ids
               PROVE  \E t \in Sockets : bound'[t] = f
    BY DEF Served
  <2>1. f # e
    BY <1>1, <1>4, RegistryAssumption DEF TypeOK, Ids
  <2>2. server_map'[f] = server_map[f]
    BY <1>4, <2>1 DEF TypeOK
  <2>3. PICK t \in Sockets : bound[t] = f
    BY <2>2 DEF Served
  <2>4. bound'[t] = f
    BY <1>4, <2>1, <2>3 DEF TypeOK
  <2> QED
    BY <2>4
<1>8. StatusTrue' /\ NoIdLost'
  BY DEF StatusTrue, NoIdLost, FreeIds, Holders
<1> QED
  BY <1>2, <1>3, <1>6, <1>7, <1>8

LEMMA RegStutter ==
  ASSUME RegInv, UNCHANGED vars
  PROVE  RegInv'
<1> USE DEF RegInv, vars, registry, locals
<1>1. TypeOK' /\ FreelistShape' /\ LockHeld'
  BY DEF TypeOK, FreelistShape, LockHeld
<1>2. OneAtATime'
  BY DEF OneAtATime, Registering, Unregistering
<1>3. (\A s \in Sockets : Known(s))' /\ Served'
  BY DEF Known, Served
<1>4. StatusTrue' /\ NoIdLost'
  BY DEF StatusTrue, NoIdLost, FreeIds, Holders
<1> QED
  BY <1>1, <1>2, <1>3, <1>4

LEMMA RegStep ==
  ASSUME RegInv, [Next /\ OneAtATime']_vars
  PROVE  RegInv'
<1>1. ASSUME NEW s \in Sockets, Register(s), OneAtATime' PROVE RegInv'
  BY <1>1, StepRegisterLock, StepRegisterSkip, StepRegisterFound, StepRegisterFull,
     StepRegisterLoad, StepRegisterStore, StepRegisterEnter DEF Register
<1>2. ASSUME NEW s \in Sockets, Unregister(s), OneAtATime' PROVE RegInv'
  BY <1>2, StepUnregisterClear, StepUnregisterLoad, StepUnregisterStore DEF Unregister
<1> QED
  BY <1>1, <1>2, StepBind, StepUnbind, RegStutter DEF Next

-----------------------------------------------------------------------------
(* The registry of a node that creates and destroys its sockets one at a    *)
(* time when it creates one                                                 *)

THEOREM RegInvariant == OneAtATimeSpec => []RegInv
  BY RegInit, RegStep, PTL DEF OneAtATimeSpec

LEMMA LeadHome ==
  ASSUME RegInv
  PROVE  EndpointsLeadHome
<1> SUFFICES ASSUME NEW e \in Endpoints
             PROVE  /\ \A s \in Sockets : bound[s] = e => mailbox_at(e) = s
                    /\ (\A s \in Sockets : bound[s] # e) => mailbox_at(e) = NULL
  BY DEF EndpointsLeadHome
<1>1. ASSUME NEW s \in Sockets, bound[s] = e PROVE mailbox_at(e) = s
  <2>1. pc[s] = "open" /\ server_map[e] = id[s]
    BY <1>1, RegistryAssumption DEF RegInv, Known
  <2>2. id[s] \in Ids /\ mailbox[id[s]] = s
    BY <2>1 DEF RegInv, Known
  <2> QED
    BY <2>1, <2>2 DEF mailbox_at
<1>2. ASSUME \A s \in Sockets : bound[s] # e PROVE mailbox_at(e) = NULL
  BY <1>2 DEF RegInv, Served, mailbox_at
<1> QED
  BY <1>1, <1>2

(* No two sockets have one id, and none has an id the bitmap calls free.    *)
THEOREM StatusIsTrue == OneAtATimeSpec => []StatusTrue
<1>1. RegInv => StatusTrue
  BY DEF RegInv
<1> QED
  BY <1>1, RegInvariant, PTL

(* Every id is free or held: hctx_register says the node is out of ids only *)
(* when it is.                                                              *)
THEOREM NoIdIsLost == OneAtATimeSpec => []NoIdLost
<1>1. RegInv => NoIdLost
  BY DEF RegInv
<1> QED
  BY <1>1, RegInvariant, PTL

(* hctx_mailbox_at finds the socket bound to an endpoint, or nothing.       *)
THEOREM EndpointsAllLeadHome == OneAtATimeSpec => []EndpointsLeadHome
<1>1. RegInv => EndpointsLeadHome
  BY LeadHome
<1> QED
  BY <1>1, RegInvariant, PTL

-----------------------------------------------------------------------------
(* A node uses its registry as HCtx says *)

(* Every step of the nodes is a step of the home node's registry, or none.  *)
LEMMA NodeStepsAreRegistrySteps ==
  ASSUME [NodeNext /\ OneAtATime']_allVars
  PROVE  [Next /\ OneAtATime']_vars
<1>1. CASE Serve
  BY <1>1 DEF Serve, Next, BindRefused, allVars
<1>2. ASSUME NEW n \in Nodes,
             \/ Starts(n) \/ Meet(n) \/ Met(n) \/ Part(n) \/ Parted(n) \/ Ends(n)
             \/ \E m \in Nodes : Connect(n, m)
      PROVE  UNCHANGED vars
  BY <1>2 DEF Starts, Publish, Published, Fetch, Fetched, MakeRegistry, Meet, Met, Part, Parted,
              Ends, Free, Leave, Exit, Connect
<1>3. CASE \E r \in requests : OnConnect(r)
  BY <1>3 DEF OnConnect
<1>4. CASE Over \/ UNCHANGED allVars
  BY <1>4 DEF Over, allVars
<1> QED
  BY <1>1, <1>2, <1>3, <1>4 DEF NodeNext

(* The nodes implement the registry of HCtx.tla. *)
THEOREM NodesImplementRegistry == NodeSpec => OneAtATimeSpec
<1>1. NodeInit => Init
  BY DEF NodeInit
<1> QED
  BY <1>1, NodeStepsAreRegistrySteps, PTL DEF NodeSpec, OneAtATimeSpec

-----------------------------------------------------------------------------
(* The barriers *)

States == {"init", "published", "fetching", "fetched", "bare", "ready", "meet",
           "up", "part", "done", "freed", "leaving", "gone"}

(* Barriers of the program's own before its first connect and after its     *)
(* last.                                                                    *)
Own == IF Meets THEN 1 ELSE 0

(* How many barriers a node has notified where it is, and passed. *)
Given == [a \in States |->
            CASE a = "init" -> 0
              [] a \in {"published", "fetching"} -> 1
              [] a \in {"fetched", "bare", "ready"} -> 2
              [] a \in {"meet", "up"} -> 2 + Own
              [] a \in {"part", "done", "freed"} -> 2 + Own + Own
              [] a \in {"leaving", "gone"} -> 3 + Own + Own]

Passed == [a \in States |->
             CASE a \in {"init", "published"} -> 0
               [] a \in {"fetching", "fetched"} -> 1
               [] a \in {"bare", "ready", "meet"} -> 2
               [] a \in {"up", "part"} -> 2 + Own
               [] a \in {"done", "freed", "leaving"} -> 2 + Own + Own
               [] a = "gone" -> 3 + Own + Own]

(* A node has passed no barrier that another has not notified. *)
BarriersHold ==
  /\ \A n \in Nodes : notified[n] = Given[at[n]]
  /\ \A n, m \in Nodes : notified[m] >= Passed[at[n]]

(* A node that has published its context has its own address there, and what *)
(* another has read of the addresses so far is theirs.                       *)
AddressesTrue ==
  \A n \in Nodes :
    /\ at[n] # "init" => segment[n] = n
    /\ at[n] \in {"init", "published"} => peer_ctx_table[n] = <<>>
    /\ at[n] = "fetching" => Len(peer_ctx_table[n]) < N
    /\ at[n] \notin {"init", "published", "fetching"} => Len(peer_ctx_table[n]) = N
    /\ \A k \in 1 .. Len(peer_ctx_table[n]) : peer_ctx_table[n][k] = k - 1

(* Who asks waits for the answer before it parts. *)
AskersUp ==
  \A r \in requests : r.from \in Nodes /\ at[r.from] = "up" /\ r.to \in Nodes /\ r.ctx = r.to

NodeShape ==
  /\ at \in [Nodes -> States]
  /\ notified \in [Nodes -> Nat]
  /\ segment \in [Nodes -> Nodes \cup {NULL}]
  /\ peer_ctx_table \in [Nodes -> Seq(Nodes \cup {NULL})]
  /\ requests \subseteq [from : Nodes, to : Nodes, ctx : Nodes \cup {NULL}]

NodeInv == NodeShape /\ BarriersHold /\ AddressesTrue /\ AskersUp

LEMMA Counts ==
  /\ Own \in {0, 1}
  /\ Given \in [States -> Nat] /\ Passed \in [States -> Nat]
  /\ Given["init"] = 0 /\ Given["published"] = 1 /\ Given["fetching"] = 1
  /\ Given["fetched"] = 2 /\ Given["bare"] = 2 /\ Given["ready"] = 2
  /\ Given["meet"] = 2 + Own /\ Given["up"] = 2 + Own
  /\ Given["part"] = 2 + Own + Own /\ Given["done"] = 2 + Own + Own
  /\ Given["freed"] = 2 + Own + Own /\ Given["leaving"] = 3 + Own + Own
  /\ Given["gone"] = 3 + Own + Own
  /\ Passed["init"] = 0 /\ Passed["published"] = 0 /\ Passed["fetching"] = 1
  /\ Passed["fetched"] = 1 /\ Passed["bare"] = 2 /\ Passed["ready"] = 2
  /\ Passed["meet"] = 2 /\ Passed["up"] = 2 + Own /\ Passed["part"] = 2 + Own
  /\ Passed["done"] = 2 + Own + Own /\ Passed["freed"] = 2 + Own + Own
  /\ Passed["leaving"] = 2 + Own + Own /\ Passed["gone"] = 3 + Own + Own
<1>1. Own \in {0, 1}
  BY DEF Own
<1>2. Given \in [States -> Nat] /\ Passed \in [States -> Nat]
  BY <1>1 DEF Given, Passed, States
<1> QED
  BY <1>1, <1>2 DEF Given, Passed, States

LEMMA NodeInitInv == NodeInit => NodeInv
<1> SUFFICES ASSUME NodeInit PROVE NodeInv
  OBVIOUS
<1> USE NodeAssumption DEF NodeInit, Nodes
<1>1. <<>> \in Seq(Nodes \cup {NULL}) /\ Len(<<>>) = 0
  BY EmptySeq
<1>2. NodeShape
  BY <1>1 DEF NodeShape, States
<1>3. BarriersHold
  BY Counts DEF BarriersHold
<1>4. AddressesTrue /\ AskersUp
  BY <1>1 DEF AddressesTrue, AskersUp
<1> QED
  BY <1>2, <1>3, <1>4 DEF NodeInv

(* A node goes on: by a notification, or past a barrier that all notified. *)
LEMMA GoesOn ==
  ASSUME NodeShape, BarriersHold, NEW n \in Nodes, NEW to \in States,
         at' = [at EXCEPT ![n] = to],
         \/ Notify(n) /\ Given[to] = Given[at[n]] + 1 /\ Passed[to] = Passed[at[n]]
         \/ UNCHANGED notified /\ Given[to] = Given[at[n]] /\ Passed[to] = Passed[at[n]]
         \/ UNCHANGED notified /\ Given[to] = Given[at[n]]
            /\ AllNotified(n) /\ Passed[to] = Given[at[n]]
  PROVE  BarriersHold' /\ at' \in [Nodes -> States] /\ notified' \in [Nodes -> Nat]
<1> USE DEF NodeShape, Notify
<1>1. \A m \in Nodes : at'[m] = IF m = n THEN to ELSE at[m]
  OBVIOUS
<1>2. at' \in [Nodes -> States]
  OBVIOUS
<1>3. notified' \in [Nodes -> Nat] /\ \A m \in Nodes : notified'[m] >= notified[m]
  <2>1. \A m \in Nodes : notified[m] \in Nat /\ notified[m] + 1 \in Nat /\ notified[m] + 1 >= notified[m]
    OBVIOUS
  <2>2. CASE UNCHANGED notified
    BY <2>1, <2>2
  <2>3. CASE Notify(n)
    <3>1. \A m \in Nodes : notified'[m] = IF m = n THEN notified[m] + 1 ELSE notified[m]
      BY <2>3
    <3>2. notified' \in [Nodes -> Nat]
      BY <2>1, <2>3
    <3>3. ASSUME NEW m \in Nodes PROVE notified'[m] >= notified[m]
      <4>1. notified'[m] = notified[m] \/ notified'[m] = notified[m] + 1
        BY <3>1
      <4> QED
        BY <2>1, <4>1
    <3> QED
      BY <3>2, <3>3
  <2> QED
    BY <2>2, <2>3
<1>4. \A m \in Nodes : notified'[m] = Given[at'[m]]
  BY <1>1 DEF BarriersHold
<1>5. ASSUME NEW k \in Nodes, NEW m \in Nodes PROVE notified'[m] >= Passed[at'[k]]
  <2>1. notified[m] >= Passed[at[k]] /\ notified'[m] >= notified[m]
        /\ notified[m] \in Nat /\ notified'[m] \in Nat /\ Passed[at[k]] \in Nat
    BY <1>3, Counts DEF BarriersHold
  <2>2. CASE at'[k] = at[k] \/ Passed[at'[k]] = Passed[at[k]]
    BY <2>1, <2>2
  <2>3. CASE k = n /\ AllNotified(n) /\ Passed[to] = Given[at[n]]
    <3>1. notified[m] >= notified[n]
      BY <2>3 DEF AllNotified
    <3>2. notified[n] = Given[at[n]] /\ at'[k] = to
      BY <1>1, <2>3 DEF BarriersHold
    <3> QED
      BY <2>1, <2>3, <3>1, <3>2
  <2> QED
    BY <1>1, <2>2, <2>3
<1> QED
  BY <1>2, <1>3, <1>4, <1>5 DEF BarriersHold

-----------------------------------------------------------------------------
(* Steps of the nodes *)

Before == {"init", "published", "fetching"}

(* A node that has all addresses goes on. *)
LEMMA AfterStart ==
  ASSUME NodeInv, NEW n \in Nodes, NEW to \in States \ Before,
         at[n] \notin Before, at' = [at EXCEPT ![n] = to],
         \/ Notify(n) /\ Given[to] = Given[at[n]] + 1 /\ Passed[to] = Passed[at[n]]
         \/ UNCHANGED notified /\ Given[to] = Given[at[n]] /\ Passed[to] = Passed[at[n]]
         \/ UNCHANGED notified /\ Given[to] = Given[at[n]]
            /\ AllNotified(n) /\ Passed[to] = Given[at[n]],
         at[n] = "up" => \A r \in requests : r.from # n,
         UNCHANGED <<segment, peer_ctx_table, requests>>
  PROVE  NodeInv'
<1> USE DEF NodeInv, Before
<1>1. BarriersHold' /\ at' \in [Nodes -> States] /\ notified' \in [Nodes -> Nat]
  BY GoesOn
<1>2. NodeShape'
  BY <1>1 DEF NodeShape
<1>3. \A m \in Nodes : at'[m] = IF m = n THEN to ELSE at[m]
  BY DEF NodeShape
<1>4. AddressesTrue'
  <2> SUFFICES ASSUME NEW m \in Nodes
               PROVE  /\ at'[m] # "init" => segment[m] = m
                      /\ at'[m] \in {"init", "published"} => peer_ctx_table[m] = <<>>
                      /\ at'[m] = "fetching" => Len(peer_ctx_table[m]) < N
                      /\ at'[m] \notin Before => Len(peer_ctx_table[m]) = N
                      /\ \A k \in 1 .. Len(peer_ctx_table[m]) : peer_ctx_table[m][k] = k - 1
    BY DEF AddressesTrue
  <2>1. CASE m = n
    BY <1>3, <2>1 DEF AddressesTrue
  <2>2. CASE m # n
    BY <1>3, <2>2 DEF AddressesTrue
  <2> QED
    BY <2>1, <2>2
<1>5. AskersUp'
  BY <1>3 DEF AskersUp
<1> QED
  BY <1>1, <1>2, <1>4, <1>5

LEMMA StepAfterStart ==
  ASSUME NodeInv, NEW n \in Nodes,
         \/ Fetched(n) \/ MakeRegistry(n) \/ Meet(n) \/ Met(n) \/ Part(n) \/ Parted(n) \/ Ends(n)
  PROVE  NodeInv'
<1> USE Counts DEF Moves, Before, States
<1>1. CASE Fetched(n)
  BY <1>1, AfterStart DEF Fetched
<1>2. CASE MakeRegistry(n)
  BY <1>2, AfterStart DEF MakeRegistry
<1>3. CASE Meet(n)
  <2>1. IF Meets THEN Own = 1 /\ Notify(n) ELSE Own = 0 /\ UNCHANGED notified
    BY <1>3 DEF Meet, MaybeNotify, Own
  <2>2. \/ Notify(n) /\ Given["meet"] = Given[at[n]] + 1 /\ Passed["meet"] = Passed[at[n]]
        \/ UNCHANGED notified /\ Given["meet"] = Given[at[n]] /\ Passed["meet"] = Passed[at[n]]
    BY <1>3, <2>1 DEF Meet
  <2> QED
    BY <1>3, <2>2, AfterStart DEF Meet
<1>4. CASE Met(n)
  <2>1. UNCHANGED notified
    BY <1>4 DEF Met
  <2>2. \/ Given["up"] = Given[at[n]] /\ Passed["up"] = Passed[at[n]]
        \/ Given["up"] = Given[at[n]] /\ AllNotified(n) /\ Passed["up"] = Given[at[n]]
    BY <1>4 DEF Met, Own
  <2> QED
    BY <1>4, <2>1, <2>2, AfterStart DEF Met
<1>5. CASE Part(n)
  <2>1. IF Meets THEN Own = 1 /\ Notify(n) ELSE Own = 0 /\ UNCHANGED notified
    BY <1>5 DEF Part, MaybeNotify, Own
  <2>2. \/ Notify(n) /\ Given["part"] = Given[at[n]] + 1 /\ Passed["part"] = Passed[at[n]]
        \/ UNCHANGED notified /\ Given["part"] = Given[at[n]] /\ Passed["part"] = Passed[at[n]]
    BY <1>5, <2>1 DEF Part
  <2> QED
    BY <1>5, <2>2, AfterStart DEF Part
<1>6. CASE Parted(n)
  <2>1. UNCHANGED notified
    BY <1>6 DEF Parted
  <2>2. \/ Given["done"] = Given[at[n]] /\ Passed["done"] = Passed[at[n]]
        \/ Given["done"] = Given[at[n]] /\ AllNotified(n) /\ Passed["done"] = Given[at[n]]
    BY <1>6 DEF Parted, Own
  <2> QED
    BY <1>6, <2>1, <2>2, AfterStart DEF Parted
<1>7. CASE Free(n)
  BY <1>7, AfterStart DEF Free
<1>8. CASE Leave(n)
  <2>1. Notify(n) /\ Given["leaving"] = Given[at[n]] + 1 /\ Passed["leaving"] = Passed[at[n]]
    BY <1>8 DEF Leave
  <2> QED
    BY <1>8, <2>1, AfterStart DEF Leave
<1>9. CASE Exit(n)
  BY <1>9, AfterStart DEF Exit
<1> QED
  BY <1>1, <1>2, <1>3, <1>4, <1>5, <1>6, <1>7, <1>8, <1>9 DEF Ends

LEMMA StepPublish ==
  ASSUME NodeInv, NEW n \in Nodes, Publish(n)
  PROVE  NodeInv'
<1> USE DEF NodeInv, Publish, Moves
<1>1. BarriersHold' /\ at' \in [Nodes -> States] /\ notified' \in [Nodes -> Nat]
  <2>1. "published" \in States /\ at[n] = "init" /\ at' = [at EXCEPT ![n] = "published"]
    BY DEF States
  <2>2. Given["published"] = Given[at[n]] + 1 /\ Passed["published"] = Passed[at[n]]
    BY <2>1, Counts
  <2> QED
    BY <2>1, <2>2, GoesOn
<1>2. NodeShape'
  BY <1>1 DEF NodeShape
<1>3. \A m \in Nodes : at'[m] = (IF m = n THEN "published" ELSE at[m])
                       /\ segment'[m] = IF m = n THEN n ELSE segment[m]
  BY DEF NodeShape
<1>4. AddressesTrue'
  <2> SUFFICES ASSUME NEW m \in Nodes
               PROVE  /\ at'[m] # "init" => segment'[m] = m
                      /\ at'[m] \in {"init", "published"} => peer_ctx_table[m] = <<>>
                      /\ at'[m] = "fetching" => Len(peer_ctx_table[m]) < N
                      /\ at'[m] \notin Before => Len(peer_ctx_table[m]) = N
                      /\ \A k \in 1 .. Len(peer_ctx_table[m]) : peer_ctx_table[m][k] = k - 1
    BY DEF AddressesTrue, Before
  <2>1. CASE m = n
    BY <1>3, <2>1 DEF AddressesTrue, Before
  <2>2. CASE m # n
    BY <1>3, <2>2 DEF AddressesTrue, Before
  <2> QED
    BY <2>1, <2>2
<1>5. AskersUp'
  BY <1>3 DEF AskersUp
<1> QED
  BY <1>1, <1>2, <1>4, <1>5

LEMMA StepPublished ==
  ASSUME NodeInv, NEW n \in Nodes, Published(n)
  PROVE  NodeInv'
<1> USE DEF NodeInv, Published, Moves
<1>1. BarriersHold' /\ at' \in [Nodes -> States] /\ notified' \in [Nodes -> Nat]
  <2>1. "fetching" \in States /\ at[n] = "published" /\ at' = [at EXCEPT ![n] = "fetching"]
    BY DEF States
  <2>2. UNCHANGED notified /\ AllNotified(n)
    OBVIOUS
  <2>3. Given["fetching"] = Given[at[n]] /\ Passed["fetching"] = Given[at[n]]
    BY <2>1, Counts
  <2> QED
    BY <2>1, <2>2, <2>3, GoesOn
<1>2. NodeShape'
  BY <1>1 DEF NodeShape
<1>3. \A m \in Nodes : at'[m] = IF m = n THEN "fetching" ELSE at[m]
  BY DEF NodeShape
<1>4. AddressesTrue'
  <2> SUFFICES ASSUME NEW m \in Nodes
               PROVE  /\ at'[m] # "init" => segment[m] = m
                      /\ at'[m] \in {"init", "published"} => peer_ctx_table[m] = <<>>
                      /\ at'[m] = "fetching" => Len(peer_ctx_table[m]) < N
                      /\ at'[m] \notin Before => Len(peer_ctx_table[m]) = N
                      /\ \A k \in 1 .. Len(peer_ctx_table[m]) : peer_ctx_table[m][k] = k - 1
    BY DEF AddressesTrue, Before
  <2>1. CASE m = n
    <3>1. Len(peer_ctx_table[n]) = 0 /\ 0 < N
      BY NodeAssumption DEF AddressesTrue
    <3> QED
      BY <1>3, <2>1, <3>1 DEF AddressesTrue, Before
  <2>2. CASE m # n
    BY <1>3, <2>2 DEF AddressesTrue, Before
  <2> QED
    BY <2>1, <2>2
<1>5. AskersUp'
  BY <1>3 DEF AskersUp
<1> QED
  BY <1>1, <1>2, <1>4, <1>5

LEMMA StepFetch ==
  ASSUME NodeInv, NEW n \in Nodes, Fetch(n)
  PROVE  NodeInv'
<1> DEFINE p == peer_ctx_table[n]
           next == Len(p)
           q == Append(p, segment[next])
           to == IF next + 1 = N THEN "fetched" ELSE "fetching"
<1>1. p \in Seq(Nodes \cup {NULL}) /\ next \in Nat /\ next < N /\ next \in Nodes
  BY LenProperties, NodeAssumption DEF Fetch, NodeInv, NodeShape, AddressesTrue, Nodes
<1>2. segment[next] = next
  <2>1. notified[next] >= Passed[at[n]] /\ notified[next] = Given[at[next]]
    BY <1>1 DEF NodeInv, BarriersHold
  <2>2. at[n] = "fetching"
    BY DEF Fetch
  <2>3. at[next] # "init"
    BY <2>1, <2>2, Counts
  <2> QED
    BY <1>1, <2>3 DEF NodeInv, AddressesTrue
<1>3. /\ q \in Seq(Nodes \cup {NULL}) /\ Len(q) = next + 1
      /\ \A k \in 1 .. next : q[k] = p[k]
      /\ q[next + 1] = next
  BY <1>1, <1>2, AppendProperties
<1>4. \A k \in 1 .. Len(q) : q[k] = k - 1
  <2> SUFFICES ASSUME NEW k \in 1 .. Len(q) PROVE q[k] = k - 1
    OBVIOUS
  <2>1. CASE k \in 1 .. next
    BY <1>3, <2>1 DEF NodeInv, AddressesTrue
  <2>2. CASE k = next + 1
    BY <1>1, <1>3, <2>2
  <2> QED
    BY <1>1, <1>3, <2>1, <2>2
<1>5. /\ at[n] = "fetching" /\ to \in States /\ at' = [at EXCEPT ![n] = to]
      /\ peer_ctx_table' = [peer_ctx_table EXCEPT ![n] = q]
      /\ UNCHANGED <<segment, requests>>
      /\ \/ to = "fetching" /\ UNCHANGED notified
         \/ to = "fetched" /\ Notify(n)
  BY <1>1 DEF Fetch, NodeInv, NodeShape, States
<1>6. to = "fetched" <=> next + 1 = N
  OBVIOUS
<1> HIDE DEF p, next, q, to
<1>7. BarriersHold' /\ at' \in [Nodes -> States] /\ notified' \in [Nodes -> Nat]
  <2>1. CASE to = "fetching" /\ UNCHANGED notified
    <3>1. Given[to] = Given[at[n]] /\ Passed[to] = Passed[at[n]]
      BY <1>5, <2>1
    <3> QED
      BY <1>5, <2>1, <3>1, GoesOn DEF NodeInv
  <2>2. CASE to = "fetched" /\ Notify(n)
    <3>1. Given[to] = Given[at[n]] + 1 /\ Passed[to] = Passed[at[n]]
      BY <1>5, <2>2, Counts
    <3> QED
      BY <1>5, <2>2, <3>1, GoesOn DEF NodeInv
  <2> QED
    BY <1>5, <2>1, <2>2
<1>8. NodeShape'
  BY <1>3, <1>5, <1>7 DEF NodeInv, NodeShape
<1>9. \A m \in Nodes : at'[m] = (IF m = n THEN to ELSE at[m])
                       /\ peer_ctx_table'[m] = IF m = n THEN q ELSE peer_ctx_table[m]
  BY <1>5 DEF NodeInv, NodeShape
<1>10. AddressesTrue'
  <2> SUFFICES ASSUME NEW m \in Nodes
               PROVE  /\ at'[m] # "init" => segment[m] = m
                      /\ at'[m] \in {"init", "published"} => peer_ctx_table'[m] = <<>>
                      /\ at'[m] = "fetching" => Len(peer_ctx_table'[m]) < N
                      /\ at'[m] \notin Before => Len(peer_ctx_table'[m]) = N
                      /\ \A k \in 1 .. Len(peer_ctx_table'[m]) : peer_ctx_table'[m][k] = k - 1
    BY <1>5 DEF AddressesTrue, Before
  <2>1. CASE m = n
    <3>1. at'[m] = to /\ peer_ctx_table'[m] = q /\ segment[m] = m
      BY <1>5, <1>9, <2>1 DEF NodeInv, AddressesTrue
    <3>2. to = "fetching" => next + 1 < N
      BY <1>1, <1>6, NodeAssumption
    <3> QED
      BY <1>3, <1>4, <1>5, <1>6, <3>1, <3>2 DEF Before
  <2>2. CASE m # n
    <3>1. at'[m] = at[m] /\ peer_ctx_table'[m] = peer_ctx_table[m]
      BY <1>9, <2>2
    <3> QED
      BY <3>1 DEF NodeInv, AddressesTrue, Before
  <2> QED
    BY <2>1, <2>2
<1>11. AskersUp'
  <2>1. \A r \in requests : r.from # n
    BY <1>5 DEF NodeInv, AskersUp
  <2> QED
    BY <1>5, <1>9, <2>1 DEF NodeInv, AskersUp
<1> QED
  BY <1>7, <1>8, <1>10, <1>11 DEF NodeInv

LEMMA StepConnect ==
  ASSUME NodeInv, NEW n \in Nodes, NEW m \in Nodes, Connect(n, m)
  PROVE  NodeInv'
<1>1. BarriersHold' /\ AddressesTrue'
  BY DEF Connect, nodes, NodeInv, BarriersHold, AddressesTrue
<1>2. peer_ctx_table[n][m + 1] = m
  <2>1. Len(peer_ctx_table[n]) = N /\ m + 1 \in 1 .. N /\ (m + 1) - 1 = m
    BY NodeAssumption DEF Connect, NodeInv, AddressesTrue, Nodes
  <2>2. peer_ctx_table[n][m + 1] = (m + 1) - 1
    BY <2>1 DEF NodeInv, AddressesTrue
  <2> QED
    BY <2>1, <2>2
<1>3. AskersUp'
  BY <1>2 DEF Connect, nodes, NodeInv, AskersUp
<1>4. NodeShape'
  <2>1. [from |-> n, to |-> m, ctx |-> m] \in [from : Nodes, to : Nodes, ctx : Nodes \cup {NULL}]
    OBVIOUS
  <2> QED
    BY <1>2, <2>1 DEF Connect, nodes, NodeInv, NodeShape
<1> QED
  BY <1>1, <1>3, <1>4 DEF NodeInv

LEMMA StepElse ==
  ASSUME NodeInv, Serve \/ Over \/ UNCHANGED allVars \/ \E r \in requests : OnConnect(r)
  PROVE  NodeInv'
<1>1. UNCHANGED nodes /\ requests' \subseteq requests
  BY DEF Serve, Over, OnConnect, allVars
<1>2. NodeShape' /\ BarriersHold' /\ AddressesTrue'
  BY <1>1 DEF nodes, NodeInv, NodeShape, BarriersHold, AddressesTrue
<1>3. AskersUp'
  BY <1>1 DEF nodes, NodeInv, AskersUp
<1> QED
  BY <1>2, <1>3 DEF NodeInv

-----------------------------------------------------------------------------
(* The nodes of a job *)

THEOREM NodeInvariant == NodeSpec => []NodeInv
<1>1. ASSUME NodeInv, [NodeNext /\ OneAtATime']_allVars PROVE NodeInv'
  <2>1. ASSUME NEW n \in Nodes, Starts(n) PROVE NodeInv'
    BY <1>1, <2>1, StepPublish, StepPublished, StepFetch, StepAfterStart DEF Starts
  <2>2. ASSUME NEW n \in Nodes, Meet(n) \/ Met(n) \/ Part(n) \/ Parted(n) \/ Ends(n) PROVE NodeInv'
    BY <1>1, <2>2, StepAfterStart
  <2>3. ASSUME NEW n \in Nodes, NEW m \in Nodes, Connect(n, m) PROVE NodeInv'
    BY <1>1, <2>3, StepConnect
  <2> QED
    BY <1>1, <2>1, <2>2, <2>3, StepElse DEF NodeNext
<1> QED
  BY <1>1, NodeInitInv, PTL DEF NodeSpec

(* Every node leaves the exchange with the address of every context, in the *)
(* order of the nodes, whatever the order in which they start.              *)
THEOREM PeersAreKnown == NodeSpec => []PeersKnown
<1>1. NodeInv => PeersKnown
  <2> SUFFICES ASSUME NodeInv, NEW n \in Nodes, Started(n)
               PROVE  peer_ctx_table[n] = [k \in 1 .. N |-> k - 1]
    BY DEF PeersKnown
  <2>1. Len(peer_ctx_table[n]) = N /\ peer_ctx_table[n] \in Seq(Nodes \cup {NULL})
    BY DEF NodeInv, AddressesTrue, NodeShape, Started
  <2>2. \A k \in 1 .. N : peer_ctx_table[n][k] = k - 1
    BY <2>1 DEF NodeInv, AddressesTrue
  <2>3. peer_ctx_table[n] \in [1 .. N -> Nodes \cup {NULL}]
    BY <2>1, LenProperties
  <2> QED
    BY <2>2, <2>3
<1> QED
  BY <1>1, NodeInvariant, PTL

(* With a barrier of the program's own before its first connect and after   *)
(* its last, a connection request never comes to a node whose registry is   *)
(* not made yet or freed already; hctx_new's and hctx_destroy's barriers do *)
(* not see to that.                                                         *)
THEOREM RegistryIsThere ==
  ASSUME Meets
  PROVE  NodeSpec => []RegistryThere
<1>1. NodeInv => RegistryThere
  <2> SUFFICES ASSUME NodeInv, NEW r \in requests
               PROVE  r.ctx = r.to /\ at[r.to] \in {"ready", "meet", "up", "part", "done"}
    BY DEF RegistryThere
  <2>1. r.from \in Nodes /\ at[r.from] = "up" /\ r.to \in Nodes /\ r.ctx = r.to
    BY DEF NodeInv, AskersUp
  <2>2. Own = 1
    BY DEF Own
  <2>3. notified[r.to] >= 3 /\ notified[r.to] = Given[at[r.to]]
    BY <2>1, <2>2, Counts DEF NodeInv, BarriersHold
  <2>4. Passed[at[r.to]] <= 3
    <3>1. notified[r.from] >= Passed[at[r.to]] /\ notified[r.from] = Given["up"]
      BY <2>1 DEF NodeInv, BarriersHold
    <3>2. Given["up"] = 3 /\ Passed[at[r.to]] \in Nat
      BY <2>1, <2>2, Counts DEF NodeInv, NodeShape
    <3> QED
      BY <3>1, <3>2
  <2>5. at[r.to] \in States
    BY <2>1 DEF NodeInv, NodeShape
  <2>6. at[r.to] \in {"meet", "up", "part"}
    BY <2>2, <2>3, <2>4, <2>5, Counts DEF States
  <2> QED
    BY <2>1, <2>6
<1> QED
  BY <1>1, NodeInvariant, PTL

(* The registry of the home node is as HCtx has it, in every job. *)
THEOREM NodeRegistry == NodeSpec => [](StatusTrue /\ NoIdLost /\ EndpointsLeadHome)
  BY NodesImplementRegistry, StatusIsTrue, NoIdIsLost, EndpointsAllLeadHome, PTL

(* The types; no node notifies more than five barriers. *)
THEOREM NodeTypes == NodeSpec => []NodeTypeOK
<1>1. NodeInv /\ RegInv => NodeTypeOK
  <2> SUFFICES ASSUME NodeInv, RegInv PROVE NodeTypeOK
    OBVIOUS
  <2>1. \A n \in Nodes : notified[n] \in 0 .. 5
    BY Counts DEF NodeInv, NodeShape, BarriersHold, States
  <2>2. notified \in [Nodes -> 0 .. 5]
    BY <2>1 DEF NodeInv, NodeShape
  <2> QED
    BY <2>2 DEF NodeTypeOK, NodeInv, NodeShape, States, RegInv
<1> QED
  BY <1>1, NodeInvariant, NodesImplementRegistry, RegInvariant, PTL

(***************************************************************************)
(* A node that stands at a barrier of hctx.c (70, 77, 119) or at one of    *)
(* the program's.                                                          *)
(***************************************************************************)
WaitsAtBarrier(n) ==
  at[n] \in {"published", "fetched", "leaving"} \/ (Meets /\ at[n] \in {"meet", "part"})

SomeBarrierOpen ==
  \/ \A n \in Nodes : at[n] = "gone"
  \/ \E n \in Nodes : at[n] # "gone" /\ (WaitsAtBarrier(n) => AllNotified(n))

(* The nodes never all wait for each other: until the job is over there is  *)
(* one that is at no barrier, or at one that every node has notified.  So   *)
(* each node comes to as many barriers as the others, whatever the order in *)
(* which they start and end.                                                *)
THEOREM BarriersOpen == NodeSpec => []SomeBarrierOpen
<1>1. NodeInv => SomeBarrierOpen
  <2> SUFFICES ASSUME NodeInv, NEW g \in Nodes, at[g] # "gone"
               PROVE  \E n \in Nodes : at[n] # "gone" /\ (WaitsAtBarrier(n) => AllNotified(n))
    BY DEF SomeBarrierOpen
  <2>1. \A n \in Nodes : notified[n] \in Nat /\ notified[n] = Given[at[n]] /\ at[n] \in States
    BY DEF NodeInv, NodeShape, BarriersHold
  <2>2. PICK n \in Nodes : AllNotified(n)
    <3> DEFINE S == {notified[n] : n \in Nodes}
    <3>1. S \subseteq Nat /\ S # {}
      BY <2>1
    <3>2. PICK k \in S : \A j \in S : k <= j
      BY <3>1, LeastNumber
    <3>3. PICK n \in Nodes : k = notified[n]
      BY <3>2
    <3>4. \A m \in Nodes : notified[m] >= notified[n]
      BY <2>1, <3>2, <3>3
    <3> QED
      BY <3>4 DEF AllNotified
  <2>3. CASE at[n] # "gone"
    BY <2>2, <2>3
  <2>4. CASE at[n] = "gone"
    <3>1. \A m \in Nodes : notified[m] <= Given["gone"]
      BY <2>1, Counts DEF States
    <3>2. \A m \in Nodes : notified[m] >= Given["gone"]
      BY <2>1, <2>2, <2>4 DEF AllNotified
    <3>3. Given["gone"] \in Nat
      BY Counts
    <3>4. \A m \in Nodes : notified[m] = Given["gone"]
      BY <2>1, <3>1, <3>2, <3>3
    <3>5. AllNotified(g)
      BY <3>3, <3>4 DEF AllNotified
    <3> QED
      BY <3>5
  <2> QED
    BY <2>3, <2>4
<1> QED
  BY <1>1, NodeInvariant, PTL

-----------------------------------------------------------------------------
(* The hash table                                                           *)
(*                                                                          *)
(* The library's induction theorems take operators, which no prover here    *)
(* can instantiate.  What needs an induction is proved from LeastNumber     *)
(* instead: a least number for which it fails cannot be.                    *)

Odd(n) == n % 2 = 1

(* Every divisor is 1 or even. *)
PowerOfTwo(n) == n \in Nat \ {0} /\ \A d, q \in Nat : d * q = n => d = 1 \/ ~Odd(d)

(* A number is twice another, or twice another and one. *)
LEMMA Halves ==
  ASSUME NEW n \in Nat
  PROVE  \E h \in Nat : n = IF Odd(n) THEN 2 * h + 1 ELSE 2 * h
<1>1. n = 2 * (n \div 2) + (n % 2) /\ n \div 2 \in Nat /\ n % 2 \in {0, 1}
  OBVIOUS
<1> QED
  BY <1>1 DEF Odd

LEMMA Parity ==
  ASSUME NEW n \in Nat
  PROVE  /\ ~Odd(2 * n)
         /\ Odd(2 * n + 1)
BY DEF Odd

LEMMA OddTimesOdd ==
  ASSUME NEW a \in Nat, NEW b \in Nat, Odd(a), Odd(b)
  PROVE  Odd(a * b)
<1>1. PICK g \in Nat : a = 2 * g + 1
  BY Halves
<1>2. PICK h \in Nat : b = 2 * h + 1
  BY Halves
<1>3. a * b = 2 * (2 * (g * h) + g + h) + 1
  BY <1>1, <1>2
<1>4. 2 * (g * h) + g + h \in Nat
  OBVIOUS
<1> QED
  BY <1>3, <1>4, Parity

(* kh_resize doubles the buckets. *)
LEMMA Doubling ==
  ASSUME NEW n, PowerOfTwo(n)
  PROVE  PowerOfTwo(2 * n)
<1> SUFFICES ASSUME NEW d \in Nat, NEW q \in Nat, d * q = 2 * n, Odd(d) PROVE d = 1
  BY DEF PowerOfTwo
<1>1. ~Odd(q)
  BY OddTimesOdd, Parity DEF PowerOfTwo
<1>2. PICK p \in Nat : q = 2 * p
  BY <1>1, Halves
<1>3. d * q = 2 * (d * p)
  BY <1>2
<1>4. d * p = n
  BY <1>3 DEF PowerOfTwo
<1> QED
  BY <1>4 DEF PowerOfTwo

LEMMA Halving ==
  ASSUME NEW n, PowerOfTwo(n), n # 1
  PROVE  \E m \in Nat : m < n /\ n = 2 * m /\ PowerOfTwo(m)
<1>1. n \in Nat \ {0} /\ ~Odd(n)
  BY DEF PowerOfTwo
<1>2. PICK m \in Nat : n = 2 * m
  BY <1>1, Halves
<1>3. ASSUME NEW d \in Nat, NEW q \in Nat, d * q = m PROVE d = 1 \/ ~Odd(d)
  <2>1. d * (2 * q) = 2 * (d * q)
    OBVIOUS
  <2> QED
    BY <1>2, <1>3, <2>1 DEF PowerOfTwo
<1> QED
  BY <1>1, <1>2, <1>3 DEF PowerOfTwo

(* A power of two that divides a product divides the one factor if the     *)
(* other is odd.                                                            *)
LEMMA OddFactor ==
  ASSUME NEW n, PowerOfTwo(n), NEW a \in Nat, NEW b \in Nat, NEW q \in Nat,
         Odd(a), a * b = n * q
  PROVE  \E r \in Nat : b = n * r
<1> DEFINE Good(m) == \A c, p \in Nat : a * c = m * p => \E r \in Nat : c = m * r
           Bad == {m \in Nat : PowerOfTwo(m) /\ ~Good(m)}
<1>1. SUFFICES ASSUME Bad # {} PROVE FALSE
  <2>1. Good(n)
    BY <1>1 DEF PowerOfTwo
  <2> QED
    BY <2>1
<1>2. PICK m \in Bad : \A k \in Bad : m <= k
  BY <1>1, LeastNumber
<1>3. m # 1
  <2>1. Good(1)
    OBVIOUS
  <2> QED
    BY <1>2, <2>1
<1>4. PICK h \in Nat : h < m /\ m = 2 * h /\ PowerOfTwo(h)
  BY <1>2, <1>3, Halving
<1>5. Good(h)
  <2> HIDE DEF Good
  <2>1. h \notin Bad
    BY <1>2, <1>4
  <2> QED
    BY <1>4, <2>1
<1>6. ASSUME NEW c \in Nat, NEW p \in Nat, a * c = m * p PROVE \E r \in Nat : c = m * r
  <2>1. m * p = 2 * (h * p) /\ h * p \in Nat
    BY <1>4
  <2>2. ~Odd(c)
    BY ZenonT(40), <1>6, <2>1, OddTimesOdd, Parity
  <2>3. PICK d \in Nat : c = 2 * d
    BY <2>2, Halves
  <2>4. a * c = 2 * (a * d) /\ a * d \in Nat
    BY <2>3
  <2>5. a * d = h * p
    BY <1>6, <2>1, <2>4
  <2>6. PICK r \in Nat : d = h * r
    BY <1>5, <2>5
  <2>7. m * r = 2 * (h * r)
    BY <1>4
  <2> QED
    BY <2>3, <2>6, <2>7
<1> QED
  BY <1>2, <1>6

-----------------------------------------------------------------------------
(* The way of a key *)

Triangle(s) == (s * (s + 1)) \div 2

LEMMA Triangles ==
  ASSUME NEW s \in Nat
  PROVE  Triangle(s) \in Nat /\ 2 * Triangle(s) = s * (s + 1)
<1>1. PICK h \in Nat : s * (s + 1) = 2 * h
  <2>1. PICK g \in Nat : s = 2 * g \/ s = 2 * g + 1
    BY Halves
  <2>2. CASE s = 2 * g
    <3>1. s * (s + 1) = 2 * (g * (s + 1)) /\ g * (s + 1) \in Nat
      BY <2>2
    <3> QED
      BY <3>1
  <2>3. CASE s = 2 * g + 1
    <3>1. s * (s + 1) = 2 * (s * (g + 1)) /\ s * (g + 1) \in Nat
      BY <2>3
    <3> QED
      BY <3>1
  <2> QED
    BY <2>1, <2>2, <2>3
<1>2. Triangle(s) = h
  <2>1. (2 * h) \div 2 = h
    OBVIOUS
  <2> QED
    BY <1>1, <2>1 DEF Triangle
<1> QED
  BY <1>1, <1>2

LEMMA DivMod ==
  ASSUME NEW n \in Nat \ {0}, NEW x \in Nat
  PROVE  x % n \in 0 .. n - 1 /\ \E a \in Nat : x % n = x - n * a
<1>1. x % n = x - n * (x \div n)
  OBVIOUS
<1>2. x \div n \in Nat /\ x % n \in 0 .. n - 1
  OBVIOUS
<1> QED
  BY <1>1, <1>2

(* Equal remainders: the difference is a multiple. *)
LEMMA Congruent ==
  ASSUME NEW n \in Nat \ {0}, NEW x \in Nat, NEW y \in Nat, x <= y, x % n = y % n
  PROVE  \E q \in Nat : y - x = n * q
<1>1. PICK a \in Nat : x % n = x - n * a
  BY DivMod
<1>2. PICK b \in Nat : y % n = y - n * b
  BY DivMod
<1>3. n * a \in Nat /\ n * b \in Nat
  OBVIOUS
<1>4. y - x = n * b - n * a
  BY <1>1, <1>2, <1>3
<1>5. n * b - n * a = n * (b - a)
  OBVIOUS
<1>6. b - a \in Nat
  <2> SUFFICES ASSUME b - a <= -1 PROVE FALSE
    OBVIOUS
  <2>1. n * (b - a) <= n * (-1)
    OBVIOUS
  <2> QED
    BY <1>3, <1>4, <1>5, <2>1
<1> QED
  BY <1>4, <1>5, <1>6

LEMMA ProbeType ==
  ASSUME NEW n \in Nat \ {0}, NEW key \in Nat, NEW s \in Nat
  PROVE  Probe(n, key, s) = (key + Triangle(s)) % n /\ Probe(n, key, s) \in Buckets(n)
<1>1. Probe(n, key, s) = (key + Triangle(s)) % n
  BY DEF Probe, Triangle
<1>2. key + Triangle(s) \in Nat
  BY Triangles
<1>3. (key + Triangle(s)) % n \in 0 .. n - 1
  BY <1>2
<1> QED
  BY <1>1, <1>3 DEF Buckets

(* With as many buckets as a power of two the first n probes are different. *)
LEMMA ProbesDiffer ==
  ASSUME NEW n, PowerOfTwo(n), NEW key \in Nat, NEW l \in 0 .. n - 1, NEW m \in 0 .. n - 1,
         l < m
  PROVE  Probe(n, key, l) # Probe(n, key, m)
<1> SUFFICES ASSUME Probe(n, key, l) = Probe(n, key, m) PROVE FALSE
  OBVIOUS
<1>1. n \in Nat \ {0} /\ l \in Nat /\ m \in Nat
  BY DEF PowerOfTwo
<1> DEFINE a == m - l
           b == l + m + 1
<1>0. PICK u, v : u = Triangle(l) /\ v = Triangle(m)
  OBVIOUS
<1>d. /\ u \in Nat /\ 2 * u = l * (l + 1)
      /\ v \in Nat /\ 2 * v = m * (m + 1)
  BY <1>0, <1>1, Triangles
<1>2. 2 * v - 2 * u = a * b
  <2>1. m * (m + 1) - l * (l + 1) = a * b
    BY <1>1
  <2> QED
    BY <1>d, <2>1
<1>a. a * b \in Nat /\ a \in 1 .. 2 * n - 1 /\ b \in 1 .. 2 * n - 1
  BY <1>1
<1>b. Odd(a) \/ Odd(b)
  <2>1. a + b = 2 * m + 1
    BY <1>1
  <2>2. a + b \in Nat /\ Odd(a + b)
    BY <1>1, <2>1, Parity
  <2>3. CASE ~Odd(a) /\ ~Odd(b)
    <3>1. PICK g, h \in Nat : a = 2 * g /\ b = 2 * h
      BY <1>a, <2>3, Halves
    <3>2. a + b = 2 * (g + h) /\ g + h \in Nat
      BY <3>1
    <3> QED
      BY <2>2, <3>2, Parity
  <2> QED
    BY <2>3
<1> HIDE DEF a, b
<1>3. PICK q \in Nat : a * b = (2 * n) * q
  <2>1. u <= v
    BY <1>d, <1>2, <1>a
  <2>2. (key + u) % n = (key + v) % n
    BY <1>0, <1>1, ProbeType
  <2>3. PICK q \in Nat : (key + v) - (key + u) = n * q
    <3>1. key + u \in Nat /\ key + v \in Nat /\ key + u <= key + v
      BY <1>d, <2>1
    <3> QED
      BY <1>1, <2>2, <3>1, Congruent
  <2>4. v - u = n * q
    BY <1>1, <1>d, <2>3
  <2>5. 2 * (n * q) = (2 * n) * q
    BY <1>1
  <2>6. 2 * v - 2 * u = 2 * (n * q)
    BY <1>1, <1>d, <2>4
  <2> QED
    BY <1>2, <2>5, <2>6
<1>4. PowerOfTwo(2 * n)
  BY Doubling
<1>5. \A r \in Nat : (2 * n) * r \notin 1 .. 2 * n - 1
  <2> SUFFICES ASSUME NEW r \in Nat PROVE (2 * n) * r \notin 1 .. 2 * n - 1
    OBVIOUS
  <2>1. CASE r = 0
    BY <1>1, <2>1
  <2>2. CASE r >= 1
    <3>1. (2 * n) * r >= (2 * n) * 1
      BY <1>1, <2>2
    <3> QED
      BY <1>1, <3>1
  <2> QED
    BY <2>1, <2>2
<1>c. a \in Nat /\ b \in Nat
  BY <1>1, <1>a
<1>6. CASE Odd(a)
  <2>1. PICK r \in Nat : b = (2 * n) * r
    BY <1>3, <1>4, <1>6, <1>c, OddFactor
  <2> QED
    BY <1>a, <1>5, <2>1
<1>7. CASE Odd(b)
  <2>1. b * a = (2 * n) * q
    BY <1>3, <1>c
  <2>2. PICK r \in Nat : a = (2 * n) * r
    BY <1>4, <1>7, <1>c, <2>1, OddFactor
  <2> QED
    BY <1>a, <1>5, <2>2
<1> QED
  BY <1>b, <1>6, <1>7

(* Quadratic probing modulo a power of two: the first n probes of a key meet *)
(* every bucket, so that a search ends in a table with a free one.          *)
THEOREM ProbesCover ==
  ASSUME NEW n, PowerOfTwo(n), NEW key \in Nat, NEW x \in Buckets(n)
  PROVE  \E s \in 0 .. n - 1 : Probe(n, key, s) = x
<1> DEFINE way == [s \in 0 .. n - 1 |-> Probe(n, key, s)]
<1>1. n \in Nat \ {0}
  BY DEF PowerOfTwo
<1>2. way \in [0 .. n - 1 -> 0 .. n - 1]
  <2>1. \A s \in 0 .. n - 1 : Probe(n, key, s) \in 0 .. n - 1
    <3> SUFFICES ASSUME NEW s \in 0 .. n - 1 PROVE Probe(n, key, s) \in 0 .. n - 1
      OBVIOUS
    <3>1. s \in Nat
      BY <1>1
    <3> QED
      BY <1>1, <3>1, ProbeType DEF Buckets
  <2> QED
    BY <2>1
<1>3. ASSUME NEW l \in 0 .. n - 1, NEW m \in 0 .. n - 1, way[l] = way[m] PROVE l = m
  BY <1>1, <1>3, ProbesDiffer
<1>4. way \in Injection(0 .. n - 1, 0 .. n - 1)
  BY <1>2, <1>3 DEF Injection, IsInjective
<1>5. IsFiniteSet(0 .. n - 1)
  BY <1>1, FS_Interval
<1>6. way \in Surjection(0 .. n - 1, 0 .. n - 1)
  BY <1>4, <1>5, FS_Injection
<1> QED
  BY <1>6 DEF Surjection, Buckets

(* A search goes to the first bucket on the way that is one of those to    *)
(* stop at.                                                                 *)
First(n, key, stops, s) ==
  Probe(n, key, s) \in stops /\ \A r \in 0 .. s - 1 : Probe(n, key, r) \notin stops

LEMMA SearchFinds ==
  ASSUME NEW n, PowerOfTwo(n), NEW key \in Nat, NEW stops \in SUBSET Buckets(n), stops # {}
  PROVE  /\ Search(n, key, stops) \in stops
         /\ \E s \in 0 .. n - 1 :
              First(n, key, stops, s) /\ Search(n, key, stops) = Probe(n, key, s)
<1> DEFINE ends == {s \in 0 .. 2 * n :
                      \/ Probe(n, key, s) \in stops
                      \/ s > 0 /\ Probe(n, key, s) = Probe(n, key, 0)}
<1>1. n \in Nat \ {0}
  BY DEF PowerOfTwo
<1>2. PICK e \in 0 .. n - 1 : Probe(n, key, e) \in stops
  BY ProbesCover
<1>3. e \in ends /\ ends \subseteq Nat
  BY <1>1, <1>2
<1>4. Least(ends) \in ends /\ \A m \in ends : Least(ends) <= m
  <2>1. \E m \in ends : \A k \in ends : m <= k
    <3> HIDE DEF ends
    <3> QED
      BY <1>3, LeastNumber
  <2> QED
    BY <2>1, Zenon DEF Least
<1> DEFINE s == Least(ends)
<1>5. s \in 0 .. n - 1
  BY <1>1, <1>2, <1>3, <1>4
<1>6. Probe(n, key, s) \in stops
  <2>1. s > 0 => Probe(n, key, 0) # Probe(n, key, s)
    BY <1>1, <1>5, ProbesDiffer
  <2> QED
    BY <1>4, <2>1
<1>7. \A r \in 0 .. s - 1 : Probe(n, key, r) \notin stops
  <2>1. \A r \in 0 .. s - 1 : r \in 0 .. 2 * n /\ ~(s <= r)
    BY <1>1, <1>5
  <2> QED
    BY <1>4, <2>1
<1>8. Search(n, key, stops) = Probe(n, key, s)
  BY <1>6 DEF Search
<1> QED
  BY <1>5, <1>6, <1>7, <1>8 DEF First

(* Buckets that are on the way no longer, or that one stops at no longer,  *)
(* do not change where a search ends that did not end there.               *)
LEMMA SearchStays ==
  ASSUME NEW n, PowerOfTwo(n), NEW key \in Nat, NEW stops \in SUBSET Buckets(n),
         NEW fewer \in SUBSET stops, NEW x \in fewer, Search(n, key, stops) = x
  PROVE  Search(n, key, fewer) = x
<1>1. n \in Nat \ {0} /\ fewer \in SUBSET Buckets(n) /\ fewer # {} /\ stops # {}
  BY DEF PowerOfTwo
<1>2. PICK s \in 0 .. n - 1 : First(n, key, stops, s) /\ Probe(n, key, s) = x
  BY <1>1, SearchFinds
<1>3. PICK t \in 0 .. n - 1 : First(n, key, fewer, t) /\ Search(n, key, fewer) = Probe(n, key, t)
  BY <1>1, SearchFinds
<1>4. ~(t < s)
  <2> SUFFICES ASSUME t < s PROVE FALSE
    OBVIOUS
  <2>1. t \in 0 .. s - 1
    BY <1>1
  <2> QED
    BY <1>2, <1>3, <2>1 DEF First
<1>5. ~(s < t)
  <2> SUFFICES ASSUME s < t PROVE FALSE
    OBVIOUS
  <2>1. s \in 0 .. t - 1
    BY <1>1
  <2> QED
    BY <1>2, <1>3, <2>1 DEF First
<1>6. s = t
  BY <1>1, <1>4, <1>5
<1> QED
  BY <1>2, <1>3, <1>6

Entry == Nat \X Int

(* What a table says. *)
Entries(h) == {h.entry[x] : x \in Used(h)}

(* A table in which every key is found where it is. *)
Intact(h) ==
  /\ h = [n_buckets |-> h.n_buckets, entry |-> h.entry]
  /\ h.n_buckets = 0 \/ (h.n_buckets >= 4 /\ PowerOfTwo(h.n_buckets))
  /\ h.n_buckets # 0 => h.entry \in [Buckets(h.n_buckets) -> Entry \cup {Empty}]
  /\ \A x \in Used(h) : Site(h, Key(h.entry[x])) = x

(* Where a search for a key stops. *)
Stops(h, key) == {x \in Buckets(h.n_buckets) : h.entry[x] = Empty \/ Key(h.entry[x]) = key}

LEMMA Pairs ==
  /\ \A e \in Entry : Key(e) \in Nat /\ e[2] \in Int /\ e = <<Key(e), e[2]>> /\ e # Empty
  /\ \A k \in Nat, v \in Int : <<k, v>> \in Entry /\ Key(<<k, v>>) = k /\ <<k, v>>[2] = v
BY DEF Entry, Key, Empty

LEMMA BucketsCounted ==
  ASSUME NEW n \in Nat
  PROVE  IsFiniteSet(Buckets(n)) /\ Cardinality(Buckets(n)) = n
<1>1. IsFiniteSet(0 .. n - 1) /\ Cardinality(0 .. n - 1) = n
  BY FS_Interval
<1> QED
  BY <1>1 DEF Buckets

(* The buckets in use are finitely many, and in them are entries. *)
LEMMA UsedFacts ==
  ASSUME NEW h, Intact(h)
  PROVE  /\ h.n_buckets \in Nat
         /\ Used(h) \subseteq Buckets(h.n_buckets)
         /\ IsFiniteSet(Used(h)) /\ Cardinality(Used(h)) \in Nat
         /\ Cardinality(Used(h)) <= h.n_buckets
         /\ Used(h) # {} => h.n_buckets >= 4 /\ PowerOfTwo(h.n_buckets)
         /\ \A x \in Used(h) : h.entry[x] \in Entry /\ x \in Nat
         /\ Cardinality(Used(h)) < h.n_buckets => Used(h) # Buckets(h.n_buckets)
<1>1. h.n_buckets \in Nat
  BY DEF Intact, PowerOfTwo
<1>2. Used(h) \subseteq Buckets(h.n_buckets) /\ Buckets(h.n_buckets) \subseteq Nat
  BY <1>1 DEF Used, Buckets
<1>3. IsFiniteSet(Buckets(h.n_buckets)) /\ Cardinality(Buckets(h.n_buckets)) = h.n_buckets
  BY <1>1, BucketsCounted
<1>4. /\ IsFiniteSet(Used(h)) /\ Cardinality(Used(h)) \in Nat
      /\ Cardinality(Used(h)) <= h.n_buckets
  BY <1>2, <1>3, FS_Subset, FS_CardinalityType
<1>5. Used(h) # {} => h.n_buckets >= 4 /\ PowerOfTwo(h.n_buckets)
  <2>1. Buckets(0) = {}
    BY DEF Buckets
  <2> QED
    BY <1>2, <2>1 DEF Intact
<1>6. \A x \in Used(h) : h.entry[x] \in Entry
  <2> SUFFICES ASSUME NEW x \in Used(h) PROVE h.entry[x] \in Entry
    OBVIOUS
  <2>1. h.n_buckets # 0
    BY <1>1, <1>5
  <2> QED
    BY <1>2, <2>1 DEF Intact, Used
<1>7. Cardinality(Used(h)) < h.n_buckets => Used(h) # Buckets(h.n_buckets)
  BY <1>1, <1>3
<1> QED
  BY <1>1, <1>2, <1>4, <1>5, <1>6, <1>7

(* No key has two buckets. *)
LEMMA OneBucket ==
  ASSUME NEW h, Intact(h), NEW x \in Used(h), NEW y \in Used(h),
         Key(h.entry[x]) = Key(h.entry[y])
  PROVE  x = y
BY DEF Intact

(* kh_get finds what is there, and says so of what is not. *)
THEOREM GetFinds ==
  ASSUME NEW h, Intact(h), NEW key \in Nat
  PROVE  /\ \A val : <<key, val>> \in Entries(h) =>
                ~absent(h, key) /\ kh_get(h, key) \in Used(h) /\ Value(h, key) = val
         /\ (\A val : <<key, val>> \notin Entries(h)) => absent(h, key)
<1>1. /\ h.n_buckets \in Nat
      /\ Used(h) \subseteq Buckets(h.n_buckets)
      /\ Used(h) # {} => h.n_buckets >= 4 /\ PowerOfTwo(h.n_buckets)
      /\ \A x \in Used(h) : h.entry[x] \in Entry
  BY UsedFacts
<1>2. ASSUME NEW val, <<key, val>> \in Entries(h)
      PROVE  ~absent(h, key) /\ kh_get(h, key) \in Used(h) /\ Value(h, key) = val
  <2>1. PICK x \in Used(h) : h.entry[x] = <<key, val>>
    BY <1>2 DEF Entries
  <2>2. Site(h, key) = x
    BY <2>1 DEF Intact, Key
  <2>3. kh_get(h, key) = x
    BY <1>1, <2>2 DEF kh_get
  <2>4. x # h.n_buckets
    BY <1>1 DEF Buckets
  <2> QED
    BY <2>1, <2>3, <2>4 DEF absent, Value
<1>3. ASSUME \A val : <<key, val>> \notin Entries(h) PROVE absent(h, key)
  <2> SUFFICES ASSUME ~absent(h, key) PROVE FALSE
    OBVIOUS
  <2>1. h.n_buckets # 0 /\ Site(h, key) \in Used(h)
    BY <1>1 DEF absent, kh_get
  <2>2. Site(h, key) \in Stops(h, key)
    <3>1. Site(h, key) # h.n_buckets
      BY <1>1, <2>1 DEF Buckets
    <3> QED
      BY <3>1 DEF Site, Search, Stops
  <2>3. Key(h.entry[Site(h, key)]) = key
    BY <2>1, <2>2 DEF Stops, Used
  <2>4. h.entry[Site(h, key)] = <<key, h.entry[Site(h, key)][2]>>
    BY <1>1, <2>1, <2>3, Pairs
  <2> QED
    BY <1>3, <2>1, <2>4 DEF Entries
<1> QED
  BY <1>2, <1>3

(* The entry of a key that is there, or that there is room for, is put     *)
(* where its search ends; the searches of the others end where they did.   *)
LEMMA EntryPut ==
  ASSUME NEW h, Intact(h), h.n_buckets # 0, NEW key \in Nat, NEW val \in Int,
         Used(h) # Buckets(h.n_buckets) \/ Site(h, key) \in Used(h),
         NEW g, g = [h EXCEPT !.entry[Site(h, key)] = <<key, val>>]
  PROVE  /\ Intact(g)
         /\ Entries(g) = {p \in Entries(h) : Key(p) # key} \cup {<<key, val>>}
         /\ Used(g) = Used(h) \cup {Site(h, key)}
<1>1. PICK n : n = h.n_buckets
  OBVIOUS
<1>2. PICK x : x = Site(h, key)
  OBVIOUS
<1>3. n >= 4 /\ PowerOfTwo(n) /\ n \in Nat
  BY <1>1, UsedFacts DEF Intact
<1>4. h.entry \in [Buckets(n) -> Entry \cup {Empty}]
  BY <1>1 DEF Intact
<1>5. Site(h, key) = Search(n, key, Stops(h, key))
  BY <1>1 DEF Site, Stops
<1>6. x \in Stops(h, key) /\ x \in Buckets(n)
  <2>1. CASE Used(h) # Buckets(n)
    <3>1. Stops(h, key) \in SUBSET Buckets(n) /\ Stops(h, key) # {}
      BY <1>1, <2>1 DEF Stops, Used
    <3> QED
      BY <1>2, <1>3, <1>5, <3>1, SearchFinds
  <2>2. CASE x \in Used(h)
    <3>1. x \in Buckets(n) /\ x # n
      BY <1>1, <1>3, <2>2 DEF Used, Buckets
    <3> QED
      BY <1>2, <1>5, <3>1 DEF Search
  <2> QED
    BY <1>1, <1>2, <2>1, <2>2
<1>7. /\ g = [n_buckets |-> g.n_buckets, entry |-> g.entry]
      /\ g.n_buckets = n
      /\ g.entry = [h.entry EXCEPT ![x] = <<key, val>>]
  BY <1>1, <1>2 DEF Intact
<1>8. g.entry \in [Buckets(n) -> Entry \cup {Empty}]
  BY ZenonT(40), <1>4, <1>7, Pairs
<1>9. g.entry[x] = <<key, val>> /\ \A y \in Buckets(n) \ {x} : g.entry[y] = h.entry[y]
  BY <1>4, <1>6, <1>7
<1>10. Used(g) = Used(h) \cup {x}
  BY <1>1, <1>6, <1>7, <1>9, Pairs DEF Used
<1>11. \A y \in Used(h) \ {x} : Key(h.entry[y]) # key
  <2> SUFFICES ASSUME NEW y \in Used(h), y # x, Key(h.entry[y]) = key PROVE FALSE
    OBVIOUS
  <2> QED
    BY <1>2 DEF Intact
<1>12. ASSUME NEW y \in Used(g) PROVE Site(g, Key(g.entry[y])) = y
  <2>1. CASE y = x
    <3>1. Key(g.entry[y]) = key
      BY <1>9, <2>1, Pairs
    <3>2. Stops(g, key) = Stops(h, key)
      BY <1>1, <1>6, <1>7, <1>9, <3>1, <2>1 DEF Stops
    <3> QED
      BY <1>2, <1>5, <1>7, <2>1, <3>1, <3>2 DEF Site, Stops
  <2>2. CASE y # x
    <3>1. y \in Used(h) /\ y \in Buckets(n) /\ g.entry[y] = h.entry[y]
      BY <1>1, <1>9, <1>10, <2>2 DEF Used
    <3>2. PICK k : k = Key(h.entry[y])
      OBVIOUS
    <3>3. k # key /\ k \in Nat
      BY <1>11, <2>2, <3>1, <3>2, UsedFacts, Pairs
    <3>4. Search(n, k, Stops(h, k)) = y
      BY <1>1, <3>1, <3>2 DEF Intact, Site, Stops
    <3>5. Stops(g, k) \in SUBSET Stops(h, k) /\ y \in Stops(g, k) /\ Stops(h, k) \in SUBSET Buckets(n)
      BY <1>1, <1>7, <1>9, <3>1, <3>2, <3>3, Pairs DEF Stops
    <3>6. Search(n, k, Stops(g, k)) = y
      BY <1>3, <3>3, <3>4, <3>5, SearchStays
    <3> QED
      BY <1>7, <3>1, <3>2, <3>6 DEF Site, Stops
  <2> QED
    BY <2>1, <2>2
<1>13. Intact(g)
  BY <1>3, <1>7, <1>8, <1>12 DEF Intact
<1>14. Entries(g) = {p \in Entries(h) : Key(p) # key} \cup {<<key, val>>}
  <2>1. ASSUME NEW p \in Entries(g) PROVE p = <<key, val>> \/ (p \in Entries(h) /\ Key(p) # key)
    <3>1. PICK y \in Used(g) : p = g.entry[y]
      BY <2>1 DEF Entries
    <3>2. CASE y = x
      <4>1. p = <<key, val>>
        BY <1>9, <3>1, <3>2
      <4> QED
        BY <4>1
    <3>3. CASE y # x
      <4>1. y \in Used(h) /\ p = h.entry[y]
        BY <1>1, <1>9, <1>10, <3>1, <3>3 DEF Used
      <4> QED
        BY <1>11, <3>3, <4>1 DEF Entries
    <3> QED
      BY <3>2, <3>3
  <2>2. <<key, val>> \in Entries(g)
    BY <1>9, <1>10 DEF Entries
  <2>3. ASSUME NEW p \in Entries(h), Key(p) # key PROVE p \in Entries(g)
    <3>1. PICK y \in Used(h) : p = h.entry[y]
      BY <2>3 DEF Entries
    <3>2. y # x
      <4> SUFFICES ASSUME y = x PROVE FALSE
        OBVIOUS
      <4> QED
        BY <1>6, <2>3, <3>1 DEF Stops, Used
    <3>3. y \in Used(g) /\ p = g.entry[y]
      BY <1>1, <1>9, <1>10, <3>1, <3>2 DEF Used
    <3> QED
      BY <3>3 DEF Entries
  <2> QED
    BY <2>1, <2>2, <2>3
<1> QED
  BY <1>2, <1>10, <1>13, <1>14

(* Between two moves of kh_resize: every entry of the table is in a bucket *)
(* to be moved, in a bucket that got its own, or in hand; no key has two    *)
(* of them; and a key is found where it has been put.                       *)
Moving(n, E, u, r) ==
  /\ r = [entry |-> r.entry, old |-> r.old, new |-> r.new, hand |-> r.hand]
  /\ r.entry \in [Buckets(n) -> Entry \cup {Empty}]
  /\ r.old \in SUBSET Buckets(n) /\ r.new \in SUBSET Buckets(n) /\ r.old \cap r.new = {}
  /\ r.hand \in Entry \cup {Empty}
  /\ \A x \in r.old \cup r.new : r.entry[x] \in E
  /\ r.hand \in E \cup {Empty}
  /\ \A p \in E : p = r.hand \/ \E x \in r.old \cup r.new : r.entry[x] = p
  /\ \A x, y \in r.old \cup r.new : Key(r.entry[x]) = Key(r.entry[y]) => x = y
  /\ r.hand # Empty => \A x \in r.old \cup r.new : Key(r.entry[x]) # Key(r.hand)
  /\ \A x \in r.new : Search(n, Key(r.entry[x]), (Buckets(n) \ r.new) \cup {x}) = x
  /\ Cardinality(r.old) + Cardinality(r.new) + (IF r.hand = Empty THEN 0 ELSE 1) = u

(* What is left to be done. *)
Left(r) == 2 * Cardinality(r.old) + (IF r.hand = Empty THEN 0 ELSE 1)

(* The buckets of a rehash can be counted, and an entry in hand leaves room. *)
LEMMA Counted ==
  ASSUME NEW n, PowerOfTwo(n), NEW E \in SUBSET Entry, NEW u \in Nat, NEW r, Moving(n, E, u, r)
  PROVE  /\ IsFiniteSet(r.old) /\ Cardinality(r.old) \in Nat
         /\ IsFiniteSet(r.new) /\ Cardinality(r.new) \in Nat
         /\ Cardinality(r.new) <= u
         /\ Cardinality(Buckets(n)) = n /\ n \in Nat
         /\ r.hand = Empty \/ Cardinality(r.new) < u
<1>1. n \in Nat
  BY DEF PowerOfTwo
<1>2. IsFiniteSet(Buckets(n)) /\ Cardinality(Buckets(n)) = n
  BY <1>1, BucketsCounted
<1>3. r.old \in SUBSET Buckets(n) /\ r.new \in SUBSET Buckets(n)
  BY DEF Moving
<1>4. /\ IsFiniteSet(r.old) /\ Cardinality(r.old) \in Nat
      /\ IsFiniteSet(r.new) /\ Cardinality(r.new) \in Nat
  BY <1>2, <1>3, FS_Subset, FS_CardinalityType
<1>5. Cardinality(r.old) + Cardinality(r.new) + (IF r.hand = Empty THEN 0 ELSE 1) = u
  BY DEF Moving
<1> QED
  BY <1>1, <1>2, <1>4, <1>5

(* An entry is taken out of the next bucket to be moved. *)
LEMMA StepTakes ==
  ASSUME NEW n, PowerOfTwo(n), NEW E \in SUBSET Entry, NEW u \in Nat, NEW r, Moving(n, E, u, r),
         r.hand = Empty, r.old # {}
  PROVE  Moving(n, E, u, Take(r)) /\ Left(Take(r)) = Left(r) - 1
<1>1. PICK q, j : q = Take(r) /\ j = Least(r.old)
  OBVIOUS
<1>2. j \in r.old
  <2>1. r.old \subseteq Nat
    BY DEF Moving, Buckets, PowerOfTwo
  <2>2. \E m \in r.old : \A k \in r.old : m <= k
    BY <2>1, LeastNumber
  <2> QED
    BY <1>1, <2>2, Zenon DEF Least
<1>3. /\ q = [entry |-> q.entry, old |-> q.old, new |-> q.new, hand |-> q.hand]
      /\ q.entry = r.entry /\ q.old = r.old \ {j} /\ q.new = r.new /\ q.hand = r.entry[j]
  BY <1>1 DEF Take, Moving
<1>4. q.hand \in E /\ q.hand \in Entry /\ q.hand # Empty
  BY <1>2, <1>3, Pairs DEF Moving
<1>5. /\ Cardinality(q.old) = Cardinality(r.old) - 1
      /\ Cardinality(q.old) \in Nat /\ Cardinality(q.new) \in Nat
  BY <1>2, <1>3, Counted, FS_RemoveElement, FS_CardinalityType
<1>6. Cardinality(q.old) + Cardinality(q.new) + (IF q.hand = Empty THEN 0 ELSE 1) = u
  <2>1. Cardinality(r.old) + Cardinality(r.new) + 0 = u
    BY DEF Moving
  <2>2. Cardinality(r.old) \in Nat /\ Cardinality(r.new) \in Nat
    BY Counted
  <2> QED
    BY <1>3, <1>4, <1>5, <2>1, <2>2
<1>7. Left(q) = Left(r) - 1
  BY <1>4, <1>5, Counted DEF Left
<1>8. \A p \in E : p = q.hand \/ \E x \in q.old \cup q.new : q.entry[x] = p
  <2> SUFFICES ASSUME NEW p \in E, p # q.hand PROVE \E x \in q.old \cup q.new : q.entry[x] = p
    OBVIOUS
  <2>1. PICK x \in r.old \cup r.new : r.entry[x] = p
    BY Pairs DEF Moving
  <2> QED
    BY <1>3, <2>1
<1>9. \A x \in q.old \cup q.new : Key(q.entry[x]) # Key(q.hand)
  BY <1>2, <1>3 DEF Moving
<1>10. Moving(n, E, u, q)
  BY <1>2, <1>3, <1>4, <1>6, <1>8, <1>9 DEF Moving
<1> QED
  BY <1>1, <1>7, <1>10

(* The search for the entry in hand, and what it means that it is put       *)
(* where the search ends.                                                   *)
LEMMA StepPuts ==
  ASSUME NEW n, PowerOfTwo(n), NEW E \in SUBSET Entry, NEW u \in Nat, u < n,
         NEW r, Moving(n, E, u, r), r.hand # Empty,
         NEW x, x = Search(n, Key(r.hand), Buckets(n) \ r.new)
  PROVE  /\ x \in Buckets(n) \ r.new
         /\ x \in r.old => /\ Moving(n, E, u, KickOut(r, x))
                           /\ Left(KickOut(r, x)) = Left(r) - 2
         /\ x \notin r.old => /\ Moving(n, E, u, Put(r, x))
                              /\ Left(Put(r, x)) = Left(r) - 1
<1>1. r.hand \in E /\ Key(r.hand) \in Nat /\ r.hand \in Entry
  BY Pairs DEF Moving
<1>2. r.new \in SUBSET Buckets(n) /\ r.new # Buckets(n)
  BY Counted DEF Moving
<1>3. x \in Buckets(n) \ r.new
  <2>1. Buckets(n) \ r.new # {}
    BY <1>2
  <2> QED
    BY <1>1, <2>1, SearchFinds
<1>4. PICK e, w : e = [r.entry EXCEPT ![x] = r.hand] /\ w = r.new \cup {x}
  OBVIOUS
<1>5. /\ e \in [Buckets(n) -> Entry \cup {Empty}]
      /\ e[x] = r.hand
      /\ \A y \in Buckets(n) \ {x} : e[y] = r.entry[y]
  BY <1>1, <1>3, <1>4 DEF Moving
<1>6. w \in SUBSET Buckets(n) /\ Cardinality(w) = Cardinality(r.new) + 1 /\ Cardinality(w) \in Nat
  <2>1. IsFiniteSet(r.new) /\ Cardinality(r.new) \in Nat /\ x \notin r.new
    BY <1>3, Counted
  <2>2. Cardinality(r.new \cup {x}) = Cardinality(r.new) + 1
    BY <2>1, FS_AddElement
  <2> QED
    BY <1>2, <1>3, <1>4, <2>1, <2>2
<1>7. \A y \in w : Search(n, Key(e[y]), (Buckets(n) \ w) \cup {y}) = y
  <2> SUFFICES ASSUME NEW y \in w PROVE Search(n, Key(e[y]), (Buckets(n) \ w) \cup {y}) = y
    OBVIOUS
  <2>1. CASE y = x
    <3>1. (Buckets(n) \ w) \cup {y} = Buckets(n) \ r.new
      BY <1>3, <1>4, <2>1
    <3> QED
      BY <1>5, <2>1, <3>1
  <2>2. CASE y # x
    <3>1. y \in r.new /\ y \in Buckets(n) /\ e[y] = r.entry[y]
      BY <1>2, <1>4, <1>5, <2>2
    <3>2. PICK k, more, less : /\ k = Key(r.entry[y])
                               /\ more = (Buckets(n) \ r.new) \cup {y}
                               /\ less = (Buckets(n) \ w) \cup {y}
      OBVIOUS
    <3>3. k \in Nat
      BY <3>1, <3>2, Pairs DEF Moving
    <3>4. Search(n, k, more) = y
      BY <3>1, <3>2 DEF Moving
    <3>5. more \in SUBSET Buckets(n) /\ less \in SUBSET more /\ y \in less
      BY <1>4, <3>1, <3>2
    <3>6. Search(n, k, less) = y
      BY <3>3, <3>4, <3>5, SearchStays
    <3> QED
      BY <3>1, <3>2, <3>6
  <2> QED
    BY <2>1, <2>2
<1>8. ASSUME x \in r.old
      PROVE  Moving(n, E, u, KickOut(r, x)) /\ Left(KickOut(r, x)) = Left(r) - 2
  <2>1. PICK q : q = KickOut(r, x)
    OBVIOUS
  <2>2. /\ q = [entry |-> q.entry, old |-> q.old, new |-> q.new, hand |-> q.hand]
        /\ q.entry = e /\ q.old = r.old \ {x} /\ q.new = w /\ q.hand = r.entry[x]
    BY <1>4, <2>1 DEF KickOut, Moving
  <2>3. q.hand \in E /\ q.hand \in Entry /\ q.hand # Empty
    BY <1>8, <2>2, Pairs DEF Moving
  <2>4. Cardinality(q.old) = Cardinality(r.old) - 1 /\ Cardinality(q.old) \in Nat
    <3>1. IsFiniteSet(r.old)
      BY Counted
    <3>2. Cardinality(r.old \ {x}) = Cardinality(r.old) - 1 /\ IsFiniteSet(r.old \ {x})
      <4>1. /\ IsFiniteSet(r.old \ {x})
            /\ Cardinality(r.old \ {x}) =
                 IF x \in r.old THEN Cardinality(r.old) - 1 ELSE Cardinality(r.old)
        BY <3>1, FS_RemoveElement, ZenonT(40)
      <4> QED
        BY <1>8, <4>1
    <3>3. Cardinality(r.old \ {x}) \in Nat
      BY <3>2, FS_CardinalityType
    <3> QED
      BY <2>2, <3>2, <3>3
  <2>5. Cardinality(q.old) + Cardinality(q.new) + (IF q.hand = Empty THEN 0 ELSE 1) = u
    <3>1. Cardinality(r.old) + Cardinality(r.new) + 1 = u
      BY DEF Moving
    <3>2. Cardinality(r.old) \in Nat /\ Cardinality(r.new) \in Nat
      BY Counted
    <3> QED
      BY <1>6, <2>2, <2>3, <2>4, <3>1, <3>2
  <2>6. Left(q) = Left(r) - 2
    BY <2>3, <2>4, Counted DEF Left
  <2>7. /\ q.old \cup q.new = r.old \cup r.new
        /\ \A y \in (r.old \cup r.new) \ {x} : q.entry[y] = r.entry[y]
        /\ q.entry[x] = r.hand
    BY <1>2, <1>4, <1>5, <1>8, <2>2 DEF Moving
  <2>8. \A y \in q.old \cup q.new : q.entry[y] \in E
    BY <1>1, <2>7 DEF Moving
  <2>9. \A p \in E : p = q.hand \/ \E y \in q.old \cup q.new : q.entry[y] = p
    <3> SUFFICES ASSUME NEW p \in E, p # q.hand PROVE \E y \in q.old \cup q.new : q.entry[y] = p
      OBVIOUS
    <3>1. CASE p = r.hand
      BY <1>8, <2>7, <3>1
    <3>2. CASE p # r.hand
      <4>1. PICK y \in r.old \cup r.new : r.entry[y] = p
        BY <3>2 DEF Moving
      <4>2. y # x
        BY <2>2, <4>1
      <4> QED
        BY <2>7, <4>1, <4>2
    <3> QED
      BY <3>1, <3>2
  <2>10. \A y, z \in q.old \cup q.new : Key(q.entry[y]) = Key(q.entry[z]) => y = z
    BY <2>7 DEF Moving
  <2>11. \A y \in q.old \cup q.new : Key(q.entry[y]) # Key(q.hand)
    BY <1>8, <2>2, <2>7 DEF Moving
  <2>12. q.old \in SUBSET Buckets(n) /\ q.old \cap q.new = {}
    BY <1>4, <2>2 DEF Moving
  <2>13. Moving(n, E, u, q)
    BY <1>5, <1>6, <1>7, <2>2, <2>3, <2>5, <2>8, <2>9, <2>10, <2>11, <2>12 DEF Moving
  <2> QED
    BY <2>1, <2>6, <2>13
<1>9. ASSUME x \notin r.old
      PROVE  Moving(n, E, u, Put(r, x)) /\ Left(Put(r, x)) = Left(r) - 1
  <2>1. PICK q : q = Put(r, x)
    OBVIOUS
  <2>2. /\ q = [entry |-> q.entry, old |-> q.old, new |-> q.new, hand |-> q.hand]
        /\ q.entry = e /\ q.old = r.old /\ q.new = w /\ q.hand = Empty
    BY <1>4, <2>1 DEF Put, Moving
  <2>3. Cardinality(q.old) + Cardinality(q.new) + (IF q.hand = Empty THEN 0 ELSE 1) = u
    <3>1. Cardinality(r.old) + Cardinality(r.new) + 1 = u
      BY DEF Moving
    <3>2. Cardinality(r.old) \in Nat /\ Cardinality(r.new) \in Nat
      BY Counted
    <3> QED
      BY <1>6, <2>2, <3>1, <3>2
  <2>4. Left(q) = Left(r) - 1
    BY <2>2, Counted DEF Left
  <2>5. /\ q.old \cup q.new = (r.old \cup r.new) \cup {x}
        /\ x \notin r.old \cup r.new
        /\ \A y \in r.old \cup r.new : q.entry[y] = r.entry[y]
        /\ q.entry[x] = r.hand
    BY <1>2, <1>3, <1>4, <1>5, <1>9, <2>2 DEF Moving
  <2>6. \A y \in q.old \cup q.new : q.entry[y] \in E
    BY <1>1, <2>5 DEF Moving
  <2>7. \A p \in E : p = q.hand \/ \E y \in q.old \cup q.new : q.entry[y] = p
    <3> SUFFICES ASSUME NEW p \in E PROVE \E y \in q.old \cup q.new : q.entry[y] = p
      OBVIOUS
    <3>1. CASE p = r.hand
      BY <2>5, <3>1
    <3>2. CASE p # r.hand
      <4>1. PICK y \in r.old \cup r.new : r.entry[y] = p
        BY <3>2 DEF Moving
      <4> QED
        BY <2>5, <4>1
    <3> QED
      BY <3>1, <3>2
  <2>8. \A y, z \in q.old \cup q.new : Key(q.entry[y]) = Key(q.entry[z]) => y = z
    BY <2>5 DEF Moving
  <2>9. q.old \in SUBSET Buckets(n) /\ q.old \cap q.new = {}
    BY <1>4, <1>9, <2>2 DEF Moving
  <2>10. Moving(n, E, u, q)
    BY <1>5, <1>6, <1>7, <2>2, <2>3, <2>6, <2>7, <2>8, <2>9 DEF Moving
  <2> QED
    BY <2>1, <2>4, <2>10
<1> QED
  BY <1>3, <1>8, <1>9

(* Every step of a rehash keeps Moving and leaves less to be done.          *)
LEMMA Stepping ==
  ASSUME NEW n, PowerOfTwo(n), NEW E \in SUBSET Entry, NEW u \in Nat, u < n,
         NEW r, Moving(n, E, u, r)
  PROVE  /\ Moving(n, E, u, Step(n, r))
         /\ Left(r) \in Nat /\ Left(Step(n, r)) \in Nat
         /\ Left(r) = 0 \/ Left(Step(n, r)) < Left(r)
         /\ Left(r) = 0 => Step(n, r) = r
<1>1. \A q : Moving(n, E, u, q) => Left(q) \in Nat
  BY Counted DEF Left
<1>2. CASE r.hand = Empty /\ r.old = {}
  <2>1. Step(n, r) = r
    BY <1>2 DEF Step
  <2>2. Left(r) = 0
    BY <1>2, FS_EmptySet DEF Left
  <2> QED
    BY <2>1, <2>2
<1>3. CASE r.hand = Empty /\ r.old # {}
  <2>1. Step(n, r) = Take(r)
    BY <1>3 DEF Step
  <2>2. Moving(n, E, u, Take(r)) /\ Left(Take(r)) = Left(r) - 1
    BY <1>3, StepTakes
  <2> QED
    BY <1>1, <2>1, <2>2
<1>4. CASE r.hand # Empty
  <2>1. PICK x : x = Search(n, Key(r.hand), Buckets(n) \ r.new)
    OBVIOUS
  <2>2. Step(n, r) = IF x \in r.old THEN KickOut(r, x) ELSE Put(r, x)
    BY <1>4, <2>1 DEF Step
  <2>3. /\ x \in r.old => /\ Moving(n, E, u, KickOut(r, x))
                          /\ Left(KickOut(r, x)) = Left(r) - 2
        /\ x \notin r.old => /\ Moving(n, E, u, Put(r, x))
                             /\ Left(Put(r, x)) = Left(r) - 1
    BY <1>4, <2>1, StepPuts
  <2>4. Moving(n, E, u, Step(n, r)) /\ Left(Step(n, r)) \in {Left(r) - 1, Left(r) - 2}
    BY <2>2, <2>3
  <2> QED
    BY <1>1, <2>4
<1> QED
  BY <1>2, <1>3, <1>4

(* The steps of a rehash are what they are said to be: a function on the   *)
(* numbers of steps that starts with r and goes on with Step.               *)
IsRun(n, r, m, g) == g = [s \in 0 .. m |-> IF s = 0 THEN r ELSE Step(n, g[s - 1])]

LEMMA RunExists ==
  ASSUME NEW n, NEW r, NEW m \in Nat
  PROVE  \E g : IsRun(n, r, m, g)
<1> USE DEF IsRun
<1> DEFINE Run(k) == \E g : IsRun(n, r, k, g)
           Bad == {k \in Nat : ~Run(k)}
<1>1. SUFFICES ASSUME Bad # {} PROVE FALSE
  <2>1. Run(m)
    BY <1>1
  <2> QED
    BY <2>1
<1>2. PICK k \in Bad : \A l \in Bad : k <= l
  <2> HIDE DEF Run
  <2> QED
    BY <1>1, LeastNumber
<1>3. CASE k = 0
  <2>1. [s \in 0 .. 0 |-> r] = [s \in 0 .. 0 |-> IF s = 0 THEN r ELSE Step(n, [t \in 0 .. 0 |-> r][s - 1])]
    OBVIOUS
  <2>2. Run(0)
    BY <2>1
  <2> QED
    BY <1>2, <1>3, <2>2
<1>4. CASE k # 0
  <2>1. k - 1 \in Nat /\ ~(k <= k - 1)
    BY <1>2, <1>4
  <2>2. Run(k - 1)
    <3> HIDE DEF Run
    <3> QED
      BY <1>2, <2>1
  <2>3. PICK g : g = [s \in 0 .. k - 1 |-> IF s = 0 THEN r ELSE Step(n, g[s - 1])]
    BY <2>2
  <2>4. PICK h : h = [s \in 0 .. k |-> IF s = k THEN Step(n, g[k - 1]) ELSE g[s]]
    OBVIOUS
  <2>5. \A s \in 0 .. k - 1 : h[s] = g[s]
    BY <2>1, <2>4
  <2>6. ASSUME NEW s \in 0 .. k PROVE h[s] = IF s = 0 THEN r ELSE Step(n, h[s - 1])
    <3>1. CASE s = 0
      <4>1. 0 \in 0 .. k - 1
        BY <2>1
      <4>2. g[0] = r
        BY <2>3, <4>1
      <4> QED
        BY <2>5, <3>1, <4>1, <4>2
    <3>2. CASE s # 0 /\ s # k
      <4>1. s \in 0 .. k - 1 /\ s - 1 \in 0 .. k - 1
        BY <2>1, <3>2
      <4>2. g[s] = Step(n, g[s - 1])
        BY <2>3, <3>2, <4>1
      <4> QED
        BY <2>5, <3>2, <4>1, <4>2
    <3>3. CASE s = k
      <4>1. k - 1 \in 0 .. k - 1 /\ k \in 0 .. k
        BY <2>1
      <4>2. h[k] = Step(n, g[k - 1])
        BY <2>4, <4>1
      <4> QED
        BY <1>4, <2>5, <3>3, <4>1, <4>2
    <3> QED
      BY <3>1, <3>2, <3>3
  <2>7. h = [s \in 0 .. k |-> IF s = 0 THEN r ELSE Step(n, h[s - 1])]
    <3>1. h = [s \in 0 .. k |-> h[s]]
      BY <2>4
    <3> QED
      BY <2>6, <3>1
  <2> QED
    BY <1>2, <2>7
<1> QED
  BY <1>3, <1>4

(* Rehash is the end of such a run. *)
LEMMA RehashRuns ==
  ASSUME NEW n \in Nat, NEW r
  PROVE  \E run : /\ run[0] = r
                  /\ \A s \in 1 .. 2 * n : run[s] = Step(n, run[s - 1])
                  /\ Rehash(n, r) = run[2 * n]
<1> DEFINE run[s \in 0 .. 2 * n] == IF s = 0 THEN r ELSE Step(n, run[s - 1])
<1>1. \E g : IsRun(n, r, 2 * n, g)
  BY RunExists
<1>2. run = [s \in 0 .. 2 * n |-> IF s = 0 THEN r ELSE Step(n, run[s - 1])]
  BY <1>1 DEF IsRun
<1>3. Rehash(n, r) = run[2 * n]
  BY DEF Rehash
<1> HIDE DEF run
<1>4. run[0] = r /\ \A s \in 1 .. 2 * n : run[s] = Step(n, run[s - 1])
  BY <1>2
<1> QED
  BY <1>3, <1>4

(* A rehash ends with nothing left to be moved and nothing in hand.         *)
LEMMA RehashEnds ==
  ASSUME NEW n, PowerOfTwo(n), NEW E \in SUBSET Entry, NEW u \in Nat, u < n,
         NEW r, Moving(n, E, u, r), Left(r) <= 2 * n
  PROVE  Moving(n, E, u, Rehash(n, r)) /\ Left(Rehash(n, r)) = 0
<1>1. n \in Nat
  BY DEF PowerOfTwo
<1>2. PICK run : /\ run[0] = r
                 /\ \A s \in 1 .. 2 * n : run[s] = Step(n, run[s - 1])
                 /\ Rehash(n, r) = run[2 * n]
  BY <1>1, RehashRuns
<1> DEFINE Good(s) == /\ Moving(n, E, u, run[s])
                      /\ Left(run[s]) = 0 \/ Left(run[s]) + s <= 2 * n
           Bad == {s \in 0 .. 2 * n : ~Good(s)}
<1>3. ASSUME NEW s \in 1 .. 2 * n, Good(s - 1) PROVE Good(s)
  <2>1. run[s] = Step(n, run[s - 1])
    BY <1>2
  <2>2. /\ Moving(n, E, u, run[s])
        /\ Left(run[s - 1]) \in Nat /\ Left(run[s]) \in Nat
        /\ Left(run[s - 1]) = 0 \/ Left(run[s]) < Left(run[s - 1])
        /\ Left(run[s - 1]) = 0 => run[s] = run[s - 1]
    BY <1>3, <2>1, Stepping
  <2> QED
    BY <1>1, <1>3, <2>2
<1>4. Good(0)
  <2>1. Left(r) \in Nat
    BY Stepping
  <2> QED
    BY <1>1, <1>2, <2>1
<1> HIDE DEF Good
<1>5. Bad = {}
  <2> SUFFICES ASSUME Bad # {} PROVE FALSE
    OBVIOUS
  <2>1. PICK s \in Bad : \A l \in Bad : s <= l
    <3>1. Bad \subseteq Nat /\ Bad # {}
      BY <1>1
    <3> HIDE DEF Bad
    <3> QED
      BY <3>1, LeastNumber
  <2>2. s \in 1 .. 2 * n
    BY <1>1, <1>4, <2>1
  <2>3. s - 1 \in 0 .. 2 * n /\ ~(s <= s - 1)
    BY <1>1, <2>2
  <2>4. Good(s - 1)
    BY <2>1, <2>3
  <2> QED
    BY <1>3, <2>1, <2>2, <2>4
<1>6. Good(2 * n)
  BY <1>1, <1>5
<1>7. Left(run[2 * n]) \in Nat
  BY <1>6, Stepping DEF Good
<1> QED
  BY <1>1, <1>2, <1>6, <1>7 DEF Good

(* The table begins with four buckets. *)
LEMMA FourIsAPower == PowerOfTwo(4)
<1>1. \A d, q \in Nat : d * q = 4 => d \in {1, 2, 4}
  <2> SUFFICES ASSUME NEW d \in Nat, NEW q \in Nat, d * q = 4 PROVE d \in {1, 2, 4}
    OBVIOUS
  <2>1. d # 0 /\ q # 0
    OBVIOUS
  <2>2. d <= 4
    <3> SUFFICES ASSUME d >= 5 PROVE FALSE
      OBVIOUS
    <3>1. d * q >= d * 1
      BY <2>1
    <3> QED
      BY <3>1
  <2>3. d # 3
    OBVIOUS
  <2> QED
    BY <2>1, <2>2, <2>3
<1> QED
  BY <1>1 DEF PowerOfTwo, Odd

(* kh_resize keeps every entry, in a table that finds each of them and has  *)
(* a bucket left.                                                           *)
THEOREM ResizeKeeps ==
  ASSUME NEW h, Intact(h)
  PROVE  /\ Intact(kh_resize(h))
         /\ Entries(kh_resize(h)) = Entries(h)
         /\ kh_resize(h).n_buckets = Grown(h.n_buckets)
         /\ Used(kh_resize(h)) # Buckets(kh_resize(h).n_buckets)
<1>1. PICK n, E, u : n = Grown(h.n_buckets) /\ E = Entries(h) /\ u = Cardinality(Used(h))
  OBVIOUS
<1>2. /\ h.n_buckets \in Nat
      /\ Used(h) \subseteq Buckets(h.n_buckets)
      /\ IsFiniteSet(Used(h)) /\ u \in Nat /\ u <= h.n_buckets
      /\ \A x \in Used(h) : h.entry[x] \in Entry
  BY <1>1, UsedFacts
<1>3. n >= 4 /\ n \in Nat /\ PowerOfTwo(n) /\ h.n_buckets < n /\ 2 * u <= n
  BY <1>1, <1>2, FourIsAPower, Doubling DEF Grown, Intact
<1>4. E \in SUBSET Entry
  BY <1>1, <1>2 DEF Entries
<1>5. PICK r : r = Begin(n, h)
  OBVIOUS
<1>6. /\ r = [entry |-> r.entry, old |-> r.old, new |-> r.new, hand |-> r.hand]
      /\ r.entry = [x \in Buckets(n) |-> IF x \in Used(h) THEN h.entry[x] ELSE Empty]
      /\ r.old = Used(h) /\ r.new = {} /\ r.hand = Empty
  BY <1>5 DEF Begin
<1>7. Used(h) \subseteq Buckets(n)
  BY <1>2, <1>3 DEF Buckets
<1>8. \A x \in Used(h) : r.entry[x] = h.entry[x]
  BY <1>6, <1>7
<1>9. Moving(n, E, u, r) /\ Left(r) = 2 * u
  <2>1. r.entry \in [Buckets(n) -> Entry \cup {Empty}]
    BY <1>2, <1>6
  <2>2. Cardinality(r.old) + Cardinality(r.new) + (IF r.hand = Empty THEN 0 ELSE 1) = u
    BY <1>1, <1>2, <1>6, FS_EmptySet
  <2>3. /\ \A x \in r.old \cup r.new : r.entry[x] \in E
        /\ \A p \in E : p = r.hand \/ \E x \in r.old \cup r.new : r.entry[x] = p
    BY <1>1, <1>6, <1>8 DEF Entries
  <2>4. \A x, y \in r.old \cup r.new : Key(r.entry[x]) = Key(r.entry[y]) => x = y
    BY <1>6, <1>8, OneBucket
  <2>5. Moving(n, E, u, r)
    BY <1>6, <1>7, <2>1, <2>2, <2>3, <2>4 DEF Moving
  <2>6. Left(r) = 2 * u
    BY <1>1, <1>2, <1>6 DEF Left
  <2> QED
    BY <2>5, <2>6
<1>10. PICK end : end = Rehash(n, r)
  OBVIOUS
<1>11. Moving(n, E, u, end) /\ Left(end) = 0
  BY <1>2, <1>3, <1>4, <1>9, <1>10, RehashEnds
<1>12. end.hand = Empty /\ end.old = {}
  <2>1. IsFiniteSet(end.old) /\ Cardinality(end.old) \in Nat
    BY <1>2, <1>3, <1>4, <1>11, Counted
  <2>2. end.hand = Empty /\ Cardinality(end.old) = 0
    BY <1>11, <2>1 DEF Left
  <2> QED
    BY <2>1, <2>2, FS_EmptySet
<1>13. PICK g : g = kh_resize(h)
  OBVIOUS
<1>14. /\ g = [n_buckets |-> g.n_buckets, entry |-> g.entry]
       /\ g.n_buckets = n
       /\ g.entry = [x \in Buckets(n) |-> IF x \in end.new THEN end.entry[x] ELSE Empty]
  BY <1>1, <1>5, <1>10, <1>13 DEF kh_resize
<1>15. /\ end.new \in SUBSET Buckets(n)
       /\ end.entry \in [Buckets(n) -> Entry \cup {Empty}]
       /\ \A x \in end.new : end.entry[x] \in E
       /\ \A p \in E : \E x \in end.new : end.entry[x] = p
       /\ \A x, y \in end.new : Key(end.entry[x]) = Key(end.entry[y]) => x = y
       /\ \A x \in end.new : Search(n, Key(end.entry[x]), (Buckets(n) \ end.new) \cup {x}) = x
  <2>1. Empty \notin E
    BY <1>4, Pairs
  <2> QED
    BY <1>11, <1>12, <2>1 DEF Moving
<1>16. /\ \A x \in end.new : g.entry[x] = end.entry[x] /\ g.entry[x] # Empty
       /\ \A x \in Buckets(n) \ end.new : g.entry[x] = Empty
  BY <1>4, <1>14, <1>15, Pairs
<1>17. Used(g) = end.new
  BY <1>14, <1>15, <1>16 DEF Used
<1>18. g.entry \in [Buckets(n) -> Entry \cup {Empty}]
  BY <1>14, <1>15
<1>19. ASSUME NEW x \in Used(g) PROVE Site(g, Key(g.entry[x])) = x
  <2>1. x \in end.new /\ g.entry[x] = end.entry[x]
    BY <1>16, <1>17
  <2>2. PICK k : k = Key(g.entry[x])
    OBVIOUS
  <2>3. Stops(g, k) = (Buckets(n) \ end.new) \cup {x}
    BY <1>14, <1>15, <1>16, <2>1, <2>2 DEF Stops
  <2>4. Site(g, k) = Search(n, k, Stops(g, k))
    BY <1>14 DEF Site, Stops
  <2> QED
    BY <1>15, <2>1, <2>2, <2>3, <2>4
<1>20. Intact(g)
  BY <1>3, <1>14, <1>18, <1>19 DEF Intact
<1>21. Entries(g) = E
  BY <1>15, <1>16, <1>17 DEF Entries
<1>22. Used(g) # Buckets(n)
  <2>1. Cardinality(end.new) <= u /\ Cardinality(Buckets(n)) = n
    BY <1>2, <1>3, <1>4, <1>11, Counted
  <2>2. u < n
    BY <1>2, <1>3
  <2>3. Cardinality(end.new) \in Nat
    BY <1>2, <1>3, <1>4, <1>11, Counted
  <2> QED
    BY <1>2, <1>3, <1>17, <2>1, <2>2, <2>3
<1> QED
  BY <1>1, <1>13, <1>14, <1>20, <1>21, <1>22

(* What kh_put does before it looks for the bucket leaves one free, and     *)
(* keeps what the table says.                                               *)
LEMMA RoomMade ==
  ASSUME NEW h, Intact(h)
  PROVE  /\ Intact(Room(h)) /\ Entries(Room(h)) = Entries(h)
         /\ Room(h).n_buckets # 0 /\ Used(Room(h)) # Buckets(Room(h).n_buckets)
<1>1. h.n_buckets \in Nat /\ Cardinality(Used(h)) \in Nat
  BY UsedFacts
<1>2. CASE Cardinality(Used(h)) >= UpperBound(h.n_buckets)
  <2>1. Room(h) = kh_resize(h)
    BY <1>2 DEF Room
  <2>2. kh_resize(h).n_buckets # 0
    BY <1>1, ResizeKeeps DEF Grown
  <2> QED
    BY <2>1, <2>2, ResizeKeeps
<1>3. CASE ~(Cardinality(Used(h)) >= UpperBound(h.n_buckets))
  <2>1. Room(h) = h
    BY <1>3 DEF Room
  <2>2. UpperBound(h.n_buckets) \in Nat
    BY <1>1 DEF UpperBound
  <2>3. Cardinality(Used(h)) < UpperBound(h.n_buckets)
    BY <1>1, <1>3, <2>2
  <2>4. h.n_buckets # 0
    BY <1>1, <2>3 DEF UpperBound
  <2>5. UpperBound(h.n_buckets) <= h.n_buckets
    <3>1. h.n_buckets >= 4
      BY <2>4 DEF Intact
    <3> QED
      BY <1>1, <3>1 DEF UpperBound
  <2>6. Used(h) # Buckets(h.n_buckets)
    BY <1>1, <2>2, <2>3, <2>5, UsedFacts
  <2> QED
    BY <2>1, <2>4, <2>6
<1> QED
  BY <1>2, <1>3

(* kh_put and kh_val: the key has the value, the others have theirs.        *)
THEOREM PutKeeps ==
  ASSUME NEW h, Intact(h), NEW key \in Nat, NEW val \in Int
  PROVE  /\ Intact(kh_put(h, key, val))
         /\ Entries(kh_put(h, key, val)) =
              {p \in Entries(h) : Key(p) # key} \cup {<<key, val>>}
<1>1. PICK g : g = Room(h)
  OBVIOUS
<1>2. /\ Intact(g) /\ Entries(g) = Entries(h)
      /\ g.n_buckets # 0 /\ Used(g) # Buckets(g.n_buckets)
  BY <1>1, RoomMade
<1>3. kh_put(h, key, val) = [g EXCEPT !.entry[Site(g, key)] = <<key, val>>]
  BY <1>1 DEF kh_put
<1> QED
  BY <1>2, <1>3, EntryPut

-----------------------------------------------------------------------------
(* The table of the home node                                               *)

(* The table has an entry for each endpoint that was ever bound, and it     *)
(* says what the map says; every entry is found where it is.                *)
TableInv ==
  /\ Intact(table)
  /\ Entries(table) = {<<e, server_map[e]>> : e \in {f \in Endpoints : server_map[f] # NULL}}

LEMMA EndpointsAreKeys ==
  ASSUME RegInv
  PROVE  /\ Endpoints \subseteq Nat /\ NULL \notin Int
         /\ server_map \in [Endpoints -> Ids \cup {-1, NULL}]
         /\ Ids \subseteq Nat
BY NodeAssumption, RegistryAssumption DEF RegInv, TypeOK, Ids

(* What is in the table and what is not, said with the map. *)
LEMMA EntriesByKey ==
  ASSUME RegInv, TableInv, NEW e \in Endpoints
  PROVE  /\ server_map[e] # NULL => <<e, server_map[e]>> \in Entries(table)
         /\ \A val : <<e, val>> \in Entries(table) => val = server_map[e] /\ server_map[e] # NULL
<1>1. \A f, v, w : <<e, v>> = <<f, w>> => e = f /\ v = w
  OBVIOUS
<1> QED
  BY <1>1 DEF TableInv

(* TableInv is enough. *)
LEMMA TableSays ==
  ASSUME RegInv, TableInv
  PROVE  TableTrue
<1> SUFFICES ASSUME NEW e \in Endpoints
             PROVE  IF server_map[e] = NULL
                      THEN absent(table, e)
                      ELSE ~absent(table, e) /\ Value(table, e) = server_map[e]
  BY DEF TableTrue
<1>1. e \in Nat /\ Intact(table)
  BY EndpointsAreKeys DEF TableInv
<1>2. CASE server_map[e] = NULL
  <2>1. \A val : <<e, val>> \notin Entries(table)
    BY <1>2, EntriesByKey
  <2> QED
    BY <1>1, <1>2, <2>1, GetFinds
<1>3. CASE server_map[e] # NULL
  <2>1. <<e, server_map[e]>> \in Entries(table)
    BY <1>3, EntriesByKey
  <2> QED
    BY <1>1, <1>3, <2>1, GetFinds
<1> QED
  BY <1>2, <1>3

(* What an endpoint leads to is put in the map and in the table. *)
LEMMA BothPut ==
  ASSUME RegInv, TableInv, NEW e \in Endpoints, NEW val \in Int,
         server_map' = [server_map EXCEPT ![e] = val],
         Intact(table'),
         Entries(table') = {p \in Entries(table) : Key(p) # e} \cup {<<e, val>>}
  PROVE  TableInv'
<1>1. /\ server_map'[e] = val /\ val # NULL
      /\ \A f \in Endpoints : f # e => server_map'[f] = server_map[f]
  BY EndpointsAreKeys
<1>2. ASSUME NEW p \in Entries(table')
      PROVE  \E f \in Endpoints : server_map'[f] # NULL /\ p = <<f, server_map'[f]>>
  <2>1. CASE p = <<e, val>>
    BY <1>1, <2>1
  <2>2. CASE p \in Entries(table) /\ Key(p) # e
    <3>1. PICK f \in Endpoints : server_map[f] # NULL /\ p = <<f, server_map[f]>>
      BY <2>2 DEF TableInv
    <3>2. f # e
      BY <2>2, <3>1 DEF Key
    <3> QED
      BY <1>1, <3>1, <3>2
  <2> QED
    BY <2>1, <2>2
<1>3. ASSUME NEW f \in Endpoints, server_map'[f] # NULL
      PROVE  <<f, server_map'[f]>> \in Entries(table')
  <2>1. CASE f = e
    BY <1>1, <2>1
  <2>2. CASE f # e
    <3>1. <<f, server_map[f]>> \in Entries(table)
      BY <1>1, <1>3, <2>2, EntriesByKey
    <3>2. Key(<<f, server_map[f]>>) = f
      BY DEF Key
    <3> QED
      BY <1>1, <2>2, <3>1, <3>2
  <2> QED
    BY <2>1, <2>2
<1> QED
  BY <1>2, <1>3 DEF TableInv

LEMMA TableInit == NodeInit => TableInv
<1> SUFFICES ASSUME NodeInit PROVE TableInv
  OBVIOUS
<1>1. Intact(kh_init) /\ Used(kh_init) = {}
  BY DEF Intact, kh_init, Used, Buckets
<1>2. Entries(kh_init) = {}
  BY <1>1 DEF Entries
<1>3. \A e \in Endpoints : server_map[e] = NULL
  BY DEF NodeInit, Init
<1> QED
  BY <1>1, <1>2, <1>3 DEF NodeInit, TableInv

(* A table that says the same. *)
LEMMA TableSame ==
  ASSUME TableInv, server_map' = server_map, Intact(table'), Entries(table') = Entries(table)
  PROVE  TableInv'
BY DEF TableInv

(* What the threads of the home node do to the map they do to the table.    *)
LEMMA StepServe ==
  ASSUME RegInv, TableInv, Serve
  PROVE  TableInv'
<1>1. ASSUME NEW s \in Sockets, Register(s) \/ Unregister(s), UNCHANGED table PROVE TableInv'
  <2>1. server_map' = server_map
    BY <1>1 DEF Register, RegisterLock, RegisterSkip, RegisterFound, RegisterFull, RegisterLoad,
                RegisterStore, RegisterEnter, Unregister, UnregisterClear, UnregisterLoad,
                UnregisterStore, registry
  <2> QED
    BY <1>1, <2>1 DEF TableInv
<1>2. ASSUME NEW s \in Sockets, NEW e \in Endpoints, Bind(s, e), table' = kh_put(table, e, id[s])
      PROVE  TableInv'
  <2>1. id[s] \in Int /\ e \in Nat
    <3>1. pc[s] = "open"
      BY <1>2 DEF Bind
    <3>2. id[s] \in Ids
      BY <3>1 DEF RegInv, Known
    <3> QED
      BY <3>2, EndpointsAreKeys
  <2>2. /\ Intact(table')
        /\ Entries(table') = {p \in Entries(table) : Key(p) # e} \cup {<<e, id[s]>>}
    BY <1>2, <2>1, PutKeeps DEF TableInv
  <2>3. server_map' = [server_map EXCEPT ![e] = id[s]]
    BY <1>2 DEF Bind
  <2> QED
    BY <2>1, <2>2, <2>3, BothPut
<1>3. ASSUME NEW s \in Sockets, NEW e \in Endpoints, BindRefused(s, e) PROVE TableInv'
  <2>1. server_map' = server_map /\ table' = Room(table)
    BY <1>3 DEF BindRefused, vars, registry
  <2>2. Intact(Room(table)) /\ Entries(Room(table)) = Entries(table)
    BY RoomMade DEF TableInv
  <2> QED
    BY <2>1, <2>2, TableSame
<1>4. ASSUME NEW s \in Sockets, Unbind(s), table' = Set(table, bound[s], -1) PROVE TableInv'
  <2>1. PICK e : e = bound[s]
    OBVIOUS
  <2>2. e \in Endpoints /\ server_map[e] = id[s] /\ id[s] \in Ids
    BY <1>4, <2>1 DEF Unbind, RegInv, Known, TypeOK
  <2>3. e \in Nat /\ server_map[e] # NULL
    BY <2>2, EndpointsAreKeys
  <2>4. kh_get(table, e) \in Used(table) /\ Intact(table)
    BY <2>2, <2>3, EntriesByKey, GetFinds DEF TableInv
  <2>5. table.n_buckets # 0 /\ kh_get(table, e) = Site(table, e)
    <3>1. table.n_buckets # 0
      BY <2>4, UsedFacts
    <3>2. kh_get(table, e) # table.n_buckets
      BY <2>4, UsedFacts DEF Buckets
    <3> QED
      BY <3>1, <3>2 DEF kh_get
  <2>a. PICK none \in Int : none = -1
    OBVIOUS
  <2>6. table' = [table EXCEPT !.entry[Site(table, e)] = <<e, none>>]
    BY <1>4, <2>1, <2>5, <2>a DEF Set
  <2>7. /\ Intact(table')
        /\ Entries(table') = {p \in Entries(table) : Key(p) # e} \cup {<<e, none>>}
    BY <2>3, <2>4, <2>5, <2>6, EntryPut
  <2>8. server_map' = [server_map EXCEPT ![e] = none]
    BY <1>4, <2>1, <2>a DEF Unbind
  <2> QED
    BY <2>2, <2>7, <2>8, BothPut
<1> QED
  BY <1>1, <1>2, <1>3, <1>4 DEF Serve

(* The table of the home node is intact and says what the map says, in      *)
(* every job.                                                               *)
THEOREM TableInvariant == NodeSpec => []TableInv
<1>1. ASSUME RegInv, TableInv, [NodeNext /\ OneAtATime']_allVars PROVE TableInv'
  <2>1. CASE Serve
    BY <1>1, <2>1, StepServe
  <2>2. CASE UNCHANGED <<vars, table>>
    BY <1>1, <2>2 DEF vars, registry, TableInv
  <2>3. ASSUME NEW n \in Nodes,
               \/ Starts(n) \/ Meet(n) \/ Met(n) \/ Part(n) \/ Parted(n) \/ Ends(n)
               \/ \E m \in Nodes : Connect(n, m)
        PROVE  UNCHANGED <<vars, table>>
    BY <2>3 DEF Starts, Publish, Published, Fetch, Fetched, MakeRegistry, Meet, Met, Part, Parted,
                Ends, Free, Leave, Exit, Connect
  <2>4. ASSUME \/ \E r \in requests : OnConnect(r)
               \/ Over \/ UNCHANGED allVars
        PROVE  UNCHANGED <<vars, table>>
    BY <2>4 DEF OnConnect, Over, allVars
  <2> QED
    BY <1>1, <2>1, <2>2, <2>3, <2>4 DEF NodeNext
<1>2. NodeSpec => []RegInv
  BY NodesImplementRegistry, RegInvariant, PTL
<1> QED
  BY <1>1, <1>2, TableInit, PTL DEF NodeSpec

(* The hash table says of every endpoint what the map says, through         *)
(* collisions, growth and rehashing: for any number of endpoints, whatever  *)
(* their numbers.                                                           *)
THEOREM TableIsTrue == NodeSpec => []TableTrue
<1>1. RegInv /\ TableInv => TableTrue
  BY TableSays
<1>2. NodeSpec => []RegInv
  BY NodesImplementRegistry, RegInvariant, PTL
<1> QED
  BY <1>1, <1>2, TableInvariant, PTL
=============================================================================

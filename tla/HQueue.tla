------------------------------- MODULE HQueue -------------------------------
(***************************************************************************)
(* hqueue.c: the lock-free single-producer single-consumer ring.           *)
(*                                                                         *)
(* The producer owns tail and local_head, the consumer owns head and       *)
(* local_tail; local_head and local_tail are cached copies of the other    *)
(* side's index, re-read only when the copy says full or empty.  A step is *)
(* one access to memory the other thread can see: a thread's reads of its  *)
(* own words are folded into the step before them.  The release store of   *)
(* an index is a step of its own, after the copy into or out of the slot:  *)
(* release order forbids the compiler and the processor to move it         *)
(* earlier, and an acquire load is ordered before what follows it, so the  *)
(* interleavings below are those the memory orders allow.                  *)
(***************************************************************************)
EXTENDS Integers, Sequences

CONSTANTS
  Items,     \* the pointers the producer may push
  NoItem,    \* content of a slot never written (the block comes from calloc)
  Capacity,  \* the argument of hqueue_new
  Size       \* the capacity after rounding up, size_mask + 1

ASSUME QueueAssumption ==
  /\ Capacity \in Nat \ {0}
  /\ Size \in Nat
  /\ Size >= Capacity
  /\ NoItem \notin Items

VARIABLES
  head, local_tail,  \* next slot to pop; the consumer's copy of tail
  tail, local_head,  \* next slot to push; the producer's copy of head
  data,              \* the slots
  ppc, item,         \* the producer's call and its argument
  cpc, item_p        \* the consumer's call and its out-parameter

producer == <<tail, local_head, data, ppc, item>>
consumer == <<head, local_tail, cpc, item_p>>
vars == <<head, local_tail, tail, local_head, data, ppc, item, cpc, item_p>>

Slots == 0 .. Size - 1

(* A thread outside a call is "idle" or shows what its last call returned. *)
Outside == {"idle", "true", "false"}
PushSteps == {"reload", "write", "publish"}
PopSteps == {"reload", "read", "release"}

MaskInc_NoMask(i) == i + 1

(* (i + 1) & size_mask, for an index i in the ring. *)
MaskInc(i) == IF i = Size - 1 THEN 0 ELSE i + 1

(* How many slots lie from one index up to another, around the ring. *)
Dist(from, to) == IF from <= to THEN to - from ELSE to - from + Size

(* The slots whose content the consumer has not given back. *)
Count == Dist(head, tail)

-----------------------------------------------------------------------------

Init ==
  /\ head = 0
  /\ local_tail = 0
  /\ tail = 0
  /\ local_head = 0
  /\ data = [s \in Slots |-> NoItem]
  /\ ppc = "idle"
  /\ item = NoItem
  /\ cpc = "idle"
  /\ item_p = NoItem

(***************************************************************************)
(* hqueue_try_push(item)                                                   *)
(***************************************************************************)

PushBegin_TestsTail(x) ==
  /\ ppc \in Outside
  /\ item' = x
  /\ ppc' = IF tail # local_head THEN "write" ELSE "reload"
  /\ UNCHANGED <<tail, local_head, data, consumer>>

(* Compare the next index with the cached head. *)
PushBegin(x) ==
  /\ ppc \in Outside
  /\ item' = x
  /\ ppc' = IF MaskInc(tail) # local_head THEN "write" ELSE "reload"
  /\ UNCHANGED <<tail, local_head, data, consumer>>

PushReload_KeepsCopy ==
  /\ ppc = "reload"
  /\ ppc' = IF MaskInc(tail) # head THEN "write" ELSE "false"
  /\ UNCHANGED <<tail, local_head, data, item, consumer>>

(* The cached head says full: read head itself, and give up if it agrees. *)
PushReload ==
  /\ ppc = "reload"
  /\ local_head' = head
  /\ ppc' = IF MaskInc(tail) # head THEN "write" ELSE "false"
  /\ UNCHANGED <<tail, data, item, consumer>>

(* memcpy into the slot at tail; the consumer cannot see it yet. *)
PushWrite ==
  /\ ppc = "write"
  /\ data' = [data EXCEPT ![tail] = item]
  /\ ppc' = "publish"
  /\ UNCHANGED <<tail, local_head, item, consumer>>

(* Store the new tail (release) and return true. *)
PushPublish ==
  /\ ppc = "publish"
  /\ tail' = MaskInc(tail)
  /\ ppc' = "true"
  /\ UNCHANGED <<local_head, data, item, consumer>>

(***************************************************************************)
(* hqueue_try_pop(item_p)                                                  *)
(***************************************************************************)

(* Compare the own index with the cached tail. *)
PopBegin ==
  /\ cpc \in Outside
  /\ cpc' = IF head # local_tail THEN "read" ELSE "reload"
  /\ UNCHANGED <<head, local_tail, item_p, producer>>

PopReload_NoEmptyTest ==
  /\ cpc = "reload"
  /\ local_tail' = tail
  /\ cpc' = "read"
  /\ UNCHANGED <<head, item_p, producer>>

(* The cached tail says empty: read tail itself, and give up if it agrees. *)
PopReload ==
  /\ cpc = "reload"
  /\ local_tail' = tail
  /\ cpc' = IF head # tail THEN "read" ELSE "false"
  /\ UNCHANGED <<head, item_p, producer>>

(* memcpy out of the slot at head, which is still the consumer's. *)
PopRead ==
  /\ cpc = "read"
  /\ item_p' = data[head]
  /\ cpc' = "release"
  /\ UNCHANGED <<head, local_tail, producer>>

(* Store the new head (release), giving the slot back, and return true. *)
PopRelease ==
  /\ cpc = "release"
  /\ head' = MaskInc(head)
  /\ cpc' = "true"
  /\ UNCHANGED <<local_tail, item_p, producer>>

-----------------------------------------------------------------------------

Next ==
  \/ \E x \in Items : PushBegin(x)
  \/ PushReload
  \/ PushWrite
  \/ PushPublish
  \/ PopBegin
  \/ PopReload
  \/ PopRead
  \/ PopRelease

Spec == Init /\ [][Next]_vars

-----------------------------------------------------------------------------
(* Properties *)

(* Every word of the structure holds a value of its type: the indices stay  *)
(* in the ring, whatever wraps around (hqueue.c:103, hqueue.c:128).         *)
TypeOK ==
  /\ head \in Slots /\ local_tail \in Slots
  /\ tail \in Slots /\ local_head \in Slots
  /\ data \in [Slots -> Items \cup {NoItem}]
  /\ ppc \in Outside \cup PushSteps
  /\ item \in Items \cup {NoItem}
  /\ cpc \in Outside \cup PopSteps
  /\ item_p \in Items \cup {NoItem}

(* The two memcpy calls never touch one slot at the same time: while the    *)
(* producer may write the slot at tail (from its check to its release       *)
(* store) the consumer is not reading that slot (hqueue.c:108, 126).        *)
SlotRaceFree ==
  (ppc \in {"write", "publish"} /\ cpc \in {"read", "release"}) => tail # head

(* A stale cursor errs on the safe side.  The producer's copy of head lags  *)
(* behind head, so it never shows room that is not there; the consumer's    *)
(* copy of tail lags behind tail, so it never shows an item not published;  *)
(* and a thread past its check still sees, in its copy, the room or the     *)
(* item the check found (hqueue.c:101, 121).                                *)
CursorsConservative ==
  /\ Count <= Dist(local_head, tail)
  /\ Dist(head, local_tail) <= Count
  /\ ppc \in {"write", "publish"} => MaskInc(tail) # local_head
  /\ cpc \in {"read", "release"} => head # local_tail

(* The slot between the copy and the release store holds the pushed item,   *)
(* and an item copied out is the one still in the slot.                     *)
SlotHoldsItem ==
  /\ ppc = "publish" => data[tail] = item
  /\ cpc = "release" => item_p = data[head]

(* The inductive invariant behind every theorem about the ring. *)
IInv == TypeOK /\ CursorsConservative /\ SlotHoldsItem

-----------------------------------------------------------------------------
(* The FIFO the ring implements. *)

(* The slot k places after head. *)
Slot(k) == IF head + k < Size THEN head + k ELSE head + k - Size

(* An item copied out is no longer queued, though its slot is not free yet. *)
Held == cpc = "release"

Contents ==
  IF Held THEN [k \in 1 .. Count - 1 |-> data[Slot(k)]]
          ELSE [k \in 1 .. Count |-> data[Slot(k - 1)]]

Fifo == INSTANCE SpscFifo WITH
  Room <- Size - 1,
  queue <- Contents,
  held <- Held,
  push <- IF ppc \in PushSteps THEN "pending" ELSE ppc,
  arg <- item,
  pop <- IF cpc \in PopSteps THEN "pending" ELSE cpc,
  got <- item_p

(* The ring is a FIFO queue with room for size_mask items: nothing is lost, *)
(* duplicated, reordered or torn, a push is refused only when the queue is  *)
(* full and a pop only when it is empty, at some moment within the call.    *)
RefinesFifo == Fifo!Spec

(* hqueue.h:13 of the capacity argument: "this is a suggestion. the actual  *)
(* capacity will be at least this."  A push would then be refused only when *)
(* at least Capacity items are in the queue.                                *)
CapacityHonoured ==
  [][(ppc = "reload" /\ ppc' = "false") => Count >= Capacity]_vars
=============================================================================

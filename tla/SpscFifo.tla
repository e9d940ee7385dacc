------------------------------ MODULE SpscFifo ------------------------------
(***************************************************************************)
(* What an hqueue promises its one producer and its one consumer, with no  *)
(* ring, no index and no cached cursor: a bounded FIFO of item pointers.   *)
(* A call is in progress from its *Call action to the action that records  *)
(* its return value ("true" or "false", what hqueue_try_push and           *)
(* hqueue_try_pop return).  An item leaves the queue when the consumer     *)
(* takes it, but keeps its room until the pop has returned.                *)
(***************************************************************************)
EXTENDS Naturals, Sequences

CONSTANTS
  Items,   \* the pointers a producer may push
  NoItem,  \* what an out-parameter holds before the first pop
  Room     \* how many items fit

VARIABLES
  queue,   \* the items pushed and not yet taken, oldest first
  held,    \* TRUE while an item has been taken and its room is not yet free
  push,    \* the producer's call: "idle", "pending", or the value it returned
  arg,     \* the item of the producer's last call
  pop,     \* the consumer's call: "idle", "pending", or the value it returned
  got      \* the item the consumer took last

vars == <<queue, held, push, arg, pop, got>>

CallStates == {"idle", "pending", "true", "false"}

Used == Len(queue) + (IF held THEN 1 ELSE 0)

Init ==
  /\ queue = <<>>
  /\ held = FALSE
  /\ push = "idle"
  /\ arg = NoItem
  /\ pop = "idle"
  /\ got = NoItem

-----------------------------------------------------------------------------
(* The producer *)

PushCall(item) ==
  /\ push # "pending"
  /\ push' = "pending"
  /\ arg' = item
  /\ UNCHANGED <<queue, held, pop, got>>

PushTrue ==
  /\ push = "pending"
  /\ Used < Room
  /\ queue' = Append(queue, arg)
  /\ push' = "true"
  /\ UNCHANGED <<held, arg, pop, got>>

PushFalse ==
  /\ push = "pending"
  /\ Used = Room
  /\ push' = "false"
  /\ UNCHANGED <<queue, held, arg, pop, got>>

-----------------------------------------------------------------------------
(* The consumer *)

PopCall ==
  /\ pop # "pending"
  /\ pop' = "pending"
  /\ UNCHANGED <<queue, held, push, arg, got>>

Take ==
  /\ pop = "pending"
  /\ ~held
  /\ queue # <<>>
  /\ got' = Head(queue)
  /\ queue' = Tail(queue)
  /\ held' = TRUE
  /\ UNCHANGED <<push, arg, pop>>

PopTrue ==
  /\ pop = "pending"
  /\ held
  /\ held' = FALSE
  /\ pop' = "true"
  /\ UNCHANGED <<queue, push, arg, got>>

PopFalse ==
  /\ pop = "pending"
  /\ ~held
  /\ queue = <<>>
  /\ pop' = "false"
  /\ UNCHANGED <<queue, held, push, arg, got>>

-----------------------------------------------------------------------------

Next ==
  \/ \E item \in Items : PushCall(item)
  \/ PushTrue
  \/ PushFalse
  \/ PopCall
  \/ Take
  \/ PopTrue
  \/ PopFalse

Spec == Init /\ [][Next]_vars
=============================================================================

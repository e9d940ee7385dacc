------------------------------ MODULE HFunnel -------------------------------
(***************************************************************************)
(* hfunnel.c: the lock-free multi-producer single-consumer linked queue.   *)
(*                                                                         *)
(* head_ptr points to the node popped last (first to the stub), tail_ptr   *)
(* to the node pushed last.  A push swaps its node into tail_ptr and only  *)
(* then links it from its predecessor: between the two steps the list is   *)
(* in pieces.  A pop frees the node it leaves behind, which the allocator  *)
(* may hand to the next push.  A step is one access to memory another      *)
(* thread can see; a node nobody else knows yet is filled in one step.     *)
(***************************************************************************)
EXTENDS Naturals, Sequences

CONSTANTS
  Producers,  \* threads that push: active-message handlers, mostly
  Values,     \* pointers pushed, never NULL in this library
  Nodes,      \* the addresses malloc can return for a node
  Null        \* the null pointer

ASSUME FunnelAssumption ==
  /\ Null \notin Nodes
  /\ Null \notin Values
  /\ Null \notin Producers

VARIABLES
  self,       \* the hfunnel_t itself: "live" or "freed"
  head_ptr,
  tail_ptr,
  live,       \* the nodes allocated
  next_ptr,   \* of each node
  value,      \* of each node
  ppc,        \* where each producer stands: "idle", "swap", "link"
  node,       \* each producer's new node
  prev,       \* the node each producer swapped out of tail_ptr
  arg,        \* each producer's argument
  cpc,        \* where the consumer stands: "idle", "look", "advance", "take", "free"
  old,        \* the head the consumer read
  next,       \* the successor the consumer read
  got,        \* what hfunnel_pop returned last
  chain       \* history: the nodes from head_ptr on, in the order of the swaps

memory == <<live, next_ptr, value>>
producers == <<ppc, node, prev, arg>>
consumer == <<cpc, old, next, got>>
vars == <<self, head_ptr, tail_ptr, memory, producers, consumer, chain>>

Init ==
  /\ self = "live"
  /\ head_ptr \in Nodes
  /\ tail_ptr = head_ptr
  /\ live = {head_ptr}
  /\ next_ptr = [n \in Nodes |-> Null]
  /\ value = [n \in Nodes |-> Null]
  /\ ppc = [p \in Producers |-> "idle"]
  /\ node = [p \in Producers |-> Null]
  /\ prev = [p \in Producers |-> Null]
  /\ arg = [p \in Producers |-> Null]
  /\ cpc = "idle"
  /\ old = Null
  /\ next = Null
  /\ got = Null
  /\ chain = <<head_ptr>>

(***************************************************************************)
(* hfunnel_push(self, v)                                                   *)
(***************************************************************************)

(* Allocate a node and fill it: value v, no successor. *)
PushAlloc(p, v) ==
  /\ self = "live"
  /\ ppc[p] = "idle"
  /\ \E n \in Nodes \ live :
       /\ live' = live \cup {n}
       /\ value' = [value EXCEPT ![n] = v]
       /\ next_ptr' = [next_ptr EXCEPT ![n] = Null]
       /\ node' = [node EXCEPT ![p] = n]
  /\ arg' = [arg EXCEPT ![p] = v]
  /\ ppc' = [ppc EXCEPT ![p] = "swap"]
  /\ UNCHANGED <<self, head_ptr, tail_ptr, prev, consumer, chain>>

(* Atomic exchange on tail_ptr. *)
PushSwap(p) ==
  /\ ppc[p] = "swap"
  /\ prev' = [prev EXCEPT ![p] = tail_ptr]
  /\ tail_ptr' = node[p]
  /\ chain' = Append(chain, node[p])
  /\ ppc' = [ppc EXCEPT ![p] = "link"]
  /\ UNCHANGED <<self, head_ptr, memory, node, arg, consumer>>

(* The locals of the call go out of scope. *)
PushReturn(p) ==
  /\ ppc' = [ppc EXCEPT ![p] = "idle"]
  /\ node' = [node EXCEPT ![p] = Null]
  /\ prev' = [prev EXCEPT ![p] = Null]
  /\ arg' = [arg EXCEPT ![p] = Null]

PushLink_FromTail(p) ==
  /\ ppc[p] = "link"
  /\ next_ptr' = [next_ptr EXCEPT ![tail_ptr] = node[p]]
  /\ PushReturn(p)
  /\ UNCHANGED <<self, head_ptr, tail_ptr, live, value, consumer, chain>>

PushLink_Lost(p) ==
  /\ ppc[p] = "link"
  /\ PushReturn(p)
  /\ UNCHANGED <<self, head_ptr, tail_ptr, memory, consumer, chain>>

(* prev->next = node *)
PushLink(p) ==
  /\ ppc[p] = "link"
  /\ next_ptr' = [next_ptr EXCEPT ![prev[p]] = node[p]]
  /\ PushReturn(p)
  /\ UNCHANGED <<self, head_ptr, tail_ptr, live, value, consumer, chain>>

(***************************************************************************)
(* hfunnel_pop(self)                                                       *)
(***************************************************************************)

PopCall ==
  /\ self = "live"
  /\ cpc = "idle"
  /\ old' = head_ptr
  /\ cpc' = "look"
  /\ UNCHANGED <<self, head_ptr, tail_ptr, memory, producers, next, got, chain>>

PopReturn(v) ==
  /\ got' = v
  /\ cpc' = "idle"
  /\ old' = Null
  /\ next' = Null

PopLook_NoNullTest ==
  /\ cpc = "look"
  /\ next' = next_ptr[old]
  /\ cpc' = "advance"
  /\ UNCHANGED <<self, head_ptr, tail_ptr, memory, producers, old, got, chain>>

(* head->next; a null successor is the end of the list, or a gap in it. *)
PopLook ==
  /\ cpc = "look"
  /\ \/ /\ next_ptr[old] = Null
        /\ PopReturn(Null)
     \/ /\ next_ptr[old] # Null
        /\ next' = next_ptr[old]
        /\ cpc' = "advance"
        /\ UNCHANGED <<old, got>>
  /\ UNCHANGED <<self, head_ptr, tail_ptr, memory, producers, chain>>

PopAdvance ==
  /\ cpc = "advance"
  /\ head_ptr' = next
  /\ chain' = Tail(chain)
  /\ cpc' = "take"
  /\ UNCHANGED <<self, tail_ptr, memory, producers, old, next, got>>

PopTake_FromOld ==
  /\ cpc = "take"
  /\ got' = value[old]
  /\ cpc' = "free"
  /\ UNCHANGED <<self, head_ptr, tail_ptr, memory, producers, old, next, chain>>

(* next->value *)
PopTake ==
  /\ cpc = "take"
  /\ got' = value[next]
  /\ cpc' = "free"
  /\ UNCHANGED <<self, head_ptr, tail_ptr, memory, producers, old, next, chain>>

PopFree_Next ==
  /\ cpc = "free"
  /\ live' = live \ {next}
  /\ PopReturn(got)
  /\ UNCHANGED <<self, head_ptr, tail_ptr, next_ptr, value, producers, chain>>

PopFree_Never ==
  /\ cpc = "free"
  /\ PopReturn(got)
  /\ UNCHANGED <<self, head_ptr, tail_ptr, memory, producers, chain>>

(* hfree(head): the block may be given out again, its content is gone. *)
PopFree ==
  /\ cpc = "free"
  /\ live' = live \ {old}
  /\ next_ptr' = [next_ptr EXCEPT ![old] = Null]
  /\ value' = [value EXCEPT ![old] = Null]
  /\ PopReturn(got)
  /\ UNCHANGED <<self, head_ptr, tail_ptr, producers, chain>>

(***************************************************************************)
(* hfunnel_destroy: frees the hfunnel_t and none of the nodes.  The code   *)
(* does not wait for a push in progress, so the caller has to: this is the *)
(* contract under which the model lets the owner call it.                  *)
(***************************************************************************)
Destroy ==
  /\ self = "live"
  /\ cpc = "idle"
  /\ \A p \in Producers : ppc[p] = "idle"
  /\ self' = "freed"
  /\ UNCHANGED <<head_ptr, tail_ptr, memory, producers, consumer, chain>>

-----------------------------------------------------------------------------

Push(p) == (\E v \in Values : PushAlloc(p, v)) \/ PushSwap(p) \/ PushLink(p)
Pop == PopCall \/ PopLook \/ PopAdvance \/ PopTake \/ PopFree

Next == (\E p \in Producers : Push(p)) \/ Pop \/ Destroy

Spec == Init /\ [][Next]_vars

(* A producer inside a call keeps running, as threads do, and the consumer *)
(* polls for ever (GASNET_BLOCKUNTIL in server_recv and client_recv).      *)
Fairness ==
  /\ \A p \in Producers : WF_vars(PushSwap(p)) /\ WF_vars(PushLink(p))
  /\ WF_vars(Pop)

FairSpec == Spec /\ Fairness

-----------------------------------------------------------------------------
(* Properties *)

Chain == {chain[i] : i \in 1 .. Len(chain)}

TypeOK ==
  /\ self \in {"live", "freed"}
  /\ head_ptr \in Nodes
  /\ tail_ptr \in Nodes
  /\ live \in SUBSET Nodes
  /\ next_ptr \in [Nodes -> Nodes \cup {Null}]
  /\ value \in [Nodes -> Values \cup {Null}]
  /\ ppc \in [Producers -> {"idle", "swap", "link"}]
  /\ node \in [Producers -> Nodes \cup {Null}]
  /\ prev \in [Producers -> Nodes \cup {Null}]
  /\ arg \in [Producers -> Values \cup {Null}]
  /\ cpc \in {"idle", "look", "advance", "take", "free"}
  /\ old \in Nodes \cup {Null}
  /\ next \in Nodes \cup {Null}
  /\ got \in Values \cup {Null}
  /\ chain \in Seq(Nodes)

(* The list is in one piece but for the gaps of the pushes in progress: its *)
(* ends are head_ptr and tail_ptr, no node is in it twice, each node leads  *)
(* to the next, or to nothing while the push that follows it is between its *)
(* exchange and its link (hfunnel.c:75-79).                                 *)
LinkedBut(i) ==
  \/ next_ptr[chain[i]] = chain[i + 1]
  \/ /\ next_ptr[chain[i]] = Null
     /\ \E p \in Producers :
          ppc[p] = "link" /\ prev[p] = chain[i] /\ node[p] = chain[i + 1]

ListShape ==
  /\ Len(chain) >= 1
  /\ chain[1] = head_ptr
  /\ chain[Len(chain)] = tail_ptr
  /\ next_ptr[tail_ptr] = Null
  /\ \A i, j \in 1 .. Len(chain) : chain[i] = chain[j] => i = j
  /\ \A i \in 1 .. Len(chain) - 1 : LinkedBut(i)

(* Every pointer about to be followed points to a node not yet freed: a     *)
(* producer's predecessor outlives its link, although the consumer frees    *)
(* nodes all the while; the consumer's head and successor do too.           *)
NoUseAfterFree ==
  /\ head_ptr \in live
  /\ \A p \in Producers :
       /\ ppc[p] = "swap" => node[p] \in live
       /\ ppc[p] = "link" => prev[p] \in live
  /\ cpc \in {"look", "advance", "take", "free"} => old \in live
  /\ cpc = "take" => next \in live

(* Every allocated node is accounted for exactly once: in the list, in the  *)
(* hands of a producer that has not yet exchanged it, or left behind by the *)
(* consumer and about to be freed.  So nothing leaks while the funnel lives *)
(* and nothing is freed twice.                                              *)
Private == {node[p] : p \in {q \in Producers : ppc[q] = "swap"}}
LeftBehind == IF cpc \in {"take", "free"} THEN {old} ELSE {}

NodesAccounted ==
  /\ live = Chain \cup Private \cup LeftBehind
  /\ Chain \cap Private = {}
  /\ (Chain \cup Private) \cap LeftBehind = {}
  /\ \A p, q \in Producers :
       ppc[p] # "idle" /\ ppc[q] # "idle" /\ node[p] = node[q] => p = q

(* What the threads remember of the list is still so. *)
LinkPending(p) ==
  \E i \in 1 .. Len(chain) - 1 :
    /\ chain[i] = prev[p]
    /\ chain[i + 1] = node[p]
    /\ next_ptr[prev[p]] = Null

LocalsCurrent ==
  /\ \A p \in Producers :
       /\ ppc[p] = "swap" => next_ptr[node[p]] = Null
       /\ ppc[p] = "link" => LinkPending(p)
       /\ ppc[p] # "idle" => value[node[p]] = arg[p]
  /\ cpc \in {"look", "advance"} => old = head_ptr
  /\ cpc = "advance" => next # Null /\ next = next_ptr[head_ptr]
  /\ cpc \in {"take", "free"} => next = head_ptr

IInv == TypeOK /\ ListShape /\ NodesAccounted /\ LocalsCurrent

-----------------------------------------------------------------------------
(* The mailbox the list implements. *)

(* The producer that has not linked the entry after place i yet. *)
Linker(i) ==
  IF next_ptr[chain[i]] = chain[i + 1]
    THEN Null
    ELSE CHOOSE p \in Producers : ppc[p] = "link" /\ node[p] = chain[i + 1]

Mail ==
  [i \in 1 .. Len(chain) - 1 |-> [value |-> value[chain[i + 1]], by |-> Linker(i)]]

Pushing ==
  LET stage == [idle |-> "idle", swap |-> "called", link |-> "placed"]
  IN  [p \in Producers |-> stage[ppc[p]]]

Popping ==
  LET stage == [idle |-> "idle", look |-> "called", advance |-> "called",
                take |-> "taken", free |-> "taken"]
  IN  stage[cpc]

(* The value is the consumer's as soon as the list has let go of its node. *)
Returned == IF cpc = "take" THEN value[next] ELSE got

Open == self = "live"

Mailbox == INSTANCE MpscMailbox WITH
  mail <- Mail, push <- Pushing, pop <- Popping, got <- Returned, open <- Open

(* The list is a mailbox: values come out in the order of the exchanges,    *)
(* each once and unchanged, so those of one producer in the order it pushed *)
(* them; pop finds nothing only if the oldest value is not there yet.       *)
RefinesMailbox == Mailbox!Spec

(* Every node pushed is popped sooner or later, unless the owner destroys   *)
(* the funnel: no push is left invisible behind a gap for ever.             *)
Delivery ==
  \A n \in Nodes :
    (\E i \in 2 .. Len(chain) : chain[i] = n) ~> (head_ptr = n \/ self = "freed")
=============================================================================

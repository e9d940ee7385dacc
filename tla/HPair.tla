------------------------------- MODULE HPair --------------------------------
(***************************************************************************)
(* hpair.c and hpipe.c: a bidirectional channel of two rings and two       *)
(* binary signals, and the pipes by which threads hold on to its two ends. *)
(*                                                                         *)
(* A pipe at endpoint e sends and signals in direction e and receives and  *)
(* waits in direction 1 - e (the function pointers set by hpipe_new).  A   *)
(* ring is a bounded FIFO here, which is what HQueue.tla shows it to be    *)
(* for one producer and one consumer; that a ring has no more than one of  *)
(* each is shown here.  A call that spins is a call that stays in progress *)
(* until the exchange or the push it tries succeeds.                       *)
(***************************************************************************)
EXTENDS Integers, Sequences, FiniteSets

CONSTANTS
  Pipes,    \* the hpipe_t objects, each used by one thread at a time
  Room,     \* how many messages each ring holds: hwm_0 and hwm_1 rounded, less one
  MaxMsgs,  \* bound: messages sent in one direction
  None      \* a pipe that has no endpoint

ASSUME PairAssumption ==
  /\ IsFiniteSet(Pipes)
  /\ Room \in [{0, 1} -> Nat \ {0}]
  /\ MaxMsgs \in Nat
  /\ None \notin {0, 1}

VARIABLES
  endpoint,  \* of the pair: 0 free, 1 taken
  signal,    \* one in each direction, 0 or 1
  queue,     \* one in each direction
  exited,    \* LOG_ERR ended the process
  ppc,       \* what each pipe is doing
  ep,        \* the endpoint of each pipe
  sent,      \* history: messages sent in each direction
  received,  \* history: messages received in each direction
  pending,   \* history: signals sent less signals awaited, in each direction
  crowded    \* history: has the pipe, since it began to connect, been one of three

pair == <<endpoint, signal, queue>>
history == <<sent, received, pending, crowded>>
vars == <<pair, exited, ppc, ep, history>>

Ends == {0, 1}
Other(e) == 1 - e

Init ==
  /\ endpoint = [e \in Ends |-> 0]
  /\ signal = [e \in Ends |-> 0]
  /\ queue = [e \in Ends |-> <<>>]
  /\ exited = FALSE
  /\ ppc = [p \in Pipes |-> "none"]
  /\ ep = [p \in Pipes |-> None]
  /\ sent = [e \in Ends |-> 0]
  /\ received = [e \in Ends |-> 0]
  /\ pending = [e \in Ends |-> 0]
  /\ crowded = [p \in Pipes |-> FALSE]

Goes(p, from, to) ==
  /\ ~exited
  /\ ppc[p] = from
  /\ ppc' = [ppc EXCEPT ![p] = to]

-----------------------------------------------------------------------------
(* hpipe_new and hpipe_destroy *)

Involved == {p \in Pipes : ppc[p] # "none"}
Connecting(p) == ppc[p] \in {"connect_0", "connect_1"}

(* hpipe_new allocates the pipe and goes on to hpair_connect. *)
New(p) ==
  /\ Goes(p, "none", "connect_0")
  /\ crowded' = [q \in Pipes |->
                   IF q = p \/ Connecting(q)
                     THEN crowded[q] \/ Cardinality(Involved \cup {p}) >= 3
                     ELSE FALSE]
  /\ UNCHANGED <<pair, exited, ep, sent, received, pending>>

Connect0_NoSwap(p) ==
  /\ ~exited
  /\ ppc[p] = "connect_0"
  /\ endpoint[0] = 0
  /\ ep' = [ep EXCEPT ![p] = 0]
  /\ ppc' = [ppc EXCEPT ![p] = "ready"]
  /\ UNCHANGED <<pair, exited, history>>

(* Compare-and-swap on endpoint 0. *)
Connect0(p) ==
  /\ ~exited
  /\ ppc[p] = "connect_0"
  /\ \/ /\ endpoint[0] = 0
        /\ endpoint' = [endpoint EXCEPT ![0] = 1]
        /\ ep' = [ep EXCEPT ![p] = 0]
        /\ ppc' = [ppc EXCEPT ![p] = "ready"]
     \/ /\ endpoint[0] = 1
        /\ ppc' = [ppc EXCEPT ![p] = "connect_1"]
        /\ UNCHANGED <<endpoint, ep>>
  /\ UNCHANGED <<signal, queue, exited, history>>

(* Compare-and-swap on endpoint 1; if it is taken as well, exit(1). *)
Connect1(p) ==
  /\ ~exited
  /\ ppc[p] = "connect_1"
  /\ \/ /\ endpoint[1] = 0
        /\ endpoint' = [endpoint EXCEPT ![1] = 1]
        /\ ep' = [ep EXCEPT ![p] = 1]
        /\ ppc' = [ppc EXCEPT ![p] = "ready"]
        /\ UNCHANGED exited
     \/ /\ endpoint[1] = 1
        /\ exited' = TRUE
        /\ UNCHANGED <<endpoint, ep, ppc>>
  /\ UNCHANGED <<signal, queue, history>>

Destroy_FreesBoth(p) ==
  /\ Goes(p, "ready", "none")
  /\ endpoint' = [e \in Ends |-> 0]
  /\ ep' = [ep EXCEPT ![p] = None]
  /\ UNCHANGED <<signal, queue, exited, history>>

Destroy_KeepsEnd(p) ==
  /\ Goes(p, "ready", "none")
  /\ ep' = [ep EXCEPT ![p] = None]
  /\ UNCHANGED <<pair, exited, history>>

(* hpipe_destroy: the endpoint is free again; messages and a signal on their *)
(* way stay where they are, for whoever connects next.                       *)
Destroy(p) ==
  /\ Goes(p, "ready", "none")
  /\ endpoint' = [endpoint EXCEPT ![ep[p]] = 0]
  /\ ep' = [ep EXCEPT ![p] = None]
  /\ UNCHANGED <<signal, queue, exited, history>>

-----------------------------------------------------------------------------
(* hpipe_send, hpipe_recv, hpipe_peek.  A message is its number in the      *)
(* order it was sent in its direction.                                      *)

Send(p) == Goes(p, "ready", "send") /\ UNCHANGED <<pair, exited, ep, history>>

SendPush(p) ==
  LET e == ep[p] IN
  /\ Goes(p, "send", "ready")
  /\ sent[e] < MaxMsgs
  /\ Len(queue[e]) < Room[e]
  /\ queue' = [queue EXCEPT ![e] = Append(@, sent[e] + 1)]
  /\ sent' = [sent EXCEPT ![e] = @ + 1]
  /\ UNCHANGED <<endpoint, signal, exited, ep, received, pending, crowded>>

Recv(p) == Goes(p, "ready", "recv") /\ UNCHANGED <<pair, exited, ep, history>>

Pop_Keeps(d) ==
  /\ queue[d] # <<>>
  /\ received' = [received EXCEPT ![d] = Head(queue[d])]
  /\ UNCHANGED <<pair, exited, ep, sent, pending, crowded>>

(* Take the oldest message of the ring in direction d. *)
Pop(d) ==
  /\ queue[d] # <<>>
  /\ queue' = [queue EXCEPT ![d] = Tail(@)]
  /\ received' = [received EXCEPT ![d] = Head(queue[d])]
  /\ UNCHANGED <<endpoint, signal, exited, ep, sent, pending, crowded>>

RecvPop(p) == Goes(p, "recv", "ready") /\ Pop(Other(ep[p]))

(* A peek that finds a message; one that does not changes nothing. *)
Peek(p) == Goes(p, "ready", "ready") /\ Pop(Other(ep[p]))

-----------------------------------------------------------------------------
(* hpipe_sgnl and hpipe_wait: compare-and-swap, again until it succeeds.    *)

Sgnl(p) == Goes(p, "ready", "sgnl") /\ UNCHANGED <<pair, exited, ep, history>>

SgnlSet_Overwrites(p) ==
  LET e == ep[p] IN
  /\ Goes(p, "sgnl", "ready")
  /\ signal' = [signal EXCEPT ![e] = 1]
  /\ pending' = [pending EXCEPT ![e] = @ + 1]
  /\ UNCHANGED <<endpoint, queue, exited, ep, sent, received, crowded>>

SgnlSet(p) ==
  LET e == ep[p] IN
  /\ Goes(p, "sgnl", "ready")
  /\ signal[e] = 0
  /\ signal' = [signal EXCEPT ![e] = 1]
  /\ pending' = [pending EXCEPT ![e] = @ + 1]
  /\ UNCHANGED <<endpoint, queue, exited, ep, sent, received, crowded>>

Wait(p) == Goes(p, "ready", "wait") /\ UNCHANGED <<pair, exited, ep, history>>

WaitClear_NoTest(p) ==
  LET d == Other(ep[p]) IN
  /\ Goes(p, "wait", "ready")
  /\ signal' = [signal EXCEPT ![d] = 0]
  /\ pending' = [pending EXCEPT ![d] = @ - 1]
  /\ UNCHANGED <<endpoint, queue, exited, ep, sent, received, crowded>>

WaitClear(p) ==
  LET d == Other(ep[p]) IN
  /\ Goes(p, "wait", "ready")
  /\ signal[d] = 1
  /\ signal' = [signal EXCEPT ![d] = 0]
  /\ pending' = [pending EXCEPT ![d] = @ - 1]
  /\ UNCHANGED <<endpoint, queue, exited, ep, sent, received, crowded>>

-----------------------------------------------------------------------------

Lifecycle(p) == New(p) \/ Connect0(p) \/ Connect1(p) \/ Destroy(p)
Call(p) == Send(p) \/ Recv(p) \/ Peek(p) \/ Sgnl(p) \/ Wait(p)
Return(p) == SendPush(p) \/ RecvPop(p) \/ SgnlSet(p) \/ WaitClear(p)

Next == \E p \in Pipes : Lifecycle(p) \/ Call(p) \/ Return(p)

Spec == Init /\ [][Next]_vars

-----------------------------------------------------------------------------
(* Properties *)

TypeOK ==
  /\ endpoint \in [Ends -> {0, 1}]
  /\ signal \in [Ends -> {0, 1}]
  /\ queue \in [Ends -> Seq(1 .. MaxMsgs)]
  /\ exited \in BOOLEAN
  /\ ppc \in [Pipes -> {"none", "connect_0", "connect_1", "ready",
                        "send", "recv", "sgnl", "wait"}]
  /\ ep \in [Pipes -> Ends \cup {None}]
  /\ sent \in [Ends -> 0 .. MaxMsgs]
  /\ received \in [Ends -> 0 .. MaxMsgs]
  /\ pending \in [Ends -> {0, 1}]
  /\ crowded \in [Pipes -> BOOLEAN]

(* Each ring has one producer and one consumer at most: no two pipes are at *)
(* the same endpoint, whatever threads connect and disconnect.  This is     *)
(* what HQueue.tla takes for granted (hpair.c:66, 71; hpair.c:11-15).       *)
OneUserPerSide == \A p, q \in Pipes : ep[p] # None /\ ep[p] = ep[q] => p = q

(* An endpoint is taken exactly while a pipe is connected to it: none is    *)
(* leaked by a disconnect, none is freed under a pipe that still uses it.   *)
EndpointsHeld ==
  /\ \A e \in Ends : endpoint[e] = 1 <=> \E p \in Pipes : ep[p] = e
  /\ \A p \in Pipes : ep[p] = None <=> ppc[p] \in {"none", "connect_0", "connect_1"}

(* The two rings deliver what was sent, in order and once, across any       *)
(* change of the threads at the ends.                                       *)
MessagesConserved ==
  \A e \in Ends :
    /\ Len(queue[e]) + received[e] = sent[e]
    /\ \A i \in 1 .. Len(queue[e]) : queue[e][i] = received[e] + i

(* Signals and waits alternate: no signal is lost in another, none is       *)
(* awaited twice (hpair.c:166-204).                                         *)
SignalsConserved == \A e \in Ends : pending[e] = signal[e]

(* The process exits with "More than 2 threads are trying to connect to a   *)
(* pair at once" (hpair.c:77) only if that was so at some moment of the     *)
(* connect that failed: the two exchanges are separate steps, and ends may  *)
(* be freed and taken again between them.                                   *)
ErrorJustified == exited => \E p \in Pipes : ppc[p] = "connect_1" /\ crowded[p]
=============================================================================

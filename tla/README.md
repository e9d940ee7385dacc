# hiccup in TLA+

hiccup is a C library for programs that run on the nodes of a GASNet job and
talk through sockets in the manner of zeromq: a *server* socket is bound to an
endpoint of its node, *client* sockets of any node connect to it, and either
side sends messages described by a *picture* (`"i4sbp"`: integers, strings,
binary chunks, pointers). Inside a node, threads talk through *pairs*, *pipes*
and *actors*. This directory holds a TLA+ model of the library, the TLC runs that
check it, and TLAPS proofs of its safety properties for instances of every size.

Paths below are those of the repository: `src/*.c` and `include/*.h`.

## 1. Inventory

| component | source | state it keeps | operations | used by |
|---|---|---|---|---|
| SPSC ring | hqueue.c | four indices, two of them private copies of the other side's; the slots | try_push, try_pop | hpair |
| MPSC list | hfunnel.c | head and tail pointers, the `next_ptr` of every node | push, pop, destroy | hsock: the mailbox |
| pair, pipe | hpair.c, hpipe.c | two endpoint flags, two rings, two signal words | connect, disconnect, send, recv, peek, sgnl, wait | hactor, user threads |
| actor | hactor.c | a pair, two pipes, a thread | new, send, recv, sgnl, wait, destroy | user |
| message | hmsg.c | a picture and a buffer of elements | vset, vget, destroy | hpipe |
| registry | hctx.c:148-227 | bitmap of socket ids, mailbox of each id, endpoint map, a lock | register, unregister, bind, unbind, mailbox_at | hsock, the connect handler |
| hash table | khash.h | buckets with a flag, a key and a value each | get, put, growth | registry: the endpoint map |
| node | hctx.c:32-122 | the published address of its context, table of the peers' context addresses | new (attach, exchange between two barriers), destroy (one more) | user |
| socket, transfer | hsock.c:84-317, 496-570 | `atomic64`, one buffer, the mailbox, frame arrays | send, recv, peek and four AM handlers | user |
| socket, life | hsock.c:321-494, 574-688 | `conn_status`, the server or client object | new, bind, unbind, connect, disconnect, destroy and two AM handlers | user |

How they interact:

- `hsock_send` calls `flood`, which exchanges active messages (AMs) with the
  destination node. The handlers there allocate frame arrays, fill them and push
  them to the destination's mailbox, an `hfunnel`. All replies go to one
  word of the sending socket, `atomic64`, which stands for an address, then for
  a count, then for a flag.
- `hsock_connect` sends the address of its `atomic64` to the server's node, whose
  handler looks the endpoint up in the registry and replies with the mailbox.
- `hpipe_vsend` packs an `hmsg` and pushes it to one of the pair's two rings; the
  pipe of the other endpoint pops it. Signals are one-bit words beside the rings.
- `hactor_new` makes the pair and both pipes and starts a thread on one of them.

What is hard here:

- *interleaving*: the three lock-free structures (ring, list, endpoint flags);
  the AM handlers that run in whatever thread polls; the registry's bitmap,
  which is changed in part outside the lock.
- *ordering*: AMs arrive in any order; the pieces of a payload overtake each
  other; `atomic64` is reused for three purposes.
- *life cycles*: nodes of the list are freed while producers are about to write
  to their successors; an actor's pair is freed on the strength of a count of
  signals; endpoints are handed from thread to thread.
- *blocking*: everything that waits, spins. Full rings, unanswered signals and
  nodes that do not poll stop the others.

The correctness properties of each component are listed with its module
below; `PROJECT.json` lists the hazards by line.

## 2. Plan

In order of writing; done unless said otherwise.

Each component's theorems are in a module of their own, `...Proofs`.

1. `SpscFifo`, `HQueue`, `HQueueProofs`: the ring, its refinement of a FIFO, proofs.
2. `MpscMailbox`, `HFunnel`, `HFunnelProofs`: the mailbox list, likewise.
3. `SocketMail`, `HFlood`: the transfer of a message over unordered AMs, on top
   of mailboxes as `MpscMailbox` specifies them.
4. `HPair`: pair and pipe on top of rings as `SpscFifo` specifies them;
   `HActor` composes it with two threads.
5. `HCtx`: the registry.
6. `HSock`: the life of a socket against AMs in flight: the handshake on top of the
   registry as `EndpointsLeadHome` describes it, sends as one request and reply.
7. `KHash`: the hash table, as operators on records; `HNode`: the start and end of
   the nodes, on top of `HCtx` and with its map kept in a `KHash` beside it.
8. `HMsg`: packing a picture and unpacking it again, element by element, for pipes
   and for sockets.
9. `RoundUp`: the rounding of capacities, as a function.
10. `HPairProofs`, `HActorProofs`, `HNodeProofs`, `HSockProofs`, `HFloodProofs`, `HMsgProofs`: the
    safety properties of all other components, and the refinements of `SocketMail` and `MpscMailbox`.
11. In `HNodeProofs`, the hash table: probing, search, rehashing, and with them `TableTrue`;
    in `HActorProofs`, any schedule of two scripts against the sequential one.
    No module with a theorem reaches a RECURSIVE operator; `RoundUp` does, through `Bitwise`, and is
    only used by `MCHQueue`.

## 3. The modules

### SpscFifo, HQueue (hqueue.c)

`SpscFifo` promises a bounded FIFO: a push succeeds and appends, or fails; a
pop returns the oldest item, or fails. `HQueue` has one step per access to a word the other side
uses. `PushBegin` is the test with the private copy of `head`, `PushReload` its
second operand, the load of the real one; `PushWrite` the slot, `PushPublish` the store of `tail`. The pop
mirrors it. `RefinesFifo` maps the FIFO's contents to the slots from `head` to
`tail`.

Properties: `SlotRaceFree` (producer and consumer never at one slot at the same
time), `CursorsConservative` (the private copies can only make the ring look
fuller, respectively emptier, than it is), `RefinesFifo`.

`CapacityHonoured` states what include/hqueue.h:13 says of the capacity ("the
actual capacity will be at least this"); the run `hqueue_capacity` shows a ring
made for four refusing the fourth item, since the ring is rounded up to a
power of two and one slot always stays free.

`RoundUp` has that rounding as the code does it, by shifts and ors; the assumption
`RoundedAssumption` of `MCHQueue` compares it with the definition of the least power of two
that is enough, for capacities around every carry, and `SizeRounded` says that the
rings of the runs have the size the function gives.

### MpscMailbox, HFunnel (hfunnel.c)

`MpscMailbox`: a push places its value, and the value becomes available in a
later step; a pop returns the oldest if that is available, and may return nothing
if there is a gap in front of it. That is the strongest promise the code keeps:
a producer that has exchanged the tail and not yet linked its node hides
everything behind it.

`HFunnel` models nodes as addresses that are allocated, freed and allocated
again. `PushSwap` is the atomic exchange, `PushLink` the store of `next_ptr`;
between the two the list is in pieces. `PopLook` reads the dummy's successor,
`PopAdvance` moves `head_ptr`, `PopTake` reads the value, `PopFree` frees the old dummy.
`Destroy` is `hfunnel_destroy`, which frees only the `hfunnel_t` and leaves the last dummy behind;
it is only enabled when nobody is inside a call: it is the caller's duty not to
destroy a list in use.

Properties: `ListShape` (from the head one reaches the tail, through links and
the gaps of pushes in progress, every node in use once), `NoUseAfterFree`,
`NodesAccounted` (every allocated node is in the list, or a producer's, or the
consumer's: no leak and no double free while the list lives), `RefinesMailbox`, and `Delivery`.

### SocketMail, HFlood (hsock.c:84-317, 496-570)

`SocketMail`: a send puts the message in the inbox of its destination once,
before it returns. `HFlood` follows `flood`: `Send` serializes, clears `atomic64`
and sends the picture; `PictureAnswered` gets the address of the frame array at
the destination; `SendChunk` and `NextFrame` are the two loops;
`ChunksAnswered` is the compare-and-swap on the count; `TerminationAnswered` the end.
`OnPicture`, `OnPayload`, `OnTermination` and `OnReply` are the handlers.

What is abstracted: payloads are sequences of bytes which know their message and
place; the elements of the picture other than payloads travel in the picture
message and are one value (`HMsg` has them). A handler is one step, with its reply: nothing another
thread can observe lies between its effect and the reply except the delay of
the reply, and the network delays at will. The push to the mailbox is one step;
the gap `HFunnel` shows between placing and linking is closed before the handler
replies, so a sender never relies on a message that is still hidden. A frame
array is identified by its address; one pool of addresses stands for the heaps
of all nodes, which only makes mistaken identities more likely.

Properties: `AnswersAccounted` (answers of one phase are never left for the
next, whatever `atomic64` stands for), `PiecesHaveRoom` (a piece in flight has an
array, the right one, with room for it), `ArraysAccounted` (each frame array has
one owner on its way from the handler through sender and mailbox to the
receiver), `RefinesMail` (which includes that a message in a mailbox has every byte in
place: the abstract inbox holds what can be read from the arrays), and under fairness
`SendReturns` and `AllReceived`.

### HPair (hpair.c, hpipe.c)

`Connect0` and `Connect1` are the two exchanges of `hpair_connect` on the endpoint
flags; `Destroy` frees the endpoint; send, receive, signal and wait are a call and a
step that succeeds when it can (the code spins). The rings are FIFOs, which is what
`RefinesFifo` gives provided each has one producer and one consumer:
`OneUserPerSide` discharges that. The room of a ring is a constant, `Room`.

Properties: `OneUserPerSide`, `EndpointsHeld` (an endpoint is taken exactly while
a pipe is connected to it), `MessagesConserved` (in order and once, across any
change of threads), `SignalsConserved` (a signal is never merged with another),
`ErrorJustified` (the exit with "More than 2 threads ..." happens only if there
were).

### HActor (hactor.c)

`HActor` extends `HPair` with two threads that each follow a script, a sequence of
sends, receives, signals and waits: the owner's between `hactor_new` and
`hactor_destroy`, which add a wait at each end, and the handler's, to which
`run` adds a signal. `ActorInit` picks any pair of scripts whose calls match in
number. That is the contract of use (`Matched`), nowhere written in
the library but needed: a handler that signals once more than its owner waits has
its pair freed under it. A peek does not block and is left out of the scripts.

Properties: `OutlivesUse` (when freeing begins, the handler is done),
`NothingLeft` (the questions of hpipe.c:72 and hpair.c:85, what becomes of data
and signals left in a pair that is freed: with matching calls there are none),
`AnySchedule` (whether a pair of scripts runs to its end does not depend on the
schedule; the reference is a sequential execution).

### HCtx (hctx.c:148-227)

`Register...` are the steps of `hctx_register`: the search under the lock, then,
unlocked, the load and the store that clear the bit, then the mailbox.
`Unregister...` likewise. The endpoint map is only touched under the
lock, so `Bind` and `Unbind` are one step each.

Properties: `StatusTrue` (the ids of sockets are marked used, and no two sockets
share one), `NoIdLost` (an id neither free nor used does not exist; the process
ends for want of an id only when all have owners), `EndpointsLeadHome` (a
connection request finds exactly the socket that is bound).

`StatusTrue` fails when two threads create sockets at the same time: the run
`hctx_race`. The passing run is `hnode`, in which no socket is created while another
one is being created or destroyed (`OneAtATime`); under that
contract everything holds, with binds, unbinds and destructions concurrent.

### KHash, HNode (khash.h, hctx.c:32-122)

`KHash` is the part of khash.h that `hctx.c` uses, for integer keys: `Probe` is the
triangular sequence of buckets a key tries, in closed form; `kh_get` and `kh_put`
search along it; `kh_resize` moves the entries into twice the buckets *within the same
arrays*, and an entry that lands on one that has not moved yet takes its
place and moves that one on (`KickOut`). `Begin` is the state of the arrays in front of that loop, and
`Rehash` the loop as a recursive function of the number of steps, two per entry at most.

`HNode` extends `HCtx`. Each node goes through the places of its program:
`Publish` (up to the first notify), `Published` (the wait), `Fetch` (one context address
of the table), `Fetched` (the second wait), `MakeRegistry`; the program's
own part; `Free`, `Leave`, `Exit`. A barrier lets a node pass when every node has notified
as often. `Connect` puts a request with the address that the table holds in flight,
`OnConnect` handles it at any later moment. The registry of node 0 is the one of
`HCtx`, its sockets working while the node is "up"; every bind and unbind acts on the hash
table as well, and so does a bind that is refused (`BindRefused`), which may make the table grow.

Between `ready` and `done` there may be barriers of the program itself, one before its
first connect and one after its last (`Meets`). The library needs both and has
neither: its own last barrier of `hctx_new` is in front of the making of
the registry (hctx.c:77-91), and that of `hctx_destroy` behind the freeing (hctx.c:115-119).
With them everything holds; without, the run `hctx_end` shows a request handled
with a context that has been freed, where hsock.c:480 asserts that it is one.

Properties: those of `HCtx`; `PeersKnown` (a node that leaves the exchange has the address
of every context, in whatever order the nodes start), `RegistryThere` (a connection request in
flight is addressed to the right context, and finds the registry made and not freed),
`TableTrue` (the hash table agrees with the map it implements, through collisions,
refused binds and growth).

### HMsg (hmsg.c; hsock.c:84-257, 496-516)

A picture is a sequence of letters; `Init` picks one, a carrier (`"msg"` for a pipe, `"sock"` for
a socket) and the elements for which the receiver passes a null pointer. `Vset` and `Serialize` are one
turn of the packing loops, `SerializeSizes` the sizes of the chunks that go behind the
numbers, `OnPicture` the handler that finds them there counting from the end, `Vget` and
`Deserialize` one turn of the unpacking loops. A byte is known by the element it is of and its place
in it, so that a value read from the wrong offset shows. `heap` is what is allocated
on the way. The `'s'` that may lead a receiver's picture reads the header and is in
`HSock`, as `heard`. Sender and receiver use the same picture; nothing in the code checks that.

Properties: `BufferEnough` (8 bytes per element are enough for every picture of a pipe; the
4000 bytes of a socket, which are never tested, for pictures whose elements at 8 bytes each fit
in them), `RoundTrip` (what was sent is what is received, as long as no element of the same
stream, numbers or chunks, was declined before: declining does not step over the element, and
what follows gets the value of another. It still gets only bytes of the message's numbers, and a
whole chunk with its own size that no other variable gets: nothing is read past the end
and no chunk is freed twice), `LeftBehind` (a pipe's message is freed entirely; a socket's leaves the copy of the
picture and every declined chunk allocated).

### HSock (hsock.c:321-494, 574-688)

Sockets are objects that are made and destroyed again and again and may be servers
or clients in turn; their mailboxes get any free address. `Connect` and
`ConnectReturn` are the two halves of `client_new`, `OnConnect` and `OnConnectReply`
the handlers between them. `Unbinding` and `Disconnecting` are the destructors of the
derived objects, which `hsock_unbind`, `hsock_disconnect` and `hsock_destroy` call.
`Destroy` and `DestroyFree` are the halves of `hsock_destroy`, before and after the
socket is off the map. `heard` is the caller's variable for the address that
`hsock_recv(..., "s...")` gives a server. The single pop of `hsock_destroy`, there for a warning,
belongs to `DestroyFree`, which frees the mailbox. `seen` is a history variable.

Properties: `RepliesAwaited` (a reply finds its sender still in the call, so
`atomic64` is neither freed nor in use for something else), `ConnectHonest` (success
and failure of a connect are right at some moment of the call), `NoDangling`
(no address that anyone holds or that is on its way leads to freed memory, or,
addresses being given out again, to another socket).

`hsock_destroy` waits for nobody, so these need a contract. `CarefulSpec` is what a
caller can see to: nobody is connected to the socket, sends to it, or remembers
it. It is not enough: the run `hsock_close` shows a server destroyed while the reply
to a connect carries its address, and the assertion of hfunnel.c:66 failing
when the client sends. `QuietSpec` adds that no socket of the job is inside a
connect when one is destroyed, and under that everything holds.

## 4. The runs

| run | instance | shows |
|---|---|---|
| hqueue | 4 slots, 3 items | both indices wrap while the other side lags by any amount |
| hqueue_capacity | capacity 4 | the refused fourth push (violation) |
| hfunnel | 2 producers, 4 addresses, 2 values | two gaps at a time; addresses recycled; refinement; delivery |
| hflood | 1 client, 1 server, 2 messages each, without payload or with payloads of 0 and 3 bytes in pieces of 2; 2 addresses | all phases of both directions interleaved; addresses recycled; refinement; every send returns, every message arrives |
| hpair | 3 threads, 2 messages per direction | connect and disconnect at every point; the third thread's error |
| hactor | all matching scripts of up to 3 calls, rings of 1 | blocking on full rings, crosswise waits |
| hnode | 2 nodes, of which the one without registry connects; 5 sockets, 4 ids in 2 words, 3 endpoints that collide | every order of starting and ending; exhaustion, reuse of ids, rebinding; growth of the hash table |
| hctx_end | 2 nodes, no barriers of the program | a connect to a node that has freed its context (violation) |
| hctx_race | 2 sockets, 4 ids | an id handed out twice (violation) |
| hsock | 3 sockets, 3 addresses, 1 endpoint, mailboxes of 1 | servers replaced during connects; addresses recycled |
| hsock_close | 2 sockets | a connect that crosses a destroy (violation) |
| hmsg | every picture of up to 3 elements of 9 kinds, one of them invalid; every choice of null pointers; a socket's buffer of 16 bytes | offsets, widths, overruns, leaks |

Why the bounds are enough. The ring is symmetric under rotation, and four slots
have every relation of two indices and two copies of them: equal, adjacent,
opposite, full. The list can hold at most
one gap per producer; two show how gaps meet (that more of them change nothing is
proved), and a freed address is dangerous only if it is allocated again while someone
still has it: one address more than those pinned by producers, dummy and consumer
does that. `flood` treats payloads and pieces uniformly: none, a
payload of no bytes, a full piece and a rest are the cases of its loops (a payload that ends with a
full piece leaves them by the same test as one that ends with a rest), and two messages per socket are the first at which something can
be left over for the next. `hpair` needs a third thread for its error and no
fourth. In `hnode` two words of the bitmap are the first at which the search
goes on, and one socket more than there are ids makes it fail. Two nodes are the first that can be
out of step, and what a barrier orders it orders for any two: which of them connects (`Callers`) makes no
difference to the barriers, and a call in the other direction reaches no registry that is modelled. Endpoints 1, 5 and 9 begin at one bucket of
four; three fill the table to its bound, so the next bind, of any of them,
makes it grow to eight buckets, where 1 and 9 still meet. In `hmsg` a message of three has an
element before and one behind any element, of any width, and a buffer of two large elements is
overrun by three.
In `hsock` two servers and a client, or two clients and a server, meet at one
endpoint; with as many addresses as sockets a freed address is soon
used again. Bounds in guards are `MaxSends` (HFlood), `MaxMsgs` (HPair) and `Room` (HSock:
the messages in a mailbox), and in an initial state `MaxElements` (HMsg); all else is finite by itself.

`CHECK_DEADLOCK FALSE` is set where the system may stop: a bounded program that
is done, a destroyed list, scripts that block each
other, a message that has arrived. `hqueue` has no such end and is checked for deadlock; so
is `hnode`, whose end, all nodes gone or the process exited, is the step `Over`: any
other stop would be a barrier that never opens.

**Contracts.** Four things are taken from the program that uses the library, because the code does not see to
them, and the properties of these runs hold under them only:

| contract | runs | without it |
|---|---|---|
| one socket is created at a time (`OneAtATime`) | hnode: `StatusTrue`, `NoIdLost`, `EndpointsLeadHome` | hctx_race |
| a barrier of the program's own after `hctx_new` and before `hctx_destroy` (`Meets`) | hnode: `RegistryThere` | hctx_end, for the second |
| a socket is destroyed when no connect is on its way and nobody uses it (`QuietSpec`) | hsock: `NoDangling` | hsock_close |
| the calls of an owner and its handler match in number (`Matched`) | hactor | stated only: no run shows what surplus calls do |

They assume the hazards away that they name: that a second creator, an early end or a surplus signal
does harm is what the code does, and no passing run would notice it.

## 5. Fairness

- `HFunnel`: a producer inside `push` goes on, for a thread that is scheduled
  does; the consumer keeps polling the mailbox, as `GASNET_BLOCKUNTIL` does. No
  fairness makes a producer call.
- `HFlood`: a socket in `flood` takes its steps (it spins in
  `GASNET_BLOCKUNTIL`), the owner of a socket keeps receiving, and every AM in
  flight is handled some day. GASNet gives the last only if every node
  keeps calling into it, for it runs handlers when it is polled: a node that
  computes for ever makes its peers wait for ever. Liveness is relative to that.
- `HActor`: both threads run.
- `HCtx`, `HNode`, `HPair`, `HSock` and `HMsg` are checked for safety only.

All are weak fairness; no step competes for a resource that others take away
again and again.

## 6. Proofs

Eight modules are checked by TLAPS, for all values of the constants. Every safety
property of the passing runs is a theorem, and so are the three refinements. Of `AnySchedule`,
which is part safety and part liveness, the safety is proved and the deadlock freedom behind its
liveness.

| module | theorems (the property each states) |
|---|---|
| HQueueProofs | `TypeCorrect` (TypeOK), `CursorSafety` (CursorsConservative), `RaceFreedom` (SlotRaceFree), `Refinement` (RefinesFifo) |
| HFunnelProofs | `TypeCorrect` (TypeOK), `Shape` (ListShape), `MemorySafety` (NoUseAfterFree), `NoLeak` (NodesAccounted), `FunnelImplementsMailbox` (RefinesMailbox) |
| HPairProofs | `RingsAreSpsc` (OneUserPerSide), `EndpointsAreHeld` (EndpointsHeld), `MessagesAreConserved` (MessagesConserved), `SignalsAreConserved` (SignalsConserved), `ErrorIsJustified` (ErrorJustified) |
| HActorProofs | `ActorIsAPair` (ActorSpec => HPair's Spec), `ActorTypes` (ActorTypeOK), `ActorOutlivesUse` (OutlivesUse), `ActorLeavesNothing` (NothingLeft), `ActorChannel`; of schedules: `FreedOnlyIfSequential`, `StuckInAnySchedule` (AnySchedule, of scripts that get stuck), `ScriptsNeverStuck` |
| HNodeProofs | of the registry: `StatusIsTrue` (StatusTrue), `NoIdIsLost` (NoIdLost), `EndpointsAllLeadHome` (EndpointsLeadHome); of the nodes: `NodeTypes` (NodeTypeOK), `PeersAreKnown` (PeersKnown), `RegistryIsThere` (RegistryThere), `NodesImplementRegistry` (NodeSpec => OneAtATimeSpec), `NodeRegistry`, `BarriersOpen`; of the hash table: `TableIsTrue` (TableTrue), `ProbesCover`, `GetFinds`, `ResizeKeeps`, `PutKeeps` |
| HSockProofs | `SocketTypes` (TypeOK), `RepliesAreAwaited` (RepliesAwaited), `ConnectIsHonest` (ConnectHonest), `CallsAreAnswered`, `NothingDangles` (NoDangling, of QuietSpec) |
| HFloodProofs | `FloodTypes` (TypeOK), `AnswersAreAccounted` (AnswersAccounted), `PiecesFit` (PiecesHaveRoom), `ArraysAreAccounted` (ArraysAccounted), `SendsAlwaysGoOn`, `FloodImplementsMail` (RefinesMail) |
| HMsgProofs | `BufferIsEnough` (BufferEnough), `RoundTripHolds` (RoundTrip), `LeftBehindHolds` (LeftBehind) |

**Assumptions.** They are named in the modules that declare the constants, and say
two kinds of things: sizes and counts are (positive) natural numbers, and
placeholders are not confused with what they stand in for. Of the second kind: the null pointer
is no address, value, thread, id or endpoint (`HFunnel`, `HCtx`); the maximum of 64 bits and the mark
of a freed word are no addresses, and what is freed is no mailbox (`HSock`);
no frame array is the mark for none (`HFlood`). `HActor` assumes that scripts are made of the four
calls, `HPair` that there are finitely many pipes. `BufferIsEnough` and the other theorems of `HMsg` need
nothing of the letters: a letter no side knows ends the process.

**HQueue.** The invariant is `IInv == TypeOK /\ CursorsConservative /\ SlotHoldsItem`.
The ring's arithmetic is modulo `Size`, so the proof first restates it as a set of
occupied slots; `CursorsConservative` says on which side of the real index the
copy lies, which is what a push needs to conclude from the copy that its
slot is free, and `SlotHoldsItem` that every slot between `head` and `tail` has an
item. For the refinement each step is shown to be a step of the FIFO or a stutter.

**HFunnel.** `IInv == TypeOK /\ ListShape /\ NodesAccounted /\ LocalsCurrent`.
`NoUseAfterFree` is not inductive: that the node a producer is about to link
behind is still allocated follows from `ListShape`, since the consumer only
frees a node it has left by a link, and that link is exactly what the producer has
not made yet. `LocalsCurrent` ties the pointers in the locals of the calls to
the list. The refinement rests on one lemma more, `LinkersAreTrue`: a place of the list that is not
linked has exactly one producer that will link it, a linked one none. So
the exchange of the tail places a value, the link shows it, and `PopLook` finds a null
successor exactly when the mailbox has nothing visible in front.

**HPair.** `IInv` is the conjunction of the checked properties and of
`CrowdCounted`, which `ErrorJustified` needs: a pipe that meets two taken endpoints can conclude that there were
two others only if it is known what it has missed since it began to
connect. With `OneUserPerSide` the proof of `HQueue` applies to the two rings, whose contract it is.

**HActor.** The proof first shows that an actor's steps are steps of the pair
(`ActorIsAPair`), and takes over the invariant of `HPair`. On top of it come `Staged` (what the two pipes are
doing in each stage of the actor object) and `Balance` (a signal or message on its way
is the difference between the calls made at its two sides). Counting calls, with the cardinality
of the sets of their places in the scripts, `Matched` then makes the last wait of the owner
the proof that the handler has made its last call, and every queue empty by then.

That the schedule decides nothing rests on one lemma, `FurtherIsNoWorse`: a call that goes
through still does when the other side has gone further, for that side has then taken at least as
much and given at least as much. It holds of any two places of a run that keep the `Books`, of which the threads' (`Now`) and the
sequential run's are two. If one is stuck, no run ever gets ahead of it: the first call that did would go
through there as well. The sequential run ends where nothing goes through (it makes a call each turn or is stuck, and has as many turns as
there are calls), so the threads never get ahead of it (`NotAhead`), and an actor that comes to its end shows that
the sequential run does. The other way round, if the threads get stuck, the sequential run does not get
ahead of them; so when it completes they are never stuck (`NeverStuck`).
`NeverStuck` speaks of room and signals, not of the bound `MaxMsgs`.

**HCtx, HNode.** `RegInv` adds to the properties what a thread knows between two steps (`Known`: the words
of the bitmap that it has found empty stay so, the word it is about to write back is current), which is
true because the lock excludes some steps and `OneAtATime` the rest; without it `hctx_race`
shows the word stale. `HNode`'s registry is then shown to make only steps of `HCtx`
under that contract. For the nodes, `BarriersHold` counts: nobody has passed a barrier that someone has not
notified, so a node past the exchange knows that all have published, and with the program's own
barriers (`Meets`) nobody has freed while anyone may still connect. The counts also show that the nodes never all
wait for each other (`BarriersOpen`): a node that has notified the least waits for nobody, and if those have all left,
all have notified the same.

**KHash.** A power of two is here a number whose divisors are 1 or even; that is what the proof that
triangular steps meet every bucket needs: two equal probes l < m make a power of two divide (m - l)(m + l + 1), of
which one factor is odd, so it divides the other, which is too small (`ProbesDiffer`); n different
probes then meet all n buckets (`ProbesCover`). `Intact` says that a search for a key that is there ends at its
bucket, which gives `GetFinds`. What a put changes is the one bucket where its search ends, and a
search stays as it was when a bucket it passes or does not come to gets an entry (`SearchStays`). `Moving` is the
invariant of the kick-out loop: the entries are those in the buckets to be moved, those in the buckets that have
got theirs and the one in hand, no key twice, and each that has been put is where a search through the buckets taken
so far ends. Each step leaves less to be done (`Left`: two for an entry to be moved, one for the one in hand), so the loop
ends with everything put. `TableInv` adds that the entries are the map, for the endpoints ever bound.

**Induction.** Those two proofs go by induction on the number of steps of a recursive function. The
induction theorems of the library take an operator as a parameter, which no prover here can instantiate; so the
proofs use `LeastNumber` instead, that a set of numbers that is not empty has a least one: the least number for
which the claim fails cannot be. `RunExists` shows in that way that the recursive function is what its definition says.

**HSock.** `CallInv` ties each active message to the call its socket is in (`NetTrue`, one message
at a time), and the map, the status words and the owners of the mailboxes to each other. That needs no
contract, and gives `RepliesAwaited` and `ConnectHonest` for every behaviour. With `CallsAnswered`, the converse of
`NetTrue`, a call that waits and has no answer yet has a message in flight (`CallsAreAnswered`); a message to a mailbox
that has been freed is the end of the program, which `NoDangling` excludes. `NoDangling` needs `QuietSpec`, where the addresses
that a connect has seen are still those of live sockets because none is destroyed meanwhile.

**HFlood.** `IInv` has four parts: types; for each phase of a send, what its word may hold and which of its AMs
are in flight (`PicturePhase`, `ChunksPhase`, `TermPhase`); where each frame array is, with exactly one
owner (`Placed`); and that what has arrived is whole (`Delivered`). The heart is `ChunksPhase`: every byte behind the cursor
is in place or in a piece in flight, and pieces and acknowledgements in flight plus the
count in the word are the pieces sent. So when the count is reached nothing is in flight and all
bytes are in place, however the pieces overtook each other, and the termination may be sent. The phases also
say that a send whose word is not what it polls for has an active message in flight (`SendsAlwaysGoOn`); that
these are handled is the fairness of `SendReturns`, which TLC checks. The refinement
of `SocketMail` maps the termination's push to the arrival of the message.

**HMsg.** `MInv` describes the stream while it is packed and after: each number is one contiguous `Block`, with
earlier elements before it and later ones behind, and frames are in order of their elements. The receiver
is in step (`NumbersInStep`, `ChunksInStep`) as long as it has declined nothing of the kind: the bytes and frames it has
consumed are exactly those of the elements it has passed. That is what a null pointer breaks,
and why `RoundTrip` promises values only "before the first declined". What is left is `Behind`: declined or
not, the bytes consumed are of numbers it has passed and so are the chunks, so what it reads next is in the message,
and each chunk goes to one variable. `LeftBehind` counts: the chunks are a
bijection with the frames, the frames used are the chunks taken. The pictures are of every length, not up to `MaxElements` = 3.

**Only model-checked.**

- Liveness under fairness (`Delivery`, `SendReturns`, `AllReceived`) is out of the prover's reach. So is what is left of
  `AnySchedule`: that threads which never get stuck come to their end if they run.
- `RoundedAssumption` and `SizeRounded`: `RoundUp` uses `Bitwise`, which the prover cannot.

## 7. What is not modelled

- Weak memory. Steps interleave; the order of two accesses of one thread is that
  of the program text. The code's acquire and release annotations are taken to
  give that, which for the compare-and-swap of `hpair_sgnl` (acquire
  only, hpair.c:171) is generous.
- GASNet itself (AMs are delivered once, in any order; its own failures end the
  process). Logging, and the static buffer its time stamps share (hprelude.h:45). Allocation failure:
  it ends the process.
- kvec's growth (a reallocation, by one thread), and what of khash nobody calls: deletion,
  clearing, shrinking, other key types.
- A receiver's picture that is not the sender's: the code reads whatever it finds.
- Several clients that flood one server: each has its own `atomic64` and its own
  array, and what they share, the mailbox, is in `HFunnel`.
- `hqueue_destroy` and the like, which free memory and leave nothing to say.

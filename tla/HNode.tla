------------------------------- MODULE HNode --------------------------------
(***************************************************************************)
(* hctx.c: the nodes of a job, from hctx_new to the end of hctx_destroy,   *)
(* around the registry of one of them (HCtx), with the hash table the      *)
(* registry keeps its endpoints in (KHash).                                *)
(*                                                                         *)
(* hctx_new publishes the address of the node's context in its segment,    *)
(* waits for all nodes, reads the addresses of the others, waits again,    *)
(* and then makes the registry.  hctx_destroy frees registry and context,  *)
(* waits for all nodes and exits.  Handlers run from gasnet_attach to the  *)
(* end, in whatever thread polls: a connection request is handled as soon  *)
(* as it has arrived, whatever its target is doing.                        *)
(*                                                                         *)
(* The context of node n is known by the address n.  A barrier is passed   *)
(* once every node has notified as often as the one that waits.            *)
(***************************************************************************)
EXTENDS HCtx, KHash, Sequences

CONSTANTS
  N,        \* num_nodes
  Callers,  \* the nodes whose program connects to others
  Meets     \* the program has a barrier of its own before the first connect,
            \* and one after the last

ASSUME NodeAssumption ==
  /\ N \in Nat \ {0}
  /\ Callers \subseteq 0 .. N - 1
  /\ Meets \in BOOLEAN
  /\ Endpoints \subseteq Nat

VARIABLES
  at,              \* where each node is
  notified,        \* barriers each node has notified
  segment,         \* the word at local_seg_addr
  peer_ctx_table,  \* of each node: the addresses read so far
  requests,        \* connection requests in flight
  table            \* the hash table of the home node

nodes == <<at, notified, segment, peer_ctx_table>>
allVars == <<vars, nodes, requests, table>>

Nodes == 0 .. N - 1
Home == 0

NodeInit ==
  /\ Init
  /\ at = [n \in Nodes |-> "init"]
  /\ notified = [n \in Nodes |-> 0]
  /\ segment = [n \in Nodes |-> NULL]
  /\ peer_ctx_table = [n \in Nodes |-> <<>>]
  /\ requests = {}
  /\ table = kh_init

Moves(n, from, to) ==
  /\ ~(n = Home /\ exited)
  /\ at[n] = from
  /\ at' = [at EXCEPT ![n] = to]

(* gasnet_barrier_notify, and what gasnet_barrier_wait waits for. *)
Notify(n) == notified' = [notified EXCEPT ![n] = @ + 1]
AllNotified(n) == \A m \in Nodes : notified[m] >= notified[n]

-----------------------------------------------------------------------------
(* hctx_new *)

(* The context, the handlers, the segment; notify. *)
Publish(n) ==
  /\ Moves(n, "init", "published")
  /\ segment' = [segment EXCEPT ![n] = n]
  /\ Notify(n)
  /\ UNCHANGED <<vars, peer_ctx_table, requests, table>>

Published_NoWait(n) ==
  /\ Moves(n, "published", "fetching")
  /\ UNCHANGED <<vars, notified, segment, peer_ctx_table, requests, table>>

Published(n) ==
  /\ Moves(n, "published", "fetching")
  /\ AllNotified(n)
  /\ UNCHANGED <<vars, notified, segment, peer_ctx_table, requests, table>>

Fetch_OwnSegment(n) ==
  LET next == Len(peer_ctx_table[n]) IN
  /\ at[n] = "fetching"
  /\ ~(n = Home /\ exited)
  /\ peer_ctx_table' = [peer_ctx_table EXCEPT ![n] = Append(@, segment[n])]
  /\ \/ /\ next + 1 < N
        /\ UNCHANGED <<at, notified>>
     \/ /\ next + 1 = N
        /\ at' = [at EXCEPT ![n] = "fetched"]
        /\ Notify(n)
  /\ UNCHANGED <<vars, segment, requests, table>>

(* The next context address; after the last one, notify. *)
Fetch(n) ==
  LET next == Len(peer_ctx_table[n]) IN
  /\ at[n] = "fetching"
  /\ ~(n = Home /\ exited)
  /\ peer_ctx_table' = [peer_ctx_table EXCEPT ![n] = Append(@, segment[next])]
  /\ \/ /\ next + 1 < N
        /\ UNCHANGED <<at, notified>>
     \/ /\ next + 1 = N
        /\ at' = [at EXCEPT ![n] = "fetched"]
        /\ Notify(n)
  /\ UNCHANGED <<vars, segment, requests, table>>

Fetched(n) ==
  /\ Moves(n, "fetched", "bare")
  /\ AllNotified(n)
  /\ UNCHANGED <<vars, notified, segment, peer_ctx_table, requests, table>>

(* The mailbox array, the bitmap, the map and the lock. *)
MakeRegistry(n) ==
  /\ Moves(n, "bare", "ready")
  /\ UNCHANGED <<vars, notified, segment, peer_ctx_table, requests, table>>

-----------------------------------------------------------------------------
(* The program: between hctx_new and hctx_destroy, and between barriers of *)
(* its own if it has them, it is "up" and uses sockets.                     *)

MaybeNotify(n) == IF Meets THEN Notify(n) ELSE UNCHANGED notified

Meet(n) ==
  /\ Moves(n, "ready", "meet")
  /\ MaybeNotify(n)
  /\ UNCHANGED <<vars, segment, peer_ctx_table, requests, table>>

Met(n) ==
  /\ Moves(n, "meet", "up")
  /\ Meets => AllNotified(n)
  /\ UNCHANGED <<vars, notified, segment, peer_ctx_table, requests, table>>

(* hsock_connect to another node: a request to the context there.  One at a *)
(* time from each node; the call returns when it is answered.               *)
Connect(n, m) ==
  /\ at[n] = "up"
  /\ m # n
  /\ ~(n = Home /\ exited)
  /\ \A r \in requests : r.from # n
  /\ requests' = requests \cup {[from |-> n, to |-> m, ctx |-> peer_ctx_table[n][m + 1]]}
  /\ UNCHANGED <<vars, nodes, table>>

(* client_connection_request_handler; mailbox_at changes nothing. *)
OnConnect(r) ==
  /\ requests' = requests \ {r}
  /\ UNCHANGED <<vars, nodes, table>>

(* The node's connects have returned, its sockets are destroyed. *)
Part(n) ==
  /\ Moves(n, "up", "part")
  /\ \A r \in requests : r.from # n
  /\ n = Home => \A s \in Sockets : pc[s] = "none"
  /\ MaybeNotify(n)
  /\ UNCHANGED <<vars, segment, peer_ctx_table, requests, table>>

Parted(n) ==
  /\ Moves(n, "part", "done")
  /\ Meets => AllNotified(n)
  /\ UNCHANGED <<vars, notified, segment, peer_ctx_table, requests, table>>

-----------------------------------------------------------------------------
(* hctx_destroy *)

(* Registry and context are freed ... *)
Free(n) ==
  /\ Moves(n, "done", "freed")
  /\ UNCHANGED <<vars, notified, segment, peer_ctx_table, requests, table>>

(* ... then the barrier ... *)
Leave(n) ==
  /\ Moves(n, "freed", "leaving")
  /\ Notify(n)
  /\ UNCHANGED <<vars, segment, peer_ctx_table, requests, table>>

(* ... and gasnet_exit. *)
Exit(n) ==
  /\ Moves(n, "leaving", "gone")
  /\ AllNotified(n)
  /\ UNCHANGED <<vars, notified, segment, peer_ctx_table, requests, table>>

-----------------------------------------------------------------------------
(* The registry of the home node, which the program uses while it is "up" *)

Set(h, key, val) == [h EXCEPT !.entry[kh_get(h, key)] = <<key, val>>]

(* kh_put makes the table grow even if the bind is refused. *)
BindRefused(s, e) ==
  /\ ~exited
  /\ pc[s] = "open"
  /\ bound[s] = NULL
  /\ lock = NULL
  /\ server_map[e] \in Ids
  /\ table' = Room(table)
  /\ UNCHANGED vars

Serve ==
  /\ at[Home] = "up"
  /\ \E s \in Sockets :
       \/ (Register(s) \/ Unregister(s)) /\ UNCHANGED table
       \/ \E e \in Endpoints :
            \/ Bind(s, e) /\ table' = kh_put(table, e, id[s])
            \/ BindRefused(s, e)
       \/ Unbind(s) /\ table' = Set(table, bound[s], -1)
  /\ UNCHANGED <<nodes, requests>>

-----------------------------------------------------------------------------

Starts(n) == Publish(n) \/ Published(n) \/ Fetch(n) \/ Fetched(n) \/ MakeRegistry(n)
Ends(n) == Free(n) \/ Leave(n) \/ Exit(n)

(* The job is over, or LOG_ERR has ended the home node. *)
Over ==
  /\ exited \/ \A n \in Nodes : at[n] = "gone"
  /\ UNCHANGED allVars

NodeNext ==
  \/ \E n \in Nodes :
       \/ Starts(n) \/ Meet(n) \/ Met(n) \/ Part(n) \/ Parted(n) \/ Ends(n)
       \/ n \in Callers /\ \E m \in Nodes : Connect(n, m)
  \/ \E r \in requests : OnConnect(r)
  \/ Serve
  \/ Over

(* Sockets are created one at a time, as HCtx says. *)
NodeSpec == NodeInit /\ [][NodeNext /\ OneAtATime']_allVars

-----------------------------------------------------------------------------
(* Properties *)

Started(n) == at[n] \notin {"init", "published", "fetching"}

NodeTypeOK ==
  /\ TypeOK
  /\ at \in [Nodes -> {"init", "published", "fetching", "fetched", "bare", "ready", "meet",
                       "up", "part", "done", "freed", "leaving", "gone"}]
  /\ notified \in [Nodes -> 0 .. 5]
  /\ segment \in [Nodes -> Nodes \cup {NULL}]
  /\ peer_ctx_table \in [Nodes -> Seq(Nodes \cup {NULL})]
  /\ requests \subseteq [from : Nodes, to : Nodes, ctx : Nodes \cup {NULL}]

(* A node that has left the exchange (hctx.c:72-75) has every context's     *)
(* address, whatever the order in which the nodes start.                    *)
PeersKnown ==
  \A n \in Nodes : Started(n) => peer_ctx_table[n] = [k \in 1 .. N |-> k - 1]

(* A connection request, which may be handled at any moment, finds the      *)
(* registry of its target made and not freed, if the program keeps a        *)
(* barrier of its own between hctx_new and the first connect, and between   *)
(* the last connect and hctx_destroy: those of hctx.c:76 and hctx.c:118 are *)
(* on the wrong side of the registry.                                       *)
RegistryThere ==
  \A r \in requests :
    /\ r.ctx = r.to
    /\ at[r.to] \in {"ready", "meet", "up", "part", "done"}

(* "assert(hctx_is(ctx));" (hsock.c:480): the context a request was sent to *)
(* is there when the handler looks at it.                                   *)
ContextThere ==
  \A r \in requests : r.ctx = r.to /\ at[r.to] \notin {"freed", "leaving", "gone"}

(* The hash table says of every endpoint what the map it stands for says,   *)
(* through collisions, growth and rehashing.                                *)
TableTrue ==
  \A e \in Endpoints :
    IF server_map[e] = NULL
      THEN absent(table, e)
      ELSE ~absent(table, e) /\ Value(table, e) = server_map[e]
=============================================================================

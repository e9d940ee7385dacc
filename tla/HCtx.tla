-------------------------------- MODULE HCtx --------------------------------
(***************************************************************************)
(* hctx.c: a node's registry of sockets.  A bitmap of free socket ids, an  *)
(* array from ids to mailboxes and a map from endpoints to ids.            *)
(*                                                                         *)
(* hctx_register searches the bitmap under the lock, but clears the bit it *)
(* found and stores the mailbox after it has unlocked; hctx_unregister     *)
(* clears the mailbox before it locks.  A word of the bitmap is changed by *)
(* a load and a store, which the unlocked code of another thread can fall  *)
(* between.  The map is only touched under the lock, so an access to it is *)
(* one step, taken while nobody holds the lock.                            *)
(***************************************************************************)
EXTENDS Integers

CONSTANTS
  Sockets,    \* sockets of the node, each created and destroyed by a thread
  Words,      \* sock_status_vec_sz, the words of the bitmap
  WordBits,   \* bits in a word, 32
  Endpoints,  \* the numbers servers bind to
  NULL        \* no mailbox; nobody; an endpoint never bound

ASSUME RegistryAssumption ==
  /\ Words \in Nat \ {0}
  /\ WordBits \in Nat \ {0}
  /\ NULL \notin Sockets
  /\ NULL \notin Int \cup Endpoints

VARIABLES
  lock,             \* the thread that holds the lock, or NULL
  sockid_freelist,  \* of each word of the bitmap: the ids whose bit is set
  mailbox,          \* of each id; a socket stands for its mailbox
  server_map,       \* of each endpoint: an id, -1, or NULL
  exited,           \* LOG_ERR ended the process
  pc,               \* what the thread of each socket is doing
  i, id,            \* its locals: the word, the id found
  word,             \* and the word it has loaded
  bound             \* the endpoint of each bound socket, or NULL

registry == <<lock, sockid_freelist, mailbox, server_map, exited>>
locals == <<i, id, word>>
vars == <<registry, pc, locals, bound>>

Ids == 0 .. Words * WordBits - 1
IdsOf(w) == w * WordBits .. (w + 1) * WordBits - 1
WordOf_Swapped(n) == n % WordBits
WordOf(n) == n \div WordBits
Lowest(S) == CHOOSE n \in S : \A m \in S : n <= m

Init ==
  /\ lock = NULL
  /\ sockid_freelist = [w \in 0 .. Words - 1 |-> IdsOf(w)]
  /\ mailbox = [n \in Ids |-> NULL]
  /\ server_map = [e \in Endpoints |-> NULL]
  /\ exited = FALSE
  /\ pc = [s \in Sockets |-> "none"]
  /\ i = [s \in Sockets |-> 0]
  /\ id = [s \in Sockets |-> NULL]
  /\ word = [s \in Sockets |-> {}]
  /\ bound = [s \in Sockets |-> NULL]

Goes(s, from, to) ==
  /\ ~exited
  /\ pc[s] = from
  /\ pc' = [pc EXCEPT ![s] = to]

-----------------------------------------------------------------------------
(* hctx_register, called by hsock_new *)

RegisterLock(s) ==
  /\ Goes(s, "none", "scan")
  /\ lock = NULL
  /\ lock' = s
  /\ i' = [i EXCEPT ![s] = 0]
  /\ UNCHANGED <<sockid_freelist, mailbox, server_map, exited, id, word, bound>>

(* The next word has no free id. *)
RegisterSkip(s) ==
  /\ ~exited
  /\ pc[s] = "scan"
  /\ i[s] < Words
  /\ sockid_freelist[i[s]] = {}
  /\ i' = [i EXCEPT ![s] = @ + 1]
  /\ UNCHANGED <<registry, pc, id, word, bound>>

(* ffs finds the lowest free id of the word; unlock. *)
RegisterFound(s) ==
  /\ Goes(s, "scan", "load")
  /\ i[s] < Words
  /\ sockid_freelist[i[s]] # {}
  /\ id' = [id EXCEPT ![s] = Lowest(sockid_freelist[i[s]])]
  /\ lock' = NULL
  /\ UNCHANGED <<sockid_freelist, mailbox, server_map, exited, i, word, bound>>

(* EDQUOT, for which hsock_new ends the process. *)
RegisterFull(s) ==
  /\ ~exited
  /\ pc[s] = "scan"
  /\ i[s] = Words
  /\ exited' = TRUE
  /\ lock' = NULL
  /\ UNCHANGED <<sockid_freelist, mailbox, server_map, pc, locals, bound>>

(* sockid_freelist[i] &= ~(1<<pos), unlocked: a load ... *)
RegisterLoad(s) ==
  /\ Goes(s, "load", "store")
  /\ word' = [word EXCEPT ![s] = sockid_freelist[i[s]]]
  /\ UNCHANGED <<registry, i, id, bound>>

RegisterStore_KeepsBit(s) ==
  /\ Goes(s, "store", "enter")
  /\ sockid_freelist' = [sockid_freelist EXCEPT ![i[s]] = word[s]]
  /\ word' = [word EXCEPT ![s] = {}]
  /\ UNCHANGED <<lock, mailbox, server_map, exited, i, id, bound>>

(* ... and a store. *)
RegisterStore(s) ==
  /\ Goes(s, "store", "enter")
  /\ sockid_freelist' = [sockid_freelist EXCEPT ![i[s]] = word[s] \ {id[s]}]
  /\ word' = [word EXCEPT ![s] = {}]
  /\ UNCHANGED <<lock, mailbox, server_map, exited, i, id, bound>>

RegisterEnter(s) ==
  /\ Goes(s, "enter", "open")
  /\ mailbox' = [mailbox EXCEPT ![id[s]] = s]
  /\ i' = [i EXCEPT ![s] = 0]
  /\ UNCHANGED <<lock, sockid_freelist, server_map, exited, id, word, bound>>

-----------------------------------------------------------------------------
(* hctx_unregister, called by hsock_destroy once the socket is not bound *)

UnregisterClear(s) ==
  /\ Goes(s, "open", "unload")
  /\ bound[s] = NULL
  /\ mailbox' = [mailbox EXCEPT ![id[s]] = NULL]
  /\ UNCHANGED <<lock, sockid_freelist, server_map, exited, locals, bound>>

UnregisterLoad_NoLock(s) ==
  /\ Goes(s, "unload", "unstore")
  /\ word' = [word EXCEPT ![s] = sockid_freelist[WordOf(id[s])]]
  /\ UNCHANGED <<registry, i, id, bound>>

(* Lock; load the word. *)
UnregisterLoad(s) ==
  /\ Goes(s, "unload", "unstore")
  /\ lock = NULL
  /\ lock' = s
  /\ word' = [word EXCEPT ![s] = sockid_freelist[WordOf(id[s])]]
  /\ UNCHANGED <<sockid_freelist, mailbox, server_map, exited, i, id, bound>>

(* Store it with the bit of the id; unlock. *)
UnregisterStore(s) ==
  /\ Goes(s, "unstore", "none")
  /\ sockid_freelist' = [sockid_freelist EXCEPT ![WordOf(id[s])] = word[s] \cup {id[s]}]
  /\ id' = [id EXCEPT ![s] = NULL]
  /\ word' = [word EXCEPT ![s] = {}]
  /\ lock' = NULL
  /\ UNCHANGED <<mailbox, server_map, exited, i, bound>>

-----------------------------------------------------------------------------
(* hctx_bind and hctx_unbind, called by hsock_bind and hsock_unbind *)

(* Only an endpoint never bound or unbound again; else EADDRINUSE. *)
Bind(s, e) ==
  /\ ~exited
  /\ pc[s] = "open"
  /\ bound[s] = NULL
  /\ lock = NULL
  /\ server_map[e] \in {NULL, -1}
  /\ server_map' = [server_map EXCEPT ![e] = id[s]]
  /\ bound' = [bound EXCEPT ![s] = e]
  /\ UNCHANGED <<lock, sockid_freelist, mailbox, exited, pc, locals>>

Unbind_KeepsEntry(s) ==
  /\ ~exited
  /\ pc[s] = "open"
  /\ bound[s] # NULL
  /\ lock = NULL
  /\ bound' = [bound EXCEPT ![s] = NULL]
  /\ UNCHANGED <<registry, pc, locals>>

Unbind(s) ==
  /\ ~exited
  /\ pc[s] = "open"
  /\ bound[s] # NULL
  /\ lock = NULL
  /\ server_map' = [server_map EXCEPT ![bound[s]] = -1]
  /\ bound' = [bound EXCEPT ![s] = NULL]
  /\ UNCHANGED <<lock, sockid_freelist, mailbox, exited, pc, locals>>

(* hctx_mailbox_at: what a connection request finds at an endpoint. *)
mailbox_at(e) ==
  IF server_map[e] \in Ids THEN mailbox[server_map[e]] ELSE NULL

-----------------------------------------------------------------------------

Register(s) ==
  \/ RegisterLock(s) \/ RegisterSkip(s) \/ RegisterFound(s) \/ RegisterFull(s)
  \/ RegisterLoad(s) \/ RegisterStore(s) \/ RegisterEnter(s)

Unregister(s) == UnregisterClear(s) \/ UnregisterLoad(s) \/ UnregisterStore(s)

Next ==
  \E s \in Sockets :
    \/ Register(s)
    \/ Unregister(s)
    \/ \E e \in Endpoints : Bind(s, e)
    \/ Unbind(s)

Spec == Init /\ [][Next]_vars

(* A node that never creates a socket while it creates or destroys another. *)
Registering == {s \in Sockets : pc[s] \in {"scan", "load", "store", "enter"}}
Unregistering == {s \in Sockets : pc[s] \in {"unload", "unstore"}}

OneAtATime == \A s \in Registering : Registering \cup Unregistering = {s}

OneAtATimeSpec == Init /\ [][Next /\ OneAtATime']_vars

-----------------------------------------------------------------------------
(* Properties *)

TypeOK ==
  /\ lock \in Sockets \cup {NULL}
  /\ \A w \in 0 .. Words - 1 : sockid_freelist[w] \subseteq IdsOf(w)
  /\ mailbox \in [Ids -> Sockets \cup {NULL}]
  /\ server_map \in [Endpoints -> Ids \cup {-1, NULL}]
  /\ exited \in BOOLEAN
  /\ pc \in [Sockets -> {"none", "scan", "load", "store", "enter", "open", "unload", "unstore"}]
  /\ i \in [Sockets -> 0 .. Words]
  /\ id \in [Sockets -> Ids \cup {NULL}]
  /\ word \in [Sockets -> SUBSET Ids]
  /\ bound \in [Sockets -> Endpoints \cup {NULL}]

FreeIds == UNION {sockid_freelist[w] : w \in 0 .. Words - 1}

(* The sockets whose id is theirs: from the store that claims it to the one *)
(* that gives it back.                                                      *)
Holders == {s \in Sockets : pc[s] \in {"enter", "open", "unload", "unstore"}}

(* "an array to store status (used/unused) of socket ids" (hctx.c:28): the  *)
(* id of every socket is marked used, and no two sockets have the same.     *)
StatusTrue ==
  /\ \A s \in Holders : id[s] \notin FreeIds
  /\ \A s, t \in Holders : id[s] = id[t] => s = t

(* No id is lost: one that is not marked free has a holder.  The process    *)
(* ends for want of an id only if every id has one.                         *)
NoIdLost ==
  /\ \A n \in Ids : n \in FreeIds \/ \E s \in Holders : id[s] = n
  /\ exited => \A n \in Ids : \E s \in Holders : id[s] = n

(* A connection request at an endpoint finds the mailbox of the socket that *)
(* is bound there, if there is one, and nothing otherwise: never the one of *)
(* a socket bound before, and never the null mailbox of a bound one.        *)
EndpointsLeadHome ==
  \A e \in Endpoints :
    /\ \A s \in Sockets : bound[s] = e => mailbox_at(e) = s
    /\ (\A s \in Sockets : bound[s] # e) => mailbox_at(e) = NULL
=============================================================================

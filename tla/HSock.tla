-------------------------------- MODULE HSock --------------------------------
(***************************************************************************)
(* hsock.c, the life of a socket: creation, bind and connect, sending and  *)
(* receiving as far as addresses are concerned, unbind, disconnect and     *)
(* destruction, with the handlers of the connection handshake.             *)
(*                                                                         *)
(* What travels between nodes are plain addresses: of the client's         *)
(* atomic64, of the server's mailbox, of the mailbox to answer to.  Nothing *)
(* counts who holds one.  hsock_destroy frees them all without waiting for *)
(* anybody.                                                                *)
(*                                                                         *)
(* The whole exchange of a send is one request and its reply here          *)
(* (HFlood.tla has it in full), and the registry is the mailbox it answers *)
(* with at each endpoint (HCtx.tla, EndpointsLeadHome).  An endpoint stands *)
(* for a node and an endpoint there.                                       *)
(***************************************************************************)
EXTENDS Integers, Sequences, FiniteSets

CONSTANTS
  Sockets,     \* socket objects, made and destroyed again and again
  Mailboxes,   \* the addresses hfunnel_new can return
  Endpoints,
  UINT64_MAX,  \* no answer yet
  Freed,       \* what is at an address that is not allocated
  Room         \* bound: messages in a mailbox

ASSUME SockAssumption ==
  /\ (Mailboxes \cup {UINT64_MAX, Freed}) \cap Int = {}
  /\ {UINT64_MAX, Freed} \cap Mailboxes = {}
  /\ UINT64_MAX # Freed
  /\ Freed \notin Seq(Mailboxes)
  /\ Room \in Nat \ {0}

NULL == 0
HSOCK_BOUND == 1
HSOCK_CONNECTED == 2

VARIABLES
  pc,           \* the call each socket's thread is in: "none" before hsock_new
  conn_status,
  mailbox,      \* the address of its mailbox
  derived,      \* the server's endpoint, the client's s_mailbox
  atomic64,
  funnel,       \* the mailbox at each address: senders' addresses, or Freed
  server_map,   \* the mailbox at each endpoint
  net,          \* active messages in flight
  heard,        \* the caller's variable for the address of the last sender
  seen          \* history: what was at the endpoint during a connect

socket == <<pc, conn_status, mailbox, derived, atomic64>>
vars == <<socket, funnel, server_map, net, heard, seen>>

Init ==
  /\ pc = [s \in Sockets |-> "none"]
  /\ conn_status = [s \in Sockets |-> 0]
  /\ mailbox = [s \in Sockets |-> NULL]
  /\ derived = [s \in Sockets |-> NULL]
  /\ atomic64 = [s \in Sockets |-> Freed]
  /\ funnel = [m \in Mailboxes |-> Freed]
  /\ server_map = [e \in Endpoints |-> NULL]
  /\ net = {}
  /\ heard = [s \in Sockets |-> NULL]
  /\ seen = [s \in Sockets |-> {}]

ConnectReq(s, e) == [kind |-> "connect", sock |-> s, server_endpoint |-> e]
ConnectReply(s, m) == [kind |-> "connected", sock |-> s, server_mailbox |-> m]
MailReq(s, m) == [kind |-> "mail", sock |-> s, dest_mailbox |-> m, src_mailbox |-> mailbox[s]]
MailReply(s) == [kind |-> "sent", sock |-> s]

Goes(s, from, to) ==
  /\ pc[s] = from
  /\ pc' = [pc EXCEPT ![s] = to]

-----------------------------------------------------------------------------

(* hsock_new: the allocator gives the mailbox any address that is free. *)
New(s) ==
  /\ Goes(s, "none", "idle")
  /\ \E m \in {a \in Mailboxes : funnel[a] = Freed} :
       /\ mailbox' = [mailbox EXCEPT ![s] = m]
       /\ funnel' = [funnel EXCEPT ![m] = <<>>]
  /\ atomic64' = [atomic64 EXCEPT ![s] = 0]
  /\ UNCHANGED <<conn_status, derived, server_map, net, heard, seen>>

(* The map changes at e, in sight of every connect to e. *)
Enter(e, m) ==
  /\ server_map' = [server_map EXCEPT ![e] = m]
  /\ seen' = [s \in Sockets |->
                IF pc[s] = "connecting" /\ derived[s] = e THEN seen[s] \cup {m} ELSE seen[s]]

(* hsock_bind at an endpoint that is free; else nothing changes. *)
Bind(s, e) ==
  /\ Goes(s, "idle", "idle")
  /\ conn_status[s] = 0
  /\ server_map[e] = NULL
  /\ Enter(e, mailbox[s])
  /\ conn_status' = [conn_status EXCEPT ![s] = HSOCK_BOUND]
  /\ derived' = [derived EXCEPT ![s] = e]
  /\ UNCHANGED <<mailbox, atomic64, funnel, net, heard>>

Unbinding_KeepsEntry(s) ==
  /\ conn_status[s] = HSOCK_BOUND
  /\ conn_status' = [conn_status EXCEPT ![s] = 0]
  /\ derived' = [derived EXCEPT ![s] = NULL]
  /\ UNCHANGED <<server_map, seen>>

Unbinding_KeepsStatus(s) ==
  /\ conn_status[s] = HSOCK_BOUND
  /\ Enter(derived[s], NULL)
  /\ derived' = [derived EXCEPT ![s] = NULL]
  /\ UNCHANGED conn_status

(* hsock_unbind and server_destroy *)
Unbinding(s) ==
  /\ conn_status[s] = HSOCK_BOUND
  /\ Enter(derived[s], NULL)
  /\ conn_status' = [conn_status EXCEPT ![s] = 0]
  /\ derived' = [derived EXCEPT ![s] = NULL]

(* hsock_disconnect and client_destroy *)
Disconnecting(s) ==
  /\ conn_status[s] = HSOCK_CONNECTED
  /\ conn_status' = [conn_status EXCEPT ![s] = 0]
  /\ derived' = [derived EXCEPT ![s] = NULL]
  /\ UNCHANGED <<server_map, seen>>

Unbind(s) ==
  /\ Goes(s, "idle", "idle")
  /\ Unbinding(s)
  /\ UNCHANGED <<mailbox, atomic64, funnel, net, heard>>

Disconnect(s) ==
  /\ Goes(s, "idle", "idle")
  /\ Disconnecting(s)
  /\ UNCHANGED <<mailbox, atomic64, funnel, net, heard>>

-----------------------------------------------------------------------------
(* hsock_connect, client_new.  While it waits, derived is where to.         *)

Connect_NoReset(s, e) ==
  /\ Goes(s, "idle", "connecting")
  /\ conn_status[s] = 0
  /\ derived' = [derived EXCEPT ![s] = e]
  /\ net' = net \cup {ConnectReq(s, e)}
  /\ seen' = [seen EXCEPT ![s] = {server_map[e]}]
  /\ UNCHANGED <<conn_status, mailbox, atomic64, funnel, server_map, heard>>

Connect(s, e) ==
  /\ Goes(s, "idle", "connecting")
  /\ conn_status[s] = 0
  /\ derived' = [derived EXCEPT ![s] = e]
  /\ atomic64' = [atomic64 EXCEPT ![s] = UINT64_MAX]
  /\ net' = net \cup {ConnectReq(s, e)}
  /\ seen' = [seen EXCEPT ![s] = {server_map[e]}]
  /\ UNCHANGED <<conn_status, mailbox, funnel, server_map, heard>>

(* The swap that finds an answer: the mailbox, or null and ENOTCONN. *)
ConnectReturn(s) ==
  LET m == atomic64[s] IN
  /\ Goes(s, "connecting", "idle")
  /\ m # UINT64_MAX
  /\ atomic64' = [atomic64 EXCEPT ![s] = UINT64_MAX]
  /\ conn_status' = [conn_status EXCEPT ![s] = IF m = NULL THEN 0 ELSE HSOCK_CONNECTED]
  /\ derived' = [derived EXCEPT ![s] = m]
  /\ seen' = [seen EXCEPT ![s] = {}]
  /\ UNCHANGED <<mailbox, funnel, server_map, net, heard>>

(* client_connection_request_handler, at the server's node *)
OnConnect(am) ==
  /\ am.kind = "connect"
  /\ net' = (net \ {am}) \cup {ConnectReply(am.sock, server_map[am.server_endpoint])}
  /\ UNCHANGED <<socket, funnel, server_map, heard, seen>>

(* client_connection_reply_handler, at the client's *)
OnConnectReply(am) ==
  /\ am.kind = "connected"
  /\ atomic64' = [atomic64 EXCEPT ![am.sock] = am.server_mailbox]
  /\ net' = net \ {am}
  /\ UNCHANGED <<pc, conn_status, mailbox, derived, funnel, server_map, heard, seen>>

-----------------------------------------------------------------------------
(* hsock_send and hsock_recv *)

(* A client sends to its server, a server to the sender it has heard of. *)
Dest(s) == CASE conn_status[s] = HSOCK_CONNECTED -> derived[s]
             [] conn_status[s] = HSOCK_BOUND -> heard[s]
             [] OTHER -> NULL

Send(s) ==
  /\ Goes(s, "idle", "sending")
  /\ Dest(s) # NULL
  /\ net' = net \cup {MailReq(s, Dest(s))}
  /\ atomic64' = [atomic64 EXCEPT ![s] = 0]
  /\ UNCHANGED <<conn_status, mailbox, derived, funnel, server_map, heard, seen>>

(* The handler that pushes the message: hfunnel_push, then the reply.  A    *)
(* request whose mailbox has been freed is the end of the program; what     *)
(* comes after it is not followed.                                          *)
OnMail(am) ==
  LET m == am.dest_mailbox IN
  /\ am.kind = "mail"
  /\ funnel[m] # Freed
  /\ Len(funnel[m]) < Room
  /\ funnel' = [funnel EXCEPT ![m] = Append(@, am.src_mailbox)]
  /\ net' = (net \ {am}) \cup {MailReply(am.sock)}
  /\ UNCHANGED <<socket, server_map, heard, seen>>

(* transmission_reply_handler *)
OnMailReply(am) ==
  /\ am.kind = "sent"
  /\ atomic64' = [atomic64 EXCEPT ![am.sock] = 1]
  /\ net' = net \ {am}
  /\ UNCHANGED <<pc, conn_status, mailbox, derived, funnel, server_map, heard, seen>>

SendReturn_NoWait(s) ==
  /\ Goes(s, "sending", "idle")
  /\ atomic64' = [atomic64 EXCEPT ![s] = 0]
  /\ UNCHANGED <<conn_status, mailbox, derived, funnel, server_map, net, heard, seen>>

SendReturn(s) ==
  /\ Goes(s, "sending", "idle")
  /\ atomic64[s] # 0
  /\ atomic64' = [atomic64 EXCEPT ![s] = 0]
  /\ UNCHANGED <<conn_status, mailbox, derived, funnel, server_map, net, heard, seen>>

(* Pop and deserialize; with "s" in the picture the caller of a server gets *)
(* the address of the sender's mailbox.                                     *)
Recv(s) ==
  LET m == mailbox[s] IN
  /\ Goes(s, "idle", "idle")
  /\ conn_status[s] # 0
  /\ funnel[m] # <<>>
  /\ funnel' = [funnel EXCEPT ![m] = Tail(@)]
  /\ heard' = [heard EXCEPT ![s] = IF conn_status[s] = HSOCK_BOUND
                                     THEN Head(funnel[m]) ELSE @]
  /\ UNCHANGED <<conn_status, mailbox, derived, atomic64, server_map, net, seen>>

(* The caller loses interest in the sender it has heard of. *)
Forget(s) ==
  /\ Goes(s, "idle", "idle")
  /\ heard[s] # NULL
  /\ heard' = [heard EXCEPT ![s] = NULL]
  /\ UNCHANGED <<conn_status, mailbox, derived, atomic64, funnel, server_map, net, seen>>

-----------------------------------------------------------------------------
(* hsock_destroy *)

(* Unbind or disconnect, and give the id back. *)
Destroy(s) ==
  /\ Goes(s, "idle", "closing")
  /\ \/ Unbinding(s)
     \/ Disconnecting(s)
     \/ conn_status[s] = 0 /\ UNCHANGED <<conn_status, derived, server_map, seen>>
  /\ UNCHANGED <<mailbox, atomic64, funnel, net, heard>>

(* Free the atomic, pop a message for a warning, free the mailbox with      *)
(* whatever is left in it, and the socket.                                  *)
DestroyFree(s) ==
  /\ Goes(s, "closing", "none")
  /\ atomic64' = [atomic64 EXCEPT ![s] = Freed]
  /\ funnel' = [funnel EXCEPT ![mailbox[s]] = Freed]
  /\ mailbox' = [mailbox EXCEPT ![s] = NULL]
  /\ heard' = [heard EXCEPT ![s] = NULL]
  /\ UNCHANGED <<conn_status, derived, server_map, net, seen>>

-----------------------------------------------------------------------------

Handle(am) == OnConnect(am) \/ OnConnectReply(am) \/ OnMail(am) \/ OnMailReply(am)

Life(s) ==
  \/ New(s) \/ Unbind(s) \/ Disconnect(s)
  \/ Destroy(s) \/ DestroyFree(s)
  \/ \E e \in Endpoints : Bind(s, e) \/ Connect(s, e)
  \/ ConnectReturn(s)

Traffic(s) == Send(s) \/ SendReturn(s) \/ Recv(s) \/ Forget(s)

Next ==
  \/ \E s \in Sockets : Life(s) \/ Traffic(s)
  \/ \E am \in net : Handle(am)

Spec == Init /\ [][Next]_vars

(* What a careful caller can see to: a socket is destroyed only when nobody *)
(* is connected to it, nobody is sending to it and nobody remembers it.     *)
Unused(s) ==
  \A t \in Sockets :
    /\ ~(conn_status[t] = HSOCK_CONNECTED /\ derived[t] = mailbox[s])
    /\ mailbox[s] # heard[t]
    /\ \A am \in net : ~(am.kind = "mail" /\ am.dest_mailbox = mailbox[s])
    /\ t # s => mailbox[s] \notin {funnel[mailbox[t]][i] :
                  i \in IF mailbox[t] = NULL THEN {} ELSE DOMAIN funnel[mailbox[t]]}

Closes(s) == pc[s] = "idle" /\ pc'[s] = "closing"

Careful == \A s \in Sockets : Closes(s) => Unused(s)

CarefulSpec == Init /\ [][Next /\ Careful]_vars

(* What it takes: no socket of the job is in a connect then, either.        *)
Quiet == \A s, t \in Sockets : Closes(s) => pc[t] # "connecting"

QuietSpec == Init /\ [][Next /\ Careful /\ Quiet]_vars

-----------------------------------------------------------------------------
(* Properties *)

TypeOK ==
  /\ pc \in [Sockets -> {"none", "idle", "connecting", "sending", "closing"}]
  /\ mailbox \in [Sockets -> Mailboxes \cup {NULL}]
  /\ \A s \in Sockets :
       CASE conn_status[s] = HSOCK_BOUND -> derived[s] \in Endpoints
         [] conn_status[s] = HSOCK_CONNECTED -> derived[s] \in Mailboxes
         [] conn_status[s] = 0 ->
              derived[s] \in IF pc[s] = "connecting" THEN Endpoints ELSE {NULL}
  /\ atomic64 \in [Sockets -> Mailboxes \cup {0, 1, UINT64_MAX, Freed}]
  /\ \A m \in Mailboxes : funnel[m] # Freed => funnel[m] \in Seq(Mailboxes)
  /\ server_map \in [Endpoints -> Mailboxes \cup {NULL}]
  /\ heard \in [Sockets -> Mailboxes \cup {NULL}]

(* A reply is written through the address of the sender's atomic64: the     *)
(* socket is then still inside the call that asked for it, so it has not    *)
(* freed that word, nor does it use it for something else (hsock.c:493,     *)
(* 534-543, 620).                                                           *)
RepliesAwaited ==
  \A am \in net :
    /\ am.kind \in {"connect", "connected"} => pc[am.sock] = "connecting"
    /\ am.kind \in {"mail", "sent"} => pc[am.sock] = "sending"
    /\ \A other \in net : other.sock = am.sock => other = am

(* A connect succeeds or fails with the truth: the answer was right at some *)
(* moment of the call.  It is not a leftover of atomic64, which held        *)
(* another answer before (hsock.c:396, 404).                                *)
ConnectHonest ==
  \A s \in Sockets :
    pc[s] = "connecting" /\ atomic64[s] # UINT64_MAX => atomic64[s] \in seen[s]

(* hfunnel.c:66, assert(hfunnel_is(self)): what a handler is about to push  *)
(* to is a mailbox.                                                         *)
PushSound == \A am \in net : am.kind = "mail" => funnel[am.dest_mailbox] # Freed

(* No address leads to a freed mailbox, nor - addresses being given out     *)
(* again - to a mailbox other than the one it was got for: those on their   *)
(* way in a reply or a request, those connected clients hold, those in the  *)
(* endpoint map.                                                            *)
NoDangling ==
  LET Live == {m \in Mailboxes : funnel[m] # Freed} IN
  /\ PushSound
  /\ \A am \in net : am.kind = "connected" => am.server_mailbox \in Live \cup {NULL}
  /\ \A s \in Sockets : conn_status[s] = HSOCK_CONNECTED => derived[s] \in Live
  /\ \A e \in Endpoints : server_map[e] \in Live \cup {NULL}

=============================================================================

---------------------------- MODULE HSockProofs -----------------------------
(***************************************************************************)
(* The sockets of HSock.tla, for every number of sockets, endpoints and    *)
(* addresses and every length of the mailboxes.                            *)
(***************************************************************************)
EXTENDS HSock, SequenceTheorems, TLAPS

PCs == {"none", "idle", "connecting", "sending", "closing"}

Shape ==
  /\ pc \in [Sockets -> PCs]
  /\ conn_status \in [Sockets -> {0, HSOCK_BOUND, HSOCK_CONNECTED}]
  /\ mailbox \in [Sockets -> Mailboxes \cup {NULL}]
  /\ derived \in [Sockets -> Endpoints \cup Mailboxes \cup {NULL}]
  /\ atomic64 \in [Sockets -> Mailboxes \cup {0, 1, UINT64_MAX, Freed}]
  /\ funnel \in [Mailboxes -> Seq(Mailboxes) \cup {Freed}]
  /\ server_map \in [Endpoints -> Mailboxes \cup {NULL}]
  /\ heard \in [Sockets -> Mailboxes \cup {NULL}]
  /\ seen \in [Sockets -> SUBSET (Mailboxes \cup {NULL})]

(* What the call a socket is in and its status say of its fields. *)
StatusOf(s) ==
  /\ mailbox[s] = NULL <=> pc[s] = "none"
  /\ conn_status[s] # 0 => pc[s] \in {"idle", "sending"}
  /\ conn_status[s] = HSOCK_BOUND =>
       derived[s] \in Endpoints /\ server_map[derived[s]] = mailbox[s]
  /\ conn_status[s] = HSOCK_CONNECTED => derived[s] \in Mailboxes
  /\ conn_status[s] = 0 =>
       derived[s] \in IF pc[s] = "connecting" THEN Endpoints ELSE {NULL}

(* A mailbox is allocated while a socket has it, and one socket at a time. *)
Owners ==
  /\ \A s, t \in Sockets : mailbox[s] = mailbox[t] /\ mailbox[s] # NULL => s = t
  /\ \A m \in Mailboxes : funnel[m] # Freed <=> \E s \in Sockets : mailbox[s] = m

(* An endpoint leads to the socket that is bound to it. *)
Mapped ==
  \A e \in Endpoints :
    server_map[e] # NULL =>
      \E s \in Sockets :
        conn_status[s] = HSOCK_BOUND /\ derived[s] = e /\ mailbox[s] = server_map[e]

(* An active message is about the call its socket is in, which has no      *)
(* answer yet.                                                             *)
NetTrue(am) ==
  /\ am.sock \in Sockets
  /\ am.kind \in {"connect", "connected", "mail", "sent"}
  /\ am.kind = "connect" =>
       am.server_endpoint \in Endpoints /\ am.server_endpoint = derived[am.sock]
  /\ am.kind = "connected" => am.server_mailbox \in seen[am.sock]
  /\ am.kind = "mail" => am.dest_mailbox \in Mailboxes /\ am.src_mailbox = mailbox[am.sock]
  /\ am.kind \in {"connect", "connected"} =>
       pc[am.sock] = "connecting" /\ atomic64[am.sock] = UINT64_MAX
  /\ am.kind \in {"mail", "sent"} => pc[am.sock] = "sending" /\ atomic64[am.sock] = 0

OneEach == \A am, other \in net : other.sock = am.sock => other = am

(* A connect has seen what its endpoint leads to, and its answer. *)
SeenTrue(s) ==
  pc[s] = "connecting" =>
    /\ server_map[derived[s]] \in seen[s]
    /\ atomic64[s] # UINT64_MAX => atomic64[s] \in seen[s]

CallInv ==
  /\ Shape
  /\ \A s \in Sockets : StatusOf(s) /\ SeenTrue(s)
  /\ Owners
  /\ Mapped
  /\ \A am \in net : NetTrue(am)
  /\ OneEach

-----------------------------------------------------------------------------

LEMMA CallInit == Init => CallInv
<1> SUFFICES ASSUME Init PROVE CallInv
  OBVIOUS
<1> USE SockAssumption DEF Init, NULL, HSOCK_BOUND, HSOCK_CONNECTED
<1>1. Shape
  BY DEF Shape, PCs
<1>2. \A s \in Sockets : StatusOf(s) /\ SeenTrue(s)
  BY DEF StatusOf, SeenTrue
<1>3. Owners /\ Mapped
  BY DEF Owners, Mapped
<1>4. (\A am \in net : NetTrue(am)) /\ OneEach
  BY DEF OneEach
<1> QED
  BY <1>1, <1>2, <1>3, <1>4 DEF CallInv

(* A socket about which no message is under way. *)
LEMMA NothingOut ==
  ASSUME CallInv, NEW s \in Sockets, pc[s] \notin {"connecting", "sending"}
  PROVE  \A am \in net : am.sock # s
BY DEF CallInv, NetTrue

LEMMA CallNew ==
  ASSUME CallInv, NEW s \in Sockets, New(s)
  PROVE  CallInv'
<1>1. PICK m \in Mailboxes :
        /\ funnel[m] = Freed
        /\ mailbox' = [mailbox EXCEPT ![s] = m]
        /\ funnel' = [funnel EXCEPT ![m] = <<>>]
  BY DEF New
<1>2. /\ pc[s] = "none" /\ pc' = [pc EXCEPT ![s] = "idle"]
      /\ atomic64' = [atomic64 EXCEPT ![s] = 0]
      /\ UNCHANGED <<conn_status, derived, server_map, net, heard, seen>>
  BY DEF New, Goes
<1>3. <<>> \in Seq(Mailboxes) /\ <<>> # Freed
  BY EmptySeq, SockAssumption
<1>4. Shape'
  BY <1>1, <1>2, <1>3 DEF CallInv, Shape, PCs
<1>5. \A t \in Sockets : /\ pc'[t] = IF t = s THEN "idle" ELSE pc[t]
                         /\ mailbox'[t] = IF t = s THEN m ELSE mailbox[t]
                         /\ atomic64'[t] = IF t = s THEN 0 ELSE atomic64[t]
  BY <1>1, <1>2 DEF CallInv, Shape
<1>6. m # NULL /\ mailbox[s] = NULL /\ conn_status[s] = 0
  BY <1>2, SockAssumption DEF CallInv, StatusOf, NULL
<1>7. ASSUME NEW t \in Sockets PROVE StatusOf(t)' /\ SeenTrue(t)'
  <2>1. CASE t = s
    BY <1>2, <1>5, <1>6, <2>1 DEF CallInv, StatusOf, SeenTrue, HSOCK_BOUND, HSOCK_CONNECTED
  <2>2. CASE t # s
    BY <1>2, <1>5, <2>2 DEF CallInv, StatusOf, SeenTrue
  <2> QED
    BY <2>1, <2>2
<1>8. \A t \in Sockets : mailbox[t] # m
  BY <1>1 DEF CallInv, Owners
<1>9. Owners'
  <2>1. \A t, u \in Sockets : mailbox'[t] = mailbox'[u] /\ mailbox'[t] # NULL => t = u
    BY <1>5, <1>8 DEF CallInv, Owners
  <2>2. ASSUME NEW k \in Mailboxes PROVE funnel'[k] # Freed <=> \E t \in Sockets : mailbox'[t] = k
    <3>1. CASE k = m
      BY <1>1, <1>3, <1>5, <3>1 DEF CallInv, Shape
    <3>2. CASE k # m
      <4>1. funnel'[k] = funnel[k]
        BY <1>1, <3>2 DEF CallInv, Shape
      <4>2. (\E t \in Sockets : mailbox'[t] = k) <=> \E t \in Sockets : mailbox[t] = k
        BY <1>5, <1>6, <3>2, SockAssumption DEF NULL
      <4> QED
        BY <4>1, <4>2 DEF CallInv, Owners
    <3> QED
      BY <3>1, <3>2
  <2> QED
    BY <2>1, <2>2 DEF Owners
<1>10. Mapped'
  BY <1>2, <1>5, <1>6 DEF CallInv, Mapped, HSOCK_BOUND
<1>11. (\A am \in net : NetTrue(am))'
  BY <1>2, <1>5, NothingOut DEF CallInv, NetTrue
<1>12. OneEach'
  BY <1>2 DEF CallInv, OneEach
<1> QED
  BY <1>4, <1>7, <1>9, <1>10, <1>11, <1>12 DEF CallInv

(* A change of the endpoint map is seen by every connect it concerns. *)
LEMMA EnterSeen ==
  ASSUME CallInv, NEW e \in Endpoints, NEW m \in Mailboxes \cup {NULL}, Enter(e, m)
  PROVE  /\ server_map' \in [Endpoints -> Mailboxes \cup {NULL}]
         /\ seen' \in [Sockets -> SUBSET (Mailboxes \cup {NULL})]
         /\ \A f \in Endpoints : server_map'[f] = IF f = e THEN m ELSE server_map[f]
         /\ \A t \in Sockets :
              /\ seen[t] \subseteq seen'[t]
              /\ pc[t] = "connecting" /\ derived[t] = e => m \in seen'[t]
<1> USE DEF CallInv, Shape, Enter
<1>1. /\ server_map' \in [Endpoints -> Mailboxes \cup {NULL}]
      /\ \A f \in Endpoints : server_map'[f] = IF f = e THEN m ELSE server_map[f]
  OBVIOUS
<1>2. seen' \in [Sockets -> SUBSET (Mailboxes \cup {NULL})]
  OBVIOUS
<1>3. \A t \in Sockets : /\ seen[t] \subseteq seen'[t]
                         /\ pc[t] = "connecting" /\ derived[t] = e => m \in seen'[t]
  OBVIOUS
<1> QED
  BY <1>1, <1>2, <1>3

LEMMA CallBind ==
  ASSUME CallInv, NEW s \in Sockets, NEW e \in Endpoints, Bind(s, e)
  PROVE  CallInv'
<1> USE DEF HSOCK_BOUND, HSOCK_CONNECTED, NULL
<1>1. /\ pc[s] = "idle" /\ conn_status[s] = 0 /\ server_map[e] = 0
      /\ conn_status' = [conn_status EXCEPT ![s] = HSOCK_BOUND]
      /\ derived' = [derived EXCEPT ![s] = e]
      /\ UNCHANGED <<mailbox, atomic64, funnel, net, heard>>
      /\ Enter(e, mailbox[s])
  BY DEF Bind, Goes
<1>2. pc' = pc
  BY DEF Bind, Goes, CallInv, Shape
<1>3. mailbox[s] \in Mailboxes
  BY <1>1 DEF CallInv, Shape, StatusOf
<1>4. /\ server_map' \in [Endpoints -> Mailboxes \cup {NULL}]
      /\ seen' \in [Sockets -> SUBSET (Mailboxes \cup {NULL})]
      /\ \A f \in Endpoints : server_map'[f] = IF f = e THEN mailbox[s] ELSE server_map[f]
      /\ \A t \in Sockets : /\ seen[t] \subseteq seen'[t]
                            /\ pc[t] = "connecting" /\ derived[t] = e => mailbox[s] \in seen'[t]
  BY <1>1, <1>3, EnterSeen
<1>5. \A t \in Sockets : /\ conn_status'[t] = IF t = s THEN HSOCK_BOUND ELSE conn_status[t]
                         /\ derived'[t] = IF t = s THEN e ELSE derived[t]
  BY <1>1 DEF CallInv, Shape
<1>6. Shape'
  BY <1>1, <1>2, <1>4 DEF CallInv, Shape
<1>7. ASSUME NEW t \in Sockets PROVE StatusOf(t)' /\ SeenTrue(t)'
  <2>1. CASE t = s
    BY <1>1, <1>2, <1>3, <1>4, <1>5, <2>1 DEF CallInv, StatusOf, SeenTrue
  <2>2. CASE t # s
    <3>1. conn_status'[t] = conn_status[t] /\ derived'[t] = derived[t]
      BY <1>5, <2>2
    <3>2. conn_status[t] = HSOCK_BOUND => derived[t] # e
      BY <1>1, <1>3 DEF CallInv, StatusOf, Shape
    <3>3. StatusOf(t)'
      BY <1>1, <1>2, <1>4, <3>1, <3>2 DEF CallInv, StatusOf
    <3>4. SeenTrue(t)'
      <4> SUFFICES ASSUME pc[t] = "connecting"
                   PROVE  /\ server_map'[derived[t]] \in seen'[t]
                          /\ atomic64[t] # UINT64_MAX => atomic64[t] \in seen'[t]
        BY <1>1, <1>2, <3>1 DEF SeenTrue
      <4>1. derived[t] \in Endpoints
        BY DEF CallInv, StatusOf, Shape
      <4> QED
        BY <1>4, <4>1 DEF CallInv, SeenTrue
    <3> QED
      BY <3>3, <3>4
  <2> QED
    BY <2>1, <2>2
<1>8. Owners'
  BY <1>1 DEF CallInv, Owners
<1>9. Mapped'
  <2> SUFFICES ASSUME NEW f \in Endpoints, server_map'[f] # 0
               PROVE  \E t \in Sockets :
                        conn_status'[t] = HSOCK_BOUND /\ derived'[t] = f /\ mailbox[t] = server_map'[f]
    BY <1>1 DEF Mapped
  <2>1. CASE f = e
    BY <1>4, <1>5, <2>1
  <2>2. CASE f # e
    <3>1. PICK t \in Sockets : conn_status[t] = HSOCK_BOUND /\ derived[t] = f /\ mailbox[t] = server_map[f]
      BY <1>4, <2>2 DEF CallInv, Mapped
    <3> QED
      BY <1>1, <1>4, <1>5, <2>2, <3>1
  <2> QED
    BY <2>1, <2>2
<1>10. (\A am \in net : NetTrue(am))'
  BY <1>1, <1>2, <1>4, <1>5, NothingOut DEF CallInv, NetTrue
<1>11. OneEach'
  BY <1>1 DEF CallInv, OneEach
<1> QED
  BY <1>6, <1>7, <1>8, <1>9, <1>10, <1>11 DEF CallInv

(* A socket is unbound or disconnected, or was neither: by hsock_unbind,    *)
(* hsock_disconnect or the first part of hsock_destroy.                     *)
Releases(s) ==
  \/ Unbinding(s)
  \/ Disconnecting(s)
  \/ conn_status[s] = 0 /\ UNCHANGED <<conn_status, derived, server_map, seen>>

LEMMA CallRelease ==
  ASSUME CallInv, NEW s \in Sockets, NEW to \in {"idle", "closing"}, Goes(s, "idle", to),
         Releases(s), UNCHANGED <<mailbox, atomic64, funnel, net, heard>>
  PROVE  /\ CallInv'
         /\ conn_status'[s] = 0
         /\ \A t \in Sockets : t # s => conn_status'[t] = conn_status[t] /\ derived'[t] = derived[t]
         /\ \A f \in Endpoints : server_map'[f] # NULL =>
              server_map'[f] = server_map[f] /\ server_map[f] # mailbox[s]
<1> USE DEF HSOCK_BOUND, HSOCK_CONNECTED, NULL
<1>1. pc[s] = "idle" /\ \A t \in Sockets : pc'[t] = IF t = s THEN to ELSE pc[t]
  BY DEF Goes, CallInv, Shape
<1>2. /\ conn_status' \in [Sockets -> {0, HSOCK_BOUND, HSOCK_CONNECTED}]
      /\ derived' \in [Sockets -> Endpoints \cup Mailboxes \cup {NULL}]
      /\ conn_status'[s] = 0 /\ derived'[s] = 0
      /\ \A t \in Sockets : t # s => conn_status'[t] = conn_status[t] /\ derived'[t] = derived[t]
  BY <1>1 DEF Releases, Unbinding, Disconnecting, CallInv, Shape, StatusOf
<1>3. mailbox[s] \in Mailboxes
  BY <1>1 DEF CallInv, Shape, StatusOf
<1>4. /\ server_map' \in [Endpoints -> Mailboxes \cup {NULL}]
      /\ seen' \in [Sockets -> SUBSET (Mailboxes \cup {NULL})]
      /\ \A t \in Sockets : seen[t] \subseteq seen'[t]
      /\ \A f \in Endpoints :
           server_map'[f] = IF conn_status[s] = HSOCK_BOUND /\ f = derived[s] THEN 0 ELSE server_map[f]
      /\ \A t \in Sockets : pc[t] = "connecting" /\ derived[t] \in Endpoints =>
           (server_map[derived[t]] \in seen[t] => server_map'[derived[t]] \in seen'[t])
  <2>1. CASE Unbinding(s)
    <3>1. derived[s] \in Endpoints /\ Enter(derived[s], 0) /\ conn_status[s] = HSOCK_BOUND
      BY <2>1 DEF Unbinding, CallInv, StatusOf
    <3>2. /\ server_map' \in [Endpoints -> Mailboxes \cup {NULL}]
          /\ seen' \in [Sockets -> SUBSET (Mailboxes \cup {NULL})]
          /\ \A f \in Endpoints : server_map'[f] = IF f = derived[s] THEN 0 ELSE server_map[f]
          /\ \A t \in Sockets : /\ seen[t] \subseteq seen'[t]
                                /\ pc[t] = "connecting" /\ derived[t] = derived[s] => 0 \in seen'[t]
      BY <3>1, EnterSeen
    <3> QED
      BY <3>1, <3>2
  <2>2. CASE Disconnecting(s) \/ (conn_status[s] = 0 /\ UNCHANGED <<conn_status, derived, server_map, seen>>)
    BY <2>2 DEF Disconnecting, CallInv, Shape
  <2> QED
    BY <2>1, <2>2 DEF Releases
<1>5. Shape'
  BY <1>2, <1>4 DEF Goes, CallInv, Shape, PCs
<1>6. \A f \in Endpoints : server_map'[f] # NULL =>
        server_map'[f] = server_map[f] /\ server_map[f] # mailbox[s]
  <2> SUFFICES ASSUME NEW f \in Endpoints, server_map'[f] # NULL
               PROVE  server_map'[f] = server_map[f] /\ server_map[f] # mailbox[s]
    OBVIOUS
  <2>1. server_map'[f] = server_map[f] /\ ~(conn_status[s] = HSOCK_BOUND /\ f = derived[s])
    BY <1>4
  <2>2. PICK t \in Sockets : conn_status[t] = HSOCK_BOUND /\ derived[t] = f /\ mailbox[t] = server_map[f]
    BY <2>1 DEF CallInv, Mapped
  <2>3. t # s
    BY <2>1, <2>2
  <2>4. mailbox[t] # mailbox[s]
    BY <1>3, <2>3, SockAssumption DEF CallInv, Owners
  <2> QED
    BY <2>1, <2>2, <2>4
<1>7. ASSUME NEW t \in Sockets PROVE StatusOf(t)' /\ SeenTrue(t)'
  <2>1. CASE t = s
    <3>1. to # "connecting" /\ to # "none" /\ mailbox[s] # 0
      BY <1>3, SockAssumption
    <3> QED
      BY <1>1, <1>2, <2>1, <3>1 DEF StatusOf, SeenTrue
  <2>2. CASE t # s
    <3>1. conn_status'[t] = conn_status[t] /\ derived'[t] = derived[t] /\ pc'[t] = pc[t]
      BY <1>1, <1>2, <2>2
    <3>2. conn_status[t] = HSOCK_BOUND => server_map'[derived[t]] = server_map[derived[t]]
      <4> SUFFICES ASSUME conn_status[t] = HSOCK_BOUND
                   PROVE  server_map'[derived[t]] = server_map[derived[t]]
        OBVIOUS
      <4>1. derived[t] \in Endpoints /\ server_map[derived[t]] = mailbox[t] /\ mailbox[t] # 0
        BY DEF CallInv, StatusOf
      <4>2. conn_status[s] = HSOCK_BOUND => server_map[derived[s]] = mailbox[s]
        BY DEF CallInv, StatusOf
      <4>3. mailbox[t] # mailbox[s]
        BY <2>2, <4>1 DEF CallInv, Owners
      <4> QED
        BY <1>4, <4>1, <4>2, <4>3
    <3>3. StatusOf(t)'
      BY <3>1, <3>2 DEF CallInv, StatusOf
    <3>4. SeenTrue(t)'
      <4> SUFFICES ASSUME pc[t] = "connecting"
                   PROVE  /\ server_map'[derived[t]] \in seen'[t]
                          /\ atomic64[t] # UINT64_MAX => atomic64[t] \in seen'[t]
        BY <3>1 DEF SeenTrue
      <4>1. derived[t] \in Endpoints
        BY DEF CallInv, StatusOf, Shape
      <4> QED
        BY <1>4, <4>1 DEF CallInv, SeenTrue
    <3> QED
      BY <3>3, <3>4
  <2> QED
    BY <2>1, <2>2
<1>8. Owners'
  BY DEF CallInv, Owners
<1>9. Mapped'
  <2> SUFFICES ASSUME NEW f \in Endpoints, server_map'[f] # 0
               PROVE  \E t \in Sockets :
                        conn_status'[t] = HSOCK_BOUND /\ derived'[t] = f /\ mailbox[t] = server_map'[f]
    BY DEF Mapped
  <2>1. server_map'[f] = server_map[f] /\ server_map[f] # mailbox[s]
    BY <1>6
  <2>2. PICK t \in Sockets : conn_status[t] = HSOCK_BOUND /\ derived[t] = f /\ mailbox[t] = server_map[f]
    BY <2>1 DEF CallInv, Mapped
  <2> QED
    BY <1>2, <2>1, <2>2
<1>10. (\A am \in net : NetTrue(am))'
  BY <1>1, <1>2, <1>4, NothingOut DEF CallInv, NetTrue
<1>11. OneEach'
  BY DEF CallInv, OneEach
<1> QED
  BY <1>2, <1>5, <1>6, <1>7, <1>8, <1>9, <1>10, <1>11 DEF CallInv

LEMMA CallConnect ==
  ASSUME CallInv, NEW s \in Sockets, NEW e \in Endpoints, Connect(s, e)
  PROVE  CallInv'
<1> USE DEF HSOCK_BOUND, HSOCK_CONNECTED, NULL
<1>1. /\ pc[s] = "idle" /\ conn_status[s] = 0
      /\ pc' = [pc EXCEPT ![s] = "connecting"]
      /\ derived' = [derived EXCEPT ![s] = e]
      /\ atomic64' = [atomic64 EXCEPT ![s] = UINT64_MAX]
      /\ net' = net \cup {ConnectReq(s, e)}
      /\ seen' = [seen EXCEPT ![s] = {server_map[e]}]
      /\ UNCHANGED <<conn_status, mailbox, funnel, server_map, heard>>
  BY DEF Connect, Goes
<1>2. \A t \in Sockets : t # s => /\ pc'[t] = pc[t] /\ derived'[t] = derived[t]
                                  /\ atomic64'[t] = atomic64[t] /\ seen'[t] = seen[t]
  BY <1>1 DEF CallInv, Shape
<1>3. /\ pc'[s] = "connecting" /\ derived'[s] = e /\ atomic64'[s] = UINT64_MAX
      /\ seen'[s] = {server_map[e]}
  BY <1>1 DEF CallInv, Shape
<1>4. Shape'
  BY <1>1 DEF CallInv, Shape, PCs
<1>5. ASSUME NEW t \in Sockets PROVE StatusOf(t)' /\ SeenTrue(t)'
  <2>1. CASE t = s
    BY <1>1, <1>3, <2>1 DEF CallInv, StatusOf, SeenTrue
  <2>2. CASE t # s
    BY <1>1, <1>2, <2>2 DEF CallInv, StatusOf, SeenTrue
  <2> QED
    BY <2>1, <2>2
<1>6. Owners'
  BY <1>1 DEF CallInv, Owners
<1>7. Mapped'
  BY <1>1, <1>2 DEF CallInv, Mapped
<1>8. \A am \in net : am.sock # s
  BY <1>1, NothingOut
<1>9. ASSUME NEW am \in net' PROVE NetTrue(am)'
  <2>1. CASE am \in net
    <3>1. am.sock # s /\ NetTrue(am)
      BY <1>8, <2>1 DEF CallInv
    <3> QED
      BY <1>1, <1>2, <3>1 DEF NetTrue
  <2>2. CASE am = ConnectReq(s, e)
    <3>1. am.sock = s /\ am.kind = "connect" /\ am.server_endpoint = e
      BY <2>2 DEF ConnectReq
    <3> QED
      BY <1>3, <3>1 DEF NetTrue
  <2> QED
    BY <1>1, <2>1, <2>2
<1>10. OneEach'
  <2>1. ConnectReq(s, e).sock = s
    BY DEF ConnectReq
  <2> QED
    BY <1>1, <1>8, <2>1 DEF CallInv, OneEach
<1> QED
  BY <1>4, <1>5, <1>6, <1>7, <1>9, <1>10 DEF CallInv

LEMMA CallConnectReturn ==
  ASSUME CallInv, NEW s \in Sockets, ConnectReturn(s)
  PROVE  CallInv' /\ atomic64[s] \in Mailboxes \cup {NULL}
<1> USE DEF HSOCK_BOUND, HSOCK_CONNECTED, NULL
<1> DEFINE m == atomic64[s]
<1>1. /\ pc[s] = "connecting" /\ m # UINT64_MAX
      /\ pc' = [pc EXCEPT ![s] = "idle"]
      /\ atomic64' = [atomic64 EXCEPT ![s] = UINT64_MAX]
      /\ conn_status' = [conn_status EXCEPT ![s] = IF m = 0 THEN 0 ELSE HSOCK_CONNECTED]
      /\ derived' = [derived EXCEPT ![s] = m]
      /\ seen' = [seen EXCEPT ![s] = {}]
      /\ UNCHANGED <<mailbox, funnel, server_map, net, heard>>
  BY DEF ConnectReturn, Goes
<1>2. m \in Mailboxes \cup {0}
  BY <1>1 DEF CallInv, SeenTrue, Shape
<1>3. conn_status[s] = 0
  BY <1>1 DEF CallInv, StatusOf
<1> HIDE DEF m
<1>4. \A t \in Sockets : t # s => /\ pc'[t] = pc[t] /\ derived'[t] = derived[t]
                                  /\ atomic64'[t] = atomic64[t] /\ seen'[t] = seen[t]
                                  /\ conn_status'[t] = conn_status[t]
  BY <1>1 DEF CallInv, Shape
<1>5. /\ pc'[s] = "idle" /\ derived'[s] = m
      /\ conn_status'[s] = IF m = 0 THEN 0 ELSE HSOCK_CONNECTED
  BY <1>1 DEF CallInv, Shape
<1>6. Shape'
  BY <1>1, <1>2 DEF CallInv, Shape, PCs
<1>7. ASSUME NEW t \in Sockets PROVE StatusOf(t)' /\ SeenTrue(t)'
  <2>1. CASE t = s
    BY <1>1, <1>2, <1>5, <2>1 DEF CallInv, StatusOf, SeenTrue
  <2>2. CASE t # s
    BY <1>1, <1>4, <2>2 DEF CallInv, StatusOf, SeenTrue
  <2> QED
    BY <2>1, <2>2
<1>8. Owners'
  BY <1>1 DEF CallInv, Owners
<1>9. Mapped'
  BY <1>1, <1>3, <1>4 DEF CallInv, Mapped
<1>10. \A am \in net : am.sock # s
  BY <1>1 DEF m, CallInv, NetTrue
<1>11. (\A am \in net : NetTrue(am))'
  BY <1>1, <1>4, <1>10 DEF CallInv, NetTrue
<1>12. OneEach'
  BY <1>1 DEF CallInv, OneEach
<1> QED
  BY <1>2, <1>6, <1>7, <1>8, <1>9, <1>11, <1>12 DEF CallInv, m

(* A message becomes the answer to it. *)
LEMMA Answered ==
  ASSUME CallInv, NEW am \in net, NEW answer, answer.sock = am.sock,
         net' = (net \ {am}) \cup {answer}
  PROVE  OneEach'
BY DEF CallInv, OneEach

LEMMA CallOnConnect ==
  ASSUME CallInv, NEW am \in net, OnConnect(am)
  PROVE  CallInv'
<1> DEFINE m == server_map[am.server_endpoint]
           reply == ConnectReply(am.sock, m)
<1>1. /\ am.kind = "connect" /\ net' = (net \ {am}) \cup {reply}
      /\ UNCHANGED <<pc, conn_status, mailbox, derived, atomic64, funnel, server_map, heard, seen>>
  BY DEF OnConnect, socket
<1>2. reply.sock = am.sock /\ reply.kind = "connected" /\ reply.server_mailbox = m
  BY DEF ConnectReply
<1>3. /\ am.sock \in Sockets /\ pc[am.sock] = "connecting"
      /\ m \in seen[am.sock] /\ atomic64[am.sock] = UINT64_MAX
  BY <1>1 DEF CallInv, NetTrue, SeenTrue
<1> HIDE DEF m, reply
<1>4. Shape' /\ Owners' /\ Mapped'
  BY <1>1 DEF CallInv, Shape, Owners, Mapped
<1>5. (\A s \in Sockets : StatusOf(s) /\ SeenTrue(s))'
  BY <1>1 DEF CallInv, StatusOf, SeenTrue
<1>6. ASSUME NEW x \in net' PROVE NetTrue(x)'
  <2>1. CASE x \in net
    BY <1>1, <2>1 DEF CallInv, NetTrue
  <2>2. CASE x = reply
    BY <1>1, <1>2, <1>3, <2>2 DEF NetTrue
  <2> QED
    BY <1>1, <2>1, <2>2
<1>7. OneEach'
  BY <1>1, <1>2, Answered
<1> QED
  BY <1>4, <1>5, <1>6, <1>7 DEF CallInv

LEMMA CallOnConnectReply ==
  ASSUME CallInv, NEW am \in net, OnConnectReply(am)
  PROVE  CallInv'
<1> USE DEF NULL
<1> DEFINE s == am.sock
           m == am.server_mailbox
<1>1. /\ am.kind = "connected" /\ net' = net \ {am}
      /\ atomic64' = [atomic64 EXCEPT ![s] = m]
      /\ UNCHANGED <<pc, conn_status, mailbox, derived, funnel, server_map, heard, seen>>
  BY DEF OnConnectReply
<1>2. s \in Sockets /\ pc[s] = "connecting" /\ m \in seen[s]
  BY <1>1 DEF CallInv, NetTrue
<1>3. m \in Mailboxes \cup {0}
  BY <1>2 DEF CallInv, Shape
<1>4. \A x \in net : x.sock = s => x = am
  BY DEF CallInv, OneEach
<1> HIDE DEF s, m
<1>5. \A t \in Sockets : atomic64'[t] = IF t = s THEN m ELSE atomic64[t]
  BY <1>1 DEF CallInv, Shape
<1>6. Shape'
  BY <1>1, <1>3 DEF CallInv, Shape
<1>7. Owners' /\ Mapped'
  BY <1>1 DEF CallInv, Owners, Mapped
<1>8. (\A t \in Sockets : StatusOf(t) /\ SeenTrue(t))'
  BY <1>1, <1>2, <1>5 DEF CallInv, StatusOf, SeenTrue
<1>9. (\A x \in net : NetTrue(x))'
  BY <1>1, <1>4, <1>5 DEF CallInv, NetTrue
<1>10. OneEach'
  BY <1>1 DEF CallInv, OneEach
<1> QED
  BY <1>6, <1>7, <1>8, <1>9, <1>10 DEF CallInv

LEMMA CallSend ==
  ASSUME CallInv, NEW s \in Sockets, Send(s)
  PROVE  CallInv'
<1> USE DEF HSOCK_BOUND, HSOCK_CONNECTED, NULL
<1>1. /\ pc[s] = "idle" /\ Dest(s) # 0
      /\ pc' = [pc EXCEPT ![s] = "sending"]
      /\ net' = net \cup {MailReq(s, Dest(s))}
      /\ atomic64' = [atomic64 EXCEPT ![s] = 0]
      /\ UNCHANGED <<conn_status, mailbox, derived, funnel, server_map, heard, seen>>
  BY DEF Send, Goes
<1>2. Dest(s) \in Mailboxes
  <2>1. CASE conn_status[s] = HSOCK_CONNECTED
    BY <2>1 DEF Dest, CallInv, StatusOf
  <2>2. CASE conn_status[s] = HSOCK_BOUND
    BY <1>1, <2>2 DEF Dest, CallInv, Shape
  <2>3. CASE conn_status[s] = 0
    BY <1>1, <2>3 DEF Dest
  <2> QED
    BY <2>1, <2>2, <2>3 DEF CallInv, Shape
<1>3. \A t \in Sockets : t # s => pc'[t] = pc[t] /\ atomic64'[t] = atomic64[t]
  BY <1>1 DEF CallInv, Shape
<1>4. pc'[s] = "sending" /\ atomic64'[s] = 0
  BY <1>1 DEF CallInv, Shape
<1>5. Shape'
  BY <1>1 DEF CallInv, Shape, PCs
<1>6. ASSUME NEW t \in Sockets PROVE StatusOf(t)' /\ SeenTrue(t)'
  <2>1. CASE t = s
    BY <1>1, <1>4, <2>1 DEF CallInv, StatusOf, SeenTrue
  <2>2. CASE t # s
    BY <1>1, <1>3, <2>2 DEF CallInv, StatusOf, SeenTrue
  <2> QED
    BY <2>1, <2>2
<1>7. Owners' /\ Mapped'
  BY <1>1 DEF CallInv, Owners, Mapped
<1>8. \A am \in net : am.sock # s
  BY <1>1, NothingOut
<1>9. /\ MailReq(s, Dest(s)).sock = s /\ MailReq(s, Dest(s)).kind = "mail"
      /\ MailReq(s, Dest(s)).dest_mailbox = Dest(s)
      /\ MailReq(s, Dest(s)).src_mailbox = mailbox[s]
  BY DEF MailReq
<1>10. ASSUME NEW am \in net' PROVE NetTrue(am)'
  <2>1. CASE am \in net
    <3>1. am.sock # s /\ NetTrue(am)
      BY <1>8, <2>1 DEF CallInv
    <3> QED
      BY <1>1, <1>3, <3>1 DEF NetTrue
  <2>2. CASE am = MailReq(s, Dest(s))
    BY <1>1, <1>2, <1>4, <1>9, <2>2 DEF NetTrue
  <2> QED
    BY <1>1, <2>1, <2>2
<1>11. OneEach'
  BY <1>1, <1>8, <1>9 DEF CallInv, OneEach
<1> QED
  BY <1>5, <1>6, <1>7, <1>10, <1>11 DEF CallInv

LEMMA CallOnMail ==
  ASSUME CallInv, NEW am \in net, OnMail(am)
  PROVE  CallInv'
<1> DEFINE m == am.dest_mailbox
           reply == MailReply(am.sock)
<1>1. /\ am.kind = "mail" /\ funnel[m] # Freed
      /\ funnel' = [funnel EXCEPT ![m] = Append(@, am.src_mailbox)]
      /\ net' = (net \ {am}) \cup {reply}
      /\ UNCHANGED <<pc, conn_status, mailbox, derived, atomic64, server_map, heard, seen>>
  BY DEF OnMail, socket
<1>2. reply.sock = am.sock /\ reply.kind = "sent"
  BY DEF MailReply
<1>3. /\ am.sock \in Sockets /\ pc[am.sock] = "sending" /\ atomic64[am.sock] = 0
      /\ m \in Mailboxes /\ am.src_mailbox = mailbox[am.sock]
  BY <1>1 DEF CallInv, NetTrue
<1>4. am.src_mailbox \in Mailboxes
  BY <1>3 DEF CallInv, Shape, StatusOf, NULL
<1> HIDE DEF m, reply
<1>5. Append(funnel[m], am.src_mailbox) \in Seq(Mailboxes)
  BY <1>1, <1>3, <1>4, AppendProperties DEF CallInv, Shape
<1>6. /\ funnel' \in [Mailboxes -> Seq(Mailboxes) \cup {Freed}]
      /\ \A k \in Mailboxes : funnel'[k] # Freed <=> funnel[k] # Freed
  BY <1>1, <1>3, <1>5, SockAssumption DEF CallInv, Shape
<1>7. Shape' /\ Owners' /\ Mapped'
  BY <1>1, <1>6 DEF CallInv, Shape, Owners, Mapped
<1>8. (\A s \in Sockets : StatusOf(s) /\ SeenTrue(s))'
  BY <1>1 DEF CallInv, StatusOf, SeenTrue
<1>9. ASSUME NEW x \in net' PROVE NetTrue(x)'
  <2>1. CASE x \in net
    BY <1>1, <2>1 DEF CallInv, NetTrue
  <2>2. CASE x = reply
    BY <1>1, <1>2, <1>3, <2>2 DEF NetTrue
  <2> QED
    BY <1>1, <2>1, <2>2
<1>10. OneEach'
  BY <1>1, <1>2, Answered
<1> QED
  BY <1>7, <1>8, <1>9, <1>10 DEF CallInv

LEMMA CallOnMailReply ==
  ASSUME CallInv, NEW am \in net, OnMailReply(am)
  PROVE  CallInv'
<1> DEFINE s == am.sock
<1>1. /\ am.kind = "sent" /\ net' = net \ {am}
      /\ atomic64' = [atomic64 EXCEPT ![s] = 1]
      /\ UNCHANGED <<pc, conn_status, mailbox, derived, funnel, server_map, heard, seen>>
  BY DEF OnMailReply
<1>2. s \in Sockets /\ pc[s] = "sending"
  BY <1>1 DEF CallInv, NetTrue
<1>3. \A x \in net : x.sock = s => x = am
  BY DEF CallInv, OneEach
<1> HIDE DEF s
<1>4. \A t \in Sockets : atomic64'[t] = IF t = s THEN 1 ELSE atomic64[t]
  BY <1>1 DEF CallInv, Shape
<1>5. Shape'
  BY <1>1 DEF CallInv, Shape
<1>6. Owners' /\ Mapped'
  BY <1>1 DEF CallInv, Owners, Mapped
<1>7. (\A t \in Sockets : StatusOf(t) /\ SeenTrue(t))'
  BY <1>1, <1>2, <1>4 DEF CallInv, StatusOf, SeenTrue
<1>8. (\A x \in net : NetTrue(x))'
  BY <1>1, <1>3, <1>4 DEF CallInv, NetTrue
<1>9. OneEach'
  BY <1>1 DEF CallInv, OneEach
<1> QED
  BY <1>5, <1>6, <1>7, <1>8, <1>9 DEF CallInv

LEMMA CallSendReturn ==
  ASSUME CallInv, NEW s \in Sockets, SendReturn(s)
  PROVE  CallInv'
<1>1. /\ pc[s] = "sending" /\ atomic64[s] # 0
      /\ pc' = [pc EXCEPT ![s] = "idle"]
      /\ atomic64' = [atomic64 EXCEPT ![s] = 0]
      /\ UNCHANGED <<conn_status, mailbox, derived, funnel, server_map, net, heard, seen>>
  BY DEF SendReturn, Goes
<1>2. \A t \in Sockets : /\ pc'[t] = IF t = s THEN "idle" ELSE pc[t]
                         /\ atomic64'[t] = IF t = s THEN 0 ELSE atomic64[t]
  BY <1>1 DEF CallInv, Shape
<1>3. Shape'
  BY <1>1 DEF CallInv, Shape, PCs
<1>4. (\A t \in Sockets : StatusOf(t) /\ SeenTrue(t))'
  BY <1>1, <1>2 DEF CallInv, StatusOf, SeenTrue
<1>5. Owners' /\ Mapped' /\ OneEach'
  BY <1>1 DEF CallInv, Owners, Mapped, OneEach
<1>6. \A am \in net : am.sock # s
  BY <1>1 DEF CallInv, NetTrue
<1>7. (\A am \in net : NetTrue(am))'
  BY <1>1, <1>2, <1>6 DEF CallInv, NetTrue
<1> QED
  BY <1>3, <1>4, <1>5, <1>7 DEF CallInv

LEMMA CallRecv ==
  ASSUME CallInv, NEW s \in Sockets, Recv(s)
  PROVE  CallInv' /\ mailbox[s] \in Mailboxes /\ funnel[mailbox[s]] \in Seq(Mailboxes)
<1> DEFINE m == mailbox[s]
<1>1. /\ pc[s] = "idle" /\ funnel[m] # <<>>
      /\ funnel' = [funnel EXCEPT ![m] = Tail(@)]
      /\ heard' = [heard EXCEPT ![s] = IF conn_status[s] = HSOCK_BOUND THEN Head(funnel[m]) ELSE @]
      /\ UNCHANGED <<conn_status, mailbox, derived, atomic64, server_map, net, seen>>
  BY DEF Recv, Goes
<1>2. pc' = pc
  BY DEF Recv, Goes, CallInv, Shape
<1>3. m \in Mailboxes
  BY <1>1 DEF CallInv, Shape, StatusOf, NULL
<1>4. funnel[m] # Freed
  BY <1>3 DEF CallInv, Owners
<1>5. funnel[m] \in Seq(Mailboxes)
  BY <1>3, <1>4 DEF CallInv, Shape
<1> HIDE DEF m
<1>6. Head(funnel[m]) \in Mailboxes /\ Tail(funnel[m]) \in Seq(Mailboxes)
  BY <1>1, <1>5, HeadTailProperties
<1>7. /\ funnel' \in [Mailboxes -> Seq(Mailboxes) \cup {Freed}]
      /\ \A k \in Mailboxes : funnel'[k] # Freed <=> funnel[k] # Freed
  BY <1>1, <1>3, <1>4, <1>6, SockAssumption DEF CallInv, Shape
<1>8. heard' \in [Sockets -> Mailboxes \cup {NULL}]
  BY <1>1, <1>6 DEF CallInv, Shape
<1>9. Shape' /\ Owners' /\ Mapped' /\ OneEach'
  BY <1>1, <1>2, <1>7, <1>8 DEF CallInv, Shape, Owners, Mapped, OneEach
<1>10. (\A t \in Sockets : StatusOf(t) /\ SeenTrue(t))'
  BY <1>1, <1>2 DEF CallInv, StatusOf, SeenTrue
<1>11. (\A am \in net : NetTrue(am))'
  BY <1>1, <1>2 DEF CallInv, NetTrue
<1> QED
  BY <1>3, <1>5, <1>9, <1>10, <1>11 DEF CallInv, m

LEMMA CallForget ==
  ASSUME CallInv, NEW s \in Sockets, Forget(s)
  PROVE  CallInv'
<1>1. /\ pc[s] = "idle" /\ heard' = [heard EXCEPT ![s] = NULL]
      /\ UNCHANGED <<conn_status, mailbox, derived, atomic64, funnel, server_map, net, seen>>
  BY DEF Forget, Goes
<1>2. pc' = pc
  BY DEF Forget, Goes, CallInv, Shape
<1>3. Shape'
  BY <1>1, <1>2 DEF CallInv, Shape
<1> QED
  BY <1>1, <1>2, <1>3 DEF CallInv, StatusOf, SeenTrue, Owners, Mapped, NetTrue, OneEach

LEMMA CallDestroyFree ==
  ASSUME CallInv, NEW s \in Sockets, DestroyFree(s)
  PROVE  CallInv' /\ mailbox[s] \in Mailboxes
<1> USE DEF NULL
<1> DEFINE m == mailbox[s]
<1>1. /\ pc[s] = "closing" /\ pc' = [pc EXCEPT ![s] = "none"]
      /\ atomic64' = [atomic64 EXCEPT ![s] = Freed]
      /\ funnel' = [funnel EXCEPT ![m] = Freed]
      /\ mailbox' = [mailbox EXCEPT ![s] = 0]
      /\ heard' = [heard EXCEPT ![s] = 0]
      /\ UNCHANGED <<conn_status, derived, server_map, net, seen>>
  BY DEF DestroyFree, Goes
<1>2. m \in Mailboxes /\ conn_status[s] = 0
  BY <1>1 DEF CallInv, Shape, StatusOf
<1>3. \A t \in Sockets : /\ pc'[t] = IF t = s THEN "none" ELSE pc[t]
                         /\ mailbox'[t] = IF t = s THEN 0 ELSE mailbox[t]
                         /\ atomic64'[t] = IF t = s THEN Freed ELSE atomic64[t]
  BY <1>1 DEF CallInv, Shape
<1>4. Shape'
  BY <1>1, <1>2 DEF CallInv, Shape, PCs
<1>5. ASSUME NEW t \in Sockets PROVE StatusOf(t)' /\ SeenTrue(t)'
  <2>1. CASE t = s
    BY <1>1, <1>2, <1>3, <2>1 DEF CallInv, StatusOf, SeenTrue, HSOCK_BOUND, HSOCK_CONNECTED
  <2>2. CASE t # s
    BY <1>1, <1>3, <2>2 DEF CallInv, StatusOf, SeenTrue
  <2> QED
    BY <2>1, <2>2
<1>6. \A t \in Sockets : mailbox[t] = m => t = s
  BY <1>2, SockAssumption DEF CallInv, Owners
<1>7. 0 \notin Mailboxes
  BY SockAssumption
<1>8. Owners'
  <2>1. \A t, u \in Sockets : mailbox'[t] = mailbox'[u] /\ mailbox'[t] # 0 => t = u
    BY <1>3 DEF CallInv, Owners
  <2>2. ASSUME NEW k \in Mailboxes PROVE funnel'[k] # Freed <=> \E t \in Sockets : mailbox'[t] = k
    <3>1. CASE k = m
      BY <1>1, <1>2, <1>3, <1>6, <1>7, <3>1 DEF CallInv, Shape
    <3>2. CASE k # m
      <4>1. funnel'[k] = funnel[k]
        BY <1>1, <3>2 DEF CallInv, Shape
      <4>2. (\E t \in Sockets : mailbox'[t] = k) <=> \E t \in Sockets : mailbox[t] = k
        BY <1>3, <1>7, <3>2
      <4> QED
        BY <4>1, <4>2 DEF CallInv, Owners
    <3> QED
      BY <3>1, <3>2
  <2> QED
    BY <2>1, <2>2 DEF Owners
<1>9. Mapped'
  BY <1>1, <1>2, <1>3 DEF CallInv, Mapped, HSOCK_BOUND
<1>10. \A am \in net : am.sock # s
  BY <1>1, NothingOut
<1>11. (\A am \in net : NetTrue(am))'
  BY <1>1, <1>3, <1>10 DEF CallInv, NetTrue
<1>12. OneEach'
  BY <1>1 DEF CallInv, OneEach
<1> QED
  BY <1>2, <1>4, <1>5, <1>8, <1>9, <1>11, <1>12 DEF CallInv

LEMMA CallStutter ==
  ASSUME CallInv, UNCHANGED vars
  PROVE  CallInv'
BY DEF vars, socket, CallInv, Shape, StatusOf, SeenTrue, Owners, Mapped, NetTrue, OneEach

LEMMA CallReleases ==
  ASSUME CallInv, NEW s \in Sockets, Unbind(s) \/ Disconnect(s) \/ Destroy(s)
  PROVE  /\ CallInv'
         /\ conn_status'[s] = 0
         /\ \A t \in Sockets : t # s => conn_status'[t] = conn_status[t] /\ derived'[t] = derived[t]
         /\ \A f \in Endpoints : server_map'[f] # NULL =>
              server_map'[f] = server_map[f] /\ server_map[f] # mailbox[s]
         /\ pc[s] = "idle" /\ \A t \in Sockets : t # s => pc'[t] = pc[t]
         /\ UNCHANGED <<mailbox, atomic64, funnel, net, heard>>
<1>1. PICK to \in {"idle", "closing"} : Goes(s, "idle", to)
  BY DEF Unbind, Disconnect, Destroy
<1>2. Releases(s) /\ UNCHANGED <<mailbox, atomic64, funnel, net, heard>>
  BY DEF Unbind, Disconnect, Destroy, Releases
<1>3. pc[s] = "idle" /\ \A t \in Sockets : t # s => pc'[t] = pc[t]
  BY <1>1 DEF Goes, CallInv, Shape
<1> QED
  BY <1>1, <1>2, <1>3, CallRelease

(* The calls and their answers: what a reply is written to and what it says. *)
LEMMA CallStep == CallInv /\ [Next]_vars => CallInv'
<1> SUFFICES ASSUME CallInv, [Next]_vars PROVE CallInv'
  OBVIOUS
<1>1. ASSUME NEW s \in Sockets, Life(s) PROVE CallInv'
  BY <1>1, CallNew, CallReleases, CallDestroyFree, CallBind, CallConnect, CallConnectReturn DEF Life
<1>2. ASSUME NEW s \in Sockets, Traffic(s) PROVE CallInv'
  BY <1>2, CallSend, CallSendReturn, CallRecv, CallForget DEF Traffic
<1>3. ASSUME NEW am \in net, Handle(am) PROVE CallInv'
  BY <1>3, CallOnConnect, CallOnConnectReply, CallOnMail, CallOnMailReply DEF Handle
<1> QED
  BY <1>1, <1>2, <1>3, CallStutter DEF Next

LEMMA CallInvariant == Spec => []CallInv
<1>1. Init => CallInv
  BY CallInit
<1>2. CallInv /\ [Next]_vars => CallInv'
  BY CallStep
<1> QED
  BY <1>1, <1>2, PTL DEF Spec

(* Every field of a socket, every mailbox and the endpoint map hold what    *)
(* the call each socket is in lets them hold.                               *)
THEOREM SocketTypes == Spec => []TypeOK
<1>1. CallInv => TypeOK
  <2> SUFFICES ASSUME CallInv PROVE TypeOK
    OBVIOUS
  <2>1. ASSUME NEW s \in Sockets
        PROVE  CASE conn_status[s] = HSOCK_BOUND -> derived[s] \in Endpoints
                 [] conn_status[s] = HSOCK_CONNECTED -> derived[s] \in Mailboxes
                 [] conn_status[s] = 0 ->
                      derived[s] \in IF pc[s] = "connecting" THEN Endpoints ELSE {NULL}
    <3>1. conn_status[s] \in {0, HSOCK_BOUND, HSOCK_CONNECTED}
      BY DEF CallInv, Shape
    <3> QED
      BY <3>1 DEF CallInv, StatusOf, HSOCK_BOUND, HSOCK_CONNECTED
  <2> QED
    BY <2>1 DEF TypeOK, CallInv, Shape, PCs
<1> QED
  BY <1>1, CallInvariant, PTL

(* A reply to a connect or a send finds its socket inside that call, so the *)
(* word it is written to exists and waits for it; and it is the only one.   *)
THEOREM RepliesAreAwaited == Spec => []RepliesAwaited
<1>1. CallInv => RepliesAwaited
  BY DEF CallInv, NetTrue, OneEach, RepliesAwaited
<1> QED
  BY <1>1, CallInvariant, PTL

(* What a connect returns was at the endpoint at some moment of the call.   *)
THEOREM ConnectIsHonest == Spec => []ConnectHonest
<1>1. CallInv => ConnectHonest
  BY DEF CallInv, SeenTrue, ConnectHonest
<1> QED
  BY <1>1, CallInvariant, PTL

-----------------------------------------------------------------------------
(* Every call that waits is owed an answer. *)

CallsAnswered ==
  \A s \in Sockets :
    /\ pc[s] = "connecting" => (atomic64[s] # UINT64_MAX \/ \E am \in net : am.sock = s)
    /\ pc[s] = "sending" => (atomic64[s] # 0 \/ \E am \in net : am.sock = s)

(* A step that leaves a call, its word and its messages as they are. *)
LEMMA StillAnswered ==
  ASSUME CallsAnswered, NEW s \in Sockets, pc'[s] = pc[s], atomic64'[s] = atomic64[s],
         \A am \in net : am.sock = s => am \in net'
  PROVE  /\ pc'[s] = "connecting" => (atomic64'[s] # UINT64_MAX \/ \E am \in net' : am.sock = s)
         /\ pc'[s] = "sending" => (atomic64'[s] # 0 \/ \E am \in net' : am.sock = s)
BY DEF CallsAnswered

(* A step of a thread: its own call begins or ends, with a request out if   *)
(* it waits; the other sockets are left alone.                              *)
LEMMA AnsweredThread ==
  ASSUME CallsAnswered, Shape, NEW s \in Sockets, NEW to \in PCs,
         pc' = [pc EXCEPT ![s] = to], net \subseteq net',
         \A t \in Sockets \ {s} : atomic64'[t] = atomic64[t],
         to \in {"connecting", "sending"} => \E am \in net' : am.sock = s
  PROVE  CallsAnswered'
<1> SUFFICES ASSUME NEW t \in Sockets
             PROVE  /\ pc'[t] = "connecting" => (atomic64'[t] # UINT64_MAX \/ \E am \in net' : am.sock = t)
                    /\ pc'[t] = "sending" => (atomic64'[t] # 0 \/ \E am \in net' : am.sock = t)
  BY DEF CallsAnswered
<1>1. CASE t = s
  <2>1. pc'[t] = to
    BY <1>1 DEF Shape
  <2> QED
    BY <1>1, <2>1
<1>2. CASE t # s
  <2>1. pc'[t] = pc[t] /\ atomic64'[t] = atomic64[t]
    BY <1>2 DEF Shape
  <2> QED
    BY <2>1, StillAnswered
<1> QED
  BY <1>1, <1>2

(* A handler takes a message of one socket: it replies, or writes the word. *)
LEMMA AnsweredHandler ==
  ASSUME CallsAnswered, CallInv, NEW am \in net, net \ {am} \subseteq net', UNCHANGED pc,
         \A t \in Sockets \ {am.sock} : atomic64'[t] = atomic64[t],
         \/ \E reply \in net' : reply.sock = am.sock
         \/ /\ pc[am.sock] = "connecting" => atomic64'[am.sock] # UINT64_MAX
            /\ pc[am.sock] = "sending" => atomic64'[am.sock] # 0
  PROVE  CallsAnswered'
<1> SUFFICES ASSUME NEW t \in Sockets
             PROVE  /\ pc'[t] = "connecting" => (atomic64'[t] # UINT64_MAX \/ \E x \in net' : x.sock = t)
                    /\ pc'[t] = "sending" => (atomic64'[t] # 0 \/ \E x \in net' : x.sock = t)
  BY DEF CallsAnswered
<1>1. CASE t = am.sock
  BY <1>1
<1>2. CASE t # am.sock
  <2>1. \A x \in net : x.sock = t => x \in net'
    BY <1>2
  <2>2. atomic64'[t] = atomic64[t]
    BY <1>2
  <2> QED
    BY <2>1, <2>2, StillAnswered
<1> QED
  BY <1>1, <1>2

LEMMA AnsweredStep == CallInv /\ CallsAnswered /\ [Next]_vars => CallsAnswered'
<1> SUFFICES ASSUME CallInv, CallsAnswered, [Next]_vars PROVE CallsAnswered'
  OBVIOUS
<1> USE DEF socket, PCs, Goes
<1>0. Shape /\ \A am \in net : NetTrue(am)
  BY DEF CallInv
<1>1. ASSUME NEW s \in Sockets, Life(s) PROVE CallsAnswered'
  <2>1. CASE New(s)
    BY <1>0, <2>1, AnsweredThread DEF New, Shape
  <2>2. CASE \E e \in Endpoints : Bind(s, e)
    BY <1>0, <2>2, AnsweredThread DEF Bind
  <2>3. CASE Unbind(s) \/ Disconnect(s)
    BY <1>0, <2>3, AnsweredThread DEF Unbind, Disconnect
  <2>4. CASE \E e \in Endpoints : Connect(s, e)
    <3>1. PICK e \in Endpoints : Connect(s, e)
      BY <2>4
    <3>2. ConnectReq(s, e) \in net' /\ ConnectReq(s, e).sock = s
      BY <3>1 DEF Connect, ConnectReq
    <3> QED
      BY <1>0, <3>1, <3>2, AnsweredThread DEF Connect, Shape
  <2>5. CASE ConnectReturn(s)
    BY <1>0, <2>5, AnsweredThread DEF ConnectReturn, Shape
  <2>6. CASE Destroy(s)
    BY <1>0, <2>6, AnsweredThread DEF Destroy
  <2>7. CASE DestroyFree(s)
    BY <1>0, <2>7, AnsweredThread DEF DestroyFree, Shape
  <2> QED
    BY <1>1, <2>1, <2>2, <2>3, <2>4, <2>5, <2>6, <2>7 DEF Life
<1>2. ASSUME NEW s \in Sockets, Traffic(s) PROVE CallsAnswered'
  <2>1. CASE Send(s)
    <3>1. MailReq(s, Dest(s)) \in net' /\ MailReq(s, Dest(s)).sock = s
      BY <2>1 DEF Send, MailReq
    <3> QED
      BY <1>0, <2>1, <3>1, AnsweredThread DEF Send, Shape
  <2>2. CASE SendReturn(s)
    BY <1>0, <2>2, AnsweredThread DEF SendReturn, Shape
  <2>3. CASE Recv(s) \/ Forget(s)
    BY <1>0, <2>3, AnsweredThread DEF Recv, Forget
  <2> QED
    BY <1>2, <2>1, <2>2, <2>3 DEF Traffic
<1>3. ASSUME NEW am \in net, Handle(am) PROVE CallsAnswered'
  <2>0. am.sock \in Sockets
    BY <1>0 DEF NetTrue
  <2>1. CASE OnConnect(am)
    <3> DEFINE reply == ConnectReply(am.sock, server_map[am.server_endpoint])
    <3>1. reply \in net' /\ reply.sock = am.sock
      BY <2>1 DEF OnConnect, ConnectReply
    <3> HIDE DEF reply
    <3> QED
      BY <2>1, <3>1, AnsweredHandler DEF OnConnect
  <2>2. CASE OnConnectReply(am)
    <3>1. pc[am.sock] = "connecting" /\ am.server_mailbox \in seen[am.sock]
      BY <1>0, <2>2 DEF OnConnectReply, NetTrue
    <3>2. am.server_mailbox # UINT64_MAX
      BY <1>0, <2>0, <3>1, SockAssumption DEF Shape, NULL
    <3>3. atomic64'[am.sock] = am.server_mailbox
      BY <1>0, <2>0, <2>2 DEF OnConnectReply, Shape
    <3> QED
      BY <1>0, <2>0, <2>2, <3>1, <3>2, <3>3, AnsweredHandler DEF OnConnectReply, Shape
  <2>3. CASE OnMail(am)
    <3>1. MailReply(am.sock) \in net' /\ MailReply(am.sock).sock = am.sock
      BY <2>3 DEF OnMail, MailReply
    <3> QED
      BY <2>3, <3>1, AnsweredHandler DEF OnMail
  <2>4. CASE OnMailReply(am)
    <3>1. pc[am.sock] = "sending"
      BY <1>0, <2>4 DEF OnMailReply, NetTrue
    <3>2. atomic64'[am.sock] = 1
      BY <1>0, <2>0, <2>4 DEF OnMailReply, Shape
    <3> QED
      BY <1>0, <2>0, <2>4, <3>1, <3>2, AnsweredHandler DEF OnMailReply, Shape
  <2> QED
    BY <1>3, <2>1, <2>2, <2>3, <2>4 DEF Handle
<1>4. CASE UNCHANGED vars
  BY <1>4, StillAnswered DEF vars, CallsAnswered
<1> QED
  BY <1>1, <1>2, <1>3, <1>4 DEF Next

(* A connect or a send that waits has its answer in its word, or a request  *)
(* or answer of its own under way: it never polls for an answer that nobody *)
(* owes it (hsock.c:315, 404), whatever its peers do.  A request to a       *)
(* mailbox that has been freed, the end of the program, is what NoDangling  *)
(* is about.                                                                *)
THEOREM CallsAreAnswered == Spec => []CallsAnswered
<1>1. Init => CallsAnswered
  BY DEF Init, CallsAnswered
<1> QED
  BY <1>1, AnsweredStep, CallInvariant, PTL DEF Spec

-----------------------------------------------------------------------------
(* Addresses.  One is good while the socket whose mailbox it is has not      *)
(* begun to close.                                                          *)

Used == {m \in Mailboxes :
           \E s \in Sockets : mailbox[s] = m /\ pc[s] \in {"idle", "connecting", "sending"}}

MailGood(am) ==
  /\ am.kind = "connected" => am.server_mailbox \in Used \cup {NULL}
  /\ am.kind = "mail" => am.dest_mailbox \in Used

(* A socket may have sent to itself: it finds its own address.  *)
HeldGood(s) ==
  /\ conn_status[s] = HSOCK_CONNECTED => derived[s] \in Used
  /\ pc[s] = "connecting" => atomic64[s] \in Used \cup {NULL, UINT64_MAX}
  /\ heard[s] \in Used \cup {NULL}
  /\ mailbox[s] # NULL =>
       \A i \in DOMAIN funnel[mailbox[s]] : funnel[mailbox[s]][i] \in Used \cup {mailbox[s]}

AddressesGood ==
  /\ \A am \in net : MailGood(am)
  /\ \A s \in Sockets : HeldGood(s)

LEMMA MapGood ==
  ASSUME CallInv, NEW e \in Endpoints
  PROVE  server_map[e] \in Used \cup {NULL}
<1> SUFFICES ASSUME server_map[e] # NULL PROVE server_map[e] \in Used
  OBVIOUS
<1>1. PICK s \in Sockets :
        conn_status[s] = HSOCK_BOUND /\ derived[s] = e /\ mailbox[s] = server_map[e]
  BY DEF CallInv, Mapped
<1>2. pc[s] \in {"idle", "sending"}
  BY <1>1 DEF CallInv, StatusOf, HSOCK_BOUND
<1> QED
  BY <1>1, <1>2 DEF CallInv, Shape, Used

LEMMA OwnUsed ==
  ASSUME CallInv, NEW s \in Sockets, pc[s] \in {"idle", "connecting", "sending"}
  PROVE  mailbox[s] \in Used
BY DEF CallInv, Shape, StatusOf, Used

(* The steps that close no socket leave every good address good. *)
LEMMA UsedStays ==
  ASSUME \A s \in Sockets : pc[s] \in {"idle", "connecting", "sending"} =>
           mailbox'[s] = mailbox[s] /\ pc'[s] \in {"idle", "connecting", "sending"}
  PROVE  Used \subseteq Used'
BY DEF Used

(* What one socket holds when nothing of it changes. *)
LEMMA HeldStays ==
  ASSUME NEW s \in Sockets, HeldGood(s), Used \subseteq Used',
         conn_status'[s] = conn_status[s], derived'[s] = derived[s],
         pc'[s] = pc[s], atomic64'[s] = atomic64[s], heard'[s] = heard[s],
         mailbox'[s] = mailbox[s],
         mailbox[s] # NULL => funnel'[mailbox[s]] = funnel[mailbox[s]]
  PROVE  HeldGood(s)'
BY DEF HeldGood

LEMMA GoodNew ==
  ASSUME CallInv, AddressesGood, NEW s \in Sockets, New(s)
  PROVE  AddressesGood'
<1>1. PICK m \in Mailboxes :
        /\ funnel[m] = Freed
        /\ mailbox' = [mailbox EXCEPT ![s] = m]
        /\ funnel' = [funnel EXCEPT ![m] = <<>>]
  BY DEF New
<1>2. /\ pc[s] = "none" /\ pc' = [pc EXCEPT ![s] = "idle"]
      /\ atomic64' = [atomic64 EXCEPT ![s] = 0]
      /\ UNCHANGED <<conn_status, derived, server_map, net, heard, seen>>
  BY DEF New, Goes
<1>3. \A t \in Sockets : t # s => /\ pc'[t] = pc[t] /\ mailbox'[t] = mailbox[t]
                                  /\ atomic64'[t] = atomic64[t]
  BY <1>1, <1>2 DEF CallInv, Shape
<1>4. pc'[s] = "idle" /\ mailbox'[s] = m /\ funnel'[m] = <<>>
  BY <1>1, <1>2 DEF CallInv, Shape
<1>5. Used \subseteq Used'
  <2>1. \A t \in Sockets : pc[t] \in {"idle", "connecting", "sending"} =>
          mailbox'[t] = mailbox[t] /\ pc'[t] \in {"idle", "connecting", "sending"}
    BY <1>2, <1>3
  <2> QED
    BY <2>1, UsedStays
<1>6. (\A am \in net : MailGood(am))'
  BY <1>2, <1>5 DEF AddressesGood, MailGood
<1>7. ASSUME NEW t \in Sockets PROVE HeldGood(t)'
  <2>1. CASE t = s
    <3>1. conn_status[s] = 0
      BY <1>2 DEF CallInv, StatusOf
    <3>2. heard'[s] \in Used' \cup {NULL}
      BY <1>2, <1>5 DEF AddressesGood, HeldGood
    <3>3. \A i \in DOMAIN funnel'[m] : funnel'[m][i] \in Used' \cup {m}
      BY <1>4
    <3> QED
      BY <1>2, <1>4, <2>1, <3>1, <3>2, <3>3 DEF HeldGood, HSOCK_CONNECTED
  <2>2. CASE t # s
    <3>1. mailbox[t] # m
      BY <1>1 DEF CallInv, Owners
    <3>2. mailbox[t] # NULL => funnel'[mailbox[t]] = funnel[mailbox[t]]
      BY <1>1, <3>1 DEF CallInv, Shape
    <3> QED
      BY <1>2, <1>3, <1>5, <2>2, <3>2, HeldStays DEF AddressesGood
  <2> QED
    BY <2>1, <2>2
<1> QED
  BY <1>6, <1>7 DEF AddressesGood

LEMMA GoodBind ==
  ASSUME CallInv, AddressesGood, NEW s \in Sockets, NEW e \in Endpoints, Bind(s, e)
  PROVE  AddressesGood'
<1>1. /\ conn_status' = [conn_status EXCEPT ![s] = HSOCK_BOUND]
      /\ derived' = [derived EXCEPT ![s] = e]
      /\ UNCHANGED <<mailbox, atomic64, funnel, net, heard>>
  BY DEF Bind, Goes
<1>2. pc' = pc
  BY DEF Bind, Goes, CallInv, Shape
<1>3. Used' = Used
  BY <1>1, <1>2 DEF Used
<1>4. \A t \in Sockets : conn_status'[t] = HSOCK_CONNECTED =>
        conn_status[t] = HSOCK_CONNECTED /\ derived'[t] = derived[t]
  BY <1>1 DEF CallInv, Shape, HSOCK_BOUND, HSOCK_CONNECTED
<1> QED
  BY <1>1, <1>2, <1>3, <1>4 DEF AddressesGood, MailGood, HeldGood

LEMMA GoodConnect ==
  ASSUME CallInv, AddressesGood, NEW s \in Sockets, NEW e \in Endpoints, Connect(s, e)
  PROVE  AddressesGood'
<1>1. /\ pc[s] = "idle" /\ conn_status[s] = 0
      /\ pc' = [pc EXCEPT ![s] = "connecting"]
      /\ derived' = [derived EXCEPT ![s] = e]
      /\ atomic64' = [atomic64 EXCEPT ![s] = UINT64_MAX]
      /\ net' = net \cup {ConnectReq(s, e)}
      /\ UNCHANGED <<conn_status, mailbox, funnel, server_map, heard>>
  BY DEF Connect, Goes
<1>2. \A t \in Sockets : t # s => /\ pc'[t] = pc[t] /\ derived'[t] = derived[t]
                                  /\ atomic64'[t] = atomic64[t]
  BY <1>1 DEF CallInv, Shape
<1>3. pc'[s] = "connecting" /\ atomic64'[s] = UINT64_MAX
  BY <1>1 DEF CallInv, Shape
<1>4. Used \subseteq Used'
  BY <1>1, <1>2, <1>3, UsedStays
<1>5. (\A am \in net : MailGood(am))'
  <2>1. ConnectReq(s, e).kind = "connect"
    BY DEF ConnectReq
  <2> QED
    BY <1>1, <1>4, <2>1 DEF AddressesGood, MailGood
<1>6. ASSUME NEW t \in Sockets PROVE HeldGood(t)'
  <2>1. CASE t = s
    BY <1>1, <1>3, <1>4, <2>1 DEF AddressesGood, HeldGood, HSOCK_CONNECTED
  <2>2. CASE t # s
    BY <1>1, <1>2, <1>4, <2>2, HeldStays DEF AddressesGood
  <2> QED
    BY <2>1, <2>2
<1> QED
  BY <1>5, <1>6 DEF AddressesGood

LEMMA GoodConnectReturn ==
  ASSUME CallInv, AddressesGood, NEW s \in Sockets, ConnectReturn(s)
  PROVE  AddressesGood'
<1> DEFINE m == atomic64[s]
<1>1. /\ pc[s] = "connecting" /\ m # UINT64_MAX
      /\ pc' = [pc EXCEPT ![s] = "idle"]
      /\ atomic64' = [atomic64 EXCEPT ![s] = UINT64_MAX]
      /\ conn_status' = [conn_status EXCEPT ![s] = IF m = NULL THEN 0 ELSE HSOCK_CONNECTED]
      /\ derived' = [derived EXCEPT ![s] = m]
      /\ UNCHANGED <<mailbox, funnel, server_map, net, heard>>
  BY DEF ConnectReturn, Goes
<1>2. m \in Used \cup {NULL}
  BY <1>1 DEF AddressesGood, HeldGood
<1> HIDE DEF m
<1>3. \A t \in Sockets : t # s => /\ pc'[t] = pc[t] /\ derived'[t] = derived[t]
                                  /\ atomic64'[t] = atomic64[t]
                                  /\ conn_status'[t] = conn_status[t]
  BY <1>1 DEF CallInv, Shape
<1>4. /\ pc'[s] = "idle" /\ derived'[s] = m
      /\ conn_status'[s] = IF m = NULL THEN 0 ELSE HSOCK_CONNECTED
  BY <1>1 DEF CallInv, Shape
<1>5. Used \subseteq Used'
  BY <1>1, <1>3, <1>4, UsedStays
<1>6. (\A am \in net : MailGood(am))'
  BY <1>1, <1>5 DEF AddressesGood, MailGood
<1>7. ASSUME NEW t \in Sockets PROVE HeldGood(t)'
  <2>1. CASE t = s
    BY <1>1, <1>2, <1>4, <1>5, <2>1 DEF AddressesGood, HeldGood, HSOCK_CONNECTED, NULL
  <2>2. CASE t # s
    BY <1>1, <1>3, <1>5, <2>2, HeldStays DEF AddressesGood
  <2> QED
    BY <2>1, <2>2
<1> QED
  BY <1>6, <1>7 DEF AddressesGood

LEMMA GoodSend ==
  ASSUME CallInv, AddressesGood, NEW s \in Sockets, Send(s)
  PROVE  AddressesGood'
<1>1. /\ pc[s] = "idle" /\ Dest(s) # NULL
      /\ pc' = [pc EXCEPT ![s] = "sending"]
      /\ net' = net \cup {MailReq(s, Dest(s))}
      /\ atomic64' = [atomic64 EXCEPT ![s] = 0]
      /\ UNCHANGED <<conn_status, mailbox, derived, funnel, server_map, heard, seen>>
  BY DEF Send, Goes
<1>2. Dest(s) \in Used
  <2>1. CASE conn_status[s] = HSOCK_CONNECTED
    BY <2>1 DEF Dest, AddressesGood, HeldGood, HSOCK_BOUND, HSOCK_CONNECTED
  <2>2. CASE conn_status[s] = HSOCK_BOUND
    BY <1>1, <2>2 DEF Dest, AddressesGood, HeldGood, HSOCK_BOUND, HSOCK_CONNECTED
  <2>3. CASE conn_status[s] = 0
    BY <1>1, <2>3 DEF Dest, HSOCK_BOUND, HSOCK_CONNECTED
  <2> QED
    BY <2>1, <2>2, <2>3 DEF CallInv, Shape
<1>3. \A t \in Sockets : t # s => pc'[t] = pc[t] /\ atomic64'[t] = atomic64[t]
  BY <1>1 DEF CallInv, Shape
<1>4. pc'[s] = "sending"
  BY <1>1 DEF CallInv, Shape
<1>5. Used \subseteq Used'
  BY <1>1, <1>3, <1>4, UsedStays
<1>6. (\A am \in net : MailGood(am))'
  <2>1. MailReq(s, Dest(s)).kind = "mail" /\ MailReq(s, Dest(s)).dest_mailbox = Dest(s)
    BY DEF MailReq
  <2> QED
    BY <1>1, <1>2, <1>5, <2>1 DEF AddressesGood, MailGood
<1>7. ASSUME NEW t \in Sockets PROVE HeldGood(t)'
  <2>1. CASE t = s
    BY <1>1, <1>4, <1>5, <2>1 DEF AddressesGood, HeldGood
  <2>2. CASE t # s
    BY <1>1, <1>3, <1>5, <2>2, HeldStays DEF AddressesGood
  <2> QED
    BY <2>1, <2>2
<1> QED
  BY <1>6, <1>7 DEF AddressesGood

LEMMA GoodSendReturn ==
  ASSUME CallInv, AddressesGood, NEW s \in Sockets, SendReturn(s)
  PROVE  AddressesGood'
<1>1. /\ pc[s] = "sending" /\ pc' = [pc EXCEPT ![s] = "idle"]
      /\ atomic64' = [atomic64 EXCEPT ![s] = 0]
      /\ UNCHANGED <<conn_status, mailbox, derived, funnel, server_map, net, heard, seen>>
  BY DEF SendReturn, Goes
<1>2. \A t \in Sockets : t # s => pc'[t] = pc[t] /\ atomic64'[t] = atomic64[t]
  BY <1>1 DEF CallInv, Shape
<1>3. pc'[s] = "idle"
  BY <1>1 DEF CallInv, Shape
<1>4. Used \subseteq Used'
  BY <1>1, <1>2, <1>3, UsedStays
<1>5. ASSUME NEW t \in Sockets PROVE HeldGood(t)'
  <2>1. CASE t = s
    BY <1>1, <1>3, <1>4, <2>1 DEF AddressesGood, HeldGood
  <2>2. CASE t # s
    BY <1>1, <1>2, <1>4, <2>2, HeldStays DEF AddressesGood
  <2> QED
    BY <2>1, <2>2
<1> QED
  BY <1>1, <1>4, <1>5 DEF AddressesGood, MailGood

LEMMA GoodRecv ==
  ASSUME CallInv, AddressesGood, NEW s \in Sockets, Recv(s)
  PROVE  AddressesGood'
<1> DEFINE m == mailbox[s]
           f == funnel[m]
<1>1. /\ pc[s] = "idle" /\ f # <<>>
      /\ funnel' = [funnel EXCEPT ![m] = Tail(f)]
      /\ heard' = [heard EXCEPT ![s] = IF conn_status[s] = HSOCK_BOUND THEN Head(f) ELSE @]
      /\ UNCHANGED <<conn_status, mailbox, derived, atomic64, server_map, net, seen>>
  BY DEF Recv, Goes
<1>2. pc' = pc
  BY DEF Recv, Goes, CallInv, Shape
<1>3. m \in Used /\ m \in Mailboxes /\ m # NULL /\ f \in Seq(Mailboxes)
  BY <1>1, OwnUsed, CallRecv DEF CallInv, StatusOf
<1>4. \A i \in DOMAIN f : f[i] \in Used
  BY <1>3 DEF AddressesGood, HeldGood
<1> HIDE DEF f
<1>5. Head(f) \in Used /\ \A i \in DOMAIN Tail(f) : Tail(f)[i] \in Used
  <2>1. /\ DOMAIN f = 1 .. Len(f) /\ Len(f) \in Nat
        /\ DOMAIN Tail(f) = 1 .. Len(Tail(f)) /\ Len(f) # 0
    BY <1>1, <1>3, LenProperties, EmptySeq, HeadTailProperties
  <2>2. Len(Tail(f)) = Len(f) - 1 /\ \A i \in 1 .. Len(Tail(f)) : Tail(f)[i] = f[i + 1]
    BY <1>1, <1>3, HeadTailProperties
  <2>3. Head(f) = f[1]
    BY <1>1, <1>3
  <2>4. 1 \in DOMAIN f
    BY <2>1
  <2>5. ASSUME NEW i \in DOMAIN Tail(f) PROVE i + 1 \in DOMAIN f
    BY <2>1, <2>2
  <2> QED
    BY <1>4, <2>1, <2>2, <2>3, <2>4, <2>5
<1> HIDE DEF m
<1>6. Used' = Used
  BY <1>1, <1>2 DEF Used
<1>7. funnel'[m] = Tail(f) /\ heard'[s] \in Used \cup {NULL}
  BY <1>1, <1>3, <1>5 DEF CallInv, Shape, AddressesGood, HeldGood
<1>8. (\A am \in net : MailGood(am))'
  BY <1>1, <1>6 DEF AddressesGood, MailGood
<1>9. ASSUME NEW t \in Sockets PROVE HeldGood(t)'
  <2>1. CASE t = s
    <3>1. \A i \in DOMAIN funnel'[m] : funnel'[m][i] \in Used'
      BY <1>5, <1>6, <1>7
    <3>2. mailbox'[t] = m
      BY <1>1, <2>1 DEF m
    <3> QED
      BY <1>1, <1>2, <1>6, <1>7, <2>1, <3>1, <3>2 DEF AddressesGood, HeldGood
  <2>2. CASE t # s
    <3>1. mailbox[t] # NULL => mailbox[t] # m
      BY <2>2 DEF CallInv, Owners, m
    <3>2. mailbox[t] # NULL => funnel'[mailbox[t]] = funnel[mailbox[t]]
      BY <1>1, <3>1 DEF CallInv, Shape
    <3>3. heard'[t] = heard[t]
      BY <1>1, <2>2 DEF CallInv, Shape
    <3> QED
      BY <1>1, <1>2, <1>6, <3>2, <3>3, HeldStays DEF AddressesGood
  <2> QED
    BY <2>1, <2>2
<1> QED
  BY <1>8, <1>9 DEF AddressesGood

LEMMA GoodForget ==
  ASSUME CallInv, AddressesGood, NEW s \in Sockets, Forget(s)
  PROVE  AddressesGood'
<1>1. /\ heard' = [heard EXCEPT ![s] = NULL]
      /\ UNCHANGED <<conn_status, mailbox, derived, atomic64, funnel, server_map, net, seen>>
  BY DEF Forget, Goes
<1>2. pc' = pc
  BY DEF Forget, Goes, CallInv, Shape
<1>3. Used' = Used
  BY <1>1, <1>2 DEF Used
<1>4. \A t \in Sockets : heard'[t] \in {heard[t], NULL}
  BY <1>1 DEF CallInv, Shape
<1> QED
  BY <1>1, <1>2, <1>3, <1>4 DEF AddressesGood, MailGood, HeldGood

LEMMA GoodOnConnect ==
  ASSUME CallInv, AddressesGood, NEW am \in net, OnConnect(am)
  PROVE  AddressesGood'
<1> DEFINE m == server_map[am.server_endpoint]
           reply == ConnectReply(am.sock, m)
<1>1. /\ am.kind = "connect" /\ net' = (net \ {am}) \cup {reply}
      /\ UNCHANGED <<pc, conn_status, mailbox, derived, atomic64, funnel, server_map, heard, seen>>
  BY DEF OnConnect, socket
<1>2. reply.kind = "connected" /\ reply.server_mailbox = m
  BY DEF ConnectReply
<1>3. m \in Used \cup {NULL}
  BY <1>1, MapGood DEF CallInv, NetTrue
<1> HIDE DEF m, reply
<1>4. Used' = Used
  BY <1>1 DEF Used
<1>5. (\A x \in net : MailGood(x))'
  BY <1>1, <1>2, <1>3, <1>4 DEF AddressesGood, MailGood
<1>6. (\A s \in Sockets : HeldGood(s))'
  BY <1>1, <1>4 DEF AddressesGood, HeldGood
<1> QED
  BY <1>5, <1>6 DEF AddressesGood

LEMMA GoodOnConnectReply ==
  ASSUME CallInv, AddressesGood, NEW am \in net, OnConnectReply(am)
  PROVE  AddressesGood'
<1> DEFINE m == am.server_mailbox
<1>1. /\ am.kind = "connected" /\ net' = net \ {am}
      /\ atomic64' = [atomic64 EXCEPT ![am.sock] = m]
      /\ UNCHANGED <<pc, conn_status, mailbox, derived, funnel, server_map, heard, seen>>
  BY DEF OnConnectReply
<1>2. m \in Used \cup {NULL}
  BY <1>1 DEF AddressesGood, MailGood
<1> HIDE DEF m
<1>3. Used' = Used
  BY <1>1 DEF Used
<1>4. \A t \in Sockets : atomic64'[t] \in {atomic64[t], m}
  BY <1>1 DEF CallInv, Shape
<1> QED
  BY <1>1, <1>2, <1>3, <1>4 DEF AddressesGood, MailGood, HeldGood

LEMMA GoodOnMail ==
  ASSUME CallInv, AddressesGood, NEW am \in net, OnMail(am)
  PROVE  AddressesGood'
<1> DEFINE m == am.dest_mailbox
           from == am.src_mailbox
           f == funnel[m]
           reply == MailReply(am.sock)
<1>1. /\ am.kind = "mail" /\ f # Freed
      /\ funnel' = [funnel EXCEPT ![m] = Append(f, from)]
      /\ net' = (net \ {am}) \cup {reply}
      /\ UNCHANGED <<pc, conn_status, mailbox, derived, atomic64, server_map, heard, seen>>
  BY DEF OnMail, socket
<1>2. reply.kind = "sent"
  BY DEF MailReply
<1>3. /\ am.sock \in Sockets /\ pc[am.sock] = "sending"
      /\ m \in Mailboxes /\ from = mailbox[am.sock]
  BY <1>1 DEF CallInv, NetTrue
<1>4. from \in Used /\ from \in Mailboxes
  BY <1>3, OwnUsed DEF Used
<1> HIDE DEF m, from, reply
<1>5. f \in Seq(Mailboxes)
  BY <1>1, <1>3 DEF CallInv, Shape
<1>6. Used' = Used
  BY <1>1 DEF Used
<1> HIDE DEF f
<1>7. \A i \in DOMAIN Append(f, from) :
        Append(f, from)[i] = from \/ (i \in DOMAIN f /\ Append(f, from)[i] = f[i])
  <2>1. /\ DOMAIN f = 1 .. Len(f) /\ Len(f) \in Nat
        /\ DOMAIN Append(f, from) = 1 .. Len(Append(f, from))
    BY <1>4, <1>5, LenProperties, AppendProperties
  <2>2. /\ Len(Append(f, from)) = Len(f) + 1
        /\ \A i \in 1 .. Len(f) : Append(f, from)[i] = f[i]
        /\ Append(f, from)[Len(f) + 1] = from
    BY <1>4, <1>5, AppendProperties
  <2>3. ASSUME NEW i \in 1 .. Len(f) + 1 PROVE i \in 1 .. Len(f) \/ i = Len(f) + 1
    BY <2>1
  <2> QED
    BY <2>1, <2>2, <2>3
<1>8. (\A x \in net : MailGood(x))'
  BY <1>1, <1>2, <1>6 DEF AddressesGood, MailGood
<1>9. ASSUME NEW t \in Sockets PROVE HeldGood(t)'
  <2>1. CASE mailbox[t] # NULL /\ mailbox[t] = m
    <3>1. funnel'[m] = Append(f, from)
      BY <1>1, <1>3 DEF CallInv, Shape
    <3>2. \A i \in DOMAIN f : f[i] \in Used \cup {m}
      BY <2>1 DEF AddressesGood, HeldGood, f
    <3>3. \A i \in DOMAIN funnel'[m] : funnel'[m][i] \in Used \cup {m}
      BY <1>4, <1>7, <3>1, <3>2
    <3> QED
      BY <1>1, <1>6, <2>1, <3>3 DEF AddressesGood, HeldGood
  <2>2. CASE mailbox[t] # NULL => mailbox[t] # m
    <3>1. mailbox[t] # NULL => funnel'[mailbox[t]] = funnel[mailbox[t]]
      BY <1>1, <2>2 DEF CallInv, Shape
    <3> QED
      BY <1>1, <1>6, <3>1, HeldStays DEF AddressesGood
  <2> QED
    BY <2>1, <2>2
<1> QED
  BY <1>8, <1>9 DEF AddressesGood

LEMMA GoodOnMailReply ==
  ASSUME CallInv, AddressesGood, NEW am \in net, OnMailReply(am)
  PROVE  AddressesGood'
<1>1. /\ am.kind = "sent" /\ net' = net \ {am}
      /\ atomic64' = [atomic64 EXCEPT ![am.sock] = 1]
      /\ UNCHANGED <<pc, conn_status, mailbox, derived, funnel, server_map, heard, seen>>
  BY DEF OnMailReply
<1>2. Used' = Used
  BY <1>1 DEF Used
<1>3. \A t \in Sockets : pc[t] = "connecting" => atomic64'[t] = atomic64[t]
  <2>1. pc[am.sock] = "sending"
    BY <1>1 DEF CallInv, NetTrue
  <2> QED
    BY <1>1, <2>1 DEF CallInv, Shape
<1> QED
  BY <1>1, <1>2, <1>3 DEF AddressesGood, MailGood, HeldGood

(* hsock_unbind and hsock_disconnect: the socket keeps its mailbox. *)
LEMMA GoodRelease ==
  ASSUME CallInv, AddressesGood, NEW s \in Sockets, Unbind(s) \/ Disconnect(s)
  PROVE  AddressesGood'
<1>1. /\ conn_status'[s] = 0 /\ pc[s] = "idle"
      /\ \A t \in Sockets : t # s => conn_status'[t] = conn_status[t] /\ derived'[t] = derived[t]
      /\ \A t \in Sockets : t # s => pc'[t] = pc[t]
      /\ UNCHANGED <<mailbox, atomic64, funnel, net, heard>>
  BY CallReleases
<1>2. pc'[s] = "idle"
  BY DEF Unbind, Disconnect, Goes, CallInv, Shape
<1>3. Used' = Used
  BY <1>1, <1>2 DEF Used
<1>4. \A t \in Sockets : conn_status'[t] = HSOCK_CONNECTED =>
        conn_status[t] = HSOCK_CONNECTED /\ derived'[t] = derived[t]
  BY <1>1 DEF HSOCK_CONNECTED
<1>5. \A t \in Sockets : pc'[t] = pc[t]
  BY <1>1, <1>2
<1> QED
  BY <1>1, <1>3, <1>4, <1>5 DEF AddressesGood, MailGood, HeldGood

(* hsock_destroy begins: nobody has the address that stops being good. *)
LEMMA GoodDestroy ==
  ASSUME CallInv, AddressesGood, NEW s \in Sockets, Destroy(s), Careful, Quiet
  PROVE  AddressesGood'
<1> DEFINE m == mailbox[s]
<1>1. /\ conn_status'[s] = 0 /\ pc[s] = "idle"
      /\ \A t \in Sockets : t # s => conn_status'[t] = conn_status[t] /\ derived'[t] = derived[t]
      /\ \A t \in Sockets : t # s => pc'[t] = pc[t]
      /\ UNCHANGED <<mailbox, atomic64, funnel, net, heard>>
  BY CallReleases
<1>2. pc'[s] = "closing"
  BY DEF Destroy, Goes, CallInv, Shape
<1>3. Unused(s) /\ \A t \in Sockets : pc[t] # "connecting"
  BY <1>1, <1>2 DEF Careful, Quiet, Closes
<1>4. m # NULL
  BY <1>1 DEF CallInv, StatusOf
<1>5. Used \ {m} \subseteq Used'
  BY <1>1, <1>2 DEF Used
<1>6. (\A am \in net : MailGood(am))'
  <2> SUFFICES ASSUME NEW am \in net PROVE MailGood(am)'
    BY <1>1
  <2>1. am.kind # "connected"
    BY <1>3 DEF CallInv, NetTrue
  <2>2. am.kind = "mail" => am.dest_mailbox \in Used /\ am.dest_mailbox # m
    BY <1>3 DEF AddressesGood, MailGood, Unused
  <2> QED
    BY <1>5, <2>1, <2>2 DEF MailGood
<1>7. ASSUME NEW t \in Sockets PROVE HeldGood(t)'
  <2>1. conn_status'[t] = HSOCK_CONNECTED => derived'[t] \in Used'
    <3> SUFFICES ASSUME conn_status'[t] = HSOCK_CONNECTED PROVE derived'[t] \in Used'
      OBVIOUS
    <3>1. t # s
      BY <1>1 DEF HSOCK_CONNECTED
    <3>2. conn_status[t] = HSOCK_CONNECTED /\ derived'[t] = derived[t]
      BY <1>1, <3>1
    <3>3. derived[t] # m
      BY <1>3, <3>2 DEF Unused
    <3> QED
      BY <1>5, <3>2, <3>3 DEF AddressesGood, HeldGood
  <2>2. pc'[t] # "connecting"
    BY <1>1, <1>2, <1>3
  <2>3. heard'[t] \in Used' \cup {NULL}
    BY <1>1, <1>3, <1>5 DEF AddressesGood, HeldGood, Unused
  <2>4. ASSUME mailbox[t] # NULL, NEW i \in DOMAIN funnel[mailbox[t]]
        PROVE  funnel[mailbox[t]][i] \in Used' \cup {mailbox[t]}
    <3>1. funnel[mailbox[t]][i] \in Used \cup {mailbox[t]}
      BY <2>4 DEF AddressesGood, HeldGood
    <3>2. CASE t = s
      BY <1>5, <3>1, <3>2
    <3>3. CASE t # s
      <4>1. m # funnel[mailbox[t]][i]
        BY <1>3, <2>4, <3>3 DEF Unused
      <4> QED
        BY <1>5, <3>1, <4>1
    <3> QED
      BY <3>2, <3>3
  <2>5. mailbox'[t] # NULL =>
          \A i \in DOMAIN funnel'[mailbox'[t]] :
            funnel'[mailbox'[t]][i] \in Used' \cup {mailbox'[t]}
    BY <1>1, <2>4
  <2> QED
    BY <2>1, <2>2, <2>3, <2>5 DEF HeldGood
<1> QED
  BY <1>6, <1>7 DEF AddressesGood

LEMMA GoodDestroyFree ==
  ASSUME CallInv, AddressesGood, NEW s \in Sockets, DestroyFree(s)
  PROVE  AddressesGood'
<1>1. /\ pc[s] = "closing" /\ pc' = [pc EXCEPT ![s] = "none"]
      /\ atomic64' = [atomic64 EXCEPT ![s] = Freed]
      /\ funnel' = [funnel EXCEPT ![mailbox[s]] = Freed]
      /\ mailbox' = [mailbox EXCEPT ![s] = NULL]
      /\ heard' = [heard EXCEPT ![s] = NULL]
      /\ UNCHANGED <<conn_status, derived, server_map, net, seen>>
  BY DEF DestroyFree, Goes
<1>2. \A t \in Sockets : t # s => /\ pc'[t] = pc[t] /\ mailbox'[t] = mailbox[t]
                                  /\ atomic64'[t] = atomic64[t] /\ heard'[t] = heard[t]
  BY <1>1 DEF CallInv, Shape
<1>3. pc'[s] = "none" /\ mailbox'[s] = NULL /\ heard'[s] = NULL
  BY <1>1 DEF CallInv, Shape
<1>4. Used \subseteq Used'
  BY <1>1, <1>2, UsedStays
<1>5. (\A am \in net : MailGood(am))'
  BY <1>1, <1>4 DEF AddressesGood, MailGood
<1>6. ASSUME NEW t \in Sockets PROVE HeldGood(t)'
  <2>1. CASE t = s
    <3>1. conn_status[s] = 0
      BY <1>1 DEF CallInv, StatusOf
    <3> QED
      BY <1>1, <1>3, <2>1, <3>1 DEF HeldGood, HSOCK_CONNECTED
  <2>2. CASE t # s
    <3>1. mailbox[t] # NULL => mailbox[t] # mailbox[s]
      BY <2>2 DEF CallInv, Owners
    <3>2. mailbox[t] # NULL => funnel'[mailbox[t]] = funnel[mailbox[t]]
      BY <1>1, <3>1 DEF CallInv, Shape
    <3> QED
      BY <1>1, <1>2, <1>4, <2>2, <3>2, HeldStays DEF AddressesGood
  <2> QED
    BY <2>1, <2>2
<1> QED
  BY <1>5, <1>6 DEF AddressesGood

LEMMA GoodStep ==
  CallInv /\ AddressesGood /\ [Next /\ Careful /\ Quiet]_vars => AddressesGood'
<1> SUFFICES ASSUME CallInv, AddressesGood, [Next /\ Careful /\ Quiet]_vars
             PROVE  AddressesGood'
  OBVIOUS
<1>1. ASSUME NEW s \in Sockets, Life(s), Careful, Quiet PROVE AddressesGood'
  BY <1>1, GoodNew, GoodRelease, GoodDestroy, GoodDestroyFree, GoodBind, GoodConnect,
     GoodConnectReturn DEF Life
<1>2. ASSUME NEW s \in Sockets, Traffic(s) PROVE AddressesGood'
  BY <1>2, GoodSend, GoodSendReturn, GoodRecv, GoodForget DEF Traffic
<1>3. ASSUME NEW am \in net, Handle(am) PROVE AddressesGood'
  BY <1>3, GoodOnConnect, GoodOnConnectReply, GoodOnMail, GoodOnMailReply DEF Handle
<1>4. ASSUME UNCHANGED vars PROVE AddressesGood'
  BY <1>4 DEF vars, socket, AddressesGood, MailGood, HeldGood, Used
<1> QED
  BY <1>1, <1>2, <1>3, <1>4 DEF Next

(* A job whose programs destroy a socket only when nobody uses it is a job. *)
LEMMA QuietIsSpec == QuietSpec => Spec
<1>1. [Next /\ Careful /\ Quiet]_vars => [Next]_vars
  OBVIOUS
<1> QED
  BY <1>1, PTL DEF QuietSpec, Spec

(* The addresses that replies and requests carry, that connected clients    *)
(* hold and that the endpoint map leads to are those of allocated mailboxes *)
(* as long as a socket is destroyed only when nobody is connected to it,    *)
(* sends to it or remembers it and no connect is under way in the job.      *)
THEOREM NothingDangles == QuietSpec => []NoDangling
<1>1. Init => AddressesGood
  BY SockAssumption DEF Init, AddressesGood, HeldGood, HSOCK_CONNECTED
<1>2. CallInv /\ AddressesGood /\ [Next /\ Careful /\ Quiet]_vars => AddressesGood'
  BY GoodStep
<1>3. CallInv /\ AddressesGood => NoDangling
  <2> SUFFICES ASSUME CallInv, AddressesGood PROVE NoDangling
    OBVIOUS
  <2>1. \A m \in Used : m \in Mailboxes /\ funnel[m] # Freed
    BY DEF Used, CallInv, Owners
  <2>2. \A e \in Endpoints : server_map[e] \in Used \cup {NULL}
    BY MapGood
  <2> QED
    BY <2>1, <2>2 DEF AddressesGood, MailGood, HeldGood, NoDangling, PushSound
<1>4. QuietSpec => []CallInv
  BY QuietIsSpec, CallInvariant, PTL
<1> QED
  BY <1>1, <1>2, <1>3, <1>4, PTL DEF QuietSpec
=============================================================================

---------------------------- MODULE HPairProofs -----------------------------
(***************************************************************************)
(* The channel of HPair.tla, for every number of pipes and every size of   *)
(* the two rings.                                                          *)
(***************************************************************************)
EXTENDS HPair, FiniteSetTheorems, SequenceTheorems, TLAPS

(* A pipe that has never been one of three since it began to connect has at *)
(* most one companion, and if it has found endpoint 0 taken, nobody else    *)
(* can have got past that endpoint since.                                   *)
CrowdCounted ==
  \A p \in Pipes :
    /\ Connecting(p) /\ ~crowded[p] => Cardinality(Involved) <= 2
    /\ ppc[p] = "connect_1" /\ ~crowded[p] =>
         /\ endpoint[1] = 0
         /\ \A q \in Pipes : ppc[q] = "connect_1" => q = p

IInv ==
  /\ TypeOK
  /\ OneUserPerSide
  /\ EndpointsHeld
  /\ MessagesConserved
  /\ SignalsConserved
  /\ CrowdCounted
  /\ ErrorJustified

(* Three pipes in use are three. *)
LEMMA ThreeAreThree ==
  ASSUME NEW p \in Involved, NEW q \in Involved, NEW r \in Involved,
         p # q, q # r, p # r
  PROVE  Cardinality(Involved) >= 3
<1>1. IsFiniteSet(Involved)
  BY PairAssumption, FS_Subset DEF Involved
<1>2. Cardinality({p}) = 1 /\ IsFiniteSet({p})
  BY FS_Singleton
<1>3. IsFiniteSet({p} \cup {q}) /\ Cardinality({p} \cup {q}) = 2
  BY <1>2, FS_AddElement
<1>4. IsFiniteSet({p} \cup {q} \cup {r}) /\ Cardinality({p} \cup {q} \cup {r}) = 3
  BY <1>3, FS_AddElement
<1>5. {p} \cup {q} \cup {r} \in SUBSET Involved
  OBVIOUS
<1>6. Cardinality({p} \cup {q} \cup {r}) <= Cardinality(Involved)
  BY <1>1, <1>5, FS_Subset
<1> QED
  BY <1>1, <1>4, <1>6, FS_CardinalityType

LEMMA InitIInv == Init => IInv
<1> SUFFICES ASSUME Init PROVE IInv
  OBVIOUS
<1> USE PairAssumption DEF Init, Ends
<1>1. TypeOK
  <2>1. <<>> \in Seq(1 .. MaxMsgs)
    BY EmptySeq
  <2>2. queue \in [Ends -> Seq(1 .. MaxMsgs)]
    BY <2>1
  <2>3. ppc \in [Pipes -> {"none", "connect_0", "connect_1", "ready",
                          "send", "recv", "sgnl", "wait"}]
        /\ ep \in [Pipes -> Ends \cup {None}] /\ crowded \in [Pipes -> BOOLEAN]
    OBVIOUS
  <2>4. exited \in BOOLEAN
    BY Zenon
  <2>5. endpoint \in [Ends -> {0, 1}] /\ signal \in [Ends -> {0, 1}] /\ pending \in [Ends -> {0, 1}]
    OBVIOUS
  <2>6. sent \in [Ends -> 0 .. MaxMsgs] /\ received \in [Ends -> 0 .. MaxMsgs]
    OBVIOUS
  <2> QED
    BY <2>2, <2>3, <2>4, <2>5, <2>6, Zenon DEF TypeOK
<1>2. MessagesConserved
  BY DEF MessagesConserved
<1>3. OneUserPerSide /\ EndpointsHeld /\ SignalsConserved
  BY DEF OneUserPerSide, EndpointsHeld, SignalsConserved
<1>4. CrowdCounted /\ ErrorJustified
  BY DEF CrowdCounted, ErrorJustified, Connecting
<1> QED
  BY <1>1, <1>2, <1>3, <1>4 DEF IInv

-----------------------------------------------------------------------------
(* One lemma per operation *)

LEMMA StepNew ==
  ASSUME IInv, NEW p \in Pipes, New(p)
  PROVE  IInv'
<1> USE PairAssumption DEF New, Goes, IInv, pair
<1>1. Involved' = Involved \cup {p}
  BY DEF Involved, TypeOK
<1>2. TypeOK'
  BY DEF TypeOK
<1>3. OneUserPerSide' /\ EndpointsHeld' /\ MessagesConserved' /\ SignalsConserved'
  BY DEF OneUserPerSide, EndpointsHeld, MessagesConserved, SignalsConserved, TypeOK
<1>4. \A q \in Pipes : Connecting(q)' => q = p \/ Connecting(q)
  BY DEF Connecting, TypeOK
<1>5. Cardinality(Involved') \in Nat
  <2>1. IsFiniteSet(Involved')
    BY <1>1, FS_Subset DEF Involved
  <2> QED
    BY <2>1, FS_CardinalityType
<1>6. CrowdCounted'
  <2> SUFFICES ASSUME NEW q \in Pipes, Connecting(q)', ~crowded'[q]
               PROVE  /\ Cardinality(Involved') <= 2
                      /\ ppc'[q] = "connect_1" =>
                           /\ endpoint'[1] = 0
                           /\ \A r \in Pipes : ppc'[r] = "connect_1" => r = q
    BY DEF CrowdCounted, Connecting
  <2>1. ~crowded[q] /\ ~(Cardinality(Involved \cup {p}) >= 3)
    BY <1>4
  <2>2. ppc'[q] = "connect_1" => ppc[q] = "connect_1"
    BY DEF TypeOK
  <2> QED
    BY <1>1, <1>5, <2>1, <2>2 DEF CrowdCounted, TypeOK
<1>7. ErrorJustified'
  BY DEF ErrorJustified
<1> QED
  BY <1>2, <1>3, <1>6, <1>7

LEMMA StepConnect0 ==
  ASSUME IInv, NEW p \in Pipes, Connect0(p)
  PROVE  IInv'
<1> USE PairAssumption DEF Connect0, IInv, history, Ends
<1>1. TypeOK'
  BY SMTT(30) DEF TypeOK
<1>2. MessagesConserved' /\ SignalsConserved'
  BY DEF MessagesConserved, SignalsConserved
<1>3. ErrorJustified'
  BY DEF ErrorJustified
<1>4. Involved' = Involved
  BY DEF Involved, TypeOK
<1>5. CASE endpoint[0] = 0
  <2>1. ep'[p] = 0 /\ \A q \in Pipes : q # p => ep'[q] = ep[q] /\ ep[q] # 0
    BY <1>5 DEF EndpointsHeld, TypeOK
  <2>2. OneUserPerSide'
    BY <2>1 DEF OneUserPerSide
  <2>3. EndpointsHeld'
    <3>1. endpoint'[0] = 1 /\ endpoint'[1] = endpoint[1]
      BY <1>5 DEF TypeOK
    <3>2. \A e \in Ends : endpoint'[e] = 1 <=> \E q \in Pipes : ep'[q] = e
      <4>1. endpoint[1] = 1 <=> \E q \in Pipes : ep[q] = 1
        BY DEF EndpointsHeld
      <4>2. ep[p] # 1
        BY DEF EndpointsHeld
      <4> QED
        BY <2>1, <3>1, <4>1, <4>2
    <3>3. \A q \in Pipes : ep'[q] = None <=> ppc'[q] \in {"none", "connect_0", "connect_1"}
      BY SMTT(30), <1>5, <2>1 DEF EndpointsHeld, TypeOK
    <3> QED
      BY <3>2, <3>3 DEF EndpointsHeld
  <2>4. CrowdCounted'
    BY <1>4, <1>5 DEF CrowdCounted, Connecting, TypeOK
  <2> QED
    BY <1>1, <1>2, <1>3, <2>2, <2>3, <2>4
<1>6. CASE endpoint[0] = 1
  <2>1. OneUserPerSide' /\ EndpointsHeld'
    <3>1. endpoint' = endpoint /\ ep' = ep
      BY <1>6
    <3>2. \A q \in Pipes : ep[q] = None <=> ppc'[q] \in {"none", "connect_0", "connect_1"}
      <4> SUFFICES ASSUME NEW q \in Pipes
                   PROVE  ep[q] = None <=> ppc'[q] \in {"none", "connect_0", "connect_1"}
        OBVIOUS
      <4>1. ep[q] = None <=> ppc[q] \in {"none", "connect_0", "connect_1"}
        BY DEF EndpointsHeld
      <4>2. ppc'[q] = IF q = p THEN "connect_1" ELSE ppc[q]
        BY <1>6 DEF TypeOK
      <4> QED
        BY <4>1, <4>2
    <3> QED
      BY <3>1, <3>2 DEF OneUserPerSide, EndpointsHeld
  <2>2. PICK r \in Pipes : ep[r] = 0
    BY <1>6 DEF EndpointsHeld
  <2>3. r \in Involved /\ r # p /\ ppc[r] # "connect_1"
    BY <2>2 DEF Involved, EndpointsHeld
  <2>4. \A q \in Pipes : q # p /\ q # r /\ ppc[q] # "none" => Cardinality(Involved) >= 3
    BY <2>3, ThreeAreThree DEF Involved
  <2>5. Cardinality(Involved) \in Nat
    BY FS_Subset, FS_CardinalityType DEF Involved
  <2>6. CrowdCounted'
    <3> SUFFICES ASSUME NEW q \in Pipes, Connecting(q)', ~crowded[q]
                 PROVE  /\ Cardinality(Involved) <= 2
                        /\ ppc'[q] = "connect_1" =>
                             /\ endpoint[1] = 0
                             /\ \A t \in Pipes : ppc'[t] = "connect_1" => t = q
      BY <1>4, <1>6 DEF CrowdCounted, Connecting
    <3>1. Connecting(q) /\ Cardinality(Involved) <= 2
      BY <1>6 DEF CrowdCounted, Connecting, TypeOK
    <3>2. \A t \in Pipes : t # p /\ t # r => ppc[t] = "none"
      BY <2>4, <2>5, <3>1
    <3>3. ppc[r] \notin {"none", "connect_0", "connect_1"}
      BY <2>2 DEF EndpointsHeld
    <3>4. q = p
      BY <3>1, <3>2, <3>3 DEF Connecting
    <3>5. \A t \in Pipes : ppc'[t] = "connect_1" => t = p
      <4>1. \A t \in Pipes : t # p => ppc'[t] = ppc[t]
        BY <1>6 DEF TypeOK
      <4> QED
        BY <3>2, <3>3, <4>1
    <3>6. endpoint[1] = 0
      <4>1. ASSUME NEW t \in Pipes, ep[t] = 1 PROVE FALSE
        BY <2>2, <3>2, <4>1 DEF EndpointsHeld
      <4> QED
        BY <4>1 DEF EndpointsHeld, TypeOK
    <3> QED
      BY <3>1, <3>4, <3>5, <3>6
  <2> QED
    BY <1>1, <1>2, <1>3, <2>1, <2>6
<1> QED
  BY <1>5, <1>6

LEMMA StepConnect1 ==
  ASSUME IInv, NEW p \in Pipes, Connect1(p)
  PROVE  IInv'
<1> USE PairAssumption DEF Connect1, IInv, history, Ends
<1>1. TypeOK'
  BY ZenonT(40) DEF TypeOK
<1>2. MessagesConserved' /\ SignalsConserved'
  BY DEF MessagesConserved, SignalsConserved
<1>3. Involved' = Involved
  BY DEF Involved, TypeOK
<1>4. CASE endpoint[1] = 0
  <2>1. ep'[p] = 1 /\ \A q \in Pipes : q # p => ep'[q] = ep[q] /\ ep[q] # 1
    BY <1>4 DEF EndpointsHeld, TypeOK
  <2>2. OneUserPerSide'
    BY <2>1 DEF OneUserPerSide
  <2>3. EndpointsHeld'
    <3>1. endpoint'[1] = 1 /\ endpoint'[0] = endpoint[0]
      BY <1>4 DEF TypeOK
    <3>2. \A e \in Ends : endpoint'[e] = 1 <=> \E q \in Pipes : ep'[q] = e
      <4>1. endpoint[0] = 1 <=> \E q \in Pipes : ep[q] = 0
        BY DEF EndpointsHeld
      <4>2. ep[p] # 0
        BY DEF EndpointsHeld
      <4> QED
        BY <2>1, <3>1, <4>1, <4>2
    <3>3. \A q \in Pipes : ep'[q] = None <=> ppc'[q] \in {"none", "connect_0", "connect_1"}
      BY ZenonT(40), <1>4, <2>1 DEF EndpointsHeld, TypeOK
    <3> QED
      BY <3>2, <3>3 DEF EndpointsHeld
  <2>4. CrowdCounted'
    BY <1>3, <1>4 DEF CrowdCounted, Connecting, TypeOK
  <2>5. ErrorJustified'
    <3>1. ~exited /\ exited' = exited
      BY <1>4
    <3> QED
      BY <3>1, Zenon DEF ErrorJustified
  <2> QED
    BY <1>1, <1>2, <2>2, <2>3, <2>4, <2>5
<1>5. CASE endpoint[1] = 1
  <2>1. OneUserPerSide' /\ EndpointsHeld'
    BY <1>5 DEF OneUserPerSide, EndpointsHeld
  <2>2. CrowdCounted'
    BY <1>3, <1>5 DEF CrowdCounted, Connecting
  <2>3. crowded[p]
    BY <1>5 DEF CrowdCounted, TypeOK
  <2>4. ErrorJustified'
    BY <1>5, <2>3 DEF ErrorJustified
  <2> QED
    BY <1>1, <1>2, <2>1, <2>2, <2>4
<1> QED
  BY <1>4, <1>5

LEMMA StepDestroy ==
  ASSUME IInv, NEW p \in Pipes, Destroy(p)
  PROVE  IInv'
<1> USE PairAssumption DEF Destroy, Goes, IInv, history, Ends
<1>1. ep[p] \in Ends
  BY DEF EndpointsHeld, TypeOK
<1>2. TypeOK'
  BY DEF TypeOK
<1>3. MessagesConserved' /\ SignalsConserved'
  BY DEF MessagesConserved, SignalsConserved
<1>4. OneUserPerSide'
  BY DEF OneUserPerSide, TypeOK
<1>5. EndpointsHeld'
  BY <1>1 DEF EndpointsHeld, OneUserPerSide, TypeOK
<1>6. Cardinality(Involved) \in Nat /\ Cardinality(Involved') \in Nat
      /\ Cardinality(Involved') <= Cardinality(Involved)
  <2>1. Involved' \in SUBSET Involved
    BY DEF Involved, TypeOK
  <2>2. IsFiniteSet(Involved)
    BY FS_Subset DEF Involved
  <2> QED
    BY <2>1, <2>2, FS_Subset, FS_CardinalityType
<1>7. CrowdCounted'
  BY <1>1, <1>6 DEF CrowdCounted, Connecting, TypeOK
<1>8. ErrorJustified'
  BY DEF ErrorJustified
<1> QED
  BY <1>2, <1>3, <1>4, <1>5, <1>7, <1>8

(* What a connected pipe does between its connect and its disconnect leaves *)
(* the endpoints, and who is at them, as they are.                          *)
Busy == {"ready", "send", "recv", "sgnl", "wait"}

LEMMA BusyStays ==
  ASSUME IInv, NEW p \in Pipes, NEW from \in Busy, NEW to \in Busy, Goes(p, from, to),
         UNCHANGED <<endpoint, exited, ep, crowded>>
  PROVE  /\ ppc' \in [Pipes -> {"none", "connect_0", "connect_1"} \cup Busy]
         /\ OneUserPerSide' /\ EndpointsHeld' /\ CrowdCounted' /\ ErrorJustified'
<1> USE DEF IInv, Goes, Busy
<1>1. \A q \in Pipes : ppc'[q] = IF q = p THEN to ELSE ppc[q]
  BY DEF TypeOK
<1>2. ppc' \in [Pipes -> {"none", "connect_0", "connect_1"} \cup Busy]
  BY DEF TypeOK
<1>3. OneUserPerSide'
  BY DEF OneUserPerSide
<1>4. EndpointsHeld'
  BY <1>1 DEF EndpointsHeld
<1>5. Involved' = Involved
  BY <1>1 DEF Involved
<1>6. CrowdCounted'
  BY <1>1, <1>5 DEF CrowdCounted, Connecting
<1>7. ErrorJustified'
  BY DEF ErrorJustified
<1> QED
  BY <1>2, <1>3, <1>4, <1>6, <1>7

LEMMA StepCall ==
  ASSUME IInv, NEW p \in Pipes, Send(p) \/ Recv(p) \/ Sgnl(p) \/ Wait(p)
  PROVE  IInv'
<1> USE DEF Send, Recv, Sgnl, Wait, pair, history
<1>1. PICK to \in Busy : Goes(p, "ready", to)
  BY DEF Busy
<1>2. UNCHANGED <<endpoint, signal, queue, exited, ep, sent, received, pending, crowded>>
  OBVIOUS
<1>3. "ready" \in Busy
  BY DEF Busy
<1>4. /\ ppc' \in [Pipes -> {"none", "connect_0", "connect_1"} \cup Busy]
      /\ OneUserPerSide' /\ EndpointsHeld' /\ CrowdCounted' /\ ErrorJustified'
  BY <1>1, <1>2, <1>3, BusyStays
<1>5. TypeOK'
  BY <1>2, <1>4 DEF TypeOK, IInv, Busy
<1>6. MessagesConserved' /\ SignalsConserved'
  BY <1>2 DEF IInv, MessagesConserved, SignalsConserved
<1> QED
  BY <1>4, <1>5, <1>6 DEF IInv

(* The pipe that sends, signals or waits is at an endpoint. *)
LEMMA BusyIsConnected ==
  ASSUME IInv, NEW p \in Pipes, ppc[p] \in Busy
  PROVE  ep[p] \in Ends /\ Other(ep[p]) \in Ends
<1>1. ep[p] \in Ends
  <2>1. ppc[p] \notin {"none", "connect_0", "connect_1"}
    BY DEF Busy
  <2>2. ep[p] # None
    BY <2>1 DEF IInv, EndpointsHeld
  <2> QED
    BY <2>2 DEF IInv, TypeOK
<1>2. \A e \in Ends : Other(e) \in Ends
  BY DEF Ends, Other
<1> QED
  BY <1>1, <1>2

(* A ring of which r messages have been received and s sent, in order: what *)
(* is in it is the messages r + 1 .. s.                                     *)
Holds(q, r, s) ==
  /\ Len(q) + r = s
  /\ \A i \in 1 .. Len(q) : q[i] = r + i

(* One more message at the end of the ring, one less at its head. *)
LEMMA OneMore ==
  ASSUME NEW q \in Seq(1 .. MaxMsgs), NEW r \in Nat, NEW s \in Nat, s + 1 \in 1 .. MaxMsgs,
         Holds(q, r, s)
  PROVE  Append(q, s + 1) \in Seq(1 .. MaxMsgs) /\ Holds(Append(q, s + 1), r, s + 1)
<1> DEFINE w == Append(q, s + 1)
<1>1. /\ w \in Seq(1 .. MaxMsgs)
      /\ Len(w) = Len(q) + 1
      /\ \A i \in 1 .. Len(q) : w[i] = q[i]
      /\ w[Len(q) + 1] = s + 1
  BY AppendProperties
<1>2. Len(q) \in Nat
  BY LenProperties
<1> HIDE DEF w
<1>3. Len(w) + r = s + 1
  BY <1>1, <1>2 DEF Holds
<1>4. ASSUME NEW i \in 1 .. Len(w) PROVE w[i] = r + i
  <2>1. CASE i \in 1 .. Len(q)
    BY <1>1, <2>1 DEF Holds
  <2>2. CASE i = Len(q) + 1
    BY <1>1, <1>2, <2>2 DEF Holds
  <2> QED
    BY <1>1, <1>2, <2>1, <2>2
<1>5. Holds(w, r, s + 1)
  BY <1>3, <1>4 DEF Holds
<1> QED
  BY <1>1, <1>5 DEF w

LEMMA OneLess ==
  ASSUME NEW q \in Seq(1 .. MaxMsgs), NEW r \in Nat, NEW s \in Nat, q # <<>>, Holds(q, r, s)
  PROVE  /\ Head(q) = r + 1 /\ Head(q) \in 1 .. MaxMsgs
         /\ Tail(q) \in Seq(1 .. MaxMsgs) /\ Holds(Tail(q), Head(q), s)
<1> DEFINE w == Tail(q)
<1>1. /\ Head(q) \in 1 .. MaxMsgs
      /\ w \in Seq(1 .. MaxMsgs)
      /\ Len(w) = Len(q) - 1
      /\ \A i \in 1 .. Len(w) : w[i] = q[i + 1]
  BY HeadTailProperties
<1>2. Len(q) \in Nat /\ Len(q) >= 1
  BY LenProperties, EmptySeq
<1>3. Head(q) = q[1]
  BY <1>2
<1> HIDE DEF w
<1>4. Head(q) = r + 1
  BY <1>2, <1>3 DEF Holds
<1>5. Len(w) + Head(q) = s
  BY <1>1, <1>2, <1>4 DEF Holds
<1>6. ASSUME NEW i \in 1 .. Len(w) PROVE w[i] = Head(q) + i
  <2>1. w[i] = q[i + 1] /\ i + 1 \in 1 .. Len(q) /\ i \in Nat
    BY <1>1, <1>2
  <2>2. q[i + 1] = r + (i + 1)
    BY <2>1 DEF Holds
  <2>3. r + (i + 1) = (r + 1) + i
    BY <2>1
  <2> QED
    BY <1>4, <2>1, <2>2, <2>3
<1>7. Holds(w, Head(q), s)
  BY <1>5, <1>6 DEF Holds
<1> QED
  BY <1>1, <1>4, <1>7 DEF w

LEMMA StepSendPush ==
  ASSUME IInv, NEW p \in Pipes, SendPush(p)
  PROVE  IInv'
<1> DEFINE e == ep[p]
           w == Append(queue[e], sent[e] + 1)
<1>1. e \in Ends
  BY BusyIsConnected DEF SendPush, Goes, Busy
<1>2. /\ ppc' \in [Pipes -> {"none", "connect_0", "connect_1"} \cup Busy]
      /\ OneUserPerSide' /\ EndpointsHeld' /\ CrowdCounted' /\ ErrorJustified'
  BY BusyStays DEF SendPush, Busy
<1>3. /\ queue[e] \in Seq(1 .. MaxMsgs) /\ sent[e] + 1 \in 1 .. MaxMsgs
      /\ sent[e] \in Nat /\ received[e] \in Nat
  BY <1>1, PairAssumption DEF SendPush, IInv, TypeOK
<1>4. /\ sent' = [sent EXCEPT ![e] = sent[e] + 1]
      /\ queue' = [queue EXCEPT ![e] = w]
      /\ UNCHANGED <<endpoint, signal, exited, ep, received, pending, crowded>>
  BY <1>1 DEF SendPush, IInv, TypeOK
<1>5. w \in Seq(1 .. MaxMsgs) /\ Holds(w, received[e], sent[e] + 1)
  BY ZenonT(40), <1>1, <1>3, OneMore DEF IInv, MessagesConserved, Holds
<1> HIDE DEF e, w
<1>6. TypeOK'
  <2>1. queue' \in [Ends -> Seq(1 .. MaxMsgs)]
    BY <1>4, <1>5 DEF IInv, TypeOK
  <2>2. sent[e] + 1 \in 0 .. MaxMsgs
    BY <1>3
  <2>3. sent' \in [Ends -> 0 .. MaxMsgs]
    BY <1>4, <2>2 DEF IInv, TypeOK
  <2> QED
    BY <1>2, <1>4, <2>1, <2>3 DEF IInv, TypeOK, Busy
<1>7. MessagesConserved'
  <2> SUFFICES ASSUME NEW d \in Ends
               PROVE  Holds(queue'[d], received[d], sent'[d])
    BY <1>4 DEF MessagesConserved, Holds
  <2>1. Holds(queue[d], received[d], sent[d])
    BY DEF IInv, MessagesConserved, Holds
  <2>2. queue'[d] = (IF d = e THEN w ELSE queue[d]) /\ sent'[d] = IF d = e THEN sent[e] + 1 ELSE sent[d]
    BY <1>4 DEF IInv, TypeOK
  <2> QED
    BY <1>5, <2>1, <2>2
<1>8. SignalsConserved'
  BY <1>4 DEF IInv, SignalsConserved
<1> QED
  BY <1>2, <1>6, <1>7, <1>8 DEF IInv

(* A message leaves the ring: by a receive, or by a peek. *)
LEMMA StepPop ==
  ASSUME IInv, NEW p \in Pipes, RecvPop(p) \/ Peek(p)
  PROVE  IInv'
<1> DEFINE d == Other(ep[p])
           m == Head(queue[d])
           w == Tail(queue[d])
<1>1. d \in Ends
  BY BusyIsConnected DEF RecvPop, Peek, Goes, Busy
<1>2. Pop(d)
  BY DEF RecvPop, Peek
<1>3. PICK from \in Busy : Goes(p, from, "ready") /\ "ready" \in Busy
  BY DEF RecvPop, Peek, Busy
<1>4. /\ queue[d] # <<>>
      /\ queue' = [queue EXCEPT ![d] = w]
      /\ received' = [received EXCEPT ![d] = m]
      /\ UNCHANGED <<endpoint, signal, exited, ep, sent, pending, crowded>>
  BY <1>1, <1>2 DEF Pop, IInv, TypeOK
<1>5. /\ ppc' \in [Pipes -> {"none", "connect_0", "connect_1"} \cup Busy]
      /\ OneUserPerSide' /\ EndpointsHeld' /\ CrowdCounted' /\ ErrorJustified'
  BY <1>3, <1>4, BusyStays
<1>6. queue[d] \in Seq(1 .. MaxMsgs) /\ sent[d] \in Nat /\ received[d] \in Nat
  BY <1>1, PairAssumption DEF IInv, TypeOK
<1>7. m \in 1 .. MaxMsgs /\ w \in Seq(1 .. MaxMsgs) /\ Holds(w, m, sent[d])
  BY ZenonT(40), <1>1, <1>4, <1>6, OneLess DEF IInv, MessagesConserved, Holds
<1> HIDE DEF d, m, w
<1>8. TypeOK'
  <2>1. queue' \in [Ends -> Seq(1 .. MaxMsgs)]
    BY <1>4, <1>7 DEF IInv, TypeOK
  <2>2. m \in 0 .. MaxMsgs
    BY <1>7, PairAssumption
  <2>3. received' \in [Ends -> 0 .. MaxMsgs]
    BY <1>4, <2>2 DEF IInv, TypeOK
  <2> QED
    BY <1>4, <1>5, <2>1, <2>3 DEF IInv, TypeOK, Busy
<1>9. MessagesConserved'
  <2> SUFFICES ASSUME NEW e \in Ends
               PROVE  Holds(queue'[e], received'[e], sent[e])
    BY <1>4 DEF MessagesConserved, Holds
  <2>1. Holds(queue[e], received[e], sent[e])
    BY DEF IInv, MessagesConserved, Holds
  <2>2. queue'[e] = (IF e = d THEN w ELSE queue[e]) /\ received'[e] = IF e = d THEN m ELSE received[e]
    BY <1>4 DEF IInv, TypeOK
  <2> QED
    BY <1>7, <2>1, <2>2
<1>10. SignalsConserved'
  BY <1>4 DEF IInv, SignalsConserved
<1> QED
  BY <1>5, <1>8, <1>9, <1>10 DEF IInv

LEMMA StepSgnlSet ==
  ASSUME IInv, NEW p \in Pipes, SgnlSet(p)
  PROVE  IInv'
<1> DEFINE e == ep[p]
<1>1. e \in Ends
  BY BusyIsConnected DEF SgnlSet, Goes, Busy
<1>2. /\ ppc' \in [Pipes -> {"none", "connect_0", "connect_1"} \cup Busy]
      /\ OneUserPerSide' /\ EndpointsHeld' /\ CrowdCounted' /\ ErrorJustified'
  BY BusyStays DEF SgnlSet, Busy
<1>3. pending[e] = 0
  BY <1>1 DEF SgnlSet, IInv, SignalsConserved
<1>4. /\ signal' = [signal EXCEPT ![e] = 1]
      /\ pending' = [pending EXCEPT ![e] = 1]
      /\ UNCHANGED <<endpoint, queue, exited, ep, sent, received, crowded>>
  BY <1>1, <1>3 DEF SgnlSet, IInv, TypeOK
<1> HIDE DEF e
<1>5. TypeOK'
  BY <1>2, <1>4 DEF IInv, TypeOK, Busy
<1>6. SignalsConserved'
  BY <1>1, <1>4 DEF IInv, TypeOK, SignalsConserved
<1>7. MessagesConserved'
  BY <1>4 DEF IInv, MessagesConserved
<1> QED
  BY <1>2, <1>5, <1>6, <1>7 DEF IInv

LEMMA StepWaitClear ==
  ASSUME IInv, NEW p \in Pipes, WaitClear(p)
  PROVE  IInv'
<1> DEFINE d == Other(ep[p])
<1>1. d \in Ends
  BY BusyIsConnected DEF WaitClear, Goes, Busy
<1>2. /\ ppc' \in [Pipes -> {"none", "connect_0", "connect_1"} \cup Busy]
      /\ OneUserPerSide' /\ EndpointsHeld' /\ CrowdCounted' /\ ErrorJustified'
  BY BusyStays DEF WaitClear, Busy
<1>3. pending[d] = 1
  BY <1>1 DEF WaitClear, IInv, SignalsConserved
<1>4. /\ signal' = [signal EXCEPT ![d] = 0]
      /\ pending' = [pending EXCEPT ![d] = 0]
      /\ UNCHANGED <<endpoint, queue, exited, ep, sent, received, crowded>>
  BY <1>1, <1>3 DEF WaitClear, IInv, TypeOK
<1> HIDE DEF d
<1>5. TypeOK'
  BY <1>2, <1>4 DEF IInv, TypeOK, Busy
<1>6. SignalsConserved'
  BY <1>1, <1>4 DEF IInv, TypeOK, SignalsConserved
<1>7. MessagesConserved'
  BY <1>4 DEF IInv, MessagesConserved
<1> QED
  BY <1>2, <1>5, <1>6, <1>7 DEF IInv

LEMMA Stutter ==
  ASSUME IInv, UNCHANGED vars
  PROVE  IInv'
<1> USE DEF IInv, vars, pair, history
<1>1. TypeOK' /\ OneUserPerSide' /\ EndpointsHeld'
  BY DEF TypeOK, OneUserPerSide, EndpointsHeld
<1>2. MessagesConserved' /\ SignalsConserved'
  BY DEF MessagesConserved, SignalsConserved
<1>3. CrowdCounted' /\ ErrorJustified'
  BY DEF CrowdCounted, ErrorJustified, Connecting, Involved
<1> QED
  BY <1>1, <1>2, <1>3

LEMMA StepIInv == IInv /\ [Next]_vars => IInv'
<1> SUFFICES ASSUME IInv, [Next]_vars PROVE IInv'
  OBVIOUS
<1>1. ASSUME NEW p \in Pipes, Lifecycle(p) PROVE IInv'
  BY <1>1, StepNew, StepConnect0, StepConnect1, StepDestroy DEF Lifecycle
<1>2. ASSUME NEW p \in Pipes, Call(p) PROVE IInv'
  BY <1>2, StepCall, StepPop DEF Call
<1>3. ASSUME NEW p \in Pipes, Return(p) PROVE IInv'
  BY <1>3, StepSendPush, StepPop, StepSgnlSet, StepWaitClear DEF Return
<1> QED
  BY <1>1, <1>2, <1>3, Stutter DEF Next

-----------------------------------------------------------------------------
(* Theorems *)

(* The invariant holds whatever the threads do with their pipes. *)
THEOREM IInvInvariant == Spec => []IInv
<1> QED
  BY InitIInv, StepIInv, PTL DEF Spec

(* Every ring has at most one producer and one consumer, however many       *)
(* threads connect and disconnect: what the SPSC ring of hqueue.c needs.    *)
THEOREM RingsAreSpsc == Spec => []OneUserPerSide
<1>1. IInv => OneUserPerSide
  BY DEF IInv
<1> QED
  BY <1>1, IInvInvariant, PTL

(* An endpoint is taken exactly while one pipe is connected to it.          *)
THEOREM EndpointsAreHeld == Spec => []EndpointsHeld
<1>1. IInv => EndpointsHeld
  BY DEF IInv
<1> QED
  BY <1>1, IInvInvariant, PTL

(* The messages of each direction arrive in the order they were sent, each  *)
(* once, whichever threads send and receive them one after the other.       *)
THEOREM MessagesAreConserved == Spec => []MessagesConserved
<1>1. IInv => MessagesConserved
  BY DEF IInv
<1> QED
  BY <1>1, IInvInvariant, PTL

(* Signals and waits alternate in each direction: hpipe_sgnl loses none and *)
(* hpipe_wait takes none twice.                                             *)
THEOREM SignalsAreConserved == Spec => []SignalsConserved
<1>1. IInv => SignalsConserved
  BY DEF IInv
<1> QED
  BY <1>1, IInvInvariant, PTL

(* hpair_connect ends the process only if three threads held or wanted the  *)
(* pair at one moment of the connect that failed.                           *)
THEOREM ErrorIsJustified == Spec => []ErrorJustified
<1>1. IInv => ErrorJustified
  BY DEF IInv
<1> QED
  BY <1>1, IInvInvariant, PTL
=============================================================================

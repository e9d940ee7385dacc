---------------------------- MODULE HFloodProofs ----------------------------
(***************************************************************************)
(* The transport of HFlood.tla, for every number of clients, servers and   *)
(* frame arrays, every size of payload and of active message.              *)
(***************************************************************************)
EXTENDS HFlood, FiniteSetTheorems, SequenceTheorems, TLAPS

PCs == {"idle", "picture", "chunks", "term"}
Kinds == {"picture", "payload", "termination", "set", "incr"}

(* A payload buffer for each size. *)
Fits(p, sizes) ==
  /\ p = [i \in 1 .. Len(sizes) |-> p[i]]
  /\ \A i \in 1 .. Len(sizes) : p[i] = [b \in 0 .. sizes[i] - 1 |-> p[i][b]]
  /\ \A i \in 1 .. Len(sizes) : \A b \in 0 .. sizes[i] - 1 : p[i][b] \in Bytes \cup {Nothing}

IsArray(a) ==
  /\ a = [picture |-> a.picture, payload |-> a.payload]
  /\ a.picture \in Messages
  /\ Fits(a.payload, a.picture.sizes)

Shape ==
  /\ pc \in [Sockets -> PCs]
  /\ letter \in [Sockets -> Messages]
  /\ dest \in [Sockets -> Sockets \cup {Nothing}]
  /\ frames_ptr \in [Sockets -> Frames \cup {Nothing}]
  /\ cursor \in [Sockets -> [i : Nat \ {0}, offset : Nat]]
  /\ msg_counter \in [Sockets -> Nat]
  /\ atomic64 \in [Sockets -> Nat \cup Frames \cup {UINT64_MAX}]
  /\ \A am \in net : am.kind \in Kinds /\ am.sock \in Sockets
  /\ mailbox \in [Sockets -> Seq(Frames)]
  /\ array = [f \in Frames |-> array[f]]
  /\ \A f \in Frames : array[f] # Nothing => IsArray(array[f])
  /\ held \in [Sockets -> Frames \cup {Nothing}]
  /\ got \in [Sockets -> Messages \cup {Nothing}]

-----------------------------------------------------------------------------
(* What the phase of a send says of its word and of its active messages.    *)

(* The answer to the picture: a flag, or an array for this message. *)
PictureWord(s, v) ==
  IF letter[s].sizes = <<>>
    THEN v = 1
    ELSE v \in Frames /\ array[v] # Nothing /\ array[v].picture = letter[s]

PicturePhase(s) ==
  \/ /\ atomic64[s] = 0
     /\ \/ InFlight(s) = {PictureReq(s, letter[s], dest[s])}
        \/ \E v \in {1} \cup Frames :
             InFlight(s) = {SetReply(s, letter[s].no, v)} /\ PictureWord(s, v)
  \/ InFlight(s) = {} /\ PictureWord(s, atomic64[s])

(* The cursor has passed byte b of payload i. *)
Passed(s, i, b) == i < cursor[s].i \/ (i = cursor[s].i /\ b < cursor[s].offset)

Piece(s, am) ==
  /\ am.kind = "payload"
  /\ am.frames = frames_ptr[s]
  /\ \E n \in Nat :
       /\ am.offset + n <= letter[s].sizes[am.frame_id]
       /\ am.bytes = [k \in 0 .. n - 1 |-> Byte(letter[s], am.frame_id, am.offset + k)]

InPiece(am, i, b) ==
  am.kind = "payload" /\ am.frame_id = i /\ b - am.offset \in DOMAIN am.bytes

(* Each piece is in flight, acknowledged on the wire or acknowledged in the *)
(* word; the bytes the cursor has passed are in flight or in place.         *)
ChunksPhase(s) ==
  /\ letter[s].sizes # <<>>
  /\ frames_ptr[s] \in Frames
  /\ array[frames_ptr[s]] # Nothing
  /\ array[frames_ptr[s]].picture = letter[s]
  /\ cursor[s].i <= Len(letter[s].sizes) + 1
  /\ cursor[s].i <= Len(letter[s].sizes) => cursor[s].offset <= letter[s].sizes[cursor[s].i]
  /\ atomic64[s] \in Nat
  /\ IsFiniteSet(InFlight(s))
  /\ Cardinality(InFlight(s)) + atomic64[s] = msg_counter[s]
  /\ \A am \in InFlight(s) :
       /\ am.kind = "incr" \/ Piece(s, am)
       /\ am.frame_id \in 1 .. Len(letter[s].sizes)
       /\ am.offset \in Nat
       /\ Passed(s, am.frame_id, am.offset)
  /\ \A x, y \in InFlight(s) : x.frame_id = y.frame_id /\ x.offset = y.offset => x = y
  /\ \A i \in 1 .. Len(letter[s].sizes) : \A b \in 0 .. letter[s].sizes[i] - 1 :
       Passed(s, i, b) =>
         \/ array[frames_ptr[s]].payload[i][b] = Byte(letter[s], i, b)
         \/ \E am \in InFlight(s) : InPiece(am, i, b)

Whole(f) == array[f] # Nothing /\ array[f].payload = Payload(array[f].picture)

TermPhase(s) ==
  \/ /\ atomic64[s] = 0
     /\ \/ /\ InFlight(s) = {TerminationReq(s, letter[s].no, dest[s], frames_ptr[s])}
           /\ frames_ptr[s] \in Frames
           /\ Whole(frames_ptr[s])
           /\ array[frames_ptr[s]].picture = letter[s]
        \/ InFlight(s) = {SetReply(s, letter[s].no, 1)}
  \/ InFlight(s) = {} /\ atomic64[s] = 1

Phase(s) ==
  /\ letter[s].from = s
  /\ pc[s] = "idle" => InFlight(s) = {} /\ atomic64[s] \in {0, UINT64_MAX}
  /\ pc[s] \in {"idle", "picture"} => cursor[s] = [i |-> 1, offset |-> 0] /\ msg_counter[s] = 0
  /\ pc[s] # "idle" => dest[s] \in Reach(s)
  /\ pc[s] = "picture" => PicturePhase(s)
  /\ pc[s] = "chunks" => ChunksPhase(s)
  /\ pc[s] = "term" => TermPhase(s)

-----------------------------------------------------------------------------
(* Where a frame array is. *)

InMail(s, n, f) == n \in 1 .. Len(mailbox[s]) /\ mailbox[s][n] = f

OnePlace(f) ==
  /\ \A s, t \in Sockets : f \in Filling(s) /\ f \in Filling(t) => s = t
  /\ \A s, t \in Sockets : \A m, n \in Nat : InMail(s, m, f) /\ InMail(t, n, f) => s = t /\ m = n
  /\ \A s, t \in Sockets : held[s] = f /\ held[t] = f => s = t
  /\ \A s, t \in Sockets : ~(f \in Filling(s) /\ held[t] = f)
  /\ \A s, t \in Sockets : \A n \in Nat :
       InMail(t, n, f) => f \notin Filling(s) /\ held[s] # f

SomePlace(f) ==
  \E s \in Sockets : f \in Filling(s) \/ held[s] = f \/ \E n \in Nat : InMail(s, n, f)

Placed == \A f \in Frames : OnePlace(f) /\ (array[f] # Nothing <=> SomePlace(f))

(* What arrives is whole. *)
Delivered ==
  \A s \in Sockets :
    /\ held[s] # Nothing => Whole(held[s])
    /\ \A n \in 1 .. Len(mailbox[s]) : Whole(mailbox[s][n])

IInv ==
  /\ Shape
  /\ \A s \in Sockets : Phase(s)
  /\ Placed
  /\ Delivered

LEMMA NetAdd ==
  ASSUME NEW s \in Sockets, NEW x, x.sock = s, net' = net \cup {x}
  PROVE  /\ InFlight(s)' = InFlight(s) \cup {x}
         /\ \A t \in Sockets \ {s} : InFlight(t)' = InFlight(t)
BY DEF InFlight

LEMMA NetSwap ==
  ASSUME NEW s \in Sockets, NEW am \in net, NEW x, am.sock = s, x.sock = s,
         net' = (net \ {am}) \cup {x}
  PROVE  /\ am \in InFlight(s)
         /\ InFlight(s)' = (InFlight(s) \ {am}) \cup {x}
         /\ \A t \in Sockets \ {s} : InFlight(t)' = InFlight(t)
BY DEF InFlight

LEMMA NetDrop ==
  ASSUME NEW s \in Sockets, NEW am \in net, am.sock = s, net' = net \ {am}
  PROVE  /\ am \in InFlight(s)
         /\ InFlight(s)' = InFlight(s) \ {am}
         /\ \A t \in Sockets \ {s} : InFlight(t)' = InFlight(t)
BY DEF InFlight

(* The arrays a send is filling, phase by phase. *)
LEMMA FillingPhase ==
  ASSUME Shape, NEW s \in Sockets, Phase(s)
  PROVE  /\ pc[s] = "idle" => Filling(s) = {}
         /\ pc[s] = "picture" => \A f \in Filling(s) :
              /\ letter[s].sizes # <<>>
              /\ PictureWord(s, f)
              /\ atomic64[s] = f \/ InFlight(s) = {SetReply(s, letter[s].no, f)}
         /\ pc[s] = "chunks" => Filling(s) = {frames_ptr[s]}
         /\ pc[s] = "term" => \A f \in Filling(s) :
              /\ atomic64[s] = 0
              /\ InFlight(s) = {TerminationReq(s, letter[s].no, dest[s], f)}
              /\ f = frames_ptr[s]
<1> USE FloodAssumption
<1>1. 0 \notin Frames /\ 1 \notin Frames /\ UINT64_MAX \notin Frames
  OBVIOUS
<1>2. CASE pc[s] = "idle"
  BY <1>1, <1>2 DEF Phase, Filling
<1>3. CASE pc[s] = "picture"
  <2> SUFFICES ASSUME NEW f \in Filling(s)
               PROVE  /\ letter[s].sizes # <<>>
                      /\ PictureWord(s, f)
                      /\ atomic64[s] = f \/ InFlight(s) = {SetReply(s, letter[s].no, f)}
    BY <1>3
  <2>1. CASE InFlight(s) = {PictureReq(s, letter[s], dest[s])} /\ atomic64[s] = 0
    BY <1>1, <1>3, <2>1 DEF Filling, PictureReq
  <2>2. ASSUME NEW v \in {1} \cup Frames, PictureWord(s, v), atomic64[s] = 0,
               InFlight(s) = {SetReply(s, letter[s].no, v)}
        PROVE  /\ letter[s].sizes # <<>>
               /\ PictureWord(s, f)
               /\ atomic64[s] = f \/ InFlight(s) = {SetReply(s, letter[s].no, f)}
    <3>1. v = f
      BY <1>1, <1>3, <2>2 DEF Filling, SetReply
    <3>2. letter[s].sizes # <<>>
      BY <1>1, <2>2, <3>1 DEF PictureWord, Filling
    <3> QED
      BY <2>2, <3>1, <3>2
  <2>3. CASE InFlight(s) = {} /\ PictureWord(s, atomic64[s])
    <3>1. f = atomic64[s] /\ f \in Frames
      BY <1>3, <2>3 DEF Filling
    <3>2. letter[s].sizes # <<>>
      BY <1>1, <2>3, <3>1 DEF PictureWord
    <3> QED
      BY <2>3, <3>1, <3>2
  <2>4. PicturePhase(s)
    BY <1>3 DEF Phase
  <2> QED
    BY <2>1, <2>2, <2>3, <2>4 DEF PicturePhase
<1>4. CASE pc[s] = "chunks"
  <2>1. atomic64[s] \in Nat /\ frames_ptr[s] \in Frames
    BY <1>4 DEF Phase, ChunksPhase
  <2>2. \A am \in InFlight(s) : am.kind \in {"incr", "payload"}
    BY <1>4 DEF Phase, ChunksPhase, Piece
  <2>3. ASSUME NEW f \in Frames PROVE f \in Filling(s) <=> f = frames_ptr[s]
    BY <1>4, <2>1, <2>2 DEF Filling
  <2> QED
    BY <1>4, <2>1, <2>3 DEF Filling
<1>5. CASE pc[s] = "term"
  <2> SUFFICES ASSUME NEW f \in Filling(s)
               PROVE  /\ atomic64[s] = 0
                      /\ InFlight(s) = {TerminationReq(s, letter[s].no, dest[s], f)}
                      /\ f = frames_ptr[s]
    BY <1>5
  <2>1. TermPhase(s)
    BY <1>5 DEF Phase
  <2>2. CASE InFlight(s) = {} /\ atomic64[s] = 1
    BY <1>1, <1>5, <2>2 DEF Filling
  <2>3. CASE atomic64[s] = 0 /\ InFlight(s) = {SetReply(s, letter[s].no, 1)}
    BY <1>1, <1>5, <2>3 DEF Filling, SetReply
  <2>4. CASE atomic64[s] = 0 /\ InFlight(s) = {TerminationReq(s, letter[s].no, dest[s], frames_ptr[s])}
    <3>1. f = frames_ptr[s]
      BY <1>1, <1>5, <2>4 DEF Filling, TerminationReq
    <3> QED
      BY <2>4, <3>1
  <2> QED
    BY <2>1, <2>2, <2>3, <2>4 DEF TermPhase
<1> QED
  BY <1>2, <1>3, <1>4, <1>5 DEF Shape, PCs

(* A step leaves a send alone. *)
Untouched(t) ==
  /\ pc'[t] = pc[t] /\ letter'[t] = letter[t] /\ dest'[t] = dest[t]
  /\ frames_ptr'[t] = frames_ptr[t] /\ cursor'[t] = cursor[t]
  /\ msg_counter'[t] = msg_counter[t] /\ atomic64'[t] = atomic64[t]
  /\ InFlight(t)' = InFlight(t)

LEMMA FillingUntouched ==
  ASSUME NEW t \in Sockets, Untouched(t)
  PROVE  Filling(t)' = Filling(t)
BY DEF Untouched, Filling

LEMMA PhaseUntouched ==
  ASSUME Shape, NEW t \in Sockets, Phase(t), Untouched(t),
         \A f \in Filling(t) : array'[f] = array[f]
  PROVE  Phase(t)'
<1> USE DEF Untouched
<1>1. ASSUME pc[t] = "picture" PROVE PicturePhase(t)'
  <2>1. ASSUME NEW v, v \in {1} \cup Frames, PictureWord(t, v), v \in Frames => v \in Filling(t)
        PROVE  PictureWord(t, v)'
    BY <2>1, FloodAssumption DEF PictureWord
  <2>2. \A v \in Frames : v = atomic64[t] => v \in Filling(t)
    BY DEF Filling
  <2>3. \A v \in Frames : InFlight(t) = {SetReply(t, letter[t].no, v)} => v \in Filling(t)
    BY DEF Filling, SetReply
  <2>4. PicturePhase(t)
    BY <1>1 DEF Phase
  <2>5. CASE atomic64[t] = 0 /\ InFlight(t) = {PictureReq(t, letter[t], dest[t])}
    BY <2>5 DEF PicturePhase
  <2>6. ASSUME NEW v \in {1} \cup Frames, atomic64[t] = 0,
               InFlight(t) = {SetReply(t, letter[t].no, v)}, PictureWord(t, v)
        PROVE  PicturePhase(t)'
    <3>1. PictureWord(t, v)'
      BY <2>1, <2>3, <2>6
    <3> QED
      BY <2>6, <3>1 DEF PicturePhase
  <2>7. CASE InFlight(t) = {} /\ PictureWord(t, atomic64[t])
    <3>1. atomic64[t] \in {1} \cup Frames
      BY <2>7 DEF PictureWord
    <3>2. PictureWord(t, atomic64[t])'
      BY <2>1, <2>2, <2>7, <3>1 DEF PictureWord
    <3> QED
      BY <2>7, <3>2 DEF PicturePhase
  <2> QED
    BY <2>4, <2>5, <2>6, <2>7 DEF PicturePhase
<1>2. ASSUME pc[t] = "chunks" PROVE ChunksPhase(t)'
  <2>1. ChunksPhase(t)
    BY <1>2 DEF Phase
  <2>2. array'[frames_ptr[t]] = array[frames_ptr[t]]
    BY <1>2, FillingPhase
  <2>3. \A i, b : Passed(t, i, b)' <=> Passed(t, i, b)
    BY DEF Passed
  <2>4. ASSUME NEW am \in InFlight(t)
        PROVE  /\ am.kind = "incr" \/ Piece(t, am)'
               /\ am.frame_id \in 1 .. Len(letter[t].sizes)
               /\ am.offset \in Nat
               /\ Passed(t, am.frame_id, am.offset)'
    <3>1. am.kind = "incr" \/ Piece(t, am)
      BY <2>1 DEF ChunksPhase
    <3>2. Piece(t, am) => Piece(t, am)'
      BY DEF Piece
    <3> QED
      BY <2>1, <2>3, <3>1, <3>2 DEF ChunksPhase
  <2>5. \A i \in 1 .. Len(letter[t].sizes) : \A b \in 0 .. letter[t].sizes[i] - 1 :
          Passed(t, i, b)' =>
            \/ array[frames_ptr[t]].payload[i][b] = Byte(letter[t], i, b)
            \/ \E am \in InFlight(t) : InPiece(am, i, b)
    BY <2>1, <2>3 DEF ChunksPhase
  <2> HIDE DEF Untouched
  <2>6. /\ letter'[t] = letter[t] /\ frames_ptr'[t] = frames_ptr[t] /\ cursor'[t] = cursor[t]
        /\ msg_counter'[t] = msg_counter[t] /\ atomic64'[t] = atomic64[t]
        /\ InFlight(t)' = InFlight(t)
    BY DEF Untouched
  <2> QED
    BY <2>1, <2>2, <2>4, <2>5, <2>6 DEF ChunksPhase
<1>3. ASSUME pc[t] = "term" PROVE TermPhase(t)'
  <2>1. TermPhase(t)
    BY <1>3 DEF Phase
  <2>2. InFlight(t) = {TerminationReq(t, letter[t].no, dest[t], frames_ptr[t])} /\ frames_ptr[t] \in Frames =>
          frames_ptr[t] \in Filling(t)
    BY DEF Filling, TerminationReq
  <2> QED
    BY <2>1, <2>2 DEF TermPhase, Whole
<1> QED
  BY <1>1, <1>2, <1>3 DEF Phase

LEMMA SizesAreNats ==
  ASSUME Shape, NEW s \in Sockets
  PROVE  /\ letter[s].sizes \in Seq(Nat)
         /\ Len(letter[s].sizes) \in Nat
         /\ \A i \in 1 .. Len(letter[s].sizes) : letter[s].sizes[i] \in Nat
<1>1. letter[s].sizes \in Seq(Nat)
  BY ZenonT(40), FloodAssumption, EmptySeq DEF Shape, Messages
<1> QED
  BY <1>1, LenProperties

LEMMA StillPlaced ==
  ASSUME Placed, UNCHANGED <<mailbox, held>>,
         \A t \in Sockets : Filling(t)' = Filling(t),
         \A f \in Frames : array'[f] = Nothing <=> array[f] = Nothing
  PROVE  Placed'
<1>1. ASSUME NEW f \in Frames PROVE OnePlace(f)'
  <2>1. OnePlace(f)
    BY DEF Placed
  <2> QED
    BY <2>1 DEF OnePlace, InMail
<1>2. ASSUME NEW f \in Frames PROVE SomePlace(f)' <=> SomePlace(f)
  BY DEF SomePlace, InMail
<1> QED
  BY <1>1, <1>2 DEF Placed

(* A step of one send that moves no array and writes into none. *)
LEMMA OwnStep ==
  ASSUME IInv, NEW s \in Sockets, UNCHANGED <<mailbox, array, held>>,
         \A t \in Sockets \ {s} : Untouched(t),
         Shape', Phase(s)', Filling(s)' = Filling(s)
  PROVE  IInv'
<1>1. \A t \in Sockets \ {s} : Phase(t)' /\ Filling(t)' = Filling(t)
  BY PhaseUntouched, FillingUntouched DEF IInv
<1>2. Placed'
  BY <1>1, StillPlaced DEF IInv
<1>3. Delivered'
  BY DEF IInv, Delivered, Whole
<1> QED
  BY <1>1, <1>2, <1>3 DEF IInv

LEMMA StepSend ==
  ASSUME IInv, NEW s \in Sockets, NEW d \in Reach(s), NEW sizes \in Sizes, Send(s, d, sizes)
  PROVE  IInv'
<1> USE FloodAssumption
<1> DEFINE m == [from |-> s, no |-> letter[s].no + 1, sizes |-> sizes]
           x == PictureReq(s, m, d)
<1>1. /\ pc[s] = "idle" /\ letter[s].no < MaxSends
      /\ letter' = [letter EXCEPT ![s] = m]
      /\ dest' = [dest EXCEPT ![s] = d]
      /\ atomic64' = [atomic64 EXCEPT ![s] = 0]
      /\ net' = net \cup {x}
      /\ pc' = [pc EXCEPT ![s] = "picture"]
      /\ UNCHANGED <<frames_ptr, cursor, msg_counter, mailbox, array, held, got>>
  BY DEF Send, receiver
<1>2. x.sock = s /\ x.kind = "picture"
  BY DEF PictureReq
<1>3. Phase(s) /\ Shape
  BY DEF IInv
<1>4. m \in Messages /\ m.from = s
  BY <1>1, <1>3 DEF Messages, Shape
<1>5. d \in Sockets
  BY DEF Reach, Sockets
<1> HIDE DEF m
<1>6. InFlight(s) = {} /\ InFlight(s)' = {x} /\ \A t \in Sockets \ {s} : InFlight(t)' = InFlight(t)
  BY <1>1, <1>2, <1>3, NetAdd DEF Phase
<1> HIDE DEF x
<1>7. /\ pc'[s] = "picture" /\ letter'[s] = m /\ dest'[s] = d /\ atomic64'[s] = 0
      /\ frames_ptr'[s] = frames_ptr[s] /\ cursor'[s] = cursor[s] /\ msg_counter'[s] = msg_counter[s]
  BY <1>1, <1>3 DEF Shape
<1>8. \A t \in Sockets \ {s} : Untouched(t)
  BY <1>1, <1>3, <1>6 DEF Shape, Untouched
<1>9. Shape'
  BY <1>1, <1>2, <1>3, <1>4, <1>5 DEF Shape, PCs, Kinds
<1>10. Phase(s)'
  <2>1. PicturePhase(s)'
    BY <1>6, <1>7 DEF PicturePhase, x
  <2> QED
    BY <1>1, <1>3, <1>4, <1>7, <2>1 DEF Phase, Reach
<1>11. Filling(s)' = {} /\ Filling(s) = {}
  <2>1. Filling(s) = {}
    BY <1>1, <1>3, FillingPhase
  <2>2. Filling(s)' = {}
    BY <1>2, <1>6, <1>7 DEF Filling
  <2> QED
    BY <2>1, <2>2
<1> QED
  BY <1>1, <1>8, <1>9, <1>10, <1>11, OwnStep

LEMMA StepPictureAnswered ==
  ASSUME IInv, NEW s \in Sockets, PictureAnswered(s)
  PROVE  IInv'
<1> USE FloodAssumption
<1> DEFINE v == atomic64[s]
<1>1. /\ pc[s] = "picture" /\ v # 0
      /\ atomic64' = [atomic64 EXCEPT ![s] = 0]
      /\ UNCHANGED <<letter, net, mailbox, array, held, got>>
  BY DEF PictureAnswered, receiver
<1>2. Phase(s) /\ Shape
  BY DEF IInv
<1>3. PicturePhase(s) /\ cursor[s] = [i |-> 1, offset |-> 0] /\ msg_counter[s] = 0
  BY <1>1, <1>2 DEF Phase
<1>4. InFlight(s) = {} /\ PictureWord(s, v)
  BY <1>1, <1>3 DEF PicturePhase
<1> HIDE DEF v
<1>5. atomic64'[s] = 0 /\ \A t \in Sockets : InFlight(t)' = InFlight(t)
  BY <1>1, <1>2 DEF Shape, InFlight
<1>6. \A f \in Filling(s) : f = v /\ letter[s].sizes # <<>>
  BY <1>1, <1>2, <1>4, FillingPhase DEF v
<1>7. CASE letter[s].sizes = <<>> /\ Return(s)
  <2>1. /\ pc'[s] = "idle" /\ dest'[s] = Nothing /\ cursor'[s] = [i |-> 1, offset |-> 0]
        /\ msg_counter'[s] = 0
    BY <1>2, <1>7 DEF Return, Shape
  <2>2. \A t \in Sockets \ {s} : Untouched(t)
    BY <1>1, <1>2, <1>5, <1>7 DEF Return, Shape, Untouched
  <2>3. Shape'
    BY <1>1, <1>2, <1>7 DEF Return, Shape, PCs
  <2>4. Phase(s)'
    BY <1>1, <1>2, <1>4, <1>5, <2>1 DEF Phase
  <2>5. Filling(s) = {} /\ Filling(s)' = {}
    BY <1>4, <1>5, <1>6, <1>7, <2>1 DEF Filling
  <2> QED
    BY <1>1, <2>2, <2>3, <2>4, <2>5, OwnStep
<1>8. CASE /\ letter[s].sizes # <<>>
           /\ frames_ptr' = [frames_ptr EXCEPT ![s] = v]
           /\ pc' = [pc EXCEPT ![s] = "chunks"]
           /\ UNCHANGED <<dest, cursor, msg_counter>>
  <2>1. v \in Frames /\ array[v] # Nothing /\ array[v].picture = letter[s]
    BY <1>4, <1>8 DEF PictureWord
  <2>2. pc'[s] = "chunks" /\ frames_ptr'[s] = v
    BY <1>2, <1>8 DEF Shape
  <2>3. \A t \in Sockets \ {s} : Untouched(t)
    BY <1>1, <1>2, <1>5, <1>8 DEF Shape, Untouched
  <2>4. Shape'
    BY <1>1, <1>2, <1>8, <2>1 DEF Shape, PCs
  <2>5. ChunksPhase(s)'
    <3>1. letter[s].sizes \in Seq(Nat) /\ Len(letter[s].sizes) \in Nat \ {0}
      BY <1>2, <1>8, SizesAreNats, EmptySeq
    <3>2. letter[s].sizes[1] \in Nat
      BY <1>2, <3>1, SizesAreNats
    <3>3. cursor'[s].i = 1 /\ cursor'[s].offset = 0
      BY <1>3, <1>8
    <3>4. IsFiniteSet({}) /\ Cardinality({}) = 0
      BY FS_EmptySet
    <3>5. \A i \in 1 .. Len(letter[s].sizes) : \A b \in 0 .. letter[s].sizes[i] - 1 :
            ~Passed(s, i, b)'
      BY <3>1, <3>3 DEF Passed
    <3>6. /\ letter'[s] = letter[s] /\ array' = array /\ InFlight(s)' = {}
          /\ msg_counter'[s] = 0
      BY <1>1, <1>3, <1>4, <1>5, <1>8
    <3>7. /\ cursor'[s].i <= Len(letter[s].sizes) + 1
          /\ cursor'[s].i <= Len(letter[s].sizes) => cursor'[s].offset <= letter[s].sizes[cursor'[s].i]
      BY <3>1, <3>2, <3>3
    <3>8. Cardinality(InFlight(s))' + atomic64'[s] = msg_counter'[s] /\ IsFiniteSet(InFlight(s))'
      BY <1>5, <3>4, <3>6
    <3> QED
      BY <1>5, <1>8, <2>1, <2>2, <3>5, <3>6, <3>7, <3>8 DEF ChunksPhase
  <2>6. Phase(s)'
    BY <1>1, <1>2, <1>8, <2>2, <2>5 DEF Phase, Reach
  <2>7. Filling(s) = {v} /\ Filling(s)' = {v}
    BY <1>4, <1>5, <1>6, <2>1, <2>2 DEF Filling, v
  <2> QED
    BY <1>1, <2>3, <2>4, <2>6, <2>7, OwnStep
<1> QED
  BY <1>7, <1>8 DEF PictureAnswered, v

LEMMA StepNextFrame ==
  ASSUME IInv, NEW s \in Sockets, NextFrame(s)
  PROVE  IInv'
<1> USE FloodAssumption
<1> DEFINE c == cursor[s]
           sizes == letter[s].sizes
<1>1. /\ pc[s] = "chunks" /\ c.i <= Len(sizes) /\ c.offset = sizes[c.i]
      /\ cursor' = [cursor EXCEPT ![s] = [i |-> c.i + 1, offset |-> 0]]
      /\ UNCHANGED <<pc, letter, dest, frames_ptr, msg_counter, atomic64, net, mailbox,
                     array, held, got>>
  BY DEF NextFrame, receiver
<1>2. Phase(s) /\ Shape /\ ChunksPhase(s)
  BY <1>1 DEF IInv, Phase
<1>3. c \in [i : Nat \ {0}, offset : Nat]
  BY <1>2 DEF Shape
<1>4. Len(sizes) \in Nat /\ \A i \in 1 .. Len(sizes) : sizes[i] \in Nat
  BY <1>2, SizesAreNats
<1>5. cursor'[s].i = c.i + 1 /\ cursor'[s].offset = 0
  BY <1>1, <1>2 DEF Shape
<1>6. \A t \in Sockets : InFlight(t)' = InFlight(t)
  BY <1>1 DEF InFlight
<1>7. \A t \in Sockets \ {s} : Untouched(t)
  BY <1>1, <1>2, <1>6 DEF Shape, Untouched
<1>8. Shape'
  BY <1>1, <1>2, <1>3 DEF Shape
<1>9. \A i \in 1 .. Len(sizes) : \A b \in Nat :
        /\ Passed(s, i, b) => Passed(s, i, b)'
        /\ b < sizes[i] => (Passed(s, i, b)' <=> Passed(s, i, b))
  BY <1>1, <1>3, <1>4, <1>5 DEF Passed
<1>10. ChunksPhase(s)'
  <2>1. cursor'[s].i <= Len(sizes) + 1 /\ (cursor'[s].i <= Len(sizes) => cursor'[s].offset <= sizes[cursor'[s].i])
    BY <1>1, <1>3, <1>4, <1>5
  <2>2. ASSUME NEW am \in InFlight(s)
        PROVE  /\ am.kind = "incr" \/ Piece(s, am)'
               /\ am.frame_id \in 1 .. Len(sizes)
               /\ am.offset \in Nat
               /\ Passed(s, am.frame_id, am.offset)'
    <3>1. Piece(s, am)' <=> Piece(s, am)
      BY <1>1 DEF Piece
    <3> QED
      BY <1>2, <1>9, <3>1 DEF ChunksPhase
  <2>3. ASSUME NEW i \in 1 .. Len(sizes), NEW b \in 0 .. sizes[i] - 1, Passed(s, i, b)'
        PROVE  \/ array[frames_ptr[s]].payload[i][b] = Byte(letter[s], i, b)
               \/ \E am \in InFlight(s) : InPiece(am, i, b)
    <3>1. Passed(s, i, b)
      BY <1>4, <1>9, <2>3
    <3> QED
      BY <1>2, <3>1 DEF ChunksPhase
  <2> QED
    BY SMTT(30), <1>1, <1>2, <1>6, <2>1, <2>2, <2>3 DEF ChunksPhase
<1>11. Phase(s)'
  BY <1>1, <1>2, <1>10 DEF Phase, Reach
<1>12. Filling(s)' = Filling(s)
  BY <1>1, <1>6 DEF Filling
<1> QED
  BY <1>1, <1>7, <1>8, <1>11, <1>12, OwnStep

LEMMA StepSendChunk ==
  ASSUME IInv, NEW s \in Sockets, SendChunk(s)
  PROVE  IInv'
<1> USE FloodAssumption
<1> DEFINE m == letter[s]
           i == cursor[s].i
           offset == cursor[s].offset
           nbytes == Lesser(m.sizes[i] - offset, MaxAM)
           bytes == [k \in 0 .. nbytes - 1 |-> Byte(m, i, offset + k)]
           x == PayloadReq(s, m.no, frames_ptr[s], i, offset, bytes)
<1>1. /\ pc[s] = "chunks" /\ i <= Len(m.sizes) /\ offset < m.sizes[i]
      /\ net' = net \cup {x}
      /\ msg_counter' = [msg_counter EXCEPT ![s] = @ + 1]
      /\ cursor' = [cursor EXCEPT ![s].offset = offset + nbytes]
      /\ UNCHANGED <<pc, letter, dest, frames_ptr, atomic64, mailbox, array, held, got>>
  BY DEF SendChunk, receiver
<1>2. Phase(s) /\ Shape /\ ChunksPhase(s)
  BY <1>1 DEF IInv, Phase
<1>3. cursor[s] \in [i : Nat \ {0}, offset : Nat] /\ msg_counter[s] \in Nat
  BY <1>2 DEF Shape
<1>4. Len(m.sizes) \in Nat /\ \A j \in 1 .. Len(m.sizes) : m.sizes[j] \in Nat
  BY <1>2, SizesAreNats
<1>5. i \in 1 .. Len(m.sizes) /\ i \in Nat \ {0} /\ offset \in Nat /\ m.sizes[i] \in Nat
  BY <1>1, <1>3, <1>4
<1>6. nbytes \in Nat \ {0} /\ offset + nbytes <= m.sizes[i]
  BY SMTT(30), <1>1, <1>5 DEF Lesser
<1>7. /\ x.sock = s /\ x.kind = "payload" /\ x.frames = frames_ptr[s] /\ x.frame_id = i
      /\ x.offset = offset /\ x.bytes = bytes
  BY DEF PayloadReq
<1>8. Piece(s, x)
  BY <1>6, <1>7 DEF Piece
<1> HIDE DEF x, m, i, offset, nbytes
<1>9. InFlight(s)' = InFlight(s) \cup {x} /\ \A t \in Sockets \ {s} : InFlight(t)' = InFlight(t)
  BY <1>1, <1>7, NetAdd
<1>10. cursor'[s].i = i /\ cursor'[s].offset = offset + nbytes /\ msg_counter'[s] = msg_counter[s] + 1
  BY <1>1, <1>2 DEF Shape, i
<1>11. \A t \in Sockets \ {s} : Untouched(t)
  BY <1>1, <1>2, <1>9 DEF Shape, Untouched
<1>12. Shape'
  <2>1. cursor' \in [Sockets -> [i : Nat \ {0}, offset : Nat]]
    <3>1. [cursor[s] EXCEPT !.offset = offset + nbytes] \in [i : Nat \ {0}, offset : Nat]
      BY SMTT(30), <1>3, <1>5, <1>6
    <3>2. cursor' = [cursor EXCEPT ![s] = [cursor[s] EXCEPT !.offset = offset + nbytes]]
      BY <1>1
    <3> QED
      BY <1>2, <3>1, <3>2 DEF Shape
  <2>2. msg_counter' \in [Sockets -> Nat]
    BY <1>1, <1>2 DEF Shape
  <2>3. \A am \in net' : am.kind \in Kinds /\ am.sock \in Sockets
    BY <1>1, <1>2, <1>7 DEF Shape, Kinds
  <2> QED
    BY <1>1, <1>2, <2>1, <2>2, <2>3 DEF Shape
<1>13. ASSUME NEW j \in Nat, NEW b \in Nat
       PROVE  /\ Passed(s, j, b) => Passed(s, j, b)'
              /\ Passed(s, j, b)' => Passed(s, j, b) \/ (j = i /\ b - offset \in 0 .. nbytes - 1)
  <2>1. Passed(s, j, b) <=> j < i \/ (j = i /\ b < offset)
    BY DEF Passed, i, offset
  <2>2. Passed(s, j, b)' <=> j < i \/ (j = i /\ b < offset + nbytes)
    BY <1>10 DEF Passed
  <2> QED
    BY <1>5, <1>6, <2>1, <2>2
<1>14. ChunksPhase(s)'
  <2>1. \A am \in InFlight(s) : ~(am.frame_id = i /\ am.offset = offset)
    <3> SUFFICES ASSUME NEW am \in InFlight(s), am.frame_id = i, am.offset = offset PROVE FALSE
      OBVIOUS
    <3>1. Passed(s, i, offset)
      BY <1>2 DEF ChunksPhase
    <3> QED
      BY <1>5, <3>1 DEF Passed, i, offset
  <2>2. IsFiniteSet(InFlight(s)') /\ Cardinality(InFlight(s)') = Cardinality(InFlight(s)) + 1
    <3>1. x \notin InFlight(s)
      BY <1>7, <2>1
    <3> QED
      BY <1>2, <1>9, <3>1, FS_AddElement DEF ChunksPhase
  <2>3. Cardinality(InFlight(s)') + atomic64'[s] = msg_counter'[s]
    <3>1. Cardinality(InFlight(s)) \in Nat
      BY <1>2, FS_CardinalityType DEF ChunksPhase
    <3> QED
      BY <1>1, <1>2, <1>10, <2>2, <3>1 DEF ChunksPhase
  <2>4. ASSUME NEW am \in InFlight(s)'
        PROVE  /\ am.kind = "incr" \/ Piece(s, am)'
               /\ am.frame_id \in 1 .. Len(m.sizes)
               /\ am.offset \in Nat
               /\ Passed(s, am.frame_id, am.offset)'
    <3>1. Piece(s, am)' <=> Piece(s, am)
      BY <1>1 DEF Piece
    <3>2. CASE am \in InFlight(s)
      <4>1. /\ am.kind = "incr" \/ Piece(s, am)
            /\ am.frame_id \in 1 .. Len(m.sizes)
            /\ am.offset \in Nat
            /\ Passed(s, am.frame_id, am.offset)
        BY <1>2, <3>2 DEF ChunksPhase, m
      <4>2. am.frame_id \in Nat
        BY <4>1
      <4> QED
        BY <1>13, <3>1, <4>1, <4>2
    <3>3. CASE am = x
      <4>1. am.frame_id = i /\ am.offset = offset /\ Piece(s, am)
        BY <1>7, <1>8, <3>3
      <4>2. Passed(s, am.frame_id, am.offset)'
        BY <1>5, <1>6, <1>10, <4>1 DEF Passed
      <4> QED
        BY <1>5, <3>1, <4>1, <4>2
    <3> QED
      BY <1>9, <3>2, <3>3
  <2>5. \A y, z \in InFlight(s)' : y.frame_id = z.frame_id /\ y.offset = z.offset => y = z
    BY <1>2, <1>7, <1>9, <2>1 DEF ChunksPhase
  <2>6. ASSUME NEW j \in 1 .. Len(m.sizes), NEW b \in 0 .. m.sizes[j] - 1, Passed(s, j, b)'
        PROVE  \/ array[frames_ptr[s]].payload[j][b] = Byte(m, j, b)
               \/ \E am \in InFlight(s)' : InPiece(am, j, b)
    <3>1. b \in Nat /\ j \in Nat
      BY <1>4
    <3>2. CASE Passed(s, j, b)
      BY <1>2, <1>9, <3>2 DEF ChunksPhase, m
    <3>3. CASE j = i /\ b - offset \in 0 .. nbytes - 1
      <4>1. InPiece(x, j, b)
        BY <1>7, <3>3 DEF InPiece
      <4> QED
        BY <1>9, <4>1
    <3> QED
      BY <1>13, <2>6, <3>1, <3>2, <3>3
  <2>7. /\ cursor'[s].i <= Len(m.sizes) + 1
        /\ cursor'[s].i <= Len(m.sizes) => cursor'[s].offset <= m.sizes[cursor'[s].i]
    BY <1>4, <1>5, <1>6, <1>10
  <2>8. /\ m.sizes # <<>> /\ frames_ptr[s] \in Frames /\ array[frames_ptr[s]] # Nothing
        /\ array[frames_ptr[s]].picture = m /\ atomic64[s] \in Nat
    BY <1>2 DEF ChunksPhase, m
  <2>9. letter'[s] = m /\ frames_ptr'[s] = frames_ptr[s] /\ array' = array /\ atomic64'[s] = atomic64[s]
    BY <1>1 DEF m
  <2> QED
    BY <2>2, <2>3, <2>4, <2>5, <2>6, <2>7, <2>8, <2>9 DEF ChunksPhase
<1>15. Phase(s)'
  BY <1>1, <1>2, <1>14 DEF Phase, Reach
<1>16. Filling(s)' = Filling(s)
  BY <1>1, <1>7, <1>9 DEF Filling
<1> QED
  BY <1>1, <1>11, <1>12, <1>15, <1>16, OwnStep

LEMMA StepChunksAnswered ==
  ASSUME IInv, NEW s \in Sockets, ChunksAnswered(s)
  PROVE  IInv'
<1> USE FloodAssumption
<1> DEFINE m == letter[s]
           f == frames_ptr[s]
           x == TerminationReq(s, m.no, dest[s], f)
<1>1. /\ pc[s] = "chunks" /\ cursor[s].i > Len(m.sizes)
      /\ atomic64[s] = msg_counter[s]
      /\ atomic64' = [atomic64 EXCEPT ![s] = 0]
      /\ net' = net \cup {x}
      /\ pc' = [pc EXCEPT ![s] = "term"]
      /\ UNCHANGED <<letter, dest, frames_ptr, cursor, msg_counter, mailbox, array, held, got>>
  BY DEF ChunksAnswered, receiver
<1>2. Phase(s) /\ Shape /\ ChunksPhase(s)
  BY <1>1 DEF IInv, Phase
<1>3. InFlight(s) = {}
  <2>1. Cardinality(InFlight(s)) \in Nat /\ msg_counter[s] \in Nat
    BY <1>2, FS_CardinalityType DEF ChunksPhase, Shape
  <2>2. Cardinality(InFlight(s)) = 0
    BY <1>1, <1>2, <2>1 DEF ChunksPhase
  <2> QED
    BY <1>2, <2>2, FS_EmptySet DEF ChunksPhase
<1>4. Len(m.sizes) \in Nat /\ \A j \in 1 .. Len(m.sizes) : m.sizes[j] \in Nat
  BY <1>2, SizesAreNats
<1>5. f \in Frames /\ array[f] # Nothing /\ array[f].picture = m
  BY <1>2 DEF ChunksPhase
<1>6. array[f].payload = Payload(m)
  <2> DEFINE p == array[f].payload
  <2>1. Fits(p, m.sizes)
    BY <1>2, <1>5 DEF Shape, IsArray
  <2>2. ASSUME NEW i \in 1 .. Len(m.sizes), NEW b \in 0 .. m.sizes[i] - 1
        PROVE  p[i][b] = Byte(m, i, b)
    <3>1. i < cursor[s].i
      BY <1>1, <1>2, <1>4 DEF Shape
    <3>2. Passed(s, i, b)
      BY <3>1 DEF Passed
    <3> QED
      BY <1>2, <1>3, <3>2 DEF ChunksPhase
  <2> HIDE DEF p
  <2>3. p = [i \in 1 .. Len(m.sizes) |-> p[i]]
    BY <2>1 DEF Fits
  <2>4. \A i \in 1 .. Len(m.sizes) : p[i] = [b \in 0 .. m.sizes[i] - 1 |-> Byte(m, i, b)]
    <3> SUFFICES ASSUME NEW i \in 1 .. Len(m.sizes)
                 PROVE  p[i] = [b \in 0 .. m.sizes[i] - 1 |-> Byte(m, i, b)]
      OBVIOUS
    <3>1. p[i] = [b \in 0 .. m.sizes[i] - 1 |-> p[i][b]]
      BY <2>1 DEF Fits
    <3> QED
      BY <2>2, <3>1
  <2>5. p = Payload(m)
    BY <2>3, <2>4 DEF Payload
  <2> QED
    BY <2>5 DEF p
<1>7. x.sock = s /\ x.kind = "termination" /\ x.frames = f
  BY DEF TerminationReq
<1>8. InFlight(s)' = {x} /\ \A t \in Sockets \ {s} : InFlight(t)' = InFlight(t)
  BY <1>1, <1>3, <1>7, NetAdd
<1>9. pc'[s] = "term" /\ atomic64'[s] = 0
  BY <1>1, <1>2 DEF Shape
<1>10. \A t \in Sockets \ {s} : Untouched(t)
  BY <1>1, <1>2, <1>8 DEF Shape, Untouched
<1>11. Shape'
  BY <1>1, <1>2, <1>7 DEF Shape, PCs, Kinds
<1>12. Phase(s)'
  <2>1. TermPhase(s)'
    BY <1>1, <1>5, <1>6, <1>8, <1>9 DEF TermPhase, Whole
  <2> QED
    BY <1>1, <1>2, <1>9, <2>1 DEF Phase, Reach
<1>13. Filling(s) = {f} /\ Filling(s)' = {f}
  <2>1. Filling(s) = {f}
    BY <1>1, <1>2, FillingPhase
  <2> HIDE DEF x
  <2>2. Filling(s)' = {f}
    BY <1>5, <1>7, <1>8, <1>9 DEF Filling
  <2> QED
    BY <2>1, <2>2
<1> QED
  BY <1>1, <1>10, <1>11, <1>12, <1>13, OwnStep

LEMMA StepTerminationAnswered ==
  ASSUME IInv, NEW s \in Sockets, TerminationAnswered(s)
  PROVE  IInv'
<1> USE FloodAssumption
<1>1. /\ pc[s] = "term" /\ atomic64[s] # 0
      /\ atomic64' = [atomic64 EXCEPT ![s] = 0]
      /\ Return(s)
      /\ UNCHANGED <<letter, net, mailbox, array, held, got>>
  BY DEF TerminationAnswered, receiver
<1>2. Phase(s) /\ Shape /\ TermPhase(s)
  BY <1>1 DEF IInv, Phase
<1>3. InFlight(s) = {} /\ atomic64[s] = 1
  BY <1>1, <1>2 DEF TermPhase
<1>4. \A t \in Sockets : InFlight(t)' = InFlight(t)
  BY <1>1 DEF InFlight
<1>5. /\ pc'[s] = "idle" /\ dest'[s] = Nothing /\ cursor'[s] = [i |-> 1, offset |-> 0]
      /\ msg_counter'[s] = 0 /\ atomic64'[s] = 0
  BY <1>1, <1>2 DEF Return, Shape
<1>6. \A t \in Sockets \ {s} : Untouched(t)
  BY <1>1, <1>2, <1>4 DEF Return, Shape, Untouched
<1>7. Shape'
  BY <1>1, <1>2 DEF Return, Shape, PCs
<1>8. Phase(s)'
  BY <1>1, <1>2, <1>3, <1>4, <1>5 DEF Phase
<1>9. Filling(s) = {} /\ Filling(s)' = {}
  BY <1>1, <1>3, <1>4, <1>5 DEF Filling
<1> QED
  BY <1>1, <1>6, <1>7, <1>8, <1>9, OwnStep

(* An active message tells the phase of the send it belongs to. *)
LEMMA KindPhase ==
  ASSUME IInv, NEW am \in net
  PROVE  LET s == am.sock IN
         /\ s \in Sockets /\ am \in InFlight(s) /\ Shape /\ Phase(s)
         /\ am.kind = "picture" =>
              /\ pc[s] = "picture" /\ atomic64[s] = 0 /\ InFlight(s) = {am}
              /\ am = PictureReq(s, letter[s], dest[s])
         /\ am.kind \in {"payload", "incr"} => pc[s] = "chunks" /\ ChunksPhase(s)
         /\ am.kind = "termination" =>
              /\ pc[s] = "term" /\ atomic64[s] = 0 /\ InFlight(s) = {am}
              /\ am = TerminationReq(s, letter[s].no, dest[s], frames_ptr[s])
              /\ frames_ptr[s] \in Frames /\ Whole(frames_ptr[s])
              /\ array[frames_ptr[s]].picture = letter[s]
         /\ am.kind = "set" =>
              /\ atomic64[s] = 0 /\ InFlight(s) = {am}
              /\ \/ pc[s] = "picture" /\ am.val \in {1} \cup Frames /\ PictureWord(s, am.val)
                 \/ pc[s] = "term" /\ am.val = 1
<1> DEFINE s == am.sock
<1>1. s \in Sockets /\ Shape /\ Phase(s)
  BY DEF IInv, Shape
<1>2. am \in InFlight(s)
  BY DEF InFlight
<1> HIDE DEF s
<1>3. pc[s] # "idle"
  BY <1>1, <1>2 DEF Phase
<1>4. CASE pc[s] = "picture"
  <2>1. PicturePhase(s)
    BY <1>1, <1>4 DEF Phase
  <2>2. CASE atomic64[s] = 0 /\ InFlight(s) = {PictureReq(s, letter[s], dest[s])}
    <3>1. am = PictureReq(s, letter[s], dest[s]) /\ am.kind = "picture"
      BY <1>2, <2>2 DEF PictureReq
    <3> QED
      BY <1>1, <1>2, <1>4, <2>2, <3>1 DEF s
  <2>3. ASSUME NEW v \in {1} \cup Frames, atomic64[s] = 0,
               InFlight(s) = {SetReply(s, letter[s].no, v)}, PictureWord(s, v)
        PROVE  /\ am.kind = "set" /\ am.val = v
    BY <1>2, <2>3 DEF SetReply
  <2>4. CASE atomic64[s] = 0 /\ \E v \in {1} \cup Frames :
               InFlight(s) = {SetReply(s, letter[s].no, v)} /\ PictureWord(s, v)
    <3>1. PICK v \in {1} \cup Frames : InFlight(s) = {SetReply(s, letter[s].no, v)} /\ PictureWord(s, v)
      BY <2>4
    <3>2. am.kind = "set" /\ am.val = v /\ InFlight(s) = {am}
      BY <1>2, <2>3, <2>4, <3>1
    <3> QED
      BY <1>1, <1>2, <1>4, <2>4, <3>1, <3>2 DEF s
  <2> QED
    BY <1>2, <2>1, <2>2, <2>4 DEF PicturePhase
<1>5. CASE pc[s] = "chunks"
  <2>1. ChunksPhase(s)
    BY <1>1, <1>5 DEF Phase
  <2>2. am.kind \in {"incr", "payload"}
    BY <1>2, <2>1 DEF ChunksPhase, Piece
  <2> QED
    BY <1>1, <1>2, <1>5, <2>1, <2>2 DEF s
<1>6. CASE pc[s] = "term"
  <2>1. TermPhase(s)
    BY <1>1, <1>6 DEF Phase
  <2>2. CASE /\ atomic64[s] = 0
             /\ InFlight(s) = {TerminationReq(s, letter[s].no, dest[s], frames_ptr[s])}
             /\ frames_ptr[s] \in Frames /\ Whole(frames_ptr[s])
             /\ array[frames_ptr[s]].picture = letter[s]
    <3>1. am = TerminationReq(s, letter[s].no, dest[s], frames_ptr[s]) /\ am.kind = "termination"
      BY <1>2, <2>2 DEF TerminationReq
    <3> QED
      BY <1>1, <1>2, <1>6, <2>2, <3>1 DEF s
  <2>3. CASE atomic64[s] = 0 /\ InFlight(s) = {SetReply(s, letter[s].no, 1)}
    <3>1. InFlight(s) = {am} /\ am.kind = "set" /\ am.val = 1
      BY <1>2, <2>3 DEF SetReply
    <3> QED
      BY <1>1, <1>2, <1>6, <2>3, <3>1 DEF s
  <2> QED
    BY <1>2, <2>1, <2>2, <2>3 DEF TermPhase
<1> QED
  BY <1>1, <1>3, <1>4, <1>5, <1>6 DEF Shape, PCs

LEMMA StepSet ==
  ASSUME IInv, NEW am \in net, OnReply(am), am.kind = "set"
  PROVE  IInv'
<1> USE FloodAssumption
<1> DEFINE s == am.sock
           v == am.val
<1>1. /\ atomic64' = [atomic64 EXCEPT ![s] = v]
      /\ net' = net \ {am}
      /\ UNCHANGED <<pc, letter, dest, frames_ptr, cursor, msg_counter, mailbox, array, held, got>>
  BY DEF OnReply, sender, receiver
<1>2. /\ s \in Sockets /\ Shape /\ Phase(s)
      /\ atomic64[s] = 0 /\ InFlight(s) = {am}
      /\ \/ pc[s] = "picture" /\ v \in {1} \cup Frames /\ PictureWord(s, v)
         \/ pc[s] = "term" /\ v = 1
  BY KindPhase
<1>3. InFlight(s)' = {} /\ \A t \in Sockets \ {s} : InFlight(t)' = InFlight(t)
  <2>1. am.sock = s
    OBVIOUS
  <2> HIDE DEF s
  <2> QED
    BY <1>1, <1>2, <2>1, NetDrop
<1> HIDE DEF s, v
<1>4. atomic64'[s] = v /\ atomic64' \in [Sockets -> Nat \cup Frames \cup {UINT64_MAX}]
  BY <1>1, <1>2 DEF Shape
<1>5. \A t \in Sockets \ {s} : Untouched(t)
  BY <1>1, <1>2, <1>3 DEF Shape, Untouched
<1>6. Shape'
  BY <1>1, <1>2, <1>4 DEF Shape
<1>7. Phase(s)'
  <2>1. CASE pc[s] = "picture" /\ PictureWord(s, v)
    <3>1. PicturePhase(s)'
      BY <1>1, <1>3, <1>4, <2>1 DEF PicturePhase, PictureWord
    <3> QED
      BY <1>1, <1>2, <2>1, <3>1 DEF Phase, Reach
  <2>2. CASE pc[s] = "term" /\ v = 1
    <3>1. TermPhase(s)'
      BY <1>3, <1>4, <2>2 DEF TermPhase
    <3> QED
      BY <1>1, <1>2, <2>2, <3>1 DEF Phase, Reach
  <2> QED
    BY <1>2, <2>1, <2>2
<1>8. Filling(s)' = Filling(s)
  <2>1. am.kind = "set" /\ am.val = v
    BY DEF v
  <2> QED
    BY <1>1, <1>2, <1>3, <1>4, <2>1 DEF Filling
<1> QED
  BY <1>1, <1>2, <1>5, <1>6, <1>7, <1>8, OwnStep

LEMMA StepIncr ==
  ASSUME IInv, NEW am \in net, OnReply(am), am.kind = "incr"
  PROVE  IInv'
<1> USE FloodAssumption
<1> DEFINE s == am.sock
<1>1. /\ atomic64' = [atomic64 EXCEPT ![s] = Incremented(atomic64[s])]
      /\ net' = net \ {am}
      /\ UNCHANGED <<pc, letter, dest, frames_ptr, cursor, msg_counter, mailbox, array, held, got>>
  BY DEF OnReply, sender, receiver
<1>2. /\ s \in Sockets /\ Shape /\ Phase(s) /\ am \in InFlight(s)
      /\ pc[s] = "chunks" /\ ChunksPhase(s)
  BY KindPhase
<1>3. InFlight(s)' = InFlight(s) \ {am} /\ \A t \in Sockets \ {s} : InFlight(t)' = InFlight(t)
  <2>1. am.sock = s
    OBVIOUS
  <2> HIDE DEF s
  <2> QED
    BY <1>1, <1>2, <2>1, NetDrop
<1> HIDE DEF s
<1>4. atomic64[s] \in Nat
  BY <1>2 DEF ChunksPhase
<1>5. atomic64'[s] = atomic64[s] + 1 /\ atomic64' \in [Sockets -> Nat \cup Frames \cup {UINT64_MAX}]
  <2>1. Incremented(atomic64[s]) = atomic64[s] + 1
    BY <1>4 DEF Incremented
  <2> QED
    BY <1>1, <1>2, <1>4, <2>1 DEF Shape
<1>6. \A t \in Sockets \ {s} : Untouched(t)
  BY <1>1, <1>2, <1>3 DEF Shape, Untouched
<1>7. Shape'
  BY <1>1, <1>2, <1>5 DEF Shape
<1>8. ChunksPhase(s)'
  <2>1. IsFiniteSet(InFlight(s)') /\ Cardinality(InFlight(s)') = Cardinality(InFlight(s)) - 1
    BY <1>2, <1>3, FS_RemoveElement DEF ChunksPhase
  <2>2. Cardinality(InFlight(s)') + atomic64'[s] = msg_counter'[s]
    <3>1. Cardinality(InFlight(s)) \in Nat
      BY <1>2, FS_CardinalityType DEF ChunksPhase
    <3> QED
      BY <1>1, <1>2, <1>4, <1>5, <2>1, <3>1 DEF ChunksPhase
  <2>3. \A i, b : Passed(s, i, b)' <=> Passed(s, i, b)
    BY <1>1 DEF Passed
  <2>4. ASSUME NEW x \in InFlight(s)'
        PROVE  /\ x.kind = "incr" \/ Piece(s, x)'
               /\ x.frame_id \in 1 .. Len(letter[s].sizes)
               /\ x.offset \in Nat
               /\ Passed(s, x.frame_id, x.offset)'
    <3>1. Piece(s, x)' <=> Piece(s, x)
      BY <1>1 DEF Piece
    <3> QED
      BY <1>2, <1>3, <2>3, <3>1 DEF ChunksPhase
  <2>5. ASSUME NEW i \in 1 .. Len(letter[s].sizes), NEW b \in 0 .. letter[s].sizes[i] - 1,
               Passed(s, i, b)'
        PROVE  \/ array[frames_ptr[s]].payload[i][b] = Byte(letter[s], i, b)
               \/ \E x \in InFlight(s)' : InPiece(x, i, b)
    <3>1. \/ array[frames_ptr[s]].payload[i][b] = Byte(letter[s], i, b)
          \/ \E x \in InFlight(s) : InPiece(x, i, b)
      BY <1>2, <2>3, <2>5 DEF ChunksPhase
    <3>2. ~InPiece(am, i, b)
      BY DEF InPiece
    <3> QED
      BY <1>3, <3>1, <3>2
  <2>6. \A x, y \in InFlight(s)' : x.frame_id = y.frame_id /\ x.offset = y.offset => x = y
    BY <1>2, <1>3 DEF ChunksPhase
  <2> QED
    BY <1>1, <1>2, <1>4, <1>5, <2>1, <2>2, <2>4, <2>5, <2>6 DEF ChunksPhase
<1>9. Phase(s)'
  BY <1>1, <1>2, <1>8 DEF Phase, Reach
<1>10. Filling(s)' = Filling(s)
  <2>1. \A f \in Frames : atomic64[s] # f /\ atomic64'[s] # f
    BY <1>4, <1>5
  <2> QED
    BY <1>1, <1>3, <2>1 DEF Filling
<1> QED
  BY <1>1, <1>2, <1>6, <1>7, <1>9, <1>10, OwnStep

LEMMA ByteIsTyped ==
  ASSUME NEW m \in Messages, NEW i \in 1 .. Len(m.sizes), NEW b \in 0 .. m.sizes[i] - 1
  PROVE  Byte(m, i, b) \in Bytes
<1>1. m.from \in Sockets /\ m.no \in 0 .. MaxSends /\ m.sizes \in Sizes \cup {<<>>}
  BY DEF Messages
<1>2. m.sizes \in Sizes
  BY <1>1, EmptySeq
<1>3. i \in Places /\ m.sizes[i] \in Lengths
  BY <1>2 DEF Places, Lengths
<1>4. b \in Offsets
  BY <1>3 DEF Offsets
<1> QED
  BY <1>1, <1>3, <1>4 DEF Byte, Bytes

LEMMA ArrayIsTyped ==
  ASSUME NEW a, IsArray(a)
  PROVE  a \in FrameArrays /\ a # Nothing
<1> DEFINE sizes == a.picture.sizes
           p == a.payload
<1>1. sizes \in Seq(Nat) /\ sizes \in Sizes \cup {<<>>}
  BY FloodAssumption, EmptySeq DEF IsArray, Messages
<1>2. Len(sizes) \in Nat
  BY <1>1, LenProperties
<1>3. ASSUME NEW i \in 1 .. Len(sizes) PROVE p[i] \in Buffers
  <2>1. p[i] \in [0 .. sizes[i] - 1 -> Bytes \cup {Nothing}]
    BY DEF IsArray, Fits
  <2>2. sizes \in Sizes
    BY <1>1, EmptySeq
  <2>3. sizes[i] \in Lengths
    BY <2>2 DEF Lengths
  <2> QED
    BY <2>1, <2>3 DEF Buffers
<1>4. p = [i \in 1 .. Len(sizes) |-> p[i]]
  BY DEF IsArray, Fits
<1> HIDE DEF p
<1>5. p \in [1 .. Len(sizes) -> Buffers]
  BY <1>3, <1>4
<1>6. p \in Seq(Buffers)
  BY <1>2, <1>5, SeqDef
<1> QED
  BY <1>6, FreeAssumption DEF IsArray, FrameArrays, p

LEMMA StepOnPayload ==
  ASSUME IInv, NEW am \in net, OnPayload(am)
  PROVE  IInv'
<1> USE FloodAssumption
<1> DEFINE s == am.sock
           f == am.frames
           id == am.frame_id
           p == array[f].payload
           q == [b \in DOMAIN p[id] |-> IF b - am.offset \in DOMAIN am.bytes
                                          THEN am.bytes[b - am.offset] ELSE p[id][b]]
           x == IncrReply(s, am.no, id, am.offset)
           m == letter[s]
<1>1. /\ am.kind = "payload"
      /\ array' = [array EXCEPT ![f] = [array[f] EXCEPT !.payload = [p EXCEPT ![id] = q]]]
      /\ net' = (net \ {am}) \cup {x}
      /\ UNCHANGED <<pc, letter, dest, frames_ptr, cursor, msg_counter, atomic64, mailbox, held, got>>
  BY DEF OnPayload, sender, receiver
<1>2. /\ s \in Sockets /\ Shape /\ Phase(s) /\ am \in InFlight(s)
      /\ pc[s] = "chunks" /\ ChunksPhase(s)
  BY <1>1, KindPhase
<1>3. /\ Piece(s, am) /\ id \in 1 .. Len(m.sizes) /\ am.offset \in Nat
      /\ Passed(s, id, am.offset)
  BY <1>1, <1>2 DEF ChunksPhase
<1>4. f = frames_ptr[s] /\ f \in Frames /\ array[f] # Nothing /\ array[f].picture = m
  BY <1>2, <1>3 DEF ChunksPhase, Piece
<1>5. IsArray(array[f]) /\ Fits(p, m.sizes)
  BY <1>2, <1>4 DEF Shape, IsArray
<1>6. Len(m.sizes) \in Nat /\ m.sizes[id] \in Nat /\ m \in Messages
  BY <1>2, <1>3, SizesAreNats DEF Shape
<1>7. PICK n \in Nat : /\ am.offset + n <= m.sizes[id]
                       /\ am.bytes = [k \in 0 .. n - 1 |-> Byte(m, id, am.offset + k)]
  BY <1>3 DEF Piece
<1>8. x.sock = s /\ x.kind = "incr" /\ x.frame_id = id /\ x.offset = am.offset
  BY DEF IncrReply
<1>9. /\ InFlight(s)' = (InFlight(s) \ {am}) \cup {x}
      /\ \A t \in Sockets \ {s} : InFlight(t)' = InFlight(t)
  <2>1. am.sock = s
    OBVIOUS
  <2> HIDE DEF s, x
  <2> QED
    BY <1>1, <1>2, <1>8, <2>1, NetSwap
<1>10. q = [b \in 0 .. m.sizes[id] - 1 |->
              IF b - am.offset \in 0 .. n - 1 THEN Byte(m, id, b) ELSE p[id][b]]
  <2>1. DOMAIN p[id] = 0 .. m.sizes[id] - 1
    <3>1. id \in 1 .. Len(m.sizes) /\ Fits(p, m.sizes)
      BY <1>3, <1>5
    <3> HIDE DEF p, id, m
    <3>2. p[id] = [b \in 0 .. m.sizes[id] - 1 |-> p[id][b]]
      BY <3>1 DEF Fits
    <3> QED
      BY <3>2
  <2>2. DOMAIN am.bytes = 0 .. n - 1
    BY <1>7
  <2>3. ASSUME NEW b \in 0 .. m.sizes[id] - 1, b - am.offset \in 0 .. n - 1
        PROVE  am.bytes[b - am.offset] = Byte(m, id, b)
    <3>1. am.bytes[b - am.offset] = Byte(m, id, am.offset + (b - am.offset))
      BY <1>7, <2>3
    <3>2. am.offset + (b - am.offset) = b
      BY <1>3, <1>6
    <3> QED
      BY <3>1, <3>2
  <2> QED
    BY <2>1, <2>2, <2>3
<1> HIDE DEF q, x, m, f, id, s, p
<1>11. /\ array'[f] = [array[f] EXCEPT !.payload = [p EXCEPT ![id] = q]]
       /\ \A g \in Frames \ {f} : array'[g] = array[g]
       /\ array' = [g \in Frames |-> array'[g]]
  BY <1>1, <1>2, <1>4 DEF Shape
<1>12. /\ array'[f] = [picture |-> m, payload |-> array'[f].payload]
       /\ array'[f].picture = m
       /\ array'[f].payload = [p EXCEPT ![id] = q]
  <2>1. array[f] = [picture |-> m, payload |-> p]
    BY <1>4, <1>5 DEF IsArray, p
  <2>2. array'[f] = [picture |-> m, payload |-> [p EXCEPT ![id] = q]]
    BY <1>11, <2>1
  <2> QED
    BY <2>2
<1>13. /\ DOMAIN p = 1 .. Len(m.sizes)
       /\ \A i \in 1 .. Len(m.sizes) : array'[f].payload[i] = IF i = id THEN q ELSE p[i]
  BY <1>3, <1>5, <1>12 DEF Fits
<1>14. \A i \in 1 .. Len(m.sizes) : \A b \in 0 .. m.sizes[i] - 1 :
         array'[f].payload[i][b] = IF i = id /\ b - am.offset \in 0 .. n - 1
                                     THEN Byte(m, i, b) ELSE p[i][b]
  BY <1>10, <1>13
<1>15. IsArray(array'[f])
  <2> DEFINE r == array'[f].payload
  <2>1. r = [i \in 1 .. Len(m.sizes) |-> r[i]]
    BY <1>5, <1>12 DEF Fits
  <2>2. \A i \in 1 .. Len(m.sizes) : r[i] = [b \in 0 .. m.sizes[i] - 1 |-> r[i][b]]
    BY <1>5, <1>10, <1>13 DEF Fits
  <2>3. ASSUME NEW i \in 1 .. Len(m.sizes), NEW b \in 0 .. m.sizes[i] - 1
        PROVE  r[i][b] \in Bytes \cup {Nothing}
    <3>1. p[i][b] \in Bytes \cup {Nothing}
      BY <1>5 DEF Fits
    <3>2. Byte(m, i, b) \in Bytes
      BY <1>6, ByteIsTyped
    <3> QED
      BY <1>14, <3>1, <3>2
  <2> QED
    BY <1>6, <1>12, <2>1, <2>2, <2>3 DEF IsArray, Fits
<1>16. array'[f] # Nothing
  BY <1>15, ArrayIsTyped
<1>17. \A t \in Sockets \ {s} : Untouched(t)
  BY <1>1, <1>2, <1>9 DEF Shape, Untouched
<1>18. Shape'
  <2>1. \A y \in net' : y.kind \in Kinds /\ y.sock \in Sockets
    BY <1>1, <1>2, <1>8 DEF Shape, Kinds
  <2>2. \A g \in Frames : array'[g] # Nothing => IsArray(array'[g])
    BY <1>2, <1>11, <1>15 DEF Shape
  <2> QED
    BY <1>1, <1>2, <1>11, <2>1, <2>2 DEF Shape
<1>19. ChunksPhase(s)'
  <2>1. am.sock = s /\ am.frame_id = id
    BY DEF s, id
  <2>2. \A y \in InFlight(s) : y.frame_id = id /\ y.offset = am.offset => y = am
    BY <1>2, <2>1 DEF ChunksPhase
  <2>3. IsFiniteSet(InFlight(s)') /\ Cardinality(InFlight(s)') = Cardinality(InFlight(s))
    <3> DEFINE rest == InFlight(s) \ {am}
    <3>1. x \notin rest
      BY <1>8, <2>2
    <3>2. IsFiniteSet(rest) /\ Cardinality(rest) = Cardinality(InFlight(s)) - 1
      BY <1>2, FS_RemoveElement DEF ChunksPhase
    <3>3. Cardinality(InFlight(s)) \in Nat
      BY <1>2, FS_CardinalityType DEF ChunksPhase
    <3> HIDE DEF rest
    <3>4. IsFiniteSet(rest \cup {x}) /\ Cardinality(rest \cup {x}) = Cardinality(rest) + 1
      BY <3>1, <3>2, FS_AddElement
    <3> QED
      BY <1>9, <3>2, <3>3, <3>4 DEF rest
  <2>4. \A i, b : Passed(s, i, b)' <=> Passed(s, i, b)
    BY <1>1 DEF Passed
  <2>5. ASSUME NEW y \in InFlight(s)'
        PROVE  /\ y.kind = "incr" \/ Piece(s, y)'
               /\ y.frame_id \in 1 .. Len(m.sizes)
               /\ y.offset \in Nat
               /\ Passed(s, y.frame_id, y.offset)'
    <3>1. Piece(s, y)' <=> Piece(s, y)
      BY <1>1 DEF Piece
    <3>2. CASE y \in InFlight(s)
      BY <1>2, <2>4, <3>1, <3>2 DEF ChunksPhase, m
    <3>3. CASE y = x
      BY <1>3, <1>8, <2>4, <3>3
    <3> QED
      BY <1>9, <3>2, <3>3
  <2>6. \A y, z \in InFlight(s)' : y.frame_id = z.frame_id /\ y.offset = z.offset => y = z
    BY <1>2, <1>8, <1>9, <2>2 DEF ChunksPhase
  <2>7. ASSUME NEW i \in 1 .. Len(m.sizes), NEW b \in 0 .. m.sizes[i] - 1, Passed(s, i, b)'
        PROVE  \/ array'[f].payload[i][b] = Byte(m, i, b)
               \/ \E y \in InFlight(s)' : InPiece(y, i, b)
    <3>1. \/ p[i][b] = Byte(m, i, b)
          \/ \E y \in InFlight(s) : InPiece(y, i, b)
      BY <1>2, <1>4, <2>4, <2>7 DEF ChunksPhase, m, p
    <3>2. InPiece(am, i, b) <=> i = id /\ b - am.offset \in 0 .. n - 1
      BY <1>1, <1>7, <2>1 DEF InPiece
    <3> QED
      BY <1>9, <1>14, <3>1, <3>2
  <2>8. m.sizes # <<>> /\ atomic64[s] \in Nat
    BY <1>2 DEF ChunksPhase, m
  <2>9. letter'[s] = m /\ frames_ptr'[s] = f /\ atomic64'[s] = atomic64[s]
    BY <1>1, <1>4 DEF m
  <2> QED
    BY <1>1, <1>2, <1>4, <1>12, <1>16, <2>3, <2>5, <2>6, <2>7, <2>8, <2>9 DEF ChunksPhase, m
<1>20. Phase(s)'
  BY <1>1, <1>2, <1>19 DEF Phase, Reach
<1>21. Filling(s)' = Filling(s) /\ f \in Filling(s)
  <2>1. am.kind = "payload"
    BY <1>1
  <2> QED
    BY <1>1, <1>2, <1>4, <1>8, <1>9, <2>1 DEF Filling
<1>22. OnePlace(f)
  BY <1>4 DEF IInv, Placed
<1>23. \A t \in Sockets \ {s} : Phase(t)' /\ Filling(t)' = Filling(t)
  <2> SUFFICES ASSUME NEW t \in Sockets \ {s} PROVE Phase(t)' /\ Filling(t)' = Filling(t)
    OBVIOUS
  <2>1. \A g \in Filling(t) : array'[g] = array[g]
    <3>1. f \notin Filling(t)
      BY <1>2, <1>21, <1>22 DEF OnePlace
    <3> QED
      BY <1>11, <3>1 DEF Filling
  <2> QED
    BY <1>2, <1>17, <2>1, PhaseUntouched, FillingUntouched DEF IInv
<1>24. Placed'
  BY <1>1, <1>2, <1>4, <1>11, <1>16, <1>21, <1>23, StillPlaced DEF IInv
<1>25. Delivered'
  <2> SUFFICES ASSUME NEW t \in Sockets
               PROVE  /\ held[t] # Nothing => Whole(held[t])'
                      /\ \A k \in 1 .. Len(mailbox[t]) : Whole(mailbox[t][k])'
    BY <1>1 DEF Delivered, Whole
  <2>1. held[t] \in Frames \cup {Nothing} /\ mailbox[t] \in Seq(Frames)
    BY <1>2 DEF Shape
  <2>2. held[t] # f
    BY <1>2, <1>21, <1>22 DEF OnePlace
  <2>3. ASSUME NEW k \in 1 .. Len(mailbox[t]) PROVE mailbox[t][k] \in Frames \ {f}
    <3>1. k \in Nat /\ mailbox[t][k] \in Frames
      BY <2>1, LenProperties
    <3>2. ~InMail(t, k, f)
      BY <1>2, <1>21, <1>22, <3>1 DEF OnePlace
    <3> QED
      BY <3>1, <3>2 DEF InMail
  <2>4. \A g \in Frames \ {f} : Whole(g) => Whole(g)'
    BY <1>11 DEF Whole
  <2> QED
    BY <1>1, <2>1, <2>2, <2>3, <2>4 DEF IInv, Delivered
<1> QED
  BY <1>18, <1>20, <1>23, <1>24, <1>25 DEF IInv

-----------------------------------------------------------------------------
(* Arrays that move. *)

LEMMA MailAppend ==
  ASSUME Shape, NEW d \in Sockets, NEW f \in Frames,
         mailbox' = [mailbox EXCEPT ![d] = Append(mailbox[d], f)]
  PROVE  /\ mailbox' \in [Sockets -> Seq(Frames)]
         /\ \A t \in Sockets : \A n \in Nat : \A g :
              InMail(t, n, g)' <=>
                InMail(t, n, g) \/ (t = d /\ n = Len(mailbox[d]) + 1 /\ g = f)
<1>1. mailbox[d] \in Seq(Frames) /\ Len(mailbox[d]) \in Nat
  BY LenProperties DEF Shape
<1>2. /\ Append(mailbox[d], f) \in Seq(Frames)
      /\ Len(Append(mailbox[d], f)) = Len(mailbox[d]) + 1
      /\ \A i \in 1 .. Len(mailbox[d]) : Append(mailbox[d], f)[i] = mailbox[d][i]
      /\ Append(mailbox[d], f)[Len(mailbox[d]) + 1] = f
  BY <1>1, AppendProperties
<1>3. mailbox' \in [Sockets -> Seq(Frames)]
  BY <1>2 DEF Shape
<1>4. ASSUME NEW n \in Nat, NEW g
      PROVE  InMail(d, n, g)' <=> InMail(d, n, g) \/ (n = Len(mailbox[d]) + 1 /\ g = f)
  <2>1. mailbox'[d] = Append(mailbox[d], f)
    BY DEF Shape
  <2>2. n \in 1 .. Len(mailbox'[d]) <=> n \in 1 .. Len(mailbox[d]) \/ n = Len(mailbox[d]) + 1
    BY <1>1, <1>2, <2>1
  <2>3. Len(mailbox[d]) + 1 \notin 1 .. Len(mailbox[d])
    BY <1>1
  <2> QED
    BY <1>2, <2>1, <2>2, <2>3 DEF InMail
<1>5. \A t \in Sockets : t # d => mailbox'[t] = mailbox[t]
  BY DEF Shape
<1> QED
  BY <1>3, <1>4, <1>5 DEF InMail

(* An array that was nowhere, or with a sender, comes to a mailbox. *)
LEMMA PlaceMailed ==
  ASSUME Shape, Placed, NEW d \in Sockets, NEW f \in Frames,
         mailbox' = [mailbox EXCEPT ![d] = Append(mailbox[d], f)],
         held' = held, array'[f] # Nothing,
         \A g \in Frames \ {f} : array'[g] = array[g],
         \A t \in Sockets : /\ Filling(t)' = Filling(t) \ {f}
                            /\ held[t] # f
                            /\ \A n \in Nat : ~InMail(t, n, f)
  PROVE  Placed'
<1>1. Len(mailbox[d]) \in Nat
  BY LenProperties DEF Shape
<1>2. \A t \in Sockets : \A n \in Nat : \A g :
        InMail(t, n, g)' <=> InMail(t, n, g) \/ (t = d /\ n = Len(mailbox[d]) + 1 /\ g = f)
  BY MailAppend
<1>3. ASSUME NEW g \in Frames PROVE OnePlace(g)' /\ (array'[g] # Nothing <=> SomePlace(g)')
  <2>1. CASE g = f
    <3>1. \A t \in Sockets : \A n \in Nat : InMail(t, n, f)' <=> t = d /\ n = Len(mailbox[d]) + 1
      BY <1>2
    <3>2. \A t \in Sockets : f \notin Filling(t)' /\ held'[t] # f
      OBVIOUS
    <3>3. OnePlace(f)'
      BY <3>1, <3>2 DEF OnePlace
    <3>4. SomePlace(f)'
      <4>1. Len(mailbox[d]) + 1 \in Nat
        BY <1>1
      <4> QED
        BY <3>1, <4>1 DEF SomePlace
    <3> QED
      BY <2>1, <3>3, <3>4
  <2>2. CASE g # f
    <3>1. \A t \in Sockets : \A n \in Nat : InMail(t, n, g)' <=> InMail(t, n, g)
      BY <1>2, <2>2
    <3>2. \A t \in Sockets : g \in Filling(t)' <=> g \in Filling(t)
      BY <2>2
    <3>3. OnePlace(g) /\ (array[g] # Nothing <=> SomePlace(g))
      BY DEF Placed
    <3>4. OnePlace(g)'
      BY <3>1, <3>2, <3>3 DEF OnePlace
    <3>5. SomePlace(g)' <=> SomePlace(g)
      BY <3>1, <3>2 DEF SomePlace
    <3> QED
      BY <2>2, <3>3, <3>4, <3>5
  <2> QED
    BY <2>1, <2>2
<1> QED
  BY <1>3 DEF Placed

LEMMA DeliveredMailed ==
  ASSUME Shape, Delivered, NEW d \in Sockets, NEW f \in Frames,
         mailbox' = [mailbox EXCEPT ![d] = Append(mailbox[d], f)],
         held' = held, Whole(f)',
         \A g \in Frames \ {f} : array'[g] = array[g],
         \A t \in Sockets : held[t] # f
  PROVE  Delivered'
<1>1. \A g \in Frames : Whole(g) => Whole(g)'
  BY DEF Whole
<1>2. mailbox' \in [Sockets -> Seq(Frames)] /\ \A t \in Sockets : \A n \in Nat : \A g :
        InMail(t, n, g)' <=> InMail(t, n, g) \/ (t = d /\ n = Len(mailbox[d]) + 1 /\ g = f)
  BY MailAppend
<1> SUFFICES ASSUME NEW t \in Sockets
             PROVE  /\ held[t] # Nothing => Whole(held[t])'
                    /\ \A n \in 1 .. Len(mailbox'[t]) : Whole(mailbox[t][n])'
  BY DEF Delivered, Whole
<1>3. held[t] # Nothing => Whole(held[t])'
  BY ZenonT(40), <1>1 DEF Delivered, Shape, Whole
<1>4. ASSUME NEW n \in 1 .. Len(mailbox'[t]) PROVE Whole(mailbox[t][n])'
  <2> PICK g : g = mailbox'[t][n]
    OBVIOUS
  <2>1. mailbox'[t] \in Seq(Frames) /\ n \in Nat /\ g \in Frames
    BY <1>2, LenProperties
  <2>2. InMail(t, n, g)'
    BY DEF InMail
  <2>3. InMail(t, n, g) \/ g = f
    BY <1>2, <2>1, <2>2
  <2>4. CASE InMail(t, n, g)
    <3>1. n \in 1 .. Len(mailbox[t]) /\ mailbox[t][n] = g
      BY <2>4 DEF InMail
    <3>2. Whole(mailbox[t][n]) /\ mailbox[t][n] \in Frames
      BY <2>1, <3>1 DEF Delivered
    <3> QED
      BY <1>1, <3>1, <3>2 DEF Whole
  <2>5. CASE g = f
    BY <2>5 DEF Whole
  <2> QED
    BY <2>3, <2>4, <2>5
<1> QED
  BY <1>3, <1>4

(* Only the send of s, and array f, which no other send is filling, change. *)
LEMMA OtherPhases ==
  ASSUME IInv, NEW s \in Sockets, NEW f \in Frames,
         \A t \in Sockets \ {s} : Untouched(t) /\ f \notin Filling(t),
         \A g \in Frames \ {f} : array'[g] = array[g]
  PROVE  \A t \in Sockets \ {s} : Phase(t)' /\ Filling(t)' = Filling(t)
<1> SUFFICES ASSUME NEW t \in Sockets \ {s} PROVE Phase(t)' /\ Filling(t)' = Filling(t)
  OBVIOUS
<1>1. \A g \in Filling(t) : array'[g] = array[g]
  BY DEF Filling
<1> QED
  BY <1>1, PhaseUntouched, FillingUntouched DEF IInv

LEMMA StepOnTermination ==
  ASSUME IInv, NEW am \in net, OnTermination(am)
  PROVE  IInv'
<1> USE FloodAssumption
<1> DEFINE s == am.sock
           f == am.frames
           d == am.to
           x == SetReply(s, am.no, 1)
<1>1. /\ am.kind = "termination"
      /\ mailbox' = [mailbox EXCEPT ![d] = Append(mailbox[d], f)]
      /\ net' = (net \ {am}) \cup {x}
      /\ UNCHANGED <<pc, letter, dest, frames_ptr, cursor, msg_counter, atomic64, array, held, got>>
  BY DEF OnTermination, sender, receiver
<1>2. /\ s \in Sockets /\ am \in InFlight(s) /\ Shape /\ Phase(s)
      /\ pc[s] = "term" /\ atomic64[s] = 0 /\ InFlight(s) = {am}
      /\ am = TerminationReq(s, letter[s].no, dest[s], frames_ptr[s])
      /\ frames_ptr[s] \in Frames /\ Whole(frames_ptr[s])
  BY <1>1, KindPhase
<1>3. f = frames_ptr[s] /\ d = dest[s] /\ am.no = letter[s].no /\ f \in Frames
  BY <1>2 DEF TerminationReq
<1>4. d \in Sockets
  BY <1>2, <1>3 DEF Phase, Reach, Sockets
<1>5. x = SetReply(s, letter[s].no, 1) /\ x.sock = s /\ x.kind = "set" /\ x.val = 1
  BY <1>3 DEF SetReply
<1>6. InFlight(s)' = {x} /\ \A t \in Sockets \ {s} : InFlight(t)' = InFlight(t)
  <2>1. am.sock = s
    OBVIOUS
  <2> HIDE DEF s, x
  <2>2. InFlight(s)' = (InFlight(s) \ {am}) \cup {x}
    BY <1>1, <1>2, <1>5, <2>1, NetSwap
  <2> QED
    BY <1>1, <1>2, <1>5, <2>1, <2>2, NetSwap
<1>7. f \in Filling(s)
  <2>1. am.kind = "termination" /\ am.frames = f
    BY <1>1
  <2> QED
    BY <1>2, <1>3, <2>1 DEF Filling
<1> HIDE DEF s, f, d, x
<1>8. \A g \in Filling(s) : g = f
  BY <1>2, <1>3, FillingPhase
<1>9. Filling(s)' = {}
  <2> SUFFICES ASSUME NEW g \in Frames, g \in Filling(s)' PROVE FALSE
    BY DEF Filling
  <2>1. atomic64'[s] # g /\ pc'[s] # "chunks"
    BY <1>1, <1>2
  <2>2. \A y \in InFlight(s)' : y.kind = "set" /\ y.val = 1
    BY <1>5, <1>6
  <2> QED
    BY <2>1, <2>2 DEF Filling
<1>10. OnePlace(f)
  BY <1>3 DEF IInv, Placed
<1>11. \A t \in Sockets : /\ t # s => f \notin Filling(t)
                          /\ held[t] # f
                          /\ \A n \in Nat : ~InMail(t, n, f)
  BY <1>2, <1>7, <1>10 DEF OnePlace
<1>12. \A t \in Sockets \ {s} : Untouched(t)
  BY <1>1, <1>2, <1>6 DEF Shape, Untouched
<1>13. \A t \in Sockets \ {s} : Phase(t)' /\ Filling(t)' = Filling(t)
  BY <1>1, <1>2, <1>3, <1>11, <1>12, OtherPhases
<1>14. Shape'
  <2>1. mailbox' \in [Sockets -> Seq(Frames)]
    BY <1>1, <1>2, <1>3, <1>4, MailAppend
  <2>2. \A y \in net' : y.kind \in Kinds /\ y.sock \in Sockets
    BY <1>1, <1>2, <1>5 DEF Shape, Kinds
  <2> QED
    BY <1>1, <1>2, <2>1, <2>2 DEF Shape
<1>15. Phase(s)'
  <2>1. TermPhase(s)'
    BY <1>1, <1>2, <1>5, <1>6 DEF TermPhase
  <2> QED
    BY <1>1, <1>2, <2>1 DEF Phase, Reach
<1>16. Placed'
  <2>1. array'[f] # Nothing
    BY <1>1, <1>2, <1>3 DEF Whole
  <2>2. \A t \in Sockets : Filling(t)' = Filling(t) \ {f}
    BY <1>8, <1>9, <1>11, <1>13
  <2> QED
    BY <1>1, <1>2, <1>3, <1>4, <1>11, <2>1, <2>2, PlaceMailed DEF IInv
<1>17. Delivered'
  <2>1. Whole(f)'
    BY <1>1, <1>2, <1>3 DEF Whole, f
  <2> QED
    BY <1>1, <1>2, <1>3, <1>4, <1>11, <2>1, DeliveredMailed DEF IInv
<1> QED
  BY <1>13, <1>14, <1>15, <1>16, <1>17 DEF IInv

LEMMA NewArray ==
  ASSUME NEW m \in Messages
  PROVE  LET a == [picture |-> m, payload |-> Blank(m.sizes)] IN
         /\ IsArray(a) /\ a # Nothing
         /\ m.sizes = <<>> => Blank(m.sizes) = Payload(m)
<1> DEFINE a == [picture |-> m, payload |-> Blank(m.sizes)]
<1>1. m.sizes \in Seq(Nat) /\ Len(m.sizes) \in Nat
  BY FloodAssumption, EmptySeq, LenProperties DEF Messages
<1>2. Fits(Blank(m.sizes), m.sizes)
  BY <1>1 DEF Fits, Blank
<1>3. IsArray(a)
  BY <1>2 DEF IsArray
<1>4. a # Nothing
  BY <1>3, ArrayIsTyped
<1>5. m.sizes = <<>> => Blank(m.sizes) = Payload(m)
  <2> SUFFICES ASSUME m.sizes = <<>> PROVE Blank(m.sizes) = Payload(m)
    OBVIOUS
  <2>1. 1 .. Len(m.sizes) = {}
    OBVIOUS
  <2> QED
    BY <2>1 DEF Blank, Payload
<1> QED
  BY <1>3, <1>4, <1>5

LEMMA StepOnPicture ==
  ASSUME IInv, NEW am \in net, OnPicture(am)
  PROVE  IInv'
<1> USE FloodAssumption
<1> DEFINE s == am.sock
           m == am.picture
           d == am.to
           a == [picture |-> m, payload |-> Blank(m.sizes)]
<1>1. PICK f \in Frames :
        /\ array[f] = Nothing
        /\ array' = [array EXCEPT ![f] = a]
        /\ \/ /\ m.sizes = <<>>
              /\ mailbox' = [mailbox EXCEPT ![d] = Append(mailbox[d], f)]
              /\ net' = (net \ {am}) \cup {SetReply(s, m.no, 1)}
           \/ /\ m.sizes # <<>>
              /\ net' = (net \ {am}) \cup {SetReply(s, m.no, f)}
              /\ UNCHANGED mailbox
  BY DEF OnPicture
<1>2. /\ am.kind = "picture"
      /\ UNCHANGED <<pc, letter, dest, frames_ptr, cursor, msg_counter, atomic64, held, got>>
  BY DEF OnPicture, sender, receiver
<1>3. /\ s \in Sockets /\ am \in InFlight(s) /\ Shape /\ Phase(s)
      /\ pc[s] = "picture" /\ atomic64[s] = 0 /\ InFlight(s) = {am}
      /\ am = PictureReq(s, letter[s], dest[s])
  BY <1>2, KindPhase
<1>4. m = letter[s] /\ d = dest[s]
  BY <1>3 DEF PictureReq
<1>5. d \in Sockets /\ m \in Messages
  BY <1>3, <1>4 DEF Phase, Reach, Sockets, Shape
<1>6. IsArray(a) /\ a # Nothing /\ a.picture = m /\ a.payload = Blank(m.sizes)
      /\ (m.sizes = <<>> => a.payload = Payload(m))
  BY <1>5, NewArray
<1>7. am.sock = s
  OBVIOUS
<1> HIDE DEF s, m, d, a
<1>8. /\ array'[f] = a
      /\ \A g \in Frames \ {f} : array'[g] = array[g]
      /\ array' = [g \in Frames |-> array'[g]]
  BY <1>1, <1>3 DEF Shape
<1>9. \A t \in Sockets : /\ f \notin Filling(t) /\ held[t] # f
                         /\ \A n \in Nat : ~InMail(t, n, f)
  BY <1>1 DEF IInv, Placed, SomePlace
<1>10. Filling(s) = {}
  <2>1. \A y \in InFlight(s) : y.kind = "picture"
    BY <1>2, <1>3
  <2> QED
    BY <1>3, <2>1 DEF Filling
<1>11. \A g \in Frames : array'[g] # Nothing => IsArray(array'[g])
  BY <1>3, <1>6, <1>8 DEF Shape
<1>12. ASSUME NEW v, net' = (net \ {am}) \cup {SetReply(s, m.no, v)}
       PROVE  /\ InFlight(s)' = {SetReply(s, m.no, v)}
              /\ \A t \in Sockets \ {s} : InFlight(t)' = InFlight(t)
              /\ \A t \in Sockets \ {s} : Untouched(t)
              /\ \A y \in net' : y.kind \in Kinds /\ y.sock \in Sockets
  <2>1. SetReply(s, m.no, v).sock = s /\ SetReply(s, m.no, v).kind = "set"
    BY DEF SetReply
  <2>2. /\ InFlight(s)' = (InFlight(s) \ {am}) \cup {SetReply(s, m.no, v)}
        /\ \A t \in Sockets \ {s} : InFlight(t)' = InFlight(t)
    BY <1>3, <1>7, <1>12, <2>1, NetSwap
  <2>3. \A t \in Sockets \ {s} : Untouched(t)
    BY <1>2, <2>2 DEF Untouched
  <2>4. \A y \in net' : y.kind \in Kinds /\ y.sock \in Sockets
    BY <1>3, <1>12, <2>1 DEF Shape, Kinds
  <2> QED
    BY <1>3, <2>2, <2>3, <2>4
<1>13. CASE /\ m.sizes = <<>>
            /\ mailbox' = [mailbox EXCEPT ![d] = Append(mailbox[d], f)]
            /\ net' = (net \ {am}) \cup {SetReply(s, m.no, 1)}
  <2>1. /\ InFlight(s)' = {SetReply(s, m.no, 1)}
        /\ \A t \in Sockets \ {s} : Untouched(t)
        /\ \A y \in net' : y.kind \in Kinds /\ y.sock \in Sockets
    BY <1>12, <1>13
  <2>2. \A t \in Sockets \ {s} : Phase(t)' /\ Filling(t)' = Filling(t)
    BY <1>3, <1>8, <1>9, <2>1, OtherPhases
  <2>3. Shape'
    <3>1. mailbox' \in [Sockets -> Seq(Frames)]
      BY <1>3, <1>5, <1>13, MailAppend
    <3> QED
      BY <1>2, <1>3, <1>8, <1>11, <2>1, <3>1 DEF Shape
  <2>4. Phase(s)'
    <3>1. PictureWord(s, 1)'
      BY <1>2, <1>4, <1>13 DEF PictureWord
    <3>2. InFlight(s)' = {SetReply(s, letter'[s].no, 1)} /\ atomic64'[s] = 0
      BY <1>2, <1>3, <1>4, <2>1
    <3>3. PicturePhase(s)'
      BY <3>1, <3>2 DEF PicturePhase
    <3> QED
      BY <1>2, <1>3, <3>3 DEF Phase, Reach
  <2>5. Filling(s)' = {}
    <3>1. \A y \in InFlight(s)' : y.kind = "set" /\ y.val = 1
      BY <2>1 DEF SetReply
    <3> QED
      BY <1>2, <1>3, <3>1 DEF Filling
  <2>6. Placed'
    <3>1. \A t \in Sockets : Filling(t)' = Filling(t) \ {f}
      BY <1>9, <1>10, <2>2, <2>5
    <3> QED
      BY <1>2, <1>3, <1>5, <1>6, <1>8, <1>9, <1>13, <3>1, PlaceMailed DEF IInv
  <2>7. Delivered'
    <3>1. Whole(f)'
      BY <1>6, <1>8, <1>13 DEF Whole
    <3> QED
      BY <1>2, <1>3, <1>5, <1>8, <1>9, <1>13, <3>1, DeliveredMailed DEF IInv
  <2> QED
    BY <2>2, <2>3, <2>4, <2>6, <2>7 DEF IInv
<1>14. CASE /\ m.sizes # <<>>
            /\ net' = (net \ {am}) \cup {SetReply(s, m.no, f)}
            /\ UNCHANGED mailbox
  <2>1. /\ InFlight(s)' = {SetReply(s, m.no, f)}
        /\ \A t \in Sockets \ {s} : Untouched(t)
        /\ \A y \in net' : y.kind \in Kinds /\ y.sock \in Sockets
    BY <1>12, <1>14
  <2>2. \A t \in Sockets \ {s} : Phase(t)' /\ Filling(t)' = Filling(t)
    BY <1>3, <1>8, <1>9, <2>1, OtherPhases
  <2>3. Shape'
    BY <1>2, <1>3, <1>8, <1>11, <1>14, <2>1 DEF Shape
  <2>4. Phase(s)'
    <3>1. PictureWord(s, f)'
      BY <1>2, <1>4, <1>6, <1>8, <1>14 DEF PictureWord
    <3>2. InFlight(s)' = {SetReply(s, letter'[s].no, f)} /\ atomic64'[s] = 0
      BY <1>2, <1>3, <1>4, <2>1
    <3>3. PicturePhase(s)'
      BY <3>1, <3>2 DEF PicturePhase
    <3> QED
      BY <1>2, <1>3, <3>3 DEF Phase, Reach
  <2>5. Filling(s)' = {f}
    <3>1. \A y \in InFlight(s)' : y.kind = "set" /\ y.val = f
      BY <2>1 DEF SetReply
    <3>2. SetReply(s, m.no, f) \in InFlight(s)'
      BY <2>1
    <3> QED
      BY <1>2, <1>3, <3>1, <3>2 DEF Filling
  <2>6. Placed'
    <3> SUFFICES ASSUME NEW g \in Frames
                 PROVE  OnePlace(g)' /\ (array'[g] # Nothing <=> SomePlace(g)')
      BY DEF Placed
    <3>1. \A t \in Sockets : \A n \in Nat : InMail(t, n, g)' <=> InMail(t, n, g)
      BY <1>14 DEF InMail
    <3>2. CASE g = f
      <4>1. \A t \in Sockets : /\ f \in Filling(t)' <=> t = s
                               /\ held'[t] # f
                               /\ \A n \in Nat : ~InMail(t, n, f)'
        BY <1>2, <1>9, <2>2, <2>5, <3>1, <3>2
      <4>2. OnePlace(f)' /\ SomePlace(f)'
        BY <1>3, <4>1 DEF OnePlace, SomePlace
      <4> QED
        BY <1>6, <1>8, <3>2, <4>2
    <3>3. CASE g # f
      <4>1. \A t \in Sockets : g \in Filling(t)' <=> g \in Filling(t)
        BY <1>10, <2>2, <2>5, <3>3
      <4>2. OnePlace(g) /\ (array[g] # Nothing <=> SomePlace(g))
        BY DEF IInv, Placed
      <4>3. OnePlace(g)'
        BY <1>2, <3>1, <4>1, <4>2 DEF OnePlace
      <4>4. SomePlace(g)' <=> SomePlace(g)
        BY <1>2, <3>1, <4>1 DEF SomePlace
      <4> QED
        BY <1>8, <3>3, <4>2, <4>3, <4>4
    <3> QED
      BY <3>2, <3>3
  <2>7. Delivered'
    <3>1. \A g \in Frames : Whole(g) => Whole(g)'
      BY <1>1, <1>8 DEF Whole
    <3>2. \A t \in Sockets : \A n \in 1 .. Len(mailbox[t]) : mailbox[t][n] \in Frames
      BY <1>3, LenProperties DEF Shape
    <3>3. \A t \in Sockets : held[t] \in Frames \cup {Nothing}
      BY <1>3 DEF Shape
    <3>4. Delivered
      BY DEF IInv
    <3>5. \A t \in Sockets : \A g \in Frames : held'[t] = g => Whole(g)'
      BY <1>2, <3>1, <3>4 DEF Delivered
    <3>6. \A t \in Sockets : \A n \in 1 .. Len(mailbox[t]) : \A g \in Frames :
            mailbox[t][n] = g => Whole(g)'
      BY <3>1, <3>4 DEF Delivered
    <3> QED
      BY <1>2, <1>14, <3>2, <3>3, <3>5, <3>6 DEF Delivered, Whole
  <2> QED
    BY <2>2, <2>3, <2>4, <2>6, <2>7 DEF IInv
<1> QED
  BY <1>1, <1>13, <1>14

LEMMA StepRecvPop ==
  ASSUME IInv, NEW s \in Sockets, RecvPop(s)
  PROVE  IInv'
<1> USE FloodAssumption
<1> DEFINE q == mailbox[s]
<1>1. /\ held[s] = Nothing /\ q # <<>>
      /\ held' = [held EXCEPT ![s] = Head(q)]
      /\ mailbox' = [mailbox EXCEPT ![s] = Tail(q)]
      /\ UNCHANGED <<pc, letter, dest, frames_ptr, cursor, msg_counter, atomic64, net, array, got>>
  BY DEF RecvPop, sender
<1>2. Shape /\ Placed /\ Delivered
  BY DEF IInv
<1>3. q \in Seq(Frames) /\ Len(q) \in Nat \ {0}
  BY <1>1, <1>2, EmptySeq, LenProperties DEF Shape
<1>4. PICK f : f = Head(q)
  OBVIOUS
<1>5. /\ f \in Frames /\ f = q[1] /\ Tail(q) \in Seq(Frames)
      /\ Len(Tail(q)) = Len(q) - 1
      /\ \A n \in 1 .. Len(Tail(q)) : Tail(q)[n] = q[n + 1]
  BY <1>1, <1>3, <1>4, HeadTailProperties
<1>6. InMail(s, 1, f)
  BY <1>3, <1>5 DEF InMail
<1>7. \A n \in Nat : \A g : InMail(s, n, g)' <=> n # 0 /\ InMail(s, n + 1, g)
  <2> SUFFICES ASSUME NEW n \in Nat, NEW g PROVE InMail(s, n, g)' <=> n # 0 /\ InMail(s, n + 1, g)
    OBVIOUS
  <2>1. mailbox'[s] = Tail(q)
    BY <1>1, <1>2 DEF Shape
  <2>2. n \in 1 .. Len(Tail(q)) <=> n # 0 /\ n + 1 \in 1 .. Len(q)
    BY <1>3, <1>5
  <2> QED
    BY <1>5, <2>1, <2>2 DEF InMail
<1>8. \A t \in Sockets \ {s} : \A n \in Nat : \A g : InMail(t, n, g)' <=> InMail(t, n, g)
  BY <1>1, <1>2 DEF InMail, Shape
<1>9. held'[s] = f /\ \A t \in Sockets \ {s} : held'[t] = held[t]
  BY <1>1, <1>2, <1>4 DEF Shape
<1> HIDE DEF q
<1>10. \A t \in Sockets : Untouched(t)
  BY <1>1 DEF Untouched, InFlight
<1>11. \A t \in Sockets : Phase(t)' /\ Filling(t)' = Filling(t)
  BY <1>1, <1>10, PhaseUntouched, FillingUntouched DEF IInv
<1>12. Shape'
  BY <1>1, <1>2, <1>4, <1>5 DEF Shape
<1>13. Placed'
  <2> SUFFICES ASSUME NEW g \in Frames
               PROVE  OnePlace(g)' /\ (array'[g] # Nothing <=> SomePlace(g)')
    BY DEF Placed
  <2>1. OnePlace(g) /\ (array[g] # Nothing <=> SomePlace(g))
    BY <1>2 DEF Placed
  <2>2. CASE g = f
    <3>1. \A t \in Sockets : g \notin Filling(t)' /\ held[t] # g
      BY <1>6, <1>11, <2>1, <2>2 DEF OnePlace
    <3>2. \A t \in Sockets : held'[t] = g <=> t = s
      BY <1>9, <2>2, <3>1
    <3>3. ASSUME NEW t \in Sockets, NEW n \in Nat, InMail(t, n, g)' PROVE FALSE
      <4>1. CASE t = s
        <5>1. InMail(s, n + 1, f) /\ n # 0 /\ n + 1 \in Nat
          BY <1>7, <2>2, <3>3, <4>1
        <5>2. n + 1 = 1
          BY <1>6, <2>1, <2>2, <5>1 DEF OnePlace
        <5> QED
          BY <5>1, <5>2
      <4>2. CASE t # s
        <5>1. InMail(t, n, f)
          BY <1>8, <2>2, <3>3, <4>2
        <5> QED
          BY <1>6, <2>1, <2>2, <4>2, <5>1 DEF OnePlace
      <4> QED
        BY <4>1, <4>2
    <3>4. OnePlace(g)'
      BY <3>1, <3>2, <3>3 DEF OnePlace
    <3>5. SomePlace(g)' /\ SomePlace(g)
      BY <1>6, <2>2, <3>2 DEF SomePlace
    <3> QED
      BY <1>1, <2>1, <3>4, <3>5
  <2>3. CASE g # f
    <3>1. \A t \in Sockets : (held'[t] = g <=> held[t] = g)
      BY <1>1, <1>9, <2>3, FloodAssumption
    <3>2. ASSUME NEW t \in Sockets, NEW m \in Nat, InMail(t, m, g)'
          PROVE  \E k \in Nat : InMail(t, k, g) /\ m = IF t = s THEN k - 1 ELSE k
      <4>1. CASE t = s
        <5>1. InMail(s, m + 1, g) /\ m + 1 \in Nat /\ m = (m + 1) - 1
          BY <1>7, <3>2, <4>1
        <5> QED
          BY <4>1, <5>1
      <4>2. CASE t # s
        BY <1>8, <3>2, <4>2
      <4> QED
        BY <4>1, <4>2
    <3>3. OnePlace(g)'
      <4>1. \A t, u \in Sockets : g \in Filling(t)' /\ g \in Filling(u)' => t = u
        BY <1>11, <2>1 DEF OnePlace
      <4>2. ASSUME NEW t \in Sockets, NEW u \in Sockets, NEW m \in Nat, NEW n \in Nat,
                   InMail(t, m, g)', InMail(u, n, g)'
            PROVE  t = u /\ m = n
        <5>1. PICK k \in Nat : InMail(t, k, g) /\ m = IF t = s THEN k - 1 ELSE k
          BY <3>2, <4>2
        <5>2. PICK l \in Nat : InMail(u, l, g) /\ n = IF u = s THEN l - 1 ELSE l
          BY <3>2, <4>2
        <5>3. t = u /\ k = l
          BY <2>1, <5>1, <5>2 DEF OnePlace
        <5> QED
          BY <5>1, <5>2, <5>3
      <4>3. \A t, u \in Sockets : held'[t] = g /\ held'[u] = g => t = u
        BY <2>1, <3>1 DEF OnePlace
      <4>4. \A t, u \in Sockets : ~(g \in Filling(t)' /\ held'[u] = g)
        BY <1>11, <2>1, <3>1 DEF OnePlace
      <4>5. ASSUME NEW t \in Sockets, NEW u \in Sockets, NEW n \in Nat, InMail(u, n, g)'
            PROVE  g \notin Filling(t)' /\ held'[t] # g
        <5>1. PICK k \in Nat : InMail(u, k, g)
          BY <3>2, <4>5
        <5>2. g \notin Filling(t) /\ held[t] # g
          BY <2>1, <5>1 DEF OnePlace
        <5> QED
          BY <1>11, <3>1, <5>2
      <4> QED
        BY <4>1, <4>2, <4>3, <4>4, <4>5 DEF OnePlace
    <3>4. SomePlace(g)' <=> SomePlace(g)
      <4>1. ASSUME NEW t \in Sockets, NEW n \in Nat, InMail(t, n, g)
            PROVE  \E k \in Nat : InMail(t, k, g)'
        <5>1. CASE t = s
          <6>1. n # 1 /\ n # 0
            BY <1>5, <2>3, <4>1, <5>1 DEF InMail, q
          <6>2. n - 1 \in Nat /\ n - 1 # 0 /\ (n - 1) + 1 = n
            BY <6>1
          <6> QED
            BY <1>7, <4>1, <5>1, <6>2
        <5>2. CASE t # s
          BY <1>8, <4>1, <5>2
        <5> QED
          BY <5>1, <5>2
      <4>2. ASSUME NEW t \in Sockets, NEW n \in Nat, InMail(t, n, g)'
            PROVE  \E k \in Nat : InMail(t, k, g)
        BY <3>2, <4>2
      <4>3. SomePlace(g)' <=> \E t \in Sockets :
                g \in Filling(t)' \/ held'[t] = g \/ \E n \in Nat : InMail(t, n, g)'
        BY DEF SomePlace
      <4> QED
        BY <1>11, <3>1, <4>1, <4>2, <4>3 DEF SomePlace
    <3> QED
      BY <1>1, <2>1, <3>3, <3>4
  <2> QED
    BY <2>2, <2>3
<1>14. Delivered'
  <2>1. \A g : Whole(g)' <=> Whole(g)
    BY <1>1 DEF Whole
  <2>2. \A t \in Sockets : \A n \in Nat : \A g : InMail(t, n, g) => Whole(g)
    BY <1>2 DEF Delivered, InMail
  <2>3. \A t \in Sockets : \A n \in Nat : \A g : InMail(t, n, g)' => Whole(g)'
    <3> SUFFICES ASSUME NEW t \in Sockets, NEW n \in Nat, NEW g, InMail(t, n, g)' PROVE Whole(g)'
      OBVIOUS
    <3>1. CASE t = s
      BY <1>7, <2>1, <2>2, <3>1
    <3>2. CASE t # s
      BY <1>8, <2>1, <2>2, <3>2
    <3> QED
      BY <3>1, <3>2
  <2>4. \A t \in Sockets : \A n \in 1 .. Len(mailbox'[t]) : n \in Nat
    BY <1>12, LenProperties DEF Shape
  <2>5. \A t \in Sockets : \A n \in 1 .. Len(mailbox'[t]) : \A g : g = mailbox'[t][n] => Whole(g)'
    BY <2>3, <2>4 DEF InMail
  <2>6. \A t \in Sockets : \A g : held'[t] = g /\ g # Nothing => Whole(g)'
    BY <1>2, <1>6, <1>9, <2>1, <2>2 DEF Delivered
  <2> QED
    BY <2>5, <2>6 DEF Delivered, Whole
<1> QED
  BY <1>11, <1>12, <1>13, <1>14 DEF IInv

LEMMA StepDeserialize ==
  ASSUME IInv, NEW s \in Sockets, Deserialize(s)
  PROVE  IInv'
<1> USE FloodAssumption
<1>1. PICK f : f = held[s]
  OBVIOUS
<1>2. /\ f # Nothing
      /\ got' = [got EXCEPT ![s] = Read(f)]
      /\ array' = [array EXCEPT ![f] = Nothing]
      /\ held' = [held EXCEPT ![s] = Nothing]
      /\ UNCHANGED <<pc, letter, dest, frames_ptr, cursor, msg_counter, atomic64, net, mailbox>>
  BY <1>1 DEF Deserialize, sender
<1>3. Shape /\ Placed /\ Delivered
  BY DEF IInv
<1>4. f \in Frames /\ Whole(f)
  BY <1>1, <1>2, <1>3 DEF Shape, Delivered
<1>5. /\ array'[f] = Nothing
      /\ \A g \in Frames \ {f} : array'[g] = array[g]
      /\ array' = [g \in Frames |-> array'[g]]
  BY <1>2, <1>3, <1>4 DEF Shape
<1>6. held'[s] = Nothing /\ \A t \in Sockets \ {s} : held'[t] = held[t]
  BY <1>2, <1>3 DEF Shape
<1>7. \A t \in Sockets : /\ f \notin Filling(t)
                         /\ t # s => held[t] # f
                         /\ \A n \in Nat : ~InMail(t, n, f)
  BY <1>1, <1>3, <1>4 DEF Placed, OnePlace
<1>8. \A t \in Sockets : Untouched(t)
  BY <1>2 DEF Untouched, InFlight
<1>9. \A t \in Sockets : Phase(t)' /\ Filling(t)' = Filling(t)
  <2> SUFFICES ASSUME NEW t \in Sockets PROVE Phase(t)' /\ Filling(t)' = Filling(t)
    OBVIOUS
  <2>1. \A g \in Filling(t) : array'[g] = array[g]
    BY <1>5, <1>7 DEF Filling
  <2> QED
    BY <1>8, <2>1, PhaseUntouched, FillingUntouched DEF IInv
<1>10. Shape'
  <2>1. Read(f) \in Messages
    BY <1>3, <1>4 DEF Read, Whole, Shape, IsArray
  <2>2. \A g \in Frames : array'[g] # Nothing => IsArray(array'[g])
    BY <1>3, <1>5 DEF Shape
  <2> QED
    BY <1>2, <1>3, <1>5, <2>1, <2>2 DEF Shape
<1>11. Placed'
  <2> SUFFICES ASSUME NEW g \in Frames
               PROVE  OnePlace(g)' /\ (array'[g] # Nothing <=> SomePlace(g)')
    BY DEF Placed
  <2>1. \A t \in Sockets : \A n \in Nat : InMail(t, n, g)' <=> InMail(t, n, g)
    BY <1>2 DEF InMail
  <2>2. \A t \in Sockets : g \in Filling(t)' <=> g \in Filling(t)
    BY <1>9
  <2>3. \A t \in Sockets : held'[t] = g <=> g # f /\ held[t] = g
    BY <1>1, <1>4, <1>6, <1>7
  <2>4. OnePlace(g) /\ (array[g] # Nothing <=> SomePlace(g))
    BY <1>3 DEF Placed
  <2>5. OnePlace(g)'
    BY <2>1, <2>2, <2>3, <2>4 DEF OnePlace
  <2>6. CASE g = f
    BY <1>5, <1>7, <2>1, <2>2, <2>3, <2>5, <2>6 DEF SomePlace
  <2>7. CASE g # f
    <3>1. SomePlace(g)' <=> SomePlace(g)
      BY <2>1, <2>2, <2>3, <2>7 DEF SomePlace
    <3> QED
      BY <1>5, <2>4, <2>5, <2>7, <3>1
  <2> QED
    BY <2>6, <2>7
<1>12. Delivered'
  <2>1. \A g \in Frames \ {f} : Whole(g) => Whole(g)'
    BY <1>5 DEF Whole
  <2>2. ASSUME NEW t \in Sockets, NEW n \in 1 .. Len(mailbox[t]), NEW g, g = mailbox[t][n]
        PROVE  Whole(g)'
    <3>1. g \in Frames /\ n \in Nat
      BY <1>3, <2>2, LenProperties DEF Shape
    <3>2. g # f
      BY <1>7, <2>2, <3>1 DEF InMail
    <3> QED
      BY <1>3, <2>1, <2>2, <3>1, <3>2 DEF Delivered
  <2>3. ASSUME NEW t \in Sockets, NEW g, held'[t] = g, g # Nothing PROVE Whole(g)'
    <3>1. t # s /\ held[t] = g /\ g # f /\ g \in Frames
      BY <1>3, <1>6, <1>7, <2>3 DEF Shape
    <3> QED
      BY <1>3, <2>1, <2>3, <3>1 DEF Delivered
  <2> QED
    BY <1>2, <2>2, <2>3 DEF Delivered, Whole
<1> QED
  BY <1>9, <1>10, <1>11, <1>12 DEF IInv

LEMMA StepStutter ==
  ASSUME IInv, UNCHANGED vars
  PROVE  IInv'
<1>1. UNCHANGED <<pc, letter, dest, frames_ptr, cursor, msg_counter, atomic64, net, mailbox,
                  array, held, got>>
  BY DEF vars, sender, receiver
<1>2. \A t \in Sockets : Untouched(t)
  BY <1>1 DEF Untouched, InFlight
<1>3. \A t \in Sockets : Phase(t)' /\ Filling(t)' = Filling(t)
  BY <1>1, <1>2, PhaseUntouched, FillingUntouched DEF IInv
<1>4. Shape' /\ Delivered'
  BY <1>1 DEF IInv, Shape, Delivered, Whole
<1>5. Placed'
  BY <1>1, <1>3, StillPlaced DEF IInv
<1> QED
  BY <1>3, <1>4, <1>5 DEF IInv

LEMMA StepInv == IInv /\ [Next]_vars => IInv'
<1> SUFFICES ASSUME IInv, [Next]_vars PROVE IInv'
  OBVIOUS
<1>1. ASSUME NEW s \in Sockets, Flood(s) PROVE IInv'
  BY <1>1, StepPictureAnswered, StepSendChunk, StepNextFrame, StepChunksAnswered,
     StepTerminationAnswered DEF Flood
<1>2. ASSUME NEW s \in Sockets, Recv(s) PROVE IInv'
  BY <1>2, StepRecvPop, StepDeserialize DEF Recv
<1>3. ASSUME NEW am \in net, Handle(am) PROVE IInv'
  <2>1. OnReply(am) => am.kind = "set" \/ am.kind = "incr"
    BY DEF OnReply
  <2> QED
    BY <1>3, <2>1, StepOnPicture, StepOnPayload, StepOnTermination, StepSet, StepIncr DEF Handle
<1> QED
  BY <1>1, <1>2, <1>3, StepSend, StepStutter DEF Next

LEMMA StartInv == Init => IInv
<1> SUFFICES ASSUME Init PROVE IInv
  OBVIOUS
<1> USE FloodAssumption DEF Init
<1>1. Shape
  <2>1. \A s \in Sockets : [from |-> s, no |-> 0, sizes |-> <<>>] \in Messages
    BY DEF Messages
  <2> QED
    BY <2>1, EmptySeq DEF Shape, PCs
<1>2. \A s \in Sockets : InFlight(s) = {} /\ Filling(s) = {}
  BY DEF InFlight, Filling
<1>3. \A s \in Sockets : Phase(s)
  BY <1>2 DEF Phase
<1>4. \A s \in Sockets : \A n \in Nat : \A f : ~InMail(s, n, f)
  BY EmptySeq DEF InMail
<1>5. Placed
  BY <1>2, <1>4 DEF Placed, OnePlace, SomePlace
<1>6. Delivered
  BY EmptySeq DEF Delivered
<1> QED
  BY <1>1, <1>3, <1>5, <1>6 DEF IInv

-----------------------------------------------------------------------------

LEMMA FloodInvariant == Spec => []IInv
<1> QED
  BY StartInv, StepInv, PTL DEF Spec

(* Every variable of the transport keeps its type, every allocated array    *)
(* among them.                                                              *)
THEOREM FloodTypes == Spec => []TypeOK
<1>1. IInv => TypeOK
  <2> SUFFICES ASSUME IInv PROVE TypeOK
    OBVIOUS
  <2>1. \A f \in Frames : array[f] # Nothing => array[f] \in FrameArrays
    BY ArrayIsTyped DEF IInv, Shape
  <2> QED
    BY <2>1 DEF IInv, Shape, PCs, Kinds, TypeOK
<1> QED
  BY <1>1, FloodInvariant, PTL

(* Whatever the word of a socket stands for, an address, a count or a flag, *)
(* no answer is lost or left over: what is in flight and what the word      *)
(* holds add up to what the phase of the send has asked for.                *)
THEOREM AnswersAreAccounted == Spec => []AnswersAccounted
<1>1. IInv => AnswersAccounted
  <2> SUFFICES ASSUME IInv, NEW s \in Sockets
               PROVE  /\ pc[s] = "idle" => InFlight(s) = {}
                      /\ pc[s] = "picture" => Cardinality(InFlight(s)) + Answered(s) = 1
                      /\ pc[s] = "chunks" => /\ atomic64[s] \in Nat
                                             /\ Cardinality(InFlight(s)) + atomic64[s] = msg_counter[s]
                      /\ pc[s] = "term" => Cardinality(InFlight(s)) + Answered(s) = 1
    BY DEF AnswersAccounted
  <2>1. Phase(s)
    BY DEF IInv
  <2>2. Cardinality({}) = 0 /\ \A x : Cardinality({x}) = 1
    BY FS_EmptySet, FS_Singleton
  <2>3. ASSUME atomic64[s] = 0, NEW x, InFlight(s) = {x}
        PROVE  Cardinality(InFlight(s)) + Answered(s) = 1
    <3>1. Cardinality({x}) = 1
      BY <2>2
    <3>2. Answered(s) = 0
      BY <2>3 DEF Answered
    <3> QED
      BY <2>3, <3>1, <3>2
  <2>4. ASSUME InFlight(s) = {}, atomic64[s] # 0
        PROVE  Cardinality(InFlight(s)) + Answered(s) = 1
    <3>1. Answered(s) = 1
      BY <2>4 DEF Answered
    <3> QED
      BY <2>2, <2>4, <3>1
  <2>5. pc[s] = "picture" => Cardinality(InFlight(s)) + Answered(s) = 1
    <3> SUFFICES ASSUME pc[s] = "picture"
                 PROVE  Cardinality(InFlight(s)) + Answered(s) = 1
      OBVIOUS
    <3>1. PicturePhase(s)
      BY <2>1 DEF Phase
    <3>2. PictureWord(s, atomic64[s]) => atomic64[s] # 0
      BY FloodAssumption DEF PictureWord
    <3> QED
      BY <2>3, <2>4, <3>1, <3>2 DEF PicturePhase
  <2>6. pc[s] = "term" => Cardinality(InFlight(s)) + Answered(s) = 1
    <3> SUFFICES ASSUME pc[s] = "term"
                 PROVE  Cardinality(InFlight(s)) + Answered(s) = 1
      OBVIOUS
    <3>1. TermPhase(s)
      BY <2>1 DEF Phase
    <3> QED
      BY <2>3, <2>4, <3>1 DEF TermPhase
  <2> QED
    BY <2>1, <2>5, <2>6 DEF Phase, ChunksPhase
<1> QED
  BY <1>1, FloodInvariant, PTL

(* What the next step of flood waits for is there. *)
CanGoOn(s) ==
  \/ pc[s] \in {"picture", "term"} /\ atomic64[s] # 0
  \/ /\ pc[s] = "chunks"
     /\ cursor[s].i <= Len(letter[s].sizes)
     /\ cursor[s].offset <= letter[s].sizes[cursor[s].i]
  \/ /\ pc[s] = "chunks"
     /\ cursor[s].i > Len(letter[s].sizes)
     /\ atomic64[s] = msg_counter[s]

SendsGoOn ==
  \A s \in Sockets : pc[s] # "idle" => (InFlight(s) # {} \/ CanGoOn(s))

(* A send never waits for an answer nobody owes it (hsock.c:273-315):      *)
(* while it polls its word, either what it polls for is there or one of its *)
(* requests or their answers is in flight.  A compare-and-swap that missed  *)
(* its count, say because an answer of another phase was in it, would poll  *)
(* for ever.                                                                *)
THEOREM SendsAlwaysGoOn == Spec => []SendsGoOn
<1>1. IInv => SendsGoOn
  <2> SUFFICES ASSUME IInv, NEW s \in Sockets, pc[s] # "idle", InFlight(s) = {}
               PROVE  CanGoOn(s)
    BY DEF SendsGoOn
  <2>1. Phase(s) /\ pc[s] \in PCs
    BY DEF IInv, Shape
  <2>2. CASE pc[s] = "picture"
    <3>1. PicturePhase(s)
      BY <2>1, <2>2 DEF Phase
    <3>2. PictureWord(s, atomic64[s])
      BY <3>1 DEF PicturePhase
    <3>3. atomic64[s] # 0
      BY <3>2, FloodAssumption DEF PictureWord
    <3> QED
      BY <2>2, <3>3 DEF CanGoOn
  <2>3. CASE pc[s] = "chunks"
    <3>1. ChunksPhase(s)
      BY <2>1, <2>3 DEF Phase
    <3>2. atomic64[s] = msg_counter[s]
      <4>1. Cardinality({}) = 0
        BY FS_EmptySet
      <4>2. atomic64[s] \in Nat /\ Cardinality(InFlight(s)) + atomic64[s] = msg_counter[s]
        BY <3>1 DEF ChunksPhase
      <4> QED
        BY <4>1, <4>2
    <3>3. cursor[s].i <= Len(letter[s].sizes) => cursor[s].offset <= letter[s].sizes[cursor[s].i]
      BY <3>1 DEF ChunksPhase
    <3>4. cursor[s].i \in Nat /\ Len(letter[s].sizes) \in Nat
      <4>1. letter[s] \in Messages
        BY DEF IInv, Shape
      <4>2. letter[s].sizes \in Seq(Nat)
        BY <4>1, FloodAssumption, EmptySeq DEF Messages
      <4> QED
        BY <4>2, LenProperties DEF IInv, Shape
    <3> QED
      BY <2>3, <3>2, <3>3, <3>4 DEF CanGoOn
  <2>4. CASE pc[s] = "term"
    <3>1. TermPhase(s)
      BY <2>1, <2>4 DEF Phase
    <3>2. atomic64[s] # 0
      BY <3>1 DEF TermPhase
    <3> QED
      BY <2>4, <3>2 DEF CanGoOn
  <2> QED
    BY <2>1, <2>2, <2>3, <2>4 DEF PCs
<1> QED
  BY <1>1, FloodInvariant, PTL

(* A piece of payload in flight finds the array it was cut for, allocated,  *)
(* still of the same message and with room for all its bytes.               *)
THEOREM PiecesFit == Spec => []PiecesHaveRoom
<1>1. IInv => PiecesHaveRoom
  <2> SUFFICES ASSUME IInv, NEW am \in net, am.kind = "payload"
               PROVE  /\ pc[am.sock] = "chunks"
                      /\ frames_ptr[am.sock] = am.frames
                      /\ array[am.frames] # Nothing
                      /\ array[am.frames].picture = letter[am.sock]
                      /\ \A k \in DOMAIN am.bytes :
                           am.offset + k < letter[am.sock].sizes[am.frame_id]
    BY DEF PiecesHaveRoom
  <2> DEFINE s == am.sock
             size == letter[s].sizes[am.frame_id]
  <2>1. pc[s] = "chunks" /\ ChunksPhase(s) /\ am \in InFlight(s) /\ s \in Sockets /\ Shape
    BY KindPhase
  <2>2. Piece(s, am) /\ am.offset \in Nat /\ am.frame_id \in 1 .. Len(letter[s].sizes)
    BY <2>1 DEF ChunksPhase
  <2>3. PICK n \in Nat : /\ am.offset + n <= size
                         /\ DOMAIN am.bytes = 0 .. n - 1
    BY <2>2 DEF Piece
  <2>4. size \in Nat
    BY <2>1, <2>2, SizesAreNats
  <2> HIDE DEF size
  <2>5. \A k \in DOMAIN am.bytes : am.offset + k < size
    BY <2>2, <2>3, <2>4
  <2> QED
    BY <2>1, <2>2, <2>5 DEF ChunksPhase, Piece, size
<1> QED
  BY <1>1, FloodInvariant, PTL

(* Every allocated frame array is in one place, being filled, in a mailbox  *)
(* or being read, and a free one in none: none is lost, delivered twice or  *)
(* freed twice.                                                             *)
THEOREM ArraysAreAccounted == Spec => []ArraysAccounted
<1>1. IInv => ArraysAccounted
  <2> SUFFICES ASSUME IInv, NEW f \in Frames
               PROVE  Cardinality({s \in Sockets : f \in Filling(s)})
                        + Cardinality({p \in Waiting : mailbox[p[1]][p[2]] = f})
                        + Cardinality({s \in Sockets : held[s] = f})
                      = IF array[f] = Nothing THEN 0 ELSE 1
    BY DEF ArraysAccounted
  <2> DEFINE A == {s \in Sockets : f \in Filling(s)}
             B == {p \in Waiting : mailbox[p[1]][p[2]] = f}
             C == {s \in Sockets : held[s] = f}
  <2>1. OnePlace(f) /\ (array[f] # Nothing <=> SomePlace(f)) /\ Shape
    BY DEF IInv, Placed
  <2>2. Cardinality({}) = 0 /\ \A x : Cardinality({x}) = 1
    BY FS_EmptySet, FS_Singleton
  <2>3. \A p \in B : \E s \in Sockets : \E n \in Nat : p = <<s, n>> /\ InMail(s, n, f)
    <3> SUFFICES ASSUME NEW p \in B
                 PROVE  \E s \in Sockets : \E n \in Nat : p = <<s, n>> /\ InMail(s, n, f)
      OBVIOUS
    <3>1. PICK s \in Sockets : p \in {s} \X (1 .. Len(mailbox[s]))
      BY DEF Waiting
    <3>2. PICK n \in 1 .. Len(mailbox[s]) : p = <<s, n>>
      BY <3>1
    <3>3. n \in Nat
      BY <2>1, <3>2, LenProperties DEF Shape
    <3> QED
      BY <3>2, <3>3 DEF InMail
  <2>4. \A s \in Sockets : \A n \in Nat : InMail(s, n, f) => <<s, n>> \in B
    BY DEF InMail, Waiting
  <2>5. CASE \E s \in Sockets : f \in Filling(s)
    <3>1. PICK s \in Sockets : f \in Filling(s)
      BY <2>5
    <3>2. A = {s} /\ B = {} /\ C = {}
      BY <2>1, <2>3, <3>1 DEF OnePlace
    <3>3. array[f] # Nothing
      BY <2>1, <3>1 DEF SomePlace
    <3> HIDE DEF A, B, C
    <3>4. Cardinality(A) = 1 /\ Cardinality(B) = 0 /\ Cardinality(C) = 0
      BY <2>2, <3>2
    <3>5. Cardinality(A) + Cardinality(B) + Cardinality(C) = IF array[f] = Nothing THEN 0 ELSE 1
      BY <3>3, <3>4
    <3> QED
      BY <3>5 DEF A, B, C
  <2>6. CASE \E s \in Sockets : held[s] = f
    <3>1. PICK s \in Sockets : held[s] = f
      BY <2>6
    <3>2. A = {} /\ B = {} /\ C = {s}
      BY <2>1, <2>3, <3>1 DEF OnePlace
    <3>3. array[f] # Nothing
      BY <2>1, <3>1 DEF SomePlace
    <3> HIDE DEF A, B, C
    <3>4. Cardinality(A) = 0 /\ Cardinality(B) = 0 /\ Cardinality(C) = 1
      BY <2>2, <3>2
    <3>5. Cardinality(A) + Cardinality(B) + Cardinality(C) = IF array[f] = Nothing THEN 0 ELSE 1
      BY <3>3, <3>4
    <3> QED
      BY <3>5 DEF A, B, C
  <2>7. CASE \E s \in Sockets : \E n \in Nat : InMail(s, n, f)
    <3>1. PICK s \in Sockets, n \in Nat : InMail(s, n, f)
      BY <2>7
    <3>2. A = {} /\ C = {}
      BY <2>1, <3>1 DEF OnePlace
    <3>3. B = {<<s, n>>}
      <4>1. \A p \in B : p = <<s, n>>
        BY <2>1, <2>3, <3>1 DEF OnePlace
      <4> QED
        BY <2>4, <3>1, <4>1
    <3>4. array[f] # Nothing
      BY <2>1, <3>1 DEF SomePlace
    <3> HIDE DEF A, B, C
    <3>5. Cardinality(A) = 0 /\ Cardinality(B) = 1 /\ Cardinality(C) = 0
      BY <2>2, <3>2, <3>3
    <3>6. Cardinality(A) + Cardinality(B) + Cardinality(C) = IF array[f] = Nothing THEN 0 ELSE 1
      BY <3>4, <3>5
    <3> QED
      BY <3>6 DEF A, B, C
  <2>8. CASE ~SomePlace(f)
    <3>1. A = {} /\ B = {} /\ C = {}
      BY <2>3, <2>8 DEF SomePlace
    <3>2. array[f] = Nothing
      BY <2>1, <2>8
    <3> HIDE DEF A, B, C
    <3>3. Cardinality(A) = 0 /\ Cardinality(B) = 0 /\ Cardinality(C) = 0
      BY <2>2, <3>1
    <3>4. Cardinality(A) + Cardinality(B) + Cardinality(C) = IF array[f] = Nothing THEN 0 ELSE 1
      BY <3>2, <3>3
    <3> QED
      BY <3>4 DEF A, B, C
  <2> QED
    BY <2>5, <2>6, <2>7, <2>8 DEF SomePlace
<1> QED
  BY <1>1, FloodInvariant, PTL

-----------------------------------------------------------------------------
(* The refinement: what SocketMail.tla sees of the transport. *)

Letters == Messages \cup {Nothing}

OnDesk(s) == IF held[s] = Nothing THEN <<>> ELSE <<Read(held[s])>>
InBox(s) == [i \in 1 .. Len(mailbox[s]) |-> Read(mailbox[s][i])]
Inbox == [s \in Sockets |-> OnDesk(s) \o InBox(s)]

Stage(s) ==
  CASE pc[s] = "idle" -> "idle"
    [] pc[s] # "idle" /\ Arrived(s) -> "arrived"
    [] OTHER -> "sending"
Stages == [s \in Sockets |-> Stage(s)]

(* The steps of the mail service, said of Inbox and Stages. *)
LEMMA MailSame ==
  ASSUME Inbox' = Inbox, Stages' = Stages, UNCHANGED <<letter, dest, got>>
  PROVE  [Mail!Next]_(Mail!vars)
<1>1. UNCHANGED Mail!vars
  BY DEF Mail!vars, Inbox, Stages, OnDesk, InBox, Stage
<1> QED
  BY <1>1

LEMMA MailSend ==
  ASSUME NEW s \in Sockets, NEW d \in Reach(s), NEW sizes \in Sizes,
         Stages[s] = "idle", letter[s].no < MaxSends,
         Stages' = [Stages EXCEPT ![s] = "sending"],
         letter' = [letter EXCEPT ![s] = [from |-> s, no |-> letter[s].no + 1, sizes |-> sizes]],
         dest' = [dest EXCEPT ![s] = d],
         Inbox' = Inbox, got' = got
  PROVE  Mail!Next
<1>1. Mail!SendCall(s, d, sizes)
  BY DEF Mail!SendCall, Inbox, Stages, OnDesk, InBox, Stage
<1> QED
  BY <1>1 DEF Mail!Next, Mail!Sockets, Mail!Reach, Sockets, Reach

LEMMA MailArrive ==
  ASSUME NEW s \in Sockets, Stages[s] = "sending",
         Stages' = [Stages EXCEPT ![s] = "arrived"],
         Inbox' = [Inbox EXCEPT ![dest[s]] = Append(Inbox[dest[s]], letter[s])],
         UNCHANGED <<letter, dest, got>>
  PROVE  Mail!Next
<1>1. Mail!Arrive(s)
  BY DEF Mail!Arrive, Inbox, Stages, OnDesk, InBox, Stage
<1> QED
  BY <1>1 DEF Mail!Next, Mail!Sockets, Sockets

LEMMA MailReturn ==
  ASSUME NEW s \in Sockets, Stages[s] = "arrived",
         Stages' = [Stages EXCEPT ![s] = "idle"],
         dest' = [dest EXCEPT ![s] = Nothing],
         Inbox' = Inbox, UNCHANGED <<letter, got>>
  PROVE  Mail!Next
<1>1. Mail!SendReturn(s)
  BY DEF Mail!SendReturn, Inbox, Stages, OnDesk, InBox, Stage
<1> QED
  BY <1>1 DEF Mail!Next, Mail!Sockets, Sockets

LEMMA MailRecv ==
  ASSUME NEW s \in Sockets, Inbox[s] # <<>>,
         got' = [got EXCEPT ![s] = Head(Inbox[s])],
         Inbox' = [Inbox EXCEPT ![s] = Tail(Inbox[s])],
         Stages' = Stages, UNCHANGED <<letter, dest>>
  PROVE  Mail!Next
<1>1. Mail!Recv(s)
  BY DEF Mail!Recv, Inbox, Stages, OnDesk, InBox, Stage
<1> QED
  BY <1>1 DEF Mail!Next, Mail!Sockets, Sockets

(* The inboxes are sequences of messages. *)
BoxesOK ==
  \A s \in Sockets :
    /\ OnDesk(s) \in Seq(Letters)
    /\ InBox(s) \in Seq(Letters)
    /\ Len(InBox(s)) = Len(mailbox[s])
    /\ Len(mailbox[s]) \in Nat
    /\ \A i \in 1 .. Len(mailbox[s]) : InBox(s)[i] = Read(mailbox[s][i])

LEMMA BoxesTyped == Shape => BoxesOK
<1> SUFFICES ASSUME Shape, NEW s \in Sockets
             PROVE  /\ OnDesk(s) \in Seq(Letters)
                    /\ InBox(s) \in Seq(Letters)
                    /\ Len(InBox(s)) = Len(mailbox[s])
                    /\ Len(mailbox[s]) \in Nat
                    /\ \A i \in 1 .. Len(mailbox[s]) : InBox(s)[i] = Read(mailbox[s][i])
  BY DEF BoxesOK
<1>1. \A f \in Frames : Read(f) \in Letters
  BY DEF Shape, IsArray, Read, Letters
<1>2. mailbox[s] \in Seq(Frames) /\ Len(mailbox[s]) \in Nat
  BY LenProperties DEF Shape
<1>3. InBox(s) \in [1 .. Len(mailbox[s]) -> Letters]
  BY <1>1, <1>2, ElementOfSeq DEF InBox
<1>4. InBox(s) \in Seq(Letters)
  BY <1>2, <1>3, SeqDef
<1>5. DOMAIN InBox(s) = 1 .. Len(InBox(s)) /\ Len(InBox(s)) \in Nat
  BY <1>4, LenProperties
<1>6. Len(InBox(s)) = Len(mailbox[s])
  BY <1>2, <1>3, <1>5
<1>7. OnDesk(s) \in Seq(Letters)
  <2>1. CASE held[s] = Nothing
    BY <2>1, EmptySeq DEF OnDesk
  <2>2. CASE held[s] # Nothing
    <3>1. Read(held[s]) \in Letters
      BY <1>1, <2>2 DEF Shape
    <3> QED
      BY <2>2, <3>1 DEF OnDesk
  <2> QED
    BY <2>1, <2>2
<1> QED
  BY <1>2, <1>4, <1>6, <1>7 DEF InBox

(* A step that leaves the mailboxes and what is in them alone. *)
LEMMA InboxSame ==
  ASSUME UNCHANGED <<mailbox, array, held>>
  PROVE  Inbox' = Inbox
BY DEF Inbox, OnDesk, InBox, Read

(* Array f is in no mailbox and nobody reads it. *)
Elsewhere(f) ==
  \A t \in Sockets : held[t] # f /\ \A n \in Nat : ~InMail(t, n, f)

LEMMA InboxKept ==
  ASSUME Shape, NEW f, Elsewhere(f), UNCHANGED <<mailbox, held>>,
         \A g \in Frames \ {f} : array'[g] = array[g]
  PROVE  Inbox' = Inbox
<1> SUFFICES ASSUME NEW t \in Sockets
             PROVE  OnDesk(t)' = OnDesk(t) /\ InBox(t)' = InBox(t)
  BY DEF Inbox
<1>1. \A g \in Frames \ {f} : Read(g)' = Read(g)
  BY DEF Read
<1>2. OnDesk(t)' = OnDesk(t)
  <2>1. PICK g : g = held[t]
    OBVIOUS
  <2>2. g # Nothing => g \in Frames \ {f}
    BY <2>1 DEF Shape, Elsewhere
  <2>3. g # Nothing => Read(g)' = Read(g)
    BY <1>1, <2>2
  <2> QED
    BY <2>1, <2>3 DEF OnDesk, Read
<1>3. ASSUME NEW n \in 1 .. Len(mailbox[t]), NEW g, g = mailbox[t][n]
      PROVE  Read(g)' = Read(g)
  <2>1. n \in Nat /\ g \in Frames
    BY <1>3, LenProperties DEF Shape
  <2>2. g # f
    BY <1>3, <2>1 DEF Elsewhere, InMail
  <2> QED
    BY <1>1, <2>1, <2>2
<1>4. InBox(t)' = InBox(t)
  BY <1>3 DEF InBox, Read
<1> QED
  BY <1>2, <1>4

LEMMA InboxAppended ==
  ASSUME Shape, Shape', NEW d \in Sockets, NEW f \in Frames, Elsewhere(f), held' = held,
         mailbox' = [mailbox EXCEPT ![d] = Append(mailbox[d], f)],
         \A g \in Frames \ {f} : array'[g] = array[g],
         NEW m, m = Read(f)'
  PROVE  Inbox' = [Inbox EXCEPT ![d] = Append(Inbox[d], m)]
<1>0. BoxesOK /\ BoxesOK'
  BY BoxesTyped, PTL
<1>1. \A g \in Frames \ {f} : Read(g)' = Read(g)
  BY DEF Read
<1>2. ASSUME NEW t \in Sockets PROVE OnDesk(t)' = OnDesk(t)
  <2>1. PICK g : g = held[t]
    OBVIOUS
  <2>2. g # Nothing => g \in Frames \ {f}
    BY <2>1 DEF Shape, Elsewhere
  <2>3. g # Nothing => Read(g)' = Read(g)
    BY <1>1, <2>2
  <2> QED
    BY <2>1, <2>3 DEF OnDesk, Read
<1>3. ASSUME NEW t \in Sockets, NEW n \in 1 .. Len(mailbox[t]), NEW g, g = mailbox[t][n]
      PROVE  Read(g)' = Read(g)
  <2>1. n \in Nat /\ g \in Frames
    BY SMTT(30), <1>3, LenProperties DEF Shape
  <2>2. g # f
    BY <1>3, <2>1 DEF Elsewhere, InMail
  <2> QED
    BY <1>1, <2>1, <2>2
<1>4. ASSUME NEW t \in Sockets, t # d PROVE InBox(t)' = InBox(t)
  <2>1. mailbox'[t] = mailbox[t]
    BY <1>4 DEF Shape
  <2>2. ASSUME NEW n \in 1 .. Len(mailbox[t]) PROVE Read(mailbox[t][n])' = Read(mailbox[t][n])
    <3>1. PICK g : g = mailbox[t][n]
      OBVIOUS
    <3>2. Read(g)' = Read(g)
      BY <1>3, <3>1
    <3> QED
      BY <2>1, <3>1, <3>2 DEF Read
  <2> QED
    BY <2>1, <2>2 DEF InBox
<1>5. PICK q : q = mailbox[d]
  OBVIOUS
<1>6. q \in Seq(Frames) /\ Len(q) \in Nat
  BY <1>5, LenProperties DEF Shape
<1>7. /\ mailbox'[d] = Append(q, f)
      /\ Len(Append(q, f)) = Len(q) + 1
      /\ \A i \in 1 .. Len(q) : Append(q, f)[i] = q[i]
      /\ Append(q, f)[Len(q) + 1] = f
  BY <1>5, <1>6, AppendProperties DEF Shape
<1>8. m \in Letters
  <2>1. Read(f)' \in Letters
    BY DEF Shape, IsArray, Read, Letters
  <2> QED
    BY <2>1
<1>9. InBox(d)' = Append(InBox(d), m)
  <2>1. PICK b, c : b = InBox(d) /\ c = InBox(d)'
    OBVIOUS
  <2>2. /\ b \in Seq(Letters) /\ Len(b) = Len(q)
        /\ \A i \in 1 .. Len(q) : b[i] = Read(q[i])
    BY <1>0, <1>5, <2>1 DEF BoxesOK
  <2>3. /\ c \in Seq(Letters) /\ Len(c) = Len(q) + 1
    BY <1>0, <1>7, <2>1 DEF BoxesOK
  <2>4. \A i \in 1 .. Len(q) + 1 : \A g : g = mailbox'[d][i] => c[i] = Read(g)'
    <3>1. \A i \in 1 .. Len(mailbox'[d]) : c[i] = Read(mailbox[d][i])'
      BY <1>0, <2>1 DEF BoxesOK
    <3> QED
      BY SMTT(30), <1>7, <3>1 DEF Read
  <2>5. /\ Append(b, m) \in Seq(Letters)
        /\ Len(Append(b, m)) = Len(q) + 1
        /\ \A i \in 1 .. Len(q) : Append(b, m)[i] = b[i]
        /\ Append(b, m)[Len(q) + 1] = m
    BY <1>8, <2>2, AppendProperties
  <2>6. ASSUME NEW i \in 1 .. Len(q) + 1 PROVE c[i] = Append(b, m)[i]
    <3>1. CASE i = Len(q) + 1
      <4>1. mailbox'[d][i] = f
        BY <1>7, <3>1
      <4>2. c[i] = Read(f)'
        BY <2>4, <4>1
      <4> QED
        BY <2>5, <3>1, <4>2
    <3>2. CASE i # Len(q) + 1
      <4>1. i \in 1 .. Len(q)
        BY <1>6, <3>2
      <4>2. PICK g : g = q[i]
        OBVIOUS
      <4>3. mailbox'[d][i] = g
        BY <1>7, <4>1, <4>2
      <4>4. c[i] = Read(g)'
        BY <2>4, <4>3
      <4>5. Read(g)' = Read(g)
        BY <1>3, <1>5, <4>1, <4>2
      <4> QED
        BY <2>2, <2>5, <4>1, <4>2, <4>4, <4>5
    <3> QED
      BY <3>1, <3>2
  <2>7. c = Append(b, m)
    BY <2>3, <2>5, <2>6, SeqEqual
  <2> QED
    BY <2>1, <2>7
<1>10. OnDesk(d) \o Append(InBox(d), m) = Append(OnDesk(d) \o InBox(d), m)
  <2>1. PICK a, b : a = OnDesk(d) /\ b = InBox(d)
    OBVIOUS
  <2>2. a \in Seq(Letters) /\ b \in Seq(Letters) /\ <<m>> \in Seq(Letters)
    BY <1>0, <1>8, <2>1 DEF BoxesOK
  <2>3. Append(b, m) = b \o <<m>>
    BY <1>8, <2>2, AppendIsConcat
  <2>4. a \o b \in Seq(Letters)
    BY <2>2, ConcatProperties
  <2>5. Append(a \o b, m) = (a \o b) \o <<m>>
    BY <1>8, <2>4, AppendIsConcat
  <2>6. (a \o b) \o <<m>> = a \o (b \o <<m>>)
    BY <2>2, ConcatAssociative
  <2> QED
    BY <2>1, <2>3, <2>5, <2>6
<1>11. ASSUME NEW t \in Sockets
       PROVE  (OnDesk(t) \o InBox(t))' = IF t = d THEN Append(Inbox[d], m) ELSE Inbox[t]
  <2>1. CASE t = d
    BY <1>2, <1>9, <1>10, <2>1 DEF Inbox
  <2>2. CASE t # d
    BY <1>2, <1>4, <2>2 DEF Inbox
  <2> QED
    BY <2>1, <2>2
<1> QED
  BY <1>11 DEF Inbox

(* A receive takes the array at the head of the mailbox and reads it: what  *)
(* the mail service has in store stays the same.                            *)
LEMMA InboxPopped ==
  ASSUME Shape, Shape', NEW s \in Sockets, RecvPop(s)
  PROVE  Inbox' = Inbox
<1>0. BoxesOK /\ BoxesOK'
  BY BoxesTyped, PTL
<1>1. PICK q, f : q = mailbox[s] /\ f = Head(q)
  OBVIOUS
<1>2. /\ held[s] = Nothing /\ q # <<>>
      /\ held' = [held EXCEPT ![s] = f]
      /\ mailbox' = [mailbox EXCEPT ![s] = Tail(q)]
      /\ array' = array
  BY <1>1 DEF RecvPop
<1>3. q \in Seq(Frames) /\ Len(q) \in Nat \ {0}
  BY <1>1, <1>2, EmptySeq, LenProperties DEF Shape
<1>4. /\ f \in Frames /\ f = q[1] /\ Tail(q) \in Seq(Frames)
      /\ Len(Tail(q)) = Len(q) - 1
      /\ \A n \in 1 .. Len(Tail(q)) : Tail(q)[n] = q[n + 1]
  BY <1>1, <1>2, <1>3, HeadTailProperties
<1>5. held'[s] = f /\ mailbox'[s] = Tail(q) /\ f # Nothing
  BY <1>2, <1>4, FloodAssumption DEF Shape
<1>6. \A g : Read(g)' = Read(g)
  BY <1>2 DEF Read
<1>7. ASSUME NEW t \in Sockets, t # s
      PROVE  (OnDesk(t) \o InBox(t))' = OnDesk(t) \o InBox(t)
  <2>1. held'[t] = held[t] /\ mailbox'[t] = mailbox[t]
    BY <1>2, <1>7 DEF Shape
  <2>2. OnDesk(t)' = OnDesk(t)
    BY <1>2, <2>1 DEF OnDesk, Read
  <2>3. ASSUME NEW n \in 1 .. Len(mailbox[t]) PROVE Read(mailbox[t][n])' = Read(mailbox[t][n])
    <3>1. array' = array
      BY <1>2
    <3> QED
      BY <2>1, <3>1 DEF Read
  <2>4. InBox(t)' = InBox(t)
    BY <2>1, <2>3 DEF InBox
  <2> QED
    BY <2>2, <2>4
<1>8. (OnDesk(s) \o InBox(s))' = OnDesk(s) \o InBox(s)
  <2>1. PICK b, c, r : b = InBox(s) /\ c = InBox(s)' /\ r = Read(f)
    OBVIOUS
  <2>2. /\ b \in Seq(Letters) /\ Len(b) = Len(q)
        /\ \A i \in 1 .. Len(q) : b[i] = Read(q[i])
    BY <1>0, <1>1, <2>1 DEF BoxesOK
  <2>3. /\ c \in Seq(Letters) /\ Len(c) = Len(q) - 1
    BY <1>0, <1>4, <1>5, <2>1 DEF BoxesOK
  <2>4. \A i \in 1 .. Len(q) - 1 : c[i] = Read(q[i + 1])
    <3>1. \A i \in 1 .. Len(mailbox'[s]) : c[i] = Read(mailbox[s][i])'
      BY <1>0, <2>1 DEF BoxesOK
    <3>2. \A i \in 1 .. Len(Tail(q)) : c[i] = Read(Tail(q)[i])'
      BY <1>5, <3>1
    <3>3. \A i \in 1 .. Len(Tail(q)) : c[i] = Read(q[i + 1])'
      BY <1>4, <3>2
    <3>4. \A i \in 1 .. Len(Tail(q)) : c[i] = Read(q[i + 1])
      BY <1>6, <3>3
    <3> QED
      BY <1>4, <3>4
  <2>5. OnDesk(s) = <<>>
    BY <1>2 DEF OnDesk
  <2>6. OnDesk(s)' = <<r>>
    BY <1>2, <1>5, <2>1 DEF OnDesk, Read
  <2>7. r = b[1] /\ r \in Letters
    <3>1. r = b[1]
      BY <1>3, <1>4, <2>1, <2>2
    <3> QED
      BY <1>3, <2>2, <3>1, ElementOfSeq
  <2>8. <<r>> \in Seq(Letters) /\ Len(<<r>>) = 1 /\ <<r>>[1] = r
    BY <2>7
  <2>9. /\ <<r>> \o c \in Seq(Letters)
        /\ Len(<<r>> \o c) = Len(q)
        /\ \A i \in 1 .. Len(q) : (<<r>> \o c)[i] = IF i <= 1 THEN r ELSE c[i - 1]
    <3>1. PICK a : a = <<r>>
      OBVIOUS
    <3>2. /\ a \o c \in Seq(Letters)
          /\ Len(a \o c) = 1 + Len(c)
          /\ \A i \in 1 .. 1 + Len(c) : (a \o c)[i] = IF i <= 1 THEN a[i] ELSE c[i - 1]
      BY <2>3, <2>8, <3>1, ConcatProperties
    <3>3. \A i \in 1 .. Len(q) : i <= 1 => i = 1
      BY <1>3
    <3> QED
      BY <1>3, <2>3, <2>8, <3>1, <3>2, <3>3
  <2>10. ASSUME NEW i \in 1 .. Len(q) PROVE (<<r>> \o c)[i] = b[i]
    <3>1. CASE i = 1
      BY <2>7, <2>9, <3>1
    <3>2. CASE i # 1
      <4>1. i - 1 \in 1 .. Len(q) - 1 /\ (i - 1) + 1 = i /\ ~(i <= 1)
        BY <1>3, <3>2
      <4>2. c[i - 1] = Read(q[i])
        BY <2>4, <4>1
      <4> QED
        BY <2>2, <2>9, <4>1, <4>2
    <3> QED
      BY <3>1, <3>2
  <2>11. <<r>> \o c = b
    BY <2>2, <2>9, <2>10, SeqEqual
  <2>12. <<>> \o b = b
    BY <2>2, ConcatEmptySeq
  <2> QED
    BY <2>1, <2>5, <2>6, <2>11, <2>12
<1>9. \A t \in Sockets : (OnDesk(t) \o InBox(t))' = OnDesk(t) \o InBox(t)
  BY <1>7, <1>8
<1> QED
  BY <1>9 DEF Inbox

LEMMA InboxRead ==
  ASSUME Shape, Shape', NEW s \in Sockets, held[s] # Nothing,
         mailbox' = mailbox,
         array' = [array EXCEPT ![held[s]] = Nothing],
         held' = [held EXCEPT ![s] = Nothing],
         \A t \in Sockets \ {s} : held[t] # held[s],
         \A t \in Sockets : \A n \in Nat : ~InMail(t, n, held[s])
  PROVE  /\ Inbox[s] # <<>> /\ Head(Inbox[s]) = Read(held[s])
         /\ Inbox' = [Inbox EXCEPT ![s] = Tail(Inbox[s])]
<1>0. BoxesOK
  BY BoxesTyped
<1>1. PICK f : f = held[s]
  OBVIOUS
<1>2. f \in Frames /\ \A g \in Frames \ {f} : array'[g] = array[g]
  BY <1>1 DEF Shape
<1>3. \A g \in Frames \ {f} : Read(g)' = Read(g)
  BY <1>2 DEF Read
<1>4. ASSUME NEW t \in Sockets, NEW n \in 1 .. Len(mailbox[t]), NEW g, g = mailbox[t][n]
      PROVE  Read(g)' = Read(g)
  <2>1. n \in Nat /\ g \in Frames
    BY <1>4, LenProperties DEF Shape
  <2>2. g # f
    BY <1>1, <1>4, <2>1 DEF InMail
  <2> QED
    BY <1>3, <2>1, <2>2
<1>5. ASSUME NEW t \in Sockets PROVE InBox(t)' = InBox(t)
  BY <1>4 DEF InBox, Read
<1>6. ASSUME NEW t \in Sockets, t # s PROVE OnDesk(t)' = OnDesk(t)
  <2>1. PICK g : g = held[t]
    OBVIOUS
  <2>2. held'[t] = g /\ (g # Nothing => g \in Frames \ {f})
    BY <1>1, <1>6, <2>1 DEF Shape
  <2>3. g # Nothing => Read(g)' = Read(g)
    BY <1>3, <2>2
  <2> QED
    BY <2>1, <2>2, <2>3 DEF OnDesk, Read
<1>7. PICK r, b : r = Read(f) /\ b = InBox(s)
  OBVIOUS
<1>8. OnDesk(s) = <<r>> /\ OnDesk(s)' = <<>>
  BY <1>1, <1>7 DEF OnDesk, Shape
<1>9. b \in Seq(Letters) /\ <<r>> \in Seq(Letters)
  BY <1>0, <1>7, <1>8 DEF BoxesOK
<1>10. <<r>> \o b # <<>> /\ Head(<<r>> \o b) = r /\ Tail(<<r>> \o b) = b
  <2>1. PICK a, q : a = <<r>> /\ q = a \o b
    OBVIOUS
  <2>2. Len(a) = 1 /\ a[1] = r /\ a \in Seq(Letters) /\ Len(b) \in Nat
    BY <1>9, <2>1, LenProperties
  <2>3. /\ q \in Seq(Letters) /\ Len(q) = 1 + Len(b)
        /\ \A i \in 1 .. 1 + Len(b) : q[i] = IF i <= 1 THEN a[i] ELSE b[i - 1]
    BY <1>9, <2>1, <2>2, ConcatProperties
  <2>4. q # <<>>
    BY <2>2, <2>3, EmptySeq
  <2>5. q[1] = r
    BY <2>2, <2>3
  <2>6. Head(q) = q[1]
    BY <2>3
  <2>7. /\ Tail(q) \in Seq(Letters) /\ Len(Tail(q)) = Len(b)
        /\ \A i \in 1 .. Len(b) : Tail(q)[i] = q[i + 1]
    BY <2>2, <2>3, <2>4, HeadTailProperties
  <2>8. ASSUME NEW i \in 1 .. Len(b) PROVE Tail(q)[i] = b[i]
    <3>1. i + 1 \in 1 .. 1 + Len(b) /\ ~(i + 1 <= 1) /\ (i + 1) - 1 = i
      BY <2>2
    <3>2. q[i + 1] = b[i]
      BY <2>3, <3>1
    <3> QED
      BY <2>7, <3>2
  <2>9. Tail(q) = b
    BY <1>9, <2>7, <2>8, SeqEqual
  <2> QED
    BY <2>1, <2>4, <2>5, <2>6, <2>9
<1>11. <<>> \o b = b
  BY <1>9, ConcatEmptySeq
<1>12. Inbox[s] = <<r>> \o b
  BY <1>7, <1>8 DEF Inbox
<1>13. ASSUME NEW t \in Sockets
       PROVE  (OnDesk(t) \o InBox(t))' = IF t = s THEN Tail(Inbox[s]) ELSE Inbox[t]
  <2>1. CASE t = s
    BY <1>5, <1>7, <1>8, <1>10, <1>11, <1>12, <2>1
  <2>2. CASE t # s
    BY <1>5, <1>6, <2>2 DEF Inbox
  <2> QED
    BY <2>1, <2>2
<1> QED
  BY <1>1, <1>7, <1>10, <1>12, <1>13 DEF Inbox

(* Only the send of s changes. *)
LEMMA StagesStep ==
  ASSUME NEW s \in Sockets, \A t \in Sockets \ {s} : Untouched(t), NEW v, Stage(s)' = v
  PROVE  Stages' = [Stages EXCEPT ![s] = v]
<1>1. \A t \in Sockets \ {s} : Stage(t)' = Stage(t)
  BY DEF Untouched, Stage, Arrived
<1> QED
  BY <1>1 DEF Stages

LEMMA StagesSame ==
  ASSUME NEW s \in Sockets, \A t \in Sockets \ {s} : Untouched(t), Stage(s)' = Stage(s)
  PROVE  Stages' = Stages
<1>1. \A t \in Sockets \ {s} : Stage(t)' = Stage(t)
  BY DEF Untouched, Stage, Arrived
<1> QED
  BY <1>1 DEF Stages

(* Where each phase stands for the mail service. *)
StagesOK ==
  \A s \in Sockets :
    /\ pc[s] = "idle" => Stage(s) = "idle"
    /\ pc[s] = "chunks" => Stage(s) = "sending"
    /\ pc[s] = "picture" /\ letter[s].sizes # <<>> => Stage(s) = "sending"
    /\ pc[s] \in {"picture", "term"} /\ (\E am \in InFlight(s) : am.kind # "set") =>
         Stage(s) = "sending"
    /\ pc[s] = "picture" /\ letter[s].sizes = <<>> /\ (\A am \in InFlight(s) : am.kind = "set") =>
         Stage(s) = "arrived"
    /\ pc[s] = "term" /\ (\A am \in InFlight(s) : am.kind = "set") => Stage(s) = "arrived"

LEMMA StagesFit == StagesOK
BY DEF StagesOK, Stage, Arrived

LEMMA SendRefines ==
  ASSUME IInv, NEW s \in Sockets, NEW d \in Reach(s), NEW sizes \in Sizes, Send(s, d, sizes)
  PROVE  Mail!Next
<1>0. StagesOK /\ StagesOK'
  BY StagesFit, PTL
<1> DEFINE m == [from |-> s, no |-> letter[s].no + 1, sizes |-> sizes]
           x == PictureReq(s, m, d)
<1>1. /\ pc[s] = "idle" /\ letter[s].no < MaxSends
      /\ letter' = [letter EXCEPT ![s] = m]
      /\ dest' = [dest EXCEPT ![s] = d]
      /\ atomic64' = [atomic64 EXCEPT ![s] = 0]
      /\ net' = net \cup {x}
      /\ pc' = [pc EXCEPT ![s] = "picture"]
      /\ UNCHANGED <<frames_ptr, cursor, msg_counter, mailbox, array, held, got>>
  BY DEF Send, receiver
<1>2. x.sock = s /\ x.kind = "picture"
  BY DEF PictureReq
<1>3. Shape
  BY DEF IInv
<1> HIDE DEF x
<1>4. x \in InFlight(s)' /\ \A t \in Sockets \ {s} : InFlight(t)' = InFlight(t)
  BY <1>1, <1>2, NetAdd
<1>5. \A t \in Sockets \ {s} : Untouched(t)
  BY <1>1, <1>3, <1>4 DEF Shape, Untouched
<1>6. Stage(s) = "idle" /\ Stage(s)' = "sending"
  <2>1. pc'[s] = "picture"
    BY <1>1, <1>3 DEF Shape
  <2> QED
    BY <1>0, <1>1, <1>2, <1>4, <2>1 DEF StagesOK
<1>7. Stages[s] = "idle" /\ Stages' = [Stages EXCEPT ![s] = "sending"]
  BY <1>5, <1>6, StagesStep DEF Stages
<1>8. Inbox' = Inbox
  BY <1>1, InboxSame
<1> QED
  BY <1>1, <1>7, <1>8, MailSend

LEMMA PictureAnsweredRefines ==
  ASSUME IInv, NEW s \in Sockets, PictureAnswered(s)
  PROVE  [Mail!Next]_(Mail!vars)
<1>0. StagesOK /\ StagesOK'
  BY StagesFit, PTL
<1>1. /\ pc[s] = "picture" /\ atomic64[s] # 0
      /\ atomic64' = [atomic64 EXCEPT ![s] = 0]
      /\ UNCHANGED <<letter, net, mailbox, array, held, got>>
  BY DEF PictureAnswered, receiver
<1>2. Shape /\ PicturePhase(s)
  BY <1>1 DEF IInv, Phase
<1>3. InFlight(s) = {} /\ InFlight(s)' = {} /\ \A t \in Sockets : InFlight(t)' = InFlight(t)
  BY <1>1, <1>2 DEF PicturePhase, InFlight
<1>4. Inbox' = Inbox
  BY <1>1, InboxSame
<1>5. CASE letter[s].sizes = <<>> /\ Return(s)
  <2>1. pc'[s] = "idle" /\ dest' = [dest EXCEPT ![s] = Nothing]
    BY <1>2, <1>5 DEF Return, Shape
  <2>2. \A t \in Sockets \ {s} : Untouched(t)
    BY <1>1, <1>2, <1>3, <1>5 DEF Return, Shape, Untouched
  <2>3. Stage(s) = "arrived" /\ Stage(s)' = "idle"
    BY <1>0, <1>1, <1>3, <1>5, <2>1 DEF StagesOK
  <2>4. Stages[s] = "arrived" /\ Stages' = [Stages EXCEPT ![s] = "idle"]
    BY <2>2, <2>3, StagesStep DEF Stages
  <2> QED
    BY <1>1, <1>4, <2>1, <2>4, MailReturn
<1>6. CASE /\ letter[s].sizes # <<>>
           /\ frames_ptr' = [frames_ptr EXCEPT ![s] = atomic64[s]]
           /\ pc' = [pc EXCEPT ![s] = "chunks"]
           /\ UNCHANGED <<dest, cursor, msg_counter>>
  <2>1. pc'[s] = "chunks"
    BY <1>2, <1>6 DEF Shape
  <2>2. \A t \in Sockets \ {s} : Untouched(t)
    BY <1>1, <1>2, <1>3, <1>6 DEF Shape, Untouched
  <2>3. Stage(s) = "sending" /\ Stage(s)' = "sending"
    BY <1>0, <1>1, <1>6, <2>1 DEF StagesOK
  <2>4. Stages' = Stages
    BY <2>2, <2>3, StagesSame
  <2> QED
    BY <1>1, <1>4, <1>6, <2>4, MailSame
<1> QED
  BY <1>5, <1>6 DEF PictureAnswered

LEMMA ChunkRefines ==
  ASSUME IInv, NEW s \in Sockets, SendChunk(s) \/ NextFrame(s)
  PROVE  [Mail!Next]_(Mail!vars)
<1>0. StagesOK /\ StagesOK'
  BY StagesFit, PTL
<1>1. /\ pc[s] = "chunks"
      /\ UNCHANGED <<pc, letter, dest, frames_ptr, atomic64, mailbox, array, held, got>>
  BY DEF SendChunk, NextFrame, receiver
<1>2. Shape
  BY DEF IInv
<1>3. \A t \in Sockets \ {s} : InFlight(t)' = InFlight(t)
  <2>1. CASE NextFrame(s)
    BY <2>1 DEF NextFrame, InFlight
  <2>2. CASE SendChunk(s)
    <3>1. PICK i, offset, bytes : net' = net \cup {PayloadReq(s, letter[s].no, frames_ptr[s], i, offset, bytes)}
      BY <2>2 DEF SendChunk
    <3>2. PICK x : x = PayloadReq(s, letter[s].no, frames_ptr[s], i, offset, bytes)
      OBVIOUS
    <3>3. x.sock = s
      BY <3>2 DEF PayloadReq
    <3> QED
      BY <3>1, <3>2, <3>3, NetAdd
  <2> QED
    BY <2>1, <2>2
<1>4. \A t \in Sockets \ {s} : cursor'[t] = cursor[t] /\ msg_counter'[t] = msg_counter[t]
  BY <1>2 DEF SendChunk, NextFrame, Shape
<1>5. \A t \in Sockets \ {s} : Untouched(t)
  BY <1>1, <1>3, <1>4 DEF Untouched
<1>6. Stages' = Stages
  BY <1>0, <1>1, <1>5, StagesSame DEF StagesOK
<1>7. Inbox' = Inbox
  BY <1>1, InboxSame
<1> QED
  BY <1>1, <1>6, <1>7, MailSame

LEMMA ChunksAnsweredRefines ==
  ASSUME IInv, NEW s \in Sockets, ChunksAnswered(s)
  PROVE  [Mail!Next]_(Mail!vars)
<1>0. StagesOK /\ StagesOK'
  BY StagesFit, PTL
<1> DEFINE x == TerminationReq(s, letter[s].no, dest[s], frames_ptr[s])
<1>1. /\ pc[s] = "chunks"
      /\ atomic64' = [atomic64 EXCEPT ![s] = 0]
      /\ net' = net \cup {x}
      /\ pc' = [pc EXCEPT ![s] = "term"]
      /\ UNCHANGED <<letter, dest, frames_ptr, cursor, msg_counter, mailbox, array, held, got>>
  BY DEF ChunksAnswered, receiver
<1>2. x.sock = s /\ x.kind = "termination"
  BY DEF TerminationReq
<1>3. Shape
  BY DEF IInv
<1> HIDE DEF x
<1>4. x \in InFlight(s)' /\ \A t \in Sockets \ {s} : InFlight(t)' = InFlight(t)
  BY <1>1, <1>2, NetAdd
<1>5. \A t \in Sockets \ {s} : Untouched(t)
  BY <1>1, <1>3, <1>4 DEF Shape, Untouched
<1>6. Stage(s) = "sending" /\ Stage(s)' = "sending"
  <2>1. pc'[s] = "term"
    BY <1>1, <1>3 DEF Shape
  <2> QED
    BY <1>0, <1>1, <1>2, <1>4, <2>1 DEF StagesOK
<1>7. Stages' = Stages
  BY <1>5, <1>6, StagesSame
<1>8. Inbox' = Inbox
  BY <1>1, InboxSame
<1> QED
  BY <1>1, <1>7, <1>8, MailSame

LEMMA TerminationAnsweredRefines ==
  ASSUME IInv, NEW s \in Sockets, TerminationAnswered(s)
  PROVE  Mail!Next
<1>0. StagesOK /\ StagesOK'
  BY StagesFit, PTL
<1>1. /\ pc[s] = "term" /\ atomic64[s] # 0
      /\ atomic64' = [atomic64 EXCEPT ![s] = 0]
      /\ Return(s)
      /\ UNCHANGED <<letter, net, mailbox, array, held, got>>
  BY DEF TerminationAnswered, receiver
<1>2. Shape /\ TermPhase(s)
  BY <1>1 DEF IInv, Phase
<1>3. InFlight(s) = {} /\ \A t \in Sockets : InFlight(t)' = InFlight(t)
  BY <1>1, <1>2 DEF TermPhase, InFlight
<1>4. pc'[s] = "idle" /\ dest' = [dest EXCEPT ![s] = Nothing]
  BY <1>1, <1>2 DEF Return, Shape
<1>5. \A t \in Sockets \ {s} : Untouched(t)
  BY <1>1, <1>2, <1>3 DEF Return, Shape, Untouched
<1>6. Stage(s) = "arrived" /\ Stage(s)' = "idle"
  BY <1>0, <1>1, <1>3, <1>4 DEF StagesOK
<1>7. Stages[s] = "arrived" /\ Stages' = [Stages EXCEPT ![s] = "idle"]
  BY <1>5, <1>6, StagesStep DEF Stages
<1>8. Inbox' = Inbox
  BY <1>1, InboxSame
<1> QED
  BY <1>1, <1>4, <1>7, <1>8, MailReturn

(* A handler that answers leaves the other sends alone. *)
LEMMA AnswerStep ==
  ASSUME Shape, NEW am \in net, NEW s \in Sockets, am.sock = s, NEW x, x.sock = s,
         net' = (net \ {am}) \cup {x},
         UNCHANGED <<pc, letter, dest, frames_ptr, cursor, msg_counter, atomic64>>
  PROVE  /\ InFlight(s)' = (InFlight(s) \ {am}) \cup {x}
         /\ \A t \in Sockets \ {s} : Untouched(t)
<1>1. /\ InFlight(s)' = (InFlight(s) \ {am}) \cup {x}
      /\ \A t \in Sockets \ {s} : InFlight(t)' = InFlight(t)
  BY NetSwap
<1> QED
  BY <1>1 DEF Untouched

LEMMA OnPictureRefines ==
  ASSUME IInv, IInv', NEW am \in net, OnPicture(am)
  PROVE  [Mail!Next]_(Mail!vars)
<1>0. StagesOK /\ StagesOK'
  BY StagesFit, PTL
<1>1. PICK s, m, d : s = am.sock /\ m = am.picture /\ d = am.to
  OBVIOUS
<1>2. PICK f \in Frames :
        /\ array[f] = Nothing
        /\ array' = [array EXCEPT ![f] = [picture |-> m, payload |-> Blank(m.sizes)]]
        /\ \/ /\ m.sizes = <<>>
              /\ mailbox' = [mailbox EXCEPT ![d] = Append(mailbox[d], f)]
              /\ net' = (net \ {am}) \cup {SetReply(s, m.no, 1)}
           \/ /\ m.sizes # <<>>
              /\ net' = (net \ {am}) \cup {SetReply(s, m.no, f)}
              /\ UNCHANGED mailbox
  BY <1>1 DEF OnPicture
<1>3. /\ am.kind = "picture"
      /\ UNCHANGED <<pc, letter, dest, frames_ptr, cursor, msg_counter, atomic64, held, got>>
  BY DEF OnPicture, sender, receiver
<1>4. /\ s \in Sockets /\ Shape /\ Phase(s) /\ pc[s] = "picture" /\ InFlight(s) = {am}
      /\ am = PictureReq(s, letter[s], dest[s])
  BY <1>1, <1>3, KindPhase
<1>5. m = letter[s] /\ d = dest[s]
  BY <1>1, <1>4 DEF PictureReq
<1>6. d \in Sockets /\ m \in Messages
  BY <1>4, <1>5 DEF Phase, Reach, Sockets, Shape
<1>7. Elsewhere(f)
  BY <1>2 DEF IInv, Placed, SomePlace, Elsewhere
<1>8. \A g \in Frames \ {f} : array'[g] = array[g]
  BY <1>2, <1>4 DEF Shape
<1>9. \A v : SetReply(s, m.no, v).sock = s /\ SetReply(s, m.no, v).kind = "set"
  BY DEF SetReply
<1>10. CASE /\ m.sizes = <<>>
            /\ mailbox' = [mailbox EXCEPT ![d] = Append(mailbox[d], f)]
            /\ net' = (net \ {am}) \cup {SetReply(s, m.no, 1)}
  <2>1. InFlight(s)' = {SetReply(s, m.no, 1)} /\ \A t \in Sockets \ {s} : Untouched(t)
    <3>1. PICK x : x = SetReply(s, m.no, 1)
      OBVIOUS
    <3>2. x.sock = s
      BY <1>9, <3>1
    <3>3. InFlight(s)' = (InFlight(s) \ {am}) \cup {x} /\ \A t \in Sockets \ {s} : Untouched(t)
      <4>1. Shape /\ s \in Sockets /\ am.sock = s /\ net' = (net \ {am}) \cup {x}
        BY <1>1, <1>4, <1>10, <3>1
      <4> QED
        BY <1>3, <3>2, <4>1, AnswerStep
    <3> QED
      BY <1>4, <3>1, <3>3
  <2>2. Stage(s) = "sending"
    BY <1>0, <1>3, <1>4 DEF StagesOK
  <2>3. Stage(s)' = "arrived"
    <3>1. pc'[s] = "picture" /\ letter'[s].sizes = <<>>
      BY <1>3, <1>4, <1>5, <1>10
    <3> QED
      BY <1>0, <1>4, <1>9, <2>1, <3>1 DEF StagesOK
  <2>4. Stages[s] = "sending" /\ Stages' = [Stages EXCEPT ![s] = "arrived"]
    BY <1>4, <2>1, <2>2, <2>3, StagesStep DEF Stages
  <2>5. Read(f)' = m
    <3>1. PICK a : a = [picture |-> m, payload |-> Blank(m.sizes)]
      OBVIOUS
    <3>2. array'[f] = a
      BY <1>2, <1>4, <3>1 DEF Shape
    <3>3. a # Nothing /\ a.picture = m /\ a.payload = Payload(m)
      BY <1>6, <1>10, <3>1, NewArray
    <3> QED
      BY <3>2, <3>3 DEF Read
  <2>6. Inbox' = [Inbox EXCEPT ![d] = Append(Inbox[d], m)]
    <3>1. Shape'
      BY DEF IInv
    <3> QED
      BY <1>3, <1>4, <1>6, <1>7, <1>8, <1>10, <2>5, <3>1, InboxAppended
  <2> QED
    BY <1>3, <1>4, <1>5, <2>4, <2>6, MailArrive
<1>11. CASE /\ m.sizes # <<>>
            /\ net' = (net \ {am}) \cup {SetReply(s, m.no, f)}
            /\ UNCHANGED mailbox
  <2>1. \A t \in Sockets \ {s} : Untouched(t)
    BY <1>1, <1>3, <1>4, <1>9, <1>11, AnswerStep
  <2>2. Stage(s) = "sending" /\ Stage(s)' = "sending"
    BY <1>0, <1>3, <1>4, <1>5, <1>11 DEF StagesOK
  <2>3. Stages' = Stages
    BY <1>4, <2>1, <2>2, StagesSame
  <2>4. Inbox' = Inbox
    BY <1>3, <1>4, <1>7, <1>8, <1>11, InboxKept
  <2> QED
    BY <1>3, <2>3, <2>4, MailSame
<1> QED
  BY <1>2, <1>10, <1>11

LEMMA OnPayloadRefines ==
  ASSUME IInv, NEW am \in net, OnPayload(am)
  PROVE  [Mail!Next]_(Mail!vars)
<1>0. StagesOK /\ StagesOK'
  BY StagesFit, PTL
<1>1. PICK s, f, x : s = am.sock /\ f = am.frames /\ x = IncrReply(s, am.no, am.frame_id, am.offset)
  OBVIOUS
<1>2. /\ am.kind = "payload"
      /\ net' = (net \ {am}) \cup {x}
      /\ UNCHANGED <<pc, letter, dest, frames_ptr, cursor, msg_counter, atomic64, mailbox, held, got>>
  BY <1>1 DEF OnPayload, sender, receiver
<1>3. s \in Sockets /\ Shape /\ Placed /\ am \in InFlight(s) /\ pc[s] = "chunks" /\ ChunksPhase(s)
  BY <1>1, <1>2, KindPhase DEF IInv
<1>4. f = frames_ptr[s] /\ f \in Frames
  BY <1>1, <1>2, <1>3 DEF ChunksPhase, Piece
<1>5. Elsewhere(f)
  <2>1. f \in Filling(s)
    BY <1>3, <1>4 DEF Filling
  <2> QED
    BY <1>3, <1>4, <2>1 DEF Placed, OnePlace, Elsewhere
<1>6. \A g \in Frames \ {f} : array'[g] = array[g]
  <2>1. PICK a : array' = [array EXCEPT ![f] = a]
    BY <1>1 DEF OnPayload
  <2> QED
    BY <1>3, <2>1 DEF Shape
<1>7. x.sock = s
  BY <1>1 DEF IncrReply
<1>8. \A t \in Sockets \ {s} : Untouched(t)
  BY <1>1, <1>2, <1>3, <1>7, AnswerStep
<1>9. Stages' = Stages
  BY <1>0, <1>2, <1>3, <1>8, StagesSame DEF StagesOK
<1>10. Inbox' = Inbox
  BY <1>2, <1>3, <1>5, <1>6, InboxKept
<1> QED
  BY <1>2, <1>9, <1>10, MailSame

LEMMA OnTerminationRefines ==
  ASSUME IInv, IInv', NEW am \in net, OnTermination(am)
  PROVE  Mail!Next
<1>0. StagesOK /\ StagesOK'
  BY StagesFit, PTL
<1>1. PICK s, f, d, x : s = am.sock /\ f = am.frames /\ d = am.to /\ x = SetReply(s, am.no, 1)
  OBVIOUS
<1>2. /\ am.kind = "termination"
      /\ mailbox' = [mailbox EXCEPT ![d] = Append(mailbox[d], f)]
      /\ net' = (net \ {am}) \cup {x}
      /\ UNCHANGED <<pc, letter, dest, frames_ptr, cursor, msg_counter, atomic64, array, held, got>>
  BY <1>1 DEF OnTermination, sender, receiver
<1>3. /\ s \in Sockets /\ Shape /\ Placed /\ Phase(s) /\ pc[s] = "term" /\ InFlight(s) = {am}
      /\ am = TerminationReq(s, letter[s].no, dest[s], frames_ptr[s])
      /\ frames_ptr[s] \in Frames /\ Whole(frames_ptr[s])
      /\ array[frames_ptr[s]].picture = letter[s]
  BY <1>1, <1>2, KindPhase DEF IInv
<1>4. f = frames_ptr[s] /\ d = dest[s]
  BY <1>1, <1>3 DEF TerminationReq
<1>5. d \in Sockets
  BY <1>3, <1>4 DEF Phase, Reach, Sockets
<1>6. x.sock = s /\ x.kind = "set"
  BY <1>1 DEF SetReply
<1>7. InFlight(s)' = {x} /\ \A t \in Sockets \ {s} : Untouched(t)
  <2>1. InFlight(s)' = (InFlight(s) \ {am}) \cup {x} /\ \A t \in Sockets \ {s} : Untouched(t)
    BY <1>1, <1>2, <1>3, <1>6, AnswerStep
  <2> QED
    BY <1>3, <2>1
<1>8. Stage(s) = "sending"
  BY <1>0, <1>2, <1>3 DEF StagesOK
<1>9. Stage(s)' = "arrived"
  <2>1. pc'[s] = "term"
    BY <1>2, <1>3
  <2> QED
    BY <1>0, <1>3, <1>6, <1>7, <2>1 DEF StagesOK
<1>10. Stages[s] = "sending" /\ Stages' = [Stages EXCEPT ![s] = "arrived"]
  BY <1>3, <1>7, <1>8, <1>9, StagesStep DEF Stages
<1>11. Elsewhere(f)
  <2>1. f \in Filling(s)
    BY <1>2, <1>3, <1>4, <1>1 DEF Filling
  <2> QED
    BY <1>3, <1>4, <2>1 DEF Placed, OnePlace, Elsewhere
<1>12. Read(f)' = letter[s]
  BY <1>2, <1>3, <1>4 DEF Read, Whole
<1>13. Inbox' = [Inbox EXCEPT ![d] = Append(Inbox[d], letter[s])]
  <2>1. Shape' /\ f \in Frames
    BY <1>3, <1>4 DEF IInv
  <2>2. PICK m : m = letter[s]
    OBVIOUS
  <2> QED
    BY <1>2, <1>3, <1>5, <1>11, <1>12, <2>1, <2>2, InboxAppended
<1> QED
  BY <1>2, <1>3, <1>4, <1>10, <1>13, MailArrive

LEMMA OnReplyRefines ==
  ASSUME IInv, NEW am \in net, OnReply(am)
  PROVE  [Mail!Next]_(Mail!vars)
<1>0. StagesOK /\ StagesOK'
  BY StagesFit, PTL
<1>1. PICK s : s = am.sock
  OBVIOUS
<1>2. /\ am.kind \in {"set", "incr"}
      /\ \E v : atomic64' = [atomic64 EXCEPT ![s] = v]
      /\ net' = net \ {am}
      /\ UNCHANGED <<pc, letter, dest, frames_ptr, cursor, msg_counter, mailbox, array, held, got>>
  BY <1>1 DEF OnReply, sender, receiver
<1>3. /\ s \in Sockets /\ Shape
      /\ am.kind = "set" => InFlight(s) = {am} /\ pc[s] \in {"picture", "term"}
      /\ am.kind = "incr" => pc[s] = "chunks"
  BY <1>1, KindPhase
<1>4. InFlight(s)' = InFlight(s) \ {am} /\ \A t \in Sockets \ {s} : InFlight(t)' = InFlight(t)
  BY <1>1, <1>2, <1>3, NetDrop
<1>5. \A t \in Sockets \ {s} : Untouched(t)
  <2>1. \A t \in Sockets \ {s} : atomic64'[t] = atomic64[t]
    BY <1>2, <1>3 DEF Shape
  <2> QED
    BY <1>2, <1>4, <2>1 DEF Untouched
<1>6. Stage(s)' = Stage(s)
  <2>1. CASE am.kind = "incr"
    BY <1>0, <1>2, <1>3, <2>1 DEF StagesOK
  <2>2. CASE am.kind = "set"
    <3>1. InFlight(s) = {am} /\ InFlight(s)' = {} /\ pc'[s] = pc[s] /\ letter'[s] = letter[s]
      BY <1>2, <1>3, <1>4, <2>2
    <3>2. CASE pc[s] = "term"
      BY <1>0, <1>3, <2>2, <3>1, <3>2 DEF StagesOK
    <3>3. CASE pc[s] = "picture"
      BY <1>0, <1>3, <2>2, <3>1, <3>3 DEF StagesOK
    <3> QED
      BY <1>3, <2>2, <3>2, <3>3
  <2> QED
    BY <1>2, <2>1, <2>2
<1>7. Stages' = Stages
  BY <1>3, <1>5, <1>6, StagesSame
<1>8. Inbox' = Inbox
  BY <1>2, InboxSame
<1> QED
  BY <1>2, <1>7, <1>8, MailSame

LEMMA RecvPopRefines ==
  ASSUME IInv, IInv', NEW s \in Sockets, RecvPop(s)
  PROVE  [Mail!Next]_(Mail!vars)
<1>1. UNCHANGED <<pc, letter, dest, frames_ptr, cursor, msg_counter, atomic64, net, got>>
  BY DEF RecvPop, sender
<1>2. \A t \in Sockets : Stage(t)' = Stage(t)
  BY <1>1 DEF Stage, Arrived, InFlight
<1>3. Stages' = Stages
  BY <1>2 DEF Stages
<1>4. Inbox' = Inbox
  <2>1. Shape /\ Shape'
    BY DEF IInv
  <2> QED
    BY <2>1, InboxPopped
<1> QED
  BY <1>1, <1>3, <1>4, MailSame

LEMMA DeserializeRefines ==
  ASSUME IInv, IInv', NEW s \in Sockets, Deserialize(s)
  PROVE  Mail!Next
<1>1. /\ held[s] # Nothing
      /\ got' = [got EXCEPT ![s] = Read(held[s])]
      /\ array' = [array EXCEPT ![held[s]] = Nothing]
      /\ held' = [held EXCEPT ![s] = Nothing]
      /\ UNCHANGED <<pc, letter, dest, frames_ptr, cursor, msg_counter, atomic64, net, mailbox>>
  BY DEF Deserialize, sender
<1>2. Shape /\ Shape' /\ Placed
  BY DEF IInv
<1>3. held[s] \in Frames
  BY <1>1, <1>2 DEF Shape
<1>4. /\ \A t \in Sockets \ {s} : held[t] # held[s]
      /\ \A t \in Sockets : \A n \in Nat : ~InMail(t, n, held[s])
  BY <1>2, <1>3 DEF Placed, OnePlace
<1>5. /\ Inbox[s] # <<>> /\ Head(Inbox[s]) = Read(held[s])
      /\ Inbox' = [Inbox EXCEPT ![s] = Tail(Inbox[s])]
  BY <1>1, <1>2, <1>4, InboxRead
<1>6. \A t \in Sockets : Stage(t)' = Stage(t)
  BY <1>1 DEF Stage, Arrived, InFlight
<1>7. Stages' = Stages
  BY <1>6 DEF Stages
<1> QED
  BY <1>1, <1>5, <1>7, MailRecv

LEMMA StutterRefines ==
  ASSUME UNCHANGED vars
  PROVE  [Mail!Next]_(Mail!vars)
<1>1. UNCHANGED <<pc, letter, dest, frames_ptr, cursor, msg_counter, atomic64, net, mailbox,
                  array, held, got>>
  BY DEF vars, sender, receiver
<1>2. \A t \in Sockets : Stage(t)' = Stage(t)
  BY <1>1 DEF Stage, Arrived, InFlight
<1>3. Stages' = Stages
  BY <1>2 DEF Stages
<1>4. Inbox' = Inbox
  BY <1>1, InboxSame
<1> QED
  BY <1>1, <1>3, <1>4, MailSame

LEMMA InitRefines == Init => Mail!Init
<1> SUFFICES ASSUME Init PROVE Mail!Init
  OBVIOUS
<1>1. \A s \in Sockets : OnDesk(s) \o InBox(s) = <<>>
  BY DEF Init, OnDesk, InBox
<1>2. \A s \in Sockets : Stage(s) = "idle"
  BY DEF Init, Stage
<1>3. Inbox = [s \in Sockets |-> <<>>] /\ Stages = [s \in Sockets |-> "idle"]
  BY <1>1, <1>2 DEF Inbox, Stages
<1> QED
  BY <1>3 DEF Init, Mail!Init, Mail!Sockets, Sockets, Inbox, Stages, OnDesk, InBox, Stage

LEMMA StepRefines == IInv /\ IInv' /\ [Next]_vars => [Mail!Next]_(Mail!vars)
<1> SUFFICES ASSUME IInv, IInv', [Next]_vars PROVE [Mail!Next]_(Mail!vars)
  OBVIOUS
<1>1. ASSUME NEW s \in Sockets, Flood(s) PROVE [Mail!Next]_(Mail!vars)
  BY <1>1, PictureAnsweredRefines, ChunkRefines, ChunksAnsweredRefines,
     TerminationAnsweredRefines DEF Flood
<1>2. ASSUME NEW s \in Sockets, Recv(s) PROVE [Mail!Next]_(Mail!vars)
  BY <1>2, RecvPopRefines, DeserializeRefines DEF Recv
<1>3. ASSUME NEW am \in net, Handle(am) PROVE [Mail!Next]_(Mail!vars)
  BY <1>3, OnPictureRefines, OnPayloadRefines, OnTerminationRefines, OnReplyRefines DEF Handle
<1> QED
  BY <1>1, <1>2, <1>3, SendRefines, StutterRefines DEF Next

(* The protocol implements the mail service: a send delivers its message    *)
(* once, whole, with every byte at its place, to the right mailbox, before  *)
(* it returns, and a receive takes the oldest.                              *)
THEOREM FloodImplementsMail == Spec => RefinesMail
BY InitRefines, StepRefines, FloodInvariant, PTL DEF Spec, RefinesMail, Mail!Spec
=============================================================================

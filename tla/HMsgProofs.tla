----------------------------- MODULE HMsgProofs -----------------------------
(***************************************************************************)
(* The encoding of HMsg.tla, for pictures of every length and every choice *)
(* of the elements the receiver wants.                                     *)
(***************************************************************************)
EXTENDS HMsg, FiniteSetTheorems, FunctionTheorems, SequenceTheorems, TLAPS

Typed ==
  /\ carrier \in {"msg", "sock"}
  /\ picture \in Seq(Letters)
  /\ wanted \in SUBSET (1 .. Len(picture))
  /\ pc \in {"pack", "sent", "unpack", "done", "exit", "overrun"}
  /\ at \in 1 .. Len(picture) + 1
  /\ stream \in Seq(Nat \X Nat)
  /\ frames \in Seq(Nat)
  /\ carrier = "msg" => frames = <<>>
  /\ pc = "sent" => carrier = "sock"
  /\ pc = "done" => at = Len(picture) + 1
  /\ out = [k \in 1 .. Len(picture) |-> out[k]]

(* The bytes of number k follow the first p of the b bytes of numbers: what *)
(* is before them is of earlier elements, what is after them of later ones. *)
Block(k, p, b) ==
  /\ p + Width(picture[k]) <= b
  /\ \A j \in 1 .. Width(picture[k]) : stream[p + j] = <<k, j>>
  /\ \A i \in 1 .. p : stream[i][1] < k
  /\ \A i \in 1 .. b : i > p + Width(picture[k]) => stream[i][1] > k

(* The first b bytes are those of the numbers among the elements before n,  *)
(* and the frames are the chunks among them.                                *)
StreamOK(b, n) ==
  /\ b \in 0 .. Len(stream)
  /\ \A i \in 1 .. b : stream[i][1] \in 1 .. n - 1 /\ picture[stream[i][1]] \in Numbers
  /\ \A k \in 1 .. n - 1 : picture[k] \in Numbers => \E p \in Nat : Block(k, p, b)

FramesOK(n) ==
  /\ \A i \in 1 .. Len(frames) : frames[i] \in 1 .. n - 1 /\ picture[frames[i]] = "b"
  /\ \A i, j \in 1 .. Len(frames) : i < j => frames[i] < frames[j]
  /\ \A k \in 1 .. n - 1 : picture[k] = "b" => \E i \in 1 .. Len(frames) : frames[i] = k

Packing ==
  /\ StreamOK(Len(stream), at)
  /\ FramesOK(at)
  /\ Len(stream) + 8 * Len(frames) <= 8 * (at - 1)
  /\ heap = IF carrier = "msg" THEN {<<"msg">>, <<"packed">>} ELSE {}
  /\ ppos = 0
  /\ payload_frame_id = 1

Body == Len(stream) - 8 * Len(frames)

(* The sizes of the chunks are at the end. *)
Packed ==
  /\ StreamOK(Body, Len(picture) + 1)
  /\ FramesOK(Len(picture) + 1)
  /\ \A i \in 1 .. Len(frames) : \A j \in 1 .. 8 :
       stream[Body + 8 * (i - 1) + j] = <<frames[i], j>>

(* As long as nothing of its kind has been declined, the receiver is at the *)
(* first byte of a number, or at the first chunk, that it has not met yet.  *)
NumbersInStep ==
  (\A m \in Declined(Numbers) : m >= at) =>
    /\ ppos \in 0 .. Body
    /\ \A i \in 1 .. Body : i <= ppos <=> stream[i][1] < at

ChunksInStep ==
  (\A m \in Declined({"b"}) : m >= at) =>
    \A i \in 1 .. Len(frames) : i < payload_frame_id <=> frames[i] < at

Received ==
  \A S \in {Numbers, {"b"}} : \A k \in wanted :
    k < at /\ picture[k] \in S /\ (\A m \in Declined(S) : m > k) => out[k] = Sent(k)

(* What the receiver has taken, and what is still allocated. *)
Taken(n) == {k \in wanted : picture[k] = "b" /\ k < n}
Payloads(n) == {<<"payload", frames[i]>> : i \in n .. Len(frames)}

Kept ==
  IF carrier = "msg"
    THEN heap = IF pc = "unpack" THEN {<<"msg">>, <<"packed">>} ELSE {}
    ELSE /\ array = [i \in 1 .. Len(frames) |-> [chunk |-> frames[i], size |-> frames[i]]]
         /\ payload_frame_id \in 1 .. Len(frames) + 1
         /\ payload_frame_id - 1 = Cardinality(Taken(at))
         /\ heap = (IF pc = "unpack" THEN {<<"array">>} ELSE {})
                     \cup {<<"copy">>} \cup Payloads(payload_frame_id)

MInv ==
  /\ Typed
  /\ BufferEnough
  /\ pc = "pack" => Packing
  /\ pc \in {"sent", "unpack", "done"} => Packed
  /\ pc = "sent" => heap = {} /\ ppos = 0 /\ payload_frame_id = 1
  /\ pc \in {"unpack", "done"} => NumbersInStep /\ ChunksInStep /\ Received /\ Kept

-----------------------------------------------------------------------------

LEMMA Widths ==
  ASSUME NEW l
  PROVE  Width(l) \in 1 .. 8 /\ SizeOf(l) \in 1 .. Width(l)
BY DEF Width, SizeOf

LEMMA BytesProperties ==
  ASSUME NEW k \in Nat, NEW n \in Nat
  PROVE  /\ Bytes(k, n) \in Seq(Nat \X Nat)
         /\ Len(Bytes(k, n)) = n
         /\ \A j \in 1 .. n : Bytes(k, n)[j] = <<k, j>>
<1>1. Bytes(k, n) \in [1 .. n -> Nat \X Nat]
  BY DEF Bytes
<1>2. Bytes(k, n) \in Seq(Nat \X Nat)
  BY <1>1, SeqDef
<1>3. DOMAIN Bytes(k, n) = 1 .. Len(Bytes(k, n)) /\ Len(Bytes(k, n)) \in Nat
  BY <1>2, LenProperties
<1>4. Len(Bytes(k, n)) = n
  BY <1>1, <1>3
<1> QED
  BY <1>2, <1>4 DEF Bytes

(* What is packed stays where it is when more is packed after it. *)
LEMMA StreamGrows ==
  ASSUME NEW b \in Nat, NEW n, NEW more \in Seq(Nat \X Nat), Typed,
         StreamOK(b, n), stream' = stream \o more, picture' = picture
  PROVE  /\ StreamOK(b, n)'
         /\ Len(stream') = Len(stream) + Len(more)
         /\ \A i \in 1 .. Len(stream) : stream'[i] = stream[i]
         /\ \A i \in 1 .. Len(more) : stream'[Len(stream) + i] = more[i]
         /\ stream' \in Seq(Nat \X Nat)
<1>1. Len(stream) \in Nat /\ Len(more) \in Nat
  BY LenProperties DEF Typed
<1>2. /\ stream' \in Seq(Nat \X Nat)
      /\ Len(stream') = Len(stream) + Len(more)
      /\ \A i \in 1 .. Len(stream) + Len(more) :
           stream'[i] = IF i <= Len(stream) THEN stream[i] ELSE more[i - Len(stream)]
  BY ConcatProperties DEF Typed
<1>3. \A i \in 1 .. Len(stream) : stream'[i] = stream[i]
  BY <1>1, <1>2
<1>4. \A i \in 1 .. Len(more) : stream'[Len(stream) + i] = more[i]
  <2> SUFFICES ASSUME NEW i \in 1 .. Len(more) PROVE stream'[Len(stream) + i] = more[i]
    OBVIOUS
  <2>1. Len(stream) + i \in 1 .. Len(stream) + Len(more) /\ ~(Len(stream) + i <= Len(stream))
        /\ (Len(stream) + i) - Len(stream) = i
    BY <1>1
  <2> QED
    BY <1>2, <2>1
<1>5. \A i \in 1 .. b : stream'[i] = stream[i]
  BY <1>1, <1>3 DEF StreamOK
<1>6. ASSUME NEW k \in 1 .. n - 1, NEW p \in Nat, Block(k, p, b) PROVE Block(k, p, b)'
  <2>1. Width(picture[k]) \in 1 .. 8 /\ Width(picture[k])' = Width(picture[k])
    BY Widths DEF Width
  <2>2. \A j \in 1 .. Width(picture[k]) : p + j \in 1 .. b
    BY SMTT(30), <1>6, <2>1 DEF Block
  <2>3. \A i \in 1 .. p : i \in 1 .. b
    BY <1>6, <2>1 DEF Block
  <2> QED
    BY <1>5, <1>6, <2>1, <2>2, <2>3 DEF Block
<1>7. StreamOK(b, n)'
  <2>1. b \in 0 .. Len(stream')
    BY <1>1, <1>2 DEF StreamOK
  <2>2. \A i \in 1 .. b : stream'[i][1] \in 1 .. n - 1 /\ picture'[stream'[i][1]] \in Numbers
    BY <1>5 DEF StreamOK
  <2>3. \A k \in 1 .. n - 1 : picture'[k] \in Numbers => \E p \in Nat : Block(k, p, b)'
    BY <1>6 DEF StreamOK
  <2> QED
    BY <2>1, <2>2, <2>3 DEF StreamOK
<1> QED
  BY <1>2, <1>3, <1>4, <1>7


-----------------------------------------------------------------------------
(* Packing one element. *)

LEMMA NumberPacks ==
  ASSUME NEW b \in Nat, NEW n \in Nat \ {0}, Typed, b = Len(stream), StreamOK(b, n),
         n <= Len(picture), picture[n] \in Numbers,
         stream' = stream \o Bytes(n, Width(picture[n])), picture' = picture
  PROVE  /\ stream' \in Seq(Nat \X Nat)
         /\ Len(stream') = b + Width(picture[n])
         /\ StreamOK(b + Width(picture[n]), n + 1)'
<1>0. PICK w, c : w = Width(picture[n]) /\ c = b + w
  OBVIOUS
<1>1. /\ w \in 1 .. 8
      /\ \A k : Width(picture[k]) \in 1 .. 8 /\ Width(picture'[k]) = Width(picture[k])
  BY <1>0, Widths
<1>a. c \in Nat /\ w \in Nat /\ n \in Nat
  BY SMTT(30), <1>0, <1>1
<1>2. /\ Bytes(n, w) \in Seq(Nat \X Nat) /\ Len(Bytes(n, w)) = w
      /\ \A j \in 1 .. w : Bytes(n, w)[j] = <<n, j>>
  BY <1>a, BytesProperties
<1>3. stream' = stream \o Bytes(n, w)
  BY <1>0
<1>4. /\ StreamOK(b, n)' /\ Len(stream') = c /\ stream' \in Seq(Nat \X Nat)
      /\ \A i \in 1 .. w : stream'[b + i] = <<n, i>>
  BY ZenonT(40), <1>0, <1>2, <1>3, StreamGrows
<1>5. \A i \in 1 .. c : i \in 1 .. b \/ stream'[i][1] = n
  <2> SUFFICES ASSUME NEW i \in 1 .. c, i \notin 1 .. b PROVE stream'[i][1] = n
    OBVIOUS
  <2>1. i - b \in 1 .. w /\ b + (i - b) = i
    BY <1>0, <1>1
  <2> QED
    BY SMTT(30), <1>4, <2>1
<1>6. \A i \in 1 .. b : stream'[i][1] \in 1 .. n - 1 /\ picture[stream'[i][1]] \in Numbers
  BY <1>4 DEF StreamOK
<1>7. c \in 0 .. Len(stream')
  BY <1>a, <1>4
<1>8. \A i \in 1 .. c : stream'[i][1] \in 1 .. n /\ picture'[stream'[i][1]] \in Numbers
  <2> SUFFICES ASSUME NEW i \in 1 .. c
               PROVE  stream'[i][1] \in 1 .. n /\ picture[stream'[i][1]] \in Numbers
    OBVIOUS
  <2>1. CASE i \in 1 .. b
    BY <1>6, <2>1
  <2>2. CASE stream'[i][1] = n
    BY <2>2
  <2> QED
    BY <1>5, <2>1, <2>2
<1>9. ASSUME NEW k \in 1 .. n, picture[k] \in Numbers PROVE \E p \in Nat : Block(k, p, c)'
  <2>1. CASE k = n
    <3>1. Width(picture'[k]) = w
      BY <1>0, <1>1, <2>1
    <3>2. b + w = c
      BY <1>0
    <3>3. \A i \in 1 .. b : stream'[i][1] < k
      BY <1>6, <2>1
    <3>4. \A i \in 1 .. c : ~(i > b + w)
      BY <1>a, <3>2
    <3>5. b + w <= c
      BY <1>a, <3>2
    <3>6. \A j \in 1 .. w : stream'[b + j] = <<k, j>>
      BY <1>4, <2>1
    <3> QED
      BY <3>1, <3>3, <3>4, <3>5, <3>6 DEF Block
  <2>2. CASE k # n
    <3>1. k \in 1 .. n - 1 /\ picture'[k] \in Numbers
      BY <1>9, <2>2
    <3>2. PICK p \in Nat : Block(k, p, b)'
      BY <1>4, <3>1 DEF StreamOK
    <3>3. p + Width(picture'[k]) <= c
      <4>1. PICK v : v = Width(picture'[k])
        OBVIOUS
      <4>2. p + v <= b /\ v \in 1 .. 8 /\ p \in Nat
        BY <1>1, <3>2, <4>1 DEF Block
      <4>3. p + v <= c
        BY SMTT(30), <1>0, <1>1, <4>2
      <4> QED
        BY <4>1, <4>3
    <3>4. \A i \in 1 .. c : i > p + Width(picture'[k]) => stream'[i][1] > k
      <4>1. \A i \in 1 .. b : i > p + Width(picture'[k]) => stream'[i][1] > k
        BY <3>2 DEF Block
      <4>2. n > k
        BY <3>1
      <4> QED
        BY <1>5, <4>1, <4>2
    <3> QED
      BY <3>2, <3>3, <3>4 DEF Block
  <2> QED
    BY <2>1, <2>2
<1>10. StreamOK(c, n + 1)'
  <2>1. PICK d : d = n + 1
    OBVIOUS
  <2>2. d - 1 = n
    BY <2>1
  <2>3. StreamOK(c, d)'
    BY <1>7, <1>8, <1>9, <2>2 DEF StreamOK
  <2> QED
    BY <2>1, <2>3
<1> QED
  BY <1>0, <1>4, <1>10

(* An element that is no number adds nothing to the stream, one that is no  *)
(* chunk nothing to the frames.                                             *)
LEMMA StreamStays ==
  ASSUME NEW b, NEW n \in Nat \ {0}, StreamOK(b, n), picture[n] \notin Numbers,
         stream' = stream, picture' = picture
  PROVE  StreamOK(b, n + 1)'
<1>1. \A k \in 1 .. (n + 1) - 1 : picture[k] \in Numbers => k \in 1 .. n - 1
  OBVIOUS
<1>2. 1 .. n - 1 \subseteq 1 .. (n + 1) - 1
  OBVIOUS
<1>3. \A k, p : Block(k, p, b)' = Block(k, p, b)
  BY DEF Block, Width
<1> QED
  BY <1>1, <1>2, <1>3 DEF StreamOK

LEMMA FramesStay ==
  ASSUME NEW n \in Nat \ {0}, FramesOK(n), picture[n] # "b",
         frames' = frames, picture' = picture
  PROVE  FramesOK(n + 1)'
<1>1. \A k \in 1 .. (n + 1) - 1 : picture[k] = "b" => k \in 1 .. n - 1
  OBVIOUS
<1>2. 1 .. n - 1 \subseteq 1 .. (n + 1) - 1
  OBVIOUS
<1> QED
  BY <1>1, <1>2 DEF FramesOK

LEMMA FramesGrow ==
  ASSUME NEW n \in Nat \ {0}, Typed, FramesOK(n), picture[n] = "b",
         frames' = Append(frames, n), picture' = picture
  PROVE  FramesOK(n + 1)' /\ Len(frames') = Len(frames) + 1 /\ frames' \in Seq(Nat)
<1>1. Len(frames) \in Nat
  BY LenProperties DEF Typed
<1>2. /\ frames' \in Seq(Nat) /\ Len(frames') = Len(frames) + 1
      /\ \A i \in 1 .. Len(frames) : frames'[i] = frames[i]
      /\ frames'[Len(frames) + 1] = n
  BY AppendProperties DEF Typed
<1>3. \A i \in 1 .. Len(frames') : i \in 1 .. Len(frames) \/ i = Len(frames) + 1
  BY <1>1, <1>2
<1>4. \A i \in 1 .. Len(frames) : i \in 1 .. Len(frames')
  BY <1>1, <1>2
<1>5. \A i \in 1 .. Len(frames') : frames'[i] \in 1 .. (n + 1) - 1 /\ picture'[frames'[i]] = "b"
  BY <1>2, <1>3 DEF FramesOK
<1>6. \A i, j \in 1 .. Len(frames') : i < j => frames'[i] < frames'[j]
  <2> SUFFICES ASSUME NEW i \in 1 .. Len(frames'), NEW j \in 1 .. Len(frames'), i < j
               PROVE  frames'[i] < frames'[j]
    OBVIOUS
  <2>1. i \in 1 .. Len(frames)
    BY <1>1, <1>2
  <2>2. frames'[i] = frames[i] /\ frames[i] \in 1 .. n - 1
    BY <1>2, <2>1 DEF FramesOK
  <2>3. CASE j \in 1 .. Len(frames)
    BY <1>2, <2>1, <2>3 DEF FramesOK
  <2>4. CASE j = Len(frames) + 1
    BY <1>2, <2>2, <2>4
  <2> QED
    BY <1>3, <2>3, <2>4
<1>7. \A k \in 1 .. (n + 1) - 1 : picture'[k] = "b" => \E i \in 1 .. Len(frames') : frames'[i] = k
  <2> SUFFICES ASSUME NEW k \in 1 .. (n + 1) - 1, picture[k] = "b"
               PROVE  \E i \in 1 .. Len(frames') : frames'[i] = k
    OBVIOUS
  <2>1. CASE k = n
    BY <1>1, <1>2, <2>1
  <2>2. CASE k \in 1 .. n - 1
    <3>1. PICK i \in 1 .. Len(frames) : frames[i] = k
      BY <2>2 DEF FramesOK
    <3> QED
      BY <1>2, <1>4, <3>1
  <2> QED
    BY <2>1, <2>2
<1> QED
  BY <1>2, <1>5, <1>6, <1>7 DEF FramesOK

-----------------------------------------------------------------------------
(* The sizes of the chunks: packed at the end, and found there. *)

LEMMA PlaceOfSize ==
  ASSUME NEW m \in Nat, NEW i \in 1 .. m, NEW j \in 1 .. 8
  PROVE  LET n == 8 * (i - 1) + j IN
         n \in 1 .. 8 * m /\ ((n - 1) \div 8) + 1 = i /\ ((n - 1) % 8) + 1 = j
<1>1. PICK q, r : q = i - 1 /\ r = j - 1
  OBVIOUS
<1>2. q \in Nat /\ r \in 0 .. 7 /\ q + 1 <= m
  BY <1>1
<1>3. 8 * q + r + 1 <= 8 * m
  BY <1>2
<1>4. (8 * q + r) \div 8 = q /\ (8 * q + r) % 8 = r
  BY <1>2
<1>5. 8 * (i - 1) + j = 8 * q + r + 1 /\ (8 * (i - 1) + j) - 1 = 8 * q + r
  BY <1>1, <1>2
<1> QED
  BY <1>1, <1>2, <1>3, <1>4, <1>5

LEMMA PlaceInRange ==
  ASSUME NEW m \in Nat, NEW n \in 1 .. 8 * m
  PROVE  ((n - 1) \div 8) + 1 \in 1 .. m /\ ((n - 1) % 8) + 1 \in Nat
OBVIOUS

LEMMA SizesPack ==
  ASSUME Typed, StreamOK(Len(stream), Len(picture) + 1),
         stream' = stream \o [n \in 1 .. 8 * Len(frames) |->
                                <<frames[((n - 1) \div 8) + 1], ((n - 1) % 8) + 1>>],
         frames' = frames, picture' = picture
  PROVE  /\ stream' \in Seq(Nat \X Nat)
         /\ Len(stream') = Len(stream) + 8 * Len(frames)
         /\ StreamOK(Body, Len(picture) + 1)'
         /\ \A i \in 1 .. Len(frames) : \A j \in 1 .. 8 :
              stream'[Body' + 8 * (i - 1) + j] = <<frames[i], j>>
<1>1. PICK m, b, d : m = Len(frames) /\ b = Len(stream) /\ d = Len(picture) + 1
  OBVIOUS
<1>2. m \in Nat /\ b \in Nat
  BY <1>1, LenProperties DEF Typed
<1>3. PICK more : more = [n \in 1 .. 8 * m |-> <<frames[((n - 1) \div 8) + 1], ((n - 1) % 8) + 1>>]
  OBVIOUS
<1>4. \A i \in 1 .. m : frames[i] \in Nat
  BY <1>1, ElementOfSeq DEF Typed
<1>5. more \in [1 .. 8 * m -> Nat \X Nat]
  BY <1>2, <1>3, <1>4, PlaceInRange
<1>6. more \in Seq(Nat \X Nat)
  BY <1>2, <1>5, SeqDef
<1>7. Len(more) = 8 * m
  BY <1>2, <1>5, <1>6, LenProperties
<1>8. stream' = stream \o more
  BY <1>1, <1>3
<1>9. /\ StreamOK(b, d)' /\ Len(stream') = b + 8 * m /\ stream' \in Seq(Nat \X Nat)
      /\ \A i \in 1 .. 8 * m : stream'[b + i] = more[i]
  BY <1>1, <1>2, <1>6, <1>7, <1>8, StreamGrows
<1>10. Body' = b
  BY <1>1, <1>2, <1>9 DEF Body
<1>11. Len(picture') + 1 = d
  BY <1>1
<1>12. ASSUME NEW i \in 1 .. m, NEW j \in 1 .. 8
       PROVE  stream'[b + 8 * (i - 1) + j] = <<frames[i], j>>
  <2>1. PICK n : n = 8 * (i - 1) + j
    OBVIOUS
  <2>2. n \in 1 .. 8 * m /\ ((n - 1) \div 8) + 1 = i /\ ((n - 1) % 8) + 1 = j
    BY <1>2, <2>1, PlaceOfSize
  <2>3. b + 8 * (i - 1) + j = b + n
    BY <1>2, <2>1, <2>2
  <2>4. more[n] = <<frames[i], j>>
    BY <1>3, <2>2
  <2> QED
    BY <1>9, <2>2, <2>3, <2>4
<1> QED
  BY <1>1, <1>9, <1>10, <1>11, <1>12

LEMMA SizeIsThere ==
  ASSUME Typed, Packed, NEW n \in 1 .. Len(frames)
  PROVE  SizeAt(Body + 8 * (n - 1)) = frames[n]
<1>1. PICK k, first : k = frames[n] /\ first = Body + 8 * (n - 1)
  OBVIOUS
<1>2. /\ Len(frames) \in Nat /\ Len(stream) \in Nat /\ Len(picture) \in Nat
      /\ Body \in 0 .. Len(stream) /\ Len(stream) = Body + 8 * Len(frames)
  BY LenProperties DEF Typed, Packed, StreamOK, Body
<1>3. k \in 1 .. Len(picture)
  BY SMTT(30), <1>1, <1>2 DEF Packed, FramesOK
<1>4. \A j \in 1 .. 8 : first + j \in 1 .. Len(stream) /\ stream[first + j] = <<k, j>>
  <2> SUFFICES ASSUME NEW j \in 1 .. 8
               PROVE  first + j \in 1 .. Len(stream) /\ stream[first + j] = <<k, j>>
    OBVIOUS
  <2>1. first + j \in 1 .. Len(stream)
    BY <1>1, <1>2
  <2>2. stream[Body + 8 * (n - 1) + j] = <<frames[n], j>>
    BY DEF Packed
  <2> QED
    BY <1>1, <2>1, <2>2
<1>5. Load(first, 8) = Bytes(k, 8)
  BY <1>4 DEF Load, Bytes
<1>6. \A l \in 1 .. Len(picture) : Bytes(k, 8) = Bytes(l, 8) => l = k
  <2> SUFFICES ASSUME NEW l \in 1 .. Len(picture), Bytes(k, 8) = Bytes(l, 8) PROVE l = k
    OBVIOUS
  <2>1. Bytes(k, 8)[1] = <<k, 1>> /\ Bytes(l, 8)[1] = <<l, 1>>
    BY DEF Bytes
  <2> QED
    BY <2>1
<1>7. SizeAt(first) = k
  <2>1. PICK loaded : loaded = Load(first, 8)
    OBVIOUS
  <2>2. \A l \in 1 .. Len(picture) : loaded = Bytes(l, 8) <=> l = k
    BY <1>3, <1>5, <1>6, <2>1
  <2>3. (CHOOSE l \in 1 .. Len(picture) : loaded = Bytes(l, 8)) = k
    BY <1>3, <2>2
  <2> QED
    BY <1>3, <2>1, <2>2, <2>3 DEF SizeAt
<1> QED
  BY <1>1, <1>7

-----------------------------------------------------------------------------
(* Taking one element out. *)

(* In step, the bytes at ppos are those of the number the loop is at. *)
LEMMA NumberReceives ==
  ASSUME Typed, Packed, NumbersInStep, at <= Len(picture), Letter \in Numbers,
         \A m \in Declined(Numbers) : m >= at
  PROVE  /\ Load(ppos, SizeOf(Letter)) = Bytes(at, SizeOf(Letter))
         /\ ppos + Width(Letter) \in 0 .. Body
         /\ \A i \in 1 .. Body : i <= ppos + Width(Letter) <=> stream[i][1] < at + 1
<1>1. PICK b, w, s, k : b = Body /\ w = Width(Letter) /\ s = SizeOf(Letter) /\ k = at
  OBVIOUS
<1>2. w \in 1 .. 8 /\ s \in 1 .. w
  BY <1>1, Widths
<1>3. /\ Len(picture) \in Nat /\ Len(stream) \in Nat /\ k \in 1 .. Len(picture)
      /\ picture[k] \in Numbers /\ picture[k] = Letter
  BY <1>1, LenProperties DEF Typed, Letter
<1>4. b \in 0 .. Len(stream)
  BY <1>1 DEF Packed, StreamOK
<1>5. PICK p \in Nat : Block(k, p, b)
  <2>1. k \in 1 .. (Len(picture) + 1) - 1
    BY <1>3
  <2> QED
    BY <1>1, <1>3, <2>1 DEF Packed, StreamOK
<1>6. /\ p \in Nat /\ p + w <= b
      /\ \A j \in 1 .. w : stream[p + j] = <<k, j>>
      /\ \A i \in 1 .. p : stream[i][1] < k
      /\ \A i \in 1 .. b : i > p + w => stream[i][1] > k
  BY <1>1, <1>3, <1>5 DEF Block
<1>7. \A i \in 1 .. b : stream[i][1] \in Nat
  BY <1>1 DEF Packed, StreamOK
<1>8. ppos \in 0 .. b /\ \A i \in 1 .. b : i <= ppos <=> stream[i][1] < k
  BY <1>1 DEF NumbersInStep
<1>9. ppos = p
  <2>1. ~(p + 1 <= ppos)
    <3>1. stream[p + 1] = <<k, 1>> /\ p + 1 \in 1 .. b
      BY <1>2, <1>4, <1>6
    <3> QED
      BY <1>3, <1>8, <3>1
  <2>2. p = 0 \/ p <= ppos
    <3>1. p # 0 => p \in 1 .. p /\ p \in 1 .. b
      BY <1>2, <1>4, <1>6
    <3> QED
      BY <1>6, <1>8, <3>1
  <2> QED
    BY <1>4, <1>6, <1>8, <2>1, <2>2
<1>10. Load(ppos, s) = Bytes(k, s)
  <2>1. \A j \in 1 .. s : p + j \in 1 .. Len(stream) /\ stream[p + j] = <<k, j>>
    <3>1. \A j \in 1 .. s : j \in 1 .. w /\ p + j \in 1 .. Len(stream)
      BY <1>2, <1>3, <1>4, <1>6
    <3> QED
      BY <1>6, <3>1
  <2> QED
    BY <1>9, <2>1 DEF Load, Bytes
<1>11. p + w \in 0 .. b
  BY <1>2, <1>4, <1>6
<1>12. ASSUME NEW i \in 1 .. b PROVE i <= p + w <=> stream[i][1] < k + 1
  <2>1. CASE i \in 1 .. p
    <3>1. stream[i][1] < k /\ stream[i][1] \in Nat
      BY <1>6, <1>7, <1>12, <2>1
    <3>2. i <= p + w
      BY <1>2, <1>6, <2>1
    <3> QED
      BY <1>3, <3>1, <3>2
  <2>2. CASE i > p /\ i <= p + w
    <3>1. i - p \in 1 .. w /\ p + (i - p) = i
      BY <1>2, <1>6, <2>2
    <3>2. stream[i][1] = k
      BY <1>6, <3>1
    <3> QED
      BY <1>3, <2>2, <3>2
  <2>3. CASE i > p + w
    BY <1>2, <1>3, <1>6, <1>7, <2>3
  <2> QED
    BY <1>2, <1>4, <1>6, <2>1, <2>2, <2>3
<1> QED
  BY <1>1, <1>9, <1>10, <1>11, <1>12

(* An element of the picture that is not taken for a number leaves the      *)
(* receiver where it is in the stream.                                      *)
LEMMA NoNumberHere ==
  ASSUME Typed, Packed, NumbersInStep, at <= Len(picture), Letter \notin Numbers,
         \A m \in Declined(Numbers) : m >= at
  PROVE  ppos \in 0 .. Body /\ \A i \in 1 .. Body : i <= ppos <=> stream[i][1] < at + 1
<1>1. at \in Nat
  BY LenProperties DEF Typed
<1>2. \A i \in 1 .. Body : stream[i][1] \in Nat /\ stream[i][1] # at
  BY DEF Packed, StreamOK, Letter
<1> QED
  BY <1>1, <1>2 DEF NumbersInStep

(* The elements that are chunks, and how many there are. *)
Chunks == {k \in 1 .. Len(picture) : picture[k] = "b"}

LEMMA ChunksCounted ==
  ASSUME Typed, FramesOK(Len(picture) + 1)
  PROVE  IsFiniteSet(Chunks) /\ Cardinality(Chunks) = Len(frames)
<1>1. Len(frames) \in Nat /\ Len(picture) \in Nat
  BY LenProperties DEF Typed
<1>2. PICK f : f = [i \in 1 .. Len(frames) |-> frames[i]]
  OBVIOUS
<1>3. f \in [1 .. Len(frames) -> Chunks]
  BY <1>1, <1>2 DEF FramesOK, Chunks
<1>4. \A i, j \in 1 .. Len(frames) : f[i] = f[j] => i = j
  <2> SUFFICES ASSUME NEW i \in 1 .. Len(frames), NEW j \in 1 .. Len(frames), i < j
               PROVE  f[i] # f[j]
    BY <1>1
  <2>1. frames[i] < frames[j] /\ frames[i] \in Int /\ frames[j] \in Int
    BY <1>1 DEF FramesOK
  <2> QED
    BY <1>2, <2>1
<1>5. \A k \in Chunks : \E i \in 1 .. Len(frames) : f[i] = k
  BY <1>1, <1>2 DEF FramesOK, Chunks
<1>6. f \in Bijection(1 .. Len(frames), Chunks)
  BY <1>3, <1>4, <1>5, Fun_IsBij
<1>7. ExistsBijection(1 .. Len(frames), Chunks)
  BY <1>6 DEF ExistsBijection
<1>8. IsFiniteSet(1 .. Len(frames)) /\ Cardinality(1 .. Len(frames)) = Len(frames)
  <2>1. PICK m : m = Len(frames)
    OBVIOUS
  <2>2. /\ IsFiniteSet(1 .. m)
        /\ Cardinality(1 .. m) = IF 1 > m THEN 0 ELSE m - 1 + 1
    <3>1. 1 \in Int /\ m \in Int
      BY <1>1, <2>1
    <3> QED
      BY <3>1, FS_Interval
  <2> QED
    BY <1>1, <2>1, <2>2
<1> QED
  BY <1>7, <1>8, FS_Bijection

(* In step, the frame that is next is that of the chunk the loop is at. *)
LEMMA ChunkReceives ==
  ASSUME Typed, Packed, ChunksInStep, at <= Len(picture), Letter = "b",
         payload_frame_id \in 1 .. Len(frames) + 1,
         \A m \in Declined({"b"}) : m >= at
  PROVE  /\ payload_frame_id \in 1 .. Len(frames)
         /\ frames[payload_frame_id] = at
         /\ \A i \in 1 .. Len(frames) : i < payload_frame_id + 1 <=> frames[i] < at + 1
<1>1. PICK q, m, k : q = payload_frame_id /\ m = Len(frames) /\ k = at
  OBVIOUS
<1>2. m \in Nat /\ q \in 1 .. m + 1 /\ Len(picture) \in Nat /\ k \in 1 .. Len(picture)
  BY <1>1, LenProperties DEF Typed
<1>3. \A i \in 1 .. m : frames[i] \in Nat /\ (i < q <=> frames[i] < k)
  BY <1>1, <1>2 DEF ChunksInStep, Packed, FramesOK
<1>4. PICK i \in 1 .. m : frames[i] = k
  <2>1. k \in 1 .. (Len(picture) + 1) - 1
    BY <1>2
  <2> QED
    BY <1>1, <2>1 DEF Packed, FramesOK, Letter
<1>5. \A j, l \in 1 .. m : j < l => frames[j] < frames[l]
  BY <1>1 DEF Packed, FramesOK
<1>6. q <= i
  BY <1>2, <1>3, <1>4
<1>7. q = i
  BY <1>2, <1>3, <1>4, <1>5, <1>6
<1>8. \A j \in 1 .. m : j < q + 1 <=> frames[j] < k + 1
  <2> SUFFICES ASSUME NEW j \in 1 .. m PROVE j < q + 1 <=> frames[j] < k + 1
    OBVIOUS
  <2>1. CASE j < q
    BY <1>2, <1>3, <2>1
  <2>2. CASE j = q
    BY <1>2, <1>4, <1>7, <2>2
  <2>3. CASE j > q
    <3>1. frames[q] < frames[j] /\ frames[q] = k
      BY <1>4, <1>5, <1>7, <2>3
    <3> QED
      BY <1>2, <1>3, <2>3, <3>1
  <2> QED
    BY <1>2, <2>1, <2>2, <2>3
<1> QED
  BY <1>1, <1>4, <1>7, <1>8

LEMMA NoChunkHere ==
  ASSUME Typed, Packed, ChunksInStep, at <= Len(picture), Letter # "b",
         \A m \in Declined({"b"}) : m >= at
  PROVE  \A i \in 1 .. Len(frames) : i < payload_frame_id <=> frames[i] < at + 1
<1>1. at \in Nat
  BY LenProperties DEF Typed
<1>2. \A i \in 1 .. Len(frames) : frames[i] \in Nat /\ frames[i] # at
  BY DEF Packed, FramesOK, Letter
<1> QED
  BY <1>1, <1>2 DEF ChunksInStep

(* A chunk is taken only while one is left: the receiver has taken no more  *)
(* than the chunks it has met.                                              *)
LEMMA ChunkIsLeft ==
  ASSUME Typed, Packed, at <= Len(picture), at \in wanted,
         payload_frame_id \in Nat, payload_frame_id - 1 = Cardinality(Taken(at))
  PROVE  /\ Letter = "b" =>
              /\ payload_frame_id <= Len(frames)
              /\ Cardinality(Taken(at + 1)) = payload_frame_id
         /\ Letter # "b" => Taken(at + 1) = Taken(at)
<1>1. PICK k, m : k = at /\ m = Len(frames)
  OBVIOUS
<1>2. m \in Nat /\ Len(picture) \in Nat /\ k \in 1 .. Len(picture) /\ wanted \subseteq 1 .. Len(picture)
  BY <1>1, LenProperties DEF Typed
<1>3. IsFiniteSet(Chunks) /\ Cardinality(Chunks) = m
  BY <1>1, ChunksCounted DEF Packed
<1>4. Taken(k) \subseteq Chunks /\ k \notin Taken(k)
  <2>1. \A x \in Taken(k) : x \in wanted /\ picture[x] = "b" /\ x < k
    BY DEF Taken
  <2>2. k \notin Taken(k)
    BY <1>2, <2>1
  <2>3. \A x \in Taken(k) : x \in 1 .. Len(picture)
    BY <1>2, <2>1
  <2> QED
    BY <2>1, <2>2, <2>3 DEF Chunks
<1>b. ASSUME NEW x PROVE x \in Taken(k + 1) <=> x \in Taken(k) \/ (x = k /\ Letter = "b")
  <2>1. x \in wanted => (x < k + 1 <=> x < k \/ x = k)
    BY <1>2
  <2> QED
    BY <1>1, <2>1 DEF Taken, Letter
<1>5. CASE Letter = "b"
  <2>1. k \in Chunks
    BY <1>1, <1>2, <1>5 DEF Chunks, Letter
  <2>2. Taken(k + 1) = Taken(k) \cup {k}
    BY <1>5, <1>b
  <2>3. IsFiniteSet(Taken(k))
    BY <1>3, <1>4, FS_Subset
  <2>4. Cardinality(Taken(k + 1)) = Cardinality(Taken(k)) + 1
    BY <1>4, <2>2, <2>3, FS_AddElement
  <2>5. Cardinality(Taken(k + 1)) <= m
    BY <1>3, <1>4, <2>1, <2>2, FS_Subset
  <2> QED
    BY <1>1, <1>2, <1>5, <2>4, <2>5
<1>6. CASE Letter # "b"
  <2>1. Taken(k + 1) = Taken(k)
    BY <1>6, <1>b
  <2> QED
    BY <1>1, <1>6, <2>1
<1> QED
  BY <1>5, <1>6

LEMMA ChunkPassedOver ==
  ASSUME Typed, at <= Len(picture), at \notin wanted
  PROVE  Taken(at + 1) = Taken(at)
<1>1. Len(picture) \in Nat /\ at \in 1 .. Len(picture) /\ wanted \subseteq 1 .. Len(picture)
  BY LenProperties DEF Typed
<1>2. \A x \in wanted : x < at + 1 <=> x < at
  BY <1>1
<1> QED
  BY <1>2 DEF Taken

LEMMA PayloadTaken ==
  ASSUME Typed, Packed, NEW q \in 1 .. Len(frames)
  PROVE  Payloads(q) \ {<<"payload", frames[q]>>} = Payloads(q + 1)
<1>1. PICK m : m = Len(frames)
  OBVIOUS
<1>2. m \in Nat /\ Len(picture) \in Nat
  BY <1>1, LenProperties DEF Typed
<1>3. \A i \in q + 1 .. m : frames[q] < frames[i] /\ frames[q] \in Int /\ frames[i] \in Int
  BY <1>1, <1>2 DEF Packed, FramesOK
<1>4. \A i \in q + 1 .. m : frames[i] # frames[q]
  BY <1>3
<1>5. \A i \in q .. m : i = q \/ i \in q + 1 .. m
  BY <1>1, <1>2
<1>6. q + 1 .. m \subseteq q .. m
  BY <1>1, <1>2
<1> QED
  BY <1>1, <1>4, <1>5, <1>6 DEF Payloads

-----------------------------------------------------------------------------
(* The steps of the sender. *)

LEMMA InitMInv == Init => MInv
<1> SUFFICES ASSUME Init PROVE MInv
  OBVIOUS
<1>1. PICK n \in 0 .. MaxElements : picture \in [1 .. n -> Letters]
  BY DEF Init
<1>2. n \in Nat /\ picture \in Seq(Letters)
  BY <1>1, MsgAssumption, SeqDef
<1>3. Len(picture) = n /\ DOMAIN picture = 1 .. n
  BY <1>1, <1>2, LenProperties
<1>4. stream \in Seq(Nat \X Nat) /\ frames \in Seq(Nat) /\ Len(stream) = 0 /\ Len(frames) = 0
  BY EmptySeq DEF Init
<1>5. Typed
  BY <1>2, <1>3, <1>4 DEF Init, Typed
<1>6. StreamOK(Len(stream), at) /\ FramesOK(at)
  BY <1>4 DEF Init, StreamOK, FramesOK
<1>7. Packing
  BY <1>4, <1>6 DEF Init, Packing
<1> QED
  BY <1>5, <1>7 DEF Init, MInv, BufferEnough

LEMMA PackedNumber ==
  ASSUME Typed, Packing, More, Letter \in Numbers,
         stream' = stream \o Bytes(at, Width(Letter)), at' = at + 1,
         UNCHANGED <<content, frames, ppos, payload_frame_id, heap>>
  PROVE  /\ Packing'
         /\ stream' \in Seq(Nat \X Nat)
         /\ Len(stream') \in Nat /\ Len(stream') <= 8 * Len(picture)
<1>1. PICK b, n, w : b = Len(stream) /\ n = at /\ w = Width(Letter)
  OBVIOUS
<1>2. b \in Nat /\ Len(frames) \in Nat /\ Len(picture) \in Nat /\ n \in Nat \ {0} /\ n <= Len(picture)
  BY <1>1, LenProperties DEF Typed, More
<1>3. w \in 1 .. 8 /\ picture[n] \in Numbers /\ Letter = picture[n] /\ Letter # "b"
  BY <1>1, Widths DEF Letter, Numbers
<1>4. StreamOK(b, n) /\ FramesOK(n) /\ b + 8 * Len(frames) <= 8 * (n - 1)
  BY <1>1 DEF Packing
<1>5. picture' = picture /\ frames' = frames /\ carrier' = carrier
  BY DEF content
<1>6. /\ stream' \in Seq(Nat \X Nat) /\ Len(stream') = b + w
      /\ StreamOK(b + w, n + 1)'
  BY <1>1, <1>2, <1>3, <1>4, <1>5, NumberPacks
<1>7. FramesOK(n + 1)'
  BY <1>2, <1>3, <1>4, <1>5, FramesStay
<1>8. StreamOK(Len(stream), at)' /\ FramesOK(at)'
  <2>1. PICK c, d : c = b + w /\ d = n + 1
    OBVIOUS
  <2>2. Len(stream') = c /\ at' = d /\ StreamOK(c, d)' /\ FramesOK(d)'
    BY <1>1, <1>6, <1>7, <2>1
  <2> QED
    BY <2>2 DEF StreamOK, FramesOK
<1>9. Len(stream') + 8 * Len(frames') <= 8 * (at' - 1)
  <2>1. (b + w) + 8 * Len(frames) <= 8 * ((n + 1) - 1)
    BY <1>2, <1>3, <1>4
  <2> QED
    BY <1>1, <1>5, <1>6, <2>1
<1> QED
  BY SMTT(30), <1>1, <1>2, <1>3, <1>4, <1>5, <1>6, <1>8, <1>9 DEF Packing

LEMMA VsetStep == ASSUME MInv, Vset PROVE MInv'
<1>1. Typed /\ Packing /\ More /\ pc = "pack" /\ carrier = "msg" /\ Len(picture) \in Nat
  BY LenProperties DEF MInv, Vset, Typed
<1>2. /\ picture' = picture /\ wanted' = wanted /\ carrier' = carrier
      /\ UNCHANGED <<content, ppos, payload_frame_id, heap, out>>
  BY DEF Vset, content
<1>3. CASE Letter \in Numbers /\ Store(Bytes(at, Width(Letter)), MsgRoom) /\ UNCHANGED frames
  <2>1. /\ stream' = stream \o Bytes(at, Width(Letter)) /\ at' = at + 1
        /\ pc' = IF Len(stream') > MsgRoom THEN "overrun" ELSE pc
    BY <1>3 DEF Store
  <2>2. /\ Packing' /\ stream' \in Seq(Nat \X Nat)
        /\ Len(stream') \in Nat /\ Len(stream') <= 8 * Len(picture)
    BY <1>1, <1>2, <1>3, <2>1, PackedNumber
  <2>3. pc' = "pack"
    BY <1>1, <2>1, <2>2 DEF MsgRoom
  <2>4. at' \in 1 .. Len(picture') + 1
    BY <1>1, <1>2, <2>1 DEF Typed, More
  <2>5. Typed'
    BY <1>1, <1>2, <1>3, <2>2, <2>3, <2>4 DEF Typed
  <2> QED
    BY <2>2, <2>3, <2>5 DEF MInv, BufferEnough
<1>4. CASE Letter \notin Numbers /\ Invalid
  <2>1. pc' = "exit" /\ UNCHANGED <<at, stream, frames>>
    BY <1>4 DEF Invalid
  <2>2. Typed'
    BY <1>1, <1>2, <2>1 DEF Typed
  <2> QED
    BY <2>1, <2>2 DEF MInv, BufferEnough
<1> QED
  BY <1>3, <1>4 DEF Vset

LEMMA SerializeStep == ASSUME MInv, Serialize PROVE MInv'
<1>1. Typed /\ Packing /\ More /\ pc = "pack" /\ carrier = "sock" /\ Len(picture) \in Nat
  BY LenProperties DEF MInv, Serialize, Typed
<1>2. /\ picture' = picture /\ wanted' = wanted /\ carrier' = carrier
      /\ UNCHANGED <<content, ppos, payload_frame_id, heap, out>>
  BY DEF Serialize, content
<1>3. CASE Letter \in Numbers /\ Store(Bytes(at, Width(Letter)), SockRoom) /\ UNCHANGED frames
  <2>1. /\ stream' = stream \o Bytes(at, Width(Letter)) /\ at' = at + 1
        /\ pc' = IF Len(stream') > SockRoom THEN "overrun" ELSE pc
    BY <1>3 DEF Store
  <2>2. /\ Packing' /\ stream' \in Seq(Nat \X Nat)
        /\ Len(stream') \in Nat /\ Len(stream') <= 8 * Len(picture)
    BY <1>1, <1>2, <1>3, <2>1, PackedNumber
  <2>3. pc' = "pack" \/ (pc' = "overrun" /\ Len(stream') > SockRoom)
    BY <1>1, <2>1
  <2>4. pc' = "overrun" => 8 * Len(picture') > SockRoom
    BY <1>1, <1>2, <2>2, <2>3, MsgAssumption DEF SockRoom
  <2>5. at' \in 1 .. Len(picture') + 1
    BY <1>1, <1>2, <2>1 DEF Typed, More
  <2>6. Typed'
    BY <1>1, <1>2, <1>3, <2>2, <2>3, <2>5 DEF Typed
  <2> QED
    BY <1>1, <1>2, <2>2, <2>3, <2>4, <2>6 DEF MInv, BufferEnough, SockRoom
<1>4. CASE Letter = "b" /\ frames' = Append(frames, at) /\ at' = at + 1 /\ UNCHANGED <<pc, stream>>
  <2>1. PICK n, b : n = at /\ b = Len(stream)
    OBVIOUS
  <2>2. /\ n \in Nat \ {0} /\ n <= Len(picture) /\ picture[n] = "b" /\ picture[n] \notin Numbers
        /\ b \in Nat /\ Len(frames) \in Nat
    BY <1>1, <1>4, <2>1, LenProperties DEF Typed, More, Letter, Numbers
  <2>3. StreamOK(b, n) /\ FramesOK(n) /\ b + 8 * Len(frames) <= 8 * (n - 1)
    BY <1>1, <2>1 DEF Packing
  <2>4. FramesOK(n + 1)' /\ Len(frames') = Len(frames) + 1 /\ frames' \in Seq(Nat)
    BY <1>1, <1>2, <1>4, <2>1, <2>2, <2>3, FramesGrow
  <2>5. StreamOK(b, n + 1)'
    BY <1>2, <1>4, <2>2, <2>3, StreamStays
  <2>6. StreamOK(Len(stream), at)' /\ FramesOK(at)'
    <3>1. PICK d : d = n + 1
      OBVIOUS
    <3>2. Len(stream') = b /\ at' = d /\ StreamOK(b, d)' /\ FramesOK(d)'
      BY <1>4, <2>1, <2>4, <2>5, <3>1
    <3> QED
      BY <3>2 DEF StreamOK, FramesOK
  <2>7. Len(stream') + 8 * Len(frames') <= 8 * (at' - 1)
    BY <1>4, <2>1, <2>2, <2>3, <2>4
  <2>8. Packing'
    BY <1>1, <1>2, <2>6, <2>7 DEF Packing
  <2>9. at' \in 1 .. Len(picture') + 1
    BY <1>1, <1>2, <1>4 DEF Typed, More
  <2>10. Typed'
    BY <1>1, <1>2, <1>4, <2>4, <2>9 DEF Typed
  <2> QED
    BY <1>1, <1>4, <2>8, <2>10 DEF MInv, BufferEnough
<1>5. CASE Letter \notin Numbers \cup {"b"} /\ Invalid
  <2>1. pc' = "exit" /\ UNCHANGED <<at, stream, frames>>
    BY <1>5 DEF Invalid
  <2>2. Typed'
    BY <1>1, <1>2, <2>1 DEF Typed
  <2> QED
    BY <2>1, <2>2 DEF MInv, BufferEnough
<1> QED
  BY <1>3, <1>4, <1>5 DEF Serialize

LEMMA SetPictureStep == ASSUME MInv, SetPicture PROVE MInv'
<1>1. /\ Typed /\ Packing /\ pc = "pack" /\ carrier = "msg" /\ Len(picture) \in Nat
      /\ at = Len(picture) + 1
  BY LenProperties DEF MInv, SetPicture, Typed, More
<1>2. /\ picture' = picture /\ wanted' = wanted /\ carrier' = carrier /\ pc' = "unpack" /\ at' = 1
      /\ UNCHANGED <<stream, frames, array, ppos, payload_frame_id, out, heap>>
  BY DEF SetPicture, content
<1>3. frames = <<>> /\ Len(frames) = 0 /\ Len(stream) \in Nat
  BY <1>1, LenProperties DEF Typed
<1>4. Body = Len(stream)
  BY <1>3 DEF Body
<1>5. Typed'
  BY <1>1, <1>2 DEF Typed
<1>6. Packed
  BY <1>1, <1>3, <1>4 DEF Packing, Packed
<1>7. Packed'
  BY <1>2, <1>6 DEF Packed, StreamOK, FramesOK, Block, Body
<1>8. \A i \in 1 .. Body : stream[i][1] \in 1 .. Len(picture)
  BY <1>1, <1>4 DEF Packing, StreamOK
<1>9. ppos = 0 /\ Body \in Nat
  BY <1>1, <1>3, <1>4 DEF Packing
<1>10. NumbersInStep'
  <2>1. ppos' \in 0 .. Body' /\ Body' = Body
    BY <1>2, <1>9 DEF Body
  <2>2. \A i \in 1 .. Body : ~(i <= ppos') /\ ~(stream'[i][1] < at')
    BY <1>2, <1>8, <1>9
  <2> QED
    BY <2>1, <2>2 DEF NumbersInStep
<1>11. ChunksInStep'
  BY <1>2, <1>3 DEF ChunksInStep
<1>12. Received'
  <2>1. \A k \in wanted' : ~(k < at')
    BY <1>1, <1>2 DEF Typed
  <2> QED
    BY <2>1 DEF Received
<1>13. Kept'
  BY <1>1, <1>2 DEF Packing, Kept
<1> QED
  BY <1>2, <1>5, <1>7, <1>10, <1>11, <1>12, <1>13 DEF MInv, BufferEnough

LEMMA SerializeSizesStep == ASSUME MInv, SerializeSizes PROVE MInv'
<1>1. /\ Typed /\ Packing /\ pc = "pack" /\ carrier = "sock" /\ Len(picture) \in Nat
      /\ at = Len(picture) + 1
  BY LenProperties DEF MInv, SerializeSizes, Typed, More
<1>2. /\ picture' = picture /\ wanted' = wanted /\ carrier' = carrier /\ at' = at
      /\ UNCHANGED <<frames, array, ppos, payload_frame_id, out, heap>>
      /\ pc' = IF Len(stream') > SockRoom THEN "overrun" ELSE "sent"
      /\ stream' = stream \o [n \in 1 .. 8 * Len(frames) |->
                                <<frames[((n - 1) \div 8) + 1], ((n - 1) % 8) + 1>>]
  BY DEF SerializeSizes, content
<1>3. /\ stream' \in Seq(Nat \X Nat)
      /\ Len(stream') = Len(stream) + 8 * Len(frames)
      /\ StreamOK(Body, Len(picture) + 1)'
      /\ \A i \in 1 .. Len(frames) : \A j \in 1 .. 8 :
           stream'[Body' + 8 * (i - 1) + j] = <<frames[i], j>>
  BY <1>1, <1>2, SizesPack DEF Packing
<1>4. Typed'
  BY <1>1, <1>2, <1>3 DEF Typed
<1>5. FramesOK(Len(picture) + 1)'
  BY <1>1, <1>2 DEF Packing, FramesOK
<1>6. Packed'
  BY <1>2, <1>3, <1>5 DEF Packed
<1>7. pc' = "overrun" => 8 * Len(picture) > SockRoom
  <2>1. Len(stream') \in Nat /\ Len(stream') <= 8 * Len(picture)
    BY <1>1, <1>3, LenProperties DEF Packing
  <2> QED
    BY <1>1, <1>2, <2>1, MsgAssumption DEF SockRoom
<1>8. heap' = {} /\ ppos' = 0 /\ payload_frame_id' = 1
  BY <1>1, <1>2 DEF Packing
<1> QED
  BY <1>1, <1>2, <1>4, <1>6, <1>7, <1>8 DEF MInv, BufferEnough, SockRoom

LEMMA OnPictureStep == ASSUME MInv, OnPicture PROVE MInv'
<1>1. /\ Typed /\ Packed /\ pc = "sent" /\ carrier = "sock" /\ Len(picture) \in Nat
      /\ heap = {} /\ ppos = 0 /\ payload_frame_id = 1
  BY LenProperties DEF MInv, OnPicture, Typed
<1>2. /\ picture' = picture /\ wanted' = wanted /\ carrier' = carrier /\ pc' = "unpack" /\ at' = 1
      /\ UNCHANGED <<stream, frames, ppos, payload_frame_id, out>>
      /\ array' = [n \in 1 .. Len(frames) |->
                     [chunk |-> frames[n], size |-> SizeAt(Body + 8 * (n - 1))]]
      /\ heap' = heap \cup {<<"array">>, <<"copy">>}
                   \cup {<<"payload", frames[n]>> : n \in 1 .. Len(frames)}
  BY DEF OnPicture, content, Body
<1>3. Typed'
  BY <1>1, <1>2 DEF Typed
<1>4. Packed'
  BY <1>1, <1>2 DEF Packed, StreamOK, FramesOK, Block, Body
<1>5. Body \in Nat /\ Len(frames) \in Nat
  BY <1>1, LenProperties DEF Packed, StreamOK, Typed
<1>6. NumbersInStep'
  <2>1. ppos' \in 0 .. Body' /\ Body' = Body
    BY <1>1, <1>2, <1>5 DEF Body
  <2>2. \A i \in 1 .. Body : stream[i][1] \in 1 .. (Len(picture) + 1) - 1
    BY <1>1 DEF Packed, StreamOK
  <2>3. \A i \in 1 .. Body : ~(i <= ppos') /\ ~(stream'[i][1] < at')
    BY <1>1, <1>2, <2>2
  <2> QED
    BY <2>1, <2>3 DEF NumbersInStep
<1>7. ChunksInStep'
  <2>1. \A i \in 1 .. Len(frames) : frames[i] \in 1 .. (Len(picture) + 1) - 1
    BY <1>1 DEF Packed, FramesOK
  <2>2. \A i \in 1 .. Len(frames) : ~(i < payload_frame_id') /\ ~(frames'[i] < at')
    BY <1>1, <1>2, <1>5, <2>1
  <2> QED
    BY <1>2, <2>2 DEF ChunksInStep
<1>8. Received'
  <2>1. \A k \in wanted' : ~(k < at')
    BY <1>1, <1>2 DEF Typed
  <2> QED
    BY <2>1 DEF Received
<1>9. Kept'
  <2>1. array' = [i \in 1 .. Len(frames') |-> [chunk |-> frames'[i], size |-> frames'[i]]]
    BY <1>1, <1>2, SizeIsThere
  <2>2. payload_frame_id' \in 1 .. Len(frames') + 1
    BY <1>1, <1>2, <1>5
  <2>3. Taken(at)' = {}
    BY <1>1, <1>2 DEF Taken, Typed
  <2>4. payload_frame_id' - 1 = Cardinality(Taken(at)')
    <3>1. Cardinality({}) = 0 /\ payload_frame_id' - 1 = 0
      BY <1>1, <1>2, FS_EmptySet
    <3> QED
      BY <2>3, <3>1
  <2>5. Payloads(payload_frame_id)' = {<<"payload", frames[n]>> : n \in 1 .. Len(frames)}
    BY <1>1, <1>2 DEF Payloads
  <2>6. heap' = {<<"array">>} \cup {<<"copy">>} \cup Payloads(payload_frame_id)'
    BY <1>1, <1>2, <2>5
  <2> QED
    BY <1>1, <1>2, <2>1, <2>2, <2>4, <2>6 DEF Kept
<1> QED
  BY <1>2, <1>3, <1>4, <1>6, <1>7, <1>8, <1>9 DEF MInv, BufferEnough

-----------------------------------------------------------------------------
(* The steps of the receiver. *)

(* Stepping over an element, what was declined so far includes it or it was *)
(* taken.                                                                   *)
LEMMA NumberStep ==
  ASSUME Typed, Packed, NumbersInStep, Received, More, Number,
         at' = at + 1, UNCHANGED <<content, stream, frames>>
  PROVE  /\ NumbersInStep' /\ Received'
         /\ Letter \in Numbers
         /\ out' = [k \in 1 .. Len(picture) |-> out'[k]]
<1>1. PICK n : n = at
  OBVIOUS
<1>2. /\ Len(picture) \in Nat /\ n \in 1 .. Len(picture) /\ n <= Len(picture)
      /\ wanted \subseteq 1 .. Len(picture)
      /\ out = [k \in 1 .. Len(picture) |-> out[k]]
  BY <1>1, LenProperties DEF Typed, More
<1>3. /\ picture' = picture /\ wanted' = wanted /\ at' = n + 1
      /\ Declined(Numbers)' = Declined(Numbers) /\ Body' = Body
  BY <1>1 DEF content, Declined, Body
<1>4. /\ Letter \in Numbers /\ picture[n] = Letter
      /\ \/ /\ n \in wanted
            /\ out' = [out EXCEPT ![n] = Load(ppos, SizeOf(Letter))]
            /\ ppos' = ppos + Width(Letter)
         \/ n \notin wanted /\ UNCHANGED <<out, ppos>>
  BY <1>1 DEF Number, Letter
<1>5. out' = [k \in 1 .. Len(picture) |-> out'[k]]
  BY <1>2, <1>4
<1>6. \A k \in wanted : k # n => out'[k] = out[k]
  BY <1>2, <1>4
<1>7. Declined(Numbers) \subseteq 1 .. Len(picture)
  BY <1>2 DEF Declined, Typed
<1>8. ASSUME \A m \in Declined(Numbers) : m >= n + 1
      PROVE  /\ n \in wanted
             /\ \A m \in Declined(Numbers) : m >= at
  <2>1. n \notin Declined(Numbers)
    BY <1>2, <1>8
  <2>2. n \in DOMAIN picture
    BY <1>2, LenProperties DEF Typed
  <2>3. n \in wanted
    BY <1>4, <2>1, <2>2 DEF Declined
  <2> QED
    BY <1>1, <1>2, <1>7, <1>8, <2>3
<1>9. NumbersInStep'
  <2>1. SUFFICES ASSUME \A m \in Declined(Numbers) : m >= n + 1
                 PROVE  /\ ppos' \in 0 .. Body
                        /\ \A i \in 1 .. Body : i <= ppos' <=> stream[i][1] < n + 1
    BY <1>3 DEF NumbersInStep
  <2>2. n \in wanted /\ \A m \in Declined(Numbers) : m >= at
    BY <1>8, <2>1
  <2>3. ppos' = ppos + Width(Letter)
    BY <1>4, <2>2
  <2>4. /\ ppos + Width(Letter) \in 0 .. Body
        /\ \A i \in 1 .. Body : i <= ppos + Width(Letter) <=> stream[i][1] < at + 1
    BY <1>1, <1>2, <1>4, <2>2, NumberReceives
  <2> QED
    BY <1>1, <2>3, <2>4
<1>10. Received'
  <2>1. SUFFICES ASSUME NEW S \in {Numbers, {"b"}}, NEW k \in wanted, k < n + 1, picture[k] \in S,
                        \A m \in Declined(S) : m > k
                 PROVE  out'[k] = Sent(k)
    BY <1>3 DEF Received, Declined, Sent, Width, SizeOf, Bytes
  <2>2. CASE k # n
    <3>1. k < n
      BY <1>2, <2>1, <2>2
    <3>2. out[k] = Sent(k)
      BY <1>1, <2>1, <3>1 DEF Received
    <3> QED
      BY <1>6, <2>2, <3>2
  <2>3. CASE k = n
    <3>1. S = Numbers /\ Letter # "b"
      BY <1>4, <2>1, <2>3 DEF Numbers
    <3>2. \A m \in Declined(Numbers) : m >= at
      BY <1>1, <1>2, <1>7, <2>1, <2>3, <3>1
    <3>3. Load(ppos, SizeOf(Letter)) = Bytes(at, SizeOf(Letter))
      BY <1>1, <1>2, <1>4, <3>2, NumberReceives
    <3>4. out'[n] = Load(ppos, SizeOf(Letter))
      BY <1>2, <1>4, <2>3
    <3> QED
      BY <1>1, <1>4, <2>3, <3>1, <3>3, <3>4 DEF Sent
  <2> QED
    BY <2>2, <2>3
<1> QED
  BY <1>4, <1>5, <1>9, <1>10

LEMMA VgetStep == ASSUME MInv, Vget PROVE MInv'
<1>1. /\ Typed /\ Packed /\ NumbersInStep /\ ChunksInStep /\ Received /\ Kept
      /\ pc = "unpack" /\ carrier = "msg" /\ Len(picture) \in Nat /\ More
  BY LenProperties DEF MInv, Vget, Typed
<1>2. /\ picture' = picture /\ wanted' = wanted /\ carrier' = carrier /\ pc' = pc /\ at' = at + 1
      /\ Number
      /\ UNCHANGED <<content, stream, frames, array, payload_frame_id, heap>>
  BY DEF Vget, content
<1>3. /\ NumbersInStep' /\ Received'
      /\ out' = [k \in 1 .. Len(picture) |-> out'[k]]
  BY <1>1, <1>2, NumberStep
<1>4. at' \in 1 .. Len(picture') + 1
  BY <1>1, <1>2 DEF Typed, More
<1>5. Typed'
  BY <1>1, <1>2, <1>3, <1>4 DEF Typed
<1>6. Packed'
  BY <1>1, <1>2 DEF Packed, StreamOK, FramesOK, Block, Body
<1>7. Len(frames') = 0
  BY <1>1, <1>2, LenProperties DEF Typed
<1>8. ChunksInStep'
  BY <1>7 DEF ChunksInStep
<1>9. Kept'
  BY <1>1, <1>2 DEF Kept
<1> QED
  BY <1>1, <1>2, <1>3, <1>5, <1>6, <1>8, <1>9 DEF MInv, BufferEnough

LEMMA VgetEndStep == ASSUME MInv, VgetEnd PROVE MInv'
<1>1. /\ Typed /\ Packed /\ NumbersInStep /\ ChunksInStep /\ Received /\ Kept
      /\ pc = "unpack" /\ carrier = "msg" /\ Len(picture) \in Nat /\ ~More
  BY LenProperties DEF MInv, VgetEnd, Typed
<1>2. /\ picture' = picture /\ wanted' = wanted /\ carrier' = carrier /\ pc' = "done"
      /\ heap' = heap \ {<<"packed">>, <<"msg">>}
      /\ UNCHANGED <<at, stream, frames, array, ppos, payload_frame_id, out>>
  BY DEF VgetEnd, content
<1>3. Typed'
  BY SMTT(30), <1>1, <1>2 DEF Typed, More
<1>4. Packed'
  BY <1>1, <1>2 DEF Packed, StreamOK, FramesOK, Block, Body
<1>5. NumbersInStep' /\ ChunksInStep' /\ Received'
  BY <1>1, <1>2 DEF NumbersInStep, ChunksInStep, Received, Declined, Body, Sent, SizeOf, Width, Bytes
<1>6. heap' = {}
  BY <1>1, <1>2 DEF Kept
<1>7. Kept'
  BY <1>1, <1>2, <1>6 DEF Kept
<1> QED
  BY <1>2, <1>3, <1>4, <1>5, <1>7 DEF MInv, BufferEnough

LEMMA DeserializeEndStep == ASSUME MInv, DeserializeEnd PROVE MInv'
<1>1. /\ Typed /\ Packed /\ NumbersInStep /\ ChunksInStep /\ Received /\ Kept
      /\ pc = "unpack" /\ carrier = "sock" /\ Len(picture) \in Nat /\ ~More
  BY LenProperties DEF MInv, DeserializeEnd, Typed
<1>2. /\ picture' = picture /\ wanted' = wanted /\ carrier' = carrier /\ pc' = "done"
      /\ heap' = heap \ {<<"array">>}
      /\ UNCHANGED <<at, stream, frames, array, ppos, payload_frame_id, out>>
  BY DEF DeserializeEnd, content
<1>3. Typed'
  BY <1>1, <1>2 DEF Typed, More
<1>4. Packed'
  BY <1>1, <1>2 DEF Packed, StreamOK, FramesOK, Block, Body
<1>5. NumbersInStep' /\ ChunksInStep' /\ Received'
  BY <1>1, <1>2 DEF NumbersInStep, ChunksInStep, Received, Declined, Body, Sent, SizeOf, Width, Bytes
<1>6. heap = {<<"array">>} \cup {<<"copy">>} \cup Payloads(payload_frame_id)
  BY <1>1 DEF Kept
<1>7. <<"array">> \notin Payloads(payload_frame_id) /\ <<"array">> # <<"copy">>
  BY DEF Payloads
<1>8. heap' = {<<"copy">>} \cup Payloads(payload_frame_id)
  BY <1>2, <1>6, <1>7
<1>9. Payloads(payload_frame_id)' = Payloads(payload_frame_id) /\ Taken(at)' = Taken(at)
  BY <1>2 DEF Payloads, Taken
<1>10. Kept'
  BY <1>1, <1>2, <1>8, <1>9 DEF Kept
<1> QED
  BY <1>2, <1>3, <1>4, <1>5, <1>10 DEF MInv, BufferEnough

LEMMA DeserializeNumber ==
  ASSUME MInv, Deserialize, Number, UNCHANGED <<heap, payload_frame_id>>
  PROVE  MInv'
<1>1. /\ Typed /\ Packed /\ NumbersInStep /\ ChunksInStep /\ Received /\ Kept
      /\ pc = "unpack" /\ carrier = "sock" /\ Len(picture) \in Nat /\ More
  BY LenProperties DEF MInv, Deserialize, Typed
<1>2. /\ picture' = picture /\ wanted' = wanted /\ carrier' = carrier /\ pc' = pc /\ at' = at + 1
      /\ UNCHANGED <<content, stream, frames, array>>
  BY DEF Deserialize, content
<1>3. /\ NumbersInStep' /\ Received' /\ Letter \in Numbers
      /\ out' = [k \in 1 .. Len(picture) |-> out'[k]]
  BY <1>1, <1>2, NumberStep
<1>4. at' \in 1 .. Len(picture') + 1 /\ at <= Len(picture) /\ at \in Nat
  BY <1>1, <1>2 DEF Typed, More
<1>5. Typed'
  BY <1>1, <1>2, <1>3, <1>4 DEF Typed
<1>6. Packed'
  BY <1>1, <1>2 DEF Packed, StreamOK, FramesOK, Block, Body
<1>7. Letter # "b"
  BY <1>3 DEF Numbers
<1>8. ChunksInStep'
  <2>1. Declined({"b"})' = Declined({"b"}) /\ Declined({"b"}) \subseteq Nat
    BY <1>1, <1>2, LenProperties DEF Declined, Typed
  <2>2. SUFFICES ASSUME \A m \in Declined({"b"}) : m >= at + 1
                 PROVE  \A i \in 1 .. Len(frames) : i < payload_frame_id <=> frames[i] < at + 1
    BY <1>2, <2>1 DEF ChunksInStep
  <2>3. \A m \in Declined({"b"}) : m >= at
    BY <1>4, <2>1, <2>2
  <2> QED
    BY <1>1, <1>4, <1>7, <2>3, NoChunkHere
<1>9. Kept'
  <2>1. Taken(at + 1) = Taken(at)
    <3>1. CASE at \in wanted
      BY <1>1, <1>4, <1>7, <3>1, ChunkIsLeft, LenProperties DEF Kept, Typed
    <3>2. CASE at \notin wanted
      BY <1>1, <1>4, <3>2, ChunkPassedOver
    <3> QED
      BY <3>1, <3>2
  <2>2. Taken(at)' = Taken(at)
    BY <1>2, <2>1 DEF Taken
  <2>3. Payloads(payload_frame_id)' = Payloads(payload_frame_id)
    BY <1>2 DEF Payloads
  <2> QED
    BY <1>1, <1>2, <2>2, <2>3 DEF Kept
<1> QED
  BY <1>1, <1>2, <1>3, <1>5, <1>6, <1>8, <1>9 DEF MInv, BufferEnough

LEMMA DeserializeChunk ==
  ASSUME MInv, Deserialize, Chunk, UNCHANGED ppos
  PROVE  MInv'
<1>1. /\ Typed /\ Packed /\ NumbersInStep /\ ChunksInStep /\ Received /\ Kept
      /\ pc = "unpack" /\ carrier = "sock" /\ Len(picture) \in Nat /\ More
  BY LenProperties DEF MInv, Deserialize, Typed
<1>2. /\ picture' = picture /\ wanted' = wanted /\ carrier' = carrier /\ pc' = pc /\ at' = at + 1
      /\ UNCHANGED <<content, stream, frames, array>>
  BY DEF Deserialize, content
<1>3. PICK n, q, m : n = at /\ q = payload_frame_id /\ m = Len(frames)
  OBVIOUS
<1>4. /\ n \in 1 .. Len(picture) /\ n <= Len(picture) /\ at' \in 1 .. Len(picture') + 1
      /\ m \in Nat /\ q \in 1 .. m + 1 /\ q - 1 = Cardinality(Taken(n))
      /\ out = [k \in 1 .. Len(picture) |-> out[k]] /\ wanted \subseteq 1 .. Len(picture)
  BY <1>1, <1>2, <1>3, LenProperties DEF Typed, More, Kept
<1>5. /\ Letter = "b" /\ picture[n] = "b" /\ Letter \notin Numbers
      /\ \/ /\ n \in wanted
            /\ out' = [out EXCEPT ![n] = array[q]]
            /\ heap' = heap \ {<<"payload", array[q].chunk>>}
            /\ payload_frame_id' = q + 1
         \/ n \notin wanted /\ UNCHANGED <<out, heap, payload_frame_id>>
  BY <1>3 DEF Chunk, Letter, Numbers
<1>6. /\ Declined(Numbers)' = Declined(Numbers) /\ Declined({"b"})' = Declined({"b"})
      /\ Declined(Numbers) \subseteq Nat /\ Declined({"b"}) \subseteq Nat
      /\ Body' = Body
  BY <1>1, <1>2, LenProperties DEF Declined, Typed, Body
<1>7. Typed'
  <2>1. out' = [k \in 1 .. Len(picture) |-> out'[k]]
    BY <1>4, <1>5
  <2> QED
    BY <1>1, <1>2, <1>4, <2>1 DEF Typed
<1>8. Packed'
  BY <1>1, <1>2 DEF Packed, StreamOK, FramesOK, Block, Body
<1>9. NumbersInStep'
  <2>1. SUFFICES ASSUME \A k \in Declined(Numbers) : k >= n + 1
                 PROVE  ppos \in 0 .. Body /\ \A i \in 1 .. Body : i <= ppos <=> stream[i][1] < n + 1
    BY <1>2, <1>3, <1>6 DEF NumbersInStep
  <2>2. \A k \in Declined(Numbers) : k >= at
    BY <1>3, <1>4, <1>6, <2>1
  <2> QED
    BY <1>1, <1>3, <1>4, <1>5, <2>2, NoNumberHere
<1>10. (\A k \in Declined({"b"}) : k >= n + 1) => n \in wanted /\ \A k \in Declined({"b"}) : k >= at
  <2>1. SUFFICES ASSUME \A k \in Declined({"b"}) : k >= n + 1
                 PROVE  n \in wanted /\ \A k \in Declined({"b"}) : k >= at
    OBVIOUS
  <2>2. n \notin Declined({"b"}) /\ n \in DOMAIN picture
    BY <1>1, <1>4, <2>1, LenProperties DEF Typed
  <2> QED
    BY <1>3, <1>4, <1>5, <1>6, <2>1, <2>2 DEF Declined
<1>11. ChunksInStep'
  <2>1. SUFFICES ASSUME \A k \in Declined({"b"}) : k >= n + 1
                 PROVE  \A i \in 1 .. m : i < payload_frame_id' <=> frames[i] < n + 1
    BY <1>2, <1>3, <1>6 DEF ChunksInStep
  <2>2. n \in wanted /\ \A k \in Declined({"b"}) : k >= at
    BY <1>10, <2>1
  <2>3. payload_frame_id' = q + 1
    BY <1>5, <2>2
  <2>4. \A i \in 1 .. m : i < q + 1 <=> frames[i] < n + 1
    BY <1>1, <1>3, <1>4, <1>5, <2>2, ChunkReceives
  <2> QED
    BY <2>3, <2>4
<1>12. \A i \in 1 .. m : array[i] = [chunk |-> frames[i], size |-> frames[i]]
  BY <1>1, <1>3 DEF Kept
<1>13. Received'
  <2>1. SUFFICES ASSUME NEW S \in {Numbers, {"b"}}, NEW k \in wanted, k < n + 1, picture[k] \in S,
                        \A l \in Declined(S) : l > k
                 PROVE  out'[k] = Sent(k)
    <3>1. \A k : Sent(k)' = Sent(k)
      BY <1>2 DEF Sent, Width, SizeOf, Bytes
    <3> QED
      BY <1>2, <1>3, <3>1 DEF Received, Declined
  <2>2. CASE k # n
    <3>1. k < n
      BY <1>4, <2>1, <2>2
    <3>2. out[k] = Sent(k)
      BY <1>1, <1>3, <2>1, <3>1 DEF Received
    <3>3. out'[k] = out[k]
      BY <1>4, <1>5, <2>2
    <3> QED
      BY <3>2, <3>3
  <2>3. CASE k = n
    <3>1. S = {"b"}
      BY <1>5, <2>1, <2>3
    <3>2. \A l \in Declined({"b"}) : l >= at
      BY <1>3, <1>4, <1>6, <2>1, <2>3, <3>1
    <3>3. q \in 1 .. m /\ frames[q] = n
      BY <1>1, <1>3, <1>4, <1>5, <3>2, ChunkReceives
    <3>4. out'[n] = [chunk |-> n, size |-> n]
      BY <1>4, <1>5, <1>12, <2>3, <3>3
    <3> QED
      BY <1>5, <2>3, <3>4 DEF Sent
  <2> QED
    BY <2>2, <2>3
<1>14. array' = [i \in 1 .. Len(frames') |-> [chunk |-> frames'[i], size |-> frames'[i]]]
  BY <1>1, <1>2 DEF Kept
<1>15. heap = {<<"array">>} \cup {<<"copy">>} \cup Payloads(q)
  BY <1>1, <1>3 DEF Kept
<1>16. Taken(at)' = Taken(n + 1)
  BY <1>2, <1>3 DEF Taken
<1>17. \A p : p = payload_frame_id' => Payloads(payload_frame_id)' = Payloads(p)
  BY <1>2 DEF Payloads
<1>18. Kept'
  <2>1. CASE n \in wanted /\ heap' = heap \ {<<"payload", array[q].chunk>>} /\ payload_frame_id' = q + 1
    <3>1. q <= m /\ Cardinality(Taken(n + 1)) = q
      BY <1>1, <1>3, <1>4, <1>5, <2>1, ChunkIsLeft
    <3>2. q \in 1 .. m /\ q + 1 \in 1 .. m + 1 /\ (q + 1) - 1 = q
      BY <1>4, <3>1
    <3>3. array[q].chunk = frames[q]
      <4>1. array[q] = [chunk |-> frames[q], size |-> frames[q]]
        BY <1>12, <3>2
      <4> QED
        BY <4>1
    <3>4. Payloads(q) \ {<<"payload", frames[q]>>} = Payloads(q + 1)
      BY <1>1, <1>3, <3>2, PayloadTaken
    <3>5. <<"payload", frames[q]>> # <<"array">> /\ <<"payload", frames[q]>> # <<"copy">>
      OBVIOUS
    <3>6. heap' = {<<"array">>} \cup {<<"copy">>} \cup Payloads(q + 1)
      BY <1>15, <2>1, <3>3, <3>4, <3>5
    <3>7. Payloads(payload_frame_id)' = Payloads(q + 1)
      BY <1>17, <2>1
    <3>8. payload_frame_id' \in 1 .. Len(frames') + 1 /\ payload_frame_id' - 1 = Cardinality(Taken(at)')
      BY <1>2, <1>3, <1>16, <2>1, <3>1, <3>2
    <3> QED
      BY <1>1, <1>2, <1>14, <3>6, <3>7, <3>8 DEF Kept
  <2>2. CASE n \notin wanted /\ UNCHANGED <<heap, payload_frame_id>>
    <3>1. Taken(n + 1) = Taken(n)
      BY <1>1, <1>3, <1>4, <2>2, ChunkPassedOver
    <3>2. Payloads(payload_frame_id)' = Payloads(q)
      BY <1>3, <1>17, <2>2
    <3>3. payload_frame_id' \in 1 .. Len(frames') + 1 /\ payload_frame_id' - 1 = Cardinality(Taken(at)')
      BY <1>2, <1>3, <1>4, <1>16, <2>2, <3>1
    <3> QED
      BY <1>1, <1>2, <1>14, <1>15, <2>2, <3>2, <3>3 DEF Kept
  <2> QED
    BY <1>5, <2>1, <2>2
<1> QED
  BY <1>1, <1>2, <1>7, <1>8, <1>9, <1>11, <1>13, <1>18 DEF MInv, BufferEnough

-----------------------------------------------------------------------------

LEMMA StutterStep == ASSUME MInv, UNCHANGED vars PROVE MInv'
<1>1. /\ carrier' = carrier /\ picture' = picture /\ wanted' = wanted /\ pc' = pc /\ at' = at
      /\ stream' = stream /\ frames' = frames /\ array' = array /\ ppos' = ppos
      /\ payload_frame_id' = payload_frame_id /\ out' = out /\ heap' = heap
  BY DEF vars, content
<1>2. Typed' = Typed /\ BufferEnough' = BufferEnough
  BY <1>1 DEF Typed, BufferEnough, SockRoom
<1>3. Packing' = Packing /\ Packed' = Packed
  BY <1>1 DEF Packing, Packed, StreamOK, FramesOK, Block, Body, Width
<1>4. NumbersInStep' = NumbersInStep /\ ChunksInStep' = ChunksInStep
  BY <1>1 DEF NumbersInStep, ChunksInStep, Declined, Body
<1>5. Received' = Received /\ Kept' = Kept
  BY <1>1 DEF Received, Kept, Declined, Sent, SizeOf, Width, Bytes, Taken, Payloads
<1> QED
  BY <1>1, <1>2, <1>3, <1>4, <1>5 DEF MInv

LEMMA MInvHolds == Spec => []MInv
<1>1. MInv /\ [Next]_vars => MInv'
  <2> SUFFICES ASSUME MInv, [Next]_vars PROVE MInv'
    OBVIOUS
  <2>1. CASE Vset
    BY <2>1, VsetStep
  <2>2. CASE SetPicture
    BY <2>2, SetPictureStep
  <2>3. CASE Vget
    BY <2>3, VgetStep
  <2>4. CASE VgetEnd
    BY <2>4, VgetEndStep
  <2>5. CASE Serialize
    BY <2>5, SerializeStep
  <2>6. CASE SerializeSizes
    BY <2>6, SerializeSizesStep
  <2>7. CASE OnPicture
    BY <2>7, OnPictureStep
  <2>8. CASE Deserialize
    BY <2>8, DeserializeNumber, DeserializeChunk DEF Deserialize
  <2>9. CASE DeserializeEnd
    BY <2>9, DeserializeEndStep
  <2>10. CASE UNCHANGED vars
    BY <2>10, StutterStep
  <2> QED
    BY <2>1, <2>2, <2>3, <2>4, <2>5, <2>6, <2>7, <2>8, <2>9, <2>10 DEF Next
<1> QED
  BY InitMInv, <1>1, PTL DEF Spec

-----------------------------------------------------------------------------
(* What the receiver gets after an element it has declined. *)

(* With or without declined elements the receiver has only taken what is of *)
(* elements it has passed.                                                  *)
NumbersBehind ==
  /\ ppos \in 0 .. Body
  /\ \A i \in 1 .. Body : i <= ppos => stream[i][1] < at

ChunksBehind == \A i \in 1 .. Len(frames) : i < payload_frame_id => frames[i] < at

NumbersTo(k) == {m \in 1 .. k : picture[m] \in Numbers}

NumberGenuine(k) == \A j \in 1 .. SizeOf(picture[k]) : out[k][j] \in NumbersTo(k) \X Nat

ChunkGenuine(k) ==
  \E i \in 1 .. Len(frames) :
    i < payload_frame_id /\ frames[i] <= k /\ out[k] = [chunk |-> frames[i], size |-> frames[i]]

Others ==
  /\ \A k \in wanted : k < at /\ picture[k] \in Numbers => NumberGenuine(k)
  /\ \A k \in Taken(at) : ChunkGenuine(k)
  /\ \A k, l \in Taken(at) : out[k] = out[l] => k = l

Behind ==
  pc \in {"unpack", "done"} => NumbersBehind /\ ChunksBehind /\ Others

(* A step that reads nothing and stays at its element. *)
LEMMA BehindStays ==
  ASSUME Behind, pc' \in {"unpack", "done"} => pc \in {"unpack", "done"},
         UNCHANGED <<content, at, stream, frames, ppos, payload_frame_id, out>>
  PROVE  Behind'
<1>1. Taken(at)' = Taken(at) /\ Body' = Body
  BY DEF content, Taken, Body
<1>2. \A k : NumberGenuine(k)' = NumberGenuine(k) /\ ChunkGenuine(k)' = ChunkGenuine(k)
  BY DEF content, NumberGenuine, NumbersTo, SizeOf, Width, ChunkGenuine
<1> QED
  BY <1>1, <1>2 DEF Behind, NumbersBehind, ChunksBehind, Others, content

(* Before the first element nothing has been taken. *)
LEMMA BehindBegins ==
  ASSUME MInv', at' = 1, ppos' = 0, payload_frame_id' = 1, pc' = "unpack"
  PROVE  Behind'
<1>1. Typed' /\ Packed' /\ Len(picture') \in Nat
  BY LenProperties DEF MInv, Typed
<1>2. \A k \in wanted' : ~(k < at')
  BY <1>1 DEF Typed
<1>3. Taken(at)' = {}
  BY <1>2 DEF Taken
<1>4. NumbersBehind'
  BY <1>1 DEF NumbersBehind, Packed, StreamOK
<1>5. ChunksBehind'
  BY DEF ChunksBehind
<1> QED
  BY <1>2, <1>3, <1>4, <1>5 DEF Behind, Others

(* A number is read where it is packed or before that: within the numbers,  *)
(* and within those no later than it.                                       *)
LEMMA NumberFromStream ==
  ASSUME Typed, Packed, NumbersBehind, NEW n \in 1 .. Len(picture), n = at, picture[n] \in Numbers
  PROVE  /\ ppos + Width(picture[n]) \in 0 .. Body
         /\ \A i \in 1 .. Body : i <= ppos + Width(picture[n]) => stream[i][1] < n + 1
         /\ \A j \in 1 .. SizeOf(picture[n]) :
              Load(ppos, SizeOf(picture[n]))[j] \in NumbersTo(n) \X Nat
<1>1. PICK w, z, b : w = Width(picture[n]) /\ z = SizeOf(picture[n]) /\ b = Body
  OBVIOUS
<1>2. w \in 1 .. 8 /\ z \in 1 .. w
  BY <1>1, Widths
<1>3. /\ b \in 0 .. Len(stream) /\ Len(stream) \in Nat /\ Len(picture) \in Nat
      /\ \A i \in 1 .. b : stream[i][1] \in 1 .. (Len(picture) + 1) - 1 /\ picture[stream[i][1]] \in Numbers
  BY <1>1, LenProperties DEF Typed, Packed, StreamOK
<1>4. PICK p \in Nat : Block(n, p, b)
  <2>1. n \in 1 .. (Len(picture) + 1) - 1
    BY <1>3
  <2> QED
    BY <1>1, <2>1 DEF Packed, StreamOK
<1>5. /\ p + w <= b
      /\ \A j \in 1 .. w : stream[p + j] = <<n, j>>
      /\ \A i \in 1 .. p : stream[i][1] < n
  BY <1>1, <1>4 DEF Block
<1>6. ppos \in 0 .. b /\ \A i \in 1 .. b : i <= ppos => stream[i][1] < n
  BY <1>1 DEF NumbersBehind
<1>7. ppos <= p
  <2>1. SUFFICES ASSUME ppos >= p + 1 PROVE FALSE
    BY <1>6
  <2>2. p + 1 \in 1 .. b /\ p + 1 <= ppos
    BY <1>2, <1>3, <1>5, <2>1
  <2>3. stream[p + 1][1] < n
    BY <1>6, <2>2
  <2>4. 1 \in 1 .. w
    BY <1>2
  <2>5. stream[p + 1] = <<n, 1>>
    BY <1>5, <2>4
  <2> QED
    BY <2>3, <2>5
<1>8. ppos + w \in 0 .. b /\ ppos + w <= p + w
  BY <1>2, <1>3, <1>5, <1>6, <1>7
<1>9. \A i \in 1 .. b : i <= p + w => stream[i][1] < n + 1
  <2> SUFFICES ASSUME NEW i \in 1 .. b, i <= p + w PROVE stream[i][1] < n + 1
    OBVIOUS
  <2>1. CASE i <= p
    <3>1. i \in 1 .. p /\ stream[i][1] \in Nat
      BY <1>3, <2>1
    <3>2. stream[i][1] < n
      BY <1>5, <3>1
    <3> QED
      BY <3>1, <3>2
  <2>2. CASE i > p
    <3>1. i - p \in 1 .. w /\ p + (i - p) = i
      BY <1>2, <1>3, <2>2
    <3>2. stream[i] = <<n, i - p>>
      BY <1>5, <3>1
    <3> QED
      BY <3>2
  <2> QED
    BY <2>1, <2>2
<1>10. \A i \in 1 .. b : i <= ppos + w => stream[i][1] < n + 1
  BY <1>2, <1>3, <1>6, <1>8, <1>9
<1>11. ASSUME NEW j \in 1 .. z PROVE Load(ppos, z)[j] \in NumbersTo(n) \X Nat
  <2>1. ppos + j \in 1 .. b /\ ppos + j <= ppos + w /\ ppos + j \in 1 .. Len(stream)
    BY <1>2, <1>3, <1>6, <1>8
  <2>2. Load(ppos, z)[j] = stream[ppos + j]
    BY <2>1 DEF Load
  <2>3. PICK q : q = ppos + j
    OBVIOUS
  <2>4. stream[q] \in Nat \X Nat
    BY <2>1, <2>3, ElementOfSeq DEF Typed
  <2>5. stream[q][1] < n + 1 /\ stream[q][1] \in 1 .. (Len(picture) + 1) - 1 /\ picture[stream[q][1]] \in Numbers
    BY <1>3, <1>10, <2>1, <2>3
  <2>6. stream[q][1] \in NumbersTo(n)
    BY <1>3, <2>5 DEF NumbersTo
  <2>7. stream[q] = <<stream[q][1], stream[q][2]>> /\ stream[q][2] \in Nat
    BY <2>4
  <2>8. Load(ppos, z)[j] = stream[q]
    BY <2>2, <2>3
  <2>9. ASSUME NEW c, NEW d, c \in NumbersTo(n), d \in Nat PROVE <<c, d>> \in NumbersTo(n) \X Nat
    BY <2>9
  <2>10. <<stream[q][1], stream[q][2]>> \in NumbersTo(n) \X Nat
    BY <2>6, <2>7, <2>9
  <2>11. stream[q] \in NumbersTo(n) \X Nat
    BY <2>7, <2>10
  <2> QED
    BY <2>8, <2>11
<1> QED
  BY <1>1, <1>8, <1>10, <1>11

(* The chunk the receiver is at is its element's or an earlier one. *)
LEMMA ChunkFromFrames ==
  ASSUME Typed, Packed, ChunksBehind, NEW n \in 1 .. Len(picture), n = at, picture[n] = "b",
         NEW q \in 1 .. Len(frames), q = payload_frame_id
  PROVE  /\ frames[q] <= n
         /\ \A i \in 1 .. Len(frames) : i < q + 1 => frames[i] < n + 1
<1>1. PICK m : m = Len(frames)
  OBVIOUS
<1>2. m \in Nat /\ Len(picture) \in Nat
  BY <1>1, LenProperties DEF Typed
<1>3. /\ \A i \in 1 .. m : frames[i] \in Nat
      /\ \A i, j \in 1 .. m : i < j => frames[i] < frames[j]
      /\ \A i \in 1 .. m : i < q => frames[i] < n
  BY <1>1, <1>2 DEF Packed, FramesOK, ChunksBehind
<1>4. PICK i \in 1 .. m : frames[i] = n
  <2>1. n \in 1 .. (Len(picture) + 1) - 1
    BY <1>2
  <2> QED
    BY <1>1, <2>1 DEF Packed, FramesOK
<1>5. q <= i /\ q \in 1 .. m
  BY <1>1, <1>3, <1>4
<1>6. frames[q] <= n
  <2>1. CASE q = i
    BY <1>4, <2>1
  <2>2. CASE q < i
    BY <1>3, <1>4, <1>5, <2>2
  <2> QED
    BY <1>2, <1>5, <2>1, <2>2
<1>7. \A k \in 1 .. m : k < q + 1 => frames[k] < n + 1
  <2> SUFFICES ASSUME NEW k \in 1 .. m, k < q + 1 PROVE frames[k] < n + 1
    OBVIOUS
  <2>1. frames[k] \in Nat
    BY <1>3
  <2>2. CASE k = q
    BY <1>6, <2>1, <2>2
  <2>3. CASE k < q
    BY <1>3, <2>1, <2>3
  <2> QED
    BY <1>5, <2>2, <2>3
<1> QED
  BY <1>1, <1>6, <1>7

(* A number is taken, or declined. *)
LEMMA BehindNumber ==
  ASSUME MInv, Behind, pc = "unpack", More, Number, UNCHANGED <<pc, payload_frame_id>>,
         at' = at + 1, UNCHANGED <<content, stream, frames>>
  PROVE  Behind'
<1>1. PICK n : n = at
  OBVIOUS
<1>2. /\ Typed /\ Packed /\ NumbersBehind /\ ChunksBehind /\ Others
      /\ Len(picture) \in Nat /\ Len(frames) \in Nat
  BY LenProperties DEF MInv, Behind, Typed
<1>3. /\ n \in 1 .. Len(picture) /\ wanted \subseteq 1 .. Len(picture)
      /\ out = [k \in 1 .. Len(picture) |-> out[k]]
  BY <1>1, <1>2 DEF Typed, More
<1>4. /\ picture[n] \in Numbers /\ picture[n] # "b"
      /\ \/ /\ n \in wanted
            /\ out' = [out EXCEPT ![n] = Load(ppos, SizeOf(picture[n]))]
            /\ ppos' = ppos + Width(picture[n])
         \/ n \notin wanted /\ UNCHANGED <<out, ppos>>
  BY <1>1 DEF Number, Letter, Numbers
<1>5. /\ picture' = picture /\ wanted' = wanted /\ frames' = frames /\ stream' = stream
      /\ at' = n + 1 /\ Body' = Body
  BY <1>1 DEF content, Body
<1>6. /\ ppos + Width(picture[n]) \in 0 .. Body
      /\ \A i \in 1 .. Body : i <= ppos + Width(picture[n]) => stream[i][1] < n + 1
      /\ \A j \in 1 .. SizeOf(picture[n]) :
           Load(ppos, SizeOf(picture[n]))[j] \in NumbersTo(n) \X Nat
  BY <1>1, <1>2, <1>3, <1>4, NumberFromStream
<1>7. NumbersBehind'
  <2>1. CASE ppos' = ppos + Width(picture[n])
    <3>1. ppos' \in 0 .. Body
      BY <1>6, <2>1
    <3>2. \A i \in 1 .. Body : i <= ppos' => stream[i][1] < n + 1
      BY <1>6, <2>1
    <3> QED
      BY <1>5, <3>1, <3>2 DEF NumbersBehind
  <2>2. CASE ppos' = ppos
    <3>1. \A i \in 1 .. Body : stream[i][1] \in Nat
      BY <1>2 DEF Packed, StreamOK
    <3>2. \A i \in 1 .. Body : i <= ppos => stream[i][1] < n + 1
      BY <1>1, <1>2, <1>3, <3>1 DEF NumbersBehind
    <3> QED
      BY <1>2, <1>5, <2>2, <3>2 DEF NumbersBehind
  <2> QED
    BY <1>4, <2>1, <2>2
<1>8. ChunksBehind'
  <2>1. \A i \in 1 .. Len(frames) : frames[i] \in Nat
    BY <1>2 DEF Packed, FramesOK
  <2>2. \A i \in 1 .. Len(frames) : i < payload_frame_id => frames[i] < n + 1
    BY <1>1, <1>2, <1>3, <2>1 DEF ChunksBehind
  <2> QED
    BY <1>5, <2>2 DEF ChunksBehind
<1>9. \A k \in wanted : k # n => out'[k] = out[k]
  BY <1>3, <1>4
<1>10. Taken(at)' = Taken(n)
  BY <1>3, <1>4, <1>5 DEF Taken
<1>11. \A k \in Taken(n) : k \in wanted /\ k # n
  BY <1>3 DEF Taken
<1>12. ASSUME NEW k \in wanted, k < n + 1, picture[k] \in Numbers PROVE NumberGenuine(k)'
  <2>1. NumberGenuine(k)' <=> \A j \in 1 .. SizeOf(picture[k]) : out'[k][j] \in NumbersTo(k) \X Nat
    BY <1>5 DEF NumberGenuine, NumbersTo, SizeOf, Width
  <2>2. CASE k = n
    <3>1. out'[n] = Load(ppos, SizeOf(picture[n]))
      BY <1>3, <1>4, <2>2
    <3> QED
      BY <1>6, <2>1, <2>2, <3>1
  <2>3. CASE k # n
    <3>1. k < n
      BY <1>3, <1>12, <2>3
    <3>2. NumberGenuine(k)
      BY <1>1, <1>2, <1>12, <3>1 DEF Others
    <3> QED
      BY <1>9, <2>1, <2>3, <3>2 DEF NumberGenuine
  <2> QED
    BY <2>2, <2>3
<1>13. ASSUME NEW k \in Taken(n) PROVE ChunkGenuine(k)'
  <2>1. ChunkGenuine(k) /\ out'[k] = out[k]
    BY <1>1, <1>2, <1>9, <1>11 DEF Others
  <2> QED
    BY <1>5, <2>1 DEF ChunkGenuine
<1>14. \A k, l \in Taken(n) : out'[k] = out'[l] => k = l
  BY <1>1, <1>2, <1>9, <1>11 DEF Others
<1>15. Others'
  BY <1>5, <1>10, <1>12, <1>13, <1>14 DEF Others
<1> QED
  BY <1>7, <1>8, <1>15 DEF Behind

(* A chunk is taken, or declined. *)
LEMMA BehindChunk ==
  ASSUME MInv, Behind, pc = "unpack", carrier = "sock", More, Chunk, UNCHANGED <<pc, ppos>>,
         at' = at + 1, UNCHANGED <<content, stream, frames>>
  PROVE  Behind'
<1>1. PICK n, q : n = at /\ q = payload_frame_id
  OBVIOUS
<1>2. /\ Typed /\ Packed /\ NumbersBehind /\ ChunksBehind /\ Others /\ Kept
      /\ Len(picture) \in Nat /\ Len(frames) \in Nat
  BY LenProperties DEF MInv, Behind, Typed
<1>3. /\ n \in 1 .. Len(picture) /\ wanted \subseteq 1 .. Len(picture)
      /\ out = [k \in 1 .. Len(picture) |-> out[k]] /\ q \in 1 .. Len(frames) + 1
      /\ q - 1 = Cardinality(Taken(at))
      /\ array = [i \in 1 .. Len(frames) |-> [chunk |-> frames[i], size |-> frames[i]]]
  BY <1>1, <1>2 DEF Typed, More, Kept
<1>4. /\ picture[n] = "b" /\ picture[n] \notin Numbers
      /\ \/ n \in wanted /\ out' = [out EXCEPT ![n] = array[q]] /\ payload_frame_id' = q + 1
         \/ n \notin wanted /\ UNCHANGED <<out, payload_frame_id>>
  BY <1>1 DEF Chunk, Letter, Numbers
<1>5. /\ picture' = picture /\ wanted' = wanted /\ frames' = frames /\ stream' = stream
      /\ at' = n + 1 /\ Body' = Body
  BY <1>1 DEF content, Body
<1>6. \A k \in wanted : k # n => out'[k] = out[k]
  BY <1>3, <1>4
<1>7. \A i \in 1 .. Len(frames) : frames[i] \in Nat
  BY <1>2 DEF Packed, FramesOK
<1>8. NumbersBehind'
  <2>1. \A i \in 1 .. Body : stream[i][1] \in Nat
    BY <1>2 DEF Packed, StreamOK
  <2>2. \A i \in 1 .. Body : i <= ppos => stream[i][1] < n + 1
    BY <1>1, <1>2, <1>3, <2>1 DEF NumbersBehind
  <2> QED
    BY <1>2, <1>5, <2>2 DEF NumbersBehind
<1>9. ASSUME NEW k \in wanted, k < n + 1, picture[k] \in Numbers PROVE NumberGenuine(k)'
  <2>1. NumberGenuine(k)' <=> \A j \in 1 .. SizeOf(picture[k]) : out'[k][j] \in NumbersTo(k) \X Nat
    BY <1>5 DEF NumberGenuine, NumbersTo, SizeOf, Width
  <2>2. k # n /\ k < n
    BY <1>3, <1>4, <1>9
  <2>3. NumberGenuine(k)
    BY <1>1, <1>2, <1>9, <2>2 DEF Others
  <2> QED
    BY <1>6, <2>1, <2>2, <2>3 DEF NumberGenuine
<1>10. \A k \in Taken(n) : k \in wanted /\ k # n
  BY <1>3 DEF Taken
<1>11. /\ \A k \in Taken(n) : ChunkGenuine(k) /\ out'[k] = out[k]
       /\ \A k, l \in Taken(n) : out'[k] = out'[l] => k = l
  BY <1>1, <1>2, <1>6, <1>10 DEF Others
<1>12. CASE n \notin wanted /\ UNCHANGED <<out, payload_frame_id>>
  <2>1. Taken(at)' = Taken(n)
    BY <1>3, <1>5, <1>12 DEF Taken
  <2>2. \A k \in Taken(n) : ChunkGenuine(k)'
    BY <1>5, <1>11, <1>12 DEF ChunkGenuine
  <2>3. Others'
    BY <1>5, <1>9, <1>11, <2>1, <2>2 DEF Others
  <2>4. ChunksBehind'
    <3>1. \A i \in 1 .. Len(frames) : i < q => frames[i] < n + 1
      BY <1>1, <1>2, <1>3, <1>7 DEF ChunksBehind
    <3> QED
      BY <1>1, <1>5, <1>12, <3>1 DEF ChunksBehind
  <2> QED
    BY <1>8, <2>3, <2>4 DEF Behind
<1>13. CASE n \in wanted /\ out' = [out EXCEPT ![n] = array[q]] /\ payload_frame_id' = q + 1
  <2>1. q \in 1 .. Len(frames)
    <3>1. Letter = "b" /\ at <= Len(picture) /\ at \in wanted /\ payload_frame_id \in Nat
      BY <1>1, <1>3, <1>4, <1>13 DEF Letter
    <3>2. payload_frame_id <= Len(frames)
      BY <1>1, <1>2, <1>3, <3>1, ChunkIsLeft
    <3> QED
      BY <1>1, <1>2, <1>3, <3>2
  <2>2. /\ frames[q] <= n
        /\ \A i \in 1 .. Len(frames) : i < q + 1 => frames[i] < n + 1
    BY <1>1, <1>2, <1>3, <1>4, <2>1, ChunkFromFrames
  <2>3. ChunksBehind'
    BY <1>5, <1>13, <2>2 DEF ChunksBehind
  <2>4. out'[n] = [chunk |-> frames[q], size |-> frames[q]]
    BY <1>3, <1>13, <2>1
  <2>5. Taken(at)' = Taken(n) \cup {n}
    BY <1>3, <1>4, <1>5, <1>13 DEF Taken
  <2>6. ASSUME NEW k \in Taken(n)
        PROVE  /\ ChunkGenuine(k)'
               /\ out'[k] # out'[n]
    <3>1. PICK i \in 1 .. Len(frames) :
            i < q /\ frames[i] <= k /\ out[k] = [chunk |-> frames[i], size |-> frames[i]]
      BY <1>1, <1>11 DEF ChunkGenuine
    <3>2. frames[i] < frames[q]
      BY <1>2, <2>1, <3>1 DEF Packed, FramesOK
    <3>3. out'[k] = [chunk |-> frames[i], size |-> frames[i]]
      BY <1>11, <3>1
    <3>4. i < payload_frame_id'
      BY <1>3, <1>13, <3>1
    <3>5. ChunkGenuine(k)'
      BY <1>5, <3>1, <3>3, <3>4 DEF ChunkGenuine
    <3>6. out'[k].chunk = frames[i] /\ out'[n].chunk = frames[q]
      BY <2>4, <3>3
    <3>7. frames[i] # frames[q]
      BY <1>7, <2>1, <3>2
    <3> QED
      BY <3>5, <3>6, <3>7
  <2>7. ChunkGenuine(n)'
    BY <1>5, <1>13, <2>1, <2>2, <2>4 DEF ChunkGenuine
  <2>8. \A k, l \in Taken(n) \cup {n} : out'[k] = out'[l] => k = l
    BY <1>11, <2>6
  <2>9. Others'
    BY <1>5, <1>9, <2>5, <2>6, <2>7, <2>8 DEF Others
  <2> QED
    BY <1>8, <2>3, <2>9 DEF Behind
<1> QED
  BY <1>4, <1>12, <1>13

LEMMA BehindStep == MInv /\ Behind /\ [Next]_vars /\ MInv' => Behind'
<1> SUFFICES ASSUME MInv, Behind, [Next]_vars, MInv' PROVE Behind'
  OBVIOUS
<1>1. CASE Vset \/ Serialize \/ SerializeSizes
  <2>1. pc' \notin {"unpack", "done"}
    BY <1>1 DEF Vset, Serialize, SerializeSizes, Store, Invalid
  <2> QED
    BY <2>1 DEF Behind
<1>2. CASE SetPicture
  <2>1. pc = "pack" /\ at' = 1 /\ pc' = "unpack" /\ UNCHANGED <<ppos, payload_frame_id>>
    BY <1>2 DEF SetPicture
  <2>2. ppos = 0 /\ payload_frame_id = 1
    BY <2>1 DEF MInv, Packing
  <2> QED
    BY <2>1, <2>2, BehindBegins
<1>3. CASE OnPicture
  <2>1. pc = "sent" /\ at' = 1 /\ pc' = "unpack" /\ UNCHANGED <<ppos, payload_frame_id>>
    BY <1>3 DEF OnPicture
  <2>2. ppos = 0 /\ payload_frame_id = 1
    BY <2>1 DEF MInv
  <2> QED
    BY <2>1, <2>2, BehindBegins
<1>4. CASE Vget
  BY <1>4, BehindNumber DEF Vget
<1>5. CASE Deserialize
  <2>1. CASE Number /\ UNCHANGED <<heap, payload_frame_id>>
    BY <1>5, <2>1, BehindNumber DEF Deserialize
  <2>2. CASE Chunk /\ UNCHANGED ppos
    BY <1>5, <2>2, BehindChunk DEF Deserialize
  <2> QED
    BY <1>5, <2>1, <2>2 DEF Deserialize
<1>6. CASE VgetEnd \/ DeserializeEnd
  BY <1>6, BehindStays DEF VgetEnd, DeserializeEnd
<1>7. CASE UNCHANGED vars
  BY <1>7, BehindStays DEF vars
<1> QED
  BY <1>1, <1>2, <1>3, <1>4, <1>5, <1>6, <1>7 DEF Next

LEMMA BehindHolds == Spec => []Behind
<1>1. Init => Behind
  BY DEF Init, Behind
<1> QED
  BY <1>1, BehindStep, MInvHolds, PTL DEF Spec

(* 8 bytes for each element are enough for the message of a pipe           *)
(* (hmsg.c:59), whatever its picture; the buffer of a socket, which nothing *)
(* tests (hsock.c:97), is enough for every picture that fits at 8 bytes an  *)
(* element.                                                                 *)
THEOREM BufferIsEnough == Spec => []BufferEnough
<1>1. MInv => BufferEnough
  BY DEF MInv
<1> QED
  BY MInvHolds, <1>1, PTL

(* hmsg_vget and deserialize give back what hmsg_vset and serialize were    *)
(* given: each variable its own element, cut to the variable's width, and   *)
(* each chunk with its own size, up to the first element of its kind that   *)
(* the receiver declines.  From there on a variable gets bytes of the       *)
(* message's numbers, and a chunk of the message that no other has got.     *)
THEOREM RoundTripHolds == Spec => []RoundTrip
<1>1. MInv /\ Behind => RoundTrip
  <2> SUFFICES ASSUME MInv, Behind, pc = "done"
               PROVE  /\ \A S \in {Numbers, {"b"}} : \A k \in wanted :
                           picture[k] \in S /\ (\A m \in Declined(S) : m > k) => out[k] = Sent(k)
                      /\ \A k \in wanted : Genuine(k)
                      /\ \A k, l \in wanted :
                           picture[k] = "b" /\ picture[l] = "b" /\ out[k] = out[l] => k = l
    BY DEF RoundTrip
  <2>1. Typed /\ Packed /\ Received /\ Others /\ at = Len(picture) + 1 /\ Len(picture) \in Nat
    BY LenProperties DEF MInv, Behind, Typed
  <2>2. \A k \in wanted : k < at /\ k \in 1 .. Len(picture)
    BY <2>1 DEF Typed
  <2>3. \A S \in {Numbers, {"b"}} : \A k \in wanted :
          picture[k] \in S /\ (\A m \in Declined(S) : m > k) => out[k] = Sent(k)
    BY <2>1, <2>2 DEF Received
  <2>4. \A k \in wanted : picture[k] = "b" => k \in Taken(at)
    BY <2>2 DEF Taken
  <2>5. ASSUME NEW k \in wanted PROVE Genuine(k)
    <3>1. CASE picture[k] \in Numbers
      <4>1. NumberGenuine(k) /\ picture[k] # "b"
        BY <2>1, <2>2, <3>1 DEF Others, Numbers
      <4> QED
        BY <4>1 DEF NumberGenuine, NumbersTo, Genuine
    <3>2. CASE picture[k] = "b"
      <4>1. PICK i \in 1 .. Len(frames) :
              frames[i] <= k /\ out[k] = [chunk |-> frames[i], size |-> frames[i]]
        BY <2>1, <2>4, <3>2 DEF Others, ChunkGenuine
      <4>2. frames[i] \in 1 .. (Len(picture) + 1) - 1 /\ picture[frames[i]] = "b"
        BY <2>1 DEF Packed, FramesOK
      <4>3. frames[i] \in 1 .. k
        BY <2>1, <2>2, <4>1, <4>2
      <4> QED
        BY <3>2, <4>1, <4>2, <4>3 DEF Genuine, Numbers
    <3> QED
      BY <3>1, <3>2 DEF Genuine
  <2>6. \A k, l \in wanted : picture[k] = "b" /\ picture[l] = "b" /\ out[k] = out[l] => k = l
    BY <2>1, <2>4 DEF Others
  <2> QED
    BY <2>3, <2>5, <2>6
<1> QED
  BY MInvHolds, BehindHolds, <1>1, PTL

(* A receive leaves nothing of a pipe's message allocated; of a socket's it *)
(* leaves the copy of the picture and one payload for each chunk declined.  *)
THEOREM LeftBehindHolds == Spec => []LeftBehind
<1>1. MInv => LeftBehind
  <2> SUFFICES ASSUME MInv, pc = "done", carrier = "sock"
               PROVE  /\ heap \subseteq {<<"copy">>} \cup {<<"payload", k>> : k \in DOMAIN picture}
                      /\ Cardinality(heap \ {<<"copy">>}) = Cardinality(Declined({"b"}))
    <3>1. ASSUME MInv, pc = "done" PROVE Kept /\ carrier \in {"msg", "sock"}
      BY <3>1 DEF MInv, Typed
    <3>2. ASSUME MInv, pc = "done", carrier = "msg" PROVE heap = {}
      BY <3>1, <3>2 DEF Kept
    <3> QED
      BY <3>1, <3>2 DEF LeftBehind
  <2>1. Typed /\ Packed /\ Kept /\ at = Len(picture) + 1 /\ Len(picture) \in Nat /\ Len(frames) \in Nat
    BY LenProperties DEF MInv, Typed
  <2>2. PICK q, m : q = payload_frame_id /\ m = Len(frames)
    OBVIOUS
  <2>3. /\ heap = {<<"copy">>} \cup Payloads(q)
        /\ q \in 1 .. m + 1 /\ q - 1 = Cardinality(Taken(at)) /\ m \in Nat
    BY <2>1, <2>2 DEF Kept
  <2>4. \A i \in 1 .. m : frames[i] \in 1 .. Len(picture)
    BY <2>1, <2>2 DEF Packed, FramesOK
  <2>5. heap \subseteq {<<"copy">>} \cup {<<"payload", k>> : k \in DOMAIN picture}
    <3>1. DOMAIN picture = 1 .. Len(picture)
      BY <2>1, LenProperties DEF Typed
    <3>2. q .. m \subseteq 1 .. m
      BY <2>3
    <3> QED
      BY <2>2, <2>3, <2>4, <3>1, <3>2 DEF Payloads
  <2>6. Cardinality(Payloads(q)) = m - (q - 1)
    <3>1. PICK f : f = [i \in q .. m |-> <<"payload", frames[i]>>]
      OBVIOUS
    <3>2. f \in [q .. m -> Payloads(q)]
      BY <2>2, <3>1 DEF Payloads
    <3>3. \A i, j \in q .. m : f[i] = f[j] => i = j
      <4>1. \A i, j \in q .. m : i < j => frames[i] # frames[j]
        <5>1. \A i, j \in 1 .. m : i < j => frames[i] < frames[j]
          BY <2>1, <2>2 DEF Packed, FramesOK
        <5> QED
          BY <2>3, <2>4, <5>1
      <4>2. \A i, j \in q .. m : f[i] = f[j] => frames[i] = frames[j]
        BY <3>1
      <4> QED
        BY <2>3, <4>1, <4>2
    <3>4. \A y \in Payloads(q) : \E i \in q .. m : f[i] = y
      BY <2>2, <3>1 DEF Payloads
    <3>5. ExistsBijection(q .. m, Payloads(q))
      BY <3>2, <3>3, <3>4, Fun_IsBij DEF ExistsBijection
    <3>6. q \in Int /\ m \in Int
      BY <2>3
    <3>7. IsFiniteSet(q .. m) /\ Cardinality(q .. m) = IF q > m THEN 0 ELSE m - q + 1
      BY <3>6, FS_Interval
    <3>8. Cardinality(Payloads(q)) = IF q > m THEN 0 ELSE m - q + 1
      BY <3>5, <3>7, FS_Bijection
    <3> QED
      BY <2>3, <3>8
  <2>7. Cardinality(Declined({"b"})) = m - (q - 1)
    <3>1. IsFiniteSet(Chunks) /\ Cardinality(Chunks) = m
      BY <2>1, <2>2, ChunksCounted DEF Packed
    <3>2. DOMAIN picture = 1 .. Len(picture) /\ wanted \subseteq 1 .. Len(picture)
      BY <2>1, LenProperties DEF Typed
    <3>3. \A k \in wanted : k < at
      BY <2>1, <3>2
    <3>4. Declined({"b"}) = Chunks \ Taken(at)
      BY <3>2, <3>3 DEF Declined, Chunks, Taken
    <3>5. Chunks \cap Taken(at) = Taken(at)
      BY <3>2 DEF Chunks, Taken
    <3>6. Cardinality(Chunks \ Taken(at)) = Cardinality(Chunks) - Cardinality(Chunks \cap Taken(at))
      BY <3>1, FS_Difference
    <3> QED
      BY <2>3, <3>1, <3>4, <3>5, <3>6
  <2>8. heap \ {<<"copy">>} = Payloads(q)
    <3>1. <<"copy">> \notin Payloads(q)
      BY DEF Payloads
    <3> QED
      BY <2>3, <3>1
  <2> QED
    BY <2>5, <2>6, <2>7, <2>8
<1> QED
  BY MInvHolds, <1>1, PTL
=============================================================================

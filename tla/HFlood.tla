------------------------------- MODULE HFlood -------------------------------
(***************************************************************************)
(* hsock.c, how a message travels: hsock_send (serialize, flood), the      *)
(* active-message handlers at both ends, and hsock_recv (pop, deserialize).*)
(*                                                                         *)
(* The sender asks the destination for room (picture request), gets the    *)
(* address of a frame array back, floods the payload in pieces of at most  *)
(* MAX_MEDIUM_AM_SZ bytes, counts their acknowledgements, and only then    *)
(* asks for the array to be put in the mailbox.  All answers come through  *)
(* one word per socket, atomic64, which in turn holds an address, a count  *)
(* and a flag.  Active messages arrive once each, in any order; a handler  *)
(* runs as one step, as its only step others can see before its reply is   *)
(* the push to the mailbox.                                                *)
(***************************************************************************)
EXTENDS Integers, Sequences, FiniteSets

CONSTANTS
  Clients, Servers,  \* the sockets, connected and bound
  Frames,            \* the addresses malloc can return for a frame array
  Sizes,             \* payload sizes a caller can ask for, a set of sequences
  MaxAM,             \* MAX_MEDIUM_AM_SZ
  MaxSends,          \* bound: how many messages a socket sends
  UINT64_MAX,        \* what client_new leaves in atomic64
  Nothing            \* no address, or a byte not written yet

ASSUME FloodAssumption ==
  /\ MaxAM \in Nat \ {0}
  /\ MaxSends \in Nat
  /\ Sizes \subseteq Seq(Nat)
  /\ Clients \cap Servers = {}
  /\ (Frames \cup {UINT64_MAX, Nothing}) \cap Nat = {}
  /\ UINT64_MAX \notin Frames \cup {Nothing}
  /\ Nothing \notin Frames

VARIABLES
  pc,           \* where each socket's send stands: "idle", "picture", "chunks", "term"
  letter,       \* the message it sends: sender, number, payload sizes
  dest,         \* the destination
  frames_ptr,   \* dst_frames_ptr, the frame array at the destination
  cursor,       \* the loops of flood: frame i, offset in it
  msg_counter,  \* payload requests issued
  atomic64,     \* the word the replies come to
  net,          \* the active messages in flight
  mailbox,      \* of each socket: addresses of frame arrays
  array,        \* the frame arrays: picture and payload, or Nothing when free
  held,         \* the frame array each socket has popped and is reading
  got           \* the message each socket's last receive gave its caller

sender == <<pc, letter, dest, frames_ptr, cursor, msg_counter>>
receiver == <<held, got>>
vars == <<sender, atomic64, net, mailbox, array, receiver>>

Sockets == Clients \cup Servers

(* A client sends to its server, a server to the clients it has heard of.   *)
(* Any of them at any time: which ones a socket has heard of is not kept,   *)
(* so there are sends here that the code does not get to.  A send of a      *)
(* server whose picture names no client is dropped with a warning           *)
(* (hsock.c:361); that changes nothing and is left out.                     *)
Reach(s) == IF s \in Clients THEN Servers ELSE Clients

Lesser(a, b) == IF a < b THEN a ELSE b

(* Byte b of payload i of message m, and a payload all there. *)
Byte(m, i, b) == <<m.from, m.no, i, b>>
Payload(m) == [i \in 1 .. Len(m.sizes) |-> [b \in 0 .. m.sizes[i] - 1 |-> Byte(m, i, b)]]
Blank(sizes) == [i \in 1 .. Len(sizes) |-> [b \in 0 .. sizes[i] - 1 |-> Nothing]]

Messages == [from : Sockets, no : 0 .. MaxSends, sizes : Sizes \cup {<<>>}]
Lengths == UNION {{sizes[i] : i \in 1 .. Len(sizes)} : sizes \in Sizes}
Places == UNION {1 .. Len(sizes) : sizes \in Sizes}
Offsets == UNION {0 .. n - 1 : n \in Lengths}
Bytes == Sockets \X (0 .. MaxSends) \X Places \X Offsets
Buffers == UNION {[0 .. n - 1 -> Bytes \cup {Nothing}] : n \in Lengths}
FrameArrays == [picture : Messages, payload : Seq(Buffers)]

ASSUME FreeAssumption == Nothing \notin FrameArrays

-----------------------------------------------------------------------------

Init ==
  /\ pc = [s \in Sockets |-> "idle"]
  /\ letter = [s \in Sockets |-> [from |-> s, no |-> 0, sizes |-> <<>>]]
  /\ dest = [s \in Sockets |-> Nothing]
  /\ frames_ptr = [s \in Sockets |-> Nothing]
  /\ cursor = [s \in Sockets |-> [i |-> 1, offset |-> 0]]
  /\ msg_counter = [s \in Sockets |-> 0]
  /\ atomic64 = [s \in Sockets |-> IF s \in Clients THEN UINT64_MAX ELSE 0]
  /\ net = {}
  /\ mailbox = [s \in Sockets |-> <<>>]
  /\ array = [f \in Frames |-> Nothing]
  /\ held = [s \in Sockets |-> Nothing]
  /\ got = [s \in Sockets |-> Nothing]

(***************************************************************************)
(* The active messages.  Each names the sender's atomic word (sock); the   *)
(* number of the message and the place of a piece tell two of them apart.  *)
(***************************************************************************)

PictureReq(s, m, d) == [kind |-> "picture", sock |-> s, to |-> d, picture |-> m]

PayloadReq(s, no, f, i, offset, bytes) ==
  [kind |-> "payload", sock |-> s, no |-> no, frames |-> f, frame_id |-> i,
   offset |-> offset, bytes |-> bytes]

TerminationReq(s, no, d, f) ==
  [kind |-> "termination", sock |-> s, no |-> no, to |-> d, frames |-> f]

SetReply(s, no, v) == [kind |-> "set", sock |-> s, no |-> no, val |-> v]

IncrReply(s, no, i, offset) ==
  [kind |-> "incr", sock |-> s, no |-> no, frame_id |-> i, offset |-> offset]

-----------------------------------------------------------------------------
(* hsock_send: serialize, then flood *)

Send_NoCleanup(s, d, sizes) ==
  LET m == [from |-> s, no |-> letter[s].no + 1, sizes |-> sizes] IN
  /\ pc[s] = "idle"
  /\ letter[s].no < MaxSends
  /\ letter' = [letter EXCEPT ![s] = m]
  /\ dest' = [dest EXCEPT ![s] = d]
  /\ net' = net \cup {PictureReq(s, m, d)}
  /\ pc' = [pc EXCEPT ![s] = "picture"]
  /\ UNCHANGED <<frames_ptr, cursor, msg_counter, atomic64, mailbox, array, receiver>>

(* Clear the word and send the picture with the sizes of the payloads. *)
Send(s, d, sizes) ==
  LET m == [from |-> s, no |-> letter[s].no + 1, sizes |-> sizes] IN
  /\ pc[s] = "idle"
  /\ letter[s].no < MaxSends
  /\ letter' = [letter EXCEPT ![s] = m]
  /\ dest' = [dest EXCEPT ![s] = d]
  /\ atomic64' = [atomic64 EXCEPT ![s] = 0]
  /\ net' = net \cup {PictureReq(s, m, d)}
  /\ pc' = [pc EXCEPT ![s] = "picture"]
  /\ UNCHANGED <<frames_ptr, cursor, msg_counter, mailbox, array, receiver>>

(* flood returns and its locals are gone. *)
Return(s) ==
  /\ pc' = [pc EXCEPT ![s] = "idle"]
  /\ dest' = [dest EXCEPT ![s] = Nothing]
  /\ frames_ptr' = [frames_ptr EXCEPT ![s] = Nothing]
  /\ cursor' = [cursor EXCEPT ![s] = [i |-> 1, offset |-> 0]]
  /\ msg_counter' = [msg_counter EXCEPT ![s] = 0]

(* The answer to the picture: done, or the address to flood. *)
PictureAnswered(s) ==
  /\ pc[s] = "picture"
  /\ atomic64[s] # 0
  /\ atomic64' = [atomic64 EXCEPT ![s] = 0]
  /\ \/ /\ letter[s].sizes = <<>>
        /\ Return(s)
     \/ /\ letter[s].sizes # <<>>
        /\ frames_ptr' = [frames_ptr EXCEPT ![s] = atomic64[s]]
        /\ pc' = [pc EXCEPT ![s] = "chunks"]
        /\ UNCHANGED <<dest, cursor, msg_counter>>
  /\ UNCHANGED <<letter, net, mailbox, array, receiver>>

(* One turn of the inner loop: the next piece of payload i. *)
SendChunk(s) ==
  LET i == cursor[s].i
      offset == cursor[s].offset
      nbytes == Lesser(letter[s].sizes[i] - offset, MaxAM)
      bytes == [k \in 0 .. nbytes - 1 |-> Byte(letter[s], i, offset + k)]
  IN
  /\ pc[s] = "chunks"
  /\ i <= Len(letter[s].sizes)
  /\ offset < letter[s].sizes[i]
  /\ net' = net \cup {PayloadReq(s, letter[s].no, frames_ptr[s], i, offset, bytes)}
  /\ msg_counter' = [msg_counter EXCEPT ![s] = @ + 1]
  /\ cursor' = [cursor EXCEPT ![s].offset = offset + nbytes]
  /\ UNCHANGED <<pc, letter, dest, frames_ptr, atomic64, mailbox, array, receiver>>

(* One turn of the outer loop: payload i is out. *)
NextFrame(s) ==
  LET i == cursor[s].i IN
  /\ pc[s] = "chunks"
  /\ i <= Len(letter[s].sizes)
  /\ cursor[s].offset = letter[s].sizes[i]
  /\ cursor' = [cursor EXCEPT ![s] = [i |-> i + 1, offset |-> 0]]
  /\ UNCHANGED <<pc, letter, dest, frames_ptr, msg_counter, atomic64, net, mailbox,
                 array, receiver>>

ChunksAnswered_NotAll(s) ==
  /\ pc[s] = "chunks"
  /\ cursor[s].i > Len(letter[s].sizes)
  /\ msg_counter[s] = 0 \/ atomic64[s] # 0
  /\ atomic64' = [atomic64 EXCEPT ![s] = 0]
  /\ net' = net \cup {TerminationReq(s, letter[s].no, dest[s], frames_ptr[s])}
  /\ pc' = [pc EXCEPT ![s] = "term"]
  /\ UNCHANGED <<letter, dest, frames_ptr, cursor, msg_counter, mailbox, array, receiver>>

(* Every piece has been acknowledged (compare-and-swap of the count): ask   *)
(* for the array to be put in the mailbox.                                  *)
ChunksAnswered(s) ==
  /\ pc[s] = "chunks"
  /\ cursor[s].i > Len(letter[s].sizes)
  /\ atomic64[s] = msg_counter[s]
  /\ atomic64' = [atomic64 EXCEPT ![s] = 0]
  /\ net' = net \cup {TerminationReq(s, letter[s].no, dest[s], frames_ptr[s])}
  /\ pc' = [pc EXCEPT ![s] = "term"]
  /\ UNCHANGED <<letter, dest, frames_ptr, cursor, msg_counter, mailbox, array, receiver>>

TerminationAnswered_NoWait(s) ==
  /\ pc[s] = "term"
  /\ Return(s)
  /\ UNCHANGED <<letter, atomic64, net, mailbox, array, receiver>>

TerminationAnswered(s) ==
  /\ pc[s] = "term"
  /\ atomic64[s] # 0
  /\ atomic64' = [atomic64 EXCEPT ![s] = 0]
  /\ Return(s)
  /\ UNCHANGED <<letter, net, mailbox, array, receiver>>

-----------------------------------------------------------------------------
(* The handlers.  A handler consumes its message and may send one reply. *)

(* picture_transmission_request_handler: a frame array for the picture and  *)
(* each payload.  Without payloads the message is whole and goes to the     *)
(* mailbox; otherwise the address of the array goes back.                   *)
OnPicture(am) ==
  /\ am.kind = "picture"
  /\ \E f \in {g \in Frames : array[g] = Nothing} :
       /\ array' = [array EXCEPT ![f] =
                      [picture |-> am.picture, payload |-> Blank(am.picture.sizes)]]
       /\ \/ /\ am.picture.sizes = <<>>
             /\ mailbox' = [mailbox EXCEPT ![am.to] = Append(@, f)]
             /\ net' = (net \ {am}) \cup {SetReply(am.sock, am.picture.no, 1)}
          \/ /\ am.picture.sizes # <<>>
             /\ net' = (net \ {am}) \cup {SetReply(am.sock, am.picture.no, f)}
             /\ UNCHANGED mailbox
  /\ UNCHANGED <<sender, atomic64, receiver>>

OnPayload_NoOffset(am) ==
  /\ am.kind = "payload"
  /\ array' = [array EXCEPT ![am.frames].payload[am.frame_id] =
                 [b \in DOMAIN @ |-> IF b \in DOMAIN am.bytes THEN am.bytes[b] ELSE @[b]]]
  /\ net' = (net \ {am}) \cup {IncrReply(am.sock, am.no, am.frame_id, am.offset)}
  /\ UNCHANGED <<sender, atomic64, mailbox, receiver>>

(* payload_transmission_request_handler: copy the piece into place. *)
OnPayload(am) ==
  /\ am.kind = "payload"
  /\ array' = [array EXCEPT ![am.frames].payload[am.frame_id] =
                 [b \in DOMAIN @ |-> IF b - am.offset \in DOMAIN am.bytes
                                       THEN am.bytes[b - am.offset] ELSE @[b]]]
  /\ net' = (net \ {am}) \cup {IncrReply(am.sock, am.no, am.frame_id, am.offset)}
  /\ UNCHANGED <<sender, atomic64, mailbox, receiver>>

OnTermination_NotPushed(am) ==
  /\ am.kind = "termination"
  /\ net' = (net \ {am}) \cup {SetReply(am.sock, am.no, 1)}
  /\ UNCHANGED <<sender, atomic64, mailbox, array, receiver>>

(* flow_termination_request_handler: the message is whole. *)
OnTermination(am) ==
  /\ am.kind = "termination"
  /\ mailbox' = [mailbox EXCEPT ![am.to] = Append(@, am.frames)]
  /\ net' = (net \ {am}) \cup {SetReply(am.sock, am.no, 1)}
  /\ UNCHANGED <<sender, atomic64, array, receiver>>

(* One more than a value of the word: it wraps, and the sum of an address   *)
(* and a count is an address to nothing in particular.                      *)
Incremented(v) == CASE v \in Nat -> v + 1 [] v = UINT64_MAX -> 0 [] OTHER -> v

(* transmission_reply_handler *)
OnReply_IncrSets(am) ==
  /\ am.kind \in {"set", "incr"}
  /\ atomic64' = [atomic64 EXCEPT ![am.sock] = IF am.kind = "set" THEN am.val ELSE 1]
  /\ net' = net \ {am}
  /\ UNCHANGED <<sender, mailbox, array, receiver>>

OnReply(am) ==
  /\ am.kind \in {"set", "incr"}
  /\ atomic64' = [atomic64 EXCEPT ![am.sock] =
                    IF am.kind = "set" THEN am.val ELSE Incremented(@)]
  /\ net' = net \ {am}
  /\ UNCHANGED <<sender, mailbox, array, receiver>>

Handle(am) == OnPicture(am) \/ OnPayload(am) \/ OnTermination(am) \/ OnReply(am)

-----------------------------------------------------------------------------
(* hsock_recv, and hsock_peek on a connected socket when it finds a message *)

RecvPop_Keeps(s) ==
  /\ held[s] = Nothing
  /\ mailbox[s] # <<>>
  /\ held' = [held EXCEPT ![s] = Head(mailbox[s])]
  /\ UNCHANGED <<sender, atomic64, net, mailbox, array, got>>

RecvPop(s) ==
  /\ held[s] = Nothing
  /\ mailbox[s] # <<>>
  /\ held' = [held EXCEPT ![s] = Head(mailbox[s])]
  /\ mailbox' = [mailbox EXCEPT ![s] = Tail(@)]
  /\ UNCHANGED <<sender, atomic64, net, array, got>>

(* What the frame array at f amounts to: a message if all its bytes are there. *)
Read(f) ==
  IF array[f] # Nothing /\ array[f].payload = Payload(array[f].picture)
    THEN array[f].picture
    ELSE Nothing

(* deserialize: hand the content to the caller, free the frame array. *)
Deserialize(s) ==
  /\ held[s] # Nothing
  /\ got' = [got EXCEPT ![s] = Read(held[s])]
  /\ array' = [array EXCEPT ![held[s]] = Nothing]
  /\ held' = [held EXCEPT ![s] = Nothing]
  /\ UNCHANGED <<sender, atomic64, net, mailbox>>

-----------------------------------------------------------------------------

Flood(s) ==
  \/ PictureAnswered(s)
  \/ SendChunk(s)
  \/ NextFrame(s)
  \/ ChunksAnswered(s)
  \/ TerminationAnswered(s)

Recv(s) == RecvPop(s) \/ Deserialize(s)

Next ==
  \/ \E s \in Sockets :
       \/ \E d \in Reach(s), sizes \in Sizes : Send(s, d, sizes)
       \/ Flood(s)
       \/ Recv(s)
  \/ \E am \in net : Handle(am)

Spec == Init /\ [][Next]_vars

(* A send in progress polls the network until it is done, the owner of a    *)
(* socket keeps receiving, and every node keeps calling into GASNet, which  *)
(* is what runs the handlers: no message stays in flight for ever.          *)
Fairness ==
  \A s \in Sockets :
    /\ WF_vars(Flood(s))
    /\ WF_vars(Recv(s))
    /\ WF_vars(\E am \in net : am.sock = s /\ Handle(am))

FairSpec == Spec /\ Fairness

-----------------------------------------------------------------------------
(* Properties *)

InFlight(s) == {am \in net : am.sock = s}

TypeOK ==
  /\ pc \in [Sockets -> {"idle", "picture", "chunks", "term"}]
  /\ letter \in [Sockets -> Messages]
  /\ dest \in [Sockets -> Sockets \cup {Nothing}]
  /\ frames_ptr \in [Sockets -> Frames \cup {Nothing}]
  /\ cursor \in [Sockets -> [i : Nat \ {0}, offset : Nat]]
  /\ msg_counter \in [Sockets -> Nat]
  /\ atomic64 \in [Sockets -> Nat \cup Frames \cup {UINT64_MAX}]
  /\ \A am \in net :
       /\ am.kind \in {"picture", "payload", "termination", "set", "incr"}
       /\ am.sock \in Sockets
  /\ mailbox \in [Sockets -> Seq(Frames)]
  /\ \A f \in Frames : array[f] # Nothing => array[f] \in FrameArrays
  /\ held \in [Sockets -> Frames \cup {Nothing}]
  /\ got \in [Sockets -> Messages \cup {Nothing}]

(* Every request is answered once, and the answers of one phase are all     *)
(* consumed before the next begins: whatever one word is made to stand for  *)
(* - an address, a count, a flag - nothing stale is left to be taken for    *)
(* something else, in this send or in the next (hsock.c:261, 277, 307).     *)
Answered(s) == IF atomic64[s] # 0 THEN 1 ELSE 0

AnswersAccounted ==
  \A s \in Sockets :
    /\ pc[s] = "idle" => InFlight(s) = {}
    /\ pc[s] = "picture" => Cardinality(InFlight(s)) + Answered(s) = 1
    /\ pc[s] = "chunks" => /\ atomic64[s] \in Nat
                           /\ Cardinality(InFlight(s)) + atomic64[s] = msg_counter[s]
    /\ pc[s] = "term" => Cardinality(InFlight(s)) + Answered(s) = 1

(* A piece in flight has a place to go: the array is still allocated, still *)
(* belongs to the send that issued the piece, and has room for it           *)
(* (hsock.c:555).                                                           *)
PiecesHaveRoom ==
  \A am \in net :
    am.kind = "payload" =>
      /\ pc[am.sock] = "chunks"
      /\ frames_ptr[am.sock] = am.frames
      /\ array[am.frames] # Nothing
      /\ array[am.frames].picture = letter[am.sock]
      /\ \A k \in DOMAIN am.bytes : am.offset + k < letter[am.sock].sizes[am.frame_id]

(* Each frame array allocated is in one place: on its way back to the       *)
(* sender or being filled by it, in one mailbox, or being read.  None is    *)
(* lost, none is delivered twice, none is freed twice.                      *)
Filling(s) ==
  {f \in Frames :
    \/ \E am \in InFlight(s) : am.kind = "set" /\ am.val = f
    \/ atomic64[s] = f
    \/ pc[s] = "chunks" /\ frames_ptr[s] = f
    \/ \E am \in InFlight(s) : am.kind = "termination" /\ am.frames = f}

(* Where a mailbox has an array. *)
Waiting == UNION {{s} \X (1 .. Len(mailbox[s])) : s \in Sockets}

ArraysAccounted ==
  \A f \in Frames :
    Cardinality({s \in Sockets : f \in Filling(s)})
      + Cardinality({p \in Waiting : mailbox[p[1]][p[2]] = f})
      + Cardinality({s \in Sockets : held[s] = f})
    = IF array[f] = Nothing THEN 0 ELSE 1

(* The mail service the protocol implements. *)
Arrived(s) ==
  /\ \/ pc[s] = "picture" /\ letter[s].sizes = <<>>
     \/ pc[s] = "term"
  /\ \A am \in InFlight(s) : am.kind = "set"

Mail == INSTANCE SocketMail WITH
  inbox <- [s \in Sockets |->
              (IF held[s] = Nothing THEN <<>> ELSE <<Read(held[s])>>)
              \o [i \in 1 .. Len(mailbox[s]) |-> Read(mailbox[s][i])]],
  send <- [s \in Sockets |->
             CASE pc[s] = "idle" -> "idle"
               [] pc[s] # "idle" /\ Arrived(s) -> "arrived"
               [] OTHER -> "sending"]

(* A send delivers its message once, whole, every byte at its place, to the *)
(* right mailbox, before it returns; so the messages of one sender arrive   *)
(* in the order it sent them, although active messages overtake each other. *)
RefinesMail == Mail!Spec

(* A send returns, and what was sent is received.                           *)
SendReturns == \A s \in Sockets : pc[s] # "idle" ~> pc[s] = "idle"

AllReceived ==
  \A s \in Sockets : \A n \in 1 .. MaxSends :
    letter[s].no = n ~> \E d \in Sockets : got[d] # Nothing /\ got[d].from = s /\ got[d].no = n
=============================================================================

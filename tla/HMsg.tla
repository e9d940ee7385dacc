-------------------------------- MODULE HMsg --------------------------------
(***************************************************************************)
(* The encoding of a message described by a picture, from the caller's     *)
(* arguments to the receiver's variables: hmsg.c, the messages of a pipe,  *)
(* and serialize and deserialize of hsock.c, the messages of a socket.     *)
(*                                                                         *)
(* Both pack the numbers of the picture into a stream of bytes, element by *)
(* element, and take them out again by walking the same picture.  A socket *)
(* also sends chunks ('b'): only their sizes are in the stream, at its     *)
(* end, where the handler at the destination looks for them; the contents  *)
(* follow as HFlood describes.  A leading 's' of the receiver's picture    *)
(* reads the header and moves nothing; HSock has it (heard).               *)
(*                                                                         *)
(* Byte j of the value at element k is <<k, j>>; a chunk is the number of  *)
(* its element, and so is its size when all 8 bytes of that are in place.  *)
(***************************************************************************)
EXTENDS Integers, Sequences, FiniteSets

CONSTANTS
  Letters,      \* the picture elements callers use, some perhaps invalid
  MaxElements,  \* bound: the length of a picture
  Header,       \* sizeof(picture_transmission_request_packet_t)
  MaxAM,        \* MAX_MEDIUM_AM_SZ, the bytes of medium_AM_buffer
  Nothing       \* a variable of the receiver not written to; no such memory

ASSUME MsgAssumption ==
  /\ MaxElements \in Nat
  /\ Header \in Nat /\ MaxAM \in Nat /\ Header <= MaxAM

VARIABLES
  carrier,           \* "msg" for a pipe, "sock" for a socket
  picture,           \* the picture, the same on both sides
  wanted,            \* the elements the receiver passes a pointer for
  pc,
  at,                \* the element of the picture the loop is at
  stream,            \* the bytes packed, after the header
  frames,            \* sender: the chunks
  array,             \* receiver: chunk and size of each payload frame
  ppos,              \* receiver: bytes of the stream consumed
  payload_frame_id,  \* receiver: the payload frame that is next
  out,               \* the receiver's variables
  heap               \* what has been allocated and not been freed

content == <<carrier, picture, wanted>>
vars == <<content, pc, at, stream, frames, array, ppos, payload_frame_id, out, heap>>

-----------------------------------------------------------------------------

Numbers == {"i", "1", "2", "4", "8", "d", "p"}

(* Bytes a number takes in the stream, where '1' and '2' are ints, and in   *)
(* the receiver's variable.                                                 *)
Width(l) == IF l \in {"8", "d", "p"} THEN 8 ELSE 4
SizeOf(l) == CASE l = "1" -> 1 [] l = "2" -> 2 [] OTHER -> Width(l)

Bytes(k, n) == [j \in 1 .. n |-> <<k, j>>]
Load(first, n) ==
  [j \in 1 .. n |-> IF first + j \in 1 .. Len(stream) THEN stream[first + j] ELSE Nothing]

(* The size that was written at a place of the stream, if one was. *)
SizeAt(first) ==
  IF \E k \in 1 .. Len(picture) : Load(first, 8) = Bytes(k, 8)
    THEN CHOOSE k \in 1 .. Len(picture) : Load(first, 8) = Bytes(k, 8)
    ELSE Nothing

(* The bytes allocated for the packed message: "pessimistically allocate 8  *)
(* bytes per picture element" (hmsg.c:58), and the buffer of the socket.    *)
MsgRoom_FourEach == 4 * Len(picture)
MsgRoom == 8 * Len(picture)
SockRoom == MaxAM - Header

Init ==
  /\ carrier \in {"msg", "sock"}
  /\ picture \in UNION {[1 .. n -> Letters] : n \in 0 .. MaxElements}
  /\ wanted \in SUBSET DOMAIN picture
  /\ pc = "pack"
  /\ at = 1
  /\ stream = <<>>
  /\ frames = <<>>
  /\ array = <<>>
  /\ ppos = 0
  /\ payload_frame_id = 1
  /\ out = [k \in DOMAIN picture |-> Nothing]
  /\ heap = IF carrier = "msg" THEN {<<"msg">>, <<"packed">>} ELSE {}

-----------------------------------------------------------------------------
(* Packing *)

More == at <= Len(picture)
Letter == picture[at]

(* Append bytes; past the end of the allocation anything may happen. *)
Store(bytes, room) ==
  /\ stream' = stream \o bytes
  /\ pc' = IF Len(stream') > room THEN "overrun" ELSE pc
  /\ at' = at + 1

(* LOG_ERR ends the process. *)
Invalid ==
  /\ pc' = "exit"
  /\ UNCHANGED <<at, stream, frames>>

(* hmsg_vset: no chunks. *)
Vset ==
  /\ carrier = "msg" /\ pc = "pack" /\ More
  /\ \/ Letter \in Numbers /\ Store(Bytes(at, Width(Letter)), MsgRoom) /\ UNCHANGED frames
     \/ Letter \notin Numbers /\ Invalid
  /\ UNCHANGED <<content, array, ppos, payload_frame_id, out, heap>>

(* hmsg_set_picture; the message goes through the ring as it is. *)
SetPicture ==
  /\ carrier = "msg" /\ pc = "pack" /\ ~More
  /\ pc' = "unpack"
  /\ at' = 1
  /\ UNCHANGED <<content, stream, frames, array, ppos, payload_frame_id, out, heap>>

Serialize ==
  /\ carrier = "sock" /\ pc = "pack" /\ More
  /\ \/ Letter \in Numbers /\ Store(Bytes(at, Width(Letter)), SockRoom) /\ UNCHANGED frames
     \/ Letter = "b" /\ frames' = Append(frames, at) /\ at' = at + 1 /\ UNCHANGED <<pc, stream>>
     \/ Letter \notin Numbers \cup {"b"} /\ Invalid
  /\ UNCHANGED <<content, array, ppos, payload_frame_id, out, heap>>

(* The sizes of the chunks, after the last element. *)
SerializeSizes ==
  /\ carrier = "sock" /\ pc = "pack" /\ ~More
  /\ stream' = stream \o [n \in 1 .. 8 * Len(frames) |->
                            <<frames[((n - 1) \div 8) + 1], ((n - 1) % 8) + 1>>]
  /\ pc' = IF Len(stream') > SockRoom THEN "overrun" ELSE "sent"
  /\ UNCHANGED <<content, at, frames, array, ppos, payload_frame_id, out, heap>>

(* picture_transmission_request_handler: a copy of the picture, and memory  *)
(* for each payload, of the size it finds counting from the end.            *)
OnPicture ==
  LET sizes == Len(stream) - 8 * Len(frames) IN
  /\ pc = "sent"
  /\ array' = [n \in 1 .. Len(frames) |->
                 [chunk |-> frames[n], size |-> SizeAt(sizes + 8 * (n - 1))]]
  /\ heap' = heap \cup {<<"array">>, <<"copy">>} \cup {<<"payload", frames[n]>> : n \in 1 .. Len(frames)}
  /\ pc' = "unpack"
  /\ at' = 1
  /\ UNCHANGED <<content, stream, frames, ppos, payload_frame_id, out>>

-----------------------------------------------------------------------------
(* Unpacking; an element the receiver passes no pointer for is not skipped. *)

Number_BySize ==
  /\ Letter \in Numbers
  /\ \/ /\ at \in wanted
        /\ out' = [out EXCEPT ![at] = Load(ppos, SizeOf(Letter))]
        /\ ppos' = ppos + SizeOf(Letter)
     \/ at \notin wanted /\ UNCHANGED <<out, ppos>>

Number ==
  /\ Letter \in Numbers
  /\ \/ /\ at \in wanted
        /\ out' = [out EXCEPT ![at] = Load(ppos, SizeOf(Letter))]
        /\ ppos' = ppos + Width(Letter)
     \/ at \notin wanted /\ UNCHANGED <<out, ppos>>

(* The payload becomes the caller's. *)
Chunk ==
  /\ Letter = "b"
  /\ \/ /\ at \in wanted
        /\ out' = [out EXCEPT ![at] = array[payload_frame_id]]
        /\ heap' = heap \ {<<"payload", array[payload_frame_id].chunk>>}
        /\ payload_frame_id' = payload_frame_id + 1
     \/ at \notin wanted /\ UNCHANGED <<out, heap, payload_frame_id>>

Vget ==
  /\ carrier = "msg" /\ pc = "unpack" /\ More
  /\ Number
  /\ at' = at + 1
  /\ UNCHANGED <<content, pc, stream, frames, array, payload_frame_id, heap>>

VgetEnd_Keeps ==
  /\ carrier = "msg" /\ pc = "unpack" /\ ~More
  /\ heap' = heap \ {<<"msg">>}
  /\ pc' = "done"
  /\ UNCHANGED <<content, at, stream, frames, array, ppos, payload_frame_id, out>>

(* hmsg_vget frees what was packed, hmsg_destroy the message. *)
VgetEnd ==
  /\ carrier = "msg" /\ pc = "unpack" /\ ~More
  /\ heap' = heap \ {<<"packed">>, <<"msg">>}
  /\ pc' = "done"
  /\ UNCHANGED <<content, at, stream, frames, array, ppos, payload_frame_id, out>>

Deserialize ==
  /\ carrier = "sock" /\ pc = "unpack" /\ More
  /\ \/ Number /\ UNCHANGED <<heap, payload_frame_id>>
     \/ Chunk /\ UNCHANGED ppos
  /\ at' = at + 1
  /\ UNCHANGED <<content, pc, stream, frames, array>>

(* hfree(frames): the array, and not what it points to. *)
DeserializeEnd ==
  /\ carrier = "sock" /\ pc = "unpack" /\ ~More
  /\ heap' = heap \ {<<"array">>}
  /\ pc' = "done"
  /\ UNCHANGED <<content, at, stream, frames, array, ppos, payload_frame_id, out>>

-----------------------------------------------------------------------------

Next ==
  \/ Vset \/ SetPicture \/ Vget \/ VgetEnd
  \/ Serialize \/ SerializeSizes \/ OnPicture \/ Deserialize \/ DeserializeEnd

Spec == Init /\ [][Next]_vars

-----------------------------------------------------------------------------
(* Properties *)

(* Packing stays in its buffer.  The allocation of hmsg.c:59 is enough for  *)
(* every picture; that of a socket, which nothing tests (hsock.c:97), for   *)
(* the pictures that fit if each element took 8 bytes.                      *)
BufferEnough ==
  pc = "overrun" => carrier = "sock" /\ 8 * Len(picture) > SockRoom

Declined(S) == {k \in DOMAIN picture : picture[k] \in S /\ k \notin wanted}
Sent(k) ==
  IF picture[k] = "b" THEN [chunk |-> k, size |-> k] ELSE Bytes(k, SizeOf(picture[k]))

(* What element k gives the receiver was sent as a number, or as a chunk,   *)
(* and no later in the picture than k.                                      *)
Genuine(k) ==
  /\ picture[k] \in Numbers =>
       \A j \in 1 .. SizeOf(picture[k]) :
         out[k][j] \in {m \in 1 .. k : picture[m] \in Numbers} \X Nat
  /\ picture[k] = "b" =>
       \E m \in 1 .. k : picture[m] = "b" /\ out[k] = [chunk |-> m, size |-> m]

(* Every variable of the receiver gets the value of its element, cut to the *)
(* width of the variable, and every chunk comes with its own size - as long *)
(* as no element of the same kind before it was declined: numbers and       *)
(* chunks are two streams, and a null pointer stops its stream (hmsg.c:129, *)
(* hsock.c:181) instead of stepping over an element.  After that a variable *)
(* gets what is next in the stream, at whatever offset that is.  But it     *)
(* still gets bytes of numbers of this message, none of what lies behind    *)
(* them, and a chunk that is whole, has its own size and that no other      *)
(* variable has: what is read too early is never read past the end, and the *)
(* caller frees no chunk twice.                                             *)
RoundTrip ==
  pc = "done" =>
    /\ \A S \in {Numbers, {"b"}} : \A k \in wanted :
         picture[k] \in S /\ (\A m \in Declined(S) : m > k) => out[k] = Sent(k)
    /\ \A k \in wanted : Genuine(k)
    /\ \A k, l \in wanted :
         picture[k] = "b" /\ picture[l] = "b" /\ out[k] = out[l] => k = l

(* What a receive leaves behind: nothing of a pipe's message; of a socket's *)
(* the copy of the picture, which nobody frees, and one payload for each    *)
(* chunk the receiver declined.                                             *)
LeftBehind ==
  pc = "done" =>
    IF carrier = "msg"
      THEN heap = {}
      ELSE /\ heap \subseteq {<<"copy">>} \cup {<<"payload", k>> : k \in DOMAIN picture}
           /\ Cardinality(heap \ {<<"copy">>}) = Cardinality(Declined({"b"}))
=============================================================================

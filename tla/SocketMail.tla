----------------------------- MODULE SocketMail -----------------------------
(***************************************************************************)
(* What hsock_send and hsock_recv promise, with no active message, no      *)
(* counter and no payload buffer: a send puts one whole message in the     *)
(* mailbox of its destination before it returns, and a receive takes the   *)
(* oldest message of the own mailbox.                                      *)
(***************************************************************************)
EXTENDS Naturals, Sequences

CONSTANTS
  Clients, Servers,  \* the sockets
  Sizes,             \* the payloads a message can have: a sequence of sizes
  MaxSends,          \* bound: how many messages a socket sends
  Nothing            \* what a socket that has received nothing has got

VARIABLES
  inbox,   \* of each socket, oldest message first
  send,    \* each socket's send call: "idle", "sending", "arrived"
  letter,  \* the message of each socket's last send
  dest,    \* and where it goes, until the send returns
  got      \* the message each socket received last

vars == <<inbox, send, letter, dest, got>>

Sockets == Clients \cup Servers
Reach(s) == IF s \in Clients THEN Servers ELSE Clients

Init ==
  /\ inbox = [s \in Sockets |-> <<>>]
  /\ send = [s \in Sockets |-> "idle"]
  /\ letter = [s \in Sockets |-> [from |-> s, no |-> 0, sizes |-> <<>>]]
  /\ dest = [s \in Sockets |-> Nothing]
  /\ got = [s \in Sockets |-> Nothing]

SendCall(s, d, sizes) ==
  /\ send[s] = "idle"
  /\ letter[s].no < MaxSends
  /\ send' = [send EXCEPT ![s] = "sending"]
  /\ letter' = [letter EXCEPT ![s] = [from |-> s, no |-> @.no + 1, sizes |-> sizes]]
  /\ dest' = [dest EXCEPT ![s] = d]
  /\ UNCHANGED <<inbox, got>>

Arrive(s) ==
  /\ send[s] = "sending"
  /\ inbox' = [inbox EXCEPT ![dest[s]] = Append(@, letter[s])]
  /\ send' = [send EXCEPT ![s] = "arrived"]
  /\ UNCHANGED <<letter, dest, got>>

SendReturn(s) ==
  /\ send[s] = "arrived"
  /\ send' = [send EXCEPT ![s] = "idle"]
  /\ dest' = [dest EXCEPT ![s] = Nothing]
  /\ UNCHANGED <<inbox, letter, got>>

Recv(s) ==
  /\ inbox[s] # <<>>
  /\ got' = [got EXCEPT ![s] = Head(inbox[s])]
  /\ inbox' = [inbox EXCEPT ![s] = Tail(@)]
  /\ UNCHANGED <<send, letter, dest>>

Next ==
  \E s \in Sockets :
    \/ \E d \in Reach(s), sizes \in Sizes : SendCall(s, d, sizes)
    \/ Arrive(s)
    \/ SendReturn(s)
    \/ Recv(s)

Spec == Init /\ [][Next]_vars
=============================================================================

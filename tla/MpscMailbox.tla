---------------------------- MODULE MpscMailbox -----------------------------
(***************************************************************************)
(* What an hfunnel promises its producers and its one consumer: an         *)
(* unbounded mailbox.  A push first takes its place in the order of        *)
(* arrival and becomes visible a little later; a pop returns the oldest    *)
(* value once it is visible, and otherwise nothing, even if younger values *)
(* are visible already.                                                    *)
(***************************************************************************)
EXTENDS Naturals, Sequences

CONSTANTS
  Producers,  \* the threads that push
  Values,     \* the pointers they push
  Null        \* what pop returns when it finds nothing; also "nobody"

VARIABLES
  mail,  \* the values in order of arrival; "by" is the producer still busy
         \* making the entry visible, or Null
  push,  \* each producer's call: "idle", "called", "placed"
  arg,   \* the value each producer is pushing, Null outside a call
  pop,   \* the consumer's call: "idle", "called", "taken"
  got,   \* what the consumer's last call returned
  open   \* FALSE once the mailbox has been destroyed

vars == <<mail, push, arg, pop, got, open>>

Init ==
  /\ mail = <<>>
  /\ push = [p \in Producers |-> "idle"]
  /\ arg = [p \in Producers |-> Null]
  /\ pop = "idle"
  /\ got = Null
  /\ open = TRUE

PushCall(p, v) ==
  /\ open
  /\ push[p] = "idle"
  /\ push' = [push EXCEPT ![p] = "called"]
  /\ arg' = [arg EXCEPT ![p] = v]
  /\ UNCHANGED <<mail, pop, got, open>>

Place(p) ==
  /\ push[p] = "called"
  /\ mail' = Append(mail, [value |-> arg[p], by |-> p])
  /\ push' = [push EXCEPT ![p] = "placed"]
  /\ UNCHANGED <<arg, pop, got, open>>

Show(p) ==
  /\ push[p] = "placed"
  /\ mail' = [i \in 1 .. Len(mail) |->
                IF mail[i].by = p THEN [mail[i] EXCEPT !.by = Null] ELSE mail[i]]
  /\ push' = [push EXCEPT ![p] = "idle"]
  /\ arg' = [arg EXCEPT ![p] = Null]
  /\ UNCHANGED <<pop, got, open>>

PopCall ==
  /\ open
  /\ pop = "idle"
  /\ pop' = "called"
  /\ UNCHANGED <<mail, push, arg, got, open>>

Visible == mail # <<>> /\ mail[1].by = Null

PopNull ==
  /\ pop = "called"
  /\ ~Visible
  /\ got' = Null
  /\ pop' = "idle"
  /\ UNCHANGED <<mail, push, arg, open>>

Take ==
  /\ pop = "called"
  /\ Visible
  /\ got' = mail[1].value
  /\ mail' = Tail(mail)
  /\ pop' = "taken"
  /\ UNCHANGED <<push, arg, open>>

PopReturn ==
  /\ pop = "taken"
  /\ pop' = "idle"
  /\ UNCHANGED <<mail, push, arg, got, open>>

(* The owner destroys the mailbox when nobody is using it. *)
Close ==
  /\ open
  /\ pop = "idle"
  /\ \A p \in Producers : push[p] = "idle"
  /\ open' = FALSE
  /\ UNCHANGED <<mail, push, arg, pop, got>>

Next ==
  \/ \E p \in Producers : (\E v \in Values : PushCall(p, v)) \/ Place(p) \/ Show(p)
  \/ PopCall
  \/ PopNull
  \/ Take
  \/ PopReturn
  \/ Close

Spec == Init /\ [][Next]_vars
=============================================================================

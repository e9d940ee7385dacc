------------------------------- MODULE HActor -------------------------------
(***************************************************************************)
(* hactor.c: a thread that runs a handler, and the pair between it and the *)
(* thread that made it.                                                    *)
(*                                                                         *)
(* hactor_new makes the pair and both pipes, starts the thread and waits   *)
(* for a signal; hactor_destroy waits for one more and frees everything.   *)
(* Between the two, owner and handler call what they like: a script each.  *)
(* What the library asks of them, without saying so, is that the calls of  *)
(* the two sides match in number (Matched).                                *)
(***************************************************************************)
EXTENDS HPair

CONSTANTS
  Mine, Childs,   \* self->pipe and self->chldpipe
  OwnerScripts,   \* what the owner calls between hactor_new and hactor_destroy
  HandlerScripts  \* what the handler calls

Ops == {"send", "recv", "sgnl", "wait"}

ASSUME ActorAssumption ==
  /\ Pipes = {Mine, Childs} /\ Mine # Childs
  /\ OwnerScripts \cup HandlerScripts \subseteq Seq(Ops)

VARIABLES
  stage,   \* what becomes of the actor object
  script,  \* the calls of the thread at each pipe
  at       \* the call each thread is at

avars == <<vars, stage, script, at>>

Count(calls, op) == Cardinality({i \in 1 .. Len(calls) : calls[i] = op})

(* The handler signals once for hactor_new and once for each hactor_wait. *)
Matched(owner, handler) ==
  /\ Count(handler, "sgnl") = Count(owner, "wait") + 1
  /\ Count(handler, "wait") = Count(owner, "sgnl")
  /\ Count(handler, "recv") = Count(owner, "send")
  /\ Count(handler, "send") = Count(owner, "recv")

OwnerCalls_NoLastWait(owner) == <<"wait">> \o owner

(* hactor_new ends with a wait and hactor_destroy begins with one. *)
OwnerCalls(owner) == <<"wait">> \o owner \o <<"wait">>

HandlerCalls_SgnlFirst(handler) == <<"sgnl">> \o handler

(* run: the handler, then a signal. *)
HandlerCalls(handler) == handler \o <<"sgnl">>

ActorInit ==
  /\ Init
  /\ stage = "pipe"
  /\ \E owner \in OwnerScripts, handler \in HandlerScripts :
       /\ Matched(owner, handler)
       /\ script = [p \in Pipes |-> IF p = Mine THEN OwnerCalls(owner)
                                               ELSE HandlerCalls(handler)]
  /\ at = [p \in Pipes |-> 1]

-----------------------------------------------------------------------------
(* hactor_new *)

(* The owner makes one pipe after the other, both itself. *)
MakePipe(p) ==
  /\ stage = IF p = Mine THEN "pipe" ELSE "chldpipe"
  /\ New(p) \/ Connect0(p) \/ Connect1(p)
  /\ stage' = IF ppc'[p] # "ready" THEN stage
              ELSE IF p = Mine THEN "chldpipe" ELSE "create"
  /\ UNCHANGED <<script, at>>

(* pthread_create: from here on the two threads run. *)
CreateThread ==
  /\ stage = "create"
  /\ stage' = "running"
  /\ UNCHANGED <<vars, script, at>>

-----------------------------------------------------------------------------
(* The calls of a thread, one after the other. *)

Finished(p) == at[p] > Len(script[p])

Begin(p) ==
  /\ stage \notin {"pipe", "chldpipe", "create"}
  /\ ~Finished(p)
  /\ \/ script[p][at[p]] = "send" /\ Send(p)
     \/ script[p][at[p]] = "recv" /\ Recv(p)
     \/ script[p][at[p]] = "sgnl" /\ Sgnl(p)
     \/ script[p][at[p]] = "wait" /\ Wait(p)
  /\ UNCHANGED <<stage, script, at>>

End(p) ==
  /\ Return(p)
  /\ at' = [at EXCEPT ![p] = @ + 1]
  /\ UNCHANGED <<stage, script>>

-----------------------------------------------------------------------------
(* hactor_destroy, after its wait: both pipes, the pair, the actor.  It     *)
(* does not look whether the other thread is inside a call.                 *)

FreePipe(p) ==
  /\ \/ p = Mine /\ stage = "running" /\ Finished(Mine) /\ stage' = "no_pipe"
     \/ p = Childs /\ stage = "no_pipe" /\ stage' = "no_chldpipe"
  /\ endpoint' = [endpoint EXCEPT ![ep[p]] = 0]
  /\ ep' = [ep EXCEPT ![p] = None]
  /\ ppc' = [ppc EXCEPT ![p] = "none"]
  /\ UNCHANGED <<signal, queue, exited, history, script, at>>

FreePair ==
  /\ stage = "no_chldpipe"
  /\ stage' = "gone"
  /\ UNCHANGED <<vars, script, at>>

ActorNext ==
  \/ \E p \in Pipes : MakePipe(p) \/ Begin(p) \/ End(p) \/ FreePipe(p)
  \/ CreateThread
  \/ FreePair

ActorSpec == ActorInit /\ [][ActorNext]_avars

(* Both threads run. *)
ActorFairness ==
  /\ \A p \in Pipes : WF_avars(MakePipe(p)) /\ WF_avars(Begin(p) \/ End(p)) /\ WF_avars(FreePipe(p))
  /\ WF_avars(CreateThread \/ FreePair)

FairActorSpec == ActorSpec /\ ActorFairness

-----------------------------------------------------------------------------
(* Properties *)

ActorTypeOK ==
  /\ TypeOK
  /\ stage \in {"pipe", "chldpipe", "create", "running", "no_pipe", "no_chldpipe", "gone"}
  /\ \A p \in Pipes : at[p] \in 1 .. Len(script[p]) + 1

(* The pipe and the pair outlive their last use by the other thread: once   *)
(* hactor_destroy begins to free, the handler has run to its end and the    *)
(* signal of run() has been given (hactor.c:33, 71-74).                     *)
OutlivesUse ==
  stage \in {"no_pipe", "no_chldpipe", "gone"} => Finished(Childs) /\ Finished(Mine)

(* Nothing is left in the pair when it is freed: hpipe.c:72 asks "What      *)
(* happens to the data in the channel is there's any?", hpair.c:85 the same *)
(* of the signal.  If the calls match there is none.                        *)
NothingLeft ==
  stage \in {"no_pipe", "no_chldpipe", "gone"} =>
    \A e \in Ends : queue[e] = <<>> /\ signal[e] = 0

(* Reference: the same two scripts run by one thread, the owner's calls as  *)
(* long as they go through, then the handler's, and so on.  Where that run  *)
(* is is a record: the call each side is at, the messages and the signal in *)
(* each direction.                                                          *)
Through(op, e, c) ==
  CASE op = "send" -> c.n[e] < Room[e]
    [] op = "recv" -> c.n[Other(e)] > 0
    [] op = "sgnl" -> c.s[e] = 0
    [] op = "wait" -> c.s[Other(e)] = 1

Effect(op, e, c) ==
  CASE op = "send" -> [c EXCEPT !.n[e] = @ + 1]
    [] op = "recv" -> [c EXCEPT !.n[Other(e)] = @ - 1]
    [] op = "sgnl" -> [c EXCEPT !.s[e] = 1]
    [] op = "wait" -> [c EXCEPT !.s[Other(e)] = 0]

EndOf(p) == IF p = Mine THEN 0 ELSE 1

Can(calls, c, p) ==
  /\ c.at[p] <= Len(calls[p])
  /\ Through(calls[p][c.at[p]], EndOf(p), c)

Do(calls, c, p) == [Effect(calls[p][c.at[p]], EndOf(p), c) EXCEPT !.at[p] = @ + 1]

Turn(calls, c) ==
  IF Can(calls, c, Mine) THEN Do(calls, c, Mine)
  ELSE IF Can(calls, c, Childs) THEN Do(calls, c, Childs) ELSE c

Beginning == [at |-> [p \in Pipes |-> 1], n |-> [e \in Ends |-> 0], s |-> [e \in Ends |-> 0]]

Outcome(calls) ==
  LET turns == Len(calls[Mine]) + Len(calls[Childs])
      run[k \in 0 .. turns] == IF k = 0 THEN Beginning ELSE Turn(calls, run[k - 1])
  IN  run[turns]

Completes == \A p \in Pipes : Outcome(script).at[p] > Len(script[p])

(* Whether the scripts get stuck does not depend on the schedule: if the    *)
(* sequential run ends, every run ends and the actor is freed; if it does   *)
(* not - both sides waiting, or both sending into full rings - none does.   *)
AnySchedule ==
  /\ Completes => <>(stage = "gone")
  /\ ~Completes => [](stage # "gone")
=============================================================================

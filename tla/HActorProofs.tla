---------------------------- MODULE HActorProofs ----------------------------
(***************************************************************************)
(* The actor of HActor.tla, for every pair of matching scripts, however    *)
(* long, and every size of the rings.                                      *)
(***************************************************************************)
EXTENDS HActor, HPairProofs, FunctionTheorems, WellFoundedInduction

(* Which of the first n calls are op; how often the thread at p has        *)
(* completed it so far.                                                     *)
Among(calls, n, op) == {i \in 1 .. n : calls[i] = op}
Done(p, op) == Cardinality(Among(script[p], at[p] - 1, op))

Scripted ==
  \E owner \in OwnerScripts, handler \in HandlerScripts :
    /\ Matched(owner, handler)
    /\ script = [p \in Pipes |-> IF p = Mine THEN OwnerCalls(owner) ELSE HandlerCalls(handler)]

AtCalls ==
  /\ at = [p \in Pipes |-> at[p]]
  /\ \A p \in Pipes : at[p] \in 1 .. Len(script[p]) + 1

(* What the two pipes are doing, stage by stage. *)
Staged ==
  /\ stage \in {"pipe", "chldpipe", "create", "running", "no_pipe", "no_chldpipe", "gone"}
  /\ ~exited
  /\ stage = "pipe" =>
       ppc[Mine] \in {"none", "connect_0"} /\ ppc[Childs] = "none"
  /\ stage = "chldpipe" =>
       /\ ppc[Mine] = "ready" /\ ep[Mine] = 0
       /\ ppc[Childs] \in {"none", "connect_0", "connect_1"}
  /\ stage \in {"pipe", "chldpipe", "create"} => \A p \in Pipes : at[p] = 1
  /\ stage = "create" => ppc[Mine] = "ready" /\ ppc[Childs] = "ready"
  /\ stage \in {"create", "running"} => ep[Mine] = 0 /\ ep[Childs] = 1
  /\ stage = "running" =>
       \A p \in Pipes : ppc[p] = "ready" \/ (~Finished(p) /\ ppc[p] = script[p][at[p]])
  /\ stage = "no_pipe" => ppc[Mine] = "none" /\ ppc[Childs] = "ready" /\ ep[Childs] = 1
  /\ stage \in {"no_chldpipe", "gone"} => ppc[Mine] = "none" /\ ppc[Childs] = "none"

(* Every signal and every message on its way is the difference of the calls *)
(* made at the two sides.                                                   *)
Balance ==
  \A p, q \in Pipes : p # q =>
    /\ signal[EndOf(p)] = Done(p, "sgnl") - Done(q, "wait")
    /\ Len(queue[EndOf(p)]) = Done(p, "send") - Done(q, "recv")

AInv ==
  /\ IInv
  /\ Scripted
  /\ AtCalls
  /\ Staged
  /\ OutlivesUse
  /\ Balance

-----------------------------------------------------------------------------
(* Counting the calls of a script *)

LEMMA AmongIsFinite ==
  ASSUME NEW calls, NEW n \in Nat, NEW op
  PROVE  IsFiniteSet(Among(calls, n, op)) /\ Cardinality(Among(calls, n, op)) \in Nat
<1>1. IsFiniteSet(1 .. n) /\ Among(calls, n, op) \in SUBSET (1 .. n)
  BY FS_Interval DEF Among
<1>2. IsFiniteSet(Among(calls, n, op))
  BY <1>1, FS_Subset
<1> QED
  BY <1>2, FS_CardinalityType

(* One more call. *)
LEMMA CountNext ==
  ASSUME NEW calls, NEW n \in Nat, NEW op
  PROVE  Cardinality(Among(calls, n + 1, op)) =
           Cardinality(Among(calls, n, op)) + IF calls[n + 1] = op THEN 1 ELSE 0
<1>1. IsFiniteSet(Among(calls, n, op)) /\ Cardinality(Among(calls, n, op)) \in Nat
  BY AmongIsFinite
<1>2. CASE calls[n + 1] = op
  <2>1. Among(calls, n + 1, op) = Among(calls, n, op) \cup {n + 1} /\ n + 1 \notin Among(calls, n, op)
    BY <1>2 DEF Among
  <2> QED
    BY <1>1, <1>2, <2>1, FS_AddElement
<1>3. CASE calls[n + 1] # op
  <2>1. Among(calls, n + 1, op) = Among(calls, n, op)
    BY <1>3 DEF Among
  <2> QED
    BY <1>1, <1>3, <2>1
<1> QED
  BY <1>2, <1>3

LEMMA CountIsAmong ==
  ASSUME NEW calls \in Seq(Ops), NEW op
  PROVE  /\ Count(calls, op) = Cardinality(Among(calls, Len(calls), op))
         /\ Count(calls, op) \in Nat
<1>1. Len(calls) \in Nat
  BY LenProperties
<1>2. Count(calls, op) = Cardinality(Among(calls, Len(calls), op))
  BY DEF Count, Among
<1> QED
  BY <1>1, <1>2, AmongIsFinite

LEMMA CountLast ==
  ASSUME NEW calls \in Seq(Ops), NEW x \in Ops, NEW op
  PROVE  Count(calls \o <<x>>, op) = Count(calls, op) + IF x = op THEN 1 ELSE 0
<1>1. PICK n, c : n = Len(calls) /\ c = calls \o <<x>>
  OBVIOUS
<1>2. n \in Nat /\ <<x>> \in Seq(Ops) /\ Len(<<x>>) = 1 /\ <<x>>[1] = x
  BY <1>1, LenProperties
<1>3. /\ Len(c) = n + 1
      /\ \A i \in 1 .. n + 1 : c[i] = IF i <= n THEN calls[i] ELSE <<x>>[i - n]
  BY <1>1, <1>2, ConcatProperties
<1>4. c[n + 1] = x
  <2>1. (n + 1) - n = 1 /\ ~(n + 1 <= n) /\ n + 1 \in 1 .. n + 1
    BY <1>2
  <2> QED
    BY <1>2, <1>3, <2>1
<1>5. Among(c, n, op) = Among(calls, n, op)
  BY <1>2, <1>3 DEF Among
<1>6. Cardinality(Among(c, n + 1, op)) = Cardinality(Among(calls, n, op)) + IF x = op THEN 1 ELSE 0
  BY <1>2, <1>4, <1>5, CountNext
<1>7. c \in Seq(Ops)
  BY <1>1, <1>2, ConcatProperties
<1> QED
  BY <1>1, <1>3, <1>6, <1>7, CountIsAmong

LEMMA CountFirst ==
  ASSUME NEW calls \in Seq(Ops), NEW x \in Ops, NEW op
  PROVE  Count(<<x>> \o calls, op) = Count(calls, op) + IF x = op THEN 1 ELSE 0
<1>1. PICK n, c : n = Len(calls) /\ c = <<x>> \o calls
  OBVIOUS
<1>2. n \in Nat /\ <<x>> \in Seq(Ops) /\ Len(<<x>>) = 1 /\ <<x>>[1] = x
  BY <1>1, LenProperties
<1>3. /\ Len(c) = n + 1
      /\ \A i \in 1 .. n + 1 : c[i] = IF i <= 1 THEN <<x>>[i] ELSE calls[i - 1]
  BY <1>1, <1>2, ConcatProperties
<1>4. c[1] = x /\ \A i \in 1 .. n : c[i + 1] = calls[i]
  <2>1. 1 \in 1 .. n + 1
    BY <1>2
  <2>2. \A i \in 1 .. n : i + 1 \in 1 .. n + 1 /\ ~(i + 1 <= 1) /\ (i + 1) - 1 = i
    BY <1>2
  <2> QED
    BY <1>2, <1>3, <2>1, <2>2
<1>5. PICK S, T : /\ S = Among(calls, n, op)
                  /\ T = {i \in 2 .. n + 1 : c[i] = op}
  OBVIOUS
<1>6. IsFiniteSet(S) /\ Cardinality(S) \in Nat
  BY <1>2, <1>5, AmongIsFinite
<1>7. IsFiniteSet(T) /\ Cardinality(T) = Cardinality(S)
  <2>1. PICK f : f = [i \in S |-> i + 1]
    OBVIOUS
  <2>2. \A i \in S : i \in 1 .. n /\ i + 1 \in T
    BY <1>2, <1>4, <1>5 DEF Among
  <2>3. \A j \in T : j - 1 \in S /\ (j - 1) + 1 = j
    <3> SUFFICES ASSUME NEW j \in T PROVE j - 1 \in S /\ (j - 1) + 1 = j
      OBVIOUS
    <3>1. j \in 2 .. n + 1 /\ c[j] = op
      BY <1>5
    <3>2. j - 1 \in 1 .. n /\ (j - 1) + 1 = j
      BY <1>2, <3>1
    <3>3. calls[j - 1] = op
      BY <1>4, <3>1, <3>2
    <3> QED
      BY <1>5, <3>2, <3>3 DEF Among
  <2>4. f \in [S -> T] /\ \A i, j \in S : f[i] = f[j] => i = j
    BY <2>1, <2>2
  <2>5. \A j \in T : \E i \in S : f[i] = j
    BY <2>1, <2>3
  <2>6. f \in Bijection(S, T)
    BY <2>4, <2>5, Fun_IsBij
  <2> QED
    BY <1>6, <2>6, FS_Bijection DEF ExistsBijection
<1>8. PICK U : U = Among(c, n + 1, op)
  OBVIOUS
<1>9. c \in Seq(Ops)
  BY <1>1, <1>2, ConcatProperties
<1>10. Count(c, op) = Cardinality(U) /\ Count(calls, op) = Cardinality(S)
  BY <1>1, <1>3, <1>5, <1>8, <1>9, CountIsAmong
<1>11. CASE x = op
  <2>1. U = T \cup {1} /\ 1 \notin T
    BY <1>2, <1>4, <1>5, <1>8, <1>11 DEF Among
  <2>2. Cardinality(U) = Cardinality(S) + 1
    BY <1>7, <2>1, FS_AddElement
  <2> QED
    BY <1>1, <1>10, <1>11, <2>2
<1>12. CASE x # op
  <2>1. U = T
    BY <1>2, <1>4, <1>5, <1>8, <1>12 DEF Among
  <2> QED
    BY <1>1, <1>6, <1>7, <1>10, <1>12, <2>1
<1> QED
  BY <1>11, <1>12

(* The calls of the two threads match, those of hactor_new, hactor_destroy  *)
(* and run included; the last of the handler's thread is its signal.        *)
Matching ==
  /\ script = [p \in Pipes |-> script[p]]
  /\ \A p \in Pipes : script[p] \in Seq(Ops)
  /\ Count(script[Childs], "sgnl") = Count(script[Mine], "wait")
  /\ Count(script[Childs], "wait") = Count(script[Mine], "sgnl")
  /\ Count(script[Childs], "recv") = Count(script[Mine], "send")
  /\ Count(script[Childs], "send") = Count(script[Mine], "recv")
  /\ Len(script[Childs]) > 0 /\ script[Childs][Len(script[Childs])] = "sgnl"

LEMMA ScriptsMatch == Scripted => Matching
<1> SUFFICES ASSUME Scripted PROVE Matching
  OBVIOUS
<1>1. PICK owner \in OwnerScripts, handler \in HandlerScripts :
        /\ Matched(owner, handler)
        /\ script = [p \in Pipes |-> IF p = Mine THEN OwnerCalls(owner) ELSE HandlerCalls(handler)]
  BY DEF Scripted
<1>2. owner \in Seq(Ops) /\ handler \in Seq(Ops)
  BY ActorAssumption
<1>3. PICK o, h : o = script[Mine] /\ h = script[Childs]
  OBVIOUS
<1>4. o = (<<"wait">> \o owner) \o <<"wait">> /\ h = handler \o <<"sgnl">>
  BY <1>1, <1>3, ActorAssumption DEF OwnerCalls, HandlerCalls
<1>5. "wait" \in Ops /\ "sgnl" \in Ops
  BY DEF Ops
<1>6. <<"wait">> \in Seq(Ops) /\ <<"sgnl">> \in Seq(Ops) /\ Len(<<"sgnl">>) = 1 /\ <<"sgnl">>[1] = "sgnl"
  BY <1>5
<1>7. <<"wait">> \o owner \in Seq(Ops)
  BY <1>2, <1>6, ConcatProperties
<1>8. o \in Seq(Ops)
  BY <1>4, <1>6, <1>7, ConcatProperties
<1>9. h \in Seq(Ops) /\ Len(h) > 0 /\ h[Len(h)] = "sgnl"
  <2>1. PICK n, t : n = Len(handler) /\ t = <<"sgnl">>
    OBVIOUS
  <2>2. n \in Nat
    BY <1>2, <2>1, LenProperties
  <2>3. /\ h \in Seq(Ops) /\ Len(h) = n + 1
        /\ \A i \in 1 .. n + 1 : h[i] = IF i <= n THEN handler[i] ELSE t[i - n]
    BY <1>2, <1>4, <1>6, <2>1, ConcatProperties
  <2>4. n + 1 \in 1 .. n + 1 /\ ~(n + 1 <= n) /\ (n + 1) - n = 1
    BY <2>2
  <2> QED
    BY <1>6, <2>1, <2>2, <2>3, <2>4
<1>10. \A op : Count(o, op) = Count(owner, op) + (IF "wait" = op THEN 1 ELSE 0)
                                               + (IF "wait" = op THEN 1 ELSE 0)
  <2>1. \A op : Count(o, op) = Count(<<"wait">> \o owner, op) + IF "wait" = op THEN 1 ELSE 0
    BY <1>4, <1>5, <1>7, CountLast
  <2>2. \A op : Count(<<"wait">> \o owner, op) = Count(owner, op) + IF "wait" = op THEN 1 ELSE 0
    BY <1>2, <1>5, CountFirst
  <2> QED
    BY <2>1, <2>2
<1>11. \A op : Count(h, op) = Count(handler, op) + IF "sgnl" = op THEN 1 ELSE 0
  BY <1>2, <1>4, <1>5, CountLast
<1>12. \A op : Count(owner, op) \in Nat /\ Count(handler, op) \in Nat
  BY <1>2, CountIsAmong
<1>13. /\ Count(o, "wait") = Count(owner, "wait") + 2 /\ Count(o, "sgnl") = Count(owner, "sgnl")
       /\ Count(o, "send") = Count(owner, "send") /\ Count(o, "recv") = Count(owner, "recv")
  BY <1>10, <1>12
<1>14. /\ Count(h, "wait") = Count(handler, "wait") /\ Count(h, "sgnl") = Count(handler, "sgnl") + 1
       /\ Count(h, "send") = Count(handler, "send") /\ Count(h, "recv") = Count(handler, "recv")
  BY <1>11, <1>12
<1>15. /\ Count(h, "sgnl") = Count(o, "wait") /\ Count(h, "wait") = Count(o, "sgnl")
       /\ Count(h, "recv") = Count(o, "send") /\ Count(h, "send") = Count(o, "recv")
  BY <1>1, <1>12, <1>13, <1>14 DEF Matched
<1>16. \A p \in Pipes : script[p] \in Seq(Ops)
  BY <1>3, <1>8, <1>9, ActorAssumption
<1> QED
  BY <1>1, <1>3, <1>9, <1>15, <1>16 DEF Matching


(* What a thread that is through has done. *)
LEMMA AllDone ==
  ASSUME AtCalls, Matching, NEW p \in Pipes, Finished(p), NEW op
  PROVE  Done(p, op) = Count(script[p], op)
<1>1. Len(script[p]) \in Nat /\ at[p] \in 1 .. Len(script[p]) + 1
  BY LenProperties DEF Matching, AtCalls
<1>2. at[p] - 1 = Len(script[p])
  BY <1>1 DEF Finished
<1> QED
  BY <1>2, CountIsAmong DEF Matching, Done

(* The wait of hactor_destroy is answered by the signal of run and by no    *)
(* other: when the owner is through, so is the handler's thread.            *)
LEMMA OwnerIsLast ==
  ASSUME IInv, Scripted, AtCalls, Balance, Finished(Mine)
  PROVE  Finished(Childs)
<1>1. Matching /\ Mine \in Pipes /\ Childs \in Pipes
  BY ScriptsMatch, ActorAssumption
<1>2. PICK h, n, k : h = script[Childs] /\ n = Len(h) /\ k = at[Childs]
  OBVIOUS
<1>3. h \in Seq(Ops) /\ n \in Nat /\ k \in 1 .. n + 1 /\ n > 0 /\ h[n] = "sgnl"
  BY <1>1, <1>2, LenProperties DEF Matching, AtCalls
<1>4. Done(Mine, "wait") = Cardinality(Among(h, n, "sgnl"))
  BY <1>1, <1>2, <1>3, AllDone, CountIsAmong DEF Matching
<1>5. Done(Childs, "sgnl") = Cardinality(Among(h, k - 1, "sgnl"))
  BY <1>2 DEF Done
<1>6. signal[1] \in {0, 1} /\ signal[1] = Done(Childs, "sgnl") - Done(Mine, "wait")
  BY <1>1, ActorAssumption DEF IInv, TypeOK, Balance, Ends, EndOf
<1>7. /\ IsFiniteSet(Among(h, n, "sgnl")) /\ Cardinality(Among(h, n, "sgnl")) \in Nat
      /\ IsFiniteSet(Among(h, k - 1, "sgnl")) /\ Cardinality(Among(h, k - 1, "sgnl")) \in Nat
  BY <1>3, AmongIsFinite
<1>8. ASSUME k <= n PROVE FALSE
  <2>1. PICK S, T : S = Among(h, k - 1, "sgnl") /\ T = Among(h, n, "sgnl")
    OBVIOUS
  <2>2. n \notin S /\ S \cup {n} \in SUBSET T
    BY <1>3, <1>8, <2>1 DEF Among
  <2>3. Cardinality(S \cup {n}) = Cardinality(S) + 1
    BY <1>7, <2>1, <2>2, FS_AddElement
  <2>4. Cardinality(S \cup {n}) <= Cardinality(T)
    BY <1>7, <2>1, <2>2, FS_Subset
  <2> QED
    BY <1>4, <1>5, <1>6, <1>7, <2>1, <2>3, <2>4
<1> QED
  BY <1>2, <1>3, <1>8 DEF Finished

LEMMA DoneStep ==
  ASSUME AtCalls, Matching, script' = script, NEW p \in Pipes, ~Finished(p),
         at' = [at EXCEPT ![p] = at[p] + 1]
  PROVE  /\ \A op : Done(p, op)' = Done(p, op) + IF script[p][at[p]] = op THEN 1 ELSE 0
         /\ \A q \in Pipes \ {p} : \A op : Done(q, op)' = Done(q, op)
         /\ AtCalls'
<1>1. PICK k : k = at[p]
  OBVIOUS
<1>2. Len(script[p]) \in Nat /\ k \in 1 .. Len(script[p])
  BY <1>1, LenProperties DEF Matching, AtCalls, Finished
<1>3. at'[p] = k + 1 /\ \A q \in Pipes \ {p} : at'[q] = at[q]
  BY <1>1 DEF AtCalls
<1>4. k - 1 \in Nat /\ (k - 1) + 1 = k /\ (k + 1) - 1 = k
  BY <1>2
<1>5. ASSUME NEW op PROVE Done(p, op)' = Done(p, op) + IF script[p][k] = op THEN 1 ELSE 0
  <2>1. Cardinality(Among(script[p], k, op)) =
          Cardinality(Among(script[p], k - 1, op)) + IF script[p][k] = op THEN 1 ELSE 0
    BY <1>4, CountNext
  <2> QED
    BY <1>1, <1>3, <1>4, <2>1 DEF Done, Among
<1>6. \A q \in Pipes \ {p} : \A op : Done(q, op)' = Done(q, op)
  BY <1>3 DEF Done, Among
<1>7. AtCalls'
  BY SMTT(30), <1>2, <1>3 DEF AtCalls
<1> QED
  BY <1>1, <1>5, <1>6, <1>7

LEMMA BooksKept ==
  ASSUME Scripted, AtCalls, Balance, UNCHANGED <<script, at, signal, queue>>
  PROVE  Scripted' /\ AtCalls' /\ Balance'
<1>1. Scripted' /\ AtCalls'
  BY DEF Scripted, AtCalls
<1>2. \A p \in Pipes : \A op : Done(p, op)' = Done(p, op)
  BY DEF Done, Among
<1>3. Balance'
  BY <1>2 DEF Balance, EndOf
<1> QED
  BY <1>1, <1>3

LEMMA ActorStart == ActorInit => AInv
<1> SUFFICES ASSUME ActorInit PROVE AInv
  OBVIOUS
<1> USE ActorAssumption DEF ActorInit
<1>1. IInv
  BY InitIInv
<1>2. Scripted
  BY DEF Scripted
<1>3. Matching
  BY <1>2, ScriptsMatch
<1>4. AtCalls
  <2>1. \A p \in Pipes : Len(script[p]) \in Nat
    BY <1>3, LenProperties DEF Matching
  <2> QED
    BY <2>1 DEF AtCalls
<1>5. Staged
  BY DEF Staged, Init
<1>6. OutlivesUse
  BY DEF OutlivesUse
<1>7. \A p \in Pipes : \A op : Done(p, op) = 0
  <2>1. ASSUME NEW p \in Pipes, NEW op PROVE Among(script[p], at[p] - 1, op) = {}
    BY DEF Among
  <2> QED
    BY ZenonT(40), <2>1, FS_EmptySet DEF Done
<1>8. Balance
  BY <1>7 DEF Balance, Init, Ends, EndOf
<1> QED
  BY <1>1, <1>2, <1>4, <1>5, <1>6, <1>8 DEF AInv

-----------------------------------------------------------------------------
(* One lemma per action: it keeps the invariant, and it is what HPair.tla   *)
(* lets a pipe do.                                                          *)

LEMMA ActorMakePipe ==
  ASSUME AInv, NEW p \in Pipes, MakePipe(p)
  PROVE  AInv' /\ [Next]_vars
<1> USE ActorAssumption
<1>1. Lifecycle(p)
  BY DEF MakePipe, Lifecycle
<1>2. Next
  BY <1>1 DEF Next
<1>3. IInv'
  BY <1>2, StepIInv DEF AInv
<1>4. /\ TypeOK /\ EndpointsHeld /\ Staged
      /\ UNCHANGED <<script, at, signal, queue>>
  BY DEF AInv, IInv, MakePipe, New, Connect0, Connect1, pair
<1>5. Scripted' /\ AtCalls' /\ Balance'
  BY <1>4, BooksKept DEF AInv
<1>6. endpoint[0] = 1 <=> ep[Mine] = 0 \/ ep[Childs] = 0
  BY <1>4 DEF EndpointsHeld, Ends
<1>7. endpoint[1] = 1 <=> ep[Mine] = 1 \/ ep[Childs] = 1
  BY <1>4 DEF EndpointsHeld, Ends
<1>8. \A q \in Pipes : ppc[q] \in {"none", "connect_0", "connect_1"} => ep[q] = None
  BY <1>4 DEF EndpointsHeld
<1>9. None # 0 /\ None # 1 /\ endpoint[0] \in {0, 1} /\ endpoint[1] \in {0, 1}
  BY <1>4, PairAssumption DEF TypeOK, Ends
<1>10. CASE stage = "pipe" /\ p = Mine
  <2>1. ppc[Mine] \in {"none", "connect_0"} /\ ppc[Childs] = "none" /\ ~exited /\ \A q \in Pipes : at[q] = 1
    BY <1>4, <1>10 DEF Staged
  <2>2. endpoint[0] # 1
    BY <1>6, <1>8, <1>9, <2>1
  <2>3. ~Connect1(p)
    BY <1>10, <2>1 DEF Connect1
  <2>4. /\ ~exited' /\ ppc'[Childs] = "none"
        /\ \/ ppc'[Mine] = "connect_0" /\ stage' = "pipe"
           \/ ppc'[Mine] = "ready" /\ ep'[Mine] = 0 /\ stage' = "chldpipe"
    <3>1. CASE New(p)
      BY <1>4, <1>10, <2>1, <3>1 DEF New, Goes, TypeOK, MakePipe
    <3>2. CASE Connect0(p)
      BY <1>4, <1>10, <2>1, <2>2, <3>2 DEF Connect0, TypeOK, MakePipe
    <3> QED
      BY <2>3, <3>1, <3>2 DEF MakePipe
  <2> QED
    BY <1>2, <1>3, <1>4, <1>5, <2>1, <2>4 DEF AInv, Staged, OutlivesUse
<1>11. CASE stage = "chldpipe" /\ p = Childs
  <2>1. /\ ppc[Mine] = "ready" /\ ep[Mine] = 0 /\ ~exited /\ \A q \in Pipes : at[q] = 1
        /\ ppc[Childs] \in {"none", "connect_0", "connect_1"}
    BY <1>4, <1>11 DEF Staged
  <2>2. endpoint[0] # 0 /\ endpoint[1] # 1
    BY <1>6, <1>7, <1>8, <1>9, <2>1
  <2>3. /\ ~exited' /\ ppc'[Mine] = "ready" /\ ep'[Mine] = 0
        /\ \/ ppc'[Childs] \in {"connect_0", "connect_1"} /\ stage' = "chldpipe"
           \/ ppc'[Childs] = "ready" /\ ep'[Childs] = 1 /\ stage' = "create"
    <3>1. CASE New(p)
      BY <1>4, <1>11, <2>1, <3>1 DEF New, Goes, TypeOK, MakePipe
    <3>2. CASE Connect0(p)
      BY <1>4, <1>11, <2>1, <2>2, <3>2 DEF Connect0, TypeOK, MakePipe
    <3>3. CASE Connect1(p)
      BY <1>4, <1>11, <2>1, <2>2, <3>3 DEF Connect1, TypeOK, MakePipe
    <3> QED
      BY <3>1, <3>2, <3>3 DEF MakePipe
  <2> QED
    BY <1>2, <1>3, <1>4, <1>5, <2>1, <2>3 DEF AInv, Staged, OutlivesUse
<1> QED
  BY <1>10, <1>11 DEF MakePipe

LEMMA ActorCreateThread ==
  ASSUME AInv, CreateThread
  PROVE  AInv' /\ [Next]_vars
<1>1. UNCHANGED vars /\ UNCHANGED <<script, at>> /\ stage = "create" /\ stage' = "running"
  BY DEF CreateThread
<1>2. UNCHANGED <<endpoint, signal, queue, exited, ppc, ep>>
  BY <1>1 DEF vars, pair
<1>3. IInv'
  BY <1>1, StepIInv DEF AInv
<1>4. Scripted' /\ AtCalls' /\ Balance'
  BY <1>1, <1>2, BooksKept DEF AInv
<1>5. Staged'
  BY <1>1, <1>2, ActorAssumption DEF AInv, Staged
<1> QED
  BY <1>1, <1>3, <1>4, <1>5 DEF AInv, OutlivesUse

LEMMA ActorBegin ==
  ASSUME AInv, NEW p \in Pipes, Begin(p)
  PROVE  AInv' /\ [Next]_vars
<1> USE ActorAssumption
<1>1. PICK op \in Ops : op = script[p][at[p]] /\ Goes(p, "ready", op)
  BY DEF Begin, Send, Recv, Sgnl, Wait, Ops
<1>2. Call(p) /\ UNCHANGED <<endpoint, signal, queue, exited, ep>>
  BY DEF Begin, Call, Send, Recv, Sgnl, Wait, pair
<1>3. Next
  BY <1>2 DEF Next
<1>4. IInv'
  BY <1>3, StepIInv DEF AInv
<1>5. UNCHANGED <<stage, script, at>> /\ ~Finished(p)
      /\ stage \notin {"pipe", "chldpipe", "create"}
  BY DEF Begin
<1>6. Scripted' /\ AtCalls' /\ Balance'
  BY <1>2, <1>5, BooksKept DEF AInv
<1>7. stage = "running"
  BY <1>5 DEF AInv, OutlivesUse, Staged
<1>8. ppc'[p] = op /\ \A q \in Pipes \ {p} : ppc'[q] = ppc[q]
  BY <1>1 DEF Goes, AInv, IInv, TypeOK
<1>9. \A q \in Pipes : ppc'[q] = "ready" \/ (~Finished(q)' /\ ppc'[q] = script'[q][at'[q]])
  BY <1>1, <1>5, <1>7, <1>8 DEF AInv, Staged, Finished
<1>10. Staged'
  BY <1>2, <1>5, <1>7, <1>9 DEF AInv, Staged
<1> QED
  BY <1>3, <1>4, <1>5, <1>6, <1>7, <1>10 DEF AInv, OutlivesUse

LEMMA ActorEnd ==
  ASSUME AInv, NEW p \in Pipes, End(p)
  PROVE  AInv' /\ [Next]_vars
<1> USE ActorAssumption
<1>1. Return(p) /\ UNCHANGED <<stage, script>> /\ at' = [at EXCEPT ![p] = at[p] + 1]
  BY DEF End
<1>2. Next
  BY <1>1 DEF Next
<1>3. IInv'
  BY <1>2, StepIInv DEF AInv
<1>4. TypeOK /\ Staged /\ AtCalls /\ Scripted /\ Matching /\ Balance
  BY ScriptsMatch DEF AInv, IInv
<1>5. PICK op \in Ops : Goes(p, op, "ready")
  BY <1>1 DEF Return, SendPush, RecvPop, SgnlSet, WaitClear, Ops
<1>6. ppc[p] = op /\ op \notin {"none", "connect_0", "connect_1", "ready"}
  BY <1>5 DEF Goes, Ops
<1>7. stage = "running" /\ ~Finished(p) /\ script[p][at[p]] = op
  BY <1>4, <1>6 DEF Staged
<1>8. /\ \A o : Done(p, o)' = Done(p, o) + IF op = o THEN 1 ELSE 0
      /\ \A q \in Pipes \ {p} : \A o : Done(q, o)' = Done(q, o)
      /\ AtCalls'
  BY <1>1, <1>4, <1>7, DoneStep
<1>9. \A q \in Pipes : \A o : Done(q, o) \in Nat
  <2>1. \A q \in Pipes : at[q] - 1 \in Nat
    BY <1>4, LenProperties DEF AtCalls, Matching
  <2> QED
    BY <2>1, AmongIsFinite DEF Done
<1>10. ep[Mine] = 0 /\ ep[Childs] = 1
  BY <1>4, <1>7 DEF Staged
<1>11. \A e \in Ends : queue[e] \in Seq(1 .. MaxMsgs) /\ Len(queue[e]) \in Nat /\ signal[e] \in {0, 1}
  BY <1>4, LenProperties DEF TypeOK
<1>12. UNCHANGED <<endpoint, exited, ep>>
  BY <1>1 DEF Return, SendPush, RecvPop, Pop, SgnlSet, WaitClear
<1>13. ppc'[p] = "ready" /\ \A q \in Pipes \ {p} : ppc'[q] = ppc[q]
  BY <1>4, <1>5 DEF Goes, TypeOK
<1>14. Staged'
  <2>1. \A q \in Pipes \ {p} : at'[q] = at[q]
    BY <1>1, <1>4 DEF AtCalls
  <2>2. \A q \in Pipes : ppc'[q] = "ready" \/ (~Finished(q)' /\ ppc'[q] = script'[q][at'[q]])
    BY <1>1, <1>4, <1>7, <1>13, <2>1 DEF Staged, Finished
  <2> QED
    BY <1>1, <1>4, <1>7, <1>12, <2>2 DEF Staged
<1>15. Balance'
  <2>1. PICK q \in Pipes : q # p
    OBVIOUS
  <2>2. PICK e, d : e = EndOf(p) /\ d = EndOf(q)
    OBVIOUS
  <2>3. /\ e \in Ends /\ d \in Ends /\ e # d /\ Other(e) = d /\ ep[p] = e
        /\ \A r, t \in Pipes : r # t => (r = p /\ t = q) \/ (r = q /\ t = p)
    BY <1>10, <2>1, <2>2 DEF EndOf, Other, Ends
  <2>4. /\ signal[e] = Done(p, "sgnl") - Done(q, "wait")
        /\ signal[d] = Done(q, "sgnl") - Done(p, "wait")
        /\ Len(queue[e]) = Done(p, "send") - Done(q, "recv")
        /\ Len(queue[d]) = Done(q, "send") - Done(p, "recv")
    BY <1>4, <2>1, <2>2 DEF Balance
  <2>5. \A o : Done(q, o)' = Done(q, o)
    BY <1>8, <2>1
  <2>6. SUFFICES /\ signal'[e] = Done(p, "sgnl")' - Done(q, "wait")'
                 /\ signal'[d] = Done(q, "sgnl")' - Done(p, "wait")'
                 /\ Len(queue'[e]) = Done(p, "send")' - Done(q, "recv")'
                 /\ Len(queue'[d]) = Done(q, "send")' - Done(p, "recv")'
    BY <2>2, <2>3 DEF Balance, EndOf
  <2>7. ASSUME NEW o \in Ops, op = o
        PROVE  /\ Done(p, o)' = Done(p, o) + 1
               /\ \A x \in Ops \ {o} : Done(p, x)' = Done(p, x)
    BY <1>8, <1>9, <2>7
  <2>8. "send" \in Ops /\ "recv" \in Ops /\ "sgnl" \in Ops /\ "wait" \in Ops
    BY DEF Ops
  <2>9. CASE SendPush(p)
    <3>1. op = "send"
      BY <1>6, <2>9 DEF SendPush, Goes
    <3>2. /\ Done(p, "send")' = Done(p, "send") + 1 /\ Done(p, "recv")' = Done(p, "recv")
          /\ Done(p, "sgnl")' = Done(p, "sgnl") /\ Done(p, "wait")' = Done(p, "wait")
      BY <2>7, <2>8, <3>1
    <3>3. /\ queue' = [queue EXCEPT ![e] = Append(queue[e], sent[e] + 1)]
          /\ signal' = signal
      BY <2>3, <2>9 DEF SendPush
    <3>4. queue'[e] = Append(queue[e], sent[e] + 1) /\ queue'[d] = queue[d]
      BY <1>4, <2>3, <3>3 DEF TypeOK
    <3>5. Len(Append(queue[e], sent[e] + 1)) = Len(queue[e]) + 1
      BY <1>11, <2>3
    <3> QED
      BY SMTT(30), <1>9, <1>11, <2>1, <2>3, <2>4, <2>5, <3>2, <3>3, <3>4, <3>5
  <2>10. CASE RecvPop(p)
    <3>1. op = "recv"
      BY <1>6, <2>10 DEF RecvPop, Goes
    <3>2. /\ Done(p, "send")' = Done(p, "send") /\ Done(p, "recv")' = Done(p, "recv") + 1
          /\ Done(p, "sgnl")' = Done(p, "sgnl") /\ Done(p, "wait")' = Done(p, "wait")
      BY <2>7, <2>8, <3>1
    <3>3. queue[d] # <<>> /\ queue' = [queue EXCEPT ![d] = Tail(queue[d])] /\ signal' = signal
      BY <2>3, <2>10 DEF RecvPop, Pop
    <3>4. queue'[d] = Tail(queue[d]) /\ queue'[e] = queue[e]
      BY <1>4, <2>3, <3>3 DEF TypeOK
    <3>5. Len(Tail(queue[d])) = Len(queue[d]) - 1
      BY <1>11, <2>3, <3>3, HeadTailProperties
    <3>6. Len(queue'[d]) = Len(queue[d]) - 1 /\ Len(queue'[e]) = Len(queue[e])
      BY <3>4, <3>5
    <3>7. \A x : Done(p, x) \in Nat /\ Done(q, x) \in Nat
      BY <1>9, <2>1
    <3> QED
      BY <2>4, <2>5, <3>2, <3>3, <3>6, <3>7
  <2>11. CASE SgnlSet(p)
    <3>1. op = "sgnl"
      BY <1>6, <2>11 DEF SgnlSet, Goes
    <3>2. /\ Done(p, "send")' = Done(p, "send") /\ Done(p, "recv")' = Done(p, "recv")
          /\ Done(p, "sgnl")' = Done(p, "sgnl") + 1 /\ Done(p, "wait")' = Done(p, "wait")
      BY <2>7, <2>8, <3>1
    <3>3. signal[e] = 0 /\ signal' = [signal EXCEPT ![e] = 1] /\ queue' = queue
      BY <2>3, <2>11 DEF SgnlSet
    <3>4. signal'[e] = 1 /\ signal'[d] = signal[d]
      BY <1>4, <2>3, <3>3 DEF TypeOK
    <3> QED
      BY SMTT(30), <1>9, <2>1, <2>4, <2>5, <3>2, <3>3, <3>4
  <2>12. CASE WaitClear(p)
    <3>1. op = "wait"
      BY <1>6, <2>12 DEF WaitClear, Goes
    <3>2. /\ Done(p, "send")' = Done(p, "send") /\ Done(p, "recv")' = Done(p, "recv")
          /\ Done(p, "sgnl")' = Done(p, "sgnl") /\ Done(p, "wait")' = Done(p, "wait") + 1
      BY <2>7, <2>8, <3>1
    <3>3. signal[d] = 1 /\ signal' = [signal EXCEPT ![d] = 0] /\ queue' = queue
      BY <2>3, <2>12 DEF WaitClear
    <3>4. signal'[d] = 0 /\ signal'[e] = signal[e]
      BY <1>4, <2>3, <3>3 DEF TypeOK
    <3> QED
      BY <1>9, <2>1, <2>4, <2>5, <3>2, <3>3, <3>4
  <2> QED
    BY <1>1, <2>9, <2>10, <2>11, <2>12 DEF Return
<1>16. Scripted' /\ OutlivesUse'
  BY <1>1, <1>4, <1>7 DEF Scripted, OutlivesUse
<1> QED
  BY <1>2, <1>3, <1>8, <1>14, <1>15, <1>16 DEF AInv

LEMMA ActorFreePipe ==
  ASSUME AInv, NEW p \in Pipes, FreePipe(p)
  PROVE  AInv' /\ [Next]_vars
<1> USE ActorAssumption
<1>1. TypeOK /\ Staged /\ AtCalls /\ Scripted /\ Balance /\ OutlivesUse
  BY DEF AInv, IInv
<1>2. /\ endpoint' = [endpoint EXCEPT ![ep[p]] = 0]
      /\ ep' = [ep EXCEPT ![p] = None]
      /\ ppc' = [ppc EXCEPT ![p] = "none"]
      /\ UNCHANGED <<signal, queue, exited, history, script, at>>
  BY DEF FreePipe
<1>3. Finished(Mine) /\ Finished(Childs)
  <2>1. Finished(Mine)
    BY <1>1 DEF FreePipe, OutlivesUse
  <2> QED
    BY <2>1, OwnerIsLast DEF AInv
<1>4. ppc[p] = "ready" /\ ~exited
  BY <1>1, <1>3 DEF FreePipe, Staged
<1>5. Next
  BY <1>2, <1>4 DEF Destroy, Goes, Lifecycle, Next
<1>6. IInv'
  BY <1>5, StepIInv DEF AInv
<1>7. Scripted' /\ AtCalls' /\ Balance'
  BY <1>1, <1>2, BooksKept
<1>8. Finished(Mine)' /\ Finished(Childs)'
  BY <1>2, <1>3 DEF Finished
<1>9. CASE p = Mine /\ stage = "running" /\ stage' = "no_pipe"
  <2>1. ppc[Childs] = "ready" /\ ep[Childs] = 1
    BY <1>1, <1>3, <1>9 DEF Staged
  <2>2. ppc'[Mine] = "none" /\ ppc'[Childs] = "ready" /\ ep'[Childs] = 1
    BY <1>1, <1>2, <1>9, <2>1 DEF TypeOK
  <2> QED
    BY <1>2, <1>4, <1>5, <1>6, <1>7, <1>8, <1>9, <2>2 DEF AInv, Staged, OutlivesUse
<1>10. CASE p = Childs /\ stage = "no_pipe" /\ stage' = "no_chldpipe"
  <2>1. ppc'[Mine] = "none" /\ ppc'[Childs] = "none"
    BY <1>1, <1>2, <1>10 DEF TypeOK, Staged
  <2> QED
    BY <1>2, <1>4, <1>5, <1>6, <1>7, <1>8, <1>10, <2>1 DEF AInv, Staged, OutlivesUse
<1> QED
  BY <1>9, <1>10 DEF FreePipe

LEMMA ActorFreePair ==
  ASSUME AInv, FreePair
  PROVE  AInv' /\ [Next]_vars
<1>1. UNCHANGED vars /\ UNCHANGED <<script, at>> /\ stage = "no_chldpipe" /\ stage' = "gone"
  BY DEF FreePair
<1>2. UNCHANGED <<endpoint, signal, queue, exited, ppc, ep>>
  BY <1>1 DEF vars, pair
<1>3. IInv'
  BY <1>1, StepIInv DEF AInv
<1>4. Scripted' /\ AtCalls' /\ Balance'
  BY <1>1, <1>2, BooksKept DEF AInv
<1>5. Staged'
  BY <1>1, <1>2 DEF AInv, Staged
<1>6. OutlivesUse'
  BY <1>1 DEF AInv, OutlivesUse, Finished
<1> QED
  BY <1>1, <1>3, <1>4, <1>5, <1>6 DEF AInv

LEMMA ActorStutter ==
  ASSUME AInv, UNCHANGED avars
  PROVE  AInv' /\ [Next]_vars
<1>1. UNCHANGED vars /\ UNCHANGED <<stage, script, at>>
  BY DEF avars
<1>2. UNCHANGED <<endpoint, signal, queue, exited, ppc, ep>>
  BY <1>1 DEF vars, pair
<1>3. IInv'
  BY <1>1, StepIInv DEF AInv
<1>4. Scripted' /\ AtCalls' /\ Balance'
  BY <1>1, <1>2, BooksKept DEF AInv
<1>5. Staged' /\ OutlivesUse'
  BY <1>1, <1>2 DEF AInv, Staged, OutlivesUse, Finished
<1> QED
  BY <1>1, <1>3, <1>4, <1>5 DEF AInv

LEMMA ActorStep == AInv /\ [ActorNext]_avars => AInv' /\ [Next]_vars
<1> SUFFICES ASSUME AInv, [ActorNext]_avars PROVE AInv' /\ [Next]_vars
  OBVIOUS
<1> QED
  BY ActorMakePipe, ActorBegin, ActorEnd, ActorFreePipe, ActorCreateThread, ActorFreePair,
     ActorStutter DEF ActorNext

LEMMA ActorInvariant == ActorSpec => []AInv
BY ActorStart, ActorStep, PTL DEF ActorSpec

-----------------------------------------------------------------------------
(* Theorems *)

(* An actor uses its pair and its pipes as any two threads may: what is     *)
(* proved of the channel holds inside an actor, hactor_destroy included,    *)
(* which frees each pipe without a look at the other thread.                *)
THEOREM ActorIsAPair == ActorSpec => Spec
<1>1. ActorInit => Init
  BY DEF ActorInit
<1> QED
  BY <1>1, ActorStep, ActorInvariant, PTL DEF ActorSpec, Spec

(* hactor_destroy frees nothing that the handler's thread still uses: its   *)
(* wait can only be answered by the signal of run(), given last.            *)
THEOREM ActorOutlivesUse == ActorSpec => []OutlivesUse
<1>1. AInv => OutlivesUse
  BY DEF AInv
<1> QED
  BY <1>1, ActorInvariant, PTL

(* When the calls of the two sides match, neither a message nor a signal is *)
(* left in the pair when it is freed.                                       *)
THEOREM ActorLeavesNothing == ActorSpec => []NothingLeft
<1>1. AInv => NothingLeft
  <2> SUFFICES ASSUME AInv, stage \in {"no_pipe", "no_chldpipe", "gone"}, NEW e \in Ends
               PROVE  queue[e] = <<>> /\ signal[e] = 0
    BY DEF NothingLeft
  <2>1. Matching /\ AtCalls /\ Balance /\ Mine \in Pipes /\ Childs \in Pipes
    BY ScriptsMatch, ActorAssumption DEF AInv
  <2>2. Finished(Mine) /\ Finished(Childs)
    BY DEF AInv, OutlivesUse
  <2>3. \A p \in Pipes : \A op : Done(p, op) = Count(script[p], op) /\ Count(script[p], op) \in Nat
    BY <2>1, <2>2, AllDone, CountIsAmong, ActorAssumption DEF Matching
  <2>4. signal[0] = 0 /\ signal[1] = 0 /\ Len(queue[0]) = 0 /\ Len(queue[1]) = 0
    <3>1. EndOf(Mine) = 0 /\ EndOf(Childs) = 1 /\ Mine # Childs
      BY ActorAssumption DEF EndOf
    <3> QED
      BY <2>1, <2>3, <3>1 DEF Matching, Balance
  <2>5. queue[e] \in Seq(1 .. MaxMsgs)
    BY DEF AInv, IInv, TypeOK
  <2> QED
    BY <2>4, <2>5, EmptySeq DEF Ends
<1> QED
  BY <1>1, ActorInvariant, PTL

(* Every variable of an actor keeps its type, and no thread runs past the   *)
(* end of its calls.                                                        *)
THEOREM ActorTypes == ActorSpec => []ActorTypeOK
<1>1. AInv => ActorTypeOK
  BY DEF AInv, IInv, Staged, AtCalls, ActorTypeOK
<1> QED
  BY <1>1, ActorInvariant, PTL

(* Inside an actor the rings keep one producer and one consumer each, and   *)
(* messages and signals arrive once and in order.                           *)
THEOREM ActorChannel == ActorSpec => [](OneUserPerSide /\ MessagesConserved /\ SignalsConserved)
<1>1. AInv => OneUserPerSide /\ MessagesConserved /\ SignalsConserved
  BY DEF AInv, IInv
<1> QED
  BY <1>1, ActorInvariant, PTL
-----------------------------------------------------------------------------
(* Any schedule and the sequential one                                      *)
(*                                                                          *)
(* A call that goes through still does when the other side has gone         *)
(* further.  So no side can get further, in any schedule, than it gets in a *)
(* run that is stuck; and the sequential run ends stuck, or at the end.     *)

(* Where a run of two scripts can be: each side at one of its calls or      *)
(* through, and on the way what one side gave and the other did not take.   *)
DoneBy(calls, c, p, op) == Cardinality(Among(calls[p], c.at[p] - 1, op))

Books(calls, c) ==
  /\ c = [at |-> c.at, n |-> c.n, s |-> c.s]
  /\ c.at \in [Pipes -> Nat] /\ c.n \in [Ends -> Int] /\ c.s \in [Ends -> {0, 1}]
  /\ \A p \in Pipes : c.at[p] \in 1 .. Len(calls[p]) + 1
  /\ \A p, q \in Pipes : p # q =>
       /\ c.s[EndOf(p)] = DoneBy(calls, c, p, "sgnl") - DoneBy(calls, c, q, "wait")
       /\ c.n[EndOf(p)] = DoneBy(calls, c, p, "send") - DoneBy(calls, c, q, "recv")

(* Neither side's next call goes through. *)
Stuck(calls, c) == \A p \in Pipes : ~Can(calls, c, p)

Scripts == [Pipes -> Seq(Ops)]

(* Whoever has gone further has done at least as much. *)
LEMMA AmongGrows ==
  ASSUME NEW calls, NEW m \in Nat, NEW n \in Nat, m <= n, NEW op
  PROVE  Cardinality(Among(calls, m, op)) <= Cardinality(Among(calls, n, op))
<1>1. Among(calls, m, op) \in SUBSET Among(calls, n, op)
  BY DEF Among
<1> QED
  BY <1>1, AmongIsFinite, FS_Subset

(* The two ends of the pair. *)
LEMMA TwoPipes ==
  ASSUME NEW p \in Pipes, NEW q \in Pipes, p # q
  PROVE  /\ EndOf(p) \in Ends /\ EndOf(q) \in Ends /\ EndOf(p) # EndOf(q)
         /\ Other(EndOf(p)) = EndOf(q) /\ Other(EndOf(q)) = EndOf(p)
         /\ \A r \in Pipes : r = p \/ r = q
BY ActorAssumption DEF EndOf, Ends, Other

(* A side is at one of its calls, or through. *)
LEMMA DoneByType ==
  ASSUME NEW calls \in Scripts, NEW c, Books(calls, c)
  PROVE  /\ \A p \in Pipes : \A op : DoneBy(calls, c, p, op) \in Nat
         /\ \A p \in Pipes : /\ Len(calls[p]) \in Nat /\ c.at[p] \in Nat /\ c.at[p] - 1 \in Nat
                             /\ c.at[p] <= Len(calls[p]) + 1
                             /\ c.at[p] <= Len(calls[p]) => calls[p][c.at[p]] \in Ops
<1>1. \A p \in Pipes : Len(calls[p]) \in Nat /\ calls[p] \in Seq(Ops)
  BY LenProperties DEF Scripts
<1>2. \A p \in Pipes : c.at[p] \in 1 .. Len(calls[p]) + 1
  BY DEF Books
<1>3. \A p \in Pipes : c.at[p] - 1 \in Nat /\ c.at[p] \in Nat /\ c.at[p] <= Len(calls[p]) + 1
  BY <1>1, <1>2
<1>4. \A p \in Pipes : \A op : DoneBy(calls, c, p, op) \in Nat
  BY <1>3, AmongIsFinite DEF DoneBy
<1>5. ASSUME NEW p \in Pipes, c.at[p] <= Len(calls[p]) PROVE calls[p][c.at[p]] \in Ops
  <2>1. c.at[p] \in 1 .. Len(calls[p])
    BY <1>1, <1>2, <1>5
  <2> QED
    BY <1>1, <2>1, ElementOfSeq
<1> QED
  BY <1>1, <1>3, <1>4, <1>5

(* A call that goes through goes through as well if the other side has gone *)
(* further: it has taken more, and given more.                              *)
LEMMA FurtherIsNoWorse ==
  ASSUME NEW calls \in Scripts, NEW c, Books(calls, c), NEW d, Books(calls, d),
         NEW p \in Pipes, NEW q \in Pipes, p # q,
         d.at[p] = c.at[p], d.at[q] <= c.at[q], Can(calls, d, p)
  PROVE  Can(calls, c, p)
<1>1. PICK e, f, op : e = EndOf(p) /\ f = EndOf(q) /\ op = calls[p][c.at[p]]
  OBVIOUS
<1>2. e \in Ends /\ f \in Ends /\ Other(e) = f
  BY <1>1, TwoPipes
<1>3. c.at[p] <= Len(calls[p]) /\ Through(op, e, d)
  BY <1>1 DEF Can
<1>4. op \in Ops
  BY <1>1, <1>3, DoneByType
<1>5. \A o : /\ DoneBy(calls, d, p, o) = DoneBy(calls, c, p, o)
             /\ DoneBy(calls, d, q, o) <= DoneBy(calls, c, q, o)
  <2>1. \A o : DoneBy(calls, d, p, o) = DoneBy(calls, c, p, o)
    BY DEF DoneBy
  <2>2. /\ d.at[q] - 1 \in Nat /\ c.at[q] - 1 \in Nat /\ d.at[q] - 1 <= c.at[q] - 1
    BY DoneByType
  <2> QED
    BY <2>1, <2>2, AmongGrows DEF DoneBy
<1>6. /\ c.s[e] = DoneBy(calls, c, p, "sgnl") - DoneBy(calls, c, q, "wait")
      /\ c.n[e] = DoneBy(calls, c, p, "send") - DoneBy(calls, c, q, "recv")
      /\ c.s[f] = DoneBy(calls, c, q, "sgnl") - DoneBy(calls, c, p, "wait")
      /\ c.n[f] = DoneBy(calls, c, q, "send") - DoneBy(calls, c, p, "recv")
  BY <1>1 DEF Books
<1>7. /\ d.s[e] = DoneBy(calls, d, p, "sgnl") - DoneBy(calls, d, q, "wait")
      /\ d.n[e] = DoneBy(calls, d, p, "send") - DoneBy(calls, d, q, "recv")
      /\ d.s[f] = DoneBy(calls, d, q, "sgnl") - DoneBy(calls, d, p, "wait")
      /\ d.n[f] = DoneBy(calls, d, q, "send") - DoneBy(calls, d, p, "recv")
  BY <1>1 DEF Books
<1>8. /\ \A o : DoneBy(calls, c, p, o) \in Nat /\ DoneBy(calls, c, q, o) \in Nat
      /\ \A o : DoneBy(calls, d, p, o) \in Nat /\ DoneBy(calls, d, q, o) \in Nat
  BY DoneByType
<1>9. c.s[e] <= d.s[e] /\ c.n[e] <= d.n[e] /\ c.s[f] >= d.s[f] /\ c.n[f] >= d.n[f]
  BY <1>5, <1>6, <1>7, <1>8
<1>10. /\ c.s[e] \in {0, 1} /\ c.s[f] \in {0, 1} /\ d.s[e] \in {0, 1} /\ d.s[f] \in {0, 1}
       /\ c.n[e] \in Int /\ c.n[f] \in Int /\ d.n[e] \in Int /\ d.n[f] \in Int
       /\ Room[e] \in Nat
  BY <1>2, PairAssumption DEF Books, Ends
<1>11. Through(op, e, c)
  <2>1. CASE op = "send"
    BY <1>3, <1>9, <1>10, <2>1 DEF Through
  <2>2. CASE op = "recv"
    BY <1>2, <1>3, <1>9, <1>10, <2>2 DEF Through
  <2>3. CASE op = "sgnl"
    BY <1>3, <1>9, <1>10, <2>3 DEF Through
  <2>4. CASE op = "wait"
    BY <1>2, <1>3, <1>9, <1>10, <2>4 DEF Through
  <2> QED
    BY <1>4, <2>1, <2>2, <2>3, <2>4 DEF Ops
<1> QED
  BY <1>1, <1>3, <1>11 DEF Can

(* A call that goes through is one more on the books. *)
LEMMA DoKeepsBooks ==
  ASSUME NEW calls \in Scripts, NEW c, Books(calls, c), NEW p \in Pipes, Can(calls, c, p)
  PROVE  Books(calls, Do(calls, c, p)) /\ Do(calls, c, p).at = [c.at EXCEPT ![p] = c.at[p] + 1]
<1>1. PICK q \in Pipes : q # p
  BY ActorAssumption
<1>2. PICK e, f, op, k, d : /\ e = EndOf(p) /\ f = EndOf(q) /\ k = c.at[p]
                            /\ op = calls[p][k] /\ d = Do(calls, c, p)
  OBVIOUS
<1>3. /\ e \in Ends /\ f \in Ends /\ e # f /\ Other(e) = f
      /\ \A r \in Pipes : r = p \/ r = q
      /\ \A r \in Ends : r = e \/ r = f
  BY <1>1, <1>2, TwoPipes DEF Ends
<1>4. k <= Len(calls[p]) /\ Through(op, e, c)
  BY <1>2 DEF Can
<1>5. /\ op \in Ops /\ k \in Nat /\ k - 1 \in Nat /\ Len(calls[p]) \in Nat /\ k >= 1
      /\ \A o : DoneBy(calls, c, p, o) \in Nat /\ DoneBy(calls, c, q, o) \in Nat
  BY <1>2, <1>4, DoneByType
<1>6. /\ c = [at |-> c.at, n |-> c.n, s |-> c.s]
      /\ c.at \in [Pipes -> Nat] /\ c.n \in [Ends -> Int] /\ c.s \in [Ends -> {0, 1}]
  BY DEF Books
<1>7. /\ c.s[e] = DoneBy(calls, c, p, "sgnl") - DoneBy(calls, c, q, "wait")
      /\ c.n[e] = DoneBy(calls, c, p, "send") - DoneBy(calls, c, q, "recv")
      /\ c.s[f] = DoneBy(calls, c, q, "sgnl") - DoneBy(calls, c, p, "wait")
      /\ c.n[f] = DoneBy(calls, c, q, "send") - DoneBy(calls, c, p, "recv")
  BY <1>1, <1>2 DEF Books
<1>8. PICK x : x = Effect(op, e, c)
  OBVIOUS
<1>9. d = [x EXCEPT !.at[p] = x.at[p] + 1]
  BY <1>2, <1>8 DEF Do
<1>10. /\ x = [at |-> c.at, n |-> x.n, s |-> x.s]
       /\ x.n \in [Ends -> Int] /\ x.s \in [Ends -> {0, 1}]
       /\ x.n[e] = c.n[e] + IF op = "send" THEN 1 ELSE 0
       /\ x.n[f] = c.n[f] - IF op = "recv" THEN 1 ELSE 0
       /\ x.s[e] = c.s[e] + IF op = "sgnl" THEN 1 ELSE 0
       /\ x.s[f] = c.s[f] - IF op = "wait" THEN 1 ELSE 0
  <2>0. c.n[e] \in Int /\ c.n[f] \in Int /\ c.s[e] \in {0, 1} /\ c.s[f] \in {0, 1}
    BY <1>3, <1>6
  <2>1. CASE op = "send"
    <3>1. x = [c EXCEPT !.n[e] = c.n[e] + 1]
      BY <1>8, <2>1 DEF Effect
    <3>2. x = [at |-> c.at, n |-> [c.n EXCEPT ![e] = c.n[e] + 1], s |-> c.s]
      BY <1>6, <3>1
    <3> QED
      BY <1>3, <1>6, <2>0, <2>1, <3>2
  <2>2. CASE op = "recv"
    <3>1. x = [c EXCEPT !.n[f] = c.n[f] - 1]
      BY <1>3, <1>8, <2>2 DEF Effect
    <3>2. x = [at |-> c.at, n |-> [c.n EXCEPT ![f] = c.n[f] - 1], s |-> c.s]
      BY <1>6, <3>1
    <3> QED
      BY <1>3, <1>6, <2>0, <2>2, <3>2
  <2>3. CASE op = "sgnl"
    <3>1. x = [c EXCEPT !.s[e] = 1] /\ c.s[e] = 0
      BY <1>4, <1>8, <2>3 DEF Effect, Through
    <3>2. x = [at |-> c.at, n |-> c.n, s |-> [c.s EXCEPT ![e] = 1]]
      BY <1>6, <3>1
    <3> QED
      BY <1>3, <1>6, <2>0, <2>3, <3>1, <3>2
  <2>4. CASE op = "wait"
    <3>1. x = [c EXCEPT !.s[f] = 0] /\ c.s[f] = 1
      BY <1>3, <1>4, <1>8, <2>4 DEF Effect, Through
    <3>2. x = [at |-> c.at, n |-> c.n, s |-> [c.s EXCEPT ![f] = 0]]
      BY <1>6, <3>1
    <3> QED
      BY <1>3, <1>6, <2>0, <2>4, <3>1, <3>2
  <2> QED
    BY <1>5, <2>1, <2>2, <2>3, <2>4 DEF Ops
<1>11. /\ d = [at |-> d.at, n |-> x.n, s |-> x.s]
       /\ d.at = [c.at EXCEPT ![p] = k + 1] /\ d.n = x.n /\ d.s = x.s
  BY <1>2, <1>9, <1>10
<1>12. d.at \in [Pipes -> Nat] /\ d.at[p] = k + 1 /\ \A r \in Pipes \ {p} : d.at[r] = c.at[r]
  BY <1>5, <1>6, <1>11
<1>13. \A o : /\ DoneBy(calls, d, p, o) = DoneBy(calls, c, p, o) + IF op = o THEN 1 ELSE 0
              /\ DoneBy(calls, d, q, o) = DoneBy(calls, c, q, o)
  <2>1. (k - 1) + 1 = k /\ (k + 1) - 1 = k
    BY <1>5
  <2>2. \A o : Cardinality(Among(calls[p], k, o)) =
                 Cardinality(Among(calls[p], k - 1, o)) + IF op = o THEN 1 ELSE 0
    BY <1>2, <1>5, <2>1, CountNext
  <2> QED
    BY <1>1, <1>2, <1>12, <2>1, <2>2 DEF DoneBy
<1>14. \A r \in Pipes : d.at[r] \in 1 .. Len(calls[r]) + 1
  <2>1. d.at[p] \in 1 .. Len(calls[p]) + 1
    BY <1>4, <1>5, <1>12
  <2> QED
    BY <1>12, <2>1 DEF Books
<1>15. /\ d.s[e] = DoneBy(calls, d, p, "sgnl") - DoneBy(calls, d, q, "wait")
       /\ d.n[e] = DoneBy(calls, d, p, "send") - DoneBy(calls, d, q, "recv")
       /\ d.s[f] = DoneBy(calls, d, q, "sgnl") - DoneBy(calls, d, p, "wait")
       /\ d.n[f] = DoneBy(calls, d, q, "send") - DoneBy(calls, d, p, "recv")
  <2> DEFINE X(o) == IF op = o THEN 1 ELSE 0
  <2>1. \A o : X(o) \in Nat
    OBVIOUS
  <2>2. \A o : /\ DoneBy(calls, d, p, o) = DoneBy(calls, c, p, o) + X(o)
               /\ DoneBy(calls, d, q, o) = DoneBy(calls, c, q, o)
    BY <1>13
  <2>3. /\ d.n[e] = c.n[e] + X("send") /\ d.n[f] = c.n[f] - X("recv")
        /\ d.s[e] = c.s[e] + X("sgnl") /\ d.s[f] = c.s[f] - X("wait")
    BY <1>10, <1>11
  <2> HIDE DEF X
  <2>4. \A o : /\ DoneBy(calls, c, p, o) \in Nat /\ DoneBy(calls, c, q, o) \in Nat
               /\ DoneBy(calls, d, p, o) \in Nat /\ DoneBy(calls, d, q, o) \in Nat
    BY <1>5, <2>1, <2>2
  <2>5. /\ DoneBy(calls, d, p, "sgnl") = DoneBy(calls, c, p, "sgnl") + X("sgnl")
        /\ DoneBy(calls, d, p, "wait") = DoneBy(calls, c, p, "wait") + X("wait")
        /\ DoneBy(calls, d, q, "sgnl") = DoneBy(calls, c, q, "sgnl")
        /\ DoneBy(calls, d, q, "wait") = DoneBy(calls, c, q, "wait")
    BY <2>2
  <2>6. /\ DoneBy(calls, d, p, "send") = DoneBy(calls, c, p, "send") + X("send")
        /\ DoneBy(calls, d, p, "recv") = DoneBy(calls, c, p, "recv") + X("recv")
        /\ DoneBy(calls, d, q, "send") = DoneBy(calls, c, q, "send")
        /\ DoneBy(calls, d, q, "recv") = DoneBy(calls, c, q, "recv")
    BY <2>2
  <2>7. /\ d.s[e] = DoneBy(calls, d, p, "sgnl") - DoneBy(calls, d, q, "wait")
        /\ d.s[f] = DoneBy(calls, d, q, "sgnl") - DoneBy(calls, d, p, "wait")
    BY <1>7, <2>1, <2>3, <2>4, <2>5
  <2>8. /\ d.n[e] = DoneBy(calls, d, p, "send") - DoneBy(calls, d, q, "recv")
        /\ d.n[f] = DoneBy(calls, d, q, "send") - DoneBy(calls, d, p, "recv")
    BY <1>7, <2>1, <2>3, <2>4, <2>6
  <2> QED
    BY <2>7, <2>8
<1>16. \A r, t \in Pipes : r # t => (r = p /\ t = q) \/ (r = q /\ t = p)
  BY <1>3
<1>17. Books(calls, d)
  BY <1>2, <1>10, <1>11, <1>12, <1>14, <1>15, <1>16 DEF Books
<1> QED
  BY <1>2, <1>11, <1>17

(* Both sides at their first call. *)
LEMMA BeginningBooks ==
  ASSUME NEW calls \in Scripts
  PROVE  Books(calls, Beginning) /\ Beginning.at = [p \in Pipes |-> 1]
<1>1. /\ Beginning = [at |-> Beginning.at, n |-> Beginning.n, s |-> Beginning.s]
      /\ Beginning.at = [p \in Pipes |-> 1]
      /\ Beginning.n = [e \in Ends |-> 0] /\ Beginning.s = [e \in Ends |-> 0]
  BY DEF Beginning
<1>2. ASSUME NEW p \in Pipes, NEW op PROVE DoneBy(calls, Beginning, p, op) = 0
  <2>1. Among(calls[p], Beginning.at[p] - 1, op) = {}
    BY <1>1 DEF Among
  <2> QED
    BY ZenonT(40), <2>1, FS_EmptySet DEF DoneBy
<1>3. \A p \in Pipes : Len(calls[p]) \in Nat /\ EndOf(p) \in Ends
  BY LenProperties DEF Scripts, EndOf, Ends
<1>4. \A p \in Pipes : Beginning.at[p] \in 1 .. Len(calls[p]) + 1
  BY <1>1, <1>3
<1>5. \A e \in Ends : Beginning.s[e] = 0 /\ Beginning.n[e] = 0
  BY <1>1
<1> QED
  BY <1>1, <1>2, <1>3, <1>4, <1>5 DEF Books

(* A set of numbers that is not empty has a least one: the induction over   *)
(* the turns of a run goes by it.                                           *)
LEMMA LeastNumber ==
  ASSUME NEW S, S \subseteq Nat, S # {}
  PROVE  \E n \in S : \A m \in S : n <= m
<1>1. PICK n \in S : \A m \in S : ~ (<<m, n>> \in OpToRel(<, Nat))
  BY NatLessThanWellFounded, WFMin
<1>2. \A m \in S : ~ (m < n)
  <2> SUFFICES ASSUME NEW m \in S, m < n PROVE FALSE
    OBVIOUS
  <2>1. <<m, n>> \in Nat \X Nat /\ <<m, n>>[1] < <<m, n>>[2]
    OBVIOUS
  <2>2. <<m, n>> \in OpToRel(<, Nat)
    BY <2>1, Zenon DEF OpToRel
  <2> QED
    BY <1>1, <2>2
<1> QED
  BY <1>2

(* The first turns of the sequential run, as a function on their numbers. *)
IsRun(calls, m, g) ==
  g = [k \in 0 .. m |-> IF k = 0 THEN Beginning ELSE Turn(calls, g[k - 1])]

(* There is such a function for every number of turns. *)
LEMMA RunExists ==
  ASSUME NEW calls, NEW m \in Nat
  PROVE  \E g : IsRun(calls, m, g)
<1> USE DEF IsRun
<1> DEFINE Run(k) == \E g : IsRun(calls, k, g)
           Bad == {k \in Nat : ~Run(k)}
<1>1. SUFFICES ASSUME Bad # {} PROVE FALSE
  <2>1. Run(m)
    BY <1>1
  <2> QED
    BY <2>1
<1>2. PICK k \in Bad : \A l \in Bad : k <= l
  <2> HIDE DEF Run
  <2> QED
    BY <1>1, LeastNumber
<1>3. CASE k = 0
  <2>1. [j \in 0 .. 0 |-> Beginning] =
          [j \in 0 .. 0 |-> IF j = 0 THEN Beginning ELSE Turn(calls, [l \in 0 .. 0 |-> Beginning][j - 1])]
    OBVIOUS
  <2>2. Run(0)
    BY <2>1
  <2> QED
    BY <1>2, <1>3, <2>2
<1>4. CASE k # 0
  <2>1. k - 1 \in Nat /\ ~(k <= k - 1)
    BY <1>2, <1>4
  <2>2. Run(k - 1)
    <3> HIDE DEF Run
    <3> QED
      BY <1>2, <2>1
  <2>3. PICK g : g = [j \in 0 .. k - 1 |-> IF j = 0 THEN Beginning ELSE Turn(calls, g[j - 1])]
    BY <2>2
  <2>4. PICK h : h = [j \in 0 .. k |-> IF j = k THEN Turn(calls, g[k - 1]) ELSE g[j]]
    OBVIOUS
  <2>5. \A j \in 0 .. k - 1 : h[j] = g[j]
    BY <2>1, <2>4
  <2>6. ASSUME NEW j \in 0 .. k PROVE h[j] = IF j = 0 THEN Beginning ELSE Turn(calls, h[j - 1])
    <3>1. CASE j = 0
      <4>1. 0 \in 0 .. k - 1
        BY <2>1
      <4>2. g[0] = Beginning
        BY <2>3, <4>1
      <4> QED
        BY <2>5, <3>1, <4>1, <4>2
    <3>2. CASE j # 0 /\ j # k
      <4>1. j \in 0 .. k - 1 /\ j - 1 \in 0 .. k - 1
        BY <2>1, <3>2
      <4>2. g[j] = Turn(calls, g[j - 1])
        BY <2>3, <3>2, <4>1
      <4> QED
        BY <2>5, <3>2, <4>1, <4>2
    <3>3. CASE j = k
      <4>1. k - 1 \in 0 .. k - 1 /\ k \in 0 .. k
        BY <2>1
      <4>2. h[k] = Turn(calls, g[k - 1])
        BY <2>4, <4>1
      <4> QED
        BY <1>4, <2>5, <3>3, <4>1, <4>2
    <3> QED
      BY <3>1, <3>2, <3>3
  <2>7. h = [j \in 0 .. k |-> IF j = 0 THEN Beginning ELSE Turn(calls, h[j - 1])]
    <3>1. h = [j \in 0 .. k |-> h[j]]
      BY <2>4
    <3> QED
      BY <2>6, <3>1
  <2> QED
    BY <1>2, <2>7
<1> QED
  BY <1>3, <1>4

(* The outcome is where the last turn of such a run ends. *)
LEMMA OutcomeRuns ==
  ASSUME NEW calls \in Scripts, NEW turns \in Nat, turns = Len(calls[Mine]) + Len(calls[Childs])
  PROVE  \E run : /\ run[0] = Beginning
                  /\ \A k \in 1 .. turns : run[k] = Turn(calls, run[k - 1])
                  /\ Outcome(calls) = run[turns]
<1> DEFINE run[k \in 0 .. turns] == IF k = 0 THEN Beginning ELSE Turn(calls, run[k - 1])
<1>1. \E g : IsRun(calls, turns, g)
  BY RunExists
<1>2. run = [k \in 0 .. turns |-> IF k = 0 THEN Beginning ELSE Turn(calls, run[k - 1])]
  BY <1>1 DEF IsRun
<1>3. Outcome(calls) = run[turns]
  BY DEF Outcome
<1> HIDE DEF run
<1>4. run[0] = Beginning /\ \A k \in 1 .. turns : run[k] = Turn(calls, run[k - 1])
  <2>1. 0 \in 0 .. turns /\ \A k \in 1 .. turns : k \in 0 .. turns /\ k # 0
    <3>1. \A m \in Nat : 0 \in 0 .. m /\ \A k \in 1 .. m : k \in 0 .. m /\ k # 0
      OBVIOUS
    <3> QED
      BY <3>1, Zenon
  <2>2. \A k \in 0 .. turns : run[k] = IF k = 0 THEN Beginning ELSE Turn(calls, run[k - 1])
    BY <1>2, Zenon
  <2> QED
    BY <2>1, <2>2, Zenon
<1> QED
  BY <1>3, <1>4

(* A turn lets one side make a call that goes through, or changes nothing. *)
LEMMA TurnMoves ==
  ASSUME NEW calls \in Scripts, NEW c, Books(calls, c)
  PROVE  /\ Books(calls, Turn(calls, c))
         /\ \/ Stuck(calls, c) /\ Turn(calls, c) = c
            \/ \E p \in Pipes : /\ Can(calls, c, p)
                                /\ Turn(calls, c).at = [c.at EXCEPT ![p] = c.at[p] + 1]
<1>1. Mine \in Pipes /\ Childs \in Pipes /\ \A p \in Pipes : p = Mine \/ p = Childs
  BY ActorAssumption
<1>2. CASE Can(calls, c, Mine)
  <2>1. Turn(calls, c) = Do(calls, c, Mine)
    BY <1>2 DEF Turn
  <2>2. Books(calls, Do(calls, c, Mine)) /\ Do(calls, c, Mine).at = [c.at EXCEPT ![Mine] = c.at[Mine] + 1]
    BY <1>1, <1>2, DoKeepsBooks
  <2> QED
    BY <1>1, <1>2, <2>1, <2>2, Zenon
<1>3. CASE ~Can(calls, c, Mine) /\ Can(calls, c, Childs)
  <2>1. Turn(calls, c) = Do(calls, c, Childs)
    BY <1>3 DEF Turn
  <2>2. Books(calls, Do(calls, c, Childs)) /\ Do(calls, c, Childs).at = [c.at EXCEPT ![Childs] = c.at[Childs] + 1]
    BY <1>1, <1>3, DoKeepsBooks
  <2> QED
    BY <1>1, <1>3, <2>1, <2>2, Zenon
<1>4. CASE ~Can(calls, c, Mine) /\ ~Can(calls, c, Childs)
  <2>1. Turn(calls, c) = c
    BY <1>4 DEF Turn
  <2>2. Stuck(calls, c)
    BY <1>1, <1>4 DEF Stuck
  <2> QED
    BY <2>1, <2>2
<1> QED
  BY <1>2, <1>3, <1>4

(* The sequential run ends where no call goes through, and no run of the    *)
(* two scripts gets stuck before that: it is the least of all that get      *)
(* stuck, side by side.                                                     *)
LEMMA OutcomeIsLeast ==
  ASSUME NEW calls \in Scripts
  PROVE  /\ Books(calls, Outcome(calls)) /\ Stuck(calls, Outcome(calls))
         /\ \A c : Books(calls, c) /\ Stuck(calls, c) =>
              \A p \in Pipes : Outcome(calls).at[p] <= c.at[p]
<1>1. PICK m, n : m = Len(calls[Mine]) /\ n = Len(calls[Childs])
  OBVIOUS
<1>2. /\ m \in Nat /\ n \in Nat /\ Mine \in Pipes /\ Childs \in Pipes /\ Mine # Childs
      /\ \A p \in Pipes : p = Mine \/ p = Childs
  BY <1>1, LenProperties, ActorAssumption DEF Scripts
<1>3. PICK turns \in Nat : turns = m + n
  BY <1>2
<1>4. PICK run : /\ run[0] = Beginning
                 /\ \A k \in 1 .. turns : run[k] = Turn(calls, run[k - 1])
                 /\ Outcome(calls) = run[turns]
  BY <1>1, <1>3, OutcomeRuns
<1> DEFINE Least(k) == \A c : Books(calls, c) /\ Stuck(calls, c) =>
                                \A p \in Pipes : run[k].at[p] <= c.at[p]
           Good(k) == /\ Books(calls, run[k])
                      /\ Stuck(calls, run[k]) \/ run[k].at[Mine] + run[k].at[Childs] = k + 2
                      /\ Least(k)
           Bad == {k \in 0 .. turns : ~Good(k)}
<1>5. Good(0)
  <2>1. Books(calls, run[0]) /\ run[0].at = [p \in Pipes |-> 1]
    BY <1>4, BeginningBooks
  <2>2. Least(0)
    <3> SUFFICES ASSUME NEW c, Books(calls, c), NEW p \in Pipes PROVE run[0].at[p] <= c.at[p]
      OBVIOUS
    <3>1. c.at[p] \in Nat /\ c.at[p] - 1 \in Nat
      BY DoneByType
    <3> QED
      BY <2>1, <3>1
  <2> QED
    BY <1>2, <2>1, <2>2
<1>6. ASSUME NEW k \in 1 .. turns, Good(k - 1) PROVE Good(k)
  <2>1. PICK b, d : b = run[k - 1] /\ d = run[k]
    OBVIOUS
  <2>2. d = Turn(calls, b) /\ Books(calls, b)
    BY <1>4, <1>6, <2>1
  <2>3. Books(calls, d)
    BY <2>2, TurnMoves
  <2>4. CASE Stuck(calls, b) /\ d = b
    BY <1>6, <2>1, <2>3, <2>4
  <2>5. ASSUME NEW p \in Pipes, Can(calls, b, p), d.at = [b.at EXCEPT ![p] = b.at[p] + 1]
        PROVE  Good(k)
    <3>1. PICK q \in Pipes : q # p /\ \A r \in Pipes : r = p \/ r = q
      BY <1>2
    <3>2. /\ b.at \in [Pipes -> Nat] /\ b.at[p] \in Nat /\ b.at[q] \in Nat
          /\ d.at[p] = b.at[p] + 1 /\ d.at[q] = b.at[q]
      BY <2>2, <2>5, <3>1 DEF Books
    <3>3. b.at[Mine] + b.at[Childs] = k + 1
      <4>1. ~Stuck(calls, b)
        BY <2>5 DEF Stuck
      <4> QED
        BY <1>6, <2>1, <4>1
    <3>4. d.at[Mine] + d.at[Childs] = k + 2
      BY <1>2, <3>1, <3>2, <3>3
    <3>5. Least(k)
      <4> SUFFICES ASSUME NEW c, Books(calls, c), Stuck(calls, c)
                   PROVE  d.at[p] <= c.at[p] /\ d.at[q] <= c.at[q]
        BY <2>1, <3>1
      <4>1. b.at[p] <= c.at[p] /\ b.at[q] <= c.at[q]
        BY <1>6, <2>1
      <4>2. b.at[p] # c.at[p]
        BY <2>2, <2>5, <3>1, <4>1, FurtherIsNoWorse DEF Stuck
      <4>3. c.at[p] \in Nat
        BY DoneByType
      <4> QED
        BY <3>2, <4>1, <4>2, <4>3
    <3> QED
      BY <2>1, <2>3, <3>4, <3>5
  <2> QED
    BY <2>2, <2>4, <2>5, TurnMoves
<1> HIDE DEF Good
<1>7. Bad = {}
  <2> SUFFICES ASSUME Bad # {} PROVE FALSE
    OBVIOUS
  <2>1. PICK k \in Bad : \A l \in Bad : k <= l
    <3>1. Bad \subseteq Nat /\ Bad # {}
      BY <1>3
    <3> HIDE DEF Bad
    <3> QED
      BY <3>1, LeastNumber
  <2>2. k \in 1 .. turns
    BY <1>3, <1>5, <2>1
  <2>3. k - 1 \in 0 .. turns /\ ~(k <= k - 1)
    BY <1>3, <2>2
  <2>4. Good(k - 1)
    BY <2>1, <2>3
  <2> QED
    BY <1>6, <2>1, <2>2, <2>4
<1>8. Good(turns)
  BY <1>3, <1>7
<1>9. PICK c : c = Outcome(calls) /\ c = run[turns]
  BY <1>4
<1>10. /\ Books(calls, c) /\ Least(turns)
       /\ Stuck(calls, c) \/ c.at[Mine] + c.at[Childs] = turns + 2
  BY <1>8, <1>9 DEF Good
<1>11. Stuck(calls, c)
  <2> SUFFICES ASSUME c.at[Mine] + c.at[Childs] = turns + 2 PROVE Stuck(calls, c)
    BY <1>10
  <2>1. /\ c.at[Mine] \in Nat /\ c.at[Childs] \in Nat
        /\ c.at[Mine] <= m + 1 /\ c.at[Childs] <= n + 1
    BY <1>1, <1>2, <1>10, DoneByType
  <2>2. c.at[Mine] = m + 1 /\ c.at[Childs] = n + 1
    BY <1>2, <1>3, <2>1
  <2> QED
    BY <1>1, <1>2, <2>2 DEF Stuck, Can
<1> QED
  BY <1>9, <1>10, <1>11

(* Where the two threads are, written as for the sequential run. *)
Now == [at |-> at, n |-> [e \in Ends |-> Len(queue[e])], s |-> signal]

(* Neither thread is further than it gets in the sequential run. *)
NotAhead == \A p \in Pipes : at[p] <= Outcome(script).at[p]

(* The threads are where a run of their scripts can be. *)
LEMMA NowBooks ==
  ASSUME AInv
  PROVE  script \in Scripts /\ Books(script, Now)
         /\ Now.at = at /\ Now.s = signal /\ \A e \in Ends : Now.n[e] = Len(queue[e])
<1>1. TypeOK /\ AtCalls /\ Matching /\ Balance
  BY ScriptsMatch DEF AInv, IInv
<1>2. script \in Scripts
  BY <1>1 DEF Matching, Scripts
<1>3. /\ Now = [at |-> Now.at, n |-> Now.n, s |-> Now.s]
      /\ Now.at = at /\ Now.s = signal
      /\ Now.n = [e \in Ends |-> Len(queue[e])]
  BY DEF Now
<1>4. \A e \in Ends : Len(queue[e]) \in Nat
  BY <1>1, LenProperties DEF TypeOK
<1>5. /\ \A p \in Pipes : at[p] \in 1 .. Len(script[p]) + 1 /\ Len(script[p]) \in Nat
      /\ at = [p \in Pipes |-> at[p]]
  BY <1>1, LenProperties DEF AtCalls, Matching
<1>6. at \in [Pipes -> Nat]
  BY <1>5
<1>7. Now.n \in [Ends -> Int] /\ Now.s \in [Ends -> {0, 1}]
  BY <1>1, <1>3, <1>4 DEF TypeOK
<1>8. \A p \in Pipes : \A op : DoneBy(script, Now, p, op) = Done(p, op)
  BY <1>3 DEF DoneBy, Done
<1>9. \A p \in Pipes : EndOf(p) \in Ends
  BY DEF EndOf, Ends
<1>10. ASSUME NEW p \in Pipes, NEW q \in Pipes, p # q
       PROVE  /\ Now.s[EndOf(p)] = DoneBy(script, Now, p, "sgnl") - DoneBy(script, Now, q, "wait")
              /\ Now.n[EndOf(p)] = DoneBy(script, Now, p, "send") - DoneBy(script, Now, q, "recv")
  BY <1>1, <1>3, <1>8, <1>9, <1>10 DEF Balance
<1>11. Books(script, Now)
  BY <1>3, <1>5, <1>6, <1>7, <1>10 DEF Books
<1> QED
  BY <1>2, <1>3, <1>11

(* A call that returns is the thread's next, and it goes through. *)
LEMMA EndCan ==
  ASSUME AInv, NEW p \in Pipes, End(p)
  PROVE  Can(script, Now, p)
<1>1. TypeOK /\ Staged /\ AtCalls /\ Matching
  BY ScriptsMatch DEF AInv, IInv
<1>2. PICK op \in Ops : Goes(p, op, "ready")
  BY DEF End, Return, SendPush, RecvPop, SgnlSet, WaitClear, Ops
<1>3. ppc[p] = op /\ op \notin {"none", "connect_0", "connect_1", "ready"}
  BY <1>2 DEF Goes, Ops
<1>4. stage = "running" /\ ~Finished(p) /\ script[p][at[p]] = op
  BY <1>1, <1>3, ActorAssumption DEF Staged
<1>5. ep[p] = EndOf(p) /\ EndOf(p) \in Ends /\ Other(EndOf(p)) \in Ends
  BY <1>1, <1>4, ActorAssumption DEF Staged, EndOf, Ends, Other
<1>6. /\ Now.at = at /\ Now.s = signal
      /\ \A e \in Ends : Now.n[e] = Len(queue[e])
  BY NowBooks
<1>7. at[p] <= Len(script[p])
  <2>1. at[p] \in 1 .. Len(script[p]) + 1 /\ Len(script[p]) \in Nat
    BY <1>1, LenProperties DEF AtCalls, Matching
  <2> QED
    BY <1>4, <2>1 DEF Finished
<1>8. Through(op, EndOf(p), Now)
  <2>1. CASE SendPush(p)
    <3>1. op = "send" /\ Len(queue[EndOf(p)]) < Room[EndOf(p)]
      BY <1>3, <1>5, <2>1 DEF SendPush, Goes
    <3> QED
      BY <1>5, <1>6, <3>1 DEF Through
  <2>2. CASE RecvPop(p)
    <3>1. op = "recv" /\ queue[Other(EndOf(p))] # <<>>
      BY <1>3, <1>5, <2>2 DEF RecvPop, Pop, Goes
    <3>2. queue[Other(EndOf(p))] \in Seq(1 .. MaxMsgs)
      BY <1>1, <1>5 DEF TypeOK
    <3>3. Len(queue[Other(EndOf(p))]) > 0
      BY <3>1, <3>2, EmptySeq, LenProperties
    <3> QED
      BY <1>5, <1>6, <3>1, <3>3 DEF Through
  <2>3. CASE SgnlSet(p)
    <3>1. op = "sgnl" /\ signal[EndOf(p)] = 0
      BY <1>3, <1>5, <2>3 DEF SgnlSet, Goes
    <3> QED
      BY <1>6, <3>1 DEF Through
  <2>4. CASE WaitClear(p)
    <3>1. op = "wait" /\ signal[Other(EndOf(p))] = 1
      BY <1>3, <1>5, <2>4 DEF WaitClear, Goes
    <3> QED
      BY <1>6, <3>1 DEF Through
  <2> QED
    BY <2>1, <2>2, <2>3, <2>4 DEF End, Return
<1> QED
  BY <1>4, <1>6, <1>7, <1>8 DEF Can

LEMMA NotAheadStarts == ActorInit => NotAhead
<1> SUFFICES ASSUME ActorInit, NEW p \in Pipes PROVE at[p] <= Outcome(script).at[p]
  BY DEF NotAhead
<1>1. AInv
  BY ActorStart
<1>2. PICK c : c = Outcome(script)
  OBVIOUS
<1>3. script \in Scripts /\ Books(script, c)
  BY <1>1, <1>2, NowBooks, OutcomeIsLeast
<1>4. c.at[p] \in Nat /\ c.at[p] - 1 \in Nat
  BY <1>3, DoneByType
<1>5. at[p] = 1
  BY DEF ActorInit
<1> QED
  BY <1>2, <1>4, <1>5

LEMMA NotAheadStep == AInv /\ NotAhead /\ [ActorNext]_avars => NotAhead' /\ script' = script
<1> SUFFICES ASSUME AInv, NotAhead, [ActorNext]_avars PROVE NotAhead' /\ script' = script
  OBVIOUS
<1>1. ASSUME NEW p \in Pipes, End(p) PROVE NotAhead' /\ script' = script
  <2>1. script' = script /\ at' = [at EXCEPT ![p] = at[p] + 1]
    BY <1>1 DEF End
  <2>2. PICK c : c = Outcome(script) /\ c = Outcome(script)'
    BY <2>1
  <2>3. /\ script \in Scripts /\ Books(script, c) /\ Books(script, Now)
        /\ ~Can(script, c, p) /\ Can(script, Now, p) /\ Now.at = at
    BY <1>1, <2>2, NowBooks, EndCan, OutcomeIsLeast DEF Stuck
  <2>4. \A q \in Pipes : at[q] <= c.at[q]
    BY <2>2 DEF NotAhead
  <2>5. PICK q \in Pipes : q # p
    BY ActorAssumption
  <2>6. at[p] # c.at[p]
    BY <2>3, <2>4, <2>5, FurtherIsNoWorse
  <2>7. at \in [Pipes -> Nat] /\ c.at[p] \in Nat
    BY <2>3 DEF Books
  <2>8. at[p] + 1 <= c.at[p]
    BY <2>4, <2>6, <2>7
  <2>9. \A r \in Pipes : at'[r] = IF r = p THEN at[p] + 1 ELSE at[r]
    BY <2>1, <2>7
  <2> QED
    BY <2>1, <2>2, <2>4, <2>8, <2>9 DEF NotAhead
<1>2. ASSUME NEW p \in Pipes, MakePipe(p) \/ Begin(p) \/ FreePipe(p)
      PROVE  UNCHANGED <<script, at>>
  BY <1>2 DEF MakePipe, Begin, FreePipe
<1>3. ASSUME CreateThread \/ FreePair \/ UNCHANGED avars PROVE UNCHANGED <<script, at>>
  BY <1>3 DEF CreateThread, FreePair, avars
<1>4. ASSUME UNCHANGED <<script, at>> PROVE NotAhead' /\ script' = script
  BY <1>4 DEF NotAhead
<1> QED
  BY <1>1, <1>2, <1>3, <1>4 DEF ActorNext

LEMMA NotAheadAlways == ActorSpec => []NotAhead
BY NotAheadStarts, NotAheadStep, ActorInvariant, PTL DEF ActorSpec

LEMMA ScriptsEnd ==
  ASSUME AInv
  PROVE  /\ \A p \in Pipes : at[p] \in Nat /\ Len(script[p]) \in Nat
                             /\ Outcome(script).at[p] \in Nat
BY NowBooks, OutcomeIsLeast, DoneByType

(* What the sequential run does not bring to an end, no schedule of the two *)
(* threads does: an actor is freed only if its scripts run through one      *)
(* after the other as well.                                                 *)
THEOREM FreedOnlyIfSequential == ActorSpec => [](stage = "gone" => Completes)
<1>1. AInv /\ NotAhead => (stage = "gone" => Completes)
  <2> SUFFICES ASSUME AInv, NotAhead, stage = "gone", NEW p \in Pipes
               PROVE  Outcome(script).at[p] > Len(script[p])
    BY DEF Completes
  <2>1. at[p] > Len(script[p])
    BY ActorAssumption DEF AInv, OutlivesUse, Finished
  <2>2. at[p] <= Outcome(script).at[p]
    BY DEF NotAhead
  <2> QED
    BY <2>1, <2>2, ScriptsEnd
<1> QED
  BY <1>1, NotAheadAlways, ActorInvariant, PTL

(* What AnySchedule says of scripts that get stuck: they do in every        *)
(* schedule, both sides waiting or both sending into full rings.            *)
THEOREM StuckInAnySchedule == ActorSpec /\ ~Completes => AnySchedule
<1>1. AInv /\ NotAhead /\ ~Completes /\ [ActorNext]_avars => ~Completes'
  BY NotAheadStep DEF Completes
<1>2. (stage # "gone") <=> ~(stage = "gone")
  OBVIOUS
<1> QED
  BY <1>1, <1>2, FreedOnlyIfSequential, NotAheadAlways, ActorInvariant, PTL DEF ActorSpec, AnySchedule

(* Scripts that run through one after the other never get stuck: at every   *)
(* moment both threads are through or the next call of one goes through     *)
(* (the rings have room or a message, the signal is as it must be).         *)
NeverStuck == Completes => (\A p \in Pipes : Finished(p)) \/ (\E p \in Pipes : Can(script, Now, p))

(* No deadlock of an actor: what is left of AnySchedule is that a thread    *)
(* whose call goes through takes its turn, which is fairness.               *)
THEOREM ScriptsNeverStuck == ActorSpec => []NeverStuck
<1>1. AInv => NeverStuck
  <2> SUFFICES ASSUME AInv, Completes, Stuck(script, Now), NEW p \in Pipes PROVE Finished(p)
    BY DEF NeverStuck, Stuck
  <2>1. script \in Scripts /\ Books(script, Now) /\ Now.at = at
    BY NowBooks
  <2>2. Outcome(script).at[p] <= at[p]
    BY <2>1, OutcomeIsLeast
  <2> QED
    BY <2>2, ScriptsEnd DEF Completes, Finished
<1> QED
  BY <1>1, ActorInvariant, PTL
=============================================================================

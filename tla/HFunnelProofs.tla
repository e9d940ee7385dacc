--------------------------- MODULE HFunnelProofs ----------------------------
(***************************************************************************)
(* The linked queue of HFunnel.tla, for every set of producers, of values  *)
(* and of node addresses.                                                  *)
(***************************************************************************)
EXTENDS HFunnel, SequenceTheorems, TLAPS

(* Indexing facts about the history of swaps. *)
LEMMA ChainTail ==
  ASSUME chain \in Seq(Nodes), Len(chain) >= 2
  PROVE  /\ Tail(chain) \in Seq(Nodes)
         /\ Len(Tail(chain)) = Len(chain) - 1
         /\ \A i \in 1 .. Len(chain) - 1 : Tail(chain)[i] = chain[i + 1]
<1>1. chain # <<>>
  BY EmptySeq
<1> QED
  BY <1>1, HeadTailProperties

(* A node in the list is allocated, and so is one in a producer's hands. *)
LEMMA NodesInUse ==
  ASSUME IInv
  PROVE  /\ head_ptr \in Chain /\ tail_ptr \in Chain
         /\ Chain \subseteq live
         /\ \A i \in 1 .. Len(chain) : chain[i] \in Chain /\ chain[i] \in Nodes
         /\ \A p \in Producers : ppc[p] = "swap" => node[p] \in Private
         /\ \A p \in Producers : ppc[p] = "link" => node[p] \in Chain /\ prev[p] \in Chain
         /\ \A p \in Producers : ppc[p] # "idle" => node[p] \in live /\ node[p] \in Nodes
<1> USE DEF IInv, TypeOK
<1>1. Len(chain) \in Nat
  BY LenProperties
<1>2. \A i \in 1 .. Len(chain) : chain[i] \in Chain /\ chain[i] \in Nodes
  BY ElementOfSeq DEF Chain
<1>3. \A p \in Producers : ppc[p] = "link" => node[p] \in Chain /\ prev[p] \in Chain
  <2> SUFFICES ASSUME NEW p \in Producers, ppc[p] = "link"
               PROVE  node[p] \in Chain /\ prev[p] \in Chain
    OBVIOUS
  <2>1. PICK i \in 1 .. Len(chain) - 1 : chain[i] = prev[p] /\ chain[i + 1] = node[p]
    BY DEF LocalsCurrent, LinkPending
  <2>2. i \in 1 .. Len(chain) /\ i + 1 \in 1 .. Len(chain)
    BY <1>1
  <2> QED
    BY <1>2, <2>1, <2>2
<1>4. head_ptr \in Chain /\ tail_ptr \in Chain
  BY <1>1, <1>2 DEF ListShape
<1>5. \A p \in Producers : ppc[p] = "swap" => node[p] \in Private
  BY DEF Private
<1>6. Chain \subseteq live /\ Private \subseteq live
  BY DEF NodesAccounted
<1>7. \A p \in Producers : ppc[p] # "idle" => ppc[p] \in {"swap", "link"}
  OBVIOUS
<1> QED
  BY <1>2, <1>3, <1>4, <1>5, <1>6, <1>7

(* Nothing that is about to be followed has been freed. *)
LEMMA Allocated == IInv => NoUseAfterFree
<1> SUFFICES ASSUME IInv PROVE NoUseAfterFree
  OBVIOUS
<1> QED
  BY NodesInUse
     DEF IInv, NodesAccounted, LocalsCurrent, NoUseAfterFree, LeftBehind

LEMMA InitIInv == Init => IInv
<1> SUFFICES ASSUME Init PROVE IInv
  OBVIOUS
<1>1. chain \in Seq(Nodes) /\ Len(chain) = 1 /\ chain[1] = head_ptr
  BY DEF Init
<1>2. Chain = {head_ptr}
  BY <1>1 DEF Chain
<1> QED
  BY <1>1, <1>2, FunnelAssumption
     DEF Init, IInv, TypeOK, ListShape, NodesAccounted, LocalsCurrent, Private,
         LeftBehind

-----------------------------------------------------------------------------
(* One lemma per operation *)

LEMMA StepPushAlloc ==
  ASSUME IInv, NEW p \in Producers, NEW v \in Values, PushAlloc(p, v)
  PROVE  IInv'
<1>1. PICK n \in Nodes \ live :
        /\ live' = live \cup {n}
        /\ value' = [value EXCEPT ![n] = v]
        /\ next_ptr' = [next_ptr EXCEPT ![n] = Null]
        /\ node' = [node EXCEPT ![p] = n]
  BY DEF PushAlloc
<1> USE <1>1, FunnelAssumption DEF PushAlloc, IInv, consumer
<1>2. TypeOK'
  BY DEF TypeOK
<1>3. n \notin Chain /\ n \notin Private /\ n # head_ptr /\ n # tail_ptr
  BY NodesInUse DEF NodesAccounted
<1>4. Chain' = Chain
  BY DEF Chain
<1>5. Private' = Private \cup {n}
  BY DEF Private, TypeOK
<1>6. ListShape'
  BY <1>3, NodesInUse DEF ListShape, LinkedBut, TypeOK
<1>7. NodesAccounted'
  BY <1>3, <1>4, <1>5, NodesInUse DEF NodesAccounted, LeftBehind, TypeOK
<1>8. LocalsCurrent'
  <2>1. \A q \in Producers : q # p /\ ppc[q] = "link" => LinkPending(q)'
    BY <1>3, NodesInUse DEF LocalsCurrent, LinkPending, TypeOK
  <2> QED
    BY <1>3, <2>1, NodesInUse DEF LocalsCurrent, TypeOK
<1> QED
  BY <1>2, <1>6, <1>7, <1>8

(* The new node is nowhere in the list before, and last in it afterwards. *)
LEMMA StepPushSwap ==
  ASSUME IInv, NEW p \in Producers, PushSwap(p)
  PROVE  IInv'
<1> USE FunnelAssumption DEF PushSwap, IInv, consumer, memory
<1>1. node[p] \in Private /\ node[p] \in live /\ node[p] \in Nodes
  BY NodesInUse
<1>2. /\ chain' \in Seq(Nodes)
      /\ Len(chain') = Len(chain) + 1
      /\ \A i \in 1 .. Len(chain) : chain'[i] = chain[i]
      /\ chain'[Len(chain) + 1] = node[p]
  BY <1>1, AppendProperties DEF TypeOK
<1>3. Len(chain) \in Nat /\ Len(chain) >= 1
  BY LenProperties DEF TypeOK, ListShape
<1>4. Chain' = Chain \cup {node[p]}
  BY <1>2, <1>3 DEF Chain
<1>5. Private' = Private \ {node[p]}
  BY SMTT(30) DEF Private, TypeOK, NodesAccounted
<1>6. node[p] \notin Chain
  BY <1>1 DEF NodesAccounted
<1>7. \A i \in 1 .. Len(chain) : chain[i] # node[p]
  BY <1>6, NodesInUse
<1>8. TypeOK'
  BY <1>1, <1>2 DEF TypeOK
<1>9. ListShape'
  <2>1. next_ptr[node[p]] = Null
    BY DEF LocalsCurrent
  <2>2. \A i, j \in 1 .. Len(chain') : chain'[i] = chain'[j] => i = j
    BY <1>2, <1>3, <1>7 DEF ListShape
  <2>3. \A i \in 1 .. Len(chain') - 1 : LinkedBut(i)'
    <3> SUFFICES ASSUME NEW i \in 1 .. Len(chain') - 1
                 PROVE  LinkedBut(i)'
      OBVIOUS
    <3>1. CASE i = Len(chain)
      BY <3>1, <1>2, <1>3 DEF LinkedBut, TypeOK, ListShape
    <3>2. CASE i # Len(chain)
      <4>1. i \in 1 .. Len(chain) - 1 /\ i + 1 \in 1 .. Len(chain)
        BY <3>2, <1>2, <1>3
      <4>2. LinkedBut(i)
        BY <4>1 DEF ListShape
      <4>3. chain'[i] = chain[i] /\ chain'[i + 1] = chain[i + 1]
        BY <4>1, <1>2
      <4>4. ASSUME NEW q \in Producers,
                   ppc[q] = "link" /\ prev[q] = chain[i] /\ node[q] = chain[i + 1]
            PROVE  ppc'[q] = "link" /\ prev'[q] = chain'[i] /\ node'[q] = chain'[i + 1]
        BY <4>3, <4>4 DEF TypeOK
      <4> QED
        BY <4>2, <4>3, <4>4 DEF LinkedBut
    <3> QED
      BY <3>1, <3>2
  <2> QED
    BY <1>2, <1>3, <2>1, <2>2, <2>3 DEF ListShape, TypeOK
<1>10. NodesAccounted'
  BY <1>1, <1>4, <1>5, <1>6 DEF NodesAccounted, LeftBehind, TypeOK
<1>11. LocalsCurrent'
  <2>1. LinkPending(p)'
    BY <1>2, <1>3 DEF LinkPending, ListShape, TypeOK
  <2>2. \A q \in Producers : q # p /\ ppc[q] = "link" => LinkPending(q)'
    <3> SUFFICES ASSUME NEW q \in Producers, q # p, ppc[q] = "link"
                 PROVE  LinkPending(q)'
      OBVIOUS
    <3>1. PICK i \in 1 .. Len(chain) - 1 :
            chain[i] = prev[q] /\ chain[i + 1] = node[q] /\ next_ptr[prev[q]] = Null
      BY DEF LocalsCurrent, LinkPending
    <3>2. i \in 1 .. Len(chain) /\ i + 1 \in 1 .. Len(chain) /\ i \in 1 .. Len(chain') - 1
      BY <1>2, <1>3
    <3>3. chain'[i] = prev'[q] /\ chain'[i + 1] = node'[q] /\ next_ptr'[prev'[q]] = Null
      BY <1>2, <3>1, <3>2 DEF TypeOK
    <3> QED
      BY <3>2, <3>3 DEF LinkPending
  <2> QED
    BY <2>1, <2>2 DEF LocalsCurrent, TypeOK
<1> QED
  BY <1>8, <1>9, <1>10, <1>11

(* The gap that closes is the one this producer left: no other producer has *)
(* the same predecessor.                                                    *)
LEMMA StepPushLink ==
  ASSUME IInv, NEW p \in Producers, PushLink(p)
  PROVE  IInv'
<1> USE FunnelAssumption DEF PushLink, PushReturn, IInv, consumer
<1>1. PICK k \in 1 .. Len(chain) - 1 :
        chain[k] = prev[p] /\ chain[k + 1] = node[p] /\ next_ptr[prev[p]] = Null
  BY DEF LocalsCurrent, LinkPending
<1>2. Len(chain) \in Nat /\ k \in 1 .. Len(chain) /\ k + 1 \in 1 .. Len(chain)
  BY LenProperties DEF TypeOK
<1>3. prev[p] \in Nodes /\ node[p] \in Nodes /\ node[p] \in Chain /\ prev[p] \in Chain
  BY <1>1, <1>2, NodesInUse
<1>4. next_ptr' = [next_ptr EXCEPT ![prev[p]] = node[p]]
  OBVIOUS
<1>5. prev[p] # tail_ptr
  BY <1>1, <1>2 DEF ListShape
<1>6. TypeOK'
  BY <1>3 DEF TypeOK
<1>7. Chain' = Chain /\ Private' = Private
  BY DEF Chain, Private, TypeOK
<1>8. ListShape'
  <2>1. next_ptr'[tail_ptr] = Null
    BY <1>5 DEF ListShape, TypeOK
  <2>2. \A i \in 1 .. Len(chain) - 1 : LinkedBut(i)'
    <3> SUFFICES ASSUME NEW i \in 1 .. Len(chain) - 1
                 PROVE  LinkedBut(i)'
      OBVIOUS
    <3>1. i \in 1 .. Len(chain) /\ i + 1 \in 1 .. Len(chain)
      BY <1>2
    <3>2. CASE i = k
      BY <1>1, <1>3, <3>2 DEF LinkedBut, TypeOK
    <3>3. CASE i # k
      <4>1. chain[i] # prev[p] /\ chain[i + 1] # node[p] /\ chain[i] \in Nodes
        BY <1>1, <1>2, <3>1, <3>3, NodesInUse DEF ListShape
      <4>2. next_ptr'[chain[i]] = next_ptr[chain[i]]
        BY <4>1 DEF TypeOK
      <4>3. LinkedBut(i)
        BY DEF ListShape
      <4> QED
        BY <4>1, <4>2, <4>3 DEF LinkedBut, TypeOK
    <3> QED
      BY <3>2, <3>3
  <2> QED
    BY <2>1, <2>2 DEF ListShape, TypeOK
<1>9. NodesAccounted'
  BY <1>7 DEF NodesAccounted, LeftBehind, TypeOK
<1>10. LocalsCurrent'
  <2>1. \A q \in Producers : ppc[q] = "swap" => next_ptr'[node[q]] = Null /\ node[q] # prev[p]
    <3> SUFFICES ASSUME NEW q \in Producers, ppc[q] = "swap"
                 PROVE  next_ptr'[node[q]] = Null /\ node[q] # prev[p]
      OBVIOUS
    <3>1. node[q] \in Private /\ node[q] \in Nodes
      BY NodesInUse
    <3>2. node[q] # prev[p]
      BY <1>3, <3>1 DEF NodesAccounted
    <3> QED
      BY <3>1, <3>2 DEF LocalsCurrent, TypeOK
  <2>2. \A q \in Producers : q # p /\ ppc[q] = "link" => LinkPending(q)'
    <3> SUFFICES ASSUME NEW q \in Producers, q # p, ppc[q] = "link"
                 PROVE  LinkPending(q)'
      OBVIOUS
    <3>1. PICK i \in 1 .. Len(chain) - 1 :
            chain[i] = prev[q] /\ chain[i + 1] = node[q] /\ next_ptr[prev[q]] = Null
      BY DEF LocalsCurrent, LinkPending
    <3>2. node[q] # node[p]
      BY DEF NodesAccounted
    <3>3. i # k
      BY <1>1, <3>1, <3>2
    <3>4. prev[q] # prev[p] /\ prev[q] \in Nodes
      BY <1>1, <1>2, <3>1, <3>3, NodesInUse DEF ListShape
    <3>5. chain'[i] = prev'[q] /\ chain'[i + 1] = node'[q] /\ next_ptr'[prev'[q]] = Null
      BY <3>1, <3>4 DEF TypeOK
    <3> QED
      BY <3>5 DEF LinkPending
  <2>3. cpc \in {"look", "advance"} => old = head_ptr
    BY DEF LocalsCurrent
  <2>4. cpc = "advance" => next # Null /\ next = next_ptr'[head_ptr]
    BY <1>1 DEF LocalsCurrent, TypeOK
  <2> QED
    BY <2>1, <2>2, <2>3, <2>4 DEF LocalsCurrent, TypeOK
<1> QED
  BY <1>6, <1>8, <1>9, <1>10

LEMMA StepPopCall == IInv /\ PopCall => IInv'
<1> SUFFICES ASSUME IInv, PopCall PROVE IInv'
  OBVIOUS
<1> USE DEF PopCall, IInv, memory, producers
<1>1. TypeOK'
  BY DEF TypeOK
<1>2. ListShape'
  BY DEF ListShape, LinkedBut
<1>3. NodesAccounted'
  BY DEF NodesAccounted, LeftBehind, Chain, Private
<1>4. LocalsCurrent'
  BY DEF LocalsCurrent, LinkPending
<1> QED
  BY <1>1, <1>2, <1>3, <1>4

LEMMA StepPopLook == IInv /\ PopLook => IInv'
<1> SUFFICES ASSUME IInv, PopLook PROVE IInv'
  OBVIOUS
<1> USE DEF PopLook, PopReturn, IInv, memory, producers
<1>1. TypeOK'
  <2>1. old = head_ptr /\ head_ptr \in Nodes
    BY DEF TypeOK, LocalsCurrent
  <2> QED
    BY <2>1 DEF TypeOK
<1>2. ListShape'
  BY DEF ListShape, LinkedBut
<1>3. NodesAccounted'
  BY DEF NodesAccounted, LeftBehind, Chain, Private
<1>4. LocalsCurrent'
  BY DEF LocalsCurrent, LinkPending
<1> QED
  BY <1>1, <1>2, <1>3, <1>4

(* The successor the consumer read is the second node of the list, so the   *)
(* list loses its first node and that one is left behind.                   *)
LEMMA StepPopAdvance == IInv /\ PopAdvance => IInv'
<1> SUFFICES ASSUME IInv, PopAdvance PROVE IInv'
  OBVIOUS
<1> USE DEF PopAdvance, IInv, memory, producers
<1>1. Len(chain) \in Nat /\ Len(chain) >= 1
  BY LenProperties DEF TypeOK, ListShape
<1>2. old = head_ptr /\ next # Null /\ next = next_ptr[head_ptr]
  BY DEF LocalsCurrent
<1>3. Len(chain) >= 2
  BY <1>1, <1>2 DEF ListShape
<1>4. next = chain[2]
  <2>1. LinkedBut(1)
    BY <1>1, <1>3 DEF ListShape
  <2> QED
    BY <1>2, <2>1 DEF LinkedBut, ListShape
<1>5. /\ chain' \in Seq(Nodes)
      /\ Len(chain') = Len(chain) - 1
      /\ \A i \in 1 .. Len(chain) - 1 : chain'[i] = chain[i + 1]
  BY <1>3, ChainTail DEF TypeOK
<1>6. \A i \in 2 .. Len(chain) : chain[i] # head_ptr
  BY <1>1, <1>3 DEF ListShape
<1>7. Chain' = Chain \ {head_ptr}
  <2>1. Chain' \subseteq Chain \ {head_ptr}
    <3> SUFFICES ASSUME NEW i \in 1 .. Len(chain')
                 PROVE  chain'[i] \in Chain \ {head_ptr}
      BY DEF Chain
    <3>1. i \in 1 .. Len(chain) - 1 /\ i + 1 \in 2 .. Len(chain) /\ i + 1 \in 1 .. Len(chain)
      BY <1>1, <1>5
    <3> QED
      BY <1>5, <1>6, <3>1 DEF Chain
  <2>2. Chain \ {head_ptr} \subseteq Chain'
    <3> SUFFICES ASSUME NEW i \in 1 .. Len(chain), chain[i] # head_ptr
                 PROVE  chain[i] \in Chain'
      BY DEF Chain
    <3>1. i # 1
      BY DEF ListShape
    <3>2. i - 1 \in 1 .. Len(chain) - 1 /\ i - 1 \in 1 .. Len(chain') /\ (i - 1) + 1 = i
      BY <1>1, <1>5, <3>1
    <3>3. chain'[i - 1] = chain[i]
      BY <1>5, <3>2
    <3> QED
      BY <3>2, <3>3 DEF Chain
  <2> QED
    BY <2>1, <2>2
<1>8. TypeOK'
  BY <1>2, <1>5 DEF TypeOK
<1>9. ListShape'
  <2>1. Len(chain') >= 1 /\ chain'[1] = head_ptr' /\ chain'[Len(chain')] = tail_ptr
    BY <1>1, <1>3, <1>4, <1>5 DEF ListShape
  <2>2. \A i, j \in 1 .. Len(chain') : chain'[i] = chain'[j] => i = j
    <3> SUFFICES ASSUME NEW i \in 1 .. Len(chain'), NEW j \in 1 .. Len(chain'),
                        chain'[i] = chain'[j]
                 PROVE  i = j
      OBVIOUS
    <3>1. /\ i \in 1 .. Len(chain) - 1 /\ j \in 1 .. Len(chain) - 1
          /\ i + 1 \in 1 .. Len(chain) /\ j + 1 \in 1 .. Len(chain)
      BY <1>1, <1>5
    <3>2. i + 1 = j + 1
      BY <1>5, <3>1 DEF ListShape
    <3> QED
      BY <3>1, <3>2
  <2>3. \A i \in 1 .. Len(chain') - 1 : LinkedBut(i)'
    <3> SUFFICES ASSUME NEW i \in 1 .. Len(chain') - 1
                 PROVE  LinkedBut(i)'
      OBVIOUS
    <3>1. i \in 1 .. Len(chain) - 1 /\ i + 1 \in 1 .. Len(chain) - 1
      BY <1>1, <1>5
    <3>2. chain'[i] = chain[i + 1] /\ chain'[i + 1] = chain[(i + 1) + 1]
      BY <1>5, <3>1
    <3>3. LinkedBut(i + 1)
      BY <3>1 DEF ListShape
    <3> QED
      BY <3>2, <3>3 DEF LinkedBut
  <2> QED
    BY <2>1, <2>2, <2>3 DEF ListShape
<1>10. NodesAccounted'
  <2>1. head_ptr \in Chain /\ LeftBehind = {} /\ LeftBehind' = {head_ptr} /\ Private' = Private
    BY <1>2, NodesInUse DEF LeftBehind, Private
  <2>2. head_ptr \notin Private
    BY <2>1 DEF NodesAccounted
  <2> QED
    BY <1>7, <2>1, <2>2 DEF NodesAccounted
<1>11. LocalsCurrent'
  <2>1. \A p \in Producers : ppc[p] = "link" => LinkPending(p)'
    <3> SUFFICES ASSUME NEW p \in Producers, ppc[p] = "link"
                 PROVE  LinkPending(p)'
      OBVIOUS
    <3>1. PICK i \in 1 .. Len(chain) - 1 :
            chain[i] = prev[p] /\ chain[i + 1] = node[p] /\ next_ptr[prev[p]] = Null
      BY DEF LocalsCurrent, LinkPending
    <3>2. i # 1
      BY <1>2, <3>1 DEF ListShape
    <3>3. /\ i - 1 \in 1 .. Len(chain') - 1
          /\ i - 1 \in 1 .. Len(chain) - 1 /\ (i - 1) + 1 = i
      BY <1>1, <1>5, <3>2
    <3>4. chain'[i - 1] = chain[i] /\ chain'[(i - 1) + 1] = chain[i + 1]
      BY <1>5, <3>3
    <3> QED
      BY <3>1, <3>3, <3>4 DEF LinkPending
  <2> QED
    BY <2>1 DEF LocalsCurrent
<1> QED
  BY <1>8, <1>9, <1>10, <1>11

LEMMA StepPopTake == IInv /\ PopTake => IInv'
<1> SUFFICES ASSUME IInv, PopTake PROVE IInv'
  OBVIOUS
<1> USE DEF PopTake, IInv, memory, producers
<1>1. TypeOK'
  <2>1. next = head_ptr
    BY DEF LocalsCurrent
  <2> QED
    BY <2>1 DEF TypeOK
<1>2. ListShape'
  BY DEF ListShape, LinkedBut
<1>3. NodesAccounted'
  BY DEF NodesAccounted, LeftBehind, Chain, Private
<1>4. LocalsCurrent'
  BY DEF LocalsCurrent, LinkPending
<1> QED
  BY <1>1, <1>2, <1>3, <1>4

(* The node freed is in nobody's hands but the consumer's. *)
LEMMA StepPopFree == IInv /\ PopFree => IInv'
<1> SUFFICES ASSUME IInv, PopFree PROVE IInv'
  OBVIOUS
<1> USE DEF PopFree, PopReturn, IInv, producers
<1>1. LeftBehind = {old} /\ LeftBehind' = {} /\ Chain' = Chain /\ Private' = Private
  BY DEF LeftBehind, Chain, Private
<1>2. old \notin Chain /\ old \notin Private
  BY <1>1 DEF NodesAccounted
<1>3. TypeOK'
  BY DEF TypeOK
<1>4. \A i \in 1 .. Len(chain) :
        chain[i] \in Nodes /\ next_ptr'[chain[i]] = next_ptr[chain[i]]
  BY <1>2, NodesInUse DEF TypeOK
<1>5. ListShape'
  <2>1. next_ptr'[tail_ptr] = Null
    BY <1>2, NodesInUse DEF ListShape, TypeOK
  <2>2. \A i \in 1 .. Len(chain) - 1 : LinkedBut(i)'
    <3> SUFFICES ASSUME NEW i \in 1 .. Len(chain) - 1
                 PROVE  LinkedBut(i)'
      OBVIOUS
    <3>1. i \in 1 .. Len(chain)
      BY LenProperties DEF TypeOK
    <3>2. LinkedBut(i)
      BY DEF ListShape
    <3> QED
      BY <1>4, <3>1, <3>2 DEF LinkedBut
  <2> QED
    BY <2>1, <2>2 DEF ListShape
<1>6. NodesAccounted'
  BY <1>1, <1>2 DEF NodesAccounted
<1>7. LocalsCurrent'
  <2>1. ASSUME NEW p \in Producers, ppc[p] # "idle"
        PROVE  node[p] # old /\ node[p] \in Nodes
    BY <1>2, <2>1, NodesInUse DEF TypeOK
  <2>2. ASSUME NEW p \in Producers, ppc[p] = "link"
        PROVE  LinkPending(p)'
    <3>1. prev[p] # old /\ prev[p] \in Nodes
      BY <1>2, <2>2, NodesInUse DEF TypeOK
    <3>2. next_ptr'[prev[p]] = next_ptr[prev[p]]
      BY <3>1 DEF TypeOK
    <3> QED
      BY <2>2, <3>2 DEF LocalsCurrent, LinkPending
  <2>3. ASSUME NEW p \in Producers, ppc[p] = "swap"
        PROVE  next_ptr'[node[p]] = Null
    BY <2>1, <2>3 DEF LocalsCurrent, TypeOK
  <2>4. ASSUME NEW p \in Producers, ppc[p] # "idle"
        PROVE  value'[node[p]] = arg[p]
    BY <2>1, <2>4 DEF LocalsCurrent, TypeOK
  <2> QED
    BY <2>2, <2>3, <2>4 DEF LocalsCurrent
<1> QED
  BY <1>3, <1>5, <1>6, <1>7

LEMMA StepDestroy == IInv /\ Destroy => IInv'
<1> SUFFICES ASSUME IInv, Destroy PROVE IInv'
  OBVIOUS
<1> USE DEF Destroy, IInv, memory, producers, consumer
<1>1. TypeOK'
  BY DEF TypeOK
<1>2. ListShape'
  BY DEF ListShape, LinkedBut
<1>3. NodesAccounted'
  BY DEF NodesAccounted, LeftBehind, Chain, Private
<1>4. LocalsCurrent'
  BY DEF LocalsCurrent, LinkPending
<1> QED
  BY <1>1, <1>2, <1>3, <1>4

LEMMA StepStutter == IInv /\ UNCHANGED vars => IInv'
<1> SUFFICES ASSUME IInv, UNCHANGED vars PROVE IInv'
  OBVIOUS
<1> USE DEF vars, IInv, memory, producers, consumer
<1>1. TypeOK'
  BY DEF TypeOK
<1>2. ListShape'
  BY DEF ListShape, LinkedBut
<1>3. NodesAccounted'
  BY DEF NodesAccounted, LeftBehind, Chain, Private
<1>4. LocalsCurrent'
  BY DEF LocalsCurrent, LinkPending
<1> QED
  BY <1>1, <1>2, <1>3, <1>4

-----------------------------------------------------------------------------
(* The invariant and what follows from it *)

(* The list stays in shape, its nodes accounted for and the threads' locals *)
(* current, whatever the interleaving of pushes and pops (hfunnel.c:64-104). *)
THEOREM IInvInvariant == Spec => []IInv
<1>1. IInv /\ [Next]_vars => IInv'
  <2> SUFFICES ASSUME IInv, [Next]_vars PROVE IInv'
    OBVIOUS
  <2>1. ASSUME NEW p \in Producers, Push(p) PROVE IInv'
    BY <2>1, StepPushAlloc, StepPushSwap, StepPushLink DEF Push
  <2>2. ASSUME Pop PROVE IInv'
    BY <2>2, StepPopCall, StepPopLook, StepPopAdvance, StepPopTake, StepPopFree DEF Pop
  <2> QED
    BY <2>1, <2>2, StepDestroy, StepStutter DEF Next
<1> QED
  BY <1>1, InitIInv, PTL DEF Spec

(* No thread follows a pointer to a node that has been freed. *)
THEOREM MemorySafety == Spec => []NoUseAfterFree
BY IInvInvariant, Allocated, PTL

(* No node is leaked or freed twice while the funnel lives. *)
THEOREM NoLeak == Spec => []NodesAccounted
<1>1. IInv => NodesAccounted
  BY DEF IInv
<1> QED
  BY <1>1, IInvInvariant, PTL

(* The list is never broken but at the gaps of pushes in progress. *)
THEOREM Shape == Spec => []ListShape
<1>1. IInv => ListShape
  BY DEF IInv
<1> QED
  BY <1>1, IInvInvariant, PTL

(* Every word of the list and every local holds a value of its type, for    *)
(* every number of producers and addresses.                                 *)
THEOREM TypeCorrect == Spec => []TypeOK
<1>1. IInv => TypeOK
  BY DEF IInv
<1> QED
  BY <1>1, IInvInvariant, PTL

-----------------------------------------------------------------------------
(* The mailbox: each step of the list is a step of the mailbox, or none. *)

Places == 1 .. Len(chain) - 1

(* Linker(i) is the one producer that has yet to link place i, if there is  *)
(* one: nobody waits to link a place that is linked already.                *)
LinkersTrue ==
  \A i \in Places :
    /\ Linker(i) \in Producers \cup {Null}
    /\ \A p \in Producers : Linker(i) = p <=> ppc[p] = "link" /\ node[p] = chain[i + 1]
    /\ Linker(i) = Null <=> next_ptr[chain[i]] = chain[i + 1]

LEMMA LinkersAreTrue == IInv => LinkersTrue
<1> SUFFICES ASSUME IInv, NEW i \in Places
             PROVE  /\ Linker(i) \in Producers \cup {Null}
                    /\ \A p \in Producers :
                         Linker(i) = p <=> ppc[p] = "link" /\ node[p] = chain[i + 1]
                    /\ Linker(i) = Null <=> next_ptr[chain[i]] = chain[i + 1]
  BY DEF LinkersTrue
<1>1. Len(chain) \in Nat /\ i \in 1 .. Len(chain) /\ i + 1 \in 1 .. Len(chain)
  BY LenProperties DEF IInv, TypeOK, Places
<1>2. LinkedBut(i) /\ chain[i + 1] \in Nodes /\ chain[i + 1] # Null
  BY <1>1, ElementOfSeq, FunnelAssumption DEF IInv, ListShape, TypeOK, Places
<1>3. ASSUME NEW p \in Producers, ppc[p] = "link", node[p] = chain[i + 1]
      PROVE  next_ptr[chain[i]] # chain[i + 1]
  <2>1. PICK j \in 1 .. Len(chain) - 1 :
          chain[j] = prev[p] /\ chain[j + 1] = node[p] /\ next_ptr[prev[p]] = Null
    BY <1>3 DEF IInv, LocalsCurrent, LinkPending
  <2>2. j + 1 \in 1 .. Len(chain)
    BY <1>1, <2>1
  <2>3. j + 1 = i + 1
    BY <1>1, <1>3, <2>1, <2>2 DEF IInv, ListShape
  <2>4. j = i
    BY <1>1, <2>1, <2>3
  <2> QED
    BY <1>2, <2>1, <2>4
<1>4. \A p, q \in Producers : ppc[p] = "link" /\ ppc[q] = "link" /\ node[p] = node[q] => p = q
  BY DEF IInv, NodesAccounted
<1>5. CASE next_ptr[chain[i]] = chain[i + 1]
  <2>1. Linker(i) = Null
    BY <1>5 DEF Linker
  <2> QED
    BY <1>3, <1>5, <2>1, FunnelAssumption
<1>6. CASE next_ptr[chain[i]] # chain[i + 1]
  <2>1. PICK p \in Producers : ppc[p] = "link" /\ node[p] = chain[i + 1]
    BY <1>2, <1>6 DEF LinkedBut
  <2>2. Linker(i) = CHOOSE q \in Producers : ppc[q] = "link" /\ node[q] = chain[i + 1]
    BY <1>6 DEF Linker
  <2>3. \A q \in Producers : ppc[q] = "link" /\ node[q] = chain[i + 1] <=> q = p
    BY <1>4, <2>1
  <2>4. Linker(i) = p
    BY <2>1, <2>2, <2>3
  <2> QED
    BY <1>6, <2>3, <2>4, FunnelAssumption
<1> QED
  BY <1>5, <1>6

LEMMA MailProperties ==
  ASSUME IInv
  PROVE  /\ Len(chain) \in Nat /\ Len(chain) >= 1
         /\ Len(Mail) = Len(chain) - 1
         /\ Mail \in Seq([value : Values \cup {Null}, by : Producers \cup {Null}])
         /\ \A i \in Places : /\ i \in 1 .. Len(chain) /\ i + 1 \in 1 .. Len(chain)
                              /\ chain[i] \in Nodes /\ chain[i + 1] \in Nodes
                              /\ Mail[i] = [value |-> value[chain[i + 1]], by |-> Linker(i)]
<1>1. Len(chain) \in Nat /\ Len(chain) >= 1
  BY LenProperties DEF IInv, TypeOK, ListShape
<1>2. \A i \in Places : /\ i \in 1 .. Len(chain) /\ i + 1 \in 1 .. Len(chain)
                        /\ chain[i] \in Nodes /\ chain[i + 1] \in Nodes
  BY <1>1, ElementOfSeq DEF IInv, TypeOK, Places
<1>3. \A i \in Places : value[chain[i + 1]] \in Values \cup {Null} /\ Linker(i) \in Producers \cup {Null}
  BY <1>2, LinkersAreTrue DEF IInv, TypeOK, LinkersTrue
<1>4. Mail \in [1 .. Len(chain) - 1 -> [value : Values \cup {Null}, by : Producers \cup {Null}]]
  BY <1>3 DEF Mail, Places
<1>5. Len(chain) - 1 \in Nat
  BY <1>1
<1>6. Mail \in Seq([value : Values \cup {Null}, by : Producers \cup {Null}])
  BY ZenonT(40), <1>4, <1>5, SeqDef
<1>7. Len(Mail) = Len(chain) - 1
  BY <1>4, <1>5, <1>6, LenProperties
<1> QED
  BY <1>1, <1>2, <1>6, <1>7 DEF Mail, Places

LEMMA PushingIs ==
  ASSUME IInv
  PROVE  \A p \in Producers :
           /\ ppc[p] = "idle" => Pushing[p] = "idle"
           /\ ppc[p] = "swap" => Pushing[p] = "called"
           /\ ppc[p] = "link" => Pushing[p] = "placed"
BY DEF Pushing

LEMMA PoppingIs ==
  /\ cpc = "idle" => Popping = "idle"
  /\ cpc \in {"look", "advance"} => Popping = "called"
  /\ cpc \in {"take", "free"} => Popping = "taken"
BY DEF Popping

(* The mail is untouched by a step that leaves the list and the links to do *)
(* as they are.                                                             *)
LEMMA MailSame ==
  ASSUME IInv, IInv', chain' = chain,
         \A i \in Places : value'[chain[i + 1]] = value[chain[i + 1]],
         \A p \in Producers : \A i \in Places :
           (ppc'[p] = "link" /\ node'[p] = chain[i + 1]) <=> (ppc[p] = "link" /\ node[p] = chain[i + 1])
  PROVE  Mail' = Mail
<1>1. LinkersTrue /\ LinkersTrue'
  BY LinkersAreTrue, PTL
<1>2. Places' = Places
  BY DEF Places
<1>3. \A i \in Places : /\ Linker(i) \in Producers \cup {Null} /\ Linker(i)' \in Producers \cup {Null}
                        /\ \A p \in Producers : Linker(i)' = p <=> Linker(i) = p
  BY <1>1, <1>2 DEF LinkersTrue
<1>4. \A i \in Places : Linker(i)' = Linker(i)
  BY <1>3, FunnelAssumption
<1>5. Mail' = [i \in Places |-> [value |-> value'[chain[i + 1]], by |-> Linker(i)']]
  BY DEF Mail, Places
<1> QED
  BY <1>4, <1>5 DEF Mail, Places

LEMMA PushingMoves ==
  ASSUME TypeOK, NEW p \in Producers, NEW pc \in {"idle", "swap", "link"},
         ppc' = [ppc EXCEPT ![p] = pc]
  PROVE  /\ pc = "idle" => Pushing' = [Pushing EXCEPT ![p] = "idle"]
         /\ pc = "swap" => Pushing' = [Pushing EXCEPT ![p] = "called"]
         /\ pc = "link" => Pushing' = [Pushing EXCEPT ![p] = "placed"]
<1>1. \A q \in Producers : q # p => ppc'[q] = ppc[q]
  BY DEF TypeOK
<1>2. ppc'[p] = pc
  BY DEF TypeOK
<1>3. \A q \in Producers : q # p => Pushing'[q] = Pushing[q]
  BY <1>1 DEF Pushing, TypeOK
<1>4. /\ pc = "idle" => Pushing'[p] = "idle"
      /\ pc = "swap" => Pushing'[p] = "called"
      /\ pc = "link" => Pushing'[p] = "placed"
  BY <1>2 DEF Pushing
<1>5. DOMAIN Pushing = Producers /\ Pushing = [q \in Producers |-> Pushing[q]]
  BY DEF Pushing
<1>6. Pushing' = [q \in Producers |-> Pushing'[q]]
  BY DEF Pushing
<1>7. \A new : Pushing'[p] = new => Pushing' = [Pushing EXCEPT ![p] = new]
  BY <1>3, <1>5, <1>6
<1> QED
  BY <1>4, <1>7

LEMMA RefPushAlloc ==
  ASSUME IInv, IInv', NEW p \in Producers, NEW v \in Values, PushAlloc(p, v)
  PROVE  Mailbox!PushCall(p, v)
<1>1. PICK n \in Nodes \ live :
        /\ live' = live \cup {n}
        /\ value' = [value EXCEPT ![n] = v]
        /\ node' = [node EXCEPT ![p] = n]
  BY DEF PushAlloc
<1>2. /\ self = "live" /\ ppc[p] = "idle" /\ ppc' = [ppc EXCEPT ![p] = "swap"]
      /\ arg' = [arg EXCEPT ![p] = v]
      /\ UNCHANGED <<self, head_ptr, chain, cpc, old, next, got>>
  BY DEF PushAlloc, consumer
<1>3. \A i \in Places : chain[i + 1] # n /\ chain[i + 1] \in Nodes
  BY MailProperties, NodesInUse
<1>4. Mail' = Mail
  <2>1. \A i \in Places : value'[chain[i + 1]] = value[chain[i + 1]]
    BY <1>1, <1>3 DEF IInv, TypeOK
  <2>2. ASSUME NEW q \in Producers, NEW i \in Places
        PROVE  (ppc'[q] = "link" /\ node'[q] = chain[i + 1]) <=> (ppc[q] = "link" /\ node[q] = chain[i + 1])
    <3>1. CASE q = p
      BY <1>2, <3>1 DEF IInv, TypeOK
    <3>2. CASE q # p
      BY <1>1, <1>2, <3>2 DEF IInv, TypeOK
    <3> QED
      BY <3>1, <3>2
  <2> QED
    BY <1>2, <2>1, <2>2, MailSame
<1>5. Pushing' = [Pushing EXCEPT ![p] = "called"]
  BY <1>2, PushingMoves DEF IInv
<1>6. Pushing[p] = "idle"
  BY <1>2, PushingIs
<1>7. Popping' = Popping
  BY <1>2 DEF Popping
<1>8. Returned' = Returned
  <2>1. cpc = "take" => next \in Nodes /\ next # n
    BY <1>1, NodesInUse DEF IInv, LocalsCurrent, TypeOK
  <2>2. cpc = "take" => value'[next] = value[next]
    BY <1>1, <2>1 DEF IInv, TypeOK
  <2> QED
    BY <1>2, <2>2 DEF Returned
<1>9. Open /\ Open' = Open
  BY <1>2 DEF Open
<1> QED
  BY <1>2, <1>4, <1>5, <1>6, <1>7, <1>8, <1>9 DEF Mailbox!PushCall

LEMMA RefPushSwap ==
  ASSUME IInv, IInv', NEW p \in Producers, PushSwap(p)
  PROVE  Mailbox!Place(p)
<1>1. /\ ppc[p] = "swap" /\ ppc' = [ppc EXCEPT ![p] = "link"]
      /\ chain' = Append(chain, node[p])
      /\ UNCHANGED <<self, live, next_ptr, value, node, arg, cpc, old, next, got>>
  BY DEF PushSwap, consumer, memory
<1>2. /\ node[p] \in Private /\ node[p] \in Nodes /\ value[node[p]] = arg[p]
      /\ arg[p] \in Values \cup {Null}
  BY <1>1, NodesInUse DEF IInv, LocalsCurrent, TypeOK
<1>3. PICK l : l = Len(chain)
  OBVIOUS
<1>4. /\ l \in Nat /\ l >= 1 /\ Len(chain') = l + 1
      /\ \A i \in 1 .. l : chain'[i] = chain[i]
      /\ chain'[l + 1] = node[p]
      /\ Len(Mail) = l - 1 /\ Places = 1 .. l - 1 /\ Places' = 1 .. l
  BY <1>1, <1>2, <1>3, MailProperties, AppendProperties DEF IInv, TypeOK, Places
<1>5. LinkersTrue /\ LinkersTrue'
  BY LinkersAreTrue, PTL
<1>6. \A q \in Producers : q # p => ppc'[q] = ppc[q]
  BY <1>1 DEF IInv, TypeOK
<1>7. ppc'[p] = "link" /\ node' = node /\ value' = value
  BY <1>1 DEF IInv, TypeOK
<1>8. ASSUME NEW i \in Places
      PROVE  Linker(i)' = Linker(i) /\ chain'[i + 1] = chain[i + 1] /\ i \in Places'
  <2>1. i \in Places' /\ chain'[i + 1] = chain[i + 1] /\ i + 1 \in 1 .. l
    BY <1>4
  <2>2. chain[i + 1] # node[p]
    BY <1>2, <1>3, <2>1, NodesInUse DEF IInv, NodesAccounted
  <2>3. /\ Linker(i) \in Producers \cup {Null}
        /\ \A q \in Producers : Linker(i) = q <=> ppc[q] = "link" /\ node[q] = chain[i + 1]
    BY <1>5 DEF LinkersTrue
  <2>4. /\ Linker(i)' \in Producers \cup {Null}
        /\ \A q \in Producers : Linker(i)' = q <=> ppc'[q] = "link" /\ node[q] = chain[i + 1]
    BY <1>5, <1>7, <2>1 DEF LinkersTrue
  <2>5. \A q \in Producers : Linker(i)' = q <=> Linker(i) = q
    BY <1>1, <1>6, <2>2, <2>3, <2>4
  <2> QED
    BY <2>1, <2>3, <2>4, <2>5, FunnelAssumption
<1>9. l \in Places' /\ \A k : k = l => Linker(k)' = p
  <2>1. l \in Places'
    BY <1>4
  <2>2. Linker(l)' = p <=> ppc'[p] = "link" /\ node'[p] = chain'[l + 1]
    BY <1>5, <2>1 DEF LinkersTrue
  <2> QED
    BY <1>4, <1>7, <2>1, <2>2
<1>10. Mail' = Append(Mail, [value |-> arg[p], by |-> p])
  <2>1. [value |-> arg[p], by |-> p] \in [value : Values \cup {Null}, by : Producers \cup {Null}]
    BY <1>2
  <2>2. Mail' = [i \in 1 .. l |-> [value |-> value'[chain'[i + 1]], by |-> Linker(i)']]
    BY <1>4 DEF Mail
  <2>3. Append(Mail, [value |-> arg[p], by |-> p]) =
          [i \in 1 .. l |-> IF i = l THEN [value |-> arg[p], by |-> p] ELSE Mail[i]]
    BY <1>4, <2>1, MailProperties
  <2>4. ASSUME NEW i \in 1 .. l
        PROVE  [value |-> value'[chain'[i + 1]], by |-> Linker(i)'] =
                 IF i = l THEN [value |-> arg[p], by |-> p] ELSE Mail[i]
    <3>1. CASE i = l
      BY <1>2, <1>4, <1>7, <1>9, <3>1
    <3>2. CASE i # l
      <4>1. i \in Places
        BY <1>4, <3>2
      <4> QED
        BY <1>7, <1>8, <3>2, <4>1, MailProperties
    <3> QED
      BY <3>1, <3>2
  <2> QED
    BY <2>2, <2>3, <2>4
<1>11. Pushing' = [Pushing EXCEPT ![p] = "placed"]
  BY <1>1, PushingMoves DEF IInv
<1>12. Pushing[p] = "called"
  BY <1>1, PushingIs
<1>13. Popping' = Popping /\ Returned' = Returned /\ Open' = Open
  BY <1>1 DEF Popping, Returned, Open
<1> QED
  BY <1>1, <1>10, <1>11, <1>12, <1>13 DEF Mailbox!Place

LEMMA RefPushLink ==
  ASSUME IInv, IInv', NEW p \in Producers, PushLink(p)
  PROVE  Mailbox!Show(p)
<1>1. /\ ppc[p] = "link" /\ ppc' = [ppc EXCEPT ![p] = "idle"]
      /\ node' = [node EXCEPT ![p] = Null] /\ arg' = [arg EXCEPT ![p] = Null]
      /\ UNCHANGED <<self, chain, value, cpc, old, next, got>>
  BY DEF PushLink, PushReturn, consumer
<1>2. LinkersTrue /\ LinkersTrue'
  BY LinkersAreTrue, PTL
<1>3. Places' = Places /\ Len(Mail) = Len(chain) - 1 /\ Places = 1 .. Len(Mail)
  BY <1>1, MailProperties DEF Places
<1>4. ASSUME NEW i \in Places
      PROVE  Linker(i)' = IF Linker(i) = p THEN Null ELSE Linker(i)
  <2>1. /\ Linker(i) \in Producers \cup {Null}
        /\ \A q \in Producers : Linker(i) = q <=> ppc[q] = "link" /\ node[q] = chain[i + 1]
    BY <1>2 DEF LinkersTrue
  <2>2. /\ Linker(i)' \in Producers \cup {Null}
        /\ \A q \in Producers : Linker(i)' = q <=> ppc'[q] = "link" /\ node'[q] = chain[i + 1]
    BY <1>1, <1>2, <1>3 DEF LinkersTrue
  <2>3. \A q \in Producers : q # p => ppc'[q] = ppc[q] /\ node'[q] = node[q]
    BY <1>1 DEF IInv, TypeOK
  <2>4. ppc'[p] = "idle"
    BY <1>1 DEF IInv, TypeOK
  <2>5. \A q \in Producers : Linker(i)' = q <=> Linker(i) = q /\ q # p
    BY <2>1, <2>2, <2>3, <2>4
  <2> QED
    BY <2>1, <2>2, <2>5, FunnelAssumption
<1>5. Mail' = [i \in 1 .. Len(Mail) |->
                 IF Mail[i].by = p THEN [Mail[i] EXCEPT !.by = Null] ELSE Mail[i]]
  <2>1. Mail' = [i \in Places |-> [value |-> value[chain[i + 1]], by |-> Linker(i)']]
    BY <1>1, <1>3 DEF Mail, Places
  <2>2. ASSUME NEW i \in Places
        PROVE  [value |-> value[chain[i + 1]], by |-> Linker(i)'] =
                 IF Mail[i].by = p THEN [Mail[i] EXCEPT !.by = Null] ELSE Mail[i]
    <3>1. Mail[i] = [value |-> value[chain[i + 1]], by |-> Linker(i)]
      BY MailProperties
    <3> QED
      BY <1>4, <3>1
  <2> QED
    BY <1>3, <2>1, <2>2
<1>6. Pushing' = [Pushing EXCEPT ![p] = "idle"]
  BY <1>1, PushingMoves DEF IInv
<1>7. Pushing[p] = "placed"
  BY <1>1, PushingIs
<1>8. Popping' = Popping /\ Returned' = Returned /\ Open' = Open
  BY <1>1 DEF Popping, Returned, Open
<1> QED
  BY <1>1, <1>5, <1>6, <1>7, <1>8 DEF Mailbox!Show

(* A step of the consumer that leaves the list alone. *)
LEMMA MailKept ==
  ASSUME IInv, IInv', UNCHANGED <<chain, ppc, node>>,
         \A i \in Places : value'[chain[i + 1]] = value[chain[i + 1]]
  PROVE  Mail' = Mail /\ Pushing' = Pushing
<1>1. Mail' = Mail
  BY MailSame
<1> QED
  BY <1>1 DEF Pushing

LEMMA RefPopCall ==
  ASSUME IInv, IInv', PopCall
  PROVE  Mailbox!PopCall
<1>1. self = "live" /\ cpc = "idle" /\ cpc' = "look"
      /\ UNCHANGED <<self, chain, live, next_ptr, value, ppc, node, arg, got>>
  BY DEF PopCall, memory, producers
<1>2. Mail' = Mail /\ Pushing' = Pushing
  BY <1>1, MailKept
<1>3. Popping = "idle" /\ Popping' = "called" /\ Returned' = Returned /\ Open /\ Open' = Open
  BY <1>1 DEF Popping, Returned, Open
<1> QED
  BY <1>1, <1>2, <1>3 DEF Mailbox!PopCall

LEMMA VisibleIs ==
  ASSUME IInv
  PROVE  Mailbox!Visible <=> next_ptr[head_ptr] # Null
<1>1. /\ Len(chain) \in Nat /\ Len(chain) >= 1 /\ Len(Mail) = Len(chain) - 1
      /\ Mail \in Seq([value : Values \cup {Null}, by : Producers \cup {Null}])
      /\ \A i \in Places : /\ chain[i + 1] \in Nodes
                           /\ Mail[i] = [value |-> value[chain[i + 1]], by |-> Linker(i)]
  BY MailProperties
<1>2. chain[1] = head_ptr /\ chain[Len(chain)] = tail_ptr /\ next_ptr[tail_ptr] = Null
  BY DEF IInv, ListShape
<1>3. CASE Len(chain) = 1
  <2>1. Mail = <<>>
    BY <1>1, <1>3, EmptySeq
  <2> QED
    BY <1>2, <1>3, <2>1 DEF Mailbox!Visible
<1>4. CASE Len(chain) # 1
  <2>1. 1 \in Places /\ Mail # <<>>
    BY <1>1, <1>4, EmptySeq DEF Places
  <2>2. Linker(1) = Null <=> next_ptr[chain[1]] = chain[1 + 1]
    BY <2>1, LinkersAreTrue DEF LinkersTrue
  <2>3. next_ptr[chain[1]] = chain[1 + 1] \/ next_ptr[chain[1]] = Null
    BY <2>1 DEF IInv, ListShape, LinkedBut, Places
  <2>4. chain[1 + 1] # Null
    BY <1>1, <2>1, FunnelAssumption
  <2>5. Mail[1].by = Linker(1)
    <3>1. Mail[1] = [value |-> value[chain[1 + 1]], by |-> Linker(1)]
      BY <1>1, <2>1
    <3> QED
      BY <3>1
  <2> QED
    BY <1>2, <2>1, <2>2, <2>3, <2>4, <2>5 DEF Mailbox!Visible
<1> QED
  BY <1>3, <1>4

LEMMA RefPopLook ==
  ASSUME IInv, IInv', PopLook
  PROVE  Mailbox!PopNull \/ UNCHANGED Mailbox!vars
<1>1. /\ cpc = "look" /\ old = head_ptr
      /\ UNCHANGED <<self, chain, live, next_ptr, value, ppc, node, arg>>
      /\ \/ next_ptr[old] = Null /\ got' = Null /\ cpc' = "idle"
         \/ next_ptr[old] # Null /\ got' = got /\ cpc' = "advance"
  BY DEF PopLook, PopReturn, memory, producers, IInv, LocalsCurrent
<1>2. Mail' = Mail /\ Pushing' = Pushing
  BY <1>1, MailKept
<1>3. Popping = "called" /\ Returned = got /\ Open' = Open
  BY <1>1 DEF Popping, Returned, Open
<1>4. CASE next_ptr[old] = Null /\ got' = Null /\ cpc' = "idle"
  <2>1. Popping' = "idle" /\ Returned' = Null
    BY <1>4 DEF Popping, Returned
  <2>2. ~Mailbox!Visible
    BY <1>1, <1>4, VisibleIs
  <2> QED
    BY <1>1, <1>2, <1>3, <2>1, <2>2 DEF Mailbox!PopNull
<1>5. CASE got' = got /\ cpc' = "advance"
  <2>1. Popping' = "called" /\ Returned' = got
    BY <1>5 DEF Popping, Returned
  <2> QED
    BY <1>1, <1>2, <1>3, <2>1 DEF Mailbox!vars
<1> QED
  BY <1>1, <1>4, <1>5

LEMMA RefPopAdvance ==
  ASSUME IInv, IInv', PopAdvance
  PROVE  Mailbox!Take
<1>1. /\ cpc = "advance" /\ cpc' = "take" /\ chain' = Tail(chain)
      /\ next # Null /\ next = next_ptr[head_ptr]
      /\ UNCHANGED <<self, live, next_ptr, value, ppc, node, arg, old, next, got>>
  BY DEF PopAdvance, memory, producers, IInv, LocalsCurrent
<1>2. Mailbox!Visible
  BY <1>1, VisibleIs
<1>3. PICK l : l = Len(chain)
  OBVIOUS
<1>4. /\ l \in Nat /\ l >= 1 /\ Len(Mail) = l - 1
      /\ Mail \in Seq([value : Values \cup {Null}, by : Producers \cup {Null}])
      /\ \A i \in Places : Mail[i] = [value |-> value[chain[i + 1]], by |-> Linker(i)]
  BY <1>3, MailProperties
<1>5. l >= 2 /\ Mail # <<>>
  <2>1. Mail # <<>>
    BY <1>2 DEF Mailbox!Visible
  <2>2. Len(Mail) # 0
    BY <1>4, <2>1, EmptySeq
  <2> QED
    BY <1>4, <2>1, <2>2
<1>6. Places = 1 .. l - 1 /\ 1 \in Places
  BY <1>3, <1>5 DEF Places
<1>7. /\ Len(chain') = l - 1
      /\ \A i \in 1 .. l - 1 : chain'[i] = chain[i + 1]
  BY <1>1, <1>3, <1>5, ChainTail DEF IInv, TypeOK
<1>8. next = chain[2]
  <2>1. next_ptr[chain[1]] = chain[1 + 1] \/ next_ptr[chain[1]] = Null
    BY <1>6 DEF IInv, ListShape, LinkedBut, Places
  <2> QED
    BY <1>1, <2>1 DEF IInv, ListShape
<1>9. LinkersTrue /\ LinkersTrue'
  BY LinkersAreTrue, PTL
<1>10. Places' = 1 .. l - 2
  BY <1>4, <1>5, <1>7 DEF Places
<1>11. ASSUME NEW i \in 1 .. l - 2
       PROVE  /\ Linker(i)' = Linker(i + 1) /\ chain'[i + 1] = chain[(i + 1) + 1]
              /\ i + 1 \in Places
  <2>1. /\ i + 1 \in Places /\ i \in Places' /\ i \in 1 .. l - 1 /\ i + 1 \in 1 .. l - 1
    BY <1>4, <1>6, <1>10
  <2>2. chain'[i] = chain[i + 1] /\ chain'[i + 1] = chain[(i + 1) + 1]
    BY <1>7, <2>1
  <2>3. /\ Linker(i + 1) \in Producers \cup {Null}
        /\ \A q \in Producers : Linker(i + 1) = q <=> ppc[q] = "link" /\ node[q] = chain[(i + 1) + 1]
    BY <1>9, <2>1 DEF LinkersTrue
  <2>4. /\ Linker(i)' \in Producers \cup {Null}
        /\ \A q \in Producers : Linker(i)' = q <=> ppc[q] = "link" /\ node[q] = chain[(i + 1) + 1]
    BY <1>1, <1>9, <2>1, <2>2 DEF LinkersTrue
  <2>5. \A q \in Producers : Linker(i)' = q <=> Linker(i + 1) = q
    BY <2>3, <2>4
  <2> QED
    BY <2>1, <2>2, <2>3, <2>4, <2>5, FunnelAssumption
<1>12. Mail' = Tail(Mail)
  <2>1. Len(chain') - 1 = l - 2
    BY <1>4, <1>7
  <2>2. Mail' = [i \in 1 .. l - 2 |-> [value |-> value[chain'[i + 1]], by |-> Linker(i)']]
    BY <1>1, <2>1 DEF Mail
  <2>3. Tail(Mail) = [i \in 1 .. l - 2 |-> Mail[i + 1]]
    <3>1. /\ Tail(Mail) \in Seq([value : Values \cup {Null}, by : Producers \cup {Null}])
          /\ Len(Tail(Mail)) = Len(Mail) - 1
          /\ \A i \in 1 .. Len(Tail(Mail)) : Tail(Mail)[i] = Mail[i + 1]
      BY <1>4, <1>5, HeadTailProperties
    <3>2. Len(Tail(Mail)) = l - 2
      BY <1>4, <3>1
    <3>3. Tail(Mail) = [i \in 1 .. l - 2 |-> Tail(Mail)[i]]
      <4>1. Tail(Mail) \in [1 .. l - 2 -> [value : Values \cup {Null}, by : Producers \cup {Null}]]
        BY <3>1, <3>2, LenProperties
      <4> QED
        BY <4>1
    <3> QED
      BY <3>1, <3>2, <3>3
  <2>4. \A i \in 1 .. l - 2 : [value |-> value[chain'[i + 1]], by |-> Linker(i)'] = Mail[i + 1]
    BY <1>4, <1>11
  <2> QED
    BY <2>2, <2>3, <2>4
<1>13. Returned' = Mail[1].value
  <2>1. Mail[1].value = value[chain[1 + 1]]
    <3>1. Mail[1] = [value |-> value[chain[1 + 1]], by |-> Linker(1)]
      BY <1>4, <1>6
    <3> QED
      BY <3>1
  <2> QED
    BY <1>1, <1>8, <2>1 DEF Returned
<1>14. Popping = "called" /\ Popping' = "taken" /\ Pushing' = Pushing /\ Open' = Open
  BY <1>1 DEF Popping, Pushing, Open
<1> QED
  BY <1>1, <1>2, <1>12, <1>13, <1>14 DEF Mailbox!Take

LEMMA RefPopTake ==
  ASSUME IInv, IInv', PopTake
  PROVE  UNCHANGED Mailbox!vars
<1>1. /\ cpc = "take" /\ cpc' = "free" /\ got' = value[next]
      /\ UNCHANGED <<self, chain, live, next_ptr, value, ppc, node, arg, old, next>>
  BY DEF PopTake, memory, producers
<1>2. Mail' = Mail /\ Pushing' = Pushing
  BY <1>1, MailKept
<1>3. Popping' = Popping /\ Returned' = Returned /\ Open' = Open
  BY <1>1 DEF Popping, Returned, Open
<1> QED
  BY <1>1, <1>2, <1>3 DEF Mailbox!vars

(* The node freed is not one the mail is in. *)
LEMMA RefPopFree ==
  ASSUME IInv, IInv', PopFree
  PROVE  Mailbox!PopReturn
<1>1. /\ cpc = "free" /\ cpc' = "idle" /\ got' = got
      /\ value' = [value EXCEPT ![old] = Null]
      /\ UNCHANGED <<self, chain, ppc, node, arg>>
  BY DEF PopFree, PopReturn, producers
<1>2. \A i \in Places : value'[chain[i + 1]] = value[chain[i + 1]]
  <2>1. \A i \in Places : chain[i + 1] \in Chain /\ chain[i + 1] \in Nodes
    BY MailProperties, NodesInUse
  <2>2. old \notin Chain
    BY <1>1 DEF IInv, NodesAccounted, LeftBehind
  <2> QED
    BY <1>1, <2>1, <2>2 DEF IInv, TypeOK
<1>3. Mail' = Mail /\ Pushing' = Pushing
  BY <1>1, <1>2, MailKept
<1>4. Popping = "taken" /\ Popping' = "idle" /\ Returned' = Returned /\ Open' = Open
  BY <1>1 DEF Popping, Returned, Open
<1> QED
  BY <1>1, <1>3, <1>4 DEF Mailbox!PopReturn

LEMMA RefDestroy ==
  ASSUME IInv, IInv', Destroy
  PROVE  Mailbox!Close
<1>1. /\ self = "live" /\ cpc = "idle" /\ self' = "freed" /\ \A p \in Producers : ppc[p] = "idle"
      /\ UNCHANGED <<chain, live, next_ptr, value, ppc, node, arg, cpc, next, got>>
  BY DEF Destroy, memory, producers, consumer
<1>2. Mail' = Mail /\ Pushing' = Pushing
  BY <1>1, MailKept
<1>3. /\ Popping = "idle" /\ Popping' = Popping /\ Returned' = Returned
      /\ Open /\ Open' = FALSE
  BY <1>1 DEF Popping, Returned, Open
<1>4. \A p \in Producers : Pushing[p] = "idle"
  BY <1>1, PushingIs
<1> QED
  BY <1>1, <1>2, <1>3, <1>4 DEF Mailbox!Close

LEMMA RefStutter ==
  ASSUME IInv, IInv', UNCHANGED vars
  PROVE  UNCHANGED Mailbox!vars
<1>1. UNCHANGED <<self, chain, next_ptr, value, ppc, node, arg, cpc, next, got>>
  BY DEF vars, memory, producers, consumer
<1>2. Mail' = Mail /\ Pushing' = Pushing
  BY <1>1, MailKept
<1>3. Popping' = Popping /\ Returned' = Returned /\ Open' = Open
  BY <1>1 DEF Popping, Returned, Open
<1> QED
  BY <1>1, <1>2, <1>3 DEF Mailbox!vars

LEMMA RefInit == Init => Mailbox!Init
<1> SUFFICES ASSUME Init PROVE Mailbox!Init
  OBVIOUS
<1>1. Len(chain) = 1
  BY DEF Init
<1>2. Mail = <<>>
  BY <1>1 DEF Mail
<1>3. Pushing = [p \in Producers |-> "idle"]
  BY DEF Init, Pushing
<1>4. Popping = "idle" /\ Returned = Null /\ Open = TRUE
  BY DEF Init, Popping, Returned, Open
<1> QED
  BY <1>2, <1>3, <1>4 DEF Init, Mailbox!Init

(* hfunnel is a mailbox: whatever the interleaving, values come out in the  *)
(* order of the exchanges, each once and unchanged, those of one producer   *)
(* in the order it pushed them, and pop finds nothing only if the oldest    *)
(* value is not linked yet (hfunnel.c:64-104).                              *)
THEOREM FunnelImplementsMailbox == Spec => RefinesMailbox
<1>1. IInv /\ IInv' /\ [Next]_vars => [Mailbox!Next]_(Mailbox!vars)
  <2> SUFFICES ASSUME IInv, IInv', [Next]_vars
               PROVE  Mailbox!Next \/ UNCHANGED Mailbox!vars
    OBVIOUS
  <2>1. ASSUME NEW p \in Producers, Push(p) PROVE Mailbox!Next
    BY <2>1, RefPushAlloc, RefPushSwap, RefPushLink DEF Push, Mailbox!Next
  <2>2. ASSUME Pop PROVE Mailbox!Next \/ UNCHANGED Mailbox!vars
    BY <2>2, RefPopCall, RefPopLook, RefPopAdvance, RefPopTake, RefPopFree DEF Pop, Mailbox!Next
  <2>3. ASSUME Destroy PROVE Mailbox!Next
    BY <2>3, RefDestroy DEF Mailbox!Next
  <2> QED
    BY <2>1, <2>2, <2>3, RefStutter DEF Next
<1> QED
  BY RefInit, <1>1, IInvInvariant, PTL DEF Spec, RefinesMailbox, Mailbox!Spec
=============================================================================

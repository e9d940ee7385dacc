---------------------------- MODULE HQueueProofs ----------------------------
(***************************************************************************)
(* The ring of HQueue.tla, for every ring size and every set of items.     *)
(***************************************************************************)
EXTENDS HQueue, SequenceTheorems, TLAPS

-----------------------------------------------------------------------------
(* Arithmetic of the ring *)

(* Moving an index stays in the ring. *)
LEMMA MaskIncType ==
  ASSUME NEW i \in Slots PROVE MaskInc(i) \in Slots
BY QueueAssumption DEF MaskInc, Slots

(* Distances are less than the size, and zero only between equal indices. *)
LEMMA DistType ==
  ASSUME NEW i \in Slots, NEW j \in Slots
  PROVE  /\ Dist(i, j) \in 0 .. Size - 1
         /\ Dist(i, j) = 0 <=> i = j
         /\ Dist(i, j) = Size - 1 <=> MaskInc(j) = i
BY QueueAssumption DEF Dist, Slots, MaskInc

(* Moving the far end on by one adds one to the distance, unless the ring *)
(* is full; moving the near end on takes one away, unless it is empty.    *)
LEMMA DistStep ==
  ASSUME NEW i \in Slots, NEW j \in Slots
  PROVE  /\ MaskInc(j) # i => Dist(i, MaskInc(j)) = Dist(i, j) + 1
         /\ i # j => Dist(MaskInc(i), j) = Dist(i, j) - 1
BY QueueAssumption DEF Dist, Slots, MaskInc

-----------------------------------------------------------------------------
(* The inductive invariant *)

LEMMA InitIInv == Init => IInv
BY QueueAssumption
   DEF Init, IInv, TypeOK, CursorsConservative, SlotHoldsItem, Slots, Outside,
       PushSteps, PopSteps, Count, Dist, MaskInc

LEMMA StepTypeOK == IInv /\ [Next]_vars => TypeOK'
<1> SUFFICES ASSUME IInv, [Next]_vars PROVE TypeOK'
  OBVIOUS
<1> USE DEF IInv, TypeOK, Outside, PushSteps, PopSteps, producer, consumer
<1>1. ASSUME NEW x \in Items, PushBegin(x) PROVE TypeOK'
  BY <1>1 DEF PushBegin
<1>2. CASE PushReload
  BY <1>2 DEF PushReload
<1>3. CASE PushWrite
  BY <1>3 DEF PushWrite
<1>4. CASE PushPublish
  BY <1>4, MaskIncType DEF PushPublish
<1>5. CASE PopBegin
  BY <1>5 DEF PopBegin
<1>6. CASE PopReload
  BY <1>6 DEF PopReload
<1>7. CASE PopRead
  BY <1>7 DEF PopRead
<1>8. CASE PopRelease
  BY <1>8, MaskIncType DEF PopRelease
<1>9. CASE UNCHANGED vars
  BY <1>9 DEF vars
<1> QED
  BY <1>1, <1>2, <1>3, <1>4, <1>5, <1>6, <1>7, <1>8, <1>9 DEF Next

LEMMA StepCursors == IInv /\ [Next]_vars => CursorsConservative'
<1> SUFFICES ASSUME IInv, [Next]_vars PROVE CursorsConservative'
  OBVIOUS
<1> USE DEF IInv, TypeOK, CursorsConservative, Count, Outside, PushSteps,
            PopSteps, producer, consumer
<1>1. ASSUME NEW x \in Items, PushBegin(x) PROVE CursorsConservative'
  BY <1>1 DEF PushBegin
<1>2. CASE PushReload
  BY <1>2, DistType DEF PushReload
<1>3. CASE PushWrite
  BY <1>3 DEF PushWrite
(* Publishing: head is not past local_head, so the room the copy shows is *)
(* there, and every distance up to tail grows by one.                     *)
<1>4. CASE PushPublish
  <2>1. MaskInc(tail) # local_head /\ MaskInc(tail) # head
    BY <1>4, DistType DEF PushPublish
  <2>2. /\ Dist(head, tail') = Dist(head, tail) + 1
        /\ Dist(local_head, tail') = Dist(local_head, tail) + 1
    BY <1>4, <2>1, DistStep DEF PushPublish
  <2>3. Dist(head, tail) \in Int /\ Dist(local_head, tail) \in Int
        /\ Dist(head, local_tail) \in Int
    BY DistType
  <2> QED
    BY <1>4, <2>2, <2>3 DEF PushPublish
<1>5. CASE PopBegin
  BY <1>5 DEF PopBegin
<1>6. CASE PopReload
  BY <1>6, DistType DEF PopReload
(* Giving the slot back: the copy of tail still shows the item, so head    *)
(* does not pass it, and every distance from head shrinks by one.          *)
<1>7. CASE PopRead
  BY <1>7 DEF PopRead
<1>8. CASE PopRelease
  <2>1. head # local_tail /\ head # tail
    BY <1>8, DistType DEF PopRelease
  <2>2. /\ Dist(head', tail) = Dist(head, tail) - 1
        /\ Dist(head', local_tail) = Dist(head, local_tail) - 1
    BY <1>8, <2>1, DistStep DEF PopRelease
  <2>3. Dist(head, tail) \in Int /\ Dist(local_head, tail) \in Int
        /\ Dist(head, local_tail) \in Int
    BY DistType
  <2> QED
    BY <1>8, <2>2, <2>3 DEF PopRelease
<1>9. CASE UNCHANGED vars
  BY <1>9 DEF vars
<1> QED
  BY <1>1, <1>2, <1>3, <1>4, <1>5, <1>6, <1>7, <1>8, <1>9 DEF Next

(* What the invariant says of the two slots in use. *)
LEMMA RaceFree == IInv => SlotRaceFree
BY DistType DEF IInv, TypeOK, CursorsConservative, SlotRaceFree, Count

LEMMA StepSlots == IInv /\ [Next]_vars => SlotHoldsItem'
<1> SUFFICES ASSUME IInv, [Next]_vars PROVE SlotHoldsItem'
  OBVIOUS
<1> USE DEF IInv, TypeOK, SlotHoldsItem, Outside, PushSteps, PopSteps,
            producer, consumer
<1>1. ASSUME NEW x \in Items, PushBegin(x) PROVE SlotHoldsItem'
  BY <1>1 DEF PushBegin
<1>2. CASE PushReload
  BY <1>2 DEF PushReload
<1>3. CASE PushWrite
  <2>1. cpc = "release" => tail # head
    BY <1>3, RaceFree DEF PushWrite, SlotRaceFree
  <2> QED
    BY <1>3, <2>1 DEF PushWrite
<1>4. CASE PushPublish
  BY <1>4 DEF PushPublish
<1>5. CASE PopBegin
  BY <1>5 DEF PopBegin
<1>6. CASE PopReload
  BY <1>6 DEF PopReload
<1>7. CASE PopRead
  BY <1>7 DEF PopRead
<1>8. CASE PopRelease
  BY <1>8 DEF PopRelease
<1>9. CASE UNCHANGED vars
  BY <1>9 DEF vars
<1> QED
  BY <1>1, <1>2, <1>3, <1>4, <1>5, <1>6, <1>7, <1>8, <1>9 DEF Next

(* IInv is an invariant of the ring: types, cursors that err on the safe  *)
(* side, and slots that hold what was pushed (hqueue.c:98-133).           *)
THEOREM IInvInvariant == Spec => []IInv
<1>1. IInv /\ [Next]_vars => IInv'
  BY StepTypeOK, StepCursors, StepSlots DEF IInv
<1> QED
  BY InitIInv, <1>1, PTL DEF Spec

(* For every ring size, every word keeps its type. *)
THEOREM TypeCorrect == Spec => []TypeOK
<1>1. IInv => TypeOK
  BY DEF IInv
<1> QED
  BY IInvInvariant, <1>1, PTL

(* For every ring size, a stale cursor never shows room or an item that is *)
(* not there.                                                              *)
THEOREM CursorSafety == Spec => []CursorsConservative
<1>1. IInv => CursorsConservative
  BY DEF IInv
<1> QED
  BY IInvInvariant, <1>1, PTL

(* For every ring size, the producer's copy into a slot and the consumer's *)
(* copy out of a slot never overlap on one slot.                           *)
THEOREM RaceFreedom == Spec => []SlotRaceFree
BY IInvInvariant, RaceFree, PTL

-----------------------------------------------------------------------------
(* The ring implements the FIFO *)

Vals == Items \cup {NoItem}

(* The sequence the ring stands for, place by place. *)
ContentsOK ==
  /\ Contents \in Seq(Vals)
  /\ Len(Contents) = IF Held THEN Count - 1 ELSE Count
  /\ \A k \in 1 .. Len(Contents) :
        Contents[k] = data[Slot(IF Held THEN k ELSE k - 1)]

LEMMA ContentsProperties == IInv => ContentsOK
<1> SUFFICES ASSUME IInv PROVE ContentsOK
  OBVIOUS
<1> USE DEF ContentsOK
<1>1. Count \in 0 .. Size - 1 /\ (Held => Count >= 1)
  BY DistType DEF IInv, TypeOK, CursorsConservative, Count, Held
<1>2. \A k \in 0 .. Size - 1 : data[Slot(k)] \in Vals
  BY QueueAssumption DEF IInv, TypeOK, Slot, Slots, Vals
<1>3. CASE Held
  <2>1. Contents = [k \in 1 .. Count - 1 |-> data[Slot(k)]]
    BY <1>3 DEF Contents
  <2>2. Contents \in [1 .. Count - 1 -> Vals] /\ Count - 1 \in Nat
    BY <1>1, <1>2, <1>3, <2>1, QueueAssumption
  <2>3. Contents \in Seq(Vals) /\ Len(Contents) = Count - 1
    BY <2>2, SeqDef
  <2> QED
    BY <1>3, <2>1, <2>3
<1>4. CASE ~Held
  <2>1. Contents = [k \in 1 .. Count |-> data[Slot(k - 1)]]
    BY <1>4 DEF Contents
  <2>2. Contents \in [1 .. Count -> Vals] /\ Count \in Nat
    BY <1>1, <1>2, <1>4, <2>1, QueueAssumption
  <2>3. Contents \in Seq(Vals) /\ Len(Contents) = Count
    BY <2>2, SeqDef
  <2> QED
    BY <1>4, <2>1, <2>3
<1> QED
  BY <1>3, <1>4

(* A step that changes no slot in use and no index changes no content. *)
LEMMA ContentsSame ==
  ASSUME IInv, IInv', Count' = Count, Held' = Held,
         \A k \in 0 .. Count - 1 : data'[Slot(k)'] = data[Slot(k)]
  PROVE  Contents' = Contents
<1>1. ContentsOK /\ ContentsOK'
  BY ContentsProperties, PTL
<1>2. Count \in Nat
  BY DistType DEF IInv, TypeOK, Count
<1>3. Len(Contents') = Len(Contents)
  BY <1>1 DEF ContentsOK
<1>4. \A k \in 1 .. Len(Contents) : Contents'[k] = Contents[k]
  BY <1>1, <1>2 DEF ContentsOK
<1> QED
  BY <1>1, <1>3, <1>4, SeqEqual DEF ContentsOK

(* The slots in use are the Count slots from head on: none is at tail. *)
LEMMA SlotProperties ==
  IInv => /\ Count \in 0 .. Size - 1
          /\ Slot(Count) = tail
          /\ \A k \in 0 .. Count - 1 : Slot(k) \in Slots /\ Slot(k) # tail
          /\ Slot(0) = head
BY QueueAssumption
   DEF IInv, TypeOK, Slots, Slot, Count, Dist

LEMMA InitRefines == Init => Fifo!Init
<1> SUFFICES ASSUME Init PROVE Fifo!Init
  OBVIOUS
<1>1. Count = 0 /\ ~Held
  BY DEF Init, Count, Dist, Held
<1>2. Contents = <<>>
  BY <1>1 DEF Contents
<1> QED
  BY <1>1, <1>2 DEF Init, Fifo!Init, PushSteps, PopSteps, Held

(* Every step of the ring is a step of the FIFO or leaves it alone. *)
LEMMA StepRefines == IInv /\ IInv' /\ [Next]_vars => [Fifo!Next]_(Fifo!vars)
<1> SUFFICES ASSUME IInv, IInv', [Next]_vars PROVE [Fifo!Next]_(Fifo!vars)
  OBVIOUS
<1> USE DEF Outside, PushSteps, PopSteps, producer, consumer, Held
<1>0. ContentsOK /\ ContentsOK'
  BY ContentsProperties, PTL
<1>1. ASSUME NEW x \in Items, PushBegin(x) PROVE Fifo!PushCall(x)
  <2>1. Contents' = Contents
    BY <1>1 DEF PushBegin, Contents, Count, Slot
  <2> QED
    BY <1>1, <2>1 DEF PushBegin, Fifo!PushCall
<1>2. CASE PushReload
  <2>1. Contents' = Contents
    BY <1>2 DEF PushReload, Contents, Count, Slot
  <2>2. CASE MaskInc(tail) # head
    BY <1>2, <2>1, <2>2 DEF PushReload, Fifo!vars
  <2>3. CASE MaskInc(tail) = head
    <3>1. Count = Size - 1
      BY <2>3, DistType DEF IInv, TypeOK, Count
    <3>2. Fifo!Used = Size - 1
      BY <1>0, <3>1 DEF ContentsOK, Fifo!Used, IInv, TypeOK
    <3> QED
      BY <1>2, <2>1, <2>3, <3>2 DEF PushReload, Fifo!Next, Fifo!PushFalse
  <2> QED
    BY <2>2, <2>3
<1>3. CASE PushWrite
  <2>1. \A k \in 0 .. Count - 1 : data'[Slot(k)'] = data[Slot(k)]
    BY <1>3, SlotProperties DEF PushWrite, IInv, TypeOK, Slot
  <2>2. Count' = Count /\ Held' = Held
    BY <1>3 DEF PushWrite, Count
  <2>3. Contents' = Contents
    BY <2>1, <2>2, ContentsSame
  <2> QED
    BY <1>3, <2>3 DEF PushWrite, Fifo!vars
<1>4. CASE PushPublish
  <2>1. Count < Size - 1 /\ Count' = Count + 1
    <3>1. MaskInc(tail) # head
      BY <1>4, DistType DEF PushPublish, IInv, TypeOK, CursorsConservative, Count
    <3> QED
      BY <1>4, <3>1, DistType, DistStep DEF PushPublish, IInv, TypeOK, Count
  <2>2. Fifo!Used < Size - 1
    BY <1>0, <2>1, SlotProperties DEF ContentsOK, Fifo!Used, IInv, TypeOK
  <2>3. Contents' = Append(Contents, item)
    <3>1. item \in Vals
      BY DEF IInv, TypeOK, Vals
    <3>2. /\ Append(Contents, item) \in Seq(Vals)
          /\ Len(Append(Contents, item)) = Len(Contents) + 1
          /\ \A k \in 1 .. Len(Contents) :
                Append(Contents, item)[k] = Contents[k]
          /\ Append(Contents, item)[Len(Contents) + 1] = item
      BY <1>0, <3>1, AppendProperties DEF ContentsOK
    <3>3. Len(Contents') = Len(Contents) + 1 /\ Len(Contents) \in Nat
      BY <1>0, <1>4, <2>1, SlotProperties, LenProperties DEF PushPublish, ContentsOK
    <3>4. \A k \in 1 .. Len(Contents) + 1 :
            Contents'[k] = data[Slot(IF Held THEN k ELSE k - 1)]
      BY <1>0, <1>4, <3>3 DEF PushPublish, ContentsOK, Slot
    <3>5. \A k \in 1 .. Len(Contents) : Contents'[k] = Contents[k]
      BY <1>0, <3>3, <3>4 DEF ContentsOK
    <3>6. Contents'[Len(Contents) + 1] = item
      <4>1. data[Slot(Count)] = item
        BY <1>4, SlotProperties DEF PushPublish, IInv, SlotHoldsItem
      <4>2. (IF Held THEN Len(Contents) + 1 ELSE (Len(Contents) + 1) - 1) = Count
        BY <1>0, <3>3, SlotProperties DEF ContentsOK
      <4>3. Len(Contents) + 1 \in 1 .. Len(Contents) + 1
        BY <3>3
      <4> QED
        BY <3>4, <4>1, <4>2, <4>3
    <3> QED
      BY <1>0, <3>2, <3>3, <3>5, <3>6, SeqEqual DEF ContentsOK
  <2> QED
    BY <1>4, <2>2, <2>3 DEF PushPublish, Fifo!Next, Fifo!PushTrue
<1>5. CASE PopBegin
  <2>1. Contents' = Contents
    BY <1>5 DEF PopBegin, Contents, Count, Slot
  <2> QED
    BY <1>5, <2>1 DEF PopBegin, Fifo!Next, Fifo!PopCall
<1>6. CASE PopReload
  <2>1. Contents' = Contents
    BY <1>6 DEF PopReload, Contents, Count, Slot
  <2>2. CASE head # tail
    BY <1>6, <2>1, <2>2 DEF PopReload, Fifo!vars
  <2>3. CASE head = tail
    <3>1. Contents = <<>>
      BY SMTT(30), <1>6, <2>3 DEF PopReload, Contents, Count, Dist, IInv, TypeOK
    <3> QED
      BY <1>6, <2>1, <2>3, <3>1 DEF PopReload, Fifo!Next, Fifo!PopFalse
  <2> QED
    BY <2>2, <2>3
<1>7. CASE PopRead
  <2>1. Count >= 1 /\ Count' = Count
    BY <1>7, DistType
       DEF PopRead, IInv, TypeOK, CursorsConservative, Count
  <2>2. Contents # <<>> /\ Head(Contents) = data[head]
    <3>1. Len(Contents) = Count /\ Contents[1] = data[Slot(0)]
      BY <1>0, <1>7, <2>1, SlotProperties DEF ContentsOK, PopRead
    <3>2. Contents # <<>>
      BY <2>1, <3>1, SlotProperties, EmptySeq
    <3> QED
      BY <1>0, <3>1, <3>2, SlotProperties DEF ContentsOK
  <2>3. Contents' = Tail(Contents)
    <3>1. /\ Tail(Contents) \in Seq(Vals)
          /\ Len(Tail(Contents)) = Len(Contents) - 1
          /\ \A k \in 1 .. Len(Tail(Contents)) :
                Tail(Contents)[k] = Contents[k + 1]
      BY <1>0, <2>2, HeadTailProperties DEF ContentsOK
    <3>2. Len(Contents) = Count /\ Len(Contents') = Count - 1
      BY <1>0, <1>7, <2>1 DEF PopRead, ContentsOK
    <3>3. \A k \in 1 .. Count - 1 : Contents'[k] = Contents[k + 1]
      <4> SUFFICES ASSUME NEW k \in 1 .. Count - 1
                   PROVE  Contents'[k] = Contents[k + 1]
        OBVIOUS
      <4>1. Count \in Nat /\ k + 1 \in 1 .. Count
        BY SlotProperties
      <4>2. Contents[k + 1] = data[Slot(k)]
        BY <1>0, <1>7, <3>2, <4>1 DEF PopRead, ContentsOK
      <4>3. Contents'[k] = data[Slot(k)]
        BY <1>0, <1>7, <3>2 DEF PopRead, ContentsOK, Slot
      <4> QED
        BY <4>2, <4>3
    <3> QED
      BY <1>0, <3>1, <3>2, <3>3, SeqEqual DEF ContentsOK
  <2> QED
    BY <1>7, <2>2, <2>3 DEF PopRead, Fifo!Next, Fifo!Take
<1>8. CASE PopRelease
  <2>1. Count >= 1 /\ Count' = Count - 1
    <3>1. head # tail
      BY <1>8, DistType DEF PopRelease, IInv, TypeOK, CursorsConservative, Count
    <3> QED
      BY <1>8, <3>1, DistType, DistStep DEF PopRelease, IInv, TypeOK, Count
  <2>2. \A k \in 1 .. Count - 1 : Slot(k - 1)' = Slot(k)
    BY <1>8, <2>1, SlotProperties, QueueAssumption
       DEF PopRelease, Slot, MaskInc, IInv, TypeOK, Slots
  <2>3. Contents' = Contents
    <3>1. Len(Contents) = Count - 1 /\ Len(Contents') = Count - 1
      BY <1>0, <1>8, <2>1 DEF PopRelease, ContentsOK
    <3>2. \A k \in 1 .. Count - 1 : Contents'[k] = Contents[k]
      BY <1>0, <1>8, <2>2, <3>1 DEF PopRelease, ContentsOK
    <3> QED
      BY <1>0, <3>1, <3>2, SeqEqual DEF ContentsOK
  <2> QED
    BY <1>8, <2>3 DEF PopRelease, Fifo!Next, Fifo!PopTrue
<1>9. CASE UNCHANGED vars
  BY <1>9 DEF vars, Fifo!vars, Contents, Count, Slot
<1> QED
  BY <1>1, <1>2, <1>3, <1>4, <1>5, <1>6, <1>7, <1>8, <1>9 DEF Next, Fifo!Next

(* For every ring size and every set of items, the ring is a bounded FIFO: *)
(* each item pushed is popped once, in order, untorn; a push fails only on *)
(* a full queue and a pop only on an empty one.                            *)
THEOREM Refinement == Spec => RefinesFifo
BY InitRefines, StepRefines, IInvInvariant, PTL DEF Spec, RefinesFifo, Fifo!Spec
=============================================================================

---------------------------- MODULE LibraryProofs ----------------------------
(***************************************************************************)
(* Proofs about what a plug-in shows its user through the library: first   *)
(* RealtimeHandoff, the queue out of the audio thread, for every capacity  *)
(* and payload type; then ClapWebviewGui and the bridge under it, for      *)
(* every setting, every size of a message and every bound.  The two share  *)
(* no state, and each theorem is about the specification it names.         *)
(***************************************************************************)
EXTENDS RealtimeHandoff, ClapWebviewGui, SequenceTheorems, WellFoundedInduction, TLAPS

-----------------------------------------------------------------------------
(* RealtimeHandoff. *)

(***************************************************************************)
(* Going round the ring from the producer's view of readIndex one meets    *)
(* readIndex, the consumer's view of writeIndex, and writeIndex, in this   *)
(* order and within one round.                                             *)
(***************************************************************************)
RingOrder ==
  Dist(seenRead, readIndex) + Dist(readIndex, seenWrite) + Dist(seenWrite, writeIndex)
    = Dist(seenRead, writeIndex)

\* A producer inside tryPush() has seen a free slot.
ProducerHasRoom ==
  /\ producer.pc \in {"write", "publish"} => Increment(writeIndex) # seenRead
  /\ producer.pc = "publish" => slots[writeIndex] = producer.item

\* A consumer inside tryPop() has seen an item.
ConsumerHasItem ==
  /\ consumer.pc \in {"read", "publish"} => readIndex # seenWrite
  /\ consumer.pc = "publish" => consumer.item = slots[readIndex]

RingIInv == TypeOK /\ RingOrder /\ ProducerHasRoom /\ ConsumerHasItem

-----------------------------------------------------------------------------
(* Arithmetic of the ring. *)

\* The distance between two indices is an index, zero only between equal ones.
LEMMA DistType ==
  ASSUME NEW a \in Index, NEW b \in Index
  PROVE  Dist(a, b) \in Index /\ (Dist(a, b) = 0 <=> a = b)
  BY HandoffAssumption DEF Dist, Index

\* One increment moves an index one step further.
LEMMA DistStep ==
  ASSUME NEW a \in Index, NEW b \in Index
  PROVE  /\ Increment(b) \in Index
         /\ Increment(b) # a => Dist(a, Increment(b)) = Dist(a, b) + 1
         /\ Increment(b) = a => Dist(a, b) = Capacity - 1
         /\ a # b => Dist(Increment(a), b) = Dist(a, b) - 1
  BY HandoffAssumption DEF Dist, Increment, Index

\* A stop between a and c divides the way from a to c.
LEMMA DistSplit ==
  ASSUME NEW a \in Index, NEW b \in Index, NEW c \in Index,
         Dist(a, b) <= Dist(a, c)
  PROVE  Dist(a, b) + Dist(b, c) = Dist(a, c)
  BY HandoffAssumption DEF Dist, Index

-----------------------------------------------------------------------------
LEMMA InitRingIInv == Init => RingIInv
  BY HandoffAssumption
  DEF Init, RingIInv, TypeOK, RingOrder, ProducerHasRoom, ConsumerHasItem, Index, Dist

LEMMA NextRingIInv == RingIInv /\ [Next]_vars => RingIInv'
<1> SUFFICES ASSUME RingIInv, [Next]_vars PROVE RingIInv'
  OBVIOUS
<1> USE HandoffAssumption DEF RingIInv, TypeOK
<1>1. ASSUME NEW v \in Items, NEW i \in Index, PushLoad(v, i) PROVE RingIInv'
  <2>1. TypeOK'
    BY <1>1 DEF PushLoad
  <2>2. RingOrder'
    BY <1>1 DEF PushLoad, Loadable, RingOrder, Dist, Index
  <2>3. ProducerHasRoom'
    BY <1>1 DEF PushLoad, ProducerHasRoom
  <2>4. ConsumerHasItem'
    BY <1>1 DEF PushLoad, ConsumerHasItem
  <2> QED BY <2>1, <2>2, <2>3, <2>4
<1>2. CASE PushWrite
  <2>1. TypeOK'
    BY <1>2 DEF PushWrite
  <2>2. RingOrder'
    BY <1>2 DEF PushWrite, RingOrder, Dist
  <2>3. ProducerHasRoom'
    BY <1>2 DEF PushWrite, ProducerHasRoom
  <2>4. ConsumerHasItem'
    \* The slot written is not the one the consumer has read.
    BY <1>2 DEF PushWrite, ConsumerHasItem, RingOrder, ProducerHasRoom, Dist, Index, Increment
  <2> QED BY <2>1, <2>2, <2>3, <2>4
<1>3. CASE PushPublish
  <2>1. TypeOK'
    BY <1>3 DEF PushPublish, Increment, Index
  <2>2. RingOrder'
    <3>0. /\ Dist(seenRead, readIndex) \in Index /\ Dist(readIndex, seenWrite) \in Index
          /\ Dist(seenWrite, writeIndex) \in Index /\ Dist(seenRead, writeIndex) \in Index
      BY DistType
    <3>1. Increment(writeIndex) # seenRead
      BY <1>3 DEF PushPublish, ProducerHasRoom
    <3>2. Increment(writeIndex) # seenWrite
      <4>1. SUFFICES ASSUME Increment(writeIndex) = seenWrite PROVE FALSE
        OBVIOUS
      <4>2. Dist(seenWrite, writeIndex) = Capacity - 1
        BY <4>1, DistStep
      <4>3. Dist(seenRead, readIndex) = 0 /\ Dist(readIndex, seenWrite) = 0
        BY <4>2, <3>0 DEF RingOrder, Index
      <4> QED BY <4>1, <4>3, <3>1, DistType
    <3>3. /\ Dist(seenWrite, Increment(writeIndex)) = Dist(seenWrite, writeIndex) + 1
          /\ Dist(seenRead, Increment(writeIndex)) = Dist(seenRead, writeIndex) + 1
      BY <3>1, <3>2, DistStep
    <3>5. RingOrder' <=> Dist(seenRead, readIndex) + Dist(readIndex, seenWrite)
                           + Dist(seenWrite, Increment(writeIndex))
                         = Dist(seenRead, Increment(writeIndex))
      BY <1>3 DEF PushPublish, RingOrder, Dist
    <3> QED BY <3>0, <3>3, <3>5 DEF RingOrder, Index
  <2>3. ProducerHasRoom'
    BY <1>3 DEF PushPublish, ProducerHasRoom
  <2>4. ConsumerHasItem'
    BY <1>3 DEF PushPublish, ConsumerHasItem
  <2> QED BY <2>1, <2>2, <2>3, <2>4
<1>4. ASSUME NEW i \in Index, PopLoad(i) PROVE RingIInv'
  <2>1. TypeOK'
    BY <1>4 DEF PopLoad
  <2>2. RingOrder'
    <3>1. Dist(seenWrite, i) + Dist(i, writeIndex) = Dist(seenWrite, writeIndex)
      BY <1>4, DistSplit DEF PopLoad, Loadable
    <3>2. /\ Dist(seenRead, readIndex) \in Index /\ Dist(readIndex, seenWrite) \in Index
          /\ Dist(seenWrite, i) \in Index /\ Dist(i, writeIndex) \in Index
          /\ Dist(seenRead, writeIndex) \in Index /\ Dist(readIndex, i) \in Index
      BY DistType
    <3>3. Dist(readIndex, seenWrite) + Dist(seenWrite, i) = Dist(readIndex, i)
      BY <3>1, <3>2, HandoffAssumption DEF RingOrder, Dist, Index
    <3>4. RingOrder' <=> Dist(seenRead, readIndex) + Dist(readIndex, i) + Dist(i, writeIndex)
                         = Dist(seenRead, writeIndex)
      BY <1>4 DEF PopLoad, RingOrder, Dist
    <3> QED BY <3>1, <3>2, <3>3, <3>4 DEF RingOrder, Index
  <2>3. ProducerHasRoom'
    BY <1>4 DEF PopLoad, ProducerHasRoom
  <2>4. ConsumerHasItem'
    BY <1>4 DEF PopLoad, ConsumerHasItem
  <2> QED BY <2>1, <2>2, <2>3, <2>4
<1>5. CASE PopRead
  <2>1. TypeOK'
    BY <1>5 DEF PopRead
  <2>2. RingOrder'
    BY <1>5 DEF PopRead, RingOrder, Dist
  <2>3. ProducerHasRoom' /\ ConsumerHasItem'
    BY <1>5 DEF PopRead, ProducerHasRoom, ConsumerHasItem
  <2> QED BY <2>1, <2>2, <2>3
<1>6. CASE PopPublish
  <2>1. TypeOK'
    BY <1>6 DEF PopPublish, Increment, Index
  <2>2. RingOrder'
    <3>0. /\ Dist(seenRead, readIndex) \in Index /\ Dist(readIndex, seenWrite) \in Index
          /\ Dist(seenWrite, writeIndex) \in Index /\ Dist(seenRead, writeIndex) \in Index
      BY DistType
    <3>1. readIndex # seenWrite
      BY <1>6 DEF PopPublish, ConsumerHasItem
    <3>2. Increment(readIndex) # seenRead
      \* The consumer cannot have caught up with the producer's view of it.
      <4>1. SUFFICES ASSUME Increment(readIndex) = seenRead PROVE FALSE
        OBVIOUS
      <4>2. Dist(seenRead, readIndex) = Capacity - 1
        BY <4>1, DistStep
      <4>3. Dist(readIndex, seenWrite) = 0
        BY <4>2, <3>0 DEF RingOrder, Index
      <4> QED BY <3>1, <4>3, DistType
    <3>3. /\ Dist(seenRead, Increment(readIndex)) = Dist(seenRead, readIndex) + 1
          /\ Dist(Increment(readIndex), seenWrite) = Dist(readIndex, seenWrite) - 1
      BY <3>1, <3>2, DistStep
    <3>5. RingOrder' <=> Dist(seenRead, Increment(readIndex))
                           + Dist(Increment(readIndex), seenWrite)
                           + Dist(seenWrite, writeIndex) = Dist(seenRead, writeIndex)
      BY <1>6 DEF PopPublish, RingOrder, Dist
    <3> QED BY <3>0, <3>3, <3>5 DEF RingOrder, Index
  <2>3. ProducerHasRoom' /\ ConsumerHasItem'
    BY <1>6 DEF PopPublish, ProducerHasRoom, ConsumerHasItem
  <2> QED BY <2>1, <2>2, <2>3
<1>7. CASE UNCHANGED vars
  BY <1>7 DEF vars, RingOrder, ProducerHasRoom, ConsumerHasItem, Dist
<1> QED
  BY <1>1, <1>2, <1>3, <1>4, <1>5, <1>6, <1>7 DEF Next

LEMMA RingIInvAlways == Spec => []RingIInv
  BY InitRingIInv, NextRingIInv, PTL DEF Spec

(***************************************************************************)
(* Every index, slot and local of both threads keeps its type: an index    *)
(* never leaves the ring (increment(), tryPush(), tryPop()).               *)
(***************************************************************************)
THEOREM TypeCorrect == Spec => []TypeOK
<1>1. RingIInv => TypeOK
  BY DEF RingIInv
<1> QED BY <1>1, RingIInvAlways, PTL

\* A producer and a consumer at one slot would have gone round the whole ring.
LEMMA RaceFreeState == RingIInv => NoDataRace
<1> SUFFICES ASSUME RingIInv, producer.pc = "write", consumer.pc = "read", writeIndex = readIndex
             PROVE  FALSE
  BY DEF NoDataRace
<1>1. readIndex # seenWrite
  BY DEF RingIInv, ConsumerHasItem
<1>2. /\ Dist(seenRead, readIndex) \in Index /\ Dist(readIndex, seenWrite) \in Index
      /\ Dist(seenWrite, readIndex) \in Index
  BY DistType DEF RingIInv, TypeOK
<1>3. Dist(readIndex, seenWrite) + Dist(seenWrite, readIndex) = 0
  BY <1>2 DEF RingIInv, RingOrder, Index
<1>4. Dist(readIndex, seenWrite) = 0
  BY <1>2, <1>3 DEF Index
<1> QED BY <1>1, <1>4, DistType DEF RingIInv, TypeOK

(***************************************************************************)
(* The two threads never touch one slot at a time, for every capacity, so  *)
(* the payload needs no atomics of its own.                                *)
(***************************************************************************)
THEOREM RaceFree == Spec => []NoDataRace
  BY RingIInvAlways, RaceFreeState, PTL

-----------------------------------------------------------------------------
(* The ring implements the channel. *)

\* The slot k places after readIndex.
Slot(k) == IF readIndex + k - 1 < Capacity THEN readIndex + k - 1
                                           ELSE readIndex + k - 1 - Capacity

\* The occupied slots are slots, none of them the one the producer may write.
LEMMA SlotRange ==
  ASSUME RingIInv, NEW k \in 1 .. Occupancy
  PROVE  Slot(k) \in Index /\ Slot(k) # writeIndex
  BY HandoffAssumption DEF RingIInv, TypeOK, Slot, Occupancy, Dist, Index

\* The queue the ring stands for is a sequence of items, within its bound.
LEMMA ContentsSeq ==
  ASSUME RingIInv
  PROVE  /\ Contents \in Seq(Items)
         /\ Len(Contents) = Occupancy
         /\ Occupancy \in 0 .. Capacity - 1
         /\ \A k \in 1 .. Occupancy : Contents[k] = slots[Slot(k)]
<1>1. Occupancy \in 0 .. Capacity - 1
  BY DistType DEF RingIInv, TypeOK, Occupancy, Index
<1>2. \A k \in 1 .. Occupancy : slots[Slot(k)] \in Items
  BY SlotRange DEF RingIInv, TypeOK
<1>3. Contents = [k \in 1 .. Occupancy |-> slots[Slot(k)]]
  BY DEF Contents, Slot
<1>4. Contents \in [1 .. Occupancy -> Items]
  BY <1>2, <1>3
<1>5. Occupancy \in Nat
  BY <1>1, HandoffAssumption
<1>6. Contents \in Seq(Items) /\ Len(Contents) = Occupancy
  BY <1>4, <1>5, <1>3
<1> QED BY <1>1, <1>3, <1>6

\* Where the ring's readings do not change, neither does the channel.
LEMMA SameContents ==
  ASSUME RingIInv, UNCHANGED <<readIndex, writeIndex>>,
         \A k \in 1 .. Occupancy : slots'[Slot(k)] = slots[Slot(k)]
  PROVE  Contents' = Contents
<1>1. Contents = [k \in 1 .. Occupancy |-> slots[Slot(k)]]
  BY DEF Contents, Slot
<1>2. Contents' = [k \in 1 .. Occupancy |-> slots'[Slot(k)]]
  BY DEF Contents, Slot, Occupancy, Dist
<1> QED BY <1>1, <1>2

LEMMA InitRefines == Init => Channel!Init
<1> SUFFICES ASSUME Init PROVE Contents = << >>
  BY DEF Channel!Init, Init
<1>1. RingIInv
  BY InitRingIInv
<1>2. Contents \in Seq(Items) /\ Len(Contents) = 0
  BY <1>1, ContentsSeq DEF Init, Occupancy, Dist
<1> QED BY <1>2, EmptySeq

\* The release store of writeIndex appends the item.
LEMMA PublishRefines ==
  ASSUME RingIInv, RingIInv', PushPublish
  PROVE  Channel!Push(producer.item)
<1> USE HandoffAssumption DEF PushPublish
<1>1. Increment(writeIndex) # readIndex /\ Dist(readIndex, writeIndex) < Capacity - 1
  <2>1. Increment(writeIndex) # seenRead
    BY DEF RingIInv, ProducerHasRoom
  <2>2. /\ Dist(seenRead, readIndex) \in Index /\ Dist(readIndex, seenWrite) \in Index
        /\ Dist(seenWrite, writeIndex) \in Index /\ Dist(seenRead, writeIndex) \in Index
        /\ Dist(readIndex, writeIndex) \in Index
    BY DistType DEF RingIInv, TypeOK
  <2>3. Dist(seenRead, readIndex) + Dist(readIndex, writeIndex) = Dist(seenRead, writeIndex)
    <3>1. Dist(seenRead, readIndex) <= Dist(seenRead, writeIndex)
      BY <2>2 DEF RingIInv, RingOrder, Index
    <3> QED BY <3>1, DistSplit DEF RingIInv, TypeOK
  <2>4. Dist(seenRead, writeIndex) < Capacity - 1
    BY <2>1 DEF RingIInv, TypeOK, Dist, Increment, Index
  <2>5. Dist(readIndex, writeIndex) < Capacity - 1
    BY <2>2, <2>3, <2>4 DEF Index
  <2>6. Increment(writeIndex) # readIndex
    BY <2>5, DistStep DEF RingIInv, TypeOK, Index
  <2> QED BY <2>5, <2>6
<1>2. Occupancy' = Occupancy + 1
  BY <1>1, DistStep DEF RingIInv, TypeOK, Occupancy, Dist
<1>3. /\ Contents \in Seq(Items) /\ Len(Contents) = Occupancy
      /\ Occupancy \in 0 .. Capacity - 1
      /\ \A k \in 1 .. Occupancy : Contents[k] = slots[Slot(k)]
  BY ContentsSeq
<1>4. Contents' = [k \in 1 .. Occupancy + 1 |-> slots[Slot(k)]]
  BY <1>2 DEF Contents, Slot
<1>5. Slot(Occupancy + 1) = writeIndex
  BY DEF Slot, Occupancy, Dist, RingIInv, TypeOK, Index
<1>6. slots[writeIndex] = producer.item /\ producer.item \in Items
  BY DEF RingIInv, TypeOK, ProducerHasRoom
<1>7. Append(Contents, producer.item)
        = [k \in 1 .. Occupancy + 1 |-> IF k = Occupancy + 1 THEN producer.item ELSE Contents[k]]
  BY <1>3, <1>6
<1>8. \A k \in 1 .. Occupancy + 1 :
        slots[Slot(k)] = IF k = Occupancy + 1 THEN producer.item ELSE Contents[k]
  BY <1>3, <1>5, <1>6
<1>9. Contents' = Append(Contents, producer.item)
  BY <1>4, <1>7, <1>8
<1>10. Len(Contents) < Capacity - 1
  BY <1>1, <1>3 DEF Occupancy
<1> QED BY <1>9, <1>10 DEF Channel!Push

\* The release store of readIndex takes the head.
LEMMA TakeRefines ==
  ASSUME RingIInv, RingIInv', PopPublish
  PROVE  Channel!Pop
<1> USE HandoffAssumption DEF PopPublish
<1>1. readIndex # writeIndex
  <2>1. readIndex # seenWrite
    BY DEF RingIInv, ConsumerHasItem
  <2>2. /\ Dist(seenRead, readIndex) \in Index /\ Dist(readIndex, seenWrite) \in Index
        /\ Dist(seenWrite, writeIndex) \in Index
    BY DistType DEF RingIInv, TypeOK
  <2>3. Dist(readIndex, seenWrite) # 0
    BY <2>1, DistType DEF RingIInv, TypeOK
  <2> QED BY <2>2, <2>3 DEF RingIInv, RingOrder, Index
<1>2. Occupancy' = Occupancy - 1
  BY <1>1, DistStep DEF RingIInv, TypeOK, Occupancy, Dist
<1>3. /\ Contents \in Seq(Items) /\ Len(Contents) = Occupancy
      /\ Occupancy \in 0 .. Capacity - 1
      /\ \A k \in 1 .. Occupancy : Contents[k] = slots[Slot(k)]
  BY ContentsSeq
<1>4. Occupancy # 0
  BY <1>1, DistType DEF Occupancy, RingIInv, TypeOK
<1>5. Contents # << >> /\ Len(Contents) > 0
  BY <1>3, <1>4, EmptySeq
<1>6. Slot(1) = readIndex
  BY DEF Slot, RingIInv, TypeOK, Index
<1>7. received' = Head(Contents)
  <2>1. Contents[1] = slots[readIndex]
    BY <1>3, <1>4, <1>6
  <2>2. consumer.item = slots[readIndex]
    BY DEF RingIInv, ConsumerHasItem
  <2> QED BY <2>1, <2>2, <1>5
<1>8. ASSUME NEW k \in 1 .. Occupancy - 1 PROVE Slot(k)' = Slot(k + 1)
  <2>1. readIndex \in 0 .. Capacity - 1 /\ k \in Nat /\ k >= 1 /\ k <= Capacity - 2
    BY <1>3 DEF RingIInv, TypeOK, Index
  <2>2. readIndex' = IF readIndex + 1 = Capacity THEN 0 ELSE readIndex + 1
    BY DEF Increment
  <2>3. Slot(k)' = IF readIndex' + k - 1 < Capacity THEN readIndex' + k - 1
                                                    ELSE readIndex' + k - 1 - Capacity
    BY DEF Slot
  <2>4. Slot(k + 1) = IF readIndex + k < Capacity THEN readIndex + k
                                                  ELSE readIndex + k - Capacity
    BY <2>1 DEF Slot
  <2> QED BY <2>1, <2>2, <2>3, <2>4
<1>9. Contents' = [k \in 1 .. Occupancy - 1 |-> slots[Slot(k + 1)]]
  <2>1. Contents' = [k \in 1 .. Occupancy - 1 |-> slots[Slot(k)']]
    BY <1>2 DEF Contents, Slot
  <2> QED BY <2>1, <1>8
<1>10. /\ Tail(Contents) \in Seq(Items)
       /\ Len(Tail(Contents)) = Occupancy - 1
       /\ \A k \in 1 .. Occupancy - 1 : Tail(Contents)[k] = Contents[k + 1]
  BY <1>3, <1>5, HeadTailProperties
<1>11. \A k \in 1 .. Occupancy - 1 : Contents[k + 1] = slots[Slot(k + 1)]
  BY <1>3
<1>12. Contents' = Tail(Contents)
  <2>1. \A k \in 1 .. Occupancy - 1 : slots[Slot(k + 1)] \in Items
    BY <1>3, SlotRange DEF RingIInv, TypeOK
  <2>2. Occupancy - 1 \in Nat
    BY <1>3, <1>4
  <2>3. Contents' \in Seq(Items) /\ Len(Contents') = Occupancy - 1
    BY <1>9, <2>1, <2>2
  <2>4. \A k \in 1 .. Occupancy - 1 : Contents'[k] = Tail(Contents)[k]
    BY <1>9, <1>10, <1>11
  <2> QED BY <1>10, <2>3, <2>4, SeqEqual
<1> QED BY <1>5, <1>7, <1>12 DEF Channel!Pop

LEMMA StepRefines == RingIInv /\ RingIInv' /\ [Next]_vars => [Channel!Next]_Channel!vars
<1> SUFFICES ASSUME RingIInv, RingIInv', [Next]_vars PROVE [Channel!Next]_Channel!vars
  OBVIOUS
<1> USE DEF Channel!vars
<1>1. ASSUME NEW v \in Items, NEW i \in Index, PushLoad(v, i) PROVE UNCHANGED Channel!vars
  <2>1. UNCHANGED <<slots, readIndex, writeIndex, received>>
    BY <1>1 DEF PushLoad
  <2> QED BY <2>1, SameContents
<1>2. ASSUME PushWrite PROVE UNCHANGED Channel!vars
  <2>1. \A k \in 1 .. Occupancy : slots'[Slot(k)] = slots[Slot(k)]
    BY <1>2, SlotRange DEF PushWrite, RingIInv, TypeOK
  <2> QED BY <1>2, <2>1, SameContents DEF PushWrite
<1>3. ASSUME PushPublish PROVE Channel!Next
  <2>1. producer.item \in Items
    BY DEF RingIInv, TypeOK
  <2> QED BY <1>3, <2>1, PublishRefines DEF Channel!Next
<1>4. ASSUME NEW i \in Index, PopLoad(i) PROVE UNCHANGED Channel!vars
  <2>1. UNCHANGED <<slots, readIndex, writeIndex, received>>
    BY <1>4 DEF PopLoad
  <2> QED BY <2>1, SameContents
<1>5. ASSUME PopRead PROVE UNCHANGED Channel!vars
  BY <1>5, SameContents DEF PopRead
<1>6. ASSUME PopPublish PROVE Channel!Next
  BY <1>6, TakeRefines DEF Channel!Next
<1>7. ASSUME UNCHANGED vars PROVE UNCHANGED Channel!vars
  BY <1>7, SameContents DEF vars
<1> QED
  BY <1>1, <1>2, <1>3, <1>4, <1>5, <1>6, <1>7 DEF Next

(***************************************************************************)
(* For every capacity and payload type, a RealtimeToUiQueue is a first-in  *)
(* first-out channel of Capacity - 1 items.                                *)
(***************************************************************************)
THEOREM Implements == Spec => IsHandoff
  BY RingIInvAlways, InitRefines, StepRefines, PTL DEF Spec, IsHandoff, Channel!Spec

-----------------------------------------------------------------------------
(* ClapWebviewGui and WebviewBridge. *)

(* Induction over the natural numbers, for sets. *)

LessThan == {pair \in Nat \X Nat : pair[1] < pair[2]}

\* A set of natural numbers that holds 0 and the successor of each it holds is all of them.
LEMMA InductiveSet ==
  ASSUME NEW S, 0 \in S, \A n \in Nat : n \in S => n + 1 \in S
  PROVE  \A n \in Nat : n \in S
<1>1. SUFFICES ASSUME Nat \ S # {} PROVE FALSE
  OBVIOUS
<1>2. IsWellFoundedOn(LessThan, Nat)
  BY NatLessThanWellFounded DEF OpToRel, LessThan
<1>3. PICK n \in Nat \ S : \A m \in Nat \ S : ~ (m < n)
  <2>1. PICK n \in Nat \ S : \A m \in Nat \ S : <<m, n>> \notin LessThan
    BY <1>1, <1>2, WFMin
  <2> QED BY <2>1 DEF LessThan
<1>4. n # 0 /\ n - 1 \in Nat /\ n - 1 \in S
  BY <1>3
<1> QED BY <1>3, <1>4

-----------------------------------------------------------------------------
(* The count of the bytes in a queue. *)

Message == [number : Nat, size : Nat]

Bytes(queue) == FoldLeft(LAMBDA bytes, message : bytes + message.size, 0, queue)

\* The function FoldLeft is defined by: it counts the messages at a set of positions.
Counts(count, queue, n) ==
  count = [s \in SUBSET (1 .. n) |->
             IF s = {} THEN 0 ELSE count[s \ {Max(s)}] + queue[Max(s)].size]

LEMMA BytesByCounts ==
  ASSUME NEW queue \in Seq(Message)
  PROVE  Bytes(queue) = (CHOOSE count : Counts(count, queue, Len(queue)))[1 .. Len(queue)]
<1>1. DOMAIN queue = 1 .. Len(queue)
  BY LenProperties
<1> QED BY <1>1 DEF Bytes, Counts, FoldLeft, MapThenFoldSet

LEMMA MaxIsLast ==
  ASSUME NEW n \in Nat, NEW s \in SUBSET (1 .. n), n \in s
  PROVE  Max(s) = n
<1>1. \A x \in s : (\A y \in s : x >= y) <=> x = n
  OBVIOUS
<1>2. Max(s) \in s /\ \A y \in s : Max(s) >= y
  BY <1>1 DEF Max
<1> QED BY <1>1, <1>2

LEMMA UpToNext ==
  ASSUME NEW n \in Nat
  PROVE  /\ n + 1 \in 1 .. n + 1 /\ 1 .. n + 1 # {}
         /\ (1 .. n + 1) \ {n + 1} = 1 .. n
         /\ \A m \in Nat : n < m => 1 .. n + 1 \in SUBSET (1 .. m)
<1>1. n + 1 \in 1 .. n + 1
  OBVIOUS
<1>2. \A i : i \in (1 .. n + 1) \ {n + 1} <=> i \in 1 .. n
  OBVIOUS
<1>3. ASSUME NEW m \in Nat, n < m PROVE \A i \in 1 .. n + 1 : i \in 1 .. m
  BY <1>3
<1> QED BY <1>1, <1>2, <1>3

\* Such a function there is, for every number of messages.
LEMMA CountsExists ==
  ASSUME NEW queue, NEW n \in Nat
  PROVE  \E count : Counts(count, queue, n)
<1> DEFINE S == {k \in Nat : \E count : Counts(count, queue, k)}
<1>1. 0 \in S
  <2> DEFINE c == [s \in SUBSET (1 .. 0) |-> 0]
  <2>1. 1 .. 0 = {}
    OBVIOUS
  <2>2. Counts(c, queue, 0)
    BY <2>1 DEF Counts
  <2> QED BY <2>2
<1>2. ASSUME NEW k \in Nat, k \in S PROVE k + 1 \in S
  <2>1. PICK c : Counts(c, queue, k)
    BY <1>2
  <2> DEFINE d == [s \in SUBSET (1 .. k + 1) |->
                     IF k + 1 \in s THEN c[s \ {k + 1}] + queue[k + 1].size ELSE c[s]]
  <2>2. ASSUME NEW s \in SUBSET (1 .. k + 1)
        PROVE  d[s] = IF s = {} THEN 0 ELSE d[s \ {Max(s)}] + queue[Max(s)].size
    <3>1. CASE k + 1 \in s
      <4>1. Max(s) = k + 1
        BY <3>1, MaxIsLast
      <4>2. s \ {k + 1} \in SUBSET (1 .. k) /\ k + 1 \notin s \ {k + 1}
        OBVIOUS
      <4> QED BY <3>1, <4>1, <4>2
    <3>2. CASE k + 1 \notin s
      <4>1. s \in SUBSET (1 .. k) /\ s \ {Max(s)} \in SUBSET (1 .. k)
        <5>1. \A i \in s : i \in 1 .. k
          BY <3>2
        <5> QED BY <5>1
      <4>2. c[s] = IF s = {} THEN 0 ELSE c[s \ {Max(s)}] + queue[Max(s)].size
        BY <2>1, <4>1 DEF Counts
      <4> QED BY <3>2, <4>1, <4>2
    <3> QED BY <3>1, <3>2
  <2>3. Counts(d, queue, k + 1)
    BY <2>2 DEF Counts
  <2> QED BY <2>3
<1> HIDE DEF S
<1>3. n \in S
  BY <1>1, <1>2, InductiveSet
<1> QED BY <1>3 DEF S

\* An appended message adds its size.
LEMMA BytesAppend ==
  ASSUME NEW queue \in Seq(Message), NEW message \in Message
  PROVE  Bytes(Append(queue, message)) = Bytes(queue) + message.size
<1> DEFINE more == Append(queue, message)
           n == Len(queue)
           c == CHOOSE count : Counts(count, queue, n)
           d == CHOOSE count : Counts(count, more, n + 1)
<1>1. /\ n \in Nat /\ Len(more) = n + 1 /\ more \in Seq(Message)
      /\ \A i \in 1 .. n : more[i] = queue[i]
      /\ more[n + 1] = message
  BY LenProperties, AppendProperties
<1>2. Counts(c, queue, n)
  BY <1>1, CountsExists
<1>3. Counts(d, more, n + 1)
  BY <1>1, CountsExists
<1> DEFINE S == {k \in Nat : k <= n => c[1 .. k] = d[1 .. k]}
<1> HIDE DEF more, n, c, d
<1>4. 0 \in S
  <2>1. 1 .. 0 = {} /\ {} \in SUBSET (1 .. n) /\ {} \in SUBSET (1 .. n + 1)
    OBVIOUS
  <2> QED BY <1>2, <1>3, <2>1 DEF Counts
<1>5. ASSUME NEW k \in Nat, k \in S PROVE k + 1 \in S
  <2>1. SUFFICES ASSUME k + 1 <= n PROVE c[1 .. k + 1] = d[1 .. k + 1]
    OBVIOUS
  <2>2. /\ 1 .. k + 1 \in SUBSET (1 .. n) /\ 1 .. k + 1 \in SUBSET (1 .. n + 1)
        /\ 1 .. k + 1 # {} /\ k + 1 \in 1 .. k + 1 /\ (1 .. k + 1) \ {k + 1} = 1 .. k
    <3>1. n + 1 \in Nat /\ k < n /\ k < n + 1
      BY <1>1, <2>1
    <3> QED BY <1>1, <3>1, UpToNext
  <2>3. Max(1 .. k + 1) = k + 1
    BY <2>2, MaxIsLast
  <2>4. c[1 .. k + 1] = c[1 .. k] + queue[k + 1].size
    BY <1>2, <2>2, <2>3 DEF Counts
  <2>5. d[1 .. k + 1] = d[1 .. k] + more[k + 1].size
    BY <1>3, <2>2, <2>3 DEF Counts
  <2> QED BY <1>1, <1>5, <2>1, <2>4, <2>5
<1>6. c[1 .. n] = d[1 .. n]
  <2> HIDE DEF S
  <2>1. n \in S
    BY <1>1, <1>4, <1>5, InductiveSet
  <2> QED BY <1>1, <2>1 DEF S
<1>7. d[1 .. n + 1] = d[1 .. n] + message.size
  <2>1. /\ 1 .. n + 1 \in SUBSET (1 .. n + 1) /\ 1 .. n + 1 # {}
        /\ n + 1 \in 1 .. n + 1 /\ (1 .. n + 1) \ {n + 1} = 1 .. n
    BY <1>1, UpToNext
  <2>2. Max(1 .. n + 1) = n + 1
    BY <1>1, <2>1, MaxIsLast
  <2>3. d[1 .. n + 1] = d[(1 .. n + 1) \ {n + 1}] + more[n + 1].size
    BY <1>3, <2>1, <2>2 DEF Counts
  <2> QED BY <1>1, <2>1, <2>3
<1> QED BY <1>1, <1>6, <1>7, BytesByCounts DEF more, n, c, d

LEMMA BytesEmpty == Bytes(<<>>) = 0
<1>1. <<>> \in Seq(Message) /\ Len(<<>>) = 0 /\ 1 .. 0 = {}
  BY EmptySeq
<1> DEFINE c == CHOOSE count : Counts(count, <<>>, 0)
<1>2. Counts(c, <<>>, 0)
  BY CountsExists
<1> HIDE DEF c
<1>3. c[{}] = 0
  BY <1>2 DEF Counts
<1> QED BY <1>1, <1>3, BytesByCounts DEF c

-----------------------------------------------------------------------------
(* What is on its way to the page: the scripts first, then what waits.     *)

Outgoing == scripts \o pendingBridgeMessages

BridgeType ==
  /\ bridgeReady \in BOOLEAN
  /\ pendingBridgeMessages \in Seq(Message) /\ scripts \in Seq(Message)
  /\ pendingBridgeEncodedBytes \in Nat
  /\ sent \in Nat /\ dispatched \in SUBSET Nat

\* The page has dispatched nothing of what is, or will be, on its way to it.
OutgoingInOrder ==
  /\ \A i, j \in 1 .. Len(Outgoing) : i < j => Outgoing[i].number < Outgoing[j].number
  /\ \A i \in 1 .. Len(Outgoing) :
       Outgoing[i].number <= sent /\ \A n \in dispatched : n < Outgoing[i].number
  /\ \A n \in dispatched : n <= sent

GuiIInv ==
  /\ BridgeType /\ OutgoingInOrder
  /\ QueueAccounting
  /\ PageIsFound
  /\ ShownAtItsSize

\* What the steps do to the queue and the scripts: nothing, lose them with the view,
\* take a message, or let the page take what is theirs.
queueVars == <<bridgeReady, pendingBridgeMessages, pendingBridgeEncodedBytes, scripts, sent,
               dispatched>>

Lose ==
  /\ bridgeReady' = FALSE
  /\ pendingBridgeMessages' = <<>> /\ pendingBridgeEncodedBytes' = 0
  /\ scripts' = <<>> /\ dispatched' = {}
  /\ UNCHANGED sent

Take ==
  /\ sent' = sent + 1
  /\ \E bytes \in Sizes : Queue([number |-> sent + 1, size |-> bytes])
  /\ UNCHANGED <<bridgeReady, dispatched>>

Release ==
  /\ bridgeReady' = TRUE
  /\ scripts' = scripts \o pendingBridgeMessages
  /\ pendingBridgeMessages' = <<>> /\ pendingBridgeEncodedBytes' = 0
  /\ UNCHANGED <<sent, dispatched>>

Run ==
  /\ scripts # <<>>
  /\ scripts' = Tail(scripts)
  /\ dispatched' \in {dispatched, dispatched \cup {Head(scripts).number}}
  /\ UNCHANGED <<bridgeReady, pendingBridgeMessages, pendingBridgeEncodedBytes, sent>>

LEMMA DestroyGuiQueue == DestroyGui => Lose \/ UNCHANGED queueVars
  BY DEF DestroyGui, Destroy, Lose, bridgeVars, queueVars

LEMMA QueueSteps ==
  [ClapNext]_clapVars => UNCHANGED queueVars \/ Lose \/ Take \/ Release \/ Run
<1> SUFFICES ASSUME [ClapNext]_clapVars
             PROVE  UNCHANGED queueVars \/ Lose \/ Take \/ Release \/ Run
  OBVIOUS
<1> USE DEF queueVars
<1>1. CASE ProxyInit \/ Reinitialise \/ ProxyDestroy \/ GuiDestroy
  BY <1>1, DestroyGuiQueue DEF ProxyInit, Reinitialise, ProxyDestroy, GuiDestroy
<1>2. CASE GetPreferredApi \/ CreateOnHost
  BY <1>2 DEF GetPreferredApi, CreateOnHost, UnchangedView, bridgeVars
<1>3. CASE CreateNative
  BY <1>3 DEF CreateNative, Create, bridgeVars
<1>4. CASE SetParent \/ \E newSize \in Dimensions : SetSize(newSize)
  BY <1>4 DEF SetSize, SetParent, bridgeVars
<1>5. CASE \E bytes \in Sizes : PluginSend(bytes)
  BY <1>5 DEF PluginSend, Alone, Send, Take
<1>6. CASE HostReceive
  BY <1>6 DEF HostReceive
<1>7. CASE HandleDevices
  <2>1. CASE SendSnapshot
    BY <1>7, <2>1 DEF HandleDevices, SendSnapshot, Take
  <2>2. CASE NoSnapshot
    BY <1>7, <2>2 DEF HandleDevices, NoSnapshot
  <2> QED BY <1>7, <2>1, <2>2 DEF HandleDevices
<1>8. CASE Request \/ Alone(Bootstrap) \/ Alone(Post("receive"))
             \/ \E configuration \in Configurations : Choose(configuration)
  BY <1>8 DEF Request, Choose, Alone, Post, Bootstrap, UnchangedNative, native
<1>9. CASE AcceptScript
  BY <1>9 DEF AcceptScript, RunScript, UnchangedNative, native, Run
<1>10. CASE ReloadPage
  BY <1>10 DEF ReloadPage, Reload, UnchangedNative, native
<1>11. CASE Alone(HandleReady)
  BY <1>11 DEF Alone, HandleReady, Release
<1>12. CASE Alone(HandleReceive) \/ Alone(ReceiveReturns)
  BY <1>12 DEF Alone, HandleReceive, ReceiveReturns
<1>13. CASE UNCHANGED clapVars
  BY <1>13 DEF clapVars, bridgeVars
<1> QED BY <1>1, <1>2, <1>3, <1>4, <1>5, <1>6, <1>7, <1>8, <1>9, <1>10, <1>11, <1>12, <1>13
        DEF ClapNext

-----------------------------------------------------------------------------
LEMMA BoundsAreNat == MaxQueued \in Nat /\ MaxBytes \in Nat /\ Sizes \subseteq Nat
  BY BridgeAssumption

\* A message taken goes behind all that is on its way.
LEMMA TakeAppends ==
  ASSUME BridgeType, QueueAccounting, Take
  PROVE  /\ BridgeType'
         /\ \/ Outgoing' = Outgoing
            \/ \E message \in Message :
                 message.number = sent + 1 /\ Outgoing' = Append(Outgoing, message)
<1> USE DEF BridgeType
<1>1. PICK message \in Message : message.number = sent + 1 /\ Queue(message)
  <2>1. PICK bytes \in Sizes : Queue([number |-> sent + 1, size |-> bytes])
    BY DEF Take
  <2>2. [number |-> sent + 1, size |-> bytes] \in Message
    BY BoundsAreNat DEF Message
  <2> QED BY <2>1, <2>2
<1>2. message.size \in Nat
  BY DEF Message
<1>3. CASE bridgeReady
  <2>1. scripts' = Append(scripts, message) /\ pendingBridgeMessages = <<>>
        /\ UNCHANGED <<pendingBridgeMessages, pendingBridgeEncodedBytes>>
    BY <1>1, <1>3 DEF Queue, QueueAccounting
  <2>2. Outgoing = scripts /\ Outgoing' = Append(scripts, message)
    BY <2>1, ConcatEmptySeq, AppendProperties DEF Outgoing
  <2> QED BY <1>1, <2>1, <2>2, AppendProperties DEF Take
<1>4. CASE ~bridgeReady /\ CanQueue(message.size)
  <2>1. /\ pendingBridgeMessages' = Append(pendingBridgeMessages, message)
        /\ pendingBridgeEncodedBytes' = pendingBridgeEncodedBytes + message.size
        /\ UNCHANGED scripts
    BY <1>1, <1>4 DEF Queue
  <2>2. /\ Append(pendingBridgeMessages, message) = pendingBridgeMessages \o <<message>>
        /\ Append(Outgoing, message) = Outgoing \o <<message>>
        /\ Outgoing \in Seq(Message) /\ <<message>> \in Seq(Message)
    BY AppendIsConcat, ConcatProperties DEF Outgoing
  <2>3. Outgoing' = Append(Outgoing, message)
    BY <2>1, <2>2, ConcatAssociative DEF Outgoing
  <2> QED BY <1>1, <1>2, <2>1, <2>3, AppendProperties DEF Take
<1>5. CASE ~bridgeReady /\ ~CanQueue(message.size)
  <2>1. UNCHANGED <<scripts, pendingBridgeMessages, pendingBridgeEncodedBytes>>
    BY <1>1, <1>5 DEF Queue
  <2> QED BY <2>1 DEF Take, Outgoing
<1> QED BY <1>3, <1>4, <1>5

\* The page runs what is first on its way.
LEMMA RunTakesFirst ==
  ASSUME BridgeType, Run
  PROVE  /\ BridgeType'
         /\ Outgoing # <<>> /\ Outgoing' = Tail(Outgoing)
         /\ Head(scripts) = Outgoing[1]
<1> USE DEF BridgeType
<1>1. /\ Head(scripts) \in Message /\ Tail(scripts) \in Seq(Message)
      /\ Len(Tail(scripts)) = Len(scripts) - 1 /\ Len(scripts) \in Nat \ {0}
      /\ \A i \in 1 .. Len(Tail(scripts)) : Tail(scripts)[i] = scripts[i + 1]
      /\ Head(scripts) = scripts[1]
  BY HeadTailProperties, EmptySeq DEF Run
<1>2. BridgeType'
  BY <1>1 DEF Run, Message
<1>3. /\ Outgoing \in Seq(Message)
      /\ Len(Outgoing) = Len(scripts) + Len(pendingBridgeMessages)
      /\ \A i \in 1 .. Len(scripts) + Len(pendingBridgeMessages) :
           Outgoing[i] = IF i <= Len(scripts) THEN scripts[i]
                         ELSE pendingBridgeMessages[i - Len(scripts)]
  BY ConcatProperties DEF Outgoing
<1>4. /\ Outgoing' \in Seq(Message)
      /\ Len(Outgoing') = Len(scripts) - 1 + Len(pendingBridgeMessages)
      /\ \A i \in 1 .. Len(scripts) - 1 + Len(pendingBridgeMessages) :
           Outgoing'[i] = IF i <= Len(scripts) - 1 THEN Tail(scripts)[i]
                          ELSE pendingBridgeMessages[i - (Len(scripts) - 1)]
  <2>1. Outgoing' = Tail(scripts) \o pendingBridgeMessages
    BY DEF Outgoing, Run
  <2> QED BY <1>1, <2>1, ConcatProperties
<1>5. Len(pendingBridgeMessages) \in Nat
  BY LenProperties
<1>6. Outgoing # <<>>
  BY <1>1, <1>3, <1>5, EmptySeq
<1>7. /\ Tail(Outgoing) \in Seq(Message) /\ Len(Tail(Outgoing)) = Len(Outgoing) - 1
      /\ \A i \in 1 .. Len(Tail(Outgoing)) : Tail(Outgoing)[i] = Outgoing[i + 1]
  BY <1>3, <1>6, HeadTailProperties
<1>8. Outgoing' = Tail(Outgoing)
  <2>1. Len(Outgoing') = Len(Tail(Outgoing))
    BY <1>1, <1>3, <1>4, <1>5, <1>7
  <2>2. ASSUME NEW i \in 1 .. Len(Outgoing') PROVE Outgoing'[i] = Tail(Outgoing)[i]
    <3>1. CASE i <= Len(scripts) - 1
      BY <1>1, <1>3, <1>4, <1>5, <1>7, <3>1
    <3>2. CASE ~ (i <= Len(scripts) - 1)
      <4>1. /\ i + 1 \in 1 .. Len(scripts) + Len(pendingBridgeMessages)
            /\ ~ (i + 1 <= Len(scripts)) /\ i \in 1 .. Len(Tail(Outgoing))
            /\ i + 1 - Len(scripts) = i - (Len(scripts) - 1)
        BY <1>1, <1>3, <1>4, <1>5, <1>7, <3>2
      <4>2. Outgoing[i + 1] = pendingBridgeMessages[i + 1 - Len(scripts)]
        BY <1>3, <4>1
      <4>3. Outgoing'[i] = pendingBridgeMessages[i - (Len(scripts) - 1)]
        BY <1>4, <3>2
      <4> QED BY <1>7, <4>1, <4>2, <4>3
    <3> QED BY <3>1, <3>2
  <2> QED BY <1>4, <1>7, <2>1, <2>2, SeqEqual
<1> QED BY <1>1, <1>2, <1>3, <1>5, <1>6, <1>8

LEMMA OutgoingStaysInOrder ==
  ASSUME BridgeType, QueueAccounting, OutgoingInOrder, [ClapNext]_clapVars
  PROVE  BridgeType' /\ OutgoingInOrder'
<1> USE DEF BridgeType
<1>0. Outgoing \in Seq(Message) /\ Len(Outgoing) \in Nat
      /\ \A i \in 1 .. Len(Outgoing) : Outgoing[i].number \in Nat
  <2>1. Outgoing \in Seq(Message)
    BY ConcatProperties DEF Outgoing
  <2>2. \A i \in 1 .. Len(Outgoing) : Outgoing[i] \in Message
    BY <2>1, ElementOfSeq
  <2> QED BY <2>1, <2>2, LenProperties DEF Message
<1>01. sent \in Nat /\ \A n \in dispatched : n \in Nat /\ n <= sent
  BY DEF OutgoingInOrder
<1>1. CASE UNCHANGED queueVars
  BY <1>1 DEF queueVars, OutgoingInOrder, Outgoing
<1>2. CASE Lose
  <2>1. Outgoing' = <<>> /\ Len(Outgoing') = 0 /\ dispatched' = {}
    BY <1>2, ConcatEmptySeq, EmptySeq DEF Lose, Outgoing
  <2>2. BridgeType'
    BY <1>2, EmptySeq DEF Lose
  <2>3. 1 .. Len(Outgoing') = {}
    BY <2>1
  <2> QED BY <2>1, <2>2, <2>3 DEF OutgoingInOrder
<1>3. CASE Take
  <2>1. BridgeType' /\ sent' = sent + 1 /\ dispatched' = dispatched
    BY <1>3, TakeAppends DEF Take
  <2>2. CASE Outgoing' = Outgoing
    <3>1. \A i \in 1 .. Len(Outgoing) : Outgoing[i].number <= sent + 1
      BY <1>0, <1>01 DEF OutgoingInOrder
    <3>2. \A n \in dispatched : n <= sent + 1
      BY <1>01
    <3> QED BY <2>1, <2>2, <3>1, <3>2 DEF OutgoingInOrder
  <2>3. CASE \E message \in Message :
               message.number = sent + 1 /\ Outgoing' = Append(Outgoing, message)
    <3>1. PICK message \in Message :
            message.number = sent + 1 /\ Outgoing' = Append(Outgoing, message)
      BY <2>3
    <3>2. /\ Len(Outgoing') = Len(Outgoing) + 1
          /\ \A i \in 1 .. Len(Outgoing) : Outgoing'[i] = Outgoing[i]
          /\ Outgoing'[Len(Outgoing) + 1] = message
      BY <1>0, <3>1, AppendProperties
    <3>3. \A i \in 1 .. Len(Outgoing') :
            i \in 1 .. Len(Outgoing) \/ i = Len(Outgoing) + 1
      BY <1>0, <3>2
    <3>4. ASSUME NEW i \in 1 .. Len(Outgoing'), NEW j \in 1 .. Len(Outgoing'), i < j
          PROVE  Outgoing'[i].number < Outgoing'[j].number
      BY <1>0, <3>1, <3>2, <3>3, <3>4 DEF OutgoingInOrder
    <3>5. ASSUME NEW i \in 1 .. Len(Outgoing')
          PROVE  Outgoing'[i].number <= sent' /\ \A n \in dispatched' : n < Outgoing'[i].number
      <4>1. CASE i \in 1 .. Len(Outgoing)
        BY <1>0, <1>01, <2>1, <3>2, <4>1 DEF OutgoingInOrder
      <4>2. CASE i = Len(Outgoing) + 1
        BY <1>01, <2>1, <3>1, <3>2, <4>2 DEF OutgoingInOrder
      <4> QED BY <3>3, <4>1, <4>2
    <3>6. \A n \in dispatched' : n <= sent'
      BY <1>01, <2>1 DEF OutgoingInOrder
    <3> QED BY <2>1, <3>4, <3>5, <3>6 DEF OutgoingInOrder
  <2> QED BY <1>3, <2>2, <2>3, TakeAppends
<1>4. CASE Release
  <2>1. scripts' = Outgoing /\ Outgoing' = Outgoing
    BY <1>0, <1>4, ConcatEmptySeq DEF Release, Outgoing
  <2> QED BY <1>0, <1>4, <2>1, EmptySeq DEF Release, OutgoingInOrder
<1>5. CASE Run
  <2>1. /\ BridgeType' /\ Outgoing # <<>> /\ Outgoing' = Tail(Outgoing)
        /\ Head(scripts) = Outgoing[1]
    BY <1>5, RunTakesFirst
  <2>2. /\ Len(Outgoing') = Len(Outgoing) - 1 /\ 1 \in 1 .. Len(Outgoing)
        /\ \A i \in 1 .. Len(Outgoing') : Outgoing'[i] = Outgoing[i + 1]
    BY <1>0, <2>1, HeadTailProperties, EmptySeq
  <2>3. \A i \in 1 .. Len(Outgoing') : i + 1 \in 1 .. Len(Outgoing) /\ 1 < i + 1
    BY <1>0, <2>2
  <2>4. dispatched' \in {dispatched, dispatched \cup {Outgoing[1].number}} /\ sent' = sent
    BY <1>5, <2>1 DEF Run
  <2>5. ASSUME NEW i \in 1 .. Len(Outgoing'), NEW j \in 1 .. Len(Outgoing'), i < j
        PROVE  Outgoing'[i].number < Outgoing'[j].number
    BY <2>2, <2>3, <2>5 DEF OutgoingInOrder
  <2>6. ASSUME NEW i \in 1 .. Len(Outgoing')
        PROVE  Outgoing'[i].number <= sent' /\ \A n \in dispatched' : n < Outgoing'[i].number
    BY <2>2, <2>3, <2>4 DEF OutgoingInOrder
  <2>7. \A n \in dispatched' : n <= sent'
    BY <2>2, <2>4 DEF OutgoingInOrder
  <2> QED BY <2>1, <2>5, <2>6, <2>7 DEF OutgoingInOrder
<1> QED BY <1>1, <1>2, <1>3, <1>4, <1>5, QueueSteps

LEMMA AccountingByBytes ==
  QueueAccounting <=> /\ Len(pendingBridgeMessages) <= MaxQueued
                      /\ pendingBridgeEncodedBytes = Bytes(pendingBridgeMessages)
                      /\ bridgeReady => pendingBridgeMessages = <<>>
  BY Zenon DEF QueueAccounting, Bytes

LEMMA AccountingIsKept ==
  ASSUME BridgeType, QueueAccounting, [ClapNext]_clapVars
  PROVE  QueueAccounting'
<1> USE DEF BridgeType
<1> DEFINE Accounted == /\ Len(pendingBridgeMessages) <= MaxQueued
                        /\ pendingBridgeEncodedBytes = Bytes(pendingBridgeMessages)
                        /\ bridgeReady => pendingBridgeMessages = <<>>
<1>1. Accounted
  BY AccountingByBytes
<1>2. Accounted'
  <2>1. CASE UNCHANGED queueVars
    BY <1>1, <2>1 DEF queueVars
  <2>2. CASE Lose \/ Release
    <3>1. /\ pendingBridgeMessages' = <<>> /\ Len(<<>>) = 0
          /\ pendingBridgeEncodedBytes' = 0
      BY <2>2, EmptySeq DEF Lose, Release
    <3> QED BY <3>1, BytesEmpty, BoundsAreNat
  <2>3. CASE Take
    <3>1. PICK message \in Message : Queue(message) /\ bridgeReady' = bridgeReady
      <4>1. PICK bytes \in Sizes : Queue([number |-> sent + 1, size |-> bytes])
        BY <2>3 DEF Take
      <4>2. [number |-> sent + 1, size |-> bytes] \in Message
        BY BoundsAreNat DEF Message
      <4> QED BY <2>3, <4>1, <4>2 DEF Take
    <3>2. CASE UNCHANGED <<pendingBridgeMessages, pendingBridgeEncodedBytes>>
      BY <1>1, <3>1, <3>2
    <3>3. CASE /\ ~bridgeReady /\ CanQueue(message.size)
               /\ pendingBridgeMessages' = Append(pendingBridgeMessages, message)
               /\ pendingBridgeEncodedBytes' = pendingBridgeEncodedBytes + message.size
      <4>1. /\ Len(pendingBridgeMessages') = Len(pendingBridgeMessages) + 1
            /\ Len(pendingBridgeMessages) \in Nat
        BY <3>3, AppendProperties, LenProperties
      <4>2. Bytes(pendingBridgeMessages') = Bytes(pendingBridgeMessages) + message.size
        BY <3>3, BytesAppend
      <4> QED BY <1>1, <3>1, <3>3, <4>1, <4>2, BoundsAreNat DEF CanQueue
    <3> QED BY <3>1, <3>2, <3>3 DEF Queue
  <2>4. CASE Run
    BY <1>1, <2>4 DEF Run
  <2> QED BY <2>1, <2>2, <2>3, <2>4, QueueSteps
<1>3. QueueAccounting' <=> Accounted'
  BY AccountingByBytes, PTL
<1> QED BY <1>2, <1>3

-----------------------------------------------------------------------------
(* The page the helper found, and the size of what it shows. *)

LEMMA PageStaysFound ==
  ASSUME PageIsFound, [ClapNext]_clapVars
  PROVE  PageIsFound'
<1> USE DEF PageIsFound
<1>1. CASE ProxyInit \/ Reinitialise
  BY <1>1 DEF ProxyInit, Reinitialise, InitialiseCurrentIdentity
<1>2. CASE ProxyDestroy \/ GuiDestroy \/ \E newSize \in Dimensions : SetSize(newSize)
  BY <1>2 DEF ProxyDestroy, GuiDestroy, SetSize
<1>3. CASE GetPreferredApi \/ CreateOnHost
  BY <1>3 DEF GetPreferredApi, CreateOnHost, HasHostWebviewPath, NoHostWebviewPath, UnchangedView,
              ResolvePluginWebviewExtension, GetExtension, Registered
<1>4. CASE CreateNative
  BY <1>4 DEF CreateNative, ResolvePluginWebviewExtension, GetExtension, Registered
<1>5. CASE SetParent
  BY <1>5 DEF SetParent, helper
<1>6. CASE \/ \E bytes \in Sizes : PluginSend(bytes)
           \/ HostReceive \/ HandleDevices \/ Request
           \/ \E configuration \in Configurations : Choose(configuration)
           \/ AcceptScript \/ ReloadPage
           \/ Alone(HandleReady) \/ Alone(HandleReceive) \/ Alone(ReceiveReturns)
           \/ Alone(Bootstrap) \/ Alone(Post("receive"))
  <2>1. UnchangedClap
    BY <1>6 DEF PluginSend, HostReceive, HandleDevices, Request, Choose, AcceptScript, ReloadPage,
                Alone
  <2> QED BY <2>1 DEF UnchangedClap, helper
<1>7. CASE UNCHANGED clapVars
  BY <1>7 DEF clapVars, helper
<1> QED BY <1>1, <1>2, <1>3, <1>4, <1>5, <1>6, <1>7 DEF ClapNext

LEMMA ShownStaysAtItsSize ==
  ASSUME ShownAtItsSize, [ClapNext]_clapVars
  PROVE  ShownAtItsSize'
<1> USE DEF ShownAtItsSize
<1>1. CASE ProxyInit \/ Reinitialise \/ ProxyDestroy \/ GuiDestroy
  BY <1>1 DEF ProxyInit, Reinitialise, ProxyDestroy, GuiDestroy, DestroyGui
<1>2. CASE GetPreferredApi \/ CreateOnHost
  BY <1>2 DEF GetPreferredApi, CreateOnHost, UnchangedView, bridgeVars
<1>3. CASE CreateNative
  BY <1>3 DEF CreateNative, Create, bridgeVars
<1>4. CASE \E newSize \in Dimensions : SetSize(newSize)
  BY <1>4 DEF SetSize, TrySetSize, bridgeVars
<1>5. CASE SetParent
  BY <1>5 DEF SetParent, TrySetSize, bridgeVars, helper
<1>6. CASE \/ \E bytes \in Sizes : PluginSend(bytes)
           \/ HostReceive \/ HandleDevices \/ Request
           \/ \E configuration \in Configurations : Choose(configuration)
           \/ AcceptScript \/ ReloadPage
           \/ Alone(HandleReady) \/ Alone(HandleReceive) \/ Alone(ReceiveReturns)
           \/ Alone(Bootstrap) \/ Alone(Post("receive"))
  <2>1. UnchangedClap
    BY <1>6 DEF PluginSend, HostReceive, HandleDevices, Request, Choose, AcceptScript, ReloadPage,
                Alone
  <2>2. UNCHANGED alive
    BY <1>6 DEF PluginSend, HostReceive, HandleDevices, Request, Choose, AcceptScript, ReloadPage,
                Alone, Send, Post, RunScript, Reload, HandleReady, HandleReceive, ReceiveReturns,
                Bootstrap, UnchangedNative, native
  <2> QED BY <2>1, <2>2 DEF UnchangedClap, helper
<1>7. CASE UNCHANGED clapVars
  BY <1>7 DEF clapVars, bridgeVars, helper
<1> QED BY <1>1, <1>2, <1>3, <1>4, <1>5, <1>6, <1>7 DEF ClapNext

-----------------------------------------------------------------------------
LEMMA InitGuiIInv == ClapInit => GuiIInv
<1> SUFFICES ASSUME ClapInit PROVE GuiIInv
  OBVIOUS
<1>1. /\ pendingBridgeMessages = <<>> /\ scripts = <<>> /\ pendingBridgeEncodedBytes = 0
      /\ sent = 0 /\ dispatched = {} /\ bridgeReady = FALSE
  BY DEF ClapInit, BridgeInit
<1>2. BridgeType
  BY <1>1, EmptySeq DEF BridgeType
<1>3. OutgoingInOrder
  <2>1. Outgoing = <<>> /\ Len(Outgoing) = 0 /\ 1 .. 0 = {}
    BY <1>1, ConcatEmptySeq, EmptySeq DEF Outgoing
  <2> QED BY <1>1, <2>1 DEF OutgoingInOrder
<1>4. QueueAccounting
  <2>1. Len(<<>>) = 0
    BY EmptySeq
  <2> QED BY <1>1, <2>1, BytesEmpty, BoundsAreNat, AccountingByBytes
<1>5. PageIsFound /\ ShownAtItsSize
  BY DEF ClapInit, PageIsFound, ShownAtItsSize
<1> QED BY <1>2, <1>3, <1>4, <1>5 DEF GuiIInv

LEMMA NextGuiIInv == GuiIInv /\ [ClapNext]_clapVars => GuiIInv'
  BY OutgoingStaysInOrder, AccountingIsKept, PageStaysFound, ShownStaysAtItsSize DEF GuiIInv

LEMMA GuiIInvAlways == ClapSpec => []GuiIInv
  BY InitGuiIInv, NextGuiIInv, PTL DEF ClapSpec

(***************************************************************************)
(* The queue of send() (choc.h) keeps its two limits and its count, for    *)
(* every limit and every size of a message, and is empty once the page has *)
(* called _WebviewGui_ready.                                               *)
(***************************************************************************)
THEOREM QueueIsAccounted == ClapSpec => []QueueAccounting
<1>1. GuiIInv => QueueAccounting
  BY DEF GuiIInv
<1> QED BY GuiIInvAlways, <1>1, PTL

(***************************************************************************)
(* The page dispatches in the order of the calls of send(), each message   *)
(* at most once, across the release of the queue by _WebviewGui_ready.     *)
(***************************************************************************)
THEOREM DispatchIsInOrder == ClapSpec => DispatchedInOrder
<1> DEFINE Step == alive' => \A n \in dispatched' \ dispatched : \A m \in dispatched : m < n
<1>1. GuiIInv /\ [ClapNext]_clapVars => [Step]_bridgeVars
  <2> SUFFICES ASSUME GuiIInv, [ClapNext]_clapVars PROVE Step
    OBVIOUS
  <2>1. BridgeType /\ OutgoingInOrder
    BY DEF GuiIInv
  <2>2. CASE UNCHANGED queueVars \/ Lose \/ Take \/ Release
    BY <2>2 DEF queueVars, Lose, Take, Release
  <2>3. CASE Run
    <3>1. /\ Outgoing # <<>> /\ Outgoing \in Seq(Message)
          /\ dispatched' \in {dispatched, dispatched \cup {Outgoing[1].number}}
      BY <2>1, <2>3, RunTakesFirst, ConcatProperties DEF Run, BridgeType, Outgoing
    <3>2. 1 \in 1 .. Len(Outgoing)
      BY <3>1, EmptySeq
    <3> QED BY <2>1, <3>1, <3>2 DEF OutgoingInOrder
  <2> QED BY <2>2, <2>3, QueueSteps
<1> QED BY GuiIInvAlways, <1>1, PTL DEF ClapSpec, DispatchedInOrder

(***************************************************************************)
(* For every host and plug-in: ResolvePluginWebviewExtension() never keeps *)
(* the miss of an extension that was not there to be asked for yet.        *)
(***************************************************************************)
THEOREM PageIsAlwaysFound == ClapSpec => []PageIsFound
<1>1. GuiIInv => PageIsFound
  BY DEF GuiIInv
<1> QED BY GuiIInvAlways, <1>1, PTL

(***************************************************************************)
(* For every set of sizes, those a view refuses included: what set_parent()*)
(* has put into the host's window has the size get_size() reports.         *)
(***************************************************************************)
THEOREM ShownAtReportedSize == ClapSpec => []ShownAtItsSize
<1>1. GuiIInv => ShownAtItsSize
  BY DEF GuiIInv
<1> QED BY GuiIInvAlways, <1>1, PTL

=============================================================================

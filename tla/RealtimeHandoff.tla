-------------------------- MODULE RealtimeHandoff --------------------------
(***************************************************************************)
(* webview_gui::RealtimeToUiQueue: the single-producer single-consumer     *)
(* ring that carries state snapshots from the audio thread to the GUI.     *)
(*                                                                         *)
(* The indices are C++ atomics with release stores and acquire loads, the  *)
(* slots plain memory.  An acquire load may return any store that the      *)
(* loading thread has not already seen overtaken; what was written before  *)
(* the store it returns is visible.  So each side keeps the last value it  *)
(* loaded of the other's index, and a load picks one from there onwards.   *)
(* Slot accesses are steps of their own, so that a data race is a state in *)
(* which both sides are about to touch one slot.                           *)
(***************************************************************************)
EXTENDS Integers, Sequences

CONSTANTS Items,    \* the payload type T
          Default,  \* T{}
          Capacity  \* number of slots; one of them stays free

ASSUME HandoffAssumption ==
  /\ Capacity \in Nat /\ Capacity >= 2
  /\ Default \in Items

VARIABLES
  slots,
  writeIndex, readIndex,
  seenRead,   \* the value of readIndex the producer loaded last
  seenWrite,  \* the value of writeIndex the consumer loaded last
  producer,   \* where the producer is in tryPush(), and the value it pushes
  consumer,   \* where the consumer is in tryPop(), and the value it copied
  received    \* the value the last successful tryPop() handed to the caller

vars == <<slots, writeIndex, readIndex, seenRead, seenWrite, producer, consumer, received>>

Index == 0 .. Capacity - 1

TypeOK ==
  /\ slots \in [Index -> Items]
  /\ writeIndex \in Index /\ readIndex \in Index
  /\ seenRead \in Index /\ seenWrite \in Index
  /\ producer \in [pc : {"idle", "write", "publish"}, item : Items]
  /\ consumer \in [pc : {"idle", "read", "publish"}, item : Items]
  /\ received \in Items

Init ==
  /\ slots = [i \in Index |-> Default]
  /\ writeIndex = 0 /\ readIndex = 0
  /\ seenRead = 0 /\ seenWrite = 0
  /\ producer = [pc |-> "idle", item |-> Default]
  /\ consumer = [pc |-> "idle", item |-> Default]
  /\ received \in Items

-----------------------------------------------------------------------------
Increment(i) == IF i + 1 = Capacity THEN 0 ELSE i + 1

\* How many increments lead from a to b.
Dist(a, b) == IF a <= b THEN b - a ELSE b - a + Capacity

\* The stores an acquire load may return: from the one seen last to the newest.
Loadable(seen, newest) == {i \in Index : Dist(seen, i) <= Dist(seen, newest)}

-----------------------------------------------------------------------------
(* tryPush(v), on the producer's thread. *)

\* Mutant of PushLoad: tryPush() does not look whether the ring is full.
PushLoadUnchecked(v, loaded) ==
  /\ producer.pc = "idle"
  /\ loaded \in Loadable(seenRead, readIndex)
  /\ seenRead' = loaded
  /\ producer' = [pc |-> "write", item |-> v]
  /\ UNCHANGED <<slots, writeIndex, readIndex, seenWrite, consumer, received>>

PushLoad(v, loaded) ==
  /\ producer.pc = "idle"
  /\ loaded \in Loadable(seenRead, readIndex)
  /\ seenRead' = loaded
  /\ producer' = IF Increment(writeIndex) = loaded
                   THEN producer                            \* full: returns false
                   ELSE [pc |-> "write", item |-> v]
  /\ UNCHANGED <<slots, writeIndex, readIndex, seenWrite, consumer, received>>

PushWrite ==
  /\ producer.pc = "write"
  /\ slots' = [slots EXCEPT ![writeIndex] = producer.item]
  /\ producer' = [producer EXCEPT !.pc = "publish"]
  /\ UNCHANGED <<writeIndex, readIndex, seenRead, seenWrite, consumer, received>>

PushPublish ==
  /\ producer.pc = "publish"
  /\ writeIndex' = Increment(writeIndex)
  /\ producer' = [producer EXCEPT !.pc = "idle"]
  /\ UNCHANGED <<slots, readIndex, seenRead, seenWrite, consumer, received>>

(* tryPop(value), on the consumer's thread. *)

\* Mutant of PopLoad: tryPop() does not look whether the ring is empty.
PopLoadUnchecked(loaded) ==
  /\ consumer.pc = "idle"
  /\ loaded \in Loadable(seenWrite, writeIndex)
  /\ seenWrite' = loaded
  /\ consumer' = [consumer EXCEPT !.pc = "read"]
  /\ UNCHANGED <<slots, writeIndex, readIndex, seenRead, producer, received>>

PopLoad(loaded) ==
  /\ consumer.pc = "idle"
  /\ loaded \in Loadable(seenWrite, writeIndex)
  /\ seenWrite' = loaded
  /\ consumer' = IF readIndex = loaded
                   THEN consumer                            \* empty: returns false
                   ELSE [consumer EXCEPT !.pc = "read"]
  /\ UNCHANGED <<slots, writeIndex, readIndex, seenRead, producer, received>>

PopRead ==
  /\ consumer.pc = "read"
  /\ consumer' = [pc |-> "publish", item |-> slots[readIndex]]
  /\ UNCHANGED <<slots, writeIndex, readIndex, seenRead, seenWrite, producer, received>>

\* Mutant of PopPublish: tryPop() does not free the slot.
PopPublishForgets ==
  /\ consumer.pc = "publish"
  /\ received' = consumer.item
  /\ consumer' = [consumer EXCEPT !.pc = "idle"]
  /\ UNCHANGED <<slots, writeIndex, readIndex, seenRead, seenWrite, producer>>

PopPublish ==
  /\ consumer.pc = "publish"
  /\ readIndex' = Increment(readIndex)
  /\ received' = consumer.item
  /\ consumer' = [consumer EXCEPT !.pc = "idle"]
  /\ UNCHANGED <<slots, writeIndex, seenRead, seenWrite, producer>>

-----------------------------------------------------------------------------
Next ==
  \/ \E v \in Items, i \in Index : PushLoad(v, i)
  \/ PushWrite
  \/ PushPublish
  \/ \E i \in Index : PopLoad(i)
  \/ PopRead
  \/ PopPublish

Spec == Init /\ [][Next]_vars

(***************************************************************************)
(* The GUI timer polls the queue for ever, a call it has begun ends, and a *)
(* store becomes visible to a thread that keeps loading.  Nothing is       *)
(* assumed of the audio thread.                                            *)
(***************************************************************************)
Fairness ==
  /\ WF_vars(PopLoad(writeIndex))
  /\ WF_vars(PopRead)
  /\ WF_vars(PopPublish)

FairSpec == Spec /\ Fairness

-----------------------------------------------------------------------------
(***************************************************************************)
(* The two threads are never about to touch the same slot, whatever stale  *)
(* index each of them works from.                                          *)
(***************************************************************************)
NoDataRace ==
  ~(producer.pc = "write" /\ consumer.pc = "read" /\ writeIndex = readIndex)

Occupancy == Dist(readIndex, writeIndex)

\* The slots from readIndex up to writeIndex, as a sequence.
Contents ==
  [k \in 1 .. Occupancy |->
     slots[IF readIndex + k - 1 < Capacity THEN readIndex + k - 1
                                           ELSE readIndex + k - 1 - Capacity]]

Channel == INSTANCE Handoff WITH Bound <- Capacity - 1, queue <- Contents

(***************************************************************************)
(* The ring is a first-in first-out channel of Capacity - 1 items: nothing *)
(* is lost, duplicated, reordered, or torn between the two threads.        *)
(***************************************************************************)
IsHandoff == Channel!Spec

(***************************************************************************)
(* The item at the head is popped as long as the GUI polls, even if the    *)
(* audio thread stops in the middle of a push.                             *)
(***************************************************************************)
HeadIsPopped ==
  \A i \in Index : readIndex = i /\ Occupancy > 0 ~> readIndex # i

=============================================================================

-------------------------- MODULE GainBridgeProofs --------------------------
(***************************************************************************)
(* Proofs about GainBridge, for every capacity above the number of the     *)
(* parameters that have a gesture.                                         *)
(***************************************************************************)
EXTENDS GainBridge, FiniteSetTheorems, TLAPS

-----------------------------------------------------------------------------
(* The replay of commands, for any host, queue q and positions i .. k - 1. *)

Gestures(q, p, i, k) == {j \in i .. k - 1 : q[j].param = p /\ q[j].kind # "value"}

\* The gestures the host has open once it has taken command c.
Taken(gestures, c) ==
  CASE c.kind = "begin" -> gestures \cup {c.param}
    [] c.kind = "end"   -> gestures \ {c.param}
    [] OTHER            -> gestures

Opens(gestures, q, p, i, k) ==
  IF Gestures(q, p, i, k) = {} THEN p \in gestures
  ELSE \E j \in Gestures(q, p, i, k) : /\ \A x \in Gestures(q, p, i, k) : x <= j
                                       /\ q[j].kind = "begin"

\* What is pending, from the oldest command on.
PendingQueue == [k \in Nat |-> Queued(k)]

\* While drain() pops a command the host has it already.
First == IF drain.pc = "pop" THEN 1 ELSE 0

WellReplayed ==
  /\ \A k \in First .. Used - 1 :
       /\ Queued(k).kind = "begin" =>
            ~Opens(hostGesture, PendingQueue, Queued(k).param, First, k)
       /\ Queued(k).kind = "end" =>
            Opens(hostGesture, PendingQueue, Queued(k).param, First, k)
  /\ \A p \in Params :
       Opens(hostGesture, PendingQueue, p, First, Used) <=> p \in gestureOpen

PendingAreCommands == \A k \in Pending : Queued(k) \in Command

\* A command on its way into the queue still passes the checks: only drain() has
\* moved since, and it makes room.
MainHasRoom ==
  /\ FreeSlots >= Cardinality(gestureOpen)
  /\ main.pc \in {"write", "publish"} => main.command \in Command /\ Accepts(main.command)
  /\ main.pc = "publish" => commands[writeIndex] = main.command

DrainHasCommand ==
  drain.pc \in {"emit", "pop"} => HasPending /\ drain.command = commands[readIndex]

IInv == TypeOK /\ PendingAreCommands /\ MainHasRoom /\ DrainHasCommand /\ WellReplayed

-----------------------------------------------------------------------------
(* Arithmetic of the ring. *)

LEMMA SizesAreNat ==
  /\ Capacity \in Nat \ {0}
  /\ \A S \in SUBSET Params : IsFiniteSet(S) /\ Cardinality(S) \in Nat
  BY BridgeAssumption, FS_CardinalityType, FS_Subset

\* An index and a distance within one round are taken modulo by one subtraction.
LEMMA Round ==
  ASSUME NEW i \in Indices, NEW k \in 0 .. Capacity
  PROVE  (i + k) % Capacity = IF i + k < Capacity THEN i + k ELSE i + k - Capacity
<1> DEFINE C == Capacity
           a == i + k
<1>1. C \in Nat \ {0} /\ a \in Nat /\ a < 2 * C
  BY SizesAreNat DEF Indices
<1> HIDE DEF C, a
<1>2. a % C = IF a < C THEN a ELSE a - C
  BY <1>1
<1> QED BY <1>2, SizesAreNat DEF C, a, Indices

LEMMA NextIndex ==
  ASSUME NEW i \in Indices
  PROVE  /\ Increment(i) \in Indices
         /\ Increment(i) = IF i + 1 = Capacity THEN 0 ELSE i + 1
<1>1. 1 \in 0 .. Capacity
  BY SizesAreNat
<1>2. Increment(i) = IF i + 1 < Capacity THEN i + 1 ELSE i + 1 - Capacity
  BY <1>1, Round DEF Increment
<1> QED BY <1>2, SizesAreNat DEF Indices

\* The pending commands are in the slots from readIndex to writeIndex.
LEMMA UsedSlots ==
  ASSUME readIndex \in Indices, writeIndex \in Indices
  PROVE  /\ Used \in 0 .. Capacity - 1 /\ FreeSlots = Capacity - 1 - Used
         /\ HasPending <=> Used > 0
         /\ \A k \in 0 .. Capacity - 1 : /\ Position(k) \in Indices
                                         /\ Position(k) = writeIndex <=> k = Used
                                         /\ Position(k) = readIndex <=> k = 0
<1>1. Used \in 0 .. Capacity - 1 /\ FreeSlots = Capacity - 1 - Used /\ (HasPending <=> Used > 0)
  BY SizesAreNat DEF Used, FreeSlots, HasPending, Indices
<1>2. ASSUME NEW k \in 0 .. Capacity - 1
      PROVE  Position(k) = IF readIndex + k < Capacity THEN readIndex + k
                           ELSE readIndex + k - Capacity
  BY Round, SizesAreNat DEF Position
<1> QED BY <1>1, <1>2, SizesAreNat DEF Used, Indices

LEMMA AddsOne ==
  ASSUME readIndex \in Indices, writeIndex \in Indices, FreeSlots > 0,
         writeIndex' = Increment(writeIndex), readIndex' = readIndex
  PROVE  /\ Used' = Used + 1 /\ FreeSlots' = FreeSlots - 1
         /\ Increment(writeIndex) # readIndex
  BY NextIndex, SizesAreNat DEF Used, FreeSlots, Indices

LEMMA FreeIsNotFull ==
  ASSUME readIndex \in Indices, writeIndex \in Indices, FreeSlots > 0
  PROVE  Increment(writeIndex) # readIndex
  BY NextIndex, SizesAreNat DEF Used, FreeSlots, Indices

LEMMA RemovesOne ==
  ASSUME readIndex \in Indices, writeIndex \in Indices, HasPending,
         readIndex' = Increment(readIndex), writeIndex' = writeIndex
  PROVE  /\ Used' = Used - 1 /\ FreeSlots' = FreeSlots + 1
         /\ \A k \in 0 .. Capacity - 2 : Position(k)' = Position(k + 1)
<1>1. Used' = Used - 1 /\ FreeSlots' = FreeSlots + 1
  BY NextIndex, SizesAreNat DEF Used, FreeSlots, HasPending, Indices
<1>2. ASSUME NEW k \in 0 .. Capacity - 2 PROVE Position(k)' = Position(k + 1)
  <2>1. k \in 0 .. Capacity /\ k + 1 \in 0 .. Capacity /\ Increment(readIndex) \in Indices
    BY SizesAreNat, NextIndex
  <2>2. (Increment(readIndex) + k) % Capacity = (readIndex + (k + 1)) % Capacity
    <3>1. (Increment(readIndex) + k) % Capacity =
            IF Increment(readIndex) + k < Capacity THEN Increment(readIndex) + k
            ELSE Increment(readIndex) + k - Capacity
      BY <2>1, Round
    <3>2. (readIndex + (k + 1)) % Capacity =
            IF readIndex + (k + 1) < Capacity THEN readIndex + (k + 1)
            ELSE readIndex + (k + 1) - Capacity
      BY <2>1, Round
    <3> QED BY <3>1, <3>2, NextIndex, SizesAreNat DEF Indices
  <2> QED BY <2>2 DEF Position
<1> QED BY <1>1, <1>2

-----------------------------------------------------------------------------
(* Replaying. *)

LEMMA OpensNone ==
  ASSUME NEW gestures, NEW q, NEW p, NEW i \in Nat
  PROVE  Opens(gestures, q, p, i, i) <=> p \in gestures
<1>1. i .. i - 1 = {}
  OBVIOUS
<1> QED BY <1>1 DEF Opens, Gestures

\* One more command decides for its own parameter only.
LEMMA OpensStep ==
  ASSUME NEW gestures, NEW q, NEW p, NEW i \in Nat, NEW k \in Nat, i <= k
  PROVE  Opens(gestures, q, p, i, k + 1) <=>
           IF q[k].param = p /\ q[k].kind # "value" THEN q[k].kind = "begin"
           ELSE Opens(gestures, q, p, i, k)
<1>1. \A j : j \in i .. (k + 1) - 1 <=> j \in i .. k - 1 \/ j = k
  OBVIOUS
<1>2. CASE q[k].param = p /\ q[k].kind # "value"
  <2>1. /\ k \in Gestures(q, p, i, k + 1)
        /\ \A j \in Gestures(q, p, i, k + 1) : j <= k
        /\ \A j \in Gestures(q, p, i, k + 1) : k <= j => j = k
    BY <1>1, <1>2 DEF Gestures
  <2> QED BY <1>2, <2>1 DEF Opens
<1>3. CASE ~ (q[k].param = p /\ q[k].kind # "value")
  <2>1. Gestures(q, p, i, k + 1) = Gestures(q, p, i, k)
    BY <1>1, <1>3 DEF Gestures
  <2> QED BY <1>3, <2>1 DEF Opens
<1> QED BY <1>2, <1>3

LEMMA OpensSame ==
  ASSUME NEW gestures, NEW q, NEW r, NEW p, NEW i \in Nat, NEW k \in Nat,
         \A j \in i .. k - 1 : q[j] = r[j]
  PROVE  Opens(gestures, q, p, i, k) <=> Opens(gestures, r, p, i, k)
<1>1. Gestures(q, p, i, k) = Gestures(r, p, i, k)
  BY DEF Gestures
<1>2. \A j \in Gestures(q, p, i, k) : q[j] = r[j]
  BY DEF Gestures
<1> QED BY <1>1, <1>2 DEF Opens

\* Taking the oldest command changes nothing of what comes of the rest.
LEMMA OpensTaken ==
  ASSUME NEW gestures, NEW q, NEW p, NEW k \in Nat \ {0}, q[0] \in Command
  PROVE  Opens(Taken(gestures, q[0]), q, p, 1, k) <=> Opens(gestures, q, p, 0, k)
<1>1. \A j : j \in 0 .. k - 1 <=> j \in 1 .. k - 1 \/ j = 0
  OBVIOUS
<1>2. Gestures(q, p, 1, k) \subseteq Gestures(q, p, 0, k)
  BY <1>1 DEF Gestures
<1>3. \A j \in Gestures(q, p, 0, k) : j \in Gestures(q, p, 1, k) \/ j = 0
  BY <1>1 DEF Gestures
<1>4. CASE Gestures(q, p, 1, k) # {}
  <2>1. \A j \in Gestures(q, p, 1, k) : j \in Nat /\ 0 < j
    BY DEF Gestures
  <2> QED BY <1>2, <1>3, <1>4, <2>1 DEF Opens
<1>5. CASE Gestures(q, p, 1, k) = {}
  <2>1. CASE q[0].param = p /\ q[0].kind # "value"
    <3>1. Gestures(q, p, 0, k) = {0}
      BY <1>1, <1>3, <1>5, <2>1 DEF Gestures
    <3>2. p \in Taken(gestures, q[0]) <=> q[0].kind = "begin"
      BY <2>1 DEF Taken, Command
    <3> QED BY <1>5, <3>1, <3>2 DEF Opens
  <2>2. CASE ~ (q[0].param = p /\ q[0].kind # "value")
    <3>1. Gestures(q, p, 0, k) = {}
      BY <1>3, <1>5, <2>2 DEF Gestures
    <3>2. p \in Taken(gestures, q[0]) <=> p \in gestures
      BY <2>2 DEF Taken, Command
    <3> QED BY <1>5, <3>1, <3>2 DEF Opens
  <2> QED BY <2>1, <2>2
<1> QED BY <1>4, <1>5

\* Renumbering the commands changes nothing.
LEMMA OpensShifted ==
  ASSUME NEW gestures, NEW q, NEW r, NEW p, NEW k \in Nat,
         \A j \in 0 .. k - 1 : r[j] = q[j + 1]
  PROVE  Opens(gestures, r, p, 0, k) <=> Opens(gestures, q, p, 1, k + 1)
<1>1. ASSUME NEW j \in Gestures(r, p, 0, k)
      PROVE  j \in Nat /\ j + 1 \in Gestures(q, p, 1, k + 1) /\ r[j] = q[j + 1]
  BY DEF Gestures
<1>2. ASSUME NEW j \in Gestures(q, p, 1, k + 1)
      PROVE  j \in Nat \ {0} /\ j - 1 \in Gestures(r, p, 0, k) /\ r[j - 1] = q[j]
  <2>1. j \in 1 .. k /\ j - 1 \in 0 .. k - 1 /\ (j - 1) + 1 = j
    BY DEF Gestures
  <2> QED BY <2>1 DEF Gestures
<1>3. Gestures(r, p, 0, k) = {} <=> Gestures(q, p, 1, k + 1) = {}
  BY <1>1, <1>2
<1>4. (\E j \in Gestures(r, p, 0, k) : /\ \A x \in Gestures(r, p, 0, k) : x <= j
                                       /\ r[j].kind = "begin")
      => \E j \in Gestures(q, p, 1, k + 1) : /\ \A x \in Gestures(q, p, 1, k + 1) : x <= j
                                             /\ q[j].kind = "begin"
  <2>1. SUFFICES ASSUME NEW j \in Gestures(r, p, 0, k),
                        \A x \in Gestures(r, p, 0, k) : x <= j, r[j].kind = "begin"
                 PROVE  \A x \in Gestures(q, p, 1, k + 1) : x <= j + 1
    BY <1>1
  <2> QED BY <1>1, <1>2, <2>1
<1>5. (\E j \in Gestures(q, p, 1, k + 1) : /\ \A x \in Gestures(q, p, 1, k + 1) : x <= j
                                           /\ q[j].kind = "begin")
      => \E j \in Gestures(r, p, 0, k) : /\ \A x \in Gestures(r, p, 0, k) : x <= j
                                         /\ r[j].kind = "begin"
  <2>1. SUFFICES ASSUME NEW j \in Gestures(q, p, 1, k + 1),
                        \A x \in Gestures(q, p, 1, k + 1) : x <= j, q[j].kind = "begin"
                 PROVE  \A x \in Gestures(r, p, 0, k) : x <= j - 1
    BY <1>2
  <2> QED BY <1>1, <1>2, <2>1
<1> QED BY <1>3, <1>4, <1>5 DEF Opens

-----------------------------------------------------------------------------
(* Types. *)

LEMMA TakenType ==
  ASSUME NEW gestures \in SUBSET Params, NEW c \in Command
  PROVE  Taken(gestures, c) \in SUBSET Params
  BY DEF Taken, Command

\* What drain() peeks at is a command.
LEMMA OldestIsCommand ==
  ASSUME TypeOK, PendingAreCommands, HasPending
  PROVE  0 \in Pending /\ Queued(0) = commands[readIndex] /\ commands[readIndex] \in Command
<1>1. /\ 0 \in 0 .. Capacity - 1 /\ 0 \in 0 .. Used - 1
      /\ Position(0) = readIndex
  BY UsedSlots, SizesAreNat DEF TypeOK
<1> QED BY <1>1 DEF Pending, Queued, PendingAreCommands

LEMMA NextTypeOK ==
  ASSUME IInv, [Next]_vars
  PROVE  TypeOK'
<1> USE DEF TypeOK, MainState, DrainState, Slot, UnchangedDrain, UnchangedMain, host
<1>0. TypeOK /\ MainHasRoom /\ DrainHasCommand /\ PendingAreCommands
  BY DEF IInv
<1>1. CASE CreateGui \/ Activate \/ StartProcessing \/ Process \/ Flush
  BY <1>0, <1>1 DEF CreateGui, Activate, StartProcessing, Process, Flush
<1>01. Resting \in MainState
  BY DEF Resting
<1>2. CASE DestroyGui
  BY <1>0, <1>2 DEF DestroyGui, Resting
<1>3. CASE Deactivate
  BY <1>0, <1>3 DEF Deactivate
<1>4. ASSUME NEW c \in Command, Receive(c) PROVE TypeOK'
  BY <1>0, <1>4 DEF Receive
<1>5. CASE PushWrite
  <2>1. commands' \in [Indices -> Slot]
    BY <1>0, <1>5 DEF PushWrite
  <2>2. main' \in MainState
    BY <1>0, <1>01, <1>5 DEF PushWrite
  <2> QED BY <1>0, <1>5, <2>1, <2>2 DEF PushWrite
<1>6. CASE PushPublish
  <2>1. main.command \in Command
    BY <1>0, <1>6 DEF PushPublish, MainHasRoom
  <2>2. gestureOpen' = Taken(gestureOpen, main.command)
    BY <1>6 DEF PushPublish, Taken
  <2>3. gestureOpen' \in SUBSET Params /\ writeIndex' \in Indices
    BY <1>0, <1>6, <2>1, <2>2, TakenType, NextIndex DEF PushPublish
  <2>4. main' \in MainState
    BY <1>0, <1>6 DEF PushPublish, AfterPush
  <2> QED BY <1>0, <1>6, <2>3, <2>4 DEF PushPublish
<1>7. CASE SchedulePending
  BY <1>0, <1>7 DEF SchedulePending, Schedule, Resting
<1>8. CASE CloseGesture
  <2>1. PICK p \in main.todo :
          LET rest == [main EXCEPT !.todo = @ \ {p}]
          IN main' \in {rest, [rest EXCEPT !.pc = "write", !.command = EndOf(p)]}
    BY <1>8 DEF CloseGesture
  <2>2. EndOf(p) \in Command
    BY <1>0 DEF EndOf, Command
  <2> DEFINE rest == [main EXCEPT !.todo = @ \ {p}]
  <2>3. rest \in MainState
    BY <1>0
  <2>4. main' = rest \/ main' = [rest EXCEPT !.pc = "write", !.command = EndOf(p)]
    BY <2>1
  <2> HIDE DEF rest
  <2>5. main' \in MainState
    BY <2>2, <2>3, <2>4
  <2> QED BY <1>0, <1>8, <2>5 DEF CloseGesture
<1>9. CASE DrainPeek
  BY <1>0, <1>9 DEF DrainPeek, NotDraining
<1>10. CASE EmitAccepted
  <2>1. drain.command \in Command
    BY <1>0, <1>10, OldestIsCommand DEF EmitAccepted, DrainHasCommand
  <2>2. hostGesture' = Taken(hostGesture, drain.command)
    BY <1>10 DEF EmitAccepted, Taken
  <2> QED BY <1>0, <1>10, <2>1, <2>2, TakenType DEF EmitAccepted
<1>11. CASE EmitRefused
  BY <1>0, <1>11 DEF EmitRefused, Schedule, NotDraining
<1>12. CASE DrainPop
  BY <1>0, <1>12, NextIndex DEF DrainPop
<1>13. CASE UNCHANGED vars
  BY <1>0, <1>13 DEF vars
<1> QED BY <1>1, <1>2, <1>3, <1>4, <1>5, <1>6, <1>7, <1>8, <1>9, <1>10, <1>11, <1>12, <1>13
        DEF Next

-----------------------------------------------------------------------------
(* The main thread's room, and what drain() holds. *)

\* A command that passes the checks leaves the slots the open gestures need then.
LEMMA AcceptedHasRoom ==
  ASSUME TypeOK, MainHasRoom, NEW c \in Command, Accepts(c)
  PROVE  /\ ReservedAfter(c) \in Nat
         /\ Cardinality(Taken(gestureOpen, c)) = ReservedAfter(c)
         /\ FreeSlots \in Nat /\ FreeSlots > 0
<1>1. IsFiniteSet(gestureOpen) /\ Cardinality(gestureOpen) \in Nat
  BY SizesAreNat DEF TypeOK
<1>2. FreeSlots \in Int
  BY UsedSlots, SizesAreNat DEF TypeOK
<1>3. FreeSlots >= ReservedAfter(c) + 1
  BY DEF Accepts
<1>4. CASE c.kind = "begin"
  <2>1. c.param \notin gestureOpen /\ Taken(gestureOpen, c) = gestureOpen \cup {c.param}
    BY <1>4 DEF Accepts, Taken
  <2>2. ReservedAfter(c) = Cardinality(gestureOpen) + 1
    BY <1>4 DEF ReservedAfter
  <2>3. Cardinality(gestureOpen \cup {c.param}) = Cardinality(gestureOpen) + 1
    BY <1>1, <2>1, FS_AddElement
  <2> QED BY <1>1, <1>2, <1>3, <2>1, <2>2, <2>3
<1>5. CASE c.kind = "end"
  <2>1. c.param \in gestureOpen /\ Taken(gestureOpen, c) = gestureOpen \ {c.param}
    BY <1>5 DEF Accepts, Taken
  <2>2. ReservedAfter(c) = Cardinality(gestureOpen) - 1
    BY <1>5 DEF ReservedAfter
  <2>3. Cardinality(gestureOpen \ {c.param}) = Cardinality(gestureOpen) - 1
    BY <1>1, <2>1, FS_RemoveElement
  <2>4. Cardinality(gestureOpen) # 0
    BY <1>1, <2>1, FS_EmptySet
  <2> QED BY <1>1, <1>2, <1>3, <2>1, <2>2, <2>3, <2>4
<1>6. CASE c.kind = "value"
  <2>1. ReservedAfter(c) = Cardinality(gestureOpen) /\ Taken(gestureOpen, c) = gestureOpen
    BY <1>6 DEF ReservedAfter, Taken
  <2> QED BY <1>1, <1>2, <1>3, <2>1
<1> QED BY <1>4, <1>5, <1>6 DEF Command

\* The ring or the open gestures change in three steps only.
LEMMA NextMainHasRoom ==
  ASSUME IInv, [Next]_vars
  PROVE  MainHasRoom'
<1> USE DEF UnchangedDrain, UnchangedMain
<1>0. TypeOK /\ MainHasRoom /\ DrainHasCommand
  BY DEF IInv
<1>01. FreeSlots \in Int /\ Cardinality(gestureOpen) \in Nat
  BY <1>0, UsedSlots, SizesAreNat DEF TypeOK
<1> DEFINE Kept == UNCHANGED <<writeIndex, readIndex, gestureOpen>>
<1>1. ASSUME Kept,
             main'.pc \in {"write", "publish"} =>
               main'.command \in Command /\ Accepts(main'.command),
             main'.pc = "publish" => commands'[writeIndex] = main'.command
      PROVE  MainHasRoom'
  <2>1. FreeSlots' = FreeSlots
    BY <1>1 DEF FreeSlots, Used
  <2>2. ASSUME main'.pc \in {"write", "publish"} PROVE Accepts(main.command)'
    <3> DEFINE c == main'.command
    <3>1. c \in Command /\ Accepts(c)
      BY <1>1, <2>2
    <3>2. ReservedAfter(c) = ReservedAfter(main.command)'
      BY <1>1 DEF ReservedAfter
    <3> QED BY <1>1, <2>1, <3>1, <3>2 DEF Accepts
  <2> QED BY <1>0, <1>1, <2>1, <2>2 DEF MainHasRoom
<1>2. CASE CreateGui \/ DestroyGui \/ Activate \/ Deactivate \/ SchedulePending
           \/ StartProcessing \/ Process \/ Flush \/ DrainPeek \/ EmitAccepted \/ EmitRefused
           \/ UNCHANGED vars
  <2>1. /\ Kept /\ UNCHANGED commands
        /\ main' = main \/ main'.pc \in {"idle", "close"}
    <3>1. CASE DestroyGui \/ SchedulePending
      <4>1. Kept /\ UNCHANGED commands
        BY <3>1 DEF DestroyGui, SchedulePending
      <4>2. CASE DestroyGui
        <5>1. Resting \in MainState /\ gestureOpen \in SUBSET Params
          BY <1>0 DEF Resting, MainState, Slot, TypeOK
        <5>2. main'.pc = "close"
          BY <4>2, <5>1 DEF DestroyGui, MainState
        <5> QED BY <4>1, <5>2
      <4>3. CASE SchedulePending
        BY <4>1, <4>3 DEF SchedulePending, Resting
      <4> QED BY <3>1, <4>2, <4>3
    <3>2. CASE CreateGui \/ Activate \/ Deactivate
      BY <3>2 DEF CreateGui, Activate, Deactivate
    <3>3. CASE StartProcessing \/ Process \/ Flush \/ DrainPeek \/ EmitAccepted \/ EmitRefused
      BY <3>3 DEF StartProcessing, Process, Flush, DrainPeek, EmitAccepted, EmitRefused
    <3>4. CASE UNCHANGED vars
      BY <3>4 DEF vars
    <3> QED BY <1>2, <3>1, <3>2, <3>3, <3>4
  <2> QED BY <1>0, <1>1, <2>1 DEF MainHasRoom
<1>3. ASSUME NEW c \in Command, Receive(c) PROVE MainHasRoom'
  <2>1. Kept /\ main'.pc = "write" /\ main'.command = c /\ Accepts(c)
    BY <1>0, <1>3 DEF Receive, TypeOK, MainState
  <2> QED BY <1>1, <2>1
<1>4. CASE CloseGesture
  <2>1. PICK p \in main.todo :
          LET rest == [main EXCEPT !.todo = @ \ {p}]
          IN main' = IF Accepts(EndOf(p))
                       THEN [rest EXCEPT !.pc = "write", !.command = EndOf(p)]
                       ELSE rest
    BY <1>4 DEF CloseGesture
  <2>2. Kept /\ main.pc = "close"
    BY <1>4 DEF CloseGesture
  <2>3. CASE Accepts(EndOf(p))
    <3>1. main'.pc = "write" /\ main'.command = EndOf(p)
      BY <1>0, <2>1, <2>3 DEF TypeOK, MainState
    <3>2. EndOf(p) \in Command
      BY <1>0 DEF TypeOK, MainState, EndOf, Command
    <3> QED BY <1>1, <2>2, <2>3, <3>1, <3>2
  <2>4. CASE ~Accepts(EndOf(p))
    <3>1. main'.pc = "close"
      BY <1>0, <2>1, <2>2, <2>4 DEF TypeOK, MainState
    <3> QED BY <1>1, <2>2, <3>1
  <2> QED BY <2>3, <2>4
<1>5. CASE PushWrite
  <2>1. main.command \in Command /\ Accepts(main.command) /\ Kept
    BY <1>0, <1>5 DEF PushWrite, MainHasRoom
  <2>2. Increment(writeIndex) # readIndex
    BY <1>0, <2>1, AcceptedHasRoom, FreeIsNotFull DEF TypeOK
  <2>3. /\ commands' = [commands EXCEPT ![writeIndex] = main.command]
        /\ main'.pc = "publish" /\ main'.command = main.command
    BY <1>0, <1>5, <2>2 DEF PushWrite, TypeOK, MainState
  <2>4. commands'[writeIndex] = main.command
    BY <1>0, <2>3 DEF TypeOK
  <2> QED BY <1>1, <2>1, <2>3, <2>4
<1>6. CASE PushPublish
  <2>1. /\ main.command \in Command /\ Accepts(main.command)
        /\ gestureOpen' = Taken(gestureOpen, main.command)
        /\ main'.pc \notin {"write", "publish"}
    BY <1>0, <1>6 DEF PushPublish, MainHasRoom, Taken, AfterPush, TypeOK, MainState
  <2>2. /\ Cardinality(gestureOpen') = ReservedAfter(main.command)
        /\ ReservedAfter(main.command) \in Nat /\ FreeSlots > 0
    BY <1>0, <2>1, AcceptedHasRoom
  <2>3. FreeSlots' = FreeSlots - 1
    BY <1>0, <1>6, <2>2, AddsOne DEF TypeOK, PushPublish
  <2>4. FreeSlots >= ReservedAfter(main.command) + 1
    BY <2>1 DEF Accepts
  <2>5. FreeSlots' >= Cardinality(gestureOpen')
    BY <1>01, <2>2, <2>3, <2>4
  <2> QED BY <2>1, <2>5 DEF MainHasRoom
<1>7. CASE DrainPop
  <2>1. FreeSlots' = FreeSlots + 1
    BY <1>0, <1>7, RemovesOne DEF DrainPop, TypeOK, DrainHasCommand
  <2>2. UNCHANGED <<writeIndex, gestureOpen, main>>
    BY <1>7 DEF DrainPop
  <2>3. commands'[writeIndex] = commands[writeIndex]
    BY <1>0, <1>7 DEF DrainPop, TypeOK, DrainHasCommand, HasPending
  <2>4. FreeSlots' >= Cardinality(gestureOpen')
    BY <1>0, <1>01, <2>1, <2>2 DEF MainHasRoom
  <2>5. main.pc \in {"write", "publish"} => Accepts(main.command)'
    <3> DEFINE c == main.command
    <3>1. SUFFICES ASSUME main.pc \in {"write", "publish"} PROVE Accepts(main.command)'
      OBVIOUS
    <3>2. c \in Command /\ Accepts(c)
      BY <1>0, <3>1 DEF MainHasRoom
    <3>3. ReservedAfter(main.command)' = ReservedAfter(main.command)
      BY <2>2 DEF ReservedAfter
    <3>4. ReservedAfter(main.command) \in Nat
      BY <1>0, <3>2, AcceptedHasRoom
    <3> QED BY <1>01, <2>1, <2>2, <3>2, <3>3, <3>4 DEF Accepts
  <2> QED BY <1>0, <2>2, <2>3, <2>4, <2>5 DEF MainHasRoom
<1> QED BY <1>2, <1>3, <1>4, <1>5, <1>6, <1>7 DEF Next

LEMMA NextDrainHasCommand ==
  ASSUME IInv, [Next]_vars
  PROVE  DrainHasCommand'
<1> USE DEF UnchangedDrain, UnchangedMain, DrainHasCommand, HasPending
<1>0. TypeOK /\ MainHasRoom /\ DrainHasCommand
  BY DEF IInv
<1>1. CASE CreateGui \/ DestroyGui \/ Activate \/ Deactivate \/ SchedulePending \/ CloseGesture
           \/ (\E c \in Command : Receive(c)) \/ StartProcessing \/ UNCHANGED vars
  BY <1>0, <1>1 DEF CreateGui, DestroyGui, Activate, Deactivate, SchedulePending, CloseGesture,
                    Receive, StartProcessing, vars
<1>2. CASE Process \/ Flush \/ DrainPop
  BY <1>0, <1>2 DEF Process, Flush, DrainPop, TypeOK, DrainState
<1>3. CASE DrainPeek \/ EmitRefused
  BY <1>0, <1>3 DEF DrainPeek, EmitRefused, NotDraining
<1>4. CASE EmitAccepted
  BY <1>0, <1>4 DEF EmitAccepted, TypeOK, DrainState
<1>5. CASE PushWrite
  \* The slot written is not the one drain() holds.
  BY <1>0, <1>5 DEF PushWrite, TypeOK
<1>6. CASE PushPublish
  <2>1. FreeSlots > 0 => Increment(writeIndex) # readIndex
    BY <1>0, FreeIsNotFull DEF TypeOK
  <2>2. FreeSlots > 0
    BY <1>0, <1>6, AcceptedHasRoom DEF PushPublish, MainHasRoom
  <2> QED BY <1>0, <1>6, <2>1, <2>2 DEF PushPublish
<1> QED BY <1>1, <1>2, <1>3, <1>4, <1>5, <1>6 DEF Next

-----------------------------------------------------------------------------
(* The replay of what is pending. *)

LEMMA FirstIsPending ==
  ASSUME TypeOK, DrainHasCommand
  PROVE  /\ Used \in Nat /\ First \in {0, 1} /\ First <= Used
         /\ \A k \in Nat : PendingQueue[k] = Queued(k)
  BY UsedSlots, SizesAreNat DEF TypeOK, DrainHasCommand, First, PendingQueue

\* A step that leaves the indices, the gestures and the pending commands alone.
LEMMA QuietReplay ==
  ASSUME IInv, UNCHANGED <<writeIndex, readIndex, gestureOpen, hostGesture>>,
         First' = First, TypeOK', DrainHasCommand',
         \A k \in Pending : commands'[Position(k)] = commands[Position(k)]
  PROVE  PendingAreCommands' /\ WellReplayed'
<1>0. TypeOK /\ DrainHasCommand /\ PendingAreCommands /\ WellReplayed
  BY DEF IInv
<1>1. /\ Used' = Used /\ Pending' = Pending /\ Used \in Nat /\ First \in {0, 1}
      /\ \A k : Position(k)' = Position(k)
  BY <1>0, FirstIsPending DEF Used, Pending, Position
<1>2. \A k \in Pending : Queued(k)' = Queued(k)
  BY <1>1 DEF Queued
<1>3. \A k \in First .. Used - 1 : k \in Pending
  BY <1>1 DEF Pending
<1>4. \A k \in First .. Used - 1 : PendingQueue[k] = PendingQueue'[k]
  <2>1. (\A k \in Nat : PendingQueue[k] = Queued(k)) /\ \A k \in Nat : PendingQueue'[k] = Queued(k)'
    BY <1>0, FirstIsPending DEF PendingQueue
  <2> QED BY <1>1, <1>2, <1>3, <2>1
<1>5. ASSUME NEW p, NEW k \in First .. Used
      PROVE  Opens(hostGesture, PendingQueue', p, First, k)
               <=> Opens(hostGesture, PendingQueue, p, First, k)
  <2>1. \A j \in First .. k - 1 : PendingQueue[j] = PendingQueue'[j]
    BY <1>1, <1>4
  <2>2. First \in Nat /\ k \in Nat
    BY <1>1
  <2> QED BY <2>1, <2>2, OpensSame
<1>6. PendingAreCommands'
  BY <1>0, <1>1, <1>2 DEF PendingAreCommands
<1>7. \A k \in First .. Used - 1 : k \in First .. Used
  BY <1>1
<1>8. Used \in First .. Used
  BY <1>0, <1>1, FirstIsPending
<1>9. WellReplayed'
  <2>1. ASSUME NEW k \in First .. Used - 1
        PROVE  /\ Queued(k)'.kind = "begin" =>
                    ~Opens(hostGesture, PendingQueue', Queued(k)'.param, First, k)
               /\ Queued(k)'.kind = "end" =>
                    Opens(hostGesture, PendingQueue', Queued(k)'.param, First, k)
    BY <1>0, <1>2, <1>3, <1>5, <1>7 DEF WellReplayed
  <2>2. \A p \in Params : Opens(hostGesture, PendingQueue', p, First, Used) <=> p \in gestureOpen
    BY <1>0, <1>5, <1>8 DEF WellReplayed
  <2> QED BY <1>1, <2>1, <2>2 DEF WellReplayed
<1> QED BY <1>6, <1>9

LEMMA PublishedReplay ==
  ASSUME IInv, PushPublish, TypeOK'
  PROVE  PendingAreCommands' /\ WellReplayed'
<1>0. TypeOK /\ DrainHasCommand /\ PendingAreCommands /\ WellReplayed /\ MainHasRoom
  BY DEF IInv
<1> DEFINE c == main.command
           q == PendingQueue
<1>1. /\ UNCHANGED <<commands, readIndex, hostGesture, drain>>
      /\ writeIndex' = Increment(writeIndex)
      /\ gestureOpen' = Taken(gestureOpen, c)
      /\ c \in Command /\ Accepts(c) /\ commands[writeIndex] = c
  BY <1>0 DEF PushPublish, UnchangedDrain, Taken, MainHasRoom
<1>2. /\ Used' = Used + 1 /\ First' = First /\ PendingQueue' = q
      /\ \A k : Position(k)' = Position(k) /\ Queued(k)' = Queued(k)
  BY <1>0, <1>1, AcceptedHasRoom, AddsOne
     DEF TypeOK, First, PendingQueue, Position, Queued
<1>3. /\ Used \in Nat /\ First \in {0, 1} /\ First <= Used
      /\ \A k \in Nat : q[k] = Queued(k)
  BY <1>0, FirstIsPending
<1>4. Queued(Used) = c
  <2>1. Used \in 0 .. Capacity - 1 /\ Position(Used) = writeIndex
    BY <1>0, UsedSlots DEF TypeOK
  <2> QED BY <1>1, <2>1 DEF Queued
<1>5. PendingAreCommands'
  <2>1. \A k \in Pending' : k \in Pending \/ k = Used
    BY <1>2, <1>3 DEF Pending
  <2> QED BY <1>0, <1>1, <1>2, <1>4, <2>1 DEF PendingAreCommands
<1>6. \A p \in Params : Opens(hostGesture, q, p, First, Used) <=> p \in gestureOpen
  BY <1>0 DEF WellReplayed
<1>7. ASSUME NEW k \in First .. Used
      PROVE  /\ Queued(k).kind = "begin" => ~Opens(hostGesture, q, Queued(k).param, First, k)
             /\ Queued(k).kind = "end" => Opens(hostGesture, q, Queued(k).param, First, k)
  <2>1. CASE k = Used
    BY <1>1, <1>4, <1>6, <2>1 DEF Accepts, Command
  <2>2. CASE k # Used
    <3>1. k \in First .. Used - 1
      BY <1>3, <2>2
    <3> QED BY <1>0, <3>1 DEF WellReplayed
  <2> QED BY <2>1, <2>2
<1>8. ASSUME NEW p \in Params
      PROVE  Opens(hostGesture, q, p, First, Used + 1) <=> p \in gestureOpen'
  <2>1. Opens(hostGesture, q, p, First, Used + 1) <=>
          IF q[Used].param = p /\ q[Used].kind # "value" THEN q[Used].kind = "begin"
          ELSE Opens(hostGesture, q, p, First, Used)
    BY <1>3, OpensStep
  <2>2. q[Used] = c
    BY <1>3, <1>4
  <2> QED BY <1>1, <1>6, <2>1, <2>2 DEF Taken, Command
<1>9. First .. Used' - 1 = First .. Used
  BY <1>2, <1>3
<1> HIDE DEF q, c
<1>10. WellReplayed'
  BY <1>1, <1>2, <1>7, <1>8, <1>9 DEF WellReplayed
<1> QED BY <1>5, <1>10

LEMMA TakenReplay ==
  ASSUME IInv, EmitAccepted, TypeOK'
  PROVE  PendingAreCommands' /\ WellReplayed'
<1>0. TypeOK /\ DrainHasCommand /\ PendingAreCommands /\ WellReplayed
  BY DEF IInv
<1> DEFINE q == PendingQueue
<1>1. /\ UNCHANGED <<commands, readIndex, writeIndex, gestureOpen>>
      /\ First = 0 /\ First' = 1 /\ HasPending
      /\ hostGesture' = Taken(hostGesture, drain.command)
      /\ drain.command = commands[readIndex]
  BY <1>0 DEF EmitAccepted, UnchangedMain, First, TypeOK, DrainState, DrainHasCommand, Taken
<1>2. /\ Used' = Used /\ PendingQueue' = q /\ Pending' = Pending
      /\ \A k : Queued(k)' = Queued(k)
  BY <1>1 DEF Used, PendingQueue, Pending, Position, Queued
<1>3. Used \in Nat /\ Used > 0 /\ \A k \in Nat : q[k] = Queued(k)
  BY <1>0, <1>1, FirstIsPending, UsedSlots DEF TypeOK
<1>4. q[0] \in Command /\ q[0] = drain.command
  BY <1>0, <1>1, <1>3, OldestIsCommand
<1>5. ASSUME NEW p, NEW k \in 1 .. Used
      PROVE  Opens(hostGesture', q, p, 1, k) <=> Opens(hostGesture, q, p, 0, k)
  <2>1. k \in Nat \ {0}
    BY <1>3
  <2> QED BY <1>1, <1>4, <2>1, OpensTaken
<1>6. \A k \in 1 .. Used - 1 : k \in 0 .. Used - 1 /\ k \in 1 .. Used
  BY <1>3
<1>7. Used \in 1 .. Used
  BY <1>3
<1> HIDE DEF q
<1>8. PendingAreCommands'
  BY <1>0, <1>2 DEF PendingAreCommands
<1>9. /\ \A k \in 0 .. Used - 1 :
           /\ Queued(k).kind = "begin" => ~Opens(hostGesture, q, Queued(k).param, 0, k)
           /\ Queued(k).kind = "end" => Opens(hostGesture, q, Queued(k).param, 0, k)
      /\ \A p \in Params : Opens(hostGesture, q, p, 0, Used) <=> p \in gestureOpen
  BY <1>0, <1>1 DEF WellReplayed, q
<1>10. WellReplayed'
  <2>1. /\ \A k \in 1 .. Used - 1 :
             /\ Queued(k).kind = "begin" => ~Opens(hostGesture', q, Queued(k).param, 1, k)
             /\ Queued(k).kind = "end" => Opens(hostGesture', q, Queued(k).param, 1, k)
        /\ \A p \in Params : Opens(hostGesture', q, p, 1, Used) <=> p \in gestureOpen
    BY <1>5, <1>6, <1>7, <1>9
  <2> QED BY <1>1, <1>2, <2>1 DEF WellReplayed
<1> QED BY <1>8, <1>10

LEMMA PoppedReplay ==
  ASSUME IInv, DrainPop, TypeOK'
  PROVE  PendingAreCommands' /\ WellReplayed'
<1>0. TypeOK /\ DrainHasCommand /\ PendingAreCommands /\ WellReplayed
  BY DEF IInv
<1> DEFINE q == PendingQueue
           r == PendingQueue'
<1>1. /\ commands' = [commands EXCEPT ![readIndex] = NoCommand]
      /\ readIndex' = Increment(readIndex)
      /\ UNCHANGED <<writeIndex, gestureOpen, hostGesture>>
      /\ First = 1 /\ First' = 0 /\ HasPending
  BY <1>0 DEF DrainPop, UnchangedMain, First, TypeOK, DrainState, DrainHasCommand
<1>2. /\ Used \in 0 .. Capacity - 1 /\ Used > 0 /\ Capacity \in Nat \ {0}
      /\ \A k \in 0 .. Capacity - 1 : Position(k) \in Indices /\ (Position(k) = readIndex <=> k = 0)
  BY <1>0, <1>1, UsedSlots, SizesAreNat DEF TypeOK
<1>3. Used' = Used - 1 /\ \A k \in 0 .. Capacity - 2 : Position(k)' = Position(k + 1)
  BY <1>0, <1>1, RemovesOne DEF TypeOK
<1>4. ASSUME NEW k \in 0 .. Used - 2 PROVE Queued(k)' = Queued(k + 1)
  <2>1. k \in 0 .. Capacity - 2 /\ k + 1 \in 0 .. Capacity - 1 /\ k + 1 # 0
    BY <1>2
  <2>2. Queued(k)' = commands'[Position(k + 1)]
    BY <1>3, <2>1 DEF Queued
  <2>3. Position(k + 1) \in Indices /\ Position(k + 1) # readIndex
    BY <1>2, <2>1
  <2> QED BY <1>0, <1>1, <2>2, <2>3 DEF Queued, TypeOK
<1>5. (\A k \in Nat : q[k] = Queued(k)) /\ \A k \in Nat : r[k] = Queued(k)'
  BY DEF PendingQueue
<1>6. \A k \in 0 .. Used - 2 : r[k] = q[k + 1]
  BY <1>2, <1>4, <1>5
<1>7. ASSUME NEW p, NEW k \in 0 .. Used - 1
      PROVE  Opens(hostGesture, r, p, 0, k) <=> Opens(hostGesture, q, p, 1, k + 1)
  <2>1. k \in Nat /\ \A j \in 0 .. k - 1 : r[j] = q[j + 1]
    BY <1>2, <1>6
  <2> QED BY <2>1, OpensShifted
<1>8. /\ \A k \in 1 .. Used - 1 :
           /\ Queued(k).kind = "begin" => ~Opens(hostGesture, q, Queued(k).param, 1, k)
           /\ Queued(k).kind = "end" => Opens(hostGesture, q, Queued(k).param, 1, k)
      /\ \A p \in Params : Opens(hostGesture, q, p, 1, Used) <=> p \in gestureOpen
  BY <1>0, <1>1 DEF WellReplayed
<1> HIDE DEF q, r
<1>9. PendingAreCommands'
  <2>1. \A k \in Pending' : k \in 0 .. Used - 2 /\ k + 1 \in Pending
    BY <1>2, <1>3 DEF Pending
  <2> QED BY <1>0, <1>4, <2>1 DEF PendingAreCommands
<1>10. WellReplayed'
  <2>1. ASSUME NEW k \in 0 .. Used - 2
        PROVE  /\ Queued(k)'.kind = "begin" => ~Opens(hostGesture, r, Queued(k)'.param, 0, k)
               /\ Queued(k)'.kind = "end" => Opens(hostGesture, r, Queued(k)'.param, 0, k)
    <3>1. k + 1 \in 1 .. Used - 1 /\ k \in 0 .. Used - 1
      BY <1>2
    <3> QED BY <1>4, <1>7, <1>8, <3>1
  <2>2. \A p \in Params : Opens(hostGesture, r, p, 0, Used - 1) <=> p \in gestureOpen
    <3>1. Used - 1 \in 0 .. Used - 1 /\ (Used - 1) + 1 = Used
      BY <1>2
    <3> QED BY <1>7, <1>8, <3>1
  <2>3. Used' - 1 = Used - 2
    BY <1>2, <1>3
  <2> QED BY <1>1, <1>3, <2>1, <2>2, <2>3 DEF WellReplayed, r
<1> QED BY <1>9, <1>10

LEMMA NextReplay ==
  ASSUME IInv, [Next]_vars, TypeOK', DrainHasCommand'
  PROVE  PendingAreCommands' /\ WellReplayed'
<1> USE DEF UnchangedDrain, UnchangedMain
<1>0. TypeOK /\ DrainHasCommand
  BY DEF IInv
<1>1. CASE CreateGui \/ DestroyGui \/ Activate \/ Deactivate \/ SchedulePending \/ CloseGesture
           \/ (\E c \in Command : Receive(c)) \/ UNCHANGED vars
  <2>1. UNCHANGED <<commands, writeIndex, readIndex, gestureOpen, hostGesture, drain>>
    BY <1>1 DEF CreateGui, DestroyGui, Activate, Deactivate, SchedulePending, CloseGesture,
                Receive, vars
  <2>2. First' = First
    BY <2>1 DEF First
  <2> QED BY <2>1, <2>2, QuietReplay
<1>2. CASE StartProcessing \/ Process \/ Flush \/ DrainPeek \/ EmitRefused
  <2>1. UNCHANGED <<commands, writeIndex, readIndex, gestureOpen, hostGesture>>
    BY <1>2 DEF StartProcessing, Process, Flush, DrainPeek, EmitRefused
  <2>2. drain.pc # "pop" /\ drain'.pc # "pop"
    BY <1>0, <1>2 DEF StartProcessing, Process, Flush, DrainPeek, EmitRefused, NotDraining, TypeOK,
                      DrainState
  <2> QED BY <2>1, <2>2, QuietReplay DEF First
<1>3. CASE PushWrite
  <2>1. /\ UNCHANGED <<writeIndex, readIndex, gestureOpen, hostGesture, drain>>
        /\ \A i \in Indices : i # writeIndex => commands'[i] = commands[i]
    BY <1>0, <1>3 DEF PushWrite, TypeOK
  <2>2. \A k \in Pending : Position(k) \in Indices /\ Position(k) # writeIndex
    <3>1. \A k \in Pending : k \in 0 .. Capacity - 1 /\ k # Used
      BY <1>0, UsedSlots, SizesAreNat DEF Pending, TypeOK
    <3> QED BY <1>0, <3>1, UsedSlots DEF TypeOK
  <2> QED BY <2>1, <2>2, QuietReplay DEF First
<1> QED BY <1>1, <1>2, <1>3, PublishedReplay, TakenReplay, PoppedReplay DEF Next

-----------------------------------------------------------------------------
LEMMA InitIInv == Init => IInv
<1> SUFFICES ASSUME Init PROVE IInv
  OBVIOUS
<1>1. TypeOK
  <2>1. Resting \in MainState /\ NotDraining \in DrainState
    BY DEF Resting, MainState, NotDraining, DrainState, Slot
  <2>2. 0 \in Indices /\ commands \in [Indices -> Slot]
    BY SizesAreNat DEF Init, Indices, Slot
  <2> QED BY <2>1, <2>2 DEF Init, TypeOK
<1>2. /\ Used = 0 /\ FreeSlots = Capacity - 1 /\ First = 0
      /\ gestureOpen = {} /\ hostGesture = {}
  BY SizesAreNat DEF Init, Used, FreeSlots, First, NotDraining
<1>3. Cardinality({}) = 0 /\ Capacity - 1 >= 0
  BY SizesAreNat, FS_EmptySet
<1>4. MainHasRoom /\ DrainHasCommand
  BY <1>2, <1>3 DEF Init, Resting, NotDraining, MainHasRoom, DrainHasCommand
<1>5. Pending = {} /\ First .. Used - 1 = {}
  BY <1>2 DEF Pending
<1>6. PendingAreCommands
  BY <1>5 DEF PendingAreCommands
<1>7. WellReplayed
  <2>1. \A p : Opens({}, PendingQueue, p, 0, 0) <=> p \in {}
    BY OpensNone
  <2> QED BY <1>2, <1>5, <2>1 DEF WellReplayed
<1> QED BY <1>1, <1>4, <1>6, <1>7 DEF IInv

LEMMA NextIInv == IInv /\ [Next]_vars => IInv'
  BY NextTypeOK, NextMainHasRoom, NextDrainHasCommand, NextReplay DEF IInv

LEMMA SpecIInv == Spec => []IInv
  BY InitIInv, NextIInv, PTL DEF Spec

(***************************************************************************)
(* The types of the bridge's state, for every capacity above the number of *)
(* gestures and either kind of host.                                       *)
(***************************************************************************)
THEOREM TypeCorrect == Spec => []TypeOK
<1>1. IInv => TypeOK
  BY DEF IInv
<1> QED BY SpecIInv, <1>1, PTL

(***************************************************************************)
(* pushPreservingGestureClosure() keeps a slot for the end of each gesture *)
(* it leaves open, so none is refused, however full the queue is and       *)
(* whatever drain() does meanwhile.                                        *)
(***************************************************************************)
THEOREM EndsAreNeverRefused == Spec => []EndNeverRefused
<1>1. IInv => EndNeverRefused
  <2> SUFFICES ASSUME IInv, NEW p \in gestureOpen PROVE Accepts(EndOf(p))
    BY DEF EndNeverRefused
  <2>1. Cardinality(gestureOpen) \in Nat /\ FreeSlots \in Int
    BY UsedSlots, SizesAreNat DEF IInv, TypeOK
  <2>2. ReservedAfter(EndOf(p)) = Cardinality(gestureOpen) - 1
    BY DEF ReservedAfter, EndOf
  <2> QED BY <2>1, <2>2 DEF IInv, MainHasRoom, Accepts, EndOf
<1> QED BY SpecIInv, <1>1, PTL

(***************************************************************************)
(* Taking what is queued in order, the host never sees a gesture begin     *)
(* twice or end while it is not open, and is left with the gestures the    *)
(* editor holds: for every length of the queue and every interleaving of   *)
(* push() with drain().                                                    *)
(***************************************************************************)
THEOREM GesturesAreReplayed == Spec => []GesturesReplay
<1>1. IInv => GesturesReplay
  <2> SUFFICES ASSUME IInv, drain.pc # "pop"
               PROVE  /\ \A k \in Pending :
                           /\ Queued(k) \in Command
                           /\ Queued(k).kind = "begin" => ~OpenAfter(Queued(k).param, k)
                           /\ Queued(k).kind = "end" => OpenAfter(Queued(k).param, k)
                      /\ \A p \in Params : OpenAfter(p, Used) <=> p \in gestureOpen
    BY DEF GesturesReplay
  <2>1. First = 0 /\ WellReplayed /\ PendingAreCommands
    BY DEF First, IInv
  <2>2. Used \in Nat /\ \A k \in Nat : PendingQueue[k] = Queued(k)
    BY FirstIsPending DEF IInv
  <2>3. ASSUME NEW p, NEW k \in Nat
        PROVE  OpenAfter(p, k) <=> Opens(hostGesture, PendingQueue, p, 0, k)
    <3>1. \A j \in 0 .. k - 1 : PendingQueue[j] = Queued(j)
      BY <2>2
    <3>2. Gestures(PendingQueue, p, 0, k)
            = {j \in 0 .. k - 1 : Queued(j).param = p /\ Queued(j).kind # "value"}
      BY <3>1 DEF Gestures
    <3>3. \A j \in Gestures(PendingQueue, p, 0, k) : PendingQueue[j] = Queued(j)
      BY <3>1 DEF Gestures
    <3> QED BY <3>2, <3>3 DEF OpenAfter, Opens
  <2>4. \A k \in Pending : k \in Nat /\ k \in 0 .. Used - 1
    BY <2>2 DEF Pending
  <2> QED BY <2>1, <2>2, <2>3, <2>4 DEF WellReplayed, PendingAreCommands
<1> QED BY SpecIInv, <1>1, PTL

=============================================================================

----------------------- MODULE CallbackRegistryProofs -----------------------
(***************************************************************************)
(* Proofs about CallbackRegistry, for any threads, keys, objects, entries  *)
(* and nesting depth.                                                      *)
(***************************************************************************)
EXTENDS CallbackRegistry, FiniteSetTheorems, TLAPS

\* The calls of a thread fill its stack from below; only the innermost is not
\* inside a callback.
StackShape ==
  \A t \in Threads, d \in Levels :
    /\ d > depth[t] => frame[t][d] = NoCall
    /\ d <= depth[t] => /\ frame[t][d].pc # "idle"
                        /\ frame[t][d].entry \in Entries
                        /\ frame[t][d].key \in Keys
    /\ d < depth[t] => frame[t][d].pc = "callback"

\* An entry's visitor list holds the callbacks running on it, and counts them.
VisitorsInCallback ==
  \A e \in Entries : \A t \in Threads, d \in Levels :
    <<t, d>> \in visitors[e] <=> InCallback(t, d, e)

VisitorsCounted ==
  \A e \in Entries : /\ IsFiniteSet(visitors[e])
                     /\ activeVisitors[e] = Cardinality(visitors[e])

\* What is being drained, or has been, turns visits away.
RetiredForGood ==
  /\ \A e \in Entries, t \in Threads, d \in Levels : Draining(t, d, e) => ~accepting[e]
  /\ \A e \in Entries : drainedBy[e] # Null => ~accepting[e]

\* An entry found by a lookup is still its key's, or no longer accepts visits.
LookupStillValid ==
  \A t \in Threads, d \in Levels :
    frame[t][d].pc = "begin" /\ accepting[frame[t][d].entry]
      => registered[frame[t][d].key] = frame[t][d].entry

IInv ==
  /\ TypeOK
  /\ StackShape
  /\ VisitorsInCallback
  /\ VisitorsCounted
  /\ AcceptingIffRegistered
  /\ RetiredForGood
  /\ LookupStillValid
  /\ OneDrainer
  /\ OwnerPinned

-----------------------------------------------------------------------------
(* What a call, a return and a notification do to the stacks. *)

LEMMA PushFrames ==
  ASSUME TypeOK, NEW t \in Threads, depth[t] < MaxDepth, NEW call \in Frame, Push(t, call)
  PROVE  /\ depth[t] + 1 \in Levels
         /\ depth' \in [Threads -> 0 .. MaxDepth]
         /\ frame' \in [Threads -> [Levels -> Frame]]
         /\ \A u \in Threads : depth'[u] = IF u = t THEN depth[t] + 1 ELSE depth[u]
         /\ \A u \in Threads, d \in Levels :
              frame'[u][d] = IF u = t /\ d = depth[t] + 1 THEN call ELSE frame[u][d]
<1>1. depth[t] \in 0 .. MaxDepth /\ depth[t] + 1 \in Levels
  BY RegistryAssumption DEF TypeOK, Levels
<1>2. frame' = [frame EXCEPT ![t] = [frame[t] EXCEPT ![depth[t] + 1] = call]]
  BY DEF Push
<1>3. frame \in [Threads -> [Levels -> Frame]] /\ frame[t] \in [Levels -> Frame]
  BY DEF TypeOK
<1>4. [frame[t] EXCEPT ![depth[t] + 1] = call] \in [Levels -> Frame]
  BY <1>1, <1>3
<1>5. frame' \in [Threads -> [Levels -> Frame]]
  BY <1>2, <1>3, <1>4
<1>6. \A u \in Threads, d \in Levels :
        frame'[u][d] = IF u = t /\ d = depth[t] + 1 THEN call ELSE frame[u][d]
  BY <1>1, <1>2, <1>3
<1>7. /\ depth' \in [Threads -> 0 .. MaxDepth]
      /\ \A u \in Threads : depth'[u] = IF u = t THEN depth[t] + 1 ELSE depth[u]
  BY <1>1, RegistryAssumption DEF TypeOK, Push
<1> QED BY <1>1, <1>5, <1>6, <1>7

LEMMA PopFrames ==
  ASSUME TypeOK, NEW t \in Threads, depth[t] > 0, Pop(t)
  PROVE  /\ depth[t] \in Levels
         /\ depth' \in [Threads -> 0 .. MaxDepth]
         /\ frame' \in [Threads -> [Levels -> Frame]]
         /\ \A u \in Threads : depth'[u] = IF u = t THEN depth[t] - 1 ELSE depth[u]
         /\ \A u \in Threads, d \in Levels :
              frame'[u][d] = IF u = t /\ d = depth[t] THEN NoCall ELSE frame[u][d]
<1>1. depth[t] \in 0 .. MaxDepth /\ depth[t] \in Levels
  BY RegistryAssumption DEF TypeOK, Levels
<1>2. NoCall \in Frame
  BY DEF NoCall, Frame
<1>3. frame' = [frame EXCEPT ![t] = [frame[t] EXCEPT ![depth[t]] = NoCall]]
  BY DEF Pop
<1>4. frame \in [Threads -> [Levels -> Frame]] /\ frame[t] \in [Levels -> Frame]
  BY DEF TypeOK
<1>5. [frame[t] EXCEPT ![depth[t]] = NoCall] \in [Levels -> Frame]
  BY <1>1, <1>2, <1>4
<1>6. frame' \in [Threads -> [Levels -> Frame]]
  BY <1>3, <1>4, <1>5
<1>7. \A u \in Threads, d \in Levels :
        frame'[u][d] = IF u = t /\ d = depth[t] THEN NoCall ELSE frame[u][d]
  BY <1>1, <1>3, <1>4
<1>8. /\ depth' \in [Threads -> 0 .. MaxDepth]
      /\ \A u \in Threads : depth'[u] = IF u = t THEN depth[t] - 1 ELSE depth[u]
  BY <1>1, RegistryAssumption DEF TypeOK, Pop
<1> QED BY <1>1, <1>6, <1>7, <1>8

\* A thread calls from the callback it is in, and returns to it.
LEMMA PushShape ==
  ASSUME TypeOK, StackShape, NEW t \in Threads, NEW k \in Keys, MayCall(t, k), NEW call \in Frame,
         call.pc # "idle", call.entry \in Entries, call.key \in Keys, Push(t, call)
  PROVE  StackShape'
<1>1. /\ depth[t] + 1 \in Levels
      /\ \A u \in Threads : depth'[u] = IF u = t THEN depth[t] + 1 ELSE depth[u]
      /\ \A u \in Threads, d \in Levels :
           frame'[u][d] = IF u = t /\ d = depth[t] + 1 THEN call ELSE frame[u][d]
  BY PushFrames DEF MayCall
<1> SUFFICES ASSUME NEW u \in Threads, NEW d \in Levels
             PROVE  /\ d > depth'[u] => frame'[u][d] = NoCall
                    /\ d <= depth'[u] => /\ frame'[u][d].pc # "idle"
                                         /\ frame'[u][d].entry \in Entries
                                         /\ frame'[u][d].key \in Keys
                    /\ d < depth'[u] => frame'[u][d].pc = "callback"
  BY DEF StackShape
<1>2. depth[u] \in Nat /\ d \in Nat /\ d >= 1
  BY RegistryAssumption DEF TypeOK, Levels
<1>3. CASE u # t
  BY <1>1, <1>3 DEF StackShape
<1>4. CASE u = t
  <2>1. depth[t] > 0 => frame[t][depth[t]].pc = "callback"
    BY DEF MayCall, At
  <2>2. CASE d <= depth[t]
    <3>1. frame'[t][d] = frame[t][d]
      BY <1>1, <1>2, <1>4, <2>2
    <3>2. frame[t][d].pc = "callback"
      BY <1>2, <1>4, <2>1, <2>2 DEF StackShape
    <3>3. frame[t][d].entry \in Entries /\ frame[t][d].key \in Keys
      BY <1>4, <2>2 DEF StackShape
    <3> QED BY <1>1, <1>2, <1>4, <2>2, <3>1, <3>2, <3>3
  <2>3. CASE d = depth[t] + 1
    BY <1>1, <1>2, <1>4, <2>3
  <2>4. CASE d > depth[t] + 1
    BY <1>1, <1>2, <1>4, <2>4 DEF StackShape
  <2> QED BY <1>2, <1>4, <2>2, <2>3, <2>4
<1> QED BY <1>3, <1>4

LEMMA PopShape ==
  ASSUME StackShape, TypeOK, NEW t \in Threads, depth[t] > 0,
         \A u \in Threads : depth'[u] = IF u = t THEN depth[t] - 1 ELSE depth[u],
         \A u \in Threads, d \in Levels :
           /\ u = t /\ d = depth[t] => frame'[u][d] = NoCall
           /\ ~(u = t /\ d = depth[t]) =>
                /\ frame'[u][d].entry = frame[u][d].entry
                /\ frame'[u][d].key = frame[u][d].key
                /\ \/ frame[u][d].pc = "asleep" /\ frame'[u][d].pc = "drain"
                   \/ frame'[u][d] = frame[u][d]
  PROVE  StackShape'
<1> SUFFICES ASSUME NEW u \in Threads, NEW d \in Levels
             PROVE  /\ d > depth'[u] => frame'[u][d] = NoCall
                    /\ d <= depth'[u] => /\ frame'[u][d].pc # "idle"
                                         /\ frame'[u][d].entry \in Entries
                                         /\ frame'[u][d].key \in Keys
                    /\ d < depth'[u] => frame'[u][d].pc = "callback"
  BY DEF StackShape
<1>1. depth[u] \in Nat /\ depth[t] \in Nat /\ d \in Nat
  BY RegistryAssumption DEF TypeOK, Levels
<1>2. CASE u # t
  BY <1>1, <1>2 DEF StackShape, NoCall
<1>3. CASE u = t /\ d = depth[t]
  BY <1>1, <1>3
<1>4. CASE u = t /\ d # depth[t]
  BY <1>1, <1>4 DEF StackShape, NoCall
<1> QED BY <1>2, <1>3, <1>4

-----------------------------------------------------------------------------
LEMMA InitIInv == Init => IInv
<1> SUFFICES ASSUME Init PROVE IInv
  OBVIOUS
<1> USE RegistryAssumption DEF Init
<1>1. TypeOK
  BY DEF TypeOK, NoCall, Frame
<1>2. StackShape
  BY DEF StackShape, Levels
<1>3. VisitorsInCallback
  BY DEF VisitorsInCallback, InCallback, NoCall
<1>4. VisitorsCounted
  BY FS_EmptySet DEF VisitorsCounted
<1>5. AcceptingIffRegistered
  BY DEF AcceptingIffRegistered
<1>6. RetiredForGood /\ LookupStillValid /\ OneDrainer /\ OwnerPinned
  BY DEF RetiredForGood, LookupStillValid, OneDrainer, OwnerPinned, Draining, InCallback, NoCall
<1> QED BY <1>1, <1>2, <1>3, <1>4, <1>5, <1>6 DEF IInv

\* A step that only moves t's innermost call from one wait of waitForDrain() to the other.
Moved(t, pc) ==
  /\ frame' = [frame EXCEPT ![t][depth[t]].pc = pc]
  /\ UNCHANGED <<registered, value, accepting, visitors, activeVisitors, depth, drainedBy>>

LEMMA FallAsleep ==
  ASSUME IInv, NEW t \in Threads, depth[t] \in Levels,
         frame[t][depth[t]].pc \in {"drain", "asleep"},
         NEW pc \in {"drain", "asleep"}, Moved(t, pc)
  PROVE  IInv'
<1> USE RegistryAssumption DEF Moved
<1> DEFINE call == [frame[t][depth[t]] EXCEPT !.pc = pc]
<1>1. frame \in [Threads -> [Levels -> Frame]] /\ frame[t] \in [Levels -> Frame]
  BY DEF IInv, TypeOK
<1>2. /\ call \in Frame /\ call.pc = pc
      /\ call.entry = frame[t][depth[t]].entry /\ call.key = frame[t][depth[t]].key
  <2>1. frame[t][depth[t]] \in Frame
    BY <1>1
  <2> QED BY <2>1 DEF Frame
<1>3. frame' = [frame EXCEPT ![t] = [frame[t] EXCEPT ![depth[t]] = call]]
  OBVIOUS
<1> HIDE DEF call
<1>4. /\ frame' \in [Threads -> [Levels -> Frame]]
      /\ \A u \in Threads, d \in Levels :
           frame'[u][d] = IF u = t /\ d = depth[t] THEN call ELSE frame[u][d]
  <2>1. [frame[t] EXCEPT ![depth[t]] = call] \in [Levels -> Frame]
    BY <1>1, <1>2
  <2>2. frame' \in [Threads -> [Levels -> Frame]]
    BY <1>1, <1>3, <2>1
  <2>3. \A u \in Threads, d \in Levels :
          frame'[u][d] = IF u = t /\ d = depth[t] THEN call ELSE frame[u][d]
    BY <1>1, <1>3
  <2> QED BY <2>2, <2>3
<1>5. TypeOK'
  BY <1>4 DEF IInv, TypeOK
<1>6. StackShape'
  BY <1>2, <1>4 DEF IInv, StackShape, NoCall, TypeOK, Levels
<1>7. \A u \in Threads, d \in Levels, x \in Entries :
        (InCallback(u, d, x)' <=> InCallback(u, d, x)) /\ (Draining(u, d, x)' <=> Draining(u, d, x))
  BY <1>2, <1>4 DEF InCallback, Draining
<1>8. VisitorsInCallback' /\ VisitorsCounted' /\ OwnerPinned' /\ OneDrainer' /\ RetiredForGood'
  BY <1>7 DEF IInv, VisitorsInCallback, VisitorsCounted, OwnerPinned, OneDrainer, RetiredForGood
<1>9. AcceptingIffRegistered'
  BY DEF IInv, AcceptingIffRegistered
<1>10. LookupStillValid'
  <2>1. \A u \in Threads, d \in Levels : frame'[u][d].pc = "begin" => frame'[u][d] = frame[u][d]
    BY <1>2, <1>4
  <2>2. ASSUME NEW u \in Threads, NEW d \in Levels,
               frame'[u][d].pc = "begin", accepting[frame'[u][d].entry]
        PROVE  registered[frame'[u][d].key] = frame'[u][d].entry
    <3>1. frame'[u][d] = frame[u][d]
      BY <2>1, <2>2
    <3>2. frame[u][d].pc = "begin" /\ accepting[frame[u][d].entry]
      BY <2>2, <3>1, Zenon
    <3>3. registered[frame[u][d].key] = frame[u][d].entry
      BY <3>2 DEF IInv, LookupStillValid
    <3> QED BY <3>1, <3>3
  <2> QED BY <2>2 DEF LookupStillValid
<1> QED BY <1>5, <1>6, <1>8, <1>9, <1>10 DEF IInv

-----------------------------------------------------------------------------
LEMMA SetStep ==
  ASSUME IInv, NEW t \in Threads, NEW k \in Keys, NEW v \in Values, Set(t, k, v)
  PROVE  IInv'
<1> USE RegistryAssumption
<1>1. PICK e \in Entries :
        /\ Unreferenced(e)
        /\ NewEntry(e, v, registered[k])
        /\ registered' = [registered EXCEPT ![k] = e]
  BY DEF Set
<1> DEFINE prev == registered[k]
           call == [pc |-> "drain", key |-> k, entry |-> prev]
<1>2. /\ prev \in Entries \cup {Null} /\ prev # e
      /\ \A u \in Threads, d \in Levels : frame[u][d].entry # e
      /\ \A j \in Keys : registered[j] # e
  BY <1>1 DEF IInv, TypeOK, Unreferenced
<1>3. prev # Null => prev \in Entries /\ accepting[prev]
  BY <1>2 DEF IInv, AcceptingIffRegistered
<1>4. /\ depth' \in [Threads -> 0 .. MaxDepth]
      /\ frame' \in [Threads -> [Levels -> Frame]]
      /\ \A u \in Threads, d \in Levels :
           \/ frame'[u][d] = frame[u][d] /\ (u # t \/ prev = Null \/ d # depth[t] + 1)
           \/ prev # Null /\ u = t /\ d = depth[t] + 1 /\ frame'[u][d] = call
      /\ \A u \in Threads : depth'[u] = IF u = t /\ prev # Null THEN depth[t] + 1 ELSE depth[u]
  <2>1. CASE prev = Null
    BY <2>1 DEF Set, IInv, TypeOK
  <2>2. CASE prev # Null
    <3>1. call \in Frame
      BY <1>3, <2>2 DEF Frame
    <3>2. Push(t, call) /\ depth[t] < MaxDepth
      BY <2>2 DEF Set, MayCall
    <3> QED BY <2>2, <3>1, <3>2, PushFrames DEF IInv
  <2> QED BY <2>1, <2>2
<1>5. /\ \A x \in Entries : accepting'[x] <=> (x = e \/ (accepting[x] /\ x # prev))
      /\ \A x \in Entries : x # e => visitors'[x] = visitors[x]
                                     /\ activeVisitors'[x] = activeVisitors[x]
                                     /\ drainedBy'[x] = drainedBy[x]
      /\ visitors'[e] = {} /\ activeVisitors'[e] = 0 /\ drainedBy'[e] = Null
      /\ \A j \in Keys : registered'[j] = IF j = k THEN e ELSE registered[j]
  BY <1>1 DEF NewEntry, IInv, TypeOK
<1> HIDE DEF call
<1>6. call.pc = "drain" /\ call.key = k /\ call.entry = prev
  BY DEF call
<1>7. \A u \in Threads, d \in Levels : frame'[u][d].entry # e
  BY <1>2, <1>4, <1>6
<1>8. TypeOK'
  BY <1>1, <1>4 DEF NewEntry, IInv, TypeOK
<1>9. StackShape'
  BY <1>3, <1>4, <1>6 DEF IInv, StackShape, Set, MayCall, At, TypeOK, NoCall, Levels
<1>10. \A u \in Threads, d \in Levels, x \in Entries : InCallback(u, d, x)' <=> InCallback(u, d, x)
  <2>1. \A u \in Threads, d \in Levels :
          prev # Null /\ u = t /\ d = depth[t] + 1 => frame[u][d].pc = "idle"
    BY DEF IInv, StackShape, NoCall, TypeOK
  <2> QED BY <1>4, <1>6, <2>1 DEF InCallback
<1>11. VisitorsInCallback'
  <2> SUFFICES ASSUME NEW x \in Entries, NEW u \in Threads, NEW d \in Levels
               PROVE  <<u, d>> \in visitors'[x] <=> InCallback(u, d, x)'
    BY DEF VisitorsInCallback
  <2>1. CASE x = e
    BY <1>5, <1>7, <2>1 DEF InCallback
  <2>2. CASE x # e
    BY <1>5, <1>10, <2>2 DEF IInv, VisitorsInCallback
  <2> QED BY <2>1, <2>2
<1>12. VisitorsCounted'
  BY <1>5, FS_EmptySet DEF IInv, VisitorsCounted
<1>13. AcceptingIffRegistered'
  <2>1. \A x \in Entries : (\E j \in Keys : registered[j] = x) <=> accepting[x]
    BY DEF IInv, AcceptingIffRegistered
  <2>2. \A i, j \in Keys : registered[i] = registered[j] /\ registered[i] # Null => i = j
    BY DEF IInv, AcceptingIffRegistered
  <2>3. ASSUME NEW x \in Entries
        PROVE  accepting'[x] <=> \E j \in Keys : registered'[j] = x
    <3>1. CASE x = e
      BY <1>5, <3>1
    <3>2. CASE x # e /\ x = prev
      BY <1>2, <1>5, <2>2, <3>2
    <3>3. CASE x # e /\ x # prev
      BY <1>5, <2>1, <3>3
    <3> QED BY <3>1, <3>2, <3>3
  <2>4. ASSUME NEW i \in Keys, NEW j \in Keys,
               registered'[i] = registered'[j], registered'[i] # Null
        PROVE  i = j
    BY <1>2, <1>5, <2>2, <2>4
  <2> QED BY <2>3, <2>4 DEF AcceptingIffRegistered
<1>14. RetiredForGood'
  <2>1. ASSUME NEW x \in Entries, NEW u \in Threads, NEW d \in Levels, Draining(u, d, x)'
        PROVE  ~accepting'[x]
    <3>1. x # e
      BY <1>7, <2>1 DEF Draining
    <3>2. x = prev \/ Draining(u, d, x)
      BY <1>4, <1>6, <2>1 DEF Draining
    <3> QED BY <1>5, <3>1, <3>2 DEF IInv, RetiredForGood
  <2>2. ASSUME NEW x \in Entries, drainedBy'[x] # Null
        PROVE  ~accepting'[x]
    BY <1>5, <2>2 DEF IInv, RetiredForGood
  <2> QED BY <2>1, <2>2 DEF RetiredForGood
<1>15. LookupStillValid'
  <2> SUFFICES ASSUME NEW u \in Threads, NEW d \in Levels,
                      frame'[u][d].pc = "begin", accepting'[frame'[u][d].entry]
               PROVE  registered'[frame'[u][d].key] = frame'[u][d].entry
    BY DEF LookupStillValid
  <2>1. frame'[u][d] = frame[u][d]
    BY <1>4, <1>6
  <2>2. frame[u][d].entry \in Entries /\ frame[u][d].key \in Keys
    <3>1. frame[u][d].pc = "begin"
      BY <2>1
    <3>2. ~(d > depth[u])
      BY <3>1 DEF IInv, StackShape, NoCall
    <3>3. d <= depth[u]
      BY <3>2 DEF IInv, TypeOK, Levels
    <3> QED BY <3>3 DEF IInv, StackShape
  <2>3. accepting[frame[u][d].entry] /\ frame[u][d].entry # prev
    BY <1>2, <1>5, <2>1, <2>2
  <2>4. registered[frame[u][d].key] = frame[u][d].entry
    BY <2>1, <2>3 DEF IInv, LookupStillValid
  <2> QED BY <1>5, <2>1, <2>2, <2>3, <2>4
<1>16. OneDrainer'
  <2>1. \A u \in Threads, d \in Levels : prev # Null => ~Draining(u, d, prev)
    BY <1>3 DEF IInv, RetiredForGood
  <2>2. \A u \in Threads, d \in Levels, x \in Entries :
          Draining(u, d, x)' => \/ Draining(u, d, x) /\ x # prev
                                \/ x = prev /\ u = t /\ d = depth[t] + 1
    BY <1>3, <1>4, <1>6, <2>1 DEF Draining
  <2> QED BY <2>2 DEF IInv, OneDrainer
<1>17. OwnerPinned'
  BY <1>5, <1>10 DEF IInv, OwnerPinned
<1> QED
  BY <1>8, <1>9, <1>11, <1>12, <1>13, <1>14, <1>15, <1>16, <1>17 DEF IInv

LEMMA EraseStep ==
  ASSUME IInv, NEW t \in Threads, NEW k \in Keys, NEW v \in Values, EraseIfMatches(t, k, v)
  PROVE  IInv'
<1> USE RegistryAssumption
<1> DEFINE prev == registered[k]
           call == [pc |-> "drain", key |-> k, entry |-> prev]
<1>1. prev \in Entries /\ accepting[prev]
  BY DEF EraseIfMatches, IInv, TypeOK, AcceptingIffRegistered
<1>2. /\ depth[t] + 1 \in Levels
      /\ call \in Frame /\ Push(t, call)
      /\ depth' \in [Threads -> 0 .. MaxDepth]
      /\ frame' \in [Threads -> [Levels -> Frame]]
      /\ \A u \in Threads : depth'[u] = IF u = t THEN depth[t] + 1 ELSE depth[u]
      /\ \A u \in Threads, d \in Levels :
           frame'[u][d] = IF u = t /\ d = depth[t] + 1 THEN call ELSE frame[u][d]
  <2>1. call \in Frame
    BY <1>1 DEF Frame
  <2> QED BY <2>1, PushFrames DEF EraseIfMatches, MayCall, IInv
<1>3. /\ \A x \in Entries : accepting'[x] <=> (accepting[x] /\ x # prev)
      /\ \A j \in Keys : registered'[j] = IF j = k THEN Null ELSE registered[j]
      /\ UNCHANGED <<value, visitors, activeVisitors, drainedBy>>
  BY <1>1 DEF EraseIfMatches, IInv, TypeOK
<1> HIDE DEF call
<1>4. call.pc = "drain" /\ call.key = k /\ call.entry = prev
  BY DEF call
<1>5. frame[t][depth[t] + 1].pc = "idle"
  BY <1>2 DEF IInv, StackShape, NoCall, TypeOK
<1>6. TypeOK'
  BY <1>1, <1>2, <1>3 DEF EraseIfMatches, IInv, TypeOK
<1>7. StackShape'
  BY <1>1, <1>2, <1>4, PushShape DEF EraseIfMatches, IInv
<1>8. \A u \in Threads, d \in Levels, x \in Entries : InCallback(u, d, x)' <=> InCallback(u, d, x)
  BY <1>2, <1>4, <1>5 DEF InCallback
<1>9. VisitorsInCallback' /\ VisitorsCounted' /\ OwnerPinned'
  BY <1>3, <1>8 DEF IInv, VisitorsInCallback, VisitorsCounted, OwnerPinned
<1>10. AcceptingIffRegistered'
  <2>1. AcceptingIffRegistered /\ Null \notin Entries
    BY DEF IInv
  <2>2. prev # Null /\ \A j \in Keys : registered'[j] # prev
    BY <1>1, <1>3, <2>1 DEF AcceptingIffRegistered
  <2> QED BY <1>1, <1>3, <2>1, <2>2 DEF AcceptingIffRegistered
<1>11. \A u \in Threads, d \in Levels, x \in Entries :
         Draining(u, d, x)' => \/ Draining(u, d, x) /\ x # prev
                               \/ x = prev /\ u = t /\ d = depth[t] + 1
  BY <1>1, <1>2, <1>4 DEF IInv, RetiredForGood, Draining
<1>12. RetiredForGood'
  BY <1>3, <1>11 DEF IInv, RetiredForGood
<1>13. OneDrainer'
  BY <1>11 DEF IInv, OneDrainer
<1>14. LookupStillValid'
  <2> SUFFICES ASSUME NEW u \in Threads, NEW d \in Levels,
                      frame'[u][d].pc = "begin", accepting'[frame'[u][d].entry]
               PROVE  registered'[frame'[u][d].key] = frame'[u][d].entry
    BY DEF LookupStillValid
  <2>1. frame'[u][d] = frame[u][d]
    BY <1>2, <1>4
  <2>2. frame[u][d].entry \in Entries /\ frame[u][d].key \in Keys
    <3>1. frame[u][d].pc = "begin"
      BY <2>1
    <3>2. ~(d > depth[u])
      BY <3>1 DEF IInv, StackShape, NoCall
    <3>3. d <= depth[u]
      BY <3>2 DEF IInv, TypeOK, Levels
    <3> QED BY <3>3 DEF IInv, StackShape
  <2>3. accepting[frame[u][d].entry] /\ frame[u][d].entry # prev
    BY <1>3, <2>1, <2>2
  <2>4. registered[frame[u][d].key] = frame[u][d].entry
    BY <2>1, <2>3 DEF IInv, LookupStillValid
  <2> QED BY <1>3, <2>1, <2>2, <2>3, <2>4
<1> QED
  BY <1>6, <1>7, <1>9, <1>10, <1>12, <1>13, <1>14 DEF IInv

LEMMA LookupStep ==
  ASSUME IInv, NEW t \in Threads, NEW k \in Keys, VisitLookup(t, k)
  PROVE  IInv'
<1> USE RegistryAssumption
<1> DEFINE call == [pc |-> "begin", key |-> k, entry |-> registered[k]]
<1>1. registered[k] \in Entries
  BY DEF VisitLookup, IInv, TypeOK
<1>2. /\ depth[t] + 1 \in Levels
      /\ call \in Frame /\ Push(t, call)
      /\ depth' \in [Threads -> 0 .. MaxDepth]
      /\ frame' \in [Threads -> [Levels -> Frame]]
      /\ \A u \in Threads : depth'[u] = IF u = t THEN depth[t] + 1 ELSE depth[u]
      /\ \A u \in Threads, d \in Levels :
           frame'[u][d] = IF u = t /\ d = depth[t] + 1 THEN call ELSE frame[u][d]
  <2>1. call \in Frame
    BY <1>1 DEF Frame
  <2> QED BY <2>1, PushFrames DEF VisitLookup, MayCall, IInv
<1> HIDE DEF call
<1>3. call.pc = "begin" /\ call.key = k /\ call.entry = registered[k]
  BY DEF call
<1>4. UNCHANGED <<registered, value, accepting, visitors, activeVisitors, drainedBy>>
  BY DEF VisitLookup
<1>5. frame[t][depth[t] + 1].pc = "idle"
  BY <1>2 DEF IInv, StackShape, NoCall, TypeOK
<1>6. TypeOK'
  BY <1>2, <1>4 DEF IInv, TypeOK
<1>7. StackShape'
  BY <1>1, <1>2, <1>3, PushShape DEF VisitLookup, IInv
<1>8. \A u \in Threads, d \in Levels, x \in Entries :
        (InCallback(u, d, x)' <=> InCallback(u, d, x)) /\ (Draining(u, d, x)' <=> Draining(u, d, x))
  BY <1>2, <1>3, <1>5 DEF InCallback, Draining
<1>9. VisitorsInCallback' /\ VisitorsCounted' /\ OwnerPinned' /\ OneDrainer' /\ RetiredForGood'
  BY <1>4, <1>8
  DEF IInv, VisitorsInCallback, VisitorsCounted, OwnerPinned, OneDrainer, RetiredForGood
<1>10. AcceptingIffRegistered'
  BY <1>4 DEF IInv, AcceptingIffRegistered
<1>11. LookupStillValid'
  BY <1>2, <1>3, <1>4 DEF IInv, LookupStillValid
<1> QED
  BY <1>6, <1>7, <1>9, <1>10, <1>11 DEF IInv

LEMMA DrainStep ==
  ASSUME IInv, NEW t \in Threads, DrainCheck(t)
  PROVE  IInv'
<1> USE RegistryAssumption
<1> DEFINE top == depth[t]
           e == frame[t][top].entry
<1>1. top \in Levels /\ frame[t][top].pc = "drain" /\ e \in Entries
  BY DEF DrainCheck, At, IInv, TypeOK, StackShape, Levels
<1>2. ~accepting[e] /\ Draining(t, top, e)
  BY <1>1 DEF IInv, RetiredForGood, Draining
<1>3. UNCHANGED <<registered, value, accepting, visitors, activeVisitors>>
  BY DEF DrainCheck
<1>4. CASE MayReturn(t, e)
  <2>1. Pop(t) /\ drainedBy' = [drainedBy EXCEPT ![e] = t]
    BY <1>4 DEF DrainCheck
  <2>2. /\ depth' \in [Threads -> 0 .. MaxDepth]
        /\ frame' \in [Threads -> [Levels -> Frame]]
        /\ \A u \in Threads : depth'[u] = IF u = t THEN depth[t] - 1 ELSE depth[u]
        /\ \A u \in Threads, d \in Levels :
             frame'[u][d] = IF u = t /\ d = depth[t] THEN NoCall ELSE frame[u][d]
    BY <2>1, PopFrames DEF DrainCheck, At, IInv
  <2>3. TypeOK'
    BY <1>1, <1>3, <2>1, <2>2 DEF IInv, TypeOK
  <2>4. StackShape'
    BY <2>2, PopShape DEF IInv, DrainCheck, At
  <2>5. \A u \in Threads, d \in Levels, x \in Entries :
          (InCallback(u, d, x)' <=> InCallback(u, d, x)) /\ (Draining(u, d, x)' => Draining(u, d, x))
    BY <1>1, <2>2 DEF InCallback, Draining, NoCall
  <2>6. VisitorsInCallback' /\ VisitorsCounted' /\ OneDrainer' /\ AcceptingIffRegistered'
    BY <1>3, <2>5 DEF IInv, VisitorsInCallback, VisitorsCounted, OneDrainer, AcceptingIffRegistered
  <2>7. LookupStillValid'
    BY <1>3, <2>2 DEF IInv, LookupStillValid, NoCall
  <2>8. RetiredForGood'
    BY <1>2, <1>3, <2>1, <2>5 DEF IInv, RetiredForGood, TypeOK
  <2>9. \A w \in visitors[e] : w[1] = t
    \* Only visits of t itself remain: as many as all visits, and among them.
    <3>1. IsFiniteSet(visitors[e]) /\ activeVisitors[e] = Cardinality(visitors[e])
      BY <1>1 DEF IInv, VisitorsCounted
    <3>2. OwnVisitors(t, e) \subseteq visitors[e]
      BY DEF OwnVisitors
    <3>3. /\ IsFiniteSet(OwnVisitors(t, e))
          /\ Cardinality(OwnVisitors(t, e)) <= Cardinality(visitors[e])
          /\ Cardinality(OwnVisitors(t, e)) = Cardinality(visitors[e])
               => OwnVisitors(t, e) = visitors[e]
      BY <3>1, <3>2, FS_Subset
    <3>4. Cardinality(OwnVisitors(t, e)) \in Nat /\ Cardinality(visitors[e]) \in Nat
      BY <3>1, <3>3, FS_CardinalityType
    <3>5. OwnVisitors(t, e) = visitors[e]
      BY <1>4, <3>1, <3>3, <3>4 DEF MayReturn
    <3> QED BY <3>5 DEF OwnVisitors
  <2>10. OwnerPinned'
    <3> SUFFICES ASSUME NEW x \in Entries, NEW u \in Threads, NEW d \in Levels,
                        drainedBy'[x] # Null, InCallback(u, d, x)'
                 PROVE  u = drainedBy'[x]
      BY DEF OwnerPinned
    <3>1. InCallback(u, d, x)
      BY <2>5
    <3>2. CASE x = e
      <4>1. <<u, d>> \in visitors[e]
        BY <3>1, <3>2 DEF IInv, VisitorsInCallback
      <4>2. u = t
        BY <4>1, <2>9
      <4> QED BY <1>1, <2>1, <3>2, <4>2 DEF IInv, TypeOK
    <3>3. CASE x # e
      BY <1>1, <2>1, <3>1, <3>3 DEF IInv, TypeOK, OwnerPinned
    <3> QED BY <3>2, <3>3
  <2> QED BY <2>3, <2>4, <2>6, <2>7, <2>8, <2>10 DEF IInv
<1>5. CASE ~MayReturn(t, e)
  <2>1. /\ frame' = [frame EXCEPT ![t][top].pc = "asleep"]
        /\ UNCHANGED <<depth, drainedBy>>
    BY <1>5 DEF DrainCheck
  <2> QED BY <1>1, <1>3, <2>1, FallAsleep DEF Moved
<1> QED BY <1>4, <1>5

LEMMA WakeStep ==
  ASSUME IInv, NEW t \in Threads, SpuriousWakeup(t)
  PROVE  IInv'
<1>1. depth[t] \in Levels /\ frame[t][depth[t]].pc = "asleep"
  BY RegistryAssumption DEF SpuriousWakeup, At, IInv, TypeOK, Levels
<1>2. Moved(t, "drain")
  BY DEF SpuriousWakeup, Moved
<1> QED BY <1>1, <1>2, FallAsleep

LEMMA BeginStep ==
  ASSUME IInv, NEW t \in Threads, VisitBegin(t)
  PROVE  IInv'
<1> USE RegistryAssumption
<1> DEFINE top == depth[t]
           e == frame[t][top].entry
<1>1. /\ top \in Levels /\ frame[t][top].pc = "begin"
      /\ e \in Entries /\ frame[t][top].key \in Keys
  BY DEF VisitBegin, At, IInv, TypeOK, StackShape, Levels
<1>2. UNCHANGED <<registered, value, accepting, drainedBy>>
  BY DEF VisitBegin
<1>3. AcceptingIffRegistered'
  BY <1>2 DEF IInv, AcceptingIffRegistered
<1>4. CASE accepting[e]
  <2> DEFINE call == [frame[t][top] EXCEPT !.pc = "callback"]
  <2>1. /\ visitors' = [visitors EXCEPT ![e] = @ \cup {<<t, top>>}]
        /\ activeVisitors' = [activeVisitors EXCEPT ![e] = @ + 1]
        /\ frame' = [frame EXCEPT ![t] = [frame[t] EXCEPT ![top] = call]]
        /\ UNCHANGED depth
    BY <1>4 DEF VisitBegin, Visitor
  <2>2. frame \in [Threads -> [Levels -> Frame]] /\ frame[t] \in [Levels -> Frame]
    BY DEF IInv, TypeOK
  <2>3. /\ call \in Frame /\ call.pc = "callback"
        /\ call.entry = e /\ call.key = frame[t][top].key
    BY <1>1, <2>2 DEF Frame
  <2> HIDE DEF call
  <2>4. /\ frame' \in [Threads -> [Levels -> Frame]]
        /\ \A u \in Threads, d \in Levels :
             frame'[u][d] = IF u = t /\ d = top THEN call ELSE frame[u][d]
    <3>1. [frame[t] EXCEPT ![top] = call] \in [Levels -> Frame]
      BY <1>1, <2>2, <2>3
    <3>2. frame' \in [Threads -> [Levels -> Frame]]
      BY <2>1, <2>2, <3>1
    <3>3. \A u \in Threads, d \in Levels :
            frame'[u][d] = IF u = t /\ d = top THEN call ELSE frame[u][d]
      BY <1>1, <2>1, <2>2
    <3> QED BY <3>2, <3>3
  <2>5. TypeOK'
    BY <1>1, <1>2, <2>1, <2>4 DEF IInv, TypeOK
  <2>6. StackShape'
    BY <1>1, <2>1, <2>3, <2>4 DEF IInv, StackShape, NoCall, TypeOK, Levels
  <2>7. \A u \in Threads, d \in Levels, x \in Entries :
          /\ InCallback(u, d, x)' <=> InCallback(u, d, x) \/ (u = t /\ d = top /\ x = e)
          /\ Draining(u, d, x)' <=> Draining(u, d, x)
    BY <1>1, <2>3, <2>4 DEF InCallback, Draining
  <2>8. \A x \in Entries : visitors'[x] = IF x = e THEN visitors[e] \cup {<<t, top>>} ELSE visitors[x]
    BY <1>1, <2>1 DEF IInv, TypeOK
  <2>9. VisitorsInCallback'
    <3> SUFFICES ASSUME NEW x \in Entries, NEW u \in Threads, NEW d \in Levels
                 PROVE  <<u, d>> \in visitors'[x] <=> InCallback(u, d, x)'
      BY DEF VisitorsInCallback
    <3>1. <<u, d>> \in visitors[x] <=> InCallback(u, d, x)
      BY DEF IInv, VisitorsInCallback
    <3>2. InCallback(u, d, x)' <=> InCallback(u, d, x) \/ (u = t /\ d = top /\ x = e)
      BY <2>7
    <3>3. <<u, d>> \in visitors'[x] <=> <<u, d>> \in visitors[x] \/ (u = t /\ d = top /\ x = e)
      BY <2>8
    <3> QED BY <3>1, <3>2, <3>3
  <2>10. VisitorsCounted'
    <3>1. <<t, top>> \notin visitors[e]
      BY <1>1 DEF IInv, VisitorsInCallback, InCallback
    <3>2. /\ IsFiniteSet(visitors[e] \cup {<<t, top>>})
          /\ Cardinality(visitors[e] \cup {<<t, top>>}) = activeVisitors[e] + 1
      <4>1. IsFiniteSet(visitors[e]) /\ activeVisitors[e] = Cardinality(visitors[e])
        BY <1>1 DEF IInv, VisitorsCounted
      <4>2. /\ IsFiniteSet(visitors[e] \cup {<<t, top>>})
            /\ Cardinality(visitors[e] \cup {<<t, top>>})
                 = IF <<t, top>> \in visitors[e] THEN Cardinality(visitors[e])
                                                ELSE Cardinality(visitors[e]) + 1
        BY <4>1, FS_AddElement
      <4> QED BY <3>1, <4>1, <4>2
    <3>3. \A x \in Entries :
            activeVisitors'[x] = IF x = e THEN activeVisitors[e] + 1 ELSE activeVisitors[x]
      BY <1>1, <2>1 DEF IInv, TypeOK
    <3>4. ASSUME NEW x \in Entries
          PROVE  IsFiniteSet(visitors'[x]) /\ activeVisitors'[x] = Cardinality(visitors'[x])
      <4>1. CASE x = e
        BY <2>8, <3>2, <3>3, <4>1
      <4>2. CASE x # e
        BY <2>8, <3>3, <4>2 DEF IInv, VisitorsCounted
      <4> QED BY <4>1, <4>2
    <3> QED BY <3>4 DEF VisitorsCounted
  <2>11. OneDrainer' /\ RetiredForGood'
    BY <1>2, <2>7 DEF IInv, OneDrainer, RetiredForGood
  <2>12. OwnerPinned'
    BY <1>1, <1>2, <1>4, <2>7 DEF IInv, OwnerPinned, RetiredForGood
  <2>13. LookupStillValid'
    <3>1. \A u \in Threads, d \in Levels : frame'[u][d].pc = "begin" => frame'[u][d] = frame[u][d]
      BY <2>3, <2>4
    <3>2. ASSUME NEW u \in Threads, NEW d \in Levels,
                 frame'[u][d].pc = "begin", accepting[frame'[u][d].entry]
          PROVE  registered[frame'[u][d].key] = frame'[u][d].entry
      <4>1. frame'[u][d] = frame[u][d]
        BY <3>1, <3>2
      <4>2. frame[u][d].pc = "begin" /\ accepting[frame[u][d].entry]
        BY <3>2, <4>1, Zenon
      <4>3. registered[frame[u][d].key] = frame[u][d].entry
        BY <4>2 DEF IInv, LookupStillValid
      <4> QED BY <4>1, <4>3
    <3> QED BY <1>2, <3>2 DEF LookupStillValid
  <2> QED BY <1>3, <2>5, <2>6, <2>9, <2>10, <2>11, <2>12, <2>13 DEF IInv
<1>5. CASE ~accepting[e]
  <2>1. Pop(t) /\ UNCHANGED <<visitors, activeVisitors>>
    BY <1>5 DEF VisitBegin
  <2>2. /\ depth' \in [Threads -> 0 .. MaxDepth]
        /\ frame' \in [Threads -> [Levels -> Frame]]
        /\ \A u \in Threads : depth'[u] = IF u = t THEN depth[t] - 1 ELSE depth[u]
        /\ \A u \in Threads, d \in Levels :
             frame'[u][d] = IF u = t /\ d = depth[t] THEN NoCall ELSE frame[u][d]
    BY <2>1, PopFrames DEF VisitBegin, At, IInv
  <2>3. TypeOK'
    BY <1>2, <2>1, <2>2 DEF IInv, TypeOK
  <2>4. StackShape'
    BY <2>2, PopShape DEF IInv, VisitBegin, At
  <2>5. \A u \in Threads, d \in Levels, x \in Entries :
          (InCallback(u, d, x)' <=> InCallback(u, d, x)) /\ (Draining(u, d, x)' <=> Draining(u, d, x))
    BY <1>1, <2>2 DEF InCallback, Draining, NoCall
  <2>6. VisitorsInCallback' /\ VisitorsCounted' /\ OneDrainer' /\ RetiredForGood' /\ OwnerPinned'
    BY <1>2, <2>1, <2>5
    DEF IInv, VisitorsInCallback, VisitorsCounted, OneDrainer, RetiredForGood, OwnerPinned
  <2>7. LookupStillValid'
    BY <1>2, <2>2 DEF IInv, LookupStillValid, NoCall
  <2> QED BY <1>3, <2>3, <2>4, <2>6, <2>7 DEF IInv
<1> QED BY <1>4, <1>5

LEMMA EndStep ==
  ASSUME IInv, NEW t \in Threads, VisitEnd(t)
  PROVE  IInv'
<1> USE RegistryAssumption
<1> DEFINE top == depth[t]
           e == frame[t][top].entry
<1>1. /\ top \in Levels /\ frame[t][top].pc = "callback" /\ depth[t] > 0
      /\ e \in Entries
  BY DEF VisitEnd, At, IInv, TypeOK, StackShape, Levels
<1>2. /\ visitors' = [visitors EXCEPT ![e] = @ \ {<<t, top>>}]
      /\ activeVisitors' = [activeVisitors EXCEPT ![e] = @ - 1]
      /\ depth' = [depth EXCEPT ![t] = @ - 1]
      /\ frame' = Notified(t, e)
      /\ UNCHANGED <<registered, value, accepting, drainedBy>>
  BY DEF VisitEnd, Visitor
<1>3. ASSUME NEW u \in Threads, NEW d \in Levels
      PROVE  /\ frame'[u][d] \in Frame
             /\ u = t /\ d = top => frame'[u][d] = NoCall
             /\ ~(u = t /\ d = top) =>
                  /\ frame'[u][d].entry = frame[u][d].entry
                  /\ frame'[u][d].key = frame[u][d].key
                  /\ \/ frame[u][d].pc = "asleep" /\ frame'[u][d].pc = "drain"
                     \/ frame'[u][d] = frame[u][d]
  <2>1. frame'[u][d] =
          IF u = t /\ d = top THEN NoCall
          ELSE IF ~accepting[e] /\ frame[u][d].entry = e /\ frame[u][d].pc = "asleep"
            THEN [frame[u][d] EXCEPT !.pc = "drain"]
            ELSE frame[u][d]
    BY <1>2 DEF Notified
  <2>2. frame[u][d] \in Frame /\ NoCall \in Frame
    BY DEF IInv, TypeOK, Frame, NoCall
  <2> DEFINE woken == [frame[u][d] EXCEPT !.pc = "drain"]
  <2>3. /\ woken \in Frame /\ woken.pc = "drain"
        /\ woken.entry = frame[u][d].entry /\ woken.key = frame[u][d].key
    BY <2>2 DEF Frame
  <2> QED BY <2>1, <2>2, <2>3
<1>4. /\ depth' \in [Threads -> 0 .. MaxDepth]
      /\ \A u \in Threads : depth'[u] = IF u = t THEN depth[t] - 1 ELSE depth[u]
  BY <1>1, <1>2 DEF IInv, TypeOK
<1>5. \A x \in Entries :
        /\ visitors'[x] = IF x = e THEN visitors[e] \ {<<t, top>>} ELSE visitors[x]
        /\ activeVisitors'[x] = IF x = e THEN activeVisitors[e] - 1 ELSE activeVisitors[x]
  BY <1>1, <1>2 DEF IInv, TypeOK
<1>6. /\ IsFiniteSet(visitors[e] \ {<<t, top>>})
      /\ Cardinality(visitors[e] \ {<<t, top>>}) = activeVisitors[e] - 1
      /\ activeVisitors[e] - 1 \in Nat
  <2>1. IsFiniteSet(visitors[e]) /\ activeVisitors[e] = Cardinality(visitors[e])
    BY <1>1 DEF IInv, VisitorsCounted
  <2>2. <<t, top>> \in visitors[e]
    BY <1>1 DEF IInv, VisitorsInCallback, InCallback
  <2>3. /\ IsFiniteSet(visitors[e] \ {<<t, top>>})
        /\ Cardinality(visitors[e] \ {<<t, top>>})
             = IF <<t, top>> \in visitors[e] THEN Cardinality(visitors[e]) - 1
                                            ELSE Cardinality(visitors[e])
    BY <2>1, FS_RemoveElement
  <2>4. Cardinality(visitors[e] \ {<<t, top>>}) \in Nat
    BY <2>3, FS_CardinalityType
  <2> QED BY <2>1, <2>2, <2>3, <2>4
<1>7. TypeOK'
  <2>1. frame' \in [Threads -> [Levels -> Frame]]
    BY <1>2, <1>3 DEF Notified
  <2>2. visitors' \in [Entries -> SUBSET (Threads \X Levels)]
    BY <1>1, <1>2 DEF IInv, TypeOK
  <2>3. activeVisitors' \in [Entries -> Nat]
    BY <1>1, <1>2, <1>6 DEF IInv, TypeOK
  <2> QED BY <1>2, <1>4, <2>1, <2>2, <2>3 DEF IInv, TypeOK
<1>8. StackShape'
  BY <1>1, <1>3, <1>4, PopShape DEF IInv
<1>9. \A u \in Threads, d \in Levels, x \in Entries :
        /\ InCallback(u, d, x)' <=> InCallback(u, d, x) /\ ~(u = t /\ d = top)
        /\ Draining(u, d, x)' <=> Draining(u, d, x)
  BY <1>1, <1>3 DEF InCallback, Draining, NoCall
<1>10. VisitorsInCallback'
  <2> SUFFICES ASSUME NEW x \in Entries, NEW u \in Threads, NEW d \in Levels
               PROVE  <<u, d>> \in visitors'[x] <=> InCallback(u, d, x)'
    BY DEF VisitorsInCallback
  <2>1. <<u, d>> \in visitors[x] <=> InCallback(u, d, x)
    BY DEF IInv, VisitorsInCallback
  <2>2. InCallback(u, d, x)' <=> InCallback(u, d, x) /\ ~(u = t /\ d = top)
    BY <1>9
  <2>3. CASE x = e
    <3>1. <<u, d>> \in visitors'[x] <=> <<u, d>> \in visitors[x] /\ ~(u = t /\ d = top)
      BY <1>5, <2>3
    <3> QED BY <2>1, <2>2, <3>1
  <2>4. CASE x # e
    <3>1. <<u, d>> \in visitors'[x] <=> <<u, d>> \in visitors[x]
      BY <1>5, <2>4
    <3>2. u = t /\ d = top => ~InCallback(u, d, x)
      BY <2>4 DEF InCallback
    <3> QED BY <2>1, <2>2, <3>1, <3>2
  <2> QED BY <2>3, <2>4
<1>11. VisitorsCounted'
  <2> SUFFICES ASSUME NEW x \in Entries
               PROVE  IsFiniteSet(visitors'[x]) /\ activeVisitors'[x] = Cardinality(visitors'[x])
    BY DEF VisitorsCounted
  <2>1. CASE x = e
    BY <1>5, <1>6, <2>1
  <2>2. CASE x # e
    BY <1>5, <2>2 DEF IInv, VisitorsCounted
  <2> QED BY <2>1, <2>2
<1>12. OwnerPinned' /\ RetiredForGood' /\ OneDrainer' /\ AcceptingIffRegistered'
  BY <1>2, <1>9 DEF IInv, OwnerPinned, RetiredForGood, OneDrainer, AcceptingIffRegistered
<1>13. LookupStillValid'
  <2>1. ASSUME NEW u \in Threads, NEW d \in Levels,
               frame'[u][d].pc = "begin", accepting[frame'[u][d].entry]
        PROVE  registered[frame'[u][d].key] = frame'[u][d].entry
    <3>1. frame'[u][d] = frame[u][d]
      BY <1>3, <2>1 DEF NoCall
    <3>2. frame[u][d].pc = "begin" /\ accepting[frame[u][d].entry]
      BY <2>1, <3>1, Zenon
    <3>3. registered[frame[u][d].key] = frame[u][d].entry
      BY <3>2 DEF IInv, LookupStillValid
    <3> QED BY <3>1, <3>3
  <2> QED BY <1>2, <2>1 DEF LookupStillValid
<1> QED BY <1>7, <1>8, <1>10, <1>11, <1>12, <1>13 DEF IInv

-----------------------------------------------------------------------------
LEMMA NextIInv == IInv /\ [Next]_vars => IInv'
<1> SUFFICES ASSUME IInv, [Next]_vars PROVE IInv'
  OBVIOUS
<1>1. ASSUME NEW t \in Threads, Step(t) PROVE IInv'
  BY <1>1, SetStep, EraseStep, LookupStep, BeginStep, EndStep, DrainStep, WakeStep DEF Step
<1>2. CASE UNCHANGED vars
  BY <1>2
  DEF vars, IInv, TypeOK, StackShape, VisitorsInCallback, VisitorsCounted, AcceptingIffRegistered,
      RetiredForGood, LookupStillValid, OneDrainer, OwnerPinned, InCallback, Draining
<1> QED BY <1>1, <1>2 DEF Next

LEMMA IInvAlways == Spec => []IInv
  BY InitIInv, NextIInv, PTL DEF Spec

(***************************************************************************)
(* Type correctness: among other things, the count of active visitors of   *)
(* an Entry never goes below zero (Entry::end).                            *)
(***************************************************************************)
THEOREM TypeCorrect == Spec => []TypeOK
<1>1. IInv => TypeOK
  BY DEF IInv
<1> QED BY <1>1, IInvAlways, PTL

(***************************************************************************)
(* When set() or eraseIfMatches() has returned, no other thread is inside  *)
(* a callback on the registration it retired: for any number of threads,   *)
(* keys and nested calls, the owner may destroy the object.                *)
(***************************************************************************)
THEOREM OwnersPinned == Spec => []OwnerPinned
<1>1. IInv => OwnerPinned
  BY DEF IInv
<1> QED BY <1>1, IInvAlways, PTL

(***************************************************************************)
(* The map holds exactly the registrations that accept visits, and a       *)
(* retired one is drained by a single call.                                *)
(***************************************************************************)
THEOREM RegistrationsSound == Spec => [](AcceptingIffRegistered /\ OneDrainer)
<1>1. IInv => AcceptingIffRegistered /\ OneDrainer
  BY DEF IInv
<1> QED BY <1>1, IInvAlways, PTL

\* Entry::begin is the only way into a callback.
LEMMA OnlyBeginEnters ==
  ASSUME IInv, NEW u \in Threads, Step(u), NEW t \in Threads, NEW d \in Levels,
         frame[t][d].pc = "begin", frame'[t][d].pc = "callback"
  PROVE  accepting[frame[t][d].entry]
<1> USE RegistryAssumption
<1>1. ASSUME NEW call \in Frame, call.pc \in {"drain", "begin"}, depth[u] < MaxDepth, Push(u, call)
      PROVE  FALSE
  BY <1>1, PushFrames DEF IInv
<1>2. ASSUME depth[u] > 0, Pop(u) PROVE FALSE
  BY <1>2, PopFrames DEF IInv, NoCall
<1>3. ASSUME NEW k \in Keys, NEW v \in Values, Set(u, k, v) PROVE FALSE
  <2>1. CASE registered[k] = Null
    BY <1>3, <2>1 DEF Set
  <2>2. CASE registered[k] # Null
    <3> DEFINE call == [pc |-> "drain", key |-> k, entry |-> registered[k]]
    <3>1. call \in Frame /\ call.pc = "drain"
      BY <2>2 DEF Frame, IInv, TypeOK
    <3> QED BY <1>1, <1>3, <2>2, <3>1 DEF Set, MayCall
  <2> QED BY <2>1, <2>2
<1>4. ASSUME NEW k \in Keys, NEW v \in Values, EraseIfMatches(u, k, v) PROVE FALSE
  <2> DEFINE call == [pc |-> "drain", key |-> k, entry |-> registered[k]]
  <2>1. call \in Frame /\ call.pc = "drain"
    BY DEF Frame, IInv, TypeOK
  <2> QED BY <1>1, <1>4, <2>1 DEF EraseIfMatches, MayCall
<1>5. ASSUME NEW k \in Keys, VisitLookup(u, k) PROVE FALSE
  <2> DEFINE call == [pc |-> "begin", key |-> k, entry |-> registered[k]]
  <2>1. call \in Frame /\ call.pc = "begin"
    BY DEF Frame, IInv, TypeOK
  <2> QED BY <1>1, <1>5, <2>1 DEF VisitLookup, MayCall
<1> DEFINE top == depth[u]
<1>6. /\ frame \in [Threads -> [Levels -> Frame]] /\ frame[u] \in [Levels -> Frame]
      /\ top > 0 => top \in Levels
  BY DEF IInv, TypeOK, Levels
<1>7. CASE VisitBegin(u)
  <2>1. accepting[frame[u][top].entry]
    BY <1>2, <1>7 DEF VisitBegin, At
  <2>2. frame' = [frame EXCEPT ![u][top].pc = "callback"] /\ top > 0
    BY <1>7, <2>1 DEF VisitBegin, At
  <2>3. ~(t = u /\ d = top) => frame'[t][d] = frame[t][d]
    BY <1>6, <2>2
  <2>4. t = u /\ d = top
    BY <2>3
  <2> QED BY <2>1, <2>4
<1>8. ASSUME VisitEnd(u) PROVE FALSE
  <2>1. frame' = Notified(u, frame[u][top].entry)
    BY <1>8 DEF VisitEnd
  <2> QED BY <1>6, <2>1 DEF Notified, NoCall
<1>9. ASSUME NEW pc \in {"drain", "asleep"}, top > 0, frame' = [frame EXCEPT ![u][top].pc = pc]
      PROVE  FALSE
  <2>1. frame' = [frame EXCEPT ![u] = [frame[u] EXCEPT ![top] = [frame[u][top] EXCEPT !.pc = pc]]]
    BY <1>9
  <2>2. frame[u][top] \in Frame
    BY <1>6, <1>9
  <2>3. [frame[u][top] EXCEPT !.pc = pc].pc = pc
    BY <2>2 DEF Frame
  <2> QED BY <1>6, <1>9, <2>1, <2>3
<1>10. ASSUME DrainCheck(u) PROVE FALSE
  BY <1>2, <1>9, <1>10 DEF DrainCheck, At
<1>11. ASSUME SpuriousWakeup(u) PROVE FALSE
  BY <1>9, <1>11 DEF SpuriousWakeup, At
<1> QED BY <1>3, <1>4, <1>5, <1>7, <1>8, <1>10, <1>11 DEF Step

(***************************************************************************)
(* A callback is entered only on the registration its key has at that      *)
(* moment (visit() and Entry::begin).                                      *)
(***************************************************************************)
THEOREM EntersCurrent == Spec => EntersCurrentRegistration
<1>1. ASSUME IInv, [Next]_vars, NEW t \in Threads, NEW d \in Levels,
             frame[t][d].pc = "begin", frame'[t][d].pc = "callback"
      PROVE  registered[frame[t][d].key] = frame[t][d].entry
  <2>1. PICK u \in Threads : Step(u)
    BY <1>1 DEF Next, vars
  <2>2. accepting[frame[t][d].entry]
    BY <1>1, <2>1, OnlyBeginEnters
  <2> QED BY <1>1, <2>2 DEF IInv, LookupStillValid
<1>2. IInv /\ [Next]_vars =>
        [\A t \in Threads, d \in Levels :
           frame[t][d].pc = "begin" /\ frame'[t][d].pc = "callback"
             => registered[frame[t][d].key] = frame[t][d].entry]_vars
  BY <1>1
<1> QED BY <1>2, IInvAlways, PTL DEF Spec, EntersCurrentRegistration
=============================================================================

------------------------ MODULE PolysynthStateProofs ------------------------
(***************************************************************************)
(* Proofs about PolysynthState, for any number of loads and events, any    *)
(* release times, and any number of publications of the host snapshot      *)
(* during one read of it that its sequence number can tell apart.          *)
(***************************************************************************)
EXTENDS PolysynthState, WellFoundedInduction, TLAPS

(***************************************************************************)
(* The inductive invariant.                                                *)
(***************************************************************************)

\* What the main thread does: it is in the middle of a load, or about to announce it.
Loading == main.pc \in {"pendBegin", "pendOther", "pendRelease", "pendEnd", "bump"}

\* The audio thread reads the pending snapshot, or has read it.
Replaying == audio.pc \in {"readBefore", "readOther", "readRelease", "readAfter", "recheck"}

\* It has applied the loaded state in this call.
Replayed == ~AudioIdle /\ audio.replay

\* It publishes the whole of the engine, or one field.
Publishing == audio.pc \in {"pubBegin", "pubOther", "pubRelease", "pubEnd", "pubRevision"}
Storing == audio.pc \in {"oneBegin", "one", "oneEnd"}

\* The processor only runs while it is active, with finitely many release times.
Inactive ==
  /\ ~active => AudioIdle /\ voices = {}
  /\ \E longest \in Nat : \A n \in voices : n <= longest
  /\ Storing => audio.flush

\* A load under way is newer than the last one, and stays inside the bound.
LoadsInOrder ==
  /\ lastLoad <= changes /\ loaded <= changes
  /\ Loading => /\ active
                /\ main.value.other = main.value.release
                /\ lastLoad <= main.value.other /\ main.value.other <= changes
                /\ loaded < changes

\* The sequence number of the pending snapshot tells the revision, and what it holds.
PendingIsWhole ==
  LET old == lastLoad
      new == main.value.other
  IN  CASE main.pc \in {"pendOther", "pendRelease", "pendEnd"} ->
             /\ pending.seq = 2 * loaded + 1
             /\ pending.value.other = IF main.pc = "pendOther" THEN old ELSE new
             /\ pending.value.release = IF main.pc = "pendEnd" THEN new ELSE old
        [] main.pc = "bump" -> /\ pending.seq = 2 * loaded + 2
                               /\ pending.value.other = new /\ pending.value.release = new
        [] OTHER -> /\ pending.seq = 2 * loaded
                    /\ pending.value.other = old /\ pending.value.release = old

\* The revisions are published one after the other.
Revisions ==
  /\ published <= applied /\ applied <= loaded /\ tailRevision <= applied
  /\ Replaying => applied < audio.revision
  /\ Replayed => applied <= audio.revision
  /\ Replayed /\ audio.flush => applied = audio.revision
  /\ Replaying \/ Replayed => audio.revision <= loaded
  /\ ~Publishing => published = applied

\* What was read of the pending snapshot is what is still in it, if its number is still the same;
\* and a whole snapshot is that of the revision its number tells.
ReplayIsWhole ==
  /\ audio.pc \in {"readOther", "readRelease", "readAfter", "recheck"} =>
       /\ ~Odd(audio.seq) /\ 2 * audio.revision <= audio.seq /\ audio.seq <= pending.seq
       /\ audio.seq = pending.seq =>
            /\ audio.pc # "readOther" => audio.value.other = pending.value.other
            /\ audio.pc \in {"readAfter", "recheck"} => audio.value.release = pending.value.release
  /\ audio.pc = "recheck" /\ audio.seq = 2 * loaded =>
       audio.value.other = lastLoad /\ audio.value.release = lastLoad

\* The engine has the last load, and the host sees it, when the revisions say so.
EngineIsNew ==
  active /\ (applied = loaded \/ (Replayed /\ audio.revision = loaded)) =>
    \A f \in Fields : engine[f] >= lastLoad

HostIsNew == published = loaded => \A f \in Fields : host.value[f] >= lastLoad

\* The host snapshot is being written exactly while its number is odd.
HostIsWritten ==
  /\ Odd(host.seq) <=> audio.pc \in {"pubOther", "pubRelease", "pubEnd", "one", "oneEnd"}
  /\ audio.pc \in {"pubRelease", "pubEnd", "pubRevision"} => host.value.other = engine.other
  /\ audio.pc \in {"pubEnd", "pubRevision"} => host.value.release = engine.release

\* How far the number of the host snapshot is from the one the read began with.
Distance == 2 * laps - (IF Odd(host.seq) THEN 1 ELSE 0)

\* What was read of the host snapshot is what is still in it, if its number is still the same.
ReadIsWhole ==
  /\ Reading => /\ loaded = published
                /\ ~Odd(host.seq) => host.value \in current
  /\ main.pc \in {"readOther", "readRelease", "readAfter"} =>
       /\ ~Odd(main.seq) /\ Distance >= 0
       /\ host.seq = main.seq + Distance \/ host.seq = main.seq + Distance - HostModulus
       /\ host.seq = main.seq =>
            /\ main.pc # "readOther" => main.value.other = host.value.other
            /\ main.pc = "readAfter" => main.value.release = host.value.release

\* Nothing has been done since the last block or the last event of a flush.
Settled == active /\ ~failed /\ (AudioIdle \/ Replaying \/ (audio.pc = "events" /\ audio.flush))

\* Then the host sees what the engine has, and also before the tail of a block is published.
HostIsEngine ==
  /\ Settled => host.value = engine
  /\ ~failed /\ Storing =>
       \A f \in Fields : f # audio.field \/ audio.pc = "oneEnd" => host.value[f] = engine[f]
  /\ audio.pc \in {"tail", "tailRevision"} /\ (~audio.flush \/ ~failed) => host.value = engine

\* The tail covers the engine and its voices.
Covered == \A n \in voices \cup {samples[engine.release]} : n <= tail

EngineIsCovered ==
  /\ Settled \/ audio.pc = "tailRevision" => Covered
  /\ ~failed /\ Storing /\ audio.field # "release" => Covered

\* The tail of a load is kept until the engine has it.
LoadIsCovered ==
  /\ Loading => samples[main.value.other] <= pendingTail
  /\ active /\ tailRevision # loaded /\ ~Loading => samples[lastLoad] <= pendingTail
  /\ main.pc = "tailMax" => samples[lastLoad] <= pendingTail
  /\ active /\ tailRevision = loaded /\ engine.release <= lastLoad => samples[lastLoad] <= tail
  /\ active /\ main.pc = "tailCurrent" => tailRevision = loaded
  /\ active /\ main.pc = "tailDone" =>
       \/ samples[lastLoad] <= main.tail
       \/ tailRevision = loaded /\ lastLoad < engine.release

IInv ==
  /\ TypeOK /\ Inactive /\ LoadsInOrder /\ PendingIsWhole /\ Revisions /\ ReplayIsWhole
  /\ EngineIsNew /\ HostIsNew /\ HostIsWritten /\ ReadIsWhole /\ HostIsEngine
  /\ EngineIsCovered /\ LoadIsCovered /\ SaveIsCurrent
-----------------------------------------------------------------------------
(* Numbers. *)

LEMMA BoundsAreNat ==
  /\ MaxChanges \in Nat /\ MaxLaps \in Nat /\ MaxLaps > 0
  /\ HostModulus \in Nat /\ HostModulus = 2 * MaxLaps + 2
  /\ \A n \in Samples : n \in Nat /\ n > 0
  BY StateAssumption DEF HostModulus

LEMMA Parity ==
  ASSUME NEW s \in Nat
  PROVE  /\ Odd(s + 1) <=> ~Odd(s)
         /\ Odd(s + 2) <=> Odd(s)
         /\ ~Odd(2 * s) /\ Odd(2 * s + 1) /\ ~Odd(2 * s + 2)
  BY DEF Odd

\* The number after the last is 0.
LEMMA Wrap ==
  ASSUME NEW s \in 0 .. HostModulus - 1
  PROVE  /\ (s + 1) % HostModulus = IF s + 1 = HostModulus THEN 0 ELSE s + 1
         /\ (s + 2) % HostModulus = IF s + 2 < HostModulus THEN s + 2 ELSE s + 2 - HostModulus
         /\ (s + 1) % HostModulus \in 0 .. HostModulus - 1
         /\ (s + 2) % HostModulus \in 0 .. HostModulus - 1
         /\ Odd((s + 1) % HostModulus) <=> ~Odd(s)
         /\ Odd((s + 2) % HostModulus) <=> Odd(s)
<1> DEFINE C == HostModulus
<1>1. C \in Nat /\ C > 2 /\ C = 2 * MaxLaps + 2 /\ MaxLaps \in Nat
  BY BoundsAreNat
<1> HIDE DEF C
<1>2. s \in Nat /\ s < C
  BY <1>1 DEF C
<1>3. (s + 1) % C = IF s + 1 = C THEN 0 ELSE s + 1
  BY <1>1, <1>2
<1>4. (s + 2) % C = IF s + 2 < C THEN s + 2 ELSE s + 2 - C
  <2>1. CASE s + 2 < C
    BY <1>1, <1>2, <2>1
  <2>2. CASE ~(s + 2 < C)
    <3>1. s + 2 = C \/ s + 2 = C + 1
      BY <1>1, <1>2, <2>2
    <3>2. C % C = 0 /\ (C + 1) % C = 1
      BY <1>1
    <3> QED BY <1>1, <1>2, <2>2, <3>1, <3>2
  <2> QED BY <2>1, <2>2
<1>5. (s + 1) % C \in 0 .. C - 1 /\ (s + 2) % C \in 0 .. C - 1
  BY <1>1, <1>2, <1>3, <1>4
<1>6. ~Odd(0) /\ Odd(1) /\ ~Odd(C) /\ Odd(C + 1)
  <2>1. C = 2 * (MaxLaps + 1) /\ MaxLaps + 1 \in Nat
    BY <1>1
  <2>2. ~Odd(2 * (MaxLaps + 1)) /\ Odd(2 * (MaxLaps + 1) + 1)
    BY <2>1, Parity
  <2>3. ~Odd(0) /\ Odd(1)
    BY DEF Odd
  <2> QED BY <2>1, <2>2, <2>3
<1>7. Odd((s + 1) % C) <=> ~Odd(s)
  <2>1. Odd(s + 1) <=> ~Odd(s)
    BY <1>2, Parity
  <2> QED BY <1>3, <1>6, <2>1
<1>8. Odd((s + 2) % C) <=> Odd(s)
  <2>1. Odd(s + 2) <=> Odd(s)
    BY <1>2, Parity
  <2>2. s + 2 < C \/ s + 2 = C \/ s + 2 = C + 1
    BY <1>1, <1>2
  <2>3. CASE s + 2 < C
    BY <1>4, <2>1, <2>3
  <2>4. CASE s + 2 = C
    BY <1>1, <1>4, <1>6, <2>1, <2>4
  <2>5. CASE s + 2 = C + 1
    <3>1. (s + 2) % C = 1
      BY <1>1, <1>4, <2>5
    <3> QED BY <1>6, <2>1, <2>5, <3>1
  <2> QED BY <2>2, <2>3, <2>4, <2>5
<1> QED BY <1>3, <1>4, <1>5, <1>7, <1>8 DEF C

LessThan == {pair \in Nat \X Nat : pair[1] < pair[2]}

\* The longest of some release times, that are not longer and longer without end.
LEMMA LongestIsBound ==
  ASSUME NEW S \in SUBSET Nat, S # {}, NEW b \in Nat, \A n \in S : n <= b
  PROVE  Longest(S) \in S /\ \A n \in S : n <= Longest(S)
<1> DEFINE short == {b - n : n \in S}
<1>1. IsWellFoundedOn(LessThan, Nat)
  BY NatLessThanWellFounded DEF OpToRel, LessThan
<1>2. short \in SUBSET Nat /\ short # {}
  <2>1. \A n \in S : b - n \in Nat
    OBVIOUS
  <2> QED BY <2>1
<1>3. PICK m \in short : \A k \in short : <<k, m>> \notin LessThan
  BY <1>1, <1>2, WFMin
<1>4. PICK n \in S : m = b - n
  BY <1>3
<1>5. ASSUME NEW k \in S PROVE k <= n
  <2>1. b - k \in short /\ b - k \in Nat /\ m \in Nat
    BY <1>2, <1>3
  <2>2. ~(b - k < m)
    BY <1>3, <2>1 DEF LessThan
  <2> QED BY <1>4, <2>2
<1> QED BY <1>4, <1>5 DEF Longest

\* Of one release time and some others.
LEMMA LongestOf ==
  ASSUME NEW n \in Samples, NEW T \in SUBSET Samples, NEW b \in Nat, \A m \in T : m <= b
  PROVE  /\ Longest({n} \cup T) \in Samples /\ n <= Longest({n} \cup T)
         /\ \A m \in T : m <= Longest({n} \cup T)
<1> DEFINE S == {n} \cup T
           bound == n + b
<1>1. S \in SUBSET Nat /\ S # {} /\ S \subseteq Samples /\ n \in S /\ T \subseteq S
  BY BoundsAreNat
<1>2. bound \in Nat /\ \A m \in S : m <= bound
  BY BoundsAreNat
<1> HIDE DEF bound, S
<1>3. Longest(S) \in S /\ \A m \in S : m <= Longest(S)
  BY <1>1, <1>2, LongestIsBound
<1> QED BY <1>1, <1>3 DEF S

LEMMA LongestOfTwo ==
  ASSUME NEW n \in Samples, NEW m \in Samples
  PROVE  Longest({n, m}) \in Samples /\ n <= Longest({n, m}) /\ m <= Longest({n, m})
<1>1. {n, m} = {n} \cup {m} /\ {m} \in SUBSET Samples /\ m \in Nat /\ \A k \in {m} : k <= m
  BY BoundsAreNat
<1>2. /\ Longest({n} \cup {m}) \in Samples /\ n <= Longest({n} \cup {m})
      /\ \A k \in {m} : k <= Longest({n} \cup {m})
  BY <1>1, LongestOf
<1> QED BY <1>1, <1>2
-----------------------------------------------------------------------------
(* Types. *)

MainRecords == [pc : MainSteps, seq : 0 .. HostModulus - 1, value : Snapshot, tail : {0} \cup Samples]
AudioRecords == [pc : AudioSteps, flush : BOOLEAN, revision : Changes, replay : BOOLEAN,
                 seq : 0 .. 2 * MaxChanges, value : Snapshot, field : Fields]

LEMMA Zeros ==
  /\ 0 \in Changes /\ 0 \in 0 .. HostModulus - 1 /\ 0 \in 0 .. 2 * MaxChanges /\ 0 \in 0 .. MaxLaps
  /\ \A n \in Changes : Both(n) \in Snapshot /\ Both(n).other = n /\ Both(n).release = n
  /\ "other" \in Fields /\ "release" \in Fields /\ \A f \in Fields : f = "other" \/ f = "release"
  /\ Resting \in MainRecords /\ NoCall \in AudioRecords
  /\ Changes \subseteq Nat
<1>1. /\ 0 \in Changes /\ 0 \in 0 .. HostModulus - 1 /\ 0 \in 0 .. 2 * MaxChanges /\ 0 \in 0 .. MaxLaps
      /\ Changes \subseteq Nat
  BY BoundsAreNat DEF Changes
<1>2. \A n \in Changes : Both(n) \in Snapshot /\ Both(n).other = n /\ Both(n).release = n
  BY DEF Both, Snapshot, Fields
<1>3. "other" \in Fields /\ "release" \in Fields /\ \A f \in Fields : f = "other" \/ f = "release"
  BY DEF Fields
<1>4. Resting \in MainRecords /\ NoCall \in AudioRecords
  BY <1>1, <1>2, <1>3 DEF Resting, NoCall, MainRecords, AudioRecords, MainSteps, AudioSteps
<1> QED BY <1>1, <1>2, <1>3, <1>4

LEMMA EffectiveIsSnapshot ==
  ASSUME TypeOK
  PROVE  /\ Effective \in Snapshot /\ Effective.release \in Changes
         /\ samples[Effective.release] \in Samples
  BY DEF TypeOK, Effective, Snapshot, Fields

\* One more change.
LEMMA NextChange ==
  ASSUME NEW n \in Changes, n < MaxChanges
  PROVE  n + 1 \in Changes
  BY BoundsAreNat DEF Changes

LEMMA HostTypes ==
  ASSUME TypeOK, NEW snapshot \in Snapshot, HostIs(snapshot)
  PROVE  host' \in [seq : 0 .. HostModulus - 1, value : Snapshot]
  BY Wrap DEF TypeOK, HostIs

\* The longest of one release time and those of the voices.
LEMMA TailTypes ==
  ASSUME TypeOK, Inactive, NEW n \in Samples
  PROVE  /\ Longest({n} \cup voices) \in Samples /\ n <= Longest({n} \cup voices)
         /\ \A m \in voices : m <= Longest({n} \cup voices)
<1>1. voices \in SUBSET Samples
  BY DEF TypeOK
<1>2. PICK longest \in Nat : \A m \in voices : m <= longest
  BY DEF Inactive
<1> QED BY <1>1, <1>2, LongestOf

\* pendingTail after a load begins.
LEMMA PendingTailTypes ==
  ASSUME TypeOK, LoadTail
  PROVE  pendingTail' \in Samples /\ samples[changes + 1] <= pendingTail'
<1> DEFINE n == samples[changes + 1]
<1>1. n \in Samples /\ pendingTail \in Samples
  BY NextChange DEF TypeOK, LoadTail
<1>2. pendingTail' = Longest({n} \cup IF loaded # tailRevision THEN {pendingTail} ELSE {})
  BY DEF LoadTail
<1> HIDE DEF n
<1>3. CASE loaded # tailRevision
  <2>1. pendingTail' = Longest({n} \cup {pendingTail})
    BY <1>2, <1>3
  <2>2. {n} \cup {pendingTail} = {n, pendingTail}
    OBVIOUS
  <2> QED BY <1>1, <2>1, <2>2, LongestOfTwo DEF n
<1>4. CASE loaded = tailRevision
  <2>1. pendingTail' = Longest({n} \cup {})
    BY <1>2, <1>4
  <2>2. {n} \cup {} = {n, n}
    OBVIOUS
  <2> QED BY <1>1, <2>1, <2>2, LongestOfTwo DEF n
<1> QED BY <1>3, <1>4

LEMMA MainTypes ==
  ASSUME TypeOK, LoadsInOrder, PendingIsWhole,
         \/ LoadTail \/ PublishPending \/ LoadBump
         \/ ReadBegin \/ ReadBefore \/ ReadField("readOther", "other", "readRelease")
         \/ ReadField("readRelease", "release", "readAfter") \/ ReadAfter
         \/ TailBegin \/ TailCurrent \/ Return
  PROVE  TypeOK'
<1> USE DEF MainRecords
<1>0. /\ main \in MainRecords /\ host \in [seq : 0 .. HostModulus - 1, value : Snapshot]
      /\ pending \in [seq : 0 .. 2 * MaxChanges, value : Snapshot]
      /\ {loaded, published, applied, tailRevision, changes, lastLoad} \subseteq Changes
      /\ {tail, pendingTail} \subseteq Samples /\ samples \in [Changes -> Samples]
      /\ current \subseteq Snapshot /\ laps \in 0 .. MaxLaps /\ active \in BOOLEAN
  BY DEF TypeOK
<1>1. CASE LoadTail
  <2>1. changes' \in Changes /\ changes' = changes + 1
    BY <1>0, <1>1, NextChange DEF LoadTail
  <2>2. main' = [main EXCEPT !.pc = "pendBegin", !.value = Both(changes')] /\ Both(changes') \in Snapshot
    BY <1>1, <2>1, Zeros DEF LoadTail
  <2>3. main' \in MainRecords
    BY <1>0, <2>2 DEF MainSteps
  <2> QED BY <1>1, <2>1, <2>3, PendingTailTypes DEF LoadTail, UnchangedAudio, TypeOK
<1>2. CASE PublishPending
  <2>1. /\ UNCHANGED <<active, loaded, pendingTail, changes, lastLoad, samples, current, laps>>
        /\ UnchangedAudio
    BY <1>2 DEF PublishPending
  <2>2. main' \in MainRecords
    <3>1. PICK pc \in MainSteps : main' = [main EXCEPT !.pc = pc]
      BY <1>2 DEF PublishPending, MainAt, MainSteps
    <3> QED BY <1>0, <3>1
  <2>3. pending' \in [seq : 0 .. 2 * MaxChanges, value : Snapshot]
    <3>1. CASE main.pc = "pendBegin" \/ main.pc = "pendEnd"
      <4> DEFINE s == pending.seq + 1
      <4>1. pending' = [pending EXCEPT !.seq = s]
        BY <1>2, <3>1 DEF PublishPending, MainAt
      <4>2. loaded < changes
        BY <3>1 DEF Loading, LoadsInOrder
      <4>3. changes <= MaxChanges /\ changes \in Nat /\ loaded \in Nat
        BY <1>0, BoundsAreNat DEF Changes
      <4>4. pending.seq = 2 * loaded \/ pending.seq = 2 * loaded + 1
        BY <3>1 DEF PendingIsWhole
      <4>5. s \in 0 .. 2 * MaxChanges
        BY <4>2, <4>3, <4>4, BoundsAreNat
      <4> HIDE DEF s
      <4> QED BY <1>0, <4>1, <4>5
    <3>2. CASE main.pc = "pendOther"
      BY <1>0, <1>2, <3>2 DEF PublishPending, MainAt, Snapshot, Fields
    <3>3. CASE main.pc = "pendRelease"
      BY <1>0, <1>2, <3>3 DEF PublishPending, MainAt, Snapshot, Fields
    <3> QED BY <1>2, <3>1, <3>2, <3>3 DEF PublishPending, MainAt
  <2> QED BY <2>1, <2>2, <2>3 DEF UnchangedAudio, TypeOK
<1>3. CASE LoadBump
  <2>1. Loading /\ loaded < changes /\ loaded \in Changes /\ changes \in Changes
    BY <1>0, <1>3 DEF LoadBump, LoadsInOrder, Loading
  <2>2. loaded' \in Changes
    BY <1>3, <2>1, BoundsAreNat DEF LoadBump, Changes
  <2>3. lastLoad' \in Changes
    BY <1>0, <1>3, Zeros DEF LoadBump, Snapshot
  <2> QED BY <1>3, <2>2, <2>3, Zeros DEF LoadBump, UnchangedAudio, TypeOK
<1>4. CASE ReadBegin
  <2>1. main' \in MainRecords
    BY <1>0, <1>4 DEF ReadBegin, MainSteps
  <2>2. current' \subseteq Snapshot /\ laps' \in 0 .. MaxLaps
    BY <1>4, EffectiveIsSnapshot, Zeros DEF ReadBegin
  <2> QED BY <1>4, <2>1, <2>2 DEF ReadBegin, UnchangedState, UnchangedAudio, TypeOK
<1>5. CASE ReadBefore
  <2>1. main' \in MainRecords
    BY <1>0, <1>5 DEF ReadBefore, MainSteps
  <2> QED BY <1>5, <2>1, Zeros DEF ReadBefore, UnchangedState, UnchangedAudio, TypeOK
<1>6. ASSUME NEW from \in MainSteps, NEW f \in Fields, NEW to \in MainSteps, ReadField(from, f, to)
      PROVE  TypeOK'
  <2>1. main' \in MainRecords
    BY <1>0, <1>6 DEF ReadField, Snapshot
  <2> QED BY <1>6, <2>1 DEF ReadField, UnchangedState, UnchangedAudio, TypeOK
<1>7. CASE ReadAfter \/ TailBegin
  <2>1. PICK pc \in MainSteps : main' = [main EXCEPT !.pc = pc]
    BY <1>7 DEF ReadAfter, TailBegin, MainSteps
  <2>2. main' \in MainRecords
    BY <1>0, <2>1
  <2> QED BY <1>7, <2>2 DEF ReadAfter, TailBegin, UnchangedState, UnchangedAudio, TypeOK
<1>8. CASE TailCurrent
  <2>1. TailReported \in Samples
    BY <1>0, <1>8, LongestOfTwo DEF TailCurrent, TailReported
  <2>2. main' \in MainRecords
    BY <1>0, <1>8, <2>1 DEF TailCurrent, MainSteps
  <2> QED BY <1>8, <2>2 DEF TailCurrent, UnchangedState, UnchangedAudio, TypeOK
<1>9. CASE Return
  BY <1>9, Zeros DEF Return, UnchangedState, UnchangedAudio, TypeOK
<1>10. /\ "readOther" \in MainSteps /\ "readRelease" \in MainSteps /\ "readAfter" \in MainSteps
       /\ "other" \in Fields /\ "release" \in Fields
  BY DEF MainSteps, Fields
<1> QED BY <1>1, <1>2, <1>3, <1>4, <1>5, <1>6, <1>7, <1>8, <1>9, <1>10

LEMMA InactiveTypes ==
  ASSUME TypeOK, LoadsInOrder, PendingIsWhole,
         Activate \/ Deactivate \/ LoadInactive \/ \E f \in Fields : FlushInactive(f)
  PROVE  TypeOK'
<1>0. /\ host \in [seq : 0 .. HostModulus - 1, value : Snapshot]
      /\ pending \in [seq : 0 .. 2 * MaxChanges, value : Snapshot]
      /\ {loaded, published, applied, tailRevision, changes, lastLoad} \subseteq Changes
      /\ samples \in [Changes -> Samples] /\ samples[Effective.release] \in Samples
      /\ Effective \in Snapshot
  BY EffectiveIsSnapshot DEF TypeOK
<1>1. CASE Activate
  <2>1. host' \in [seq : 0 .. HostModulus - 1, value : Snapshot]
    BY <1>0, <1>1, HostTypes DEF Activate
  <2> QED BY <1>0, <1>1, <2>1 DEF Activate, TypeOK
<1>2. CASE Deactivate
  <2>1. host' \in [seq : 0 .. HostModulus - 1, value : Snapshot]
    BY <1>0, <1>2, HostTypes DEF Deactivate
  <2> QED BY <1>0, <1>2, <2>1 DEF Deactivate, TypeOK
<1>3. CASE LoadInactive
  <2>1. changes + 1 \in Changes /\ Both(changes + 1) \in Snapshot
    BY <1>0, <1>3, NextChange, Zeros DEF LoadInactive
  <2>2. host' \in [seq : 0 .. HostModulus - 1, value : Snapshot]
    BY <1>3, <2>1, HostTypes DEF LoadInactive
  <2>3. pending.seq = 2 * loaded /\ loaded <= changes /\ changes < MaxChanges
    BY <1>3 DEF LoadInactive, LoadsInOrder, PendingIsWhole
  <2>4. loaded \in Nat /\ changes \in Nat
    BY <1>0, BoundsAreNat DEF Changes
  <2>5. loaded + 1 \in Changes /\ pending.seq + 2 \in 0 .. 2 * MaxChanges
    BY <2>3, <2>4, BoundsAreNat DEF Changes
  <2>6. pending' \in [seq : 0 .. 2 * MaxChanges, value : Snapshot]
    BY <1>3, <2>1, <2>5 DEF LoadInactive
  <2>7. {loaded', published', applied', tailRevision', changes', lastLoad'} \subseteq Changes
    BY <1>0, <1>3, <2>1, <2>5 DEF LoadInactive
  <2> QED BY <1>3, <2>2, <2>6, <2>7 DEF LoadInactive, TypeOK
<1>4. ASSUME NEW f \in Fields, FlushInactive(f) PROVE TypeOK'
  <2>1. changes + 1 \in Changes
    BY <1>0, <1>4, NextChange DEF FlushInactive
  <2>2. [Effective EXCEPT ![f] = changes + 1] \in Snapshot
    BY <1>0, <2>1 DEF Snapshot
  <2>3. host' \in [seq : 0 .. HostModulus - 1, value : Snapshot]
    BY <1>4, <2>2, HostTypes DEF FlushInactive
  <2> QED BY <1>0, <1>4, <2>1, <2>3 DEF FlushInactive, TypeOK
<1> QED BY <1>1, <1>2, <1>3, <1>4

LEMMA AudioTypes ==
  ASSUME TypeOK, Inactive,
         \/ \E flush \in BOOLEAN : CallBegin(flush)
         \/ TryReadPending \/ Recheck
         \/ \E f \in Fields : ParamEvent(f)
         \/ Notes \/ Reset \/ BlockFails \/ EventsDone
         \/ HostBegin \/ HostWrite \/ HostEnd \/ PublishRevision \/ SyncTail \/ SyncTailRevision
  PROVE  TypeOK'
<1> USE DEF AudioRecords
<1>0. /\ audio \in AudioRecords /\ host \in [seq : 0 .. HostModulus - 1, value : Snapshot]
      /\ pending \in [seq : 0 .. 2 * MaxChanges, value : Snapshot]
      /\ {loaded, published, applied, tailRevision, changes, lastLoad} \subseteq Changes
      /\ {tail, pendingTail} \subseteq Samples /\ samples \in [Changes -> Samples]
      /\ engine \in Snapshot /\ voices \subseteq Samples
      /\ current \subseteq Snapshot /\ laps \in 0 .. MaxLaps /\ active \in BOOLEAN /\ failed \in BOOLEAN
  BY DEF TypeOK
<1>1. ASSUME NEW flush \in BOOLEAN, CallBegin(flush) PROVE TypeOK'
  <2>1. audio' \in AudioRecords
    BY <1>0, <1>1, Zeros DEF CallBegin, AudioSteps
  <2> QED BY <1>1, <2>1 DEF CallBegin, UnchangedMain, TypeOK
<1>n. NoReplay \in AudioRecords
  BY <1>0, Zeros DEF NoReplay, AudioSteps
<1>2. CASE TryReadPending
  <2>1. audio' \in AudioRecords
    <3>1. CASE audio.pc = "readBefore"
      BY <1>0, <1>2, <1>n, <3>1 DEF TryReadPending, AudioSteps
    <3>2. CASE audio.pc = "readOther"
      <4> DEFINE v == [audio.value EXCEPT !.other = pending.value.other]
      <4>1. v \in Snapshot
        BY <1>0 DEF Snapshot, Fields
      <4>2. audio' = [audio EXCEPT !.pc = "readRelease", !.value = v]
        BY <1>2, <3>2 DEF TryReadPending
      <4> HIDE DEF v
      <4> QED BY <1>0, <4>1, <4>2 DEF AudioSteps
    <3>3. CASE audio.pc = "readRelease"
      <4> DEFINE v == [audio.value EXCEPT !.release = pending.value.release]
      <4>1. v \in Snapshot
        BY <1>0 DEF Snapshot, Fields
      <4>2. audio' = [audio EXCEPT !.pc = "readAfter", !.value = v]
        BY <1>2, <3>3 DEF TryReadPending
      <4> HIDE DEF v
      <4> QED BY <1>0, <4>1, <4>2 DEF AudioSteps
    <3>4. CASE audio.pc = "readAfter"
      BY <1>0, <1>2, <1>n, <3>4 DEF TryReadPending, AudioSteps
    <3> QED BY <1>2, <3>1, <3>2, <3>3, <3>4 DEF TryReadPending
  <2> QED BY <1>2, <2>1 DEF TryReadPending, UnchangedMain, TypeOK
<1>3. CASE Recheck
  <2>1. CASE loaded # audio.revision
    BY <1>n, <1>3, <2>1 DEF Recheck, UnchangedMain, TypeOK
  <2>2. CASE loaded = audio.revision
    <3>1. PICK pc \in AudioSteps :
            audio' = [audio EXCEPT !.pc = pc, !.replay = TRUE, !.seq = 0, !.value = Both(0)]
      BY <1>3, <2>2 DEF Recheck, AudioSteps
    <3>2. audio' \in AudioRecords
      BY <1>0, <3>1, Zeros
    <3>3. engine' \in Snapshot /\ applied' \in Changes
      BY <1>0, <1>3, <2>2 DEF Recheck
    <3> QED BY <1>3, <3>2, <3>3 DEF Recheck, UnchangedMain, TypeOK
  <2> QED BY <2>1, <2>2
<1>4. ASSUME NEW f \in Fields, ParamEvent(f) PROVE TypeOK'
  <2>1. changes' \in Changes
    BY <1>0, <1>4, NextChange DEF ParamEvent
  <2>2. engine' \in Snapshot
    BY <1>4, <1>0, <2>1 DEF ParamEvent, Snapshot
  <2>3. audio' \in AudioRecords
    <3>1. audio' \in {audio, [audio EXCEPT !.pc = "oneBegin", !.field = f]}
      BY <1>4 DEF ParamEvent
    <3> QED BY <1>0, <3>1 DEF AudioSteps
  <2> QED BY <1>4, <2>1, <2>2, <2>3 DEF ParamEvent, UnchangedMain, TypeOK
<1>5. CASE Notes
  <2>1. samples[engine.release] \in Samples
    BY <1>0 DEF Snapshot, Fields
  <2>2. voices' \subseteq Samples
    BY <1>0, <1>5, <2>1 DEF Notes
  <2> QED BY <1>5, <2>2 DEF Notes, UnchangedMain, TypeOK
<1>6. CASE Reset \/ BlockFails
  <2>1. audio' \in AudioRecords /\ voices' \subseteq Samples /\ failed' \in BOOLEAN
    BY <1>0, <1>6, Zeros DEF Reset, BlockFails
  <2> QED BY <1>6, <2>1 DEF Reset, BlockFails, UnchangedMain, TypeOK
<1>7. CASE EventsDone
  <2>1. audio' \in AudioRecords /\ applied' \in Changes
    BY <1>0, <1>7, Zeros DEF EventsDone, AudioSteps
  <2> QED BY <1>7, <2>1 DEF EventsDone, UnchangedMain, TypeOK
<1>8. ASSUME NEW pc \in AudioSteps, audio' = [audio EXCEPT !.pc = pc] PROVE audio' \in AudioRecords
  BY <1>0, <1>8
<1>9. CASE HostBegin
  <2>1. audio' \in AudioRecords
    BY <1>8, <1>9 DEF HostBegin, AudioAt, AudioSteps
  <2>2. host.seq \in 0 .. HostModulus - 1 /\ host' = [host EXCEPT !.seq = (host.seq + 1) % HostModulus]
    BY <1>0, <1>9 DEF HostBegin
  <2>3. host' \in [seq : 0 .. HostModulus - 1, value : Snapshot]
    BY <1>0, <2>2, Wrap
  <2>4. laps' \in 0 .. MaxLaps
    BY <1>0, <1>9, BoundsAreNat DEF HostBegin
  <2> QED BY <1>9, <2>1, <2>3, <2>4 DEF HostBegin, UnchangedMain, TypeOK
<1>10. CASE HostWrite
  <2>1. audio' \in AudioRecords
    BY <1>8, <1>10 DEF HostWrite, AudioAt, AudioSteps
  <2>2. PICK f \in Fields : host' = [host EXCEPT !.value[f] = engine[f]]
    BY <1>0, <1>10 DEF HostWrite, AudioAt, Fields
  <2>3. host' \in [seq : 0 .. HostModulus - 1, value : Snapshot]
    BY <1>0, <2>2 DEF Snapshot
  <2> QED BY <1>10, <2>1, <2>3 DEF HostWrite, UnchangedMain, TypeOK
<1>11. CASE HostEnd
  <2>1. audio' \in AudioRecords
    BY <1>8, <1>11 DEF HostEnd, AudioAt, AudioSteps
  <2>2. host.seq \in 0 .. HostModulus - 1 /\ host' = [host EXCEPT !.seq = (host.seq + 1) % HostModulus]
    BY <1>0, <1>11 DEF HostEnd
  <2>3. host' \in [seq : 0 .. HostModulus - 1, value : Snapshot]
    BY <1>0, <2>2, Wrap
  <2>4. Effective' \in Snapshot
    BY <1>0, <1>11, <2>3 DEF HostEnd, UnchangedMain, Effective
  <2>5. current' \subseteq Snapshot
    BY <1>0, <1>11, <2>4 DEF HostEnd, Witness
  <2> QED BY <1>11, <2>1, <2>3, <2>5 DEF HostEnd, UnchangedMain, TypeOK
<1>12. CASE PublishRevision
  <2>1. audio' \in AudioRecords
    BY <1>8, <1>12 DEF PublishRevision, AudioAt, AudioSteps
  <2>2. Effective' \in Snapshot
    BY <1>0, <1>12 DEF PublishRevision, UnchangedMain, Effective
  <2>3. current' \subseteq Snapshot
    BY <1>0, <1>12, <2>2 DEF PublishRevision, Witness
  <2> QED BY <1>0, <1>12, <2>1, <2>3 DEF PublishRevision, UnchangedMain, TypeOK
<1>13. CASE SyncTail
  <2>1. audio' \in AudioRecords
    BY <1>8, <1>13 DEF SyncTail, AudioAt, AudioSteps
  <2>2. samples[engine.release] \in Samples
    BY <1>0 DEF Snapshot, Fields
  <2>3. tail' \in Samples
    BY <1>13, <2>2, TailTypes DEF SyncTail
  <2> QED BY <1>13, <2>1, <2>3 DEF SyncTail, UnchangedMain, TypeOK
<1>14. CASE SyncTailRevision
  <2>1. audio' \in AudioRecords
    BY <1>0, <1>14, Zeros DEF SyncTailRevision, AudioSteps
  <2>2. failed' \in BOOLEAN
    BY <1>14 DEF SyncTailRevision
  <2> QED BY <1>0, <1>14, <2>1, <2>2 DEF SyncTailRevision, UnchangedMain, TypeOK
<1> QED BY <1>1, <1>2, <1>3, <1>4, <1>5, <1>6, <1>7, <1>9, <1>10, <1>11, <1>12, <1>13, <1>14
-----------------------------------------------------------------------------
(* What each step does to the fields of the records. *)

LEMMA Numbers ==
  ASSUME TypeOK
  PROVE  /\ loaded \in Nat /\ published \in Nat /\ applied \in Nat /\ tailRevision \in Nat
         /\ changes \in Nat /\ lastLoad \in Nat /\ lastLoad \in Changes /\ laps \in Nat
         /\ pending.seq \in Nat /\ host.seq \in Nat /\ host.seq < HostModulus
         /\ host.seq \in 0 .. HostModulus - 1
         /\ main.seq \in Nat /\ main.seq < HostModulus
         /\ audio.seq \in Nat /\ audio.revision \in Nat /\ audio.field \in Fields
         /\ tail \in Nat /\ pendingTail \in Nat /\ main.tail \in Nat
         /\ \A n \in voices : n \in Nat
         /\ \A n \in Changes : samples[n] \in Nat /\ samples[n] \in Samples
<1>1. /\ loaded \in Nat /\ published \in Nat /\ applied \in Nat /\ tailRevision \in Nat
      /\ changes \in Nat /\ lastLoad \in Nat /\ lastLoad \in Changes /\ laps \in Nat
  BY BoundsAreNat DEF TypeOK, Changes
<1>2. /\ pending.seq \in Nat /\ host.seq \in Nat /\ host.seq < HostModulus
      /\ host.seq \in 0 .. HostModulus - 1
      /\ main.seq \in Nat /\ main.seq < HostModulus
      /\ audio.seq \in Nat /\ audio.revision \in Nat /\ audio.field \in Fields
  <2>1. /\ pending.seq \in 0 .. 2 * MaxChanges /\ host.seq \in 0 .. HostModulus - 1
        /\ main.seq \in 0 .. HostModulus - 1 /\ audio.seq \in 0 .. 2 * MaxChanges
        /\ audio.revision \in 0 .. MaxChanges /\ audio.field \in Fields
    BY DEF TypeOK, Changes
  <2> QED BY <2>1, BoundsAreNat
<1>3. /\ tail \in Nat /\ pendingTail \in Nat /\ main.tail \in Nat
      /\ \A n \in voices : n \in Nat
      /\ \A n \in Changes : samples[n] \in Nat /\ samples[n] \in Samples
  BY BoundsAreNat DEF TypeOK
<1> QED BY <1>1, <1>2, <1>3

LEMMA Values ==
  ASSUME TypeOK
  PROVE  /\ pending.value.other \in Changes /\ pending.value.release \in Changes
         /\ host.value.other \in Changes /\ host.value.release \in Changes
         /\ engine.other \in Changes /\ engine.release \in Changes
         /\ main.value.other \in Changes /\ main.value.release \in Changes
         /\ audio.value.other \in Changes /\ audio.value.release \in Changes
         /\ \A n \in Changes : n \in Nat
<1>1. \A s \in Snapshot : s.other \in Changes /\ s.release \in Changes
  BY DEF Snapshot, Fields
<1>2. /\ pending.value \in Snapshot /\ host.value \in Snapshot /\ engine \in Snapshot
      /\ main.value \in Snapshot /\ audio.value \in Snapshot
  BY DEF TypeOK
<1>3. \A n \in Changes : n \in Nat
  BY BoundsAreNat DEF Changes
<1> QED BY <1>1, <1>2, <1>3

LEMMA SnapshotsAreEqual ==
  ASSUME NEW s \in Snapshot, NEW t \in Snapshot, s.other = t.other, s.release = t.release
  PROVE  s = t
  BY DEF Snapshot, Fields

LEMMA Calls ==
  /\ NoCall.pc = "idle" /\ ~NoCall.flush /\ NoCall.revision = 0 /\ ~NoCall.replay
  /\ NoReplay.pc = "events" /\ NoReplay.flush = audio.flush /\ NoReplay.revision = 0
  /\ ~NoReplay.replay
  /\ Resting.pc = "idle"
  BY DEF NoCall, NoReplay, Resting

OtherThan(pc) ==
  /\ audio'.pc = pc /\ audio'.flush = audio.flush /\ audio'.revision = audio.revision
  /\ audio'.replay = audio.replay /\ audio'.seq = audio.seq /\ audio'.value = audio.value
  /\ audio'.field = audio.field

LEMMA NextPc ==
  ASSUME TypeOK, NEW pc, audio' = [audio EXCEPT !.pc = pc]
  PROVE  OtherThan(pc)
<1>1. DOMAIN audio = {"pc", "flush", "revision", "replay", "seq", "value", "field"}
  BY DEF TypeOK
<1> QED BY <1>1 DEF OtherThan

NewPc(pc) ==
  main'.pc = pc /\ main'.seq = main.seq /\ main'.value = main.value /\ main'.tail = main.tail

LEMMA NextMainPc ==
  ASSUME TypeOK, NEW pc, main' = [main EXCEPT !.pc = pc]
  PROVE  NewPc(pc)
<1>1. DOMAIN main = {"pc", "seq", "value", "tail"}
  BY DEF TypeOK
<1> QED BY <1>1 DEF NewPc

LEMMA CallBeginFields ==
  ASSUME TypeOK, NEW flush \in BOOLEAN, CallBegin(flush)
  PROVE  /\ active /\ audio.pc = "idle"
         /\ audio'.pc = IF loaded # applied THEN "readBefore" ELSE "events"
         /\ audio'.flush = flush /\ audio'.revision = loaded /\ audio'.replay = FALSE
  BY DEF CallBegin, NoCall, AudioIdle

LEMMA TryReadFields ==
  ASSUME TypeOK, TryReadPending
  PROVE  \/ audio.pc \in {"readBefore", "readAfter"} /\ audio' = NoReplay
         \/ /\ audio.pc = "readBefore" /\ ~Odd(pending.seq)
            /\ audio'.pc = "readOther" /\ audio'.seq = pending.seq
            /\ audio'.flush = audio.flush /\ audio'.revision = audio.revision
            /\ audio'.replay = audio.replay
         \/ /\ \/ /\ audio.pc = "readOther" /\ audio'.pc = "readRelease"
                  /\ audio'.value.other = pending.value.other
               \/ /\ audio.pc = "readRelease" /\ audio'.pc = "readAfter"
                  /\ audio'.value.other = audio.value.other
                  /\ audio'.value.release = pending.value.release
            /\ audio'.seq = audio.seq
            /\ audio'.flush = audio.flush /\ audio'.revision = audio.revision
            /\ audio'.replay = audio.replay
         \/ audio.pc = "readAfter" /\ pending.seq = audio.seq /\ OtherThan("recheck")
<1>1. /\ DOMAIN audio = {"pc", "flush", "revision", "replay", "seq", "value", "field"}
      /\ audio.value \in Snapshot
      /\ DOMAIN audio.value = {"other", "release"}
  BY DEF TypeOK, Snapshot, Fields
<1>2. CASE audio.pc = "readBefore"
  BY <1>1, <1>2 DEF TryReadPending
<1>3. CASE audio.pc = "readOther"
  <2> DEFINE v == [audio.value EXCEPT !.other = pending.value.other]
  <2>1. audio' = [audio EXCEPT !.pc = "readRelease", !.value = v]
    BY <1>3 DEF TryReadPending
  <2>2. v.other = pending.value.other
    BY <1>1
  <2> HIDE DEF v
  <2> QED BY <1>1, <1>3, <2>1, <2>2
<1>4. CASE audio.pc = "readRelease"
  <2> DEFINE v == [audio.value EXCEPT !.release = pending.value.release]
  <2>1. audio' = [audio EXCEPT !.pc = "readAfter", !.value = v]
    BY <1>4 DEF TryReadPending
  <2>2. v.other = audio.value.other /\ v.release = pending.value.release
    BY <1>1
  <2> HIDE DEF v
  <2> QED BY <1>1, <1>4, <2>1, <2>2
<1>5. CASE audio.pc = "readAfter"
  <2>1. CASE pending.seq # audio.seq
    BY <1>5, <2>1 DEF TryReadPending
  <2>2. CASE pending.seq = audio.seq
    <3>1. audio' = [audio EXCEPT !.pc = "recheck"]
      BY <1>5, <2>2 DEF TryReadPending
    <3> QED BY <1>5, <2>2, <3>1, NextPc
  <2> QED BY <2>1, <2>2
<1> QED BY <1>2, <1>3, <1>4, <1>5 DEF TryReadPending

LEMMA RecheckFields ==
  ASSUME TypeOK, Recheck
  PROVE  /\ audio.pc = "recheck"
         /\ \/ /\ loaded # audio.revision /\ audio' = NoReplay
               /\ engine' = engine /\ applied' = applied
            \/ /\ loaded = audio.revision /\ engine' = audio.value
               /\ applied' = IF audio.flush THEN audio.revision ELSE applied
               /\ audio'.pc = IF audio.flush THEN "pubBegin" ELSE "events"
               /\ audio'.flush = audio.flush /\ audio'.revision = audio.revision /\ audio'.replay = TRUE
<1>1. DOMAIN audio = {"pc", "flush", "revision", "replay", "seq", "value", "field"}
  BY DEF TypeOK
<1> QED BY <1>1 DEF Recheck

LEMMA ParamEventFields ==
  ASSUME TypeOK, NEW f \in Fields, ParamEvent(f)
  PROVE  /\ audio.pc = "events" /\ changes' = changes + 1
         /\ engine'[f] = changes + 1 /\ \A g \in Fields \ {f} : engine'[g] = engine[g]
         /\ audio'.flush = audio.flush /\ audio'.revision = audio.revision
         /\ audio'.replay = audio.replay
         /\ IF audio.flush THEN audio'.pc = "oneBegin" /\ audio'.field = f ELSE audio' = audio
<1>1. DOMAIN audio = {"pc", "flush", "revision", "replay", "seq", "value", "field"} /\ DOMAIN engine = Fields
  BY DEF TypeOK, Snapshot
<1> QED BY <1>1 DEF ParamEvent

LEMMA EventsDoneFields ==
  ASSUME TypeOK, EventsDone
  PROVE  /\ audio.pc = "events"
         /\ IF audio.flush THEN audio' = NoCall ELSE OtherThan("pubBegin")
         /\ applied' = IF audio.replay THEN audio.revision ELSE applied
  BY NextPc DEF EventsDone

LEMMA HostBeginFields ==
  ASSUME TypeOK, HostBegin
  PROVE  /\ \/ audio.pc = "pubBegin" /\ OtherThan("pubOther")
            \/ audio.pc = "oneBegin" /\ OtherThan("one")
         /\ host'.value = host.value /\ host'.seq = (host.seq + 1) % HostModulus
         /\ IF Reading THEN laps < MaxLaps /\ laps' = laps + 1 ELSE laps' = laps
<1>1. DOMAIN host = {"seq", "value"}
  BY DEF TypeOK
<1>2. host'.value = host.value /\ host'.seq = (host.seq + 1) % HostModulus
  <2> DEFINE s == (host.seq + 1) % HostModulus
  <2>1. host' = [host EXCEPT !.seq = s]
    BY DEF HostBegin
  <2> HIDE DEF s
  <2>2. host'.value = host.value /\ host'.seq = s
    BY <1>1, <2>1
  <2> QED BY <2>2 DEF s
<1>3. \/ audio.pc = "pubBegin" /\ OtherThan("pubOther")
      \/ audio.pc = "oneBegin" /\ OtherThan("one")
  BY NextPc DEF HostBegin, AudioAt
<1> QED BY <1>2, <1>3 DEF HostBegin

LEMMA HostEndFields ==
  ASSUME TypeOK, HostEnd
  PROVE  /\ \/ audio.pc = "pubEnd" /\ OtherThan("pubRevision")
            \/ audio.pc = "oneEnd" /\ audio.field = "release" /\ OtherThan("tail")
            \/ audio.pc = "oneEnd" /\ audio.field = "other" /\ OtherThan("events")
         /\ host'.value = host.value /\ host'.seq = (host.seq + 1) % HostModulus
<1>1. DOMAIN host = {"seq", "value"} /\ audio.field \in {"other", "release"}
  BY DEF TypeOK, Fields
<1>2. host'.value = host.value /\ host'.seq = (host.seq + 1) % HostModulus
  <2> DEFINE s == (host.seq + 1) % HostModulus
  <2>1. host' = [host EXCEPT !.seq = s]
    BY DEF HostEnd
  <2> HIDE DEF s
  <2>2. host'.value = host.value /\ host'.seq = s
    BY <1>1, <2>1
  <2> QED BY <2>2 DEF s
<1>3. CASE audio.pc = "pubEnd"
  BY <1>2, <1>3, NextPc DEF HostEnd, AudioAt
<1>4. CASE audio.pc = "oneEnd" /\ audio.field = "release"
  BY <1>2, <1>4, NextPc DEF HostEnd, AudioAt
<1>5. CASE audio.pc = "oneEnd" /\ audio.field = "other"
  BY <1>2, <1>5, NextPc DEF HostEnd, AudioAt
<1> QED BY <1>1, <1>3, <1>4, <1>5 DEF HostEnd, AudioAt

LEMMA HostWriteFields ==
  ASSUME TypeOK, HostWrite
  PROVE  /\ host'.seq = host.seq
         /\ \/ /\ audio.pc = "pubOther" /\ OtherThan("pubRelease")
               /\ host'.value.other = engine.other /\ host'.value.release = host.value.release
            \/ /\ audio.pc = "pubRelease" /\ OtherThan("pubEnd")
               /\ host'.value.other = host.value.other /\ host'.value.release = engine.release
            \/ /\ audio.pc = "one" /\ OtherThan("oneEnd")
               /\ host'.value[audio.field] = engine[audio.field]
               /\ \A g \in Fields \ {audio.field} : host'.value[g] = host.value[g]
<1>1. /\ DOMAIN host = {"seq", "value"} /\ DOMAIN host.value = Fields /\ audio.field \in Fields
      /\ "other" \in Fields /\ "release" \in Fields
  BY DEF TypeOK, Snapshot, Fields
<1>2. ASSUME NEW f \in Fields, host' = [host EXCEPT !.value[f] = engine[f]]
      PROVE  /\ host'.seq = host.seq /\ host'.value[f] = engine[f]
             /\ \A g \in Fields \ {f} : host'.value[g] = host.value[g]
  BY <1>1, <1>2
<1>3. CASE audio.pc = "pubOther"
  <2>1. host' = [host EXCEPT !.value["other"] = engine["other"]] /\ OtherThan("pubRelease")
    BY <1>3, NextPc DEF HostWrite, AudioAt
  <2> QED BY <1>1, <1>2, <1>3, <2>1 DEF Fields
<1>4. CASE audio.pc = "pubRelease"
  <2>1. host' = [host EXCEPT !.value["release"] = engine["release"]] /\ OtherThan("pubEnd")
    BY <1>4, NextPc DEF HostWrite, AudioAt
  <2> QED BY <1>1, <1>2, <1>4, <2>1 DEF Fields
<1>5. CASE audio.pc = "one"
  <2>1. host' = [host EXCEPT !.value[audio.field] = engine[audio.field]] /\ OtherThan("oneEnd")
    BY <1>5, NextPc DEF HostWrite, AudioAt
  <2> QED BY <1>1, <1>2, <1>5, <2>1
<1> QED BY <1>3, <1>4, <1>5 DEF HostWrite, AudioAt

LEMMA OtherAudioFields ==
  ASSUME TypeOK
  PROVE  /\ PublishRevision => audio.pc = "pubRevision" /\ OtherThan("tail")
         /\ SyncTail => audio.pc = "tail" /\ OtherThan("tailRevision")
         /\ SyncTailRevision => /\ audio.pc = "tailRevision"
                                /\ IF audio.flush THEN OtherThan("events") ELSE audio' = NoCall
  BY NextPc DEF PublishRevision, SyncTail, SyncTailRevision, AudioAt

LEMMA LoadTailFields ==
  ASSUME TypeOK, LoadTail
  PROVE  /\ active /\ main.pc = "idle" /\ changes < MaxChanges /\ changes' = changes + 1
         /\ main'.pc = "pendBegin"
         /\ main'.value.other = changes + 1 /\ main'.value.release = changes + 1
         /\ samples[changes + 1] <= pendingTail'
<1>1. DOMAIN main = {"pc", "seq", "value", "tail"}
  BY DEF TypeOK
<1>2. main'.pc = "pendBegin" /\ main'.value = Both(changes + 1)
  BY <1>1 DEF LoadTail
<1> QED BY <1>2, PendingTailTypes DEF LoadTail, Both, Fields

LEMMA PublishFields ==
  ASSUME TypeOK, PublishPending
  PROVE  \/ /\ main.pc = "pendBegin" /\ NewPc("pendOther")
            /\ pending'.seq = pending.seq + 1 /\ pending'.value = pending.value
         \/ /\ main.pc = "pendOther" /\ NewPc("pendRelease")
            /\ pending'.seq = pending.seq
            /\ pending'.value.other = main.value.other /\ pending'.value.release = pending.value.release
         \/ /\ main.pc = "pendRelease" /\ NewPc("pendEnd")
            /\ pending'.seq = pending.seq
            /\ pending'.value.other = pending.value.other /\ pending'.value.release = main.value.release
         \/ /\ main.pc = "pendEnd" /\ NewPc("bump")
            /\ pending'.seq = pending.seq + 1 /\ pending'.value = pending.value
<1>1. DOMAIN pending = {"seq", "value"} /\ DOMAIN pending.value = {"other", "release"}
  BY DEF TypeOK, Snapshot, Fields
<1>2. CASE main.pc = "pendBegin"
  <2>1. pending' = [pending EXCEPT !.seq = pending.seq + 1] /\ NewPc("pendOther")
    BY <1>2, NextMainPc DEF PublishPending, MainAt
  <2>2. pending'.seq = pending.seq + 1 /\ pending'.value = pending.value
    BY <1>1, <2>1
  <2> QED BY <1>2, <2>1, <2>2
<1>3. CASE main.pc = "pendOther"
  <2>1. pending' = [pending EXCEPT !.value.other = main.value.other] /\ NewPc("pendRelease")
    BY <1>3, NextMainPc DEF PublishPending, MainAt
  <2> QED BY <1>1, <1>3, <2>1
<1>4. CASE main.pc = "pendRelease"
  <2>1. pending' = [pending EXCEPT !.value.release = main.value.release] /\ NewPc("pendEnd")
    BY <1>4, NextMainPc DEF PublishPending, MainAt
  <2> QED BY <1>1, <1>4, <2>1
<1>5. CASE main.pc = "pendEnd"
  <2>1. pending' = [pending EXCEPT !.seq = pending.seq + 1] /\ NewPc("bump")
    BY <1>5, NextMainPc DEF PublishPending, MainAt
  <2>2. pending'.seq = pending.seq + 1 /\ pending'.value = pending.value
    BY <1>1, <2>1
  <2> QED BY <1>5, <2>1, <2>2
<1> QED BY <1>2, <1>3, <1>4, <1>5 DEF PublishPending, MainAt

LEMMA ReadFields ==
  ASSUME TypeOK
  PROVE  /\ ReadBegin => /\ main.pc = "idle"
                         /\ IF loaded # published
                              THEN main'.pc = "saved" /\ main'.value = pending.value
                              ELSE main'.pc = "readBefore" /\ main'.value = main.value
         /\ ReadBefore => /\ main.pc = "readBefore"
                          /\ IF Odd(host.seq) THEN main' = main
                             ELSE main'.pc = "readOther" /\ main'.seq = host.seq
         /\ ReadField("readOther", "other", "readRelease") =>
              /\ main.pc = "readOther" /\ main'.pc = "readRelease" /\ main'.seq = main.seq
              /\ main'.value.other = host.value.other
         /\ ReadField("readRelease", "release", "readAfter") =>
              /\ main.pc = "readRelease" /\ main'.pc = "readAfter" /\ main'.seq = main.seq
              /\ main'.value.other = main.value.other /\ main'.value.release = host.value.release
         /\ ReadAfter => /\ main.pc = "readAfter"
                         /\ NewPc(IF main.seq = host.seq THEN "saved" ELSE "readBefore")
<1>1. /\ DOMAIN main = {"pc", "seq", "value", "tail"} /\ DOMAIN main.value = {"other", "release"}
  BY DEF TypeOK, Snapshot, Fields
<1>2. ReadBegin => /\ main.pc = "idle"
                   /\ IF loaded # published
                        THEN main'.pc = "saved" /\ main'.value = pending.value
                        ELSE main'.pc = "readBefore" /\ main'.value = main.value
  BY <1>1 DEF ReadBegin
<1>3. ReadBefore => /\ main.pc = "readBefore"
                    /\ IF Odd(host.seq) THEN main' = main
                       ELSE main'.pc = "readOther" /\ main'.seq = host.seq
  BY <1>1 DEF ReadBefore
<1>4. ASSUME NEW f \in {"other", "release"}, NEW to, NEW from, ReadField(from, f, to)
      PROVE  /\ main.pc = from /\ main'.pc = to /\ main'.seq = main.seq
             /\ main'.value[f] = host.value[f]
             /\ \A g \in {"other", "release"} \ {f} : main'.value[g] = main.value[g]
  <2> DEFINE v == [main.value EXCEPT ![f] = host.value[f]]
  <2>1. main' = [main EXCEPT !.pc = to, !.value = v] /\ main.pc = from
    BY <1>4 DEF ReadField
  <2>2. v[f] = host.value[f] /\ \A g \in {"other", "release"} \ {f} : v[g] = main.value[g]
    BY <1>1
  <2> HIDE DEF v
  <2> QED BY <1>1, <2>1, <2>2
<1>5. ReadAfter => /\ main.pc = "readAfter"
                   /\ NewPc(IF main.seq = host.seq THEN "saved" ELSE "readBefore")
  BY NextMainPc DEF ReadAfter
<1>6. "other" # "release"
  OBVIOUS
<1> QED BY <1>2, <1>3, <1>4, <1>5, <1>6

LEMMA TailFields ==
  ASSUME TypeOK
  PROVE  /\ TailBegin => /\ main.pc = "idle"
                         /\ NewPc(IF loaded = tailRevision \/ ~active THEN "tailCurrent" ELSE "tailMax")
         /\ TailCurrent =>
              /\ main.pc \in {"tailCurrent", "tailMax"} /\ main'.pc = "tailDone"
              /\ main'.tail \in Samples
              /\ main.pc = "tailCurrent" => main'.tail = tail
              /\ main.pc = "tailMax" => tail <= main'.tail /\ pendingTail <= main'.tail
<1>1. /\ DOMAIN main = {"pc", "seq", "value", "tail"} /\ tail \in Samples /\ pendingTail \in Samples
  BY DEF TypeOK
<1>2. TailBegin => /\ main.pc = "idle"
                   /\ NewPc(IF loaded = tailRevision \/ ~active THEN "tailCurrent" ELSE "tailMax")
  BY NextMainPc DEF TailBegin
<1>3. ASSUME TailCurrent
      PROVE  /\ main.pc \in {"tailCurrent", "tailMax"} /\ main'.pc = "tailDone"
             /\ main'.tail \in Samples
             /\ main.pc = "tailCurrent" => main'.tail = tail
             /\ main.pc = "tailMax" => tail <= main'.tail /\ pendingTail <= main'.tail
  <2>1. main'.pc = "tailDone" /\ main'.tail = TailReported /\ main.pc \in {"tailCurrent", "tailMax"}
    BY <1>1, <1>3 DEF TailCurrent
  <2>2. CASE main.pc = "tailCurrent"
    BY <1>1, <2>1, <2>2 DEF TailReported
  <2>3. CASE main.pc = "tailMax"
    <3>1. main'.tail = Longest({tail, pendingTail})
      BY <2>1, <2>3 DEF TailReported
    <3> QED BY <1>1, <2>1, <2>3, <3>1, LongestOfTwo
  <2> QED BY <2>1, <2>2, <2>3
<1> QED BY <1>2, <1>3
-----------------------------------------------------------------------------
(* What each step leaves alone. *)

\* A step of the main thread of an active plug-in, or of a call that only reads.
MainThread ==
  \/ LoadTail \/ PublishPending \/ LoadBump
  \/ ReadBegin \/ ReadBefore \/ ReadField("readOther", "other", "readRelease")
  \/ ReadField("readRelease", "release", "readAfter") \/ ReadAfter
  \/ TailBegin \/ TailCurrent \/ Return

MainReads ==
  \/ ReadBegin \/ ReadBefore \/ ReadField("readOther", "other", "readRelease")
  \/ ReadField("readRelease", "release", "readAfter") \/ ReadAfter
  \/ TailBegin \/ TailCurrent \/ Return

AudioThread ==
  \/ \E flush \in BOOLEAN : CallBegin(flush)
  \/ TryReadPending \/ Recheck
  \/ \E f \in Fields : ParamEvent(f)
  \/ Notes \/ Reset \/ BlockFails \/ EventsDone
  \/ HostBegin \/ HostWrite \/ HostEnd \/ PublishRevision \/ SyncTail \/ SyncTailRevision

NotRunning == Activate \/ Deactivate \/ LoadInactive \/ \E f \in Fields : FlushInactive(f)

LEMMA NextCases ==
  ASSUME [Next]_vars
  PROVE  MainThread \/ AudioThread \/ NotRunning \/ UNCHANGED vars
  BY DEF Next, MainThread, AudioThread, NotRunning

LEMMA MainFrame ==
  /\ MainThread =>
       UNCHANGED <<active, host, published, engine, voices, applied, tail, tailRevision, audio,
                   failed, samples>>
  /\ MainReads => UNCHANGED <<pending, loaded, pendingTail, changes, lastLoad>>
  /\ LoadTail => UNCHANGED <<pending, loaded, lastLoad, current, laps>>
  /\ PublishPending => UNCHANGED <<loaded, pendingTail, changes, lastLoad, current, laps>>
  /\ LoadBump => /\ main.pc = "bump" /\ main' = Resting
                 /\ loaded' = loaded + 1 /\ lastLoad' = main.value.other
                 /\ UNCHANGED <<pending, pendingTail, changes, current, laps>>
  /\ Return => main' = Resting
<1>1. MainReads => UnchangedState /\ UnchangedAudio
  BY DEF MainReads, ReadBegin, ReadBefore, ReadField, ReadAfter, TailBegin, TailCurrent, Return
<1>2. /\ LoadTail => UNCHANGED <<active, samples, pending, loaded, lastLoad, current, laps>> /\ UnchangedAudio
      /\ PublishPending =>
           /\ UNCHANGED <<active, samples, loaded, pendingTail, changes, lastLoad, current, laps>>
           /\ UnchangedAudio
  BY DEF LoadTail, PublishPending
<1>3. LoadBump => /\ main.pc = "bump" /\ main' = Resting
                  /\ loaded' = loaded + 1 /\ lastLoad' = main.value.other
                  /\ UNCHANGED <<active, samples, pending, pendingTail, changes, current, laps>>
                  /\ UnchangedAudio
  BY DEF LoadBump
<1>4. MainThread <=> MainReads \/ LoadTail \/ PublishPending \/ LoadBump
  BY DEF MainThread, MainReads
<1>5. Return => main' = Resting
  BY DEF Return
<1> QED BY <1>1, <1>2, <1>3, <1>4, <1>5 DEF UnchangedState, UnchangedAudio

LEMMA AudioFrame ==
  /\ AudioThread => UNCHANGED <<active, pending, loaded, pendingTail, main, lastLoad, samples>>
  /\ (\E flush \in BOOLEAN : CallBegin(flush)) \/ TryReadPending =>
       UNCHANGED <<host, published, engine, voices, applied, tail, tailRevision, changes, current,
                   laps, failed>>
  /\ Recheck => UNCHANGED <<host, published, voices, tail, tailRevision, changes, current, laps, failed>>
  /\ (\E f \in Fields : ParamEvent(f)) =>
       UNCHANGED <<host, published, voices, applied, tail, tailRevision, current, laps, failed>>
  /\ Notes \/ Reset =>
       UNCHANGED <<host, published, engine, applied, tail, tailRevision, audio, changes, current,
                   laps, failed>>
  /\ BlockFails => UNCHANGED <<host, published, engine, voices, applied, tail, tailRevision, changes,
                               current, laps>>
  /\ EventsDone => UNCHANGED <<host, published, engine, voices, tail, tailRevision, changes, current,
                               laps, failed>>
  /\ HostBegin => UNCHANGED <<published, engine, voices, applied, tail, tailRevision, changes,
                              current, failed>>
  /\ HostWrite => UNCHANGED <<published, engine, voices, applied, tail, tailRevision, changes,
                              current, laps, failed>>
  /\ HostEnd => UNCHANGED <<published, engine, voices, applied, tail, tailRevision, changes, laps,
                            failed>>
  /\ PublishRevision => UNCHANGED <<host, engine, voices, applied, tail, tailRevision, changes, laps,
                                    failed>>
  /\ SyncTail => UNCHANGED <<host, published, engine, voices, applied, tailRevision, changes,
                             current, laps, failed>>
  /\ SyncTailRevision => UNCHANGED <<host, published, engine, voices, applied, tail, changes,
                                     current, laps>>
<1>1. AudioThread => UnchangedMain
  BY DEF AudioThread, CallBegin, TryReadPending, Recheck, ParamEvent, Notes, Reset, BlockFails,
         EventsDone, HostBegin, HostWrite, HostEnd, PublishRevision, SyncTail, SyncTailRevision
<1> QED BY <1>1 DEF UnchangedMain, CallBegin, TryReadPending, Recheck, ParamEvent, Notes, Reset,
           BlockFails, EventsDone, HostBegin, HostWrite, HostEnd, PublishRevision, SyncTail,
           SyncTailRevision

\* What the small steps of the audio thread do besides.
LEMMA SmallSteps ==
  /\ Notes => /\ audio.pc = "events" /\ ~audio.flush
              /\ \/ voices' = voices \cup {samples[engine.release]}
                 \/ \E n \in voices : voices' = voices \ {n}
  /\ Reset => active /\ audio.pc = "idle" /\ voices' = {}
  /\ BlockFails => audio.pc = "events" /\ ~audio.flush /\ audio' = NoCall /\ failed'
  /\ PublishRevision => published' = applied
  /\ SyncTail => tail' = Longest({samples[engine.release]} \cup voices)
  /\ SyncTailRevision => tailRevision' = applied /\ failed' = (failed /\ audio.flush)
  BY DEF Notes, Reset, BlockFails, PublishRevision, SyncTail, SyncTailRevision, AudioIdle

LEMMA HostIsFields ==
  ASSUME TypeOK, NEW snapshot, HostIs(snapshot)
  PROVE  host'.value = snapshot /\ (Odd(host'.seq) <=> Odd(host.seq))
<1>1. host'.value = snapshot /\ host'.seq = (host.seq + 2) % HostModulus
  BY DEF HostIs
<1>2. Odd((host.seq + 2) % HostModulus) <=> Odd(host.seq)
  BY Numbers, Wrap
<1> QED BY <1>1, <1>2

LEMMA NotRunningFields ==
  ASSUME TypeOK
  PROVE  /\ NotRunning => /\ main.pc = "idle"
                          /\ UNCHANGED <<main, audio, samples, laps, current>>
         /\ Activate =>
              /\ ~active /\ active' /\ ~failed' /\ engine' = Effective /\ host'.value = Effective
              /\ Odd(host'.seq) <=> Odd(host.seq)
              /\ tail' = samples[Effective.release] /\ pendingTail' = samples[Effective.release]
              /\ tailRevision' = loaded /\ applied' = loaded /\ published' = loaded
              /\ UNCHANGED <<pending, loaded, voices, changes, lastLoad>>
         /\ Deactivate =>
              /\ active /\ ~active' /\ audio.pc = "idle" /\ voices' = {}
              /\ applied' = loaded /\ published' = loaded
              /\ host'.value = IF loaded # published THEN pending.value ELSE host.value
              /\ Odd(host'.seq) <=> Odd(host.seq)
              /\ UNCHANGED <<pending, loaded, engine, tail, pendingTail, tailRevision, changes,
                             lastLoad, failed>>
         /\ LoadInactive =>
              /\ ~active /\ changes < MaxChanges /\ changes' = changes + 1 /\ lastLoad' = changes + 1
              /\ pending'.seq = pending.seq + 2
              /\ pending'.value.other = changes + 1 /\ pending'.value.release = changes + 1
              /\ host'.value.other = changes + 1 /\ host'.value.release = changes + 1
              /\ Odd(host'.seq) <=> Odd(host.seq)
              /\ loaded' = loaded + 1 /\ applied' = loaded + 1 /\ published' = loaded + 1
              /\ UNCHANGED <<active, engine, voices, tail, pendingTail, tailRevision, failed>>
         /\ \A f \in Fields : FlushInactive(f) =>
              /\ ~active /\ changes < MaxChanges /\ changes' = changes + 1
              /\ host'.value[f] = changes + 1
              /\ \A g \in Fields \ {f} : host'.value[g] = Effective[g]
              /\ Odd(host'.seq) <=> Odd(host.seq)
              /\ applied' = loaded /\ published' = loaded
              /\ UNCHANGED <<active, pending, loaded, engine, voices, tail, pendingTail,
                             tailRevision, lastLoad, failed>>
<1>1. NotRunning => main.pc = "idle" /\ UNCHANGED <<main, audio, samples, laps, current>>
  BY DEF NotRunning, Activate, Deactivate, LoadInactive, FlushInactive
<1>2. CASE Activate
  BY <1>1, <1>2, HostIsFields DEF Activate, Deactivate, LoadInactive, FlushInactive
<1>3. CASE Deactivate
  BY <1>1, <1>3, HostIsFields DEF Activate, Deactivate, LoadInactive, FlushInactive, AudioIdle
<1>4. CASE LoadInactive
  <2>1. host'.value = Both(changes + 1) /\ (Odd(host'.seq) <=> Odd(host.seq))
    BY <1>4, HostIsFields DEF LoadInactive
  <2>2. pending'.seq = pending.seq + 2 /\ pending'.value = Both(changes + 1)
    BY <1>4 DEF LoadInactive
  <2> QED BY <1>1, <1>4, <2>1, <2>2 DEF Activate, Deactivate, LoadInactive, FlushInactive, Both, Fields
<1>5. ASSUME NEW f \in Fields, FlushInactive(f)
      PROVE  /\ ~active /\ changes < MaxChanges /\ changes' = changes + 1
             /\ host'.value[f] = changes + 1
             /\ \A g \in Fields \ {f} : host'.value[g] = Effective[g]
             /\ Odd(host'.seq) <=> Odd(host.seq)
             /\ applied' = loaded /\ published' = loaded
             /\ UNCHANGED <<active, pending, loaded, engine, voices, tail, pendingTail,
                            tailRevision, lastLoad, failed>>
  <2> DEFINE s == [Effective EXCEPT ![f] = changes + 1]
  <2>1. host'.value = s /\ (Odd(host'.seq) <=> Odd(host.seq))
    BY <1>5, HostIsFields DEF FlushInactive
  <2>2. Effective \in Snapshot
    BY EffectiveIsSnapshot
  <2>3. s[f] = changes + 1 /\ \A g \in Fields \ {f} : s[g] = Effective[g]
    BY <2>2 DEF Snapshot
  <2> HIDE DEF s
  <2> QED BY <1>5, <2>1, <2>3 DEF FlushInactive
<1>6. CASE ~Activate /\ ~Deactivate /\ ~LoadInactive
  BY <1>1, <1>5, <1>6
<1>7. Activate => ~Deactivate /\ ~LoadInactive
  BY DEF Activate, Deactivate, LoadInactive
<1> QED BY <1>2, <1>3, <1>4, <1>6
-----------------------------------------------------------------------------
(* The parts of the invariant, one by one. *)

LEMMA TypesAreKept ==
  ASSUME IInv, [Next]_vars PROVE TypeOK'
<1>1. CASE UNCHANGED vars
  BY <1>1 DEF vars, IInv, TypeOK
<1> QED BY <1>1, NextCases, MainTypes, AudioTypes, InactiveTypes DEF IInv, MainThread, AudioThread, NotRunning

LEMMA InactiveIsKept ==
  ASSUME TypeOK, IInv, [Next]_vars PROVE Inactive'
<1> USE DEF Inactive, AudioIdle, Storing
<1>0. Inactive
  BY DEF IInv
<1> USE <1>0
<1>1. CASE MainThread
  BY <1>1, MainFrame
<1>2. CASE NotRunning
  BY <1>2, NotRunningFields DEF NotRunning
<1>3. ASSUME AudioThread, UNCHANGED voices, ~active => FALSE, Storing' => audio'.flush PROVE Inactive'
  BY <1>3, AudioFrame
<1>4. ASSUME NEW flush \in BOOLEAN, CallBegin(flush) PROVE Inactive'
  <2>1. active /\ ~Storing'
    BY <1>4, CallBeginFields
  <2> QED BY <1>3, <1>4, <2>1, AudioFrame DEF AudioThread
<1>5. CASE Recheck
  <2>1. active /\ ~Storing'
    BY <1>5, RecheckFields, Calls
  <2> QED BY <1>3, <1>5, <2>1, AudioFrame DEF AudioThread
<1>6. CASE Notes
  <2>1. UNCHANGED <<active, audio>> /\ active
    BY <1>6, AudioFrame, SmallSteps DEF AudioThread
  <2>2. PICK longest \in Nat : \A n \in voices : n <= longest
    OBVIOUS
  <2>3. samples[engine.release] \in Nat
    BY Numbers, Values
  <2>4. CASE voices' = voices \cup {samples[engine.release]}
    <3> DEFINE b == longest + samples[engine.release]
    <3>1. b \in Nat /\ \A n \in voices' : n <= b
      BY <2>2, <2>3, <2>4, Numbers
    <3> HIDE DEF b
    <3> QED BY <2>1, <3>1
  <2>5. CASE \E n \in voices : voices' = voices \ {n}
    BY <2>1, <2>2, <2>5
  <2> QED BY <1>6, <2>4, <2>5, SmallSteps
<1>7. CASE Reset \/ BlockFails
  <2>1. active /\ ~Storing' /\ (voices' = voices \/ voices' = {}) /\ active' = active
    BY <1>7, AudioFrame, SmallSteps, Calls DEF AudioThread
  <2> QED BY <2>1
<1>8. CASE TryReadPending
  BY <1>8, AudioFrame, TryReadFields, Calls DEF AudioThread, OtherThan
<1>9. CASE \E f \in Fields : ParamEvent(f)
  BY <1>9, AudioFrame, ParamEventFields DEF AudioThread
<1>10. CASE EventsDone \/ HostBegin \/ HostWrite
  BY <1>10, AudioFrame, EventsDoneFields, HostBeginFields, HostWriteFields, Calls DEF AudioThread, OtherThan
<1>11. CASE HostEnd \/ PublishRevision \/ SyncTail \/ SyncTailRevision
  BY <1>11, AudioFrame, HostEndFields, OtherAudioFields, Calls DEF AudioThread, OtherThan
<1>12. CASE UNCHANGED vars
  BY <1>12 DEF vars
<1> QED BY <1>1, <1>2, <1>4, <1>5, <1>6, <1>7, <1>8, <1>9, <1>10, <1>11, <1>12, NextCases DEF AudioThread

LEMMA LoadsAreInOrder ==
  ASSUME TypeOK, IInv, [Next]_vars PROVE LoadsInOrder'
<1> USE DEF LoadsInOrder, Loading
<1>0. /\ LoadsInOrder /\ loaded \in Nat /\ changes \in Nat /\ lastLoad \in Nat
      /\ main.value.other \in Nat
  BY Numbers, Values, Zeros DEF IInv
<1> USE <1>0
<1>1. CASE LoadTail
  BY <1>1, MainFrame, LoadTailFields DEF MainThread
<1>2. CASE PublishPending
  BY <1>2, MainFrame, PublishFields DEF MainThread, NewPc
<1>3. CASE LoadBump
  BY <1>3, MainFrame, Calls DEF MainThread
<1>4. CASE MainReads
  <2>1. ~Loading'
    BY <1>4, MainFrame, ReadFields, TailFields, Calls DEF MainReads, NewPc
  <2> QED BY <1>4, <2>1, MainFrame
<1>5. CASE NotRunning
  <2>1. ~Loading /\ ~Loading'
    BY <1>5, NotRunningFields
  <2> QED BY <1>5, <2>1, NotRunningFields DEF NotRunning
<1>6. CASE AudioThread
  <2>1. changes' = changes \/ changes' = changes + 1
    BY <1>6, AudioFrame, ParamEventFields DEF AudioThread
  <2> QED BY <1>6, <2>1, AudioFrame
<1>7. CASE UNCHANGED vars
  BY <1>7 DEF vars
<1> QED BY <1>1, <1>2, <1>3, <1>4, <1>5, <1>6, <1>7, NextCases DEF MainThread, MainReads

LEMMA PendingStaysWhole ==
  ASSUME TypeOK, IInv, [Next]_vars PROVE PendingIsWhole'
<1> USE DEF PendingIsWhole
<1>0. PendingIsWhole /\ LoadsInOrder /\ loaded \in Nat /\ pending.seq \in Nat
  BY Numbers DEF IInv
<1> USE <1>0
<1>1. CASE LoadTail
  BY <1>1, MainFrame, LoadTailFields DEF MainThread
<1>2. CASE PublishPending
  <2>1. UNCHANGED <<loaded, lastLoad>>
    BY <1>2, MainFrame
  <2>2. CASE main.pc = "pendBegin"
    BY <1>2, <2>1, <2>2, PublishFields DEF NewPc
  <2>3. CASE main.pc = "pendOther"
    BY <1>2, <2>1, <2>3, PublishFields DEF NewPc
  <2>4. CASE main.pc = "pendRelease"
    <3>1. main.value.other = main.value.release
      BY <2>4 DEF LoadsInOrder, Loading
    <3> QED BY <1>2, <2>1, <2>4, <3>1, PublishFields DEF NewPc
  <2>5. CASE main.pc = "pendEnd"
    BY <1>2, <2>1, <2>5, PublishFields DEF NewPc
  <2> QED BY <1>2, <2>2, <2>3, <2>4, <2>5, PublishFields
<1>3. CASE LoadBump
  BY <1>3, MainFrame, Calls DEF MainThread
<1>4. CASE MainReads
  <2>1. main.pc \notin {"pendOther", "pendRelease", "pendEnd", "bump"}
    BY <1>4, ReadFields, TailFields DEF MainReads, Return
  <2>2. main'.pc \notin {"pendOther", "pendRelease", "pendEnd", "bump"}
    BY <1>4, MainFrame, ReadFields, TailFields, Calls DEF MainReads, NewPc
  <2> QED BY <1>4, <2>1, <2>2, MainFrame
<1>5. CASE NotRunning
  BY <1>5, NotRunningFields DEF NotRunning
<1>6. CASE AudioThread
  BY <1>6, AudioFrame
<1>7. CASE UNCHANGED vars
  BY <1>7 DEF vars
<1> QED BY <1>1, <1>2, <1>3, <1>4, <1>5, <1>6, <1>7, NextCases DEF MainThread, MainReads

LEMMA RevisionsFollow ==
  ASSUME TypeOK, IInv, [Next]_vars PROVE Revisions'
<1> USE DEF Revisions, AudioIdle, Replaying, Replayed, Publishing
<1>0. /\ Revisions /\ Inactive
      /\ loaded \in Nat /\ published \in Nat /\ applied \in Nat /\ tailRevision \in Nat
      /\ audio.revision \in Nat
  BY Numbers DEF IInv
<1> USE <1>0
<1>1. CASE MainThread
  <2>1. loaded' = loaded \/ loaded' = loaded + 1
    BY <1>1, MainFrame DEF MainThread, MainReads
  <2> QED BY <1>1, <2>1, MainFrame
<1>2. CASE NotRunning
  <2>1. audio' = audio /\ audio.pc = "idle"
    BY <1>2, NotRunningFields DEF NotRunning, Inactive
  <2>2. CASE Activate
    BY <2>1, <2>2, NotRunningFields
  <2>3. CASE Deactivate
    BY <2>1, <2>3, NotRunningFields
  <2>4. CASE LoadInactive
    BY <2>1, <2>4, NotRunningFields
  <2>5. CASE \E f \in Fields : FlushInactive(f)
    BY <2>1, <2>5, NotRunningFields
  <2> QED BY <1>2, <2>2, <2>3, <2>4, <2>5 DEF NotRunning
<1>3. ASSUME NEW flush \in BOOLEAN, CallBegin(flush) PROVE Revisions'
  <2>1. UNCHANGED <<loaded, published, applied, tailRevision>>
    BY <1>3, AudioFrame DEF AudioThread
  <2>2. /\ audio.pc = "idle" /\ audio'.revision = loaded /\ audio'.replay = FALSE
        /\ audio'.pc = IF loaded # applied THEN "readBefore" ELSE "events"
    BY <1>3, CallBeginFields
  <2> QED BY <2>1, <2>2
<1>4. CASE TryReadPending
  <2>1. UNCHANGED <<loaded, published, applied, tailRevision>>
    BY <1>4, AudioFrame DEF AudioThread
  <2>2. CASE audio' = NoReplay
    BY <1>4, <2>1, <2>2, TryReadFields, Calls
  <2>3. CASE audio' # NoReplay
    BY <1>4, <2>1, <2>3, TryReadFields DEF OtherThan
  <2> QED BY <2>2, <2>3
<1>5. CASE Recheck
  <2>1. UNCHANGED <<loaded, published, tailRevision>> /\ audio.pc = "recheck"
    BY <1>5, AudioFrame, RecheckFields DEF AudioThread
  <2>2. CASE loaded # audio.revision
    BY <1>5, <2>1, <2>2, RecheckFields, Calls
  <2>3. CASE loaded = audio.revision
    BY <1>5, <2>1, <2>3, RecheckFields
  <2> QED BY <2>2, <2>3
<1>6. CASE EventsDone
  <2>1. UNCHANGED <<loaded, published, tailRevision>> /\ audio.pc = "events"
    BY <1>6, AudioFrame, EventsDoneFields DEF AudioThread
  <2>2. CASE audio.flush
    BY <1>6, <2>1, <2>2, EventsDoneFields, Calls
  <2>3. CASE ~audio.flush
    BY <1>6, <2>1, <2>3, EventsDoneFields DEF OtherThan
  <2> QED BY <2>2, <2>3
<1>7. CASE \E f \in Fields : ParamEvent(f)
  BY <1>7, AudioFrame, ParamEventFields DEF AudioThread
<1>8. CASE Notes \/ Reset \/ BlockFails
  BY <1>8, AudioFrame, SmallSteps, Calls DEF AudioThread
<1>9. CASE HostBegin \/ HostWrite \/ HostEnd
  BY <1>9, AudioFrame, HostBeginFields, HostWriteFields, HostEndFields DEF AudioThread, OtherThan
<1>10. CASE PublishRevision
  BY <1>10, AudioFrame, SmallSteps, OtherAudioFields DEF AudioThread, OtherThan
<1>11. CASE SyncTail
  BY <1>11, AudioFrame, OtherAudioFields DEF AudioThread, OtherThan
<1>12. CASE SyncTailRevision
  BY <1>12, AudioFrame, SmallSteps, OtherAudioFields, Calls DEF AudioThread, OtherThan
<1>13. CASE UNCHANGED vars
  BY <1>13 DEF vars
<1> QED BY <1>1, <1>2, <1>3, <1>4, <1>5, <1>6, <1>7, <1>8, <1>9, <1>10, <1>11, <1>12, <1>13, NextCases DEF AudioThread

LEMMA ReplayStaysWhole ==
  ASSUME TypeOK, IInv, [Next]_vars PROVE ReplayIsWhole'
<1> USE DEF ReplayIsWhole
<1>0. /\ ReplayIsWhole /\ PendingIsWhole /\ Revisions /\ Inactive
      /\ loaded \in Nat /\ pending.seq \in Nat /\ audio.seq \in Nat /\ audio.revision \in Nat
  BY Numbers DEF IInv
<1> USE <1>0
<1>1. CASE UNCHANGED <<pending, loaded, lastLoad, audio>>
  BY <1>1
<1>2. CASE PublishPending
  <2>1. UNCHANGED <<audio, loaded, lastLoad>>
    BY <1>2, MainFrame DEF MainThread
  <2>2. /\ pending'.seq \in Nat /\ pending.seq <= pending'.seq
        /\ pending.seq < pending'.seq \/ (pending'.seq = pending.seq /\ Odd(pending.seq))
    <3>1. main.pc \in {"pendOther", "pendRelease"} => Odd(pending.seq)
      BY Parity DEF PendingIsWhole
    <3>2. \/ pending'.seq = pending.seq + 1
          \/ main.pc \in {"pendOther", "pendRelease"} /\ pending'.seq = pending.seq
      BY <1>2, PublishFields
    <3>3. CASE pending'.seq = pending.seq + 1
      BY <3>3
    <3>4. CASE main.pc \in {"pendOther", "pendRelease"} /\ pending'.seq = pending.seq
      BY <3>1, <3>4
    <3> QED BY <3>2, <3>3, <3>4
  <2> QED BY <2>1, <2>2
<1>3. CASE LoadBump
  <2>1. /\ UNCHANGED <<audio, pending>> /\ loaded' = loaded + 1 /\ lastLoad' = main.value.other
        /\ main.pc = "bump"
    BY <1>3, MainFrame DEF MainThread
  <2>2. pending.seq = 2 * loaded' /\ pending.value.other = lastLoad' /\ pending.value.release = lastLoad'
    BY <2>1 DEF PendingIsWhole
  <2> QED BY <2>1, <2>2
<1>4. CASE NotRunning
  <2>1. audio'.pc = "idle"
    BY <1>4, NotRunningFields DEF NotRunning, Inactive, AudioIdle
  <2> QED BY <2>1
<1>5. CASE TryReadPending
  <2>1. UNCHANGED <<pending, loaded, lastLoad>>
    BY <1>5, AudioFrame DEF AudioThread
  <2>2. CASE audio' = NoReplay
    BY <2>2, Calls
  <2>3. CASE audio.pc = "readBefore" /\ audio' # NoReplay
    <3>1. /\ audio'.pc = "readOther" /\ audio'.seq = pending.seq /\ audio'.revision = audio.revision
          /\ ~Odd(pending.seq)
      BY <1>5, <2>3, TryReadFields
    <3>2. audio.revision <= loaded
      BY <2>3 DEF Revisions, Replaying
    <3>3. 2 * loaded <= pending.seq
      BY DEF PendingIsWhole
    <3> QED BY <2>1, <3>1, <3>2, <3>3
  <2>4. CASE audio.pc \in {"readOther", "readRelease"}
    BY <1>5, <2>1, <2>4, TryReadFields, Calls
  <2>5. CASE audio.pc = "readAfter" /\ audio' # NoReplay
    <3>1. OtherThan("recheck") /\ pending.seq = audio.seq
      BY <1>5, <2>5, TryReadFields
    <3>2. audio.seq = 2 * loaded => pending.value.other = lastLoad /\ pending.value.release = lastLoad
      BY <3>1 DEF PendingIsWhole
    <3> QED BY <2>1, <2>5, <3>1, <3>2 DEF OtherThan
  <2> QED BY <1>5, <2>2, <2>3, <2>4, <2>5, TryReadFields
<1>6. ASSUME audio'.pc \notin {"readOther", "readRelease", "readAfter", "recheck"} PROVE ReplayIsWhole'
  BY <1>6
<1>7. CASE (\E flush \in BOOLEAN : CallBegin(flush)) \/ Recheck \/ \E f \in Fields : ParamEvent(f)
  BY <1>6, <1>7, CallBeginFields, RecheckFields, ParamEventFields, Calls
<1>8. CASE Notes \/ Reset \/ BlockFails \/ EventsDone
  BY <1>6, <1>8, AudioFrame, SmallSteps, EventsDoneFields, Calls DEF OtherThan
<1>9. CASE HostBegin \/ HostWrite \/ HostEnd
  BY <1>6, <1>9, HostBeginFields, HostWriteFields, HostEndFields DEF OtherThan
<1>10. CASE PublishRevision \/ SyncTail \/ SyncTailRevision
  BY <1>6, <1>10, OtherAudioFields, Calls DEF OtherThan
<1>11. CASE LoadTail \/ MainReads
  BY <1>1, <1>11, MainFrame DEF MainThread, MainReads
<1>12. CASE UNCHANGED vars
  BY <1>1, <1>12 DEF vars
<1> QED BY <1>2, <1>3, <1>4, <1>5, <1>7, <1>8, <1>9, <1>10, <1>11, <1>12, NextCases
        DEF MainThread, MainReads, AudioThread

\* Where the pending snapshot is read whole.
LEMMA EffectiveIsNew ==
  ASSUME TypeOK, PendingIsWhole, HostIsNew, main.pc = "idle"
  PROVE  \A f \in Fields : Effective[f] >= lastLoad /\ pending.value[f] = lastLoad
<1>1. pending.value.other = lastLoad /\ pending.value.release = lastLoad
  BY DEF PendingIsWhole
<1>2. \A f \in Fields : f = "other" \/ f = "release"
  BY Zeros
<1>3. lastLoad \in Nat
  BY Numbers
<1> QED BY <1>1, <1>2, <1>3 DEF Effective, HostIsNew

LEMMA EngineStaysNew ==
  ASSUME TypeOK, IInv, [Next]_vars PROVE EngineIsNew'
<1> USE DEF EngineIsNew, Replayed
<1>0. /\ EngineIsNew /\ PendingIsWhole /\ Revisions /\ Inactive /\ LoadsInOrder /\ HostIsNew /\ ReplayIsWhole
      /\ loaded \in Nat /\ applied \in Nat /\ audio.revision \in Nat /\ lastLoad \in Nat
      /\ changes \in Nat /\ audio.seq \in Nat /\ pending.seq \in Nat
  BY Numbers DEF IInv
<1> USE <1>0
<1>1. ASSUME UNCHANGED <<active, loaded, lastLoad, engine, applied>>,
             Replayed' => audio.replay /\ audio.pc # "idle" /\ audio'.revision = audio.revision
      PROVE  EngineIsNew'
  BY <1>1 DEF AudioIdle
<1>2. CASE LoadBump
  <2>1. UNCHANGED <<audio, applied>> /\ loaded' = loaded + 1
    BY <1>2, MainFrame DEF MainThread
  <2>2. applied <= loaded /\ (Replayed => audio.revision <= loaded)
    BY DEF Revisions
  <2>3. applied' # loaded' /\ ~(Replayed' /\ audio'.revision = loaded')
    BY <2>1, <2>2 DEF AudioIdle
  <2> QED BY <2>3
<1>3. CASE NotRunning
  <2>1. main.pc = "idle" /\ audio'.pc = "idle"
    BY <1>3, NotRunningFields DEF NotRunning, Inactive, AudioIdle
  <2>2. CASE Activate
    BY <2>1, <2>2, EffectiveIsNew, NotRunningFields
  <2>3. CASE ~Activate
    <3>1. ~active'
      BY <1>3, <2>3, NotRunningFields DEF NotRunning
    <3> QED BY <3>1
  <2> QED BY <2>2, <2>3
<1>4. CASE Recheck
  <2>1. UNCHANGED <<active, loaded, lastLoad, main, pending>>
    BY <1>4, AudioFrame DEF AudioThread
  <2>2. CASE loaded # audio.revision
    BY <1>1, <1>4, <2>1, <2>2, RecheckFields, Calls
  <2>3. CASE loaded = audio.revision
    <3>1. audio.pc = "recheck" /\ engine' = audio.value
      BY <1>4, <2>3, RecheckFields
    <3>2. ~Odd(audio.seq) /\ 2 * loaded <= audio.seq /\ audio.seq <= pending.seq
      BY <2>3, <3>1 DEF ReplayIsWhole
    <3>3. CASE audio.seq = 2 * loaded
      BY <2>1, <3>1, <3>3, Zeros DEF ReplayIsWhole
    <3>4. CASE audio.seq # 2 * loaded
      <4>1. audio.seq # 2 * loaded + 1
        <5>1. Odd(2 * loaded + 1)
          BY Parity
        <5> QED BY <3>2, <5>1
      <4>2. main.pc = "bump" /\ audio.seq = pending.seq
        BY <3>2, <3>4, <4>1 DEF PendingIsWhole
      <4>3. audio.value.other = main.value.other /\ audio.value.release = main.value.other
        BY <3>1, <4>2 DEF ReplayIsWhole, PendingIsWhole
      <4>4. main.value.other >= lastLoad
        BY <4>2, Values DEF LoadsInOrder, Loading
      <4> QED BY <2>1, <3>1, <4>3, <4>4, Zeros
    <3> QED BY <3>3, <3>4
  <2> QED BY <2>2, <2>3
<1>5. ASSUME NEW f \in Fields, ParamEvent(f) PROVE EngineIsNew'
  <2>1. UNCHANGED <<active, loaded, lastLoad, applied>>
    BY <1>5, AudioFrame DEF AudioThread
  <2>2. /\ engine'[f] = changes + 1 /\ \A g \in Fields \ {f} : engine'[g] = engine[g]
        /\ audio'.revision = audio.revision /\ audio'.replay = audio.replay /\ audio.pc = "events"
    BY <1>5, ParamEventFields
  <2>3. changes + 1 >= lastLoad
    BY DEF LoadsInOrder
  <2> QED BY <2>1, <2>2, <2>3 DEF AudioIdle
<1>6. CASE EventsDone
  <2>1. UNCHANGED <<active, loaded, lastLoad, engine>>
    BY <1>6, AudioFrame DEF AudioThread
  <2>2. audio.pc = "events" /\ applied' = IF audio.replay THEN audio.revision ELSE applied
    BY <1>6, EventsDoneFields
  <2>3. Replayed' => audio.replay /\ audio'.revision = audio.revision
    BY <1>6, EventsDoneFields, Calls DEF OtherThan
  <2> QED BY <2>1, <2>2, <2>3 DEF AudioIdle
<1>7. CASE (\E flush \in BOOLEAN : CallBegin(flush)) \/ TryReadPending
  BY <1>1, <1>7, AudioFrame, CallBeginFields, TryReadFields, Calls DEF AudioThread, OtherThan
<1>8. CASE Notes \/ Reset \/ BlockFails
  BY <1>1, <1>8, AudioFrame, SmallSteps, Calls DEF AudioThread, AudioIdle
<1>9. CASE HostBegin \/ HostWrite \/ HostEnd
  BY <1>1, <1>9, AudioFrame, HostBeginFields, HostWriteFields, HostEndFields DEF AudioThread, OtherThan
<1>10. CASE PublishRevision \/ SyncTail \/ SyncTailRevision
  BY <1>1, <1>10, AudioFrame, OtherAudioFields, Calls DEF AudioThread, OtherThan
<1>11. CASE LoadTail \/ PublishPending \/ MainReads
  BY <1>1, <1>11, MainFrame DEF MainThread, MainReads, AudioIdle
<1>12. CASE UNCHANGED vars
  BY <1>1, <1>12 DEF vars, AudioIdle
<1> QED BY <1>2, <1>3, <1>4, <1>5, <1>6, <1>7, <1>8, <1>9, <1>10, <1>11, <1>12, NextCases
        DEF MainThread, MainReads, AudioThread

LEMMA HostStaysNew ==
  ASSUME TypeOK, IInv, [Next]_vars PROVE HostIsNew'
<1> USE DEF HostIsNew
<1>0. /\ HostIsNew /\ EngineIsNew /\ PendingIsWhole /\ Revisions /\ Inactive /\ LoadsInOrder /\ HostIsWritten
      /\ loaded \in Nat /\ applied \in Nat /\ published \in Nat /\ lastLoad \in Nat /\ changes \in Nat
      /\ \A f \in Fields : f = "other" \/ f = "release"
  BY Numbers, Zeros DEF IInv
<1> USE <1>0
<1>1. CASE UNCHANGED <<published, loaded, lastLoad>> /\ host'.value = host.value
  BY <1>1
<1>2. CASE LoadBump
  BY <1>2, MainFrame DEF MainThread, Revisions
<1>3. CASE NotRunning
  <2>1. main.pc = "idle" /\ changes + 1 >= lastLoad
    BY <1>3, NotRunningFields DEF LoadsInOrder
  <2>2. CASE Activate \/ Deactivate
    <3>1. host'.value = Effective /\ UNCHANGED lastLoad
      BY <2>2, NotRunningFields DEF Effective
    <3> QED BY <2>1, <3>1, EffectiveIsNew
  <2>3. CASE LoadInactive
    BY <2>1, <2>3, NotRunningFields
  <2>4. ASSUME NEW f \in Fields, FlushInactive(f) PROVE HostIsNew'
    <3>1. /\ host'.value[f] = changes + 1 /\ \A g \in Fields \ {f} : host'.value[g] = Effective[g]
          /\ UNCHANGED lastLoad
      BY <2>4, NotRunningFields
    <3> QED BY <2>1, <3>1, EffectiveIsNew
  <2> QED BY <1>3, <2>2, <2>3, <2>4 DEF NotRunning
\* What the engine has is new when it may come to be seen.
<1>4. audio.pc # "idle" /\ applied = loaded => \A f \in Fields : engine[f] >= lastLoad
  BY DEF EngineIsNew, Inactive, AudioIdle
<1>5. CASE HostWrite
  <2>1. UNCHANGED <<published, loaded, lastLoad>> /\ audio.pc # "idle"
    BY <1>5, AudioFrame, HostWriteFields DEF AudioThread
  <2>2. published = loaded => applied = loaded
    BY DEF Revisions
  <2>3. \A f \in Fields : host'.value[f] = host.value[f] \/ host'.value[f] = engine[f]
    BY <1>5, HostWriteFields
  <2> QED BY <1>4, <2>1, <2>2, <2>3
<1>6. CASE PublishRevision
  <2>1. UNCHANGED <<host, loaded, lastLoad>> /\ published' = applied /\ audio.pc = "pubRevision"
    BY <1>6, AudioFrame, SmallSteps, OtherAudioFields DEF AudioThread
  <2>2. \A f \in Fields : host.value[f] = engine[f]
    BY <2>1 DEF HostIsWritten
  <2> QED BY <1>4, <2>1, <2>2
<1>7. CASE HostBegin \/ HostEnd
  BY <1>1, <1>7, AudioFrame, HostBeginFields, HostEndFields DEF AudioThread
<1>8. CASE AudioThread /\ ~HostWrite /\ ~PublishRevision /\ ~HostBegin /\ ~HostEnd
  BY <1>1, <1>8, AudioFrame DEF AudioThread
<1>9. CASE MainThread /\ ~LoadBump
  BY <1>1, <1>9, MainFrame DEF MainThread, MainReads
<1>10. CASE UNCHANGED vars
  BY <1>1, <1>10 DEF vars
<1> QED BY <1>2, <1>3, <1>5, <1>6, <1>7, <1>8, <1>9, <1>10, NextCases

LEMMA HostStaysWritten ==
  ASSUME TypeOK, IInv, [Next]_vars PROVE HostIsWritten'
<1> USE DEF HostIsWritten
<1>0. HostIsWritten /\ Inactive
  BY DEF IInv
<1> USE <1>0
<1>1. CASE UNCHANGED <<host, engine, audio>>
  BY <1>1
<1>2. CASE NotRunning
  <2>1. audio.pc = "idle" /\ UNCHANGED audio /\ (Odd(host'.seq) <=> Odd(host.seq))
    BY <1>2, NotRunningFields DEF NotRunning, Inactive, AudioIdle
  <2> QED BY <2>1
<1>3. CASE UNCHANGED <<host, engine>> /\ audio.pc \notin {"pubOther", "pubRelease", "pubEnd", "one", "oneEnd"}
           /\ audio'.pc \notin {"pubOther", "pubRelease", "pubEnd", "one", "oneEnd", "pubRevision"}
  BY <1>3
<1>4. CASE HostBegin
  <2>1. (Odd(host'.seq) <=> ~Odd(host.seq)) /\ UNCHANGED engine
    BY <1>4, AudioFrame, HostBeginFields, Numbers, Wrap
  <2> QED BY <1>4, <2>1, HostBeginFields DEF OtherThan
<1>5. CASE HostEnd
  <2>1. (Odd(host'.seq) <=> ~Odd(host.seq)) /\ UNCHANGED engine /\ host'.value = host.value
    BY <1>5, AudioFrame, HostEndFields, Numbers, Wrap
  <2> QED BY <1>5, <2>1, HostEndFields DEF OtherThan
<1>6. CASE HostWrite
  BY <1>6, AudioFrame, HostWriteFields DEF OtherThan
<1>7. CASE (\E flush \in BOOLEAN : CallBegin(flush)) \/ TryReadPending
  BY <1>3, <1>7, AudioFrame, CallBeginFields, TryReadFields, Calls DEF OtherThan
<1>8. CASE Recheck
  BY <1>8, AudioFrame, RecheckFields, Calls
<1>9. CASE \E f \in Fields : ParamEvent(f)
  BY <1>9, AudioFrame, ParamEventFields
<1>10. CASE Notes \/ Reset
  BY <1>1, <1>10, AudioFrame
<1>11. CASE BlockFails \/ EventsDone
  BY <1>3, <1>11, AudioFrame, SmallSteps, EventsDoneFields, Calls DEF OtherThan
<1>12. CASE PublishRevision \/ SyncTail \/ SyncTailRevision
  BY <1>3, <1>12, AudioFrame, OtherAudioFields, Calls DEF OtherThan
<1>13. CASE MainThread
  BY <1>1, <1>13, MainFrame
<1>14. CASE UNCHANGED vars
  BY <1>1, <1>14 DEF vars
<1> QED BY <1>2, <1>4, <1>5, <1>6, <1>7, <1>8, <1>9, <1>10, <1>11, <1>12, <1>13, <1>14, NextCases DEF AudioThread

\* The number of the host snapshot moves away from the one the read began with.
LEMMA OneFurther ==
  ASSUME NEW s \in 0 .. HostModulus - 1, NEW m \in 0 .. HostModulus - 1, NEW d \in Nat,
         d + 1 < HostModulus, s = m + d \/ s = m + d - HostModulus
  PROVE  /\ \/ (s + 1) % HostModulus = m + (d + 1)
            \/ (s + 1) % HostModulus = m + (d + 1) - HostModulus
         /\ (s + 1) % HostModulus # m
<1>1. (s + 1) % HostModulus = IF s + 1 = HostModulus THEN 0 ELSE s + 1
  BY Wrap
<1> QED BY <1>1, BoundsAreNat

LEMMA ReadStaysWhole ==
  ASSUME TypeOK, IInv, [Next]_vars PROVE ReadIsWhole'
<1> USE DEF ReadIsWhole, Reading
<1>0. /\ ReadIsWhole /\ HostIsWritten /\ Revisions
      /\ laps \in Nat /\ host.seq \in Nat /\ main.seq \in Nat
  BY Numbers DEF IInv
<1> USE <1>0
<1>1. CASE UNCHANGED <<main, host, loaded, published, current, laps>>
  BY <1>1 DEF Distance
<1>2. ASSUME main'.pc \notin {"readBefore", "readOther", "readRelease", "readAfter"} PROVE ReadIsWhole'
  BY <1>2
<1>3. CASE NotRunning
  BY <1>2, <1>3, NotRunningFields
<1>4. CASE MainThread
  <2>1. UNCHANGED <<host, published>>
    BY <1>4, MainFrame
  <2>2. CASE ReadBegin
    <3>1. UNCHANGED loaded
      BY <2>2, MainFrame DEF MainReads
    <3>2. CASE loaded # published
      BY <1>2, <2>2, <3>2, ReadFields
    <3>3. CASE loaded = published
      <4>1. main'.pc = "readBefore" /\ (~Odd(host.seq) => current' = {host.value})
        BY <2>2, <3>3, ReadFields DEF ReadBegin, Effective
      <4> QED BY <2>1, <3>1, <3>3, <4>1
    <3> QED BY <3>2, <3>3
  <2>3. CASE ReadBefore
    <3>1. UNCHANGED <<loaded, current>> /\ laps' = 0 /\ main.pc = "readBefore"
      BY <2>3, MainFrame DEF MainReads, ReadBefore
    <3>2. CASE Odd(host.seq)
      <4>1. main' = main
        BY <2>3, <3>2, ReadFields
      <4> QED BY <2>1, <3>1, <4>1
    <3>3. CASE ~Odd(host.seq)
      <4>1. main'.pc = "readOther" /\ main'.seq = host.seq
        BY <2>3, <3>3, ReadFields
      <4>2. Distance' = 0
        <5>1. Distance' = 2 * laps' - (IF Odd(host'.seq) THEN 1 ELSE 0)
          BY DEF Distance
        <5>2. ~Odd(host'.seq) /\ laps' = 0
          BY <2>1, <3>1, <3>3
        <5>3. Distance' = 2 * laps' - 0
          BY <5>1, <5>2
        <5>4. 2 * laps' = 0
          BY <5>2
        <5>5. 0 - 0 = 0
          OBVIOUS
        <5> QED BY <5>3, <5>4, <5>5
      <4>3. host'.seq = main'.seq + Distance'
        BY <2>1, <4>1, <4>2
      <4> QED BY <2>1, <3>1, <3>3, <4>1, <4>2, <4>3
    <3> QED BY <3>2, <3>3
  <2>4. CASE \/ ReadField("readOther", "other", "readRelease")
             \/ ReadField("readRelease", "release", "readAfter")
    <3>1. UNCHANGED <<loaded, current, laps>>
      BY <2>4, MainFrame DEF MainReads, ReadField
    <3>2. Distance' = Distance
      BY <2>1, <3>1 DEF Distance
    <3> QED BY <2>1, <2>4, <3>1, <3>2, ReadFields
  <2>5. CASE ReadAfter
    <3>1. UNCHANGED <<loaded, current>>
      BY <2>5, MainFrame DEF MainReads, ReadAfter
    <3> QED BY <2>1, <2>5, <3>1, ReadFields DEF NewPc
  <2>6. CASE LoadTail \/ PublishPending \/ LoadBump
    BY <1>2, <2>6, MainFrame, LoadTailFields, PublishFields, Calls DEF NewPc
  <2>7. CASE TailBegin \/ TailCurrent \/ Return
    BY <1>2, <2>7, MainFrame, TailFields, Calls DEF NewPc
  <2> QED BY <1>4, <2>2, <2>3, <2>4, <2>5, <2>6, <2>7 DEF MainThread
<1>5. laps <= MaxLaps /\ HostModulus = 2 * MaxLaps + 2 /\ MaxLaps \in Nat
  BY BoundsAreNat DEF TypeOK
<1>6. CASE HostBegin
  <2>1. /\ UNCHANGED <<main, loaded, published, current>>
        /\ host'.seq = (host.seq + 1) % HostModulus
    BY <1>6, AudioFrame, HostBeginFields DEF AudioThread
  <2>2. ~Odd(host.seq) /\ Odd(host'.seq)
    BY <1>6, <2>1, HostBeginFields, Numbers, Wrap DEF HostIsWritten
  <2>3. ASSUME main.pc \in {"readOther", "readRelease", "readAfter"}
        PROVE  /\ Distance' >= 0 /\ host'.seq # main.seq
               /\ host'.seq = main.seq + Distance' \/ host'.seq = main.seq + Distance' - HostModulus
    <3>1. laps < MaxLaps /\ laps' = laps + 1
      BY <1>6, <2>3, HostBeginFields
    <3>2. Distance = 2 * laps /\ Distance' = 2 * laps + 1
      BY <2>2, <3>1 DEF Distance
    <3>3. Distance \in Nat /\ Distance + 1 < HostModulus /\ Distance' = Distance + 1
      BY <1>5, <3>1, <3>2
    <3>4. host.seq \in 0 .. HostModulus - 1 /\ main.seq \in 0 .. HostModulus - 1
      BY DEF TypeOK
    <3>5. host.seq = main.seq + Distance \/ host.seq = main.seq + Distance - HostModulus
      BY <2>3
    <3> HIDE DEF ReadIsWhole
    <3>6. /\ host'.seq = main.seq + (Distance + 1) \/ host'.seq = main.seq + (Distance + 1) - HostModulus
          /\ host'.seq # main.seq
      BY <2>1, <3>3, <3>4, <3>5, OneFurther
    <3> QED BY <3>3, <3>6
  <2> QED BY <2>1, <2>2, <2>3
<1>7. CASE HostEnd
  <2>1. /\ UNCHANGED <<main, loaded, published, laps>> /\ host'.value = host.value
        /\ host'.seq = (host.seq + 1) % HostModulus
    BY <1>7, AudioFrame, HostEndFields DEF AudioThread
  <2>2. Odd(host.seq) /\ ~Odd(host'.seq)
    BY <1>7, <2>1, HostEndFields, Numbers, Wrap DEF HostIsWritten
  <2>3. ASSUME main.pc \in {"readOther", "readRelease", "readAfter"}
        PROVE  /\ Distance' >= 0 /\ host'.seq # main.seq
               /\ host'.seq = main.seq + Distance' \/ host'.seq = main.seq + Distance' - HostModulus
    <3>1. Distance >= 0 /\ Distance = 2 * laps - 1 /\ Distance' = 2 * laps
      BY <2>1, <2>2, <2>3 DEF Distance
    <3>2. Distance \in Nat /\ Distance + 1 < HostModulus /\ Distance' = Distance + 1
      BY <1>5, <3>1
    <3>3. host.seq \in 0 .. HostModulus - 1 /\ main.seq \in 0 .. HostModulus - 1
      BY DEF TypeOK
    <3>4. host.seq = main.seq + Distance \/ host.seq = main.seq + Distance - HostModulus
      BY <2>3
    <3> HIDE DEF ReadIsWhole
    <3>5. /\ host'.seq = main.seq + (Distance + 1) \/ host'.seq = main.seq + (Distance + 1) - HostModulus
          /\ host'.seq # main.seq
      BY <2>1, <3>2, <3>3, <3>4, OneFurther
    <3> QED BY <3>2, <3>5
  <2>4. Reading => host'.value \in current' /\ loaded' = published'
    BY <1>7, <2>1, <2>2 DEF HostEnd, Witness, Effective
  <2> QED BY <2>1, <2>2, <2>3, <2>4
<1>8. CASE HostWrite
  <2>1. UNCHANGED <<main, loaded, published, current, laps>> /\ host'.seq = host.seq
    BY <1>8, AudioFrame, HostWriteFields DEF AudioThread
  <2>2. Odd(host.seq)
    BY <1>8, HostWriteFields DEF HostIsWritten
  <2>3. Distance' = Distance
    BY <2>1 DEF Distance
  <2> QED BY <2>1, <2>2, <2>3
<1>9. CASE PublishRevision
  <2>1. UNCHANGED <<main, host, loaded, laps>> /\ published' = applied
    BY <1>9, AudioFrame, SmallSteps DEF AudioThread
  <2>2. current \subseteq current'
    BY <1>9 DEF PublishRevision, Witness
  <2>3. loaded = published => published' = loaded'
    BY <2>1, Numbers DEF Revisions
  <2>4. Distance' = Distance
    BY <2>1 DEF Distance
  <2> QED BY <2>1, <2>2, <2>3, <2>4
<1>10. CASE AudioThread /\ ~HostBegin /\ ~HostEnd /\ ~HostWrite /\ ~PublishRevision
  BY <1>1, <1>10, AudioFrame DEF AudioThread
<1>11. CASE UNCHANGED vars
  BY <1>1, <1>11 DEF vars
<1> QED BY <1>3, <1>4, <1>6, <1>7, <1>8, <1>9, <1>10, <1>11, NextCases

LEMMA HostStaysEngine ==
  ASSUME TypeOK, TypeOK', IInv, [Next]_vars PROVE HostIsEngine'
<1> USE DEF HostIsEngine, Storing
<1>0. HostIsEngine /\ Inactive /\ HostIsWritten
  BY DEF IInv
<1> USE <1>0
<1>a. /\ host.value \in Snapshot /\ engine \in Snapshot
      /\ \A f \in Fields : f = "other" \/ f = "release"
      /\ "other" \in Fields /\ "release" \in Fields
  BY Zeros DEF TypeOK
<1>1. CASE UNCHANGED <<active, failed, host, engine, audio>>
  BY <1>1 DEF Settled, AudioIdle, Replaying
<1>2. ASSUME UNCHANGED <<host, engine>>, Settled' => Settled,
             audio'.pc \notin {"oneBegin", "one", "oneEnd", "tail", "tailRevision"}
      PROVE  HostIsEngine'
  BY <1>2
<1>3. CASE NotRunning
  <2>1. audio.pc = "idle" /\ UNCHANGED audio
    BY <1>3, NotRunningFields DEF NotRunning, Inactive, AudioIdle
  <2>2. CASE Activate
    BY <2>1, <2>2, NotRunningFields
  <2>3. CASE ~Activate
    <3>1. ~active'
      BY <1>3, <2>3, NotRunningFields DEF NotRunning
    <3> QED BY <2>1, <3>1 DEF Settled
  <2> QED BY <2>2, <2>3
<1>4. CASE (\E flush \in BOOLEAN : CallBegin(flush)) \/ TryReadPending
  <2>1. UNCHANGED <<active, failed, host, engine>>
    BY <1>4, AudioFrame DEF AudioThread
  <2>2. CASE \E flush \in BOOLEAN : CallBegin(flush)
    BY <1>2, <2>1, <2>2, CallBeginFields DEF Settled, AudioIdle
  <2>3. CASE TryReadPending
    BY <1>2, <2>1, <2>3, TryReadFields, Calls DEF Settled, AudioIdle, Replaying, OtherThan
  <2> QED BY <1>4, <2>2, <2>3
<1>5. CASE Recheck
  <2>1. UNCHANGED <<active, failed, host>> /\ audio.pc = "recheck"
    BY <1>5, AudioFrame, RecheckFields DEF AudioThread
  <2>2. CASE loaded # audio.revision
    <3>1. engine' = engine /\ audio'.pc = "events"
      BY <1>5, <2>2, RecheckFields, Calls
    <3> QED BY <1>2, <2>1, <3>1 DEF Settled, Replaying
  <2>3. CASE loaded = audio.revision
    <3>1. /\ audio'.pc = IF audio.flush THEN "pubBegin" ELSE "events"
          /\ audio'.flush = audio.flush
      BY <1>5, <2>3, RecheckFields
    <3> QED BY <3>1 DEF Settled, AudioIdle, Replaying
  <2> QED BY <2>2, <2>3
<1>6. ASSUME NEW f \in Fields, ParamEvent(f) PROVE HostIsEngine'
  <2>1. UNCHANGED <<active, failed, host>>
    BY <1>6, AudioFrame DEF AudioThread
  <2>2. /\ audio.pc = "events" /\ audio'.flush = audio.flush
        /\ \A g \in Fields \ {f} : engine'[g] = engine[g]
        /\ IF audio.flush THEN audio'.pc = "oneBegin" /\ audio'.field = f ELSE audio' = audio
    BY <1>6, ParamEventFields
  <2>3. CASE audio.flush
    <3>1. ~failed => host.value = engine
      BY <2>2, <2>3 DEF Settled, Inactive, AudioIdle
    <3> QED BY <2>1, <2>2, <2>3, <3>1 DEF Settled, AudioIdle, Replaying
  <2>4. CASE ~audio.flush
    BY <2>2, <2>4 DEF Settled, AudioIdle, Replaying
  <2> QED BY <2>3, <2>4
<1>7. CASE Notes \/ Reset
  BY <1>1, <1>7, AudioFrame DEF AudioThread
<1>8. CASE BlockFails
  <2>1. UNCHANGED <<host, engine>> /\ failed' /\ audio'.pc = "idle"
    BY <1>8, AudioFrame, SmallSteps, Calls
  <2> QED BY <2>1 DEF Settled
<1>9. CASE EventsDone
  <2>1. UNCHANGED <<active, failed, host, engine>> /\ audio.pc = "events"
    BY <1>9, AudioFrame, EventsDoneFields DEF AudioThread
  <2>2. CASE audio.flush
    BY <1>2, <1>9, <2>1, <2>2, EventsDoneFields, Calls DEF Settled
  <2>3. CASE ~audio.flush
    BY <1>9, <2>3, EventsDoneFields DEF Settled, AudioIdle, Replaying, OtherThan
  <2> QED BY <2>2, <2>3
<1>10. CASE HostBegin
  <2>1. UNCHANGED <<failed, engine>> /\ host'.value = host.value
    BY <1>10, AudioFrame, HostBeginFields
  <2> QED BY <1>10, <2>1, HostBeginFields DEF Settled, AudioIdle, Replaying, OtherThan
<1>11. CASE HostWrite
  <2>1. UNCHANGED <<failed, engine>>
    BY <1>11, AudioFrame
  <2> QED BY <1>11, <2>1, HostWriteFields DEF Settled, AudioIdle, Replaying, OtherThan
<1>12. CASE HostEnd
  <2>1. UNCHANGED <<failed, engine>> /\ host'.value = host.value
    BY <1>12, AudioFrame, HostEndFields
  <2>2. CASE audio.pc = "pubEnd"
    BY <1>12, <2>2, HostEndFields DEF Settled, AudioIdle, Replaying, OtherThan
  <2>3. CASE audio.pc = "oneEnd"
    <3>1. ~failed => host.value = engine
      BY <1>a, <2>3, SnapshotsAreEqual
    <3>2. audio'.pc \in {"tail", "events"} /\ audio'.flush
      BY <1>12, <2>3, HostEndFields DEF OtherThan, Inactive
    <3> QED BY <2>1, <3>1, <3>2 DEF Settled
  <2> QED BY <1>12, <2>2, <2>3, HostEndFields
<1>13. CASE PublishRevision
  <2>1. UNCHANGED <<host, engine>> /\ audio.pc = "pubRevision" /\ audio'.pc = "tail"
    BY <1>13, AudioFrame, OtherAudioFields DEF OtherThan
  <2>2. host.value = engine
    BY <1>a, <2>1, SnapshotsAreEqual DEF HostIsWritten
  <2> QED BY <2>1, <2>2
<1>14. CASE SyncTail
  <2>1. UNCHANGED <<failed, host, engine>>
    BY <1>14, AudioFrame
  <2> QED BY <1>14, <2>1, OtherAudioFields DEF Settled, AudioIdle, Replaying, OtherThan
<1>15. CASE SyncTailRevision
  <2>1. UNCHANGED <<host, engine>> /\ failed' = (failed /\ audio.flush) /\ audio.pc = "tailRevision"
    BY <1>15, AudioFrame, SmallSteps, OtherAudioFields
  <2>2. audio'.pc \in {"events", "idle"}
    BY <1>15, OtherAudioFields, Calls DEF OtherThan
  <2>3. ~failed' => host.value = engine
    BY <2>1
  <2> QED BY <2>1, <2>2, <2>3 DEF Settled
<1>16. CASE MainThread
  BY <1>1, <1>16, MainFrame
<1>17. CASE UNCHANGED vars
  BY <1>1, <1>17 DEF vars
<1> QED BY <1>3, <1>4, <1>5, <1>6, <1>7, <1>8, <1>9, <1>10, <1>11, <1>12, <1>13, <1>14, <1>15, <1>16,
           <1>17, NextCases DEF AudioThread

LEMMA EngineStaysCovered ==
  ASSUME TypeOK, IInv, [Next]_vars PROVE EngineIsCovered'
<1> USE DEF EngineIsCovered, Storing
<1>0. EngineIsCovered /\ Inactive
  BY DEF IInv
<1> USE <1>0
<1>1. ASSUME UNCHANGED <<active, failed, engine, tail, samples, audio>>, voices' \subseteq voices
      PROVE  EngineIsCovered'
  BY <1>1 DEF Settled, AudioIdle, Replaying, Covered
<1>2. ASSUME UNCHANGED <<engine, tail, samples, voices>>, Settled' => Settled,
             audio'.pc \notin {"oneBegin", "one", "oneEnd", "tailRevision"}
      PROVE  EngineIsCovered'
  BY <1>2 DEF Covered
<1>3. CASE NotRunning
  <2>1. audio.pc = "idle" /\ UNCHANGED <<audio, samples>>
    BY <1>3, NotRunningFields DEF NotRunning, Inactive, AudioIdle
  <2>2. CASE Activate
    <3>1. engine' = Effective /\ tail' = samples[Effective.release] /\ voices' = {}
      BY <2>2, NotRunningFields DEF Inactive
    <3>2. samples[Effective.release] \in Nat
      BY EffectiveIsSnapshot, BoundsAreNat
    <3> QED BY <2>1, <3>1, <3>2 DEF Covered
  <2>3. CASE ~Activate
    <3>1. ~active'
      BY <1>3, <2>3, NotRunningFields DEF NotRunning
    <3> QED BY <2>1, <3>1 DEF Settled
  <2> QED BY <2>2, <2>3
<1>4. CASE (\E flush \in BOOLEAN : CallBegin(flush)) \/ TryReadPending
  <2>1. UNCHANGED <<active, failed, engine, tail, samples, voices>>
    BY <1>4, AudioFrame DEF AudioThread
  <2>2. CASE \E flush \in BOOLEAN : CallBegin(flush)
    BY <1>2, <2>1, <2>2, CallBeginFields DEF Settled, AudioIdle
  <2>3. CASE TryReadPending
    BY <1>2, <2>1, <2>3, TryReadFields, Calls DEF Settled, AudioIdle, Replaying, OtherThan
  <2> QED BY <1>4, <2>2, <2>3
<1>5. CASE Recheck
  <2>1. UNCHANGED <<active, failed, tail, samples, voices>> /\ audio.pc = "recheck"
    BY <1>5, AudioFrame, RecheckFields DEF AudioThread
  <2>2. CASE loaded # audio.revision
    <3>1. engine' = engine /\ audio'.pc = "events"
      BY <1>5, <2>2, RecheckFields, Calls
    <3> QED BY <1>2, <2>1, <3>1 DEF Settled, Replaying
  <2>3. CASE loaded = audio.revision
    <3>1. /\ audio'.pc = IF audio.flush THEN "pubBegin" ELSE "events"
          /\ audio'.flush = audio.flush
      BY <1>5, <2>3, RecheckFields
    <3> QED BY <3>1 DEF Settled, AudioIdle, Replaying
  <2> QED BY <2>2, <2>3
<1>6. ASSUME NEW f \in Fields, ParamEvent(f) PROVE EngineIsCovered'
  <2>1. UNCHANGED <<active, failed, tail, samples, voices>>
    BY <1>6, AudioFrame DEF AudioThread
  <2>2. /\ audio.pc = "events" /\ audio'.flush = audio.flush
        /\ \A g \in Fields \ {f} : engine'[g] = engine[g]
        /\ IF audio.flush THEN audio'.pc = "oneBegin" /\ audio'.field = f ELSE audio' = audio
    BY <1>6, ParamEventFields
  <2>3. CASE audio.flush
    <3>1. ~failed => Covered
      BY <2>2, <2>3 DEF Settled, Inactive, AudioIdle
    <3>2. f # "release" => engine'.release = engine.release
      BY <2>2, Zeros
    <3> QED BY <2>1, <2>2, <2>3, <3>1, <3>2 DEF Settled, AudioIdle, Replaying, Covered
  <2>4. CASE ~audio.flush
    BY <2>2, <2>4 DEF Settled, AudioIdle, Replaying
  <2> QED BY <2>3, <2>4
<1>7. CASE Notes
  <2>1. UNCHANGED audio /\ audio.pc = "events" /\ ~audio.flush
    BY <1>7, AudioFrame, SmallSteps
  <2> QED BY <2>1 DEF Settled, AudioIdle, Replaying
<1>8. CASE Reset
  BY <1>1, <1>8, AudioFrame, SmallSteps DEF AudioThread
<1>9. CASE BlockFails
  <2>1. failed' /\ audio'.pc = "idle"
    BY <1>9, SmallSteps, Calls
  <2> QED BY <2>1 DEF Settled
<1>10. CASE EventsDone
  <2>1. UNCHANGED <<active, failed, engine, tail, samples, voices>> /\ audio.pc = "events"
    BY <1>10, AudioFrame, EventsDoneFields DEF AudioThread
  <2>2. CASE audio.flush
    BY <1>2, <1>10, <2>1, <2>2, EventsDoneFields, Calls DEF Settled
  <2>3. CASE ~audio.flush
    BY <1>10, <2>3, EventsDoneFields DEF Settled, AudioIdle, Replaying, OtherThan
  <2> QED BY <2>2, <2>3
<1>11. CASE HostBegin \/ HostWrite
  <2>1. UNCHANGED <<failed, engine, tail, samples, voices>>
    BY <1>11, AudioFrame DEF AudioThread
  <2>2. /\ audio'.pc \in {"one", "oneEnd"} => Storing /\ audio'.field = audio.field
        /\ audio'.pc \in {"pubOther", "pubRelease", "pubEnd", "one", "oneEnd"}
    BY <1>11, HostBeginFields, HostWriteFields DEF OtherThan
  <2> QED BY <2>1, <2>2 DEF Settled, AudioIdle, Replaying, Covered
<1>12. CASE HostEnd
  <2>1. UNCHANGED <<failed, engine, tail, samples, voices>>
    BY <1>12, AudioFrame DEF AudioThread
  <2>2. CASE audio'.pc = "events"
    <3>1. Storing /\ audio.field # "release"
      BY <1>12, <2>2, HostEndFields DEF OtherThan
    <3> QED BY <2>1, <2>2, <3>1 DEF Settled, Covered
  <2>3. CASE audio'.pc # "events"
    BY <1>12, <2>3, HostEndFields DEF OtherThan, Settled, AudioIdle, Replaying
  <2> QED BY <2>2, <2>3
<1>13. CASE PublishRevision
  BY <1>13, OtherAudioFields DEF OtherThan, Settled, AudioIdle, Replaying
<1>14. CASE SyncTail
  <2>1. UNCHANGED <<engine, samples, voices>> /\ tail' = Longest({samples[engine.release]} \cup voices)
    BY <1>14, AudioFrame, SmallSteps DEF AudioThread
  <2>2. samples[engine.release] \in Samples
    BY Numbers, Values
  <2>3. Covered'
    BY <2>1, <2>2, TailTypes DEF Covered
  <2>4. audio'.pc = "tailRevision"
    BY <1>14, OtherAudioFields DEF OtherThan
  <2> QED BY <2>3, <2>4
<1>15. CASE SyncTailRevision
  <2>1. UNCHANGED <<engine, samples, voices, tail>> /\ audio.pc = "tailRevision"
    BY <1>15, AudioFrame, OtherAudioFields DEF AudioThread
  <2>2. audio'.pc \in {"events", "idle"}
    BY <1>15, OtherAudioFields, Calls DEF OtherThan
  <2> QED BY <2>1, <2>2 DEF Covered
<1>16. CASE MainThread
  BY <1>1, <1>16, MainFrame
<1>17. CASE UNCHANGED vars
  BY <1>1, <1>17 DEF vars
<1> QED BY <1>3, <1>4, <1>5, <1>6, <1>7, <1>8, <1>9, <1>10, <1>11, <1>12, <1>13, <1>14, <1>15, <1>16,
           <1>17, NextCases DEF AudioThread

LEMMA LoadStaysCovered ==
  ASSUME TypeOK, TypeOK', IInv, [Next]_vars PROVE LoadIsCovered'
<1> USE DEF LoadIsCovered, Loading
<1>0. LoadIsCovered /\ Inactive /\ Revisions /\ EngineIsNew /\ LoadsInOrder /\ EngineIsCovered
      /\ PendingIsWhole /\ HostIsNew
  BY DEF IInv
<1> USE <1>0
<1>n. /\ loaded \in Nat /\ applied \in Nat /\ tailRevision \in Nat /\ lastLoad \in Nat /\ changes \in Nat
      /\ engine.release \in Nat /\ engine'.release \in Nat /\ samples[lastLoad] \in Nat
      /\ pendingTail \in Nat /\ tail \in Nat /\ main.tail \in Nat
      /\ tailRevision <= applied /\ applied <= loaded /\ lastLoad <= changes
  <2>1. engine' \in Snapshot
    BY DEF TypeOK
  <2>2. engine'.release \in Nat
    BY <2>1, Zeros DEF Snapshot
  <2> QED BY <2>2, Numbers, Values DEF Revisions, LoadsInOrder
<1>1. CASE UNCHANGED <<active, loaded, engine, tail, pendingTail, tailRevision, main, lastLoad, samples>>
  BY <1>1
<1>2. CASE MainThread
  <2>1. UNCHANGED <<active, engine, tail, tailRevision, samples>>
    BY <1>2, MainFrame
  <2>2. CASE LoadTail
    <3>1. UNCHANGED <<loaded, lastLoad>>
      BY <2>2, MainFrame
    <3>2. main'.pc = "pendBegin" /\ samples[main'.value.other] <= pendingTail'
      BY <2>2, LoadTailFields
    <3> QED BY <2>1, <3>1, <3>2
  <2>3. CASE PublishPending
    <3>1. UNCHANGED <<loaded, lastLoad, pendingTail>>
      BY <2>3, MainFrame
    <3>2. Loading /\ main'.pc \in {"pendOther", "pendRelease", "pendEnd", "bump"} /\ main'.value = main.value
      BY <2>3, PublishFields DEF NewPc
    <3> QED BY <2>1, <3>1, <3>2
  <2>4. CASE LoadBump
    <3>1. UNCHANGED pendingTail /\ loaded' = loaded + 1 /\ lastLoad' = main.value.other
          /\ main.pc = "bump" /\ main'.pc = "idle"
      BY <2>4, MainFrame, Calls
    <3> QED BY <1>n, <2>1, <3>1
  <2>5. MainReads => UNCHANGED <<loaded, lastLoad, pendingTail>>
    BY MainFrame
  <2>6. ASSUME MainReads, ~Loading,
               main'.pc \notin {"pendBegin", "pendOther", "pendRelease", "pendEnd", "bump",
                                "tailCurrent", "tailMax", "tailDone"}
        PROVE  LoadIsCovered'
    BY <2>1, <2>5, <2>6
  <2>7. CASE \/ ReadBegin \/ ReadBefore \/ ReadField("readOther", "other", "readRelease")
             \/ ReadField("readRelease", "release", "readAfter") \/ ReadAfter \/ Return
    <3>1. MainReads /\ ~Loading
      BY <2>7, ReadFields DEF MainReads, Return
    <3>2. main'.pc \in {"idle", "saved", "readBefore", "readOther", "readRelease", "readAfter"}
      BY <2>7, ReadFields, MainFrame, Calls DEF NewPc
    <3> QED BY <2>6, <3>1, <3>2
  <2>8. CASE TailBegin
    <3>1. UNCHANGED <<loaded, lastLoad, pendingTail>>
      BY <2>5, <2>8 DEF MainReads
    <3>2. main.pc = "idle" /\ main'.pc = IF loaded = tailRevision \/ ~active THEN "tailCurrent" ELSE "tailMax"
      BY <2>8, TailFields DEF NewPc
    <3> QED BY <2>1, <3>1, <3>2
  <2>9. CASE TailCurrent
    <3>1. UNCHANGED <<loaded, lastLoad, pendingTail>>
      BY <2>5, <2>9 DEF MainReads
    <3>2. main.pc \in {"tailCurrent", "tailMax"} /\ main'.pc = "tailDone" /\ main'.tail \in Nat
      BY <2>9, TailFields, BoundsAreNat
    <3>3. CASE main.pc = "tailCurrent"
      <4>1. main'.tail = tail
        BY <2>9, <3>3, TailFields
      <4> QED BY <1>n, <2>1, <3>1, <3>2, <3>3, <4>1
    <3>4. CASE main.pc = "tailMax"
      <4>1. pendingTail <= main'.tail
        BY <2>9, <3>4, TailFields
      <4> QED BY <1>n, <2>1, <3>1, <3>2, <3>4, <4>1
    <3> QED BY <3>2, <3>3, <3>4
  <2> QED BY <1>2, <2>2, <2>3, <2>4, <2>7, <2>8, <2>9 DEF MainThread
<1>3. CASE NotRunning
  <2>1. main.pc = "idle" /\ UNCHANGED <<main, samples>>
    BY <1>3, NotRunningFields
  <2>2. CASE Activate
    <3>1. /\ engine' = Effective /\ tail' = samples[Effective.release] /\ tailRevision' = loaded
          /\ UNCHANGED <<loaded, lastLoad>>
      BY <2>2, NotRunningFields
    <3>2. Effective.release >= lastLoad
      BY <2>1, EffectiveIsNew, Zeros
    <3>3. engine'.release <= lastLoad => engine'.release = lastLoad
      BY <1>n, <3>1, <3>2
    <3>4. engine'.release = lastLoad => tail' = samples[lastLoad]
      BY <3>1
    <3> QED BY <1>n, <2>1, <3>1, <3>3, <3>4
  <2>3. CASE ~Activate
    <3>1. ~active'
      BY <1>3, <2>3, NotRunningFields DEF NotRunning
    <3> QED BY <2>1, <3>1
  <2> QED BY <2>2, <2>3
<1>4. AudioThread => UNCHANGED <<active, loaded, pendingTail, main, lastLoad, samples>>
  BY AudioFrame
<1>5. ASSUME AudioThread, UNCHANGED <<tail, tailRevision>>,
             engine' = engine \/ engine'.release = changes + 1 \/ tailRevision # loaded
      PROVE  LoadIsCovered'
  <2>1. CASE engine' = engine
    BY <1>1, <1>4, <1>5, <2>1
  <2>2. CASE engine'.release = changes + 1
    <3>1. lastLoad < engine'.release
      BY <1>n, <2>2
    <3>2. ~(engine'.release <= lastLoad)
      BY <1>n, <3>1
    <3> QED BY <1>4, <1>5, <3>1, <3>2
  <2>3. CASE tailRevision # loaded
    BY <1>4, <1>5, <2>3
  <2> QED BY <1>5, <2>1, <2>2, <2>3
<1>6. CASE Recheck
  <2>1. UNCHANGED <<tail, tailRevision>> /\ audio.pc = "recheck"
    BY <1>6, AudioFrame, RecheckFields
  <2>2. engine' = engine \/ loaded = audio.revision
    BY <1>6, RecheckFields
  <2>3. applied < audio.revision /\ audio.revision \in Nat
    BY <2>1, Numbers DEF Revisions, Replaying
  <2> QED BY <1>5, <1>6, <1>n, <2>1, <2>2, <2>3 DEF AudioThread
<1>7. ASSUME NEW f \in Fields, ParamEvent(f) PROVE LoadIsCovered'
  <2>1. UNCHANGED <<tail, tailRevision, samples>> /\ AudioThread
    BY <1>7, AudioFrame DEF AudioThread
  <2>2. engine'.release = changes + 1 \/ engine'.release = engine.release
    BY <1>7, ParamEventFields, Zeros
  <2>3. CASE engine'.release = changes + 1
    BY <1>5, <2>1, <2>3
  <2>4. CASE engine'.release = engine.release
    BY <1>4, <2>1, <2>4
  <2> QED BY <2>2, <2>3, <2>4
\* What the engine has when the tail of the last load is published.
<1>8. ASSUME audio.pc # "idle", applied = loaded, engine.release <= lastLoad PROVE engine.release = lastLoad
  <2>1. engine.release >= lastLoad
    BY <1>8, Zeros DEF EngineIsNew, Inactive, AudioIdle
  <2> QED BY <1>8, <1>n, <2>1
<1>9. CASE SyncTail
  <2>1. UNCHANGED <<engine, tailRevision>> /\ audio.pc = "tail" /\ AudioThread
    BY <1>9, AudioFrame, OtherAudioFields DEF AudioThread
  <2>2. samples[engine.release] \in Samples /\ tail' = Longest({samples[engine.release]} \cup voices)
    BY <1>9, SmallSteps, Numbers, Values
  <2>3. samples[engine.release] <= tail'
    BY <2>2, TailTypes
  <2>4. tailRevision = loaded /\ engine.release <= lastLoad => samples[lastLoad] <= tail'
    BY <1>8, <1>n, <2>1, <2>3
  <2> QED BY <1>4, <2>1, <2>4
<1>10. CASE SyncTailRevision
  <2>1. UNCHANGED <<engine, tail>> /\ audio.pc = "tailRevision" /\ AudioThread /\ tailRevision' = applied
    BY <1>10, AudioFrame, SmallSteps, OtherAudioFields DEF AudioThread
  <2>2. tailRevision = loaded => tailRevision' = loaded
    BY <1>n, <2>1
  <2>3. samples[engine.release] <= tail
    BY <2>1 DEF EngineIsCovered, Covered
  <2>4. tailRevision' = loaded /\ engine.release <= lastLoad => samples[lastLoad] <= tail
    BY <1>8, <2>1, <2>3
  <2> QED BY <1>4, <2>1, <2>2, <2>4
<1>11. CASE AudioThread /\ ~Recheck /\ ~SyncTail /\ ~SyncTailRevision /\ ~\E f \in Fields : ParamEvent(f)
  BY <1>5, <1>11, AudioFrame DEF AudioThread
<1>12. CASE UNCHANGED vars
  BY <1>1, <1>12 DEF vars
<1> QED BY <1>2, <1>3, <1>6, <1>7, <1>9, <1>10, <1>11, <1>12, NextCases

LEMMA SaveStaysCurrent ==
  ASSUME TypeOK, IInv, [Next]_vars PROVE SaveIsCurrent'
<1> USE DEF SaveIsCurrent
<1>0. SaveIsCurrent /\ ReadIsWhole /\ PendingIsWhole /\ HostIsNew
  BY DEF IInv
<1> USE <1>0
<1>1. ASSUME UNCHANGED <<main, lastLoad>>, main.pc = "saved" => current \subseteq current' PROVE SaveIsCurrent'
  BY <1>1
<1>2. ASSUME main'.pc # "saved" PROVE SaveIsCurrent'
  BY <1>2
<1>3. CASE ReadBegin
  <2>1. CASE loaded # published
    <3>1. main.pc = "idle" /\ main'.value = pending.value
      BY <1>3, <2>1, ReadFields
    <3>2. current' = {pending.value} /\ UNCHANGED lastLoad
      BY <1>3, <2>1 DEF ReadBegin, Effective, UnchangedState
    <3>3. lastLoad \in Nat
      BY Numbers
    <3> QED BY <3>1, <3>2, <3>3, EffectiveIsNew
  <2>2. CASE loaded = published
    BY <1>2, <1>3, <2>2, ReadFields
  <2> QED BY <2>1, <2>2
<1>4. CASE ReadAfter
  <2>1. main.pc = "readAfter" /\ UNCHANGED <<current, lastLoad>>
        /\ main'.pc = (IF main.seq = host.seq THEN "saved" ELSE "readBefore") /\ main'.value = main.value
    BY <1>4, ReadFields DEF NewPc, ReadAfter, UnchangedState
  <2>2. CASE main.seq = host.seq
    <3>1. main.value.other = host.value.other /\ main.value.release = host.value.release /\ ~Odd(host.seq)
      BY <2>1, <2>2 DEF ReadIsWhole
    <3>2. main.value = host.value
      BY <3>1, SnapshotsAreEqual DEF TypeOK
    <3>3. loaded = published /\ host.value \in current
      BY <2>1, <3>1 DEF ReadIsWhole, Reading
    <3> QED BY <2>1, <3>2, <3>3 DEF HostIsNew
  <2>3. CASE main.seq # host.seq
    BY <1>2, <2>1, <2>3
  <2> QED BY <2>2, <2>3
<1>5. CASE LoadTail \/ PublishPending \/ LoadBump
  BY <1>2, <1>5, MainFrame, LoadTailFields, PublishFields, Calls DEF NewPc
<1>6. CASE ReadBefore
  <2>1. main' = main \/ main'.pc = "readOther"
    BY <1>6, ReadFields
  <2> QED BY <1>2, <1>6, <2>1, ReadFields
<1>7. CASE \/ ReadField("readOther", "other", "readRelease")
           \/ ReadField("readRelease", "release", "readAfter")
  BY <1>2, <1>7, ReadFields
<1>8. CASE TailBegin \/ TailCurrent \/ Return
  BY <1>2, <1>8, MainFrame, TailFields, Calls DEF NewPc
<1>9. CASE NotRunning
  BY <1>2, <1>9, NotRunningFields
<1>10. CASE AudioThread
  <2>1. UNCHANGED <<main, lastLoad>>
    BY <1>10, AudioFrame
  <2>2. CASE HostEnd \/ PublishRevision
    BY <1>1, <2>1, <2>2 DEF HostEnd, PublishRevision, Witness
  <2>3. CASE ~HostEnd /\ ~PublishRevision
    BY <1>1, <1>10, <2>1, <2>3, AudioFrame DEF AudioThread
  <2> QED BY <2>2, <2>3
<1>11. CASE UNCHANGED vars
  BY <1>1, <1>11 DEF vars
<1> QED BY <1>3, <1>4, <1>5, <1>6, <1>7, <1>8, <1>9, <1>10, <1>11, NextCases DEF MainThread

LEMMA InitIInv ==
  ASSUME Init PROVE IInv
<1>0. /\ main.pc = "idle" /\ audio.pc = "idle" /\ ~active /\ voices = {} /\ ~failed
      /\ loaded = 0 /\ published = 0 /\ applied = 0 /\ tailRevision = 0 /\ changes = 0 /\ lastLoad = 0
      /\ pending.seq = 0 /\ host.seq = 0
      /\ pending.value = Both(0) /\ host.value = Both(0)
  BY DEF Init, Resting, NoCall
<1>1. Both(0).other = 0 /\ Both(0).release = 0 /\ \A f \in Fields : f = "other" \/ f = "release"
  BY Zeros
<1>2. ~Odd(0)
  BY DEF Odd
<1>3. TypeOK
  <2>1. samples \in [Changes -> Samples] /\ samples[0] \in Samples
    BY Zeros DEF Init
  <2>2. main = Resting /\ audio = NoCall /\ Both(0) \in Snapshot /\ engine \in Snapshot
    BY Zeros DEF Init
  <2>3. main \in MainRecords /\ audio \in AudioRecords
    BY <2>2, Zeros
  <2>4. pending = [seq |-> 0, value |-> Both(0)] /\ host = [seq |-> 0, value |-> Both(0)]
    BY DEF Init
  <2>5. /\ pending \in [seq : 0 .. 2 * MaxChanges, value : Snapshot]
        /\ host \in [seq : 0 .. HostModulus - 1, value : Snapshot]
    BY <2>2, <2>4, Zeros
  <2>6. /\ active \in BOOLEAN /\ failed \in BOOLEAN /\ voices \subseteq Samples
        /\ {loaded, published, applied, tailRevision, changes, lastLoad} \subseteq Changes
        /\ {tail, pendingTail} \subseteq Samples /\ current \subseteq Snapshot /\ laps \in 0 .. MaxLaps
    BY <2>1, Zeros DEF Init
  <2> QED BY <2>1, <2>2, <2>3, <2>5, <2>6 DEF TypeOK, MainRecords, AudioRecords
<1>4. Inactive /\ LoadsInOrder /\ Revisions
  BY <1>0 DEF Inactive, AudioIdle, Storing, LoadsInOrder, Loading, Revisions, Replaying, Replayed, Publishing
<1>5. PendingIsWhole /\ ReplayIsWhole /\ EngineIsNew /\ HostIsNew
  BY <1>0, <1>1 DEF PendingIsWhole, ReplayIsWhole, EngineIsNew, HostIsNew
<1>6. HostIsWritten /\ ReadIsWhole
  BY <1>0, <1>2 DEF HostIsWritten, ReadIsWhole, Reading
<1>7. HostIsEngine /\ EngineIsCovered /\ LoadIsCovered /\ SaveIsCurrent
  BY <1>0 DEF HostIsEngine, EngineIsCovered, Settled, Storing, LoadIsCovered, Loading, SaveIsCurrent
<1> QED BY <1>3, <1>4, <1>5, <1>6, <1>7 DEF IInv

LEMMA NextIInv ==
  ASSUME IInv, [Next]_vars PROVE IInv'
<1>1. TypeOK /\ TypeOK'
  BY TypesAreKept DEF IInv
<1> QED BY <1>1, InactiveIsKept, LoadsAreInOrder, PendingStaysWhole, RevisionsFollow, ReplayStaysWhole,
           EngineStaysNew, HostStaysNew, HostStaysWritten, ReadStaysWhole, HostStaysEngine,
           EngineStaysCovered, LoadStaysCovered, SaveStaysCurrent DEF IInv

LEMMA Invariance == Spec => []IInv
  BY InitIInv, NextIInv, PTL DEF Spec

-----------------------------------------------------------------------------
(* The properties. *)

\* Every variable has its type: the numbers of loads and events stay inside their bounds, the
\* sequence number of the host snapshot wraps, and a tail is always some release time.
THEOREM TypeCorrect == Spec => []TypeOK
<1>1. IInv => TypeOK
  BY DEF IInv
<1> QED BY <1>1, Invariance, PTL

\* stateSave() and params.get_value() return one whole snapshot that was effective at some moment
\* of the call, never older than a load that has returned, however the audio thread publishes.
THEOREM SavesAreCurrent == Spec => []SaveIsCurrent
<1>1. IInv => SaveIsCurrent
  BY DEF IInv
<1> QED BY <1>1, Invariance, PTL

\* What process() or paramsFlush() replays of a loaded state is the whole of one load, and the last
\* one unless the next load has written its snapshot and not yet its revision.
THEOREM WholeStatesAreApplied == Spec => AppliesWholeState
<1> DEFINE P == Recheck /\ engine' # engine =>
                  /\ engine'.other = engine'.release
                  /\ main.pc # "bump" => engine'.other = lastLoad
<1>1. ASSUME IInv, [Next]_vars PROVE [P]_vars
  <2> SUFFICES ASSUME Recheck, engine' # engine
               PROVE  /\ engine'.other = engine'.release
                      /\ main.pc # "bump" => engine'.other = lastLoad
    OBVIOUS
  <2>0. TypeOK /\ ReplayIsWhole /\ PendingIsWhole /\ LoadsInOrder
    BY <1>1 DEF IInv
  <2>1. loaded = audio.revision /\ engine' = audio.value /\ audio.pc = "recheck"
    BY <2>0, RecheckFields
  <2>2. /\ loaded \in Nat /\ audio.seq \in Nat /\ pending.seq \in Nat
        /\ ~Odd(audio.seq) /\ 2 * loaded <= audio.seq /\ audio.seq <= pending.seq
    BY <2>0, <2>1, Numbers DEF ReplayIsWhole
  <2>3. CASE audio.seq = 2 * loaded
    BY <2>0, <2>1, <2>3 DEF ReplayIsWhole
  <2>4. CASE audio.seq # 2 * loaded
    <3>1. Odd(2 * loaded + 1)
      BY <2>2, Parity
    <3>2. audio.seq # 2 * loaded + 1
      BY <2>2, <3>1
    <3>3. main.pc = "bump" /\ audio.seq = pending.seq
      BY <2>0, <2>2, <2>4, <3>2 DEF PendingIsWhole
    <3> QED BY <2>0, <2>1, <3>3 DEF ReplayIsWhole, PendingIsWhole
  <2> QED BY <2>3, <2>4
<1> HIDE DEF P
<1>2. [][P]_vars => AppliesWholeState
  BY PTL DEF P, AppliesWholeState
<1> QED BY <1>1, <1>2, Invariance, PTL DEF Spec

\* Between blocks the advertised tail covers the parameters the host sees and every active voice,
\* as long as process() does not return CLAP_PROCESS_ERROR.
THEOREM TailCoversSound == Spec => []TailCovers
<1>1. ASSUME IInv PROVE TailCovers
  <2> USE DEF TailCovers, TailNeverUnderReports
  <2> SUFFICES ASSUME ~failed, active, AudioIdle, main.pc = "idle",
                      NEW n \in voices \cup {samples[Effective.release]}
               PROVE  n <= IF loaded = tailRevision THEN tail ELSE Longest({tail, pendingTail})
    OBVIOUS
  <2>0. /\ TypeOK /\ PendingIsWhole /\ Revisions /\ HostIsEngine /\ EngineIsCovered /\ LoadIsCovered
        /\ LoadsInOrder
    BY <1>1 DEF IInv
  <2>1. /\ tail \in Samples /\ pendingTail \in Samples /\ voices \subseteq Samples
        /\ samples[Effective.release] \in Samples
        /\ loaded \in Nat /\ applied \in Nat /\ published \in Nat /\ tailRevision \in Nat
    BY <2>0, Numbers, EffectiveIsSnapshot DEF TypeOK
  <2>2. n \in Nat /\ tail \in Nat /\ pendingTail \in Nat
    BY <2>1, BoundsAreNat
  <2>3. host.value = engine /\ Covered
    BY <2>0 DEF HostIsEngine, EngineIsCovered, Settled
  <2>4. /\ Longest({tail, pendingTail}) \in Nat
        /\ tail <= Longest({tail, pendingTail}) /\ pendingTail <= Longest({tail, pendingTail})
    BY <2>1, LongestOfTwo, BoundsAreNat
  <2>5. CASE n \in voices \/ loaded = published
    <3>1. n <= tail
      BY <2>3, <2>5 DEF Covered, Effective
    <3> QED BY <2>2, <2>4, <3>1
  <2>6. CASE n = samples[Effective.release] /\ loaded # published
    <3>1. n = samples[lastLoad]
      BY <2>0, <2>6 DEF Effective, PendingIsWhole
    <3>2. loaded # tailRevision
      BY <2>0, <2>1, <2>6 DEF Revisions, Publishing, AudioIdle
    <3>3. samples[lastLoad] <= pendingTail
      BY <2>0, <3>2 DEF LoadIsCovered, Loading
    <3> QED BY <2>2, <2>4, <3>1, <3>2, <3>3
  <2> QED BY <2>5, <2>6
<1> QED BY <1>1, Invariance, PTL

\* After state.load(), tail.get() does not report less than the loaded release time, however its two
\* reads meet the writes of the audio thread.
THEOREM LoadedTailsAreReported == Spec => []LoadedTailIsReported
<1>1. ASSUME IInv PROVE LoadedTailIsReported
  <2> SUFFICES ASSUME main.pc = "tailDone", active, engine.release <= lastLoad
               PROVE  main.tail >= samples[lastLoad]
    BY DEF LoadedTailIsReported
  <2>1. /\ TypeOK /\ \/ samples[lastLoad] <= main.tail
                     \/ tailRevision = loaded /\ lastLoad < engine.release
    BY <1>1 DEF IInv, LoadIsCovered
  <2>2. lastLoad \in Nat /\ engine.release \in Nat /\ samples[lastLoad] \in Nat /\ main.tail \in Nat
    BY <2>1, Numbers, Values
  <2> QED BY <2>1, <2>2
<1> QED BY <1>1, Invariance, PTL

=============================================================================

-------------------------- MODULE GainPluginProofs --------------------------
(***************************************************************************)
(* Proofs about GainPlugin: the hand-over of loaded states (GainState) for *)
(* any number of loads and events, and the meter (GainMeter) for any       *)
(* modulus of its sequence number and any number of publications below     *)
(* half of it.                                                             *)
(*                                                                         *)
(* A step of the plug-in is a step of either, of both, or of none, so each *)
(* is proved about alone and keeps what is proved in the composition.      *)
(***************************************************************************)
EXTENDS GainPlugin, TLAPS

(***************************************************************************)
(* The hand-over of loaded states.                                         *)
(***************************************************************************)

Revisions ==
  /\ lastLoad <= changes
  /\ revision <= changes /\ (main.revision => revision < changes)
  /\ applied <= revision /\ audio.revision <= revision
  /\ audio.pc = "apply" => applied < audio.revision
  /\ audio.pc = "recheck" => audio.revision = applied

\* The values of a load have all landed before its revision.
PendingIsWhole ==
  /\ main.pending # {} => main.revision
  /\ \A p \in Parameter : p \notin main.pending => pending[p] = lastLoad

\* What the processor runs with is not older than the revision it is marked with.
AppliedIsLoaded ==
  ~main.revision => \A p \in Parameter :
    \/ applied = revision
    \/ audio.pc = "apply" /\ audio.revision = revision /\ p \notin audio.left
    => processor[p] >= lastLoad

\* While a block overlaps no load whose revision it can see, it sees one
\* revision, and it has nothing to restore.
OneRevision ==
  /\ main # Landed => overlapping > 0
  /\ main.revision /\ overlapping < 2 => main.snapshot = Parameter
  /\ audio.pc # "idle" /\ overlapping < 2 /\ (main.revision \/ overlapping = 0) =>
       /\ audio.pc # "restore"
       /\ IF audio.pc = "apply" THEN audio.revision = revision ELSE applied = revision

\* What is in a snapshot of the last load, or on its way there, is not older.
IsNew(p) ==
  /\ \A v \in stores[p] : v >= lastLoad
  /\ p \notin main.snapshot /\ stores[p] = {} => snapshot[p] >= lastLoad

\* Both snapshots are new once the block has stored them, unless it is going to
\* restore them, or the revision is not to be seen yet.
SnapshotsAreNew ==
  \A p \in Parameter :
    /\ audio.pc = "recheck" /\ audio.revision = revision /\ ~main.revision => IsNew(p)
    /\ overlapping < 2 =>
         /\ audio.pc = "restore" /\ p \notin audio.left => IsNew(p)
         /\ audio.pc = "idle" => IsNew(p) /\ (main.revision => stores[p] = {})

StateIInv ==
  StateTypeOK /\ Revisions /\ PendingIsWhole /\ AppliedIsLoaded /\ OneRevision /\ SnapshotsAreNew
-----------------------------------------------------------------------------
LEMMA StateTypeIsKept ==
  ASSUME StateTypeOK, Revisions, [StateNext]_stateVars
  PROVE  StateTypeOK'
<1> USE StateAssumption DEF StateTypeOK, Values, Changes, AudioSteps
<1>1. CASE Load
  BY <1>1 DEF Load, UnchangedAudio
<1>2. CASE LoadLands
  <2>1. CASE RevisionLands
    <3>1. revision' \in Changes
      BY <2>1 DEF RevisionLands, Revisions
    <3> QED BY <2>1, <3>1 DEF RevisionLands, UnchangedAudio
  <2>2. CASE \E p \in Parameter : PendingLands(p) \/ SnapshotLands(p)
    BY <2>2 DEF PendingLands, SnapshotLands, UnchangedAudio
  <2> QED BY <1>2, <2>1, <2>2 DEF LoadLands
<1>3. CASE BlockBegin
  BY <1>3 DEF BlockBegin, UnchangedMain
<1>0. ASSUME NEW p \in Parameter, NEW pc \in AudioSteps
      PROVE  CopyOf(p, pc) \in [pc : AudioSteps, revision : Changes, left : SUBSET Parameter]
  <2>1. (IF audio.left = {p} THEN pc ELSE audio.pc) \in AudioSteps
    OBVIOUS
  <2> QED BY <2>1 DEF CopyOf
<1>4. CASE \E p \in Parameter : Apply(p)
  <2>1. PICK p \in Parameter : Apply(p)
    BY <1>4
  <2>2. processor' \in Values /\ applied' \in Changes
    BY <2>1 DEF Apply
  <2>3. audio' = CopyOf(p, "events") /\ "events" \in AudioSteps
    BY <2>1 DEF Apply
  <2> QED BY <1>0, <2>1, <2>2, <2>3 DEF Apply, UnchangedMain
<1>5. CASE \E p \in Parameter : Restore(p)
  <2>1. PICK p \in Parameter : Restore(p)
    BY <1>5
  <2>2. stores' \in [Parameter -> SUBSET Changes]
    BY <2>1 DEF Restore
  <2>3. audio' = CopyOf(p, "idle") /\ "idle" \in AudioSteps
    BY <2>1 DEF Restore
  <2> QED BY <1>0, <2>1, <2>2, <2>3 DEF Restore, UnchangedMain
<1>6. CASE EventsDone \/ BlockFails
  BY <1>6 DEF EventsDone, BlockFails, UnchangedMain
<1>7. CASE SyncSnapshots
  BY <1>7 DEF SyncSnapshots, UnchangedMain
<1>8. CASE SyncRecheck
  <2>1. /\ [audio EXCEPT !.pc = "idle"]
             \in [pc : AudioSteps, revision : Changes, left : SUBSET Parameter]
        /\ [audio EXCEPT !.pc = "restore", !.left = Parameter]
             \in [pc : AudioSteps, revision : Changes, left : SUBSET Parameter]
    OBVIOUS
  <2> QED BY <1>8, <2>1 DEF SyncRecheck, UnchangedMain
<1>9. CASE Events
  BY <1>9 DEF Events, Event, UnchangedMain
<1>10. CASE \E p \in Parameter : StoreLands(p)
  BY <1>10 DEF StoreLands, UnchangedMain
<1>11. CASE UNCHANGED stateVars
  BY <1>11 DEF stateVars
<1> QED BY <1>1, <1>2, <1>3, <1>4, <1>5, <1>6, <1>7, <1>8, <1>9, <1>10, <1>11
        DEF StateNext, BlockStep

LEMMA StateIsKept ==
  ASSUME StateIInv, [StateNext]_stateVars
  PROVE  StateIInv'
<1>0. StateTypeOK /\ StateTypeOK'
  BY StateTypeIsKept DEF StateIInv
<1> USE StateAssumption, <1>0
    DEF StateIInv, Revisions, PendingIsWhole, AppliedIsLoaded, OneRevision, SnapshotsAreNew, IsNew
<1> USE DEF StateTypeOK, Values, Changes, AudioSteps, Landed
<1>1. CASE Load
  BY <1>1 DEF Load, StoresHaveLanded, UnchangedAudio
<1>2. CASE \E p \in Parameter : PendingLands(p)
  BY <1>2 DEF PendingLands, UnchangedAudio
<1>3. CASE RevisionLands
  BY <1>3 DEF RevisionLands, UnchangedAudio
<1>4. CASE \E p \in Parameter : SnapshotLands(p)
  BY <1>4 DEF SnapshotLands, UnchangedAudio
<1>5. CASE BlockBegin
  BY <1>5 DEF BlockBegin, UnchangedMain
<1>6. CASE \E p \in Parameter : Apply(p)
  <2>1. PICK p \in Parameter : Apply(p)
    BY <1>6
  <2>2. /\ audio'.revision = audio.revision /\ audio'.left = audio.left \ {p}
        /\ audio'.pc = IF audio.left = {p} THEN "events" ELSE "apply"
    BY <2>1 DEF Apply, CopyOf
  <2>3. /\ audio.pc = "apply" /\ p \in audio.left
        /\ processor'[p] = pending[p]
        /\ \A q \in Parameter \ {p} : processor'[q] = processor[q]
        /\ applied' = IF audio.left = {p} THEN audio.revision ELSE applied
        /\ UNCHANGED <<pending, revision, snapshot, main, stores, changes, lastLoad, overlapping>>
    BY <2>1 DEF Apply, UnchangedMain
  <2>4. Revisions' /\ PendingIsWhole' /\ OneRevision'
    BY <2>2, <2>3
  <2>5. AppliedIsLoaded'
    BY <2>2, <2>3
  <2>6. SnapshotsAreNew'
    BY <2>2, <2>3
  <2> QED BY <2>4, <2>5, <2>6
<1>7. CASE EventsDone \/ BlockFails
  BY <1>7 DEF EventsDone, BlockFails, UnchangedMain
<1>8. CASE SyncSnapshots
  <2>0. UNCHANGED <<pending, revision, snapshot, processor, applied, main, changes, lastLoad,
                    overlapping>>
    BY <1>8 DEF SyncSnapshots, UnchangedMain
  <2>1. CASE revision # applied
    <3>1. audio' = [pc |-> "restore", revision |-> revision, left |-> Parameter] /\ stores' = stores
      BY <1>8, <2>1 DEF SyncSnapshots
    <3>2. audio.pc = "check"
      BY <1>8 DEF SyncSnapshots
    <3> QED BY <2>0, <2>1, <3>1, <3>2
  <2>2. CASE revision = applied
    <3>1. /\ audio' = [pc |-> "recheck", revision |-> revision, left |-> {}]
          /\ \A p \in Parameter : stores'[p] = {processor[p]}
      BY <1>8, <2>2 DEF SyncSnapshots
    <3>2. audio.pc = "check"
      BY <1>8 DEF SyncSnapshots
    <3>3. Revisions' /\ PendingIsWhole' /\ AppliedIsLoaded' /\ OneRevision'
      BY <2>0, <2>2, <3>1, <3>2
    <3>4. SnapshotsAreNew'
      BY <2>0, <2>2, <3>1
    <3> QED BY <3>3, <3>4
  <2> QED BY <2>1, <2>2
<1>9. CASE SyncRecheck
  BY <1>9 DEF SyncRecheck, StoresHaveLanded, UnchangedMain
<1>10. CASE \E p \in Parameter : Restore(p)
  <2>1. PICK p \in Parameter : Restore(p)
    BY <1>10
  <2>2. /\ audio'.revision = audio.revision /\ audio'.left = audio.left \ {p}
        /\ audio'.pc = IF audio.left = {p} THEN "idle" ELSE "restore"
    BY <2>1 DEF Restore, CopyOf
  <2>3. /\ audio.pc = "restore" /\ p \in audio.left
        /\ stores'[p] = {pending[p]}
        /\ \A q \in Parameter \ {p} : stores'[q] = stores[q]
        /\ UNCHANGED <<pending, revision, snapshot, processor, applied, main, changes, lastLoad,
                       overlapping>>
    BY <2>1 DEF Restore, UnchangedMain
  <2>4. Revisions' /\ PendingIsWhole' /\ AppliedIsLoaded' /\ OneRevision'
    BY <2>2, <2>3
  <2>5. overlapping < 2 => ~main.revision /\ pending[p] = lastLoad
    BY <2>3
  <2>6. ASSUME NEW q \in Parameter, overlapping < 2, q = p \/ q \notin audio.left
        PROVE  IsNew(q)'
    BY <2>3, <2>5, <2>6
  <2>7. SnapshotsAreNew'
    BY <2>2, <2>3, <2>5, <2>6
  <2> QED BY <2>4, <2>7
<1>11. CASE Events
  BY <1>11 DEF Events, Event, UnchangedMain
<1>12. CASE \E p \in Parameter : StoreLands(p)
  BY <1>12 DEF StoreLands, UnchangedMain
<1>13. CASE UNCHANGED stateVars
  BY <1>13 DEF stateVars
<1> QED BY <1>1, <1>2, <1>3, <1>4, <1>5, <1>6, <1>7, <1>8, <1>9, <1>10, <1>11, <1>12, <1>13
        DEF StateNext, BlockStep, LoadLands

LEMMA StateInvariance == StateSpec => []StateIInv
<1>1. StateInit => StateIInv
  BY StateAssumption
  DEF StateInit, StateIInv, Revisions, PendingIsWhole, AppliedIsLoaded, OneRevision,
      SnapshotsAreNew, IsNew, StateTypeOK, Values, Changes, AudioSteps, Both, Landed
<1>2. StateIInv /\ [StateNext]_stateVars => StateIInv'
  BY StateIsKept
<1> QED BY <1>1, <1>2, PTL DEF StateSpec
-----------------------------------------------------------------------------
(***************************************************************************)
(* The meter.                                                              *)
(***************************************************************************)

\* Where publish() is: the sequence number is that of the last publication, or,
\* while the peaks are replaced, the odd number after it; it is 1 at first.
WriterIsInOrder ==
  LET p == published
  IN  /\ sequence = IF writer.pc \in {"left", "right", "end"} THEN 2 * p + 1
                    ELSE IF p = 0 THEN 1 ELSE NumberOf(p)
      /\ writer.pc # "idle" => p < MaxPublishes /\ writer.odd = 2 * p + 1
      /\ leftPeak = IF writer.pc \in {"right", "end"} THEN p + 1 ELSE p
      /\ rightPeak = IF writer.pc = "end" THEN p + 1 ELSE p

\* What the reader holds is of the publication whose number it saw, as long as
\* that number is still there.
ReaderHoldsOne ==
  /\ reader.pc # "idle" => published \in current
  /\ reader.pc \in {"left", "right", "after"} =>
       \E m \in current \ {0} :
         /\ m <= published
         /\ reader.before = NumberOf(m)
         /\ sequence = reader.before =>
              /\ reader.pc \in {"right", "after"} => reader.left = m
              /\ reader.pc = "after" => reader.right = m

MeterIInv == MeterTypeOK /\ WriterIsInOrder /\ ReaderHoldsOne /\ ReadIsLinearizable
-----------------------------------------------------------------------------
LEMMA BoundsAreNat ==
  /\ Modulus \in Nat /\ Modulus % 2 = 0 /\ Modulus > 0 /\ MaxPublishes \in Nat
  /\ 2 * MaxPublishes <= Modulus /\ MaxAttempts \in Nat /\ MaxAttempts > 0 /\ MaxSessions \in Nat
  BY MeterAssumption

\* The number after the last may be the modulus.
LEMMA Wrap ==
  ASSUME NEW a \in Nat, a <= Modulus
  PROVE  a % Modulus = IF a = Modulus THEN 0 ELSE a
<1> DEFINE C == Modulus
<1>1. C \in Nat /\ C > 0
  BY BoundsAreNat
<1> HIDE DEF C
<1>2. a <= C => a % C = IF a = C THEN 0 ELSE a
  BY <1>1
<1> QED BY <1>2 DEF C

LEMMA Numbers ==
  ASSUME NEW n \in Publications
  PROVE  /\ NumberOf(n) = IF 2 * n = Modulus THEN 0 ELSE 2 * n
         /\ NumberOf(n) \in Sequences /\ ~Odd(NumberOf(n))
<1>1. n \in Nat /\ 2 * n \in Nat /\ 2 * n <= Modulus
  BY BoundsAreNat DEF Publications
<1>2. NumberOf(n) = IF 2 * n = Modulus THEN 0 ELSE 2 * n
  BY <1>1, Wrap DEF NumberOf
<1>3. NumberOf(n) \in Sequences
  BY <1>1, <1>2, BoundsAreNat DEF Sequences
<1>4. (2 * n) % 2 = 0 /\ 0 % 2 = 0
  BY <1>1
<1> QED BY <1>2, <1>3, <1>4 DEF Odd

\* Two publications of a run never have the same number.
LEMMA NumbersDiffer ==
  ASSUME NEW m \in Publications \ {0}, NEW n \in Publications \ {0}, NumberOf(m) = NumberOf(n)
  PROVE  m = n
  BY Numbers, BoundsAreNat DEF Publications

\* Between two publications the number is odd.
LEMMA OddNumbers ==
  ASSUME NEW p \in Publications, p < MaxPublishes
  PROVE  /\ 2 * p + 1 \in Sequences /\ Odd(2 * p + 1)
         /\ Add1(2 * p + 1) = NumberOf(p + 1)
         /\ p > 0 => Add1(NumberOf(p)) = 2 * p + 1
         /\ p + 1 \in Publications
<1>1. p \in Nat /\ 2 * p + 2 <= Modulus /\ p + 1 \in Publications
  BY BoundsAreNat DEF Publications
<1>2. 2 * p + 1 \in Sequences
  BY <1>1, BoundsAreNat DEF Sequences
<1>3. Odd(2 * p + 1)
  BY <1>1 DEF Odd
<1>4. (2 * p + 1) + 1 = 2 * (p + 1)
  BY <1>1
<1>5. Add1(2 * p + 1) = NumberOf(p + 1)
  BY <1>4 DEF Add1, NumberOf
<1>6. NumberOf(p) = 2 * p
  BY <1>1, Numbers, BoundsAreNat
<1>7. (2 * p + 1) % Modulus = 2 * p + 1
  BY <1>1, Wrap, BoundsAreNat
<1> QED BY <1>1, <1>2, <1>3, <1>5, <1>6, <1>7 DEF Add1

\* When nothing is being stored, an even number is that of the last publication.
LEMMA EvenIsLast ==
  ASSUME MeterTypeOK, WriterIsInOrder, ~Odd(sequence)
  PROVE  /\ published \in Publications \ {0} /\ sequence = NumberOf(published)
         /\ leftPeak = published /\ rightPeak = published
<1>1. published \in Publications
  BY DEF MeterTypeOK
<1>2. writer.pc \notin {"left", "right", "end"}
  BY <1>1, OddNumbers DEF WriterIsInOrder
<1>3. Odd(1)
  BY DEF Odd
<1> QED BY <1>1, <1>2, <1>3 DEF WriterIsInOrder

LEMMA MeterTypeIsKept ==
  ASSUME MeterTypeOK, WriterIsInOrder, [MeterNext]_meterVars
  PROVE  MeterTypeOK'
<1> USE BoundsAreNat DEF MeterTypeOK
<1>0. 0 \in Publications /\ 0 \in Sequences /\ 1 \in Sequences /\ 1 \in 1 .. MaxAttempts
  BY DEF Publications, Sequences
<1>r. NotReading \in [pc : {"idle", "before", "left", "right", "after", "send"},
                      attempt : 1 .. MaxAttempts, before : Sequences,
                      left : Publications, right : Publications]
  BY <1>0 DEF NotReading
<1>t. Retry \in [pc : {"idle", "before", "left", "right", "after", "send"},
                 attempt : 1 .. MaxAttempts, before : Sequences,
                 left : Publications, right : Publications]
  <2>1. CASE reader.attempt = MaxAttempts
    BY <1>r, <2>1 DEF Retry
  <2>2. CASE reader.attempt # MaxAttempts
    <3>1. reader.attempt + 1 \in 1 .. MaxAttempts
      BY <2>2
    <3>2. Retry = [reader EXCEPT !.pc = "before", !.attempt = reader.attempt + 1]
      BY <2>2 DEF Retry
    <3> QED BY <3>1, <3>2
  <2> QED BY <2>1, <2>2
<1>1. CASE PublishBegin
  <2>1. PICK odd \in Sequences : writer' = [pc |-> "begin", odd |-> odd]
    <3>1. sequence + 1 \in Nat /\ sequence + 1 <= Modulus
      BY DEF Sequences
    <3>2. Add1(sequence) \in Sequences
      BY <3>1, Wrap DEF Add1, Sequences
    <3> QED BY <1>1, <3>2 DEF PublishBegin
  <2> QED BY <1>1, <2>1 DEF PublishBegin, UnchangedReader
<1>2. CASE PublishOdd
  BY <1>2 DEF PublishOdd, UnchangedReader
<1>3. CASE PublishLeft \/ PublishRight
  <2>1. published + 1 \in Publications
    BY <1>3, OddNumbers DEF WriterIsInOrder, PublishLeft, PublishRight
  <2> QED BY <1>3, <2>1 DEF PublishLeft, PublishRight, UnchangedReader
<1>4. CASE PublishEven
  <2>1. published + 1 \in Publications /\ Add1(writer.odd) \in Sequences
    BY <1>4, OddNumbers, Numbers DEF WriterIsInOrder, PublishEven
  <2> QED BY <1>4, <2>1 DEF PublishEven, UnchangedReader
<1>5. CASE BeginRead
  <2>1. reader' = [NotReading EXCEPT !.pc = "before"] /\ current' = {published}
    BY <1>5 DEF BeginRead
  <2> QED BY <1>5, <2>1, <1>r DEF BeginRead, UnchangedWriter
<1>6. CASE ReadBefore
  <2>1. CASE Odd(sequence)
    BY <1>6, <2>1, <1>t DEF ReadBefore, UnchangedWriter
  <2>2. CASE ~Odd(sequence)
    BY <1>6, <2>2 DEF ReadBefore, UnchangedWriter
  <2> QED BY <2>1, <2>2
<1>7. CASE ReadLeft \/ ReadRight
  BY <1>7 DEF ReadLeft, ReadRight, UnchangedWriter
<1>8. CASE ReadAfter
  <2>1. CASE Accepted
    BY <1>8, <2>1 DEF ReadAfter, UnchangedWriter
  <2>2. CASE ~Accepted
    BY <1>8, <2>2, <1>t DEF ReadAfter, UnchangedWriter
  <2> QED BY <2>1, <2>2
<1>9. CASE Send \/ SendFails
  <2>1. PICK sent \in BOOLEAN : SendDone(sent)
    BY <1>9 DEF Send, SendFails
  <2>2. meterSnapshot.left \in Publications /\ meterSnapshot.sequence \in Sequences
    OBVIOUS
  <2>3. Append(shown, meterSnapshot.left) \in Seq(Publications)
    BY <2>2
  <2>4. /\ hasSent' \in BOOLEAN /\ lastSent' \in Sequences /\ shown' \in Seq(Publications)
    <3>1. CASE sent /\ ~AlreadySent
      BY <2>1, <2>2, <2>3, <3>1 DEF SendDone
    <3>2. CASE ~(sent /\ ~AlreadySent)
      BY <2>1, <3>2 DEF SendDone
    <3> QED BY <3>1, <3>2
  <2>5. reader' = NotReading /\ current' = {} /\ UNCHANGED <<meterSnapshot, sessions>>
        /\ UNCHANGED <<sequence, leftPeak, rightPeak, published, writer>>
    BY <2>1 DEF SendDone, UnchangedWriter
  <2> QED BY <2>4, <2>5, <1>r
<1>10. CASE Reopen
  <2>1. sessions' \in 0 .. MaxSessions
    BY <1>10 DEF Reopen
  <2>2. hasSent' = FALSE /\ shown' = <<>>
        /\ UNCHANGED <<reader, current, meterSnapshot, lastSent>>
        /\ UNCHANGED <<sequence, leftPeak, rightPeak, published, writer>>
    BY <1>10 DEF Reopen, UnchangedWriter
  <2>3. <<>> \in Seq(Publications)
    OBVIOUS
  <2> QED BY <2>1, <2>2, <2>3
<1>11. CASE UNCHANGED meterVars
  BY <1>11 DEF meterVars
<1> QED BY <1>1, <1>2, <1>3, <1>4, <1>5, <1>6, <1>7, <1>8, <1>9, <1>10, <1>11
        DEF MeterNext, PublishStep, ReadStep

LEMMA WriterStaysInOrder ==
  ASSUME MeterTypeOK, WriterIsInOrder, [MeterNext]_meterVars
  PROVE  WriterIsInOrder'
<1>0. published \in Publications /\ 0 \in Nat
  BY DEF MeterTypeOK
<1> USE DEF WriterIsInOrder
<1>1. CASE PublishBegin
  <2>1. /\ writer.pc = "idle" /\ published < MaxPublishes
        /\ writer' = [pc |-> "begin", odd |-> IF Odd(sequence) THEN sequence ELSE Add1(sequence)]
        /\ UNCHANGED <<sequence, leftPeak, rightPeak, published>>
    BY <1>1 DEF PublishBegin
  <2>2. writer'.odd = 2 * published + 1
    <3>1. CASE published = 0
      BY <2>1, <3>1 DEF Odd
    <3>2. CASE published # 0
      <4>1. sequence = NumberOf(published) /\ published > 0
        BY <1>0, <2>1, <3>2, BoundsAreNat DEF Publications
      <4>2. ~Odd(sequence) /\ Add1(sequence) = 2 * published + 1
        BY <1>0, <2>1, <4>1, Numbers, OddNumbers
      <4> QED BY <2>1, <4>2
    <3> QED BY <3>1, <3>2
  <2> QED BY <2>1, <2>2
<1>2. CASE PublishOdd
  <2>1. /\ writer.pc = "begin" /\ sequence' = writer.odd
        /\ writer'.pc = "left" /\ writer'.odd = writer.odd
        /\ UNCHANGED <<leftPeak, rightPeak, published>>
    BY <1>2 DEF PublishOdd, MeterTypeOK
  <2> QED BY <2>1
<1>3. CASE PublishLeft
  <2>1. /\ writer.pc = "left" /\ leftPeak' = published + 1
        /\ writer'.pc = "right" /\ writer'.odd = writer.odd
        /\ UNCHANGED <<sequence, rightPeak, published>>
    BY <1>3 DEF PublishLeft, MeterTypeOK
  <2> QED BY <2>1
<1>4. CASE PublishRight
  <2>1. /\ writer.pc = "right" /\ rightPeak' = published + 1
        /\ writer'.pc = "end" /\ writer'.odd = writer.odd
        /\ UNCHANGED <<sequence, leftPeak, published>>
    BY <1>4 DEF PublishRight, MeterTypeOK
  <2> QED BY <2>1
<1>5. CASE PublishEven
  <2>1. /\ writer.pc = "end" /\ sequence' = Add1(writer.odd)
        /\ writer'.pc = "idle" /\ published' = published + 1
        /\ UNCHANGED <<leftPeak, rightPeak>>
    BY <1>5 DEF PublishEven, MeterTypeOK
  <2>2. sequence' = NumberOf(published + 1)
    BY <1>0, <2>1, OddNumbers
  <2>3. published + 1 # 0
    BY <1>0, BoundsAreNat DEF Publications
  <2> QED BY <2>1, <2>2, <2>3
<1>6. CASE UNCHANGED <<sequence, leftPeak, rightPeak, published, writer>>
  BY <1>6
<1> QED BY <1>1, <1>2, <1>3, <1>4, <1>5, <1>6
        DEF MeterNext, PublishStep, ReadStep, BeginRead, ReadBefore, ReadLeft, ReadRight, ReadAfter,
            Send, SendFails, SendDone, Reopen, UnchangedWriter, meterVars

LEMMA RetryStarts ==
  ASSUME MeterTypeOK
  PROVE  Retry.pc \in {"idle", "before"}
  BY DEF Retry, NotReading, MeterTypeOK

LEMMA ReaderStaysRight ==
  ASSUME MeterIInv, [MeterNext]_meterVars
  PROVE  (ReaderHoldsOne /\ ReadIsLinearizable)'
<1>0. MeterTypeOK /\ WriterIsInOrder /\ ReaderHoldsOne /\ ReadIsLinearizable /\ published \in Publications
      /\ current \subseteq Publications
  BY DEF MeterIInv, MeterTypeOK
<1>n. Publications \subseteq Nat
  BY BoundsAreNat DEF Publications
<1>1. CASE PublishOdd
  <2>1. /\ sequence' = 2 * published + 1 /\ published < MaxPublishes
        /\ UNCHANGED <<published, reader, current, meterSnapshot>>
    BY <1>0, <1>1 DEF PublishOdd, UnchangedReader, WriterIsInOrder
  <2>2. \A m \in Publications : sequence' # NumberOf(m)
    BY <1>0, <2>1, OddNumbers, Numbers
  <2>3. ReaderHoldsOne'
    BY <1>0, <2>1, <2>2, <1>n DEF ReaderHoldsOne
  <2> QED BY <1>0, <2>1, <2>3 DEF ReadIsLinearizable
<1>2. CASE PublishEven
  <2>1. /\ sequence' = NumberOf(published + 1) /\ published' = published + 1
        /\ published + 1 \in Publications \ {0}
        /\ UNCHANGED <<reader, meterSnapshot>>
        /\ reader.pc # "idle" => current' = current \cup {published + 1}
    BY <1>0, <1>2, OddNumbers, <1>n DEF PublishEven, UnchangedReader, WriterIsInOrder
  <2>2. \A m \in Publications \ {0} : m <= published => sequence' # NumberOf(m)
    BY <1>0, <1>n, <2>1, NumbersDiffer
  <2>3. \A m \in Publications : m <= published => m <= published'
    BY <1>0, <1>n, <2>1
  <2>4. ReaderHoldsOne'
    <3>1. ASSUME reader.pc \in {"left", "right", "after"}
          PROVE  \E m \in current' \ {0} :
                   /\ m <= published' /\ reader.before = NumberOf(m)
                   /\ sequence' # reader.before
      <4>1. PICK m \in current \ {0} : m <= published /\ reader.before = NumberOf(m)
        BY <1>0, <3>1 DEF ReaderHoldsOne
      <4>2. m \in Publications \ {0} /\ m \in current'
        BY <1>0, <2>1, <3>1
      <4> QED BY <2>2, <2>3, <4>1, <4>2
    <3> QED BY <2>1, <3>1 DEF ReaderHoldsOne
  <2> QED BY <1>0, <2>1, <2>4 DEF ReadIsLinearizable
<1>3. CASE UNCHANGED <<sequence, published, reader, current, meterSnapshot>>
  BY <1>0, <1>3 DEF ReaderHoldsOne, ReadIsLinearizable
<1>4. CASE BeginRead
  <2>1. reader'.pc = "before" /\ current' = {published} /\ UNCHANGED published
    BY <1>4 DEF BeginRead, NotReading, UnchangedWriter
  <2> QED BY <2>1 DEF ReaderHoldsOne, ReadIsLinearizable
<1>5. CASE ReadBefore
  <2>0. UNCHANGED <<sequence, published, current>> /\ reader.pc = "before"
    BY <1>5 DEF ReadBefore, UnchangedWriter
  <2>1. CASE Odd(sequence)
    <3>1. reader'.pc \in {"idle", "before"}
      BY <1>0, <1>5, <2>1, RetryStarts DEF ReadBefore
    <3> QED BY <1>0, <2>0, <3>1 DEF ReaderHoldsOne, ReadIsLinearizable
  <2>2. CASE ~Odd(sequence)
    <3>1. reader'.pc = "left" /\ reader'.before = sequence
      BY <1>0, <1>5, <2>2 DEF ReadBefore, MeterTypeOK
    <3>2. published # 0 /\ sequence = NumberOf(published) /\ published \in current
          /\ published <= published
      BY <1>0, <1>n, <2>0, <2>2, EvenIsLast DEF ReaderHoldsOne
    <3> QED BY <2>0, <3>1, <3>2 DEF ReaderHoldsOne, ReadIsLinearizable
  <2> QED BY <2>1, <2>2
\* A peak that is read under the number of a publication is of that publication.
<1>6. CASE ReadLeft \/ ReadRight
  <2>1. PICK m \in current \ {0} :
         /\ m <= published /\ reader.before = NumberOf(m)
         /\ sequence = reader.before => (reader.pc \in {"right", "after"} => reader.left = m)
    BY <1>0, <1>6 DEF ReaderHoldsOne, ReadLeft, ReadRight
  <2>2. sequence = reader.before => leftPeak = m /\ rightPeak = m
    <3>1. ASSUME sequence = reader.before PROVE leftPeak = m /\ rightPeak = m
      <4>1. m \in Publications \ {0}
        BY <1>0
      <4>2. ~Odd(sequence)
        BY <2>1, <3>1, <4>1, Numbers
      <4>3. m = published
        BY <1>0, <2>1, <3>1, <4>1, <4>2, EvenIsLast, NumbersDiffer
      <4> QED BY <1>0, <4>2, <4>3, EvenIsLast
    <3> QED BY <3>1
  <2>3. /\ UNCHANGED <<sequence, published, current>> /\ reader'.before = reader.before
        /\ \/ reader.pc = "left" /\ reader'.pc = "right" /\ reader'.left = leftPeak
           \/ /\ reader.pc = "right" /\ reader'.pc = "after" /\ reader'.left = reader.left
              /\ reader'.right = rightPeak
    BY <1>0, <1>6 DEF ReadLeft, ReadRight, UnchangedWriter, MeterTypeOK
  <2>4. ReaderHoldsOne'
    <3>1. sequence' = reader'.before =>
            /\ reader'.left = m
            /\ reader'.pc = "after" => reader'.right = m
      BY <2>1, <2>2, <2>3
    <3> QED BY <1>0, <2>1, <2>3, <3>1 DEF ReaderHoldsOne
  <2> QED BY <2>3, <2>4 DEF ReadIsLinearizable
<1>7. CASE ReadAfter
  <2>0. UNCHANGED <<sequence, published, current>> /\ reader.pc = "after"
    BY <1>7 DEF ReadAfter, UnchangedWriter
  <2>1. CASE Accepted
    <3>1. PICK m \in current \ {0} : sequence = NumberOf(m) /\ reader.left = m /\ reader.right = m
      BY <1>0, <2>0, <2>1 DEF Accepted, ReaderHoldsOne
    <3>2. /\ reader'.pc = "send"
          /\ meterSnapshot' = [left |-> reader.left, right |-> reader.right, sequence |-> sequence]
      BY <1>0, <1>7, <2>1 DEF ReadAfter, MeterTypeOK
    <3> QED BY <1>0, <2>0, <3>1, <3>2 DEF ReaderHoldsOne, ReadIsLinearizable
  <2>2. CASE ~Accepted
    <3>1. reader'.pc \in {"idle", "before"}
      BY <1>0, <1>7, <2>2, RetryStarts DEF ReadAfter
    <3> QED BY <1>0, <2>0, <3>1 DEF ReaderHoldsOne, ReadIsLinearizable
  <2> QED BY <2>1, <2>2
<1>8. CASE Send \/ SendFails
  <2>1. reader'.pc = "idle"
    BY <1>8 DEF Send, SendFails, SendDone, NotReading
  <2> QED BY <2>1 DEF ReaderHoldsOne, ReadIsLinearizable
<1>9. CASE PublishBegin \/ PublishLeft \/ PublishRight \/ Reopen \/ UNCHANGED meterVars
  <2>1. UNCHANGED <<sequence, published, reader, current, meterSnapshot>>
    BY <1>9 DEF PublishBegin, PublishLeft, PublishRight, UnchangedReader, Reopen, UnchangedWriter,
                meterVars
  <2> QED BY <1>3, <2>1
<1> QED BY <1>1, <1>2, <1>4, <1>5, <1>6, <1>7, <1>8, <1>9 DEF MeterNext, PublishStep, ReadStep

LEMMA MeterInvariance == MeterSpec => []MeterIInv
<1>1. MeterInit => MeterIInv
  <2> SUFFICES ASSUME MeterInit PROVE MeterIInv
    OBVIOUS
  <2>0. 0 \in Publications /\ 0 \in Sequences /\ 1 \in Sequences /\ 1 \in 1 .. MaxAttempts
        /\ 0 \in 0 .. MaxSessions /\ <<>> \in Seq(Publications)
    BY BoundsAreNat DEF Publications, Sequences
  <2>1. MeterTypeOK
    BY <2>0 DEF MeterInit, MeterTypeOK, NotReading
  <2>2. WriterIsInOrder /\ ReaderHoldsOne /\ ReadIsLinearizable
    BY DEF MeterInit, WriterIsInOrder, ReaderHoldsOne, ReadIsLinearizable, NotReading
  <2> QED BY <2>1, <2>2 DEF MeterIInv
<1>2. MeterIInv /\ [MeterNext]_meterVars => MeterIInv'
  BY MeterTypeIsKept, WriterStaysInOrder, ReaderStaysRight DEF MeterIInv
<1> QED BY <1>1, <1>2, PTL DEF MeterSpec
-----------------------------------------------------------------------------
(***************************************************************************)
(* GainPlugin is a behaviour of each of its parts: the order in which      *)
(* process() runs them, and the main thread serving one call at a time,    *)
(* take steps away and add none.                                           *)
(***************************************************************************)
THEOREM PluginRunsItsParts == Spec => StateSpec /\ MeterSpec
<1>1. Init => StateInit /\ MeterInit
  BY DEF Init
<1>2. [Next]_vars => [StateNext]_stateVars /\ [MeterNext]_meterVars
  <2>1. CASE LoadBegin \/ LoadIsSeen \/ Begins \/ Goes \/ IsAutomated \/ Fails
             \/ \E p \in Parameter : SnapshotIsSeen(p)
    BY <2>1 DEF LoadBegin, LoadIsSeen, SnapshotIsSeen, Begins, Goes, IsAutomated, Fails, StateNext
  <2>2. CASE MeterIsRead \/ MeterIsSent \/ MeterIsRefused \/ EditorReopens \/ PublishesPeaks
             \/ Publishes
    BY <2>2 DEF MeterIsRead, MeterIsSent, MeterIsRefused, EditorReopens, PublishesPeaks, Publishes,
                MeterNext, PublishStep
  <2>3. CASE Published
    BY <2>3 DEF Published, StateNext, BlockStep, MeterNext, PublishStep
  <2>4. CASE UNCHANGED vars
    BY <2>4 DEF vars
  <2> QED BY <2>1, <2>2, <2>3, <2>4 DEF Next
<1> QED BY <1>1, <1>2, PTL DEF Spec, StateSpec, MeterSpec

(***************************************************************************)
(* However two atomics that change one at a time are read while they are   *)
(* stored, and whatever number the sequence wraps at: what tryRead()       *)
(* returns is one publication, current at some moment of the call.         *)
(***************************************************************************)
THEOREM MeterReadsAreLinearizable == Spec => []ReadIsLinearizable
<1>1. MeterIInv => ReadIsLinearizable
  BY DEF MeterIInv
<1> QED BY <1>1, PluginRunsItsParts, MeterInvariance, PTL

(***************************************************************************)
(* Whatever stores of earlier blocks are still on their way, and in        *)
(* whatever order they land, a block leaves the snapshots stateSave()      *)
(* reads no older than the loads before it, or one that overlaps it and    *)
(* that LoadSurvivesBlock does not except.                                 *)
(***************************************************************************)
THEOREM LoadsSurviveBlocks == Spec => []LoadSurvivesBlock
<1>1. StateIInv => LoadSurvivesBlock
  BY DEF StateIInv, SnapshotsAreNew, IsNew, StoresHaveLanded, Landed, LoadSurvivesBlock
<1> QED BY <1>1, PluginRunsItsParts, StateInvariance, PTL

(***************************************************************************)
(* Every atomic and every local keeps its type; the revision is never      *)
(* ahead of the loads, and the sequence number stays below the modulus.    *)
(***************************************************************************)
THEOREM TypeCorrect == Spec => []TypeOK
<1>1. StateIInv /\ MeterIInv => TypeOK
  BY DEF StateIInv, MeterIInv, TypeOK
<1> QED BY <1>1, PluginRunsItsParts, StateInvariance, MeterInvariance, PTL

=============================================================================

----------------------------- MODULE GainMeter -----------------------------
(***************************************************************************)
(* The meter of the Gain plug-in: GainMeterHandoff, in which the audio     *)
(* thread publishes the two peaks of each block under a sequence number,   *)
(* and GainPlugin::sendMeterSnapshotToWebview(), which reads them on the   *)
(* main thread and sends each publication to the editor once.              *)
(*                                                                         *)
(* All accesses are sequentially consistent, so each load and store is one *)
(* step.  A pair of peaks is stood for by the number of the publication it *)
(* comes from; the pair before the first publication has number 0.         *)
(***************************************************************************)
EXTENDS Naturals, Sequences

CONSTANTS Modulus,      \* 2^32 in the code: sequence_ wraps
          MaxPublishes, \* bound on the number of publications
          MaxAttempts,  \* kMaximumAttempts
          MaxSessions   \* bound on how often the editor is opened

\* Two publications of one run never share a sequence number.
ASSUME MeterAssumption ==
  /\ Modulus \in Nat /\ Modulus % 2 = 0 /\ Modulus > 0
  /\ MaxPublishes \in Nat /\ 2 * MaxPublishes <= Modulus
  /\ MaxAttempts \in Nat \ {0}
  /\ MaxSessions \in Nat

VARIABLES
  sequence, leftPeak, rightPeak, \* the atomics
  published, \* history: the number of complete publications
  writer,    \* where publish() is, and the odd sequence it computed
  reader,    \* where tryRead() is, and its locals
  current,   \* history: publications that were current since tryRead() began
  meterSnapshot, \* what the last successful tryRead() returned
  hasSent,   \* hasSentMeterSequence_
  lastSent,  \* lastMeterSequenceSent_
  shown,     \* history: the publications the open editor was sent
  sessions   \* how often the editor was opened

meterVars == <<sequence, leftPeak, rightPeak, published, writer, reader, current,
               meterSnapshot, hasSent, lastSent, shown, sessions>>

Publications == 0 .. MaxPublishes
Sequences == 0 .. Modulus - 1

Odd(s) == s % 2 = 1
Add1(s) == (s + 1) % Modulus

\* The number a complete publication is given.
NumberOf(n) == (2 * n) % Modulus

MeterTypeOK ==
  /\ sequence \in Sequences
  /\ leftPeak \in Publications /\ rightPeak \in Publications
  /\ published \in Publications
  /\ writer \in [pc : {"idle", "begin", "left", "right", "end"}, odd : Sequences]
  /\ reader \in [pc : {"idle", "before", "left", "right", "after", "send"},
                 attempt : 1 .. MaxAttempts, before : Sequences,
                 left : Publications, right : Publications]
  /\ current \subseteq Publications
  /\ meterSnapshot \in [left : Publications, right : Publications, sequence : Sequences]
  /\ hasSent \in BOOLEAN
  /\ lastSent \in Sequences
  /\ shown \in Seq(Publications)
  /\ sessions \in 0 .. MaxSessions

NotReading == [pc |-> "idle", attempt |-> 1, before |-> 0, left |-> 0, right |-> 0]

MeterInit ==
  /\ sequence = 1
  /\ leftPeak = 0 /\ rightPeak = 0
  /\ published = 0
  /\ writer = [pc |-> "idle", odd |-> 1]
  /\ reader = NotReading
  /\ current = {}
  /\ meterSnapshot = [left |-> 0, right |-> 0, sequence |-> 0]
  /\ hasSent = FALSE /\ lastSent = 0
  /\ shown = <<>>
  /\ sessions = 0

-----------------------------------------------------------------------------
(* publish(), once per processed block. *)

UnchangedReader == UNCHANGED <<reader, meterSnapshot, hasSent, lastSent, shown, sessions>>

PublishBegin ==
  /\ writer.pc = "idle"
  /\ published < MaxPublishes
  /\ writer' = [pc |-> "begin", odd |-> IF Odd(sequence) THEN sequence ELSE Add1(sequence)]
  /\ UNCHANGED <<sequence, leftPeak, rightPeak, published, current>>
  /\ UnchangedReader

PublishOdd ==
  /\ writer.pc = "begin"
  /\ sequence' = writer.odd
  /\ writer' = [writer EXCEPT !.pc = "left"]
  /\ UNCHANGED <<leftPeak, rightPeak, published, current>>
  /\ UnchangedReader

PublishLeft ==
  /\ writer.pc = "left"
  /\ leftPeak' = published + 1
  /\ writer' = [writer EXCEPT !.pc = "right"]
  /\ UNCHANGED <<sequence, rightPeak, published, current>>
  /\ UnchangedReader

PublishRight ==
  /\ writer.pc = "right"
  /\ rightPeak' = published + 1
  /\ writer' = [writer EXCEPT !.pc = "end"]
  /\ UNCHANGED <<sequence, leftPeak, published, current>>
  /\ UnchangedReader

PublishEven ==
  /\ writer.pc = "end"
  /\ sequence' = Add1(writer.odd)
  /\ published' = published + 1
  /\ writer' = [writer EXCEPT !.pc = "idle"]
  /\ current' = IF reader.pc = "idle" THEN {} ELSE current \cup {published + 1}
  /\ UNCHANGED <<leftPeak, rightPeak>>
  /\ UnchangedReader

-----------------------------------------------------------------------------
(* tryRead(), and the sending of what it read. *)

UnchangedWriter == UNCHANGED <<sequence, leftPeak, rightPeak, published, writer>>

BeginRead ==
  /\ sessions > 0
  /\ reader.pc = "idle"
  /\ reader' = [NotReading EXCEPT !.pc = "before"]
  /\ current' = {published}
  /\ UNCHANGED <<meterSnapshot, hasSent, lastSent, shown, sessions>>
  /\ UnchangedWriter

\* Another attempt, or the give-up after the last one.
Retry == IF reader.attempt = MaxAttempts
           THEN NotReading
           ELSE [reader EXCEPT !.pc = "before", !.attempt = @ + 1]

ReadBefore ==
  /\ reader.pc = "before"
  /\ reader' = IF Odd(sequence) THEN Retry
               ELSE [reader EXCEPT !.pc = "left", !.before = sequence]
  /\ UNCHANGED <<current, meterSnapshot, hasSent, lastSent, shown, sessions>>
  /\ UnchangedWriter

ReadLeft ==
  /\ reader.pc = "left"
  /\ reader' = [reader EXCEPT !.pc = "right", !.left = leftPeak]
  /\ UNCHANGED <<current, meterSnapshot, hasSent, lastSent, shown, sessions>>
  /\ UnchangedWriter

ReadRight ==
  /\ reader.pc = "right"
  /\ reader' = [reader EXCEPT !.pc = "after", !.right = rightPeak]
  /\ UNCHANGED <<current, meterSnapshot, hasSent, lastSent, shown, sessions>>
  /\ UnchangedWriter

\* Mutant of Accepted: the sequence number is not compared with the one before.
AcceptedIfEven == ~Odd(sequence)

Accepted == reader.before = sequence /\ ~Odd(sequence)

ReadAfter ==
  /\ reader.pc = "after"
  /\ IF Accepted
       THEN /\ meterSnapshot' = [left |-> reader.left, right |-> reader.right, sequence |-> sequence]
            /\ reader' = [reader EXCEPT !.pc = "send"]
       ELSE reader' = Retry /\ UNCHANGED meterSnapshot
  /\ UNCHANGED <<current, hasSent, lastSent, shown, sessions>>
  /\ UnchangedWriter

AlreadySent == hasSent /\ meterSnapshot.sequence = lastSent

SendDone(sent) ==
  /\ reader.pc = "send"
  /\ reader' = NotReading
  /\ current' = {}
  /\ IF sent /\ ~AlreadySent
       THEN /\ hasSent' = TRUE
            /\ lastSent' = meterSnapshot.sequence
            /\ shown' = Append(shown, meterSnapshot.left)
       ELSE UNCHANGED <<hasSent, lastSent, shown>>
  /\ UNCHANGED <<meterSnapshot, sessions>>
  /\ UnchangedWriter

Send == SendDone(TRUE)
SendFails == ~AlreadySent /\ SendDone(FALSE)

\* Mutant of Reopen: a new editor inherits what was sent to the old one.
ReopenRemembers ==
  /\ reader.pc = "idle"
  /\ sessions < MaxSessions
  /\ sessions' = sessions + 1
  /\ shown' = <<>>
  /\ UNCHANGED <<reader, current, meterSnapshot, hasSent, lastSent>>
  /\ UnchangedWriter

\* guiDestroy() followed by guiCreate(): both forget what was sent.
Reopen ==
  /\ reader.pc = "idle"
  /\ sessions < MaxSessions
  /\ sessions' = sessions + 1
  /\ hasSent' = FALSE
  /\ shown' = <<>>
  /\ UNCHANGED <<reader, current, meterSnapshot, lastSent>>
  /\ UnchangedWriter

-----------------------------------------------------------------------------
PublishStep == PublishOdd \/ PublishLeft \/ PublishRight \/ PublishEven

ReadStep == BeginRead \/ ReadBefore \/ ReadLeft \/ ReadRight \/ ReadAfter

MeterNext == PublishBegin \/ PublishStep \/ ReadStep \/ Send \/ SendFails \/ Reopen

MeterSpec == MeterInit /\ [][MeterNext]_meterVars

(***************************************************************************)
(* An editor that is open asks again and again (its sync message), its     *)
(* reads end, and a transport that is tried often enough takes a message.  *)
(* The audio thread finishes a block it has begun, and is owed no more.    *)
(***************************************************************************)
MeterFairness ==
  /\ WF_meterVars(PublishStep)
  /\ WF_meterVars(ReadStep)
  /\ SF_meterVars(Send)

FairMeterSpec == MeterSpec /\ MeterFairness

-----------------------------------------------------------------------------
(***************************************************************************)
(* tryRead() returns two peaks of one publication, under its own sequence  *)
(* number, and one that was current at some moment of the call: never a    *)
(* torn pair, never one that had been replaced before the call, and        *)
(* nothing before the first publication.                                   *)
(***************************************************************************)
ReadIsLinearizable ==
  reader.pc = "send" =>
    /\ meterSnapshot.left = meterSnapshot.right
    /\ meterSnapshot.left \in current \ {0}
    /\ meterSnapshot.sequence = NumberOf(meterSnapshot.left)

(***************************************************************************)
(* When the audio stops, an open editor gets to show the last publication, *)
(* although a read gives up after MaxAttempts and a send may fail.         *)
(***************************************************************************)
LastIsShown ==
  <>[](sessions > 0 /\ published > 0 => shown # <<>> /\ shown[Len(shown)] = published)

=============================================================================

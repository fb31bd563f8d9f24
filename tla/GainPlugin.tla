----------------------------- MODULE GainPlugin -----------------------------
(***************************************************************************)
(* GainPlugin as its two threads run it: GainState, the hand-over of       *)
(* loaded states and processed values, and GainMeter, the peaks.  The      *)
(* audio thread publishes the peaks of a block once its events are handled *)
(* and before it stores the snapshots (GainEventProcessor::process ends    *)
(* with publishOutputPeaks); a flush publishes none, nor does a block that *)
(* fails.  The main thread loads a state or serves the editor, one at a    *)
(* time: neither call is left for the other.                               *)
(***************************************************************************)
EXTENDS GainState, GainMeter

CONSTANT Budgets \* how many changes, publications and editors a run combines

vars == <<stateVars, meterVars>>

TypeOK == StateTypeOK /\ MeterTypeOK

Init == StateInit /\ MeterInit

Within(c, p, s) ==
  \E b \in Budgets : changes + c <= b.changes /\ published + p <= b.publishes
                     /\ sessions + s <= b.sessions

\* commitPersistentParameterSnapshot().
LoadBegin == reader.pc = "idle" /\ Within(1, 0, 0) /\ Load /\ UNCHANGED meterVars

LoadIsSeen == LoadLands /\ UNCHANGED meterVars

\* sendMeterSnapshotToWebview(), guiCreate() and guiDestroy().
MeterIsRead == ReadStep /\ UNCHANGED stateVars

MeterIsSent == Send /\ UNCHANGED stateVars

MeterIsRefused == SendFails /\ UNCHANGED stateVars

EditorReopens == Within(0, 0, 1) /\ Reopen /\ UNCHANGED stateVars

\* process() or paramsFlush(), but for the publication; a block after the last
\* publication is like a flush.
Begins == BlockBegin /\ UNCHANGED meterVars

Goes == writer.pc = "idle" /\ BlockStep /\ UNCHANGED meterVars

\* A snapshot the audio thread stored is seen by the main thread.
SnapshotIsSeen(p) == StoreLands(p) /\ UNCHANGED meterVars

IsAutomated == writer.pc = "idle" /\ Within(1, 0, 0) /\ Events /\ UNCHANGED meterVars

Fails == writer.pc = "idle" /\ BlockFails /\ UNCHANGED meterVars

\* The publication, once the events of the block are handled.
PublishesPeaks == audio.pc = "events" /\ Within(0, 1, 0) /\ PublishBegin /\ UNCHANGED stateVars

Publishes == (PublishOdd \/ PublishLeft \/ PublishRight) /\ UNCHANGED stateVars

Published == PublishEven /\ EventsDone

-----------------------------------------------------------------------------
Next ==
  \/ LoadBegin \/ LoadIsSeen \/ MeterIsRead \/ MeterIsSent \/ MeterIsRefused \/ EditorReopens
  \/ Begins \/ Goes \/ IsAutomated \/ Fails \/ PublishesPeaks \/ Publishes \/ Published
  \/ \E p \in Parameter : SnapshotIsSeen(p)

Spec == Init /\ [][Next]_vars

(***************************************************************************)
(* Stores land, and both threads finish what they are in.  An active       *)
(* plug-in is processed block after block (process() returns               *)
(* CLAP_PROCESS_CONTINUE), and not all the blocks of a host are wrong.  An *)
(* open editor asks for the meter again and again, and loads leave the     *)
(* main thread time to answer; a transport that is tried often enough      *)
(* takes a message.                                                        *)
(***************************************************************************)
Fairness ==
  /\ WF_vars(LoadIsSeen)
  /\ \A p \in Parameter : WF_vars(SnapshotIsSeen(p))
  /\ WF_vars(Begins)
  /\ WF_vars(Goes)
  /\ WF_vars(Publishes \/ Published)
  /\ SF_vars((Goes /\ EventsDone) \/ Published)
  /\ WF_vars(MeterIsRead)
  /\ SF_vars(MeterIsSent)

FairSpec == Spec /\ Fairness

=============================================================================

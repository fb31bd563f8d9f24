----------------------------- MODULE GainState -----------------------------
(***************************************************************************)
(* How the parameters of GainPlugin are shared between the main thread,    *)
(* which loads and saves states and presets, and the audio thread, which   *)
(* processes blocks.  The main thread hands a loaded state over in two     *)
(* "pending" atomics and a revision; both threads write the two snapshot   *)
(* atomics that stateSave(), params.get_value() and the editor read.       *)
(*                                                                         *)
(* A store is on its way until it lands, that is, until the other thread   *)
(* sees it.  The stores are relaxed: they land in any order, and after     *)
(* later loads of their thread, but that two to one atomic land in their   *)
(* order, and the increment of the revision, a release, after the pending  *)
(* values.  The loads of the revision are acquires, and a step; those of   *)
(* the two pending values come after it, in either order.                  *)
(*                                                                         *)
(* A parameter value is stood for by the number of the change it comes     *)
(* from: a load sets both parameters, an input event one of them.          *)
(***************************************************************************)
EXTENDS Naturals

CONSTANTS MaxChanges \* bound on the number of loads and events

ASSUME StateAssumption == MaxChanges \in Nat

VARIABLES
  pending,    \* pendingLoadedGainDb_, pendingLoadedBypass_
  revision,   \* loadedStateRevision_
  snapshot,   \* gainDbSnapshot_, bypassSnapshot_
  processor,  \* the gain and bypass of GainProcessor
  applied,    \* appliedLoadedStateRevision_
  main,       \* which stores of the last load are on their way
  audio,      \* where process() or paramsFlush() is, the revision it saw, what is left to copy
  stores,     \* the audio thread's stores to the snapshots that are on their way
  changes,    \* history: the number of changes so far
  lastLoad,   \* history: the change the last load, finished or not, made
  overlapping \* history: how many loads ran during the current or last block or after it;
              \*   2 also stands for more, for a block that failed, and for stores that
              \*   land late or early enough for the block and a load to miss each other

stateVars == <<pending, revision, snapshot, processor, applied, main, audio, stores,
               changes, lastLoad, overlapping>>

Parameter == {"gain", "bypass"}
Changes == 0 .. MaxChanges
Values == [Parameter -> Changes]
Both(n) == [p \in Parameter |-> n]

AudioSteps == {"idle", "apply", "events", "check", "recheck", "restore"}

Landed == [pending |-> {}, revision |-> FALSE, snapshot |-> {}]

StateTypeOK ==
  /\ pending \in Values /\ snapshot \in Values /\ processor \in Values
  /\ revision \in Changes /\ applied \in Changes
  /\ main \in [pending : SUBSET Parameter, revision : BOOLEAN, snapshot : SUBSET Parameter]
  /\ audio \in [pc : AudioSteps, revision : Changes, left : SUBSET Parameter]
  /\ stores \in [Parameter -> SUBSET Changes]
  /\ changes \in Changes /\ lastLoad \in Changes
  /\ overlapping \in 0 .. 2

StateInit ==
  /\ pending = Both(0) /\ snapshot = Both(0) /\ processor = Both(0)
  /\ revision = 0 /\ applied = 0
  /\ main = Landed
  /\ audio = [pc |-> "idle", revision |-> 0, left |-> {}]
  /\ stores = Both({})
  /\ changes = 0 /\ lastLoad = 0
  /\ overlapping = 0

StoresHaveLanded == \A p \in Parameter : stores[p] = {}

-----------------------------------------------------------------------------
(* The main thread: commitPersistentParameterSnapshot(). *)

UnchangedAudio == UNCHANGED <<processor, applied, audio, stores>>

\* All stores of a load.  Those of the load before have landed: between two loads
\* there is a call of the host or of the page.
Load ==
  /\ main = Landed
  /\ changes < MaxChanges
  /\ changes' = changes + 1
  /\ lastLoad' = changes + 1
  /\ main' = [pending |-> Parameter, revision |-> TRUE, snapshot |-> Parameter]
  /\ overlapping' = IF overlapping > 0 \/ (audio.pc = "idle" /\ ~StoresHaveLanded) THEN 2 ELSE 1
  /\ UNCHANGED <<pending, revision, snapshot>>
  /\ UnchangedAudio

PendingLands(p) ==
  /\ p \in main.pending
  /\ main' = [main EXCEPT !.pending = main.pending \ {p}]
  /\ pending' = [pending EXCEPT ![p] = lastLoad]
  /\ UNCHANGED <<revision, snapshot, changes, lastLoad, overlapping>>
  /\ UnchangedAudio

RevisionLands ==
  /\ main.revision /\ main.pending = {}
  /\ main' = [main EXCEPT !.revision = FALSE]
  /\ revision' = revision + 1
  /\ UNCHANGED <<pending, snapshot, changes, lastLoad, overlapping>>
  /\ UnchangedAudio

SnapshotLands(p) ==
  /\ p \in main.snapshot
  /\ main' = [main EXCEPT !.snapshot = main.snapshot \ {p}]
  /\ snapshot' = [snapshot EXCEPT ![p] = lastLoad]
  /\ overlapping' = IF main.revision THEN 2 ELSE overlapping
  /\ UNCHANGED <<pending, revision, changes, lastLoad>>
  /\ UnchangedAudio

-----------------------------------------------------------------------------
(* The audio thread: process(), or paramsFlush(), which has the same parts. *)

UnchangedMain == UNCHANGED <<pending, revision, main, lastLoad>>

\* A store to a snapshot replaces the one that is still on its way there.
StoreLands(p) ==
  /\ \E v \in stores[p] : snapshot' = [snapshot EXCEPT ![p] = v]
  /\ stores' = [stores EXCEPT ![p] = {}]
  /\ UNCHANGED <<processor, applied, audio, changes, overlapping>>
  /\ UnchangedMain

\* applyPendingLoadedState() looks for a new revision.
BlockBegin ==
  /\ audio.pc = "idle"
  /\ audio' = IF revision = applied
              THEN [pc |-> "events", revision |-> revision, left |-> {}]
              ELSE [pc |-> "apply", revision |-> revision, left |-> Parameter]
  /\ overlapping' = IF main = Landed THEN 0
                    ELSE IF main.revision /\ main.snapshot # Parameter THEN 2 ELSE 1
  /\ UNCHANGED <<snapshot, processor, applied, stores, changes>>
  /\ UnchangedMain

\* The rest of a copy of the pending values, and what comes after it.
CopyOf(p, pc) ==
  [audio EXCEPT !.left = audio.left \ {p}, !.pc = IF audio.left = {p} THEN pc ELSE audio.pc]

\* Mutant of Apply: the revision marked as applied is read after the values.
ApplyMarksLatest(p) ==
  /\ audio.pc = "apply" /\ p \in audio.left
  /\ processor' = [processor EXCEPT ![p] = pending[p]]
  /\ audio' = CopyOf(p, "events")
  /\ applied' = IF audio.left = {p} THEN revision ELSE applied
  /\ UNCHANGED <<snapshot, stores, changes, overlapping>>
  /\ UnchangedMain

Apply(p) ==
  /\ audio.pc = "apply" /\ p \in audio.left
  /\ processor' = [processor EXCEPT ![p] = pending[p]]
  /\ audio' = CopyOf(p, "events")
  /\ applied' = IF audio.left = {p} THEN audio.revision ELSE applied
  /\ UNCHANGED <<snapshot, stores, changes, overlapping>>
  /\ UnchangedMain

\* An input event, or a command of the editor that drain() takes.
Event(p) ==
  /\ audio.pc = "events"
  /\ changes < MaxChanges
  /\ changes' = changes + 1
  /\ processor' = [processor EXCEPT ![p] = changes + 1]
  /\ UNCHANGED <<snapshot, applied, audio, stores, overlapping>>
  /\ UnchangedMain

\* process() of a block the host has set up wrongly returns CLAP_PROCESS_ERROR.
BlockFails ==
  /\ audio.pc = "events"
  /\ audio' = [audio EXCEPT !.pc = "idle"]
  /\ overlapping' = 2
  /\ UNCHANGED <<snapshot, processor, applied, stores, changes>>
  /\ UnchangedMain

EventsDone ==
  /\ audio.pc = "events"
  /\ audio' = [audio EXCEPT !.pc = "check"]
  /\ UNCHANGED <<snapshot, processor, applied, stores, changes, overlapping>>
  /\ UnchangedMain

\* syncParameterSnapshotsPreservingConcurrentStateLoad(): the first look at the revision,
\* and, if it is the applied one, syncParameterSnapshotsFromProcessor().
SyncSnapshots ==
  /\ audio.pc = "check"
  /\ IF revision # applied
     THEN /\ audio' = [pc |-> "restore", revision |-> revision, left |-> Parameter]
          /\ UNCHANGED stores
     ELSE /\ audio' = [pc |-> "recheck", revision |-> revision, left |-> {}]
          /\ stores' = [p \in Parameter |-> {processor[p]}]
  /\ UNCHANGED <<snapshot, processor, applied, changes, overlapping>>
  /\ UnchangedMain

\* Mutant of SyncRecheck: a load during the store of the snapshots goes unnoticed.
SyncRecheckSkipped ==
  /\ audio.pc = "recheck"
  /\ audio' = [audio EXCEPT !.pc = "idle"]
  /\ overlapping' = IF main.revision /\ ~StoresHaveLanded THEN 2 ELSE overlapping
  /\ UNCHANGED <<snapshot, processor, applied, stores, changes>>
  /\ UnchangedMain

\* The second look, which does not wait for the stores before it.
SyncRecheck ==
  /\ audio.pc = "recheck"
  /\ audio' = IF revision # audio.revision THEN [audio EXCEPT !.pc = "restore", !.left = Parameter]
                                           ELSE [audio EXCEPT !.pc = "idle"]
  /\ overlapping' = IF main.revision /\ ~StoresHaveLanded THEN 2 ELSE overlapping
  /\ UNCHANGED <<snapshot, processor, applied, stores, changes>>
  /\ UnchangedMain

\* restoreSnapshotsFromPendingState().
Restore(p) ==
  /\ audio.pc = "restore" /\ p \in audio.left
  /\ stores' = [stores EXCEPT ![p] = {pending[p]}]
  /\ audio' = CopyOf(p, "idle")
  /\ UNCHANGED <<snapshot, processor, applied, changes, overlapping>>
  /\ UnchangedMain

-----------------------------------------------------------------------------
LoadLands == RevisionLands \/ \E p \in Parameter : PendingLands(p) \/ SnapshotLands(p)

BlockStep ==
  \/ \E p \in Parameter : Apply(p) \/ Restore(p)
  \/ EventsDone \/ SyncSnapshots \/ SyncRecheck

Events == \E p \in Parameter : Event(p)

StateNext ==
  \/ Load \/ LoadLands \/ BlockBegin \/ BlockStep \/ Events \/ BlockFails
  \/ \E p \in Parameter : StoreLands(p)

StateSpec == StateInit /\ [][StateNext]_stateVars

(***************************************************************************)
(* A store lands sooner or later, and a block that is begun is finished.   *)
(* An active plug-in is processed block after block (it returns            *)
(* CLAP_PROCESS_CONTINUE), and not all the blocks of a host are wrong.     *)
(***************************************************************************)
StateFairness ==
  /\ WF_stateVars(LoadLands)
  /\ \A p \in Parameter : WF_stateVars(StoreLands(p))
  /\ WF_stateVars(BlockBegin)
  /\ WF_stateVars(BlockStep)
  /\ SF_stateVars(EventsDone)

FairStateSpec == StateSpec /\ StateFairness

-----------------------------------------------------------------------------
(***************************************************************************)
(* A block does not put a loaded parameter back: once the load and the     *)
(* block are over and their stores have landed, what stateSave() reads is  *)
(* not older than the loaded state.  This holds for a load before the      *)
(* block, whatever an earlier block left on its way, and for one load that *)
(* overlaps the block.  (It holds only with the next good block if two     *)
(* loads overlap it, where the restoring thread may store the values of    *)
(* the earlier one last; if a snapshot of the load lands before its        *)
(* revision; or if a store of the block is on its way when the second look *)
(* at the revision does not see the load: nothing orders these accesses.)  *)
(***************************************************************************)
LoadSurvivesBlock ==
  main = Landed /\ audio.pc = "idle" /\ StoresHaveLanded /\ overlapping < 2 =>
    \A p \in Parameter : snapshot[p] >= lastLoad

(***************************************************************************)
(* However loads, events and blocks interleave, and in whatever order      *)
(* their stores land, processing goes on until the processor runs with the *)
(* last load or later events, and the snapshots show exactly what it runs  *)
(* with.                                                                   *)
(***************************************************************************)
Settles ==
  <>[](snapshot = processor /\ processor.gain >= lastLoad /\ processor.bypass >= lastLoad)

=============================================================================

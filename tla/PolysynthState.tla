--------------------------- MODULE PolysynthState ---------------------------
(***************************************************************************)
(* How the parameters of PolySynthPlugin are shared between the main       *)
(* thread, which loads and saves states, and the audio thread, which       *)
(* processes blocks and flushes; and the tail the plug-in advertises.      *)
(*                                                                         *)
(* A loaded state is handed over in the pending snapshot, the processed    *)
(* parameters are published in the host snapshot.  Each snapshot is a      *)
(* record of atomics under a sequence number that is odd while it is       *)
(* written.  Of the 13 parameters two are kept: the release time of the    *)
(* amp envelope, on which the tail depends, and one that stands for the    *)
(* others.  A value is stood for by the number of the change it comes      *)
(* from: a load sets both parameters, an input event one of them.  Every   *)
(* access to an atomic the other thread writes is a step; the accesses are *)
(* sequentially consistent.                                                *)
(***************************************************************************)
EXTENDS Naturals

CONSTANTS
  MaxChanges, \* bound on the number of loads and events
  MaxLaps,    \* bound on the publications of the host snapshot during one read of it
  Samples     \* the release times there are

ASSUME StateAssumption ==
  /\ MaxChanges \in Nat /\ MaxLaps \in Nat \ {0}
  /\ Samples \subseteq Nat \ {0} /\ Samples # {}

VARIABLES
  active,
  pending,      \* the pendingLoaded... atomics and pendingSnapshotSequence_
  loaded,       \* loadedStateRevision_
  host,         \* the host... atomics and hostSnapshotSequence_
  published,    \* appliedLoadedStateRevisionPublished_
  engine,       \* the base values in the engine
  voices,       \* the release times of its active voices, in samples
  applied,      \* appliedLoadedStateRevision_
  tail,         \* currentTailSamples_
  pendingTail,  \* pendingLoadedTailSamples_
  tailRevision, \* tailLoadedStateRevisionPublished_
  main,         \* what the main thread is doing, and its locals
  audio,        \* what the audio thread is doing, and its locals
  changes,      \* history: the number of changes so far
  lastLoad,     \* history: the change the last finished load made
  samples,      \* the release time of each change, in samples
  current,      \* history: the whole effective snapshots since the read began
  laps,         \* history: the publications of the host snapshot since the read began
  failed        \* history: the last block returned CLAP_PROCESS_ERROR

vars == <<active, pending, loaded, host, published, engine, voices, applied, tail, pendingTail,
          tailRevision, main, audio, changes, lastLoad, samples, current, laps, failed>>

Changes == 0 .. MaxChanges
Fields == {"other", "release"}
Snapshot == [Fields -> Changes]
HostModulus == 2 * (MaxLaps + 1) \* 2^32 in the code; no read sees a whole lap

Both(n) == [f \in Fields |-> n]

MainSteps == {"idle", "pendBegin", "pendOther", "pendRelease", "pendEnd", "bump", "readBefore",
              "readOther", "readRelease", "readAfter", "saved", "tailCurrent", "tailMax", "tailDone"}
AudioSteps == {"idle", "readBefore", "readOther", "readRelease", "readAfter", "recheck", "events",
               "pubBegin", "pubOther", "pubRelease", "pubEnd", "pubRevision",
               "oneBegin", "one", "oneEnd", "tail", "tailRevision"}

TypeOK ==
  /\ active \in BOOLEAN /\ failed \in BOOLEAN
  /\ pending \in [seq : 0 .. 2 * MaxChanges, value : Snapshot]
  /\ host \in [seq : 0 .. HostModulus - 1, value : Snapshot]
  /\ {loaded, published, applied, tailRevision, changes, lastLoad} \subseteq Changes
  /\ engine \in Snapshot
  /\ voices \subseteq Samples
  /\ {tail, pendingTail} \subseteq Samples
  /\ main \in [pc : MainSteps, seq : 0 .. HostModulus - 1, value : Snapshot, tail : {0} \cup Samples]
  /\ audio \in [pc : AudioSteps, flush : BOOLEAN, revision : Changes, replay : BOOLEAN,
                seq : 0 .. 2 * MaxChanges, value : Snapshot, field : Fields]
  /\ samples \in [Changes -> Samples]
  /\ current \subseteq Snapshot
  /\ laps \in 0 .. MaxLaps

Resting == [pc |-> "idle", seq |-> 0, value |-> Both(0), tail |-> 0]

NoCall == [pc |-> "idle", flush |-> FALSE, revision |-> 0, replay |-> FALSE,
           seq |-> 0, value |-> Both(0), field |-> "other"]

Init ==
  /\ active = FALSE /\ failed = FALSE
  /\ pending = [seq |-> 0, value |-> Both(0)]
  /\ host = [seq |-> 0, value |-> Both(0)]
  /\ loaded = 0 /\ published = 0 /\ applied = 0 /\ tailRevision = 0
  /\ engine = Both(0) /\ voices = {}
  /\ samples \in [Changes -> Samples]
  /\ tail = samples[0] /\ pendingTail = samples[0]
  /\ main = Resting
  /\ audio = NoCall
  /\ changes = 0 /\ lastLoad = 0
  /\ current = {} /\ laps = 0

-----------------------------------------------------------------------------
Odd(s) == s % 2 = 1
Longest(S) == CHOOSE n \in S : \A m \in S : m <= n

AudioIdle == audio.pc = "idle"

\* readEffectiveParameterSnapshot() of a thread that is not disturbed.
Effective == IF loaded # published THEN pending.value ELSE host.value

Reading == main.pc \in {"readBefore", "readOther", "readRelease", "readAfter"}

\* What the read in progress may return besides: a snapshot that has become effective.
Witness == current' = IF Reading /\ ~Odd(host'.seq) THEN current \cup {Effective'} ELSE current

UnchangedAudio == UNCHANGED <<host, published, engine, voices, applied, tail, tailRevision,
                              audio, failed>>
UnchangedState == UNCHANGED <<active, pending, loaded, pendingTail, changes, lastLoad, samples>>

-----------------------------------------------------------------------------
(* The main thread: commitPersistentParameterSnapshot() of an active plug-in. *)

MainAt(from, to) ==
  /\ main.pc = from
  /\ main' = [main EXCEPT !.pc = to]

LoadTail ==
  /\ active
  /\ main.pc = "idle"
  /\ changes < MaxChanges
  /\ changes' = changes + 1
  /\ pendingTail' = Longest({samples[changes + 1]} \cup
                            IF loaded # tailRevision THEN {pendingTail} ELSE {})
  /\ main' = [main EXCEPT !.pc = "pendBegin", !.value = Both(changes + 1)]
  /\ UNCHANGED <<active, pending, loaded, lastLoad, samples, current, laps>>
  /\ UnchangedAudio

\* publishPendingParameterSnapshot().
PublishPending ==
  /\ \/ /\ MainAt("pendBegin", "pendOther")
        /\ pending' = [pending EXCEPT !.seq = @ + 1]
     \/ /\ MainAt("pendOther", "pendRelease")
        /\ pending' = [pending EXCEPT !.value.other = main.value.other]
     \/ /\ MainAt("pendRelease", "pendEnd")
        /\ pending' = [pending EXCEPT !.value.release = main.value.release]
     \/ /\ MainAt("pendEnd", "bump")
        /\ pending' = [pending EXCEPT !.seq = @ + 1]
  /\ UNCHANGED <<active, loaded, pendingTail, changes, lastLoad, samples, current, laps>>
  /\ UnchangedAudio

LoadBump ==
  /\ main.pc = "bump"
  /\ main' = Resting
  /\ loaded' = loaded + 1
  /\ lastLoad' = main.value.other
  /\ UNCHANGED <<active, pending, pendingTail, changes, samples, current, laps>>
  /\ UnchangedAudio

(***************************************************************************)
(* stateSave() and params.get_value(): readEffectiveParameterSnapshot().   *)
(* Only this thread writes the pending snapshot and its revision, so       *)
(* reading them is not disturbed.                                          *)
(***************************************************************************)
ReadBegin ==
  /\ main.pc = "idle"
  /\ main' = IF loaded # published
               THEN [main EXCEPT !.pc = "saved", !.value = pending.value]
               ELSE [main EXCEPT !.pc = "readBefore"]
  /\ current' = IF loaded = published /\ Odd(host.seq) THEN {} ELSE {Effective}
  /\ laps' = 0
  /\ UnchangedState /\ UnchangedAudio

ReadBefore ==
  /\ main.pc = "readBefore"
  /\ main' = IF Odd(host.seq) THEN main ELSE [main EXCEPT !.pc = "readOther", !.seq = host.seq]
  /\ laps' = 0
  /\ UNCHANGED current
  /\ UnchangedState /\ UnchangedAudio

ReadField(from, f, to) ==
  /\ main.pc = from
  /\ main' = [main EXCEPT !.pc = to, !.value[f] = host.value[f]]
  /\ UNCHANGED <<current, laps>>
  /\ UnchangedState /\ UnchangedAudio

\* Mutant of ReadAfter: the sequence number is not compared with the one before.
ReadAfterUnchecked ==
  /\ main.pc = "readAfter"
  /\ main' = [main EXCEPT !.pc = "saved"]
  /\ UNCHANGED <<current, laps>>
  /\ UnchangedState /\ UnchangedAudio

ReadAfter ==
  /\ main.pc = "readAfter"
  /\ main' = [main EXCEPT !.pc = IF main.seq = host.seq THEN "saved" ELSE "readBefore"]
  /\ UNCHANGED <<current, laps>>
  /\ UnchangedState /\ UnchangedAudio

(***************************************************************************)
(* tailGet(), which reads the revision of the tail before the tail.        *)
(***************************************************************************)
TailBegin ==
  /\ main.pc = "idle"
  /\ main' = [main EXCEPT !.pc = IF loaded = tailRevision \/ ~active THEN "tailCurrent" ELSE "tailMax"]
  /\ UNCHANGED <<current, laps>>
  /\ UnchangedState /\ UnchangedAudio

\* Mutant of TailReported: a load that has not reached the engine is left out.
TailReportedCurrent == tail

TailReported ==
  CASE main.pc = "tailCurrent" -> tail
    [] main.pc = "tailMax"     -> Longest({tail, pendingTail})

TailCurrent ==
  /\ main.pc \in {"tailCurrent", "tailMax"}
  /\ main' = [main EXCEPT !.pc = "tailDone", !.tail = TailReported]
  /\ UNCHANGED <<current, laps>>
  /\ UnchangedState /\ UnchangedAudio

\* The call returns.
Return ==
  /\ main.pc \in {"saved", "tailDone"}
  /\ main' = Resting
  /\ current' = {} /\ laps' = 0
  /\ UnchangedState /\ UnchangedAudio

-----------------------------------------------------------------------------
(* What the main thread does while no audio thread runs. *)

HostIs(snapshot) == host' = [seq |-> (host.seq + 2) % HostModulus, value |-> snapshot]

Activate ==
  /\ ~active /\ main.pc = "idle"
  /\ active' = TRUE
  /\ engine' = Effective
  /\ HostIs(Effective)
  /\ tail' = samples[Effective.release] /\ pendingTail' = samples[Effective.release]
  /\ tailRevision' = loaded /\ applied' = loaded /\ published' = loaded
  /\ failed' = FALSE
  /\ UNCHANGED <<pending, loaded, voices, main, audio, changes, lastLoad, samples, current, laps>>

\* materializePendingParameterSnapshotOnMainThread().
Deactivate ==
  /\ active /\ main.pc = "idle" /\ AudioIdle
  /\ active' = FALSE
  /\ IF loaded # published THEN HostIs(pending.value) ELSE UNCHANGED host
  /\ applied' = loaded /\ published' = loaded
  /\ voices' = {}
  /\ UNCHANGED <<pending, loaded, engine, tail, pendingTail, tailRevision, main, audio,
                 changes, lastLoad, samples, current, laps, failed>>

LoadInactive ==
  /\ ~active /\ main.pc = "idle"
  /\ changes < MaxChanges
  /\ changes' = changes + 1 /\ lastLoad' = changes + 1
  /\ pending' = [seq |-> pending.seq + 2, value |-> Both(changes + 1)]
  /\ HostIs(Both(changes + 1))
  /\ loaded' = loaded + 1 /\ applied' = loaded + 1 /\ published' = loaded + 1
  /\ UNCHANGED <<active, engine, voices, tail, pendingTail, tailRevision, main, audio,
                 samples, current, laps, failed>>

\* paramsFlush() with one event.
FlushInactive(f) ==
  /\ ~active /\ main.pc = "idle"
  /\ changes < MaxChanges
  /\ changes' = changes + 1
  /\ HostIs([Effective EXCEPT ![f] = changes + 1])
  /\ applied' = loaded /\ published' = loaded
  /\ UNCHANGED <<active, pending, loaded, engine, voices, tail, pendingTail, tailRevision, main,
                 audio, lastLoad, samples, current, laps, failed>>

-----------------------------------------------------------------------------
(* The audio thread: process(), and paramsFlush() of an active plug-in. *)

UnchangedMain == UNCHANGED <<active, pending, loaded, pendingTail, main, lastLoad, samples>>

AudioAt(from, to) ==
  /\ audio.pc = from
  /\ audio' = [audio EXCEPT !.pc = to]

CallBegin(flush) ==
  /\ active /\ AudioIdle
  /\ audio' = [NoCall EXCEPT !.pc = IF loaded # applied THEN "readBefore" ELSE "events",
                             !.flush = flush, !.revision = loaded]
  /\ UNCHANGED <<host, published, engine, voices, applied, tail, tailRevision,
                 changes, current, laps, failed>>
  /\ UnchangedMain

\* The loaded state is left for a later call.
NoReplay == [NoCall EXCEPT !.pc = "events", !.flush = audio.flush]

\* tryReadPendingParameterSnapshot(): one attempt, and the revision must not have changed.
TryReadPending ==
  /\ \/ /\ audio.pc = "readBefore"
        /\ audio' = IF Odd(pending.seq) THEN NoReplay
                    ELSE [audio EXCEPT !.pc = "readOther", !.seq = pending.seq]
     \/ /\ audio.pc = "readOther"
        /\ audio' = [audio EXCEPT !.pc = "readRelease", !.value.other = pending.value.other]
     \/ /\ audio.pc = "readRelease"
        /\ audio' = [audio EXCEPT !.pc = "readAfter", !.value.release = pending.value.release]
     \/ /\ audio.pc = "readAfter"
        /\ audio' = IF pending.seq # audio.seq THEN NoReplay
                    ELSE [audio EXCEPT !.pc = "recheck"]
  /\ UNCHANGED <<host, published, engine, voices, applied, tail, tailRevision,
                 changes, current, laps, failed>>
  /\ UnchangedMain

\* Mutant of Recheck: the values are not tied to the revision the call began with.
RecheckSkipped ==
  /\ audio.pc = "recheck"
  /\ engine' = audio.value
  /\ audio' = [audio EXCEPT !.pc = IF audio.flush THEN "pubBegin" ELSE "events",
                            !.replay = TRUE, !.seq = 0, !.value = Both(0)]
  /\ applied' = IF audio.flush THEN audio.revision ELSE applied
  /\ UNCHANGED <<host, published, voices, tail, tailRevision, changes, current, laps, failed>>
  /\ UnchangedMain

(***************************************************************************)
(* The revision is the one the call began with: process() replays the      *)
(* loaded values as the first events of the block, paramsFlush() applies   *)
(* and publishes them before its events.                                   *)
(***************************************************************************)
Recheck ==
  /\ audio.pc = "recheck"
  /\ IF loaded # audio.revision
       THEN /\ audio' = NoReplay
            /\ UNCHANGED <<engine, applied>>
       ELSE /\ engine' = audio.value
            /\ audio' = [audio EXCEPT !.pc = IF audio.flush THEN "pubBegin" ELSE "events",
                                      !.replay = TRUE, !.seq = 0, !.value = Both(0)]
            /\ applied' = IF audio.flush THEN audio.revision ELSE applied
  /\ UNCHANGED <<host, published, voices, tail, tailRevision, changes, current, laps, failed>>
  /\ UnchangedMain

ParamEvent(f) ==
  /\ audio.pc = "events"
  /\ changes < MaxChanges
  /\ changes' = changes + 1
  /\ engine' = [engine EXCEPT ![f] = changes + 1]
  /\ audio' = IF audio.flush THEN [audio EXCEPT !.pc = "oneBegin", !.field = f] ELSE audio
  /\ UNCHANGED <<host, published, voices, applied, tail, tailRevision, current, laps, failed>>
  /\ UnchangedMain

\* A voice starts with the release time of now, or voices of some release time end.
Notes ==
  /\ audio.pc = "events" /\ ~audio.flush
  /\ \/ voices' = voices \cup {samples[engine.release]}
     \/ \E n \in voices : voices' = voices \ {n}
  /\ UNCHANGED <<host, published, engine, applied, tail, tailRevision, audio,
                 changes, current, laps, failed>>
  /\ UnchangedMain

\* clap_plugin.reset(), which the host calls on the audio thread.
Reset ==
  /\ active /\ AudioIdle
  /\ voices # {}
  /\ voices' = {}
  /\ UNCHANGED <<host, published, engine, applied, tail, tailRevision, audio,
                 changes, current, laps, failed>>
  /\ UnchangedMain

\* The engine or the host's note-end queue refuses: CLAP_PROCESS_ERROR.
BlockFails ==
  /\ audio.pc = "events" /\ ~audio.flush
  /\ audio' = NoCall
  /\ failed' = TRUE
  /\ UNCHANGED <<host, published, engine, voices, applied, tail, tailRevision,
                 changes, current, laps>>
  /\ UnchangedMain

\* Mutant of EventsDone: the revision marked as applied is read at the end of the block.
EventsDoneMarksLatest ==
  /\ audio.pc = "events"
  /\ audio' = IF audio.flush THEN NoCall ELSE [audio EXCEPT !.pc = "pubBegin"]
  /\ applied' = IF audio.replay THEN loaded ELSE applied
  /\ UNCHANGED <<host, published, engine, voices, tail, tailRevision, changes, current, laps, failed>>
  /\ UnchangedMain

EventsDone ==
  /\ audio.pc = "events"
  /\ audio' = IF audio.flush THEN NoCall ELSE [audio EXCEPT !.pc = "pubBegin"]
  /\ applied' = IF audio.replay THEN audio.revision ELSE applied
  /\ UNCHANGED <<host, published, engine, voices, tail, tailRevision, changes, current, laps, failed>>
  /\ UnchangedMain

\* The first increment of hostSnapshotSequence_.
HostBegin ==
  /\ \/ AudioAt("pubBegin", "pubOther")
     \/ AudioAt("oneBegin", "one")
  /\ Reading => laps < MaxLaps
  /\ laps' = IF Reading THEN laps + 1 ELSE laps
  /\ host' = [host EXCEPT !.seq = (@ + 1) % HostModulus]
  /\ UNCHANGED <<published, engine, voices, applied, tail, tailRevision, changes, current, failed>>
  /\ UnchangedMain

\* publishHostParameterSnapshot(), or storeGlobalHostParameterSnapshot().
HostWrite ==
  /\ \/ /\ AudioAt("pubOther", "pubRelease")
        /\ host' = [host EXCEPT !.value.other = engine.other]
     \/ /\ AudioAt("pubRelease", "pubEnd")
        /\ host' = [host EXCEPT !.value.release = engine.release]
     \/ /\ AudioAt("one", "oneEnd")
        /\ host' = [host EXCEPT !.value[audio.field] = engine[audio.field]]
  /\ UNCHANGED <<published, engine, voices, applied, tail, tailRevision, changes, current, laps, failed>>
  /\ UnchangedMain

HostEnd ==
  /\ \/ AudioAt("pubEnd", "pubRevision")
     \/ AudioAt("oneEnd", IF audio.field = "release" THEN "tail" ELSE "events")
  /\ host' = [host EXCEPT !.seq = (@ + 1) % HostModulus]
  /\ UNCHANGED <<published, engine, voices, applied, tail, tailRevision, changes, laps, failed>>
  /\ UnchangedMain
  /\ Witness

PublishRevision ==
  /\ AudioAt("pubRevision", "tail")
  /\ published' = applied
  /\ UNCHANGED <<host, engine, voices, applied, tail, tailRevision, changes, laps, failed>>
  /\ UnchangedMain
  /\ Witness

\* Mutant of SyncTail: the voices that still sound are left out.
SyncTailIgnoresVoices ==
  /\ AudioAt("tail", "tailRevision")
  /\ tail' = samples[engine.release]
  /\ UNCHANGED <<host, published, engine, voices, applied, tailRevision, changes, current, laps, failed>>
  /\ UnchangedMain

\* syncTailFromEngine().
SyncTail ==
  /\ AudioAt("tail", "tailRevision")
  /\ tail' = Longest({samples[engine.release]} \cup voices)
  /\ UNCHANGED <<host, published, engine, voices, applied, tailRevision, changes, current, laps, failed>>
  /\ UnchangedMain

SyncTailRevision ==
  /\ audio.pc = "tailRevision"
  /\ audio' = IF audio.flush THEN [audio EXCEPT !.pc = "events"] ELSE NoCall
  /\ tailRevision' = applied
  /\ failed' = (failed /\ audio.flush)
  /\ UNCHANGED <<host, published, engine, voices, applied, tail, changes, current, laps>>
  /\ UnchangedMain

-----------------------------------------------------------------------------
MainStep ==
  \/ PublishPending \/ LoadBump
  \/ ReadBefore \/ ReadField("readOther", "other", "readRelease")
  \/ ReadField("readRelease", "release", "readAfter") \/ ReadAfter
  \/ TailCurrent \/ Return

AudioStep ==
  \/ TryReadPending \/ Recheck \/ EventsDone
  \/ HostBegin \/ HostWrite \/ HostEnd \/ PublishRevision \/ SyncTail \/ SyncTailRevision

Next ==
  \/ LoadTail \/ PublishPending \/ LoadBump
  \/ ReadBegin \/ ReadBefore \/ ReadField("readOther", "other", "readRelease")
  \/ ReadField("readRelease", "release", "readAfter") \/ ReadAfter
  \/ TailBegin \/ TailCurrent \/ Return
  \/ Activate \/ Deactivate \/ LoadInactive
  \/ \E f \in Fields : FlushInactive(f)
  \/ \E flush \in BOOLEAN : CallBegin(flush)
  \/ TryReadPending \/ Recheck
  \/ \E f \in Fields : ParamEvent(f)
  \/ Notes \/ Reset \/ BlockFails \/ EventsDone
  \/ HostBegin \/ HostWrite \/ HostEnd \/ PublishRevision \/ SyncTail \/ SyncTailRevision

Spec == Init /\ [][Next]_vars

(***************************************************************************)
(* Both threads finish the calls they are in, an active plug-in is         *)
(* processed block after block, and not all the blocks of a host fail.     *)
(***************************************************************************)
Fairness ==
  /\ WF_vars(MainStep)
  /\ WF_vars(AudioStep)
  /\ SF_vars(CallBegin(FALSE))
  /\ SF_vars(~audio.flush /\ EventsDone)

FairSpec == Spec /\ Fairness

-----------------------------------------------------------------------------
(***************************************************************************)
(* state.save() and params.get_value() return one whole snapshot that was  *)
(* effective at some moment of the call, never a mixture of two; and from  *)
(* the moment a load has returned they never show an older parameter,      *)
(* whatever blocks, flushes and failures the audio thread is in.           *)
(***************************************************************************)
SaveIsCurrent ==
  main.pc = "saved" => /\ main.value \in current
                       /\ \A f \in Fields : main.value[f] >= lastLoad

(***************************************************************************)
(* What process() or paramsFlush() applies to the engine is one whole      *)
(* loaded state, and the last one if that is what the revision says,       *)
(* although the main thread may be overwriting it.                         *)
(***************************************************************************)
AppliesWholeState ==
  [][Recheck /\ engine' # engine =>
       /\ engine'.other = engine'.release
       /\ main.pc # "bump" => engine'.other = lastLoad]_vars

(***************************************************************************)
(* Between blocks, the advertised tail covers the release time of the      *)
(* parameters the host sees and that of every active voice, also of those  *)
(* that started before the release time was shortened.                     *)
(***************************************************************************)
TailNeverUnderReports ==
  active /\ AudioIdle /\ main.pc = "idle" =>
    LET reported == IF loaded = tailRevision THEN tail ELSE Longest({tail, pendingTail})
    IN \A n \in voices \cup {samples[Effective.release]} : n <= reported

(***************************************************************************)
(* The same, as long as process() does not return CLAP_PROCESS_ERROR.      *)
(***************************************************************************)
TailCovers == ~failed => TailNeverUnderReports

(***************************************************************************)
(* After state.load(), tail.get() does not report less than the loaded     *)
(* release time, however its two reads meet the audio thread's writes,     *)
(* until an event gives the engine a later release time.                   *)
(***************************************************************************)
LoadedTailIsReported ==
  main.pc = "tailDone" /\ active /\ engine.release <= lastLoad =>
    main.tail >= samples[lastLoad]

(***************************************************************************)
(* However loads, events, blocks and (de)activations interleave, an active *)
(* plug-in comes to process the last load or later events, and to publish  *)
(* exactly what it processes.                                              *)
(***************************************************************************)
Settles ==
  <>[](active => /\ \A f \in Fields : engine[f] >= lastLoad
                 /\ host.value = engine)

=============================================================================

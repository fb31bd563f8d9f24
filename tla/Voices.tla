------------------------------- MODULE Voices -------------------------------
(***************************************************************************)
(* The voices of PolySynth: VoiceAllocator, NoteEventScheduler,            *)
(* VoiceLifecycle and VoiceEngine, which each keep an array with one       *)
(* element per voice and must agree on it; and the WCLAP proxy around      *)
(* them, which counts the voices from the events that pass through it.     *)
(*                                                                         *)
(* Everything runs on the audio thread.  A block is a number of frames;    *)
(* the events of one time are handled before the frame of that time is     *)
(* rendered.  Of a note the model keeps its channel and its key, of an     *)
(* envelope whether the voice is held or for how many more frames it is    *)
(* releasing, and of the output the NOTE_END events.                       *)
(***************************************************************************)
EXTENDS Integers, FiniteSets

CONSTANTS
  Capacity,     \* capacity_, the number of voices
  Channels, Keys,
  Any,          \* -1 in the address of an event
  Releases,     \* the values of releaseSamples_, in frames
  MaxFrames,    \* the longest block
  MaxSerial,    \* the largest allocation serial, 2^64 - 1 in the code
  MaxNotes,     \* bound: the notes that start, and the NOTE_ONs that failed blocks do not reach
  MaxMidiNotes  \* bound: the MIDI notes before all voices are silent again

ASSUME VoicesAssumption ==
  /\ Capacity \in Nat \ {0}
  /\ Releases \subseteq Nat \ {0} /\ Releases # {}
  /\ MaxFrames \in Nat \ {0}
  /\ MaxSerial \in Nat /\ MaxSerial > Capacity
  /\ MaxNotes \in Nat /\ MaxMidiNotes \in Nat
  /\ Any \notin Channels \cup Keys

VARIABLES
  slot, allocationSerial,  \* VoiceAllocator: slots_, allocationSerial_
  sustained, pedal,        \* NoteEventScheduler: sustainedReleases_, the channels with sustain
  life, generationSerial,  \* VoiceLifecycle: slots_, generationSerial_
  voice,                   \* VoiceEngine: voices_
  block,                   \* the block in process, and how far it is rendered
  renderOk,                \* whether rendering has reported no error
  counted,                 \* ProxyState: activeVoicesRt and fullNoteOnCreditsRt
  unstarted,               \* history: the counted notes that failed blocks did not reach
  uncounted,               \* history: the notes the proxy missed since all voices were silent
  owed,                    \* history: the NOTE_ENDs the host is still to get, for each note
  lastEnd                  \* history: the time of the last NOTE_END of this block

allocator == <<slot, allocationSerial>>
scheduler == <<sustained, pedal>>
lifecycle == <<life, generationSerial>>
counts == <<counted, unstarted, uncounted>>
output == <<owed, lastEnd>>
vars == <<slot, allocationSerial, sustained, pedal, life, generationSerial, voice, block,
          renderOk, counted, unstarted, uncounted, owed, lastEnd>>

Indices == 0 .. Capacity - 1
Identity == [channel : Channels, key : Keys]
Address == [channel : Channels \cup {Any}, key : Keys \cup {Any}]
NoIdentity == [channel |-> Any, key |-> Any]

Slot == [active : BOOLEAN, identity : Identity \cup {NoIdentity}, serial : 0 .. MaxSerial]
NoSlot == [active |-> FALSE, identity |-> NoIdentity, serial |-> 0]

Stage == [stage : {"inactive", "held", "releasing"}, identity : Identity \cup {NoIdentity},
          generation : 0 .. MaxNotes]
NoStage == [stage |-> "inactive", identity |-> NoIdentity, generation |-> 0]

\* left is releaseSamples while the voice is held and stageRemaining afterwards.
Voice == [active : BOOLEAN, generation : 0 .. MaxNotes, releasing : BOOLEAN,
          left : Nat,
          deferredReleaseCompletion : BOOLEAN]
Silence == [active |-> FALSE, generation |-> 0, releasing |-> FALSE, left |-> 0,
            deferredReleaseCompletion |-> FALSE]

\* notes is how many CLAP_EVENT_NOTE_ONs are still to come in the block.
NoBlock == [running |-> FALSE, frames |-> 0, cursor |-> 0, notes |-> 0]

NothingCounted == [active |-> 0, credits |-> 0]

TypeOK ==
  /\ slot \in [Indices -> Slot] /\ allocationSerial \in 0 .. MaxSerial
  /\ sustained \subseteq Indices /\ pedal \subseteq Channels
  /\ life \in [Indices -> Stage] /\ generationSerial \in 0 .. MaxNotes
  /\ voice \in [Indices -> Voice]
  /\ block \in [running : BOOLEAN, frames : 0 .. MaxFrames, cursor : 0 .. MaxFrames,
                notes : 0 .. MaxNotes]
  /\ renderOk \in BOOLEAN
  /\ counted \in [active : 0 .. Capacity, credits : 0 .. MaxNotes] /\ unstarted \in 0 .. MaxNotes
  /\ uncounted \in 0 .. MaxMidiNotes
  /\ owed \in [Identity -> Int] /\ lastEnd \in 0 .. MaxFrames

Init ==
  /\ slot = [i \in Indices |-> NoSlot] /\ allocationSerial = 0
  /\ sustained = {} /\ pedal = {}
  /\ life = [i \in Indices |-> NoStage] /\ generationSerial = 0
  /\ voice = [i \in Indices |-> Silence]
  /\ block = NoBlock /\ renderOk = TRUE
  /\ counted = NothingCounted /\ unstarted = 0 /\ uncounted = 0
  /\ owed = [n \in Identity |-> 0] /\ lastEnd = 0

-----------------------------------------------------------------------------
(* VoiceAllocator. *)

Active == {i \in Indices : slot[i].active}

\* The first free voice, or else the one that was allocated first.
Target ==
  IF Active # Indices
    THEN CHOOSE i \in Indices \ Active : \A j \in Indices \ Active : i <= j
    ELSE CHOOSE i \in Indices :
           \A j \in Indices : \/ slot[i].serial < slot[j].serial
                              \/ slot[i].serial = slot[j].serial /\ i <= j

Rank(i) == Cardinality({j \in Active : slot[j].serial <= slot[i].serial})

\* Mutant of Renormalized: the serials are left as they are.
KeepsSerials == slot

\* renormalizeAllocationSerials(): active voices are numbered from the oldest on.
Renormalized == [i \in Indices |-> IF slot[i].active THEN [slot[i] EXCEPT !.serial = Rank(i)]
                                   ELSE slot[i]]

SerialsSpent == allocationSerial = MaxSerial

NextSerial == (IF SerialsSpent THEN Cardinality(Active) ELSE allocationSerial) + 1

\* allocateDetailed(): who gets the voice and which serial it has.
Allocate(i, identity) ==
  /\ slot' = [(IF SerialsSpent THEN Renormalized ELSE slot) EXCEPT
                ![i] = [active |-> TRUE, identity |-> identity, serial |-> NextSerial]]
  /\ allocationSerial' = NextSerial

-----------------------------------------------------------------------------
(* Addresses, and NOTE_END. *)

Matches(address, identity) ==
  /\ address.channel \in {Any, identity.channel}
  /\ address.key \in {Any, identity.key}

\* The voices an event with this address is dispatched to.
Matching(address) == {i \in Active : Matches(address, slot[i].identity)}

\* Those of them the lifecycle knows under the same identity.
Known(voices) == {i \in voices : /\ life[i].stage # "inactive"
                                 /\ life[i].identity = slot[i].identity}

\* NOTE_ENDs at the given time for the notes of some voices.
EmitNoteEnds(voices, time) ==
  /\ owed' = [n \in Identity |->
                owed[n] - Cardinality({i \in voices : life[i].identity = n})]
  /\ lastEnd' = IF voices = {} THEN lastEnd ELSE time

-----------------------------------------------------------------------------
(* The proxy's count of voices, from what goes in and what comes out. *)

\* Mutant of CountNotes: the notes beyond the voices there are do not count.
CountNotesSaturating(count, notes) ==
  [count EXCEPT !.active = IF @ + notes < Capacity THEN @ + notes ELSE Capacity]

\* observeInput() of some CLAP_EVENT_NOTE_ONs, the only notes it knows: one that finds all
\* voices counted is owed the NOTE_END of the voice it will steal.
CountNotes(count, notes) ==
  LET free == Capacity - count.active
  IN IF notes <= free THEN [count EXCEPT !.active = @ + notes]
                      ELSE [active |-> Capacity, credits |-> count.credits + notes - free]

\* observeOutput() of some NOTE_ENDs.
CountEnds(count, ends) ==
  LET more == ends - count.credits
  IN IF more <= 0 THEN [count EXCEPT !.credits = @ - ends]
                  ELSE [active |-> IF count.active > more THEN count.active - more ELSE 0,
                        credits |-> 0]

-----------------------------------------------------------------------------
(* Releases that have run out. *)

\* VoiceLifecycle::completeRelease() and retireVoice() succeed.
Completes(i) ==
  /\ life[i].stage = "releasing"
  /\ voice[i].generation # 0 /\ life[i].generation = voice[i].generation
  /\ slot[i].active /\ slot[i].identity = life[i].identity

\* Mutant of CompleteReleases: the lifecycle forgets to clear its own slot.
CompleteReleasesKeepsStage(voices, time, count) ==
  LET completed == {i \in voices : Completes(i)}
  IN /\ slot' = [i \in Indices |-> IF i \in completed THEN NoSlot ELSE slot[i]]
     /\ life' = life
     /\ sustained' = sustained \ completed
     /\ EmitNoteEnds(completed, time)
     /\ counted' = CountEnds(count, Cardinality(completed))
     /\ renderOk' = (renderOk /\ completed = voices)

CompleteReleases(voices, time, count) ==
  LET completed == {i \in voices : Completes(i)}
  IN /\ slot' = [i \in Indices |-> IF i \in completed THEN NoSlot ELSE slot[i]]
     /\ life' = [i \in Indices |-> IF i \in completed THEN NoStage ELSE life[i]]
     /\ sustained' = sustained \ completed
     /\ EmitNoteEnds(completed, time)
     /\ counted' = CountEnds(count, Cardinality(completed))
     /\ renderOk' = (renderOk /\ completed = voices)

Deferred == {i \in Indices : voice[i].active /\ voice[i].deferredReleaseCompletion}

Started(frames, notes) == [running |-> TRUE, frames |-> frames, cursor |-> 0, notes |-> notes]

\* Mutant of BlockBegin: the releases that ended with the last block are not completed.
BlockBeginLate(frames, notes) ==
  /\ ~block.running
  /\ notes + unstarted <= MaxNotes - generationSerial
  /\ block' = Started(frames, notes)
  /\ counted' = CountNotes(counted, notes)
  /\ lastEnd' = 0
  /\ UNCHANGED <<slot, allocationSerial, sustained, pedal, lifecycle, voice, renderOk, unstarted,
                 uncounted, owed>>

\* The proxy counts all the CLAP_EVENT_NOTE_ONs of the block, processWithEvents() completes the
\* deferred releases at the first frame.
BlockBegin(frames, notes) ==
  /\ ~block.running
  /\ notes + unstarted <= MaxNotes - generationSerial
  /\ CompleteReleases(Deferred, 0, CountNotes(counted, notes))
  /\ voice' = [i \in Indices |-> IF i \in Deferred THEN Silence ELSE voice[i]]
  /\ block' = IF renderOk' THEN Started(frames, notes) ELSE NoBlock
  /\ UNCHANGED <<allocationSerial, pedal, generationSerial, unstarted, uncounted>>

Releasing == {i \in Indices : voice[i].active /\ voice[i].releasing} \ Deferred
Expiring == {i \in Releasing : voice[i].left = 1}

\* Mutant of EndsInBlock: the end of the block is not looked at.
EndsAnywhere == TRUE

\* Whether a release that this frame ends can be reported with a time of this block.
EndsInBlock == block.cursor + 1 < block.frames

\* advanceEnvelope() of one voice that is releasing.
Advanced(i) ==
  IF i \notin Expiring THEN [voice[i] EXCEPT !.left = @ - 1]
  ELSE IF EndsInBlock THEN Silence
  ELSE [voice[i] EXCEPT !.left = 0, !.deferredReleaseCompletion = TRUE]

\* renderRange(), one frame of it; all notes come before the last frame is rendered.
Render ==
  /\ block.running /\ block.cursor < block.frames
  /\ EndsInBlock \/ block.notes = 0
  /\ CompleteReleases(IF EndsInBlock THEN Expiring ELSE {}, block.cursor + 1, counted)
  /\ voice' = [i \in Indices |-> IF i \in Releasing THEN Advanced(i) ELSE voice[i]]
  /\ block' = [block EXCEPT !.cursor = @ + 1]
  /\ UNCHANGED <<allocationSerial, pedal, generationSerial, unstarted, uncounted>>

BlockEnd ==
  /\ block.running /\ block.cursor = block.frames
  /\ block' = NoBlock
  /\ lastEnd' = 0
  /\ uncounted' = IF Active = {} /\ unstarted = 0 THEN 0 ELSE uncounted
  /\ UNCHANGED <<allocator, scheduler, lifecycle, voice, renderOk, counted, unstarted, owed>>

-----------------------------------------------------------------------------
(* Events at the time of the frame that is rendered next. *)

AtEvent == block.running /\ block.cursor < block.frames

\* Whether a note n loses voice i to the NOTE_ON that gets it.
Stolen(i, n) == slot[i].active /\ slot[i].identity = n

\* dispatchNoteOn(), applyScheduled() and startVoice().
StartVoice(identity, release) ==
  /\ AtEvent
  /\ LET i == Target
         generation == generationSerial + 1
     IN /\ Allocate(i, identity)
        /\ sustained' = sustained \ {i}
        /\ generationSerial' = generation
        /\ life' = [life EXCEPT ![i] = [stage |-> "held", identity |-> identity,
                                        generation |-> generation]]
        /\ voice' = [voice EXCEPT ![i] = [Silence EXCEPT !.active = TRUE, !.left = release,
                                                         !.generation = generation]]
        /\ owed' = [n \in Identity |-> owed[n] + (IF n = identity THEN 1 ELSE 0)
                      - (IF Stolen(i, n) THEN 1 ELSE 0)]
        /\ lastEnd' = IF slot[i].active THEN block.cursor ELSE lastEnd
        /\ counted' = CountEnds(counted, IF slot[i].active THEN 1 ELSE 0)
  /\ UNCHANGED <<pedal, renderOk, unstarted>>

\* CLAP_EVENT_NOTE_ON.
NoteOn(identity, release) ==
  /\ block.notes > 0
  /\ StartVoice(identity, release)
  /\ block' = [block EXCEPT !.notes = @ - 1]
  /\ UNCHANGED uncounted

\* A MIDI note-on, which observeInput() has passed over.
MidiNoteOn(identity, release) ==
  /\ generationSerial + block.notes + unstarted < MaxNotes
  /\ uncounted < MaxMidiNotes
  /\ StartVoice(identity, release)
  /\ uncounted' = uncounted + 1
  /\ UNCHANGED block

\* applyScheduled() and applyVoiceEvent() of a NOTE_OFF for each of some voices.
Release(voices) ==
  /\ life' = [i \in Indices |-> IF i \in Known(voices)
                                THEN [life[i] EXCEPT !.stage = "releasing"] ELSE life[i]]
  /\ voice' = [i \in Indices |->
                 IF /\ i \in Known(voices) /\ voice[i].active
                    /\ voice[i].generation = life[i].generation
                 THEN [voice[i] EXCEPT !.releasing = TRUE] ELSE voice[i]]

Unreleased == UNCHANGED <<allocator, generationSerial, block, renderOk, counts, output>>

\* CLAP_EVENT_NOTE_OFF.
NoteOff(address) ==
  /\ AtEvent
  /\ Release(Matching(address))
  /\ sustained' = sustained \ Matching(address)
  /\ UNCHANGED pedal
  /\ Unreleased

\* A MIDI note-off or All Notes Off of one channel: deferMatching() while the pedal is down.
MidiNoteOff(address) ==
  /\ AtEvent
  /\ address.channel # Any
  /\ IF address.channel \in pedal
       THEN sustained' = sustained \cup Matching(address) /\ UNCHANGED <<life, voice>>
       ELSE sustained' = sustained \ Matching(address) /\ Release(Matching(address))
  /\ UNCHANGED pedal
  /\ Unreleased

\* CLAP_EVENT_NOTE_CHOKE, and the MIDI controller All Sound Off.
NoteChoke(address) ==
  /\ AtEvent
  /\ LET choked == Known(Matching(address))
     IN /\ slot' = [i \in Indices |-> IF i \in choked THEN NoSlot ELSE slot[i]]
        /\ life' = [i \in Indices |-> IF i \in choked THEN NoStage ELSE life[i]]
        /\ voice' = [i \in Indices |->
                       IF i \in choked /\ voice[i].generation = life[i].generation
                       THEN Silence ELSE voice[i]]
        /\ sustained' = sustained \ Matching(address)
        /\ EmitNoteEnds(choked, block.cursor)
        /\ counted' = CountEnds(counted, Cardinality(choked))
  /\ UNCHANGED <<allocationSerial, pedal, generationSerial, block, renderOk, unstarted, uncounted>>

OnChannel(c) == {i \in Active : slot[i].identity.channel = c}

\* Mutant of LiftPedal: the marks go, the voices go on.
LiftPedalForgets(c) ==
  /\ sustained' = IF c \in pedal THEN sustained \ OnChannel(c) ELSE sustained
  /\ UNCHANGED <<life, voice>>

\* releaseSustained(), when the pedal of a channel goes from down to up.
LiftPedal(c) ==
  IF c \in pedal
    THEN /\ sustained' = sustained \ (OnChannel(c) \cup (Indices \ Active))
         /\ Release(sustained \cap OnChannel(c))
    ELSE UNCHANGED <<sustained, life, voice>>

\* MIDI controller 64.
SustainPedal(c, down) ==
  /\ AtEvent
  /\ IF down THEN pedal' = pedal \cup {c} /\ UNCHANGED <<sustained, life, voice>>
     ELSE pedal' = pedal \ {c} /\ LiftPedal(c)
  /\ Unreleased

\* MIDI controller 121.
ResetAllControllers(c) ==
  /\ AtEvent
  /\ pedal' = pedal \ {c}
  /\ LiftPedal(c)
  /\ Unreleased

\* A malformed event, or one that a core-event sink refuses: process() returns at once.
BlockFails ==
  /\ AtEvent
  /\ block' = NoBlock
  /\ unstarted' = unstarted + block.notes
  /\ lastEnd' = 0
  /\ UNCHANGED <<allocator, scheduler, lifecycle, voice, renderOk, counted, uncounted, owed>>

\* reset() and resetTelemetry(), between blocks.  The host expects no NOTE_END of what it kills.
Reset ==
  /\ ~block.running
  /\ slot' = [i \in Indices |-> NoSlot] /\ allocationSerial' = 0
  /\ sustained' = {} /\ pedal' = {}
  /\ life' = [i \in Indices |-> NoStage]
  /\ voice' = [i \in Indices |-> Silence]
  /\ counted' = NothingCounted /\ unstarted' = 0 /\ uncounted' = 0
  /\ owed' = [n \in Identity |-> 0]
  /\ UNCHANGED <<generationSerial, block, renderOk, lastEnd>>

-----------------------------------------------------------------------------
Event ==
  \/ \E n \in Identity, r \in Releases : NoteOn(n, r) \/ MidiNoteOn(n, r)
  \/ \E a \in Address : NoteOff(a) \/ MidiNoteOff(a) \/ NoteChoke(a)
  \/ \E c \in Channels : \/ \E down \in BOOLEAN : SustainPedal(c, down)
                         \/ ResetAllControllers(c)

Next ==
  \/ \E frames \in 1 .. MaxFrames, notes \in 0 .. MaxNotes : BlockBegin(frames, notes)
  \/ Render \/ BlockEnd \/ BlockFails \/ Reset
  \/ Event

Spec == Init /\ [][Next]_vars

\* The host goes on processing, a block gets its notes, and not every block fails before its
\* first frame.
Fairness ==
  /\ WF_vars(\E frames \in 1 .. MaxFrames, notes \in 0 .. MaxNotes : BlockBegin(frames, notes))
  /\ WF_vars(\E n \in Identity, r \in Releases : NoteOn(n, r))
  /\ WF_vars(BlockEnd)
  /\ SF_vars(Render)

FairSpec == Spec /\ Fairness

-----------------------------------------------------------------------------
(***************************************************************************)
(* The three layers agree on every voice: which are in use, which          *)
(* generation they play and whether it is released.  No layer keeps a      *)
(* voice another one has given back, and no release that ends is unknown   *)
(* to the lifecycle, which would fail the block.                           *)
(***************************************************************************)
LayersAgree ==
  /\ renderOk
  /\ \A i \in Indices :
       /\ slot[i].active <=> life[i].stage # "inactive"
       /\ slot[i].active <=> voice[i].active
       /\ slot[i].identity = life[i].identity
       /\ voice[i].generation = life[i].generation
       /\ voice[i].releasing <=> life[i].stage = "releasing"

(***************************************************************************)
(* Every NOTE_ON gets exactly one NOTE_END, with its own identity and at a *)
(* time inside its block, whether the voice is released, choked or stolen, *)
(* also when several notes have the same identity: what the host is still  *)
(* owed are the active voices.                                             *)
(***************************************************************************)
EveryNoteEndsOnce ==
  /\ \A n \in Identity :
       owed[n] = Cardinality({i \in Indices : slot[i].active /\ slot[i].identity = n})
  /\ block.running => lastEnd < block.frames

(***************************************************************************)
(* Between blocks the proxy has counted no more voices than sound, though  *)
(* it counts the notes of a block before the NOTE_ENDs of the voices they  *)
(* steal, and no credit is left over to swallow a later NOTE_END.  Its     *)
(* count is short by at most the MIDI notes since the voices were last     *)
(* silent, which it does not count while it counts their NOTE_ENDs; with   *)
(* CLAP notes alone it is exact.  But a block that failed before it        *)
(* reached the notes it had been given leaves them counted until reset.    *)
(***************************************************************************)
VoicesAreCounted ==
  ~block.running /\ unstarted = 0 =>
    /\ counted.credits = 0
    /\ counted.active <= Cardinality(Active)
    /\ Cardinality(Active) <= counted.active + uncounted

(***************************************************************************)
(* A note-off that waits for the pedal is never forgotten: when the mark   *)
(* goes, the voice is being released or has another note or none.          *)
(***************************************************************************)
DeferredOffIsApplied ==
  [][\A i \in sustained \ sustained' :
       life'[i].generation = life[i].generation => life'[i].stage = "releasing"]_vars

(***************************************************************************)
(* Only a voice that is the oldest of all is stolen, and only while all    *)
(* of them sound: no release that has run out holds a voice back, and the  *)
(* order survives the renumbering of the serials.                          *)
(***************************************************************************)
StealsOldestSounding ==
  [][\A i \in Indices :
       voice[i].active /\ voice'[i].generation > voice[i].generation =>
         \A j \in Indices : /\ voice[j].active /\ voice[j].generation >= voice[i].generation
                            /\ j \notin Deferred]_vars

(***************************************************************************)
(* A release ends, across block boundaries and failed blocks.              *)
(***************************************************************************)
ReleaseEnds ==
  \A i \in Indices : life[i].stage = "releasing" ~> life[i].stage # "releasing"

=============================================================================

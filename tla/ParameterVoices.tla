--------------------------- MODULE ParameterVoices ---------------------------
(***************************************************************************)
(* ParameterVoiceEngine of PolySynth: automation, modulation, note         *)
(* expressions and MIDI controllers on top of the voices.  The adapter     *)
(* keeps the sources (bases, modulation, per-voice overrides, expressions, *)
(* the coarse tuning at NOTE_ON); the voice engine below it keeps what is  *)
(* computed from them, and filter coefficients computed from that.         *)
(*                                                                         *)
(* Which voices exist is the business of module Voices: here a voice gets  *)
(* a note or loses it at any time of a block.  A note is its key on one    *)
(* channel.  Values are small numbers; how the engine combines a parameter *)
(* with its expressions is left uninterpreted, so that two values differ   *)
(* as soon as one of their sources does.                                   *)
(***************************************************************************)
EXTENDS Integers, Sequences, FiniteSets, FiniteSetsExt

CONSTANTS
  Capacity,     \* capacity_, the number of voices
  PendingSlots, \* kMaximumVoices, the slots of each cache of pending expressions
  Keys,
  MaxValue,     \* values are 0 .. MaxValue
  Automated,    \* bound: the polyphonic parameters the host sends events for
  Sent,         \* bound: the note expressions the host sends
  MaxFrames,    \* bound: the frames of a block
  MaxEvents     \* bound: the events of a run

Params == {"fine", "cutoff", "resonance", "amount", "pan", "level"}
Expressions == {"tuning", "volume", "expression", "pressure", "pan", "brightness"}

ASSUME ParameterVoicesAssumption ==
  /\ Capacity \in Nat \ {0} /\ PendingSlots \in Nat /\ PendingSlots >= Capacity
  /\ MaxValue \in Nat \ {0} /\ MaxFrames \in Nat \ {0} /\ MaxEvents \in Nat
  /\ Automated \subseteq Params /\ Sent \subseteq Expressions
  /\ Keys \cap {"all", "channel", "none"} = {}

VARIABLES
  note,       \* VoiceEngine::voiceIdentity() of each voice
  engine,     \* VoiceEngine::voices_: the controls of each voice
  adapter,    \* trackedIdentities_, the voice's overrides and its expressions
  global,     \* globalBase_, globalModulation_ and the NOTE_ON defaults
  pending,    \* pendingTuningExpressions_ and the five caches like it
  midi,       \* the controllers of the MIDI channel
  block,      \* the block in process and the frame that is rendered next
  events,     \* the number of events so far
  sent,       \* history: the expressions of this time, in order
  spoiled,    \* history: the parameters whose expression failed halfway
  started     \* history: for each voice the event its note started with

vars == <<note, engine, adapter, global, pending, midi, block, events, sent, spoiled, started>>

Indices == 0 .. Capacity - 1
Values == 0 .. MaxValue
Address == Keys \cup {"all", "channel"}
None == "none"   \* no note
Unset == -1      \* no value, no time

\* addressMatches(), of an event's address and the note of a voice.
Matches(address, n) == n # None /\ address \in {"all", "channel", n}

Clamped(x) == IF x > MaxValue THEN MaxValue ELSE x

\* The parameter an expression is combined with; brightness is combined in the filter.
Drives(p) == CASE p = "fine" -> {"tuning"} [] p = "pan" -> {"pan"}
               [] p = "level" -> {"volume", "expression", "pressure"} [] OTHER -> {}

Neutral == [e \in Expressions |-> IF e \in {"volume", "expression"} THEN 1 ELSE 0]

Untracked == [tracked |-> None, base |-> [p \in Params |-> Unset],
              modulation |-> [p \in Params |-> Unset], coarse |-> 0, expression |-> Neutral]

\* startVoice(): no override, no expression, and the coarse tuning of this moment.
Started(n) == [Untracked EXCEPT !.tracked = n, !.coarse = global.coarse]

NoPending == [time |-> Unset, entries |-> [e \in Expressions |-> <<>>]]

\* The engine's controls of a voice before the adapter has set any: its own defaults.
NoControl == [param |-> 0, expressions |-> [e \in {} |-> 0], coarse |-> 0]
Silence == [set |-> [p \in Params |-> NoControl], brightness |-> 0,
            coefficients |-> <<0, 0>>, sweep |-> <<0, 0>>]

MidiDefaults == [bend |-> 0, range |-> 1, selected |-> FALSE, volume |-> 1, expression |-> 1,
                 pressure |-> 0, pan |-> 0, brightness |-> 0]

NoBlock == [running |-> FALSE, now |-> 0]

Init ==
  /\ note = [i \in Indices |-> None]
  /\ engine = [i \in Indices |-> Silence]
  /\ adapter = [i \in Indices |-> Untracked]
  /\ global = [base |-> [p \in Params |-> 0], modulation |-> [p \in Params |-> 0], coarse |-> 0]
  /\ pending = NoPending
  /\ midi = MidiDefaults
  /\ block = NoBlock /\ events = 0
  /\ sent = <<>> /\ spoiled = {} /\ started = [i \in Indices |-> 0]

\* Engine: what the engine keeps of a voice.  Source: what the adapter keeps of it.
Control == [param : Nat, coarse : Int,
            expressions : [{} -> Nat] \cup [Drives("fine") -> Nat] \cup [Drives("pan") -> Nat]
                            \cup [Drives("level") -> Nat]]

Engine == [set : [Params -> Control], brightness : Nat,
           coefficients : Nat \X Nat, sweep : Nat \X Nat]

Source == [tracked : Keys \cup {None}, base : [Params -> Values \cup {Unset}],
           modulation : [Params -> Values \cup {Unset}], coarse : Values,
           expression : [Expressions -> Nat]]

Global == [base : [Params -> Values], modulation : [Params -> Values], coarse : Values]

Pending == [time : {Unset} \cup 0 .. MaxFrames - 1,
            entries : [Expressions -> Seq([address : Address, time : 0 .. MaxFrames - 1, value : Nat])]]

TypeOK ==
  /\ note \in [Indices -> Keys \cup {None}]
  /\ engine \in [Indices -> Engine] /\ adapter \in [Indices -> Source]
  /\ global \in Global /\ pending \in Pending
  /\ midi \in [bend : Values, range : Nat, selected : BOOLEAN, volume : Values,
               expression : Values, pressure : Values, pan : Values, brightness : Values]
  /\ block \in [running : BOOLEAN, now : 0 .. MaxFrames - 1]
  /\ events \in 0 .. MaxEvents /\ started \in [Indices -> 0 .. MaxEvents]
  /\ sent \in Seq([source : {"host", "midi"}, kind : Expressions, address : Address, value : Nat])
  /\ spoiled \subseteq {"fine", "pan"}

-----------------------------------------------------------------------------
(* What the adapter works on during an event: a record of the state it     *)
(* changes, with ok telling whether the event has been refused.            *)

Working == [engine |-> engine, adapter |-> adapter, pending |-> pending, ok |-> TRUE,
            spoiled |-> spoiled]

\* syncVoices(): the voices that ended and those that have another note.
Sync(w, notes) ==
  [w EXCEPT !.adapter = [i \in Indices |->
     IF notes[i] = None THEN Untracked
     ELSE IF w.adapter[i].tracked # notes[i] THEN Started(notes[i]) ELSE w.adapter[i]]]

BaseValue(a, g, p) == IF a.base[p] # Unset THEN a.base[p] ELSE g.base[p]
Modulation(a, g, p) == IF a.modulation[p] # Unset THEN a.modulation[p] ELSE g.modulation[p]

\* setVoiceFineTuningCents() adds the engine's coarse tuning to what it is given.
Compensation(a, g) == a.coarse - g.coarse
Pitch(a, g) == g.coarse + Compensation(a, g)

\* What the engine is to use for a parameter of a voice.
Combined(a, g, p) ==
  [param |-> Clamped(BaseValue(a, g, p) + Modulation(a, g, p)),
   expressions |-> [e \in Drives(p) |-> a.expression[e]],
   coarse |-> IF p = "fine" THEN Pitch(a, g) ELSE 0]

\* Mutant of SetCutoff: the end of the envelope's sweep stays where it was.
SetCutoffKeepsSweep(v, x) ==
  [v EXCEPT !.set["cutoff"] = x,
            !.coefficients = <<x.param, v.set["resonance"].param>>]

\* setVoiceFilterCutoffHz(): the cutoff enters the coefficients and the envelope's sweep.
SetCutoff(v, x) ==
  [v EXCEPT !.set["cutoff"] = x,
            !.coefficients = <<x.param, v.set["resonance"].param>>,
            !.sweep = <<x.param, v.set["amount"].param>>]

\* setVoiceFilterResonance().
SetResonance(v, x) ==
  [v EXCEPT !.set["resonance"] = x, !.coefficients = <<v.set["cutoff"].param, x.param>>]

\* setVoiceFilterEnvelopeAmount().
SetAmount(v, x) ==
  [v EXCEPT !.set["amount"] = x, !.sweep = <<v.set["cutoff"].param, x.param>>]

EngineSet(v, p, x) ==
  CASE p = "cutoff" -> SetCutoff(v, x)
    [] p = "resonance" -> SetResonance(v, x)
    [] p = "amount" -> SetAmount(v, x)
    [] OTHER -> [v EXCEPT !.set[p] = x]

\* Applied to some of the voices that are tracked.
ApplyTo(w, g, p, voices) ==
  [w EXCEPT !.engine = [i \in Indices |->
     IF i \in voices /\ w.adapter[i].tracked # None
       THEN EngineSet(w.engine[i], p, Combined(w.adapter[i], g, p)) ELSE w.engine[i]]]

\* applyFineTuningState() and the five functions like it.
Apply(w, g, p, notes) == ApplyTo(Sync(w, notes), g, p, Indices)

-----------------------------------------------------------------------------
(* Note expressions. *)

\* Mutant of Prepared: the caches keep what was sent at earlier times.
PreparedKeeps(w) == [w EXCEPT !.pending.time = block.now]

\* prepareTransientExpressionTime().
Prepared(w) ==
  IF w.pending.time = block.now THEN w
  ELSE [w EXCEPT !.pending = [NoPending EXCEPT !.time = block.now]]

Slot(q, address) == {k \in DOMAIN q : q[k].address = address /\ q[k].time = block.now}

\* storePendingTuning() and the five functions like it; w is refused if the cache is full.
Store(w, e, address, value) ==
  LET q == w.pending.entries[e]
      entry == [address |-> address, time |-> block.now, value |-> value]
  IN IF Slot(q, address) # {}
       THEN [w EXCEPT !.pending.entries[e] =
                        [k \in DOMAIN q |-> IF k \in Slot(q, address) THEN entry ELSE q[k]]]
     ELSE IF Len(q) < PendingSlots
       THEN [w EXCEPT !.pending.entries[e] = Append(q, entry)]
     ELSE [w EXCEPT !.ok = FALSE]

\* The slots of a cache that are for a note, at this time.
Found(q, n) == {k \in DOMAIN q : Matches(q[k].address, n) /\ q[k].time = block.now}

\* Mutant of PendingFor: the first entry wins.
PendingFirst(pd, e, n) ==
  LET q == pd.entries[e]
  IN IF Found(q, n) = {} THEN Neutral[e] ELSE q[Min(Found(q, n))].value

\* pendingTuningFor() and the five functions like it: the last slot that matches.
PendingFor(pd, e, n) ==
  LET q == pd.entries[e]
  IN IF Found(q, n) = {} THEN Neutral[e] ELSE q[Max(Found(q, n))].value

Addressed(w, address) == {i \in Indices : Matches(address, w.adapter[i].tracked)}

\* The voices take the expression over.
Taken(w, e, address, value) ==
  [w EXCEPT !.adapter = [i \in Indices |->
     IF i \in Addressed(w, address) THEN [w.adapter[i] EXCEPT !.expression[e] = value]
     ELSE w.adapter[i]]]

\* applyTuningExpression() and applyPanExpression(): stored before it is applied.
ExpressThenStore(w, p, e, address, value) ==
  LET stored == Store(Taken(w, e, address, value), e, address, value)
  IN IF ~stored.ok THEN [stored EXCEPT !.spoiled = @ \cup {p}]
     ELSE IF Addressed(w, address) # {} THEN Apply(stored, global, p, note) ELSE stored

\* applyVolumeExpression(), applyPerformanceExpression() and applyPressureExpression().
ExpressLevel(w, e, address, value) ==
  Store(ApplyTo(Taken(w, e, address, value), global, "level", Addressed(w, address)),
        e, address, value)

\* applyBrightnessExpression().
ExpressBrightness(w, address, value) ==
  Store([Taken(w, "brightness", address, value) EXCEPT !.engine = [i \in Indices |->
           IF i \in Addressed(w, address) THEN [w.engine[i] EXCEPT !.brightness = value]
           ELSE w.engine[i]]],
        "brightness", address, value)

\* applyCoreEvent() of a NOTE_EXPRESSION x.  An event that is refused ends the block.
Express(w, x) ==
  LET s == Sync(Prepared(w), note)
  IN IF ~w.ok THEN w
     ELSE CASE x.kind = "tuning" -> ExpressThenStore(s, "fine", x.kind, x.address, x.value)
            [] x.kind = "pan" -> ExpressThenStore(s, "pan", x.kind, x.address, x.value)
            [] x.kind = "brightness" -> ExpressBrightness(s, x.address, x.value)
            [] OTHER -> ExpressLevel(s, x.kind, x.address, x.value)

\* Several, one after the other.
ExpressAll(w, list) ==
  LET after[k \in 0 .. Len(list)] == IF k = 0 THEN w ELSE Express(after[k - 1], list[k])
  IN after[Len(list)]

Expression(source, e, address, value) ==
  [source |-> source, kind |-> e, address |-> address, value |-> value]

-----------------------------------------------------------------------------
(* The end of an event: taken over if it was accepted, else the block      *)
(* fails, and process() synchronizes the voices and clears the caches.     *)

Commit(w) ==
  /\ engine' = w.engine
  /\ IF w.ok THEN adapter' = w.adapter /\ pending' = w.pending /\ UNCHANGED block
     ELSE /\ adapter' = Sync(w, note).adapter
          /\ pending' = NoPending
          /\ block' = NoBlock
  /\ events' = events + 1
  /\ spoiled' = w.spoiled

\* History: what was sent at this time.
Recorded(w, list) == sent' = IF w.ok THEN sent \o list ELSE <<>>

AtEvent == block.running /\ events < MaxEvents

\* CLAP_EVENT_NOTE_EXPRESSION.
NoteExpression(e, address, value) ==
  /\ AtEvent
  /\ LET list == <<Expression("host", e, address, value)>>
         w == Express(Working, list[1])
     IN Commit(w) /\ Recorded(w, list)
  /\ UNCHANGED <<note, global, midi, started>>

-----------------------------------------------------------------------------
(* NOTE_ON: startVoice() of the engine, then noteOnDispatched(). *)

EngineStarted == [Silence EXCEPT !.set["fine"].coarse = global.coarse]

\* The expressions a new note starts with.
Heard(pd, n) == [e \in Expressions |-> PendingFor(pd, e, n)]

\* The controls of a voice are set, the level of the new one only.
SetAll(v, a, new) ==
  LET x(p) == Combined(a, global, p)
  IN SetAmount(SetResonance(SetCutoff(
       [v EXCEPT !.set["fine"] = x("fine"), !.set["pan"] = x("pan"),
                 !.set["level"] = IF new THEN x("level") ELSE @],
       x("cutoff")), x("resonance")), x("amount"))

Dispatched(w, i, n) ==
  LET s == Sync(Prepared(w), [note EXCEPT ![i] = n])
      heard == Heard(s.pending, n)
      adapters == [s.adapter EXCEPT ![i] = [Started(n) EXCEPT !.expression = heard]]
      engines == [s.engine EXCEPT ![i] = [EngineStarted EXCEPT !.brightness = heard["brightness"]]]
  IN [s EXCEPT !.spoiled = {}, !.adapter = adapters,
               !.engine = [j \in Indices |-> IF adapters[j].tracked = None THEN engines[j]
                                             ELSE SetAll(engines[j], adapters[j], i = j)]]

\* VoiceAllocator: the first voice that is free, and any of them when there is none.
Gets(i) ==
  LET free == {j \in Indices : note[j] = None}
  IN free # {} => i \in free /\ \A j \in free : i <= j

StartNote(i, n, list) ==
  LET emitted == ExpressAll(Working, list)
      w == IF emitted.ok THEN Dispatched(emitted, i, n) ELSE emitted
  IN /\ note' = IF w.ok THEN [note EXCEPT ![i] = n] ELSE note
     /\ Commit(w)
     /\ Recorded(w, list)
     /\ started' = IF w.ok THEN [started EXCEPT ![i] = events + 1] ELSE started
  /\ UNCHANGED <<global, midi>>

NoteOn(i, n) == AtEvent /\ Gets(i) /\ StartNote(i, n, <<>>)

\* The voices of a set end: choked by an event, or released for long enough.
VoicesEnd(voices) ==
  /\ block.running
  /\ voices # {} /\ \A i \in voices : note[i] # None
  /\ note' = [i \in Indices |-> IF i \in voices THEN None ELSE note[i]]
  /\ engine' = [i \in Indices |-> IF i \in voices THEN Silence ELSE engine[i]]
  /\ UNCHANGED <<adapter, global, pending, midi, block, events, sent, spoiled, started>>

-----------------------------------------------------------------------------
(* PARAM_VALUE and PARAM_MOD, in a block or from params.flush(). *)

MayAutomate == events < MaxEvents

\* Targeted events are overrides of the voices they match; the others keep the global one.
Overridden(w, field, p, address, value) ==
  [w EXCEPT !.adapter = [i \in Indices |->
     IF i \in Addressed(w, address) THEN
       IF field = "base" THEN [w.adapter[i] EXCEPT !.base[p] = value]
       ELSE [w.adapter[i] EXCEPT !.modulation[p] = value]
     ELSE w.adapter[i]]]

Automate(field, p, address, value) ==
  LET s == Sync(Working, note)
      g == IF address # "all" THEN global
           ELSE IF field = "base" THEN [global EXCEPT !.base[p] = value]
           ELSE [global EXCEPT !.modulation[p] = value]
      o == IF address = "all" THEN s ELSE Overridden(s, field, p, address, value)
  IN /\ MayAutomate
     /\ global' = g
     /\ Commit(Apply(o, g, p, note))
     /\ UNCHANGED <<note, midi, sent, started>>

ParamValue(p, address, value) == Automate("base", p, address, value)
ParamMod(p, address, amount) == Automate("modulation", p, address, amount)

\* Coarse tuning, waveform and amplitude envelope are defaults for the notes to come.
CoarseTuning(value) ==
  /\ MayAutomate
  /\ global' = [global EXCEPT !.coarse = value]
  /\ events' = events + 1
  /\ UNCHANGED <<note, engine, adapter, pending, midi, block, sent, spoiled, started>>

-----------------------------------------------------------------------------
(* MIDI: controllers of the channel are note expressions of all its notes. *)

\* pitchBendSemitones() and the product of volume and expression.
MidiExpression(m) ==
  [tuning |-> m.bend * m.range, pressure |-> m.pressure, expression |-> m.volume * m.expression,
   pan |-> m.pan, brightness |-> m.brightness]

Replayed == <<"tuning", "pressure", "expression", "pan", "brightness">>

\* Mutant of ChannelState: the pressure of the channel is not sent again.
ChannelStateWithoutPressure(n) ==
  LET kinds == <<"tuning", "expression", "pan", "brightness">>
  IN [k \in DOMAIN kinds |-> Expression("midi", kinds[k], n, MidiExpression(midi)[kinds[k]])]

\* emitMidiChannelStateForNoteOn().
ChannelState(n) ==
  [k \in DOMAIN Replayed |-> Expression("midi", Replayed[k], n, MidiExpression(midi)[Replayed[k]])]

MidiNoteOn(i, n) == AtEvent /\ Gets(i) /\ StartNote(i, n, ChannelState(n))

\* A controller changes and what it stands for is sent to the channel.
Controlled(m, list) ==
  /\ AtEvent
  /\ midi' = m
  /\ LET w == ExpressAll(Working, list) IN Commit(w) /\ Recorded(w, list)
  /\ UNCHANGED <<note, global, started>>

ToChannel(m, e) == <<Expression("midi", e, "channel", MidiExpression(m)[e])>>

PitchBend(value) ==
  LET m == [midi EXCEPT !.bend = value] IN Controlled(m, ToChannel(m, "tuning"))

ChannelPressure(value) ==
  LET m == [midi EXCEPT !.pressure = value] IN Controlled(m, ToChannel(m, "pressure"))

PolyPressure(n, value) == Controlled(midi, <<Expression("midi", "pressure", n, value)>>)

\* Controllers 7, 10, 11 and 74.
Controller(c, value) ==
  LET m == [midi EXCEPT ![c] = value]
  IN Controlled(m, ToChannel(m, IF c = "volume" THEN "expression" ELSE c))

\* Controllers 100 and 101 select the bend range, 98 and 99 anything else.
SelectRange(chosen) == Controlled([midi EXCEPT !.selected = chosen], <<>>)

\* Controllers 6 and 38.
DataEntry(value) ==
  LET m == IF midi.selected THEN [midi EXCEPT !.range = value] ELSE midi
  IN Controlled(m, IF midi.selected THEN ToChannel(m, "tuning") ELSE <<>>)

\* Controller 121, which keeps the volume, the pan, the brightness and the bend range.
ResetControllers ==
  LET m == [midi EXCEPT !.bend = 0, !.selected = FALSE, !.pressure = 0, !.expression = 1]
  IN Controlled(m, <<Expression("midi", "tuning", "channel", 0), Expression("midi", "pressure", "channel", 0),
                     Expression("midi", "expression", "channel", m.volume)>>)

-----------------------------------------------------------------------------
(* Blocks. *)

BlockBegin ==
  /\ ~block.running
  /\ block' = [running |-> TRUE, now |-> 0]
  /\ pending' = NoPending /\ sent' = <<>>
  /\ UNCHANGED <<note, engine, adapter, global, midi, events, spoiled, started>>

\* A frame is rendered: what is sent from now on has a later time.
Advance ==
  /\ block.running /\ block.now + 1 < MaxFrames
  /\ block' = [block EXCEPT !.now = @ + 1]
  /\ sent' = <<>>
  /\ UNCHANGED <<note, engine, adapter, global, pending, midi, events, spoiled, started>>

\* process() returns, at the end of the block or at an event it refuses.
BlockEnd ==
  /\ block.running
  /\ block' = NoBlock
  /\ adapter' = Sync(Working, note).adapter
  /\ pending' = NoPending /\ sent' = <<>>
  /\ UNCHANGED <<note, engine, global, midi, events, spoiled, started>>

\* reset(): the bases stay, modulation and voices go.
Reset ==
  /\ ~block.running
  /\ note' = [i \in Indices |-> None]
  /\ engine' = [i \in Indices |-> Silence]
  /\ adapter' = [i \in Indices |-> Untracked]
  /\ global' = [global EXCEPT !.modulation = [p \in Params |-> 0]]
  /\ pending' = NoPending /\ midi' = MidiDefaults
  /\ sent' = <<>> /\ spoiled' = {}
  /\ UNCHANGED <<block, events, started>>

Automation ==
  \/ \E p \in Automated, a \in Address, v \in Values : ParamValue(p, a, v) \/ ParamMod(p, a, v)
  \/ \E v \in Values : CoarseTuning(v)

Midi ==
  \/ \E i \in Indices, n \in Keys : MidiNoteOn(i, n)
  \/ \E v \in Values : \/ PitchBend(v) \/ ChannelPressure(v) \/ DataEntry(v + 1)
                       \/ \E n \in Keys : PolyPressure(n, v)
                       \/ \E c \in {"volume", "expression", "pan", "brightness"} : Controller(c, v)
  \/ \E chosen \in BOOLEAN : SelectRange(chosen)
  \/ ResetControllers

Next ==
  \/ BlockBegin \/ Advance \/ BlockEnd \/ Reset
  \/ \E i \in Indices, n \in Keys : NoteOn(i, n)
  \/ \E voices \in SUBSET Indices : VoicesEnd(voices)
  \/ \E e \in Sent, a \in Address, v \in Values : NoteExpression(e, a, v)
  \/ Automation \/ Midi

Spec == Init /\ [][Next]_vars

-----------------------------------------------------------------------------
(***************************************************************************)
(* What the engine uses for a sounding voice is what its sources say:      *)
(* the override or else the global value, the modulation, the expressions  *)
(* and the coarse tuning its note started with.  Nothing of the note       *)
(* before it in the same voice is left, and a filter coefficient never     *)
(* belongs to an earlier cutoff, resonance or amount.  An expression that  *)
(* is refused because its cache is full has changed the source and not the *)
(* voice: until the next note this is wrong for tuning and pan.            *)
(***************************************************************************)
VoicesFollowSources ==
  \A i \in Indices : note[i] # None =>
    /\ adapter[i].tracked = note[i]
    /\ \A p \in Params \ spoiled : engine[i].set[p] = Combined(adapter[i], global, p)
    /\ engine[i].brightness = adapter[i].expression["brightness"]
    /\ "fine" \in spoiled \/ engine[i].set["fine"].coarse = adapter[i].coarse
    /\ LET x(p) == Combined(adapter[i], global, p).param
       IN /\ engine[i].coefficients = <<x("cutoff"), x("resonance")>>
          /\ engine[i].sweep = <<x("cutoff"), x("amount")>>

\* The expressions of one kind in a list that are for a note, and whether an
\* address is among them twice.
SentTo(list, e, n) == {k \in DOMAIN list : list[k].kind = e /\ Matches(list[k].address, n)}
Repeats(list, of) == \E j, k \in of : j < k /\ list[j].address = list[k].address

(***************************************************************************)
(* A note starts with the last expression that was sent for it at its own  *)
(* time, and with nothing that was sent earlier, in another block or for   *)
(* another note.  (When one address is sent twice the code keeps the place *)
(* of the first, so that the last slot need not be the last event.)        *)
(***************************************************************************)
NotesHearTheirTime ==
  [][\A i \in Indices : started'[i] # started[i] =>
       \A e \in Expressions :
         LET of == SentTo(sent', e, note'[i])
         IN ~Repeats(sent', of) =>
              adapter'[i].expression[e] =
                IF of = {} THEN Neutral[e] ELSE sent'[Max(of)].value]_vars

(***************************************************************************)
(* A note started by MIDI sounds as the controllers of its channel say,    *)
(* whatever MIDI sent to the channel or the key at the same time.          *)
(* Expressions of the host at that time are excepted.                      *)
(***************************************************************************)
MidiNotesFollowChannel ==
  [][\A i \in Indices :
       /\ started'[i] # started[i] /\ Len(sent') > Len(sent)
       /\ \A k \in DOMAIN sent : sent[k].source = "midi"
       => \A k \in DOMAIN Replayed :
               adapter'[i].expression[Replayed[k]] = MidiExpression(midi)[Replayed[k]]]_vars

(***************************************************************************)
(* A block is refused for want of room only if more addresses were sent at *)
(* one time than there are slots: older expressions take up no room.       *)
(***************************************************************************)
RefusedOnlyWhenFull ==
  [][events' > events /\ block.running /\ ~block'.running =>
       \E e \in Expressions :
         Cardinality({sent[k].address : k \in {j \in DOMAIN sent : sent[j].kind = e}})
           >= PendingSlots]_vars

=============================================================================

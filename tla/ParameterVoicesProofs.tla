----------------------- MODULE ParameterVoicesProofs -----------------------
(***************************************************************************)
(* Proofs about ParameterVoices, for any number of voices, keys, values,   *)
(* frames and events.                                                      *)
(***************************************************************************)
EXTENDS ParameterVoices, FiniteSetTheorems, SequenceTheorems, WellFoundedInduction, TLAPS

-----------------------------------------------------------------------------
(* The inductive invariant. *)

\* What the engine has of a voice is what its sources say.
Sounds(v, a, g, exempt) ==
  /\ \A p \in Params \ exempt : v.set[p] = Combined(a, g, p)
  /\ v.brightness = a.expression["brightness"]
  /\ v.coefficients = <<v.set["cutoff"].param, v.set["resonance"].param>>
  /\ v.sweep = <<v.set["cutoff"].param, v.set["amount"].param>>

Work == [engine : [Indices -> Engine], adapter : [Indices -> Source], pending : Pending,
         ok : BOOLEAN, spoiled : SUBSET {"fine", "pan"}]

\* It holds of what the adapter works on, at any point of an event.
Follows(w, notes, g) ==
  /\ w \in Work
  /\ \A i \in Indices : notes[i] # None =>
       w.adapter[i].tracked = notes[i] /\ Sounds(w.engine[i], w.adapter[i], g, w.spoiled)

\* The cache of an expression has one slot for each address it was sent to, with
\* the value sent last, and the slots are in the order of the first messages.
SentAt(list, e, a) == {m \in DOMAIN list : list[m].kind = e /\ list[m].address = a}

Recalls(q, list, e, now) ==
  /\ \A j, k \in DOMAIN q : q[j].address = q[k].address => j = k
  /\ \A k \in DOMAIN q :
       /\ q[k].time = now
       /\ \E m \in SentAt(list, e, q[k].address) :
            list[m].value = q[k].value /\ \A l \in SentAt(list, e, q[k].address) : l <= m
  /\ \A m \in DOMAIN list : list[m].kind = e =>
       \E k \in DOMAIN q : q[k].address = list[m].address
  /\ \A j, k \in DOMAIN q : j < k =>
       \A m \in SentAt(list, e, q[k].address) : \E l \in SentAt(list, e, q[j].address) : l < m

\* The caches are those of what was sent at this time, or nothing was.
Remembers(pd, list, now) ==
  IF pd.time = now THEN \A e \in Expressions : Recalls(pd.entries[e], list, e, now)
                   ELSE list = <<>>

AllMidi(list) == \A k \in DOMAIN list : list[k].source = "midi"

\* What MIDI sent last to the channel is what its controllers say.
ChannelIsTold(list, m) ==
  AllMidi(list) =>
    \A k \in DOMAIN list :
      /\ list[k].address # "all" /\ list[k].kind # "volume"
      /\ \/ list[k].address # "channel" \/ list[k].value = MidiExpression(m)[list[k].kind]
         \/ \E l \in DOMAIN list :
              k < l /\ list[l].address = "channel" /\ list[l].kind = list[k].kind

IInv ==
  /\ TypeOK
  /\ Follows(Working, note, global)
  /\ Remembers(pending, sent, block.now) /\ pending.time <= block.now
  /\ ChannelIsTold(sent, midi)

-----------------------------------------------------------------------------
(* Constants and helpers. *)

LEMMA Constants ==
  /\ MaxValue \in Nat \ {0} /\ MaxFrames \in Nat \ {0} /\ MaxEvents \in Nat
  /\ PendingSlots \in Nat \ {0}
  /\ 0 \in Values /\ 1 \in Values /\ Values \subseteq Nat /\ Unset \notin Values
  /\ None \notin Keys /\ "channel" \notin Keys /\ "all" \notin Keys
BY ParameterVoicesAssumption DEF Values, None, Unset

LEMMA Driven ==
  ASSUME NEW p \in Params
  PROVE  /\ Drives(p) \subseteq Expressions
         /\ Drives(p) \in {{}, Drives("fine"), Drives("pan"), Drives("level")}
BY DEF Params, Expressions, Drives

LEMMA CombinedType ==
  ASSUME NEW a \in Source, NEW g \in Global, NEW p \in Params
  PROVE  Combined(a, g, p) \in Control /\ Combined(a, g, p).coarse = IF p = "fine" THEN a.coarse ELSE 0
<1>1. BaseValue(a, g, p) \in Nat /\ Modulation(a, g, p) \in Nat
  BY Constants DEF BaseValue, Modulation, Source, Global
<1>2. Clamped(BaseValue(a, g, p) + Modulation(a, g, p)) \in Nat
  BY <1>1, Constants DEF Clamped
<1>3. Pitch(a, g) = a.coarse /\ Pitch(a, g) \in Int
  <2>1. a.coarse \in Nat /\ g.coarse \in Nat
    BY Constants DEF Source, Global
  <2> QED BY <2>1 DEF Pitch, Compensation
<1>4. [e \in Drives(p) |-> a.expression[e]] \in [Drives(p) -> Nat]
  BY Driven DEF Source
<1>5. [e \in Drives(p) |-> a.expression[e]]
        \in [{} -> Nat] \cup [Drives("fine") -> Nat] \cup [Drives("pan") -> Nat] \cup [Drives("level") -> Nat]
  BY <1>4, Driven
<1> QED BY <1>2, <1>3, <1>5 DEF Combined, Control

\* What is combined for a parameter depends on its own sources alone.
LEMMA CombinedSame ==
  ASSUME NEW a \in Source, NEW b \in Source, NEW g \in Global, NEW h \in Global, NEW p \in Params,
         a.base[p] = b.base[p], a.modulation[p] = b.modulation[p], a.coarse = b.coarse,
         g.base[p] = h.base[p], g.modulation[p] = h.modulation[p],
         \A e \in Drives(p) : a.expression[e] = b.expression[e]
  PROVE  Combined(a, g, p) = Combined(b, h, p)
<1>1. BaseValue(a, g, p) = BaseValue(b, h, p) /\ Modulation(a, g, p) = Modulation(b, h, p)
  BY DEF BaseValue, Modulation
<1>2. Pitch(a, g) = Pitch(b, h)
  <2>1. a.coarse \in Nat /\ g.coarse \in Nat /\ h.coarse \in Nat
    BY Constants DEF Source, Global
  <2> QED BY <2>1 DEF Pitch, Compensation
<1>3. [e \in Drives(p) |-> a.expression[e]] = [e \in Drives(p) |-> b.expression[e]]
  OBVIOUS
<1> QED BY <1>1, <1>2, <1>3 DEF Combined

\* The coefficients are those of the parameters.
Filtered(v) ==
  /\ v.coefficients = <<v.set["cutoff"].param, v.set["resonance"].param>>
  /\ v.sweep = <<v.set["cutoff"].param, v.set["amount"].param>>

LEMMA EngineSets ==
  ASSUME NEW v \in Engine, NEW p \in Params, NEW x \in Control, NEW u, u = EngineSet(v, p, x)
  PROVE  /\ u \in Engine /\ u.set = [v.set EXCEPT ![p] = x] /\ u.brightness = v.brightness
         /\ Filtered(v) => Filtered(u)
<1>1. v.set \in [Params -> Control] /\ {"cutoff", "resonance", "amount"} \subseteq Params
  BY DEF Engine, Params
<1>2. x.param \in Nat /\ \A q \in Params : v.set[q].param \in Nat
  BY <1>1 DEF Control
<1> DEFINE Is(coefficients, sweep) ==
             u = [set |-> [v.set EXCEPT ![p] = x], brightness |-> v.brightness,
                  coefficients |-> coefficients, sweep |-> sweep]
<1>3. v = [set |-> v.set, brightness |-> v.brightness, coefficients |-> v.coefficients,
           sweep |-> v.sweep]
      /\ v.brightness \in Nat /\ v.coefficients \in Nat \X Nat /\ v.sweep \in Nat \X Nat
  BY DEF Engine
<1>4. CASE p = "cutoff"
  <2>1. Is(<<x.param, v.set["resonance"].param>>, <<x.param, v.set["amount"].param>>)
    BY <1>3, <1>4 DEF EngineSet, SetCutoff
  <2> QED BY <1>1, <1>2, <1>3, <1>4, <2>1 DEF Engine, Filtered
<1>5. CASE p = "resonance"
  <2>1. Is(<<v.set["cutoff"].param, x.param>>, v.sweep)
    BY <1>3, <1>5 DEF EngineSet, SetResonance
  <2> QED BY <1>1, <1>2, <1>3, <1>5, <2>1 DEF Engine, Filtered
<1>6. CASE p = "amount"
  <2>1. Is(v.coefficients, <<v.set["cutoff"].param, x.param>>)
    BY <1>3, <1>6 DEF EngineSet, SetAmount
  <2> QED BY <1>1, <1>2, <1>3, <1>6, <2>1 DEF Engine, Filtered
<1>7. CASE p \notin {"cutoff", "resonance", "amount"}
  <2>1. Is(v.coefficients, v.sweep)
    BY <1>3, <1>7 DEF EngineSet
  <2> QED BY <1>1, <1>2, <1>3, <1>7, <2>1 DEF Engine, Filtered
<1> QED BY <1>4, <1>5, <1>6, <1>7

\* Of some voices one parameter is set, to what its sources say.
LEMMA ApplySets ==
  ASSUME NEW w \in Work, NEW g \in Global, NEW p \in Params, NEW voices \in SUBSET Indices,
         NEW r, r = ApplyTo(w, g, p, voices)
  PROVE  /\ r \in Work /\ r = [w EXCEPT !.engine = r.engine]
         /\ \A i \in Indices :
              /\ r.engine[i].brightness = w.engine[i].brightness
              /\ Filtered(w.engine[i]) => Filtered(r.engine[i])
              /\ \A q \in Params : r.engine[i].set[q] =
                   IF i \in voices /\ w.adapter[i].tracked # None /\ q = p
                     THEN Combined(w.adapter[i], g, p) ELSE w.engine[i].set[q]
<1> DEFINE e == [i \in Indices |->
                   IF i \in voices /\ w.adapter[i].tracked # None
                     THEN EngineSet(w.engine[i], p, Combined(w.adapter[i], g, p)) ELSE w.engine[i]]
<1>1. w.engine \in [Indices -> Engine] /\ w.adapter \in [Indices -> Source]
  BY DEF Work
<1>2. ASSUME NEW i \in Indices
      PROVE  /\ e[i] \in Engine
             /\ e[i].brightness = w.engine[i].brightness
             /\ Filtered(w.engine[i]) => Filtered(e[i])
             /\ \A q \in Params : e[i].set[q] =
                  IF i \in voices /\ w.adapter[i].tracked # None /\ q = p
                    THEN Combined(w.adapter[i], g, p) ELSE w.engine[i].set[q]
  <2>1. w.engine[i] \in Engine /\ Combined(w.adapter[i], g, p) \in Control
    BY <1>1, CombinedType
  <2>2. w.engine[i].set \in [Params -> Control]
    BY <2>1 DEF Engine
  <2>3. CASE i \in voices /\ w.adapter[i].tracked # None
    <3>1. e[i] = EngineSet(w.engine[i], p, Combined(w.adapter[i], g, p))
      BY <2>3
    <3> HIDE DEF e
    <3>2. /\ e[i] \in Engine /\ e[i].brightness = w.engine[i].brightness
          /\ e[i].set = [w.engine[i].set EXCEPT ![p] = Combined(w.adapter[i], g, p)]
          /\ Filtered(w.engine[i]) => Filtered(e[i])
      BY <2>1, <3>1, EngineSets
    <3> QED BY <2>2, <2>3, <3>2
  <2>4. CASE ~(i \in voices /\ w.adapter[i].tracked # None)
    <3>1. e[i] = w.engine[i]
      BY <2>4
    <3> QED BY <2>1, <2>4, <3>1
  <2> QED BY <2>3, <2>4
<1>3. r = [w EXCEPT !.engine = e]
  BY DEF ApplyTo
<1>4. e \in [Indices -> Engine]
  BY <1>2
<1> HIDE DEF e
<1> QED BY <1>2, <1>3, <1>4 DEF Work

-----------------------------------------------------------------------------
(* Of VoicesFollowSources: what an event does to the voices. *)

\* All but the caches and the result.
Core(w) == <<w.engine, w.adapter, w.spoiled>>

LEMMA SoundsHasFilter ==
  ASSUME NEW v, NEW a, NEW g, NEW exempt
  PROVE  Sounds(v, a, g, exempt) <=>
           /\ \A p \in Params \ exempt : v.set[p] = Combined(a, g, p)
           /\ v.brightness = a.expression["brightness"]
           /\ Filtered(v)
BY DEF Sounds, Filtered

LEMMA FollowsFrame ==
  ASSUME NEW w, NEW u \in Work, NEW notes, NEW g, Follows(w, notes, g), Core(u) = Core(w)
  PROVE  Follows(u, notes, g)
BY DEF Follows, Core

\* After syncVoices() each voice is tracked as its note, or not at all.
LEMMA SyncTracks ==
  ASSUME NEW w \in Work, NEW notes \in [Indices -> Keys \cup {None}], global \in Global,
         NEW r, r = Sync(w, notes)
  PROVE  /\ r \in Work /\ r = [w EXCEPT !.adapter = r.adapter]
         /\ \A i \in Indices : r.adapter[i].tracked = notes[i]
         /\ \A i \in Indices : notes[i] # None /\ w.adapter[i].tracked = notes[i]
                               => r.adapter[i] = w.adapter[i]
<1> DEFINE a == [i \in Indices |->
                   IF notes[i] = None THEN Untracked
                   ELSE IF w.adapter[i].tracked # notes[i] THEN Started(notes[i]) ELSE w.adapter[i]]
<1>1. w.adapter \in [Indices -> Source]
  BY DEF Work
<1>2. Untracked \in Source /\ Untracked.tracked = None
  <2>1. Neutral \in [Expressions -> Nat] /\ [p \in Params |-> Unset] \in [Params -> Values \cup {Unset}]
    BY DEF Neutral
  <2> QED BY <2>1, Constants DEF Untracked, Source
<1>3. ASSUME NEW n \in Keys PROVE Started(n) \in Source /\ Started(n).tracked = n
  <2>1. global.coarse \in Values
    BY DEF Global
  <2>2. Started(n) = [Untracked EXCEPT !.tracked = n, !.coarse = global.coarse]
    BY DEF Started
  <2> QED BY <1>2, <2>1, <2>2 DEF Source
<1>4. ASSUME NEW i \in Indices
      PROVE  /\ a[i] \in Source /\ a[i].tracked = notes[i]
             /\ notes[i] # None /\ w.adapter[i].tracked = notes[i] => a[i] = w.adapter[i]
  <2>1. CASE notes[i] = None
    BY <1>2, <2>1
  <2>2. CASE notes[i] # None
    <3>1. notes[i] \in Keys /\ w.adapter[i] \in Source
      BY <1>1, <2>2
    <3> QED BY <1>3, <2>2, <3>1
  <2> QED BY <2>1, <2>2
<1>5. r = [w EXCEPT !.adapter = a]
  BY DEF Sync
<1>6. a \in [Indices -> Source]
  BY <1>4
<1> HIDE DEF a
<1>7. r \in Work /\ r = [w EXCEPT !.adapter = r.adapter] /\ r.adapter = a
  BY <1>5, <1>6 DEF Work
<1> QED BY <1>4, <1>7

LEMMA SyncFollows ==
  ASSUME NEW w, NEW g, NEW notes \in [Indices -> Keys \cup {None}], Follows(w, notes, g),
         global \in Global, NEW r, r = Sync(w, notes)
  PROVE  Follows(r, notes, g)
<1>1. /\ w \in Work /\ r \in Work /\ r = [w EXCEPT !.adapter = r.adapter]
      /\ \A i \in Indices : notes[i] # None /\ w.adapter[i].tracked = notes[i]
                            => r.adapter[i] = w.adapter[i]
  BY SyncTracks DEF Follows
<1>2. r.engine = w.engine /\ r.spoiled = w.spoiled
  BY <1>1 DEF Work
<1> QED BY <1>1, <1>2 DEF Follows

\* A parameter that was exempt is set for the voices it is wrong of.
LEMMA ApplyFollows ==
  ASSUME NEW u \in Work, NEW g \in Global, NEW p \in Params, NEW voices \in SUBSET Indices,
         NEW notes,
         \A i \in Indices : notes[i] # None =>
           /\ u.adapter[i].tracked = notes[i]
           /\ Sounds(u.engine[i], u.adapter[i], g, u.spoiled \cup {p})
           /\ i \notin voices => Sounds(u.engine[i], u.adapter[i], g, u.spoiled),
         NEW r, r = ApplyTo(u, g, p, voices)
  PROVE  Follows(r, notes, g) /\ r = [u EXCEPT !.engine = r.engine]
<1>1. /\ r \in Work /\ r = [u EXCEPT !.engine = r.engine]
      /\ \A i \in Indices :
           /\ r.engine[i].brightness = u.engine[i].brightness
           /\ Filtered(u.engine[i]) => Filtered(r.engine[i])
           /\ \A q \in Params : r.engine[i].set[q] =
                IF i \in voices /\ u.adapter[i].tracked # None /\ q = p
                  THEN Combined(u.adapter[i], g, p) ELSE u.engine[i].set[q]
  BY ApplySets
<1>2. r.adapter = u.adapter /\ r.spoiled = u.spoiled /\ r.pending = u.pending
  BY <1>1 DEF Work
<1>3. ASSUME NEW i \in Indices, notes[i] # None
      PROVE  Sounds(r.engine[i], r.adapter[i], g, r.spoiled)
  <2>1. u.adapter[i].tracked # None
    BY <1>3
  <2>2. \A q \in Params \ (u.spoiled \cup {p}) : u.engine[i].set[q] = Combined(u.adapter[i], g, q)
    BY <1>3, SoundsHasFilter
  <2>3. i \notin voices => \A q \in Params \ u.spoiled : u.engine[i].set[q] = Combined(u.adapter[i], g, q)
    BY <1>3, SoundsHasFilter
  <2>4. u.engine[i].brightness = u.adapter[i].expression["brightness"] /\ Filtered(u.engine[i])
    BY <1>3, SoundsHasFilter
  <2>5. \A q \in Params \ u.spoiled : r.engine[i].set[q] = Combined(u.adapter[i], g, q)
    BY <1>1, <2>1, <2>2, <2>3
  <2> QED BY <1>1, <1>2, <2>4, <2>5, SoundsHasFilter
<1> QED BY <1>1, <1>2, <1>3 DEF Follows

\* The same after syncVoices(), which finds every voice as it is.
LEMMA ApplyAllFollows ==
  ASSUME NEW u \in Work, NEW g \in Global, NEW p \in Params,
         note \in [Indices -> Keys \cup {None}], global \in Global,
         \A i \in Indices : note[i] # None =>
           /\ u.adapter[i].tracked = note[i]
           /\ Sounds(u.engine[i], u.adapter[i], g, u.spoiled \cup {p}),
         NEW r, r = Apply(u, g, p, note)
  PROVE  Follows(r, note, g) /\ r.ok = u.ok /\ r.pending = u.pending /\ r.spoiled = u.spoiled
<1> DEFINE s == Sync(u, note)
<1>1. /\ s \in Work /\ s = [u EXCEPT !.adapter = s.adapter]
      /\ \A i \in Indices : note[i] # None => s.adapter[i] = u.adapter[i]
  BY SyncTracks
<1>2. s.engine = u.engine /\ s.spoiled = u.spoiled /\ s.ok = u.ok /\ s.pending = u.pending
  BY <1>1 DEF Work
<1>3. r = ApplyTo(s, g, p, Indices)
  BY DEF Apply
<1> HIDE DEF s
<1>4. \A i \in Indices : note[i] # None =>
        /\ s.adapter[i].tracked = note[i]
        /\ Sounds(s.engine[i], s.adapter[i], g, s.spoiled \cup {p})
        /\ i \notin Indices => Sounds(s.engine[i], s.adapter[i], g, s.spoiled)
  BY <1>1, <1>2
<1>5. Follows(r, note, g) /\ r = [s EXCEPT !.engine = r.engine]
  BY <1>1, <1>3, <1>4, ApplyFollows
<1> QED BY <1>1, <1>2, <1>5 DEF Work

\* The expression of the voices that are addressed.
LEMMA TakenExpression ==
  ASSUME NEW w \in Work, NEW e \in Expressions, NEW address \in Address, NEW value \in Nat,
         NEW r, r = Taken(w, e, address, value)
  PROVE  /\ r \in Work /\ r = [w EXCEPT !.adapter = r.adapter]
         /\ \A i \in Indices : r.adapter[i] =
              IF i \in Addressed(w, address) THEN [w.adapter[i] EXCEPT !.expression[e] = value]
                                             ELSE w.adapter[i]
<1> DEFINE a == [i \in Indices |->
                   IF i \in Addressed(w, address) THEN [w.adapter[i] EXCEPT !.expression[e] = value]
                                                  ELSE w.adapter[i]]
<1>1. w.adapter \in [Indices -> Source]
  BY DEF Work
<1>2. ASSUME NEW i \in Indices PROVE [w.adapter[i] EXCEPT !.expression[e] = value] \in Source
  BY <1>1 DEF Source
<1>3. a \in [Indices -> Source]
  BY <1>1, <1>2
<1>4. r = [w EXCEPT !.adapter = a]
  BY DEF Taken
<1>5. \A i \in Indices : a[i] =
              IF i \in Addressed(w, address) THEN [w.adapter[i] EXCEPT !.expression[e] = value]
                                             ELSE w.adapter[i]
  OBVIOUS
<1> HIDE DEF a
<1> QED BY <1>3, <1>4, <1>5 DEF Work

\* It matters to what the parameter it drives is combined with, and to nothing else.
LEMMA OtherParameters ==
  ASSUME NEW a \in Source, NEW b \in Source, NEW g \in Global, NEW e \in Expressions,
         NEW p \in Params, \A q \in Params \ {p} : e \notin Drives(q),
         a.base = b.base, a.modulation = b.modulation, a.coarse = b.coarse,
         \A f \in Expressions \ {e} : a.expression[f] = b.expression[f]
  PROVE  \A q \in Params \ {p} : Combined(a, g, q) = Combined(b, g, q)
<1> SUFFICES ASSUME NEW q \in Params \ {p} PROVE Combined(a, g, q) = Combined(b, g, q)
  OBVIOUS
<1>1. \A f \in Drives(q) : a.expression[f] = b.expression[f]
  BY Driven
<1> QED BY <1>1, CombinedSame

LEMMA WithExpression ==
  ASSUME NEW a \in Source, NEW e \in Expressions, NEW value \in Nat,
         NEW b, b = [a EXCEPT !.expression[e] = value]
  PROVE  /\ b \in Source /\ b.tracked = a.tracked
         /\ a.base = b.base /\ a.modulation = b.modulation /\ a.coarse = b.coarse
         /\ b.expression[e] = value /\ \A f \in Expressions \ {e} : a.expression[f] = b.expression[f]
<1>1. /\ b \in Source /\ b.tracked = a.tracked /\ a.base = b.base /\ a.modulation = b.modulation
      /\ a.coarse = b.coarse /\ b.expression = [a.expression EXCEPT ![e] = value]
      /\ a.expression \in [Expressions -> Nat]
  BY DEF Source
<1> QED BY <1>1

LEMMA TakenSounds ==
  ASSUME NEW w, NEW notes, NEW g \in Global, Follows(w, notes, g),
         NEW e \in Expressions \ {"brightness"}, NEW p \in Params,
         \A q \in Params \ {p} : e \notin Drives(q),
         NEW address \in Address, NEW value \in Nat,
         NEW r, r = Taken(w, e, address, value)
  PROVE  /\ r \in Work /\ r = [w EXCEPT !.adapter = r.adapter]
         /\ \A i \in Indices : notes[i] # None =>
              /\ r.adapter[i].tracked = notes[i]
              /\ Sounds(r.engine[i], r.adapter[i], g, r.spoiled \cup {p})
              /\ i \notin Addressed(w, address) => Sounds(r.engine[i], r.adapter[i], g, r.spoiled)
<1>1. /\ w \in Work /\ r \in Work /\ r = [w EXCEPT !.adapter = r.adapter]
      /\ \A i \in Indices : r.adapter[i] =
           IF i \in Addressed(w, address) THEN [w.adapter[i] EXCEPT !.expression[e] = value]
                                          ELSE w.adapter[i]
  <2>1. e \in Expressions /\ w \in Work
    BY DEF Follows
  <2> QED BY <2>1, TakenExpression
<1>2. r.engine = w.engine /\ r.spoiled = w.spoiled /\ w.adapter \in [Indices -> Source]
  BY <1>1 DEF Work
<1>3. ASSUME NEW i \in Indices, notes[i] # None
      PROVE  /\ r.adapter[i].tracked = notes[i]
             /\ Sounds(r.engine[i], r.adapter[i], g, r.spoiled \cup {p})
             /\ i \notin Addressed(w, address) => Sounds(r.engine[i], r.adapter[i], g, r.spoiled)
  <2>1. w.adapter[i].tracked = notes[i] /\ Sounds(w.engine[i], w.adapter[i], g, w.spoiled)
    BY <1>3 DEF Follows
  <2>2. CASE i \in Addressed(w, address)
    <3>1. r.adapter[i] = [w.adapter[i] EXCEPT !.expression[e] = value]
      BY <1>1, <2>2
    <3> DEFINE a == w.adapter[i]
               b == r.adapter[i]
    <3>2. a \in Source /\ e \in Expressions /\ "brightness" \in Expressions \ {e}
      BY <1>2 DEF Expressions
    <3>3. b = [a EXCEPT !.expression[e] = value]
      BY <3>1
    <3> HIDE DEF a, b
    <3>4. /\ b \in Source /\ b.tracked = a.tracked
          /\ a.base = b.base /\ a.modulation = b.modulation /\ a.coarse = b.coarse
          /\ \A f \in Expressions \ {e} : a.expression[f] = b.expression[f]
      BY <3>2, <3>3, WithExpression
    <3>5. \A q \in Params \ {p} : Combined(a, g, q) = Combined(b, g, q)
      BY <3>2, <3>4, OtherParameters
    <3> QED BY <1>2, <2>1, <2>2, <3>2, <3>4, <3>5, SoundsHasFilter DEF a, b
  <2>3. CASE i \notin Addressed(w, address)
    <3>1. r.adapter[i] = w.adapter[i]
      BY <1>1, <2>3
    <3> QED BY <1>2, <2>1, <3>1, SoundsHasFilter
  <2> QED BY <2>2, <2>3
<1> QED BY <1>1, <1>3

-----------------------------------------------------------------------------
(* The caches, and the events that are put into them. *)

Entry == [address : Address, time : 0 .. MaxFrames - 1, value : Nat]
Event == [source : {"host", "midi"}, kind : Expressions, address : Address, value : Nat]

\* What the events read.
Context == note \in [Indices -> Keys \cup {None}] /\ global \in Global /\ block.now \in 0 .. MaxFrames - 1

\* A value is put where its address has its slot, or behind the others, or refused.
Puts(q, r, ok, address, value) ==
  LET entry == [address |-> address, time |-> block.now, value |-> value]
  IN  \/ /\ Slot(q, address) # {} /\ ok
         /\ r = [k \in DOMAIN q |-> IF k \in Slot(q, address) THEN entry ELSE q[k]]
      \/ Slot(q, address) = {} /\ Len(q) < PendingSlots /\ ok /\ r = Append(q, entry)
      \/ Slot(q, address) = {} /\ Len(q) >= PendingSlots /\ ~ok /\ r = q

LEMMA StorePuts ==
  ASSUME NEW w \in Work, w.ok, Context, NEW e \in Expressions, NEW address \in Address,
         NEW value \in Nat, NEW r, r = Store(w, e, address, value)
  PROVE  /\ r \in Work /\ Core(r) = Core(w)
         /\ r.pending.time = w.pending.time
         /\ \A f \in Expressions \ {e} : r.pending.entries[f] = w.pending.entries[f]
         /\ Puts(w.pending.entries[e], r.pending.entries[e], r.ok, address, value)
<1> DEFINE q == w.pending.entries[e]
           entry == [address |-> address, time |-> block.now, value |-> value]
           With(d) == [w EXCEPT !.pending.entries[e] = d]
<1>1. w.pending \in Pending /\ w.pending.entries \in [Expressions -> Seq(Entry)] /\ q \in Seq(Entry)
  BY DEF Work, Pending, Entry
<1>2. entry \in Entry
  BY DEF Entry, Context
<1>3. ASSUME NEW d \in Seq(Entry), NEW u, u = With(d)
      PROVE  /\ u \in Work /\ Core(u) = Core(w) /\ u.ok
             /\ u.pending.time = w.pending.time
             /\ \A f \in Expressions \ {e} : u.pending.entries[f] = w.pending.entries[f]
             /\ u.pending.entries[e] = d
  <2>1. u.pending = [w.pending EXCEPT !.entries[e] = d]
    BY <1>3 DEF Work
  <2>2. u.pending \in Pending /\ u.pending.time = w.pending.time
        /\ u.pending.entries = [w.pending.entries EXCEPT ![e] = d]
    BY <1>1, <2>1 DEF Pending, Entry
  <2>3. u = [w EXCEPT !.pending = u.pending]
    BY <1>3, <2>1 DEF Work
  <2> HIDE <1>3
  <2>4. u \in Work /\ Core(u) = Core(w) /\ u.ok
    BY <2>2, <2>3 DEF Work, Core
  <2> QED BY <1>1, <2>2, <2>4
<1>4. CASE Slot(q, address) # {}
  <2> DEFINE d == [k \in DOMAIN q |-> IF k \in Slot(q, address) THEN entry ELSE q[k]]
  <2>1. d \in Seq(Entry)
    <3>1. Len(q) \in Nat /\ DOMAIN q = 1 .. Len(q) /\ \A k \in DOMAIN q : q[k] \in Entry
      BY <1>1, LenProperties, ElementOfSeq
    <3>2. d \in [1 .. Len(q) -> Entry]
      BY <1>2, <3>1
    <3> QED BY <3>1, <3>2, SeqDef
  <2>2. r = With(d)
    BY <1>4 DEF Store
  <2> HIDE DEF d
  <2>3. /\ r \in Work /\ Core(r) = Core(w) /\ r.ok
        /\ r.pending.time = w.pending.time
        /\ \A f \in Expressions \ {e} : r.pending.entries[f] = w.pending.entries[f]
        /\ r.pending.entries[e] = d
    BY <1>3, <2>1, <2>2
  <2> QED BY <1>4, <2>3 DEF d, Puts
<1>5. CASE Slot(q, address) = {} /\ Len(q) < PendingSlots
  <2> DEFINE d == Append(q, entry)
  <2>1. d \in Seq(Entry)
    BY <1>1, <1>2, AppendProperties
  <2>2. r = With(d)
    BY <1>5 DEF Store
  <2> HIDE DEF d
  <2>3. /\ r \in Work /\ Core(r) = Core(w) /\ r.ok
        /\ r.pending.time = w.pending.time
        /\ \A f \in Expressions \ {e} : r.pending.entries[f] = w.pending.entries[f]
        /\ r.pending.entries[e] = d
    BY <1>3, <2>1, <2>2
  <2> QED BY <1>5, <2>3 DEF d, Puts
<1>6. CASE Slot(q, address) = {} /\ ~(Len(q) < PendingSlots)
  <2>1. r = [w EXCEPT !.ok = FALSE]
    BY <1>6 DEF Store
  <2>2. r \in Work /\ Core(r) = Core(w) /\ ~r.ok /\ r.pending = w.pending
    BY <2>1 DEF Work, Core
  <2>3. Len(q) \in Nat /\ PendingSlots \in Nat
    BY <1>1, LenProperties, Constants
  <2>4. Len(q) >= PendingSlots
    BY <1>6, <2>3
  <2> QED BY <1>6, <2>2, <2>4 DEF Puts
<1> QED BY <1>4, <1>5, <1>6

\* The caches an event finds: those of this time.
PreparedPending(pd) == IF pd.time = block.now THEN pd ELSE [NoPending EXCEPT !.time = block.now]

LEMMA PreparedIsNow ==
  ASSUME NEW w \in Work, Context, NEW r, r = Prepared(w)
  PROVE  /\ r \in Work /\ Core(r) = Core(w) /\ r.ok = w.ok
         /\ r.pending = PreparedPending(w.pending) /\ r.pending \in Pending /\ r.pending.time = block.now
         /\ w.pending.time # block.now => \A e \in Expressions : r.pending.entries[e] = <<>>
<1>1. CASE w.pending.time = block.now
  BY <1>1 DEF Prepared, PreparedPending, Work
<1>2. CASE w.pending.time # block.now
  <2> DEFINE pd == [NoPending EXCEPT !.time = block.now]
  <2>1. pd \in Pending /\ pd.time = block.now /\ \A e \in Expressions : pd.entries[e] = <<>>
    <3>1. [e \in Expressions |-> <<>>] \in [Expressions -> Seq(Entry)]
      BY EmptySeq
    <3> QED BY <3>1 DEF NoPending, Pending, Entry, Context
  <2>2. r = [w EXCEPT !.pending = pd]
    BY <1>2 DEF Prepared
  <2> HIDE DEF pd
  <2>3. r \in Work /\ Core(r) = Core(w) /\ r.ok = w.ok /\ r.pending = pd
    BY <2>1, <2>2 DEF Work, Core
  <2> QED BY <1>2, <2>1, <2>3 DEF pd, PreparedPending
<1> QED BY <1>1, <1>2

-----------------------------------------------------------------------------
(* One expression. *)

\* What storing e does to the caches of s.
Stores(s, r, e, address, value) ==
  /\ r.pending.time = s.pending.time
  /\ \A f \in Expressions \ {e} : r.pending.entries[f] = s.pending.entries[f]
  /\ Puts(s.pending.entries[e], r.pending.entries[e], r.ok, address, value)

LEMMA ThenStoreFollows ==
  ASSUME NEW s, Context, Follows(s, note, global), s.ok, NEW p \in {"fine", "pan"},
         NEW e \in Expressions \ {"brightness"}, \A q \in Params \ {p} : e \notin Drives(q),
         NEW address \in Address, NEW value \in Nat,
         NEW r, r = ExpressThenStore(s, p, e, address, value)
  PROVE  Follows(r, note, global) /\ Stores(s, r, e, address, value)
<1> DEFINE t == Taken(s, e, address, value)
           u == Store(t, e, address, value)
<1>0. p \in Params /\ e \in Expressions /\ note \in [Indices -> Keys \cup {None}] /\ global \in Global
      /\ s \in Work
  BY DEF Params, Context, Follows
<1>1. /\ t \in Work /\ t = [s EXCEPT !.adapter = t.adapter]
      /\ \A i \in Indices : note[i] # None =>
           /\ t.adapter[i].tracked = note[i]
           /\ Sounds(t.engine[i], t.adapter[i], global, t.spoiled \cup {p})
           /\ i \notin Addressed(s, address) => Sounds(t.engine[i], t.adapter[i], global, t.spoiled)
  BY <1>0, TakenSounds
<1>2. t.ok /\ t.pending = s.pending
  BY <1>0, <1>1 DEF Work
<1>3. u \in Work /\ Core(u) = Core(t) /\ Stores(t, u, e, address, value)
  BY <1>0, <1>1, <1>2, StorePuts DEF Stores
<1>4. u.engine = t.engine /\ u.adapter = t.adapter /\ u.spoiled = t.spoiled /\ Stores(s, u, e, address, value)
  BY <1>2, <1>3 DEF Core, Stores
<1>5. r = IF ~u.ok THEN [u EXCEPT !.spoiled = @ \cup {p}]
          ELSE IF Addressed(s, address) # {} THEN Apply(u, global, p, note) ELSE u
  BY DEF ExpressThenStore
<1> HIDE DEF t, u
<1>6. CASE ~u.ok
  <2>1. r \in Work /\ r.engine = u.engine /\ r.adapter = u.adapter /\ r.spoiled = u.spoiled \cup {p}
        /\ r.pending = u.pending /\ r.ok = u.ok
    BY <1>3, <1>5, <1>6 DEF Work
  <2>0. r.adapter = t.adapter /\ r.engine = t.engine /\ r.spoiled = t.spoiled \cup {p}
    BY <1>4, <2>1
  <2>2. ASSUME NEW i \in Indices, note[i] # None
        PROVE  r.adapter[i].tracked = note[i] /\ Sounds(r.engine[i], r.adapter[i], global, r.spoiled)
    BY <1>1, <2>0, <2>2
  <2>3. Follows(r, note, global)
    BY <2>1, <2>2 DEF Follows
  <2> QED BY <1>4, <2>1, <2>3 DEF Stores
<1>7. CASE u.ok /\ Addressed(s, address) = {}
  <2>1. r = u
    BY <1>5, <1>7
  <2> QED BY <1>1, <1>3, <1>4, <1>7, <2>1 DEF Follows
<1>8. CASE u.ok /\ Addressed(s, address) # {}
  <2>1. r = Apply(u, global, p, note)
    BY <1>5, <1>8
  <2>2. Follows(r, note, global) /\ r.ok = u.ok /\ r.pending = u.pending
    BY <1>0, <1>1, <1>3, <1>4, <2>1, ApplyAllFollows
  <2> QED BY <1>4, <2>2 DEF Stores
<1> QED BY <1>6, <1>7, <1>8

LEMMA LevelApplies ==
  ASSUME NEW s, NEW notes, NEW g \in Global, Follows(s, notes, g),
         NEW e \in {"volume", "expression", "pressure"}, NEW address \in Address, NEW value \in Nat,
         NEW t, t = Taken(s, e, address, value),
         NEW u, u = ApplyTo(t, g, "level", Addressed(s, address))
  PROVE  Follows(u, notes, g) /\ u = [t EXCEPT !.engine = u.engine]
<1>1. /\ "level" \in Params /\ e \in Expressions \ {"brightness"}
      /\ \A q \in Params \ {"level"} : e \notin Drives(q)
      /\ Addressed(s, address) \in SUBSET Indices
  BY DEF Params, Expressions, Drives, Addressed
<1>2. /\ t \in Work
      /\ \A i \in Indices : notes[i] # None =>
           /\ t.adapter[i].tracked = notes[i]
           /\ Sounds(t.engine[i], t.adapter[i], g, t.spoiled \cup {"level"})
           /\ i \notin Addressed(s, address) => Sounds(t.engine[i], t.adapter[i], g, t.spoiled)
  BY <1>1, TakenSounds
<1> QED BY <1>1, <1>2, ApplyFollows

LEMMA LevelFollows ==
  ASSUME NEW s, Context, Follows(s, note, global), s.ok,
         NEW e \in {"volume", "expression", "pressure"},
         NEW address \in Address, NEW value \in Nat, NEW r, r = ExpressLevel(s, e, address, value)
  PROVE  Follows(r, note, global) /\ Stores(s, r, e, address, value)
<1> DEFINE t == Taken(s, e, address, value)
           u == ApplyTo(t, global, "level", Addressed(s, address))
<1>0. /\ "level" \in Params /\ e \in Expressions /\ e \in Expressions \ {"brightness"}
      /\ \A q \in Params \ {"level"} : e \notin Drives(q)
      /\ note \in [Indices -> Keys \cup {None}] /\ global \in Global
      /\ s \in Work /\ Addressed(s, address) \in SUBSET Indices
  BY DEF Params, Expressions, Drives, Context, Follows, Addressed
<1>1. /\ t \in Work /\ t = [s EXCEPT !.adapter = t.adapter]
      /\ \A i \in Indices : note[i] # None =>
           /\ t.adapter[i].tracked = note[i]
           /\ Sounds(t.engine[i], t.adapter[i], global, t.spoiled \cup {"level"})
           /\ i \notin Addressed(s, address) => Sounds(t.engine[i], t.adapter[i], global, t.spoiled)
  BY <1>0, TakenSounds
<1>2. t.ok /\ t.pending = s.pending
  BY <1>0, <1>1 DEF Work
<1>3. r = Store(u, e, address, value)
  BY DEF ExpressLevel
<1>a. u = ApplyTo(t, global, "level", Addressed(s, address))
  OBVIOUS
<1>b. t = Taken(s, e, address, value)
  OBVIOUS
<1> HIDE DEF t, u
<1>4. Follows(u, note, global) /\ u = [t EXCEPT !.engine = u.engine]
  BY <1>0, <1>a, <1>b, LevelApplies
<1>5. u \in Work /\ u.ok /\ u.pending = s.pending
  BY <1>1, <1>2, <1>4 DEF Follows, Work
<1>6. r \in Work /\ Core(r) = Core(u) /\ Stores(u, r, e, address, value)
  BY <1>0, <1>3, <1>5, StorePuts DEF Stores
<1> QED BY <1>4, <1>5, <1>6, FollowsFrame DEF Stores

LEMMA BrightnessFollows ==
  ASSUME NEW s, Context, Follows(s, note, global), s.ok,
         NEW address \in Address, NEW value \in Nat, NEW r, r = ExpressBrightness(s, address, value)
  PROVE  Follows(r, note, global) /\ Stores(s, r, "brightness", address, value)
<1> DEFINE t == Taken(s, "brightness", address, value)
           lit == [i \in Indices |-> IF i \in Addressed(s, address)
                                       THEN [s.engine[i] EXCEPT !.brightness = value] ELSE s.engine[i]]
           u == [t EXCEPT !.engine = lit]
<1>0. "brightness" \in Expressions /\ \A q \in Params : "brightness" \notin Drives(q)
  BY DEF Expressions, Drives
<1>1. s \in Work /\ s.engine \in [Indices -> Engine] /\ s.adapter \in [Indices -> Source] /\ global \in Global
  BY DEF Follows, Work, Context
<1>a. t = Taken(s, "brightness", address, value)
  OBVIOUS
<1>3. r = Store(u, "brightness", address, value)
  BY <1>1 DEF ExpressBrightness
<1> HIDE DEF t
<1>2. /\ t \in Work /\ t = [s EXCEPT !.adapter = t.adapter]
      /\ \A i \in Indices : t.adapter[i] =
           IF i \in Addressed(s, address) THEN [s.adapter[i] EXCEPT !.expression["brightness"] = value]
                                          ELSE s.adapter[i]
  BY <1>0, <1>1, <1>a, TakenExpression, SMTT(60)
<1>4. lit \in [Indices -> Engine]
      /\ \A i \in Indices : /\ lit[i].set = s.engine[i].set
                            /\ Filtered(s.engine[i]) => Filtered(lit[i])
                            /\ lit[i].brightness = IF i \in Addressed(s, address) THEN value
                                                   ELSE s.engine[i].brightness
  BY <1>1 DEF Engine, Filtered
<1> HIDE DEF lit
<1>5. /\ u \in Work /\ u.engine = lit /\ u.adapter = t.adapter /\ u.spoiled = s.spoiled
      /\ u.pending = s.pending /\ u.ok
  BY <1>1, <1>2, <1>4 DEF Work
<1>6. ASSUME NEW i \in Indices, note[i] # None
      PROVE  /\ u.adapter[i].tracked = note[i]
             /\ Sounds(u.engine[i], u.adapter[i], global, u.spoiled)
  <2>1. s.adapter[i].tracked = note[i] /\ Sounds(s.engine[i], s.adapter[i], global, s.spoiled)
    BY <1>6 DEF Follows
  <2>2. s.adapter[i] \in Source
    BY <1>1
  <2>3. CASE i \in Addressed(s, address)
    <3> DEFINE a == s.adapter[i]
               b == t.adapter[i]
    <3>1. b = [a EXCEPT !.expression["brightness"] = value]
      BY <1>2, <2>3
    <3> HIDE DEF a, b
    <3>2. /\ b \in Source /\ b.tracked = a.tracked /\ b.expression["brightness"] = value
          /\ a.base = b.base /\ a.modulation = b.modulation /\ a.coarse = b.coarse
          /\ \A f \in Expressions \ {"brightness"} : a.expression[f] = b.expression[f]
      BY <1>0, <2>2, <3>1, WithExpression DEF a
    <3>3. \A q \in Params : Combined(a, global, q) = Combined(b, global, q)
      <4> SUFFICES ASSUME NEW q \in Params PROVE Combined(a, global, q) = Combined(b, global, q)
        OBVIOUS
      <4>1. \A f \in Drives(q) : a.expression[f] = b.expression[f]
        BY <1>0, <3>2, Driven
      <4> QED BY <1>1, <2>2, <3>2, <4>1, CombinedSame DEF a
    <3> QED BY <1>4, <1>5, <2>1, <2>3, <3>2, <3>3, SoundsHasFilter DEF a, b
  <2>4. CASE i \notin Addressed(s, address)
    <3>1. t.adapter[i] = s.adapter[i]
      BY <1>2, <2>4
    <3> QED BY <1>4, <1>5, <2>1, <2>4, <3>1, SoundsHasFilter
  <2> QED BY <2>3, <2>4
<1> HIDE DEF u
<1>7. Follows(u, note, global)
  BY <1>5, <1>6 DEF Follows
<1>8. r \in Work /\ Core(r) = Core(u) /\ Stores(u, r, "brightness", address, value)
  BY <1>0, <1>3, <1>5, StorePuts DEF Stores
<1> QED BY <1>5, <1>7, <1>8, FollowsFrame DEF Stores

LEMMA ExpressFollows ==
  ASSUME NEW w, Context, Follows(w, note, global), w.ok, NEW x \in Event, NEW r, r = Express(w, x)
  PROVE  /\ Follows(r, note, global) /\ r.pending.time = block.now
         /\ \A f \in Expressions \ {x.kind} :
              r.pending.entries[f] = PreparedPending(w.pending).entries[f]
         /\ Puts(PreparedPending(w.pending).entries[x.kind], r.pending.entries[x.kind], r.ok,
                 x.address, x.value)
<1> DEFINE d == Prepared(w)
           s == Sync(d, note)
<1>1. w \in Work /\ note \in [Indices -> Keys \cup {None}] /\ global \in Global
      /\ x.kind \in Expressions /\ x.address \in Address /\ x.value \in Nat
  BY DEF Follows, Context, Event
<1>2. /\ d \in Work /\ Core(d) = Core(w) /\ d.ok
      /\ d.pending = PreparedPending(w.pending) /\ d.pending.time = block.now
  BY <1>1, PreparedIsNow
<1>3. Follows(d, note, global)
  BY <1>2, FollowsFrame
<1>4. Follows(s, note, global) /\ s = [d EXCEPT !.adapter = s.adapter]
  BY <1>1, <1>2, <1>3, SyncFollows, SyncTracks
<1>5. r = CASE x.kind = "tuning" -> ExpressThenStore(s, "fine", x.kind, x.address, x.value)
            [] x.kind = "pan" -> ExpressThenStore(s, "pan", x.kind, x.address, x.value)
            [] x.kind = "brightness" -> ExpressBrightness(s, x.address, x.value)
            [] OTHER -> ExpressLevel(s, x.kind, x.address, x.value)
  BY DEF Express
<1> HIDE DEF d, s
<1>6. s.ok /\ s.pending = d.pending
  BY <1>2, <1>4 DEF Work
<1>7. Follows(r, note, global) /\ Stores(s, r, x.kind, x.address, x.value)
  <2>1. CASE x.kind = "tuning"
    <3>1. \A q \in Params \ {"fine"} : "tuning" \notin Drives(q)
      BY DEF Params, Drives
    <3>2. r = ExpressThenStore(s, "fine", "tuning", x.address, x.value) /\ "tuning" \in Expressions \ {"brightness"}
      BY <1>5, <2>1 DEF Expressions
    <3> QED BY <1>1, <1>4, <1>6, <2>1, <3>1, <3>2, ThenStoreFollows
  <2>2. CASE x.kind = "pan"
    <3>1. \A q \in Params \ {"pan"} : "pan" \notin Drives(q)
      BY DEF Params, Drives
    <3>2. r = ExpressThenStore(s, "pan", "pan", x.address, x.value) /\ "pan" \in Expressions \ {"brightness"}
      BY <1>5, <2>2 DEF Expressions
    <3> QED BY <1>1, <1>4, <1>6, <2>2, <3>1, <3>2, ThenStoreFollows
  <2>3. CASE x.kind = "brightness"
    <3>1. r = ExpressBrightness(s, x.address, x.value)
      BY <1>5, <2>3
    <3> QED BY <1>1, <1>4, <1>6, <2>3, <3>1, BrightnessFollows
  <2>4. CASE x.kind \in {"volume", "expression", "pressure"}
    <3>1. r = ExpressLevel(s, x.kind, x.address, x.value)
      BY <1>5, <2>4
    <3> QED BY <1>1, <1>4, <1>6, <2>4, <3>1, LevelFollows
  <2> QED BY <1>1, <2>1, <2>2, <2>3, <2>4 DEF Expressions
<1> QED BY <1>2, <1>6, <1>7 DEF Stores

-----------------------------------------------------------------------------
(* What the caches remember of the events of this time. *)

LEMMA Appended ==
  ASSUME NEW list \in Seq(Event), NEW x \in Event
  PROVE  /\ Append(list, x) \in Seq(Event) /\ Len(list) \in Nat /\ DOMAIN list = 1 .. Len(list)
         /\ DOMAIN Append(list, x) = 1 .. Len(list) + 1 /\ Append(list, x)[Len(list) + 1] = x
         /\ \A m \in DOMAIN list : Append(list, x)[m] = list[m]
<1>1. /\ Append(list, x) \in Seq(Event) /\ Len(list) \in Nat /\ DOMAIN list = 1 .. Len(list)
      /\ Len(Append(list, x)) = Len(list) + 1 /\ DOMAIN Append(list, x) = 1 .. Len(Append(list, x))
      /\ Append(list, x)[Len(list) + 1] = x
      /\ \A m \in 1 .. Len(list) : Append(list, x)[m] = list[m]
  BY LenProperties, AppendProperties
<1> QED BY <1>1

LEMMA SentAtAppended ==
  ASSUME NEW list \in Seq(Event), NEW x \in Event, NEW e, NEW a
  PROVE  SentAt(Append(list, x), e, a) =
           SentAt(list, e, a) \cup IF x.kind = e /\ x.address = a THEN {Len(list) + 1} ELSE {}
<1> DEFINE more == Append(list, x)
<1>1. /\ Len(list) \in Nat /\ DOMAIN list = 1 .. Len(list)
      /\ DOMAIN more = 1 .. Len(list) + 1 /\ more[Len(list) + 1] = x
      /\ \A m \in DOMAIN list : more[m] = list[m]
  BY Appended
<1> HIDE DEF more
<1>2. /\ \A m \in DOMAIN list : m \in DOMAIN more
      /\ \A m \in DOMAIN more : m \in DOMAIN list \/ m = Len(list) + 1
      /\ Len(list) + 1 \in DOMAIN more /\ Len(list) + 1 \notin DOMAIN list
  BY <1>1
<1>3. SentAt(more, e, a) =
           SentAt(list, e, a) \cup IF x.kind = e /\ x.address = a THEN {Len(list) + 1} ELSE {}
  BY <1>1, <1>2 DEF SentAt
<1> QED BY <1>3 DEF more

LEMMA RecallsOthers ==
  ASSUME NEW q, NEW list \in Seq(Event), NEW x \in Event, NEW e \in Expressions, e # x.kind, NEW now,
         Recalls(q, list, e, now)
  PROVE  Recalls(q, Append(list, x), e, now)
<1> DEFINE more == Append(list, x)
<1>0. /\ Len(list) \in Nat /\ DOMAIN list = 1 .. Len(list)
      /\ DOMAIN more = 1 .. Len(list) + 1 /\ more[Len(list) + 1] = x
      /\ \A m \in DOMAIN list : more[m] = list[m]
  BY Appended
<1>a. \A a : SentAt(more, e, a) = SentAt(list, e, a)
  <2> SUFFICES ASSUME NEW a PROVE SentAt(more, e, a) = SentAt(list, e, a)
    OBVIOUS
  <2>1. SentAt(more, e, a) =
          SentAt(list, e, a) \cup IF x.kind = e /\ x.address = a THEN {Len(list) + 1} ELSE {}
    BY SentAtAppended
  <2> HIDE DEF more
  <2> QED BY <2>1
<1> HIDE DEF more
<1>1. /\ DOMAIN list \subseteq DOMAIN more /\ more[Len(list) + 1] = x
      /\ \A m \in DOMAIN list : more[m] = list[m]
      /\ \A m \in DOMAIN more : m \in DOMAIN list \/ m = Len(list) + 1
      /\ \A a : SentAt(more, e, a) = SentAt(list, e, a)
  BY <1>0, <1>a
<1>2. \A a : SentAt(list, e, a) \subseteq DOMAIN list
  BY DEF SentAt
<1>3. /\ \A j, k \in DOMAIN q : q[j].address = q[k].address => j = k
      /\ \A j, k \in DOMAIN q : j < k =>
           \A m \in SentAt(more, e, q[k].address) : \E l \in SentAt(more, e, q[j].address) : l < m
  BY <1>1 DEF Recalls
<1>4. ASSUME NEW k \in DOMAIN q
      PROVE  /\ q[k].time = now
             /\ \E m \in SentAt(more, e, q[k].address) :
                  more[m].value = q[k].value /\ \A l \in SentAt(more, e, q[k].address) : l <= m
  <2>1. PICK m \in SentAt(list, e, q[k].address) :
             list[m].value = q[k].value /\ \A l \in SentAt(list, e, q[k].address) : l <= m
    BY DEF Recalls
  <2>2. more[m] = list[m]
    BY <1>1, <1>2
  <2> QED BY <1>1, <2>1, <2>2 DEF Recalls
<1>5. \A m \in DOMAIN more : more[m].kind = e => \E k \in DOMAIN q : q[k].address = more[m].address
  BY <1>1 DEF Recalls
<1> QED BY <1>3, <1>4, <1>5 DEF Recalls, more

\* The slots after a value was put: whose address, and which value.
PutAt(q, r, s, address, value) ==
  /\ s \in Nat /\ r[s].address = address /\ r[s].value = value /\ r[s].time = block.now
  /\ \A k \in DOMAIN r : r[k].address = address => k = s
  /\ \A k \in DOMAIN r \ {s} : k \in DOMAIN q /\ r[k] = q[k] /\ q[k].address # address
  /\ \A k \in DOMAIN q : k \in DOMAIN r /\ r[k].address = q[k].address
  /\ s \notin DOMAIN q => \A k \in DOMAIN q : k < s
  /\ s \in DOMAIN q \/ \A k \in DOMAIN q : q[k].address # address

LEMMA PutSlots ==
  ASSUME Context, NEW q \in Seq(Entry), NEW address \in Address, NEW value \in Nat,
         \A k \in DOMAIN q : q[k].time = block.now,
         \A j, k \in DOMAIN q : q[j].address = q[k].address => j = k,
         NEW r, Puts(q, r, TRUE, address, value)
  PROVE  \E s \in DOMAIN r : PutAt(q, r, s, address, value)
<1> DEFINE entry == [address |-> address, time |-> block.now, value |-> value]
<1>1. Len(q) \in Nat /\ DOMAIN q = 1 .. Len(q)
  BY LenProperties
<1>2. CASE /\ Slot(q, address) # {}
           /\ r = [k \in DOMAIN q |-> IF k \in Slot(q, address) THEN entry ELSE q[k]]
  <2>1. PICK s \in DOMAIN q : q[s].address = address
    BY <1>2 DEF Slot
  <2>2. Slot(q, address) = {s}
    BY <2>1 DEF Slot
  <2>3. DOMAIN r = DOMAIN q /\ r[s] = entry /\ \A k \in DOMAIN q \ {s} : r[k] = q[k]
    BY <1>2, <2>1, <2>2
  <2> QED BY <1>1, <2>1, <2>3 DEF PutAt
<1>3. CASE Slot(q, address) = {} /\ r = Append(q, entry)
  <2>1. \A k \in DOMAIN q : q[k].address # address
    BY <1>3 DEF Slot
  <2>2. entry \in Entry
    BY DEF Entry, Context
  <2>3. /\ DOMAIN r = 1 .. Len(q) + 1 /\ r[Len(q) + 1] = entry
        /\ \A k \in DOMAIN q : r[k] = q[k]
    BY <1>1, <1>3, <2>2, AppendProperties, LenProperties
  <2>4. Len(q) + 1 \in DOMAIN r /\ \A k \in DOMAIN q : k \in DOMAIN r /\ k < Len(q) + 1
    BY <1>1, <2>3
  <2>5. \A k \in DOMAIN r \ {Len(q) + 1} : k \in DOMAIN q
    BY <1>1, <2>3
  <2> QED BY <1>1, <2>1, <2>3, <2>4, <2>5 DEF PutAt
<1> QED BY <1>2, <1>3 DEF Puts

LEMMA PutRecalls ==
  ASSUME Context, NEW q \in Seq(Entry), NEW list \in Seq(Event), NEW x \in Event,
         Recalls(q, list, x.kind, block.now), NEW r, Puts(q, r, TRUE, x.address, x.value)
  PROVE  Recalls(r, Append(list, x), x.kind, block.now)
<1> DEFINE e == x.kind
           more == Append(list, x)
           n == Len(list) + 1
<1>1. /\ \A j, k \in DOMAIN q : q[j].address = q[k].address => j = k
      /\ \A k \in DOMAIN q : q[k].time = block.now
      /\ \A k \in DOMAIN q : \E m \in SentAt(list, e, q[k].address) :
           list[m].value = q[k].value /\ \A l \in SentAt(list, e, q[k].address) : l <= m
      /\ \A m \in DOMAIN list : list[m].kind = e => \E k \in DOMAIN q : q[k].address = list[m].address
      /\ \A j, k \in DOMAIN q : j < k =>
           \A m \in SentAt(list, e, q[k].address) : \E l \in SentAt(list, e, q[j].address) : l < m
  BY DEF Recalls
<1>2. /\ n \in Nat /\ n \in DOMAIN more /\ more[n] = x
      /\ \A m \in DOMAIN list : m \in DOMAIN more /\ more[m] = list[m] /\ m < n
      /\ \A m \in DOMAIN more : m \in DOMAIN list \/ m = n
      /\ SentAt(more, e, x.address) = SentAt(list, e, x.address) \cup {n}
      /\ \A a : a # x.address => SentAt(more, e, a) = SentAt(list, e, a)
      /\ DOMAIN list \subseteq Nat
  <2>1. /\ Len(list) \in Nat /\ DOMAIN list = 1 .. Len(list)
        /\ DOMAIN more = 1 .. n /\ more[n] = x
        /\ \A m \in DOMAIN list : more[m] = list[m]
    BY Appended
  <2>2. ASSUME NEW a
        PROVE  SentAt(more, e, a) = SentAt(list, e, a) \cup IF x.address = a THEN {n} ELSE {}
    BY SentAtAppended
  <2>3. n \in Nat /\ n \in 1 .. n /\ \A m \in DOMAIN list : m \in 1 .. n /\ m < n
    BY <2>1
  <2>4. \A m \in 1 .. n : m \in DOMAIN list \/ m = n
    BY <2>1
  <2>5. DOMAIN list \subseteq Nat
    BY <2>1
  <2> HIDE DEF more, n, e
  <2>6. SentAt(more, e, x.address) = SentAt(list, e, x.address) \cup {n}
    BY <2>2
  <2>7. \A a : a # x.address => SentAt(more, e, a) = SentAt(list, e, a)
    BY <2>2
  <2> QED BY <2>1, <2>3, <2>4, <2>5, <2>6, <2>7
<1>3. x.address \in Address /\ x.value \in Nat /\ x.kind = e
  BY DEF Event
<1>a. PICK s \in DOMAIN r : PutAt(q, r, s, x.address, x.value)
  BY <1>1, <1>3, PutSlots
<1>4.      /\ s \in Nat /\ r[s].address = x.address /\ r[s].value = x.value /\ r[s].time = block.now
           /\ \A k \in DOMAIN r : r[k].address = x.address => k = s
           /\ \A k \in DOMAIN r \ {s} : k \in DOMAIN q /\ r[k] = q[k] /\ q[k].address # x.address
           /\ \A k \in DOMAIN q : k \in DOMAIN r /\ r[k].address = q[k].address
           /\ s \notin DOMAIN q => \A k \in DOMAIN q : k < s
           /\ s \in DOMAIN q \/ \A k \in DOMAIN q : q[k].address # x.address
  BY <1>a DEF PutAt
<1>5. \A a : /\ SentAt(list, e, a) \subseteq DOMAIN list
             /\ \A m \in SentAt(list, e, a) : list[m].kind = e /\ list[m].address = a
  BY DEF SentAt
<1> HIDE DEF e, more, n
<1>6. \A j, k \in DOMAIN r : r[j].address = r[k].address => j = k
  BY <1>1, <1>4
<1>7. \A k \in DOMAIN r :
        /\ r[k].time = block.now
        /\ \E m \in SentAt(more, e, r[k].address) :
             more[m].value = r[k].value /\ \A l \in SentAt(more, e, r[k].address) : l <= m
  <2> SUFFICES ASSUME NEW k \in DOMAIN r
               PROVE  /\ r[k].time = block.now
                      /\ \E m \in SentAt(more, e, r[k].address) :
                           more[m].value = r[k].value /\ \A l \in SentAt(more, e, r[k].address) : l <= m
    OBVIOUS
  <2>1. CASE k = s
    <3>1. n \in SentAt(more, e, r[k].address) /\ more[n].value = r[k].value
      BY <1>2, <1>4, <2>1
    <3>2. \A l \in SentAt(more, e, r[k].address) : l <= n
      BY <1>2, <1>4, <1>5, <2>1
    <3> QED BY <1>4, <2>1, <3>1, <3>2
  <2>2. CASE k # s
    <3>1. k \in DOMAIN q /\ r[k] = q[k] /\ q[k].address # x.address
      BY <1>4, <2>2
    <3>2. SentAt(more, e, r[k].address) = SentAt(list, e, q[k].address)
      BY <1>2, <3>1
    <3>3. PICK m \in SentAt(list, e, q[k].address) :
            list[m].value = q[k].value /\ \A l \in SentAt(list, e, q[k].address) : l <= m
      BY <1>1, <3>1
    <3>4. more[m] = list[m]
      BY <1>2, <1>5
    <3> QED BY <1>1, <3>1, <3>2, <3>3, <3>4
  <2> QED BY <2>1, <2>2
<1>8. \A m \in DOMAIN more : more[m].kind = e => \E k \in DOMAIN r : r[k].address = more[m].address
  <2> SUFFICES ASSUME NEW m \in DOMAIN more, more[m].kind = e
               PROVE  \E k \in DOMAIN r : r[k].address = more[m].address
    OBVIOUS
  <2>1. CASE m = n
    BY <1>2, <1>4, <2>1
  <2>2. CASE m \in DOMAIN list
    BY <1>1, <1>2, <1>4, <2>2
  <2> QED BY <1>2, <2>1, <2>2
<1>9. \A j, k \in DOMAIN r : j < k =>
        \A m \in SentAt(more, e, r[k].address) : \E l \in SentAt(more, e, r[j].address) : l < m
  <2> SUFFICES ASSUME NEW j \in DOMAIN r, NEW k \in DOMAIN r, j < k,
                      NEW m \in SentAt(more, e, r[k].address)
               PROVE  \E l \in SentAt(more, e, r[j].address) : l < m
    OBVIOUS
  <2>1. \A a : SentAt(list, e, a) \subseteq SentAt(more, e, a)
    BY <1>2
  <2>2. CASE j \in DOMAIN q
    <3>1. r[j].address = q[j].address
      BY <1>4, <2>2
    <3>2. CASE m = n
      <4>1. PICK l \in SentAt(list, e, q[j].address) : TRUE
        BY <1>1, <2>2
      <4>2. l < n /\ l \in SentAt(more, e, r[j].address)
        BY <1>2, <1>5, <2>1, <3>1
      <4> QED BY <3>2, <4>2
    <3>3. CASE m # n
      <4>1. m \in SentAt(list, e, r[k].address)
        BY <1>2, <3>3
      <4>2. k \in DOMAIN q
        <5>1. list[m].kind = e /\ m \in DOMAIN list /\ list[m].address = r[k].address
          BY <1>5, <4>1
        <5>2. PICK i \in DOMAIN q : q[i].address = r[k].address
          BY <1>1, <5>1
        <5> QED BY <1>4, <1>6, <5>2
      <4>3. r[k].address = q[k].address
        BY <1>4, <4>2
      <4>4. PICK l \in SentAt(list, e, q[j].address) : l < m
        BY <1>1, <2>2, <4>1, <4>2, <4>3
      <4> QED BY <2>1, <3>1, <4>4
    <3> QED BY <3>2, <3>3
  <2>3. CASE j \notin DOMAIN q
    <3>1. j = s /\ k \in DOMAIN q
      BY <1>4, <2>3
    <3>2. DOMAIN q \subseteq Nat /\ k < j
      BY <1>4, <2>3, <3>1, LenProperties
    <3> QED BY <1>4, <3>1, <3>2
  <2> QED BY <2>2, <2>3
<1> QED BY <1>6, <1>7, <1>8, <1>9 DEF Recalls, e, more

\* What the caches recall, of the kinds of a set.
Recalled(pd, list, kinds) ==
  \A e \in kinds : Recalls(PreparedPending(pd).entries[e], list, e, block.now)

LEMMA RemembersRecalled ==
  ASSUME Context, NEW pd \in Pending, NEW list \in Seq(Event), Remembers(pd, list, block.now)
  PROVE  Recalled(pd, list, Expressions)
<1>1. CASE pd.time = block.now
  BY <1>1 DEF Remembers, PreparedPending, Recalled
<1>2. CASE pd.time # block.now
  <2>1. list = <<>> /\ PreparedPending(pd).entries = [e \in Expressions |-> <<>>]
    BY <1>2 DEF Remembers, PreparedPending, NoPending
  <2>2. ASSUME NEW e \in Expressions PROVE Recalls(<<>>, <<>>, e, block.now)
    <3>1. DOMAIN <<>> = {} /\ \A a : SentAt(<<>>, e, a) = {}
      BY DEF SentAt
    <3> QED BY <3>1 DEF Recalls
  <2> QED BY <2>1, <2>2 DEF Recalled
<1> QED BY <1>1, <1>2

LEMMA PreparedEntries ==
  ASSUME Context, NEW pd \in Pending, NEW e \in Expressions
  PROVE  PreparedPending(pd).entries[e] \in Seq(Entry)
<1>1. pd.entries \in [Expressions -> Seq(Entry)]
  BY DEF Pending, Entry
<1>2. <<>> \in Seq(Entry)
  BY EmptySeq
<1> QED BY <1>1, <1>2 DEF PreparedPending, NoPending

\* A cache that has no room for what is sent at this time.
Full(list, e) == \E q \in Seq(Entry) : Len(q) >= PendingSlots /\ Recalls(q, list, e, block.now)

LEMMA ExpressRecalled ==
  ASSUME NEW w, Context, Follows(w, note, global), w.ok, NEW x \in Event,
         NEW list \in Seq(Event), Recalled(w.pending, list, Expressions),
         NEW r, r = Express(w, x), r.ok
  PROVE  Recalled(r.pending, Append(list, x), Expressions)
<1> DEFINE d == PreparedPending(w.pending)
<1>1. /\ r.pending.time = block.now
      /\ \A f \in Expressions \ {x.kind} : r.pending.entries[f] = d.entries[f]
      /\ Puts(d.entries[x.kind], r.pending.entries[x.kind], r.ok, x.address, x.value)
  BY ExpressFollows, ZenonT(60)
<1>2. \A e \in Expressions : d.entries[e] \in Seq(Entry) /\ Recalls(d.entries[e], list, e, block.now)
  BY PreparedEntries DEF Follows, Work, Recalled
<1>3. PreparedPending(r.pending) = r.pending /\ x.kind \in Expressions
  BY <1>1 DEF PreparedPending, Event
<1> HIDE DEF d
<1>4. Puts(d.entries[x.kind], r.pending.entries[x.kind], TRUE, x.address, x.value)
  BY <1>1 DEF Puts
<1>5. Recalls(r.pending.entries[x.kind], Append(list, x), x.kind, block.now)
  BY <1>2, <1>3, <1>4, PutRecalls
<1>6. ASSUME NEW e \in Expressions \ {x.kind}
      PROVE  Recalls(r.pending.entries[e], Append(list, x), e, block.now)
  BY <1>1, <1>2, RecallsOthers
<1> QED BY <1>3, <1>5, <1>6 DEF Recalled

LEMMA ExpressRefused ==
  ASSUME NEW w, Context, Follows(w, note, global), w.ok, NEW x \in Event,
         NEW list \in Seq(Event), Recalled(w.pending, list, {x.kind}),
         NEW r, r = Express(w, x), ~r.ok
  PROVE  Full(list, x.kind)
<1> DEFINE d == PreparedPending(w.pending)
<1>1. Puts(d.entries[x.kind], r.pending.entries[x.kind], r.ok, x.address, x.value)
  BY ExpressFollows
<1>2. x.kind \in Expressions
  BY DEF Event
<1>3. d.entries[x.kind] \in Seq(Entry) /\ Recalls(d.entries[x.kind], list, x.kind, block.now)
  BY <1>2, PreparedEntries DEF Follows, Work, Recalled
<1>4. Len(d.entries[x.kind]) >= PendingSlots
  BY <1>1 DEF Puts
<1> QED BY <1>3, <1>4 DEF Full

-----------------------------------------------------------------------------
(* Several, one after the other. *)

LessThan == {pair \in Nat \X Nat : pair[1] < pair[2]}

\* A set of natural numbers that holds 0 and the successor of each it holds is all of them.
LEMMA InductiveSet ==
  ASSUME NEW S, 0 \in S, \A n \in Nat : n \in S => n + 1 \in S
  PROVE  \A n \in Nat : n \in S
<1>1. SUFFICES ASSUME Nat \ S # {} PROVE FALSE
  OBVIOUS
<1>2. IsWellFoundedOn(LessThan, Nat)
  BY NatLessThanWellFounded DEF OpToRel, LessThan
<1>3. PICK n \in Nat \ S : \A m \in Nat \ S : ~ (m < n)
  <2>1. PICK n \in Nat \ S : \A m \in Nat \ S : <<m, n>> \notin LessThan
    BY <1>1, <1>2, WFMin
  <2> QED BY <2>1 DEF LessThan
<1>4. n # 0 /\ n - 1 \in Nat /\ n - 1 \in S
  BY <1>3
<1> QED BY <1>3, <1>4

\* The function ExpressAll is defined by.
Runs(after, w, list, n) ==
  after = [k \in 0 .. n |-> IF k = 0 THEN w ELSE Express(after[k - 1], list[k])]

LEMMA RunsExists ==
  ASSUME NEW w, NEW list, NEW n \in Nat
  PROVE  \E after : Runs(after, w, list, n)
<1> DEFINE S == {k \in Nat : \E after : Runs(after, w, list, k)}
<1>1. 0 \in S
  <2> DEFINE a == [k \in 0 .. 0 |-> w]
  <2>1. a = [k \in 0 .. 0 |-> IF k = 0 THEN w ELSE Express(a[k - 1], list[k])]
    <3>1. \A k \in 0 .. 0 : k = 0
      OBVIOUS
    <3> QED BY <3>1
  <2>2. Runs(a, w, list, 0)
    BY <2>1 DEF Runs
  <2> HIDE DEF a
  <2> QED BY <2>2
<1>2. ASSUME NEW k \in Nat, k \in S PROVE k + 1 \in S
  <2>1. PICK a : Runs(a, w, list, k)
    BY <1>2
  <2> DEFINE b == [j \in 0 .. k + 1 |-> IF j = k + 1 THEN Express(a[k], list[k + 1]) ELSE a[j]]
  <2>2. ASSUME NEW j \in 0 .. k + 1
        PROVE  b[j] = IF j = 0 THEN w ELSE Express(b[j - 1], list[j])
    <3>1. CASE j = k + 1
      <4>1. k \in 0 .. k + 1 /\ k # k + 1 /\ j - 1 = k /\ j # 0
        BY <3>1
      <4>2. b[k] = a[k]
        BY <4>1
      <4> QED BY <3>1, <4>1, <4>2
    <3>2. CASE j # k + 1
      <4>1. j \in 0 .. k /\ (j # 0 => j - 1 \in 0 .. k + 1 /\ j - 1 # k + 1)
        BY <3>2
      <4>2. a[j] = IF j = 0 THEN w ELSE Express(a[j - 1], list[j])
        BY <2>1, <4>1 DEF Runs
      <4>3. j # 0 => b[j - 1] = a[j - 1]
        BY <4>1
      <4>4. b[j] = a[j]
        BY <3>2
      <4> QED BY <4>2, <4>3, <4>4
    <3> QED BY <3>1, <3>2
  <2>3. b = [j \in 0 .. k + 1 |-> b[j]]
    OBVIOUS
  <2> HIDE DEF b
  <2>4. b = [j \in 0 .. k + 1 |-> IF j = 0 THEN w ELSE Express(b[j - 1], list[j])]
    BY <2>2, <2>3
  <2>5. Runs(b, w, list, k + 1)
    BY <2>4 DEF Runs
  <2> QED BY <2>5
<1> HIDE DEF S
<1>3. n \in S
  BY <1>1, <1>2, InductiveSet
<1> QED BY <1>3 DEF S

LEMMA ConcatNext ==
  ASSUME NEW old \in Seq(Event), NEW list \in Seq(Event), NEW k \in Nat, k < Len(list)
  PROVE  /\ old \o SubSeq(list, 1, k) \in Seq(Event) /\ list[k + 1] \in Event
         /\ old \o SubSeq(list, 1, k + 1) = Append(old \o SubSeq(list, 1, k), list[k + 1])
<1>1. Len(list) \in Nat /\ k + 1 \in 1 .. Len(list) /\ \A i \in 1 .. Len(list) : list[i] \in Event
  BY LenProperties, ElementOfSeq
<1>2. SubSeq(list, 1, k) \in Seq(Event)
  <2>1. \A i \in 1 .. k : list[i] \in Event
    BY <1>1
  <2> QED BY <2>1, SubSeqProperties
<1>3. SubSeq(list, 1, k + 1) = SubSeq(list, 1, k) \o <<list[k + 1]>>
  <2>1. 1 \in 1 .. Len(list) /\ k + 1 \in 1 .. Len(list) /\ (k + 1) - 1 = k
    BY <1>1
  <2> QED BY <2>1, SubSeqRecursiveSecond
<1>4. <<list[k + 1]>> \in Seq(Event) /\ list[k + 1] \in Event
  BY <1>1
<1>5. old \o SubSeq(list, 1, k) \in Seq(Event)
  BY <1>2, ConcatProperties
<1>6. Append(old \o SubSeq(list, 1, k), list[k + 1]) = (old \o SubSeq(list, 1, k)) \o <<list[k + 1]>>
  BY <1>4, <1>5, AppendIsConcat
<1>7. (old \o SubSeq(list, 1, k)) \o <<list[k + 1]>> = old \o (SubSeq(list, 1, k) \o <<list[k + 1]>>)
  <2> DEFINE t == SubSeq(list, 1, k)
             u == <<list[k + 1]>>
  <2>1. t \in Seq(Event) /\ u \in Seq(Event)
    BY <1>2, <1>4
  <2> HIDE DEF t, u
  <2>2. (old \o t) \o u = old \o (t \o u)
    BY <2>1, ConcatAssociative
  <2> QED BY <2>2 DEF t, u
<1> QED BY <1>3, <1>4, <1>5, <1>6, <1>7

\* The sources stay followed, and the caches recall old and the list together, or
\* one of them was full.
LEMMA ExpressAllFollows ==
  ASSUME NEW w, Context, Follows(w, note, global), w.ok, NEW old \in Seq(Event),
         Remembers(w.pending, old, block.now), NEW list \in Seq(Event),
         \A j, k \in DOMAIN list : list[j].kind = list[k].kind => j = k,
         NEW r, r = ExpressAll(w, list)
  PROVE  /\ Follows(r, note, global)
         /\ r.ok => Recalled(r.pending, old \o list, Expressions)
         /\ r.ok => r.pending.time = block.now \/ (r = w /\ list = <<>>)
         /\ ~r.ok => \E e \in Expressions : Full(old, e)
<1> DEFINE n == Len(list)
           after == CHOOSE f : Runs(f, w, list, n)
           Kinds(k) == {list[j].kind : j \in 1 .. k}
           S == {k \in Nat : k <= n =>
                  /\ Follows(after[k], note, global)
                  /\ after[k].ok => /\ Recalled(after[k].pending, old \o SubSeq(list, 1, k), Expressions)
                                    /\ Recalled(after[k].pending, old, Expressions \ Kinds(k))
                                    /\ after[k].pending.time = block.now \/ k = 0
                  /\ ~after[k].ok => \E e \in Expressions : Full(old, e)}
<1>1. n \in Nat /\ DOMAIN list = 1 .. n
  BY LenProperties
<1>2. r = after[n]
  BY DEF ExpressAll, Runs
<1>3. Runs(after, w, list, n)
  BY <1>1, RunsExists
<1> HIDE DEF after
<1>4. after[0] = w /\ \A k \in Nat : k < n => after[k + 1] = Express(after[k], list[k + 1])
  <2>1. 0 \in 0 .. n
    BY <1>1
  <2>2. ASSUME NEW k \in Nat, k < n PROVE k + 1 \in 0 .. n /\ k + 1 # 0 /\ (k + 1) - 1 = k
    BY <1>1, <2>2
  <2> QED BY <1>3, <2>1, <2>2 DEF Runs
<1>5. old \o <<>> = old
  BY ConcatEmptySeq
<1>6. 0 \in S
  <2>1. SubSeq(list, 1, 0) = <<>>
    BY SubSeqEmpty
  <2>2. Recalled(w.pending, old, Expressions)
    BY RemembersRecalled DEF Follows, Work
  <2> QED BY <1>4, <1>5, <2>1, <2>2 DEF Recalled
<1>7. ASSUME NEW k \in Nat, k \in S PROVE k + 1 \in S
  <2> SUFFICES ASSUME k + 1 <= n
               PROVE  /\ Follows(after[k + 1], note, global)
                      /\ after[k + 1].ok =>
                           /\ Recalled(after[k + 1].pending, old \o SubSeq(list, 1, k + 1), Expressions)
                           /\ Recalled(after[k + 1].pending, old, Expressions \ Kinds(k + 1))
                           /\ after[k + 1].pending.time = block.now
                      /\ ~after[k + 1].ok => \E e \in Expressions : Full(old, e)
    OBVIOUS
  <2> DEFINE v == after[k]
             u == after[k + 1]
             x == list[k + 1]
             so == old \o SubSeq(list, 1, k)
  <2>1. k < n /\ k <= n /\ k + 1 \in 1 .. n
    BY <1>1
  <2>2. /\ Follows(v, note, global)
        /\ v.ok => /\ Recalled(v.pending, so, Expressions)
                   /\ Recalled(v.pending, old, Expressions \ Kinds(k))
        /\ ~v.ok => \E e \in Expressions : Full(old, e)
    BY <1>7, <2>1
  <2>3. u = Express(v, x)
    BY <1>4, <2>1
  <2>4. so \in Seq(Event) /\ x \in Event /\ old \o SubSeq(list, 1, k + 1) = Append(so, x)
    BY <2>1, ConcatNext
  <2>5. /\ x.kind \notin Kinds(k) /\ x.kind \in Expressions
        /\ Kinds(k + 1) = Kinds(k) \cup {x.kind}
    <3>1. \A j \in 1 .. k : j \in DOMAIN list /\ j # k + 1
      BY <1>1, <2>1
    <3>2. \A j : j \in 1 .. k + 1 <=> j \in 1 .. k \/ j = k + 1
      OBVIOUS
    <3> QED BY <1>1, <2>1, <2>4, <3>1, <3>2, ZenonT(60) DEF Event
  <2> HIDE DEF S, Kinds, v, u, x, so
  <2>6. CASE ~v.ok
    <3>1. u = v
      BY <2>3, <2>6 DEF Express
    <3> QED BY <2>2, <2>6, <3>1 DEF u
  <2>7. CASE v.ok
    <3>1. /\ Follows(u, note, global) /\ u.pending.time = block.now
          /\ \A f \in Expressions \ {x.kind} :
               u.pending.entries[f] = PreparedPending(v.pending).entries[f]
      BY <2>2, <2>3, <2>4, <2>7, ExpressFollows
    <3>2. u.ok => Recalled(u.pending, Append(so, x), Expressions)
      BY <2>2, <2>3, <2>4, <2>7, ExpressRecalled
    <3>3. Recalled(u.pending, old, Expressions \ Kinds(k + 1))
      <4>1. PreparedPending(u.pending) = u.pending
        BY <3>1 DEF PreparedPending
      <4> QED BY <2>2, <2>5, <2>7, <3>1, <4>1 DEF Recalled
    <3>4. ~u.ok => Full(old, x.kind)
      <4>1. Recalled(v.pending, old, {x.kind})
        BY <2>2, <2>5, <2>7 DEF Recalled
      <4> QED BY <2>2, <2>3, <2>4, <2>7, <4>1, ExpressRefused
    <3> QED BY <2>4, <2>5, <3>1, <3>2, <3>3, <3>4 DEF u
  <2> QED BY <2>6, <2>7
<1> HIDE DEF S
<1>8. n \in S
  BY <1>1, <1>6, <1>7, InductiveSet
<1>9. SubSeq(list, 1, n) = list
  BY SubSeqFull
<1>10. n = 0 => list = <<>> /\ r = w
  BY <1>2, <1>4, EmptySeq
<1>11. /\ Follows(after[n], note, global)
       /\ after[n].ok => /\ Recalled(after[n].pending, old \o SubSeq(list, 1, n), Expressions)
                         /\ after[n].pending.time = block.now \/ n = 0
       /\ ~after[n].ok => \E e \in Expressions : Full(old, e)
  BY <1>1, <1>8 DEF S
<1> HIDE DEF n
<1> QED BY <1>2, <1>9, <1>10, <1>11

\* A set of positions has a last one.
LEMMA MaxIsIn ==
  ASSUME NEW n \in Nat, NEW S \in SUBSET (1 .. n), S # {}
  PROVE  Max(S) \in S /\ \A x \in S : x <= Max(S)
<1> DEFINE T == {n - x : x \in S}
<1>1. T \subseteq Nat /\ T # {}
  <2>1. \A x \in S : n - x \in Nat
    OBVIOUS
  <2> QED BY <2>1
<1>2. IsWellFoundedOn(LessThan, Nat)
  BY NatLessThanWellFounded DEF OpToRel, LessThan
<1>3. PICK y \in T : \A z \in T : <<z, y>> \notin LessThan
  BY <1>1, <1>2, WFMin
<1>4. PICK m \in S : y = n - m
  OBVIOUS
<1>5. \A x \in S : x <= m
  <2> SUFFICES ASSUME NEW x \in S PROVE x <= m
    OBVIOUS
  <2>1. n - x \in T /\ n - x \in Nat /\ y \in Nat
    BY <1>1
  <2>2. ~(n - x < y)
    BY <1>3, <2>1 DEF LessThan
  <2> QED BY <1>4, <2>2
<1>6. \A x \in S : m >= x
  BY <1>5
<1>7. Max(S) \in S /\ \A x \in S : Max(S) >= x
  BY <1>6 DEF Max
<1> QED BY <1>7

-----------------------------------------------------------------------------
(* A note that starts. *)

LEMMA Parameters ==
  /\ Params = {"fine", "cutoff", "resonance", "amount", "pan", "level"}
  /\ {"fine", "cutoff", "resonance", "amount", "pan", "level"} \subseteq Params
BY DEF Params

\* Every control is set, or all but the level, and the filter is that of the controls.
LEMMA SetAllSets ==
  ASSUME NEW v \in Engine, NEW a \in Source, global \in Global, NEW new \in BOOLEAN,
         NEW u, u = SetAll(v, a, new)
  PROVE  /\ u \in Engine /\ u.brightness = v.brightness /\ Filtered(u)
         /\ \A p \in Params : u.set[p] =
              IF p # "level" \/ new THEN Combined(a, global, p) ELSE v.set["level"]
<1> DEFINE x(p) == Combined(a, global, p)
           set == [v.set EXCEPT !["fine"] = x("fine"), !["pan"] = x("pan"),
                                !["level"] = IF new THEN x("level") ELSE @]
           b == [v EXCEPT !.set["fine"] = x("fine"), !.set["pan"] = x("pan"),
                          !.set["level"] = IF new THEN x("level") ELSE @]
           c == SetCutoff(b, x("cutoff"))
           d == SetResonance(c, x("resonance"))
<1>1. v.set \in [Params -> Control] /\ v.brightness \in Nat /\ v.coefficients \in Nat \X Nat
      /\ v.sweep \in Nat \X Nat
      /\ v = [set |-> v.set, brightness |-> v.brightness, coefficients |-> v.coefficients, sweep |-> v.sweep]
  BY DEF Engine
<1>2. \A p \in Params : x(p) \in Control
  BY CombinedType
<1>3. u = SetAmount(d, x("amount"))
  BY DEF SetAll
<1> HIDE DEF x
<1>4. set \in [Params -> Control]
      /\ \A p \in Params : set[p] =
           CASE p \in {"fine", "pan"} -> x(p) [] p = "level" /\ new -> x(p) [] OTHER -> v.set[p]
  BY <1>1, <1>2, Parameters
<1>5. b \in Engine /\ b.set = set /\ b.brightness = v.brightness
  <2> DEFINE b1 == [v EXCEPT !.set["fine"] = x("fine")]
             b2 == [b1 EXCEPT !.set["pan"] = x("pan")]
  <2>a. b1 = [v EXCEPT !.set = [v.set EXCEPT !["fine"] = x("fine")]]
    BY <1>1
  <2>b. b2 = [v EXCEPT !.set = [v.set EXCEPT !["fine"] = x("fine"), !["pan"] = x("pan")]]
    BY <1>1
  <2>c. b = [b2 EXCEPT !.set["level"] = IF new THEN x("level") ELSE b2.set["level"]]
    OBVIOUS
  <2>1. b = [set |-> set, brightness |-> v.brightness, coefficients |-> v.coefficients, sweep |-> v.sweep]
    <3> HIDE DEF b1, b2, b
    <3> QED BY <1>1, <2>b, <2>c
  <2> HIDE DEF set, b
  <2> QED BY <1>1, <1>4, <2>1 DEF Engine
<1> HIDE DEF set, b
<1>6. c \in Engine /\ c.set = [b.set EXCEPT !["cutoff"] = x("cutoff")] /\ c.brightness = v.brightness
      /\ Filtered(c)
  <2>1. c = EngineSet(b, "cutoff", x("cutoff")) /\ "cutoff" \in Params /\ x("cutoff") \in Control
    BY <1>2, Parameters DEF EngineSet
  <2>2. c \in Engine /\ c.set = [b.set EXCEPT !["cutoff"] = x("cutoff")] /\ c.brightness = b.brightness
    <3> HIDE DEF c
    <3> QED BY <1>5, <2>1, EngineSets
  <2>3. Filtered(c)
    <3>1. b.set \in [Params -> Control]
          /\ b = [set |-> b.set, brightness |-> b.brightness, coefficients |-> b.coefficients, sweep |-> b.sweep]
      BY <1>5 DEF Engine
    <3>2. /\ c.coefficients = <<x("cutoff").param, b.set["resonance"].param>>
          /\ c.sweep = <<x("cutoff").param, b.set["amount"].param>>
          /\ c.set = [b.set EXCEPT !["cutoff"] = x("cutoff")]
      BY <3>1 DEF SetCutoff
    <3> HIDE DEF c
    <3> QED BY <3>1, <3>2, Parameters DEF Filtered
  <2> QED BY <1>5, <2>2, <2>3
<1> HIDE DEF c
<1>7. d \in Engine /\ d.set = [c.set EXCEPT !["resonance"] = x("resonance")] /\ d.brightness = v.brightness
      /\ Filtered(d)
  <2>1. d = EngineSet(c, "resonance", x("resonance")) /\ "resonance" \in Params /\ x("resonance") \in Control
    BY <1>2, Parameters DEF EngineSet
  <2> HIDE DEF d
  <2> QED BY <1>6, <2>1, EngineSets
<1> HIDE DEF d
<1>8. u \in Engine /\ u.set = [d.set EXCEPT !["amount"] = x("amount")] /\ u.brightness = v.brightness
      /\ Filtered(u)
  <2>1. u = EngineSet(d, "amount", x("amount")) /\ "amount" \in Params /\ x("amount") \in Control
    BY <1>2, <1>3, Parameters DEF EngineSet
  <2> QED BY <1>7, <2>1, EngineSets
<1>9. \A p \in Params : u.set[p] = IF p # "level" \/ new THEN x(p) ELSE v.set["level"]
  <2>1. DOMAIN set = Params /\ c.set = [set EXCEPT !["cutoff"] = x("cutoff")]
    BY <1>4, <1>5, <1>6
  <2>2. u.set = [[[set EXCEPT !["cutoff"] = x("cutoff")] EXCEPT !["resonance"] = x("resonance")]
                   EXCEPT !["amount"] = x("amount")]
    BY <1>7, <1>8, <2>1
  <2> QED BY <1>4, <2>1, <2>2, Parameters
<1> QED BY <1>8, <1>9 DEF x

LEMMA SilentVoice == Silence \in Engine
<1>1. /\ [e \in {} |-> 0] \in [{} -> Nat]
      /\ NoControl \in Control
  BY DEF NoControl, Control
<1> QED BY <1>1 DEF Silence, Engine

LEMMA StartedVoice ==
  ASSUME global \in Global, NEW n \in Keys
  PROVE  Started(n) \in Source /\ Started(n).tracked = n /\ EngineStarted \in Engine
<1>1. global.coarse \in Values /\ global.coarse \in Nat
  BY Constants DEF Global
<1>2. Untracked \in Source
  <2>1. Neutral \in [Expressions -> Nat] /\ [p \in Params |-> Unset] \in [Params -> Values \cup {Unset}]
    BY DEF Neutral
  <2> QED BY <2>1, Constants DEF Untracked, Source
<1>3. Started(n) \in Source /\ Started(n).tracked = n
  BY <1>1, <1>2 DEF Source, Started
<1>4. EngineStarted \in Engine
  <2> DEFINE f == [NoControl EXCEPT !.coarse = global.coarse]
             set == [Silence.set EXCEPT !["fine"] = f]
  <2>1. [e \in {} |-> 0] \in [{} -> Nat]
    OBVIOUS
  <2>2. f \in Control
    <3>1. f = [param |-> 0, expressions |-> [e \in {} |-> 0], coarse |-> global.coarse]
      BY DEF NoControl
    <3> HIDE DEF f
    <3> QED BY <1>1, <2>1, <3>1 DEF Control
  <2>3. Silence.set = [p \in Params |-> NoControl] /\ Silence.set \in [Params -> Control]
    BY SilentVoice DEF Silence, Engine
  <2>4. EngineStarted = [Silence EXCEPT !.set = set]
    BY <2>3, Parameters DEF EngineStarted, Silence
  <2>5. set \in [Params -> Control]
    BY <2>2, <2>3, Parameters
  <2> HIDE DEF f, set
  <2> QED BY <2>4, <2>5, SilentVoice DEF Engine
<1> QED BY <1>3, <1>4

LEMMA HeardType ==
  ASSUME Context, NEW pd \in Pending, NEW n \in Keys
  PROVE  Heard(pd, n) \in [Expressions -> Nat]
<1> SUFFICES ASSUME NEW e \in Expressions PROVE PendingFor(pd, e, n) \in Nat
  BY DEF Heard
<1> DEFINE q == pd.entries[e]
<1>1. q \in Seq(Entry)
  BY DEF Pending, Entry
<1>2. Found(q, n) \subseteq 1 .. Len(q) /\ Len(q) \in Nat
  BY <1>1, LenProperties DEF Found
<1>3. CASE Found(q, n) = {}
  BY <1>3 DEF PendingFor, Neutral
<1>4. CASE Found(q, n) # {}
  <2>1. Max(Found(q, n)) \in Found(q, n)
    BY <1>2, <1>4, MaxIsIn
  <2>2. q[Max(Found(q, n))] \in Entry
    BY <1>1, <1>2, <2>1, ElementOfSeq
  <2> QED BY <1>4, <2>2 DEF PendingFor, Entry
<1> QED BY <1>3, <1>4

\* What it comes to when voice i gets note n.
Begins(w, r, i, n) ==
  /\ Follows(r, [note EXCEPT ![i] = n], global) /\ r.ok = w.ok
  /\ r.pending = PreparedPending(w.pending) /\ r.pending \in Pending
  /\ r.adapter[i].expression = Heard(r.pending, n)

LEMMA DispatchedFollows ==
  ASSUME NEW w, Context, Follows(w, note, global), NEW i \in Indices, NEW n \in Keys,
         NEW r, r = Dispatched(w, i, n)
  PROVE  Begins(w, r, i, n)
<1> DEFINE notes == [note EXCEPT ![i] = n]
           d == Prepared(w)
           s == Sync(d, notes)
           heard == Heard(s.pending, n)
           new == [Started(n) EXCEPT !.expression = heard]
           lit == [EngineStarted EXCEPT !.brightness = heard["brightness"]]
           adapters == [s.adapter EXCEPT ![i] = new]
           engines == [s.engine EXCEPT ![i] = lit]
           set == [j \in Indices |-> IF adapters[j].tracked = None THEN engines[j]
                                     ELSE SetAll(engines[j], adapters[j], i = j)]
<1>1. /\ note \in [Indices -> Keys \cup {None}] /\ notes \in [Indices -> Keys \cup {None}]
      /\ global \in Global /\ w \in Work
  BY DEF Context, Follows
<1>2. /\ d \in Work /\ Core(d) = Core(w) /\ d.ok = w.ok
      /\ d.pending = PreparedPending(w.pending) /\ d.pending \in Pending
  BY <1>1, PreparedIsNow
<1>3. d.engine = w.engine /\ d.adapter = w.adapter /\ d.spoiled = w.spoiled
  BY <1>2 DEF Core
<1>4. /\ s \in Work /\ s = [d EXCEPT !.adapter = s.adapter]
      /\ \A j \in Indices : s.adapter[j].tracked = notes[j]
      /\ \A j \in Indices : notes[j] # None /\ d.adapter[j].tracked = notes[j] => s.adapter[j] = d.adapter[j]
  <2> HIDE DEF d, notes
  <2> QED BY <1>1, <1>2, SyncTracks
<1>5. r = [s EXCEPT !.spoiled = {}, !.adapter = adapters, !.engine = set]
  BY DEF Dispatched
<1>6. \A j \in Indices : notes[j] = IF j = i THEN n ELSE note[j]
  BY <1>1
<1> HIDE DEF notes, d, s
<1>7. /\ s.engine = w.engine /\ s.ok = w.ok /\ s.pending = PreparedPending(w.pending)
      /\ s.pending \in Pending
      /\ s.engine \in [Indices -> Engine] /\ s.adapter \in [Indices -> Source]
      /\ w.engine \in [Indices -> Engine] /\ w.adapter \in [Indices -> Source]
  BY <1>1, <1>2, <1>3, <1>4 DEF Work
<1>8. heard \in [Expressions -> Nat] /\ "brightness" \in Expressions
  BY <1>7, HeardType DEF Expressions
<1> HIDE DEF heard
<1>9. new \in Source /\ new.tracked = n /\ new.expression = heard
  BY <1>1, <1>8, StartedVoice DEF Source
<1>10. lit \in Engine /\ lit.brightness = heard["brightness"]
  <2>1. heard["brightness"] \in Nat
    BY <1>8
  <2> QED BY <1>1, <2>1, StartedVoice DEF Engine
<1> HIDE DEF new, lit
<1>11. /\ adapters \in [Indices -> Source] /\ engines \in [Indices -> Engine]
       /\ adapters[i] = new /\ engines[i] = lit
       /\ \A j \in Indices \ {i} : adapters[j] = s.adapter[j] /\ engines[j] = s.engine[j]
  BY <1>7, <1>9, <1>10
<1> HIDE DEF adapters, engines
<1>12. ASSUME NEW j \in Indices
       PROVE  /\ adapters[j].tracked = notes[j]
              /\ set[j] \in Engine
              /\ notes[j] # None => Sounds(set[j], adapters[j], global, {})
  <2>1. adapters[j].tracked = notes[j]
    BY <1>4, <1>6, <1>9, <1>11
  <2>2. CASE notes[j] = None
    <3>1. set[j] = engines[j]
      BY <2>1, <2>2
    <3> QED BY <1>11, <2>1, <2>2, <3>1
  <2>3. CASE notes[j] # None
    <3>1. set[j] = SetAll(engines[j], adapters[j], i = j)
      BY <2>1, <2>3
    <3> DEFINE u == set[j]
               v == engines[j]
               a == adapters[j]
               same == i = j
    <3>2. v \in Engine /\ a \in Source /\ same \in BOOLEAN
      BY <1>11
    <3>3. u = SetAll(v, a, same)
      BY <3>1
    <3>4. v.brightness = a.expression["brightness"]
          /\ (i # j => v.set["level"] = Combined(a, global, "level"))
      <4>1. CASE i = j
        BY <1>9, <1>10, <1>11, <4>1
      <4>2. CASE i # j
        <5>1. notes[j] = note[j] /\ note[j] # None
          BY <1>6, <2>3, <4>2
        <5>2. w.adapter[j].tracked = note[j] /\ Sounds(w.engine[j], w.adapter[j], global, w.spoiled)
          BY <5>1 DEF Follows
        <5>3. a = w.adapter[j] /\ v = w.engine[j]
          BY <1>3, <1>4, <1>7, <1>11, <4>2, <5>1, <5>2
        <5>4. "level" \in Params \ w.spoiled
          BY <1>1, Parameters DEF Work
        <5> QED BY <4>2, <5>2, <5>3, <5>4 DEF Sounds
      <4> QED BY <4>1, <4>2
    <3> HIDE DEF u, v, a, set, same
    <3>5. /\ u \in Engine /\ u.brightness = v.brightness /\ Filtered(u)
          /\ \A p \in Params : u.set[p] =
               IF p # "level" \/ same THEN Combined(a, global, p) ELSE v.set["level"]
      BY <1>1, <3>2, <3>3, SetAllSets
    <3>6. \A p \in Params : u.set[p] = Combined(a, global, p)
      BY <3>4, <3>5 DEF same
    <3>7. Sounds(u, a, global, {})
      BY <3>4, <3>5, <3>6, SoundsHasFilter
    <3> QED BY <2>1, <3>5, <3>7 DEF u, a
  <2> QED BY <2>2, <2>3
<1>13. set \in [Indices -> Engine]
  <2>1. set = [j \in Indices |-> set[j]]
    OBVIOUS
  <2> HIDE DEF set
  <2> QED BY <1>12, <2>1
<1> HIDE DEF set
<1>14. /\ r \in Work /\ r.engine = set /\ r.adapter = adapters /\ r.spoiled = {} /\ r.ok = w.ok
       /\ r.pending = s.pending
  BY <1>4, <1>5, <1>7, <1>11, <1>13 DEF Work
<1>15. Follows(r, notes, global)
  <2>1. ASSUME NEW j \in Indices, notes[j] # None
        PROVE  r.adapter[j].tracked = notes[j] /\ Sounds(r.engine[j], r.adapter[j], global, r.spoiled)
    BY <1>12, <1>14, <2>1
  <2> QED BY <1>14, <2>1 DEF Follows
<1> QED BY <1>7, <1>9, <1>11, <1>14, <1>15 DEF notes, heard, Begins

-----------------------------------------------------------------------------
(* What a note finds in the caches. *)

\* When no address repeats, the last slot for a note has what was sent last.
LEMMA PendingIsLast ==
  ASSUME NEW pd, NEW e \in Expressions, NEW n \in Keys, NEW list \in Seq(Event),
         pd.entries[e] \in Seq(Entry), Recalls(pd.entries[e], list, e, block.now),
         ~Repeats(list, SentTo(list, e, n))
  PROVE  PendingFor(pd, e, n) = IF SentTo(list, e, n) = {} THEN Neutral[e]
                                ELSE list[Max(SentTo(list, e, n))].value
<1> DEFINE q == pd.entries[e]
           slots == Found(q, n)
           of == SentTo(list, e, n)
<1>1. /\ q \in Seq(Entry) /\ Len(q) \in Nat /\ DOMAIN q = 1 .. Len(q)
      /\ Len(list) \in Nat /\ DOMAIN list = 1 .. Len(list)
  BY LenProperties
<1>2. /\ \A k \in DOMAIN q : q[k].time = block.now
      /\ \A k \in DOMAIN q : \E m \in SentAt(list, e, q[k].address) : list[m].value = q[k].value
      /\ \A m \in DOMAIN list : list[m].kind = e => \E k \in DOMAIN q : q[k].address = list[m].address
      /\ \A j, k \in DOMAIN q : j < k =>
           \A m \in SentAt(list, e, q[k].address) : \E l \in SentAt(list, e, q[j].address) : l < m
  BY DEF Recalls
<1>3. PendingFor(pd, e, n) = IF slots = {} THEN Neutral[e] ELSE q[Max(slots)].value
  BY DEF PendingFor
<1>4. /\ \A k : k \in slots <=> k \in DOMAIN q /\ Matches(q[k].address, n)
      /\ \A m : m \in of <=> m \in DOMAIN list /\ list[m].kind = e /\ Matches(list[m].address, n)
      /\ \A a, m : m \in SentAt(list, e, a) <=> m \in DOMAIN list /\ list[m].kind = e /\ list[m].address = a
  BY <1>2 DEF Found, SentTo, SentAt
<1>5. \A j, m \in of : list[j].address = list[m].address => j = m
  <2>1. of \subseteq Nat
    BY <1>1, <1>4
  <2>2. \A j, m \in of : j < m => list[j].address # list[m].address
    BY DEF Repeats
  <2> HIDE DEF of
  <2> QED BY <2>1, <2>2
<1> HIDE DEF q, slots, of
<1>6. CASE slots = {}
  <2>1. of = {}
    BY <1>2, <1>4, <1>6
  <2> QED BY <1>3, <1>6, <2>1 DEF of
<1>7. CASE slots # {}
  <2>1. slots \in SUBSET (1 .. Len(q)) /\ of \in SUBSET (1 .. Len(list))
    BY <1>1, <1>4
  <2>2. /\ Max(slots) \in slots /\ \A k \in slots : k <= Max(slots)
    BY <1>1, <1>7, <2>1, MaxIsIn
  <2>3. of # {}
    BY <1>2, <1>4, <2>2
  <2>4. Max(of) \in of /\ \A m \in of : m <= Max(of)
    BY <1>1, <2>1, <2>3, MaxIsIn
  <2> DEFINE top == Max(slots)
             last == Max(of)
  <2>5. PICK m \in SentAt(list, e, q[top].address) : list[m].value = q[top].value
    BY <1>2, <1>4, <2>2
  <2>6. m \in of /\ list[m].address = q[top].address
    BY <1>4, <2>2, <2>5
  <2>7. PICK k \in DOMAIN q : q[k].address = list[last].address
    BY <1>2, <1>4, <2>4
  <2>8. k \in slots /\ k <= top
    BY <1>4, <2>2, <2>4, <2>7
  <2> HIDE DEF top, last
  <2>9. m = last
    <3>1. CASE k = top
      BY <1>5, <2>4, <2>6, <2>7, <3>1 DEF last
    <3>2. CASE k < top
      <4>1. PICK l \in SentAt(list, e, q[k].address) : l < m
        BY <1>2, <1>4, <2>2, <2>5, <2>7, <3>2 DEF top
      <4>2. l \in of /\ list[l].address = list[last].address
        BY <1>4, <2>7, <2>8, <4>1
      <4>3. l = last
        BY <1>5, <2>4, <4>2 DEF last
      <4>4. m <= last /\ m \in Nat /\ last \in Nat
        <5>1. m <= last /\ last \in of
          BY <2>4, <2>6 DEF last
        <5>2. \A x \in of : x \in Nat
          BY <1>1, <2>1
        <5> QED BY <2>6, <5>1, <5>2
      <4> QED BY <4>1, <4>3, <4>4
    <3> QED BY <2>1, <2>2, <2>8, <3>1, <3>2 DEF top
  <2> QED BY <1>3, <1>7, <2>3, <2>5, <2>9 DEF top, last, of
<1> QED BY <1>6, <1>7

\* When the slots for a note have one value, it is the one that is found.
LEMMA PendingIsCommon ==
  ASSUME NEW pd, NEW e \in Expressions, NEW n \in Keys, NEW value,
         pd.entries[e] \in Seq(Entry), Found(pd.entries[e], n) # {},
         \A k \in Found(pd.entries[e], n) : pd.entries[e][k].value = value
  PROVE  PendingFor(pd, e, n) = value
<1> DEFINE q == pd.entries[e]
<1>1. Found(q, n) \in SUBSET (1 .. Len(q)) /\ Len(q) \in Nat
  BY LenProperties DEF Found
<1>2. Max(Found(q, n)) \in Found(q, n)
  BY <1>1, MaxIsIn
<1> QED BY <1>2 DEF PendingFor

-----------------------------------------------------------------------------
(* A cache that is full was sent to as many addresses as it has slots. *)

LEMMA FullCounts ==
  ASSUME NEW list \in Seq(Event), NEW e \in Expressions, Full(list, e)
  PROVE  Cardinality({list[k].address : k \in {j \in DOMAIN list : list[j].kind = e}}) >= PendingSlots
<1> DEFINE D == {j \in DOMAIN list : list[j].kind = e}
           A == {list[k].address : k \in D}
<1>1. PICK q \in Seq(Entry) : Len(q) >= PendingSlots /\ Recalls(q, list, e, block.now)
  BY DEF Full
<1>2. Len(q) \in Nat /\ DOMAIN q = 1 .. Len(q) /\ Len(list) \in Nat /\ DOMAIN list = 1 .. Len(list)
  BY LenProperties
<1>3. IsFiniteSet(D)
  <2>1. D \in SUBSET (1 .. Len(list)) /\ IsFiniteSet(1 .. Len(list))
    BY <1>2, FS_Interval
  <2> HIDE DEF D
  <2> QED BY <2>1, FS_Subset
<1>4. IsFiniteSet(A)
  <2> DEFINE f == [k \in D |-> list[k].address]
  <2>1. f \in Surjection(D, A)
    BY DEF Surjection
  <2> HIDE DEF f, A, D
  <2> QED BY <1>3, <2>1, FS_Surjection
<1>5. Len(q) <= Cardinality(A)
  <2> DEFINE f == [k \in 1 .. Len(q) |-> q[k].address]
  <2>1. ASSUME NEW k \in 1 .. Len(q) PROVE q[k].address \in A
    <3>1. PICK m \in SentAt(list, e, q[k].address) : TRUE
      BY <1>1, <1>2 DEF Recalls
    <3> QED BY <3>1 DEF SentAt
  <2>2. \A j, k \in 1 .. Len(q) : q[j].address = q[k].address => j = k
    BY <1>1, <1>2 DEF Recalls
  <2> HIDE DEF A
  <2>3. f \in Injection(1 .. Len(q), A)
    BY <2>1, <2>2 DEF Injection, IsInjective
  <2> HIDE DEF f
  <2>4. Cardinality(1 .. Len(q)) <= Cardinality(A)
    BY <1>4, <2>3, FS_Injection
  <2>5. Cardinality(1 .. Len(q)) = Len(q)
    <3> DEFINE l == Len(q)
    <3>1. l \in Nat
      BY <1>2
    <3> HIDE DEF l
    <3>2. Cardinality(1 .. l) = IF 1 > l THEN 0 ELSE l - 1 + 1
      BY <3>1, FS_Interval
    <3>3. Cardinality(1 .. l) = l
      BY <3>1, <3>2
    <3> QED BY <3>3 DEF l
  <2> QED BY <2>4, <2>5
<1> HIDE DEF A
<1>6. Cardinality(A) \in Nat /\ PendingSlots \in Nat
  BY <1>4, FS_CardinalityType, Constants
<1>7. Cardinality(A) >= PendingSlots
  BY <1>1, <1>2, <1>5, <1>6
<1> QED BY <1>7 DEF A

-----------------------------------------------------------------------------
(* The end of an event. *)

Controllers == [bend : Values, range : Nat, selected : BOOLEAN, volume : Values,
                expression : Values, pressure : Values, pan : Values, brightness : Values]

\* What an event came to, with the list it sent, for the notes and the values it leaves.
Outcome(w, list, notes, g) ==
  /\ Follows(w, notes, g)
  /\ w.ok => Remembers(w.pending, sent \o list, block.now) /\ w.pending.time <= block.now
  /\ ~w.ok => notes = note /\ g = global /\ \E e \in Expressions : Full(sent, e)

LEMMA StateTypes ==
  ASSUME TypeOK
  PROVE  /\ Context /\ sent \in Seq(Event) /\ midi \in Controllers
         /\ note \in [Indices -> Keys \cup {None}] /\ global \in Global /\ pending \in Pending
         /\ Working.ok /\ Working.pending = pending /\ Working.engine = engine
         /\ Working.adapter = adapter /\ Working.spoiled = spoiled
BY DEF TypeOK, Context, Event, Controllers, Working

LEMMA ConcatNone ==
  ASSUME NEW old \in Seq(Event)
  PROVE  old \o <<>> = old
BY ConcatEmptySeq

\* Caches of this time that recall a list.
LEMMA RecalledRemembers ==
  ASSUME Context, NEW pd \in Pending, pd.time = block.now, NEW list, Recalled(pd, list, Expressions)
  PROVE  Remembers(pd, list, block.now) /\ pd.time <= block.now
<1>1. PreparedPending(pd) = pd
  BY DEF PreparedPending
<1>2. block.now \in Nat
  BY Constants DEF Context
<1> QED BY <1>1, <1>2 DEF Recalled, Remembers

LEMMA AllOutcome ==
  ASSUME IInv, NEW list \in Seq(Event),
         \A j, k \in DOMAIN list : list[j].kind = list[k].kind => j = k,
         NEW w, w = ExpressAll(Working, list)
  PROVE  Outcome(w, list, note, global)
<1> DEFINE v == Working
<1>1. /\ Context /\ sent \in Seq(Event) /\ Follows(v, note, global) /\ v.ok /\ v.pending = pending
      /\ Remembers(v.pending, sent, block.now) /\ pending.time <= block.now
  BY StateTypes DEF IInv
<1>2. w = ExpressAll(v, list)
  OBVIOUS
<1> HIDE DEF v
<1>3. /\ Follows(w, note, global)
      /\ w.ok => Recalled(w.pending, sent \o list, Expressions)
      /\ w.ok => w.pending.time = block.now \/ (w = v /\ list = <<>>)
      /\ ~w.ok => \E e \in Expressions : Full(sent, e)
  BY <1>1, <1>2, ExpressAllFollows
<1>4. ASSUME w.ok
      PROVE  Remembers(w.pending, sent \o list, block.now) /\ w.pending.time <= block.now
  <2>1. CASE w = v /\ list = <<>>
    BY <1>1, <2>1, ConcatNone
  <2>2. CASE w.pending.time = block.now
    <3>1. w.pending \in Pending
      BY <1>3 DEF Follows, Work
    <3> QED BY <1>1, <1>3, <1>4, <2>2, <3>1, RecalledRemembers
  <2> QED BY <1>3, <1>4, <2>1, <2>2
<1> QED BY <1>3, <1>4 DEF Outcome

LEMMA OneOutcome ==
  ASSUME IInv, NEW x \in Event, NEW w, w = Express(Working, x)
  PROVE  Outcome(w, <<x>>, note, global)
<1> DEFINE v == Working
<1>1. /\ Context /\ sent \in Seq(Event) /\ Follows(v, note, global) /\ v.ok /\ v.pending = pending
      /\ Remembers(v.pending, sent, block.now) /\ pending \in Pending
  BY StateTypes DEF IInv
<1>2. w = Express(v, x)
  OBVIOUS
<1> HIDE DEF v
<1>3. Recalled(v.pending, sent, Expressions)
  BY <1>1, RemembersRecalled
<1>4. Follows(w, note, global) /\ w.pending.time = block.now
  BY <1>1, <1>2, ExpressFollows
<1>5. ASSUME w.ok
      PROVE  Remembers(w.pending, sent \o <<x>>, block.now) /\ w.pending.time <= block.now
  <2>1. Recalled(w.pending, Append(sent, x), Expressions)
    BY <1>1, <1>2, <1>3, <1>5, ExpressRecalled
  <2>2. Append(sent, x) = sent \o <<x>>
    BY <1>1, AppendIsConcat
  <2>3. w.pending \in Pending
    BY <1>4 DEF Follows, Work
  <2> QED BY <1>1, <1>4, <2>1, <2>2, <2>3, RecalledRemembers
<1>6. ASSUME ~w.ok PROVE \E e \in Expressions : Full(sent, e)
  <2>1. x.kind \in Expressions /\ Recalled(v.pending, sent, {x.kind})
    BY <1>3 DEF Event, Recalled
  <2> QED BY <1>1, <1>2, <1>6, <2>1, ExpressRefused
<1> QED BY <1>4, <1>5, <1>6 DEF Outcome

LEMMA NoPendingType == NoPending \in Pending /\ NoPending.time = Unset
<1>1. [e \in Expressions |-> <<>>] \in [Expressions -> Seq(Entry)]
  BY EmptySeq
<1> QED BY <1>1 DEF NoPending, Pending, Entry

LEMMA CommitKeeps ==
  ASSUME IInv, events < MaxEvents, NEW w, NEW list \in Seq(Event),
         NEW notes \in [Indices -> Keys \cup {None}], NEW g \in Global,
         Outcome(w, list, notes, g), Commit(w), Recorded(w, list), note' = notes, global' = g,
         midi' \in Controllers, started' \in [Indices -> 0 .. MaxEvents], ChannelIsTold(sent', midi')
  PROVE  IInv'
<1>1. /\ TypeOK /\ Context /\ sent \in Seq(Event) /\ Follows(w, notes, g) /\ w \in Work
      /\ note \in [Indices -> Keys \cup {None}] /\ global \in Global
  BY StateTypes DEF IInv, Outcome, Follows
<1>2. engine' = w.engine /\ spoiled' = w.spoiled /\ events' = events + 1
  BY DEF Commit
<1>3. /\ adapter' \in [Indices -> Source] /\ pending' \in Pending
      /\ block' \in [running : BOOLEAN, now : 0 .. MaxFrames - 1] /\ sent' \in Seq(Event)
      /\ Remembers(pending', sent', block'.now) /\ pending'.time <= block'.now
      /\ \E u \in Work : Follows(u, notes, g) /\ u.adapter = adapter' /\ u.engine = engine' /\ u.spoiled = spoiled'
  <2>1. CASE w.ok
    <3>1. adapter' = w.adapter /\ pending' = w.pending /\ block' = block /\ sent' = sent \o list
      BY <2>1 DEF Commit, Recorded
    <3>2. sent' \in Seq(Event)
      BY <1>1, <3>1, ConcatProperties
    <3>3. block \in [running : BOOLEAN, now : 0 .. MaxFrames - 1]
      BY <1>1 DEF TypeOK
    <3>4. Remembers(w.pending, sent \o list, block.now) /\ w.pending.time <= block.now
      BY <2>1 DEF Outcome
    <3>5. w.adapter \in [Indices -> Source] /\ w.pending \in Pending
      BY <1>1 DEF Work
    <3> QED BY <1>1, <1>2, <3>1, <3>2, <3>3, <3>4, <3>5
  <2>2. CASE ~w.ok
    <3>1. adapter' = Sync(w, note).adapter /\ pending' = NoPending /\ block' = NoBlock /\ sent' = <<>>
      BY <2>2 DEF Commit, Recorded
    <3>2. notes = note /\ g = global
      BY <2>2 DEF Outcome
    <3> DEFINE u == Sync(w, note)
    <3>3. u \in Work /\ u = [w EXCEPT !.adapter = u.adapter]
      BY <1>1, SyncTracks
    <3>4. Follows(u, note, global)
      BY <1>1, <3>2, SyncFollows
    <3>5. adapter' = u.adapter
      BY <3>1
    <3> HIDE DEF u
    <3>6. u.engine = w.engine /\ u.spoiled = w.spoiled /\ u.adapter \in [Indices -> Source]
      BY <1>1, <3>3 DEF Work
    <3>7. NoBlock \in [running : BOOLEAN, now : 0 .. MaxFrames - 1] /\ NoBlock.now = 0
      BY Constants DEF NoBlock
    <3>8. Remembers(NoPending, <<>>, 0) /\ NoPending.time <= 0
      BY NoPendingType DEF Remembers, Unset
    <3>9. <<>> \in Seq(Event)
      BY EmptySeq
    <3> QED BY <1>2, <3>1, <3>2, <3>3, <3>4, <3>5, <3>6, <3>7, <3>8, <3>9, NoPendingType
  <2> QED BY <2>1, <2>2
<1>4. engine' \in [Indices -> Engine] /\ spoiled' \subseteq {"fine", "pan"}
  BY <1>1, <1>2 DEF Work
<1>5. events' \in 0 .. MaxEvents
  BY <1>1, <1>2, Constants DEF TypeOK
<1>6. TypeOK'
  BY <1>3, <1>4, <1>5 DEF TypeOK, Event, Controllers
<1>7. Follows(Working', note', global')
  <2> DEFINE v == Working'
  <2>1. v \in Work /\ v.engine = engine' /\ v.adapter = adapter' /\ v.spoiled = spoiled'
    BY <1>3, <1>4 DEF Work, Working
  <2> HIDE DEF v
  <2>2. PICK u \in Work : Follows(u, notes, g) /\ u.adapter = adapter' /\ u.engine = engine' /\ u.spoiled = spoiled'
    BY <1>3
  <2>3. Core(v) = Core(u)
    BY <2>1, <2>2 DEF Core
  <2>4. Follows(v, notes, g)
    BY <2>1, <2>2, <2>3, FollowsFrame
  <2> QED BY <2>4 DEF v
<1> QED BY <1>3, <1>6, <1>7 DEF IInv

-----------------------------------------------------------------------------
(* Of MidiNotesFollowChannel: what MIDI sends. *)

\* A list from MIDI that tells the channel of every expression m has another value for.
Tells(list, m) ==
  /\ AllMidi(list)
  /\ \A k \in DOMAIN list :
       /\ list[k].address # "all" /\ list[k].kind # "volume"
       /\ list[k].address = "channel" => list[k].value = MidiExpression(m)[list[k].kind]
  /\ \A e \in Expressions \ {"volume"} :
       \/ MidiExpression(m)[e] = MidiExpression(midi)[e]
       \/ \E k \in DOMAIN list : list[k].address = "channel" /\ list[k].kind = e

LEMMA ToldNothing ==
  ASSUME NEW m
  PROVE  ChannelIsTold(<<>>, m)
BY DEF ChannelIsTold, AllMidi

LEMMA Concatenated ==
  ASSUME NEW old \in Seq(Event), NEW list \in Seq(Event)
  PROVE  /\ old \o list \in Seq(Event)
         /\ \A k \in DOMAIN old : k \in DOMAIN (old \o list) /\ (old \o list)[k] = old[k]
         /\ \A k \in DOMAIN list : Len(old) + k \in DOMAIN (old \o list) /\ (old \o list)[Len(old) + k] = list[k]
         /\ \A k \in DOMAIN (old \o list) : k \in DOMAIN old \/ \E j \in DOMAIN list : k = Len(old) + j
         /\ \A j \in DOMAIN old, k \in DOMAIN list : j < Len(old) + k
<1> DEFINE all == old \o list
<1>1. /\ Len(old) \in Nat /\ DOMAIN old = 1 .. Len(old) /\ Len(list) \in Nat /\ DOMAIN list = 1 .. Len(list)
  BY LenProperties
<1>2. /\ all \in Seq(Event) /\ Len(all) = Len(old) + Len(list)
      /\ \A i \in 1 .. Len(old) + Len(list) : all[i] = IF i <= Len(old) THEN old[i] ELSE list[i - Len(old)]
  BY ConcatProperties
<1>3. DOMAIN all = 1 .. Len(old) + Len(list)
  BY <1>2, LenProperties
<1> HIDE DEF all
<1>4. \A k \in DOMAIN old : k \in DOMAIN all /\ all[k] = old[k]
  BY <1>1, <1>2, <1>3
<1>5. ASSUME NEW k \in DOMAIN list
      PROVE  Len(old) + k \in DOMAIN all /\ all[Len(old) + k] = list[k]
  <2>1. /\ Len(old) + k \in 1 .. Len(old) + Len(list) /\ ~(Len(old) + k <= Len(old))
        /\ (Len(old) + k) - Len(old) = k
    BY <1>1
  <2> QED BY <1>2, <1>3, <2>1
<1>6. ASSUME NEW k \in DOMAIN all
      PROVE  k \in DOMAIN old \/ \E j \in DOMAIN list : k = Len(old) + j
  <2>1. CASE k <= Len(old)
    BY <1>1, <1>3, <2>1
  <2>2. CASE ~(k <= Len(old))
    <3>1. k - Len(old) \in 1 .. Len(list) /\ k = Len(old) + (k - Len(old))
      BY <1>1, <1>3, <2>2
    <3> QED BY <1>1, <3>1
  <2> QED BY <2>1, <2>2
<1>7. \A j \in DOMAIN old, k \in DOMAIN list : j < Len(old) + k
  BY <1>1
<1> QED BY <1>2, <1>4, <1>5, <1>6, <1>7 DEF all

LEMMA ToldAfter ==
  ASSUME sent \in Seq(Event), ChannelIsTold(sent, midi), NEW list \in Seq(Event), NEW m, Tells(list, m)
  PROVE  ChannelIsTold(sent \o list, m)
<1> DEFINE all == sent \o list
           n == Len(sent)
<1>1. /\ \A k \in DOMAIN sent : k \in DOMAIN all /\ all[k] = sent[k]
      /\ \A k \in DOMAIN list : n + k \in DOMAIN all /\ all[n + k] = list[k]
      /\ \A k \in DOMAIN all : k \in DOMAIN sent \/ \E j \in DOMAIN list : k = n + j
      /\ \A j \in DOMAIN sent, k \in DOMAIN list : j < n + k
  BY Concatenated
<1> HIDE DEF all, n
<1>2. \A k \in DOMAIN sent : sent[k].kind \in Expressions
  <2>1. \A k \in DOMAIN sent : sent[k] \in Event
    BY ElementOfSeq, LenProperties
  <2> QED BY <2>1 DEF Event
<1> SUFFICES ASSUME AllMidi(all), NEW k \in DOMAIN all
             PROVE  /\ all[k].address # "all" /\ all[k].kind # "volume"
                    /\ \/ all[k].address # "channel" \/ all[k].value = MidiExpression(m)[all[k].kind]
                       \/ \E l \in DOMAIN all :
                            k < l /\ all[l].address = "channel" /\ all[l].kind = all[k].kind
  BY DEF ChannelIsTold, all
<1>3. AllMidi(sent)
  BY <1>1 DEF AllMidi
<1>4. CASE k \in DOMAIN sent
  <2>1. /\ sent[k].address # "all" /\ sent[k].kind # "volume"
        /\ \/ sent[k].address # "channel" \/ sent[k].value = MidiExpression(midi)[sent[k].kind]
           \/ \E l \in DOMAIN sent :
                k < l /\ sent[l].address = "channel" /\ sent[l].kind = sent[k].kind
    BY <1>3, <1>4 DEF ChannelIsTold
  <2>2. \/ MidiExpression(m)[sent[k].kind] = MidiExpression(midi)[sent[k].kind]
        \/ \E l \in DOMAIN list : list[l].address = "channel" /\ list[l].kind = sent[k].kind
    BY <1>2, <1>4, <2>1 DEF Tells
  <2>3. ASSUME NEW l \in DOMAIN sent, k < l, sent[l].address = "channel", sent[l].kind = sent[k].kind
        PROVE  \E j \in DOMAIN all : k < j /\ all[j].address = "channel" /\ all[j].kind = all[k].kind
    BY <1>1, <1>4, <2>3
  <2>4. ASSUME NEW l \in DOMAIN list, list[l].address = "channel", list[l].kind = sent[k].kind
        PROVE  \E j \in DOMAIN all : k < j /\ all[j].address = "channel" /\ all[j].kind = all[k].kind
    <3>1. n + l \in DOMAIN all /\ all[n + l] = list[l] /\ k < n + l /\ all[k] = sent[k]
      BY <1>1, <1>4
    <3> QED BY <2>4, <3>1
  <2>5. all[k] = sent[k]
    BY <1>1, <1>4
  <2> QED BY <2>1, <2>2, <2>3, <2>4, <2>5
<1>5. CASE k \notin DOMAIN sent
  <2>1. PICK j \in DOMAIN list : k = n + j
    BY <1>1, <1>5
  <2>2. all[k] = list[j]
    BY <1>1, <2>1
  <2> QED BY <2>2 DEF Tells
<1> QED BY <1>4, <1>5

LEMMA MidiExpressionType ==
  ASSUME NEW m \in Controllers
  PROVE  /\ \A e \in Expressions \ {"volume"} : MidiExpression(m)[e] \in Nat
         /\ MidiExpression(m).tuning = m.bend * m.range
         /\ MidiExpression(m).pressure = m.pressure
         /\ MidiExpression(m).expression = m.volume * m.expression
         /\ MidiExpression(m).pan = m.pan
         /\ MidiExpression(m).brightness = m.brightness
<1>1. /\ m.bend \in Nat /\ m.range \in Nat /\ m.volume \in Nat /\ m.expression \in Nat
      /\ m.pressure \in Nat /\ m.pan \in Nat /\ m.brightness \in Nat
  BY Constants DEF Controllers
<1>2. m.bend * m.range \in Nat /\ m.volume * m.expression \in Nat
  BY <1>1
<1> QED BY <1>1, <1>2 DEF MidiExpression, Expressions

-----------------------------------------------------------------------------
(* The steps. *)

\* What the three action properties say of a step.
HearsItsTime ==
  \A i \in Indices : started'[i] # started[i] =>
    \A e \in Expressions :
      LET of == SentTo(sent', e, note'[i])
      IN ~Repeats(sent', of) =>
           adapter'[i].expression[e] = IF of = {} THEN Neutral[e] ELSE sent'[Max(of)].value

FollowsChannel ==
  \A i \in Indices :
    /\ started'[i] # started[i] /\ Len(sent') > Len(sent)
    /\ \A k \in DOMAIN sent : sent[k].source = "midi"
    => \A k \in DOMAIN Replayed :
         adapter'[i].expression[Replayed[k]] = MidiExpression(midi)[Replayed[k]]

OnlyWhenFull ==
  events' > events /\ block.running /\ ~block'.running =>
    \E e \in Expressions :
      Cardinality({sent[k].address : k \in {j \in DOMAIN sent : sent[j].kind = e}}) >= PendingSlots

Promised == HearsItsTime /\ FollowsChannel /\ OnlyWhenFull

LEMMA QuietStep ==
  ASSUME started' = started, OnlyWhenFull
  PROVE  Promised
BY DEF Promised, HearsItsTime, FollowsChannel

LEMMA CommitRefuses ==
  ASSUME IInv, NEW w, NEW list, NEW notes, NEW g, Outcome(w, list, notes, g), Commit(w)
  PROVE  OnlyWhenFull
<1> SUFFICES ASSUME block.running, ~block'.running
             PROVE  \E e \in Expressions :
                      Cardinality({sent[k].address : k \in {j \in DOMAIN sent : sent[j].kind = e}})
                        >= PendingSlots
  BY DEF OnlyWhenFull
<1>1. ~w.ok
  BY DEF Commit
<1>2. PICK e \in Expressions : Full(sent, e)
  BY <1>1 DEF Outcome
<1>3. sent \in Seq(Event)
  BY StateTypes DEF IInv
<1> QED BY <1>2, <1>3, FullCounts

LEMMA ControlledKeeps ==
  ASSUME IInv, NEW m \in Controllers, NEW list \in Seq(Event), Controlled(m, list), Tells(list, m),
         \A j, k \in DOMAIN list : list[j].kind = list[k].kind => j = k
  PROVE  IInv' /\ Promised
<1> DEFINE w == ExpressAll(Working, list)
<1>1. /\ events < MaxEvents /\ midi' = m /\ Commit(w) /\ Recorded(w, list)
      /\ note' = note /\ global' = global /\ started' = started
  BY DEF Controlled, AtEvent
<1>2. Outcome(w, list, note, global)
  BY AllOutcome
<1> HIDE DEF w
<1>3. /\ sent \in Seq(Event) /\ note \in [Indices -> Keys \cup {None}] /\ global \in Global
      /\ ChannelIsTold(sent, midi) /\ started \in [Indices -> 0 .. MaxEvents]
  BY StateTypes DEF IInv, TypeOK
<1>4. ChannelIsTold(sent', midi')
  <2>1. CASE w.ok
    <3>1. ChannelIsTold(sent \o list, m)
      BY <1>3, ToldAfter
    <3>2. sent' = sent \o list
      BY <1>1, <2>1 DEF Recorded
    <3> QED BY <1>1, <3>1, <3>2
  <2>2. CASE ~w.ok
    <3>1. sent' = <<>>
      BY <1>1, <2>2 DEF Recorded
    <3> QED BY <3>1, ToldNothing
  <2> QED BY <2>1, <2>2
<1>5. IInv'
  BY <1>1, <1>2, <1>3, <1>4, CommitKeeps
<1>6. OnlyWhenFull
  BY <1>1, <1>2, CommitRefuses
<1> QED BY <1>1, <1>5, <1>6, QuietStep

\* MIDI: every controller tells the channel what it changes.
LEMMA MidiEvents ==
  ASSUME NEW e \in Expressions, NEW address \in Address, NEW value \in Nat
  PROVE  /\ Expression("midi", e, address, value) \in Event
         /\ Expression("midi", e, address, value).source = "midi"
         /\ Expression("midi", e, address, value).kind = e
         /\ Expression("midi", e, address, value).address = address
         /\ Expression("midi", e, address, value).value = value
BY DEF Expression, Event

LEMMA TellsNothing ==
  ASSUME NEW m, \A e \in Expressions \ {"volume"} : MidiExpression(m)[e] = MidiExpression(midi)[e]
  PROVE  Tells(<<>>, m) /\ <<>> \in Seq(Event)
BY EmptySeq DEF Tells, AllMidi

LEMMA TellsOne ==
  ASSUME NEW m \in Controllers, NEW e \in Expressions \ {"volume"},
         \A f \in Expressions \ {"volume", e} : MidiExpression(m)[f] = MidiExpression(midi)[f],
         NEW list, list = ToChannel(m, e)
  PROVE  /\ Tells(list, m) /\ list \in Seq(Event)
         /\ \A j, k \in DOMAIN list : list[j].kind = list[k].kind => j = k
<1> DEFINE x == Expression("midi", e, "channel", MidiExpression(m)[e])
<1>1. MidiExpression(m)[e] \in Nat /\ "channel" \in Address /\ "channel" # "all"
  BY MidiExpressionType DEF Address
<1>2. /\ x \in Event /\ x.source = "midi" /\ x.kind = e /\ x.address = "channel"
      /\ x.value = MidiExpression(m)[e]
  BY <1>1, MidiEvents
<1>3. list = <<x>>
  BY DEF ToChannel
<1> HIDE DEF x
<1>4. list \in Seq(Event) /\ DOMAIN list = {1} /\ list[1] = x
  BY <1>2, <1>3
<1> HIDE <1>3
<1> QED BY <1>1, <1>2, <1>4 DEF Tells, AllMidi

LEMMA PitchBendKeeps ==
  ASSUME IInv, NEW value \in Values, PitchBend(value)
  PROVE  IInv' /\ Promised
<1> DEFINE m == [midi EXCEPT !.bend = value]
           list == ToChannel(m, "tuning")
<1>1. midi \in Controllers
  BY StateTypes DEF IInv
<1>2. /\ m \in Controllers /\ m.pressure = midi.pressure /\ m.volume = midi.volume
      /\ m.expression = midi.expression /\ m.pan = midi.pan /\ m.brightness = midi.brightness
  BY <1>1 DEF Controllers
<1>3. Controlled(m, list)
  BY DEF PitchBend
<1> HIDE DEF m
<1>4. \A f \in Expressions \ {"volume", "tuning"} : MidiExpression(m)[f] = MidiExpression(midi)[f]
  BY <1>1, <1>2, MidiExpressionType DEF Expressions
<1>5. "tuning" \in Expressions \ {"volume"} /\ list = ToChannel(m, "tuning")
  BY DEF Expressions
<1> HIDE DEF list
<1>6. /\ Tells(list, m) /\ list \in Seq(Event)
      /\ \A j, k \in DOMAIN list : list[j].kind = list[k].kind => j = k
  BY <1>2, <1>4, <1>5, TellsOne
<1> QED BY <1>2, <1>3, <1>6, ControlledKeeps

LEMMA ChannelPressureKeeps ==
  ASSUME IInv, NEW value \in Values, ChannelPressure(value)
  PROVE  IInv' /\ Promised
<1> DEFINE m == [midi EXCEPT !.pressure = value]
           list == ToChannel(m, "pressure")
<1>1. midi \in Controllers
  BY StateTypes DEF IInv
<1>2. /\ m \in Controllers /\ m.bend = midi.bend /\ m.range = midi.range /\ m.volume = midi.volume
      /\ m.expression = midi.expression /\ m.pan = midi.pan /\ m.brightness = midi.brightness
  BY <1>1 DEF Controllers
<1>3. Controlled(m, list)
  BY DEF ChannelPressure
<1> HIDE DEF m
<1>4. \A f \in Expressions \ {"volume", "pressure"} : MidiExpression(m)[f] = MidiExpression(midi)[f]
  BY <1>1, <1>2, MidiExpressionType DEF Expressions
<1>5. "pressure" \in Expressions \ {"volume"} /\ list = ToChannel(m, "pressure")
  BY DEF Expressions
<1> HIDE DEF list
<1>6. /\ Tells(list, m) /\ list \in Seq(Event)
      /\ \A j, k \in DOMAIN list : list[j].kind = list[k].kind => j = k
  BY <1>2, <1>4, <1>5, TellsOne
<1> QED BY <1>2, <1>3, <1>6, ControlledKeeps

LEMMA ControllerKeeps ==
  ASSUME IInv, NEW c \in {"volume", "expression", "pan", "brightness"}, NEW value \in Values,
         Controller(c, value)
  PROVE  IInv' /\ Promised
<1> DEFINE m == [midi EXCEPT ![c] = value]
           e == IF c = "volume" THEN "expression" ELSE c
           list == ToChannel(m, e)
<1>1. midi \in Controllers
  BY StateTypes DEF IInv
<1>2. /\ m \in Controllers /\ m.bend = midi.bend /\ m.range = midi.range /\ m.pressure = midi.pressure
      /\ c \notin {"volume", "expression"} => m.volume = midi.volume /\ m.expression = midi.expression
      /\ c # "pan" => m.pan = midi.pan
      /\ c # "brightness" => m.brightness = midi.brightness
  BY <1>1 DEF Controllers
<1>3. Controlled(m, list)
  BY DEF Controller
<1> HIDE DEF m
<1>4. \A f \in Expressions \ {"volume", e} : MidiExpression(m)[f] = MidiExpression(midi)[f]
  BY <1>1, <1>2, MidiExpressionType DEF Expressions
<1>5. e \in Expressions \ {"volume"} /\ list = ToChannel(m, e)
  BY DEF Expressions
<1> HIDE DEF list, e
<1>6. /\ Tells(list, m) /\ list \in Seq(Event)
      /\ \A j, k \in DOMAIN list : list[j].kind = list[k].kind => j = k
  BY <1>2, <1>4, <1>5, TellsOne
<1> QED BY <1>2, <1>3, <1>6, ControlledKeeps

LEMMA DataEntryKeeps ==
  ASSUME IInv, NEW value \in Nat, DataEntry(value)
  PROVE  IInv' /\ Promised
<1> DEFINE m == IF midi.selected THEN [midi EXCEPT !.range = value] ELSE midi
           list == IF midi.selected THEN ToChannel(m, "tuning") ELSE <<>>
<1>1. midi \in Controllers
  BY StateTypes DEF IInv
<1>2. /\ m \in Controllers /\ m.pressure = midi.pressure /\ m.volume = midi.volume
      /\ m.expression = midi.expression /\ m.pan = midi.pan /\ m.brightness = midi.brightness
      /\ ~midi.selected => m = midi
  BY <1>1 DEF Controllers
<1>3. Controlled(m, list)
  BY DEF DataEntry
<1> HIDE DEF m
<1>4. \A f \in Expressions \ {"volume", "tuning"} : MidiExpression(m)[f] = MidiExpression(midi)[f]
  BY <1>1, <1>2, MidiExpressionType DEF Expressions
<1>5. "tuning" \in Expressions \ {"volume"}
  BY DEF Expressions
<1>6. /\ Tells(list, m) /\ list \in Seq(Event)
      /\ \A j, k \in DOMAIN list : list[j].kind = list[k].kind => j = k
  <2>1. CASE midi.selected
    <3>1. list = ToChannel(m, "tuning")
      BY <2>1
    <3> HIDE DEF list
    <3> QED BY <1>2, <1>4, <1>5, <3>1, TellsOne
  <2>2. CASE ~midi.selected
    <3>1. list = <<>> /\ m = midi
      BY <1>2, <2>2
    <3> HIDE DEF list
    <3>2. Tells(<<>>, m) /\ <<>> \in Seq(Event)
      BY <3>1, TellsNothing
    <3> QED BY <3>1, <3>2
  <2> QED BY <2>1, <2>2
<1> HIDE DEF list
<1> QED BY <1>2, <1>3, <1>6, ControlledKeeps

LEMMA SelectRangeKeeps ==
  ASSUME IInv, NEW chosen \in BOOLEAN, SelectRange(chosen)
  PROVE  IInv' /\ Promised
<1> DEFINE m == [midi EXCEPT !.selected = chosen]
<1>1. midi \in Controllers
  BY StateTypes DEF IInv
<1>2. /\ m \in Controllers /\ m.bend = midi.bend /\ m.range = midi.range /\ m.pressure = midi.pressure
      /\ m.volume = midi.volume /\ m.expression = midi.expression /\ m.pan = midi.pan
      /\ m.brightness = midi.brightness
  BY <1>1 DEF Controllers
<1>3. Controlled(m, <<>>)
  BY DEF SelectRange
<1> HIDE DEF m
<1>4. \A f \in Expressions \ {"volume"} : MidiExpression(m)[f] = MidiExpression(midi)[f]
  BY <1>1, <1>2, MidiExpressionType DEF Expressions
<1>5. Tells(<<>>, m) /\ <<>> \in Seq(Event)
  BY <1>4, TellsNothing
<1>6. \A j, k \in DOMAIN <<>> : <<>>[j].kind = <<>>[k].kind => j = k
  OBVIOUS
<1> QED BY <1>2, <1>3, <1>5, <1>6, ControlledKeeps

LEMMA PolyPressureKeeps ==
  ASSUME IInv, NEW n \in Keys, NEW value \in Values, PolyPressure(n, value)
  PROVE  IInv' /\ Promised
<1> DEFINE x == Expression("midi", "pressure", n, value)
           list == <<x>>
<1>1. midi \in Controllers
  BY StateTypes DEF IInv
<1>2. "pressure" \in Expressions /\ n \in Address /\ value \in Nat /\ n # "all" /\ n # "channel"
  BY Constants DEF Expressions, Address
<1>3. x \in Event /\ x.source = "midi" /\ x.kind = "pressure" /\ x.address = n
  BY <1>2, MidiEvents
<1>4. Controlled(midi, list)
  BY DEF PolyPressure
<1> HIDE DEF x
<1>5. list \in Seq(Event) /\ DOMAIN list = {1} /\ list[1] = x
  BY <1>3
<1> HIDE DEF list
<1>6. Tells(list, midi)
  BY <1>2, <1>3, <1>5 DEF Tells, AllMidi
<1>7. \A j, k \in DOMAIN list : list[j].kind = list[k].kind => j = k
  BY <1>5
<1> QED BY <1>1, <1>4, <1>5, <1>6, <1>7, ControlledKeeps

LEMMA ResetControllersKeeps ==
  ASSUME IInv, ResetControllers
  PROVE  IInv' /\ Promised
<1> DEFINE m == [midi EXCEPT !.bend = 0, !.selected = FALSE, !.pressure = 0, !.expression = 1]
           x == Expression("midi", "tuning", "channel", 0)
           y == Expression("midi", "pressure", "channel", 0)
           z == Expression("midi", "expression", "channel", m.volume)
           list == <<x, y, z>>
<1>1. midi \in Controllers
  BY StateTypes DEF IInv
<1>2. /\ m \in Controllers /\ m.bend = 0 /\ m.pressure = 0 /\ m.expression = 1
      /\ m.pan = midi.pan /\ m.brightness = midi.brightness /\ m.range \in Nat /\ m.volume \in Nat
  BY <1>1, Constants DEF Controllers
<1>3. Controlled(m, list)
  BY DEF ResetControllers
<1> HIDE DEF m
<1>4. /\ MidiExpression(m).tuning = 0 /\ MidiExpression(m).pressure = 0
      /\ MidiExpression(m).expression = m.volume
      /\ MidiExpression(m).pan = MidiExpression(midi).pan
      /\ MidiExpression(m).brightness = MidiExpression(midi).brightness
  BY <1>1, <1>2, MidiExpressionType
<1>5. {"tuning", "pressure", "expression"} \subseteq Expressions /\ "channel" \in Address
  BY DEF Expressions, Address
<1>6. /\ x \in Event /\ x.source = "midi" /\ x.kind = "tuning" /\ x.address = "channel" /\ x.value = 0
      /\ y \in Event /\ y.source = "midi" /\ y.kind = "pressure" /\ y.address = "channel" /\ y.value = 0
      /\ z \in Event /\ z.source = "midi" /\ z.kind = "expression" /\ z.address = "channel"
      /\ z.value = m.volume
  BY <1>2, <1>5, MidiEvents
<1> HIDE DEF x, y, z
<1>7. list \in Seq(Event) /\ DOMAIN list = {1, 2, 3} /\ list[1] = x /\ list[2] = y /\ list[3] = z
  BY <1>6
<1> HIDE DEF list
<1>8. \A j, k \in DOMAIN list : list[j].kind = list[k].kind => j = k
  BY <1>6, <1>7
<1>9. Tells(list, m)
  <2>1. AllMidi(list)
    BY <1>6, <1>7 DEF AllMidi
  <2>2. \A k \in DOMAIN list :
          /\ list[k].address # "all" /\ list[k].kind # "volume"
          /\ list[k].address = "channel" => list[k].value = MidiExpression(m)[list[k].kind]
    BY <1>4, <1>6, <1>7
  <2>3. ASSUME NEW e \in Expressions \ {"volume"}
        PROVE  \/ MidiExpression(m)[e] = MidiExpression(midi)[e]
               \/ \E k \in DOMAIN list : list[k].address = "channel" /\ list[k].kind = e
    BY <1>4, <1>6, <1>7 DEF Expressions
  <2> QED BY <2>1, <2>2, <2>3 DEF Tells
<1> QED BY <1>2, <1>3, <1>7, <1>8, <1>9, ControlledKeeps

LEMMA NoteExpressionKeeps ==
  ASSUME IInv, NEW e \in Expressions, NEW address \in Address, NEW value \in Values,
         NoteExpression(e, address, value)
  PROVE  IInv' /\ Promised
<1> DEFINE x == Expression("host", e, address, value)
           w == Express(Working, x)
<1>1. /\ events < MaxEvents /\ Commit(w) /\ Recorded(w, <<x>>) /\ midi' = midi
      /\ note' = note /\ global' = global /\ started' = started
  BY DEF NoteExpression, AtEvent
<1>2. x \in Event /\ x.source = "host"
  BY Constants DEF Expression, Event
<1> HIDE DEF x
<1>3. Outcome(w, <<x>>, note, global)
  BY <1>2, OneOutcome
<1> HIDE DEF w
<1>4. /\ sent \in Seq(Event) /\ note \in [Indices -> Keys \cup {None}] /\ global \in Global
      /\ midi \in Controllers /\ started \in [Indices -> 0 .. MaxEvents]
  BY StateTypes DEF IInv, TypeOK
<1>5. <<x>> \in Seq(Event)
  BY <1>2
<1>6. ChannelIsTold(sent', midi')
  <2>1. CASE w.ok
    <3>1. sent' = Append(sent, x)
      BY <1>1, <1>2, <1>4, <2>1, AppendIsConcat DEF Recorded
    <3>2. ~AllMidi(Append(sent, x))
      <4>1. Len(sent) + 1 \in DOMAIN Append(sent, x) /\ Append(sent, x)[Len(sent) + 1] = x
        BY <1>2, <1>4, Appended
      <4> QED BY <1>2, <4>1 DEF AllMidi
    <3> QED BY <3>1, <3>2 DEF ChannelIsTold
  <2>2. CASE ~w.ok
    <3>1. sent' = <<>>
      BY <1>1, <2>2 DEF Recorded
    <3> QED BY <3>1, ToldNothing
  <2> QED BY <2>1, <2>2
<1>7. IInv'
  BY <1>1, <1>3, <1>4, <1>5, <1>6, CommitKeeps
<1>8. OnlyWhenFull
  BY <1>1, <1>3, CommitRefuses
<1> QED BY <1>1, <1>7, <1>8, QuietStep

-----------------------------------------------------------------------------
(* NOTE_ON, after what was sent for it. *)

LEMMA DispatchedOutcome ==
  ASSUME IInv, NEW i \in Indices, NEW n \in Keys, NEW list \in Seq(Event), NEW v,
         Outcome(v, list, note, global), v.ok, NEW w, w = Dispatched(v, i, n)
  PROVE  /\ Outcome(w, list, [note EXCEPT ![i] = n], global) /\ w.ok
         /\ w.pending \in Pending /\ Recalled(w.pending, sent \o list, Expressions)
         /\ w.pending.time = block.now /\ w.adapter[i].expression = Heard(w.pending, n)
<1>1. /\ Context /\ sent \in Seq(Event) /\ Follows(v, note, global)
      /\ Remembers(v.pending, sent \o list, block.now)
  BY StateTypes DEF IInv, Outcome
<1>2. /\ Follows(w, [note EXCEPT ![i] = n], global) /\ w.ok
      /\ w.pending = PreparedPending(v.pending) /\ w.pending \in Pending
      /\ w.adapter[i].expression = Heard(w.pending, n)
  <2>1. Begins(v, w, i, n)
    BY <1>1, DispatchedFollows
  <2> QED BY <2>1 DEF Begins
<1>3. sent \o list \in Seq(Event) /\ v.pending \in Pending
  BY <1>1, ConcatProperties DEF Follows, Work
<1>4. Recalled(v.pending, sent \o list, Expressions)
  BY <1>1, <1>3, RemembersRecalled
<1>5. w.pending.time = block.now
  BY <1>2 DEF PreparedPending, NoPending
<1>6. Recalled(w.pending, sent \o list, Expressions)
  BY <1>2, <1>4, <1>5 DEF Recalled, PreparedPending
<1>7. Remembers(w.pending, sent \o list, block.now) /\ w.pending.time <= block.now
  BY <1>1, <1>2, <1>5, <1>6, RecalledRemembers
<1> QED BY <1>2, <1>5, <1>6, <1>7 DEF Outcome

LEMMA Replays ==
  ASSUME IInv, NEW n \in Keys, NEW list, list = ChannelState(n)
  PROVE  /\ list \in Seq(Event) /\ DOMAIN list = DOMAIN Replayed
         /\ \A k \in DOMAIN Replayed :
              /\ Replayed[k] \in Expressions \ {"volume"}
              /\ list[k].source = "midi" /\ list[k].kind = Replayed[k] /\ list[k].address = n
              /\ list[k].value = MidiExpression(midi)[Replayed[k]]
         /\ \A j, k \in DOMAIN list : list[j].kind = list[k].kind => j = k
         /\ Tells(list, midi)
<1>1. midi \in Controllers
  BY StateTypes DEF IInv
<1>2. /\ DOMAIN Replayed = 1 .. 5
      /\ \A k \in 1 .. 5 : Replayed[k] \in Expressions \ {"volume"}
      /\ \A j, k \in 1 .. 5 : Replayed[j] = Replayed[k] => j = k
  BY DEF Replayed, Expressions
<1>3. n \in Address /\ n # "all" /\ n # "channel"
  BY Constants DEF Address
<1>4. DOMAIN list = 1 .. 5
      /\ \A k \in 1 .. 5 : list[k] = Expression("midi", Replayed[k], n, MidiExpression(midi)[Replayed[k]])
  BY <1>2 DEF ChannelState
<1>5. ASSUME NEW k \in 1 .. 5
      PROVE  /\ list[k] \in Event /\ list[k].source = "midi" /\ list[k].kind = Replayed[k]
             /\ list[k].address = n /\ list[k].value = MidiExpression(midi)[Replayed[k]]
  <2>1. Replayed[k] \in Expressions /\ MidiExpression(midi)[Replayed[k]] \in Nat
    BY <1>1, <1>2, MidiExpressionType
  <2>2. list[k] = Expression("midi", Replayed[k], n, MidiExpression(midi)[Replayed[k]])
    BY <1>4
  <2> QED BY <1>3, <2>1, <2>2, MidiEvents
<1>6. list \in Seq(Event)
  <2>1. list = [k \in 1 .. 5 |-> list[k]]
    BY <1>2 DEF ChannelState
  <2>2. list \in [1 .. 5 -> Event]
    BY <1>5, <2>1
  <2> QED BY <2>2, SeqDef
<1>7. Tells(list, midi)
  BY <1>2, <1>3, <1>4, <1>5 DEF Tells, AllMidi
<1> QED BY <1>2, <1>4, <1>5, <1>6, <1>7

\* The slots a note of MIDI finds all have what the controllers say.
LEMMA ChannelIsHeard ==
  ASSUME IInv, NEW n \in Keys, NEW list, list = ChannelState(n), AllMidi(sent),
         NEW pd \in Pending, Recalled(pd, sent \o list, Expressions), pd.time = block.now,
         NEW k \in DOMAIN Replayed
  PROVE  PendingFor(pd, Replayed[k], n) = MidiExpression(midi)[Replayed[k]]
<1> DEFINE all == sent \o list
           e == Replayed[k]
           q == pd.entries[e]
<1>1. /\ sent \in Seq(Event) /\ ChannelIsTold(sent, midi)
  BY StateTypes DEF IInv
<1>2. /\ list \in Seq(Event) /\ DOMAIN list = DOMAIN Replayed
      /\ e \in Expressions /\ list[k].kind = e /\ list[k].address = n
      /\ list[k].value = MidiExpression(midi)[e]
      /\ \A j, l \in DOMAIN list : list[j].kind = list[l].kind => j = l
      /\ Tells(list, midi)
  BY Replays
<1>3. /\ \A j \in DOMAIN sent : j \in DOMAIN all /\ all[j] = sent[j]
      /\ \A j \in DOMAIN list : Len(sent) + j \in DOMAIN all /\ all[Len(sent) + j] = list[j]
      /\ \A j \in DOMAIN all : j \in DOMAIN sent \/ \E l \in DOMAIN list : j = Len(sent) + l
      /\ \A j \in DOMAIN sent, l \in DOMAIN list : j < Len(sent) + l
      /\ all \in Seq(Event)
  BY <1>1, <1>2, Concatenated, ZenonT(60)
<1>4. ChannelIsTold(all, midi)
  BY <1>1, <1>2, ToldAfter
<1>5. q \in Seq(Entry) /\ Recalls(q, all, e, block.now)
  BY <1>2 DEF Recalled, PreparedPending, Pending, Entry
<1>6. DOMAIN all \subseteq Nat /\ Len(sent) \in Nat
  BY <1>1, <1>3, LenProperties
<1> HIDE DEF all, e, q
<1>7. AllMidi(all)
  <2>1. AllMidi(list)
    BY <1>2 DEF Tells
  <2> QED BY <1>3, <2>1 DEF AllMidi
<1>8. n # "all" /\ n # "channel" /\ n # None
  BY Constants
<1>9. Len(sent) + k \in SentAt(all, e, n)
  BY <1>2, <1>3 DEF SentAt
<1>10. Found(q, n) # {}
  <2>1. PICK s \in DOMAIN q : q[s].address = n
    BY <1>5, <1>9 DEF Recalls, SentAt
  <2>2. q[s].time = block.now
    BY <1>5 DEF Recalls
  <2> QED BY <1>8, <2>1, <2>2 DEF Found, Matches
<1>11. ASSUME NEW s \in Found(q, n)
       PROVE  q[s].value = MidiExpression(midi)[e]
  <2>1. s \in DOMAIN q /\ q[s].address \in {"all", "channel", n}
    BY DEF Found, Matches
  <2>2. PICK m \in SentAt(all, e, q[s].address) :
             all[m].value = q[s].value /\ \A l \in SentAt(all, e, q[s].address) : l <= m
    BY <1>5, <2>1 DEF Recalls
  <2>3. m \in DOMAIN all /\ all[m].kind = e /\ all[m].address = q[s].address
    BY DEF SentAt
  <2>4. /\ all[m].address # "all"
        /\ \/ all[m].address # "channel" \/ all[m].value = MidiExpression(midi)[all[m].kind]
           \/ \E l \in DOMAIN all : m < l /\ all[l].address = "channel" /\ all[l].kind = all[m].kind
    BY <1>4, <1>7, <2>3 DEF ChannelIsTold
  <2>5. CASE q[s].address = "channel"
    <3>1. SUFFICES ASSUME NEW l \in DOMAIN all, m < l, all[l].address = "channel", all[l].kind = e
                   PROVE  FALSE
      BY <2>2, <2>3, <2>4, <2>5
    <3>2. l \in SentAt(all, e, q[s].address)
      BY <2>5, <3>1 DEF SentAt
    <3> QED BY <1>6, <2>2, <2>3, <3>1, <3>2
  <2>6. CASE q[s].address = n
    <3>1. Len(sent) + k <= m
      BY <1>9, <2>2, <2>6
    <3>2. m \notin DOMAIN sent
      BY <1>2, <1>3, <1>6, <2>3, <3>1
    <3>3. PICK l \in DOMAIN list : m = Len(sent) + l
      BY <1>3, <2>3, <3>2
    <3>4. all[m] = list[l]
      BY <1>3, <3>3
    <3>5. l = k
      BY <1>2, <2>3, <3>4
    <3> QED BY <1>2, <2>2, <3>4, <3>5
  <2> QED BY <2>1, <2>3, <2>4, <2>5, <2>6
<1>12. PendingFor(pd, e, n) = MidiExpression(midi)[e]
  <2> DEFINE value == MidiExpression(midi)[e]
  <2>1. /\ pd.entries[e] \in Seq(Entry) /\ Found(pd.entries[e], n) # {}
        /\ \A s \in Found(pd.entries[e], n) : pd.entries[e][s].value = value
    BY <1>5, <1>10, <1>11 DEF q
  <2> HIDE DEF value
  <2>2. PendingFor(pd, e, n) = value
    <3>1. e \in Expressions
      BY <1>2
    <3> QED BY <2>1, <3>1, PendingIsCommon, Zenon
  <2> QED BY <2>2 DEF value
<1> QED BY <1>12 DEF e

LEMMA StartNoteKeeps ==
  ASSUME IInv, AtEvent, NEW i \in Indices, NEW n \in Keys, NEW list \in Seq(Event),
         list = <<>> \/ list = ChannelState(n), Tells(list, midi),
         \A j, k \in DOMAIN list : list[j].kind = list[k].kind => j = k,
         StartNote(i, n, list)
  PROVE  IInv' /\ Promised
<1> DEFINE v == ExpressAll(Working, list)
           w == IF v.ok THEN Dispatched(v, i, n) ELSE v
           notes == IF w.ok THEN [note EXCEPT ![i] = n] ELSE note
<1>1. /\ note' = notes /\ Commit(w) /\ Recorded(w, list)
      /\ started' = IF w.ok THEN [started EXCEPT ![i] = events + 1] ELSE started
      /\ global' = global /\ midi' = midi
  BY DEF StartNote
<1>2. Outcome(v, list, note, global)
  BY AllOutcome
<1>3. /\ w.ok <=> v.ok
      /\ v.ok => w = Dispatched(v, i, n)
      /\ ~v.ok => w = v
  <2> DEFINE d == Dispatched(v, i, n)
  <2>1. v.ok => d.ok
    <3> HIDE DEF v, d
    <3>1. d = Dispatched(v, i, n)
      BY DEF d
    <3> QED BY <1>2, <3>1, DispatchedOutcome
  <2>2. w = IF v.ok THEN d ELSE v
    OBVIOUS
  <2> HIDE DEF v, d, w
  <2> QED BY <2>1, <2>2 DEF d
<1> HIDE DEF v, w
<1>4. /\ sent \in Seq(Event) /\ note \in [Indices -> Keys \cup {None}] /\ global \in Global
      /\ midi \in Controllers /\ started \in [Indices -> 0 .. MaxEvents] /\ events \in 0 .. MaxEvents
      /\ ChannelIsTold(sent, midi) /\ Context
  BY StateTypes DEF IInv, TypeOK
<1>5. Outcome(w, list, notes, global)
  BY <1>2, <1>3, DispatchedOutcome
<1>6. ChannelIsTold(sent', midi')
  <2>1. CASE w.ok
    <3>1. ChannelIsTold(sent \o list, midi)
      BY <1>4, ToldAfter
    <3>2. sent' = sent \o list
      BY <1>1, <2>1 DEF Recorded
    <3> QED BY <1>1, <3>1, <3>2
  <2>2. CASE ~w.ok
    <3>1. sent' = <<>>
      BY <1>1, <2>2 DEF Recorded
    <3> QED BY <3>1, ToldNothing
  <2> QED BY <2>1, <2>2
<1>7. /\ events < MaxEvents /\ events + 1 \in 0 .. MaxEvents
      /\ notes \in [Indices -> Keys \cup {None}]
      /\ started' \in [Indices -> 0 .. MaxEvents]
  <2>1. events < MaxEvents /\ events + 1 \in 0 .. MaxEvents
    BY <1>4, Constants DEF AtEvent
  <2> QED BY <1>1, <1>4, <2>1
<1>8. IInv'
  BY <1>1, <1>4, <1>5, <1>6, <1>7, CommitKeeps
<1>9. OnlyWhenFull
  BY <1>1, <1>5, CommitRefuses
<1>10. CASE ~w.ok
  BY <1>1, <1>8, <1>9, <1>10, QuietStep
<1>11. CASE w.ok
  <2>1. /\ w.pending \in Pending /\ Recalled(w.pending, sent \o list, Expressions)
        /\ w.pending.time = block.now /\ w.adapter[i].expression = Heard(w.pending, n)
    <3>1. v.ok /\ w = Dispatched(v, i, n)
      BY <1>3, <1>11
    <3>2. w.pending \in Pending /\ w.pending.time = block.now
      BY <1>2, <3>1, DispatchedOutcome, Zenon
    <3>3. Recalled(w.pending, sent \o list, Expressions)
      BY <1>2, <3>1, DispatchedOutcome, Zenon
    <3>4. w.adapter[i].expression = Heard(w.pending, n)
      <4>1. Follows(v, note, global)
        BY <1>2 DEF Outcome
      <4>2. Begins(v, w, i, n)
        BY <1>4, <3>1, <4>1, DispatchedFollows
      <4> QED BY <4>2 DEF Begins
    <3> QED BY <3>2, <3>3, <3>4
  <2>2. /\ adapter' = w.adapter /\ sent' = sent \o list /\ note'[i] = n
        /\ \A j \in Indices : started'[j] # started[j] => j = i
    BY <1>1, <1>4, <1>11 DEF Commit, Recorded
  <2>3. sent' \in Seq(Event)
    BY <1>4, <2>2, ConcatProperties
  <2>4. ASSUME NEW e \in Expressions
        PROVE  adapter'[i].expression[e] = PendingFor(w.pending, e, n)
    BY <2>1, <2>2 DEF Heard
  <2>5. HearsItsTime
    <3> SUFFICES ASSUME NEW e \in Expressions, ~Repeats(sent', SentTo(sent', e, n))
                 PROVE  adapter'[i].expression[e] =
                          IF SentTo(sent', e, n) = {} THEN Neutral[e]
                          ELSE sent'[Max(SentTo(sent', e, n))].value
      BY <2>2 DEF HearsItsTime
    <3>1. /\ w.pending.entries[e] \in Seq(Entry)
          /\ Recalls(w.pending.entries[e], sent', e, block.now)
      BY <2>1, <2>2 DEF Recalled, PreparedPending, Pending, Entry
    <3> DEFINE all == sent'
    <3>2. all \in Seq(Event) /\ Recalls(w.pending.entries[e], all, e, block.now)
          /\ ~Repeats(all, SentTo(all, e, n))
      BY <2>3, <3>1
    <3> HIDE DEF all
    <3>3. PendingFor(w.pending, e, n) = IF SentTo(all, e, n) = {} THEN Neutral[e]
                                        ELSE all[Max(SentTo(all, e, n))].value
      BY <3>1, <3>2, PendingIsLast
    <3> QED BY <2>4, <3>3 DEF all
  <2>6. FollowsChannel
    <3> SUFFICES ASSUME Len(sent') > Len(sent), AllMidi(sent), NEW k \in DOMAIN Replayed
                 PROVE  adapter'[i].expression[Replayed[k]] = MidiExpression(midi)[Replayed[k]]
      BY <2>2 DEF FollowsChannel, AllMidi
    <3>1. list # <<>>
      <4>1. Len(sent) \in Nat /\ sent \o <<>> = sent
        BY <1>4, LenProperties, ConcatNone
      <4> QED BY <2>2, <4>1
    <3>2. list = ChannelState(n)
      BY <3>1
    <3>3. Replayed[k] \in Expressions
      BY <3>2, Replays
    <3>4. PendingFor(w.pending, Replayed[k], n) = MidiExpression(midi)[Replayed[k]]
      BY <2>1, <3>2, ChannelIsHeard
    <3> QED BY <2>4, <3>3, <3>4
  <2> QED BY <1>8, <1>9, <2>5, <2>6 DEF Promised
<1> QED BY <1>10, <1>11

LEMMA NoteOnKeeps ==
  ASSUME IInv, NEW i \in Indices, NEW n \in Keys, NoteOn(i, n)
  PROVE  IInv' /\ Promised
<1>1. Tells(<<>>, midi) /\ <<>> \in Seq(Event)
  BY TellsNothing
<1>2. \A j, k \in DOMAIN <<>> : <<>>[j].kind = <<>>[k].kind => j = k
  OBVIOUS
<1>3. AtEvent /\ StartNote(i, n, <<>>)
  BY DEF NoteOn
<1> QED BY <1>1, <1>2, <1>3, StartNoteKeeps

LEMMA MidiNoteOnKeeps ==
  ASSUME IInv, NEW i \in Indices, NEW n \in Keys, MidiNoteOn(i, n)
  PROVE  IInv' /\ Promised
<1> DEFINE list == ChannelState(n)
<1>1. AtEvent /\ StartNote(i, n, list) /\ list = ChannelState(n)
  BY DEF MidiNoteOn
<1> HIDE DEF list
<1>2. /\ list \in Seq(Event) /\ Tells(list, midi)
      /\ \A j, k \in DOMAIN list : list[j].kind = list[k].kind => j = k
  BY <1>1, Replays
<1> QED BY <1>1, <1>2, StartNoteKeeps

-----------------------------------------------------------------------------
(* PARAM_VALUE and PARAM_MOD. *)

\* The sources of p are others in u than in s, those of the other parameters the same.
Retargets(s, u, p) ==
  /\ u \in Work /\ u.engine = s.engine /\ u.spoiled = s.spoiled /\ u.ok = s.ok
  /\ u.pending = s.pending
  /\ \A i \in Indices :
       /\ u.adapter[i].tracked = s.adapter[i].tracked
       /\ u.adapter[i].coarse = s.adapter[i].coarse
       /\ u.adapter[i].expression = s.adapter[i].expression
       /\ \A q \in Params \ {p} : /\ u.adapter[i].base[q] = s.adapter[i].base[q]
                                  /\ u.adapter[i].modulation[q] = s.adapter[i].modulation[q]

Applied(u, r, g) == Follows(r, note, g) /\ r.ok = u.ok /\ r.pending = u.pending

\* The parameter is set from its new sources.
LEMMA RetargetFollows ==
  ASSUME NEW s, Context, Follows(s, note, global), NEW p \in Params, NEW u, Retargets(s, u, p),
         NEW g \in Global,
         \A q \in Params \ {p} : g.base[q] = global.base[q] /\ g.modulation[q] = global.modulation[q],
         NEW r, r = Apply(u, g, p, note)
  PROVE  Applied(u, r, g)
<1>1. /\ s \in Work /\ s.adapter \in [Indices -> Source] /\ u.adapter \in [Indices -> Source]
      /\ note \in [Indices -> Keys \cup {None}] /\ global \in Global /\ u \in Work
      /\ u.engine = s.engine /\ u.spoiled = s.spoiled
  BY DEF Follows, Work, Context, Retargets
<1>2. ASSUME NEW i \in Indices, note[i] # None
      PROVE  /\ u.adapter[i].tracked = note[i]
             /\ Sounds(u.engine[i], u.adapter[i], g, u.spoiled \cup {p})
  <2>1. s.adapter[i].tracked = note[i] /\ Sounds(s.engine[i], s.adapter[i], global, s.spoiled)
    BY <1>2 DEF Follows
  <2> DEFINE a == s.adapter[i]
             b == u.adapter[i]
  <2>2. a \in Source /\ b \in Source
    BY <1>1
  <2>3. /\ b.coarse = a.coarse /\ b.expression = a.expression
        /\ \A q \in Params \ {p} : b.base[q] = a.base[q] /\ b.modulation[q] = a.modulation[q]
    BY DEF Retargets
  <2> HIDE DEF a, b
  <2>4. ASSUME NEW q \in Params \ {p} PROVE Combined(b, g, q) = Combined(a, global, q)
    <3>1. \A e \in Drives(q) : b.expression[e] = a.expression[e]
      BY <2>3
    <3> QED BY <1>1, <2>2, <2>3, <3>1, CombinedSame
  <2>5. Sounds(u.engine[i], b, g, u.spoiled \cup {p})
    BY <1>1, <2>1, <2>3, <2>4, SoundsHasFilter DEF a
  <2>6. b.tracked = note[i]
    BY <2>1 DEF Retargets, b
  <2> QED BY <2>5, <2>6 DEF b
<1>3. Follows(r, note, g)
  BY <1>1, <1>2, ApplyAllFollows, ZenonT(60)
<1>4. r.ok = u.ok
  BY <1>1, <1>2, ApplyAllFollows, ZenonT(60)
<1>5. r.pending = u.pending
  BY <1>1, <1>2, ApplyAllFollows, ZenonT(60)
<1> QED BY <1>3, <1>4, <1>5 DEF Applied

LEMMA OverriddenSources ==
  ASSUME NEW s \in Work, NEW field \in {"base", "modulation"}, NEW p \in Params,
         NEW address \in Address, NEW value \in Values,
         NEW u, u = Overridden(s, field, p, address, value)
  PROVE  Retargets(s, u, p)
<1> DEFINE to == [i \in Indices |->
                   IF i \in Addressed(s, address) THEN
                     IF field = "base" THEN [s.adapter[i] EXCEPT !.base[p] = value]
                     ELSE [s.adapter[i] EXCEPT !.modulation[p] = value]
                   ELSE s.adapter[i]]
<1>1. s.adapter \in [Indices -> Source]
  BY DEF Work
<1>2. u = [s EXCEPT !.adapter = to]
  BY DEF Overridden
<1>3. ASSUME NEW i \in Indices
      PROVE  /\ to[i] \in Source
             /\ to[i].tracked = s.adapter[i].tracked
             /\ to[i].coarse = s.adapter[i].coarse
             /\ to[i].expression = s.adapter[i].expression
             /\ \A q \in Params \ {p} : /\ to[i].base[q] = s.adapter[i].base[q]
                                        /\ to[i].modulation[q] = s.adapter[i].modulation[q]
  <2> DEFINE a == s.adapter[i]
             b == to[i]
  <2>1. a \in Source
    BY <1>1
  <2>2. \/ b = [a EXCEPT !.base[p] = value] \/ b = [a EXCEPT !.modulation[p] = value] \/ b = a
    OBVIOUS
  <2> HIDE DEF a, b
  <2>3. CASE b = a
    BY <2>1, <2>3 DEF a, b
  <2>4. CASE b = [a EXCEPT !.base[p] = value]
    <3>1. /\ b \in Source /\ b.base = [a.base EXCEPT ![p] = value] /\ b.modulation = a.modulation
          /\ b.tracked = a.tracked /\ b.coarse = a.coarse /\ b.expression = a.expression
          /\ a.base \in [Params -> Values \cup {Unset}]
      BY <2>1, <2>4 DEF Source
    <3> HIDE <2>4
    <3> QED BY <3>1 DEF a, b
  <2>5. CASE b = [a EXCEPT !.modulation[p] = value]
    <3>1. /\ b \in Source /\ b.modulation = [a.modulation EXCEPT ![p] = value] /\ b.base = a.base
          /\ b.tracked = a.tracked /\ b.coarse = a.coarse /\ b.expression = a.expression
          /\ a.modulation \in [Params -> Values \cup {Unset}]
      BY <2>1, <2>5 DEF Source
    <3> HIDE <2>5
    <3> QED BY <3>1 DEF a, b
  <2> QED BY <2>2, <2>3, <2>4, <2>5
<1>4. to \in [Indices -> Source]
  <2>1. to = [i \in Indices |-> to[i]]
    OBVIOUS
  <2> HIDE DEF to
  <2> QED BY <1>3, <2>1
<1> HIDE DEF to
<1>5. /\ u \in Work /\ u.engine = s.engine /\ u.spoiled = s.spoiled /\ u.ok = s.ok
      /\ u.pending = s.pending /\ u.adapter = to
  BY <1>2, <1>4 DEF Work
<1> QED BY <1>3, <1>5 DEF Retargets

LEMMA AutomateKeeps ==
  ASSUME IInv, NEW field \in {"base", "modulation"}, NEW p \in Params, NEW address \in Address,
         NEW value \in Values, Automate(field, p, address, value)
  PROVE  IInv' /\ Promised
<1> DEFINE s == Sync(Working, note)
           g == IF address # "all" THEN global
                ELSE IF field = "base" THEN [global EXCEPT !.base[p] = value]
                ELSE [global EXCEPT !.modulation[p] = value]
           o == IF address = "all" THEN s ELSE Overridden(s, field, p, address, value)
           w == Apply(o, g, p, note)
<1>1. /\ events < MaxEvents /\ global' = g /\ Commit(w)
      /\ note' = note /\ midi' = midi /\ sent' = sent /\ started' = started
  BY DEF Automate, MayAutomate
<1>2. /\ Context /\ sent \in Seq(Event) /\ Follows(Working, note, global) /\ Working \in Work
      /\ note \in [Indices -> Keys \cup {None}] /\ global \in Global /\ Working.ok
      /\ Working.pending = pending /\ midi \in Controllers
      /\ started \in [Indices -> 0 .. MaxEvents] /\ ChannelIsTold(sent, midi)
      /\ Remembers(pending, sent, block.now) /\ pending.time <= block.now
  BY StateTypes DEF IInv, TypeOK, Follows
<1>3. /\ Follows(s, note, global) /\ s \in Work /\ s.ok /\ s.pending = pending
  <2> DEFINE v == Working
  <2>1. v \in Work /\ Follows(v, note, global) /\ v.ok /\ v.pending = pending /\ s = Sync(v, note)
    BY <1>2
  <2> HIDE DEF v, s
  <2>2. Follows(s, note, global) /\ s \in Work /\ s = [v EXCEPT !.adapter = s.adapter]
    BY <1>2, <2>1, SyncFollows, SyncTracks
  <2> QED BY <2>1, <2>2 DEF Work
<1> HIDE DEF s
<1>4. /\ g \in Global
      /\ \A q \in Params \ {p} : g.base[q] = global.base[q] /\ g.modulation[q] = global.modulation[q]
  <2>1. \/ g = global \/ g = [global EXCEPT !.base[p] = value] \/ g = [global EXCEPT !.modulation[p] = value]
    OBVIOUS
  <2> HIDE DEF g
  <2>2. CASE g = global
    BY <1>2, <2>2
  <2>3. CASE g = [global EXCEPT !.base[p] = value]
    <3>1. /\ g \in Global /\ g.base = [global.base EXCEPT ![p] = value]
          /\ g.modulation = global.modulation /\ global.base \in [Params -> Values]
      BY <1>2, <2>3 DEF Global
    <3> HIDE <2>3
    <3> QED BY <3>1
  <2>4. CASE g = [global EXCEPT !.modulation[p] = value]
    <3>1. /\ g \in Global /\ g.modulation = [global.modulation EXCEPT ![p] = value]
          /\ g.base = global.base /\ global.modulation \in [Params -> Values]
      BY <1>2, <2>4 DEF Global
    <3> HIDE <2>4
    <3> QED BY <3>1
  <2> QED BY <2>1, <2>2, <2>3, <2>4
<1> HIDE DEF g
<1>5. Retargets(s, o, p)
  <2>1. CASE address = "all"
    BY <1>3, <2>1 DEF Retargets
  <2>2. CASE address # "all"
    <3>1. o = Overridden(s, field, p, address, value)
      BY <2>2
    <3> HIDE DEF o
    <3> QED BY <1>3, <3>1, OverriddenSources
  <2> QED BY <2>1, <2>2
<1> HIDE DEF o
<1>6. Follows(w, note, g) /\ w.ok = s.ok /\ w.pending = s.pending
  <2>1. w = Apply(o, g, p, note)
    OBVIOUS
  <2> HIDE DEF w
  <2>2. Context /\ Follows(s, note, global)
    BY <1>2, <1>3
  <2>3. Applied(o, w, g)
    BY <1>4, <1>5, <2>1, <2>2, RetargetFollows
  <2> QED BY <1>5, <2>3 DEF Retargets, Applied
<1> HIDE DEF w
<1>7. w.ok /\ w.pending = pending /\ sent \o <<>> = sent /\ <<>> \in Seq(Event)
  BY <1>2, <1>3, <1>6, ConcatNone, EmptySeq
<1>8. Outcome(w, <<>>, note, g)
  BY <1>2, <1>6, <1>7 DEF Outcome
<1>9. Recorded(w, <<>>)
  BY <1>1, <1>7 DEF Recorded
<1>10. ChannelIsTold(sent', midi') /\ midi' \in Controllers /\ started' \in [Indices -> 0 .. MaxEvents]
  BY <1>1, <1>2
<1>11. IInv'
  BY <1>1, <1>2, <1>4, <1>7, <1>8, <1>9, <1>10, CommitKeeps
<1>12. OnlyWhenFull
  BY <1>1, <1>8, CommitRefuses
<1> QED BY <1>1, <1>11, <1>12, QuietStep

\* What the engine uses depends on the coarse tuning of the notes, not on that of now.
LEMMA CoarseTuningKeeps ==
  ASSUME IInv, NEW value \in Values, CoarseTuning(value)
  PROVE  IInv' /\ Promised
<1>1. /\ events < MaxEvents /\ global' = [global EXCEPT !.coarse = value] /\ events' = events + 1
      /\ note' = note /\ engine' = engine /\ adapter' = adapter /\ pending' = pending /\ midi' = midi
      /\ block' = block /\ sent' = sent /\ spoiled' = spoiled /\ started' = started
  BY DEF CoarseTuning, MayAutomate
<1>2. TypeOK /\ global \in Global /\ events \in 0 .. MaxEvents
  BY DEF IInv, TypeOK
<1>3. /\ global' \in Global /\ global'.base = global.base /\ global'.modulation = global.modulation
  BY <1>1, <1>2 DEF Global
<1>4. TypeOK'
  <2>1. events' \in 0 .. MaxEvents
    BY <1>1, <1>2, Constants
  <2> QED BY <1>1, <1>2, <1>3, <2>1 DEF TypeOK
<1>5. Follows(Working, note, global')
  <2> DEFINE h == global'
             v == Working
  <2>1. Follows(v, note, global) /\ v \in Work /\ v.adapter \in [Indices -> Source]
    BY DEF IInv, Follows, Work
  <2>2. h \in Global /\ h.base = global.base /\ h.modulation = global.modulation
    BY <1>3
  <2> HIDE DEF h, v
  <2>3. ASSUME NEW i \in Indices, note[i] # None
        PROVE  v.adapter[i].tracked = note[i] /\ Sounds(v.engine[i], v.adapter[i], h, v.spoiled)
    <3>1. v.adapter[i].tracked = note[i] /\ Sounds(v.engine[i], v.adapter[i], global, v.spoiled)
      BY <2>1, <2>3 DEF Follows
    <3>2. ASSUME NEW q \in Params PROVE Combined(v.adapter[i], h, q) = Combined(v.adapter[i], global, q)
      <4>1. v.adapter[i] \in Source
        BY <2>1
      <4> QED BY <1>2, <2>2, <4>1, CombinedSame
    <3> QED BY <3>1, <3>2, SoundsHasFilter
  <2>4. Follows(v, note, h)
    BY <2>1, <2>3 DEF Follows
  <2> QED BY <2>4 DEF v, h
<1>6. Follows(Working', note', global')
  <2>1. Working' = Working
    BY <1>1 DEF Working
  <2> QED BY <1>1, <1>5, <2>1
<1>7. IInv'
  BY <1>1, <1>4, <1>6 DEF IInv
<1>8. OnlyWhenFull
  BY <1>1 DEF OnlyWhenFull
<1> QED BY <1>1, <1>7, <1>8, QuietStep

-----------------------------------------------------------------------------
(* Blocks, and voices that end. *)

\* A step that is no event changes no count.
LEMMA NoEvent ==
  ASSUME IInv, started' = started, events' = events
  PROVE  Promised
<1>1. events \in Nat
  BY Constants DEF IInv, TypeOK
<1>2. OnlyWhenFull
  BY <1>1 DEF OnlyWhenFull
<1> QED BY <1>2, QuietStep

LEMMA NothingRemembered ==
  ASSUME NEW now \in Nat
  PROVE  Remembers(NoPending, <<>>, now) /\ NoPending.time <= now
BY NoPendingType DEF Remembers, Unset

LEMMA WorkingSame ==
  ASSUME engine' = engine, adapter' = adapter, pending' = pending, spoiled' = spoiled,
         note' = note, global' = global, IInv
  PROVE  Follows(Working', note', global')
<1>1. Working' = Working
  BY DEF Working
<1> QED BY <1>1 DEF IInv

\* The caches are not looked at.
LEMMA WorkingForgets ==
  ASSUME engine' = engine, adapter' = adapter, pending' = NoPending, spoiled' = spoiled,
         note' = note, global' = global, IInv
  PROVE  Follows(Working', note', global')
<1> DEFINE v == Working
           u == Working'
<1>1. Follows(v, note, global) /\ v \in Work
  BY DEF IInv, Follows
<1>2. u \in Work /\ Core(u) = Core(v)
  BY <1>1, NoPendingType DEF Work, Core, Working
<1> HIDE DEF u, v
<1>3. Follows(u, note, global)
  BY <1>1, <1>2, FollowsFrame
<1> QED BY <1>3 DEF u

LEMMA BlockBeginKeeps ==
  ASSUME IInv, BlockBegin
  PROVE  IInv' /\ Promised
<1>1. /\ block' = [running |-> TRUE, now |-> 0] /\ pending' = NoPending /\ sent' = <<>>
      /\ note' = note /\ engine' = engine /\ adapter' = adapter /\ global' = global /\ midi' = midi
      /\ events' = events /\ spoiled' = spoiled /\ started' = started
  BY DEF BlockBegin
<1>2. Follows(Working', note', global')
  BY <1>1, WorkingForgets
<1>3. block' \in [running : BOOLEAN, now : 0 .. MaxFrames - 1] /\ block'.now = 0
  BY <1>1, Constants
<1>4. TypeOK'
  BY <1>1, <1>3, NoPendingType, EmptySeq DEF IInv, TypeOK
<1>5. Remembers(pending', sent', block'.now) /\ pending'.time <= block'.now
  BY <1>1, <1>3, NothingRemembered
<1>6. ChannelIsTold(sent', midi')
  BY <1>1, ToldNothing
<1> QED BY <1>1, <1>2, <1>4, <1>5, <1>6, NoEvent DEF IInv

LEMMA AdvanceKeeps ==
  ASSUME IInv, Advance
  PROVE  IInv' /\ Promised
<1>1. /\ block' = [block EXCEPT !.now = @ + 1] /\ sent' = <<>> /\ pending' = pending
      /\ note' = note /\ engine' = engine /\ adapter' = adapter /\ global' = global /\ midi' = midi
      /\ events' = events /\ spoiled' = spoiled /\ started' = started
      /\ block.now + 1 < MaxFrames
  BY DEF Advance
<1>2. Follows(Working', note', global')
  BY <1>1, WorkingSame
<1>3. /\ block \in [running : BOOLEAN, now : 0 .. MaxFrames - 1]
      /\ pending.time \in {Unset} \cup 0 .. MaxFrames - 1 /\ pending.time <= block.now
  BY DEF IInv, TypeOK, Pending
<1>4. block' \in [running : BOOLEAN, now : 0 .. MaxFrames - 1] /\ block'.now = block.now + 1
  BY <1>1, <1>3, Constants
<1>5. TypeOK'
  BY <1>1, <1>4, EmptySeq DEF IInv, TypeOK
<1>6. pending'.time # block'.now /\ pending'.time <= block'.now
  BY <1>1, <1>3, <1>4, Constants DEF Unset
<1>7. Remembers(pending', sent', block'.now)
  BY <1>1, <1>6 DEF Remembers
<1>8. ChannelIsTold(sent', midi')
  BY <1>1, ToldNothing
<1> QED BY <1>1, <1>2, <1>5, <1>6, <1>7, <1>8, NoEvent DEF IInv

LEMMA BlockEndKeeps ==
  ASSUME IInv, BlockEnd
  PROVE  IInv' /\ Promised
<1>1. /\ block' = NoBlock /\ adapter' = Sync(Working, note).adapter /\ pending' = NoPending
      /\ sent' = <<>> /\ note' = note /\ engine' = engine /\ global' = global /\ midi' = midi
      /\ events' = events /\ spoiled' = spoiled /\ started' = started
  BY DEF BlockEnd
<1> DEFINE v == Working
           s == Sync(v, note)
           u == Working'
<1>2. /\ Follows(v, note, global) /\ v \in Work /\ note \in [Indices -> Keys \cup {None}]
      /\ global \in Global /\ v.engine = engine /\ v.spoiled = spoiled
  BY StateTypes DEF IInv, Follows
<1>3. Follows(s, note, global) /\ s \in Work /\ s = [v EXCEPT !.adapter = s.adapter]
  <2> HIDE DEF v
  <2> QED BY <1>2, SyncFollows, SyncTracks
<1>4. adapter' = s.adapter
  BY <1>1
<1> HIDE DEF s, v
<1>5. s.engine = engine /\ s.spoiled = spoiled /\ s.adapter \in [Indices -> Source]
  BY <1>2, <1>3 DEF Work
<1>6. u \in Work /\ Core(u) = Core(s)
  <2>1. engine \in [Indices -> Engine] /\ spoiled \in SUBSET {"fine", "pan"}
    BY DEF IInv, TypeOK
  <2> QED BY <1>1, <1>4, <1>5, <2>1, NoPendingType DEF Work, Core, Working
<1> HIDE DEF u
<1>7. Follows(u, note, global)
  BY <1>3, <1>6, FollowsFrame
<1>8. block' \in [running : BOOLEAN, now : 0 .. MaxFrames - 1] /\ block'.now = 0
  BY <1>1, Constants DEF NoBlock
<1>9. TypeOK'
  BY <1>1, <1>4, <1>5, <1>8, NoPendingType, EmptySeq DEF IInv, TypeOK
<1>10. Remembers(pending', sent', block'.now) /\ pending'.time <= block'.now
  BY <1>1, <1>8, NothingRemembered
<1>11. ChannelIsTold(sent', midi')
  BY <1>1, ToldNothing
<1>12. Follows(Working', note', global')
  BY <1>1, <1>7 DEF u
<1> QED BY <1>1, <1>9, <1>10, <1>11, <1>12, NoEvent DEF IInv

LEMMA VoicesEndKeeps ==
  ASSUME IInv, NEW voices \in SUBSET Indices, VoicesEnd(voices)
  PROVE  IInv' /\ Promised
<1>1. /\ note' = [i \in Indices |-> IF i \in voices THEN None ELSE note[i]]
      /\ engine' = [i \in Indices |-> IF i \in voices THEN Silence ELSE engine[i]]
      /\ adapter' = adapter /\ pending' = pending /\ block' = block /\ sent' = sent
      /\ global' = global /\ midi' = midi /\ events' = events /\ spoiled' = spoiled
      /\ started' = started
  BY DEF VoicesEnd
<1> DEFINE v == Working
           u == Working'
<1>2. /\ Follows(v, note, global) /\ v \in Work /\ note \in [Indices -> Keys \cup {None}]
      /\ v.engine = engine /\ v.adapter = adapter /\ v.spoiled = spoiled /\ v.pending = pending
  BY StateTypes DEF IInv, Follows
<1>3. note' \in [Indices -> Keys \cup {None}] /\ engine' \in [Indices -> Engine]
  BY <1>1, <1>2, SilentVoice DEF Work
<1>4. u \in Work /\ u.engine = engine' /\ u.adapter = adapter /\ u.spoiled = spoiled
  BY <1>1, <1>2, <1>3 DEF Work, Working
<1> HIDE DEF u, v
<1>5. ASSUME NEW i \in Indices, note'[i] # None
      PROVE  u.adapter[i].tracked = note'[i] /\ Sounds(u.engine[i], u.adapter[i], global, u.spoiled)
  <2>1. note'[i] = note[i] /\ engine'[i] = engine[i]
    BY <1>1, <1>5
  <2>2. v.adapter[i].tracked = note[i] /\ Sounds(v.engine[i], v.adapter[i], global, v.spoiled)
    BY <1>2, <1>5, <2>1 DEF Follows
  <2> QED BY <1>2, <1>4, <2>1, <2>2
<1>6. Follows(u, note', global)
  BY <1>4, <1>5 DEF Follows
<1>7. Follows(Working', note', global')
  BY <1>1, <1>6 DEF u
<1>8. TypeOK'
  BY <1>1, <1>3 DEF IInv, TypeOK
<1> QED BY <1>1, <1>7, <1>8, NoEvent DEF IInv

LEMMA UntrackedVoice == Untracked \in Source
<1>1. Neutral \in [Expressions -> Nat] /\ [p \in Params |-> Unset] \in [Params -> Values \cup {Unset}]
  BY DEF Neutral
<1> QED BY <1>1, Constants DEF Untracked, Source

LEMMA ResetKeeps ==
  ASSUME IInv, Reset
  PROVE  IInv' /\ Promised
<1>1. /\ note' = [i \in Indices |-> None] /\ engine' = [i \in Indices |-> Silence]
      /\ adapter' = [i \in Indices |-> Untracked]
      /\ global' = [global EXCEPT !.modulation = [p \in Params |-> 0]]
      /\ pending' = NoPending /\ midi' = MidiDefaults /\ sent' = <<>> /\ spoiled' = {}
      /\ block' = block /\ events' = events /\ started' = started
  BY DEF Reset
<1>2. /\ engine' \in [Indices -> Engine] /\ adapter' \in [Indices -> Source]
      /\ note' \in [Indices -> Keys \cup {None}]
  BY <1>1, SilentVoice, UntrackedVoice
<1>3. global' \in Global
  BY <1>1, Constants DEF IInv, TypeOK, Global
<1>4. MidiDefaults \in Controllers
  BY Constants DEF MidiDefaults, Controllers
<1>5. TypeOK'
  BY <1>1, <1>2, <1>3, <1>4, NoPendingType, EmptySeq DEF IInv, TypeOK, Controllers
<1>6. Follows(Working', note', global')
  <2>1. Working' \in Work
    BY <1>1, <1>2, NoPendingType DEF Work, Working
  <2> QED BY <1>1, <2>1 DEF Follows
<1>7. block'.now \in Nat
  BY <1>1, Constants DEF IInv, TypeOK
<1>8. Remembers(pending', sent', block'.now) /\ pending'.time <= block'.now
  BY <1>1, <1>7, NothingRemembered
<1>9. ChannelIsTold(sent', midi')
  BY <1>1, ToldNothing
<1> QED BY <1>1, <1>5, <1>6, <1>8, <1>9, NoEvent DEF IInv

-----------------------------------------------------------------------------
(* The invariant is inductive, and what is promised of a step holds of it. *)

LEMMA InitHolds ==
  ASSUME Init
  PROVE  IInv
<1>1. /\ note = [i \in Indices |-> None] /\ engine = [i \in Indices |-> Silence]
      /\ adapter = [i \in Indices |-> Untracked]
      /\ global = [base |-> [p \in Params |-> 0], modulation |-> [p \in Params |-> 0], coarse |-> 0]
      /\ pending = NoPending /\ midi = MidiDefaults /\ block = NoBlock /\ events = 0
      /\ sent = <<>> /\ spoiled = {} /\ started = [i \in Indices |-> 0]
  BY DEF Init
<1>2. /\ engine \in [Indices -> Engine] /\ adapter \in [Indices -> Source]
      /\ note \in [Indices -> Keys \cup {None}]
  BY <1>1, SilentVoice, UntrackedVoice
<1>3. global \in Global
  BY <1>1, Constants DEF Global
<1>4. MidiDefaults \in Controllers
  BY Constants DEF MidiDefaults, Controllers
<1>5. block \in [running : BOOLEAN, now : 0 .. MaxFrames - 1] /\ block.now = 0
  BY <1>1, Constants DEF NoBlock
<1>6. events \in 0 .. MaxEvents /\ started \in [Indices -> 0 .. MaxEvents]
  BY <1>1, Constants
<1>7. TypeOK
  BY <1>1, <1>2, <1>3, <1>4, <1>5, <1>6, NoPendingType, EmptySeq DEF TypeOK, Controllers
<1>8. Follows(Working, note, global)
  <2>1. Working \in Work
    BY <1>1, <1>2, NoPendingType DEF Work, Working
  <2> QED BY <1>1, <2>1 DEF Follows
<1>9. Remembers(pending, sent, block.now) /\ pending.time <= block.now
  BY <1>1, <1>5, NothingRemembered
<1>10. ChannelIsTold(sent, midi)
  BY <1>1, ToldNothing
<1> QED BY <1>7, <1>8, <1>9, <1>10 DEF IInv

LEMMA NextKeeps ==
  ASSUME IInv, Next
  PROVE  IInv' /\ Promised
<1>1. CASE BlockBegin \/ Advance \/ BlockEnd \/ Reset
  BY <1>1, BlockBeginKeeps, AdvanceKeeps, BlockEndKeeps, ResetKeeps
<1>2. CASE \E i \in Indices, n \in Keys : NoteOn(i, n)
  BY <1>2, NoteOnKeeps
<1>3. CASE \E voices \in SUBSET Indices : VoicesEnd(voices)
  BY <1>3, VoicesEndKeeps
<1>4. CASE \E e \in Sent, a \in Address, v \in Values : NoteExpression(e, a, v)
  BY <1>4, NoteExpressionKeeps, ParameterVoicesAssumption
<1>5. CASE Automation
  <2>1. ASSUME NEW p \in Automated, NEW a \in Address, NEW v \in Values,
               ParamValue(p, a, v) \/ ParamMod(p, a, v)
        PROVE  IInv' /\ Promised
    <3>1. p \in Params
      BY ParameterVoicesAssumption
    <3> QED BY <2>1, <3>1, AutomateKeeps DEF ParamValue, ParamMod
  <2> QED BY <1>5, <2>1, CoarseTuningKeeps DEF Automation
<1>6. CASE Midi
  <2>1. CASE \E i \in Indices, n \in Keys : MidiNoteOn(i, n)
    BY <2>1, MidiNoteOnKeeps
  <2>2. ASSUME NEW v \in Values, PitchBend(v) \/ ChannelPressure(v) \/ DataEntry(v + 1)
        PROVE  IInv' /\ Promised
    <3>1. v + 1 \in Nat
      BY Constants
    <3> QED BY <2>2, <3>1, PitchBendKeeps, ChannelPressureKeeps, DataEntryKeeps
  <2>3. ASSUME NEW v \in Values, NEW n \in Keys, PolyPressure(n, v)
        PROVE  IInv' /\ Promised
    BY <2>3, PolyPressureKeeps
  <2>4. ASSUME NEW v \in Values, NEW c \in {"volume", "expression", "pan", "brightness"},
               Controller(c, v)
        PROVE  IInv' /\ Promised
    BY <2>4, ControllerKeeps
  <2>5. CASE \E chosen \in BOOLEAN : SelectRange(chosen)
    BY <2>5, SelectRangeKeeps
  <2>6. CASE ResetControllers
    BY <2>6, ResetControllersKeeps
  <2> QED BY <1>6, <2>1, <2>2, <2>3, <2>4, <2>5, <2>6 DEF Midi
<1> QED BY <1>1, <1>2, <1>3, <1>4, <1>5, <1>6 DEF Next

LEMMA StutterKeeps ==
  ASSUME IInv, UNCHANGED vars
  PROVE  IInv'
<1>1. /\ note' = note /\ engine' = engine /\ adapter' = adapter /\ global' = global
      /\ pending' = pending /\ midi' = midi /\ block' = block /\ events' = events
      /\ sent' = sent /\ spoiled' = spoiled /\ started' = started
  BY DEF vars
<1>2. Follows(Working', note', global')
  BY <1>1, WorkingSame
<1>3. TypeOK'
  BY <1>1 DEF IInv, TypeOK
<1> QED BY <1>1, <1>2, <1>3 DEF IInv

(***************************************************************************)
(* The inductive invariant: the engine's controls of every sounding voice  *)
(* are what its sources give, each cache recalls what was sent at this     *)
(* time, and MIDI has told the channel of each of its controllers.         *)
(***************************************************************************)
THEOREM Invariant == Spec => []IInv
<1>1. Init => IInv
  BY InitHolds
<1>2. IInv /\ [Next]_vars => IInv'
  BY NextKeeps, StutterKeeps
<1> QED BY <1>1, <1>2, PTL DEF Spec

(***************************************************************************)
(* The variables keep their types: no event leaves a value that the engine *)
(* or the adapter of ParameterVoiceEngine cannot hold.                     *)
(***************************************************************************)
THEOREM TypeCorrect == Spec => []TypeOK
<1>1. IInv => TypeOK
  BY DEF IInv
<1> QED BY <1>1, Invariant, PTL

LEMMA FollowsImplies ==
  ASSUME IInv
  PROVE  VoicesFollowSources
<1>1. /\ global \in Global /\ adapter \in [Indices -> Source] /\ spoiled \subseteq {"fine", "pan"}
  BY DEF IInv, TypeOK
<1> DEFINE v == Working
<1>2. Follows(v, note, global) /\ v.engine = engine /\ v.adapter = adapter /\ v.spoiled = spoiled
  BY StateTypes DEF IInv
<1> HIDE DEF v
<1>3. ASSUME NEW i \in Indices, note[i] # None
      PROVE  /\ adapter[i].tracked = note[i]
             /\ \A p \in Params \ spoiled : engine[i].set[p] = Combined(adapter[i], global, p)
             /\ engine[i].brightness = adapter[i].expression["brightness"]
             /\ "fine" \in spoiled \/ engine[i].set["fine"].coarse = adapter[i].coarse
             /\ engine[i].coefficients = <<Combined(adapter[i], global, "cutoff").param,
                                           Combined(adapter[i], global, "resonance").param>>
             /\ engine[i].sweep = <<Combined(adapter[i], global, "cutoff").param,
                                    Combined(adapter[i], global, "amount").param>>
  <2>1. adapter[i].tracked = note[i] /\ Sounds(engine[i], adapter[i], global, spoiled)
    BY <1>2, <1>3 DEF Follows
  <2>2. Combined(adapter[i], global, "fine").coarse = adapter[i].coarse
    BY <1>1, CombinedType, Parameters
  <2>3. {"cutoff", "resonance", "amount"} \subseteq Params \ spoiled
    BY <1>1, Parameters
  <2>4. "fine" \in Params
    BY Parameters
  <2> QED BY <2>1, <2>2, <2>3, <2>4 DEF Sounds
<1> QED BY <1>3 DEF VoicesFollowSources

(***************************************************************************)
(* What the engine uses for a sounding voice is what its sources say, for  *)
(* any number of voices and any order of automation, expressions, MIDI and *)
(* notes: nothing of an earlier note or of an earlier filter is left.      *)
(***************************************************************************)
THEOREM VoicesAlwaysFollow == Spec => []VoicesFollowSources
<1>1. IInv => VoicesFollowSources
  BY FollowsImplies
<1> QED BY <1>1, Invariant, PTL

LEMMA StepPromises ==
  ASSUME IInv, [Next]_vars
  PROVE  [Promised]_vars
BY NextKeeps

(***************************************************************************)
(* A note starts with the expressions sent for it at its own time, however *)
(* many were sent and to whatever addresses: pendingTuningFor() and the    *)
(* five functions like it find what storePendingTuning() put last.         *)
(***************************************************************************)
THEOREM NotesHearWhatIsSent == Spec => NotesHearTheirTime
<1>1. IInv /\ [Next]_vars => [HearsItsTime]_vars
  BY StepPromises DEF Promised
<1>2. Spec => [][HearsItsTime]_vars
  BY <1>1, Invariant, PTL DEF Spec
<1> QED BY <1>2 DEF NotesHearTheirTime, HearsItsTime

(***************************************************************************)
(* A note of MIDI sounds as the controllers of its channel say, whatever   *)
(* MIDI sent before it at its time: emitMidiChannelStateForNoteOn() is not  *)
(* overruled by a slot of the channel or of the key.                       *)
(***************************************************************************)
THEOREM MidiNotesFollow == Spec => MidiNotesFollowChannel
<1>1. IInv /\ [Next]_vars => [FollowsChannel]_vars
  BY StepPromises DEF Promised
<1>2. Spec => [][FollowsChannel]_vars
  BY <1>1, Invariant, PTL DEF Spec
<1> QED BY <1>2 DEF MidiNotesFollowChannel, FollowsChannel

(***************************************************************************)
(* An event is refused only when as many addresses were sent at its time   *)
(* as a cache has slots: prepareTransientExpressionTime() leaves nothing   *)
(* of an earlier time in the room of the caches.                           *)
(***************************************************************************)
THEOREM RefusedOnlyForRoom == Spec => RefusedOnlyWhenFull
<1>1. IInv /\ [Next]_vars =>
        [events' > events /\ block.running /\ ~block'.running =>
           \E e \in Expressions :
             Cardinality({sent[k].address : k \in {j \in DOMAIN sent : sent[j].kind = e}})
               >= PendingSlots]_vars
  BY StepPromises DEF Promised, OnlyWhenFull
<1> QED BY <1>1, Invariant, PTL DEF Spec, RefusedOnlyWhenFull

=============================================================================

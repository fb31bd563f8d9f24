---------------------------- MODULE VoicesProofs ----------------------------
(***************************************************************************)
(* Proofs about Voices, for every number of voices, every set of channels  *)
(* and keys, every release time, block length and largest serial.          *)
(***************************************************************************)
EXTENDS Voices, FiniteSetTheorems, WellFoundedInduction, TLAPS

(***************************************************************************)
(* The inductive invariant.                                                *)
(***************************************************************************)

\* The arrays have an element for each voice, and the counters are in range.
Shapes ==
  /\ slot \in [Indices -> Slot] /\ allocationSerial \in 0 .. MaxSerial
  /\ sustained \subseteq Indices /\ pedal \subseteq Channels
  /\ life \in [Indices -> Stage] /\ generationSerial \in 0 .. MaxNotes
  /\ voice \in [Indices -> Voice]
  /\ block \in [running : BOOLEAN, frames : 0 .. MaxFrames, cursor : 0 .. MaxFrames,
                notes : 0 .. MaxNotes]
  /\ renderOk \in BOOLEAN
  /\ lastEnd \in 0 .. MaxFrames

\* A voice in use is in use in all layers, and one that is not is blank in all.
Agrees(s, l, v) ==
  IF s.active
    THEN /\ s.identity \in Identity
         /\ l.stage \in {"held", "releasing"} /\ l.identity = s.identity
         /\ l.generation # 0 /\ v.active /\ v.generation = l.generation
         /\ v.releasing <=> l.stage = "releasing"
         /\ v.deferredReleaseCompletion => v.releasing
         /\ ~v.deferredReleaseCompletion => v.left > 0
    ELSE s = NoSlot /\ l = NoStage /\ v = Silence

Layers == \A i \in Indices : Agrees(slot[i], life[i], voice[i])

\* Only a voice in use waits for the pedal.
SustainedSound == sustained \subseteq Active

\* Serials and generations of the voices in use are in the order of their notes.
Ordered ==
  /\ \A i \in Active : slot[i].serial <= allocationSerial /\ voice[i].generation <= generationSerial
  /\ \A i, j \in Active : slot[i].serial <= slot[j].serial => voice[i].generation <= voice[j].generation

\* A release that ran out at the end of a block waits for the next one.
DeferredWait == AtEvent => Deferred = {}

\* The notes and the NOTE_ENDs of a block are inside it.
EndsInside ==
  /\ block.running => lastEnd < block.frames /\ (block.cursor < block.frames \/ block.notes = 0)
  /\ ~block.running => lastEnd = 0 /\ block.notes = 0

Sounding(n) == {i \in Indices : slot[i].active /\ slot[i].identity = n}

OwedAreSounding == owed \in [Identity -> Int] /\ \A n \in Identity : owed[n] = Cardinality(Sounding(n))

\* The voices in use and the notes that are still to come, as the host sees them.
ToCount == Cardinality(Active) + block.notes + unstarted

\* The proxy counts no more than those, and all of them but the MIDI notes; and has
\* credits only when it counts all voices.
CountedAreActive ==
  /\ counted \in [active : 0 .. Capacity, credits : Nat]
  /\ unstarted \in Nat /\ uncounted \in 0 .. MaxMidiNotes
  /\ counted.active + counted.credits <= ToCount
  /\ ToCount <= counted.active + counted.credits + uncounted
  /\ counted.credits > 0 => counted.active = Capacity

\* The notes that are counted are not beyond the bound.
NotesAreBounded == generationSerial + block.notes + unstarted <= MaxNotes

IInv ==
  /\ Shapes /\ renderOk /\ Layers /\ SustainedSound /\ Ordered /\ DeferredWait /\ EndsInside
  /\ OwedAreSounding /\ CountedAreActive /\ NotesAreBounded
-----------------------------------------------------------------------------
(* Numbers and sets. *)

LEMMA BoundsAreNat ==
  /\ Capacity \in Nat /\ Capacity > 0 /\ MaxFrames \in Nat /\ MaxFrames > 0
  /\ MaxSerial \in Nat /\ MaxSerial > Capacity /\ MaxNotes \in Nat /\ MaxMidiNotes \in Nat
  /\ \A r \in Releases : r \in Nat /\ r > 0
  BY VoicesAssumption

LEMMA VoicesAreFinite ==
  ASSUME NEW S \in SUBSET Indices
  PROVE  /\ IsFiniteSet(S) /\ Cardinality(S) \in Nat /\ Cardinality(S) <= Capacity
         /\ Cardinality(S) = Capacity => S = Indices
         /\ Cardinality(S) = 0 <=> S = {}
<1>1. IsFiniteSet(Indices) /\ Cardinality(Indices) = Capacity
  BY FS_Interval, BoundsAreNat DEF Indices
<1>2. IsFiniteSet(S) /\ Cardinality(S) <= Capacity /\ (Cardinality(S) = Capacity => S = Indices)
  BY <1>1, FS_Subset
<1> QED BY <1>2, FS_CardinalityType, FS_EmptySet

\* What is taken out of a set of voices, and what is put into it.
LEMMA TakenOut ==
  ASSUME NEW S \in SUBSET Indices, NEW T \in SUBSET S
  PROVE  Cardinality(S \ T) = Cardinality(S) - Cardinality(T)
<1>1. S \cap T = T
  OBVIOUS
<1>2. S \in SUBSET Indices /\ T \in SUBSET Indices /\ IsFiniteSet(S)
  BY VoicesAreFinite
<1>3. Cardinality(S \ T) = Cardinality(S) - Cardinality(S \cap T)
  BY <1>2, FS_Difference, Zenon
<1> QED BY <1>1, <1>3, Zenon

LEMMA PutIn ==
  ASSUME NEW S \in SUBSET Indices, NEW i \in Indices
  PROVE  /\ Cardinality(S \cup {i}) = Cardinality(S) + (IF i \in S THEN 0 ELSE 1)
         /\ Cardinality(S \ {i}) = Cardinality(S) - (IF i \in S THEN 1 ELSE 0)
         /\ Cardinality(S) \in Nat /\ Cardinality(S \ {i}) \in Nat
  BY VoicesAreFinite, FS_AddElement, FS_RemoveElement

LessThan == {pair \in Nat \X Nat : pair[1] < pair[2]}

LEMMA SmallestExists ==
  ASSUME NEW S \in SUBSET Nat, S # {}
  PROVE  \E n \in S : \A m \in S : n <= m
<1>1. IsWellFoundedOn(LessThan, Nat)
  BY NatLessThanWellFounded DEF OpToRel, LessThan
<1>2. PICK n \in S : \A m \in S : <<m, n>> \notin LessThan
  BY <1>1, WFMin
<1>3. ASSUME NEW m \in S PROVE n <= m
  <2>1. m \in Nat /\ n \in Nat /\ <<m, n>> \notin LessThan
    BY <1>2
  <2>2. ~(m < n)
    BY <2>1 DEF LessThan
  <2> QED BY <2>1, <2>2
<1> QED BY <1>3

LEMMA TargetIsFree ==
  ASSUME Active # Indices
  PROVE  Target \in Indices \ Active
<1>1. Indices \ Active \in SUBSET Nat /\ Indices \ Active # {}
  BY BoundsAreNat DEF Indices, Active
<1>2. \E i \in Indices \ Active : \A j \in Indices \ Active : i <= j
  BY <1>1, SmallestExists
<1> QED BY <1>2 DEF Target

LEMMA TargetIsOldest ==
  ASSUME Shapes, Active = Indices
  PROVE  Target \in Indices /\ \A j \in Indices : slot[Target].serial <= slot[j].serial
<1>0. \A i \in Indices : i \in Nat /\ slot[i].serial \in Nat
  BY BoundsAreNat DEF Indices, Shapes, Slot
<1> DEFINE serials == {slot[i].serial : i \in Indices}
<1>1. serials \in SUBSET Nat /\ serials # {}
  BY <1>0, BoundsAreNat DEF Indices
<1>2. PICK n \in serials : \A m \in serials : n <= m
  BY <1>1, SmallestExists
<1> DEFINE oldest == {i \in Indices : slot[i].serial = n}
<1>3. oldest \in SUBSET Nat /\ oldest # {}
  BY <1>0, <1>2
<1>4. PICK i \in oldest : \A j \in oldest : i <= j
  BY <1>3, SmallestExists
<1>5. ASSUME NEW j \in Indices
      PROVE  \/ slot[i].serial < slot[j].serial
             \/ slot[i].serial = slot[j].serial /\ i <= j
  <2>1. n <= slot[j].serial /\ n = slot[i].serial /\ n \in Nat
    BY <1>0, <1>2, <1>4
  <2>2. CASE slot[j].serial = n
    BY <1>4, <2>1, <2>2
  <2>3. CASE slot[j].serial # n
    BY <1>0, <2>1, <2>3
  <2> QED BY <2>2, <2>3
<1>6. /\ Target \in Indices
      /\ \A j \in Indices : \/ slot[Target].serial < slot[j].serial
                            \/ slot[Target].serial = slot[j].serial /\ Target <= j
  <2>1. Target = CHOOSE k \in Indices : \A j \in Indices :
                   \/ slot[k].serial < slot[j].serial
                   \/ slot[k].serial = slot[j].serial /\ k <= j
    BY DEF Target
  <2>2. i \in Indices
    BY <1>4
  <2> QED BY <1>5, <2>1, <2>2
<1> QED BY <1>0, <1>6

LEMMA TargetIsVoice ==
  ASSUME Shapes PROVE Target \in Indices
  BY TargetIsFree, TargetIsOldest

\* The older of two voices has the smaller rank.
LEMMA RanksInOrder ==
  ASSUME Shapes, NEW i \in Active, NEW j \in Active
  PROVE  /\ Rank(i) \in 1 .. Cardinality(Active) /\ Cardinality(Active) \in Nat
         /\ Rank(i) <= Rank(j) => slot[i].serial <= slot[j].serial
<1> DEFINE upTo(k) == {l \in Active : slot[l].serial <= slot[k].serial}
<1>0. \A k \in Active : slot[k].serial \in Nat /\ k \in Indices
  BY BoundsAreNat DEF Active, Shapes, Slot
<1>1. Active \in SUBSET Indices /\ upTo(i) \in SUBSET Active /\ upTo(j) \in SUBSET Active
  BY DEF Active
<1>2. /\ IsFiniteSet(Active) /\ Cardinality(Active) \in Nat
      /\ IsFiniteSet(upTo(i)) /\ Cardinality(upTo(i)) \in Nat
      /\ IsFiniteSet(upTo(j)) /\ Cardinality(upTo(j)) \in Nat
  BY <1>1, VoicesAreFinite
<1>3. i \in upTo(i) /\ upTo(i) # {}
  BY <1>0
<1>4. Cardinality(upTo(i)) # 0 /\ Cardinality(upTo(i)) <= Cardinality(Active)
  BY <1>1, <1>2, <1>3, FS_EmptySet, FS_Subset
<1>5. ASSUME ~(slot[i].serial <= slot[j].serial) PROVE Cardinality(upTo(j)) < Cardinality(upTo(i))
  <2>1. upTo(j) \in SUBSET upTo(i) /\ i \notin upTo(j)
    BY <1>0, <1>5
  <2>2. upTo(j) # upTo(i)
    BY <1>3, <2>1
  <2>3. Cardinality(upTo(j)) <= Cardinality(upTo(i)) /\ Cardinality(upTo(j)) # Cardinality(upTo(i))
    BY <1>2, <2>1, <2>2, FS_Subset
  <2> QED BY <1>2, <2>3
<1>6. Rank(i) = Cardinality(upTo(i)) /\ Rank(j) = Cardinality(upTo(j))
  BY DEF Rank
<1> HIDE DEF upTo
<1> QED BY <1>2, <1>4, <1>5, <1>6
-----------------------------------------------------------------------------
(* The count of the proxy. *)

IsCount(c) ==
  /\ c \in [active : 0 .. Capacity, credits : Nat]
  /\ c.credits > 0 => c.active = Capacity

LEMMA NotesAreCounted ==
  ASSUME NEW c, IsCount(c), NEW k \in Nat
  PROVE  /\ IsCount(CountNotes(c, k))
         /\ CountNotes(c, k).active + CountNotes(c, k).credits = c.active + c.credits + k
<1>0. c.active \in Nat /\ c.active <= Capacity /\ c.credits \in Nat /\ Capacity \in Nat
  BY BoundsAreNat DEF IsCount
<1>1. CASE k <= Capacity - c.active
  <2>1. CountNotes(c, k) = [c EXCEPT !.active = c.active + k]
    BY <1>1 DEF CountNotes
  <2>2. CountNotes(c, k) = [active |-> c.active + k, credits |-> c.credits]
    BY <2>1 DEF IsCount
  <2> QED BY <1>0, <1>1, <2>2 DEF IsCount
<1>2. CASE ~(k <= Capacity - c.active)
  <2>1. CountNotes(c, k) = [active |-> Capacity, credits |-> c.credits + k - (Capacity - c.active)]
    BY <1>2 DEF CountNotes
  <2> QED BY <1>0, <1>2, <2>1 DEF IsCount
<1> QED BY <1>1, <1>2

LEMMA EndsAreCounted ==
  ASSUME NEW c, IsCount(c), NEW k \in Nat
  PROVE  /\ IsCount(CountEnds(c, k))
         /\ CountEnds(c, k).active + CountEnds(c, k).credits =
              IF k <= c.active + c.credits THEN c.active + c.credits - k ELSE 0
<1>0. c.active \in Nat /\ c.active <= Capacity /\ c.credits \in Nat /\ Capacity \in Nat
  BY BoundsAreNat DEF IsCount
<1>1. CASE k - c.credits <= 0
  <2>1. CountEnds(c, k) = [c EXCEPT !.credits = c.credits - k]
    BY <1>1 DEF CountEnds
  <2>2. CountEnds(c, k) = [active |-> c.active, credits |-> c.credits - k]
    BY <2>1 DEF IsCount
  <2> QED BY <1>0, <1>1, <2>2 DEF IsCount
<1>2. CASE ~(k - c.credits <= 0)
  <2>1. CountEnds(c, k) =
          [active |-> IF c.active > k - c.credits THEN c.active - (k - c.credits) ELSE 0,
           credits |-> 0]
    BY <1>2 DEF CountEnds
  <2> QED BY <1>0, <1>2, <2>1 DEF IsCount
<1> QED BY <1>1, <1>2

LEMMA CountIsCount ==
  ASSUME CountedAreActive
  PROVE  IsCount(counted)
  BY DEF CountedAreActive, IsCount

-----------------------------------------------------------------------------
(* Voices that are given back. *)

Blank(S) ==
  /\ slot' = [i \in Indices |-> IF i \in S THEN NoSlot ELSE slot[i]]
  /\ life' = [i \in Indices |-> IF i \in S THEN NoStage ELSE life[i]]

LEMMA BlankTypes ==
  /\ NoSlot \in Slot /\ NoStage \in Stage /\ Silence \in Voice
  /\ Agrees(NoSlot, NoStage, Silence)
  /\ ~NoSlot.active /\ ~Silence.active /\ ~Silence.deferredReleaseCompletion
  /\ Silence.generation = 0 /\ NoStage.generation = 0
<1>1. 0 \in 0 .. MaxSerial /\ 0 \in 0 .. MaxNotes /\ 0 \in Nat
  BY BoundsAreNat
<1>2. NoSlot \in Slot
  BY <1>1 DEF NoSlot, Slot
<1>3. NoStage \in Stage
  BY <1>1 DEF NoStage, Stage
<1>4. Silence \in Voice
  BY <1>1 DEF Silence, Voice
<1>5. ~NoSlot.active
  BY DEF NoSlot
<1>6. /\ ~Silence.active /\ ~Silence.deferredReleaseCompletion
      /\ Silence.generation = 0 /\ NoStage.generation = 0
  BY DEF Silence, NoStage
<1> QED BY <1>2, <1>3, <1>4, <1>5, <1>6 DEF Agrees

\* What a voice in use looks like in each layer.
LEMMA ActiveVoice ==
  ASSUME Shapes, Layers, NEW i \in Indices
  PROVE  /\ slot[i] \in Slot /\ life[i] \in Stage /\ voice[i] \in Voice
         /\ Agrees(slot[i], life[i], voice[i])
         /\ i \in Active <=> slot[i].active
         /\ voice[i].active <=> i \in Active
         /\ i \in Active =>
              /\ slot[i].identity \in Identity /\ life[i].identity = slot[i].identity
              /\ life[i].stage # "inactive"
              /\ life[i].generation # 0 /\ voice[i].generation = life[i].generation
              /\ voice[i].releasing <=> life[i].stage = "releasing"
         /\ i \notin Active => slot[i] = NoSlot /\ life[i] = NoStage /\ voice[i] = Silence
<1>1. slot[i] \in Slot /\ life[i] \in Stage /\ voice[i] \in Voice
  BY DEF Shapes
<1>2. Agrees(slot[i], life[i], voice[i])
  BY DEF Layers
<1>3. i \in Active <=> slot[i].active
  BY DEF Active
<1> QED BY <1>1, <1>2, <1>3, BlankTypes DEF Agrees

LEMMA BlankActive ==
  ASSUME Shapes, Layers, NEW S \in SUBSET Active, Blank(S)
  PROVE  /\ Active' = Active \ S
         /\ \A i \in Indices \ S : slot'[i] = slot[i] /\ life'[i] = life[i]
         /\ \A i \in S : slot'[i] = NoSlot /\ life'[i] = NoStage
         /\ slot' \in [Indices -> Slot] /\ life' \in [Indices -> Stage]
         /\ Cardinality(Active') = Cardinality(Active) - Cardinality(S)
         /\ Cardinality(S) \in Nat /\ Cardinality(S) <= Cardinality(Active)
         /\ Cardinality(Active) \in Nat
<1>0. Active \in SUBSET Indices /\ S \in SUBSET Indices
  BY DEF Active
<1>1. \A i \in Indices \ S : slot'[i] = slot[i] /\ life'[i] = life[i]
  BY DEF Blank
<1>2. \A i \in S : slot'[i] = NoSlot /\ life'[i] = NoStage
  BY <1>0 DEF Blank
<1>3. slot' \in [Indices -> Slot] /\ life' \in [Indices -> Stage]
  BY BlankTypes DEF Blank, Shapes
<1>4. Active' = Active \ S
  BY <1>0, <1>1, <1>2, BlankTypes DEF Active
<1>5. Cardinality(Active') = Cardinality(Active) - Cardinality(S)
  BY <1>0, <1>4, TakenOut
<1>6. Cardinality(S) \in Nat /\ Cardinality(S) <= Cardinality(Active) /\ Cardinality(Active) \in Nat
  BY <1>0, VoicesAreFinite, FS_Subset
<1> QED BY <1>1, <1>2, <1>3, <1>4, <1>5, <1>6

\* Each of them gets its NOTE_END.
LEMMA EndsAreOwed ==
  ASSUME Shapes, Layers, OwedAreSounding, NEW S \in SUBSET Active, Blank(S), NEW time,
         EmitNoteEnds(S, time)
  PROVE  OwedAreSounding'
<1>1. owed' = [n \in Identity |-> owed[n] - Cardinality({i \in S : life[i].identity = n})]
  BY DEF EmitNoteEnds
<1>2. ASSUME NEW n \in Identity
      PROVE  owed'[n] \in Int /\ owed'[n] = Cardinality(Sounding(n)')
  <2> DEFINE ended == {i \in S : life[i].identity = n}
  <2>0. S \subseteq Indices
    BY DEF Active
  <2>1. Sounding(n) \in SUBSET Indices /\ ended \in SUBSET Sounding(n)
    BY <2>0, ActiveVoice DEF Sounding
  <2>2. Sounding(n)' = Sounding(n) \ ended
    BY <2>0, BlankActive, BlankTypes, ActiveVoice DEF Sounding
  <2>3. Cardinality(Sounding(n)') = Cardinality(Sounding(n)) - Cardinality(ended)
    BY <2>1, <2>2, TakenOut
  <2>4. Cardinality(Sounding(n)) \in Nat /\ Cardinality(ended) \in Nat
    BY <2>0, <2>1, VoicesAreFinite
  <2>5. owed'[n] = owed[n] - Cardinality(ended)
    BY <1>1
  <2>6. owed[n] = Cardinality(Sounding(n))
    BY DEF OwedAreSounding
  <2> QED BY <2>3, <2>4, <2>5, <2>6
<1> QED BY <1>1, <1>2 DEF OwedAreSounding

\* The order of the voices that are left is as it was.
LEMMA BlankOrdered ==
  ASSUME Shapes, Layers, Ordered, NEW S \in SUBSET Active, Blank(S),
         UNCHANGED <<allocationSerial, generationSerial>>,
         \A i \in Indices \ S : voice'[i].generation = voice[i].generation
  PROVE  Ordered'
<1>1. Active' = Active \ S /\ \A i \in Active' : i \in Indices \ S /\ slot'[i] = slot[i]
  BY BlankActive DEF Active
<1> QED BY <1>1 DEF Ordered
-----------------------------------------------------------------------------
(* Blocks. *)

LEMMA ReleasesComplete ==
  ASSUME IInv, NEW voices \in SUBSET Indices,
         \A i \in voices : voice[i].active /\ voice[i].releasing,
         NEW time, NEW count, CompleteReleases(voices, time, count)
  PROVE  /\ voices \in SUBSET Active /\ Blank(voices)
         /\ sustained' = sustained \ voices /\ EmitNoteEnds(voices, time)
         /\ counted' = CountEnds(count, Cardinality(voices)) /\ renderOk'
<1>0. Shapes /\ Layers /\ renderOk
  BY DEF IInv
<1>1. ASSUME NEW i \in voices PROVE i \in Active /\ Completes(i)
  <2>1. i \in Active
    BY <1>0, ActiveVoice
  <2>2. life[i].stage = "releasing" /\ life[i].generation # 0
        /\ voice[i].generation = life[i].generation
        /\ slot[i].active /\ slot[i].identity = life[i].identity
    BY <1>0, <2>1, ActiveVoice
  <2> QED BY <2>1, <2>2 DEF Completes
<1>2. {i \in voices : Completes(i)} = voices
  BY <1>1
<1> QED BY <1>0, <1>1, <1>2 DEF CompleteReleases, Blank

LEMMA SustainedGoesToo ==
  ASSUME IInv, NEW S \in SUBSET Active, Blank(S), NEW T, S \subseteq T, sustained' = sustained \ T
  PROVE  sustained' \subseteq Indices /\ SustainedSound'
<1>1. Active' = Active \ S
  BY BlankActive DEF IInv
<1> QED BY <1>1 DEF IInv, SustainedSound, Shapes

\* A count from which the NOTE_ENDs are taken, those of notes it has missed among them.
LEMMA CountStays ==
  ASSUME NEW c, IsCount(c), NEW k \in Nat, counted' = CountEnds(c, k), unstarted' \in Nat,
         uncounted' \in 0 .. MaxMidiNotes, ToCount' \in Nat,
         c.active + c.credits <= ToCount' + k,
         ToCount' + k <= c.active + c.credits + uncounted'
  PROVE  CountedAreActive'
<1>0. c.active \in Nat /\ c.credits \in Nat /\ uncounted' \in Nat
  BY BoundsAreNat DEF IsCount
<1>1. IsCount(counted')
  BY EndsAreCounted
<1>2. counted'.active + counted'.credits =
        IF k <= c.active + c.credits THEN c.active + c.credits - k ELSE 0
  BY EndsAreCounted
<1>3. /\ counted'.active + counted'.credits <= ToCount'
      /\ ToCount' <= counted'.active + counted'.credits + uncounted'
  BY <1>0, <1>2
<1> QED BY <1>1, <1>3 DEF CountedAreActive, IsCount

LEMMA BlockBeginKeeps ==
  ASSUME IInv, NEW frames \in 1 .. MaxFrames, NEW notes \in 0 .. MaxNotes, BlockBegin(frames, notes)
  PROVE  IInv'
<1> DEFINE S == Deferred
<1>0. Shapes /\ Layers /\ Ordered /\ OwedAreSounding /\ CountedAreActive /\ EndsInside /\ NotesAreBounded
  BY DEF IInv
<1>1. /\ ~block.running /\ notes + unstarted <= MaxNotes - generationSerial
      /\ CompleteReleases(S, 0, CountNotes(counted, notes))
      /\ voice' = [i \in Indices |-> IF i \in S THEN Silence ELSE voice[i]]
      /\ UNCHANGED <<allocationSerial, pedal, generationSerial, unstarted, uncounted>>
  BY DEF BlockBegin
<1>2. ASSUME NEW i \in S PROVE i \in Indices /\ voice[i].active /\ voice[i].releasing
  <2>1. i \in Indices /\ voice[i].active /\ voice[i].deferredReleaseCompletion
    BY DEF Deferred
  <2>2. slot[i].active /\ Agrees(slot[i], life[i], voice[i])
    BY <1>0, <2>1, ActiveVoice
  <2> QED BY <2>1, <2>2 DEF Agrees
<1>3. /\ S \in SUBSET Active /\ Blank(S) /\ sustained' = sustained \ S /\ EmitNoteEnds(S, 0)
      /\ counted' = CountEnds(CountNotes(counted, notes), Cardinality(S)) /\ renderOk'
  <2>1. S \in SUBSET Indices
    BY <1>2
  <2> HIDE DEF S
  <2> QED BY <1>1, <1>2, <2>1, ReleasesComplete
<1>4. block' = [running |-> TRUE, frames |-> frames, cursor |-> 0, notes |-> notes]
  BY <1>3 DEF BlockBegin, Started
<1> HIDE DEF S
<1>5. \A i \in Indices : voice'[i] = IF i \in S THEN Silence ELSE voice[i]
  BY <1>1
<1>6. \A i \in Indices : voice[i] \in Voice
  BY <1>0 DEF Shapes
<1>7. lastEnd' = 0
  BY <1>0, <1>1, <1>3 DEF EndsInside, EmitNoteEnds
<1>8. Shapes'
  <2>1. slot' \in [Indices -> Slot] /\ life' \in [Indices -> Stage]
    BY <1>0, <1>3, BlankActive
  <2>2. voice' \in [Indices -> Voice]
    BY <1>1, <1>6, BlankTypes
  <2>3. sustained' \subseteq Indices
    BY <1>0, <1>3 DEF Shapes
  <2>4. /\ 0 \in 0 .. MaxFrames /\ frames \in 0 .. MaxFrames
    BY BoundsAreNat
  <2>5. block' \in [running : BOOLEAN, frames : 0 .. MaxFrames, cursor : 0 .. MaxFrames,
                    notes : 0 .. MaxNotes]
    BY <1>4, <2>4
  <2> QED BY <1>0, <1>1, <1>3, <1>7, <2>1, <2>2, <2>3, <2>4, <2>5 DEF Shapes
<1>9. Layers'
  BY <1>0, <1>3, <1>5, BlankActive, BlankTypes DEF Layers
<1>10. Ordered'
  BY <1>0, <1>1, <1>3, <1>5, BlankOrdered
<1>11. DeferredWait'
  BY <1>5, BlankTypes DEF DeferredWait, Deferred, S
<1>12. EndsInside'
  BY <1>4, <1>7, BoundsAreNat DEF EndsInside
<1>13. OwedAreSounding'
  BY <1>0, <1>3, EndsAreOwed
<1>14. CountedAreActive'
  <2> DEFINE c == CountNotes(counted, notes)
             k == Cardinality(S)
  <2>1. k \in Nat /\ k <= Cardinality(Active) /\ Cardinality(Active') = Cardinality(Active) - k
        /\ Cardinality(Active) \in Nat
    BY <1>0, <1>3, BlankActive
  <2>2. block.notes = 0 /\ unstarted \in Nat /\ notes \in Nat /\ uncounted \in 0 .. MaxMidiNotes
    BY <1>0, <1>1 DEF EndsInside, CountedAreActive
  <2>3. IsCount(c) /\ c.active + c.credits = counted.active + counted.credits + notes
        /\ counted.active \in Nat /\ counted.credits \in Nat /\ uncounted \in Nat
    BY <1>0, <2>2, CountIsCount, NotesAreCounted, BoundsAreNat DEF CountedAreActive
  <2>4. counted' = CountEnds(c, k) /\ block'.notes = notes /\ unstarted' = unstarted
        /\ uncounted' = uncounted
    BY <1>1, <1>3, <1>4 DEF c, k
  <2>5. ToCount = Cardinality(Active) + unstarted
        /\ ToCount' = Cardinality(Active) - k + notes + unstarted
    BY <2>1, <2>2, <2>4 DEF ToCount
  <2>6. /\ counted.active + counted.credits <= ToCount
        /\ ToCount <= counted.active + counted.credits + uncounted
    BY <1>0 DEF CountedAreActive
  <2> HIDE DEF c, k
  <2>7. /\ ToCount' \in Nat /\ c.active + c.credits <= ToCount' + k
        /\ ToCount' + k <= c.active + c.credits + uncounted'
    BY <2>1, <2>2, <2>3, <2>4, <2>5, <2>6
  <2> QED BY <2>1, <2>2, <2>3, <2>4, <2>7, CountStays
<1>15. NotesAreBounded'
  <2>1. generationSerial \in Nat /\ notes \in Nat /\ unstarted \in Nat /\ MaxNotes \in Nat
    BY <1>0, BoundsAreNat DEF Shapes, CountedAreActive
  <2>2. block'.notes = notes
    BY <1>4
  <2> QED BY <1>1, <2>1, <2>2 DEF NotesAreBounded
<1>16. SustainedSound'
  BY <1>3, SustainedGoesToo
<1> QED BY <1>3, <1>8, <1>9, <1>10, <1>11, <1>12, <1>13, <1>14, <1>15, <1>16 DEF IInv

\* What the counts, the marks and what the host is owed are when voices are given back.
LEMMA GivesBack ==
  ASSUME IInv, NEW S \in SUBSET Active, Blank(S), NEW time, EmitNoteEnds(S, time),
         NEW T, S \subseteq T, sustained' = sustained \ T,
         counted' = CountEnds(counted, Cardinality(S)),
         block'.notes = block.notes, generationSerial' = generationSerial,
         unstarted' = unstarted, uncounted' = uncounted
  PROVE  /\ slot' \in [Indices -> Slot] /\ life' \in [Indices -> Stage]
         /\ sustained' \subseteq Indices /\ SustainedSound'
         /\ OwedAreSounding' /\ CountedAreActive' /\ NotesAreBounded'
<1>0. Shapes /\ Layers /\ OwedAreSounding /\ CountedAreActive /\ NotesAreBounded
  BY DEF IInv
<1>1. slot' \in [Indices -> Slot] /\ life' \in [Indices -> Stage]
  BY <1>0, BlankActive
<1>2. sustained' \subseteq Indices /\ SustainedSound'
  BY SustainedGoesToo
<1>3. OwedAreSounding'
  BY <1>0, EndsAreOwed
<1>4. CountedAreActive'
  <2> DEFINE k == Cardinality(S)
  <2>1. k \in Nat /\ k <= Cardinality(Active) /\ Cardinality(Active') = Cardinality(Active) - k
        /\ Cardinality(Active) \in Nat
    BY <1>0, BlankActive
  <2>2. block.notes \in Nat /\ unstarted \in Nat /\ uncounted \in 0 .. MaxMidiNotes
    BY <1>0, BoundsAreNat DEF Shapes, CountedAreActive
  <2>3. IsCount(counted) /\ counted.active + counted.credits <= ToCount
        /\ ToCount <= counted.active + counted.credits + uncounted
    BY <1>0, CountIsCount DEF CountedAreActive
  <2>4. ToCount' \in Nat /\ ToCount' + k = ToCount
    BY <2>1, <2>2 DEF ToCount
  <2> HIDE DEF k
  <2>5. counted' = CountEnds(counted, k)
    BY DEF k
  <2> QED BY <2>1, <2>2, <2>3, <2>4, <2>5, CountStays
<1>5. NotesAreBounded'
  BY <1>0 DEF NotesAreBounded
<1> QED BY <1>1, <1>2, <1>3, <1>4, <1>5

\* One frame of the envelope of a voice that is releasing.
LEMMA AdvancedVoice ==
  ASSUME IInv, NEW i \in Releasing
  PROVE  /\ i \in Active /\ Advanced(i) \in Voice
         /\ Advanced(i).generation = voice[i].generation \/ Advanced(i) = Silence
         /\ i \in Expiring /\ EndsInBlock => Advanced(i) = Silence
         /\ ~(i \in Expiring /\ EndsInBlock) =>
              /\ Agrees(slot[i], life[i], Advanced(i))
              /\ Advanced(i).generation = voice[i].generation
         /\ EndsInBlock => ~Advanced(i).deferredReleaseCompletion
<1>0. Shapes /\ Layers /\ i \in Indices
  BY DEF IInv, Releasing
<1>1. voice[i].active /\ voice[i].releasing /\ ~voice[i].deferredReleaseCompletion
  BY DEF Releasing, Deferred
<1>2. i \in Active /\ voice[i] \in Voice /\ Agrees(slot[i], life[i], voice[i]) /\ slot[i].active
  BY <1>0, <1>1, ActiveVoice
<1>3. voice[i].left \in Nat /\ voice[i].left > 0
  BY <1>1, <1>2 DEF Agrees, Voice
<1>4. CASE i \notin Expiring
  <2>1. voice[i].left # 1
    BY <1>4 DEF Expiring
  <2>2. Advanced(i) = [voice[i] EXCEPT !.left = voice[i].left - 1]
    BY <1>4 DEF Advanced
  <2>3. voice[i].left - 1 \in Nat /\ voice[i].left - 1 > 0
    BY <1>3, <2>1
  <2>4. /\ Advanced(i) \in Voice /\ Advanced(i).left > 0
        /\ Advanced(i).active = voice[i].active /\ Advanced(i).generation = voice[i].generation
        /\ Advanced(i).releasing = voice[i].releasing
        /\ Advanced(i).deferredReleaseCompletion = voice[i].deferredReleaseCompletion
    <3> DEFINE n == voice[i].left - 1
    <3>1. Advanced(i) = [voice[i] EXCEPT !.left = n] /\ n \in Nat /\ n > 0
      BY <2>2, <2>3
    <3> HIDE DEF n
    <3>2. Advanced(i) \in Voice
      BY <1>2, <3>1 DEF Voice
    <3>3. Advanced(i).left = n
      BY <1>2, <3>1 DEF Voice
    <3>4. /\ Advanced(i).active = voice[i].active /\ Advanced(i).generation = voice[i].generation
          /\ Advanced(i).releasing = voice[i].releasing
          /\ Advanced(i).deferredReleaseCompletion = voice[i].deferredReleaseCompletion
      BY <1>2, <3>1 DEF Voice
    <3> QED BY <3>1, <3>2, <3>3, <3>4
  <2> QED BY <1>1, <1>2, <1>4, <2>4 DEF Agrees
<1>5. CASE i \in Expiring /\ EndsInBlock
  <2>1. Advanced(i) = Silence
    BY <1>5 DEF Advanced
  <2> QED BY <1>2, <1>5, <2>1, BlankTypes
<1>6. CASE i \in Expiring /\ ~EndsInBlock
  <2>1. Advanced(i) = [voice[i] EXCEPT !.left = 0, !.deferredReleaseCompletion = TRUE]
    BY <1>6 DEF Advanced
  <2>2. /\ Advanced(i) \in Voice
        /\ Advanced(i).active = voice[i].active /\ Advanced(i).generation = voice[i].generation
        /\ Advanced(i).releasing = voice[i].releasing
        /\ Advanced(i).deferredReleaseCompletion
    <3>1. 0 \in Nat /\ DOMAIN voice[i] = {"active", "generation", "releasing", "left",
                                          "deferredReleaseCompletion"}
      BY <1>2 DEF Voice
    <3>2. Advanced(i) \in Voice
      BY <1>2, <2>1, <3>1 DEF Voice
    <3>3. /\ Advanced(i).active = voice[i].active /\ Advanced(i).generation = voice[i].generation
          /\ Advanced(i).releasing = voice[i].releasing
      BY <2>1, <3>1
    <3>4. Advanced(i).deferredReleaseCompletion
      BY <2>1, <3>1
    <3> QED BY <3>2, <3>3, <3>4
  <2> QED BY <1>1, <1>2, <1>6, <2>2 DEF Agrees
<1> QED BY <1>4, <1>5, <1>6

LEMMA RenderKeeps ==
  ASSUME IInv, Render
  PROVE  IInv'
<1> DEFINE S == IF EndsInBlock THEN Expiring ELSE {}
<1>0. Shapes /\ Layers /\ Ordered /\ EndsInside /\ DeferredWait
  BY DEF IInv
<1>1. /\ block.running /\ block.cursor < block.frames
      /\ CompleteReleases(S, block.cursor + 1, counted)
      /\ voice' = [i \in Indices |-> IF i \in Releasing THEN Advanced(i) ELSE voice[i]]
      /\ block' = [block EXCEPT !.cursor = block.cursor + 1]
      /\ UNCHANGED <<allocationSerial, pedal, generationSerial, unstarted, uncounted>>
  BY DEF Render
<1>2. \A i \in S : EndsInBlock /\ i \in Expiring /\ i \in Releasing
  BY DEF Expiring
<1>3. /\ S \in SUBSET Active /\ Blank(S) /\ sustained' = sustained \ S
      /\ EmitNoteEnds(S, block.cursor + 1)
      /\ counted' = CountEnds(counted, Cardinality(S)) /\ renderOk'
  <2>1. \A i \in S : i \in Indices /\ voice[i].active /\ voice[i].releasing
    BY <1>2 DEF Releasing
  <2> HIDE DEF S
  <2> QED BY <1>1, <2>1, ReleasesComplete
<1>4. \A i \in Releasing : (i \in Expiring /\ EndsInBlock) <=> i \in S
  BY <1>2
<1> HIDE DEF S
<1>5. /\ block.frames \in 0 .. MaxFrames /\ block.cursor \in Nat /\ block.notes \in Nat
      /\ block.frames \in Nat
      /\ block'.running = block.running /\ block'.frames = block.frames
      /\ block'.cursor = block.cursor + 1 /\ block'.notes = block.notes
      /\ block' \in [running : BOOLEAN, frames : 0 .. MaxFrames, cursor : 0 .. MaxFrames,
                     notes : 0 .. MaxNotes]
  <2> DEFINE next == block.cursor + 1
  <2>1. /\ block \in [running : BOOLEAN, frames : 0 .. MaxFrames, cursor : 0 .. MaxFrames,
                       notes : 0 .. MaxNotes]
        /\ block' = [block EXCEPT !.cursor = next]
    BY <1>0, <1>1 DEF Shapes
  <2>2. /\ block.frames \in 0 .. MaxFrames /\ block.cursor \in Nat /\ block.notes \in Nat
        /\ block.frames \in Nat
    BY <2>1, BoundsAreNat
  <2>3. next \in 0 .. MaxFrames
    BY <1>1, <2>2, BoundsAreNat
  <2>4. block'.cursor = next
    <3> HIDE DEF next
    <3> QED BY <2>1
  <2>5. /\ block'.running = block.running /\ block'.frames = block.frames /\ block'.notes = block.notes
        /\ block' \in [running : BOOLEAN, frames : 0 .. MaxFrames, cursor : 0 .. MaxFrames,
                       notes : 0 .. MaxNotes]
    <3> HIDE DEF next
    <3> QED BY <2>1, <2>3
  <2> QED BY <2>2, <2>4, <2>5
<1>6. /\ slot' \in [Indices -> Slot] /\ life' \in [Indices -> Stage]
      /\ sustained' \subseteq Indices /\ SustainedSound'
      /\ OwedAreSounding' /\ CountedAreActive' /\ NotesAreBounded'
  BY <1>1, <1>3, <1>5, GivesBack
<1>7. /\ lastEnd' \in 0 .. MaxFrames /\ lastEnd' < block.frames
  <2>1. CASE S = {}
    BY <1>0, <1>1, <1>3, <2>1 DEF EmitNoteEnds, EndsInside, Shapes
  <2>2. CASE S # {}
    <3>1. lastEnd' = block.cursor + 1 /\ EndsInBlock
      BY <1>2, <1>3, <2>2 DEF EmitNoteEnds
    <3>2. block.cursor + 1 < block.frames
      BY <3>1 DEF EndsInBlock
    <3> QED BY <1>5, <3>1, <3>2, BoundsAreNat
  <2> QED BY <2>1, <2>2
<1>8. \A i \in Indices : voice'[i] = IF i \in Releasing THEN Advanced(i) ELSE voice[i]
  BY <1>1
<1>9. Shapes'
  <2>1. \A i \in Indices : voice[i] \in Voice
    BY <1>0 DEF Shapes
  <2>2. voice' \in [Indices -> Voice]
    BY <1>1, <2>1, AdvancedVoice
  <2> QED BY <1>0, <1>1, <1>3, <1>5, <1>6, <1>7, <2>2 DEF Shapes
<1>10. Layers'
  <2>1. ASSUME NEW i \in Indices PROVE Agrees(slot'[i], life'[i], voice'[i])
    <3>1. CASE i \in S
      BY <1>0, <1>2, <1>3, <1>8, <3>1, AdvancedVoice, BlankActive, BlankTypes
    <3>2. CASE i \notin S /\ i \in Releasing
      BY <1>0, <1>3, <1>4, <1>8, <3>2, AdvancedVoice, BlankActive
    <3>3. CASE i \notin S /\ i \notin Releasing
      BY <1>0, <1>3, <1>8, <3>3, BlankActive, ActiveVoice
    <3> QED BY <3>1, <3>2, <3>3
  <2> QED BY <2>1 DEF Layers
<1>11. Ordered'
  <2>1. \A i \in Indices \ S : voice'[i].generation = voice[i].generation
    BY <1>4, <1>8, AdvancedVoice
  <2> QED BY <1>0, <1>1, <1>3, <2>1, BlankOrdered
<1>12. DeferredWait'
  <2>1. SUFFICES ASSUME AtEvent', NEW i \in Deferred' PROVE FALSE
    BY DEF DeferredWait
  <2>2. EndsInBlock /\ Deferred = {}
    BY <1>0, <1>1, <1>5, <2>1 DEF AtEvent, EndsInBlock, DeferredWait
  <2>3. i \in Indices /\ voice'[i].active /\ voice'[i].deferredReleaseCompletion
    BY <2>1 DEF Deferred
  <2>4. i \notin Releasing
    BY <1>8, <2>2, <2>3, AdvancedVoice
  <2> QED BY <1>8, <2>2, <2>3, <2>4 DEF Deferred
<1>13. EndsInside'
  <2>1. block.cursor + 1 < block.frames \/ block.notes = 0
    BY DEF Render, EndsInBlock
  <2> QED BY <1>1, <1>5, <1>7, <2>1 DEF EndsInside
<1> QED BY <1>3, <1>6, <1>9, <1>10, <1>11, <1>12, <1>13 DEF IInv

LEMMA StandsStill ==
  ASSUME IInv, UNCHANGED <<slot, life, voice, sustained, allocationSerial, generationSerial>>
  PROVE  /\ slot' \in [Indices -> Slot] /\ life' \in [Indices -> Stage]
         /\ voice' \in [Indices -> Voice] /\ sustained' \subseteq Indices
         /\ Layers' /\ SustainedSound' /\ Ordered' /\ Active' = Active /\ Deferred' = Deferred
<1>1. Active' = Active /\ Deferred' = Deferred
  BY DEF Active, Deferred
<1> QED BY <1>1 DEF IInv, Shapes, Layers, SustainedSound, Ordered

LEMMA BlockEndKeeps ==
  ASSUME IInv, BlockEnd \/ BlockFails
  PROVE  IInv'
<1>0. Shapes /\ renderOk /\ OwedAreSounding /\ CountedAreActive /\ NotesAreBounded
  BY DEF IInv
<1>1. /\ UNCHANGED <<allocator, scheduler, lifecycle, voice, renderOk, counted, owed>>
      /\ block' = NoBlock /\ lastEnd' = 0
  BY DEF BlockEnd, BlockFails
<1>2. UNCHANGED <<slot, allocationSerial, sustained, pedal, life, generationSerial, voice, renderOk,
                  counted, owed>>
  BY <1>1 DEF allocator, scheduler, lifecycle
<1>3. block'.running = FALSE /\ block'.notes = 0
  BY <1>1 DEF NoBlock
<1>4. /\ block' \in [running : BOOLEAN, frames : 0 .. MaxFrames, cursor : 0 .. MaxFrames,
                     notes : 0 .. MaxNotes]
      /\ lastEnd' \in 0 .. MaxFrames
  BY <1>1, BoundsAreNat DEF NoBlock
<1>5. Active' = Active
  BY <1>2 DEF Active
<1>6. block.notes \in Nat /\ unstarted \in Nat /\ generationSerial \in Nat /\ Cardinality(Active) \in Nat
  <2>1. Active \in SUBSET Indices
    BY DEF Active
  <2> QED BY <1>0, <2>1, BoundsAreNat, VoicesAreFinite DEF Shapes, CountedAreActive
<1>7. ASSUME unstarted' = unstarted + block.notes,
             uncounted' = uncounted \/ (uncounted' = 0 /\ ToCount = 0)
      PROVE  IInv'
  <2>1. CountedAreActive'
    <3>1. ToCount' = ToCount /\ ToCount \in Nat /\ unstarted' \in Nat
      BY <1>3, <1>5, <1>6, <1>7 DEF ToCount
    <3>2. counted' = counted /\ counted.active \in Nat /\ counted.credits \in Nat
      BY <1>0, <1>2, BoundsAreNat DEF CountedAreActive
    <3>3. uncounted' \in 0 .. MaxMidiNotes
      BY <1>0, <1>7, BoundsAreNat DEF CountedAreActive
    <3> QED BY <1>0, <1>7, <3>1, <3>2, <3>3 DEF CountedAreActive
  <2>2. NotesAreBounded'
    BY <1>0, <1>2, <1>3, <1>6, <1>7 DEF NotesAreBounded
  <2>3. OwedAreSounding'
    BY <1>0, <1>2 DEF OwedAreSounding, Sounding
  <2>4. EndsInside' /\ DeferredWait'
    BY <1>1, <1>3 DEF EndsInside, DeferredWait, AtEvent
  <2>5. Layers' /\ SustainedSound' /\ Ordered' /\ Shapes'
    BY <1>0, <1>2, <1>4, StandsStill DEF Shapes
  <2> QED BY <1>0, <1>2, <2>1, <2>2, <2>3, <2>4, <2>5 DEF IInv
<1>8. CASE BlockFails
  <2>1. unstarted' = unstarted + block.notes /\ uncounted' = uncounted
    BY <1>8 DEF BlockFails
  <2> QED BY <1>7, <2>1
<1>9. CASE BlockEnd
  <2>1. block.running /\ block.cursor = block.frames /\ block.frames \in Nat /\ unstarted' = unstarted
        /\ uncounted' = IF Active = {} /\ unstarted = 0 THEN 0 ELSE uncounted
    BY <1>0, <1>9, BoundsAreNat DEF BlockEnd, Shapes
  <2>2. block.notes = 0
    BY <2>1 DEF IInv, EndsInside
  <2>3. Active = {} /\ unstarted = 0 => ToCount = 0
    BY <2>2, FS_EmptySet DEF ToCount
  <2>4. unstarted' = unstarted + block.notes
    BY <1>6, <2>1, <2>2
  <2>5. uncounted' = uncounted \/ (uncounted' = 0 /\ ToCount = 0)
    BY <2>1, <2>3
  <2> QED BY <1>7, <2>4, <2>5
<1> QED BY <1>8, <1>9

LEMMA ResetKeeps ==
  ASSUME IInv, Reset
  PROVE  IInv'
<1>0. Shapes /\ renderOk /\ NotesAreBounded /\ EndsInside /\ CountedAreActive
  BY DEF IInv
<1>1. /\ ~block.running /\ UNCHANGED <<generationSerial, block, renderOk, lastEnd>>
      /\ slot' = [i \in Indices |-> NoSlot] /\ allocationSerial' = 0
      /\ sustained' = {} /\ pedal' = {}
      /\ life' = [i \in Indices |-> NoStage] /\ voice' = [i \in Indices |-> Silence]
      /\ counted' = NothingCounted /\ unstarted' = 0 /\ uncounted' = 0
      /\ owed' = [n \in Identity |-> 0]
  BY DEF Reset
<1>2. \A i \in Indices : slot'[i] = NoSlot /\ life'[i] = NoStage /\ voice'[i] = Silence
  BY <1>1
<1>3. 0 \in 0 .. MaxSerial /\ 0 \in 0 .. Capacity /\ 0 \in Nat
  BY BoundsAreNat
<1>4. Active' = {}
  BY <1>2, BlankTypes DEF Active
<1>5. Cardinality(Active') = 0
  BY <1>4, FS_EmptySet
<1>6. Shapes'
  BY <1>0, <1>1, <1>3, BlankTypes DEF Shapes
<1>7. Layers'
  BY <1>2, BlankTypes DEF Layers
<1>8. SustainedSound' /\ Ordered'
  BY <1>1, <1>4 DEF SustainedSound, Ordered
<1>9. DeferredWait' /\ EndsInside'
  BY <1>0, <1>1 DEF DeferredWait, EndsInside, AtEvent
<1>10. OwedAreSounding'
  <2>1. ASSUME NEW n \in Identity PROVE owed'[n] = 0 /\ Sounding(n)' = {}
    BY <1>1, <1>2, BlankTypes DEF Sounding
  <2> QED BY <1>1, <2>1, FS_EmptySet DEF OwedAreSounding
<1>11. CountedAreActive'
  <2>1. counted'.active = 0 /\ counted'.credits = 0 /\ counted' \in [active : 0 .. Capacity, credits : Nat]
    BY <1>1, <1>3 DEF NothingCounted
  <2>2. block'.notes = 0
    BY <1>0, <1>1 DEF EndsInside
  <2>3. ToCount' = 0
    BY <1>1, <1>5, <2>2 DEF ToCount
  <2> QED BY <1>1, <2>1, <2>3, BoundsAreNat DEF CountedAreActive
<1>12. NotesAreBounded'
  <2>1. generationSerial \in Nat /\ MaxNotes \in Nat /\ block.notes \in Nat /\ unstarted \in Nat
    BY <1>0, BoundsAreNat DEF Shapes, CountedAreActive
  <2> QED BY <1>0, <1>1, <2>1 DEF NotesAreBounded
<1> QED BY <1>0, <1>1, <1>6, <1>7, <1>8, <1>9, <1>10, <1>11, <1>12 DEF IInv
-----------------------------------------------------------------------------
(* Events. *)

LEMMA KnownVoices ==
  ASSUME Shapes, Layers, NEW voices \in SUBSET Active
  PROVE  Known(voices) = voices
<1>1. \A i \in voices : i \in Indices /\ i \in Active
  BY DEF Active
<1> QED BY <1>1, ActiveVoice DEF Known

\* What one voice is after a release: the same note, no longer held.
LEMMA ReleasedVoice ==
  ASSUME IInv, NEW voices \in SUBSET Active, Release(voices), slot' = slot, NEW i \in Indices
  PROVE  /\ life'[i] \in Stage /\ voice'[i] \in Voice
         /\ Agrees(slot'[i], life'[i], voice'[i])
         /\ i \in voices => life'[i].stage = "releasing"
         /\ i \notin voices => life'[i] = life[i] /\ voice'[i] = voice[i]
         /\ life'[i].generation = life[i].generation /\ voice'[i].generation = voice[i].generation
         /\ voice'[i].active = voice[i].active
         /\ voice'[i].deferredReleaseCompletion = voice[i].deferredReleaseCompletion
<1>0. Shapes /\ Layers
  BY DEF IInv
<1>1. Known(voices) = voices
  BY <1>0, KnownVoices
<1>2. /\ life'[i] = IF i \in voices THEN [life[i] EXCEPT !.stage = "releasing"] ELSE life[i]
      /\ voice'[i] = IF i \in voices /\ voice[i].active /\ voice[i].generation = life[i].generation
                     THEN [voice[i] EXCEPT !.releasing = TRUE] ELSE voice[i]
  BY <1>1 DEF Release
<1>3. life[i] \in Stage /\ voice[i] \in Voice /\ Agrees(slot[i], life[i], voice[i])
  BY <1>0, ActiveVoice
<1>4. CASE i \in voices
  <2>1. /\ slot[i].active /\ voice[i].active /\ voice[i].generation = life[i].generation
    BY <1>0, <1>4, ActiveVoice
  <2>2. /\ life'[i] = [life[i] EXCEPT !.stage = "releasing"]
        /\ voice'[i] = [voice[i] EXCEPT !.releasing = TRUE]
    BY <1>2, <1>4, <2>1
  <2>3. life'[i] \in Stage /\ voice'[i] \in Voice
    BY <1>3, <2>2 DEF Stage, Voice
  <2>4. /\ DOMAIN life[i] = {"stage", "identity", "generation"}
        /\ DOMAIN voice[i] = {"active", "generation", "releasing", "left", "deferredReleaseCompletion"}
    BY <1>3 DEF Stage, Voice
  <2>5. /\ life'[i].stage = "releasing" /\ life'[i].identity = life[i].identity
        /\ life'[i].generation = life[i].generation
    BY <2>2, <2>4
  <2>6. /\ voice'[i].active = voice[i].active /\ voice'[i].generation = voice[i].generation
        /\ voice'[i].left = voice[i].left
        /\ voice'[i].deferredReleaseCompletion = voice[i].deferredReleaseCompletion
    BY <2>2, <2>4
  <2>7. voice'[i].releasing
    BY <2>2, <2>4
  <2>8. Agrees(slot'[i], life'[i], voice'[i])
    BY <1>3, <2>1, <2>5, <2>6, <2>7 DEF Agrees
  <2> QED BY <1>4, <2>3, <2>5, <2>6, <2>8
<1>5. CASE i \notin voices
  BY <1>2, <1>3, <1>5
<1> QED BY <1>4, <1>5

LEMMA ReleaseKeeps ==
  ASSUME IInv, NEW voices \in SUBSET Active, Release(voices), Unreleased,
         sustained' \subseteq Active, pedal' \subseteq Channels
  PROVE  IInv'
<1>0. Shapes /\ renderOk
  BY DEF IInv
<1>1. UNCHANGED <<slot, allocationSerial, generationSerial, block, renderOk, counted, unstarted,
                  uncounted, owed, lastEnd>>
  BY DEF Unreleased, allocator, counts, output
<1>2. Active' = Active /\ Active \subseteq Indices
  BY <1>1 DEF Active
<1>3. Shapes'
  <2>1. life' \in [Indices -> Stage] /\ voice' \in [Indices -> Voice]
    <3>1. \A i \in Indices : life'[i] \in Stage /\ voice'[i] \in Voice
      BY <1>1, ReleasedVoice
    <3>2. life' = [i \in Indices |-> life'[i]] /\ voice' = [i \in Indices |-> voice'[i]]
      BY DEF Release
    <3> QED BY <3>1, <3>2
  <2> QED BY <1>0, <1>1, <1>2, <2>1 DEF Shapes
<1>4. Layers'
  BY <1>1, ReleasedVoice DEF Layers
<1>5. SustainedSound'
  BY <1>2 DEF SustainedSound
<1>6. Ordered'
  BY <1>1, <1>2, ReleasedVoice DEF IInv, Ordered
<1>7. Deferred' = Deferred
  BY <1>1, ReleasedVoice DEF Deferred
<1>8. DeferredWait' /\ EndsInside'
  BY <1>1, <1>7 DEF IInv, DeferredWait, EndsInside, AtEvent
<1>9. OwedAreSounding' /\ CountedAreActive' /\ NotesAreBounded'
  BY <1>1, <1>2 DEF IInv, OwedAreSounding, Sounding, CountedAreActive, ToCount, NotesAreBounded
<1> QED BY <1>0, <1>1, <1>3, <1>4, <1>5, <1>6, <1>8, <1>9 DEF IInv

LEMMA NothingReleased ==
  ASSUME Shapes, UNCHANGED <<life, voice>>
  PROVE  Release({})
<1>1. Known({}) = {}
  BY DEF Known
<1>2. life = [i \in Indices |-> life[i]] /\ voice = [i \in Indices |-> voice[i]]
  BY DEF Shapes
<1> QED BY <1>1, <1>2 DEF Release

\* A pedal that is lifted, or was not down.
LEMMA LiftPedalReleases ==
  ASSUME IInv, NEW c \in Channels, LiftPedal(c)
  PROVE  \E voices \in SUBSET Active :
           /\ Release(voices) /\ sustained' \subseteq Active
           /\ sustained \ sustained' \subseteq voices
<1>0. Shapes /\ sustained \subseteq Active /\ Active \subseteq Indices
  BY DEF IInv, SustainedSound, Active
<1>1. CASE c \in pedal
  <2> DEFINE voices == sustained \cap OnChannel(c)
  <2>1. sustained' = sustained \ (OnChannel(c) \cup (Indices \ Active)) /\ Release(voices)
    BY <1>1 DEF LiftPedal
  <2>2. voices \in SUBSET Active /\ sustained' \subseteq Active /\ sustained \ sustained' \subseteq voices
    BY <1>0, <2>1
  <2> QED BY <2>1, <2>2
<1>2. CASE c \notin pedal
  <2>1. UNCHANGED <<sustained, life, voice>>
    BY <1>2 DEF LiftPedal
  <2>2. Release({}) /\ {} \in SUBSET Active
    BY <1>0, <2>1, NothingReleased
  <2> QED BY <1>0, <2>1, <2>2
<1> QED BY <1>1, <1>2

\* An event that releases, of whatever kind, releases all that it takes the marks of.
LEMMA EventReleases ==
  ASSUME IInv,
         \/ \E a \in Address : NoteOff(a) \/ MidiNoteOff(a)
         \/ \E c \in Channels : \/ \E down \in BOOLEAN : SustainPedal(c, down)
                                \/ ResetAllControllers(c)
  PROVE  /\ Unreleased /\ pedal' \subseteq Channels
         /\ \E voices \in SUBSET Active :
              /\ Release(voices) /\ sustained' \subseteq Active
              /\ sustained \ sustained' \subseteq voices
<1>0. Shapes /\ sustained \subseteq Active /\ pedal \subseteq Channels
  BY DEF IInv, SustainedSound, Shapes
<1>1. ASSUME NEW a \in Address PROVE Matching(a) \in SUBSET Active
  BY DEF Matching
<1>2. ASSUME NEW a \in Address, NoteOff(a) PROVE
         /\ Unreleased /\ pedal' \subseteq Channels
         /\ \E voices \in SUBSET Active :
              /\ Release(voices) /\ sustained' \subseteq Active
              /\ sustained \ sustained' \subseteq voices
  <2>1. Unreleased /\ pedal' = pedal /\ Release(Matching(a)) /\ sustained' = sustained \ Matching(a)
    BY <1>2 DEF NoteOff
  <2> HIDE DEF Matching
  <2> QED BY <1>0, <1>1, <2>1
<1>3. ASSUME NEW a \in Address, MidiNoteOff(a) PROVE
         /\ Unreleased /\ pedal' \subseteq Channels
         /\ \E voices \in SUBSET Active :
              /\ Release(voices) /\ sustained' \subseteq Active
              /\ sustained \ sustained' \subseteq voices
  <2>1. Unreleased /\ pedal' = pedal
    BY <1>3 DEF MidiNoteOff
  <2>2. CASE a.channel \in pedal
    <3>1. sustained' = sustained \cup Matching(a) /\ UNCHANGED <<life, voice>>
      BY <1>3, <2>2 DEF MidiNoteOff
    <3>2. Release({}) /\ {} \in SUBSET Active
      BY <1>0, <3>1, NothingReleased
    <3> QED BY <1>0, <1>1, <2>1, <3>1, <3>2
  <2>3. CASE a.channel \notin pedal
    <3>1. sustained' = sustained \ Matching(a) /\ Release(Matching(a))
      BY <1>3, <2>3 DEF MidiNoteOff
    <3> QED BY <1>0, <1>1, <2>1, <3>1
  <2> QED BY <2>2, <2>3
<1>4. ASSUME NEW c \in Channels, \/ \E down \in BOOLEAN : SustainPedal(c, down)
                                 \/ ResetAllControllers(c)
      PROVE
         /\ Unreleased /\ pedal' \subseteq Channels
         /\ \E voices \in SUBSET Active :
              /\ Release(voices) /\ sustained' \subseteq Active
              /\ sustained \ sustained' \subseteq voices
  <2>1. Unreleased /\ pedal' \subseteq Channels
    BY <1>0, <1>4 DEF SustainPedal, ResetAllControllers
  <2>2. CASE LiftPedal(c)
    BY <2>1, <2>2, LiftPedalReleases
  <2>3. CASE UNCHANGED <<sustained, life, voice>>
    <3>1. Release({}) /\ {} \in SUBSET Active
      BY <1>0, <2>3, NothingReleased
    <3> QED BY <1>0, <2>1, <2>3, <3>1
  <2>4. LiftPedal(c) \/ UNCHANGED <<sustained, life, voice>>
    BY <1>4 DEF SustainPedal, ResetAllControllers
  <2> QED BY <2>2, <2>3, <2>4
<1> QED BY <1>2, <1>3, <1>4

LEMMA NoteChokeKeeps ==
  ASSUME IInv, NEW a \in Address, NoteChoke(a)
  PROVE  IInv'
<1> DEFINE S == Matching(a)
<1>0. Shapes /\ Layers /\ renderOk /\ Ordered /\ DeferredWait /\ EndsInside
  BY DEF IInv
<1>1. S \in SUBSET Active /\ \A i \in S : i \in Indices
  BY DEF Matching, Active
<1>2. Known(S) = S
  BY <1>0, <1>1, KnownVoices
<1>3. /\ AtEvent
      /\ slot' = [i \in Indices |-> IF i \in S THEN NoSlot ELSE slot[i]]
      /\ life' = [i \in Indices |-> IF i \in S THEN NoStage ELSE life[i]]
      /\ voice' = [i \in Indices |-> IF i \in S /\ voice[i].generation = life[i].generation
                                     THEN Silence ELSE voice[i]]
      /\ sustained' = sustained \ S
      /\ EmitNoteEnds(S, block.cursor)
      /\ counted' = CountEnds(counted, Cardinality(S))
      /\ UNCHANGED <<allocationSerial, pedal, generationSerial, block, renderOk, unstarted, uncounted>>
  BY <1>2 DEF NoteChoke
<1> HIDE DEF S
<1>4. Blank(S)
  BY <1>3 DEF Blank
<1>5. \A i \in Indices : voice'[i] = IF i \in S THEN Silence ELSE voice[i]
  <2>1. \A i \in S : voice[i].generation = life[i].generation
    BY <1>0, <1>1, ActiveVoice
  <2> QED BY <1>3, <2>1
<1>6. /\ slot' \in [Indices -> Slot] /\ life' \in [Indices -> Stage]
      /\ sustained' \subseteq Indices /\ SustainedSound'
      /\ OwedAreSounding' /\ CountedAreActive' /\ NotesAreBounded'
  <2>1. /\ block'.notes = block.notes /\ generationSerial' = generationSerial
        /\ unstarted' = unstarted /\ uncounted' = uncounted
    BY <1>3
  <2> QED BY <1>1, <1>3, <1>4, <2>1, GivesBack
<1>7. lastEnd' \in 0 .. MaxFrames /\ lastEnd' < block.frames
  <2>1. block.cursor < block.frames /\ block.cursor \in 0 .. MaxFrames /\ block.running
    BY <1>0, <1>3 DEF AtEvent, Shapes
  <2>2. lastEnd' \in {lastEnd, block.cursor}
    BY <1>3 DEF EmitNoteEnds
  <2> QED BY <1>0, <2>1, <2>2 DEF Shapes, EndsInside
<1>8. Shapes'
  <2>1. voice' \in [Indices -> Voice]
    BY <1>0, <1>3, BlankTypes DEF Shapes
  <2> QED BY <1>0, <1>3, <1>6, <1>7, <2>1 DEF Shapes
<1>9. Layers'
  BY <1>0, <1>1, <1>4, <1>5, BlankActive, BlankTypes DEF Layers
<1>10. Ordered'
  BY <1>0, <1>1, <1>3, <1>4, <1>5, BlankOrdered
<1>11. DeferredWait'
  BY <1>0, <1>3, <1>5, BlankTypes DEF DeferredWait, Deferred, AtEvent
<1>12. EndsInside'
  BY <1>0, <1>3, <1>7 DEF EndsInside, AtEvent
<1> QED BY <1>0, <1>3, <1>6, <1>8, <1>9, <1>10, <1>11, <1>12 DEF IInv

\* The slots before the NOTE_ON takes one of them.
Base == IF SerialsSpent THEN Renormalized ELSE slot

\* The serials may be renumbered, but stay in order and below the next one.
LEMMA SerialsInOrder ==
  ASSUME IInv
  PROVE  /\ Base \in [Indices -> Slot] /\ NextSerial \in 0 .. MaxSerial
         /\ \A j \in Indices : /\ Base[j].active = slot[j].active
                               /\ Base[j].identity = slot[j].identity
                               /\ j \notin Active => Base[j] = slot[j]
         /\ \A j \in Active : Base[j].serial < NextSerial
         /\ \A j, k \in Active : Base[j].serial <= Base[k].serial => slot[j].serial <= slot[k].serial
<1>0. Shapes /\ Ordered
  BY DEF IInv
<1>1. /\ slot \in [Indices -> Slot] /\ allocationSerial \in 0 .. MaxSerial
      /\ \A j \in Indices : slot[j] \in Slot /\ (j \in Active <=> slot[j].active)
      /\ \A j \in Active : j \in Indices
  BY <1>0 DEF Shapes, Active
<1>2. \A j \in Active : slot[j].serial \in Nat /\ slot[j].serial <= allocationSerial
  BY <1>0, <1>1, BoundsAreNat DEF Ordered, Slot
<1>3. CASE SerialsSpent
  <2>1. Base = Renormalized /\ NextSerial = Cardinality(Active) + 1
    BY <1>3 DEF Base, NextSerial
  <2>2. Cardinality(Active) \in Nat /\ Cardinality(Active) <= Capacity
    BY VoicesAreFinite DEF Active
  <2>3. NextSerial \in 0 .. MaxSerial
    BY <2>1, <2>2, BoundsAreNat
  <2>4. ASSUME NEW j \in Indices
        PROVE  /\ Base[j] \in Slot
               /\ Base[j].active = slot[j].active /\ Base[j].identity = slot[j].identity
               /\ j \notin Active => Base[j] = slot[j]
               /\ j \in Active => Base[j].serial = Rank(j)
    <3>1. CASE j \in Active
      <4> DEFINE r == Rank(j)
      <4>1. Base[j] = [slot[j] EXCEPT !.serial = r]
        BY <1>1, <2>1, <3>1 DEF Renormalized
      <4>2. r \in 0 .. MaxSerial
        BY <1>0, <2>2, <3>1, RanksInOrder, BoundsAreNat
      <4> HIDE DEF r
      <4>3. Base[j] \in Slot
        BY <1>1, <4>1, <4>2 DEF Slot
      <4>4. Base[j].active = slot[j].active /\ Base[j].identity = slot[j].identity /\ Base[j].serial = r
        BY <1>1, <4>1 DEF Slot
      <4> QED BY <3>1, <4>3, <4>4 DEF r
    <3>2. CASE j \notin Active
      BY <1>1, <2>1, <3>2 DEF Renormalized
    <3> QED BY <3>1, <3>2
  <2>5. Base \in [Indices -> Slot]
    <3>1. Base = [j \in Indices |-> Base[j]]
      BY <2>1 DEF Renormalized
    <3> QED BY <2>4, <3>1
  <2>6. ASSUME NEW j \in Active PROVE Base[j].serial < NextSerial
    <3>1. Base[j].serial = Rank(j) /\ Rank(j) \in 1 .. Cardinality(Active)
      BY <1>0, <1>1, <2>4, RanksInOrder
    <3> QED BY <2>1, <2>2, <3>1
  <2>7. ASSUME NEW j \in Active, NEW k \in Active, Base[j].serial <= Base[k].serial
        PROVE  slot[j].serial <= slot[k].serial
    <3>1. Base[j].serial = Rank(j) /\ Base[k].serial = Rank(k)
      BY <1>1, <2>4
    <3>2. Rank(j) <= Rank(k)
      BY <2>7, <3>1
    <3> QED BY <1>0, <3>2, RanksInOrder
  <2> QED BY <2>3, <2>4, <2>5, <2>6, <2>7
<1>4. CASE ~SerialsSpent
  <2>1. Base = slot /\ NextSerial = allocationSerial + 1 /\ allocationSerial # MaxSerial
    BY <1>4 DEF Base, NextSerial, SerialsSpent
  <2>2. NextSerial \in 0 .. MaxSerial /\ allocationSerial \in Nat
    BY <1>1, <2>1, BoundsAreNat
  <2>3. \A j \in Active : Base[j].serial < NextSerial
    BY <1>2, <2>1, <2>2
  <2> QED BY <1>1, <2>1, <2>2, <2>3
<1> QED BY <1>3, <1>4

\* A note starts a voice; it is a note the proxy has counted, or one more that it has not.
LEMMA NoteStarts ==
  ASSUME IInv, NEW identity \in Identity, NEW release \in Releases,
         NoteOn(identity, release) \/ MidiNoteOn(identity, release)
  PROVE  /\ StartVoice(identity, release)
         /\ block.frames \in Nat /\ block.cursor \in 0 .. MaxFrames /\ block.notes \in Nat
         /\ block.running /\ block.cursor < block.frames
         /\ block'.running = block.running /\ block'.frames = block.frames
         /\ block'.cursor = block.cursor /\ block'.notes \in Nat
         /\ block' \in [running : BOOLEAN, frames : 0 .. MaxFrames, cursor : 0 .. MaxFrames,
                        notes : 0 .. MaxNotes]
         /\ uncounted \in Nat /\ uncounted' \in 0 .. MaxMidiNotes
         /\ \/ block'.notes = block.notes - 1 /\ uncounted' = uncounted
            \/ block'.notes = block.notes /\ uncounted' = uncounted + 1
         /\ generationSerial + 1 + block'.notes + unstarted <= MaxNotes
<1>0. Shapes /\ CountedAreActive /\ NotesAreBounded
  BY DEF IInv
<1>1. block \in [running : BOOLEAN, frames : 0 .. MaxFrames, cursor : 0 .. MaxFrames,
                 notes : 0 .. MaxNotes]
  BY <1>0 DEF Shapes
<1>2. /\ block.frames \in Nat /\ block.cursor \in 0 .. MaxFrames /\ block.notes \in Nat
      /\ generationSerial \in Nat /\ unstarted \in Nat /\ uncounted \in Nat
      /\ MaxNotes \in Nat /\ MaxMidiNotes \in Nat
      /\ generationSerial + block.notes + unstarted <= MaxNotes
  BY <1>0, <1>1, BoundsAreNat DEF Shapes, CountedAreActive, NotesAreBounded
<1>3. StartVoice(identity, release) /\ AtEvent
  BY DEF NoteOn, MidiNoteOn, StartVoice
<1>4. CASE NoteOn(identity, release)
  <2> DEFINE m == block.notes - 1
  <2>1. block.notes > 0 /\ block' = [block EXCEPT !.notes = m] /\ uncounted' = uncounted
    BY <1>4 DEF NoteOn
  <2>2. m \in 0 .. MaxNotes
    BY <1>1, <1>2, <2>1
  <2>3. /\ block'.running = block.running /\ block'.frames = block.frames
        /\ block'.cursor = block.cursor /\ block'.notes = m
        /\ block' \in [running : BOOLEAN, frames : 0 .. MaxFrames, cursor : 0 .. MaxFrames,
                       notes : 0 .. MaxNotes]
    <3> HIDE DEF m
    <3> QED BY <1>1, <2>1, <2>2
  <2>4. m \in Nat /\ generationSerial + 1 + m + unstarted <= MaxNotes
    BY <1>2, <2>1
  <2>5. uncounted' \in 0 .. MaxMidiNotes
    BY <1>0, <2>1 DEF CountedAreActive
  <2> HIDE DEF m
  <2>6. block'.notes \in Nat /\ generationSerial + 1 + block'.notes + unstarted <= MaxNotes
    BY <2>3, <2>4
  <2>7. block'.notes = block.notes - 1
    BY <2>3 DEF m
  <2>8. block.running /\ block.cursor < block.frames
    BY <1>3 DEF AtEvent
  <2> QED BY <1>2, <1>3, <2>1, <2>3, <2>5, <2>6, <2>7, <2>8
<1>5. CASE MidiNoteOn(identity, release)
  <2>1. /\ generationSerial + block.notes + unstarted < MaxNotes /\ uncounted < MaxMidiNotes
        /\ uncounted' = uncounted + 1 /\ block' = block
    BY <1>5 DEF MidiNoteOn
  <2>2. uncounted' \in 0 .. MaxMidiNotes
    BY <1>2, <2>1
  <2>3. generationSerial + 1 + block'.notes + unstarted <= MaxNotes
    BY <1>2, <2>1
  <2>4. block.running /\ block.cursor < block.frames
    BY <1>3 DEF AtEvent
  <2> QED BY <1>1, <1>2, <1>3, <2>1, <2>2, <2>3, <2>4
<1> QED BY <1>4, <1>5

\* What a note does to the voice it gets, and that it leaves the others alone.
LEMMA NoteOnVoice ==
  ASSUME IInv, NEW identity \in Identity, NEW release \in Releases,
         NoteOn(identity, release) \/ MidiNoteOn(identity, release)
  PROVE  /\ Target \in Indices /\ Active' = Active \cup {Target}
         /\ generationSerial' = generationSerial + 1 /\ generationSerial' \in 1 .. MaxNotes
         /\ slot' \in [Indices -> Slot] /\ life' \in [Indices -> Stage] /\ voice' \in [Indices -> Voice]
         /\ slot'[Target].active /\ slot'[Target].identity = identity
         /\ slot'[Target].serial = NextSerial
         /\ voice'[Target].generation = generationSerial'
         /\ life'[Target].generation = generationSerial'
         /\ ~voice'[Target].deferredReleaseCompletion
         /\ Agrees(slot'[Target], life'[Target], voice'[Target])
         /\ \A j \in Indices \ {Target} :
              /\ slot'[j] = Base[j] /\ life'[j] = life[j] /\ voice'[j] = voice[j]
<1> DEFINE t == Target
           g == generationSerial + 1
           s == [active |-> TRUE, identity |-> identity, serial |-> NextSerial]
           l == [stage |-> "held", identity |-> identity, generation |-> g]
           v == [Silence EXCEPT !.active = TRUE, !.left = release, !.generation = g]
<1>0. Shapes /\ CountedAreActive /\ StartVoice(identity, release)
  BY NoteStarts DEF IInv
<1>1. t \in Indices
  BY <1>0, TargetIsVoice
<1>2. g \in 1 .. MaxNotes
  <2>1. generationSerial \in Nat /\ unstarted \in Nat /\ MaxNotes \in Nat
    BY <1>0, BoundsAreNat DEF Shapes, CountedAreActive
  <2>2. block'.notes \in Nat /\ generationSerial + 1 + block'.notes + unstarted <= MaxNotes
    BY NoteStarts
  <2> QED BY <2>1, <2>2
<1>3. slot' = [Base EXCEPT ![t] = s] /\ life' = [life EXCEPT ![t] = l]
      /\ voice' = [voice EXCEPT ![t] = v] /\ generationSerial' = g
  BY <1>0 DEF StartVoice, Allocate, Base
<1>4. /\ s \in Slot /\ s.active /\ s.identity = identity /\ s.serial = NextSerial
  BY SerialsInOrder DEF Slot
<1>5. /\ l \in Stage /\ l.stage = "held" /\ l.identity = identity /\ l.generation = g
  <2> HIDE DEF g
  <2>1. g \in 0 .. MaxNotes
    BY <1>2, BoundsAreNat
  <2> QED BY <2>1 DEF Stage
<1>6. /\ v \in Voice /\ v.active /\ v.generation = g /\ ~v.releasing /\ v.left = release
      /\ ~v.deferredReleaseCompletion
  <2> HIDE DEF g
  <2>1. g \in 0 .. MaxNotes /\ release \in Nat
    BY <1>2, BoundsAreNat
  <2>2. Silence \in Voice /\ ~Silence.releasing /\ ~Silence.deferredReleaseCompletion
    BY BlankTypes DEF Silence
  <2>3. DOMAIN Silence = {"active", "generation", "releasing", "left", "deferredReleaseCompletion"}
    BY DEF Silence
  <2>4. v \in Voice
    BY <2>1, <2>2 DEF Voice
  <2>5. v.active /\ v.generation = g /\ v.left = release
    BY <2>3
  <2>6. v.releasing = Silence.releasing /\ v.deferredReleaseCompletion = Silence.deferredReleaseCompletion
    BY <2>3
  <2> QED BY <2>2, <2>4, <2>5, <2>6
<1>7. Agrees(s, l, v)
  <2>1. g # 0 /\ release > 0
    BY <1>2, BoundsAreNat
  <2> HIDE DEF s, l, v, g
  <2> QED BY <1>4, <1>5, <1>6, <2>1 DEF Agrees
<1>8. /\ Base \in [Indices -> Slot] /\ life \in [Indices -> Stage] /\ voice \in [Indices -> Voice]
      /\ \A j \in Indices : Base[j].active = slot[j].active
  BY <1>0, SerialsInOrder DEF Shapes
<1> HIDE DEF t, g, s, l, v
<1>9. slot'[t] = s /\ life'[t] = l /\ voice'[t] = v
  BY <1>1, <1>3, <1>8
<1>10. \A j \in Indices \ {t} : slot'[j] = Base[j] /\ life'[j] = life[j] /\ voice'[j] = voice[j]
  BY <1>3, <1>8
<1>11. slot' \in [Indices -> Slot] /\ life' \in [Indices -> Stage] /\ voice' \in [Indices -> Voice]
  BY <1>1, <1>3, <1>4, <1>5, <1>6, <1>8
<1>12. Active' = Active \cup {t}
  BY <1>1, <1>4, <1>8, <1>9, <1>10 DEF Active
<1>13. generationSerial' = generationSerial + 1
  BY <1>3 DEF g
<1> QED BY <1>1, <1>2, <1>3, <1>4, <1>5, <1>6, <1>7, <1>9, <1>10, <1>11, <1>12, <1>13 DEF t

LEMMA NoteOnKeeps ==
  ASSUME IInv, NEW identity \in Identity, NEW release \in Releases,
         NoteOn(identity, release) \/ MidiNoteOn(identity, release)
  PROVE  IInv'
<1> DEFINE t == Target
           k == IF slot[t].active THEN 1 ELSE 0
<1>0. Shapes /\ Layers /\ renderOk /\ Ordered /\ DeferredWait /\ EndsInside /\ SustainedSound
      /\ OwedAreSounding /\ CountedAreActive /\ NotesAreBounded
  BY DEF IInv
<1>1. /\ t \in Indices /\ Active' = Active \cup {t} /\ Active \in SUBSET Indices
      /\ slot' \in [Indices -> Slot] /\ life' \in [Indices -> Stage] /\ voice' \in [Indices -> Voice]
      /\ \A j \in Indices \ {t} : slot'[j] = Base[j] /\ life'[j] = life[j] /\ voice'[j] = voice[j]
      /\ slot'[t].active /\ slot'[t].identity = identity
      /\ Agrees(slot'[t], life'[t], voice'[t])
      /\ ~voice'[t].deferredReleaseCompletion
  BY NoteOnVoice DEF Active
<1>2. /\ slot'[t].serial = NextSerial /\ voice'[t].generation = generationSerial'
      /\ generationSerial' = generationSerial + 1 /\ generationSerial' \in 1 .. MaxNotes
  BY NoteOnVoice
<1>3. /\ AtEvent
      /\ allocationSerial' = NextSerial /\ sustained' = sustained \ {t}
      /\ owed' = [n \in Identity |-> owed[n] + (IF n = identity THEN 1 ELSE 0)
                                     - (IF Stolen(t, n) THEN 1 ELSE 0)]
      /\ lastEnd' \in {lastEnd, block.cursor}
      /\ counted' = CountEnds(counted, k)
      /\ UNCHANGED <<pedal, renderOk, unstarted>>
  BY NoteStarts DEF StartVoice, Allocate
<1>4. /\ Base \in [Indices -> Slot] /\ NextSerial \in 0 .. MaxSerial
      /\ \A j \in Indices : /\ Base[j].active = slot[j].active
                            /\ Base[j].identity = slot[j].identity
                            /\ j \notin Active => Base[j] = slot[j]
  BY SerialsInOrder
<1>5. /\ \A j \in Active : Base[j].serial < NextSerial
      /\ \A i, j \in Active : Base[i].serial <= Base[j].serial => slot[i].serial <= slot[j].serial
  BY SerialsInOrder
<1>6. k \in Nat /\ k = IF t \in Active THEN 1 ELSE 0
  BY <1>1 DEF Active
<1> HIDE DEF t, k
<1>7. /\ block.frames \in Nat /\ block.cursor \in 0 .. MaxFrames /\ block.notes \in Nat
      /\ block.running /\ block.cursor < block.frames
      /\ block'.running = block.running /\ block'.frames = block.frames
      /\ block'.cursor = block.cursor /\ block'.notes \in Nat
      /\ block' \in [running : BOOLEAN, frames : 0 .. MaxFrames, cursor : 0 .. MaxFrames,
                     notes : 0 .. MaxNotes]
      /\ uncounted \in Nat /\ uncounted' \in 0 .. MaxMidiNotes
      /\ \/ block'.notes = block.notes - 1 /\ uncounted' = uncounted
         \/ block'.notes = block.notes /\ uncounted' = uncounted + 1
      /\ generationSerial + 1 + block'.notes + unstarted <= MaxNotes
  BY NoteStarts
<1>8. lastEnd' \in 0 .. MaxFrames /\ lastEnd' < block.frames
  BY <1>0, <1>3, <1>7 DEF Shapes, EndsInside
<1>9. Shapes'
  <2>1. sustained' \subseteq Indices
    BY <1>0, <1>3 DEF Shapes
  <2>2. generationSerial' \in 0 .. MaxNotes
    BY <1>2, BoundsAreNat
  <2> QED BY <1>0, <1>1, <1>3, <1>4, <1>7, <1>8, <2>1, <2>2 DEF Shapes
<1>10. Layers'
  <2>1. ASSUME NEW j \in Indices PROVE Agrees(slot'[j], life'[j], voice'[j])
    <3>1. CASE j = t
      BY <1>1, <3>1
    <3>2. CASE j # t
      <4>1. /\ slot'[j] = Base[j] /\ life'[j] = life[j] /\ voice'[j] = voice[j]
            /\ Agrees(slot[j], life[j], voice[j])
        BY <1>0, <1>1, <3>2, ActiveVoice
      <4>2. CASE j \in Active
        BY <1>4, <4>1, <4>2 DEF Agrees, Active
      <4>3. CASE j \notin Active
        BY <1>4, <4>1, <4>3
      <4> QED BY <4>2, <4>3
    <3> QED BY <3>1, <3>2
  <2> QED BY <2>1 DEF Layers
<1>11. SustainedSound'
  BY <1>0, <1>1, <1>3 DEF SustainedSound
<1>12. Ordered'
  <2>0. /\ generationSerial \in Nat /\ NextSerial \in Nat
        /\ \A j \in Active : /\ j \in Indices /\ Base[j].serial \in Nat
                             /\ voice[j].generation \in Nat /\ voice[j].generation <= generationSerial
    <3>1. generationSerial \in Nat /\ NextSerial \in Nat
      BY <1>0, <1>4, BoundsAreNat DEF Shapes
    <3>2. ASSUME NEW j \in Active
          PROVE  /\ j \in Indices /\ Base[j].serial \in Nat
                 /\ voice[j].generation \in Nat /\ voice[j].generation <= generationSerial
      <4>1. j \in Indices /\ Base[j] \in Slot /\ voice[j] \in Voice
        BY <1>0, <1>1, <1>4 DEF Shapes
      <4> QED BY <1>0, <4>1, BoundsAreNat DEF Ordered, Slot, Voice
    <3> QED BY <3>1, <3>2
  <2>1. \A j \in Active' : j = t \/ (j \in Active /\ j # t /\ slot'[j] = Base[j] /\ voice'[j] = voice[j])
    BY <1>1
  <2>2. ASSUME NEW j \in Active'
        PROVE  slot'[j].serial <= allocationSerial' /\ voice'[j].generation <= generationSerial'
    BY <1>2, <1>3, <1>5, <2>0, <2>1
  <2>3. ASSUME NEW i \in Active', NEW j \in Active', slot'[i].serial <= slot'[j].serial
        PROVE  voice'[i].generation <= voice'[j].generation
    <3>1. CASE j = t
      BY <1>2, <2>0, <2>2, <3>1
    <3>2. CASE j # t /\ i = t
      BY <1>2, <1>5, <2>0, <2>1, <2>3, <3>2
    <3>3. CASE j # t /\ i # t
      <4>1. /\ i \in Active /\ j \in Active /\ Base[i].serial <= Base[j].serial
            /\ voice'[i] = voice[i] /\ voice'[j] = voice[j]
        BY <2>1, <2>3, <3>3
      <4>2. slot[i].serial <= slot[j].serial
        BY <1>5, <4>1
      <4> QED BY <1>0, <4>1, <4>2 DEF Ordered
    <3> QED BY <3>1, <3>2, <3>3
  <2> QED BY <2>2, <2>3 DEF Ordered
<1>13. DeferredWait'
  <2>1. Deferred = {}
    BY <1>0, <1>3 DEF DeferredWait
  <2>2. Deferred' = {}
    BY <1>1, <2>1 DEF Deferred
  <2> QED BY <2>2 DEF DeferredWait
<1>14. EndsInside'
  BY <1>7, <1>8 DEF EndsInside
<1>15. OwedAreSounding'
  <2>1. ASSUME NEW n \in Identity
        PROVE  owed'[n] \in Int /\ owed'[n] = Cardinality(Sounding(n)')
    <3> DEFINE W == Sounding(n)
    <3>1. W \in SUBSET Indices /\ owed[n] = Cardinality(W) /\ Cardinality(W) \in Nat
      BY <1>0, VoicesAreFinite DEF OwedAreSounding, Sounding
    <3>2. Sounding(n)' = IF n = identity THEN W \cup {t} ELSE W \ {t}
      BY <1>1, <1>4 DEF Sounding
    <3>3. Stolen(t, n) <=> t \in W
      BY <1>1 DEF Stolen, Sounding
    <3>4. owed'[n] = owed[n] + (IF n = identity THEN 1 ELSE 0) - (IF t \in W THEN 1 ELSE 0)
      BY <1>3, <3>3
    <3> HIDE DEF W
    <3>5. /\ Cardinality(W \cup {t}) = Cardinality(W) + (IF t \in W THEN 0 ELSE 1)
          /\ Cardinality(W \ {t}) = Cardinality(W) - (IF t \in W THEN 1 ELSE 0)
      BY <1>1, <3>1, PutIn
    <3>6. CASE n = identity
      BY <3>1, <3>2, <3>4, <3>5, <3>6
    <3>7. CASE n # identity
      BY <3>1, <3>2, <3>4, <3>5, <3>7
    <3> QED BY <3>6, <3>7
  <2> QED BY <1>3, <2>1 DEF OwedAreSounding
<1>16. CountedAreActive'
  <2>1. Cardinality(Active') = Cardinality(Active) + 1 - k /\ Cardinality(Active) \in Nat
        /\ Cardinality(Active') \in Nat
    <3>1. /\ Cardinality(Active \cup {t}) = Cardinality(Active) + (IF t \in Active THEN 0 ELSE 1)
          /\ Cardinality(Active) \in Nat
      BY <1>1, PutIn
    <3> QED BY <1>1, <1>6, <3>1
  <2>2. unstarted \in Nat /\ unstarted' = unstarted
    BY <1>0, <1>3 DEF CountedAreActive
  <2>3. IsCount(counted) /\ counted.active + counted.credits <= ToCount
        /\ ToCount <= counted.active + counted.credits + uncounted
        /\ counted.active \in Nat /\ counted.credits \in Nat
    BY <1>0, CountIsCount, BoundsAreNat DEF CountedAreActive
  <2>4. /\ ToCount = Cardinality(Active) + block.notes + unstarted
        /\ ToCount' = Cardinality(Active) + 1 - k + block'.notes + unstarted
        /\ ToCount' \in Nat
    BY <1>7, <2>1, <2>2 DEF ToCount
  <2>5. /\ counted.active + counted.credits <= ToCount' + k
        /\ ToCount' + k <= counted.active + counted.credits + uncounted'
    BY <1>6, <1>7, <2>1, <2>2, <2>3, <2>4
  <2> QED BY <1>3, <1>6, <1>7, <2>2, <2>3, <2>4, <2>5, CountStays
<1>17. NotesAreBounded'
  <2>1. generationSerial \in Nat /\ unstarted \in Nat /\ MaxNotes \in Nat
    BY <1>0, BoundsAreNat DEF Shapes, CountedAreActive
  <2> QED BY <1>0, <1>2, <1>3, <1>7, <2>1 DEF NotesAreBounded
<1> QED BY <1>0, <1>3, <1>9, <1>10, <1>11, <1>12, <1>13, <1>14, <1>15, <1>16, <1>17 DEF IInv
-----------------------------------------------------------------------------
(* The invariant of the specification. *)

LEMMA InitIInv ==
  ASSUME Init PROVE IInv
<1>1. /\ slot = [i \in Indices |-> NoSlot] /\ allocationSerial = 0
      /\ sustained = {} /\ pedal = {}
      /\ life = [i \in Indices |-> NoStage] /\ generationSerial = 0
      /\ voice = [i \in Indices |-> Silence]
      /\ block = NoBlock /\ renderOk = TRUE
      /\ counted = NothingCounted /\ unstarted = 0 /\ uncounted = 0
      /\ owed = [n \in Identity |-> 0] /\ lastEnd = 0
  BY DEF Init
<1>2. \A i \in Indices : slot[i] = NoSlot /\ life[i] = NoStage /\ voice[i] = Silence
  BY <1>1
<1>3. 0 \in 0 .. MaxSerial /\ 0 \in 0 .. Capacity /\ 0 \in Nat /\ 0 \in 0 .. MaxFrames /\ 0 \in 0 .. MaxNotes
  BY BoundsAreNat
<1>4. block.running = FALSE /\ block.notes = 0
  BY <1>1 DEF NoBlock
<1>5. Active = {} /\ Cardinality(Active) = 0
  BY <1>2, BlankTypes, FS_EmptySet DEF Active
<1>6. Shapes
  BY <1>1, <1>3, BlankTypes DEF Shapes, NoBlock
<1>7. Layers
  BY <1>2, BlankTypes DEF Layers
<1>8. SustainedSound /\ Ordered
  BY <1>1, <1>5 DEF SustainedSound, Ordered
<1>9. DeferredWait /\ EndsInside
  BY <1>1, <1>4 DEF DeferredWait, EndsInside, AtEvent
<1>10. OwedAreSounding
  <2>1. ASSUME NEW n \in Identity PROVE owed[n] = 0 /\ Sounding(n) = {}
    BY <1>1, <1>2, BlankTypes DEF Sounding
  <2>2. owed \in [Identity -> Int]
    BY <1>1
  <2> QED BY <2>1, <2>2, FS_EmptySet DEF OwedAreSounding
<1>11. CountedAreActive
  <2>1. counted.active = 0 /\ counted.credits = 0 /\ counted \in [active : 0 .. Capacity, credits : Nat]
    BY <1>1, <1>3 DEF NothingCounted
  <2> QED BY <1>1, <1>4, <1>5, <2>1, BoundsAreNat DEF CountedAreActive, ToCount
<1>12. NotesAreBounded
  BY <1>1, <1>4, BoundsAreNat DEF NotesAreBounded
<1> QED BY <1>1, <1>6, <1>7, <1>8, <1>9, <1>10, <1>11, <1>12 DEF IInv

\* The events that release voices.
ReleaseEvent ==
  \/ \E a \in Address : NoteOff(a) \/ MidiNoteOff(a)
  \/ \E c \in Channels : \/ \E down \in BOOLEAN : SustainPedal(c, down)
                         \/ ResetAllControllers(c)

LEMMA StepCases ==
  ASSUME Next
  PROVE  \/ \E frames \in 1 .. MaxFrames, notes \in 0 .. MaxNotes : BlockBegin(frames, notes)
         \/ Render
         \/ BlockEnd \/ BlockFails
         \/ Reset
         \/ \E n \in Identity, r \in Releases : NoteOn(n, r) \/ MidiNoteOn(n, r)
         \/ \E a \in Address : NoteChoke(a)
         \/ ReleaseEvent
  BY DEF Next, Event, ReleaseEvent

LEMMA NextIInv ==
  ASSUME IInv, [Next]_vars PROVE IInv'
<1>1. CASE Next
  <2>1. ASSUME NEW frames \in 1 .. MaxFrames, NEW notes \in 0 .. MaxNotes, BlockBegin(frames, notes)
        PROVE  IInv'
    BY <2>1, BlockBeginKeeps
  <2>2. ASSUME NEW n \in Identity, NEW r \in Releases, NoteOn(n, r) \/ MidiNoteOn(n, r) PROVE IInv'
    BY <2>2, NoteOnKeeps
  <2>3. ASSUME NEW a \in Address, NoteChoke(a) PROVE IInv'
    BY <2>3, NoteChokeKeeps
  <2>4. CASE ReleaseEvent
    BY <2>4, EventReleases, ReleaseKeeps DEF ReleaseEvent
  <2> QED BY <1>1, <2>1, <2>2, <2>3, <2>4, StepCases, RenderKeeps, BlockEndKeeps, ResetKeeps
<1>2. CASE UNCHANGED vars
  BY <1>2 DEF vars, IInv, Shapes, Layers, Agrees, SustainedSound, Active, Ordered, DeferredWait,
              AtEvent, Deferred, EndsInside, OwedAreSounding, Sounding, CountedAreActive,
              ToCount, NotesAreBounded
<1> QED BY <1>1, <1>2

LEMMA Invariance == Spec => []IInv
<1>1. Init => IInv
  BY InitIInv
<1>2. IInv /\ [Next]_vars => IInv'
  BY NextIInv
<1> QED BY <1>1, <1>2, PTL DEF Spec

(***************************************************************************)
(* The variables keep their types: no serial is larger than the largest,   *)
(* and the proxy never counts more voices than there are.                  *)
(***************************************************************************)
THEOREM TypeCorrect == Spec => []TypeOK
<1>1. IInv => TypeOK
  <2> SUFFICES ASSUME IInv PROVE TypeOK
    OBVIOUS
  <2>1. Shapes /\ CountedAreActive /\ NotesAreBounded /\ OwedAreSounding
    BY DEF IInv
  <2>2. /\ counted.active \in Nat /\ counted.active <= Capacity /\ counted.credits \in Nat
        /\ unstarted \in Nat /\ block.notes \in Nat /\ generationSerial \in Nat /\ MaxNotes \in Nat
        /\ Capacity \in Nat /\ uncounted \in 0 .. MaxMidiNotes
    BY <2>1, BoundsAreNat DEF CountedAreActive, Shapes
  <2>3. Cardinality(Active) \in Nat /\ Cardinality(Active) <= Capacity
    BY VoicesAreFinite DEF Active
  <2>4. unstarted \in 0 .. MaxNotes /\ counted.credits \in 0 .. MaxNotes
    <3>1. counted.active + counted.credits <= Cardinality(Active) + block.notes + unstarted
      BY <2>1 DEF CountedAreActive, ToCount
    <3>2. counted.credits > 0 => counted.active = Capacity
      BY <2>1 DEF CountedAreActive
    <3>3. generationSerial + block.notes + unstarted <= MaxNotes
      BY <2>1 DEF NotesAreBounded
    <3> QED BY <2>2, <2>3, <3>1, <3>2, <3>3
  <2>5. counted \in [active : 0 .. Capacity, credits : 0 .. MaxNotes]
    BY <2>1, <2>4 DEF CountedAreActive
  <2> QED BY <2>1, <2>2, <2>4, <2>5 DEF TypeOK, Shapes, OwedAreSounding
<1> QED BY <1>1, Invariance, PTL

(***************************************************************************)
(* VoiceAllocator, VoiceLifecycle and VoiceEngine agree on every voice     *)
(* after any sequence of events and blocks, and no release that ends is    *)
(* unknown to the lifecycle: renderRange() never fails a block.            *)
(***************************************************************************)
THEOREM TheLayersAgree == Spec => []LayersAgree
<1>1. IInv => LayersAgree
  <2> SUFFICES ASSUME IInv, NEW i \in Indices
               PROVE  /\ renderOk
                      /\ slot[i].active <=> life[i].stage # "inactive"
                      /\ slot[i].active <=> voice[i].active
                      /\ slot[i].identity = life[i].identity
                      /\ voice[i].generation = life[i].generation
                      /\ voice[i].releasing <=> life[i].stage = "releasing"
    BY DEF LayersAgree, IInv
  <2>1. renderOk /\ Agrees(slot[i], life[i], voice[i])
    BY DEF IInv, Layers
  <2>2. CASE slot[i].active
    BY <2>1, <2>2 DEF Agrees
  <2>3. CASE ~slot[i].active
    <3>1. slot[i] = NoSlot /\ life[i] = NoStage /\ voice[i] = Silence
      BY <2>1, <2>3 DEF Agrees
    <3> QED BY <2>1, <2>3, <3>1 DEF NoSlot, NoStage, Silence
  <2> QED BY <2>2, <2>3
<1> QED BY <1>1, Invariance, PTL

(***************************************************************************)
(* Every NOTE_ON gets exactly one NOTE_END, under its own identity and     *)
(* with a time inside its block, from completeRelease(), choke() or the    *)
(* theft of its voice in startVoice().                                     *)
(***************************************************************************)
THEOREM NotesEndOnce == Spec => []EveryNoteEndsOnce
<1>1. IInv => EveryNoteEndsOnce
  BY DEF IInv, OwedAreSounding, Sounding, EndsInside, EveryNoteEndsOnce
<1> QED BY <1>1, Invariance, PTL

(***************************************************************************)
(* Between blocks activeVoicesRt of the proxy is at most the number of     *)
(* voices in use, falls short of it by at most the MIDI notes since the    *)
(* voices were last silent, and fullNoteOnCreditsRt is spent, as long as   *)
(* no failed block has kept notes that observeInput() counted.             *)
(***************************************************************************)
THEOREM ProxyCountsVoices == Spec => []VoicesAreCounted
<1>1. IInv => VoicesAreCounted
  <2> SUFFICES ASSUME IInv, ~block.running, unstarted = 0
               PROVE  /\ counted.credits = 0 /\ counted.active <= Cardinality(Active)
                      /\ Cardinality(Active) <= counted.active + uncounted
    BY DEF VoicesAreCounted
  <2>1. CountedAreActive /\ block.notes = 0
    BY DEF IInv, EndsInside
  <2>2. counted.active \in Nat /\ counted.active <= Capacity /\ counted.credits \in Nat
        /\ Capacity \in Nat /\ uncounted \in Nat
    BY <2>1, BoundsAreNat DEF CountedAreActive
  <2>3. Cardinality(Active) \in Nat /\ Cardinality(Active) <= Capacity
    BY VoicesAreFinite DEF Active
  <2>4. ToCount = Cardinality(Active)
    BY <2>1, <2>3 DEF ToCount
  <2>5. /\ counted.active + counted.credits <= Cardinality(Active)
        /\ Cardinality(Active) <= counted.active + counted.credits + uncounted
        /\ counted.credits > 0 => counted.active = Capacity
    BY <2>1, <2>4 DEF CountedAreActive
  <2> QED BY <2>2, <2>3, <2>5
<1> QED BY <1>1, Invariance, PTL

LEMMA MarkedVoice ==
  ASSUME IInv, NEW i \in sustained
  PROVE  /\ i \in Indices /\ i \in Active
         /\ life[i].generation \in Nat /\ life[i].generation # 0
         /\ voice[i].generation = life[i].generation
         /\ life[i].generation <= generationSerial
<1>1. i \in Indices /\ i \in Active /\ Shapes /\ Layers
  BY DEF IInv, SustainedSound, Active
<1>2. life[i] \in Stage /\ life[i].generation # 0 /\ voice[i].generation = life[i].generation
  BY <1>1, ActiveVoice
<1> QED BY <1>1, <1>2, BoundsAreNat DEF IInv, Ordered, Stage

(***************************************************************************)
(* deferMatching() remembers a note-off while the pedal is down; the mark  *)
(* only goes when the voice is released, or has another note or none.      *)
(***************************************************************************)
THEOREM DeferredOffsAreApplied == Spec => DeferredOffIsApplied
<1> DEFINE Applied == \A i \in sustained \ sustained' :
                        life'[i].generation = life[i].generation => life'[i].stage = "releasing"
<1>1. ASSUME IInv, [Next]_vars PROVE Applied
  <2> USE <1>1
  <2> SUFFICES ASSUME NEW i \in sustained \ sustained'
               PROVE  life'[i].generation # life[i].generation \/ life'[i].stage = "releasing"
    OBVIOUS
  <2>0. /\ Shapes /\ Layers /\ i \in Indices /\ i \in Active
        /\ life[i].generation # 0 /\ life[i].generation \in Nat
        /\ life[i].generation <= generationSerial
    BY MarkedVoice DEF IInv
  <2>1. ASSUME NEW S \in SUBSET Active, Blank(S), sustained' = sustained \ S
        PROVE  life'[i].generation # life[i].generation
    <3>1. i \in S
      BY <2>1
    <3> QED BY <2>0, <2>1, <3>1, BlankActive, BlankTypes
  <2>2. ASSUME NEW frames \in 1 .. MaxFrames, NEW notes \in 0 .. MaxNotes, BlockBegin(frames, notes)
        PROVE  life'[i].generation # life[i].generation
    <3>1. Deferred \in SUBSET Indices /\ \A j \in Deferred : voice[j].active /\ voice[j].releasing
      <4>1. ASSUME NEW j \in Deferred PROVE voice[j].active /\ voice[j].releasing
        <5>1. j \in Indices /\ voice[j].active /\ voice[j].deferredReleaseCompletion
          BY DEF Deferred
        <5>2. slot[j].active /\ Agrees(slot[j], life[j], voice[j])
          BY <2>0, <5>1, ActiveVoice
        <5> QED BY <5>1, <5>2 DEF Agrees
      <4> QED BY <4>1 DEF Deferred
    <3>2. CompleteReleases(Deferred, 0, CountNotes(counted, notes))
      BY <2>2 DEF BlockBegin
    <3>3. Deferred \in SUBSET Active /\ Blank(Deferred) /\ sustained' = sustained \ Deferred
      BY <3>1, <3>2, ReleasesComplete
    <3> QED BY <2>1, <3>3
  <2>3. CASE Render
    <3> DEFINE S == IF EndsInBlock THEN Expiring ELSE {}
    <3>1. S \in SUBSET Indices /\ \A j \in S : voice[j].active /\ voice[j].releasing
      BY DEF Expiring, Releasing
    <3>2. CompleteReleases(S, block.cursor + 1, counted)
      BY <2>3 DEF Render
    <3> HIDE DEF S
    <3>3. S \in SUBSET Active /\ Blank(S) /\ sustained' = sustained \ S
      BY <3>1, <3>2, ReleasesComplete
    <3> QED BY <2>1, <3>3
  <2>4. CASE BlockEnd \/ BlockFails \/ UNCHANGED vars
    BY <2>4 DEF BlockEnd, BlockFails, vars, scheduler
  <2>5. CASE Reset
    BY <2>0, <2>5, BlankTypes DEF Reset
  <2>6. ASSUME NEW n \in Identity, NEW r \in Releases, NoteOn(n, r) \/ MidiNoteOn(n, r)
        PROVE  life'[i].generation # life[i].generation
    <3>1. sustained' = sustained \ {Target}
      BY <2>6, NoteStarts DEF StartVoice
    <3>2. i = Target
      BY <3>1
    <3>3. life'[i].generation = generationSerial + 1
      BY <2>6, <3>2, NoteOnVoice
    <3>4. generationSerial \in Nat
      BY <2>0, BoundsAreNat DEF Shapes
    <3> QED BY <2>0, <3>3, <3>4
  <2>7. ASSUME NEW a \in Address, NoteChoke(a) PROVE life'[i].generation # life[i].generation
    <3> DEFINE S == Matching(a)
    <3>1. S \in SUBSET Active
      BY DEF Matching
    <3>2. Known(S) = S
      BY <2>0, <3>1, KnownVoices
    <3>3. Blank(S) /\ sustained' = sustained \ S
      BY <2>7, <3>2 DEF NoteChoke, Blank
    <3> HIDE DEF S
    <3> QED BY <2>1, <3>1, <3>3
  <2>8. CASE ReleaseEvent
    <3>1. Unreleased
      BY <2>8, EventReleases DEF ReleaseEvent
    <3>2. PICK voices \in SUBSET Active : /\ Release(voices) /\ sustained' \subseteq Active
                                          /\ sustained \ sustained' \subseteq voices
      BY <2>8, EventReleases DEF ReleaseEvent
    <3>3. slot' = slot /\ i \in voices
      BY <3>1, <3>2 DEF Unreleased, allocator
    <3> QED BY <2>0, <3>2, <3>3, ReleasedVoice
  <2> QED BY <2>2, <2>3, <2>4, <2>5, <2>6, <2>7, <2>8, StepCases
<1>2. IInv /\ [Next]_vars => [Applied]_vars
  BY <1>1
<1> QED BY <1>2, Invariance, PTL DEF Spec, DeferredOffIsApplied

(***************************************************************************)
(* allocateDetailed() only steals while all voices sound, and then the one *)
(* whose note came first: the renumbering of the serials keeps their       *)
(* order, and a release that has run out has given its voice back.         *)
(***************************************************************************)
THEOREM TheOldestIsStolen == Spec => StealsOldestSounding
<1> DEFINE Oldest == \A i \in Indices :
                       voice[i].active /\ voice'[i].generation > voice[i].generation =>
                         \A j \in Indices : /\ voice[j].active /\ voice[j].generation >= voice[i].generation
                                            /\ j \notin Deferred
<1>1. ASSUME IInv, [Next]_vars PROVE Oldest
  <2> USE <1>1
  <2> SUFFICES ASSUME NEW i \in Indices, voice[i].active, voice'[i].generation > voice[i].generation,
                      NEW j \in Indices
               PROVE  /\ voice[j].active /\ voice[j].generation >= voice[i].generation
                      /\ j \notin Deferred
    OBVIOUS
  <2>0. /\ Shapes /\ Layers /\ Ordered /\ DeferredWait /\ i \in Active
        /\ \A k \in Indices : voice[k].generation \in Nat
    <3>1. Shapes /\ Layers /\ Ordered /\ DeferredWait
      BY DEF IInv
    <3>2. i \in Active
      BY <3>1, ActiveVoice
    <3>3. \A k \in Indices : voice[k].generation \in Nat
      BY <3>1, BoundsAreNat DEF Shapes, Voice
    <3> QED BY <3>1, <3>2, <3>3
  <2>1. ASSUME voice'[i].generation = voice[i].generation \/ voice'[i] = Silence PROVE FALSE
    BY <2>0, <2>1, BlankTypes
  <2>2. ASSUME NEW frames \in 1 .. MaxFrames, NEW notes \in 0 .. MaxNotes, BlockBegin(frames, notes)
        PROVE  FALSE
    <3>1. voice'[i] = IF i \in Deferred THEN Silence ELSE voice[i]
      BY <2>2 DEF BlockBegin
    <3> QED BY <2>1, <3>1
  <2>3. CASE Render
    <3>1. voice'[i] = IF i \in Releasing THEN Advanced(i) ELSE voice[i]
      BY <2>3 DEF Render
    <3> QED BY <2>1, <3>1, AdvancedVoice
  <2>4. CASE BlockEnd \/ BlockFails \/ UNCHANGED vars
    <3>1. voice' = voice
      BY <2>4 DEF BlockEnd, BlockFails, vars
    <3> QED BY <2>1, <3>1
  <2>5. CASE Reset
    <3>1. voice'[i] = Silence
      BY <2>5 DEF Reset
    <3> QED BY <2>1, <3>1
  <2>6. ASSUME NEW n \in Identity, NEW r \in Releases, NoteOn(n, r) \/ MidiNoteOn(n, r)
        PROVE  /\ voice[j].active /\ voice[j].generation >= voice[i].generation
               /\ j \notin Deferred
    <3>1. i = Target
      <4>1. i # Target => voice'[i] = voice[i]
        BY <2>6, NoteOnVoice
      <4> QED BY <2>1, <4>1
    <3>2. Active = Indices
      BY <2>0, <3>1, TargetIsFree
    <3>3. slot[i].serial <= slot[j].serial
      BY <2>0, <3>1, <3>2, TargetIsOldest
    <3>4. voice[i].generation <= voice[j].generation
      BY <2>0, <3>2, <3>3 DEF Ordered
    <3>5. voice[j].active
      BY <2>0, <3>2, ActiveVoice
    <3>6. Deferred = {}
      BY <2>0, <2>6, NoteStarts DEF StartVoice, DeferredWait
    <3> QED BY <2>0, <3>4, <3>5, <3>6
  <2>7. ASSUME NEW a \in Address, NoteChoke(a) PROVE FALSE
    <3>1. voice'[i] \in {Silence, voice[i]}
      BY <2>7 DEF NoteChoke
    <3> QED BY <2>1, <3>1
  <2>8. CASE ReleaseEvent
    <3>1. Unreleased
      BY <2>8, EventReleases DEF ReleaseEvent
    <3>2. PICK voices \in SUBSET Active : Release(voices)
      BY <2>8, EventReleases DEF ReleaseEvent
    <3>3. slot' = slot
      BY <3>1 DEF Unreleased, allocator
    <3>4. voice'[i].generation = voice[i].generation
      BY <3>2, <3>3, ReleasedVoice
    <3> QED BY <2>1, <3>4
  <2> QED BY <2>2, <2>3, <2>4, <2>5, <2>6, <2>7, <2>8, StepCases
<1>2. IInv /\ [Next]_vars => [Oldest]_vars
  BY <1>1
<1> QED BY <1>2, Invariance, PTL DEF Spec, StealsOldestSounding

=============================================================================

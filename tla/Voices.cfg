\* Two voices, five notes: the last two find the serials spent, and three notes steal; one MIDI note
\* from one silence to the next.
SPECIFICATION FairSpec
CONSTANTS
  Capacity = 2
  Channels = {c1, c2}
  Keys = {k1}
  Any = Any
  Releases = {2}
  MaxFrames = 2
  MaxSerial = 3
  MaxNotes = 5
  MaxMidiNotes = 1
INVARIANTS LayersAgree EveryNoteEndsOnce VoicesAreCounted
PROPERTIES DeferredOffIsApplied StealsOldestSounding ReleaseEnds

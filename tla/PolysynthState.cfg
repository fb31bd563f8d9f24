\* Two changes, a load and an event or two loads, with every choice of two release times.
SPECIFICATION FairSpec
CONSTANTS
  MaxChanges = 2
  MaxLaps = 1
  Samples = {1, 2}
INVARIANTS SaveIsCurrent TailCovers LoadedTailIsReported
PROPERTIES AppliesWholeState Settles

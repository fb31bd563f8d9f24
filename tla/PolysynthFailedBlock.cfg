\* The tail between blocks, also after a block that failed.
SPECIFICATION Spec
CONSTANTS
  MaxChanges = 2
  MaxLaps = 1
  Samples = {1, 2}
INVARIANTS TailNeverUnderReports

\* One note with an id and one without; four events for a ring of two records.
SPECIFICATION Spec
CONSTANTS
  Notes = {"id", "key"}
  Anonymous = {"key"}
  MaxPending = 2
  MaxAmount = 1
  MaxEvents = 4
  MaxResets = 1
  MaxReopens = 1
INVARIANTS ShowsNothingStale

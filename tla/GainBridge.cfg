\* Three usable slots: two gestures, one more command, and every wrap of the indices.
\* The host flushes an active plug-in only while it processes.
SPECIFICATION FairSpec
CONSTANTS
  Params = {gain, bypass}
  Capacity = 4
  ActiveFlush = FALSE
  NoCommand = NoCommand
INVARIANTS GesturesReplay EndNeverRefused
PROPERTIES Delivered

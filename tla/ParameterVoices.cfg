CONSTANTS
  Capacity = 2
  PendingSlots = 2
  Keys = {"C", "E"}
  MaxValue = 1
  Automated = {"fine", "cutoff", "amount"}
  Sent = {"tuning", "pressure"}
  MaxFrames = 2
  MaxEvents = 3
SPECIFICATION Spec
INVARIANT VoicesFollowSources
PROPERTIES NotesHearTheirTime RefusedOnlyWhenFull MidiNotesFollowChannel
CHECK_DEADLOCK FALSE

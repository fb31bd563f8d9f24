\* Both limits of the queue are met: by two messages, or by a long and a short one.
SPECIFICATION ClapSpec
CONSTANTS
  Sizes = {1, 2}
  MaxQueued = 2
  MaxBytes = 3
  MaxMessages = 3
  MaxPosts = 2
  MaxReloads = 1
  MaxSessions = 2
  Posts <- MCPosts
  Settings <- MCSettings
  Dimensions = {"default", "other", "huge"}
  Fits = {"default", "other"}
  DefaultSize = "default"
  Configurations <- MCConfigurations
  MaxChoices = 1
INVARIANTS QueueAccounting PageIsFound ShownAtItsSize
PROPERTIES DispatchedInOrder KeptIsDispatched DevicesAreShown
\* After the plug-in is destroyed there is nothing left to do.
CHECK_DEADLOCK FALSE

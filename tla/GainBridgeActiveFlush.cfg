\* The host may flush a plug-in that is active but not processing.
SPECIFICATION FairSpec
CONSTANTS
  Params = {gain, bypass}
  Capacity = 3
  ActiveFlush = TRUE
  NoCommand = NoCommand
PROPERTIES Delivered

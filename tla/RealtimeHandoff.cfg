SPECIFICATION FairSpec
CONSTANTS
  a = a  b = b  c = c
  Items <- ThreeItems
  Default = a
  Capacity = 4
INVARIANTS NoDataRace
PROPERTIES IsHandoff HeadIsPopped

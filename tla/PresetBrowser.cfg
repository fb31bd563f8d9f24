CONSTANTS
  Plugins = {"gain", "polysynth"}
  Parameters = {"gain"}
  MaxValue = 1
  Plugin = "gain"
  Identities = {"a", "b"}
  Instances = {"me", "other"}
  Imports <- MCImports
  MaxLosses = 1
  Factories <- MCFactories
  FactoryState <- MCFactoryState
  Projects <- MCProjects
  MaxCommands = 2
  MaxLoads = 1
  MaxEvents = 2
SPECIFICATION Spec
INVARIANTS
  Truthful
  CurrentIsEntry
  SavedIsWhole
  SavedIsDurable
PROPERTIES
  NoClobber
CHECK_DEADLOCK FALSE

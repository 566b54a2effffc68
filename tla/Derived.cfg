\* What is derived from a context: index and views, packs, checkpoints; adapter installations.
CONSTANTS
  None = None
  Installer <- MCInstaller
  Release <- MCRelease
  N = 2
  Owns <- MCOwns
  Edits <- MCEdits
  Empty = "empty"
  MaxStrikes = 2
  MaxForgets = 1
  Docs = 2
  Engine = "apply"
  Indexer <- MCIndexer
  Viewer <- MCViewer
  Brief <- MCBrief
  Side <- MCSide
  MaxApplies = 1
  MaxRecoveries = 1
  MaxIndexes = 1
  MaxViews = 1
  MaxTroubles = 1
  Graph <- MCGraph
  Budget <- MCBudget
  Queries <- MCQueries
  FocalUnits = 4
  MinimalUnits = 2
  MaxBuilds = 3
  Item <- MCItem
  Successor = "s"
  Body <- MCBody
  MaxChanges = 2
  ItemUnits <- MCItemUnits
SPECIFICATION Spec
CHECK_DEADLOCK FALSE
INVARIANTS DerivedTypeOK ViewsShowTheirRevision ReadingsAgree PacksKeepBudget
PROPERTIES InstallsAreWhole InterruptedInstallsEnd GateReopens

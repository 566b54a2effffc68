\* A view rebuild whose queries see two indexes; the other components rest.
CONSTANTS
  None = None
  Installer <- MCInstaller
  Release <- MCRelease
  N = 2
  Owns <- MCOwns
  Edits <- MCEdits
  Empty = "empty"
  MaxStrikes = 0
  MaxForgets = 0
  Docs = 2
  Engine = "apply"
  Indexer <- MCIndexer
  Viewer <- MCViewer
  Brief <- MCBrief
  Side <- MCSide
  MaxApplies = 1
  MaxRecoveries = 1
  MaxIndexes = 1
  MaxViews = 1
  MaxTroubles = 1
  Graph <- MCGraph
  Budget <- MCBudget
  Queries <- MCQueries
  FocalUnits = 4
  MinimalUnits = 2
  MaxBuilds = 0
  Item <- MCItem
  Successor = "s"
  Body <- MCBody
  MaxChanges = 0
  ItemUnits <- MCItemUnits
SPECIFICATION Spec
CHECK_DEADLOCK FALSE
INVARIANT OneConsistentSnapshot

\* One installer, one crash, no edits.
CONSTANTS
  Installer = {"p"}
  Release = {"v1", "v2"}
  N = 3
  Owns <- MCOwns
  Edit = {}
  None = None
  Empty = "empty"
  MaxStrikes = 1
  MaxForgets = 0
SPECIFICATION FairAdapterSpec
CHECK_DEADLOCK FALSE
PROPERTIES EveryCrashIsRecoverable

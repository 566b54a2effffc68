\* An override comes and goes while the kit is upgraded.
CONSTANTS
  Nonce <- MCTrio
  Host <- MCTwoHosts
  Aging = FALSE
  MaxAttempts = 1
  MaxFailures = 1
  MaxExits = 1
  None = None
  NoOne = NoOne
  User <- MCUser
  Id <- MCId
  ContextRoot <- MCRoot
  ContextIdOf <- MCIdOf
  MaxUserDeaths = 1
  Keeper <- MCKeeper
  Secret <- MCSecret
  MaxLosses = 2
  Void = Void
  Recorder <- MCRecorder
  ProcessOf <- MCProcessOf
  MaxBytes = 2
  Keep = 2
  MaxEvents = 9
  MaxKills = 1
  NoFile = NoFile
  Nobody = Nobody
SPECIFICATION OverridesSpec
CHECK_DEADLOCK FALSE
INVARIANTS RecordedIsThere

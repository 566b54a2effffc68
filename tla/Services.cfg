\* The services over the engine: outbox, connectors, inbox, records.
CONSTANTS
  None = None
  Sender <- MCSender
  Saver <- MCSaver
  Target <- MCTarget
  FirstBody = "body0"
  Run <- MCRun
  DueOnly <- MCDueOnly
  Connector <- MCConnector
  Scope <- MCScope
  Snapshot <- MCSnapshot
  SnapshotsOf <- MCSnapshotsOf
  Interval <- MCInterval
  Response <- MCResponse
  MaxTime = 2
  MaxCrashes = 1
  Session <- MCSession
  Batch <- MCBatch
  Path <- MCPath
  Stem <- MCStem
  Content <- MCContent
  Suspicious <- MCSuspicious
  MaxSeq = 2
  MaxPuts = 1
  MaxFalls = 1
  Agent <- MCAgent
  First = "x"
  Editor <- MCEditor
  Suggestion <- MCSuggestion
  Task <- MCTask
  FirstTask = "t1"
  Value <- MCValue
  MaxClaims = 4
  Slug <- MCSlug
  Alias <- MCAlias
  Similar <- MCSimilar
  FirstTopics <- MCFirstTopics
  Documents = 2
  MaxTags = 1
  Uri <- MCUri
  Existing <- MCExisting
  Claims <- MCClaims
  Names <- MCNames
  Payload <- MCPayload
  Stray = "stray"
SPECIFICATION Spec
CHECK_DEADLOCK FALSE
INVARIANTS TypeOK DeliveriesTold SyncsTold EvidenceIsKept RecordsAgree
PROPERTIES InterruptedMovesEnd NothingIsLost TopicsStaySound

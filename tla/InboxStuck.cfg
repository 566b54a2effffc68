\* One batch, one suspicious file, one crash.
CONSTANTS
  Session = {"s2"}
  Batch = {"s2"}
  Path = {"p1"}
  Stem <- MCStem
  Content = {"q"}
  Suspicious = {"q"}
  None = None
  MaxSeq = 1
  MaxPuts = 0
  MaxFalls = 1
SPECIFICATION FairIngestionSpec
CHECK_DEADLOCK FALSE
PROPERTIES InterruptedMovesEnd

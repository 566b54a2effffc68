\* Hand edits between the engine's own steps, or leases that go stale under running sessions.
CONSTANTS
  s1 = s1  s2 = s2
  t1 = t1  t2 = t2
  a = a  b = b  c = c
  v1 = v1  v2 = v2
  Absent = Absent  None = None  Torn = Torn
  Session <- MCSession
  Txn <- MCTxn
  Path <- MCPath
  Content <- MCContent
  Seed <- MCSeed
  Ops <- MCOps
  MaxCrashes = 1
  MaxFailures = 0
  MaxEdits = 2
  MaxStalls = 2
  EditInWindow = FALSE
  Mixed = FALSE
SPECIFICATION Spec
INVARIANTS LedgerVerifies CommittedAtItsBase
PROPERTIES EditsAreKept

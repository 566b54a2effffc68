\* Two sessions, crashes and I/O failures, an exclusive lease and no edits.
CONSTANTS
  s1 = s1  s2 = s2
  t1 = t1  t2 = t2
  a = a  b = b  c = c
  v1 = v1  v2 = v2
  Absent = Absent  None = None  Torn = Torn
  Session <- MCSession
  Txn <- MCTxn
  Path <- MCPath
  Content <- MCContent
  Seed <- MCSeed
  Ops <- MCOps
  MaxCrashes = 2
  MaxFailures = 1
  MaxEdits = 0
  MaxStalls = 0
  EditInWindow = FALSE
  Mixed = FALSE
SPECIFICATION FairSpec
INVARIANTS EventTellsTruth CleanTreeFollowsLedger
PROPERTIES CommitByOwnLease IntentLeavesAfterAudit ImplementsAtomicStore RecoveryEnds

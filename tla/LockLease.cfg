\* Three leases on two hosts, behind a guard that excludes; or two attempts at the guard.
CONSTANTS
  a = a
  b = b
  c = c
  Nobody = Nobody
  Lease <- MCTrio
  Host <- MCTwoHosts
  MaxTries = 2
  MaxBeats = 1
  MaxFailures = 1
  MaxExits = 1
  MaxBreaches = 0
SPECIFICATION MCSpec
CHECK_DEADLOCK FALSE
PROPERTIES ImplementsLease EvidenceKept AcquireEnds StaleYields AttemptsEnd LeftoversDoNotBlock

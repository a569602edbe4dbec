CONSTANTS
  t1 = t1
  t2 = t2
  w1 = w1
  w2 = w2
  alice = alice
  bob = bob
  NoHash = NoHash
  NoJob = NoJob
  NoWorker = NoWorker
  Tx = {t1}
  Blockchain <- OneEvm
  Parties <- OneParties
  LowerChecksum = {alice, bob}
  Worker = {w1}
  MaxAttempts = 2
  MaxStalls = 1
  Faults = {}
SPECIFICATION FairSpec
PROPERTY RevertedIsFailed
CHECK_DEADLOCK FALSE

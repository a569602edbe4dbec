CONSTANTS
  t1 = t1
  t2 = t2
  w1 = w1
  w2 = w2
  alice = alice
  bob = bob
  NoHash = NoHash
  NoJob = NoJob
  NoWorker = NoWorker
  Tx = {t1}
  Blockchain <- OneEvm
  Parties <- OneParties
  LowerChecksum = {}
  Worker = {w1}
  MaxAttempts = 2
  MaxStalls = 1
  Faults = {"requestCrash"}
SPECIFICATION Spec
PROPERTY EvidenceIsFound
CHECK_DEADLOCK FALSE

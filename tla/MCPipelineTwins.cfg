CONSTANTS
  t1 = t1
  t2 = t2
  w1 = w1
  w2 = w2
  alice = alice
  bob = bob
  NoHash = NoHash
  NoJob = NoJob
  NoWorker = NoWorker
  Tx = {t1, t2}
  Blockchain <- TwinEvm
  Parties <- TwinParties
  LowerChecksum = {alice, bob}
  Worker = {}
  MaxAttempts = 1
  MaxStalls = 0
  Faults = {"requestCrash", "slowRequest"}
SPECIFICATION Spec
INVARIANTS OneRowPerHash
PROPERTIES HashIsFinal
SYMMETRY TwinSymmetry
CHECK_DEADLOCK FALSE

CONSTANTS
  t1 = t1
  t2 = t2
  w1 = w1
  w2 = w2
  alice = alice
  bob = bob
  NoHash = NoHash
  NoJob = NoJob
  NoWorker = NoWorker
  Tx = {t1}
  Blockchain <- OneSolana
  Parties <- OneParties
  LowerChecksum = {alice, bob}
  Worker = {w1, w2}
  MaxAttempts = 2
  MaxStalls = 1
  Faults = {"workerCrash", "workerError", "stall"}
SPECIFICATION Spec
INVARIANTS AnnouncedOnce
PROPERTIES LifecycleSpec
SYMMETRY WorkerSymmetry
CHECK_DEADLOCK FALSE

CONSTANTS
  Node = {n1, n2}
  Wallet = {1, 2}
  PageSize = 1
  Quiet = {0, 2}
  MaxTransfers = 2
  MaxFailures = 1
  Scopes <- MCScopes
SPECIFICATION FairSpec
INVARIANTS NoFalseDrift SnapshotInv WholeSweep
PROPERTIES ProjectionSpec SnapshotsSettle

CONSTANTS
  Node = {n1, n2}
  Log = {l1}
  StartBlock = 0
  Confirmations = 1
  MaxBlockRange = 6
  MaxWindows = 2
  RpcLimit = 4
  ReorgDepth = 1
  MaxBlock = 7
  MaxFailures = 1
SPECIFICATION FairSpec
INVARIANTS NoGap RowsAreCanonical
PROPERTY Indexed

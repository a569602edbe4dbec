------------------------- MODULE EventIndexerProofs -------------------------
(***************************************************************************)
(* The event listener leaves no gap behind its cursor and no row of an     *)
(* orphaned block, for any number of processes and logs and any            *)
(* configuration with at least as many confirmations as a reorganisation   *)
(* is deep.  NoGap is not inductive: a process that is in the middle of a  *)
(* scan relies on what was indexed before its window and on what its       *)
(* window still holds, and both rest on blocks that no longer change.      *)
(***************************************************************************)
EXTENDS EventIndexer, TLAPS

\* IndexerTypeInit: the initial states have the types.
LEMMA IndexerTypeInit == Init => TypeOK
BY IndexerAssumption DEF Init, TypeOK, ChainType, TablesType, ScanType

\* ReturnType: leaving processTokenEvents keeps the types of its locals.
LEMMA ReturnType ==
  ASSUME ScanType, NEW n \in Node, Return(n)
  PROVE  ScanType'
<1>1. windows' \in [Node -> 0..(MaxWindows - 1)]
  BY IndexerAssumption DEF ScanType, Return
<1>2. logs' \in [Node -> SUBSET (Log \X Nat)] /\ current' \in [Node -> (Log \X Nat) \cup {<<>>}]
  BY DEF ScanType, Return
<1>3. from' \in [Node -> Nat] /\ end' \in [Node -> Nat] /\ to' \in [Node -> Int]
  BY DEF ScanType, Return
<1>4. pc' \in [Node -> {"idle", "head", "fetch", "handle", "sync"}]
  BY DEF ScanType, Return
<1>5. \A m \in Node : pc'[m] = "sync" => current'[m] \in logs'[m]
  BY DEF ScanType, Return
<1> QED
  BY <1>1, <1>2, <1>3, <1>4, <1>5 DEF ScanType

\* ChainTypeStep: the chain keeps its type.
LEMMA ChainTypeStep ==
  ASSUME ChainType, Mine \/ \E k \in 1..ReorgDepth : Reorg(k)
  PROVE  ChainType'
<1>1. CASE Mine
  BY <1>1 DEF ChainType, Mine
<1>2. ASSUME NEW k \in 1..ReorgDepth, Reorg(k) PROVE ChainType'
  BY <1>2 DEF ChainType, Reorg
<1> QED
  BY <1>1, <1>2

\* TablesTypeStep: the rows and the cursor keep their types.
LEMMA TablesTypeStep ==
  ASSUME TablesType, ScanType, NEW n \in Node,
         HandleTransferEvent(n) \/ SyncWalletBalance(n) \/ MarkSuccess(n) \/ MarkLastSuccess(n)
  PROVE  TablesType'
<1>1. CASE HandleTransferEvent(n)
  <2>1. PICK x \in logs[n] : stored' = [stored EXCEPT ![x[1]] = IF @ = 0 THEN x[2] ELSE @]
    BY <1>1 DEF HandleTransferEvent
  <2>2. x \in Log \X Nat
    BY DEF ScanType
  <2> QED
    BY <1>1, <2>1, <2>2 DEF TablesType, HandleTransferEvent
<1>2. CASE SyncWalletBalance(n)
  <2>1. current[n] \in Log \X Nat
    BY <1>2 DEF ScanType, SyncWalletBalance
  <2> QED
    BY <1>2, <2>1 DEF TablesType, SyncWalletBalance
<1>3. CASE MarkSuccess(n) \/ MarkLastSuccess(n)
  BY <1>3 DEF TablesType, ScanType, MarkSuccess, MarkLastSuccess
<1> QED
  BY <1>1, <1>2, <1>3

\* ScanTypeStep: a step of a scan keeps the types of its locals.
LEMMA ScanTypeStep ==
  ASSUME TypeOK, IndexerInv, NEW n \in Node, ProcessTokenEvents(n)
  PROVE  ScanType'
<1>0. ScanType /\ ChainType /\ TablesType /\ size \in [Node -> 1..MaxBlockRange]
  BY DEF TypeOK
<1>1. CASE LoadCursor(n)
  BY <1>0, <1>1, IndexerAssumption DEF ScanType, TablesType, LoadCursor, firstBlock
<1>2. CASE GetBlockNumber(n)
  <2>1. indexableHead \in Int
    BY <1>0, IndexerAssumption DEF ChainType, indexableHead
  <2> QED
    BY <1>0, <1>2, <2>1 DEF ScanType, GetBlockNumber
<1>3. CASE Fetch(n)
  <2>1. windowEnd(n) \in Nat
    BY <1>0, <1>3, IndexerAssumption DEF ScanType, Fetch, windowEnd, IndexerInv, ScanIsCovered
  <2>2. {<<l, blockOf[l]>> : l \in {m \in Mined : blockOf[m] \in from[n]..windowEnd(n)}}
           \in SUBSET (Log \X Nat)
    BY <1>0 DEF ChainType, Mined
  <2> QED
    BY <1>0, <1>3, <2>1, <2>2 DEF ScanType, Fetch
<1>4. CASE Shrink(n)
  BY <1>0, <1>4 DEF ScanType, Shrink
<1>5. CASE HandleTransferEvent(n)
  <2>1. PICK x \in logs[n] : current' = [current EXCEPT ![n] = x]
    BY <1>5 DEF HandleTransferEvent
  <2>2. x \in Log \X Nat
    BY <1>0 DEF ScanType
  <2> QED
    BY <1>0, <1>5, <2>1, <2>2 DEF ScanType, HandleTransferEvent
<1>6. CASE SyncWalletBalance(n)
  BY <1>0, <1>6 DEF ScanType, SyncWalletBalance
<1>7. CASE MarkSuccess(n)
  BY <1>0, <1>7, IndexerAssumption DEF ScanType, MarkSuccess, anotherWindow
<1>8. CASE NoNewBlocks(n) \/ MarkLastSuccess(n)
  BY <1>0, <1>8, ReturnType DEF NoNewBlocks, MarkLastSuccess
<1> QED
  BY <1>1, <1>2, <1>3, <1>4, <1>5, <1>6, <1>7, <1>8 DEF ProcessTokenEvents

\* IndexerTypeStep: every step of the chain and of a process keeps the types.
LEMMA IndexerTypeStep == TypeOK /\ IndexerInv /\ [Next]_vars => TypeOK'
<1> SUFFICES ASSUME TypeOK, IndexerInv, [Next]_vars PROVE TypeOK'
  OBVIOUS
<1>0. /\ ScanType /\ ChainType /\ TablesType
      /\ size \in [Node -> 1..MaxBlockRange] /\ failures \in 0..MaxFailures
  BY DEF TypeOK
<1>1. ASSUME Mine \/ \E k \in 1..ReorgDepth : Reorg(k) PROVE TypeOK'
  <2>1. UNCHANGED <<tables, scan, failures>>
    BY <1>1 DEF Mine, Reorg
  <2> QED
    BY <1>0, <1>1, <2>1, ChainTypeStep DEF TypeOK, TablesType, ScanType, tables, scan
<1>2. ASSUME NEW n \in Node, ProcessTokenEvents(n) PROVE TypeOK'
  <2>1. ScanType'
    BY <1>2, ScanTypeStep
  <2>2. ChainType' /\ failures' = failures
    BY <1>0, <1>2
    DEF ChainType, ProcessTokenEvents, LoadCursor, GetBlockNumber, NoNewBlocks, Fetch, Shrink,
        HandleTransferEvent, SyncWalletBalance, MarkSuccess, MarkLastSuccess, chain
  <2>3. TablesType'
    BY <1>0, <1>2, TablesTypeStep
    DEF TablesType, ProcessTokenEvents, LoadCursor, GetBlockNumber, NoNewBlocks, Fetch, Shrink, tables
  <2>4. size' \in [Node -> 1..MaxBlockRange]
    <3>1. CASE Shrink(n)
      BY <1>0, <3>1, IndexerAssumption DEF Shrink, halved
    <3>2. CASE size' = size
      BY <1>0, <3>2
    <3> QED
      BY <1>2, <3>1, <3>2
      DEF ProcessTokenEvents, LoadCursor, GetBlockNumber, NoNewBlocks, Fetch,
          HandleTransferEvent, SyncWalletBalance, MarkSuccess, MarkLastSuccess
  <2> QED
    BY <1>0, <2>1, <2>2, <2>3, <2>4 DEF TypeOK
<1>3. ASSUME NEW n \in Node, Throws(n) \/ Restart(n) PROVE TypeOK'
  <2>1. ScanType'
    BY <1>0, <1>3, ReturnType DEF Throws, Restart
  <2>2. ChainType' /\ TablesType'
    BY <1>0, <1>3 DEF Throws, Restart, ChainType, TablesType, chain, tables
  <2>3. size' \in [Node -> 1..MaxBlockRange] /\ failures' \in 0..MaxFailures
    BY <1>0, <1>3, IndexerAssumption DEF Throws, Restart
  <2> QED
    BY <2>1, <2>2, <2>3 DEF TypeOK
<1>4. CASE UNCHANGED vars
  BY <1>0, <1>4 DEF TypeOK, ChainType, TablesType, ScanType, vars, chain, tables, scan
<1> QED
  BY <1>1, <1>2, <1>3, <1>4 DEF Next

-----------------------------------------------------------------------------
\* IndexerInit: nothing is indexed and nobody scans in the initial states.
LEMMA IndexerInit == Init => IndexerInv
BY IndexerAssumption
DEF Init, IndexerInv, NoGap, IndexedUpTo, Mined, Done, RowsAreCanonical, RowsAreFinal, ScanIsCovered

\* FinalStays: blocks with enough confirmations neither lose nor gain a log.
LEMMA FinalStays ==
  ASSUME ChainType, Mine \/ \E k \in 1..ReorgDepth : Reorg(k)
  PROVE  /\ head' = head + 1
         /\ \A l \in Log : (blockOf[l] \in 1..indexableHead \/ blockOf'[l] \in 1..indexableHead)
                             => blockOf'[l] = blockOf[l]
<1>1. CASE Mine
  BY <1>1, IndexerAssumption DEF ChainType, Mine, Mined, indexableHead
<1>2. ASSUME NEW k \in 1..ReorgDepth, Reorg(k)
      PROVE  /\ head' = head + 1
             /\ \A l \in Log : (blockOf[l] \in 1..indexableHead \/ blockOf'[l] \in 1..indexableHead)
                                 => blockOf'[l] = blockOf[l]
  BY <1>2, IndexerAssumption DEF ChainType, Reorg, indexableHead
<1> QED
  BY <1>1, <1>2

\* ChainInv: growth and reorganisation of the chain keep the invariant.
LEMMA ChainInv ==
  ASSUME TypeOK, IndexerInv, Mine \/ \E k \in 1..ReorgDepth : Reorg(k)
  PROVE  IndexerInv'
<1>0. ScanType /\ ChainType /\ ChainType' /\ TablesType
  BY ChainTypeStep DEF TypeOK
<1>1. UNCHANGED <<tables, scan>>
  BY DEF Mine, Reorg
<1>2. /\ head' = head + 1
      /\ \A l \in Log : (blockOf[l] \in 1..indexableHead \/ blockOf'[l] \in 1..indexableHead)
                          => blockOf'[l] = blockOf[l]
  BY <1>0, FinalStays
<1>3. indexableHead \in Int /\ indexableHead' = indexableHead + 1
  BY <1>0, <1>2, IndexerAssumption DEF ChainType, indexableHead
<1>4. ASSUME NEW b \in Int, b <= indexableHead \/ b < StartBlock, IndexedUpTo(b)
      PROVE  \A l \in Log : blockOf'[l] > 0 /\ blockOf'[l] \in StartBlock..b =>
                stored'[l] = blockOf'[l] /\ l \in synced'
  BY <1>0, <1>1, <1>2, <1>3, <1>4, IndexerAssumption
  DEF IndexedUpTo, Mined, Done, ChainType, tables
<1>5. NoGap'
  <2>1. cursor <= indexableHead \/ cursor = 0
    BY DEF IndexerInv, RowsAreFinal
  <2>2. CASE cursor <= indexableHead
    BY <1>0, <1>1, <1>4, <2>2 DEF IndexerInv, NoGap, IndexedUpTo, Mined, Done, TablesType, tables
  <2>3. CASE cursor = 0
    BY <1>0, <1>1, <2>3, IndexerAssumption DEF NoGap, IndexedUpTo, Mined, ChainType, tables
  <2> QED
    BY <2>1, <2>2, <2>3
<1>6. RowsAreCanonical' /\ RowsAreFinal'
  BY <1>0, <1>1, <1>2, <1>3
  DEF IndexerInv, RowsAreCanonical, RowsAreFinal, TablesType, ChainType, tables
<1>7. ASSUME NEW n \in Node PROVE ScanIsCovered(n)'
  <2>0. /\ ScanIsCovered(n) /\ from[n] \in Nat /\ to[n] \in Int /\ end[n] \in Nat
        /\ logs[n] \subseteq Log \X Nat
        /\ pc[n] \in {"idle", "head", "fetch", "handle", "sync"}
    BY <1>0, <1>7 DEF IndexerInv, ScanType
  <2>1. /\ pc'[n] = pc[n] /\ from'[n] = from[n] /\ to'[n] = to[n] /\ end'[n] = end[n]
        /\ logs'[n] = logs[n] /\ current'[n] = current[n] /\ stored' = stored /\ synced' = synced
    BY <1>1 DEF tables, scan
  <2>2. pc'[n] # "idle" => IndexedUpTo(from[n] - 1)'
    <3>1. SUFFICES ASSUME pc[n] # "idle" PROVE IndexedUpTo(from[n] - 1)'
      BY <2>1
    <3>2. from[n] - 1 <= indexableHead \/ from[n] - 1 < StartBlock
      BY <1>3, <2>0, <3>1, IndexerAssumption DEF ScanIsCovered
    <3> QED
      BY <1>4, <2>0, <2>1, <3>1, <3>2 DEF ScanIsCovered, IndexedUpTo, Mined, Done
  <2>3. pc'[n] = "head" => from'[n] <= StartBlock \/ from'[n] <= indexableHead'
    BY <1>3, <2>0, <2>1 DEF ScanIsCovered
  <2>4. pc'[n] \in {"fetch", "handle", "sync"} => to'[n] <= indexableHead' /\ from'[n] <= to'[n]
    BY <1>3, <2>0, <2>1 DEF ScanIsCovered
  <2>5. ASSUME pc'[n] \in {"handle", "sync"}
        PROVE  /\ end'[n] \in from'[n]..to'[n]
               /\ \A x \in logs'[n] : x[2] > 0 /\ x[2] <= to'[n] /\ blockOf'[x[1]] = x[2]
               /\ \A l \in Mined' : blockOf'[l] \in from'[n]..end'[n] =>
                    Done(l)' \/ <<l, blockOf'[l]>> \in logs'[n]
    <3>1. end[n] \in from[n]..to[n] /\ to[n] <= indexableHead
      BY <2>0, <2>1, <2>5 DEF ScanIsCovered
    <3>2. ASSUME NEW x \in logs[n] PROVE x[2] > 0 /\ x[2] <= to[n] /\ blockOf'[x[1]] = x[2]
      <4>1. x[2] > 0 /\ x[2] <= to[n] /\ blockOf[x[1]] = x[2]
        BY <2>0, <2>1, <2>5, <3>2 DEF ScanIsCovered
      <4>2. x[1] \in Log /\ x[2] \in Nat
        BY <2>0, <3>2
      <4> QED
        BY <1>2, <1>3, <2>0, <3>1, <4>1, <4>2
    <3>3. ASSUME NEW l \in Mined', blockOf'[l] \in from[n]..end[n]
          PROVE  Done(l)' \/ <<l, blockOf'[l]>> \in logs[n]
      <4>1. l \in Log /\ blockOf'[l] \in 1..indexableHead
        BY <1>0, <1>3, <2>0, <3>1, <3>3 DEF Mined, ChainType
      <4>2. blockOf'[l] = blockOf[l] /\ l \in Mined
        BY <1>2, <4>1, <1>3 DEF Mined
      <4>3. Done(l) \/ <<l, blockOf[l]>> \in logs[n]
        BY <2>0, <2>1, <2>5, <3>3, <4>2 DEF ScanIsCovered
      <4> QED
        BY <2>1, <4>2, <4>3 DEF Done
    <3> QED
      BY <2>1, <3>1, <3>2, <3>3
  <2>6. pc'[n] = "sync" => stored'[current'[n][1]] = current'[n][2]
    BY <2>0, <2>1 DEF ScanIsCovered
  <2> QED
    BY <2>1, <2>2, <2>3, <2>4, <2>5, <2>6 DEF ScanIsCovered
<1> QED
  BY <1>5, <1>6, <1>7 DEF IndexerInv

\* IndexedStays: a step that leaves the chain alone and undoes no row or sync keeps
\* what is indexed.
LEMMA IndexedStays ==
  ASSUME UNCHANGED chain, \A l \in Log : Done(l) => Done(l)',
         NEW b \in Int, IndexedUpTo(b)
  PROVE  \A l \in Mined' : blockOf'[l] \in StartBlock..b => Done(l)'
BY DEF IndexedUpTo, Mined, chain

\* OthersStay: such a step keeps the scan of a process whose locals it leaves alone,
\* when it keeps the row that scan syncs.
LEMMA OthersStay ==
  ASSUME TypeOK, NEW m \in Node, ScanIsCovered(m),
         UNCHANGED chain, \A l \in Log : Done(l) => Done(l)',
         \A l \in Log : stored[l] # 0 => stored'[l] = stored[l],
         pc'[m] = pc[m], from'[m] = from[m], to'[m] = to[m], end'[m] = end[m],
         logs'[m] = logs[m], current'[m] = current[m]
  PROVE  ScanIsCovered(m)'
<1>0. /\ from[m] \in Nat /\ logs[m] \subseteq Log \X Nat
      /\ pc[m] = "sync" => current[m] \in logs[m]
  BY DEF TypeOK, ScanType
<1>1. pc'[m] # "idle" => IndexedUpTo(from[m] - 1)'
  BY <1>0, IndexedStays DEF ScanIsCovered, IndexedUpTo
<1>2. indexableHead' = indexableHead /\ blockOf' = blockOf /\ Mined' = Mined
  BY DEF indexableHead, chain, Mined
<1>3. pc'[m] = "sync" => stored'[current'[m][1]] = current'[m][2]
  <2> SUFFICES ASSUME pc[m] = "sync" PROVE stored'[current[m][1]] = current[m][2]
    OBVIOUS
  <2>1. current[m] \in logs[m] /\ current[m][1] \in Log
    BY <1>0
  <2>2. stored[current[m][1]] = current[m][2] /\ current[m][2] > 0
    BY <2>1 DEF ScanIsCovered
  <2>3. stored[current[m][1]] # 0
    BY <2>2
  <2> QED
    BY <2>1, <2>2, <2>3
<1>4. \A l \in Mined : Done(l) => Done(l)'
  BY DEF Mined
<1> QED
  BY <1>1, <1>2, <1>3, <1>4, ZenonT(40) DEF ScanIsCovered

\* ReadInv: the steps of a scan that write no table keep the invariant.
LEMMA ReadInv ==
  ASSUME TypeOK, IndexerInv, NEW n \in Node,
         LoadCursor(n) \/ GetBlockNumber(n) \/ Fetch(n) \/ Shrink(n)
  PROVE  IndexerInv'
<1>0. ScanType /\ ChainType /\ TablesType /\ size \in [Node -> 1..MaxBlockRange]
  BY DEF TypeOK
<1>1. UNCHANGED <<chain, tables>>
  BY DEF LoadCursor, GetBlockNumber, Fetch, Shrink
<1>2. head' = head /\ blockOf' = blockOf /\ stored' = stored /\ synced' = synced /\ cursor' = cursor
  BY <1>1 DEF chain, tables
<1>3. NoGap' /\ RowsAreCanonical' /\ RowsAreFinal'
  BY <1>2 DEF IndexerInv, NoGap, IndexedUpTo, Mined, Done, RowsAreCanonical, RowsAreFinal, indexableHead
<1>4. /\ indexableHead' = indexableHead /\ indexableHead \in Int /\ Mined' = Mined
      /\ \A l \in Log : Done(l)' <=> Done(l)
  BY <1>0, <1>2, IndexerAssumption DEF ChainType, indexableHead, Mined, Done
<1>5. ASSUME NEW m \in Node, m # n PROVE ScanIsCovered(m)'
  <2>1. /\ pc'[m] = pc[m] /\ from'[m] = from[m] /\ to'[m] = to[m] /\ end'[m] = end[m]
        /\ logs'[m] = logs[m] /\ current'[m] = current[m]
    BY <1>0, <1>5 DEF ScanType, LoadCursor, GetBlockNumber, Fetch, Shrink
  <2> QED
    BY <1>1, <1>2, <1>4, <2>1, OthersStay DEF IndexerInv
<1>6. ScanIsCovered(n)
  BY DEF IndexerInv
<1>7. CASE LoadCursor(n)
  <2>1. pc'[n] = "head" /\ from'[n] = firstBlock
    BY <1>0, <1>7 DEF ScanType, LoadCursor
  <2>2. firstBlock <= StartBlock \/ firstBlock <= indexableHead
    BY <1>0, <1>4, IndexerAssumption DEF IndexerInv, RowsAreFinal, firstBlock, TablesType
  <2>3. IndexedUpTo(firstBlock - 1)
    BY <1>0, IndexerAssumption
    DEF IndexerInv, NoGap, IndexedUpTo, firstBlock, TablesType, ChainType, Mined
  <2>4. IndexedUpTo(from[n] - 1)'
    BY <1>2, <1>4, <2>1, <2>3 DEF IndexedUpTo, Mined
  <2>5. ScanIsCovered(n)'
    BY <1>4, <2>1, <2>2, <2>4 DEF ScanIsCovered
  <2> QED
    BY <1>3, <1>5, <2>5 DEF IndexerInv
<1>8. CASE GetBlockNumber(n)
  <2>1. /\ pc[n] = "head" /\ pc'[n] = "fetch" /\ from'[n] = from[n]
        /\ to'[n] = indexableHead /\ from[n] <= indexableHead
    BY <1>0, <1>8 DEF ScanType, GetBlockNumber
  <2>2. IndexedUpTo(from[n] - 1)'
    BY <1>2, <1>4, <1>6, <2>1 DEF ScanIsCovered, IndexedUpTo, Mined
  <2>3. ScanIsCovered(n)'
    BY <1>4, <2>1, <2>2 DEF ScanIsCovered
  <2> QED
    BY <1>3, <1>5, <2>3 DEF IndexerInv
<1>9. CASE Fetch(n)
  <2>1. /\ pc[n] = "fetch" /\ pc'[n] = "handle" /\ from'[n] = from[n] /\ to'[n] = to[n]
        /\ end'[n] = windowEnd(n)
        /\ logs'[n] = {<<l, blockOf[l]>> : l \in {m \in Mined : blockOf[m] \in from[n]..windowEnd(n)}}
    BY <1>0, <1>9 DEF ScanType, Fetch
  <2>2. to[n] <= indexableHead /\ from[n] <= to[n] /\ from[n] \in Nat /\ to[n] \in Int
    BY <1>0, <1>6, <2>1 DEF ScanIsCovered, ScanType
  <2>3. windowEnd(n) \in from[n]..to[n]
    BY <1>0, <2>2, IndexerAssumption DEF windowEnd
  <2>4. IndexedUpTo(from[n] - 1)'
    BY <1>2, <1>4, <1>6, <2>1 DEF ScanIsCovered, IndexedUpTo, Mined
  <2>5. \A x \in logs'[n] : x[2] > 0 /\ x[2] <= to'[n] /\ blockOf'[x[1]] = x[2]
    BY <1>0, <1>2, <2>1, <2>2, <2>3 DEF Mined, ChainType
  <2>6. \A l \in Mined' : blockOf'[l] \in from'[n]..end'[n] => <<l, blockOf'[l]>> \in logs'[n]
    BY <1>2, <1>4, <2>1
  <2>7. ScanIsCovered(n)'
    BY <1>4, <2>1, <2>2, <2>3, <2>4, <2>5, <2>6, ZenonT(40) DEF ScanIsCovered
  <2> QED
    BY <1>3, <1>5, <2>7 DEF IndexerInv
<1>10. CASE Shrink(n)
  <2>1. /\ pc'[n] = pc[n] /\ from'[n] = from[n] /\ to'[n] = to[n] /\ end'[n] = end[n]
        /\ logs'[n] = logs[n] /\ current'[n] = current[n]
    BY <1>10 DEF Shrink
  <2>2. ScanIsCovered(n)'
    BY <1>1, <1>2, <1>4, <1>6, <2>1, OthersStay
  <2> QED
    BY <1>3, <1>5, <2>2 DEF IndexerInv
<1> QED
  BY <1>7, <1>8, <1>9, <1>10

\* HandleInv: writing a row, whether new or already there, keeps the invariant.
LEMMA HandleInv ==
  ASSUME TypeOK, IndexerInv, NEW n \in Node, HandleTransferEvent(n)
  PROVE  IndexerInv'
<1>0. ScanType /\ ChainType /\ TablesType /\ ScanIsCovered(n)
  BY DEF TypeOK, IndexerInv
<1>1. UNCHANGED chain /\ head' = head /\ blockOf' = blockOf /\ synced' = synced /\ cursor' = cursor
  BY DEF HandleTransferEvent, chain
<1>2. PICK x \in logs[n] : /\ stored' = [stored EXCEPT ![x[1]] = IF @ = 0 THEN x[2] ELSE @]
                           /\ current' = [current EXCEPT ![n] = x]
  BY DEF HandleTransferEvent
<1>3. x \in Log \X Nat /\ x[1] \in Log /\ x[2] \in Nat
  BY <1>0 DEF ScanType
<1>4. /\ pc[n] = "handle" /\ pc'[n] = "sync" /\ current'[n] = x /\ logs'[n] = logs[n]
      /\ from'[n] = from[n] /\ end'[n] = end[n] /\ to'[n] = to[n]
  BY <1>0, <1>2 DEF ScanType, HandleTransferEvent
<1>5. x[2] > 0 /\ x[2] <= to[n] /\ blockOf[x[1]] = x[2] /\ to[n] <= indexableHead
  BY <1>0, <1>4 DEF ScanIsCovered
<1>6. stored'[x[1]] = x[2]
  BY <1>0, <1>2, <1>3, <1>5 DEF IndexerInv, RowsAreCanonical, TablesType
<1>7. \A l \in Log : (stored[l] # 0 \/ l # x[1]) => stored'[l] = stored[l]
  BY <1>0, <1>2, <1>3 DEF TablesType
<1>8. \A l \in Log : Done(l) => Done(l)'
  BY <1>1, <1>3, <1>5, <1>6, <1>7 DEF Done
<1>9. /\ indexableHead' = indexableHead /\ indexableHead \in Int /\ Mined' = Mined
  BY <1>0, <1>1, IndexerAssumption DEF ChainType, indexableHead, Mined
<1>10. NoGap'
  BY <1>0, <1>1, <1>8, IndexedStays DEF IndexerInv, NoGap, IndexedUpTo, TablesType
<1>11. RowsAreCanonical'
  BY <1>1, <1>3, <1>5, <1>6, <1>7 DEF IndexerInv, RowsAreCanonical
<1>12. RowsAreFinal'
  <2>1. x[2] <= indexableHead
    BY <1>0, <1>3, <1>5, <1>9 DEF ScanType
  <2> QED
    BY <1>1, <1>3, <1>6, <1>7, <1>9, <2>1 DEF IndexerInv, RowsAreFinal
<1>13. ASSUME NEW m \in Node, m # n PROVE ScanIsCovered(m)'
  <2>1. /\ pc'[m] = pc[m] /\ from'[m] = from[m] /\ to'[m] = to[m] /\ end'[m] = end[m]
        /\ logs'[m] = logs[m] /\ current'[m] = current[m]
    BY <1>0, <1>2, <1>13 DEF ScanType, HandleTransferEvent
  <2> QED
    BY <1>1, <1>7, <1>8, <2>1, OthersStay DEF IndexerInv
<1>14. ScanIsCovered(n)'
  <2>1. from[n] \in Nat /\ IndexedUpTo(from[n] - 1)
    BY <1>0, <1>4 DEF ScanType, ScanIsCovered
  <2>2. IndexedUpTo(from[n] - 1)'
    BY <1>1, <1>4, <1>8, <2>1, IndexedStays DEF IndexedUpTo
  <2>3. \A l \in Mined : Done(l) => Done(l)'
    BY <1>8 DEF Mined
  <2> QED
    BY <1>0, <1>1, <1>4, <1>6, <1>9, <2>2, <2>3 DEF ScanIsCovered
<1> QED
  BY <1>10, <1>11, <1>12, <1>13, <1>14 DEF IndexerInv

\* SyncInv: the balance syncs of the log whose row was written complete it.
LEMMA SyncInv ==
  ASSUME TypeOK, IndexerInv, NEW n \in Node, SyncWalletBalance(n)
  PROVE  IndexerInv'
<1>0. ScanType /\ ChainType /\ TablesType /\ ScanIsCovered(n)
  BY DEF TypeOK, IndexerInv
<1>1. UNCHANGED chain /\ head' = head /\ blockOf' = blockOf /\ stored' = stored /\ cursor' = cursor
  BY DEF SyncWalletBalance, chain
<1>2. synced' = synced \cup {current[n][1]}
  BY DEF SyncWalletBalance
<1>3. /\ pc[n] = "sync" /\ pc'[n] = "handle"
      /\ logs'[n] = logs[n] \ {current[n]}
      /\ from'[n] = from[n] /\ end'[n] = end[n] /\ to'[n] = to[n]
  BY <1>0 DEF ScanType, SyncWalletBalance
<1>4. \A l \in Log : Done(l) => Done(l)'
  BY <1>1, <1>2 DEF Done
<1>5. /\ indexableHead' = indexableHead /\ Mined' = Mined
  BY <1>1 DEF indexableHead, Mined
<1>6. NoGap'
  BY <1>0, <1>1, <1>4, IndexedStays DEF IndexerInv, NoGap, IndexedUpTo, TablesType
<1>7. RowsAreCanonical' /\ RowsAreFinal'
  BY <1>1, <1>5 DEF IndexerInv, RowsAreCanonical, RowsAreFinal
<1>8. ASSUME NEW m \in Node, m # n PROVE ScanIsCovered(m)'
  <2>1. /\ pc'[m] = pc[m] /\ from'[m] = from[m] /\ to'[m] = to[m] /\ end'[m] = end[m]
        /\ logs'[m] = logs[m] /\ current'[m] = current[m]
    BY <1>0, <1>8 DEF ScanType, SyncWalletBalance
  <2> QED
    BY <1>1, <1>4, <2>1, OthersStay DEF IndexerInv
<1>9. ScanIsCovered(n)'
  <2>1. from[n] \in Nat /\ IndexedUpTo(from[n] - 1)
    BY <1>0, <1>3 DEF ScanType, ScanIsCovered
  <2>2. IndexedUpTo(from[n] - 1)'
    BY <1>1, <1>3, <1>4, <2>1, IndexedStays DEF IndexedUpTo
  <2>3. ASSUME NEW l \in Mined, blockOf[l] \in from[n]..end[n]
        PROVE  Done(l)' \/ <<l, blockOf[l]>> \in logs'[n]
    <3>1. l \in Log
      BY DEF Mined
    <3>2. Done(l) \/ <<l, blockOf[l]>> \in logs[n]
      BY <1>0, <1>3, <2>3 DEF ScanIsCovered
    <3>3. CASE <<l, blockOf[l]>> = current[n]
      <4>1. current[n][1] = l /\ current[n][2] = blockOf[l]
        BY <3>3
      <4>2. stored[l] = blockOf[l]
        BY <1>0, <1>3, <4>1 DEF ScanIsCovered
      <4> QED
        BY <1>1, <1>2, <4>1, <4>2 DEF Done
    <3> QED
      BY <1>3, <1>4, <3>1, <3>2, <3>3
  <2> QED
    BY <1>0, <1>1, <1>3, <1>5, <2>2, <2>3 DEF ScanIsCovered
<1> QED
  BY <1>6, <1>7, <1>8, <1>9 DEF IndexerInv

\* WindowDone: when nothing of the window is left, everything up to its end is indexed.
LEMMA WindowDone ==
  ASSUME TypeOK, NEW n \in Node, ScanIsCovered(n), pc[n] = "handle", logs[n] = {}
  PROVE  IndexedUpTo(end[n]) /\ end[n] <= to[n] /\ to[n] <= indexableHead
<1>1. /\ ChainType /\ from[n] \in Nat /\ end[n] \in Nat /\ to[n] \in Int
  BY DEF TypeOK, ScanType
<1>2. /\ IndexedUpTo(from[n] - 1) /\ end[n] \in from[n]..to[n] /\ to[n] <= indexableHead
      /\ \A l \in Mined : blockOf[l] \in from[n]..end[n] => Done(l)
  BY DEF ScanIsCovered
<1>3. ASSUME NEW l \in Mined, blockOf[l] \in StartBlock..end[n] PROVE Done(l)
  <2>1. blockOf[l] \in Nat
    BY <1>1 DEF ChainType, Mined
  <2>2. CASE blockOf[l] >= from[n]
    BY <1>1, <1>2, <1>3, <2>1, <2>2, IndexerAssumption
  <2>3. CASE blockOf[l] < from[n]
    BY <1>1, <1>2, <1>3, <2>1, <2>3, IndexerAssumption DEF IndexedUpTo
  <2> QED
    BY <1>1, <2>1, <2>2, <2>3
<1> QED
  BY <1>1, <1>2, <1>3 DEF IndexedUpTo

\* LeaveInv: steps that end a scan, or leave all scans alone, and write no row keep
\* the invariant when the cursor they leave behind has no gap.
LEMMA LeaveInv ==
  ASSUME TypeOK, IndexerInv, UNCHANGED <<chain, stored, synced>>,
         cursor' \in Nat, IndexedUpTo(cursor'), cursor' # 0 => cursor' <= indexableHead,
         NEW n \in Node, Return(n)
  PROVE  IndexerInv'
<1>0. ScanType
  BY DEF TypeOK
<1>1. head' = head /\ blockOf' = blockOf /\ stored' = stored /\ synced' = synced
  BY DEF chain
<1>2. /\ indexableHead' = indexableHead /\ Mined' = Mined /\ \A l \in Log : Done(l) => Done(l)'
  BY <1>1 DEF indexableHead, Mined, Done
<1>3. NoGap' /\ RowsAreCanonical' /\ RowsAreFinal'
  BY <1>1, <1>2 DEF IndexerInv, NoGap, IndexedUpTo, Mined, Done, RowsAreCanonical, RowsAreFinal
<1>4. ASSUME NEW m \in Node, m # n PROVE ScanIsCovered(m)'
  <2>1. /\ pc'[m] = pc[m] /\ from'[m] = from[m] /\ to'[m] = to[m] /\ end'[m] = end[m]
        /\ logs'[m] = logs[m] /\ current'[m] = current[m]
    BY <1>0, <1>4 DEF ScanType, Return
  <2> QED
    BY <1>1, <1>2, <2>1, OthersStay DEF IndexerInv
<1>5. ScanIsCovered(n)'
  <2>1. pc'[n] = "idle"
    BY <1>0 DEF ScanType, Return
  <2> QED
    BY <2>1 DEF ScanIsCovered
<1> QED
  BY <1>3, <1>4, <1>5 DEF IndexerInv

\* MarkInv: the cursor moves to the end of a window that is wholly indexed.
LEMMA MarkInv ==
  ASSUME TypeOK, IndexerInv, NEW n \in Node, MarkSuccess(n)
  PROVE  IndexerInv'
<1>0. ScanType /\ ChainType /\ ScanIsCovered(n)
  BY DEF TypeOK, IndexerInv
<1>1. /\ UNCHANGED chain /\ head' = head /\ blockOf' = blockOf /\ stored' = stored
      /\ synced' = synced /\ cursor' = end[n]
  BY DEF MarkSuccess, chain
<1>2. /\ pc[n] = "handle" /\ logs[n] = {} /\ end[n] < to[n]
      /\ pc'[n] = "fetch" /\ from'[n] = end[n] + 1 /\ to'[n] = to[n]
  BY <1>0 DEF ScanType, MarkSuccess, anotherWindow
<1>3. IndexedUpTo(end[n]) /\ end[n] <= to[n] /\ to[n] <= indexableHead
  BY <1>0, <1>2, WindowDone
<1>4. /\ indexableHead' = indexableHead /\ indexableHead \in Int /\ Mined' = Mined
      /\ \A l \in Log : Done(l) => Done(l)'
  BY <1>0, <1>1, IndexerAssumption DEF ChainType, indexableHead, Mined, Done
<1>5. end[n] \in Nat /\ to[n] \in Int
  BY <1>0 DEF ScanType
<1>6. NoGap' /\ RowsAreCanonical' /\ RowsAreFinal'
  BY <1>1, <1>3, <1>4, <1>5
  DEF IndexerInv, NoGap, IndexedUpTo, Mined, Done, RowsAreCanonical, RowsAreFinal
<1>7. ASSUME NEW m \in Node, m # n PROVE ScanIsCovered(m)'
  <2>1. /\ pc'[m] = pc[m] /\ from'[m] = from[m] /\ to'[m] = to[m] /\ end'[m] = end[m]
        /\ logs'[m] = logs[m] /\ current'[m] = current[m]
    BY <1>0, <1>7 DEF ScanType, MarkSuccess
  <2> QED
    BY <1>1, <1>4, <2>1, OthersStay DEF IndexerInv
<1>8. ScanIsCovered(n)'
  <2>1. from'[n] - 1 = end[n]
    BY <1>2, <1>5
  <2>2. IndexedUpTo(from[n] - 1)'
    BY <1>1, <1>3, <1>4, <2>1 DEF IndexedUpTo, Mined
  <2>3. from'[n] <= to'[n]
    BY <1>2, <1>5
  <2> QED
    BY <1>2, <1>3, <1>4, <2>2, <2>3 DEF ScanIsCovered
<1> QED
  BY <1>6, <1>7, <1>8 DEF IndexerInv

\* EndInv: ending a cycle, with a last window, without new blocks, by an error or by a
\* restart, keeps the invariant.
LEMMA EndInv ==
  ASSUME TypeOK, IndexerInv, NEW n \in Node,
         MarkLastSuccess(n) \/ NoNewBlocks(n) \/ Throws(n) \/ Restart(n)
  PROVE  IndexerInv'
<1>0. /\ ScanType /\ ChainType /\ TablesType /\ ScanIsCovered(n)
      /\ end[n] \in Nat /\ to[n] \in Int /\ indexableHead \in Int
  BY IndexerAssumption DEF TypeOK, IndexerInv, ScanType, ChainType, indexableHead
<1>1. CASE MarkLastSuccess(n)
  <2>1. /\ UNCHANGED <<chain, stored, synced>> /\ cursor' = end[n] /\ Return(n)
        /\ pc[n] = "handle" /\ logs[n] = {}
    BY <1>1 DEF MarkLastSuccess
  <2>2. IndexedUpTo(end[n]) /\ end[n] <= indexableHead
    BY <1>0, <2>1, WindowDone
  <2> QED
    BY <1>0, <2>1, <2>2, LeaveInv
<1>2. CASE NoNewBlocks(n) \/ Throws(n) \/ Restart(n)
  <2>1. UNCHANGED <<chain, stored, synced>> /\ cursor' = cursor /\ Return(n)
    BY <1>2 DEF NoNewBlocks, Throws, Restart, tables
  <2>2. cursor \in Nat /\ IndexedUpTo(cursor) /\ (cursor # 0 => cursor <= indexableHead)
    BY <1>0 DEF TablesType, IndexerInv, NoGap, RowsAreFinal
  <2> QED
    BY <2>1, <2>2, LeaveInv
<1> QED
  BY <1>1, <1>2

\* IndexerInvStep: every step of the chain and of a process keeps the invariant.
LEMMA IndexerInvStep == TypeOK /\ IndexerInv /\ [Next]_vars => IndexerInv'
<1> SUFFICES ASSUME TypeOK, IndexerInv, [Next]_vars PROVE IndexerInv'
  OBVIOUS
<1>1. ASSUME Mine \/ \E k \in 1..ReorgDepth : Reorg(k) PROVE IndexerInv'
  BY <1>1, ChainInv
<1>2. ASSUME NEW n \in Node, ProcessTokenEvents(n) PROVE IndexerInv'
  BY <1>2, ReadInv, HandleInv, SyncInv, MarkInv, EndInv DEF ProcessTokenEvents
<1>3. ASSUME NEW n \in Node, Throws(n) \/ Restart(n) PROVE IndexerInv'
  BY <1>3, EndInv
<1>4. CASE UNCHANGED vars
  BY <1>4
  DEF vars, chain, tables, scan, IndexerInv, NoGap, IndexedUpTo, Mined, Done, RowsAreCanonical,
      RowsAreFinal, ScanIsCovered, indexableHead
<1> QED
  BY <1>1, <1>2, <1>3, <1>4 DEF Next

-----------------------------------------------------------------------------
\* IndexerInvariant: in every behaviour of the listener processes and the chain the
\* types and the inductive invariant hold.
THEOREM IndexerInvariant == Spec => [](TypeOK /\ IndexerInv)
<1>1. Init => TypeOK /\ IndexerInv
  BY IndexerTypeInit, IndexerInit
<1>2. (TypeOK /\ IndexerInv) /\ [Next]_vars => (TypeOK /\ IndexerInv)'
  BY IndexerTypeStep, IndexerInvStep
<1> QED
  BY <1>1, <1>2, PTL DEF Spec

\* NoGapBehindCursor: every log between the start block and the cursor has its row
\* and its balance syncs, for any number of processes, crashes and failed cycles.
THEOREM NoGapBehindCursor == Spec => []NoGap
<1>1. IndexerInv => NoGap
  BY DEF IndexerInv
<1> QED
  BY IndexerInvariant, <1>1, PTL

\* NoOrphanedRow: no TokenTransfer row is of a block that a reorganisation removed,
\* when confirmations are at least as many as a reorganisation is deep.
THEOREM NoOrphanedRow == Spec => []RowsAreCanonical
<1>1. IndexerInv => RowsAreCanonical
  BY DEF IndexerInv
<1> QED
  BY IndexerInvariant, <1>1, PTL
=============================================================================

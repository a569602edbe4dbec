---------------------------- MODULE EventIndexer ----------------------------
(***************************************************************************)
(* The event listener of one EVM token: processTokenEvents and             *)
(* scanLogWindows in every worker process, the token's cursor, the         *)
(* TokenTransfer rows and balance syncs of handleTransferEvent, and the    *)
(* chain they read.  Nothing keeps two processes apart: processingTokens   *)
(* is local to each, and markSuccess overwrites the cursor.                *)
(***************************************************************************)
EXTENDS Integers, FiniteSets

CONSTANTS Node,           \* worker processes
          Log,            \* Transfer logs, by (transactionHash, logIndex)
          StartBlock,     \* EVM_INDEX_START_BLOCK
          Confirmations,  \* EVM_INDEX_CONFIRMATIONS
          MaxBlockRange,  \* EVM_LOGS_MAX_BLOCK_RANGE
          MaxWindows,     \* EVM_INDEX_MAX_WINDOWS_PER_RUN
          RpcLimit,       \* widest range the provider answers
          ReorgDepth,     \* deepest reorganisation of the chain
          MaxBlock,       \* bound: height of the chain
          MaxFailures     \* bound: crashes and errors in a behaviour

ASSUME IndexerAssumption ==
  /\ StartBlock \in Nat /\ Confirmations \in Nat /\ ReorgDepth \in Nat
  /\ MaxBlock \in Nat /\ MaxFailures \in Nat
  /\ MaxBlockRange \in Nat \ {0} /\ MaxWindows \in Nat \ {0} /\ RpcLimit \in Nat \ {0}
  /\ ReorgDepth <= Confirmations

VARIABLES
  head,      \* current block number
  blockOf,   \* block of each log, 0 when it is in none (genesis has no logs)
  stored,    \* blockNumber of its TokenTransfer row, 0 when there is none
  synced,    \* logs whose balance syncs were made
  cursor,    \* lastProcessedBlock
  pc,        \* where processTokenEvents is: idle, head, fetch, handle, sync
  from,      \* first block of the window
  end,       \* last block of the window
  to,        \* indexableHead of the scan
  windows,   \* windows done in the scan
  logs,      \* <<log, block>> pairs of the window still to handle
  current,   \* the pair whose balances are synced next
  size,      \* learnedMaxBlockRange ?? config.maxBlockRange
  failures   \* counts towards MaxFailures

chain == <<head, blockOf>>
tables == <<stored, synced, cursor>>
scan == <<pc, from, end, to, windows, logs, current, size>>
vars == <<chain, tables, scan, failures>>

Mined == {l \in Log : blockOf[l] > 0}

Init ==
  /\ head \in 0..MaxBlock
  /\ blockOf \in [Log -> 0..head]
  /\ stored = [l \in Log |-> 0]
  /\ synced = {}
  /\ cursor = 0
  /\ pc = [n \in Node |-> "idle"]
  /\ from = [n \in Node |-> 0]
  /\ end = [n \in Node |-> 0]
  /\ to = [n \in Node |-> 0]
  /\ windows = [n \in Node |-> 0]
  /\ logs = [n \in Node |-> {}]
  /\ current = [n \in Node |-> <<>>]
  /\ size = [n \in Node |-> MaxBlockRange]
  /\ failures = 0

-----------------------------------------------------------------------------
\* The chain grows by a block with some of the pending logs.
Mine ==
  /\ head < MaxBlock
  /\ head' = head + 1
  /\ \E new \in SUBSET (Log \ Mined) :
       blockOf' = [l \in Log |-> IF l \in new THEN head + 1 ELSE blockOf[l]]
  /\ UNCHANGED <<tables, scan, failures>>

\* The last k blocks give way to k + 1 others; their logs return in those or in none.
Reorg(k) ==
  /\ head < MaxBlock
  /\ k <= head
  /\ head' = head + 1
  /\ blockOf' \in [Log -> 0..(head + 1)]
  /\ \A l \in Log :
       IF blockOf[l] > head - k
       THEN blockOf'[l] = 0 \/ blockOf'[l] > head - k
       ELSE blockOf'[l] = blockOf[l]
  /\ UNCHANGED <<tables, scan, failures>>

-----------------------------------------------------------------------------
firstBlock == IF cursor = 0 THEN StartBlock ELSE cursor - 1

\* Mutant: the head itself is indexed.
unconfirmedHead == head

indexableHead == head - Confirmations

\* getOrCreate.
LoadCursor(n) ==
  /\ pc[n] = "idle"
  /\ pc' = [pc EXCEPT ![n] = "head"]
  /\ from' = [from EXCEPT ![n] = firstBlock]
  /\ UNCHANGED <<chain, tables, end, to, windows, logs, current, size, failures>>

\* processTokenEvents is left, and its locals with it.
Return(n) ==
  /\ pc' = [pc EXCEPT ![n] = "idle"]
  /\ from' = [from EXCEPT ![n] = 0]
  /\ end' = [end EXCEPT ![n] = 0]
  /\ to' = [to EXCEPT ![n] = 0]
  /\ windows' = [windows EXCEPT ![n] = 0]
  /\ logs' = [logs EXCEPT ![n] = {}]
  /\ current' = [current EXCEPT ![n] = <<>>]

\* getBlockNumber: there is something to scan.
GetBlockNumber(n) ==
  /\ pc[n] = "head"
  /\ from[n] <= indexableHead
  /\ pc' = [pc EXCEPT ![n] = "fetch"]
  /\ to' = [to EXCEPT ![n] = indexableHead]
  /\ UNCHANGED <<chain, tables, from, end, windows, logs, current, size, failures>>

\* getBlockNumber: no new blocks to process.
NoNewBlocks(n) ==
  /\ pc[n] = "head"
  /\ from[n] > indexableHead
  /\ Return(n)
  /\ UNCHANGED <<chain, tables, size, failures>>

\* Last block of the next window.
windowEnd(n) == IF from[n] + size[n] - 1 < to[n] THEN from[n] + size[n] - 1 ELSE to[n]

Accepted(n) == windowEnd(n) - from[n] < RpcLimit

\* getLogs answers.
Fetch(n) ==
  /\ pc[n] = "fetch"
  /\ Accepted(n)
  /\ pc' = [pc EXCEPT ![n] = "handle"]
  /\ end' = [end EXCEPT ![n] = windowEnd(n)]
  /\ logs' = [logs EXCEPT ![n] =
                {<<l, blockOf[l]>> : l \in {m \in Mined : blockOf[m] \in from[n]..windowEnd(n)}}]
  /\ UNCHANGED <<chain, tables, from, to, windows, current, size, failures>>

\* Mutant: the range is asked for again as it is.
notHalved(s) == s

halved(s) == s \div 2

\* getLogs rejects the range: onShrink, and the same start block again.
Shrink(n) ==
  /\ pc[n] = "fetch"
  /\ ~Accepted(n)
  /\ size[n] > 1
  /\ size' = [size EXCEPT ![n] = halved(@)]
  /\ UNCHANGED <<chain, tables, pc, from, end, to, windows, logs, current, failures>>

\* Mutant: a log that has its row is taken for done.
HandleTransferOnce(n) ==
  /\ pc[n] = "handle"
  /\ \E x \in logs[n] :
       \/ /\ stored[x[1]] = 0
          /\ stored' = [stored EXCEPT ![x[1]] = x[2]]
          /\ current' = [current EXCEPT ![n] = x]
          /\ pc' = [pc EXCEPT ![n] = "sync"]
          /\ UNCHANGED logs
       \/ /\ stored[x[1]] # 0
          /\ logs' = [logs EXCEPT ![n] = @ \ {x}]
          /\ UNCHANGED <<stored, current, pc>>
  /\ UNCHANGED <<chain, synced, cursor, from, end, to, windows, size, failures>>

\* handleTransferEvent, first half: the row is created unless it is there.  getLogs
\* returns the logs by block.
HandleTransferEvent(n) ==
  /\ pc[n] = "handle"
  /\ \E x \in logs[n] :
       /\ \A y \in logs[n] : x[2] <= y[2]
       /\ stored' = [stored EXCEPT ![x[1]] = IF @ = 0 THEN x[2] ELSE @]
       /\ current' = [current EXCEPT ![n] = x]
  /\ pc' = [pc EXCEPT ![n] = "sync"]
  /\ UNCHANGED <<chain, synced, cursor, from, end, to, windows, logs, size, failures>>

\* Second half: the balances of both wallets, whether the row was new or not.
SyncWalletBalance(n) ==
  /\ pc[n] = "sync"
  /\ synced' = synced \cup {current[n][1]}
  /\ logs' = [logs EXCEPT ![n] = @ \ {current[n]}]
  /\ current' = [current EXCEPT ![n] = <<>>]
  /\ pc' = [pc EXCEPT ![n] = "handle"]
  /\ UNCHANGED <<chain, stored, cursor, from, end, to, windows, size, failures>>

anotherWindow(n) == end[n] < to[n] /\ windows[n] + 1 < MaxWindows

\* The window is done: markSuccess, then the next window.
MarkSuccess(n) ==
  /\ pc[n] = "handle"
  /\ logs[n] = {}
  /\ anotherWindow(n)
  /\ cursor' = end[n]
  /\ from' = [from EXCEPT ![n] = end[n] + 1]
  /\ windows' = [windows EXCEPT ![n] = @ + 1]
  /\ pc' = [pc EXCEPT ![n] = "fetch"]
  /\ UNCHANGED <<chain, stored, synced, end, to, logs, current, size, failures>>

\* The same with the last window of the cycle.
MarkLastSuccess(n) ==
  /\ pc[n] = "handle"
  /\ logs[n] = {}
  /\ ~anotherWindow(n)
  /\ cursor' = end[n]
  /\ Return(n)
  /\ UNCHANGED <<chain, stored, synced, size, failures>>

\* An error at any await: caught, counted on the cursor row, and left to the next cycle.
Throws(n) ==
  /\ pc[n] # "idle"
  /\ failures < MaxFailures
  /\ failures' = failures + 1
  /\ Return(n)
  /\ UNCHANGED <<chain, tables, size>>

\* The process dies or is stopped, and starts again: the learned range is forgotten.
Restart(n) ==
  /\ failures < MaxFailures
  /\ failures' = failures + 1
  /\ Return(n)
  /\ size' = [size EXCEPT ![n] = MaxBlockRange]
  /\ UNCHANGED <<chain, tables>>

ProcessTokenEvents(n) ==
  \/ LoadCursor(n) \/ GetBlockNumber(n) \/ NoNewBlocks(n)
  \/ Fetch(n) \/ Shrink(n) \/ HandleTransferEvent(n) \/ SyncWalletBalance(n)
  \/ MarkSuccess(n) \/ MarkLastSuccess(n)

Next ==
  \/ Mine
  \/ \E k \in 1..ReorgDepth : Reorg(k)
  \/ \E n \in Node : ProcessTokenEvents(n) \/ Throws(n) \/ Restart(n)

Spec == Init /\ [][Next]_vars

\* The worker loop comes back after every cycle, failed or not.
FairSpec == Spec /\ \A n \in Node : WF_vars(ProcessTokenEvents(n))

-----------------------------------------------------------------------------
ChainType == head \in Nat /\ blockOf \in [Log -> 0..head]

TablesType == stored \in [Log -> Nat] /\ synced \subseteq Log /\ cursor \in Nat

ScanType ==
  /\ pc \in [Node -> {"idle", "head", "fetch", "handle", "sync"}]
  /\ from \in [Node -> Nat]
  /\ end \in [Node -> Nat]
  /\ to \in [Node -> Int]
  /\ windows \in [Node -> 0..(MaxWindows - 1)]
  /\ logs \in [Node -> SUBSET (Log \X Nat)]
  /\ current \in [Node -> (Log \X Nat) \cup {<<>>}]
  /\ \A n \in Node : pc[n] = "sync" => current[n] \in logs[n]

TypeOK ==
  /\ ChainType
  /\ TablesType
  /\ ScanType
  /\ size \in [Node -> 1..MaxBlockRange]
  /\ failures \in 0..MaxFailures

\* The log was indexed with the block that holds it.
Done(l) == stored[l] = blockOf[l] /\ l \in synced

\* Every log from the start block up to b was indexed.
IndexedUpTo(b) == \A l \in Mined : blockOf[l] \in StartBlock..b => Done(l)

\* NoGap: what the cursor passed is indexed: each log between the start block and the
\* cursor has its row and its balance syncs, whatever crashed, threw, was reorganised,
\* or overlapped in two processes (markSuccess only follows a whole window).
NoGap == IndexedUpTo(cursor)

\* RowsAreCanonical: a TokenTransfer row names the block that holds its log: with
\* enough confirmations no reorganisation leaves a row of an orphaned block behind.
RowsAreCanonical == \A l \in Log : stored[l] # 0 => stored[l] = blockOf[l]

\* ScanIsCovered: a scan starts where everything before it is indexed, stays below the
\* confirmed head, and still holds what its window has not indexed.
ScanIsCovered(n) ==
  /\ pc[n] # "idle" => IndexedUpTo(from[n] - 1)
  /\ pc[n] = "head" => from[n] <= StartBlock \/ from[n] <= indexableHead
  /\ pc[n] \in {"fetch", "handle", "sync"} => to[n] <= indexableHead /\ from[n] <= to[n]
  /\ pc[n] \in {"handle", "sync"} =>
       /\ end[n] \in from[n]..to[n]
       /\ \A x \in logs[n] : x[2] > 0 /\ x[2] <= to[n] /\ blockOf[x[1]] = x[2]
       /\ \A l \in Mined : blockOf[l] \in from[n]..end[n] =>
            Done(l) \/ <<l, blockOf[l]>> \in logs[n]
  /\ pc[n] = "sync" => stored[current[n][1]] = current[n][2]

\* RowsAreFinal: rows and the cursor are at confirmed blocks.
RowsAreFinal ==
  /\ \A l \in Log : stored[l] # 0 => stored[l] <= indexableHead
  /\ cursor # 0 => cursor <= indexableHead

\* IndexerInv: the inductive invariant of the listener: no gap, canonical rows, and
\* what every scan in progress relies on.
IndexerInv ==
  NoGap /\ RowsAreCanonical /\ RowsAreFinal /\ \A n \in Node : ScanIsCovered(n)

\* Indexed: a log that is confirmed is indexed in the end, although cycles fail and
\* stop after maxWindows (needs windows that reach beyond the one-block overlap).
Indexed ==
  \A l \in Log : blockOf[l] \in (StartBlock..indexableHead) \ {0} ~> Done(l)
=============================================================================

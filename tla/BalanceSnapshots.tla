-------------------------- MODULE BalanceSnapshots --------------------------
(***************************************************************************)
(* The balance snapshots of one EVM token: the upsert that the event       *)
(* listener of every worker process makes for both wallets of a transfer,  *)
(* and the drift sweep that compares the rows with the chain.  The scan is *)
(* EventIndexer's, cut to what the balances see: the chain ends at the     *)
(* confirmed head, which no reorganisation reaches, a cycle is one window, *)
(* and a log is the wallets it moves tokens of.  A balance is the set of   *)
(* blocks that changed it, so that no two balances look alike.             *)
(***************************************************************************)
EXTENDS Integers, Sequences, FiniteSets

CONSTANTS Node,          \* worker processes
          Wallet,        \* numbers, in the order of the BalanceSnapshot ids
          PageSize,      \* rows per page of the drift sweep
          Quiet,         \* how many blocks without transfers may follow one with
          MaxTransfers,  \* bound: transfers on the chain, by wallet
          MaxFailures,   \* bound: errors and crashes
          Scopes         \* bound: which workers and wallets take part in a behaviour

ASSUME SnapshotAssumption ==
  /\ Wallet \subseteq Nat \ {0}
  /\ PageSize \in Nat \ {0}
  /\ Quiet \subseteq Nat
  /\ Scopes \subseteq [nodes : SUBSET Node, wallets : SUBSET Wallet]
  /\ MaxTransfers \in Nat /\ MaxFailures \in Nat

VARIABLES
  chain,     \* chain[b]: the wallets with a transfer in block b
  wallet,    \* "none", or registered "early" or "late": after its first transfer
  snapshot,  \* the wallet's BalanceSnapshot row; block 0: there is none
  cursor,    \* lastProcessedBlock
  pc,        \* where processTokenEvents is: idle, fetch, update, create
  from,      \* first block of its window
  to,        \* last block of its window
  work,      \* <<block, wallet>> pairs of the window still to sync
  current,   \* the pair whose row is being created
  sweepAt,   \* where sweep() is: idle, frontier, check, fetch, publish
  afterId,   \* id of the last row of the page before
  page,      \* rows of the page still to check
  lastPage,  \* page.length < pageSize
  frontier,  \* the cached cursor of the token; 0 is null
  tally,     \* summary of the sweep: rows checked, rows that drifted
  seen,      \* the rows it checked, and the drifted ones among them
  missing,   \* rows that were there when it started and are not checked
  gauge,     \* balanceReconciliationSnapshots of drift, up to 1
  failures,  \* counts towards MaxFailures
  scope      \* one of Scopes

scan == <<pc, from, to, work, current>>
locals == <<sweepAt, afterId, page, lastPage, frontier, tally, seen, missing>>
vars == <<chain, wallet, snapshot, cursor, scan, locals, gauge, failures, scope>>

Unread == -1
head == Len(chain)
emptyCounts == [checked |-> 0, drift |-> 0]
noRows == [checked |-> {}, drift |-> {}]

Init ==
  /\ chain = <<>>
  /\ wallet = [w \in Wallet |-> "none"]
  /\ snapshot = [w \in Wallet |-> [block |-> 0, balance |-> {}]]
  /\ cursor = 0
  /\ pc = [n \in Node |-> "idle"]
  /\ from = [n \in Node |-> 0]
  /\ to = [n \in Node |-> 0]
  /\ work = [n \in Node |-> {}]
  /\ current = [n \in Node |-> <<>>]
  /\ sweepAt = "idle" /\ afterId = 0 /\ page = {} /\ lastPage = FALSE
  /\ frontier = Unread /\ tally = emptyCounts /\ seen = noRows /\ missing = {}
  /\ gauge = 0
  /\ failures = 0
  /\ scope \in Scopes

-----------------------------------------------------------------------------
(* The chain and the wallets                                               *)

\* balanceOf at a block.
BalanceAt(w, b) == {c \in 1..b : w \in chain[c]}

Transfers == UNION {{b} \X chain[b] : b \in 1..head}

\* A block with transfers of the wallets in S, and k without any.
Mine(S, k) ==
  /\ S \subseteq scope.wallets
  /\ Cardinality(Transfers) + Cardinality(S) <= MaxTransfers
  /\ chain' = chain \o <<S>> \o [b \in 1..k |-> {}]
  /\ UNCHANGED <<wallet, snapshot, cursor, scan, locals, gauge, failures, scope>>

RegisterWallet(w) ==
  /\ w \in scope.wallets
  /\ wallet[w] = "none"
  /\ wallet' = [wallet EXCEPT ![w] = IF BalanceAt(w, head) = {} THEN "early" ELSE "late"]
  /\ UNCHANGED <<chain, snapshot, cursor, scan, locals, gauge, failures, scope>>

-----------------------------------------------------------------------------
(* The listener                                                            *)

\* getOrCreate: the block of the cursor and the one before are scanned again.
LoadCursor(n) ==
  /\ n \in scope.nodes
  /\ pc[n] = "idle"
  /\ pc' = [pc EXCEPT ![n] = "fetch"]
  /\ from' = [from EXCEPT ![n] = IF cursor > 1 THEN cursor - 1 ELSE 1]
  /\ UNCHANGED <<chain, wallet, snapshot, cursor, to, work, current, locals, gauge, failures, scope>>

\* processTokenEvents is left, and its locals with it.
Return(n) ==
  /\ pc' = [pc EXCEPT ![n] = "idle"]
  /\ from' = [from EXCEPT ![n] = 0]
  /\ to' = [to EXCEPT ![n] = 0]
  /\ work' = [work EXCEPT ![n] = {}]
  /\ current' = [current EXCEPT ![n] = <<>>]

\* Mutant: the cursor moves when the logs were fetched.
FetchAndMark(n) ==
  /\ pc[n] = "fetch"
  /\ from[n] <= head
  /\ pc' = [pc EXCEPT ![n] = "update"]
  /\ to' = [to EXCEPT ![n] = head]
  /\ work' = [work EXCEPT ![n] = {x \in Transfers : x[1] >= from[n]}]
  /\ cursor' = head
  /\ UNCHANGED <<chain, wallet, snapshot, from, current, locals, gauge, failures, scope>>

\* getBlockNumber and getLogs.
Fetch(n) ==
  /\ pc[n] = "fetch"
  /\ from[n] <= head
  /\ pc' = [pc EXCEPT ![n] = "update"]
  /\ to' = [to EXCEPT ![n] = head]
  /\ work' = [work EXCEPT ![n] = {x \in Transfers : x[1] >= from[n]}]
  /\ UNCHANGED <<chain, wallet, snapshot, cursor, from, current, locals, gauge, failures, scope>>

NoNewBlocks(n) ==
  /\ pc[n] = "fetch"
  /\ from[n] > head
  /\ Return(n)
  /\ UNCHANGED <<chain, wallet, snapshot, cursor, locals, gauge, failures, scope>>

HasRow(w) == snapshot[w].block > 0

\* The next balance to sync: logs come by block.
isNext(n, x) == x \in work[n] /\ \A y \in work[n] : x[1] <= y[1]

\* What BalanceSyncService read for the wallet, at the block of the log.
observed(x) == [block |-> x[1], balance |-> BalanceAt(x[2], x[1])]

\* Mutant: an older block replaces the row too.
isOlderOrNot(x) == HasRow(x[2])

isOlder(x) == HasRow(x[2]) /\ snapshot[x[2]].block < x[1]

\* syncWalletBalance returned for one wallet: the other, or the next log.
Synced(n, x) ==
  /\ pc' = [pc EXCEPT ![n] = "update"]
  /\ work' = [work EXCEPT ![n] = @ \ {x}]
  /\ current' = [current EXCEPT ![n] = <<>>]
  /\ UNCHANGED <<chain, wallet, cursor, from, to, locals, gauge, failures, scope>>

\* findByAddress: a wallet nobody registered has no balance to sync.
SkipWallet(n, x) ==
  /\ pc[n] = "update"
  /\ isNext(n, x)
  /\ wallet[x[2]] = "none"
  /\ Synced(n, x)
  /\ UNCHANGED snapshot

\* findByAddress, then updateMany WHERE blockNumber < the new one.
UpdateMany(n, x) ==
  /\ pc[n] = "update"
  /\ isNext(n, x)
  /\ wallet[x[2]] # "none"
  /\ isOlder(x)
  /\ snapshot' = [snapshot EXCEPT ![x[2]] = observed(x)]
  /\ Synced(n, x)

\* updateMany found nothing to update.
UpdateNone(n, x) ==
  /\ pc[n] = "update"
  /\ isNext(n, x)
  /\ wallet[x[2]] # "none"
  /\ ~isOlder(x)
  /\ pc' = [pc EXCEPT ![n] = "create"]
  /\ current' = [current EXCEPT ![n] = x]
  /\ UNCHANGED <<chain, wallet, snapshot, cursor, from, to, work, locals, gauge, failures, scope>>

\* create; a row that is there by now is read again and left as it is.
CreateSnapshot(n) ==
  /\ pc[n] = "create"
  /\ snapshot' = IF HasRow(current[n][2]) THEN snapshot
                 ELSE [snapshot EXCEPT ![current[n][2]] = observed(current[n])]
  /\ Synced(n, current[n])

\* The window is done: markSuccess.
MarkSuccess(n) ==
  /\ pc[n] = "update"
  /\ work[n] = {}
  /\ cursor' = to[n]
  /\ Return(n)
  /\ UNCHANGED <<chain, wallet, snapshot, locals, gauge, failures, scope>>

\* An error at any await, or the process dies and starts again.
ListenerFails(n) ==
  /\ pc[n] # "idle"
  /\ failures < MaxFailures
  /\ failures' = failures + 1
  /\ Return(n)
  /\ UNCHANGED <<chain, wallet, snapshot, cursor, locals, gauge, scope>>

Listener(n) ==
  \/ LoadCursor(n) \/ Fetch(n) \/ NoNewBlocks(n) \/ CreateSnapshot(n) \/ MarkSuccess(n)
  \/ \E x \in work[n] : SkipWallet(n, x) \/ UpdateMany(n, x) \/ UpdateNone(n, x)

-----------------------------------------------------------------------------
(* The drift sweep                                                         *)

tables == <<chain, wallet, snapshot, cursor, scan>>

\* sweep() is left, and its locals with it.
EndSweep ==
  /\ sweepAt' = "idle" /\ afterId' = 0 /\ page' = {} /\ lastPage' = FALSE
  /\ frontier' = Unread /\ tally' = emptyCounts /\ seen' = noRows /\ missing' = {}

\* The first PageSize members of S, by id.
FirstRows(S) == {w \in S : Cardinality({v \in S : v < w}) < PageSize}

\* Mutant: pages by offset, counting the rows that were seen.
findPageByOffset ==
  LET all == {w \in Wallet : HasRow(w)}
  IN  FirstRows({w \in all : Cardinality({v \in all : v < w}) >= tally.checked})

\* Pages by key: the rows after the last one seen.
findPageForReconciliation == FirstRows({w \in Wallet : HasRow(w) /\ w > afterId})

\* A page is fetched; the cursor is cached from the second page on.
FetchPage ==
  /\ page' = findPageForReconciliation
  /\ lastPage' = (Cardinality(page') < PageSize)
  /\ sweepAt' = IF page' = {} THEN "publish"
                ELSE IF frontier = Unread THEN "frontier" ELSE "check"
  /\ UNCHANGED <<tables, afterId, frontier, tally, seen, gauge, failures, scope>>

\* The sweep starts with the first page.
StartSweep ==
  /\ sweepAt = "idle"
  /\ missing' = {w \in Wallet : HasRow(w)}
  /\ FetchPage

NextPage == sweepAt = "fetch" /\ FetchPage /\ UNCHANGED missing

\* The cursor is read once in a sweep, before the first row is compared.
ResolveFrontier ==
  /\ sweepAt = "frontier"
  /\ frontier' = cursor
  /\ sweepAt' = "check"
  /\ UNCHANGED <<tables, afterId, page, lastPage, tally, seen, missing, gauge, failures, scope>>

\* The row is read, then the chain at the frontier.
reconcile(w) ==
  IF ~HasRow(w) THEN "MISMATCH"
  ELSE IF frontier < snapshot[w].block THEN "STALE_OBSERVATION"
  ELSE IF snapshot[w].balance = BalanceAt(w, frontier) THEN "MATCH" ELSE "MISMATCH"

\* Without a frontier the row stays unverified.
checkOne(w) == frontier # 0 /\ reconcile(w) = "MISMATCH"

Tally(w, drift) ==
  /\ tally' = [checked |-> tally.checked + 1,
               drift |-> IF drift THEN tally.drift + 1 ELSE tally.drift]
  /\ seen' = [checked |-> seen.checked \cup {w},
              drift |-> IF drift THEN seen.drift \cup {w} ELSE seen.drift]
  /\ missing' = missing \ {w}
  /\ page' = page \ {w}
  /\ afterId' = IF w > afterId THEN w ELSE afterId
  /\ sweepAt' = IF page' # {} THEN "check" ELSE IF lastPage THEN "publish" ELSE "fetch"
  /\ UNCHANGED <<tables, lastPage, frontier, gauge, scope>>

\* The rows of a page are checked in any order.
CheckOne(w) ==
  /\ sweepAt = "check"
  /\ w \in page
  /\ Tally(w, checkOne(w))
  /\ UNCHANGED failures

\* A read that failed is not taken for drift.
CheckFails(w) ==
  /\ sweepAt = "check"
  /\ w \in page
  /\ failures < MaxFailures
  /\ failures' = failures + 1
  /\ Tally(w, FALSE)

\* Mutant: only the series the sweep has something for.
PublishSome ==
  /\ sweepAt = "publish"
  /\ gauge' = IF tally.drift > 0 THEN 1 ELSE gauge
  /\ EndSweep
  /\ UNCHANGED <<tables, failures, scope>>

\* Every process exports its own gauge; `gauge` is the series the alerts read, which
\* monitoring/recording-rules.yml takes from the instance with the latest sweep.
Publish ==
  /\ sweepAt = "publish"
  /\ gauge' = IF tally.drift > 0 THEN 1 ELSE 0
  /\ EndSweep
  /\ UNCHANGED <<tables, failures, scope>>

\* A page or a cursor that cannot be read ends the sweep without publishing.
SweepThrows ==
  /\ sweepAt \in {"fetch", "frontier"}
  /\ failures < MaxFailures
  /\ failures' = failures + 1
  /\ EndSweep
  /\ UNCHANGED <<tables, gauge, scope>>

Sweep ==
  StartSweep \/ NextPage \/ ResolveFrontier \/ Publish \/ \E w \in page : CheckOne(w)

-----------------------------------------------------------------------------
Next ==
  \/ \E S \in SUBSET Wallet \ {{}}, k \in Quiet : Mine(S, k)
  \/ \E w \in Wallet : RegisterWallet(w)
  \/ \E n \in Node : Listener(n) \/ ListenerFails(n)
  \/ Sweep \/ SweepThrows
  \/ \E w \in page : CheckFails(w)

Spec == Init /\ [][Next]_vars

\* Every worker's listener loop comes back, and some worker sweeps in every interval.
FairSpec == Spec /\ WF_vars(Sweep) /\ \A n \in Node : WF_vars(Listener(n))

-----------------------------------------------------------------------------
ChainType ==
  /\ chain \in Seq(SUBSET Wallet)
  /\ wallet \in [Wallet -> {"none", "early", "late"}]
  /\ snapshot \in [Wallet -> [block : Nat, balance : SUBSET Nat]]
  /\ cursor \in 0..head
  /\ failures \in 0..MaxFailures
  /\ scope \in Scopes

ScanType ==
  /\ pc \in [Node -> {"idle", "fetch", "update", "create"}]
  /\ from \in [Node -> 0..(head + 1)]
  /\ to \in [Node -> 0..head]
  /\ work \in [Node -> SUBSET ((1..head) \X Wallet)]
  /\ current \in [Node -> ((1..head) \X Wallet) \cup {<<>>}]
  /\ \A n \in Node : pc[n] = "create" => current[n] \in work[n]

SweepType ==
  /\ sweepAt \in {"idle", "frontier", "check", "fetch", "publish"}
  /\ page \subseteq Wallet /\ missing \subseteq Wallet
  /\ frontier \in Unread..head /\ afterId \in Nat /\ lastPage \in BOOLEAN
  /\ tally \in [checked : Nat, drift : Nat] /\ gauge \in {0, 1}
  /\ seen \in [checked : SUBSET Wallet, drift : SUBSET Wallet]

TypeOK == ChainType /\ ScanType /\ SweepType

Projection == INSTANCE MonotoneProjection WITH
  Key <- Wallet,
  projection <- snapshot,
  ledger <- [w \in Wallet |-> [b \in Nat |-> BalanceAt(w, b)]]

\* ProjectionSpec: a balance snapshot is a monotonic projection of chain state: whatever
\* two listeners replay, race or abandon, a row only moves to a later block, and shows
\* what the chain holds at that block.
ProjectionSpec == Projection!Spec

\* NoFalseDrift: the sweep reports no drift for a wallet that was registered before its
\* first transfer: a row that is behind the cursor, or ahead of it, is never taken for
\* drift (the cursor is read before the rows, and moves only after the balances).
NoFalseDrift == \A w \in seen.drift : wallet[w] = "late"

\* Every transfer of the wallet up to block b is in the row, or a later one is.
Covered(w, b) == \A c \in 1..b : w \in chain[c] => snapshot[w].block >= c

\* A row belongs to a registered wallet, and shows the chain at a block that moved it.
RowShows(w) ==
  HasRow(w) =>
    /\ snapshot[w].block <= head
    /\ wallet[w] # "none"
    /\ w \in chain[snapshot[w].block]
    /\ snapshot[w].balance = BalanceAt(w, snapshot[w].block)

\* What a scan relies on, and still has to do, for a wallet registered early.
ScanCovers(n, w) ==
  /\ pc[n] = "fetch" => Covered(w, from[n] - 1)
  /\ pc[n] \in {"update", "create"} =>
       \A c \in 1..to[n] : w \in chain[c] => snapshot[w].block >= c \/ <<c, w>> \in work[n]

\* A listener about to create a row: the row is there and as new, or the transfer is the
\* first of its wallet, so that losing the race loses nothing.
CreatesFirst(n) ==
  LET b == current[n][1]
      w == current[n][2]
  IN  pc[n] = "create" =>
        /\ wallet[w] # "none"
        /\ wallet[w] = "early" =>
             snapshot[w].block >= b \/ \A c \in 1..head : w \in chain[c] => c >= b

\* The scan of one worker: its work is what the chain holds in its window.
ScanInv(n) ==
  /\ CreatesFirst(n)
  /\ \A x \in work[n] : x[1] <= to[n] /\ x[2] \in chain[x[1]]
  /\ \A w \in Wallet : wallet[w] = "early" => ScanCovers(n, w)

\* SnapshotInv: the inductive invariant of the snapshots: rows show the chain, and what
\* the cursor, the sweep's frontier and every scan passed is in the rows of the wallets
\* that were registered in time.
SnapshotInv ==
  /\ \A w \in Wallet : RowShows(w)
  /\ \A n \in Node : ScanInv(n)
  /\ \A w \in Wallet : wallet[w] = "early" => Covered(w, cursor) /\ Covered(w, frontier)
  /\ \A w \in page : HasRow(w)
  /\ NoFalseDrift

\* WholeSweep: what is published covers every row that was there when the sweep began,
\* each of them once, although listeners insert rows before and behind the page.
WholeSweep ==
  sweepAt = "publish" =>
    missing = {} /\ tally.checked = Cardinality(seen.checked)

\* Why: a row that was there and is not checked is on the page or behind it, on no last
\* page behind it; and no page brings a checked row again.
RowAhead(w) ==
  /\ HasRow(w)
  /\ w \in page \/ (~lastPage /\ w > afterId /\ \A v \in page : w > v)
PagesByKey ==
  /\ \A w \in missing : RowAhead(w)
  /\ \A w \in seen.checked : w <= afterId /\ w \notin page
  /\ IsFiniteSet(seen.checked) /\ tally.checked = Cardinality(seen.checked)
  /\ sweepAt \in {"idle", "fetch", "publish"} => page = {}
  /\ sweepAt = "publish" => lastPage
  /\ sweepAt = "idle" => afterId = 0 /\ missing = {} /\ seen = noRows

\* The row differs from the chain at the cursor.
Drifted(w) ==
  HasRow(w) /\ snapshot[w].block <= cursor /\ snapshot[w].balance # BalanceAt(w, cursor)

\* SnapshotsSettle: once the chain is quiet, the snapshot of every wallet that was
\* registered before its first transfer holds what the chain holds; and the published
\* series tells whether any row drifted: a drift that stays is reported, one that was
\* repaired drops back to 0 instead of lingering.
SnapshotsSettle ==
  <>[] /\ \A w \in Wallet : wallet[w] = "early" => snapshot[w].balance = BalanceAt(w, head)
       /\ gauge = 1 <=> \E w \in Wallet : Drifted(w)
=============================================================================

----------------------- MODULE BalanceSnapshotsProofs -----------------------
(***************************************************************************)
(* Proofs about BalanceSnapshots for every set of workers and wallets and  *)
(* every bound: the rows implement MonotoneProjection, and the sweep       *)
(* reports no false drift and leaves out no row.                           *)
(***************************************************************************)
EXTENDS BalanceSnapshots, FiniteSetTheorems, WellFoundedInduction, TLAPS

sweepVars == <<locals, gauge>>

\* ConcatKeeps: appending a sequence keeps the elements of the first.
LEMMA ConcatKeeps ==
  ASSUME NEW T, NEW a \in Seq(T), NEW b \in Seq(T)
  PROVE  /\ a \o b \in Seq(T) /\ Len(a \o b) = Len(a) + Len(b)
         /\ \A c \in 1..Len(a) : (a \o b)[c] = a[c]
OBVIOUS

\* ChainGrows: a mined block leaves every earlier block as it is.
LEMMA ChainGrows ==
  ASSUME ChainType, NEW S \in SUBSET Wallet, NEW k \in Quiet, Mine(S, k)
  PROVE  /\ chain' \in Seq(SUBSET Wallet)
         /\ head \in Nat /\ head' \in Nat /\ head' >= head
         /\ \A c \in 1..head : chain'[c] = chain[c]
<1> DEFINE grown == chain \o <<S>>
           quiet == [b \in 1..k |-> {}]
<1>1. k \in Nat /\ chain \in Seq(SUBSET Wallet) /\ Len(chain) \in Nat
  BY SnapshotAssumption DEF ChainType
<1>2. quiet \in Seq(SUBSET Wallet) /\ Len(quiet) = k
  BY <1>1
<1>3. <<S>> \in Seq(SUBSET Wallet) /\ Len(<<S>>) = 1
  OBVIOUS
<1>4. /\ grown \in Seq(SUBSET Wallet) /\ Len(grown) = Len(chain) + 1
      /\ \A c \in 1..Len(chain) : grown[c] = chain[c]
  BY <1>1, <1>3, ConcatKeeps
<1>5. chain' = grown \o quiet
  BY DEF Mine
<1> HIDE DEF grown, quiet
<1>6. /\ chain' \in Seq(SUBSET Wallet) /\ Len(chain') = Len(grown) + k
      /\ \A c \in 1..Len(grown) : chain'[c] = grown[c]
  BY <1>2, <1>4, <1>5, ConcatKeeps
<1> QED
  BY <1>1, <1>4, <1>6 DEF head

\* A step of the listener leaves the sweep alone, and the other way round.
LEMMA ListenerFrame ==
  ASSUME NEW n \in Node, Listener(n) \/ ListenerFails(n)
  PROVE  UNCHANGED <<chain, wallet, locals, gauge, scope>>
BY DEF Listener, ListenerFails, LoadCursor, Fetch, NoNewBlocks, CreateSnapshot, MarkSuccess,
       SkipWallet, UpdateMany, UpdateNone, Synced, Return

\* A step of the sweep changes only the sweep, the gauge and the failure count.
LEMMA SweepFrame ==
  ASSUME Sweep \/ SweepThrows \/ \E w \in page : CheckFails(w)
  PROVE  UNCHANGED <<chain, wallet, snapshot, cursor, scan, scope>>
BY DEF Sweep, SweepThrows, CheckFails, CheckOne, StartSweep, NextPage, FetchPage, Publish,
       ResolveFrontier, Tally, tables

-----------------------------------------------------------------------------
(* Types                                                                   *)

\* TransferIsPair: the transfers of the chain are pairs of a block and a wallet.
LEMMA TransferIsPair ==
  ASSUME ChainType
  PROVE  /\ Transfers \subseteq (1..head) \X Wallet
         /\ \A c \in 1..head, w \in Wallet : <<c, w>> \in Transfers <=> w \in chain[c]
<1>1. \A c \in 1..head : chain[c] \subseteq Wallet
  BY DEF ChainType, head
<1> QED
  BY <1>1 DEF Transfers

\* MineType: growing the chain keeps every block number in range.
LEMMA MineType ==
  ASSUME TypeOK, NEW S \in SUBSET Wallet, NEW k \in Quiet, Mine(S, k)
  PROVE  TypeOK'
<1>1. /\ chain' \in Seq(SUBSET Wallet)
      /\ head \in Nat /\ head' \in Nat /\ head' >= head
  BY ChainGrows DEF TypeOK
<1>2. UNCHANGED <<wallet, snapshot, cursor, failures, scope>> /\ UNCHANGED scan /\ UNCHANGED sweepVars
  BY DEF Mine, scan, locals, sweepVars
<1>3. ChainType'
  BY <1>1, <1>2 DEF TypeOK, ChainType
<1>4. (1..head) \subseteq (1..head') /\ (0..head) \subseteq (0..head') /\ (Unread..head) \subseteq (Unread..head')
  BY <1>1 DEF Unread
<1>7. \A i \in 0..(head + 1) : i \in 0..(head' + 1)
  <2>1. \A a, b \in Nat : b >= a => \A i \in 0..(a + 1) : i \in 0..(b + 1)
    OBVIOUS
  <2> QED
    BY <1>1, <2>1
<1>5. ScanType'
  <2>1. UNCHANGED pc /\ UNCHANGED from /\ UNCHANGED to /\ UNCHANGED work /\ UNCHANGED current
    BY <1>2 DEF scan
  <2>3. from \in [Node -> 0..(head' + 1)]
    BY <1>7 DEF TypeOK, ScanType
  <2>2. to \in [Node -> 0..head'] /\ work \in [Node -> SUBSET ((1..head') \X Wallet)]
        /\ current \in [Node -> ((1..head') \X Wallet) \cup {<<>>}]
    BY <1>4 DEF TypeOK, ScanType
  <2> QED
    BY <2>1, <2>2, <2>3 DEF TypeOK, ScanType
<1>6. SweepType'
  BY <1>2, <1>4 DEF TypeOK, SweepType, sweepVars, locals
<1> QED
  BY <1>3, <1>5, <1>6 DEF TypeOK

\* ListenerType: every step of a listener keeps the types.
LEMMA ListenerType ==
  ASSUME TypeOK, NEW n \in Node, Listener(n) \/ ListenerFails(n)
  PROVE  TypeOK'
<1>1. UNCHANGED <<chain, wallet, scope>> /\ UNCHANGED sweepVars /\ head' = head /\ head \in Nat
  BY ListenerFrame DEF sweepVars, head, TypeOK, ChainType
<1>2. SweepType'
  BY <1>1 DEF TypeOK, SweepType, sweepVars, locals
<1>3. ASSUME NEW x \in (1..head) \X Wallet
      PROVE  x[1] \in Nat /\ x[2] \in Wallet /\ observed(x) \in [block : Nat, balance : SUBSET Nat]
  BY <1>3 DEF observed, BalanceAt
<1>4. work[n] \subseteq (1..head) \X Wallet /\ (pc[n] = "create" => current[n] \in work[n])
  BY DEF TypeOK, ScanType
<1>5. ChainType'
  <2>1. CASE LoadCursor(n) \/ Fetch(n) \/ NoNewBlocks(n) \/ MarkSuccess(n) \/ ListenerFails(n)
    BY <1>1, <2>1, SnapshotAssumption
    DEF TypeOK, ChainType, ScanType, LoadCursor, Fetch, NoNewBlocks, MarkSuccess, ListenerFails
  <2>2. CASE CreateSnapshot(n)
    BY <1>1, <1>3, <1>4, <2>2 DEF TypeOK, ChainType, CreateSnapshot, Synced
  <2>3. ASSUME NEW x \in work[n], SkipWallet(n, x) \/ UpdateNone(n, x) PROVE ChainType'
    BY <1>1, <2>3 DEF TypeOK, ChainType, SkipWallet, UpdateNone, Synced
  <2>4. ASSUME NEW x \in work[n], UpdateMany(n, x) PROVE ChainType'
    BY <1>1, <1>3, <1>4, <2>4 DEF TypeOK, ChainType, UpdateMany, Synced
  <2> QED
    BY <2>1, <2>2, <2>3, <2>4 DEF Listener
<1>6. ScanType'
  <2>1. CASE LoadCursor(n)
    BY <1>1, <2>1 DEF TypeOK, ChainType, ScanType, LoadCursor
  <2>2. CASE Fetch(n)
    BY <1>1, <2>2, TransferIsPair DEF TypeOK, ScanType, Fetch
  <2>3. CASE NoNewBlocks(n) \/ MarkSuccess(n) \/ ListenerFails(n)
    <3>1. Return(n)
      BY <2>3 DEF NoNewBlocks, MarkSuccess, ListenerFails
    <3> QED
      BY <1>1, <3>1 DEF TypeOK, ScanType, Return
  <2>4. CASE CreateSnapshot(n)
    BY <1>1, <1>4, <2>4 DEF TypeOK, ScanType, CreateSnapshot, Synced
  <2>5. ASSUME NEW x \in work[n], SkipWallet(n, x) \/ UpdateMany(n, x) PROVE ScanType'
    <3>1. Synced(n, x)
      BY <2>5 DEF SkipWallet, UpdateMany
    <3> QED
      BY <1>1, <3>1 DEF TypeOK, ScanType, Synced
  <2>6. ASSUME NEW x \in work[n], UpdateNone(n, x) PROVE ScanType'
    BY <1>1, <1>4, <2>6 DEF TypeOK, ScanType, UpdateNone
  <2> QED
    BY <2>1, <2>2, <2>3, <2>4, <2>5, <2>6 DEF Listener
<1> QED
  BY <1>2, <1>5, <1>6 DEF TypeOK

\* SweepKeepsType: every step of the sweep keeps the types.
LEMMA SweepKeepsType ==
  ASSUME TypeOK, Sweep \/ SweepThrows \/ \E w \in page : CheckFails(w)
  PROVE  TypeOK'
<1>1. UNCHANGED <<chain, wallet, snapshot, cursor, scope>> /\ UNCHANGED scan /\ head' = head
  BY SweepFrame DEF head
<1>2. failures' \in 0..MaxFailures
  BY SnapshotAssumption
  DEF Sweep, SweepThrows, CheckFails, CheckOne, StartSweep, NextPage, FetchPage, Publish,
      ResolveFrontier, Tally, TypeOK, ChainType
<1>3. ChainType' /\ ScanType'
  BY <1>1, <1>2 DEF TypeOK, ChainType, ScanType, scan
<1>4. findPageForReconciliation \subseteq Wallet
  BY DEF findPageForReconciliation, FirstRows
<1>5. SweepType'
  <2>1. CASE StartSweep \/ NextPage
    <3>1. FetchPage /\ missing' \subseteq Wallet
      BY <2>1 DEF StartSweep, NextPage, TypeOK, SweepType
    <3>2. page' \subseteq Wallet /\ lastPage' \in BOOLEAN
          /\ sweepAt' \in {"publish", "frontier", "check"}
      BY <1>4, <3>1 DEF FetchPage
    <3>3. UNCHANGED <<afterId, frontier, tally, seen, gauge>>
      BY <3>1 DEF FetchPage
    <3> QED
      BY <1>1, <3>1, <3>2, <3>3 DEF TypeOK, SweepType
  <2>2. CASE ResolveFrontier
    BY <1>1, <2>2 DEF TypeOK, ChainType, SweepType, ResolveFrontier, Unread, head
  <2>3. CASE Publish \/ SweepThrows
    <3>1. EndSweep /\ gauge' \in {0, 1}
      BY <2>3 DEF Publish, SweepThrows, TypeOK, SweepType
    <3>2. head \in Nat
      BY DEF TypeOK, ChainType, head
    <3>3. frontier' \in Unread..head' /\ tally' \in [checked : Nat, drift : Nat]
          /\ seen' \in [checked : SUBSET Wallet, drift : SUBSET Wallet]
      BY <1>1, <3>1, <3>2 DEF EndSweep, Unread, emptyCounts, noRows
    <3> QED
      BY <3>1, <3>3 DEF SweepType, EndSweep
  <2>4. ASSUME NEW w \in page, CheckOne(w) \/ CheckFails(w) PROVE SweepType'
    <3>1. w \in Wallet /\ w \in Nat
      BY SnapshotAssumption DEF TypeOK, SweepType
    <3>2. PICK d \in BOOLEAN : Tally(w, d)
      BY <2>4 DEF CheckOne, CheckFails, checkOne
    <3>3. page' \subseteq Wallet /\ missing' \subseteq Wallet /\ afterId' \in Nat
          /\ sweepAt' \in {"check", "publish", "fetch"}
      BY <3>1, <3>2 DEF Tally, TypeOK, SweepType
    <3>4. tally' \in [checked : Nat, drift : Nat]
      BY <3>2 DEF Tally, TypeOK, SweepType
    <3>5. seen' \in [checked : SUBSET Wallet, drift : SUBSET Wallet]
      BY <3>1, <3>2 DEF Tally, TypeOK, SweepType
    <3>6. UNCHANGED <<lastPage, frontier, gauge>>
      BY <3>2 DEF Tally
    <3> QED
      BY <1>1, <3>3, <3>4, <3>5, <3>6 DEF TypeOK, SweepType
  <2> QED
    BY <2>1, <2>2, <2>3, <2>4 DEF Sweep
<1> QED
  BY <1>3, <1>5 DEF TypeOK

\* The chain, the tables, the scans and the sweep keep their types, and no position lies
\* beyond the head.
THEOREM SnapshotTypeCorrect == Spec => []TypeOK
<1>1. Init => TypeOK
  <2> SUFFICES ASSUME Init PROVE TypeOK
    OBVIOUS
  <2>1. head = 0 /\ chain \in Seq(SUBSET Wallet)
    BY DEF Init, head
  <2>2. ChainType /\ ScanType
    BY <2>1, SnapshotAssumption DEF Init, ChainType, ScanType
  <2>3. frontier \in Unread..head /\ tally \in [checked : Nat, drift : Nat]
        /\ seen \in [checked : SUBSET Wallet, drift : SUBSET Wallet]
    BY <2>1 DEF Init, Unread, emptyCounts, noRows
  <2>4. SweepType
    BY <2>3 DEF Init, SweepType
  <2> QED
    BY <2>2, <2>4 DEF TypeOK
<1>2. TypeOK /\ [Next]_vars => TypeOK'
  <2> SUFFICES ASSUME TypeOK, [Next]_vars PROVE TypeOK'
    OBVIOUS
  <2>1. ASSUME NEW S \in SUBSET Wallet \ {{}}, NEW k \in Quiet, Mine(S, k) PROVE TypeOK'
    BY <2>1, MineType
  <2>2. ASSUME NEW w \in Wallet, RegisterWallet(w) PROVE TypeOK'
    BY <2>2 DEF RegisterWallet, TypeOK, ChainType, ScanType, SweepType, scan, locals, head
  <2>3. ASSUME NEW n \in Node, Listener(n) \/ ListenerFails(n) PROVE TypeOK'
    BY <2>3, ListenerType
  <2>4. CASE Sweep \/ SweepThrows \/ \E w \in page : CheckFails(w)
    BY <2>4, SweepKeepsType
  <2>5. CASE UNCHANGED vars
    BY <2>5 DEF vars, TypeOK, ChainType, ScanType, SweepType, scan, locals, head
  <2> QED
    BY <2>1, <2>2, <2>3, <2>4, <2>5 DEF Next
<1> QED
  BY <1>1, <1>2, PTL DEF Spec

-----------------------------------------------------------------------------
(* The invariant                                                           *)

\* What every step but a registration does to the tables: blocks stay, rows only move on.
Grows ==
  /\ UNCHANGED wallet
  /\ head' >= head
  /\ \A c \in 1..head : chain'[c] = chain[c]
  /\ \A w \in Wallet : snapshot'[w].block >= snapshot[w].block

\* BalanceKept: a grown chain shows the same balance at every block it had.
LEMMA BalanceKept ==
  ASSUME NEW h \in Nat, NEW h2 \in Nat, h2 >= h, NEW f, NEW g, \A c \in 1..h : g[c] = f[c],
         NEW w, NEW b \in 0..h
  PROVE  {c \in 1..b : w \in g[c]} = {c \in 1..b : w \in f[c]}
OBVIOUS

\* ScanFrame: a scan that takes no step keeps its invariant while the tables grow.
LEMMA ScanFrame ==
  ASSUME TypeOK, TypeOK', Grows, NEW n \in Node, ScanInv(n),
         pc'[n] = pc[n], from'[n] = from[n], to'[n] = to[n], work'[n] = work[n],
         current'[n] = current[n]
  PROVE  ScanInv(n)'
<1>1. head \in Nat /\ head' \in Nat /\ from[n] \in 0..(head + 1) /\ to[n] \in 0..head
      /\ work[n] \subseteq (1..head) \X Wallet
      /\ (pc[n] = "create" => current[n] \in (1..head) \X Wallet)
  BY DEF TypeOK, ChainType, ScanType, head
<1>2. \A w \in Wallet : snapshot[w].block \in Nat /\ snapshot'[w].block \in Nat
  BY DEF TypeOK, ChainType
<1>3. CreatesFirst(n)'
  <2> SUFFICES ASSUME pc[n] = "create" 
               PROVE  /\ wallet[current[n][2]] # "none"
                      /\ wallet[current[n][2]] = "early" =>
                            \/ snapshot'[current[n][2]].block >= current[n][1]
                            \/ \A c \in 1..head' : current[n][2] \in chain'[c] => c >= current[n][1]
    BY DEF CreatesFirst, Grows
  <2> DEFINE b == current[n][1]
             v == current[n][2]
  <2>1. b \in 1..head /\ v \in Wallet
    BY <1>1
  <2>2. wallet[v] # "none" /\ (wallet[v] = "early" =>
          snapshot[v].block >= b \/ \A c \in 1..head : v \in chain[c] => c >= b)
    BY DEF ScanInv, CreatesFirst
  <2> HIDE DEF b, v
  <2>3. snapshot[v].block >= b => snapshot'[v].block >= b
    BY <1>1, <1>2, <2>1 DEF Grows
  <2>4. (\A c \in 1..head : v \in chain[c] => c >= b) => \A c \in 1..head' : v \in chain'[c] => c >= b
    BY <1>1, <2>1 DEF Grows
  <2>5. wallet[v] # "none" /\ (wallet[v] = "early" =>
          snapshot'[v].block >= b \/ \A c \in 1..head' : v \in chain'[c] => c >= b)
    BY <2>2, <2>3, <2>4
  <2> QED
    BY <2>5 DEF b, v
<1>4. \A x \in work'[n] : x[1] <= to'[n] /\ x[2] \in chain'[x[1]]
  BY <1>1 DEF ScanInv, Grows
<1>5. ASSUME NEW w \in Wallet, wallet'[w] = "early" PROVE ScanCovers(n, w)'
  <2>1. ScanCovers(n, w)
    BY <1>5 DEF ScanInv, Grows
  <2>2. ASSUME pc[n] = "fetch" PROVE Covered(w, from[n] - 1)'
    BY <1>1, <1>2, <2>1, <2>2 DEF ScanCovers, Covered, Grows
  <2>3. ASSUME pc[n] \in {"update", "create"}, NEW c \in 1..to[n], w \in chain'[c]
        PROVE  snapshot'[w].block >= c \/ <<c, w>> \in work[n]
    BY <1>1, <1>2, <2>1, <2>3 DEF ScanCovers, Grows
  <2> QED
    BY <2>2, <2>3 DEF ScanCovers
<1> QED
  BY <1>3, <1>4, <1>5 DEF ScanInv

\* PassedFrame: what is covered stays covered while the tables grow.
LEMMA PassedFrame ==
  ASSUME TypeOK, TypeOK', Grows, NEW w \in Wallet, NEW b \in Int, b <= head, Covered(w, b)
  PROVE  \A c \in 1..b : w \in chain'[c] => snapshot'[w].block >= c
<1>1. snapshot[w].block \in Nat /\ snapshot'[w].block \in Nat /\ head \in Nat
  BY DEF TypeOK, ChainType, head
<1> QED
  BY <1>1 DEF Covered, Grows

\* RowFrame: a row that is not written still shows the chain.
LEMMA RowFrame ==
  ASSUME TypeOK, TypeOK', Grows, NEW w \in Wallet, RowShows(w), snapshot'[w] = snapshot[w]
  PROVE  RowShows(w)'
<1>1. snapshot[w].block \in Nat /\ head \in Nat /\ head' \in Nat
  BY DEF TypeOK, ChainType, head
<1>2. ASSUME HasRow(w) PROVE BalanceAt(w, snapshot[w].block)' = BalanceAt(w, snapshot[w].block)
  BY <1>1, <1>2, BalanceKept DEF RowShows, BalanceAt, Grows
<1> QED
  BY <1>1, <1>2 DEF RowShows, HasRow, Grows

\* ListenerRows: the rows only move on, and show the chain, after a step of one listener.
LEMMA ListenerRows ==
  ASSUME TypeOK, TypeOK', SnapshotInv, NEW n \in Node, Listener(n) \/ ListenerFails(n)
  PROVE  Grows /\ \A w \in Wallet : RowShows(w)'
<1>1. UNCHANGED <<chain, wallet>> /\ head' = head /\ head \in Nat
  BY ListenerFrame DEF head, TypeOK, ChainType
<1>2. \A w \in Wallet : snapshot[w].block \in Nat
  BY DEF TypeOK, ChainType
<1>3. CASE UNCHANGED snapshot
  <2>1. Grows
    BY <1>1, <1>2, <1>3 DEF Grows
  <2> QED
    BY <1>3, <2>1, RowFrame DEF SnapshotInv
<1>4. ASSUME NEW x \in work[n], snapshot' = [snapshot EXCEPT ![x[2]] = observed(x)],
             snapshot[x[2]].block < x[1], wallet[x[2]] # "none"
      PROVE  Grows /\ \A w \in Wallet : RowShows(w)'
  <2>1. x[1] \in 1..head /\ x[2] \in Wallet /\ x[2] \in chain[x[1]]
    BY DEF TypeOK, ScanType, SnapshotInv, ScanInv
  <2>2. snapshot'[x[2]].block = x[1] /\ snapshot'[x[2]].balance = BalanceAt(x[2], x[1])
    BY <1>4, <2>1 DEF TypeOK, ChainType, observed
  <2>3. \A w \in Wallet \ {x[2]} : snapshot'[w] = snapshot[w]
    BY <1>4 DEF TypeOK, ChainType
  <2>4. Grows
    BY <1>1, <1>2, <1>4, <2>1, <2>2, <2>3 DEF Grows
  <2>5. RowShows(x[2])'
    BY <1>1, <1>4, <2>1, <2>2 DEF RowShows, BalanceAt
  <2> QED
    BY <2>3, <2>4, <2>5, RowFrame DEF SnapshotInv
<1>5. CASE CreateSnapshot(n)
  <2>1. current[n] \in work[n] /\ wallet[current[n][2]] # "none"
    BY <1>5 DEF TypeOK, ScanType, CreateSnapshot, SnapshotInv, ScanInv, CreatesFirst
  <2>2. current[n][1] \in 1..head /\ current[n][2] \in Wallet
    BY <2>1 DEF TypeOK, ScanType
  <2>3. CASE HasRow(current[n][2])
    BY <1>3, <1>5, <2>3 DEF CreateSnapshot
  <2>4. CASE ~HasRow(current[n][2])
    <3>1. snapshot[current[n][2]].block < current[n][1]
      BY <1>2, <2>2, <2>4 DEF HasRow
    <3>2. snapshot' = [snapshot EXCEPT ![current[n][2]] = observed(current[n])]
      BY <1>5, <2>4 DEF CreateSnapshot
    <3> QED
      BY <1>4, <2>1, <3>1, <3>2, ZenonT(40)
  <2> QED
    BY <2>3, <2>4
<1>6. ASSUME NEW x \in work[n], UpdateMany(n, x) PROVE Grows /\ \A w \in Wallet : RowShows(w)'
  <2>1. /\ snapshot' = [snapshot EXCEPT ![x[2]] = observed(x)]
        /\ snapshot[x[2]].block < x[1] /\ wallet[x[2]] # "none"
    BY <1>6 DEF UpdateMany, isOlder
  <2> QED
    BY <1>4, <2>1, ZenonT(40)
<1>7. ASSUME NEW x \in work[n], SkipWallet(n, x) \/ UpdateNone(n, x) PROVE UNCHANGED snapshot
  BY <1>7 DEF SkipWallet, UpdateNone
<1>8. CASE LoadCursor(n) \/ Fetch(n) \/ NoNewBlocks(n) \/ MarkSuccess(n) \/ ListenerFails(n)
  BY <1>3, <1>8 DEF LoadCursor, Fetch, NoNewBlocks, MarkSuccess, ListenerFails
<1> QED
  BY <1>3, <1>5, <1>6, <1>7, <1>8 DEF Listener

\* DoneCovers: when the work item x is dropped, the scan still covers its wallets.
LEMMA DoneCovers ==
  ASSUME TypeOK, TypeOK', Grows, NEW n \in Node, ScanInv(n), NEW x \in work[n], Synced(n, x),
         pc[n] \in {"update", "create"},
         wallet[x[2]] = "early" => snapshot'[x[2]].block >= x[1]
  PROVE  ScanInv(n)'
<1>1. pc'[n] = "update" /\ work'[n] = work[n] \ {x} /\ UNCHANGED <<chain, wallet, from, to>>
  BY DEF Synced, TypeOK, ScanType
<1>2. /\ head \in Nat /\ to[n] \in 0..head /\ x \in (1..head) \X Wallet
      /\ \A w \in Wallet : snapshot[w].block \in Nat /\ snapshot'[w].block \in Nat
  <2>1. head \in Nat /\ \A w \in Wallet : snapshot[w].block \in Nat /\ snapshot'[w].block \in Nat
    BY DEF TypeOK, ChainType, head
  <2>2. to[n] \in 0..head /\ x \in (1..head) \X Wallet
    BY DEF TypeOK, ScanType
  <2> QED
    BY <2>1, <2>2
<1>3. ASSUME NEW w \in Wallet, wallet[w] = "early" PROVE ScanCovers(n, w)'
  <2>1. ASSUME NEW c \in 1..to[n], w \in chain[c]
        PROVE  snapshot'[w].block >= c \/ <<c, w>> \in work'[n]
    <3>1. snapshot[w].block >= c \/ <<c, w>> \in work[n]
      BY <1>3, <2>1 DEF ScanInv, ScanCovers
    <3>2. CASE <<c, w>> = x
      BY <1>3, <3>2
    <3>3. CASE <<c, w>> # x
      BY <1>1, <1>2, <3>1, <3>3 DEF Grows
    <3> QED
      BY <3>2, <3>3
  <2> QED
    BY <1>1, <2>1 DEF ScanCovers
<1>4. CreatesFirst(n)'
  BY <1>1 DEF CreatesFirst
<1> QED
  BY <1>1, <1>3, <1>4 DEF ScanInv

\* OwnScan: a step of a listener keeps the invariant of its own scan.
LEMMA OwnScan ==
  ASSUME TypeOK, TypeOK', SnapshotInv, Grows, NEW n \in Node, Listener(n) \/ ListenerFails(n)
  PROVE  ScanInv(n)'
<1>1. UNCHANGED <<chain, wallet>> /\ head' = head /\ head \in Nat
  BY ListenerFrame DEF head, TypeOK, ChainType
<1>2. /\ cursor \in 0..head /\ from[n] \in 0..(head + 1) /\ to[n] \in 0..head
      /\ work[n] \subseteq (1..head) \X Wallet
  BY DEF TypeOK, ChainType, ScanType
<1>3. \A w \in Wallet : snapshot[w].block \in Nat
  BY DEF TypeOK, ChainType
<1>4. ScanInv(n)
  BY DEF SnapshotInv
<1>5. CASE NoNewBlocks(n) \/ MarkSuccess(n) \/ ListenerFails(n)
  <2>1. pc'[n] = "idle" /\ work'[n] = {}
    BY <1>5 DEF NoNewBlocks, MarkSuccess, ListenerFails, Return, TypeOK, ScanType
  <2> QED
    BY <2>1 DEF ScanInv, CreatesFirst, ScanCovers
<1>6. CASE LoadCursor(n)
  <2>1. /\ pc'[n] = "fetch" /\ from'[n] = (IF cursor > 1 THEN cursor - 1 ELSE 1)
        /\ UNCHANGED <<snapshot, to, work>>
    BY <1>6 DEF LoadCursor, TypeOK, ScanType
  <2>2. ASSUME NEW w \in Wallet, wallet[w] = "early" PROVE ScanCovers(n, w)'
    <3>1. Covered(w, cursor)
      BY <2>2 DEF SnapshotInv
    <3>2. (1..(from'[n] - 1)) \subseteq (1..cursor)
      BY <1>2, <2>1
    <3>3. Covered(w, from[n] - 1)'
      BY <1>1, <2>1, <3>1, <3>2 DEF Covered
    <3> QED
      BY <2>1, <3>3 DEF ScanCovers
  <2> QED
    BY <1>1, <1>4, <2>1, <2>2 DEF ScanInv, CreatesFirst
<1>7. CASE Fetch(n)
  <2>1. /\ pc[n] = "fetch" /\ pc'[n] = "update" /\ to'[n] = head /\ UNCHANGED snapshot
        /\ work'[n] = {x \in Transfers : x[1] >= from[n]}
    BY <1>7 DEF Fetch, TypeOK, ScanType
  <2>2. /\ Transfers \subseteq (1..head) \X Wallet
        /\ \A c \in 1..head, w \in Wallet : <<c, w>> \in Transfers <=> w \in chain[c]
    BY TransferIsPair DEF TypeOK
  <2>3. \A x \in work'[n] : x[1] <= to'[n] /\ x[2] \in chain'[x[1]]
    BY <1>1, <2>1, <2>2
  <2>4. ASSUME NEW w \in Wallet, wallet[w] = "early" PROVE ScanCovers(n, w)'
    <3>1. Covered(w, from[n] - 1)
      BY <1>4, <2>1, <2>4 DEF ScanInv, ScanCovers
    <3>2. ASSUME NEW c \in 1..head, w \in chain[c]
          PROVE  snapshot[w].block >= c \/ <<c, w>> \in work'[n]
      <4>1. CASE c >= from[n]
        BY <2>1, <2>2, <3>2, <4>1
      <4>2. CASE c \in 1..(from[n] - 1)
        BY <3>1, <3>2, <4>2 DEF Covered
      <4> QED
        BY <1>2, <4>1, <4>2
    <3> QED
      BY <1>1, <2>1, <3>2 DEF ScanCovers
  <2> QED
    BY <1>1, <2>1, <2>3, <2>4 DEF ScanInv, CreatesFirst
<1>8. ASSUME NEW x \in work[n], SkipWallet(n, x) PROVE ScanInv(n)'
  BY <1>4, <1>8, DoneCovers DEF SkipWallet
<1>9. ASSUME NEW x \in work[n], UpdateMany(n, x) PROVE ScanInv(n)'
  <2>1. snapshot'[x[2]].block = x[1] /\ x[1] \in Nat
    BY <1>2, <1>9 DEF UpdateMany, observed, TypeOK, ChainType
  <2> QED
    BY <1>4, <1>9, <2>1, DoneCovers DEF UpdateMany
<1>10. ASSUME NEW x \in work[n], UpdateNone(n, x) PROVE ScanInv(n)'
  <2>1. /\ pc[n] = "update" /\ pc'[n] = "create" /\ current'[n] = x
        /\ UNCHANGED <<snapshot, work, to, from>> /\ wallet[x[2]] # "none"
    BY <1>10 DEF UpdateNone, TypeOK, ScanType
  <2>2. x[1] \in 1..head /\ x[2] \in Wallet /\ x[1] <= to[n]
    BY <1>2, <1>4 DEF ScanInv
  <2>3. ASSUME wallet[x[2]] = "early"
        PROVE  snapshot[x[2]].block >= x[1] \/ \A c \in 1..head : x[2] \in chain[c] => c >= x[1]
    <3>1. CASE HasRow(x[2])
      BY <1>3, <1>10, <2>2, <3>1 DEF UpdateNone, isOlder
    <3>2. CASE ~HasRow(x[2])
      <4>1. \A c \in 1..to[n] : x[2] \in chain[c] => <<c, x[2]>> \in work[n]
        <5>1. ScanCovers(n, x[2])
          BY <1>4, <2>2, <2>3 DEF ScanInv
        <5>2. \A c \in 1..to[n] : ~(snapshot[x[2]].block >= c)
          BY <1>2, <1>3, <2>2, <3>2 DEF HasRow
        <5> QED
          BY <2>1, <5>1, <5>2 DEF ScanCovers
      <4>2. \A y \in work[n] : x[1] <= y[1]
        BY <1>10 DEF UpdateNone, isNext
      <4>3. ASSUME NEW c \in 1..head, x[2] \in chain[c] PROVE c >= x[1]
        <5>1. CASE c <= to[n]
          <6>1. <<c, x[2]>> \in work[n]
            BY <1>2, <4>1, <4>3, <5>1
          <6>2. x[1] <= <<c, x[2]>>[1]
            BY <4>2, <6>1
          <6> QED
            BY <2>2, <6>2
        <5>2. CASE ~(c <= to[n])
          BY <1>1, <1>2, <2>2, <5>2
        <5> QED
          BY <5>1, <5>2
      <4> QED
        BY <4>3
    <3> QED
      BY <3>1, <3>2
  <2>4. CreatesFirst(n)'
    BY <1>1, <2>1, <2>3 DEF CreatesFirst
  <2>5. \A w \in Wallet : ScanCovers(n, w) => ScanCovers(n, w)'
    BY <1>1, <2>1 DEF ScanCovers
  <2> QED
    BY <1>1, <1>4, <2>1, <2>4, <2>5 DEF ScanInv
<1>11. CASE CreateSnapshot(n)
  <2> DEFINE x == current[n]
  <2>1. pc[n] = "create" /\ x \in work[n] /\ Synced(n, x)
    BY <1>11 DEF CreateSnapshot, TypeOK, ScanType
  <2>2. x[1] \in 1..head /\ x[2] \in Wallet
    BY <1>2, <2>1
  <2>3. CASE ~HasRow(x[2])
    <3>1. snapshot'[x[2]].block = x[1]
      BY <1>11, <2>2, <2>3 DEF CreateSnapshot, observed, TypeOK, ChainType
    <3> HIDE DEF x
    <3>2. snapshot'[x[2]].block >= x[1]
      BY <2>2, <3>1
    <3> QED
      BY <1>4, <2>1, <3>2, DoneCovers
  <2>4. CASE HasRow(x[2])
    <3>1. snapshot' = snapshot
      BY <1>11, <2>4 DEF CreateSnapshot
    <3>2. wallet[x[2]] = "early" =>
            snapshot[x[2]].block >= x[1] \/ \A c \in 1..head : x[2] \in chain[c] => c >= x[1]
      BY <1>4, <2>1 DEF ScanInv, CreatesFirst
    <3> HIDE DEF x
    <3>3. snapshot[x[2]].block \in 1..head /\ x[2] \in chain[snapshot[x[2]].block]
      <4>1. RowShows(x[2])
        BY <2>2 DEF SnapshotInv
      <4>2. snapshot[x[2]].block \in Nat
        BY <1>3, <2>2
      <4> QED
        BY <1>1, <2>4, <4>1, <4>2 DEF RowShows, HasRow
    <3>4. wallet[x[2]] = "early" => snapshot'[x[2]].block >= x[1]
      BY <3>1, <3>2, <3>3
    <3> QED
      BY <1>4, <2>1, <3>4, DoneCovers
  <2> QED
    BY <2>3, <2>4
<1> QED
  BY <1>5, <1>6, <1>7, <1>8, <1>9, <1>10, <1>11 DEF Listener

\* OtherScans: a step of one listener leaves the locals of the others alone.
LEMMA OtherScans ==
  ASSUME TypeOK, NEW n \in Node, Listener(n) \/ ListenerFails(n), NEW m \in Node \ {n}
  PROVE  /\ pc'[m] = pc[m] /\ from'[m] = from[m] /\ to'[m] = to[m] /\ work'[m] = work[m]
         /\ current'[m] = current[m]
<1> DEFINE Stays == /\ pc'[m] = pc[m] /\ from'[m] = from[m] /\ to'[m] = to[m]
                    /\ work'[m] = work[m] /\ current'[m] = current[m]
<1> SUFFICES Stays
  OBVIOUS
<1>1. ASSUME NEW x, Synced(n, x) PROVE Stays
  BY <1>1 DEF Synced, TypeOK, ScanType
<1>2. ASSUME Return(n) PROVE Stays
  BY <1>2 DEF Return, TypeOK, ScanType
<1>3. CASE LoadCursor(n)
  BY <1>3 DEF LoadCursor, TypeOK, ScanType
<1>4. CASE Fetch(n)
  BY <1>4 DEF Fetch, TypeOK, ScanType
<1>5. CASE NoNewBlocks(n)
  BY <1>2, <1>5 DEF NoNewBlocks
<1>6. CASE MarkSuccess(n)
  BY <1>2, <1>6 DEF MarkSuccess
<1>7. CASE ListenerFails(n)
  BY <1>2, <1>7 DEF ListenerFails
<1>8. CASE CreateSnapshot(n)
  BY <1>1, <1>8 DEF CreateSnapshot
<1>9. ASSUME NEW x, SkipWallet(n, x) \/ UpdateMany(n, x) PROVE Stays
  BY <1>1, <1>9 DEF SkipWallet, UpdateMany
<1>10. ASSUME NEW x, UpdateNone(n, x) PROVE Stays
  BY <1>10 DEF UpdateNone, TypeOK, ScanType
<1> HIDE DEF Stays
<1> QED
  BY <1>3, <1>4, <1>5, <1>6, <1>7, <1>8, <1>9, <1>10 DEF Listener

\* CursorMoves: only markSuccess moves the cursor.
LEMMA CursorMoves ==
  ASSUME NEW n \in Node, Listener(n) \/ ListenerFails(n)
  PROVE  cursor' = cursor \/ MarkSuccess(n)
<1>1. ASSUME NEW x, SkipWallet(n, x) \/ UpdateMany(n, x) PROVE cursor' = cursor
  BY <1>1 DEF SkipWallet, UpdateMany, Synced
<1>2. ASSUME NEW x, UpdateNone(n, x) PROVE cursor' = cursor
  BY <1>2 DEF UpdateNone
<1>3. CASE LoadCursor(n) \/ Fetch(n) \/ NoNewBlocks(n)
  BY <1>3 DEF LoadCursor, Fetch, NoNewBlocks
<1>4. CASE CreateSnapshot(n)
  BY <1>4 DEF CreateSnapshot, Synced
<1>5. CASE ListenerFails(n)
  BY <1>5 DEF ListenerFails
<1> QED
  BY <1>1, <1>2, <1>3, <1>4, <1>5 DEF Listener

\* ListenerInv: a step of one listener keeps the invariant.
LEMMA ListenerInv ==
  ASSUME TypeOK, TypeOK', SnapshotInv, NEW n \in Node, Listener(n) \/ ListenerFails(n)
  PROVE  SnapshotInv'
<1>1. Grows /\ \A w \in Wallet : RowShows(w)'
  BY ListenerRows
<1>9. Grows
  BY <1>1
<1>2. UNCHANGED <<chain, wallet, page, seen, frontier>>
  BY ListenerFrame DEF locals
<1>3. /\ head \in Nat /\ cursor \in 0..head /\ frontier \in Unread..head /\ page \subseteq Wallet
      /\ to[n] \in 0..head /\ work[n] \subseteq (1..head) \X Wallet
  <2>1. head \in Nat /\ cursor \in 0..head /\ frontier \in Unread..head /\ page \subseteq Wallet
    BY DEF TypeOK, ChainType, SweepType, head
  <2>2. to[n] \in 0..head /\ work[n] \subseteq (1..head) \X Wallet
    BY DEF TypeOK, ScanType
  <2> QED
    BY <2>1, <2>2
<1>4. ASSUME NEW m \in Node \ {n} PROVE ScanInv(m)'
  <2>1. pc'[m] = pc[m] /\ from'[m] = from[m] /\ to'[m] = to[m] /\ work'[m] = work[m]
        /\ current'[m] = current[m]
    BY OtherScans
  <2>2. ScanInv(m) /\ SnapshotInv
    BY DEF SnapshotInv
  <2> QED
    BY <1>9, <2>1, <2>2, ScanFrame
<1>5. \A m \in Node : ScanInv(m)'
  BY <1>1, <1>4, OwnScan
<1>6. ASSUME NEW w \in Wallet, wallet[w] = "early"
      PROVE  Covered(w, cursor)' /\ Covered(w, frontier)'
  <2>1. Covered(w, cursor) /\ Covered(w, frontier)
    BY <1>6 DEF SnapshotInv
  <2>2. Covered(w, frontier)'
    <3>1. frontier \in Int /\ frontier <= head
      BY <1>3 DEF Unread
    <3>2. \A c \in 1..frontier : w \in chain'[c] => snapshot'[w].block >= c
      BY <1>9, <2>1, <3>1, PassedFrame
    <3> QED
      BY <1>2, <3>2 DEF Covered
  <2>3. CASE cursor' = cursor
    <3>1. cursor \in Int /\ cursor <= head
      BY <1>3
    <3>2. \A c \in 1..cursor : w \in chain'[c] => snapshot'[w].block >= c
      BY <1>9, <2>1, <3>1, PassedFrame
    <3>3. Covered(w, cursor)'
      BY <2>3, <3>2 DEF Covered
    <3> QED
      BY <2>2, <3>3
  <2>4. CASE MarkSuccess(n)
    <3>1. pc[n] = "update" /\ work[n] = {} /\ cursor' = to[n]
      BY <2>4 DEF MarkSuccess
    <3>2. \A c \in 1..to[n] : w \in chain[c] => snapshot[w].block >= c
      BY <1>6, <3>1 DEF SnapshotInv, ScanInv, ScanCovers
    <3>3. Covered(w, to[n])
      BY <3>2 DEF Covered
    <3>4. to[n] \in Int /\ to[n] <= head
      BY <1>3
    <3>5. \A c \in 1..to[n] : w \in chain'[c] => snapshot'[w].block >= c
      BY <1>9, <3>3, <3>4, PassedFrame
    <3>6. Covered(w, cursor)'
      BY <3>1, <3>5 DEF Covered
    <3> QED
      BY <2>2, <3>6
  <2>5. cursor' = cursor \/ MarkSuccess(n)
    BY CursorMoves
  <2> QED
    BY <2>3, <2>4, <2>5
<1>7. \A w \in page' : HasRow(w)'
  <2>1. \A w \in Wallet : snapshot[w].block \in Nat /\ snapshot'[w].block \in Nat
    BY DEF TypeOK, ChainType
  <2>2. ASSUME NEW w \in page PROVE HasRow(w)'
    <3>1. w \in Wallet /\ HasRow(w)
      BY <1>3 DEF SnapshotInv
    <3>2. snapshot'[w].block >= snapshot[w].block
      BY <1>9, <3>1 DEF Grows
    <3> QED
      BY <2>1, <3>1, <3>2 DEF HasRow
  <2> QED
    BY <1>2, <2>2
<1>8. NoFalseDrift'
  BY <1>2 DEF SnapshotInv, NoFalseDrift
<1> QED
  BY <1>1, <1>2, <1>5, <1>6, <1>7, <1>8 DEF SnapshotInv

\* MineInv: a new block is nobody's to cover yet.
LEMMA MineInv ==
  ASSUME TypeOK, TypeOK', SnapshotInv, NEW S \in SUBSET Wallet, NEW k \in Quiet, Mine(S, k)
  PROVE  SnapshotInv'
<1>1. UNCHANGED <<wallet, snapshot, cursor, pc, from, to, work, current, page, seen, frontier>>
  BY DEF Mine, scan, locals
<1>2. Grows
  <2>1. head' >= head /\ \A c \in 1..head : chain'[c] = chain[c]
    BY ChainGrows DEF TypeOK
  <2>2. \A w \in Wallet : snapshot[w].block \in Nat
    BY DEF TypeOK, ChainType
  <2> QED
    BY <1>1, <2>1, <2>2 DEF Grows
<1>3. \A w \in Wallet : RowShows(w)'
  BY <1>1, <1>2, RowFrame DEF SnapshotInv
<1>4. \A n \in Node : ScanInv(n)'
  BY <1>1, <1>2, ScanFrame DEF SnapshotInv
<1>5. ASSUME NEW w \in Wallet, wallet[w] = "early"
      PROVE  Covered(w, cursor)' /\ Covered(w, frontier)'
  <2>1. Covered(w, cursor) /\ Covered(w, frontier)
    BY <1>5 DEF SnapshotInv
  <2>2. cursor \in Int /\ cursor <= head /\ frontier \in Int /\ frontier <= head
    BY DEF TypeOK, ChainType, SweepType, Unread, head
  <2> QED
    BY <1>1, <1>2, <2>1, <2>2, PassedFrame DEF Covered
<1>6. (\A w \in page' : HasRow(w)') /\ NoFalseDrift'
  BY <1>1 DEF SnapshotInv, HasRow, NoFalseDrift
<1> QED
  BY <1>1, <1>3, <1>4, <1>5, <1>6 DEF SnapshotInv

\* RegisterInv: a wallet registered early has no transfer yet, so nothing is missing.
LEMMA RegisterInv ==
  ASSUME TypeOK, SnapshotInv, NEW v \in Wallet, RegisterWallet(v)
  PROVE  SnapshotInv'
<1>1. UNCHANGED <<chain, snapshot, cursor, pc, from, to, work, current, page, seen, frontier>>
  BY DEF RegisterWallet, scan, locals
<1>2. head' = head /\ head \in Nat /\ cursor \in 0..head /\ frontier \in Int /\ frontier <= head
  BY <1>1 DEF head, TypeOK, ChainType, SweepType, Unread
<1>3. /\ wallet[v] = "none" /\ wallet'[v] # "none" /\ \A w \in Wallet \ {v} : wallet'[w] = wallet[w]
      /\ wallet'[v] = "early" => \A c \in 1..head : v \notin chain[c]
  BY DEF RegisterWallet, TypeOK, ChainType, BalanceAt
<1>4. \A w \in Wallet : RowShows(w)'
  BY <1>1, <1>2, <1>3 DEF SnapshotInv, RowShows, HasRow, BalanceAt
<1>5. ASSUME NEW n \in Node PROVE ScanInv(n)'
  <2>1. /\ from[n] \in 0..(head + 1) /\ to[n] \in 0..head /\ work[n] \subseteq (1..head) \X Wallet
        /\ (pc[n] = "create" => current[n] \in work[n])
    BY DEF TypeOK, ScanType
  <2>2. ScanInv(n)
    BY DEF SnapshotInv
  <2>3. ASSUME NEW w \in Wallet, wallet'[w] = "early" PROVE ScanCovers(n, w)'
    <3>1. CASE w = v
      BY <1>1, <1>2, <1>3, <2>1, <2>3, <3>1 DEF ScanCovers, Covered
    <3>2. CASE w # v
      BY <1>1, <1>3, <2>2, <2>3, <3>2 DEF ScanInv, ScanCovers, Covered
    <3> QED
      BY <3>1, <3>2
  <2>4. CreatesFirst(n)'
    <3>1. pc[n] = "create" => current[n][2] \in Wallet /\ current[n][2] # v
      BY <1>3, <2>1, <2>2 DEF ScanInv, CreatesFirst
    <3> QED
      BY <1>1, <1>2, <1>3, <2>2, <3>1 DEF ScanInv, CreatesFirst
  <2> QED
    BY <1>1, <2>2, <2>3, <2>4 DEF ScanInv
<1>6. ASSUME NEW w \in Wallet, wallet'[w] = "early"
      PROVE  Covered(w, cursor)' /\ Covered(w, frontier)'
  <2>1. CASE w = v
    BY <1>1, <1>2, <1>3, <1>6, <2>1 DEF Covered
  <2>2. CASE w # v
    BY <1>1, <1>3, <1>6, <2>2 DEF SnapshotInv, Covered
  <2> QED
    BY <2>1, <2>2
<1>7. NoFalseDrift'
  <2>1. seen.drift \subseteq Wallet
    BY DEF TypeOK, SweepType
  <2> QED
    BY <1>1, <1>3, <2>1 DEF SnapshotInv, NoFalseDrift
<1>8. \A w \in page' : HasRow(w)'
  BY <1>1 DEF SnapshotInv, HasRow
<1> QED
  BY <1>4, <1>5, <1>6, <1>7, <1>8 DEF SnapshotInv

\* CheckDrift: a row in the page that mismatches the chain at the frontier belongs to a
\* wallet that was registered late: the frontier was covered for the others.
LEMMA CheckDrift ==
  ASSUME TypeOK, SnapshotInv, NEW w \in page, checkOne(w)
  PROVE  wallet[w] = "late"
<1>1. w \in Wallet /\ HasRow(w) /\ wallet[w] # "none"
  BY DEF TypeOK, SweepType, SnapshotInv, RowShows
<1>2. snapshot[w].block \in Nat /\ frontier \in Int /\ wallet[w] \in {"none", "early", "late"}
  BY <1>1 DEF TypeOK, ChainType, SweepType, Unread, head
<1>3. ~(frontier < snapshot[w].block) /\ snapshot[w].balance # BalanceAt(w, frontier)
  BY <1>1 DEF checkOne, reconcile
<1>4. snapshot[w].balance = BalanceAt(w, snapshot[w].block)
  BY <1>1 DEF SnapshotInv, RowShows
<1>5. ASSUME wallet[w] = "early" PROVE FALSE
  <2>1. \A c \in 1..frontier : w \in chain[c] => snapshot[w].block >= c
    BY <1>1, <1>5 DEF SnapshotInv, Covered
  <2>2. BalanceAt(w, frontier) = BalanceAt(w, snapshot[w].block)
    BY <1>2, <1>3, <2>1 DEF BalanceAt
  <2> QED
    BY <1>3, <1>4, <2>2
<1> QED
  BY <1>1, <1>2, <1>5

\* SweepInv: a step of the sweep keeps the invariant.
LEMMA SweepInv ==
  ASSUME TypeOK, TypeOK', SnapshotInv, Sweep \/ SweepThrows \/ \E w \in page : CheckFails(w)
  PROVE  SnapshotInv'
<1>1. UNCHANGED <<chain, wallet, snapshot, cursor, pc, from, to, work, current>> /\ head' = head
  BY SweepFrame DEF head, scan
<1>2. Grows
  <2>1. head \in Nat /\ \A w \in Wallet : snapshot[w].block \in Nat
    BY DEF TypeOK, ChainType, head
  <2> QED
    BY <1>1, <2>1 DEF Grows
<1>3. \A w \in Wallet : RowShows(w)'
  BY <1>1, <1>2, RowFrame DEF SnapshotInv
<1>4. \A n \in Node : ScanInv(n)'
  BY <1>1, <1>2, ScanFrame DEF SnapshotInv
<1>5. frontier' \in {frontier, cursor, Unread}
  BY DEF Sweep, SweepThrows, CheckFails, CheckOne, StartSweep, NextPage, FetchPage, Publish,
         ResolveFrontier, Tally, EndSweep
<1>6. ASSUME NEW w \in Wallet, wallet[w] = "early"
      PROVE  Covered(w, cursor)' /\ Covered(w, frontier)'
  <2>1. Covered(w, cursor) /\ Covered(w, frontier) /\ Covered(w, Unread)
    BY <1>6 DEF SnapshotInv, Covered, Unread
  <2> QED
    BY <1>1, <1>5, <2>1 DEF Covered
<1>7. (\A w \in page' : HasRow(w)') /\ \A w \in seen'.drift : wallet[w] = "late"
  <2>1. CASE StartSweep \/ NextPage
    <3>1. page' = findPageForReconciliation /\ seen' = seen
      BY <2>1 DEF StartSweep, NextPage, FetchPage
    <3> QED
      BY <1>1, <3>1 DEF findPageForReconciliation, FirstRows, HasRow, SnapshotInv, NoFalseDrift
  <2>2. CASE ResolveFrontier
    BY <1>1, <2>2 DEF ResolveFrontier, SnapshotInv, HasRow, NoFalseDrift
  <2>3. CASE Publish \/ SweepThrows
    <3>1. page' = {} /\ seen' = noRows
      BY <2>3 DEF Publish, SweepThrows, EndSweep
    <3> QED
      BY <3>1 DEF noRows
  <2>4. ASSUME NEW w \in page, CheckOne(w) \/ CheckFails(w)
        PROVE  (\A v \in page' : HasRow(v)') /\ \A v \in seen'.drift : wallet[v] = "late"
    <3>1. PICK d \in BOOLEAN : Tally(w, d) /\ (d => checkOne(w))
      BY <2>4 DEF CheckOne, CheckFails, checkOne
    <3>2. page' = page \ {w} /\ seen'.drift = IF d THEN seen.drift \cup {w} ELSE seen.drift
      BY <3>1 DEF Tally
    <3>3. d => wallet[w] = "late"
      BY <3>1, CheckDrift
    <3> QED
      BY <1>1, <3>2, <3>3 DEF SnapshotInv, HasRow, NoFalseDrift
  <2> QED
    BY <2>1, <2>2, <2>3, <2>4 DEF Sweep
<1> QED
  BY <1>1, <1>3, <1>4, <1>6, <1>7 DEF SnapshotInv, NoFalseDrift

-----------------------------------------------------------------------------
(* The theorems                                                            *)

\* StepInv: every step keeps the invariant.
LEMMA StepInv ==
  ASSUME TypeOK, TypeOK', SnapshotInv, [Next]_vars
  PROVE  SnapshotInv'
<1>1. ASSUME NEW S \in SUBSET Wallet \ {{}}, NEW k \in Quiet, Mine(S, k) PROVE SnapshotInv'
  BY <1>1, MineInv
<1>2. ASSUME NEW w \in Wallet, RegisterWallet(w) PROVE SnapshotInv'
  BY <1>2, RegisterInv
<1>3. ASSUME NEW n \in Node, Listener(n) \/ ListenerFails(n) PROVE SnapshotInv'
  BY <1>3, ListenerInv
<1>4. CASE Sweep \/ SweepThrows \/ \E w \in page : CheckFails(w)
  BY <1>4, SweepInv, ZenonT(40)
<1>5. CASE UNCHANGED vars
  <2>1. /\ UNCHANGED <<chain, wallet, snapshot, cursor, pc, from, to, work, current>>
        /\ UNCHANGED <<page, seen, frontier>> /\ head' = head
    BY <1>5 DEF vars, scan, locals, head
  <2>2. Grows
    <3>1. head \in Nat /\ \A w \in Wallet : snapshot[w].block \in Nat
      BY DEF TypeOK, ChainType, head
    <3> QED
      BY <2>1, <3>1 DEF Grows
  <2>3. (\A w \in Wallet : RowShows(w)') /\ \A n \in Node : ScanInv(n)'
    BY <2>1, <2>2, RowFrame, ScanFrame DEF SnapshotInv
  <2>4. \A w \in Wallet : wallet'[w] = "early" => Covered(w, cursor)' /\ Covered(w, frontier)'
    BY <2>1 DEF SnapshotInv, Covered
  <2> QED
    BY <2>1, <2>3, <2>4 DEF SnapshotInv, HasRow, NoFalseDrift
<1> QED
  BY <1>1, <1>2, <1>3, <1>4, <1>5 DEF Next

\* The inductive invariant: rows show the chain, and the cursor and the frontier passed no
\* transfer that is missing in the row of a wallet registered in time.
THEOREM SnapshotInvariant == Spec => []SnapshotInv
<1>1. Init => SnapshotInv
  <2> SUFFICES ASSUME Init PROVE SnapshotInv
    OBVIOUS
  <2>1. \A w \in Wallet : RowShows(w) /\ wallet[w] = "none"
    BY DEF Init, RowShows, HasRow
  <2>2. \A n \in Node : ScanInv(n)
    BY <2>1 DEF Init, ScanInv, CreatesFirst
  <2>3. page = {} /\ seen.drift = {}
    BY DEF Init, noRows
  <2> QED
    BY <2>1, <2>2, <2>3 DEF SnapshotInv, NoFalseDrift
<1>2. TypeOK /\ TypeOK' /\ SnapshotInv /\ [Next]_vars => SnapshotInv'
  BY StepInv
<1> QED
  BY <1>1, <1>2, SnapshotTypeCorrect, PTL DEF Spec

\* The drift sweep (BalanceDriftProcessor.sweep) never reports a wallet that was registered
\* before its first transfer, whatever the listeners do while it runs.
THEOREM SweepReportsNoFalseDrift == Spec => []NoFalseDrift
<1>1. SnapshotInv => NoFalseDrift
  BY DEF SnapshotInv
<1> QED
  BY <1>1, SnapshotInvariant, PTL

\* RowAdvances: a step leaves the rows alone, or moves one of them to a later block.
LEMMA RowAdvances ==
  ASSUME TypeOK, SnapshotInv, [Next]_vars
  PROVE  [Projection!Next]_snapshot
<1>1. ASSUME NEW n \in Node, NEW x \in work[n], snapshot[x[2]].block < x[1],
             snapshot' = [snapshot EXCEPT ![x[2]] = observed(x)]
      PROVE  Projection!Next
  <2>1. x[2] \in Wallet /\ x[1] \in Nat
    BY <1>1 DEF TypeOK, ScanType
  <2>2. snapshot'[x[2]].block > snapshot[x[2]].block
    BY <1>1, <2>1 DEF observed, TypeOK, ChainType
  <2>3. \A w \in Wallet \ {x[2]} : snapshot'[w] = snapshot[w]
    BY <1>1 DEF TypeOK, ChainType
  <2> QED
    BY <2>1, <2>2, <2>3 DEF Projection!Next, Projection!Advance
<1>2. ASSUME NEW n \in Node, NEW x \in work[n], UpdateMany(n, x) PROVE Projection!Next
  BY <1>1, <1>2 DEF UpdateMany, isOlder
<1>3. ASSUME NEW n \in Node, CreateSnapshot(n) PROVE [Projection!Next]_snapshot
  <2>1. current[n] \in work[n] /\ current[n][1] \in 1..head /\ current[n][2] \in Wallet
    BY <1>3 DEF CreateSnapshot, TypeOK, ScanType
  <2>2. CASE ~HasRow(current[n][2])
    <3>1. snapshot[current[n][2]].block < current[n][1]
      BY <2>1, <2>2 DEF HasRow, TypeOK, ChainType
    <3> QED
      BY <1>1, <1>3, <2>1, <2>2, <3>1, ZenonT(40) DEF CreateSnapshot
  <2> QED
    BY <1>3, <2>2 DEF CreateSnapshot
<1>4. ASSUME NEW n \in Node, NEW x \in work[n], SkipWallet(n, x) \/ UpdateNone(n, x)
      PROVE  UNCHANGED snapshot
  BY <1>4 DEF SkipWallet, UpdateNone
<1>5. ASSUME NEW n \in Node,
             LoadCursor(n) \/ Fetch(n) \/ NoNewBlocks(n) \/ MarkSuccess(n) \/ ListenerFails(n)
      PROVE  UNCHANGED snapshot
  BY <1>5 DEF LoadCursor, Fetch, NoNewBlocks, MarkSuccess, ListenerFails
<1>6. ASSUME Sweep \/ SweepThrows \/ \E w \in page : CheckFails(w) PROVE UNCHANGED snapshot
  BY <1>6, SweepFrame, ZenonT(40)
<1>7. ASSUME \/ \E S \in SUBSET Wallet \ {{}}, k \in Quiet : Mine(S, k)
             \/ \E w \in Wallet : RegisterWallet(w)
             \/ UNCHANGED vars
      PROVE  UNCHANGED snapshot
  BY <1>7 DEF Mine, RegisterWallet, vars
<1> QED
  BY <1>2, <1>3, <1>4, <1>5, <1>6, <1>7, ZenonT(40) DEF Next, Listener

\* The rows BalanceRepository.upsert writes are a monotone projection of the chain: they
\* only move to a later block, and always show the balance of their own block.
THEOREM ImplementsProjection == Spec => ProjectionSpec
<1>1. Init => Projection!Init
  BY DEF Init, Projection!Init
<1>2. TypeOK /\ SnapshotInv /\ [Next]_vars => [Projection!Next]_snapshot
  BY RowAdvances
<1>3. TypeOK /\ SnapshotInv => Projection!Faithful
  <2> SUFFICES ASSUME TypeOK, SnapshotInv PROVE Projection!Faithful
    OBVIOUS
  <2>1. \A w \in Wallet : snapshot[w].block \in Nat
    BY DEF TypeOK, ChainType
  <2> QED
    BY <2>1 DEF Projection!Faithful, SnapshotInv, RowShows, HasRow
<1> QED
  BY <1>1, <1>2, <1>3, SnapshotTypeCorrect, SnapshotInvariant, PTL
  DEF Spec, ProjectionSpec, Projection!Spec

-----------------------------------------------------------------------------
(* The pages of the sweep                                                  *)

\* LeastNumber: a set of numbers that is not empty has a least one.
LEMMA LeastNumber ==
  ASSUME NEW S \in SUBSET Nat, S # {}
  PROVE  \E w \in S : \A v \in S : w <= v
<1> DEFINE R == OpToRel(<, Nat)
<1>1. \E w \in S : \A v \in S : ~ (<<v, w>> \in R)
  <2> HIDE DEF R
  <2>1. IsWellFoundedOn(R, Nat)
    BY NatLessThanWellFounded DEF R
  <2> QED
    BY <2>1, WFMin, Zenon
<1>2. \A v, w \in Nat : ~ (<<v, w>> \in R) => w <= v
  BY DEF OpToRel
<1> QED
  BY <1>1, <1>2

\* Below: the ids below a row are finitely many, and grow with the row.
LEMMA Below ==
  ASSUME NEW S \in SUBSET Nat, NEW w \in Nat
  PROVE  /\ IsFiniteSet({v \in S : v < w})
         /\ Cardinality({v \in S : v < w}) \in Nat
<1>1. IsFiniteSet(0..w)
  BY FS_Interval
<1>2. {v \in S : v < w} \subseteq 0..w
  <2>1. ASSUME NEW v \in S, v < w PROVE v \in 0..w
    <3>1. v \in Nat
      OBVIOUS
    <3> QED
      BY <2>1, <3>1
  <2> QED
    BY <2>1
<1>3. IsFiniteSet({v \in S : v < w})
  BY <1>1, <1>2, FS_Subset, Zenon
<1> QED
  BY <1>3, FS_CardinalityType, Zenon

\* FirstRowsLead: the rows behind a page have greater ids than those on it.
LEMMA FirstRowsLead ==
  ASSUME NEW S \in SUBSET Nat, NEW w \in S \ FirstRows(S), NEW p \in FirstRows(S)
  PROVE  p < w
<1> DEFINE U(x) == {v \in S : v < x}
<1>1. p \in Nat /\ w \in Nat /\ p \in S
  BY DEF FirstRows
<1>2. Cardinality(U(p)) < PageSize /\ ~ (Cardinality(U(w)) < PageSize)
  BY DEF FirstRows
<1>3. SUFFICES ASSUME w <= p PROVE FALSE
  BY <1>1
<1>4. U(w) \subseteq U(p)
  <2>1. ASSUME NEW v \in S, v < w PROVE v < p
    <3>1. v \in Nat
      OBVIOUS
    <3> QED
      BY <1>1, <1>3, <2>1, <3>1
  <2> QED
    BY <2>1
<1>5. IsFiniteSet(U(p)) /\ Cardinality(U(p)) \in Nat /\ Cardinality(U(w)) \in Nat
  BY <1>1, Below
<1> HIDE DEF U
<1>6. Cardinality(U(w)) <= Cardinality(U(p))
  BY <1>4, <1>5, FS_Subset, Zenon
<1> QED
  BY <1>2, <1>5, <1>6, SnapshotAssumption

\* ShortPage: a page with fewer rows than it may have is the last.
LEMMA ShortPage ==
  ASSUME NEW S \in SUBSET Nat, Cardinality(FirstRows(S)) < PageSize
  PROVE  FirstRows(S) = S
<1> DEFINE late == S \ FirstRows(S)
<1>1. FirstRows(S) \subseteq S
  BY DEF FirstRows
<1>2. SUFFICES ASSUME late # {} PROVE FALSE
  BY <1>1
<1>3. PICK w \in late : \A v \in late : w <= v
  <2>1. late \in SUBSET Nat
    OBVIOUS
  <2> HIDE DEF late
  <2> QED
    BY <1>2, <2>1, LeastNumber
<1>4. \A p \in FirstRows(S) : p < w
  BY <1>3, FirstRowsLead
<1>5. FirstRows(S) = {v \in S : v < w}
  <2>1. ASSUME NEW v \in S, v < w PROVE v \in FirstRows(S)
    <3>1. v \in Nat /\ w \in Nat /\ ~(w <= v)
      BY <2>1
    <3> QED
      BY <1>3, <3>1
  <2> QED
    BY <1>1, <1>4, <2>1
<1> QED
  BY <1>3, <1>5 DEF FirstRows

\* PageAhead: after a page was fetched, every row that is not checked is on it or behind it.
LEMMA PageAhead ==
  ASSUME TypeOK, FetchPage, page = {},
         \A w \in missing' : HasRow(w) /\ w \in Wallet /\ w > afterId
  PROVE  /\ \A w \in missing' : RowAhead(w)'
         /\ \A w \in page' : w > afterId
         /\ page' = {} => lastPage'
<1> DEFINE S == {w \in Wallet : HasRow(w) /\ w > afterId}
<1>1. page' = FirstRows(S) /\ lastPage' = (Cardinality(page') < PageSize)
  BY DEF FetchPage, findPageForReconciliation
<1>2. S \in SUBSET Nat
  BY SnapshotAssumption
<1>3. \A w \in missing' : w \in S
  OBVIOUS
<1>4. FirstRows(S) \subseteq S /\ \A w \in S : w > afterId
  BY DEF FirstRows
<1>5. UNCHANGED snapshot /\ UNCHANGED afterId
  BY DEF FetchPage, tables
<1> HIDE DEF S
<1>6. lastPage' => page' = S
  BY <1>1, <1>2, ShortPage
<1>7. ASSUME NEW w \in missing' PROVE RowAhead(w)'
  <2>1. HasRow(w)'
    BY <1>5, <1>7 DEF HasRow
  <2>2. CASE w \in page'
    BY <2>1, <2>2 DEF RowAhead
  <2>3. CASE w \notin page'
    <3>1. ~lastPage'
      BY <1>3, <1>6, <1>7, <2>3
    <3>2. \A v \in page' : v < w
      BY <1>1, <1>2, <1>3, <1>7, <2>3, FirstRowsLead
    <3>3. \A v \in page' : v \in Nat
      BY <1>1, <1>2, <1>4
    <3>4. w \in Nat
      BY <1>2, <1>3, <1>7
    <3>5. \A v \in page' : w > v
      BY <3>2, <3>3, <3>4
    <3>6. w > afterId'
      BY <1>5, <1>7
    <3> QED
      BY <2>1, <3>1, <3>5, <3>6 DEF RowAhead
  <2> QED
    BY <2>2, <2>3
<1>8. page' = {} => lastPage'
  <2>1. Cardinality({}) = 0
    BY FS_EmptySet
  <2>2. 0 < PageSize
    BY SnapshotAssumption
  <2>3. ASSUME page' = {} PROVE lastPage'
    <3>1. Cardinality(page') < PageSize
      BY <2>1, <2>2, <2>3
    <3> QED
      BY <1>1, <3>1, Zenon
  <2> QED
    BY <2>3
<1> QED
  BY <1>1, <1>4, <1>7, <1>8

\* FetchKeys: a page, the first one included, brings only rows that were not checked.
LEMMA FetchKeys ==
  ASSUME TypeOK, PagesByKey, StartSweep \/ NextPage
  PROVE  PagesByKey'
<1>1. /\ page = {} /\ FetchPage /\ UNCHANGED <<snapshot, afterId, tally, seen>>
      /\ sweepAt' \in {"publish", "frontier", "check"} /\ (sweepAt' = "publish" => page' = {})
  BY DEF PagesByKey, StartSweep, NextPage, FetchPage, tables
<1>2. \A w \in missing' : HasRow(w) /\ w \in Wallet /\ w > afterId
  <2>1. CASE StartSweep
    <3>1. afterId = 0 /\ missing' = {w \in Wallet : HasRow(w)}
      BY <2>1 DEF StartSweep, PagesByKey
    <3>2. \A w \in Wallet : w > 0
      BY SnapshotAssumption
    <3> QED
      BY <3>1, <3>2
  <2>2. CASE NextPage
    BY <1>1, <2>2 DEF NextPage, PagesByKey, RowAhead, TypeOK, SweepType
  <2> QED
    BY <2>1, <2>2
<1>3. /\ \A w \in missing' : RowAhead(w)'
      /\ \A w \in page' : w > afterId
      /\ page' = {} => lastPage'
  BY <1>1, <1>2, PageAhead
<1>4. ASSUME NEW w \in seen.checked PROVE w <= afterId /\ w \notin page'
  <2>1. w <= afterId /\ w \in Nat /\ afterId \in Nat
    BY SnapshotAssumption DEF PagesByKey, TypeOK, SweepType
  <2> QED
    BY <1>3, <2>1
<1> QED
  BY <1>1, <1>3, <1>4 DEF PagesByKey

\* TallyKeys: a row leaves the page when it is counted, and is counted for the first time.
LEMMA TallyKeys ==
  ASSUME TypeOK, PagesByKey, sweepAt = "check", NEW w \in page, NEW d \in BOOLEAN, Tally(w, d)
  PROVE  PagesByKey'
<1>1. /\ w \in Wallet /\ w \in Nat /\ afterId \in Nat /\ seen.checked \subseteq Nat
      /\ page \subseteq Nat /\ missing \subseteq Nat
  BY SnapshotAssumption DEF TypeOK, SweepType
<1>2. /\ tally'.checked = tally.checked + 1 /\ seen'.checked = seen.checked \cup {w}
      /\ missing' = missing \ {w} /\ page' = page \ {w} /\ UNCHANGED <<snapshot, lastPage>>
      /\ afterId' = IF w > afterId THEN w ELSE afterId
      /\ sweepAt' = IF page' # {} THEN "check" ELSE IF lastPage THEN "publish" ELSE "fetch"
  BY DEF Tally, tables
<1>3. afterId' \in Nat /\ afterId' >= afterId /\ afterId' >= w
  BY <1>1, <1>2
<1>4. w \notin seen.checked /\ IsFiniteSet(seen.checked) /\ tally.checked = Cardinality(seen.checked)
  BY DEF PagesByKey
<1>5. IsFiniteSet(seen'.checked) /\ tally'.checked = Cardinality(seen'.checked)
  BY <1>2, <1>4, FS_AddElement
<1>6. ASSUME NEW v \in missing' PROVE RowAhead(v)'
  <2>1. v \in missing /\ v # w /\ v \in Nat
    BY <1>1, <1>2
  <2>2. HasRow(v) /\ (v \in page \/ (~lastPage /\ v > afterId /\ \A u \in page : v > u))
    BY <2>1 DEF PagesByKey, RowAhead
  <2>3. HasRow(v)'
    BY <1>2, <2>2 DEF HasRow
  <2>4. v \in page' \/ (~lastPage' /\ v > afterId' /\ \A u \in page' : v > u)
    BY <1>1, <1>2, <2>1, <2>2
  <2> QED
    BY <2>3, <2>4 DEF RowAhead
<1>7. ASSUME NEW v \in seen'.checked PROVE v <= afterId' /\ v \notin page'
  <2>1. CASE v = w
    BY <1>1, <1>2, <1>3, <2>1
  <2>2. CASE v \in seen.checked
    <3>1. v <= afterId /\ v \notin page /\ v \in Nat
      BY <1>1, <2>2 DEF PagesByKey
    <3> QED
      BY <1>1, <1>2, <1>3, <3>1
  <2> QED
    BY <1>2, <2>1, <2>2
<1>8. /\ sweepAt' \in {"check", "publish", "fetch"} /\ (sweepAt' # "check" => page' = {})
      /\ sweepAt' = "publish" => lastPage'
  BY <1>2
<1> QED
  BY <1>5, <1>6, <1>7, <1>8 DEF PagesByKey

\* KeysFrame: rows that appear or move on while the sweep waits take nothing from it.
LEMMA KeysFrame ==
  ASSUME TypeOK, TypeOK', PagesByKey, UNCHANGED locals,
         \A w \in Wallet : snapshot'[w].block >= snapshot[w].block
  PROVE  PagesByKey'
<1>1. UNCHANGED <<sweepAt, afterId, page, lastPage, tally, seen, missing>>
  BY DEF locals
<1>2. \A w \in Wallet : snapshot[w].block \in Nat /\ snapshot'[w].block \in Nat
  BY DEF TypeOK, ChainType
<1>3. \A w \in Wallet : HasRow(w) => HasRow(w)'
  BY <1>2 DEF HasRow
<1>4. \A w \in missing' : RowAhead(w)'
  BY <1>1, <1>3 DEF PagesByKey, RowAhead, TypeOK, SweepType
<1> QED
  BY <1>1, <1>4 DEF PagesByKey, noRows

\* KeysStep: every step keeps the pages in order.
LEMMA KeysStep ==
  ASSUME TypeOK, TypeOK', SnapshotInv, PagesByKey, [Next]_vars
  PROVE  PagesByKey'
<1>1. \A w \in Wallet : snapshot[w].block >= snapshot[w].block
  BY DEF TypeOK, ChainType
<1>2. ASSUME NEW n \in Node, Listener(n) \/ ListenerFails(n) PROVE PagesByKey'
  <2>1. \A w \in Wallet : snapshot'[w].block >= snapshot[w].block
    BY <1>2, ListenerRows DEF Grows
  <2>2. UNCHANGED locals
    BY <1>2, ListenerFrame
  <2> QED
    BY <2>1, <2>2, KeysFrame, ZenonT(40)
<1>3. CASE StartSweep \/ NextPage
  BY <1>3, FetchKeys, ZenonT(40)
<1>4. CASE ResolveFrontier
  <2>1. UNCHANGED <<snapshot, afterId, page, lastPage, tally, seen, missing>> /\ sweepAt' = "check"
    BY <1>4 DEF ResolveFrontier, tables
  <2>2. \A w \in missing' : RowAhead(w)'
    BY <2>1 DEF PagesByKey, RowAhead, HasRow
  <2> QED
    BY <2>1, <2>2 DEF PagesByKey
<1>5. CASE Publish \/ SweepThrows
  <2>1. EndSweep
    BY <1>5 DEF Publish, SweepThrows
  <2>2. /\ sweepAt' = "idle" /\ afterId' = 0 /\ page' = {} /\ missing' = {} /\ seen' = noRows
        /\ tally'.checked = 0 /\ seen'.checked = {}
    BY <2>1 DEF EndSweep, noRows, emptyCounts
  <2> QED
    BY <2>2, FS_EmptySet DEF PagesByKey, noRows
<1>6. ASSUME NEW w \in page, CheckOne(w) \/ CheckFails(w) PROVE PagesByKey'
  <2>1. sweepAt = "check" /\ \E d \in BOOLEAN : Tally(w, d)
    BY <1>6 DEF CheckOne, CheckFails, checkOne
  <2> QED
    BY <2>1, TallyKeys
<1>7. ASSUME UNCHANGED <<snapshot, locals>> PROVE PagesByKey'
  BY <1>1, <1>7, KeysFrame
<1>8. ASSUME NEW S \in SUBSET Wallet, NEW k \in Quiet, Mine(S, k) PROVE PagesByKey'
  BY <1>7, <1>8 DEF Mine
<1>9. ASSUME NEW w \in Wallet, RegisterWallet(w) PROVE PagesByKey'
  BY <1>7, <1>9 DEF RegisterWallet
<1>10. CASE UNCHANGED vars
  BY <1>7, <1>10 DEF vars
<1> QED
  BY <1>2, <1>3, <1>4, <1>5, <1>6, <1>8, <1>9, <1>10 DEF Next, Sweep

\* A sweep that comes to its end has checked every row that was there when it began, and
\* counted each row once, for every page size and whatever rows the listeners insert
\* (BalanceDriftProcessor.sweep over findPageForReconciliation).
THEOREM SweepIsWhole == Spec => []WholeSweep
<1>1. Init => PagesByKey
  <2> SUFFICES ASSUME Init PROVE PagesByKey
    OBVIOUS
  <2>1. seen.checked = {} /\ tally.checked = 0
    BY DEF Init, noRows, emptyCounts
  <2> QED
    BY <2>1, FS_EmptySet DEF Init, PagesByKey
<1>2. TypeOK /\ TypeOK' /\ SnapshotInv /\ PagesByKey /\ [Next]_vars => PagesByKey'
  BY KeysStep
<1>3. PagesByKey => WholeSweep
  BY DEF PagesByKey, RowAhead, WholeSweep
<1> QED
  BY <1>1, <1>2, <1>3, SnapshotTypeCorrect, SnapshotInvariant, PTL DEF Spec
=============================================================================

-------------------------- MODULE TransferPipeline --------------------------
(***************************************************************************)
(* One transfer from the HTTP request to a terminal ledger row: the API    *)
(* request (TransferService), the chain, the BullMQ confirmation queue and *)
(* its workers (ConfirmationProcessor), and the three leased sweeps        *)
(* (expiration, submission recovery, pending recovery).  Every awaited     *)
(* call is a step of its own, every process may crash between two of them, *)
(* and every awaited call may throw.                                       *)
(***************************************************************************)
EXTENDS TransactionStateMachine, Integers, Sequences

CONSTANTS
  Tx,            \* transfer requests; the broadcast of request t has hash t
  Blockchain,    \* [Tx -> {"EVM", "BITCOIN", "SOLANA"}], the token's chain
  Parties,       \* [Tx -> <<from address, to address>>]; token and amount equal
  LowerChecksum, \* addresses whose EIP-55 form has no upper-case letter
  Worker,        \* handler slots of all confirmation workers
  MaxAttempts,   \* BullMQ attempts of a job (5 in the code)
  MaxStalls,     \* CONFIRMATION_MAX_STALLED_COUNT (1 in the code)
  Faults,        \* which of FaultKinds may happen: a bound on the environment
  NoHash, NoJob, NoWorker

FaultKinds == {"requestCrash", "requestError", "slowRequest", "workerCrash",
               "workerError", "stall", "sweepError"}

ASSUME PipelineAssumption ==
  /\ Blockchain \in [Tx -> {"EVM", "BITCOIN", "SOLANA"}]
  /\ MaxAttempts \in Nat \ {0}
  /\ MaxStalls \in Nat
  /\ Faults \subseteq FaultKinds
  /\ NoHash \notin Tx /\ NoWorker \notin Worker
  /\ NoJob \notin {"request", "confirm"} \X Tx

VARIABLES
  status, txHash, createdAt, \* Transaction rows
  events,                    \* OutboxEvent rows per transaction
  age,         \* 0, 1 past graceMs, 2 past failAfterMs, since createdAt
  overdue,     \* rows whose confirmationStartedAt is past the deadline
  api,         \* where the HTTP request of t is
  chain,       \* what the chain knows of hash h
  transfers,   \* TokenTransfer rows, oldest first
  job,         \* the confirmation queue in Redis
  handler,     \* what each worker slot is executing
  expiring, resubmitting,    \* candidates read by a sweep and not yet handled
  recovery     \* where PendingRecoveryProcessor is with t

dbVars    == <<status, txHash, createdAt, events>>
timeVars  == <<age, overdue>>
chainVars == <<chain, transfers>>
queueVars == <<job, handler>>
sweepVars == <<expiring, resubmitting, recovery>>
vars == <<dbVars, timeVars, api, chainVars, queueVars, sweepVars>>

-----------------------------------------------------------------------------
(* Adapters: the answer of getTransaction to what the chain knows.         *)

\* Mutant: the receipt's status is not looked at.
EvmGetTransactionMined(seen) == IF seen \in {"success", "reverted"} THEN "confirmed" ELSE "throws"

\* A receipt exists only once mined; viem throws for anything else.
EvmGetTransaction(seen) ==
  CASE seen = "success"  -> "confirmed"
    [] seen = "reverted" -> "failed"
    [] OTHER             -> "throws"

\* No on-chain revert; a transaction in the mempool is reported as pending.
BitcoinGetTransaction(seen) ==
  CASE seen = "success" -> "confirmed"
    [] seen = "seen"    -> "pending"
    [] OTHER            -> "throws"

\* An unknown signature is a null slot, not an error.
SolanaGetTransaction(seen) ==
  CASE seen = "success"  -> "confirmed"
    [] seen = "reverted" -> "failed"
    [] OTHER             -> "pending"

getTransaction(t) ==
  LET seen == chain[txHash[t]]
  IN  CASE Blockchain[t] = "EVM"     -> EvmGetTransaction(seen)
        [] Blockchain[t] = "BITCOIN" -> BitcoinGetTransaction(seen)
        [] Blockchain[t] = "SOLANA"  -> SolanaGetTransaction(seen)

-----------------------------------------------------------------------------
(* TransactionRepository: every write is one conditional UPDATE.           *)

transition(t, from, to) ==
  /\ status[t] = from
  /\ status' = [status EXCEPT ![t] = to]

transitionFromAny(t, from, to) ==
  /\ status[t] \in from
  /\ status' = [status EXCEPT ![t] = to]

\* Mutant: txHash has no unique index.
canMarkSubmittedTwice(t, h) == status[t] = "PENDING"

\* The unique index on txHash rejects a hash another row holds.
canMarkSubmitted(t, h) ==
  /\ status[t] = "PENDING"
  /\ \A u \in Tx : txHash[u] # h
\* Mutant: the UPDATE also accepts a row that is already SUBMITTED.
markSubmittedAgain(t, h) ==
  /\ \A u \in Tx : txHash[u] # h
  /\ transitionFromAny(t, {"PENDING", "SUBMITTED"}, "SUBMITTED")
  /\ txHash' = [txHash EXCEPT ![t] = h]

markSubmitted(t, h) ==
  /\ canMarkSubmitted(t, h)
  /\ transition(t, "PENDING", "SUBMITTED")
  /\ txHash' = [txHash EXCEPT ![t] = h]

markConfirming(t) == transition(t, "SUBMITTED", "CONFIRMING")
\* Mutant: a second confirmation of the same row goes through.
confirmAgain(t) == transitionFromAny(t, {"CONFIRMING", "CONFIRMED"}, "CONFIRMED")

confirm(t) == transition(t, "CONFIRMING", "CONFIRMED")
\* Mutant: a PENDING row cannot be failed.
FailableOnceClaimed == {"CONFIRMING"}

FailableFrom == {"PENDING", "CONFIRMING"}

markFailed(t) == transitionFromAny(t, FailableFrom, "FAILED")
\* Mutant: the UPDATE does not re-check the status the batch was read with.
expireUnchecked(t) == status' = [status EXCEPT ![t] = "EXPIRED"]

expire(t) == transition(t, "CONFIRMING", "EXPIRED")
\* Mutant: the deadline query looks at SUBMITTED rows.
findExpiredSubmitted == {t \in Tx : status[t] = "SUBMITTED" /\ overdue[t]}

findExpiredCandidates == {t \in Tx : status[t] = "CONFIRMING" /\ overdue[t]}
\* Mutants: unsubmitted rows are selected too; claimed rows are selected instead.
findUnconfirmedCandidates == {t \in Tx : status[t] \in {"PENDING", "SUBMITTED"}}
findClaimedCandidates == {t \in Tx : status[t] = "CONFIRMING" /\ txHash[t] # NoHash}

findSubmittedCandidates == {t \in Tx : status[t] = "SUBMITTED" /\ txHash[t] # NoHash}

findOrphanedPendingCandidates == {t \in Tx : status[t] = "PENDING" /\ age[t] >= 1}

-----------------------------------------------------------------------------
(* BullMQ, as src/ uses it: add with a known jobId is a no-op, a completed *)
(* job is removed, a job out of attempts is kept as failed.                *)

Job == {"request", "confirm"} \X Tx

NoJobRecord == [state |-> "none", attempts |-> 0, stalls |-> 0, owner |-> NoWorker]

\* The queue after queue.add of a job with id j.
queueAdd(j) ==
  IF job[j].state = "none"
  THEN [job EXCEPT ![j] = [state |-> "waiting", attempts |-> 0, stalls |-> 0,
                           owner |-> NoWorker]]
  ELSE job

idleHandler == [at |-> "idle", job |-> NoJob]

goto(w, label) == handler' = [handler EXCEPT ![w].at = label]

\* The handler of w returned: the job is removed if w still holds its lock.
jobCompleted(w) ==
  LET j == handler[w].job
  IN  /\ handler' = [handler EXCEPT ![w] = idleHandler]
      /\ job' = IF job[j].owner = w THEN [job EXCEPT ![j] = NoJobRecord] ELSE job

\* The handler of w threw: one attempt is spent if w still holds the lock.
jobThrew(w) ==
  LET j == handler[w].job
      spent == job[j].attempts + 1
  IN  /\ handler' = [handler EXCEPT ![w] = idleHandler]
      /\ job' = IF job[j].owner = w
                THEN [job EXCEPT ![j] =
                        [state |-> IF spent < MaxAttempts THEN "waiting" ELSE "failed",
                         attempts |-> spent, stalls |-> job[j].stalls, owner |-> NoWorker]]
                ELSE job

-----------------------------------------------------------------------------
(* TokenTransfer rows and the matching heuristic of pending recovery.      *)

\* WalletRepository.create stores EVM addresses in lower case.
normalizeWalletAddress(a) == <<a, "lower">>

\* viem decodes address arguments into EIP-55 mixed case.
eventAddress(a) == <<a, IF a \in LowerChecksum THEN "lower" ELSE "mixed">>

\* Row i matches t: same from and to, spelled alike, written since t was created.
rowMatches(t, i) ==
  /\ i > createdAt[t]
  /\ \A k \in {1, 2} :
       eventAddress(Parties[transfers[i]][k]) = normalizeWalletAddress(Parties[t][k])

\* The hash of the oldest matching row, NoHash when there is none.
findMatchingTransfer(t) ==
  LET oldest == {i \in 1..Len(transfers) :
                   rowMatches(t, i) /\ \A k \in 1..(i - 1) : ~rowMatches(t, k)}
  IN  IF oldest = {} THEN NoHash ELSE transfers[CHOOSE i \in oldest : TRUE]

-----------------------------------------------------------------------------
Init ==
  /\ status = [t \in Tx |-> "NONE"]
  /\ txHash = [t \in Tx |-> NoHash]
  /\ createdAt = [t \in Tx |-> 0]
  /\ events = [t \in Tx |-> 0]
  /\ age = [t \in Tx |-> 0]
  /\ overdue = [t \in Tx |-> FALSE]
  /\ api = [t \in Tx |-> "start"]
  /\ chain = [t \in Tx |-> "absent"]
  /\ transfers = << >>
  /\ job = [j \in Job |-> NoJobRecord]
  /\ handler = [w \in Worker |-> idleHandler]
  /\ expiring = {}
  /\ resubmitting = {}
  /\ recovery = [t \in Tx |-> [at |-> "idle", hash |-> NoHash]]

-----------------------------------------------------------------------------
(* TransferService.transfer                                                *)

apiGoto(t, label) == api' = [api EXCEPT ![t] = label]

\* Token, wallet, ownership or canSign refuses, or the INSERT itself throws.
RejectTransfer(t) ==
  /\ api[t] = "start"
  /\ apiGoto(t, "done")
  /\ UNCHANGED <<dbVars, timeVars, chainVars, queueVars, sweepVars>>

CreatePending(t) ==
  /\ api[t] = "start"
  /\ status' = [status EXCEPT ![t] = "PENDING"]
  /\ createdAt' = [createdAt EXCEPT ![t] = Len(transfers)]
  /\ apiGoto(t, "submit")
  /\ UNCHANGED <<txHash, events, timeVars, chainVars, queueVars, sweepVars>>

\* The adapter signs and broadcasts; it may throw before or after the node took it.
SubmitTransfer(t) ==
  /\ api[t] = "submit"
  /\ \E taken \in BOOLEAN, answered \in BOOLEAN :
       /\ answered => taken
       /\ chain' = IF taken THEN [chain EXCEPT ![t] = "seen"] ELSE chain
       /\ apiGoto(t, IF answered THEN "markSubmitted" ELSE "catch")
  /\ UNCHANGED <<dbVars, timeVars, transfers, queueVars, sweepVars>>

MarkSubmitted(t) ==
  /\ api[t] = "markSubmitted"
  /\ \/ /\ markSubmitted(t, t)
        /\ \E answered \in BOOLEAN :
             apiGoto(t, IF answered THEN "enqueue" ELSE "catch")
     \/ /\ ~canMarkSubmitted(t, t)
        /\ apiGoto(t, "catch")
        /\ UNCHANGED <<status, txHash>>
  /\ UNCHANGED <<createdAt, events, timeVars, chainVars, queueVars, sweepVars>>

\* queue.add without a jobId.  Redis may take it and the answer still be lost.
Enqueue(t) ==
  /\ api[t] = "enqueue"
  /\ \E taken \in BOOLEAN, answered \in BOOLEAN :
       /\ answered => taken
       /\ job' = IF taken THEN queueAdd(<<"request", t>>) ELSE job
       /\ apiGoto(t, IF answered THEN "done" ELSE "catch")
  /\ UNCHANGED <<dbVars, timeVars, chainVars, handler, sweepVars>>

\* The catch block: markFailed, whose own conflict is thrown to the client.
CatchFailure(t) ==
  /\ api[t] = "catch"
  /\ apiGoto(t, "done")
  /\ \/ markFailed(t)
     \/ status[t] \notin FailableFrom /\ UNCHANGED status
  /\ UNCHANGED <<txHash, createdAt, events, timeVars, chainVars, queueVars, sweepVars>>

\* The database refuses a write of the request: the error reaches the catch block,
\* or, from the catch block, the client.
RequestDbError(t) ==
  /\ \/ api[t] = "markSubmitted" /\ apiGoto(t, "catch")
     \/ api[t] = "catch" /\ apiGoto(t, "done")
  /\ UNCHANGED <<dbVars, timeVars, chainVars, queueVars, sweepVars>>

ApiCrash(t) ==
  /\ api[t] \in {"submit", "markSubmitted", "enqueue", "catch"}
  /\ apiGoto(t, "crashed")
  /\ UNCHANGED <<dbVars, timeVars, chainVars, queueVars, sweepVars>>

TransferRequest(t) ==
  \/ RejectTransfer(t) \/ CreatePending(t) \/ SubmitTransfer(t)
  \/ MarkSubmitted(t) \/ Enqueue(t) \/ CatchFailure(t)

-----------------------------------------------------------------------------
(* The environment: the chain, the event listener, the clock.              *)

ChainDecides(h) ==
  /\ chain[h] = "seen"
  /\ \E outcome \in {"success", "reverted"} :
       /\ outcome = "reverted" => Blockchain[h] # "BITCOIN"
       /\ chain' = [chain EXCEPT ![h] = outcome]
  /\ UNCHANGED <<dbVars, timeVars, api, transfers, queueVars, sweepVars>>

\* The listener stores the Transfer log of h (EVM tokens only, once per log).
IndexTransfer(h) ==
  /\ Blockchain[h] = "EVM"
  /\ chain[h] = "success"
  /\ \A i \in 1..Len(transfers) : transfers[i] # h
  /\ transfers' = Append(transfers, h)
  /\ UNCHANGED <<dbVars, timeVars, api, chain, queueVars, sweepVars>>

\* A request that is still running ages past graceMs only if it is slow.
Ages(t) == api[t] \in {"done", "crashed"} \/ "slowRequest" \in Faults

GrowOlder(t) ==
  /\ Ages(t)
  /\ status[t] = "PENDING" \/ recovery[t].at # "idle"
  /\ age[t] < 2
  /\ age' = [age EXCEPT ![t] = @ + 1]
  /\ UNCHANGED <<dbVars, overdue, api, chainVars, queueVars, sweepVars>>

PassDeadline(t) ==
  /\ status[t] = "CONFIRMING"
  /\ ~overdue[t]
  /\ overdue' = [overdue EXCEPT ![t] = TRUE]
  /\ UNCHANGED <<dbVars, age, api, chainVars, queueVars, sweepVars>>

-----------------------------------------------------------------------------
(* ConfirmationProcessor, run by a worker slot w on a job.                 *)

txOf(w) == handler[w].job[2]

\* BullMQ hands job j to w; processTransaction loads the row and skips one without a hash.
ProcessTransaction(w, j) ==
  /\ handler[w] = idleHandler
  /\ job[j].state = "waiting"
  /\ job' = [job EXCEPT ![j] = [state |-> "active", attempts |-> job[j].attempts,
                                 stalls |-> job[j].stalls, owner |-> w]]
  /\ handler' = [handler EXCEPT ![w] =
       [at |-> IF txHash[j[2]] = NoHash THEN "return" ELSE "receipt", job |-> j]]
  /\ UNCHANGED <<dbVars, timeVars, api, chainVars, sweepVars>>

\* confirmTransaction: the chain's answer selects the branch; no answer is a throw.
ConfirmTransaction(w) ==
  /\ handler[w].at = "receipt"
  /\ LET answer == getTransaction(txOf(w))
     IN  \/ answer = "confirmed" /\ goto(w, "claim") /\ UNCHANGED job
         \/ answer = "failed" /\ goto(w, "markFailed") /\ UNCHANGED job
         \/ answer \in {"pending", "throws"} /\ jobThrew(w)
  /\ UNCHANGED <<dbVars, timeVars, api, chainVars, sweepVars>>

ClaimConfirmation(w) ==
  /\ handler[w].at = "claim"
  /\ \/ markConfirming(txOf(w)) /\ goto(w, "persist")
     \/ status[txOf(w)] # "SUBMITTED" /\ goto(w, "stale") /\ UNCHANGED status
  /\ UNCHANGED <<txHash, createdAt, events, timeVars, api, chainVars, job, sweepVars>>

\* handleStaleConfirmation: continue another worker's claim, stop on a terminal row.
HandleStaleConfirmation(w) ==
  /\ handler[w].at = "stale"
  /\ LET current == status[txOf(w)]
     IN  \/ current \in Terminal /\ goto(w, "return") /\ UNCHANGED job
         \/ current = "CONFIRMING" /\ goto(w, "persist") /\ UNCHANGED job
         \/ current \notin Terminal \cup {"CONFIRMING"} /\ jobThrew(w)
  /\ UNCHANGED <<dbVars, timeVars, api, chainVars, sweepVars>>

\* One database transaction: the status change and the outbox row.
PersistConfirmation(w) ==
  /\ handler[w].at = "persist"
  /\ LET t == txOf(w)
     IN  \/ /\ confirm(t)
            /\ events' = [events EXCEPT ![t] = @ + 1]
            /\ goto(w, "return")
         \/ /\ status[t] # "CONFIRMING"
            /\ goto(w, "conflict")
            /\ UNCHANGED <<status, events>>
  /\ UNCHANGED <<txHash, createdAt, timeVars, api, chainVars, job, sweepVars>>

HandleRevertedTransaction(w) ==
  /\ handler[w].at = "markFailed"
  /\ \/ markFailed(txOf(w)) /\ goto(w, "return")
     \/ status[txOf(w)] \notin FailableFrom /\ goto(w, "conflict") /\ UNCHANGED status
  /\ UNCHANGED <<txHash, createdAt, events, timeVars, api, chainVars, job, sweepVars>>

\* The re-read after a conflict in persistConfirmation or markTransactionFailed.
ResolveConflict(w) ==
  /\ handler[w].at = "conflict"
  /\ \/ status[txOf(w)] \in Terminal /\ goto(w, "return") /\ UNCHANGED job
     \/ status[txOf(w)] \notin Terminal /\ jobThrew(w)
  /\ UNCHANGED <<dbVars, timeVars, api, chainVars, sweepVars>>

ReturnFromHandler(w) ==
  /\ handler[w].at = "return"
  /\ jobCompleted(w)
  /\ UNCHANGED <<dbVars, timeVars, api, chainVars, sweepVars>>

\* An awaited call (RPC, Postgres, a confirmed receipt without block number) throws, also
\* one that took effect: after a claim at "persist", after the last write at "return".
HandlerThrows(w) ==
  /\ handler[w].at # "idle"
  /\ jobThrew(w)
  /\ UNCHANGED <<dbVars, timeVars, api, chainVars, sweepVars>>

\* The worker process dies; its job stays active until the stall check.
WorkerCrash(w) ==
  /\ handler[w].at # "idle"
  /\ handler' = [handler EXCEPT ![w] = idleHandler]
  /\ UNCHANGED <<dbVars, timeVars, api, chainVars, job, sweepVars>>

\* The job lock expired: back to waiting, or failed once it stalled too often.
JobStalled(j) ==
  /\ job[j].state = "active"
  /\ LET again == job[j].stalls < MaxStalls
     IN  job' = [job EXCEPT ![j] =
                   [state |-> IF again THEN "waiting" ELSE "failed",
                    attempts |-> job[j].attempts,
                    stalls |-> IF again THEN job[j].stalls + 1 ELSE job[j].stalls,
                    owner |-> NoWorker]]
  /\ UNCHANGED <<dbVars, timeVars, api, chainVars, handler, sweepVars>>

\* The worker that held j is gone: the stall check will notice.
DeadJobStalled(j) ==
  /\ \A w \in Worker : handler[w].job = j => job[j].owner # w
  /\ JobStalled(j)

HandlerStep(w) ==
  \/ ConfirmTransaction(w) \/ ClaimConfirmation(w) \/ HandleStaleConfirmation(w)
  \/ PersistConfirmation(w) \/ HandleRevertedTransaction(w) \/ ResolveConflict(w)
  \/ ReturnFromHandler(w)

-----------------------------------------------------------------------------
(* ExpirationProcessor: read a batch, then expire its rows one by one.     *)

ProcessExpiredTransactions ==
  /\ expiring = {}
  /\ findExpiredCandidates # {}
  /\ expiring' = findExpiredCandidates
  /\ UNCHANGED <<dbVars, timeVars, api, chainVars, queueVars, resubmitting, recovery>>

\* A conflict means the row moved on since the batch was read: skip it.
Expire(t) ==
  /\ t \in expiring
  /\ expiring' = expiring \ {t}
  /\ \/ expire(t)
     \/ status[t] # "CONFIRMING" /\ UNCHANGED status
  /\ UNCHANGED <<txHash, createdAt, events, timeVars, api, chainVars, queueVars,
                 resubmitting, recovery>>

\* The process dies, or a database error aborts the loop: the batch is dropped.
ExpirationAborts ==
  /\ expiring # {}
  /\ expiring' = {}
  /\ UNCHANGED <<dbVars, timeVars, api, chainVars, queueVars, resubmitting, recovery>>

-----------------------------------------------------------------------------
(* SubmissionRecoveryProcessor                                             *)

ProcessSubmittedTransactions ==
  /\ resubmitting = {}
  /\ findSubmittedCandidates # {}
  /\ resubmitting' = findSubmittedCandidates
  /\ UNCHANGED <<dbVars, timeVars, api, chainVars, queueVars, expiring, recovery>>

Resubmit(t) ==
  /\ t \in resubmitting
  /\ resubmitting' = resubmitting \ {t}
  /\ job' = queueAdd(<<"confirm", t>>)
  /\ UNCHANGED <<dbVars, timeVars, api, chainVars, handler, expiring, recovery>>

\* queue.add fails for one row (logged) or the process dies with the batch.
ResubmitFails ==
  /\ resubmitting # {}
  /\ \/ \E t \in resubmitting : resubmitting' = resubmitting \ {t}
     \/ resubmitting' = {}
  /\ UNCHANGED <<dbVars, timeVars, api, chainVars, queueVars, expiring, recovery>>

-----------------------------------------------------------------------------
(* PendingRecoveryProcessor: recoverOne for every candidate of a batch.    *)

recoverGoto(t, label, h) == recovery' = [recovery EXCEPT ![t] = [at |-> label, hash |-> h]]

ProcessOrphanedPending ==
  /\ \A t \in Tx : recovery[t].at = "idle"
  /\ findOrphanedPendingCandidates # {}
  /\ recovery' = [t \in Tx |-> IF t \in findOrphanedPendingCandidates
                               THEN [at |-> "lookup", hash |-> NoHash]
                               ELSE recovery[t]]
  /\ UNCHANGED <<dbVars, timeVars, api, chainVars, queueVars, expiring, resubmitting>>

\* Evidence found: adopt it.  None: too young to judge, or ask the listener's health.
RecoverOne(t) ==
  /\ recovery[t].at = "lookup"
  /\ LET match == findMatchingTransfer(t)
     IN  recoverGoto(t, CASE match # NoHash -> "adopt"
                          [] match = NoHash /\ age[t] < 2 -> "idle"
                          [] OTHER -> "health", match)
  /\ UNCHANGED <<dbVars, timeVars, api, chainVars, queueVars, expiring, resubmitting>>

\* Only an EVM token has a cursor, hence a lastSuccessfulSync that can be recent.
IsEventListenerHealthy(t) ==
  /\ recovery[t].at = "health"
  /\ \E healthy \in {FALSE} \cup {b \in BOOLEAN : Blockchain[t] = "EVM"} :
       recoverGoto(t, IF healthy THEN "fail" ELSE "idle", NoHash)
  /\ UNCHANGED <<dbVars, timeVars, api, chainVars, queueVars, expiring, resubmitting>>

Adopt(t) ==
  /\ recovery[t].at = "adopt"
  /\ LET h == recovery[t].hash
     IN  \/ markSubmitted(t, h) /\ recoverGoto(t, "enqueue", h)
         \/ /\ ~canMarkSubmitted(t, h)
            /\ recoverGoto(t, "idle", NoHash)
            /\ UNCHANGED <<status, txHash>>
  /\ UNCHANGED <<createdAt, events, timeVars, api, chainVars, queueVars, expiring, resubmitting>>

EnqueueAdopted(t) ==
  /\ recovery[t].at = "enqueue"
  /\ job' = queueAdd(<<"confirm", t>>)
  /\ recoverGoto(t, "idle", NoHash)
  /\ UNCHANGED <<dbVars, timeVars, api, chainVars, handler, expiring, resubmitting>>

FailOrphan(t) ==
  /\ recovery[t].at = "fail"
  /\ recoverGoto(t, "idle", NoHash)
  /\ \/ markFailed(t)
     \/ status[t] \notin FailableFrom /\ UNCHANGED status
  /\ UNCHANGED <<txHash, createdAt, events, timeVars, api, chainVars, queueVars,
                 expiring, resubmitting>>

\* One row's recovery throws (logged), or the process dies with the batch.
RecoveryFails ==
  /\ \/ \E t \in Tx : recovery[t].at # "idle" /\ recoverGoto(t, "idle", NoHash)
     \/ /\ \E t \in Tx : recovery[t].at # "idle"
        /\ recovery' = [t \in Tx |-> [at |-> "idle", hash |-> NoHash]]
  /\ UNCHANGED <<dbVars, timeVars, api, chainVars, queueVars, expiring, resubmitting>>

RecoveryStep(t) ==
  \/ RecoverOne(t) \/ IsEventListenerHealthy(t) \/ Adopt(t)
  \/ EnqueueAdopted(t) \/ FailOrphan(t)

-----------------------------------------------------------------------------
Environment ==
  \/ \E t \in Tx : \/ ChainDecides(t) \/ IndexTransfer(t) \/ GrowOlder(t) \/ PassDeadline(t)
  \/ \E j \in Job : DeadJobStalled(j)
  \/ "requestCrash" \in Faults /\ \E t \in Tx : ApiCrash(t)
  \/ "requestError" \in Faults /\ \E t \in Tx : RequestDbError(t)
  \/ "workerCrash" \in Faults /\ \E w \in Worker : WorkerCrash(w)
  \/ "workerError" \in Faults /\ \E w \in Worker : HandlerThrows(w)
  \/ "stall" \in Faults /\ \E j \in Job : JobStalled(j)
  \/ "sweepError" \in Faults /\ (ExpirationAborts \/ ResubmitFails \/ RecoveryFails)

Sweeps ==
  \/ ProcessExpiredTransactions \/ \E t \in Tx : Expire(t)
  \/ ProcessSubmittedTransactions \/ \E t \in Tx : Resubmit(t)
  \/ ProcessOrphanedPending \/ \E t \in Tx : RecoveryStep(t)

Next ==
  \/ \E t \in Tx : TransferRequest(t)
  \/ \E w \in Worker : HandlerStep(w) \/ \E j \in Job : ProcessTransaction(w, j)
  \/ Sweeps
  \/ Environment

Spec == Init /\ [][Next]_vars

-----------------------------------------------------------------------------
(* Fairness.  Node timers and promises run, BullMQ serves its queue, and a *)
(* sweep that comes back every interval is not struck down every time.     *)

QueueFairness ==
  /\ WF_vars(\E w \in Worker, j \in Job : ProcessTransaction(w, j))
  /\ \A j \in Job : WF_vars(DeadJobStalled(j))
  /\ \A w \in Worker : WF_vars(HandlerStep(w))

SweepFairness ==
  /\ WF_vars(ProcessExpiredTransactions) /\ \A t \in Tx : SF_vars(Expire(t))
  /\ WF_vars(ProcessSubmittedTransactions) /\ \A t \in Tx : SF_vars(Resubmit(t))
  /\ WF_vars(ProcessOrphanedPending)
  /\ \A t \in Tx : /\ SF_vars(RecoverOne(t)) /\ SF_vars(Adopt(t) \/ FailOrphan(t))
                  /\ WF_vars(RecoveryStep(t))

RequestFairness == \A t \in Tx : WF_vars(TransferRequest(t))

ClockFairness == \A t \in Tx : WF_vars(PassDeadline(t)) /\ WF_vars(GrowOlder(t))

\* A listener that is asked again and again is not stale every time.
ListenerFairness ==
  \A t \in Tx : SF_vars(IsEventListenerHealthy(t) /\ recovery'[t].at = "fail")

FairSpec == /\ Spec
            /\ RequestFairness /\ QueueFairness /\ SweepFairness
            /\ ClockFairness /\ ListenerFairness

-----------------------------------------------------------------------------
RequestSteps == {"start", "submit", "markSubmitted", "enqueue", "catch", "done", "crashed"}

HandlerSteps == {"idle", "receipt", "claim", "stale", "persist", "markFailed",
                 "conflict", "return"}

RecoverySteps == {"idle", "lookup", "health", "adopt", "enqueue", "fail"}

JobRecord == [state : {"none", "waiting", "active", "failed"},
              attempts : 0..MaxAttempts, stalls : 0..MaxStalls,
              owner : Worker \cup {NoWorker}]

\* A job that can still run has an attempt left, and only an active one has an owner.
QueueType(q) ==
  /\ q \in [Job -> JobRecord]
  /\ \A j \in Job : /\ q[j].state \in {"waiting", "active"} => q[j].attempts < MaxAttempts
                    /\ q[j].owner # NoWorker => q[j].state = "active"

HandlerType(h) ==
  /\ h \in [Worker -> [at : HandlerSteps, job : Job \cup {NoJob}]]
  /\ \A w \in Worker : h[w].at # "idle" => h[w].job # NoJob

\* TypeOK: every table, queue, slot and sweep holds values of its type, attempts
\* and stalls within their limits.
TypeOK ==
  /\ status \in [Tx -> RowStatus]
  /\ txHash \in [Tx -> Tx \cup {NoHash}]
  /\ createdAt \in [Tx -> Nat]
  /\ events \in [Tx -> Nat]
  /\ age \in [Tx -> 0..2]
  /\ overdue \in [Tx -> BOOLEAN]
  /\ api \in [Tx -> RequestSteps]
  /\ chain \in [Tx -> {"absent", "seen", "success", "reverted"}]
  /\ transfers \in Seq(Tx)
  /\ QueueType(job)
  /\ HandlerType(handler)
  /\ expiring \in SUBSET Tx
  /\ resubmitting \in SUBSET Tx
  /\ recovery \in [Tx -> [at : RecoverySteps, hash : Tx \cup {NoHash}]]

\* AnnouncedOnce: a row has its transaction.confirmed outbox event exactly when
\* it is CONFIRMED, and only one, however many workers, redelivered jobs and
\* sweeps raced on it (persistConfirmation's single database transaction).
AnnouncedOnce == \A t \in Tx : events[t] = IF status[t] = "CONFIRMED" THEN 1 ELSE 0

\* ConfirmingMeansSucceeded: a row is CONFIRMING, CONFIRMED or EXPIRED only if the
\* transaction of its hash succeeded on chain (claimConfirmation runs after the receipt).
ConfirmingMeansSucceeded ==
  \A t \in Tx : status[t] \in {"CONFIRMING", "CONFIRMED", "EXPIRED"} =>
                  txHash[t] # NoHash /\ chain[txHash[t]] = "success"

\* OneRowPerHash: two ledger rows never claim the same on-chain transaction, even
\* when pending recovery adopts a hash while the slow request writes its own.
OneRowPerHash ==
  \A t, u \in Tx : txHash[t] # NoHash /\ txHash[t] = txHash[u] => t = u

\* JobsHaveHash: a confirmation job or a running handler never concerns a row
\* without a hash, so the txHash.missing early return stays unused.
JobsHaveHash ==
  /\ \A j \in Job : job[j].state # "none" => txHash[j[2]] # NoHash
  /\ \A w \in Worker : handler[w].at # "idle" => txHash[txOf(w)] # NoHash

\* RowInv: what the request, the sweeps and the status of t say about its hash.
RowInv(t) ==
  /\ api[t] = "start" => status[t] = "NONE"
  /\ api[t] \in {"start", "submit"} => chain[t] = "absent"
  /\ api[t] = "enqueue" => txHash[t] # NoHash
  /\ status[t] \in {"NONE", "PENDING"} => txHash[t] = NoHash
  /\ status[t] = "SUBMITTED" => txHash[t] # NoHash
  /\ t \in resubmitting => txHash[t] # NoHash
  /\ recovery[t].at = "adopt" => recovery[t].hash # NoHash
  /\ recovery[t].at = "enqueue" => txHash[t] # NoHash

\* HandlerInv: a handler about to claim, re-check or persist has seen the success.
HandlerInv(w) ==
  handler[w].at \in {"claim", "stale", "persist"} => chain[txHash[txOf(w)]] = "success"

\* PipelineInv: what every process may rely on, and why the properties above are
\* preserved by every step: a hash is written exactly when a row leaves PENDING
\* for SUBMITTED, nothing is enqueued before it is written, and a handler on its
\* way to a claim has seen the chain's success.
PipelineInv ==
  /\ AnnouncedOnce /\ ConfirmingMeansSucceeded /\ OneRowPerHash /\ JobsHaveHash
  /\ \A t \in Tx : RowInv(t)
  /\ \A w \in Worker : HandlerInv(w)

\* HashIsFinal: once written, a row's hash is never replaced or cleared.
HashIsFinal == [][\A t \in Tx : txHash[t] # NoHash => txHash'[t] = txHash[t]]_vars

\* EvidenceIsFound: pending recovery does not conclude "no evidence" about a row
\* while a TokenTransfer row of that very transfer exists (recoverOne's first step).
EvidenceIsFound ==
  [][\A t \in Tx :
       recovery[t].at = "lookup" /\ recovery'[t].at = "health" =>
         \A i \in 1..Len(transfers) : transfers[i] # t]_vars

\* OrphanFailedMeansAbsent: pending recovery does not fail an orphaned row whose own
\* transaction had already succeeded on chain (recoverOne defers while the listener
\* "might itself be behind or down").
OrphanFailedMeansAbsent ==
  [][\A t \in Tx : recovery[t].at = "fail" /\ status[t] = "PENDING" /\ status'[t] = "FAILED" =>
                     chain[t] # "success"]_vars

\* RevertedIsFailed: once a worker has received a failed receipt, the row ends
\* as FAILED (handleRevertedTransaction).
RevertedIsFailed ==
  \A t \in Tx : (\E w \in Worker : handler[w].at = "markFailed" /\ txOf(w) = t)
                   ~> status[t] = "FAILED"

\* ConfirmingResolves: a claimed row does not stay CONFIRMING; the worker, its
\* retry or ExpirationProcessor brings it to a terminal status.
ConfirmingResolves ==
  \A t \in Tx : status[t] = "CONFIRMING" ~> status[t] \in Terminal

\* SubmittedMovesOrParks: a SUBMITTED row moves on unless its deterministic job
\* confirm-<id> has run out of attempts and is kept as failed, whatever happened
\* to the request, its own job, the workers and the sweeps.
SubmittedMovesOrParks ==
  \A t \in Tx : status[t] = "SUBMITTED" ~>
                   status[t] # "SUBMITTED" \/ job[<<"confirm", t>>].state = "failed"

\* OrphanResolves: a PENDING row whose request died is adopted or failed by
\* PendingRecoveryProcessor.
OrphanResolves == \A t \in Tx : status[t] = "PENDING" ~> status[t] # "PENDING"

\* LifecycleSpec: whatever the interleaving, the rows follow the abstract
\* lifecycle: allowed edges only, nothing after a terminal status, the outbox
\* event in the same step as CONFIRMED.
Lifecycle == INSTANCE TransactionLifecycle WITH Tx <- Tx, status <- status, events <- events
LifecycleSpec == Lifecycle!Spec

\* TerminalIsFinal: a row that is CONFIRMED, FAILED or EXPIRED keeps its status and is
\* not announced again, whichever worker, sweep or late request still holds it.
TerminalIsFinal ==
  [][\A t \in Tx : status[t] \in Terminal =>
        status'[t] = status[t] /\ events'[t] = events[t]]_vars
=============================================================================

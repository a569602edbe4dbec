----------------------- MODULE TransferPipelineProofs -----------------------
(***************************************************************************)
(* The inductive invariant of TransferPipeline and the safety properties   *)
(* that follow from it, with one lemma per process; then the refinement of *)
(* TransactionLifecycle, and what stays of a row that is done.             *)
(***************************************************************************)
EXTENDS TransferPipelineTypes

\* The request's own write of its hash, refused or not.
LEMMA MarkSubmittedInv ==
  ASSUME TypeOK, PipelineInv, NEW t \in Tx, MarkSubmitted(t)
  PROVE  PipelineInv'
<1> USE DEF timeVars, chainVars, queueVars, sweepVars
<1>0. api \in [Tx -> RequestSteps]
  BY DEF TypeOK
<1>1. CASE markSubmitted(t, t)
  <2>1. /\ UNCHANGED <<events, chain, job, handler, resubmitting, recovery>>
        /\ \A u \in Tx : api'[u] = api[u] \/ (u = t /\ api'[u] \in {"enqueue", "catch"})
    BY <1>0 DEF MarkSubmitted, apiGoto
  <2> QED BY <1>1, <2>1, SubmittedInv
<1>2. CASE UNCHANGED <<status, txHash>> /\ apiGoto(t, "catch")
  <2>1. UNCHANGED <<status, txHash, events, chain, job, handler, resubmitting, recovery>>
    BY <1>2 DEF MarkSubmitted
  <2>2. \A u \in Tx : api'[u] = api[u] \/ api'[u] = "catch"
    BY <1>0, <1>2 DEF apiGoto
  <2>3. \A u \in Tx : RowInv(u)'
    BY <2>1, <2>2, RowFrame
  <2> QED BY <2>1, <2>3, QuietInv
<1> QED BY <1>1, <1>2 DEF MarkSubmitted

\* No step of a request disturbs it.
LEMMA RequestInv ==
  ASSUME TypeOK, PipelineInv, NEW t \in Tx, TransferRequest(t) \/ RequestDbError(t) \/ ApiCrash(t)
  PROVE  PipelineInv'
<1> USE DEF dbVars, timeVars, chainVars, queueVars, sweepVars
<1>0. api \in [Tx -> RequestSteps] /\ status \in [Tx -> RowStatus]
  BY DEF TypeOK
<1>r. \A u \in Tx : RowInv(u)
  BY DEF PipelineInv
<1>1. CASE RejectTransfer(t) \/ RequestDbError(t) \/ ApiCrash(t)
  <2>1. UNCHANGED <<status, txHash, events, chain, job, handler, resubmitting, recovery>>
    BY <1>1 DEF RejectTransfer, RequestDbError, ApiCrash
  <2>2. \A u \in Tx : api'[u] = api[u] \/ api'[u] \in {"catch", "done", "crashed"}
    BY <1>0, <1>1 DEF RejectTransfer, RequestDbError, ApiCrash, apiGoto
  <2>3. \A u \in Tx : RowInv(u)'
    BY <2>1, <2>2, RowFrame, SMTT(30)
  <2> QED BY <2>1, <2>3, QuietInv
<1>2. CASE CreatePending(t)
  <2>1. /\ api[t] = "start"
        /\ UNCHANGED <<txHash, events, chain, job, handler, resubmitting, recovery>>
        /\ \A u \in Tx : /\ status'[u] = IF u = t THEN "PENDING" ELSE status[u]
                         /\ api'[u] = IF u = t THEN "submit" ELSE api[u]
    BY <1>0, <1>2, SMTT(30) DEF CreatePending, apiGoto
  <2>2. status[t] = "NONE"
    BY <1>r, <2>1 DEF RowInv
  <2>3. \A u \in Tx : RowInv(u)'
    BY <1>r, <2>1, <2>2, SMTT(30) DEF RowInv
  <2> QED BY <2>1, <2>2, <2>3, StatusInv
<1>3. CASE SubmitTransfer(t)
  <2>0. chain \in [Tx -> {"absent", "seen", "success", "reverted"}]
    BY DEF TypeOK
  <2>1. /\ api[t] = "submit"
        /\ UNCHANGED <<status, txHash, events, job, handler, resubmitting, recovery>>
        /\ \A u \in Tx : IF u = t THEN api'[u] \in {"markSubmitted", "catch"}
                                    ELSE api'[u] = api[u]
        /\ \A u \in Tx : chain'[u] = chain[u] \/ u = t
    BY <1>0, <1>3, <2>0, SMTT(30) DEF SubmitTransfer, apiGoto
  <2>2. \A h \in Tx : chain[h] = "success" => chain'[h] = "success"
    BY <1>r, <2>1 DEF RowInv
  <2>3. \A u \in Tx : RowInv(u)'
    BY <1>r, <2>1 DEF RowInv
  <2> QED BY <2>1, <2>2, <2>3, ChainStepInv
<1>4. CASE MarkSubmitted(t)
  BY <1>4, MarkSubmittedInv
<1>5. CASE Enqueue(t)
  <2>1. /\ api[t] = "enqueue"
        /\ UNCHANGED <<status, txHash, events, chain, handler, resubmitting, recovery>>
        /\ job' = job \/ job' = queueAdd(<<"request", t>>)
    BY <1>5 DEF Enqueue
  <2>2. \A u \in Tx : api'[u] = api[u] \/ api'[u] \in {"catch", "done"}
    BY <1>0, <1>5 DEF Enqueue, apiGoto
  <2>3. \A u \in Tx : RowInv(u)'
    BY <2>1, <2>2, RowFrame
  <2>4. txHash[t] # NoHash
    BY <1>r, <2>1 DEF RowInv
  <2>5. \A j \in Job : queueAdd(<<"request", t>>)[j].state # "none" => txHash[j[2]] # NoHash
    BY <2>4, QueueAddHash, Zenon
  <2>6. \A j \in Job : job'[j].state # "none" => txHash[j[2]] # NoHash
    BY <2>1, <2>5 DEF PipelineInv, JobsHaveHash
  <2> QED BY <2>1, <2>3, <2>6, SameRowsInv
<1>6. CASE CatchFailure(t)
  <2>1. /\ UNCHANGED <<txHash, events, chain, job, handler, resubmitting, recovery>>
        /\ \A u \in Tx : api'[u] = api[u] \/ api'[u] = "done"
    BY <1>0, <1>6 DEF CatchFailure, apiGoto
  <2>2. \A u \in Tx : \/ status'[u] = status[u]
                      \/ status[u] \in {"PENDING", "CONFIRMING"} /\ status'[u] = "FAILED"
    BY <1>0, <1>6 DEF CatchFailure, markFailed, transitionFromAny, FailableFrom
  <2>3. \A u \in Tx : RowInv(u)'
    BY <2>1, <2>2, EndedRowFrame
  <2> QED BY <2>1, <2>2, <2>3, StatusInv
<1> QED BY <1>1, <1>2, <1>3, <1>4, <1>5, <1>6 DEF TransferRequest

\* Nor one of the chain, the listener or the clock.
LEMMA EnvironmentInv ==
  ASSUME TypeOK, PipelineInv, NEW t \in Tx,
         ChainDecides(t) \/ IndexTransfer(t) \/ GrowOlder(t) \/ PassDeadline(t)
  PROVE  PipelineInv'
<1> USE DEF dbVars, timeVars, chainVars, queueVars, sweepVars
<1>1. CASE ChainDecides(t)
  <2>0. chain \in [Tx -> {"absent", "seen", "success", "reverted"}]
    BY SMTT(30) DEF TypeOK
  <2>1. UNCHANGED <<status, txHash, events, api, job, handler, resubmitting, recovery>>
    BY <1>1 DEF ChainDecides
  <2>2. chain[t] = "seen" /\ \A u \in Tx : u # t => chain'[u] = chain[u]
    BY <1>1, <2>0 DEF ChainDecides
  <2>3. \A h \in Tx : chain[h] = "success" => chain'[h] = "success"
    BY <2>2
  <2>4. \A u \in Tx : RowInv(u)
    BY DEF PipelineInv
  <2>5. \A u \in Tx : RowInv(u)'
    BY <2>1, <2>2, <2>4 DEF RowInv
  <2> QED BY <2>1, <2>3, <2>5, ChainStepInv
<1>2. CASE IndexTransfer(t) \/ GrowOlder(t) \/ PassDeadline(t)
  <2>1. UNCHANGED <<status, txHash, events, chain, api, job, handler, resubmitting, recovery>>
    BY <1>2 DEF IndexTransfer, GrowOlder, PassDeadline
  <2>2. \A u \in Tx : RowInv(u)'
    BY <2>1, RowFrame, SMTT(30)
  <2> QED BY <2>1, <2>2, QuietInv
<1> QED BY <1>1, <1>2

\* A slot that moves to a claiming step only on the chain's success keeps it.
LEMMA GotoInv ==
  ASSUME TypeOK, PipelineInv, NEW w \in Worker, NEW label \in HandlerSteps,
         handler[w].at # "idle", goto(w, label),
         label \in {"claim", "stale", "persist"} => chain[txHash[txOf(w)]] = "success",
         UNCHANGED <<dbVars, api, chainVars, job, sweepVars>>
  PROVE  PipelineInv'
<1>0. UNCHANGED <<status, txHash, events, chain, api, job, resubmitting, recovery>>
  BY DEF dbVars, chainVars, sweepVars
<1>1. \A v \in Worker : /\ handler'[v].job = handler[v].job
                        /\ handler'[v].at = IF v = w THEN label ELSE handler[v].at
  BY TypeParts DEF goto, HandlerType
<1>2. \A v \in Worker : txOf(v)' = txOf(v)
  BY <1>1 DEF txOf
<1>3. \A j \in Job : job'[j].state # "none" => txHash[j[2]] # NoHash
  BY <1>0 DEF PipelineInv, JobsHaveHash
<1>4. \A v \in Worker : handler'[v].at # "idle" => txHash[txOf(v)'] # NoHash
  BY <1>1, <1>2 DEF PipelineInv, JobsHaveHash
<1>5. \A v \in Worker : handler'[v].at \in {"claim", "stale", "persist"} =>
                          chain[txHash[txOf(v)']] = "success"
  BY <1>1, <1>2 DEF PipelineInv, HandlerInv
<1> QED BY <1>0, <1>3, <1>4, <1>5, SlotInv

\* A slot that becomes idle while no job is added.
LEMMA IdleInv ==
  ASSUME PipelineInv, NEW w \in Worker,
         \A v \in Worker : handler'[v] = IF v = w THEN idleHandler ELSE handler[v],
         \A j \in Job : job'[j].state # "none" => job[j].state # "none",
         UNCHANGED <<dbVars, api, chainVars, sweepVars>>
  PROVE  PipelineInv'
<1>0. UNCHANGED <<status, txHash, events, chain, api, resubmitting, recovery>>
  BY DEF dbVars, chainVars, sweepVars
<1>1. \A v \in Worker : handler'[v].at # "idle" => handler'[v] = handler[v]
  BY DEF idleHandler
<1>2. \A v \in Worker : handler'[v].at # "idle" => txOf(v)' = txOf(v)
  BY <1>1 DEF txOf
<1>3. \A j \in Job : job'[j].state # "none" => txHash[j[2]] # NoHash
  BY DEF PipelineInv, JobsHaveHash
<1>4. \A v \in Worker : handler'[v].at # "idle" => txHash[txOf(v)'] # NoHash
  BY <1>1, <1>2 DEF PipelineInv, JobsHaveHash
<1>5. \A v \in Worker : handler'[v].at \in {"claim", "stale", "persist"} =>
                          chain[txHash[txOf(v)']] = "success"
  BY <1>1, <1>2, SMTT(30) DEF PipelineInv, HandlerInv
<1> QED BY <1>0, <1>3, <1>4, <1>5, SlotInv

\* A handler that returns or throws leaves its slot idle and adds no job.
LEMMA LeaveInv ==
  ASSUME TypeOK, PipelineInv, NEW w \in Worker, handler[w].at # "idle",
         jobThrew(w) \/ jobCompleted(w),
         UNCHANGED <<dbVars, api, chainVars, sweepVars>>
  PROVE  PipelineInv'
<1>1. handler[w].job \in Job
  BY TypeParts DEF HandlerType
<1>2. \A v \in Worker : handler'[v] = IF v = w THEN idleHandler ELSE handler[v]
  BY TypeParts DEF jobThrew, jobCompleted, HandlerType
<1>3. \A j \in Job : job'[j].state # "none" => job[j].state # "none"
  BY <1>1, TypeParts, PipelineAssumption, SMTT(30) DEF jobThrew, jobCompleted, QueueType, NoJobRecord
<1> QED BY <1>2, <1>3, IdleInv

\* A status change of the handler's own row, the outbox row with it, keeps it.
LEMMA HandlerWriteInv ==
  ASSUME TypeOK, PipelineInv, NEW w \in Worker, NEW label \in {"persist", "return"},
         handler[w].at # "idle", goto(w, label),
         NEW to \in {"CONFIRMING", "CONFIRMED", "FAILED"},
         status' = [status EXCEPT ![txOf(w)] = to],
         to # "FAILED" => chain[txHash[txOf(w)]] = "success",
         label = "persist" => chain[txHash[txOf(w)]] = "success",
         status[txOf(w)] \notin Terminal,
         events' = IF to = "CONFIRMED" THEN [events EXCEPT ![txOf(w)] = @ + 1] ELSE events,
         UNCHANGED <<txHash, api, chainVars, job, sweepVars>>
  PROVE  PipelineInv'
<1> DEFINE t == txOf(w)
<1>t. t \in Tx /\ txHash[t] # NoHash
  BY HashOfHandler, SMTT(30) DEF PipelineInv, JobsHaveHash
<1>r. \A u \in Tx : RowInv(u)
  BY DEF PipelineInv
<1>s. status[t] \notin {"NONE", "PENDING"}
  BY <1>r, <1>t, SMTT(30) DEF RowInv
<1>0. /\ status \in [Tx -> RowStatus] /\ events \in [Tx -> Nat]
      /\ UNCHANGED <<txHash, api, chain, job, resubmitting, recovery>>
  BY DEF TypeOK, chainVars, sweepVars
<1>1. \A v \in Worker : /\ handler'[v].job = handler[v].job
                        /\ handler'[v].at = IF v = w THEN label ELSE handler[v].at
  BY TypeParts, SMTT(30) DEF goto, HandlerType, HandlerSteps
<1>2. \A v \in Worker : txOf(v)' = txOf(v)
  BY <1>1 DEF txOf
<1>3. \A u \in Tx : /\ status'[u] = IF u = t THEN to ELSE status[u]
                    /\ events'[u] = IF u = t /\ to = "CONFIRMED" THEN events[u] + 1 ELSE events[u]
  BY <1>0, <1>t, SMTT(30)
<1> HIDE DEF t
<1>4. AnnouncedOnce'
  <2>1. status[t] # "CONFIRMED"
    BY DEF Terminal, t
  <2> QED BY <1>3, <1>t, <2>1, SMTT(30) DEF PipelineInv, AnnouncedOnce
<1>5. ConfirmingMeansSucceeded'
  <2>1. to # "FAILED" => chain[txHash[t]] = "success"
    BY DEF t
  <2> QED BY <1>0, <1>3, <1>t, <2>1 DEF PipelineInv, ConfirmingMeansSucceeded
<1>6. JobsHaveHash'
  BY <1>0, <1>1, <1>2, SMTT(30) DEF PipelineInv, JobsHaveHash
<1>7. \A v \in Worker : HandlerInv(v)'
  BY <1>0, <1>1, <1>2, SMTT(30) DEF PipelineInv, HandlerInv
<1>8. \A u \in Tx : api'[u] = "start" => status'[u] = "NONE"
  BY <1>0, <1>3, <1>r, <1>s, SMTT(30) DEF RowInv
<1>9. \A u \in Tx : RowInv(u)'
  BY <1>0, <1>3, <1>8, <1>r, SMTT(30) DEF RowInv
<1>10. OneRowPerHash'
  BY <1>0 DEF PipelineInv, OneRowPerHash
<1> QED BY <1>4, <1>5, <1>6, <1>7, <1>9, <1>10, SMTT(30) DEF PipelineInv

\* No step of a worker slot disturbs the invariant.
LEMMA HandlerStepInv ==
  ASSUME TypeOK, PipelineInv, NEW w \in Worker,
         HandlerStep(w) \/ HandlerThrows(w) \/ WorkerCrash(w)
  PROVE  PipelineInv'
<1> USE DEF HandlerSteps
<1>1. CASE ConfirmTransaction(w)
  <2>1. getTransaction(txOf(w)) = "confirmed" => chain[txHash[txOf(w)]] = "success"
    <3>1. txOf(w) \in Tx
      BY <1>1, TypeParts, JobTx DEF ConfirmTransaction, HandlerType, txOf
    <3> QED BY <3>1, PipelineAssumption
         DEF getTransaction, EvmGetTransaction, BitcoinGetTransaction, SolanaGetTransaction
  <2> QED BY <1>1, <2>1, GotoInv, LeaveInv DEF ConfirmTransaction
<1>2. CASE ClaimConfirmation(w)
  <2>1. chain[txHash[txOf(w)]] = "success"
    BY <1>2 DEF ClaimConfirmation, PipelineInv, HandlerInv
  <2>2. CASE markConfirming(txOf(w)) /\ goto(w, "persist")
    BY <1>2, <2>1, <2>2, HandlerWriteInv, ZenonT(30)
       DEF ClaimConfirmation, markConfirming, transition, Terminal
  <2>3. CASE goto(w, "stale") /\ UNCHANGED status
    BY <1>2, <2>1, <2>3, GotoInv, SMTT(30) DEF ClaimConfirmation, dbVars
  <2> QED BY <1>2, <2>2, <2>3, SMTT(30) DEF ClaimConfirmation
<1>3. CASE HandleStaleConfirmation(w)
  <2>1. chain[txHash[txOf(w)]] = "success"
    BY <1>3, SMTT(30) DEF HandleStaleConfirmation, PipelineInv, HandlerInv
  <2> QED BY <1>3, <2>1, GotoInv, LeaveInv, SMTT(30) DEF HandleStaleConfirmation
<1>4. CASE PersistConfirmation(w)
  <2>1. chain[txHash[txOf(w)]] = "success"
    BY <1>4 DEF PersistConfirmation, PipelineInv, HandlerInv
  <2>2. CASE /\ confirm(txOf(w)) /\ goto(w, "return")
             /\ events' = [events EXCEPT ![txOf(w)] = @ + 1]
    BY <1>4, <2>1, <2>2, HandlerWriteInv, ZenonT(30)
       DEF PersistConfirmation, confirm, transition, Terminal
  <2>3. CASE goto(w, "conflict") /\ UNCHANGED <<status, events>>
    BY <1>4, <2>3, GotoInv DEF PersistConfirmation, dbVars
  <2> QED BY <1>4, <2>2, <2>3, SMTT(30) DEF PersistConfirmation
<1>5. CASE HandleRevertedTransaction(w)
  <2>1. CASE markFailed(txOf(w)) /\ goto(w, "return")
    BY <1>5, <2>1, HandlerWriteInv, ZenonT(30)
       DEF HandleRevertedTransaction, markFailed, transitionFromAny, FailableFrom, Terminal
  <2>2. CASE goto(w, "conflict") /\ UNCHANGED status
    BY <1>5, <2>2, GotoInv DEF HandleRevertedTransaction, dbVars
  <2> QED BY <1>5, <2>1, <2>2 DEF HandleRevertedTransaction
<1>6. CASE ResolveConflict(w)
  BY <1>6, GotoInv, LeaveInv DEF ResolveConflict
<1>7. CASE ReturnFromHandler(w)
  BY <1>7, LeaveInv DEF ReturnFromHandler
<1>8. CASE HandlerThrows(w)
  BY <1>8, LeaveInv, SMTT(30) DEF HandlerThrows
<1>9. CASE WorkerCrash(w)
  <2>1. \A v \in Worker : handler'[v] = IF v = w THEN idleHandler ELSE handler[v]
    BY <1>9, TypeParts DEF WorkerCrash, HandlerType
  <2>2. UNCHANGED <<dbVars, api, chainVars, job, sweepVars>>
    BY <1>9 DEF WorkerCrash
  <2> QED BY <2>1, <2>2, IdleInv, SMTT(30)
<1> QED BY <1>1, <1>2, <1>3, <1>4, <1>5, <1>6, <1>7, <1>8, <1>9 DEF HandlerStep

\* The adoption of an indexed hash, refused or not.
LEMMA AdoptInv ==
  ASSUME TypeOK, PipelineInv, NEW t \in Tx, Adopt(t)
  PROVE  PipelineInv'
<1> DEFINE h == recovery[t].hash
<1> USE DEF timeVars, chainVars, queueVars, recoverGoto
<1>0. recovery \in [Tx -> [at : RecoverySteps, hash : Tx \cup {NoHash}]]
  BY DEF TypeOK
<1>1. h \in Tx
  <2>1. RowInv(t) /\ recovery[t].at = "adopt"
    BY DEF PipelineInv, Adopt
  <2> QED BY <1>0, <2>1 DEF RowInv
<1>2. CASE /\ markSubmitted(t, h)
           /\ recovery' = [recovery EXCEPT ![t] = [at |-> "enqueue", hash |-> h]]
  <2>1. UNCHANGED <<events, chain, job, handler, resubmitting, api>>
    BY DEF Adopt
  <2>2. \A u \in Tx : recovery'[u] = recovery[u] \/ (u = t /\ recovery'[u].at = "enqueue")
    BY <1>0, <1>2
  <2> QED BY <1>1, <1>2, <2>1, <2>2, SubmittedInv
<1>3. CASE /\ UNCHANGED <<status, txHash>>
           /\ recovery' = [recovery EXCEPT ![t] = [at |-> "idle", hash |-> NoHash]]
  <2>1. UNCHANGED <<status, txHash, events, chain, api, job, handler, resubmitting>>
    BY <1>3 DEF Adopt
  <2>2. \A u \in Tx : recovery'[u] = recovery[u] \/ recovery'[u].at = "idle"
    BY <1>0, <1>3
  <2>3. \A u \in Tx : RowInv(u)'
    BY <2>1, <2>2, RowFrame
  <2> QED BY <2>1, <2>3, QuietInv
<1> QED BY <1>2, <1>3 DEF Adopt

\* Nor the delivery of a job or its return to the queue.
LEMMA DeliveryInv ==
  ASSUME TypeOK, PipelineInv, NEW j \in Job,
         (\E w \in Worker : ProcessTransaction(w, j)) \/ JobStalled(j)
  PROVE  PipelineInv'
<1> USE DEF dbVars, chainVars, sweepVars
<1>h. JobsHaveHash /\ \A v \in Worker : HandlerInv(v)
  BY DEF PipelineInv
<1>1. ASSUME NEW w \in Worker, ProcessTransaction(w, j) PROVE PipelineInv'
  <2>0. UNCHANGED <<status, txHash, events, chain, api, resubmitting, recovery>>
    BY <1>1 DEF ProcessTransaction
  <2>1. txHash[j[2]] # NoHash
    BY <1>1, <1>h DEF ProcessTransaction, JobsHaveHash
  <2>2. \A v \in Worker : handler'[v] = IF v = w THEN [at |-> "receipt", job |-> j]
                                                 ELSE handler[v]
    BY <1>1, <2>1, TypeParts DEF ProcessTransaction, HandlerType
  <2>3. \A k \in Job : job'[k].state # "none" => job[k].state # "none"
    BY <1>1, TypeParts DEF ProcessTransaction, QueueType
  <2>4. \A k \in Job : job'[k].state # "none" => txHash[k[2]] # NoHash
    BY <1>h, <2>3 DEF JobsHaveHash
  <2>5. \A v \in Worker : txOf(v)' = IF v = w THEN j[2] ELSE txOf(v)
    BY <2>2 DEF txOf
  <2>6. \A v \in Worker : handler'[v].at # "idle" => txHash[txOf(v)'] # NoHash
    BY <1>h, <2>1, <2>2, <2>5, SMTT(30) DEF JobsHaveHash
  <2>7. \A v \in Worker : handler'[v].at \in {"claim", "stale", "persist"} =>
                            chain[txHash[txOf(v)']] = "success"
    BY <1>h, <2>2, <2>5 DEF HandlerInv
  <2> QED BY <2>0, <2>4, <2>6, <2>7, SlotInv
<1>2. CASE JobStalled(j)
  <2>0. UNCHANGED <<status, txHash, events, chain, api, handler, resubmitting, recovery>>
    BY <1>2 DEF JobStalled
  <2>1. \A k \in Job : job'[k].state # "none" => job[k].state # "none"
    BY <1>2, TypeParts DEF JobStalled, QueueType
  <2>2. \A k \in Job : job'[k].state # "none" => txHash[k[2]] # NoHash
    BY <1>h, <2>1, SMTT(30) DEF JobsHaveHash
  <2>3. \A u \in Tx : RowInv(u)'
    BY <2>0, RowFrame
  <2> QED BY <2>0, <2>2, <2>3, SameRowsInv
<1> QED BY <1>1, <1>2

\* A step of pending recovery that writes no row and leaves the queue alone.
LEMMA RecoveryQuietInv ==
  ASSUME PipelineInv,
         UNCHANGED <<dbVars, api, chainVars, queueVars, resubmitting>>,
         \A u \in Tx : \/ recovery'[u] = recovery[u]
                       \/ recovery'[u].at \in {"idle", "lookup", "health", "fail"}
                       \/ recovery'[u].at = "adopt" /\ recovery'[u].hash # NoHash
  PROVE  PipelineInv'
<1>1. UNCHANGED <<status, txHash, events, chain, api, job, handler, resubmitting>>
  BY DEF dbVars, chainVars, queueVars
<1>2. \A u \in Tx : RowInv(u)'
  BY <1>1, RowFrame
<1> QED BY <1>1, <1>2, QuietInv

\* Nor a step of a sweep, or its failure.
LEMMA SweepInv ==
  ASSUME TypeOK, PipelineInv,
         Sweeps \/ ExpirationAborts \/ ResubmitFails \/ RecoveryFails
  PROVE  PipelineInv'
<1>0. /\ status \in [Tx -> RowStatus]
      /\ recovery \in [Tx -> [at : RecoverySteps, hash : Tx \cup {NoHash}]]
  BY DEF TypeOK
<1>r. \A u \in Tx : RowInv(u)
  BY DEF PipelineInv
<1>1. CASE \/ ProcessExpiredTransactions \/ ExpirationAborts
           \/ ProcessSubmittedTransactions \/ ResubmitFails
  <2>1. UNCHANGED <<status, txHash, events, chain, api, job, handler, recovery>>
    BY <1>1, SMTT(30) DEF ProcessExpiredTransactions, ExpirationAborts, ProcessSubmittedTransactions,
                ResubmitFails, dbVars, chainVars, queueVars
  <2>2. \A u \in Tx : u \in resubmitting' => u \in resubmitting \/ txHash[u] # NoHash
    BY <1>1 DEF ProcessExpiredTransactions, ExpirationAborts, ProcessSubmittedTransactions,
                ResubmitFails, findSubmittedCandidates
  <2>3. \A u \in Tx : RowInv(u)'
    BY <2>1, <2>2, RowFrame
  <2> QED BY <2>1, <2>3, QuietInv
<1>2. ASSUME NEW t \in Tx, Expire(t) PROVE PipelineInv'
  <2>1. UNCHANGED <<txHash, events, chain, api, job, handler, resubmitting, recovery>>
    BY <1>2 DEF Expire, chainVars, queueVars
  <2>2. \A u \in Tx : \/ status'[u] = status[u]
                      \/ status[u] = "CONFIRMING" /\ status'[u] = "EXPIRED"
    BY <1>0, <1>2 DEF Expire, expire, transition
  <2>3. \A u \in Tx : RowInv(u)'
    BY <2>1, <2>2, EndedRowFrame
  <2> QED BY <2>1, <2>2, <2>3, StatusInv
<1>3. ASSUME NEW t \in Tx, Resubmit(t) \/ EnqueueAdopted(t) PROVE PipelineInv'
  <2>1. /\ UNCHANGED <<status, txHash, events, chain, api, handler>>
        /\ job' = queueAdd(<<"confirm", t>>)
    BY <1>3 DEF Resubmit, EnqueueAdopted, dbVars, chainVars
  <2>2. txHash[t] # NoHash
    BY <1>3, <1>r DEF Resubmit, EnqueueAdopted, RowInv
  <2>3. \A j \in Job : job'[j].state # "none" => txHash[j[2]] # NoHash
    BY <2>1, <2>2, QueueAddHash, Zenon
  <2>4. \A u \in Tx : /\ u \in resubmitting' => u \in resubmitting
                      /\ recovery'[u] = recovery[u] \/ recovery'[u].at = "idle"
    BY <1>0, <1>3 DEF Resubmit, EnqueueAdopted, recoverGoto
  <2>5. \A u \in Tx : RowInv(u)'
    BY <2>1, <2>4, RowFrame
  <2> QED BY <2>1, <2>3, <2>5, SameRowsInv
<1>4. CASE ProcessOrphanedPending
  <2>1. \A u \in Tx : recovery'[u] = recovery[u] \/ recovery'[u].at = "lookup"
    BY <1>4 DEF ProcessOrphanedPending
  <2> QED BY <1>4, <2>1, RecoveryQuietInv DEF ProcessOrphanedPending
<1>5. ASSUME NEW t \in Tx, RecoverOne(t) PROVE PipelineInv'
  <2> DEFINE match == findMatchingTransfer(t)
  <2>1. \/ match # NoHash /\ recovery' = [recovery EXCEPT ![t] = [at |-> "adopt", hash |-> match]]
        \/ \E label \in {"idle", "health"} :
             recovery' = [recovery EXCEPT ![t] = [at |-> label, hash |-> match]]
    BY <1>5, Zenon DEF RecoverOne, recoverGoto
  <2> HIDE DEF match
  <2>2. \A u \in Tx : \/ recovery'[u] = recovery[u] \/ recovery'[u].at \in {"idle", "health"}
                      \/ recovery'[u].at = "adopt" /\ recovery'[u].hash # NoHash
    BY <1>0, <2>1
  <2> QED BY <1>5, <2>2, RecoveryQuietInv DEF RecoverOne
<1>6. ASSUME NEW t \in Tx, IsEventListenerHealthy(t) PROVE PipelineInv'
  <2>1. \A u \in Tx : recovery'[u] = recovery[u] \/ recovery'[u].at \in {"idle", "fail"}
    BY <1>0, <1>6 DEF IsEventListenerHealthy, recoverGoto
  <2> QED BY <1>6, <2>1, RecoveryQuietInv DEF IsEventListenerHealthy
<1>7. ASSUME NEW t \in Tx, Adopt(t) PROVE PipelineInv'
  BY <1>7, AdoptInv, SMTT(30)
<1>8. ASSUME NEW t \in Tx, FailOrphan(t) PROVE PipelineInv'
  <2>1. UNCHANGED <<txHash, events, chain, api, job, handler, resubmitting>>
    BY <1>8 DEF FailOrphan, chainVars, queueVars
  <2>2. \A u \in Tx : recovery'[u] = recovery[u] \/ recovery'[u].at = "idle"
    BY <1>0, <1>8 DEF FailOrphan, recoverGoto
  <2>3. \A u \in Tx : \/ status'[u] = status[u]
                      \/ status[u] \in {"PENDING", "CONFIRMING"} /\ status'[u] = "FAILED"
    BY <1>0, <1>8, SMTT(30) DEF FailOrphan, markFailed, transitionFromAny, FailableFrom
  <2>4. \A u \in Tx : RowInv(u)'
    BY <2>1, <2>2, <2>3, EndedRowFrame, SMTT(30)
  <2> QED BY <2>1, <2>3, <2>4, StatusInv
<1>9. CASE RecoveryFails
  <2>1. \A u \in Tx : recovery'[u] = recovery[u] \/ recovery'[u].at = "idle"
    BY <1>0, <1>9 DEF RecoveryFails, recoverGoto
  <2> QED BY <1>9, <2>1, RecoveryQuietInv DEF RecoveryFails
<1> QED BY <1>1, <1>2, <1>3, <1>4, <1>5, <1>6, <1>7, <1>8, <1>9 DEF Sweeps, RecoveryStep

\* Every process together.
LEMMA InvStep == TypeOK /\ PipelineInv /\ [Next]_vars => PipelineInv'
<1> SUFFICES ASSUME TypeOK, PipelineInv, [Next]_vars PROVE PipelineInv'
  OBVIOUS
<1>1. CASE UNCHANGED vars
  <2>1. UNCHANGED <<status, txHash, events, chain, api, job, handler, resubmitting, recovery>>
    BY <1>1 DEF vars, dbVars, chainVars, queueVars, sweepVars
  <2>2. \A u \in Tx : RowInv(u)'
    BY <2>1, RowFrame
  <2> QED BY <2>1, <2>2, QuietInv
<1>2. CASE \E t \in Tx : TransferRequest(t)
  BY <1>2, RequestInv
<1>3. CASE \E w \in Worker : HandlerStep(w) \/ \E j \in Job : ProcessTransaction(w, j)
  BY <1>3, HandlerStepInv, DeliveryInv
<1>4. CASE Sweeps
  BY <1>4, SweepInv, SMTT(30)
<1>5. CASE Environment
  BY <1>5, EnvironmentInv, RequestInv, HandlerStepInv, DeliveryInv, SweepInv, ZenonT(30)
     DEF Environment, DeadJobStalled
<1> QED BY <1>1, <1>2, <1>3, <1>4, <1>5 DEF Next

\* An empty ledger satisfies the invariant.
LEMMA InvInit == Init => PipelineInv
BY JobTx DEF Init, PipelineInv, AnnouncedOnce, ConfirmingMeansSucceeded, OneRowPerHash,
       JobsHaveHash, RowInv, HandlerInv, NoJobRecord, idleHandler

\* PipelineInvariant: the inductive invariant of request, workers and sweeps holds
\* for every set of transfers, worker slots and faults.
THEOREM PipelineInvariant == Spec => []PipelineInv
<1>1. Init => TypeOK /\ PipelineInv
  BY TypeInit, InvInit
<1>2. TypeOK /\ PipelineInv /\ [Next]_vars => (TypeOK /\ PipelineInv)'
  BY TypeStep, InvStep
<1> QED BY <1>1, <1>2, PTL DEF Spec

\* ConfirmedIsAnnouncedOnce: a row is CONFIRMED exactly when it has its one outbox
\* event, however many workers and redeliveries raced (persistConfirmation).
THEOREM ConfirmedIsAnnouncedOnce == Spec => []AnnouncedOnce
<1>1. PipelineInv => AnnouncedOnce
  BY DEF PipelineInv
<1> QED BY <1>1, PipelineInvariant, PTL

\* ClaimsFollowSuccess: CONFIRMING, CONFIRMED and EXPIRED rows belong to transactions
\* that succeeded on chain (confirmTransaction, claimConfirmation, expire).
THEOREM ClaimsFollowSuccess == Spec => []ConfirmingMeansSucceeded
<1>1. PipelineInv => ConfirmingMeansSucceeded
  BY DEF PipelineInv
<1> QED BY <1>1, PipelineInvariant, PTL

\* HashesAreUnique: no two rows hold the same hash (markSubmitted by the request and
\* by pending recovery).
THEOREM HashesAreUnique == Spec => []OneRowPerHash
<1>1. PipelineInv => OneRowPerHash
  BY DEF PipelineInv
<1> QED BY <1>1, PipelineInvariant, PTL

\* QueueKnowsHashes: every job and every running handler has a hash to ask for
\* (processTransaction's txHash.missing branch is never taken).
THEOREM QueueKnowsHashes == Spec => []JobsHaveHash
<1>1. PipelineInv => JobsHaveHash
  BY DEF PipelineInv
<1> QED BY <1>1, PipelineInvariant, PTL

-----------------------------------------------------------------------------
(* What a step may do to a row: its hash is final, and its status and      *)
(* outbox event follow TransactionLifecycle.                               *)

\* Only a request's or an adoption's markSubmitted writes a hash, into a row without one.
LEMMA HashStep ==
  ASSUME TypeOK, PipelineInv, [Next]_vars, NEW t \in Tx, txHash[t] # NoHash
  PROVE  txHash'[t] = txHash[t]
<1> USE DEF dbVars, vars
<1>1. ASSUME NEW u \in Tx, NEW h, markSubmitted(u, h) PROVE txHash'[t] = txHash[t]
  BY <1>1 DEF markSubmitted, transition, PipelineInv, RowInv, TypeOK
<1>2. ASSUME NEW u \in Tx, TransferRequest(u) \/ RequestDbError(u) \/ ApiCrash(u)
      PROVE  txHash'[t] = txHash[t]
  BY <1>1, <1>2 DEF TransferRequest, RejectTransfer, CreatePending, SubmitTransfer, MarkSubmitted,
                    Enqueue, CatchFailure, RequestDbError, ApiCrash
<1>3. ASSUME NEW w \in Worker, \/ HandlerStep(w) \/ HandlerThrows(w) \/ WorkerCrash(w)
                               \/ \E j \in Job : ProcessTransaction(w, j)
      PROVE  txHash'[t] = txHash[t]
  BY <1>3 DEF HandlerStep, ConfirmTransaction, ClaimConfirmation, HandleStaleConfirmation,
              PersistConfirmation, HandleRevertedTransaction, ResolveConflict, ReturnFromHandler,
              HandlerThrows, WorkerCrash, ProcessTransaction
<1>4. ASSUME NEW u \in Tx, RecoveryStep(u) PROVE txHash'[t] = txHash[t]
  BY <1>1, <1>4, Zenon DEF RecoveryStep, RecoverOne, IsEventListenerHealthy, Adopt, EnqueueAdopted,
                    FailOrphan
<1>5. CASE Sweeps
  BY <1>4, <1>5, ZenonT(40) DEF Sweeps, ProcessExpiredTransactions, Expire, ProcessSubmittedTransactions,
                    Resubmit, ProcessOrphanedPending
<1>6. CASE Environment
  BY <1>2, <1>3, <1>6 DEF Environment, ChainDecides, IndexTransfer, GrowOlder, PassDeadline,
       DeadJobStalled, JobStalled, ExpirationAborts, ResubmitFails, RecoveryFails
<1>7. CASE UNCHANGED vars
  BY <1>7
<1> QED BY <1>2, <1>3, <1>5, <1>6, <1>7 DEF Next

\* HashNeverChanges: no process ever overwrites or clears a row's hash.
THEOREM HashNeverChanges == Spec => HashIsFinal
<1>1. TypeOK /\ PipelineInv /\ [Next]_vars =>
        [\A t \in Tx : txHash[t] # NoHash => txHash'[t] = txHash[t]]_vars
  BY HashStep
<1> QED BY <1>1, PipelineTypeCorrect, PipelineInvariant, PTL DEF Spec, HashIsFinal

\* A write along an allowed edge, with the event when it confirms, is an abstract step.
LEMMA EdgeStep ==
  ASSUME NEW t \in Tx, NEW to,
         \/ status[t] = "PENDING" /\ to \in {"SUBMITTED", "FAILED"}
         \/ status[t] = "SUBMITTED" /\ to = "CONFIRMING"
         \/ status[t] = "CONFIRMING" /\ to \in {"CONFIRMED", "FAILED", "EXPIRED"},
         status' = [status EXCEPT ![t] = to],
         events' = IF to = "CONFIRMED" THEN [events EXCEPT ![t] = @ + 1] ELSE events
  PROVE  Lifecycle!Next
<1>1. /\ to \in Lifecycle!TransactionStatus /\ status[t] # "NONE"
      /\ Lifecycle!canTransition(status[t], to)
  <2>1. CASE status[t] = "PENDING" /\ to \in {"SUBMITTED", "FAILED"}
    BY <2>1 DEF Lifecycle!TransactionStatus, Lifecycle!canTransition,
                Lifecycle!ALLOWED_TRANSITIONS
  <2>2. CASE status[t] = "SUBMITTED" /\ to = "CONFIRMING"
    BY <2>2 DEF Lifecycle!TransactionStatus, Lifecycle!canTransition,
                Lifecycle!ALLOWED_TRANSITIONS
  <2>3. CASE status[t] = "CONFIRMING" /\ to \in {"CONFIRMED", "FAILED", "EXPIRED"}
    BY <2>3 DEF Lifecycle!TransactionStatus, Lifecycle!canTransition,
                Lifecycle!ALLOWED_TRANSITIONS
  <2> QED BY <2>1, <2>2, <2>3
<1> QED BY <1>1, Zenon DEF Lifecycle!Next, Lifecycle!Transition

\* A step changes no row, creates one, or moves one along an allowed edge.
LEMMA RowStep ==
  ASSUME TypeOK, PipelineInv, [Next]_vars
  PROVE  [Lifecycle!Next]_<<status, events>>
<1> USE DEF dbVars, vars
<1> DEFINE Quiet == UNCHANGED <<status, events>>
           Row == Lifecycle!Next
<1>1. ASSUME NEW t \in Tx, NEW h, markSubmitted(t, h), UNCHANGED events PROVE Row
  <2>1. /\ status[t] = "PENDING"
        /\ status' = [status EXCEPT ![t] = "SUBMITTED"]
    BY <1>1 DEF markSubmitted, transition
  <2> QED BY <1>1, <2>1, EdgeStep, Zenon
<1>2. ASSUME NEW t \in Tx, markFailed(t), UNCHANGED events PROVE Row
  <2>1. /\ status[t] \in {"PENDING", "CONFIRMING"}
        /\ status' = [status EXCEPT ![t] = "FAILED"]
    BY <1>2 DEF markFailed, transitionFromAny, FailableFrom
  <2> QED BY <1>2, <2>1, EdgeStep, Zenon
<1>3. ASSUME NEW t \in Tx, markConfirming(t) \/ expire(t), UNCHANGED events PROVE Row
  BY <1>3, EdgeStep DEF markConfirming, expire, transition
<1>4. ASSUME NEW t \in Tx, confirm(t), events' = [events EXCEPT ![t] = @ + 1] PROVE Row
  <2>1. /\ status[t] = "CONFIRMING"
        /\ status' = [status EXCEPT ![t] = "CONFIRMED"]
    BY <1>4 DEF confirm, transition
  <2> QED BY <1>4, <2>1, EdgeStep, Zenon
<1> HIDE DEF Row
<1>5. ASSUME NEW t \in Tx, TransferRequest(t) \/ RequestDbError(t) \/ ApiCrash(t)
      PROVE  Quiet \/ Row
  <2>1. CASE CreatePending(t)
    BY <2>1, Zenon DEF Row, CreatePending, PipelineInv, RowInv, Lifecycle!Create, Lifecycle!Next
  <2> QED BY <1>1, <1>2, <1>5, <2>1
        DEF TransferRequest, RejectTransfer, SubmitTransfer, MarkSubmitted,
            Enqueue, CatchFailure, RequestDbError, ApiCrash
<1>6. ASSUME NEW w \in Worker, \/ HandlerStep(w) \/ HandlerThrows(w) \/ WorkerCrash(w)
                               \/ \E j \in Job : ProcessTransaction(w, j)
      PROVE  Quiet \/ Row
  <2>1. handler[w].at # "idle" => txOf(w) \in Tx
    BY TypeParts, JobTx DEF HandlerType, txOf
  <2>2. CASE ClaimConfirmation(w)
    BY <1>3, <2>1, <2>2 DEF ClaimConfirmation
  <2>3. CASE PersistConfirmation(w)
    BY <1>4, <2>1, <2>3 DEF PersistConfirmation
  <2>4. CASE HandleRevertedTransaction(w)
    BY <1>2, <2>1, <2>4 DEF HandleRevertedTransaction
  <2> QED BY <1>6, <2>2, <2>3, <2>4
        DEF HandlerStep, ConfirmTransaction, HandleStaleConfirmation, ResolveConflict,
            ReturnFromHandler, HandlerThrows, WorkerCrash, ProcessTransaction
<1>7. ASSUME NEW t \in Tx, RecoveryStep(t) \/ Expire(t) \/ Resubmit(t) PROVE Quiet \/ Row
  BY <1>1, <1>2, <1>3, <1>7, Zenon
     DEF RecoveryStep, RecoverOne, IsEventListenerHealthy, Adopt, EnqueueAdopted, FailOrphan,
         Expire, Resubmit
<1> USE DEF Row
<1>8. CASE Sweeps
  BY <1>7, <1>8 DEF Sweeps, ProcessExpiredTransactions, ProcessSubmittedTransactions,
                    ProcessOrphanedPending
<1>9. CASE Environment
  BY <1>5, <1>6, <1>9 DEF Environment, ChainDecides, IndexTransfer, GrowOlder, PassDeadline,
       DeadJobStalled, JobStalled, ExpirationAborts, ResubmitFails, RecoveryFails
<1>10. CASE UNCHANGED vars
  BY <1>10
<1> QED BY <1>5, <1>6, <1>8, <1>9, <1>10 DEF Next

\* PipelineImplementsLifecycle: request, workers, recovery and expiration together
\* only ever do to a row what ALLOWED_TRANSITIONS permits, and write the outbox event
\* in the step that makes the row CONFIRMED.
THEOREM PipelineImplementsLifecycle == Spec => LifecycleSpec
<1>1. Init => Lifecycle!Init
  BY DEF Init, Lifecycle!Init
<1>2. TypeOK /\ PipelineInv /\ [Next]_vars => [Lifecycle!Next]_(Lifecycle!lifecycleVars)
  BY RowStep DEF Lifecycle!lifecycleVars
<1> QED BY <1>1, <1>2, PipelineTypeCorrect, PipelineInvariant, PTL
     DEF Spec, LifecycleSpec, Lifecycle!Spec

\* A step of the lifecycle leaves a row in a terminal status alone.
LEMMA TerminalStays ==
  ASSUME TypeOK, Lifecycle!Next, NEW t \in Tx, status[t] \in Terminal
  PROVE  status'[t] = status[t] /\ events'[t] = events[t]
<1>1. status \in [Tx -> RowStatus] /\ DOMAIN events = Tx
  BY DEF TypeOK
<1>2. ASSUME NEW u \in Tx, Lifecycle!Create(u) PROVE status'[t] = status[t] /\ events'[t] = events[t]
  <2>1. u # t
    BY <1>2 DEF Lifecycle!Create, Terminal
  <2> QED
    BY <1>1, <1>2, <2>1 DEF Lifecycle!Create
<1>3. ASSUME NEW u \in Tx, NEW to \in Lifecycle!TransactionStatus, Lifecycle!Transition(u, to)
      PROVE  status'[t] = status[t] /\ events'[t] = events[t]
  <2>1. u # t
    BY <1>3 DEF Lifecycle!Transition, Lifecycle!canTransition, Lifecycle!ALLOWED_TRANSITIONS, Terminal
  <2> QED
    BY <1>1, <1>3, <2>1 DEF Lifecycle!Transition
<1> QED
  BY <1>2, <1>3, Zenon DEF Lifecycle!Next

\* TerminalRowsAreFinal: in every behaviour a CONFIRMED, FAILED or EXPIRED row keeps its
\* status and gets no second outbox event, whatever still runs on its behalf.
THEOREM TerminalRowsAreFinal == Spec => TerminalIsFinal
<1> DEFINE Final == \A t \in Tx : status[t] \in Terminal =>
                       status'[t] = status[t] /\ events'[t] = events[t]
<1>1. TypeOK /\ PipelineInv /\ [Next]_vars => Final
  <2> SUFFICES ASSUME TypeOK, PipelineInv, [Next]_vars PROVE Final
    OBVIOUS
  <2>1. CASE Lifecycle!Next
    BY <2>1, TerminalStays
  <2>2. CASE UNCHANGED <<status, events>>
    BY <2>2
  <2> QED
    BY <2>1, <2>2, RowStep
<1>2. TypeOK /\ PipelineInv /\ [Next]_vars => [Final]_vars
  BY <1>1
<1> QED
  BY <1>2, PipelineTypeCorrect, PipelineInvariant, PTL DEF Spec, TerminalIsFinal
=============================================================================

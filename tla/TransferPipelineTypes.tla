----------------------- MODULE TransferPipelineTypes ------------------------
(***************************************************************************)
(* Type correctness of TransferPipeline, for every set of requests, worker *)
(* slots, chains, addresses, attempts and faults, and the frame lemmas of  *)
(* its inductive invariant.                                                *)
(***************************************************************************)
EXTENDS TransferPipeline, TLAPS

\* A job id names a transaction.
LEMMA JobTx == \A j \in Job : j[2] \in Tx
BY DEF Job

\* The deterministic and the request's job id of t are jobs, and concern t.
LEMMA JobIds == \A t \in Tx : /\ <<"confirm", t>> \in Job /\ <<"confirm", t>>[2] = t
                              /\ <<"request", t>> \in Job /\ <<"request", t>>[2] = t
BY DEF Job

\* The matching heuristic answers with the hash of a stored row or with NoHash.
LEMMA MatchIsHash ==
  ASSUME TypeOK, NEW t \in Tx
  PROVE  findMatchingTransfer(t) \in Tx \cup {NoHash}
<1> DEFINE oldest == {i \in 1..Len(transfers) :
                        rowMatches(t, i) /\ \A k \in 1..(i - 1) : ~rowMatches(t, k)}
<1>1. CASE oldest = {}
  BY <1>1 DEF findMatchingTransfer
<1>2. CASE oldest # {}
  <2>1. (CHOOSE i \in oldest : TRUE) \in oldest
    BY <1>2
  <2>2. (CHOOSE i \in oldest : TRUE) \in 1..Len(transfers)
    BY <2>1
  <2>3. transfers[CHOOSE i \in oldest : TRUE] \in Tx
    BY <2>2 DEF TypeOK
  <2> QED BY <1>2, <2>3 DEF findMatchingTransfer
<1> QED BY <1>1, <1>2

-----------------------------------------------------------------------------
(* The queue's operations keep its type.                                   *)

\* queue.add yields a queue whether or not the id is taken.
LEMMA QueueAddType ==
  ASSUME QueueType(job), NEW j \in Job
  PROVE  QueueType(queueAdd(j))
BY PipelineAssumption DEF QueueType, queueAdd, NoJobRecord, JobRecord

\* A handler that returns leaves a queue and an idle slot.
LEMMA CompletedType ==
  ASSUME QueueType(job), HandlerType(handler), NEW w \in Worker,
         handler[w].at # "idle", jobCompleted(w)
  PROVE  QueueType(job') /\ HandlerType(handler')
<1>1. handler[w].job \in Job
  BY DEF HandlerType
<1>2. QueueType(job')
  BY <1>1, PipelineAssumption DEF QueueType, jobCompleted, NoJobRecord, JobRecord
<1>3. HandlerType(handler')
  BY DEF HandlerType, jobCompleted, idleHandler, HandlerSteps
<1> QED BY <1>2, <1>3

\* A handler that throws spends one attempt at most and leaves an idle slot.
LEMMA ThrewType ==
  ASSUME QueueType(job), HandlerType(handler), NEW w \in Worker,
         handler[w].at # "idle", jobThrew(w)
  PROVE  QueueType(job') /\ HandlerType(handler')
<1>1. handler[w].job \in Job
  BY DEF HandlerType
<1>2. QueueType(job')
  <2> DEFINE j == handler[w].job
  <2>1. CASE job[j].owner = w
    <3>1. job[j] \in JobRecord /\ job[j].attempts < MaxAttempts
      BY <1>1, <2>1, PipelineAssumption DEF QueueType
    <3> DEFINE new ==
          [state |-> IF job[j].attempts + 1 < MaxAttempts THEN "waiting" ELSE "failed",
           attempts |-> job[j].attempts + 1, stalls |-> job[j].stalls, owner |-> NoWorker]
    <3>2. /\ new \in JobRecord /\ new.owner = NoWorker
          /\ new.state \in {"waiting", "active"} => new.attempts < MaxAttempts
      BY <3>1, PipelineAssumption DEF JobRecord
    <3>3. job' = [job EXCEPT ![j] = new]
      BY <2>1 DEF jobThrew
    <3> HIDE DEF new
    <3> QED BY <1>1, <3>2, <3>3 DEF QueueType
  <2>2. CASE job[j].owner # w
    BY <2>2 DEF jobThrew
  <2> QED BY <2>1, <2>2
<1>3. HandlerType(handler')
  BY DEF HandlerType, jobThrew, idleHandler, HandlerSteps
<1> QED BY <1>2, <1>3

\* Moving a busy slot to another step of the handler keeps its job.
LEMMA GotoType ==
  ASSUME HandlerType(handler), NEW w \in Worker, handler[w].at # "idle",
         NEW label \in HandlerSteps, goto(w, label)
  PROVE  HandlerType(handler')
BY DEF HandlerType, goto

-----------------------------------------------------------------------------
(* Type correctness, one lemma per process.                                *)

\* The type of the queue and of the slots are the two lemmas' predicates.
LEMMA TypeParts == TypeOK => QueueType(job) /\ HandlerType(handler)
BY DEF TypeOK

\* Writing the hash keeps the columns typed.
LEMMA SubmittedType ==
  ASSUME TypeOK, NEW t \in Tx, NEW h \in Tx \cup {NoHash}, markSubmitted(t, h)
  PROVE  status' \in [Tx -> RowStatus] /\ txHash' \in [Tx -> Tx \cup {NoHash}]
<1>1. status' = [status EXCEPT ![t] = "SUBMITTED"] /\ txHash' = [txHash EXCEPT ![t] = h]
  BY DEF markSubmitted, transition
<1>2. status \in [Tx -> RowStatus] /\ txHash \in [Tx -> Tx \cup {NoHash}]
  BY DEF TypeOK
<1> QED BY <1>1, <1>2 DEF RowStatus, TransactionStatus

\* No step of a request, crashed or not, leaves the type.
LEMMA RequestType ==
  ASSUME TypeOK, NEW t \in Tx, TransferRequest(t) \/ RequestDbError(t) \/ ApiCrash(t)
  PROVE  TypeOK'
<1> USE DEF dbVars, timeVars, chainVars, queueVars, sweepVars, apiGoto, RequestSteps
<1>1. CASE RejectTransfer(t)
  BY <1>1 DEF TypeOK, RejectTransfer
<1>2. CASE CreatePending(t)
  BY <1>2 DEF TypeOK, CreatePending, RowStatus, TransactionStatus
<1>3. CASE SubmitTransfer(t)
  BY <1>3 DEF TypeOK, SubmitTransfer
<1>4. CASE MarkSubmitted(t)
  <2>1. status' \in [Tx -> RowStatus] /\ txHash' \in [Tx -> Tx \cup {NoHash}]
    <3>1. CASE markSubmitted(t, t)
      BY <3>1, SubmittedType
    <3>2. CASE UNCHANGED <<status, txHash>>
      BY <3>2 DEF TypeOK
    <3> QED BY <1>4, <3>1, <3>2 DEF MarkSubmitted
  <2>2. api' \in [Tx -> RequestSteps]
    BY <1>4, Zenon DEF TypeOK, MarkSubmitted
  <2> QED BY <1>4, <2>1, <2>2 DEF TypeOK, MarkSubmitted
<1>5. CASE CatchFailure(t)
  BY <1>5, Zenon DEF TypeOK, CatchFailure, markFailed, transitionFromAny, FailableFrom, RowStatus, TransactionStatus
<1>6. CASE RequestDbError(t)
  BY <1>6, Zenon DEF TypeOK, RequestDbError
<1>7. CASE ApiCrash(t)
  BY <1>7 DEF TypeOK, ApiCrash
<1>8. CASE Enqueue(t)
  <2>1. QueueType(job')
    BY <1>8, TypeParts, JobIds, QueueAddType, Zenon DEF Enqueue
  <2> QED BY <1>8, <2>1 DEF TypeOK, Enqueue
<1> QED BY <1>1, <1>2, <1>3, <1>4, <1>5, <1>6, <1>7, <1>8 DEF TransferRequest

\* Neither does a step of the chain, the listener or the clock.
LEMMA EnvironmentType ==
  ASSUME TypeOK, NEW t \in Tx,
         ChainDecides(t) \/ IndexTransfer(t) \/ GrowOlder(t) \/ PassDeadline(t)
  PROVE  TypeOK'
<1> USE DEF dbVars, timeVars, chainVars, queueVars, sweepVars
<1>1. CASE ChainDecides(t)
  BY <1>1 DEF TypeOK, ChainDecides
<1>2. CASE IndexTransfer(t)
  BY <1>2 DEF TypeOK, IndexTransfer
<1>3. CASE GrowOlder(t)
  <2>1. age' \in [Tx -> 0..2]
    <3>1. age \in [Tx -> 0..2] /\ age[t] \in 0..2 /\ age[t] < 2
      BY <1>3 DEF TypeOK, GrowOlder
    <3>2. age[t] + 1 \in 0..2
      BY <3>1
    <3>3. age' = [age EXCEPT ![t] = age[t] + 1]
      BY <1>3 DEF GrowOlder
    <3> QED BY <3>1, <3>2, <3>3
  <2> QED BY <1>3, <2>1 DEF TypeOK, GrowOlder
<1>4. CASE PassDeadline(t)
  BY <1>4 DEF TypeOK, PassDeadline
<1> QED BY <1>1, <1>2, <1>3, <1>4

\* Nor a step of a worker slot, a worker crash or an error inside a handler.
LEMMA HandlerStepType ==
  ASSUME TypeOK, NEW w \in Worker, HandlerStep(w) \/ HandlerThrows(w) \/ WorkerCrash(w)
  PROVE  TypeOK'
<1> USE TypeParts DEF dbVars, timeVars, chainVars, queueVars, sweepVars, HandlerSteps
<1>0. ASSUME QueueType(job'), HandlerType(handler'), UNCHANGED <<timeVars, api, chainVars, sweepVars>>,
             UNCHANGED <<txHash, createdAt>>, status' \in [Tx -> RowStatus],
             events' \in [Tx -> Nat]
      PROVE  TypeOK'
  BY <1>0 DEF TypeOK
<1>t. handler[w].at # "idle" => txOf(w) \in Tx
  BY JobTx DEF TypeOK, HandlerType, txOf
<1>s. status \in [Tx -> RowStatus] /\ events \in [Tx -> Nat]
  BY DEF TypeOK
<1>1. CASE ConfirmTransaction(w)
  <2>1. QueueType(job') /\ HandlerType(handler')
    BY <1>1, GotoType, ThrewType DEF ConfirmTransaction
  <2> QED BY <1>0, <1>1, <1>s, <2>1 DEF ConfirmTransaction
<1>2. CASE HandleStaleConfirmation(w)
  <2>1. QueueType(job') /\ HandlerType(handler')
    BY <1>2, GotoType, ThrewType DEF HandleStaleConfirmation
  <2> QED BY <1>0, <1>2, <1>s, <2>1 DEF HandleStaleConfirmation
<1>3. CASE ResolveConflict(w)
  <2>1. QueueType(job') /\ HandlerType(handler')
    BY <1>3, GotoType, ThrewType DEF ResolveConflict
  <2> QED BY <1>0, <1>3, <1>s, <2>1 DEF ResolveConflict
<1>4. CASE ClaimConfirmation(w)
  <2>1. QueueType(job') /\ HandlerType(handler')
    BY <1>4, GotoType DEF ClaimConfirmation
  <2>2. status' \in [Tx -> RowStatus] /\ events' \in [Tx -> Nat]
    BY <1>4, <1>s, <1>t DEF ClaimConfirmation, markConfirming, transition, RowStatus, TransactionStatus
  <2> QED BY <1>0, <1>4, <2>1, <2>2 DEF ClaimConfirmation
<1>5. CASE PersistConfirmation(w)
  <2>1. QueueType(job') /\ HandlerType(handler')
    BY <1>5, GotoType DEF PersistConfirmation
  <2>2. status' \in [Tx -> RowStatus] /\ events' \in [Tx -> Nat]
    BY <1>5, <1>s, <1>t DEF PersistConfirmation, confirm, transition, RowStatus, TransactionStatus
  <2> QED BY <1>0, <1>5, <2>1, <2>2 DEF PersistConfirmation
<1>6. CASE HandleRevertedTransaction(w)
  <2>1. QueueType(job') /\ HandlerType(handler')
    BY <1>6, GotoType DEF HandleRevertedTransaction
  <2>2. status' \in [Tx -> RowStatus] /\ events' \in [Tx -> Nat]
    BY <1>6, <1>s, <1>t DEF HandleRevertedTransaction, markFailed, transitionFromAny, RowStatus, TransactionStatus
  <2> QED BY <1>0, <1>6, <2>1, <2>2 DEF HandleRevertedTransaction
<1>7. CASE ReturnFromHandler(w)
  BY <1>0, <1>7, <1>s, CompletedType DEF ReturnFromHandler
<1>8. CASE HandlerThrows(w)
  BY <1>0, <1>8, <1>s, ThrewType DEF HandlerThrows
<1>9. CASE WorkerCrash(w)
  <2>1. HandlerType(handler')
    BY <1>9 DEF WorkerCrash, HandlerType, idleHandler
  <2> QED BY <1>0, <1>9, <1>s, <2>1 DEF WorkerCrash
<1> QED BY <1>1, <1>2, <1>3, <1>4, <1>5, <1>6, <1>7, <1>8, <1>9 DEF HandlerStep

\* Nor the delivery of a job or its return to the queue by the stall check.
LEMMA DeliveryType ==
  ASSUME TypeOK, NEW j \in Job,
         (\E w \in Worker : ProcessTransaction(w, j)) \/ JobStalled(j)
  PROVE  TypeOK'
<1> USE TypeParts DEF dbVars, timeVars, chainVars, queueVars, sweepVars
<1>1. job[j] \in JobRecord /\ (job[j].state \in {"waiting", "active"} => job[j].attempts < MaxAttempts)
  BY DEF QueueType
<1>2. ASSUME NEW w \in Worker, ProcessTransaction(w, j)
      PROVE  TypeOK'
  <2> DEFINE new == [state |-> "active", attempts |-> job[j].attempts,
                     stalls |-> job[j].stalls, owner |-> w]
  <2>1. /\ new \in JobRecord /\ new.state = "active" /\ new.attempts < MaxAttempts
    BY <1>1, <1>2 DEF ProcessTransaction, JobRecord
  <2>2. job' = [job EXCEPT ![j] = new]
    BY <1>2 DEF ProcessTransaction
  <2> HIDE DEF new
  <2>3. QueueType(job')
    BY <2>1, <2>2 DEF QueueType
  <2>4. HandlerType(handler')
    BY <1>2, PipelineAssumption DEF ProcessTransaction, HandlerType, HandlerSteps, Job
  <2> QED BY <1>2, <2>3, <2>4 DEF TypeOK, ProcessTransaction
<1>3. CASE JobStalled(j)
  <2> DEFINE again == job[j].stalls < MaxStalls
             new == [state |-> IF again THEN "waiting" ELSE "failed",
                     attempts |-> job[j].attempts,
                     stalls |-> IF again THEN job[j].stalls + 1 ELSE job[j].stalls,
                     owner |-> NoWorker]
  <2>1. /\ new \in JobRecord /\ new.owner = NoWorker /\ new.attempts < MaxAttempts
    BY <1>1, <1>3, PipelineAssumption DEF JobStalled, JobRecord
  <2>2. job' = [job EXCEPT ![j] = new]
    BY <1>3 DEF JobStalled
  <2> HIDE DEF new
  <2>3. QueueType(job')
    BY <2>1, <2>2 DEF QueueType
  <2> QED BY <1>3, <2>3 DEF TypeOK, JobStalled
<1> QED BY <1>2, <1>3

\* Nor a step of a sweep, or its failure.
LEMMA SweepType ==
  ASSUME TypeOK, Sweeps \/ ExpirationAborts \/ ResubmitFails \/ RecoveryFails
  PROVE  TypeOK'
<1> USE DEF dbVars, timeVars, chainVars, queueVars, sweepVars, recoverGoto, RecoverySteps
<1>1. CASE ProcessExpiredTransactions \/ ExpirationAborts
  BY <1>1 DEF TypeOK, ProcessExpiredTransactions, ExpirationAborts, findExpiredCandidates
<1>2. ASSUME NEW t \in Tx, Expire(t) PROVE TypeOK'
  BY <1>2, Zenon DEF TypeOK, Expire, expire, transition, RowStatus, TransactionStatus
<1>3. CASE ProcessSubmittedTransactions \/ ResubmitFails
  BY <1>3 DEF TypeOK, ProcessSubmittedTransactions, ResubmitFails, findSubmittedCandidates
<1>4. ASSUME NEW t \in Tx, Resubmit(t) PROVE TypeOK'
  <2>1. QueueType(job')
    BY <1>4, TypeParts, JobIds, QueueAddType, Zenon DEF Resubmit
  <2> QED BY <1>4, <2>1 DEF TypeOK, Resubmit
<1>5. CASE ProcessOrphanedPending
  BY <1>5 DEF TypeOK, ProcessOrphanedPending
<1>6. ASSUME NEW t \in Tx, RecoverOne(t) PROVE TypeOK'
  <2>1. findMatchingTransfer(t) \in Tx \cup {NoHash}
    BY MatchIsHash DEF TypeOK
  <2>2. recovery' \in [Tx -> [at : RecoverySteps, hash : Tx \cup {NoHash}]]
    BY <1>6, <2>1 DEF TypeOK, RecoverOne
  <2> QED BY <1>6, <2>2 DEF TypeOK, RecoverOne
<1>7. ASSUME NEW t \in Tx, IsEventListenerHealthy(t) PROVE TypeOK'
  BY <1>7 DEF TypeOK, IsEventListenerHealthy
<1>8. ASSUME NEW t \in Tx, Adopt(t) PROVE TypeOK'
  <2>1. recovery[t].hash \in Tx \cup {NoHash}
    BY DEF TypeOK
  <2>2. status' \in [Tx -> RowStatus] /\ txHash' \in [Tx -> Tx \cup {NoHash}]
    <3>1. CASE markSubmitted(t, recovery[t].hash)
      BY <2>1, <3>1, SubmittedType
    <3>2. CASE UNCHANGED <<status, txHash>>
      BY <3>2 DEF TypeOK
    <3> QED BY <1>8, <3>1, <3>2 DEF Adopt
  <2>3. recovery' \in [Tx -> [at : RecoverySteps, hash : Tx \cup {NoHash}]]
    <3>1. \/ recovery' = [recovery EXCEPT ![t] = [at |-> "enqueue", hash |-> recovery[t].hash]]
          \/ recovery' = [recovery EXCEPT ![t] = [at |-> "idle", hash |-> NoHash]]
      BY <1>8 DEF Adopt
    <3>2. recovery \in [Tx -> [at : RecoverySteps, hash : Tx \cup {NoHash}]]
      BY DEF TypeOK
    <3> QED BY <2>1, <3>1, <3>2
  <2> QED BY <1>8, <2>2, <2>3 DEF TypeOK, Adopt
<1>9. ASSUME NEW t \in Tx, EnqueueAdopted(t) PROVE TypeOK'
  <2>1. QueueType(job')
    BY <1>9, TypeParts, JobIds, QueueAddType, Zenon DEF EnqueueAdopted
  <2> QED BY <1>9, <2>1 DEF TypeOK, EnqueueAdopted
<1>10. ASSUME NEW t \in Tx, FailOrphan(t) PROVE TypeOK'
  <2>1. status' \in [Tx -> RowStatus]
    BY <1>10, Zenon DEF TypeOK, FailOrphan, markFailed, transitionFromAny, RowStatus, TransactionStatus
  <2> QED BY <1>10, <2>1, Zenon DEF TypeOK, FailOrphan
<1>11. CASE RecoveryFails
  <2>1. recovery' \in [Tx -> [at : RecoverySteps, hash : Tx \cup {NoHash}]]
    <3>1. ASSUME NEW t \in Tx, recoverGoto(t, "idle", NoHash) PROVE recovery' \in [Tx -> [at : RecoverySteps, hash : Tx \cup {NoHash}]]
      BY <3>1 DEF TypeOK
    <3>2. CASE recovery' = [t \in Tx |-> [at |-> "idle", hash |-> NoHash]]
      BY <3>2
    <3> QED BY <1>11, <3>1, <3>2 DEF RecoveryFails
  <2> QED BY <1>11, <2>1 DEF TypeOK, RecoveryFails
<1> QED BY <1>1, <1>2, <1>3, <1>4, <1>5, <1>6, <1>7, <1>8, <1>9, <1>10, <1>11
        DEF Sweeps, RecoveryStep

\* Every process together.
LEMMA TypeStep == TypeOK /\ [Next]_vars => TypeOK'
<1> SUFFICES ASSUME TypeOK, [Next]_vars PROVE TypeOK'
  OBVIOUS
<1>1. CASE UNCHANGED vars
  BY <1>1 DEF TypeOK, vars, dbVars, timeVars, chainVars, queueVars, sweepVars
<1>2. CASE \E t \in Tx : TransferRequest(t)
  BY <1>2, RequestType
<1>3. CASE \E w \in Worker : HandlerStep(w) \/ \E j \in Job : ProcessTransaction(w, j)
  BY <1>3, HandlerStepType, DeliveryType
<1>4. CASE Sweeps
  BY <1>4, SweepType
<1>5. CASE Environment
  BY <1>5, EnvironmentType, RequestType, HandlerStepType, DeliveryType, SweepType
     DEF Environment, DeadJobStalled
<1> QED BY <1>1, <1>2, <1>3, <1>4, <1>5 DEF Next

\* The empty database and queue have the type.
LEMMA TypeInit == Init => TypeOK
BY PipelineAssumption
   DEF Init, TypeOK, QueueType, HandlerType, NoJobRecord, idleHandler, JobRecord,
       RowStatus, RequestSteps, HandlerSteps, RecoverySteps

\* PipelineTypeCorrect: tables, queue, handlers and sweeps keep their types for
\* every number of transfers, workers, attempts and stalls; in particular no job
\* ever runs beyond MaxAttempts (jobThrew, JobStalled).
THEOREM PipelineTypeCorrect == Spec => []TypeOK
BY TypeInit, TypeStep, PTL DEF Spec

-----------------------------------------------------------------------------
(* The inductive invariant: what a kind of step leaves alone.              *)

\* ConfirmingMeansSucceeded and HandlerInv speak of hashes in Tx.
LEMMA HashOfHandler ==
  ASSUME TypeOK, JobsHaveHash, NEW w \in Worker, handler[w].at # "idle"
  PROVE  handler[w].job \in Job /\ txOf(w) \in Tx /\ txHash[txOf(w)] \in Tx
<1>1. handler[w].job \in Job
  BY TypeParts DEF HandlerType
<1>2. txOf(w) \in Tx
  BY <1>1, JobTx DEF txOf
<1>3. txHash[txOf(w)] # NoHash
  BY DEF JobsHaveHash
<1>4. txHash \in [Tx -> Tx \cup {NoHash}]
  BY DEF TypeOK
<1> QED BY <1>1, <1>2, <1>3, <1>4

\* A step that changes no row, chain state or slot, and adds jobs of rows with a
\* hash only, keeps all but the part of the rows.
LEMMA SameRowsInv ==
  ASSUME PipelineInv, UNCHANGED <<status, txHash, events, chain, handler>>,
         \A j \in Job : job'[j].state # "none" => txHash[j[2]] # NoHash,
         \A u \in Tx : RowInv(u)'
  PROVE  PipelineInv'
<1>1. AnnouncedOnce' /\ ConfirmingMeansSucceeded' /\ OneRowPerHash'
  BY DEF PipelineInv, AnnouncedOnce, ConfirmingMeansSucceeded, OneRowPerHash
<1>2. \A w \in Worker : txOf(w)' = txOf(w)
  BY DEF txOf
<1>3. JobsHaveHash'
  BY <1>2 DEF PipelineInv, JobsHaveHash
<1>4. \A w \in Worker : HandlerInv(w)'
  BY <1>2 DEF PipelineInv, HandlerInv
<1> QED BY <1>1, <1>3, <1>4 DEF PipelineInv

\* The same for a step that leaves the queue alone as well.
LEMMA QuietInv ==
  ASSUME PipelineInv, UNCHANGED <<status, txHash, events, chain, job, handler>>,
         \A u \in Tx : RowInv(u)'
  PROVE  PipelineInv'
<1>1. \A j \in Job : job'[j].state # "none" => txHash[j[2]] # NoHash
  BY DEF PipelineInv, JobsHaveHash
<1> QED BY <1>1, SameRowsInv

\* A status change without event: nothing becomes or stops being CONFIRMED, and
\* only a CONFIRMING row becomes EXPIRED.
LEMMA StatusInv ==
  ASSUME PipelineInv, UNCHANGED <<txHash, events, chain, job, handler>>,
         \A u \in Tx : \/ status'[u] = status[u]
                       \/ status[u] # "CONFIRMED" /\ status'[u] \in {"PENDING", "FAILED"}
                       \/ status[u] = "CONFIRMING" /\ status'[u] = "EXPIRED",
         \A u \in Tx : RowInv(u)'
  PROVE  PipelineInv'
<1>1. AnnouncedOnce'
  BY DEF PipelineInv, AnnouncedOnce
<1>2. ConfirmingMeansSucceeded'
  BY DEF PipelineInv, ConfirmingMeansSucceeded
<1>3. OneRowPerHash'
  BY DEF PipelineInv, OneRowPerHash
<1>4. \A w \in Worker : txOf(w)' = txOf(w)
  BY DEF txOf
<1>5. JobsHaveHash' /\ \A w \in Worker : HandlerInv(w)'
  BY <1>4 DEF PipelineInv, JobsHaveHash, HandlerInv
<1> QED BY <1>1, <1>2, <1>3, <1>5 DEF PipelineInv

\* A step of the chain that does not undo a success.
LEMMA ChainStepInv ==
  ASSUME TypeOK, PipelineInv, UNCHANGED <<status, txHash, events, job, handler>>,
         \A h \in Tx : chain[h] = "success" => chain'[h] = "success",
         \A u \in Tx : RowInv(u)'
  PROVE  PipelineInv'
<1>1. AnnouncedOnce' /\ OneRowPerHash'
  BY DEF PipelineInv, AnnouncedOnce, OneRowPerHash
<1>2. txHash \in [Tx -> Tx \cup {NoHash}]
  BY DEF TypeOK
<1>3. ConfirmingMeansSucceeded'
  BY <1>2 DEF PipelineInv, ConfirmingMeansSucceeded
<1>4. \A w \in Worker : txOf(w)' = txOf(w)
  BY DEF txOf
<1>5. JobsHaveHash /\ JobsHaveHash'
  BY <1>4 DEF PipelineInv, JobsHaveHash
<1>6. ASSUME NEW w \in Worker, handler[w].at \in {"claim", "stale", "persist"}
      PROVE  chain'[txHash[txOf(w)]] = "success"
  <2>1. txHash[txOf(w)] \in Tx
    BY <1>5, <1>6, HashOfHandler
  <2> QED BY <1>6, <2>1 DEF PipelineInv, HandlerInv
<1>7. \A w \in Worker : HandlerInv(w)'
  BY <1>4, <1>6 DEF HandlerInv
<1> QED BY <1>1, <1>3, <1>5, <1>7 DEF PipelineInv

\* Writing a fresh hash with the status disturbs no other row and no running handler.
LEMMA SubmittedInv ==
  ASSUME TypeOK, PipelineInv, NEW t \in Tx, NEW h \in Tx, markSubmitted(t, h),
         UNCHANGED <<events, chain, job, handler, resubmitting>>,
         \A u \in Tx : /\ api'[u] = api[u] \/ (u = t /\ api'[u] \in {"enqueue", "catch"})
                       /\ \/ recovery'[u] = recovery[u]
                          \/ u = t /\ recovery'[u].at = "enqueue"
  PROVE  PipelineInv'
<1>0. /\ status \in [Tx -> RowStatus] /\ txHash \in [Tx -> Tx \cup {NoHash}]
  BY DEF TypeOK
<1>1. /\ status[t] = "PENDING" /\ h # NoHash
      /\ \A u \in Tx : txHash[u] # h
      /\ \A u \in Tx : status'[u] = IF u = t THEN "SUBMITTED" ELSE status[u]
      /\ \A u \in Tx : txHash'[u] = IF u = t THEN h ELSE txHash[u]
  BY <1>0, PipelineAssumption DEF markSubmitted, canMarkSubmitted, transition
<1>t. txHash[t] = NoHash
  BY <1>1 DEF PipelineInv, RowInv
<1>2. AnnouncedOnce'
  BY <1>1 DEF PipelineInv, AnnouncedOnce
<1>3. ConfirmingMeansSucceeded'
  BY <1>1 DEF PipelineInv, ConfirmingMeansSucceeded
<1>4. OneRowPerHash'
  BY <1>1 DEF PipelineInv, OneRowPerHash
<1>5. \A w \in Worker : txOf(w)' = txOf(w)
  BY DEF txOf
<1>6. ASSUME NEW w \in Worker, handler[w].at # "idle"
      PROVE  txOf(w) \in Tx /\ txOf(w) # t /\ txHash'[txOf(w)] = txHash[txOf(w)]
  <2>1. txOf(w) \in Tx /\ txHash[txOf(w)] # NoHash
    BY <1>6, HashOfHandler DEF PipelineInv, JobsHaveHash
  <2> QED BY <1>1, <1>t, <2>1
<1>7. \A j \in Job : j[2] \in Tx
  BY JobTx
<1>8. \A u \in Tx : txHash[u] # NoHash => txHash'[u] # NoHash
  BY <1>1
<1>9. JobsHaveHash'
  BY <1>5, <1>6, <1>7, <1>8 DEF PipelineInv, JobsHaveHash
<1>10. \A w \in Worker : HandlerInv(w)'
  BY <1>5, <1>6 DEF PipelineInv, HandlerInv
<1>11. ASSUME NEW u \in Tx PROVE RowInv(u)'
  BY <1>1, <1>8, <1>11 DEF PipelineInv, RowInv
<1> QED BY <1>2, <1>3, <1>4, <1>9, <1>10, <1>11 DEF PipelineInv

\* Adding the job of a row that has its hash keeps the queue's part.
LEMMA QueueAddHash ==
  ASSUME TypeOK, PipelineInv, NEW t \in Tx, txHash[t] # NoHash,
         NEW kind \in {"request", "confirm"}
  PROVE  \A j \in Job : queueAdd(<<kind, t>>)[j].state # "none" => txHash[j[2]] # NoHash
<1>1. job \in [Job -> JobRecord]
  BY TypeParts DEF QueueType
<1>2. \A j \in Job : job[j].state # "none" => txHash[j[2]] # NoHash
  BY DEF PipelineInv, JobsHaveHash
<1>3. <<kind, t>> \in Job /\ <<kind, t>>[2] = t
  BY DEF Job
<1>4. \A j \in Job : j # <<kind, t>> => queueAdd(<<kind, t>>)[j] = job[j]
  BY <1>1 DEF queueAdd
<1> QED BY <1>2, <1>3, <1>4

\* Steps of requests and sweeps that keep the part of a row: a request that ends,
\* a batch of rows with a hash, a recovery that adopts a hash or gives up.
LEMMA RowFrame ==
  ASSUME PipelineInv, NEW u \in Tx, UNCHANGED <<txHash, chain>>,
         status'[u] = status[u],
         api'[u] = api[u] \/ api'[u] \in {"catch", "done", "crashed"},
         u \in resubmitting' => u \in resubmitting \/ txHash[u] # NoHash,
         \/ recovery'[u] = recovery[u]
         \/ recovery'[u].at \in {"idle", "lookup", "health", "fail"}
         \/ recovery'[u].at = "adopt" /\ recovery'[u].hash # NoHash
  PROVE  RowInv(u)'
<1>1. RowInv(u)
  BY DEF PipelineInv
<1> QED BY <1>1 DEF RowInv

\* Rows that fail or expire: whatever else their request and recovery do, they end.
LEMMA EndedRowFrame ==
  ASSUME PipelineInv, NEW u \in Tx, UNCHANGED <<txHash, chain, resubmitting>>,
         status'[u] = status[u] \/ (status'[u] \in {"FAILED", "EXPIRED"} /\ status[u] # "NONE"),
         api'[u] = api[u] \/ api'[u] = "done",
         recovery'[u] = recovery[u] \/ recovery'[u].at = "idle"
  PROVE  RowInv(u)'
<1>1. RowInv(u)
  BY DEF PipelineInv
<1> QED BY <1>1 DEF RowInv

\* A slot that changes alone, or with the queue.
LEMMA SlotInv ==
  ASSUME PipelineInv,
         UNCHANGED <<status, txHash, events, chain, api, resubmitting, recovery>>,
         \A j \in Job : job'[j].state # "none" => txHash[j[2]] # NoHash,
         \A v \in Worker : handler'[v].at # "idle" => txHash[txOf(v)'] # NoHash,
         \A v \in Worker : handler'[v].at \in {"claim", "stale", "persist"} =>
                             chain[txHash[txOf(v)']] = "success"
  PROVE  PipelineInv'
<1>1. AnnouncedOnce' /\ ConfirmingMeansSucceeded' /\ OneRowPerHash'
  BY DEF PipelineInv, AnnouncedOnce, ConfirmingMeansSucceeded, OneRowPerHash
<1>2. JobsHaveHash'
  BY DEF JobsHaveHash
<1>3. \A w \in Worker : HandlerInv(w)'
  BY DEF HandlerInv
<1>4. \A u \in Tx : RowInv(u)'
  BY DEF PipelineInv, RowInv
<1> QED BY <1>1, <1>2, <1>3, <1>4 DEF PipelineInv
=============================================================================

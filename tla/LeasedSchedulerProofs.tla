------------------------ MODULE LeasedSchedulerProofs ------------------------
(***************************************************************************)
(* Proofs about LeasedScheduler, and about the worker process around it,   *)
(* for every set of processes, TTL, renewal interval and set of faults,    *)
(* and every timeout, retry limit and delay of its RPC calls.              *)
(***************************************************************************)
EXTENDS WorkerProcess, FiniteSetTheorems, TLAPS

\* The type invariant of the lease row and of every process is preserved by every step.
THEOREM LeaseTypeCorrect == Spec => []TypeOK
<1>1. Init => TypeOK
  BY LeaseAssumption DEF Init, TypeOK, Off
<1>2. TypeOK /\ [Next]_vars => TypeOK'
  <2> SUFFICES ASSUME TypeOK, [Next]_vars PROVE TypeOK'
    OBVIOUS
  <2> USE LeaseAssumption DEF TypeOK, Off
  <2>1. CASE Tick
    BY <2>1 DEF Tick, less
  <2>2. ASSUME NEW n \in Node, Scheduler(n) PROVE TypeOK'
    <3>1. CASE Start(n) BY <3>1 DEF Start
    <3>2. CASE Run(n) BY <3>2 DEF Run
    <3>3. CASE Acquire(n) BY <3>3 DEF Acquire, canTake
    <3>4. CASE FinishWork(n) BY <3>4 DEF FinishWork
    <3>5. CASE Release(n) BY <3>5 DEF Release, released
    <3>6. CASE RenewTimerFires(n) BY <3>6 DEF RenewTimerFires
    <3>7. CASE RenewLease(n) BY <3>7 DEF RenewLease, canRenew
    <3>8. CASE AcquireAnswered(n) BY <3>8 DEF AcquireAnswered, startLeaseRenewal
    <3> QED BY <2>2, <3>1, <3>2, <3>3, <3>4, <3>5, <3>6, <3>7, <3>8 DEF Scheduler
  <2>3. ASSUME NEW n \in Node, Faulty(n) PROVE TypeOK'
    <3>1. CASE Stop(n) BY <3>1 DEF Stop
    <3>2. CASE Crash(n) BY <3>2 DEF Crash, canTake
    <3>3. CASE AcquireThrows(n) BY <3>3 DEF AcquireThrows
    <3>4. CASE ReleaseThrows(n) BY <3>4 DEF ReleaseThrows, released
    <3>5. CASE RenewThrows(n) BY <3>5 DEF RenewThrows, canRenew
    <3> QED BY <2>3, <3>1, <3>2, <3>3, <3>4, <3>5 DEF Faulty
  <2>4. CASE UNCHANGED vars
    BY <2>4 DEF vars
  <2> QED BY <2>1, <2>2, <2>3, <2>4 DEF Next
<1> QED BY <1>1, <1>2, PTL DEF Spec

-----------------------------------------------------------------------------
\* What a process was granted is backed by the row: only Acquire and RenewLease
\* of the owner lengthen a grant, and only its own release, answered or not, removes a
\* live row.
THEOREM GrantAlwaysBacked == Spec => []GrantIsBacked
<1>1. Init => GrantIsBacked
  BY DEF Init, GrantIsBacked
<1>2. TypeOK /\ GrantIsBacked /\ [Next]_vars => GrantIsBacked'
  <2> SUFFICES ASSUME TypeOK, GrantIsBacked, [Next]_vars PROVE GrantIsBacked'
    OBVIOUS
  <2> USE LeaseAssumption DEF TypeOK, GrantIsBacked
  <2>1. CASE Tick
    BY <2>1 DEF Tick, less
  <2>2. ASSUME NEW n \in Node, Scheduler(n) PROVE GrantIsBacked'
    <3>1. CASE Start(n) BY <3>1 DEF Start
    <3>2. CASE Run(n) BY <3>2 DEF Run
    <3>3. CASE Acquire(n) BY <3>3 DEF Acquire, canTake
    <3>4. CASE FinishWork(n) BY <3>4 DEF FinishWork
    <3>5. CASE Release(n) BY <3>5 DEF Release, released
    <3>6. CASE RenewTimerFires(n) BY <3>6 DEF RenewTimerFires
    <3>7. CASE RenewLease(n) BY <3>7 DEF RenewLease, canRenew
    <3>8. CASE AcquireAnswered(n) BY <3>8 DEF AcquireAnswered, startLeaseRenewal
    <3> QED BY <2>2, <3>1, <3>2, <3>3, <3>4, <3>5, <3>6, <3>7, <3>8 DEF Scheduler
  <2>3. ASSUME NEW n \in Node, Faulty(n) PROVE GrantIsBacked'
    <3>1. CASE Stop(n) BY <3>1 DEF Stop
    <3>2. CASE Crash(n) BY <3>2 DEF Crash, canTake
    <3>3. CASE AcquireThrows(n) BY <3>3 DEF AcquireThrows
    <3>4. CASE ReleaseThrows(n) BY <3>4 DEF ReleaseThrows, released
    <3>5. CASE RenewThrows(n) BY <3>5 DEF RenewThrows, canRenew
    <3> QED BY <2>3, <3>1, <3>2, <3>3, <3>4, <3>5 DEF Faulty
  <2>4. CASE UNCHANGED vars
    BY <2>4 DEF vars
  <2> QED BY <2>1, <2>2, <2>3, <2>4 DEF Next
<1> QED BY <1>1, <1>2, LeaseTypeCorrect, PTL DEF Spec

\* Two processes inside the time Postgres granted them never execute the same
\* scheduler cycle at once: both would own the one row.
THEOREM LeaseExclusive == Spec => []ExclusiveWhileGranted
<1>1. GrantIsBacked => ExclusiveWhileGranted
  BY DEF GrantIsBacked, ExclusiveWhileGranted
<1> QED BY <1>1, GrantAlwaysBacked, PTL

-----------------------------------------------------------------------------
\* RenewalOnTime: in a cycle nothing shook, the renewal is due, or under way, while
\* granted time is left.
LEMMA RenewalOnTime ==
  ASSUME TypeOK, GrantIsBacked, [Next]_vars, NEW n \in Node, RenewsInTime(n)
  PROVE  RenewsInTime(n)'
<1> USE LeaseAssumption DEF TypeOK, Off
<1>1. CASE Tick
  BY <1>1 DEF Tick, less, RenewsInTime
<1>2. ASSUME NEW m \in Node, m # n, Scheduler(m) \/ Faulty(m)
      PROVE  RenewsInTime(n)'
  <2>1. at'[n] = at[n] /\ shaken'[n] = shaken[n] /\ timer'[n] = timer[n]
    BY <1>2 DEF Scheduler, Faulty, Start, Run, Acquire, AcquireAnswered, FinishWork, Release,
                RenewTimerFires, RenewLease, Stop, Crash, AcquireThrows, ReleaseThrows, RenewThrows, startLeaseRenewal
  <2>2. granted'[n] = granted[n] /\ renewing'[n] = renewing[n]
    BY <1>2 DEF Scheduler, Faulty, Start, Run, Acquire, AcquireAnswered, FinishWork, Release,
                RenewTimerFires, RenewLease, Stop, Crash, AcquireThrows, ReleaseThrows, RenewThrows
  <2> QED
    BY <2>1, <2>2 DEF RenewsInTime
<1>3. ASSUME Scheduler(n) PROVE RenewsInTime(n)'
  <2> USE DEF RenewsInTime
  <2>1. CASE Start(n) BY <2>1 DEF Start
  <2>2. CASE Run(n) BY <2>2 DEF Run
  <2>3. CASE Acquire(n) BY <2>3 DEF Acquire
  <2>4. CASE FinishWork(n) BY <2>4 DEF FinishWork
  <2>5. CASE Release(n) BY <2>5 DEF Release
  <2>6. CASE RenewTimerFires(n) BY <2>6 DEF RenewTimerFires
  <2>7. CASE RenewLease(n)
    <3>1. CASE canRenew(n) BY <2>7, <3>1 DEF RenewLease
    <3>2. CASE ~canRenew(n) BY <2>7, <3>2 DEF RenewLease, canRenew, GrantIsBacked
    <3> QED BY <3>1, <3>2
  <2>8. CASE AcquireAnswered(n)
    <3>1. timer'[n] = RenewEvery /\ granted'[n] = granted[n]
      BY <2>8 DEF AcquireAnswered, startLeaseRenewal
    <3>2. ~shaken'[n] => ~(granted[n] <= RenewEvery)
      BY <2>8, Zenon DEF AcquireAnswered
    <3> QED BY <3>1, <3>2
  <2> QED BY <1>3, <2>1, <2>2, <2>3, <2>4, <2>5, <2>6, <2>7, <2>8 DEF Scheduler
<1>4. ASSUME Faulty(n) PROVE RenewsInTime(n)'
  <2> USE DEF RenewsInTime
  <2>1. CASE Stop(n) BY <2>1 DEF Stop
  <2>2. CASE Crash(n) BY <2>2 DEF Crash
  <2>3. CASE AcquireThrows(n) BY <2>3 DEF AcquireThrows
  <2>4. CASE ReleaseThrows(n) BY <2>4 DEF ReleaseThrows
  <2>5. CASE RenewThrows(n) BY <2>5 DEF RenewThrows
  <2> QED BY <1>4, <2>1, <2>2, <2>3, <2>4, <2>5 DEF Faulty
<1>5. CASE UNCHANGED vars
  BY <1>5 DEF vars, RenewsInTime
<1> QED
  BY <1>1, <1>2, <1>3, <1>4, <1>5 DEF Next

\* A cycle of any length stays within its lease while the scheduler is not stopped, acquire
\* was answered before the last renewal interval of the lease, and the renewals, every third
\* of the TTL, get through in time.
THEOREM HealthyCycleKept == Spec => []HealthyCycleKeepsLease
<1> DEFINE Renewed == \A n \in Node : RenewsInTime(n)
<1>1. Init => Renewed
  BY DEF Init, RenewsInTime
<1>2. TypeOK /\ GrantIsBacked /\ Renewed /\ [Next]_vars => Renewed'
  BY RenewalOnTime
<1>3. TypeOK /\ Renewed => HealthyCycleKeepsLease
  BY LeaseAssumption DEF TypeOK, RenewsInTime, HealthyCycleKeepsLease, Off
<1> QED
  BY <1>1, <1>2, <1>3, LeaseTypeCorrect, GrantAlwaysBacked, PTL DEF Spec

\* The worker process, with its start, shutdown, exit and confirmation jobs, drives its
\* scheduler only in ways LeasedScheduler allows: what is proved there holds here.
THEOREM ProcessRunsScheduler == WorkerSpec => Spec
<1>1. WorkerInit => Init
  BY DEF WorkerInit
<1>2. [WorkerNext]_workerVars => [Next]_vars
  <2> SUFFICES ASSUME [WorkerNext]_workerVars PROVE [Next]_vars
    OBVIOUS
  <2>1. CASE Time
    BY <2>1 DEF Time, Next
  <2>2. ASSUME NEW n \in Node, Boot(n) \/ Shutdown(n) \/ Exit(n) \/ Kill(n) PROVE Next
    BY <2>2 DEF Boot, Shutdown, Exit, Kill, Next, Scheduler, Faulty
  <2>3. ASSUME NEW n \in Node, TakeJob(n) \/ Job(n) PROVE UNCHANGED vars
    BY <2>3 DEF TakeJob, Job, EndJob, CallFails, WakeUp
  <2>4. ASSUME NEW n \in Node, RunStep(n) \/ RenewalStep(n) \/ DatabaseError(n) PROVE Next
    BY <2>4 DEF RunStep, RenewalStep, DatabaseError, Next, Scheduler, Faulty
  <2>5. CASE UNCHANGED workerVars
    BY <2>5 DEF workerVars
  <2> QED
    BY <2>1, <2>2, <2>3, <2>4, <2>5 DEF WorkerNext
<1> QED
  BY <1>1, <1>2, PTL DEF WorkerSpec, Spec

\* Two worker processes inside the time Postgres granted them never execute the same
\* cycle at once, across starts, shutdowns in the middle of a cycle and kills.
COROLLARY ProcessesExclude == WorkerSpec => []ExclusiveWhileGranted
BY ProcessRunsScheduler, LeaseExclusive, PTL

-----------------------------------------------------------------------------
(* The shutdown.  The provers know nothing of 2^k, the doubling delay of   *)
(* retry(): the facts needed come from counting subsets.                   *)

\* 2^k counts the subsets of 1..k.
LEMMA PowerCounts ==
  ASSUME NEW k \in Nat
  PROVE  /\ IsFiniteSet(SUBSET (1..k)) /\ Cardinality(SUBSET (1..k)) = 2^k
         /\ 2^k \in Nat
<1>1. IsFiniteSet(1..k) /\ Cardinality(1..k) = k
  BY FS_Interval
<1>2. IsFiniteSet(SUBSET (1..k)) /\ Cardinality(SUBSET (1..k)) = 2^k
  BY <1>1, FS_SUBSET
<1>3. Cardinality(SUBSET (1..k)) \in Nat
  BY <1>2, FS_CardinalityType
<1> QED
  BY <1>2, <1>3

\* 2^k grows with k.
LEMMA PowerGrows ==
  ASSUME NEW j \in Nat, NEW k \in Nat, j <= k
  PROVE  2^j <= 2^k
<1>1. SUBSET (1..j) \in SUBSET SUBSET (1..k)
  OBVIOUS
<1>2. Cardinality(SUBSET (1..j)) <= Cardinality(SUBSET (1..k))
  BY <1>1, PowerCounts, FS_Subset, Zenon
<1> QED
  BY <1>2, PowerCounts, Zenon

\* No doubling.
LEMMA PowerZero == 2^0 = 1
<1>1. 1..0 = {}
  OBVIOUS
<1>2. SUBSET (1..0) = {{}}
  BY <1>1
<1> QED
  BY <1>2, PowerCounts, FS_Singleton

\* One doubling more: the subsets of 1..(k + 1) are those of 1..k, without and with k + 1.
LEMMA PowerDoubles ==
  ASSUME NEW k \in Nat
  PROVE  2^(k + 1) = 2 * 2^k
<1> DEFINE S == SUBSET (1..k)
           T == {u \in SUBSET (1..(k + 1)) : k + 1 \in u}
           f == [u \in S |-> u \cup {k + 1}]
<1>1. SUBSET (1..(k + 1)) = S \cup T /\ S \cap T = {}
  <2>1. \A u : u \in SUBSET (1..(k + 1)) <=> u \in S \/ u \in T
    OBVIOUS
  <2> QED
    BY <2>1
<1>2. f \in Bijection(S, T)
  <2>1. f \in [S -> T]
    OBVIOUS
  <2>2. ASSUME NEW u \in S, NEW v \in S, f[u] = f[v] PROVE u = v
    <3>1. k + 1 \notin u /\ k + 1 \notin v
      OBVIOUS
    <3>2. u \cup {k + 1} = v \cup {k + 1}
      BY <2>2
    <3> QED
      BY <3>1, <3>2
  <2>3. ASSUME NEW t \in T PROVE \E u \in S : f[u] = t
    <3>1. t \ {k + 1} \in S
      OBVIOUS
    <3>2. f[t \ {k + 1}] = t
      BY <3>1
    <3> QED
      BY <3>1, <3>2
  <2> QED
    BY <2>1, <2>2, <2>3 DEF Bijection, Injection, Surjection, IsInjective
<1>3. ExistsBijection(S, T)
  BY <1>2 DEF ExistsBijection
<1>4. IsFiniteSet(S) /\ Cardinality(S) = 2^k /\ 2^k \in Nat
  BY PowerCounts
<1> HIDE DEF S, T
<1>5. IsFiniteSet(T) /\ Cardinality(T) = 2^k
  BY <1>3, <1>4, FS_Bijection
<1>6. Cardinality(S \cup T) = Cardinality(S) + Cardinality(T) - Cardinality(S \cap T)
  BY <1>4, <1>5, FS_Union
<1>7. k + 1 \in Nat
  OBVIOUS
<1>8. Cardinality(S \cup T) = 2^(k + 1)
  BY <1>1, <1>7, PowerCounts, Zenon
<1>9. ASSUME NEW p \in Nat PROVE p + p - 0 = 2 * p
  OBVIOUS
<1>10. 2^(k + 1) = 2^k + 2^k - 0
  BY <1>1, <1>4, <1>5, <1>6, <1>8, FS_EmptySet, Zenon
<1> QED
  BY <1>4, <1>9, <1>10, Zenon

\* The delays of the retries are natural numbers.
LEMMA DelayType ==
  ASSUME NEW k \in Nat
  PROVE  nextDelay(k) \in Nat
<1>1. \A a, b \in Nat : a * b \in Nat
  OBVIOUS
<1>2. 2^k \in Nat /\ RetryDelay \in Nat
  BY PowerCounts, WorkerAssumption
<1> QED
  BY <1>1, <1>2, Zenon DEF nextDelay

\* The types of the process hold after every step.
LEMMA ProcessTypeStep ==
  ASSUME WorkerTypeOK, TypeOK', [WorkerNext]_workerVars
  PROVE  WorkerTypeOK'
<1> USE WorkerAssumption DEF WorkerTypeOK
<1>1. CASE Time
  BY <1>1 DEF Time, less
<1>2. ASSUME NEW n \in Node, Boot(n) \/ Shutdown(n) \/ Exit(n) \/ Kill(n) PROVE WorkerTypeOK'
  BY <1>2 DEF Boot, Shutdown, Exit, Kill, jobVars
<1>3. ASSUME NEW n \in Node, TakeJob(n) \/ EndJob(n) \/ WakeUp(n) PROVE WorkerTypeOK'
  BY <1>3 DEF TakeJob, EndJob, WakeUp
<1>4. ASSUME NEW n \in Node, CallFails(n) PROVE WorkerTypeOK'
  <2>1. nextDelay(attempt[n]) \in Nat
    BY DelayType
  <2> QED
    BY <1>4, <2>1 DEF CallFails, mayRetry
<1>5. ASSUME NEW n \in Node, RunStep(n) \/ RenewalStep(n) PROVE WorkerTypeOK'
  BY <1>5 DEF RunStep, RenewalStep, processVars, jobVars
<1>6. ASSUME NEW n \in Node, DatabaseError(n) PROVE WorkerTypeOK'
  BY <1>6 DEF DatabaseError, jobVars
<1>7. CASE UNCHANGED workerVars
  BY <1>7 DEF workerVars, processVars, jobVars
<1> QED
  BY <1>1, <1>2, <1>3, <1>4, <1>5, <1>6, <1>7 DEF WorkerNext, Job

\* The retries of a call never exceed RPC_MAX_RETRIES, and the process keeps its types, for
\* every timeout, retry limit and delay.
THEOREM WorkerTypeCorrect == WorkerSpec => []WorkerTypeOK
<1>1. TypeOK /\ WorkerInit => WorkerTypeOK
  BY WorkerAssumption DEF WorkerInit, WorkerTypeOK
<1>2. WorkerTypeOK /\ TypeOK' /\ [WorkerNext]_workerVars => WorkerTypeOK'
  BY ProcessTypeStep
<1> QED
  BY <1>1, <1>2, ProcessRunsScheduler, LeaseTypeCorrect, PTL DEF WorkerSpec

\* The calls and the sleeps a job still has take a natural number of ticks, and so does a
\* whole job.
LEMMA BudgetParts ==
  ASSUME WorkerTypeOK, NEW n \in Node
  PROVE  /\ callsLeft(n) * RpcTimeout \in Nat
         /\ RetryDelay * (2^RpcRetries - 2^attempt[n]) \in Nat
         /\ JobTime \in Nat
<1> DEFINE q == 2^attempt[n]
           p == 2^RpcRetries
<1>1. \A a, b \in Nat : a * b \in Nat
  OBVIOUS
<1>2. attempt[n] \in Nat /\ RpcRetries \in Nat /\ 0 <= RpcRetries /\ attempt[n] <= RpcRetries
  BY WorkerAssumption DEF WorkerTypeOK
<1>3. q \in Nat /\ p \in Nat /\ q <= p /\ 1 <= p
  <2>1. q \in Nat /\ p \in Nat
    BY <1>2, PowerCounts, Zenon
  <2>2. q <= p
    BY <1>2, PowerGrows, Zenon
  <2>3. 0 \in Nat
    OBVIOUS
  <2>4. 1 <= p
    BY <1>2, <2>3, PowerGrows, PowerZero, Zenon
  <2> QED
    BY <2>1, <2>2, <2>4
<1> HIDE DEF p, q
<1>4. p - q \in Nat /\ p - 1 \in Nat /\ RpcRetries + 1 \in Nat
  BY <1>2, <1>3
<1>5. callsLeft(n) \in Nat
  BY <1>2 DEF callsLeft
<1>6. /\ callsLeft(n) * RpcTimeout \in Nat /\ (RpcRetries + 1) * RpcTimeout \in Nat
      /\ RetryDelay * (p - q) \in Nat /\ RetryDelay * (p - 1) \in Nat
  BY <1>1, <1>4, <1>5, WorkerAssumption
<1> QED
  BY <1>6 DEF JobTime, p, q

\* What a job may still take is a natural number.
LEMMA BudgetType ==
  ASSUME WorkerTypeOK, NEW n \in Node
  PROVE  jobMayTake(n) \in Nat /\ JobTime \in Nat
<1> DEFINE calls == callsLeft(n) * RpcTimeout
           sleeps == RetryDelay * (2^RpcRetries - 2^attempt[n])
<1>1. calls \in Nat /\ sleeps \in Nat /\ JobTime \in Nat
  BY BudgetParts
<1>2. jobLeft[n] \in Nat
  BY DEF WorkerTypeOK
<1>3. jobMayTake(n) = IF job[n] = "none" THEN 0 ELSE jobLeft[n] + calls + sleeps
  BY DEF jobMayTake
<1> HIDE DEF calls, sleeps
<1> QED
  BY <1>1, <1>2, <1>3

\* A process whose job, signal and clock are left alone keeps its budget.
LEMMA BudgetFrame ==
  ASSUME NEW n \in Node, WithinJobTime(n),
         job'[n] = job[n], attempt'[n] = attempt[n], jobLeft'[n] = jobLeft[n],
         waited'[n] = waited[n], waited[n] > 0 => phase'[n] = "closing"
  PROVE  WithinJobTime(n)'
BY DEF WithinJobTime, jobMayTake, callsLeft, JobTime

\* A step of the process's own job keeps the budget: a failed call pays for the sleep and
\* the next call out of what it had.
LEMMA BudgetOfJob ==
  ASSUME WorkerTypeOK, WorkerTypeOK', NEW n \in Node, WithinJobTime(n), TakeJob(n) \/ Job(n)
  PROVE  WithinJobTime(n)'
<1> DEFINE p == 2^RpcRetries
           q == 2^attempt[n]
           r == 2^(attempt[n] + 1)
<1>1. /\ attempt[n] \in 0..RpcRetries /\ jobLeft[n] \in Nat /\ waited[n] \in Nat
      /\ RpcRetries \in Nat /\ RpcTimeout \in Nat /\ RetryDelay \in Nat
  BY WorkerAssumption DEF WorkerTypeOK
<1>2. p \in Nat /\ q \in Nat
  <2>1. attempt[n] \in Nat /\ RpcRetries \in Nat
    BY <1>1
  <2> QED
    BY <2>1, PowerCounts, Zenon
<1>3. jobMayTake(n) \in Nat /\ JobTime \in Nat
  BY BudgetType
<1>4. phase'[n] = phase[n] /\ waited'[n] = waited[n]
  BY DEF TakeJob, Job, EndJob, CallFails, WakeUp
<1>5. SUFFICES waited[n] + jobMayTake(n)' <= JobTime
  BY <1>4 DEF WithinJobTime, JobTime
<1>6. CASE TakeJob(n)
  <2>1. waited[n] = 0
    BY <1>1, <1>6 DEF TakeJob, WithinJobTime
  <2>2. job'[n] = "call" /\ attempt'[n] = 0 /\ jobLeft'[n] = RpcTimeout
    BY <1>6 DEF TakeJob, WorkerTypeOK
  <2>3. jobMayTake(n)' = RpcTimeout + (RpcRetries - 0) * RpcTimeout + RetryDelay * (p - 2^0)
    BY <2>2 DEF jobMayTake, callsLeft
  <2> HIDE DEF p
  <2>4. jobMayTake(n)' = (RpcRetries + 1) * RpcTimeout + RetryDelay * (p - 1)
    BY <1>1, <1>2, <2>3, PowerZero
  <2> QED
    BY <1>3, <2>1, <2>4 DEF JobTime, p
<1>7. CASE EndJob(n)
  <2>1. jobMayTake(n)' = 0
    BY <1>7 DEF EndJob, jobMayTake, WorkerTypeOK
  <2> QED
    BY <1>1, <1>3, <2>1 DEF WithinJobTime
<1>8. CASE CallFails(n)
  <2>1. job[n] = "call" /\ job'[n] = "sleep" /\ attempt'[n] = attempt[n] + 1
        /\ jobLeft'[n] = RetryDelay * q
    BY <1>8 DEF CallFails, nextDelay, WorkerTypeOK
  <2>2. r = 2 * q
    BY <1>1, PowerDoubles
  <2>3. jobMayTake(n) = jobLeft[n] + (RpcRetries - attempt[n]) * RpcTimeout + RetryDelay * (p - q)
    BY <2>1 DEF jobMayTake, callsLeft
  <2>4. jobMayTake(n)' = RetryDelay * q + (RpcRetries - (attempt[n] + 1) + 1) * RpcTimeout
                           + RetryDelay * (p - r)
    BY <2>1 DEF jobMayTake, callsLeft
  <2> HIDE DEF p, q, r
  <2>5. RetryDelay * (p - r) + RetryDelay * q = RetryDelay * (p - q)
    BY <1>1, <1>2, <2>2
  <2>6. jobMayTake(n)' = jobMayTake(n) - jobLeft[n]
    BY <1>1, <1>2, <2>2, <2>3, <2>4, <2>5
  <2>7. waited[n] + jobMayTake(n) <= JobTime
    BY DEF WithinJobTime
  <2> QED
    BY <1>1, <1>3, <2>6, <2>7
<1>9. CASE WakeUp(n)
  <2>1. job[n] = "sleep" /\ jobLeft[n] = 0
        /\ job'[n] = "call" /\ attempt'[n] = attempt[n] /\ jobLeft'[n] = RpcTimeout
    BY <1>9 DEF WakeUp, WorkerTypeOK
  <2>2. jobMayTake(n) = 0 + (RpcRetries - attempt[n] + 1) * RpcTimeout + RetryDelay * (p - q)
    BY <2>1 DEF jobMayTake, callsLeft
  <2>3. jobMayTake(n)' = RpcTimeout + (RpcRetries - attempt[n]) * RpcTimeout + RetryDelay * (p - q)
    BY <2>1 DEF jobMayTake, callsLeft
  <2> HIDE DEF p, q
  <2>4. jobMayTake(n)' = jobMayTake(n)
    BY <1>1, <1>2, <2>2, <2>3
  <2> QED
    BY <2>4 DEF WithinJobTime
<1> QED
  BY <1>6, <1>7, <1>8, <1>9 DEF Job

\* Time takes from the job what it adds to the wait.
LEMMA BudgetOfTime ==
  ASSUME WorkerTypeOK, NEW n \in Node, WithinJobTime(n), Time
  PROVE  WithinJobTime(n)'
<1>1. jobLeft[n] \in Nat /\ waited[n] \in Nat
  BY DEF WorkerTypeOK
<1>2. jobMayTake(n) \in Nat /\ JobTime \in Nat
  BY BudgetType
<1>3. /\ job'[n] = job[n] /\ attempt'[n] = attempt[n] /\ phase'[n] = phase[n]
      /\ job[n] # "none" => jobLeft'[n] = jobLeft[n] - 1
      /\ waited'[n] = IF phase[n] = "closing" THEN waited[n] + 1 ELSE 0
      /\ phase[n] = "closing" => job[n] # "none"
  BY <1>1 DEF Time, less, WorkerTypeOK
<1>4. callsLeft(n)' = callsLeft(n)
  BY <1>3 DEF callsLeft
<1>5. CASE job[n] = "none"
  BY <1>1, <1>2, <1>3, <1>5 DEF WithinJobTime, jobMayTake, JobTime
<1>6. CASE job[n] # "none"
  <2>1. jobMayTake(n) = jobLeft[n] + callsLeft(n) * RpcTimeout
                          + RetryDelay * (2^RpcRetries - 2^attempt[n])
    BY <1>6 DEF jobMayTake
  <2>2. jobMayTake(n)' = jobLeft[n] - 1 + callsLeft(n) * RpcTimeout
                          + RetryDelay * (2^RpcRetries - 2^attempt[n])
    BY <1>3, <1>4, <1>6 DEF jobMayTake
  <2>3. jobMayTake(n)' = jobMayTake(n) - 1
    <3> DEFINE calls == callsLeft(n) * RpcTimeout
               sleeps == RetryDelay * (2^RpcRetries - 2^attempt[n])
    <3>1. /\ jobMayTake(n) = jobLeft[n] + calls + sleeps
          /\ jobMayTake(n)' = jobLeft[n] - 1 + calls + sleeps
      BY <2>1, <2>2
    <3>2. calls \in Int /\ sleeps \in Int
      BY BudgetParts
    <3> HIDE DEF calls, sleeps
    <3> QED
      BY <1>1, <3>1, <3>2
  <2> QED
    BY <1>1, <1>2, <1>3, <2>3 DEF WithinJobTime, JobTime
<1> QED
  BY <1>5, <1>6

\* Every step of every process and of the clock keeps the budget.
LEMMA BudgetStep ==
  ASSUME WorkerTypeOK, WorkerTypeOK', NEW n \in Node, WithinJobTime(n), [WorkerNext]_workerVars
  PROVE  WithinJobTime(n)'
<1>1. CASE Time
  BY <1>1, BudgetOfTime
<1>2. ASSUME NEW m \in Node, TakeJob(m) \/ Job(m) PROVE WithinJobTime(n)'
  <2>1. CASE m = n
    BY <1>2, <2>1, BudgetOfJob
  <2>2. CASE m # n
    <3>1. /\ job'[n] = job[n] /\ attempt'[n] = attempt[n] /\ jobLeft'[n] = jobLeft[n]
          /\ waited'[n] = waited[n] /\ phase'[n] = phase[n]
      BY <1>2, <2>2 DEF TakeJob, Job, EndJob, CallFails, WakeUp, WorkerTypeOK
    <3> QED
      BY <3>1, BudgetFrame DEF WithinJobTime
  <2> QED
    BY <2>1, <2>2
<1>3. ASSUME NEW m \in Node, Boot(m) \/ Shutdown(m) PROVE WithinJobTime(n)'
  <2>1. /\ job'[n] = job[n] /\ attempt'[n] = attempt[n] /\ jobLeft'[n] = jobLeft[n]
        /\ waited'[n] = waited[n]
    BY <1>3 DEF Boot, Shutdown, jobVars
  <2>2. waited[n] > 0 => phase'[n] = "closing"
    BY <1>3 DEF Boot, Shutdown, WithinJobTime, WorkerTypeOK
  <2> QED
    BY <2>1, <2>2, BudgetFrame
<1>4. ASSUME NEW m \in Node, Exit(m) \/ Kill(m) PROVE WithinJobTime(n)'
  <2>1. CASE m = n
    <3>1. waited'[n] = 0 /\ job'[n] = "none"
      BY <1>4, <2>1 DEF Exit, Kill, jobVars, WorkerTypeOK
    <3>2. JobTime \in Nat
      BY BudgetType
    <3> QED
      BY <3>1, <3>2 DEF WithinJobTime, jobMayTake, JobTime
  <2>2. CASE m # n
    <3>1. /\ job'[n] = job[n] /\ attempt'[n] = attempt[n] /\ jobLeft'[n] = jobLeft[n]
          /\ waited'[n] = waited[n] /\ phase'[n] = phase[n]
      BY <1>4, <2>2 DEF Exit, Kill, jobVars, WorkerTypeOK
    <3> QED
      BY <3>1, BudgetFrame DEF WithinJobTime
  <2> QED
    BY <2>1, <2>2
<1>5. ASSUME UNCHANGED <<phase, jobVars, waited>> PROVE WithinJobTime(n)'
  BY <1>5, BudgetFrame DEF jobVars, WithinJobTime
<1>6. ASSUME NEW m \in Node, RunStep(m) \/ RenewalStep(m) \/ DatabaseError(m)
      PROVE  WithinJobTime(n)'
  BY <1>5, <1>6 DEF RunStep, RenewalStep, DatabaseError, processVars
<1>7. CASE UNCHANGED workerVars
  BY <1>5, <1>7 DEF workerVars, processVars
<1> QED
  BY <1>1, <1>2, <1>3, <1>4, <1>6, <1>7 DEF WorkerNext

\* After the signal a process is gone within the time of one confirmation job, whatever
\* RPC_TIMEOUT_MS, RPC_MAX_RETRIES and the retry delay are set to.
THEOREM ShutdownIsBounded == WorkerSpec => []ShutdownInTime
<1> DEFINE Budget == \A n \in Node : WithinJobTime(n)
<1>1. WorkerTypeOK /\ WorkerInit => Budget
  <2> SUFFICES ASSUME WorkerTypeOK, WorkerInit, NEW n \in Node PROVE WithinJobTime(n)
    OBVIOUS
  <2>1. waited[n] = 0 /\ job[n] = "none"
    BY DEF WorkerInit
  <2>2. JobTime \in Nat
    BY BudgetType
  <2> QED
    BY <2>1, <2>2 DEF WithinJobTime, jobMayTake
<1>2. WorkerTypeOK /\ WorkerTypeOK' /\ Budget /\ [WorkerNext]_workerVars => Budget'
  BY BudgetStep
<1>3. WorkerTypeOK /\ Budget => ShutdownInTime
  <2> SUFFICES ASSUME WorkerTypeOK, NEW n \in Node, WithinJobTime(n) PROVE waited[n] <= JobTime
    BY DEF ShutdownInTime
  <2>1. jobMayTake(n) \in Nat /\ JobTime \in Nat /\ waited[n] \in Nat
    BY BudgetType DEF WorkerTypeOK
  <2>2. waited[n] + jobMayTake(n) <= JobTime
    BY DEF WithinJobTime
  <2> QED
    BY <2>1, <2>2
<1> QED
  BY <1>1, <1>2, <1>3, WorkerTypeCorrect, PTL DEF WorkerSpec
=============================================================================

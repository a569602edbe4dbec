---------------------------- MODULE WorkerProcess ----------------------------
(***************************************************************************)
(* The life of the worker processes (confirmation.queue.runner.ts): start, *)
(* the leased scheduler of LeasedScheduler, a confirmation job whose RPC   *)
(* call goes through executeRpc, and the shutdown, which stops the         *)
(* scheduler without waiting for its cycle, waits for the job and exits.   *)
(***************************************************************************)
EXTENDS LeasedScheduler

CONSTANTS Busy,         \* the processes that get confirmation jobs
          RpcTimeout,   \* RPC_TIMEOUT_MS, in ticks
          RpcRetries,   \* RPC_MAX_RETRIES
          RetryDelay,   \* RPC_RETRY_DELAY_MS, in ticks
          MaxErrors     \* bound: database errors

ASSUME WorkerAssumption ==
  /\ Busy \subseteq Node
  /\ RpcTimeout \in Nat \ {0} /\ RetryDelay \in Nat \ {0}
  /\ RpcRetries \in Nat /\ MaxErrors \in Nat

VARIABLES
  phase,    \* booting, ready, closing, gone
  job,      \* what the confirmation job awaits: none, call, sleep
  attempt,  \* retries so far
  jobLeft,  \* ticks to the timeout of the call or the end of the sleep
  waited,   \* ticks since the signal
  errors    \* counts towards MaxErrors

jobVars == <<job, attempt, jobLeft>>
processVars == <<phase, jobVars, waited, errors>>
workerVars == <<vars, processVars>>

WorkerInit ==
  /\ Init
  /\ phase = [n \in Node |-> "booting"]
  /\ job = [n \in Node |-> "none"]
  /\ attempt = [n \in Node |-> 0]
  /\ jobLeft = [n \in Node |-> 0]
  /\ waited = [n \in Node |-> 0]
  /\ errors = 0

-----------------------------------------------------------------------------
(* The confirmation job and executeRpc                                     *)

\* The queue hands the process a job: the first call.
TakeJob(n) ==
  /\ n \in Busy
  /\ phase[n] = "ready"
  /\ job[n] = "none"
  /\ job' = [job EXCEPT ![n] = "call"]
  /\ attempt' = [attempt EXCEPT ![n] = 0]
  /\ jobLeft' = [jobLeft EXCEPT ![n] = RpcTimeout]
  /\ UNCHANGED <<vars, phase, waited, errors>>

\* The call is answered or throws what shouldRetry refuses: the job is over.
EndJob(n) ==
  /\ job[n] = "call"
  /\ job' = [job EXCEPT ![n] = "none"]
  /\ attempt' = [attempt EXCEPT ![n] = 0]
  /\ jobLeft' = [jobLeft EXCEPT ![n] = 0]
  /\ UNCHANGED <<vars, phase, waited, errors>>

\* Mutant: counts the calls, not the retries.
mayRetryOnceMore(n) == attempt[n] <= RpcRetries

mayRetry(n) == attempt[n] < RpcRetries

\* nextDelay: doubles with every retry.
nextDelay(k) == RetryDelay * 2^k

\* The call times out or throws a retryable error; what it answers later is dropped.
CallFails(n) ==
  /\ job[n] = "call"
  /\ mayRetry(n)
  /\ job' = [job EXCEPT ![n] = "sleep"]
  /\ attempt' = [attempt EXCEPT ![n] = @ + 1]
  /\ jobLeft' = [jobLeft EXCEPT ![n] = nextDelay(attempt[n])]
  /\ UNCHANGED <<vars, phase, waited, errors>>

WakeUp(n) ==
  /\ job[n] = "sleep"
  /\ jobLeft[n] = 0
  /\ job' = [job EXCEPT ![n] = "call"]
  /\ jobLeft' = [jobLeft EXCEPT ![n] = RpcTimeout]
  /\ UNCHANGED <<vars, phase, attempt, waited, errors>>

-----------------------------------------------------------------------------
(* The process                                                             *)

\* waitUntilReady resolved: the schedulers start.
Boot(n) ==
  /\ phase[n] = "booting"
  /\ Start(n)
  /\ phase' = [phase EXCEPT ![n] = "ready"]
  /\ UNCHANGED <<jobVars, waited, errors>>

\* SIGTERM: stop() of the schedulers, then close() of the queue worker; a second
\* signal finds shuttingDown set.
Shutdown(n) ==
  /\ phase[n] = "ready"
  /\ Stop(n)
  /\ phase' = [phase EXCEPT ![n] = "closing"]
  /\ UNCHANGED <<jobVars, waited, errors>>

\* Mutant: the exit waits until the lease is given back.
ExitReleased(n) ==
  /\ phase[n] = "closing"
  /\ job[n] = "none"
  /\ lease.owner # n
  /\ Crash(n)
  /\ phase' = [phase EXCEPT ![n] = "gone"]
  /\ waited' = [waited EXCEPT ![n] = 0]
  /\ UNCHANGED <<jobVars, errors>>

\* close() resolved once no job is active; process.exit ends a cycle that still runs.
Exit(n) ==
  /\ phase[n] = "closing"
  /\ job[n] = "none"
  /\ Crash(n)
  /\ phase' = [phase EXCEPT ![n] = "gone"]
  /\ waited' = [waited EXCEPT ![n] = 0]
  /\ UNCHANGED <<jobVars, errors>>

\* The process is killed.
Kill(n) ==
  /\ Crash(n)
  /\ phase' = [phase EXCEPT ![n] = "gone"]
  /\ job' = [job EXCEPT ![n] = "none"]
  /\ attempt' = [attempt EXCEPT ![n] = 0]
  /\ jobLeft' = [jobLeft EXCEPT ![n] = 0]
  /\ waited' = [waited EXCEPT ![n] = 0]
  /\ UNCHANGED errors

\* run(), from the interval to the release.
RunStep(n) ==
  /\ Run(n) \/ Acquire(n) \/ AcquireAnswered(n) \/ FinishWork(n) \/ Release(n)
  /\ UNCHANGED processVars

\* The renewal interval and what it started.
RenewalStep(n) ==
  /\ RenewTimerFires(n) \/ RenewLease(n)
  /\ UNCHANGED processVars

DatabaseError(n) ==
  /\ "dbError" \in Faults
  /\ errors < MaxErrors
  /\ AcquireThrows(n) \/ ReleaseThrows(n) \/ RenewThrows(n)
  /\ errors' = errors + 1
  /\ UNCHANGED <<phase, jobVars, waited>>

\* Timeouts and sleeps end when due, and a process with nothing to wait for exits.
Time ==
  /\ Tick
  /\ \A n \in Node : job[n] = "none" \/ jobLeft[n] > 0
  /\ \A n \in Node : phase[n] = "closing" => job[n] # "none"
  /\ jobLeft' = [n \in Node |-> less(jobLeft[n])]
  /\ waited' = [n \in Node |-> IF phase[n] = "closing" THEN waited[n] + 1 ELSE 0]
  /\ UNCHANGED <<phase, job, attempt, errors>>

Job(n) == EndJob(n) \/ CallFails(n) \/ WakeUp(n)

WorkerNext ==
  \/ Time
  \/ \E n \in Node : \/ Boot(n) \/ TakeJob(n) \/ Job(n) \/ Shutdown(n) \/ Exit(n) \/ Kill(n)
                     \/ RunStep(n) \/ RenewalStep(n) \/ DatabaseError(n)

WorkerSpec == WorkerInit /\ [][WorkerNext]_workerVars

\* Timers and promises of a live process run, cycles and RPC calls end, and time passes.
FairWorkerSpec ==
  /\ WorkerSpec
  /\ WF_workerVars(Time)
  /\ \A n \in Node : /\ WF_workerVars(Boot(n) \/ Job(n) \/ Exit(n))
                     /\ WF_workerVars(RunStep(n))
                     /\ WF_workerVars(RenewalStep(n))

-----------------------------------------------------------------------------
\* The longest a job can take: every call times out, with the sleeps in between.
JobTime == (RpcRetries + 1) * RpcTimeout + RetryDelay * (2^RpcRetries - 1)

WorkerTypeOK ==
  /\ TypeOK
  /\ phase \in [Node -> {"booting", "ready", "closing", "gone"}]
  /\ job \in [Node -> {"none", "call", "sleep"}]
  /\ attempt \in [Node -> 0..RpcRetries]
  /\ jobLeft \in [Node -> Nat] /\ waited \in [Node -> Nat]
  /\ errors \in 0..MaxErrors

\* ShutdownInTime: a process that was told to stop is gone before one confirmation job
\* can have used up its calls, retries and backoffs: no new job is taken, the timeout
\* bounds every call, and no scheduler cycle is waited for.
ShutdownInTime == \A n \in Node : waited[n] <= JobTime

\* Why: the ticks since the signal and the most the job can still take are within JobTime.
callsLeft(n) == IF job[n] = "sleep" THEN RpcRetries - attempt[n] + 1 ELSE RpcRetries - attempt[n]
jobMayTake(n) ==
  IF job[n] = "none" THEN 0
  ELSE jobLeft[n] + callsLeft(n) * RpcTimeout + RetryDelay * (2^RpcRetries - 2^attempt[n])
WithinJobTime(n) ==
  /\ waited[n] + jobMayTake(n) <= JobTime
  /\ waited[n] > 0 => phase[n] = "closing"

\* ShutdownCompletes: a signalled process exits, although its job keeps failing and its
\* scheduler was in the middle of a cycle.
ShutdownCompletes == \A n \in Busy : phase[n] = "closing" ~> phase[n] = "gone"

\* LeaseIsFreed: the lease of a process that exited in the middle of its cycle, or was
\* killed, does not outlive it for good: it passes to another process, unless none is left.
LeaseIsFreed ==
  \A n \in Node : lease.owner = n /\ phase[n] = "gone"
                    ~> lease.owner # n \/ \A m \in Node : phase[m] \in {"closing", "gone"}
=============================================================================

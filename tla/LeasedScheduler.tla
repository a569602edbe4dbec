--------------------------- MODULE LeasedScheduler ---------------------------
(***************************************************************************)
(* A scheduler that every worker process runs and a Postgres row guards:   *)
(* PostgresSchedulerLease and the run/renew/stop protocol shared by the    *)
(* five schedulers (ExpirationScheduler is the one mapped).  Time is what  *)
(* is left: Tick takes one unit off every deadline, so no clock grows.     *)
(* ownerId is drawn per process, so a restarted process is another node.   *)
(***************************************************************************)
EXTENDS Integers

CONSTANTS Node,
          Ttl,         \* LEASE_TTL_MS, in ticks
          RenewEvery,  \* floor(LEASE_TTL_MS / 3), in ticks
          Faults,      \* which of FaultKinds may happen
          NoOwner

FaultKinds == {"dbError", "slowDb"}

ASSUME LeaseAssumption ==
  /\ Ttl \in Nat \ {0}
  /\ RenewEvery \in Nat \ {0} /\ 3 * RenewEvery <= Ttl
  /\ Faults \subseteq FaultKinds
  /\ NoOwner \notin Node

VARIABLES
  lease,    \* the SchedulerLease row: owner (NoOwner: no row), ticks to expiresAt
  running,  \* the scheduler's `running` flag
  at,       \* where its run() is; "idle" is executing = false
  timer,    \* ticks to the next renewal, Off when leaseRenewTimer is unset
  renewing, \* a renewLease call awaits its UPDATE
  granted,  \* ticks left of what the last acquire or renew of this node got
  shaken    \* history: in this cycle it was stopped, or an answer failed or was late

vars == <<lease, running, at, timer, renewing, granted, shaken>>

Off == -1

Init ==
  /\ lease = [owner |-> NoOwner, left |-> 0]
  /\ running = [n \in Node |-> FALSE]
  /\ at = [n \in Node |-> "idle"]
  /\ timer = [n \in Node |-> Off]
  /\ renewing = [n \in Node |-> FALSE]
  /\ granted = [n \in Node |-> 0]
  /\ shaken = [n \in Node |-> FALSE]

-----------------------------------------------------------------------------
(* PostgresSchedulerLease                                                  *)

\* Mutants: any row may be taken over; an expired row is not.
canTakeAlways(n) == TRUE
canTakeReleased(n) == lease.owner = NoOwner \/ lease.owner = n

\* INSERT, or UPDATE of a row that has expired or is already ours.
canTake(n) == lease.owner = NoOwner \/ lease.left = 0 \/ lease.owner = n

canRenew(n) == lease.owner = n /\ lease.left > 0

\* Mutant: DELETE by name only.
releasedByName(n) == [owner |-> NoOwner, left |-> 0]

\* DELETE of our own row only.
released(n) == IF lease.owner = n THEN [owner |-> NoOwner, left |-> 0] ELSE lease

-----------------------------------------------------------------------------
(* The scheduler                                                           *)

Start(n) ==
  /\ ~running[n]
  /\ at[n] # "dead"
  /\ running' = [running EXCEPT ![n] = TRUE]
  /\ UNCHANGED <<lease, at, timer, renewing, granted, shaken>>

\* stop() clears both timers and does not wait for a run in progress.
Stop(n) ==
  /\ running[n]
  /\ at[n] # "dead"
  /\ running' = [running EXCEPT ![n] = FALSE]
  /\ timer' = [timer EXCEPT ![n] = Off]
  /\ shaken' = [shaken EXCEPT ![n] = at[n] = "work"]
  /\ UNCHANGED <<lease, at, renewing, granted>>

\* The interval fires; run() returns at once when one is executing.
Run(n) ==
  /\ running[n]
  /\ at[n] = "idle"
  /\ at' = [at EXCEPT ![n] = "acquire"]
  /\ UNCHANGED <<lease, running, timer, renewing, granted, shaken>>

\* Mutant: a run that does not renew its lease.
startNoLeaseRenewal(n) == UNCHANGED timer

startLeaseRenewal(n) == timer' = [timer EXCEPT ![n] = RenewEvery]

\* The INSERT reaches Postgres.  A refusal ends the run.
Acquire(n) ==
  /\ at[n] = "acquire"
  /\ \/ /\ canTake(n)
        /\ lease' = [owner |-> n, left |-> Ttl]
        /\ granted' = [granted EXCEPT ![n] = Ttl]
        /\ at' = [at EXCEPT ![n] = "answer"]
     \/ /\ ~canTake(n)
        /\ at' = [at EXCEPT ![n] = "idle"]
        /\ UNCHANGED <<lease, granted>>
  /\ UNCHANGED <<running, timer, renewing, shaken>>

\* The answer arrives and starts the cycle and its renewal.  The first renewal comes
\* RenewEvery after the answer, not after the INSERT: it may be due too late.
AcquireAnswered(n) ==
  /\ at[n] = "answer"
  /\ at' = [at EXCEPT ![n] = "work"]
  /\ startLeaseRenewal(n)
  /\ shaken' = [shaken EXCEPT ![n] = granted[n] <= RenewEvery]
  /\ UNCHANGED <<lease, running, renewing, granted>>

\* acquire throws, before or after the row was written.
AcquireThrows(n) ==
  /\ at[n] \in {"acquire", "answer"}
  /\ at' = [at EXCEPT ![n] = "idle"]
  /\ granted' = [granted EXCEPT ![n] = 0]
  /\ UNCHANGED <<lease, running, timer, renewing, shaken>>

\* The processor returned or threw: finally stops the renewal.
FinishWork(n) ==
  /\ at[n] = "work"
  /\ at' = [at EXCEPT ![n] = "release"]
  /\ timer' = [timer EXCEPT ![n] = Off]
  /\ shaken' = [shaken EXCEPT ![n] = FALSE]
  /\ UNCHANGED <<lease, running, renewing, granted>>

Release(n) ==
  /\ at[n] = "release"
  /\ at' = [at EXCEPT ![n] = "idle"]
  /\ lease' = released(n)
  /\ granted' = [granted EXCEPT ![n] = 0]
  /\ UNCHANGED <<running, timer, renewing, shaken>>

\* release throws, which is logged: the row is left to expire, or only the answer of the
\* DELETE was lost.
ReleaseThrows(n) ==
  /\ at[n] = "release"
  /\ at' = [at EXCEPT ![n] = "idle"]
  /\ lease' \in {lease, released(n)}
  /\ granted' = [granted EXCEPT ![n] = 0]
  /\ UNCHANGED <<running, timer, renewing, shaken>>

RenewTimerFires(n) ==
  /\ timer[n] = 0
  /\ timer' = [timer EXCEPT ![n] = RenewEvery]
  /\ renewing' = [renewing EXCEPT ![n] = TRUE]
  /\ UNCHANGED <<lease, running, at, granted, shaken>>

\* The UPDATE reaches Postgres; a renewal that was refused is only logged.
RenewLease(n) ==
  /\ renewing[n]
  /\ renewing' = [renewing EXCEPT ![n] = FALSE]
  /\ \/ /\ canRenew(n)
        /\ lease' = [lease EXCEPT !.left = Ttl]
        /\ granted' = [granted EXCEPT ![n] = Ttl]
     \/ ~canRenew(n) /\ UNCHANGED <<lease, granted>>
  /\ UNCHANGED <<running, at, timer, shaken>>

\* renew throws, before or after the row was renewed.
RenewThrows(n) ==
  /\ renewing[n]
  /\ renewing' = [renewing EXCEPT ![n] = FALSE]
  /\ shaken' = [shaken EXCEPT ![n] = at[n] = "work"]
  /\ \/ UNCHANGED lease
     \/ canRenew(n) /\ lease' = [lease EXCEPT !.left = Ttl]
  /\ UNCHANGED <<running, at, timer, granted>>

\* The process is gone; an acquire it awaited may still be executed.
Crash(n) ==
  /\ at[n] # "dead"
  /\ \/ UNCHANGED lease
     \/ at[n] = "acquire" /\ canTake(n) /\ lease' = [owner |-> n, left |-> Ttl]
  /\ at' = [at EXCEPT ![n] = "dead"]
  /\ running' = [running EXCEPT ![n] = FALSE]
  /\ timer' = [timer EXCEPT ![n] = Off]
  /\ renewing' = [renewing EXCEPT ![n] = FALSE]
  /\ granted' = [granted EXCEPT ![n] = 0]
  /\ shaken' = [shaken EXCEPT ![n] = FALSE]

less(k) == IF k > 0 THEN k - 1 ELSE k

\* Timers fire when due; acquire and renew are answered within a tick unless Postgres is slow.
Tick ==
  /\ \A n \in Node : timer[n] # 0
  /\ "slowDb" \in Faults \/ \A n \in Node : ~renewing[n] /\ at[n] # "answer"
  /\ lease' = [lease EXCEPT !.left = less(@)]
  /\ granted' = [n \in Node |-> less(granted[n])]
  /\ timer' = [n \in Node |-> less(timer[n])]
  /\ shaken' = [n \in Node |-> shaken[n] \/ (at[n] = "work" /\ renewing[n])]
  /\ UNCHANGED <<running, at, renewing>>

Faulty(n) ==
  \/ Stop(n) \/ Crash(n)
  \/ "dbError" \in Faults /\ (AcquireThrows(n) \/ ReleaseThrows(n) \/ RenewThrows(n))

Scheduler(n) ==
  \/ Start(n) \/ Run(n) \/ Acquire(n) \/ AcquireAnswered(n) \/ FinishWork(n) \/ Release(n)
  \/ RenewTimerFires(n) \/ RenewLease(n)

Next == Tick \/ \E n \in Node : Scheduler(n) \/ Faulty(n)

Spec == Init /\ [][Next]_vars

-----------------------------------------------------------------------------
TypeOK ==
  /\ lease \in [owner : Node \cup {NoOwner}, left : 0..Ttl]
  /\ running \in [Node -> BOOLEAN]
  /\ at \in [Node -> {"idle", "acquire", "answer", "work", "release", "dead"}]
  /\ timer \in [Node -> Off..RenewEvery]
  /\ renewing \in [Node -> BOOLEAN]
  /\ granted \in [Node -> 0..Ttl]
  /\ shaken \in [Node -> BOOLEAN]

\* GrantIsBacked: what a node last got of the lease is still true in Postgres: while
\* its granted time lasts, the row is its own and lives as long.
\* No stale release, late renewal or takeover of another node ends it early.
GrantIsBacked ==
  \A n \in Node : granted[n] > 0 => lease.owner = n /\ lease.left >= granted[n]

\* ExclusiveWhileGranted: two nodes never work at the same time both within the
\* time they were granted, whatever crashes, errors, slow answers and stops do.
ExclusiveWhileGranted ==
  \A m, n \in Node : at[m] = "work" /\ at[n] = "work"
                       /\ granted[m] > 0 /\ granted[n] > 0 => m = n

\* HealthyCycleKeepsLease: a cycle of any length stays within its lease as long as the
\* scheduler is not stopped, acquire was answered with more than a renewal interval of
\* the lease left, and the renewals get through in time: then only one worker performs it.
HealthyCycleKeepsLease == \A n \in Node : at[n] = "work" /\ ~shaken[n] => granted[n] > 0

\* Why: the next renewal is due, or under way, while time is left.
RenewsInTime(n) ==
  at[n] = "work" /\ ~shaken[n] =>
    /\ timer[n] # Off
    /\ granted[n] > timer[n] \/ (renewing[n] /\ granted[n] > 0)
=============================================================================

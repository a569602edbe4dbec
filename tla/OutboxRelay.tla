----------------------------- MODULE OutboxRelay -----------------------------
(***************************************************************************)
(* From the outbox row to a consumer: OutboxEventService.relay, run by the *)
(* OutboxRelayScheduler of every worker process, the outbox-relay queue    *)
(* and a consumer of it.  The lease keeps relays apart most of the time    *)
(* (LeasedScheduler shows when it does not), so they may overlap here.     *)
(* src/ has no consumer yet: it is modelled from the queue's options.      *)
(***************************************************************************)
EXTENDS Naturals, FiniteSets

CONSTANTS Event,        \* OutboxEvent ids
          Node,         \* worker processes
          Limit,        \* batch size of claimUnpublished
          MaxAttempts,  \* attempts of a job
          MaxCrashes    \* bound: crashes and database errors in a behaviour

ASSUME RelayAssumption ==
  /\ IsFiniteSet(Event) /\ IsFiniteSet(Node)
  /\ Limit \in Nat \ {0}
  /\ MaxAttempts \in Nat \ {0}
  /\ MaxCrashes \in Nat

VARIABLES
  rows,       \* OutboxEvent rows
  published,  \* rows with published = true
  job,        \* the job whose id is the event's: none, waiting, failed
  attempts,   \* attempts that job has spent
  handled,    \* times a consumer completed the event
  relay,      \* where relay() is in each process, and its batch
  crashes     \* counts towards MaxCrashes

vars == <<rows, published, job, attempts, handled, relay, crashes>>

idle == [at |-> "idle", batch |-> {}]

Init ==
  /\ rows = {}
  /\ published = {}
  /\ job = [e \in Event |-> "none"]
  /\ attempts = [e \in Event |-> 0]
  /\ handled = [e \in Event |-> 0]
  /\ relay = [n \in Node |-> idle]
  /\ crashes = 0

-----------------------------------------------------------------------------
\* persistConfirmation commits the row with the status change.
CreateInTransaction(e) ==
  /\ e \notin rows
  /\ rows' = rows \cup {e}
  /\ UNCHANGED <<published, job, attempts, handled, relay, crashes>>

Open == rows \ published

\* Mutant: the query does not ask for published = false.
claimRows ==
  {batch \in (SUBSET rows) \ {{}} :
     Cardinality(batch) = Limit \/ (batch = rows /\ Cardinality(batch) < Limit)}

\* The batches a claim may return: Limit open rows, or all when they are fewer.  Which
\* ones is left open: createdAt is not the order in which rows become visible.
\* Nothing is written, so two relays may claim one row.
claimUnpublished ==
  {batch \in (SUBSET Open) \ {{}} :
     Cardinality(batch) = Limit \/ (batch = Open /\ Cardinality(batch) < Limit)}

Relay(n) ==
  /\ relay[n] = idle
  /\ \E batch \in claimUnpublished :
       relay' = [relay EXCEPT ![n] = [at |-> "addBulk", batch |-> batch]]
  /\ UNCHANGED <<rows, published, job, attempts, handled, crashes>>

\* addBulk with the event id as job id: an id that exists is left alone.
AddBulk(n) ==
  /\ relay[n].at = "addBulk"
  /\ LET fresh == {e \in relay[n].batch : job[e] = "none"}
     IN  /\ job' = [e \in Event |-> IF e \in fresh THEN "waiting" ELSE job[e]]
         /\ attempts' = [e \in Event |-> IF e \in fresh THEN 0 ELSE attempts[e]]
  /\ relay' = [relay EXCEPT ![n].at = "mark"]
  /\ UNCHANGED <<rows, published, handled, crashes>>

\* Mutant: what is still open when the UPDATE runs is marked, not the batch.
publishedWithAllOpen(n) == published \cup rows

publishedWith(n) == published \cup relay[n].batch

MarkPublished(n) ==
  /\ relay[n].at = "mark"
  /\ published' = publishedWith(n)
  /\ relay' = [relay EXCEPT ![n] = idle]
  /\ UNCHANGED <<rows, job, attempts, handled, crashes>>

\* Redis or Postgres throws, or the process dies, at either await; addBulk may have
\* been taken, which is AddBulk followed by this.
RelayFails(n) ==
  /\ relay[n] # idle
  /\ crashes < MaxCrashes
  /\ crashes' = crashes + 1
  /\ relay' = [relay EXCEPT ![n] = idle]
  /\ UNCHANGED <<rows, published, job, attempts, handled>>

\* A consumer completes the job, which removes it (removeOnComplete).
Consume(e) ==
  /\ job[e] = "waiting"
  /\ job' = [job EXCEPT ![e] = "none"]
  /\ handled' = [handled EXCEPT ![e] = @ + 1]
  /\ UNCHANGED <<rows, published, attempts, relay, crashes>>

\* The consumer throws: another attempt, or the job is kept as failed.
ConsumeThrows(e) ==
  /\ job[e] = "waiting"
  /\ attempts' = [attempts EXCEPT ![e] = @ + 1]
  /\ job' = [job EXCEPT ![e] = IF attempts[e] + 1 < MaxAttempts THEN "waiting" ELSE "failed"]
  /\ UNCHANGED <<rows, published, handled, relay, crashes>>

RelayStep(n) == Relay(n) \/ AddBulk(n) \/ MarkPublished(n)

Next ==
  \/ \E e \in Event : CreateInTransaction(e) \/ Consume(e) \/ ConsumeThrows(e)
  \/ \E n \in Node : RelayStep(n) \/ RelayFails(n)

Spec == Init /\ [][Next]_vars

\* The scheduler comes back every interval.  Nothing is asked of a consumer.
FairSpec == Spec /\ \A n \in Node : WF_vars(RelayStep(n))

-----------------------------------------------------------------------------
TypeOK ==
  /\ rows \subseteq Event
  /\ published \subseteq rows
  /\ job \in [Event -> {"none", "waiting", "failed"}]
  /\ attempts \in [Event -> 0..MaxAttempts]
  /\ handled \in [Event -> Nat]
  /\ relay \in [Node -> [at : {"idle", "addBulk", "mark"}, batch : SUBSET rows]]
  /\ \A n \in Node : Cardinality(relay[n].batch) <= Limit
  /\ crashes \in 0..MaxCrashes

\* NothingLost: a row that is marked published has reached the queue: its job is
\* there, or a consumer completed it (relay enqueues before it marks, and marks
\* what it enqueued, not what it finds).
NothingLost == \A e \in published : job[e] # "none" \/ handled[e] > 0

\* Enqueued: the relay that is about to mark has its whole batch in the queue.
Enqueued ==
  \A n \in Node : relay[n].at = "mark" =>
     \A e \in relay[n].batch : job[e] # "none" \/ handled[e] > 0

\* CopiesBounded: an event is delivered more than once only for a relay that
\* failed between enqueue and mark or overlapped another: never more copies than
\* relays and failures, so exactly one with a single relay that does not fail.
CopiesBounded ==
  \A e \in Event : handled[e] + (IF job[e] = "none" THEN 0 ELSE 1)
                      <= crashes + Cardinality(Node)

\* OneCopyProcessed: what the comment of relay() says of a relay that dies between
\* enqueue and mark: deduplication by job id lets only one copy be processed.
OneCopyProcessed == \A e \in Event : handled[e] <= 1

\* EveryEventPublished: every committed row is eventually enqueued and marked, although
\* relays overlap and crash and the batch is limited.
EveryEventPublished == \A e \in Event : e \in rows ~> e \in published

\* DeliverySpec: relays that overlap, fail and retry, the queue and its consumer
\* together deliver at least once: only committed rows are ever queued or handled, a
\* row is marked only after it was queued, and stays marked.
Delivery == INSTANCE EventDelivery
              WITH committed <- rows, sent <- {e \in Event : job[e] # "none"},
                   settled <- published, deliveries <- handled
DeliverySpec == Delivery!Spec
=============================================================================

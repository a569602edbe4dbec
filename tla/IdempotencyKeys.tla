--------------------------- MODULE IdempotencyKeys ---------------------------
(***************************************************************************)
(* withIdempotency around a mutating handler: requests, among them the     *)
(* retries of one client, that carry an Idempotency-Key, or none, and the  *)
(* IdempotencyKey table with its unique (tenantId, key).  The handler is   *)
(* TransferService.transfer, seen as the one transfer it makes.            *)
(***************************************************************************)
EXTENDS Naturals, FiniteSets

CONSTANTS Request,     \* HTTP requests; a retry is a request of its own
          Key,         \* <tenantId, key> pairs
          NoKey,       \* the header is absent
          Payload,     \* what hashRequest tells apart
          NoRequest,
          MaxFailures  \* bound: database errors and crashes

ASSUME KeyAssumption ==
  /\ NoKey \notin Key /\ NoRequest \notin Request
  /\ {"none", "error", "outage", "conflict"} \cap Request = {}
  /\ MaxFailures \in Nat

VARIABLES
  keyRow,   \* the rows: status ("none": no row), requestHash, id (the creator), response
  guard,    \* where withIdempotency is: new, find, acquire, handler, complete, fail, done
  sent,     \* what the request carries: key and requestHash
  answer,   \* none, error (the handler's), outage (cut off: an await outside the try threw,
            \* or the process died), conflict, or the transfer whose response the caller got
  made,     \* the requests whose handler made its transfer
  outages   \* counts towards MaxFailures

keyVars == <<keyRow, guard, sent, answer, made, outages>>

KeysInit ==
  /\ keyRow = [k \in Key |-> [status |-> "none", hash |-> NoRequest,
                              id |-> NoRequest, response |-> NoRequest]]
  /\ guard = [r \in Request |-> "new"]
  /\ sent = [r \in Request |-> [key |-> NoKey, hash |-> NoRequest]]
  /\ answer = [r \in Request |-> "none"]
  /\ made = {}
  /\ outages = 0

step(r, label) == guard' = [guard EXCEPT ![r] = label]

reply(r, what) == step(r, "done") /\ answer' = [answer EXCEPT ![r] = what]

rowOf(r) == keyRow[sent[r].key]

\* Without a key the request proceeds unprotected.
ReceiveTransfer(r, k, h) ==
  /\ guard[r] = "new"
  /\ step(r, IF k = NoKey THEN "handler" ELSE "find")
  /\ sent' = [sent EXCEPT ![r] = [key |-> k, hash |-> h]]
  /\ UNCHANGED <<keyRow, answer, made, outages>>

\* Mutant: a stored response is replayed whatever the payload.
replaysAny(r) == rowOf(r).status = "COMPLETED"

replays(r) == rowOf(r).status = "COMPLETED" /\ rowOf(r).hash = sent[r].hash

\* The fast path: replay, or refuse a reused, running or failed key.
FindKey(r) ==
  /\ guard[r] = "find"
  /\ \/ rowOf(r).status = "none" /\ step(r, "acquire") /\ UNCHANGED answer
     \/ rowOf(r).status # "none" /\ replays(r) /\ reply(r, rowOf(r).response)
     \/ rowOf(r).status # "none" /\ ~replays(r) /\ reply(r, "conflict")
  /\ UNCHANGED <<keyRow, sent, made, outages>>

\* Mutant: an upsert, trusting the lookup.
canAcquireAlways(r) == guard[r] = "acquire"

\* The unique (tenantId, key).
canAcquire(r) == guard[r] = "acquire" /\ rowOf(r).status = "none"

\* INSERT of a PROCESSING row.
insertKey(r) ==
  /\ canAcquire(r)
  /\ keyRow' = [keyRow EXCEPT ![sent[r].key] =
                  [status |-> "PROCESSING", hash |-> sent[r].hash, id |-> r, response |-> NoRequest]]
  /\ UNCHANGED made

\* UPDATE of the acquired row, by its id.
updateKey(r, status, response) ==
  /\ keyRow' = [k \in Key |-> IF keyRow[k].id = r
                              THEN [status |-> status, hash |-> keyRow[k].hash,
                                    id |-> r, response |-> response]
                              ELSE keyRow[k]]
  /\ UNCHANGED made

transfer(r) == guard[r] = "handler" /\ made' = made \cup {r} /\ UNCHANGED keyRow
markKeyCompleted(r) == guard[r] = "complete" /\ updateKey(r, "COMPLETED", r)
markKeyFailed(r) == guard[r] = "fail" /\ updateKey(r, "FAILED", NoRequest)

\* The loser of the race for the row gets P2002, a 409.
AcquireKey(r) ==
  /\ \/ insertKey(r) /\ step(r, "handler") /\ UNCHANGED answer
     \/ /\ guard[r] = "acquire" /\ ~canAcquire(r)
        /\ reply(r, "conflict")
        /\ UNCHANGED <<keyRow, made>>
  /\ UNCHANGED <<sent, outages>>

\* handler() resolved: the transfer exists.
Handle(r) ==
  /\ transfer(r)
  /\ \/ sent[r].key = NoKey /\ reply(r, r)
     \/ sent[r].key # NoKey /\ step(r, "complete") /\ UNCHANGED answer
  /\ UNCHANGED <<sent, outages>>

MarkKeyCompleted(r) == markKeyCompleted(r) /\ reply(r, r) /\ UNCHANGED <<sent, outages>>

\* Mutant: the catch block throws on without marking the row.
ThrowUnmarked(r) ==
  guard[r] = "fail" /\ reply(r, "error") /\ UNCHANGED <<keyRow, made, sent, outages>>

\* The catch block; the error is thrown on.
MarkKeyFailed(r) == markKeyFailed(r) /\ reply(r, "error") /\ UNCHANGED <<sent, outages>>

\* What a request awaits throws, or the process dies; it may have happened all the same.
\* What the handler or markCompleted throws reaches the catch block.
KeyOutage(r) ==
  /\ outages < MaxFailures
  /\ outages' = outages + 1
  /\ guard[r] \notin {"new", "done"}
  /\ \/ insertKey(r) \/ transfer(r) \/ markKeyCompleted(r) \/ markKeyFailed(r)
     \/ UNCHANGED <<keyRow, made>>
  /\ \/ /\ sent[r].key # NoKey /\ guard[r] \in {"handler", "complete"}
        /\ step(r, "fail")
        /\ UNCHANGED answer
     \/ reply(r, "outage")
  /\ UNCHANGED sent

Guarded(r) == FindKey(r) \/ AcquireKey(r) \/ Handle(r) \/ MarkKeyCompleted(r) \/ MarkKeyFailed(r)

KeysNext ==
  \E r \in Request : \/ \E k \in Key \cup {NoKey}, h \in Payload : ReceiveTransfer(r, k, h)
                     \/ Guarded(r) \/ KeyOutage(r)

-----------------------------------------------------------------------------
KeysTypeOK ==
  /\ keyRow \in [Key -> [status : {"none", "PROCESSING", "COMPLETED", "FAILED"},
                         hash : Payload \cup {NoRequest}, id : Request \cup {NoRequest},
                         response : Request \cup {NoRequest}]]
  /\ guard \in [Request -> {"new", "find", "acquire", "handler", "complete", "fail", "done"}]
  /\ sent \in [Request -> [key : Key \cup {NoKey}, hash : Payload \cup {NoRequest}]]
  /\ answer \in [Request -> Request \cup {"none", "error", "outage", "conflict"}]
  /\ made \in SUBSET Request
  /\ outages \in 0..MaxFailures

\* OneTransferPerKey: however often a client retries, and whoever races, fails or dies,
\* at most one transfer is ever made under an idempotency key.
OneTransferPerKey ==
  \A r, s \in made : sent[r].key # NoKey /\ sent[r].key = sent[s].key => r = s

\* AnswerIsOwnTransfer: a response, fresh or replayed, is that of a transfer which was made
\* under the key of the request and for the payload of the request.
AnswerIsOwnTransfer ==
  \A r \in Request : answer[r] \in Request =>
    /\ answer[r] \in made
    /\ sent[answer[r]].key = sent[r].key
    /\ sent[answer[r]].hash = sent[r].hash

\* A request past acquire, or whose transfer was made, is the one that inserted its row.
OwnsRow(r) ==
  /\ guard[r] # "done" => answer[r] = "none"
  /\ r \in made => guard[r] \in {"complete", "fail", "done"}
  /\ sent[r].key # NoKey /\ (r \in made \/ guard[r] \in {"handler", "complete", "fail"})
       => rowOf(r).id = r
  /\ guard[r] = "complete" => r \in made
  /\ guard[r] \in {"find", "acquire", "complete", "fail"} => sent[r].key # NoKey

\* A row is that of a request with its key and hash, which acquired it; a COMPLETED one
\* holds the response of the transfer of that request.
RowOwned(k) ==
  IF keyRow[k].status = "none" THEN keyRow[k].id = NoRequest
  ELSE /\ keyRow[k].id \in Request
       /\ guard[keyRow[k].id] \in {"handler", "complete", "fail", "done"}
       /\ sent[keyRow[k].id].key = k
       /\ sent[keyRow[k].id].hash = keyRow[k].hash
       /\ keyRow[k].status = "COMPLETED" =>
            keyRow[k].response = keyRow[k].id /\ keyRow[k].id \in made

\* KeyInv: why: the row of a key names the one request that may make a transfer under it.
KeyInv ==
  /\ \A r \in Request : OwnsRow(r)
  /\ \A k \in Key : RowOwned(k)
  /\ AnswerIsOwnTransfer

\* KeyResolves: a key stays PROCESSING for good only when the request that acquired it was
\* cut off: a handler that throws, or a response that cannot be stored, leaves it FAILED,
\* and a retry comes to be answered with the response, or told of a failure.
KeyResolves ==
  \A k \in Key : keyRow[k].status = "PROCESSING"
                   ~> (keyRow[k].status # "PROCESSING" \/ answer[keyRow[k].id] = "outage")
=============================================================================

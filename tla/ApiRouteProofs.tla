--------------------------- MODULE ApiRouteProofs ---------------------------
(***************************************************************************)
(* The invariants of two routes are inductive, for any number of requests, *)
(* keys, tenants and users: KeyInv of the idempotency guard and AccessInv  *)
(* of the API keys.  What a step does to the rows comes first, then one    *)
(* lemma for the arrival of a request and one for the rest of it.          *)
(***************************************************************************)
EXTENDS IdempotencyKeys, ApiAccess, TLAPS

-----------------------------------------------------------------------------
(* Idempotency keys                                                        *)

\* KeysTypeOK is kept by every step of withIdempotency.
LEMMA KeysTypeStep ==
  ASSUME KeysTypeOK, KeyInv, NEW r \in Request,
         \/ \E k \in Key \cup {NoKey}, h \in Payload : ReceiveTransfer(r, k, h)
         \/ Guarded(r) \/ KeyOutage(r)
  PROVE  KeysTypeOK'
<1> DEFINE RowType == [status : {"none", "PROCESSING", "COMPLETED", "FAILED"},
                       hash : Payload \cup {NoRequest}, id : Request \cup {NoRequest},
                       response : Request \cup {NoRequest}]
<1>1. /\ guard[r] \in {"find", "acquire", "complete", "fail"} => sent[r].key \in Key
      /\ sent[r].hash \in Payload \cup {NoRequest}
  BY DEF KeysTypeOK, KeyInv, OwnsRow
<1>2. ASSUME insertKey(r) \/ transfer(r) \/ markKeyCompleted(r) \/ markKeyFailed(r)
      PROVE  keyRow' \in [Key -> RowType] /\ made' \in SUBSET Request
  <2>1. keyRow \in [Key -> RowType] /\ made \in SUBSET Request
    BY DEF KeysTypeOK
  <2>2. CASE insertKey(r)
    BY <1>1, <2>1, <2>2 DEF insertKey, canAcquire
  <2>3. CASE transfer(r)
    BY <2>1, <2>3 DEF transfer
  <2>4. CASE markKeyCompleted(r)
    BY <2>1, <2>4 DEF markKeyCompleted, updateKey
  <2>5. CASE markKeyFailed(r)
    BY <2>1, <2>5 DEF markKeyFailed, updateKey
  <2> QED
    BY <1>2, <2>2, <2>3, <2>4, <2>5
<1>3. ASSUME NEW k \in Key \cup {NoKey}, NEW h \in Payload, ReceiveTransfer(r, k, h)
      PROVE  KeysTypeOK'
  BY <1>3 DEF ReceiveTransfer, KeysTypeOK, step
<1>4. CASE FindKey(r)
  <2>1. replays(r) => rowOf(r).response \in Request
    BY <1>1, <1>4 DEF FindKey, replays, rowOf, KeyInv, RowOwned
  <2> QED
    BY <1>4, <2>1 DEF FindKey, KeysTypeOK, step, reply
<1>5. CASE AcquireKey(r)
  <2>1. keyRow' \in [Key -> RowType] /\ made' \in SUBSET Request
    BY <1>2, <1>5 DEF AcquireKey, KeysTypeOK
  <2> QED
    BY <1>5, <2>1 DEF AcquireKey, KeysTypeOK, step, reply
<1>6. CASE Handle(r)
  <2>1. keyRow' \in [Key -> RowType] /\ made' \in SUBSET Request
    BY <1>2, <1>6 DEF Handle, KeysTypeOK
  <2>2. CASE reply(r, r)
    BY <1>6, <2>1, <2>2 DEF Handle, KeysTypeOK, step, reply
  <2>3. CASE step(r, "complete") /\ UNCHANGED answer
    BY <1>6, <2>1, <2>3 DEF Handle, KeysTypeOK, step
  <2> QED
    BY <1>6, <2>2, <2>3 DEF Handle
<1>7. CASE MarkKeyCompleted(r)
  BY <1>2, <1>7 DEF MarkKeyCompleted, KeysTypeOK, step, reply
<1>8. CASE MarkKeyFailed(r)
  BY <1>2, <1>8 DEF MarkKeyFailed, KeysTypeOK, step, reply
<1>9. CASE KeyOutage(r)
  <2>1. keyRow' \in [Key -> RowType] /\ made' \in SUBSET Request
    BY <1>2, <1>9 DEF KeyOutage, KeysTypeOK
  <2>2. outages' \in 0..MaxFailures
    BY <1>9, KeyAssumption DEF KeyOutage, KeysTypeOK
  <2> QED
    BY <1>9, <2>1, <2>2 DEF KeyOutage, KeysTypeOK, step, reply
<1> QED
  BY <1>3, <1>4, <1>5, <1>6, <1>7, <1>8, <1>9 DEF Guarded

\* KeyInv is kept when a request arrives, with or without a key.
LEMMA KeyInvReceive ==
  ASSUME KeysTypeOK, KeyInv, NEW r \in Request, NEW k \in Key \cup {NoKey}, NEW h \in Payload,
         ReceiveTransfer(r, k, h)
  PROVE  KeyInv'
<1>1. /\ guard[r] = "new" /\ r \notin made
      /\ guard'[r] = (IF k = NoKey THEN "handler" ELSE "find")
      /\ sent'[r].key = k
      /\ \A q \in Request \ {r} : guard'[q] = guard[q] /\ sent'[q] = sent[q]
      /\ UNCHANGED <<keyRow, answer, made>>
  BY DEF ReceiveTransfer, KeysTypeOK, step, KeyInv, OwnsRow
<1>2. \A q \in Request : OwnsRow(q)'
  BY <1>1 DEF KeyInv, OwnsRow, rowOf
<1>3. \A j \in Key : RowOwned(j)'
  BY <1>1 DEF KeyInv, RowOwned
<1>4. AnswerIsOwnTransfer'
  BY <1>1, KeyAssumption DEF KeyInv, AnswerIsOwnTransfer, OwnsRow, KeysTypeOK
<1> QED
  BY <1>2, <1>3, <1>4 DEF KeyInv

\* What a request may do to the table and to the transfers, and where that leaves it.
KeyEffect(r) ==
  \/ insertKey(r) /\ guard'[r] \in {"handler", "done"}
  \/ transfer(r) /\ guard'[r] \in {"complete", "fail", "done"}
  \/ markKeyCompleted(r) /\ guard'[r] \in {"fail", "done"}
  \/ markKeyFailed(r) /\ guard'[r] = "done"
  \/ UNCHANGED <<keyRow, made>> /\ guard'[r] = "acquire" /\ guard[r] = "find"
  \/ UNCHANGED <<keyRow, made>> /\ guard'[r] = "fail" /\ guard[r] \in {"handler", "complete"}
  \/ UNCHANGED <<keyRow, made>> /\ guard'[r] = "done" /\ guard[r] \notin {"new", "done"}

\* KeyInv is kept by such an effect, when the answer given is that of a transfer of the
\* key and the payload.
LEMMA KeyInvEffect ==
  ASSUME KeysTypeOK, KeyInv, NEW r \in Request, KeyEffect(r), UNCHANGED sent,
         \A q \in Request \ {r} : guard'[q] = guard[q] /\ answer'[q] = answer[q],
         guard'[r] \in {"complete", "fail"} => sent[r].key # NoKey,
         guard'[r] # "done" => answer'[r] = answer[r],
         answer'[r] \in Request =>
           /\ answer'[r] \in made'
           /\ sent[answer'[r]].key = sent[r].key /\ sent[answer'[r]].hash = sent[r].hash
  PROVE  KeyInv'
<1>1. /\ guard[r] \in {"find", "acquire", "complete", "fail"} => sent[r].key \in Key
      /\ \A q \in Request : sent[q].key # NoKey => sent[q].key \in Key
      /\ \A q \in Request : OwnsRow(q)
      /\ \A k \in Key : RowOwned(k)
      /\ made \subseteq made'
      /\ \A q \in Request \ {r} : q \in made' => q \in made
      /\ keyRow \in [Key -> [status : {"none", "PROCESSING", "COMPLETED", "FAILED"},
                       hash : Payload \cup {NoRequest}, id : Request \cup {NoRequest},
                       response : Request \cup {NoRequest}]]
  BY DEF KeysTypeOK, KeyInv, OwnsRow, KeyEffect, insertKey, transfer, markKeyCompleted,
     markKeyFailed, updateKey
<1>2. AnswerIsOwnTransfer'
  BY <1>1 DEF KeyInv, AnswerIsOwnTransfer
<1>3. (\A q \in Request : OwnsRow(q)') /\ (\A k \in Key : RowOwned(k)')
  <2>1. CASE insertKey(r) /\ guard'[r] \in {"handler", "done"}
    <3>1. /\ sent[r].key \in Key /\ keyRow[sent[r].key].status = "none" /\ UNCHANGED made
          /\ guard[r] = "acquire"
          /\ keyRow'[sent[r].key] = [status |-> "PROCESSING", hash |-> sent[r].hash, id |-> r,
                                     response |-> NoRequest]
          /\ \A k \in Key \ {sent[r].key} : keyRow'[k] = keyRow[k]
      BY <1>1, <2>1 DEF insertKey, canAcquire, rowOf
    <3>2. ASSUME NEW q \in Request PROVE OwnsRow(q)'
      BY <1>1, <2>1, <3>1, KeyAssumption DEF OwnsRow, RowOwned, rowOf
    <3>3. ASSUME NEW k \in Key PROVE RowOwned(k)'
      BY <1>1, <2>1, <3>1 DEF RowOwned
    <3> QED
      BY <3>2, <3>3
  <2>2. CASE transfer(r) /\ guard'[r] \in {"complete", "fail", "done"}
    BY <1>1, <2>2 DEF transfer, OwnsRow, RowOwned, rowOf
  <2>3. CASE markKeyCompleted(r) /\ guard'[r] \in {"fail", "done"}
    <3>1. /\ guard[r] = "complete" /\ UNCHANGED made /\ r \in made
          /\ \A k \in Key : keyRow'[k].id = keyRow[k].id /\ keyRow'[k].hash = keyRow[k].hash
          /\ \A k \in Key : keyRow[k].id = r =>
               keyRow'[k].status = "COMPLETED" /\ keyRow'[k].response = r
          /\ \A k \in Key : keyRow[k].id # r => keyRow'[k] = keyRow[k]
      BY <1>1, <2>3 DEF markKeyCompleted, updateKey, OwnsRow
    <3>2. ASSUME NEW q \in Request PROVE OwnsRow(q)'
      BY <1>1, <2>3, <3>1 DEF OwnsRow, rowOf
    <3>3. ASSUME NEW k \in Key PROVE RowOwned(k)'
      BY <1>1, <2>3, <3>1, KeyAssumption DEF RowOwned
    <3> QED
      BY <3>2, <3>3
  <2>4. CASE markKeyFailed(r) /\ guard'[r] = "done"
    <3>1. /\ guard[r] = "fail" /\ UNCHANGED made
          /\ \A k \in Key : keyRow'[k].id = keyRow[k].id /\ keyRow'[k].hash = keyRow[k].hash
          /\ \A k \in Key : keyRow[k].id = r =>
               keyRow'[k].status = "FAILED" /\ keyRow'[k].response = NoRequest
          /\ \A k \in Key : keyRow[k].id # r => keyRow'[k] = keyRow[k]
      BY <1>1, <2>4 DEF markKeyFailed, updateKey
    <3>2. ASSUME NEW q \in Request PROVE OwnsRow(q)'
      BY <1>1, <2>4, <3>1 DEF OwnsRow, rowOf
    <3>3. ASSUME NEW k \in Key PROVE RowOwned(k)'
      BY <1>1, <2>4, <3>1, KeyAssumption DEF RowOwned
    <3> QED
      BY <3>2, <3>3
  <2>5. CASE /\ UNCHANGED <<keyRow, made>>
             /\ \/ guard'[r] = "acquire" /\ guard[r] = "find"
                \/ guard'[r] = "fail" /\ guard[r] \in {"handler", "complete"}
                \/ guard'[r] = "done" /\ guard[r] \notin {"new", "done"}
    BY <1>1, <2>5 DEF OwnsRow, RowOwned, rowOf
  <2> QED
    BY <2>1, <2>2, <2>3, <2>4, <2>5 DEF KeyEffect
<1> QED
  BY <1>2, <1>3 DEF KeyInv

\* KeysTypeOK and KeyInv are kept by every step of the transfer route.
LEMMA KeysStep ==
  ASSUME KeysTypeOK, KeyInv, KeysNext
  PROVE  KeysTypeOK' /\ KeyInv'
<1>1. PICK r \in Request :
        \/ \E k \in Key \cup {NoKey}, h \in Payload : ReceiveTransfer(r, k, h)
        \/ Guarded(r) \/ KeyOutage(r)
  BY DEF KeysNext
<1>2. KeysTypeOK'
  BY <1>1, KeysTypeStep
<1>3. CASE \E k \in Key \cup {NoKey}, h \in Payload : ReceiveTransfer(r, k, h)
  BY <1>2, <1>3, KeyInvReceive
<1>4. CASE Guarded(r) \/ KeyOutage(r)
  <2>1. UNCHANGED sent /\ \A q \in Request \ {r} : guard'[q] = guard[q] /\ answer'[q] = answer[q]
    BY <1>4 DEF Guarded, FindKey, AcquireKey, Handle, MarkKeyCompleted, MarkKeyFailed, KeyOutage,
       step, reply, KeysTypeOK
  <2>2. OwnsRow(r) /\ guard \in [Request -> {"new", "find", "acquire", "handler", "complete",
                                             "fail", "done"}]
                   /\ DOMAIN answer = Request
    BY DEF KeyInv, KeysTypeOK
  <2>3. /\ KeyEffect(r)
        /\ guard'[r] \in {"complete", "fail"} => sent[r].key # NoKey
        /\ guard'[r] # "done" => answer'[r] = answer[r]
    <3>1. CASE FindKey(r)
      BY <2>2, <3>1 DEF FindKey, KeyEffect, step, reply
    <3>2. CASE AcquireKey(r)
      BY <2>2, <3>2 DEF AcquireKey, KeyEffect, step, reply
    <3>3. CASE Handle(r)
      BY <2>2, <3>3 DEF Handle, KeyEffect, step, reply
    <3>4. CASE MarkKeyCompleted(r) \/ MarkKeyFailed(r)
      BY <2>2, <3>4 DEF MarkKeyCompleted, MarkKeyFailed, KeyEffect, step, reply
    <3>5. CASE KeyOutage(r)
      <4>1. guard[r] \notin {"new", "done"}
        BY <3>5 DEF KeyOutage
      <4>2. \/ /\ sent[r].key # NoKey /\ guard[r] \in {"handler", "complete"}
               /\ guard'[r] = "fail" /\ answer' = answer
            \/ guard'[r] = "done"
        BY <2>2, <3>5 DEF KeyOutage, step, reply
      <4> QED
        BY <3>5, <4>1, <4>2 DEF KeyOutage, KeyEffect, insertKey, canAcquire, transfer,
           markKeyCompleted, markKeyFailed
    <3> QED
      BY <1>4, <3>1, <3>2, <3>3, <3>4, <3>5 DEF Guarded
  <2>4. ASSUME answer'[r] \in Request
        PROVE  /\ answer'[r] \in made'
               /\ sent[answer'[r]].key = sent[r].key /\ sent[answer'[r]].hash = sent[r].hash
    <3>1. ASSUME answer'[r] = answer[r] PROVE FALSE
      <4>1. guard[r] # "done"
        BY <1>4 DEF Guarded, FindKey, AcquireKey, insertKey, canAcquire, Handle, transfer,
           MarkKeyCompleted, markKeyCompleted, MarkKeyFailed, markKeyFailed, KeyOutage
      <4> QED
        BY <2>2, <2>4, <3>1, <4>1, KeyAssumption DEF OwnsRow
    <3>2. CASE FindKey(r)
      <4>1. replays(r) /\ answer'[r] = rowOf(r).response /\ UNCHANGED made /\ sent[r].key \in Key
        BY <2>2, <2>4, <3>1, <3>2, KeyAssumption DEF FindKey, step, reply, OwnsRow, KeysTypeOK
      <4> QED
        BY <4>1 DEF replays, rowOf, KeyInv, RowOwned
    <3>3. CASE AcquireKey(r)
      BY <2>2, <2>4, <3>1, <3>3, KeyAssumption DEF AcquireKey, step, reply
    <3>4. CASE Handle(r)
      BY <2>2, <3>1, <3>4 DEF Handle, transfer, step, reply
    <3>5. CASE MarkKeyCompleted(r)
      BY <2>2, <3>5 DEF MarkKeyCompleted, markKeyCompleted, updateKey, step, reply, OwnsRow
    <3>6. CASE MarkKeyFailed(r)
      BY <2>2, <2>4, <3>6, KeyAssumption DEF MarkKeyFailed, step, reply
    <3>7. CASE KeyOutage(r)
      BY <2>2, <2>4, <3>1, <3>7, KeyAssumption DEF KeyOutage, step, reply
    <3> QED
      BY <1>4, <3>2, <3>3, <3>4, <3>5, <3>6, <3>7 DEF Guarded
  <2> QED
    BY <1>2, <2>1, <2>3, <2>4, KeyInvEffect
<1> QED
  BY <1>1, <1>3, <1>4

-----------------------------------------------------------------------------
(* API keys and users                                                      *)

KeyRows == [ApiKey -> [tenant : Tenant \cup {Absent}, revokedBy : Call \cup {Absent}]]

\* The fields of a request.
LEMMA AskedFields ==
  ASSUME NEW q \in Asked
  PROVE  /\ q.op \in {"create", "revoke", "tenant", "register", "login", "refresh"}
         /\ q.op \in {"create", "revoke"} => q.key \in ApiKey /\ q.by \in Principal \cup {Absent}
         /\ q.op = "tenant" => q.key \in ApiKey /\ q.tenant \in Tenant
         /\ q.op = "register" => q.key \in ApiKey \cup {Absent} /\ q.email \in Email
         /\ q.op = "login" => q.email \in Email
BY DEF Asked

\* What a call does to the ApiKey rows: revokedAt, once set, stays.
LEMMA KeyRowsStep ==
  ASSUME AccessTypeOK, AccessInv, NEW c \in Call, at[c] # "new",
         createKey(c) \/ createTenant(c) \/ revoke(c) \/ UNCHANGED keys
  PROVE  /\ keys' \in KeyRows
         /\ \A k \in ApiKey : keys[k].revokedBy # Absent => keys'[k] = keys[k]
         /\ \A k \in ApiKey : keys'[k].revokedBy # keys[k].revokedBy =>
              /\ revoke(c) /\ k = asked[c].key /\ keys'[k].revokedBy = c
              /\ keys'[k].tenant = keys[k].tenant
<1>1. /\ keys \in KeyRows /\ CallInv(c) /\ asked[c] \in Asked
      /\ \A k \in ApiKey : keys[k].revokedBy # Absent => keys[k].tenant # Absent
  BY DEF AccessTypeOK, AccessInv, CallInv, KeyRows
<1>2. ASSUME NEW k \in ApiKey, NEW t \in Tenant, insertApiKey(k, t)
      PROVE  /\ keys' \in KeyRows
             /\ \A j \in ApiKey : keys[j].revokedBy # Absent => keys'[j] = keys[j]
             /\ \A j \in ApiKey : keys'[j].revokedBy = keys[j].revokedBy
  <2>1. /\ keys' \in KeyRows
        /\ \A j \in ApiKey \ {k} : keys'[j] = keys[j]
        /\ keys'[k].revokedBy = Absent /\ keys[k].tenant = Absent
    BY <1>1, <1>2 DEF insertApiKey, KeyRows
  <2>2. keys[k].revokedBy = Absent
    BY <1>1, <2>1
  <2> QED
    BY <2>1, <2>2
<1>3. CASE createKey(c)
  <2>1. asked[c].key \in ApiKey /\ asked[c].by.tenant \in Tenant
    BY <1>1, <1>3, AskedFields, AccessAssumption DEF createKey, CallInv, admitted
  <2> QED
    BY <1>1, <1>2, <1>3, <2>1 DEF createKey
<1>4. CASE createTenant(c)
  <2>1. asked[c].key \in ApiKey /\ asked[c].tenant \in Tenant
    BY <1>1, <1>4, AskedFields DEF createTenant, CallInv
  <2> QED
    BY <1>1, <1>2, <1>4, <2>1 DEF createTenant
<1>5. CASE revoke(c)
  <2>1. asked[c].key \in ApiKey /\ keys[asked[c].key].revokedBy = Absent
    BY <1>1, <1>5, AskedFields DEF revoke, revocable, CallInv
  <2>2. /\ \A k \in ApiKey \ {asked[c].key} : keys'[k] = keys[k]
        /\ keys'[asked[c].key].tenant = keys[asked[c].key].tenant
        /\ keys'[asked[c].key].revokedBy = c
        /\ keys' \in KeyRows
    BY <1>1, <1>5, <2>1 DEF revoke, KeyRows
  <2> QED
    BY <1>5, <2>1, <2>2
<1>6. CASE UNCHANGED keys
  BY <1>1, <1>6
<1> QED
  BY <1>3, <1>4, <1>5, <1>6

\* A call that does not move keeps its invariant as long as revokedAt stays written.
LEMMA CallFrame ==
  ASSUME NEW d \in Call, CallInv(d), at'[d] = at[d], outcome'[d] = outcome[d],
         asked'[d] = asked[d], known'[d] = known[d],
         \A k \in known[d] : keys'[k].revokedBy # Absent,
         hasUpdated(d) => keys'[asked[d].key].revokedBy = d
  PROVE  CallInv(d)' /\ (hasUpdated(d)' <=> hasUpdated(d))
<1>1. hasUpdated(d)' <=> hasUpdated(d)
  BY DEF hasUpdated
<1>2. /\ \A k \in known'[d] : keys'[k].revokedBy # Absent
      /\ hasUpdated(d)' => keys'[asked'[d].key].revokedBy = d
  BY <1>1
<1>3. admitted(asked[d])' <=> admitted(asked[d])
  BY DEF admitted
<1> QED
  BY <1>1, <1>2, <1>3 DEF CallInv

\* AccessInv depends on these tables and on the calls only.
LEMMA AccessFrame ==
  ASSUME AccessInv, UNCHANGED <<keys, users, at, asked, outcome, known>>
  PROVE  AccessInv'
<1>1. ASSUME NEW d \in Call PROVE CallInv(d)' /\ (hasUpdated(d)' <=> hasUpdated(d))
  <2>1. CallInv(d)
    BY DEF AccessInv
  <2>2. /\ \A k \in known[d] : keys'[k].revokedBy # Absent
        /\ hasUpdated(d) => keys'[asked[d].key].revokedBy = d
    BY <2>1 DEF CallInv
  <2> QED
    BY <2>1, <2>2, CallFrame
<1>2. RevocationHolds'
  BY DEF AccessInv, RevocationHolds
<1>3. RevokedByOwnTenant'
  BY DEF AccessInv, RevokedByOwnTenant
<1>4. /\ \A e \in Email : users'[e] # Absent => at'[users'[e]] # "new"
      /\ \A k \in ApiKey : keys'[k].revokedBy # Absent => keys'[k].tenant # Absent
  BY DEF AccessInv
<1> QED
  BY <1>1, <1>2, <1>3, <1>4 DEF AccessInv

\* AccessInv is kept when a request arrives.
LEMMA AccessInvReceive ==
  ASSUME AccessTypeOK, AccessInv, NEW c \in Call, NEW q \in Asked, ReceiveCall(c, q)
  PROVE  AccessInv'
<1>1. /\ at[c] = "new" /\ asked'[c] = q /\ UNCHANGED <<keys, users>>
      /\ \A d \in Call \ {c} : /\ at'[d] = at[d] /\ outcome'[d] = outcome[d]
                               /\ asked'[d] = asked[d] /\ known'[d] = known[d]
      /\ known'[c] = {asked[d].key : d \in {e \in Call : hasRevoked(e)}}
  BY DEF ReceiveCall, goto, finish, tables, AccessTypeOK
<1>2. outcome[c] = "none" /\ asked[c] = Absent
  BY <1>1 DEF AccessInv, CallInv
<1>3. \/ admitted(q) /\ at'[c] = (IF q.op = "revoke" THEN "find" ELSE q.op) /\ outcome'[c] = "none"
      \/ at'[c] = "done" /\ outcome'[c] = "rejected"
  BY <1>2 DEF ReceiveCall, goto, finish, AccessTypeOK
<1>4. q.op \in {"create", "revoke", "tenant", "register", "login", "refresh"}
  BY AskedFields
<1>5. at'[c] \in {"find", "create", "tenant", "register", "login", "refresh", "done"}
      /\ outcome'[c] # "ok"
  BY <1>3, <1>4
<1>6. ~hasUpdated(c)' /\ \A d \in Call \ {c} : hasUpdated(d)' <=> hasUpdated(d)
  BY <1>1, <1>5 DEF hasUpdated
<1>7. ASSUME NEW k \in known'[c] PROVE keys[k].revokedBy # Absent
  <2>1. PICK d \in Call : hasRevoked(d) /\ k = asked[d].key
    BY <1>1, <1>7
  <2>2. CallInv(d)
    BY DEF AccessInv
  <2>3. hasUpdated(d)
    BY <2>1, <2>2 DEF hasRevoked, hasUpdated, CallInv
  <2> QED
    BY <2>1, <2>2, <2>3, AccessAssumption DEF CallInv
<1>8. CallInv(c)'
  BY <1>1, <1>3, <1>4, <1>5, <1>6, <1>7 DEF CallInv, admitted
<1>9. ASSUME NEW d \in Call \ {c} PROVE CallInv(d)'
  <2>1. CallInv(d)
    BY DEF AccessInv
  <2>2. /\ \A k \in known[d] : keys'[k].revokedBy # Absent
        /\ hasUpdated(d) => keys'[asked[d].key].revokedBy = d
    BY <1>1, <2>1 DEF CallInv
  <2> QED
    BY <1>1, <2>1, <2>2, CallFrame
<1>10. ASSUME NEW e \in Email, users'[e] # Absent
       PROVE  at'[users'[e]] # "new" /\ asked'[users'[e]].key \notin known'[users'[e]]
  <2>1. users'[e] = users[e] /\ users[e] \in Call /\ at[users[e]] # "new"
    BY <1>1, <1>10 DEF AccessInv, AccessTypeOK
  <2>2. asked[users[e]].key \notin known[users[e]]
    BY <1>10, <2>1 DEF AccessInv, RevocationHolds
  <2>3. users[e] \in Call \ {c}
    BY <1>1, <2>1
  <2> QED
    BY <1>1, <2>1, <2>2, <2>3
<1>11. RevokedByOwnTenant'
  <2> SUFFICES ASSUME NEW k \in ApiKey, keys[k].revokedBy # Absent
               PROVE  asked'[keys[k].revokedBy] = asked[keys[k].revokedBy]
    BY <1>1 DEF AccessInv, RevokedByOwnTenant
  <2>1. keys[k].revokedBy \in Call
    BY DEF AccessTypeOK
  <2>2. RevokedByOwnTenant
    BY DEF AccessInv
  <2>3. asked[keys[k].revokedBy] # Absent
    BY <2>2 DEF RevokedByOwnTenant
  <2> QED
    BY <1>1, <1>2, <2>1, <2>3
<1>12. \A d \in Call : CallInv(d)'
  BY <1>8, <1>9
<1>13. \A k \in ApiKey : keys'[k].revokedBy # Absent => keys'[k].tenant # Absent
  BY <1>1 DEF AccessInv
<1> QED
  BY <1>10, <1>11, <1>12, <1>13 DEF AccessInv, RevocationHolds

\* What a call does after it arrived moves no other call, and is at most one write.
LEMMA CallMoves ==
  ASSUME AccessTypeOK, NEW c \in Call, Serve(c) \/ CallFails(c)
  PROVE  /\ at[c] \notin {"new", "done"} /\ UNCHANGED <<asked, known>>
         /\ \A d \in Call \ {c} : at'[d] = at[d] /\ outcome'[d] = outcome[d]
         /\ at[c] = "store" => at'[c] = "done"
         /\ \/ createKey(c) \/ createTenant(c) \/ revoke(c) \/ createUser(c) \/ storeSession(c)
            \/ record(c) \/ UNCHANGED tables
<1>1. ASSUME NEW l, goto(c, l)
      PROVE  \A d \in Call \ {c} : at'[d] = at[d] /\ outcome'[d] = outcome[d]
  BY <1>1 DEF goto, AccessTypeOK
<1>2. ASSUME NEW o, finish(c, o)
      PROVE  /\ \A d \in Call \ {c} : at'[d] = at[d] /\ outcome'[d] = outcome[d]
             /\ at'[c] = "done"
  BY <1>2 DEF finish, AccessTypeOK
<1>3. CASE IssueKey(c)
  BY <1>1, <1>3 DEF IssueKey, createKey, createTenant
<1>4. CASE FindOwnKey(c)
  BY <1>1, <1>2, <1>4 DEF FindOwnKey
<1>5. CASE RevokeKey(c)
  BY <1>1, <1>2, <1>5 DEF RevokeKey, revoke, revocable
<1>6. CASE VerifyKey(c)
  BY <1>1, <1>2, <1>6, ZenonT(40) DEF VerifyKey
<1>7. CASE CreateUser(c)
  BY <1>1, <1>2, <1>7, ZenonT(40) DEF CreateUser, createUser
<1>8. CASE Login(c)
  BY <1>1, <1>8 DEF Login
<1>9. CASE StoreSession(c) \/ Refresh(c)
  BY <1>2, <1>9 DEF StoreSession, storeSession, Refresh
<1>10. CASE Record(c)
  BY <1>1, <1>2, <1>10 DEF Record, afterAudit
<1>11. CASE CallFails(c)
  BY <1>2, <1>11 DEF CallFails
<1> QED
  BY <1>3, <1>4, <1>5, <1>6, <1>7, <1>8, <1>9, <1>10, <1>11 DEF Serve

\* AccessInv is kept by what a call does after it arrived.
LEMMA AccessInvServe ==
  ASSUME AccessTypeOK, AccessInv, NEW c \in Call, Serve(c) \/ CallFails(c)
  PROVE  AccessInv'
<1>1. /\ at[c] \notin {"new", "done"} /\ UNCHANGED <<asked, known>>
      /\ \A d \in Call \ {c} : at'[d] = at[d] /\ outcome'[d] = outcome[d]
  BY CallMoves
<1>2. CallInv(c) /\ asked[c] \in Asked /\ outcome[c] = "none"
  BY <1>1 DEF AccessInv, CallInv
<1>3. \/ createKey(c) \/ createTenant(c) \/ revoke(c) \/ createUser(c) \/ storeSession(c)
      \/ record(c) \/ UNCHANGED tables
  BY CallMoves
<1>4. /\ \A k \in ApiKey : keys[k].revokedBy # Absent => keys'[k] = keys[k]
      /\ \A k \in ApiKey : keys'[k].revokedBy # keys[k].revokedBy =>
           /\ revoke(c) /\ k = asked[c].key /\ keys'[k].revokedBy = c
           /\ keys'[k].tenant = keys[k].tenant
  <2>1. createKey(c) \/ createTenant(c) \/ revoke(c) \/ UNCHANGED keys
    BY <1>3 DEF createUser, storeSession, record, tables
  <2> QED
    BY <1>1, <2>1, KeyRowsStep
<1>5. ASSUME revoke(c)
      PROVE  /\ asked[c].op = "revoke" /\ asked[c].key \in ApiKey
             /\ keys'[asked[c].key].revokedBy = c
             /\ asked[c].by \in Principal /\ asked[c].by.role = "ADMIN"
             /\ keys[asked[c].key].tenant = asked[c].by.tenant
  <2>1. /\ at[c] = "revoke"
        /\ keys[asked[c].key].tenant = asked[c].by.tenant
        /\ keys' = [keys EXCEPT ![asked[c].key] = [tenant |-> @.tenant, revokedBy |-> c]]
    BY <1>5 DEF revoke, revocable, owns
  <2>2. asked[c].op = "revoke" /\ admitted(asked[c])
    BY <1>2, <2>1 DEF CallInv
  <2>3. asked[c].key \in ApiKey /\ asked[c].by \in Principal \cup {Absent}
    BY <1>2, <2>2, AskedFields
  <2>4. asked[c].by \in Principal /\ asked[c].by.role = "ADMIN"
    BY <2>2, <2>3 DEF admitted
  <2>5. keys'[asked[c].key].revokedBy = c
    BY <2>1, <2>3 DEF AccessTypeOK
  <2> QED
    BY <2>1, <2>2, <2>3, <2>4, <2>5
<1>6. \A e \in Email : users'[e] # users[e] => users'[e] = c /\ at[c] = "user"
  BY <1>3 DEF createKey, createTenant, insertApiKey, revoke, createUser, storeSession, record,
     tables, AccessTypeOK
<1>7. /\ at'[c] \in {"audit", "revoke", "user", "refuse", "store", "done"}
      /\ at'[c] # "done" => outcome'[c] = "none"
      /\ at'[c] = "revoke" => at[c] = "find"
      /\ at'[c] = "user" => at[c] = "register" /\ verifies(asked[c].key)
      /\ at'[c] \in {"refuse", "store"} => asked[c].op = "login"
      /\ at'[c] = "audit" => asked[c].op # "refresh"
      /\ asked[c].op = "revoke" /\ (at'[c] = "audit" \/ outcome'[c] = "ok") => revoke(c) \/ at[c] = "audit"
  <2>1. CASE IssueKey(c)
    BY <1>2, <2>1 DEF IssueKey, createKey, createTenant, goto, CallInv, AccessTypeOK
  <2>2. CASE FindOwnKey(c) \/ RevokeKey(c)
    BY <1>2, <2>2 DEF FindOwnKey, RevokeKey, revoke, revocable, goto, finish, CallInv, AccessTypeOK
  <2>3. CASE VerifyKey(c)
    BY <1>2, <2>3 DEF VerifyKey, goto, finish, CallInv, AccessTypeOK
  <2>4. CASE CreateUser(c)
    BY <1>2, <2>4 DEF CreateUser, createUser, goto, finish, CallInv, AccessTypeOK
  <2>5. CASE Login(c) \/ StoreSession(c) \/ Refresh(c)
    BY <1>2, <2>5 DEF Login, StoreSession, storeSession, Refresh, goto, finish, CallInv, AccessTypeOK
  <2>6. CASE Record(c)
    BY <1>2, <2>6 DEF Record, afterAudit, goto, finish, CallInv, AccessTypeOK
  <2>7. CASE CallFails(c)
    BY <1>2, <2>7 DEF CallFails, finish, AccessTypeOK
  <2> QED
    BY <2>1, <2>2, <2>3, <2>4, <2>5, <2>6, <2>7 DEF Serve
<1>8. /\ hasUpdated(c)' => revoke(c) \/ hasUpdated(c)
      /\ \A d \in Call \ {c} : hasUpdated(d)' <=> hasUpdated(d)
  BY <1>1, <1>7 DEF hasUpdated
<1>9. \A d \in Call : hasUpdated(d) => asked[d].key \in ApiKey
  BY AskedFields DEF hasUpdated, AccessInv, CallInv
<1>10. ASSUME NEW d \in Call, NEW k \in known[d] PROVE keys'[k].revokedBy # Absent
  <2>1. k \in ApiKey
    BY DEF AccessTypeOK
  <2>2. CallInv(d)
    BY DEF AccessInv
  <2>3. keys[k].revokedBy # Absent
    BY <2>2 DEF CallInv
  <2> QED
    BY <1>4, <2>1, <2>3
<1>11. ASSUME NEW d \in Call PROVE CallInv(d)'
  <2>1. CASE d # c
    <3>1. CallInv(d)
      BY DEF AccessInv
    <3>2. hasUpdated(d) => keys'[asked[d].key].revokedBy = d
      BY <1>4, <1>9, <3>1, AccessAssumption DEF CallInv
    <3> QED
      BY <1>1, <1>10, <2>1, <3>1, <3>2, CallFrame
  <2>2. CASE d = c
    <3>1. hasUpdated(c)' => keys'[asked[c].key].revokedBy = c
      <4>1. hasUpdated(c) => keys[asked[c].key].revokedBy = c /\ asked[c].key \in ApiKey
        BY <1>2, <1>9 DEF CallInv
      <4>2. hasUpdated(c) => keys'[asked[c].key].revokedBy = c
        BY <1>4, <4>1, AccessAssumption
      <4> QED
        BY <1>5, <1>8, <4>2
    <3>2. at'[c] = "user" => asked[c].key \notin known[c]
      <4>1. \A k \in known[c] : keys[k].revokedBy # Absent
        BY <1>2 DEF CallInv
      <4> QED
        BY <1>7, <4>1 DEF verifies
    <3> QED
      BY <1>1, <1>2, <1>7, <1>10, <2>2, <3>1, <3>2 DEF CallInv, admitted
  <2> QED
    BY <2>1, <2>2
<1>12. ASSUME NEW e \in Email, users'[e] # Absent
       PROVE  at'[users'[e]] # "new" /\ asked[users'[e]].key \notin known[users'[e]]
  <2>1. at'[c] # "new"
    BY <1>7
  <2>2. CASE users'[e] = users[e]
    <3>1. users[e] \in Call
      BY <1>12, <2>2 DEF AccessTypeOK
    <3>2. at[users[e]] # "new" /\ asked[users[e]].key \notin known[users[e]]
      BY <1>12, <2>2 DEF AccessInv, RevocationHolds
    <3>3. at'[users[e]] # "new"
      BY <1>1, <2>1, <3>1, <3>2
    <3> QED
      BY <2>2, <3>2, <3>3
  <2>3. CASE users'[e] # users[e]
    BY <1>2, <1>6, <2>1, <2>3 DEF CallInv
  <2> QED
    BY <2>2, <2>3
<1>13. \A k \in ApiKey : keys'[k].revokedBy # Absent => keys'[k].tenant # Absent
  <2>1. revoke(c) => keys[asked[c].key].tenant # Absent
    BY <1>5, AccessAssumption
  <2> QED
    BY <1>4, <2>1 DEF AccessInv
<1>14. RevokedByOwnTenant'
  <2> SUFFICES ASSUME NEW k \in ApiKey, keys'[k].revokedBy # Absent
               PROVE  LET q == asked[keys'[k].revokedBy]
                      IN  /\ q # Absent /\ q.op = "revoke" /\ q.key = k
                          /\ q.by = [tenant |-> keys'[k].tenant, role |-> "ADMIN"]
    BY <1>1 DEF RevokedByOwnTenant
  <2>1. CASE keys'[k].revokedBy = keys[k].revokedBy
    BY <1>4, <2>1 DEF AccessInv, RevokedByOwnTenant
  <2>2. CASE keys'[k].revokedBy # keys[k].revokedBy
    <3>1. /\ revoke(c) /\ k = asked[c].key /\ keys'[k].revokedBy = c
          /\ keys'[k].tenant = asked[c].by.tenant
      BY <1>4, <1>5, <2>2
    <3>2. asked[c].by = [tenant |-> asked[c].by.tenant, role |-> "ADMIN"]
      BY <1>5, <3>1, AccessAssumption
    <3>3. asked[c] # Absent
      BY <1>2, AccessAssumption
    <3> QED
      BY <1>5, <3>1, <3>2, <3>3
  <2> QED
    BY <2>1, <2>2
<1> QED
  BY <1>1, <1>11, <1>12, <1>13, <1>14 DEF AccessInv, RevocationHolds

-----------------------------------------------------------------------------
(* The audit trail                                                         *)

\* HappenedStays: rows that are written stay, so what an entry tells stays true.
LEMMA HappenedStays ==
  ASSUME AccessTypeOK, NEW d \in Call, asked[d] \in Asked, asked'[d] = asked[d], happened(d),
         \A k \in ApiKey : keys[k].tenant # Absent => keys'[k].tenant = keys[k].tenant,
         \A k \in ApiKey : keys[k].revokedBy # Absent => keys'[k] = keys[k],
         \A e \in Email : users[e] # Absent => users'[e] = users[e]
  PROVE  happened(d)'
<1>1. /\ asked[d].op \in {"create", "tenant", "revoke"} => asked[d].key \in ApiKey
      /\ asked[d].op \in {"register", "login"} => asked[d].email \in Email
      /\ d # Absent
  BY AskedFields, AccessAssumption
<1> QED
  BY <1>1 DEF happened

\* RowsStay: no call undoes what another wrote.
LEMMA RowsStay ==
  ASSUME AccessTypeOK, AccessInv, NEW c \in Call, at[c] # "new",
         \/ createKey(c) \/ createTenant(c) \/ revoke(c) \/ createUser(c) \/ storeSession(c)
         \/ record(c) \/ UNCHANGED tables
  PROVE  /\ \A k \in ApiKey : keys[k].tenant # Absent => keys'[k].tenant = keys[k].tenant
         /\ \A k \in ApiKey : keys[k].revokedBy # Absent => keys'[k] = keys[k]
         /\ \A e \in Email : users[e] # Absent => users'[e] = users[e]
<1>1. createKey(c) \/ createTenant(c) \/ revoke(c) \/ UNCHANGED keys
  BY DEF createUser, storeSession, record, tables
<1>2. \A k \in ApiKey : keys[k].revokedBy # Absent => keys'[k] = keys[k]
  BY <1>1, KeyRowsStep
<1>3. \A k \in ApiKey : keys[k].tenant # Absent => keys'[k].tenant = keys[k].tenant
  BY <1>1 DEF createKey, createTenant, insertApiKey, revoke, AccessTypeOK
<1>4. \A e \in Email : users[e] # Absent => users'[e] = users[e]
  BY DEF createKey, createTenant, insertApiKey, revoke, createUser, storeSession, record, tables,
     AccessTypeOK
<1> QED
  BY <1>2, <1>3, <1>4

\* DoneBeforeAudit: a call that comes to its audit has done what the entry will tell.
LEMMA DoneBeforeAudit ==
  ASSUME AccessTypeOK, AccessInv, NEW c \in Call, Serve(c), at'[c] = "audit"
  PROVE  happened(c)'
<1>1. CallInv(c) /\ UNCHANGED asked
  BY DEF AccessInv, Serve, IssueKey, FindOwnKey, RevokeKey, VerifyKey, CreateUser, Login,
     StoreSession, Refresh, Record
<1>2. at[c] # "new" => asked[c] \in Asked
  BY <1>1 DEF CallInv
<1>3. CASE createKey(c) /\ IssueKey(c)
  <2>1. at[c] = "create" /\ asked[c].op = "create" /\ admitted(asked[c])
    BY <1>1, <1>3 DEF createKey, CallInv
  <2>2. asked[c].key \in ApiKey /\ asked[c].by.tenant \in Tenant
    BY <1>2, <2>1, AskedFields, AccessAssumption DEF admitted
  <2>3. keys'[asked[c].key].tenant = asked[c].by.tenant
    BY <1>3, <2>2 DEF createKey, insertApiKey, AccessTypeOK
  <2> QED
    BY <1>1, <2>1, <2>2, <2>3, AccessAssumption DEF happened
<1>4. CASE createTenant(c) /\ IssueKey(c)
  <2>1. at[c] = "tenant" /\ asked[c].op = "tenant"
    BY <1>1, <1>4 DEF createTenant, CallInv
  <2>2. asked[c].key \in ApiKey /\ asked[c].tenant \in Tenant
    BY <1>2, <2>1, AskedFields
  <2>3. keys'[asked[c].key].tenant = asked[c].tenant
    BY <1>4, <2>2 DEF createTenant, insertApiKey, AccessTypeOK
  <2> QED
    BY <1>1, <2>1, <2>2, <2>3, AccessAssumption DEF happened
<1>5. CASE RevokeKey(c)
  <2>1. at[c] = "revoke" /\ revoke(c)
    BY <1>5 DEF RevokeKey, revoke, revocable, finish, AccessTypeOK
  <2>2. asked[c].op = "revoke" /\ asked[c].key \in ApiKey
    BY <1>1, <1>2, <2>1, AskedFields, ZenonT(40) DEF CallInv
  <2>3. keys'[asked[c].key].revokedBy = c
    BY <2>1, <2>2 DEF revoke, AccessTypeOK
  <2> QED
    BY <1>1, <2>1, <2>2, <2>3 DEF happened
<1>6. CASE CreateUser(c)
  <2>1. at[c] = "user" /\ createUser(c)
    BY <1>6 DEF CreateUser, createUser, finish, AccessTypeOK
  <2>2. asked[c].op = "register" /\ asked[c].email \in Email
    BY <1>1, <1>2, <2>1, AskedFields DEF CallInv
  <2>3. users'[asked[c].email] = c
    BY <2>1, <2>2 DEF createUser, AccessTypeOK
  <2> QED
    BY <1>1, <2>2, <2>3 DEF happened
<1>7. CASE Login(c)
  <2>1. /\ at[c] = "login" /\ users[asked[c].email] # Absent /\ asked[c].password
        /\ UNCHANGED users
    BY <1>7 DEF Login, goto, tables, AccessTypeOK
  <2>2. asked[c].op = "login"
    BY <1>1, <2>1 DEF CallInv
  <2> QED
    BY <1>1, <2>1, <2>2 DEF happened
<1>8. CASE FindOwnKey(c) \/ VerifyKey(c) \/ StoreSession(c) \/ Refresh(c) \/ Record(c)
  BY <1>8 DEF FindOwnKey, VerifyKey, StoreSession, Refresh, Record, afterAudit, goto, finish,
     AccessTypeOK
<1> QED
  BY <1>3, <1>4, <1>5, <1>6, <1>7, <1>8 DEF Serve, IssueKey

\* TrailServe: what a call does after it arrived keeps the trail true.
LEMMA TrailServe ==
  ASSUME AccessTypeOK, AccessTypeOK', AccessInv, TrailInv, NEW c \in Call, Serve(c) \/ CallFails(c)
  PROVE  TrailInv'
<1>1. /\ at[c] \notin {"new", "done"} /\ UNCHANGED asked
      /\ \A d \in Call \ {c} : at'[d] = at[d]
      /\ at[c] = "store" => at'[c] = "done"
  BY CallMoves
<1>2. \/ createKey(c) \/ createTenant(c) \/ revoke(c) \/ createUser(c) \/ storeSession(c)
      \/ record(c) \/ UNCHANGED tables
  BY CallMoves
<1>3. \/ UNCHANGED trail
      \/ /\ at[c] \in {"audit", "refuse"} /\ at'[c] \in {"store", "done"}
         /\ trail' = trail \cup {[action |-> actionOf(c), call |-> c]}
  <2>1. record(c) => at'[c] \in {"store", "done"}
    BY DEF record, Serve, CallFails, IssueKey, createKey, createTenant, FindOwnKey, RevokeKey,
       revoke, revocable, VerifyKey, CreateUser, createUser, Login, StoreSession, storeSession,
       Refresh, Record, afterAudit, goto, finish, AccessTypeOK
  <2> QED
    BY <1>2, <2>1 DEF createKey, createTenant, insertApiKey, revoke, createUser, storeSession,
       record, tables
<1>4. at'[c] = "audit" => Serve(c)
  BY DEF CallFails, finish, AccessTypeOK
<1>5. ASSUME NEW d \in Call, at[d] # "new", happened(d) PROVE happened(d)'
  <2>1. asked[d] \in Asked
    BY <1>5 DEF AccessInv, CallInv
  <2> QED
    BY <1>1, <1>2, <1>5, <2>1, RowsStay, HappenedStays
<1>6. ASSUME NEW x \in trail PROVE x.call \in Call /\ at[x.call] \in {"store", "done"}
  BY DEF TrailInv, AccessTypeOK
<1>7. ASSUME NEW d \in Call, at'[d] = "audit" PROVE happened(d)'
  <2>1. CASE d = c
    BY <1>4, <1>7, <2>1, DoneBeforeAudit
  <2>2. CASE d # c
    BY <1>1, <1>5, <1>7, <2>2 DEF TrailInv
  <2> QED
    BY <2>1, <2>2
<1>8. ASSUME NEW x \in trail' PROVE at'[x.call] \in {"store", "done"}
  BY <1>1, <1>3, <1>6
<1>9. ASSUME NEW x \in trail', x.action # "login.failed"
      PROVE  x.action = asked[x.call].op /\ happened(x.call)' /\ x.call \in Call
  <2>1. CASE x \in trail
    BY <1>5, <1>6, <1>9, <2>1 DEF TrailInv, TrailIsTrue
  <2>2. CASE x \notin trail
    <3>1. x.action = actionOf(c) /\ x.call = c /\ at[c] \in {"audit", "refuse"}
      BY <1>3, <2>2
    <3>2. at[c] = "audit" /\ x.action = asked[c].op
      BY <1>9, <3>1 DEF actionOf
    <3>3. happened(c)
      BY <3>2 DEF TrailInv
    <3> QED
      BY <1>5, <3>1, <3>2, <3>3
  <2> QED
    BY <2>1, <2>2
<1>10. TrailIsTrue'
  BY <1>1, <1>9 DEF TrailIsTrue
<1> QED
  BY <1>7, <1>8, <1>10 DEF TrailInv

\* TrailFrame: a step that leaves the rows and the calls of the trail alone keeps it true.
LEMMA TrailFrame ==
  ASSUME AccessTypeOK, AccessInv, TrailInv, UNCHANGED <<keys, users, trail>>,
         \A d \in Call : at[d] # "new" => at'[d] = at[d] /\ asked'[d] = asked[d],
         \A d \in Call : at'[d] = "audit" => at[d] = "audit"
  PROVE  TrailInv'
<1>1. ASSUME NEW d \in Call, at[d] # "new", happened(d) PROVE happened(d)'
  <2>1. asked'[d] = asked[d] /\ UNCHANGED <<keys, users>>
    BY <1>1
  <2> QED
    BY <1>1, <2>1 DEF happened
<1>2. ASSUME NEW x \in trail
      PROVE  /\ x.call \in Call /\ at[x.call] \in {"store", "done"}
             /\ at'[x.call] = at[x.call] /\ asked'[x.call] = asked[x.call]
  BY DEF TrailInv, AccessTypeOK
<1>3. TrailIsTrue'
  BY <1>1, <1>2 DEF TrailInv, TrailIsTrue
<1>4. (\A d \in Call : at'[d] = "audit" => happened(d)') /\ \A x \in trail' : at'[x.call] \in {"store", "done"}
  BY <1>1, <1>2 DEF TrailInv
<1> QED
  BY <1>3, <1>4 DEF TrailInv

\* TrailStep: every step of the access routes keeps the trail true.
LEMMA TrailStep ==
  ASSUME AccessTypeOK, AccessTypeOK', AccessInv, TrailInv, AccessNext
  PROVE  TrailInv'
<1>1. ASSUME NEW c \in Call, Serve(c) \/ CallFails(c) PROVE TrailInv'
  BY <1>1, TrailServe
<1>2. ASSUME NEW k \in ApiKey, ExpireKey(k) PROVE TrailInv'
  BY <1>2, TrailFrame DEF ExpireKey
<1>3. ASSUME NEW c \in Call, NEW q \in Asked, ReceiveCall(c, q) PROVE TrailInv'
  <2>1. /\ at[c] = "new" /\ UNCHANGED <<keys, users, trail>>
        /\ \A d \in Call \ {c} : at'[d] = at[d] /\ asked'[d] = asked[d]
    BY <1>3 DEF ReceiveCall, goto, finish, tables, AccessTypeOK
  <2>2. at'[c] # "audit"
    BY <1>3, AskedFields DEF ReceiveCall, goto, finish, AccessTypeOK
  <2>3. \A d \in Call : at[d] # "new" => at'[d] = at[d] /\ asked'[d] = asked[d]
    BY <2>1
  <2>4. \A d \in Call : at'[d] = "audit" => at[d] = "audit"
    BY <2>1, <2>2
  <2> QED
    BY <2>1, <2>3, <2>4, TrailFrame
<1> QED
  BY <1>1, <1>2, <1>3 DEF AccessNext
=============================================================================

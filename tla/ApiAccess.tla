------------------------------ MODULE ApiAccess ------------------------------
(***************************************************************************)
(* Who may use the API: tenants and their API keys, users and their        *)
(* sessions, and the audit trail that is kept of all of it.  Hashes and    *)
(* JWT signatures are perfect: a key or a token is what it was issued as.  *)
(***************************************************************************)
EXTENDS Naturals, FiniteSets

CONSTANTS Call,       \* HTTP requests, numbered in the order of their arrival
          Tenant, ApiKey, Email,
          Principal,  \* the [tenant, role] of the access tokens that callers hold
          Sendable,   \* bound: the requests that are sent
          Seeded,     \* [ApiKey -> Tenant or Absent], the keys the database starts with
          Absent

\* What a request asks for, as the routes parse it.
Asked ==
  [op : {"create", "revoke"}, by : Principal \cup {Absent}, key : ApiKey]
    \cup [op : {"tenant"}, tenant : Tenant, key : ApiKey]
    \cup [op : {"register"}, key : ApiKey \cup {Absent}, email : Email]
    \cup [op : {"login"}, email : Email, password : BOOLEAN]
    \cup [op : {"refresh"}, token : Call]

ASSUME AccessAssumption ==
  /\ Call \subseteq Nat
  /\ Principal \subseteq [tenant : Tenant, role : {"USER", "ADMIN"}]
  /\ Seeded \in [ApiKey -> Tenant \cup {Absent}]
  /\ Absent \notin Tenant \cup ApiKey \cup Email /\ Absent \notin Principal
  /\ Absent \notin Call /\ Absent \notin Asked

VARIABLES
  keys,     \* the ApiKey rows: the tenant (Absent: no row) and, as history, the call that
            \* set revokedAt (Absent: not revoked)
  lapsed,   \* keys whose expiresAt has passed
  users,    \* [Email -> the call that wrote the row, or Absent]
  sessions, \* RefreshToken rows, by the login that wrote them
  trail,    \* AuditLog rows: the action and the call that recorded it
  at,       \* where a call is; done when it was answered
  asked,    \* what it asks for
  outcome,  \* none, rejected, ok, error
  known     \* history: the keys whose revocation was answered when the call arrived

tables == <<keys, lapsed, users, sessions, trail>>
accessVars == <<tables, at, asked, outcome, known>>

AccessInit ==
  /\ keys = [k \in ApiKey |-> [tenant |-> Seeded[k], revokedBy |-> Absent]]
  /\ lapsed = {} /\ sessions = {} /\ trail = {}
  /\ users = [e \in Email |-> Absent]
  /\ at = [c \in Call |-> "new"]
  /\ asked = [c \in Call |-> Absent]
  /\ outcome = [c \in Call |-> "none"]
  /\ known = [c \in Call |-> {}]

goto(c, label) == at' = [at EXCEPT ![c] = label] /\ UNCHANGED outcome
finish(c, what) == at' = [at EXCEPT ![c] = "done"] /\ outcome' = [outcome EXCEPT ![c] = what]

-----------------------------------------------------------------------------
\* authenticate and authorize([ADMIN]), the preHandlers of the API key routes.
admitted(q) == q.op \in {"create", "revoke"} => q.by # Absent /\ q.by.role = "ADMIN"

hasRevoked(c) == outcome[c] = "ok" /\ asked[c].op = "revoke"

ReceiveCall(c, q) ==
  /\ at[c] = "new"
  /\ \A d \in Call : d < c => at[d] # "new"
  /\ q.op = "refresh" => at[q.token] \in {"store", "done"} /\ asked[q.token].op = "login"
  /\ asked' = [asked EXCEPT ![c] = q]
  /\ IF admitted(q) THEN goto(c, IF q.op = "revoke" THEN "find" ELSE q.op)
                    ELSE finish(c, "rejected")
  /\ known' = [known EXCEPT ![c] = {asked[d].key : d \in {e \in Call : hasRevoked(e)}}]
  /\ UNCHANGED tables

\* A new random key, as a row of the tenant.
insertApiKey(k, t) ==
  /\ keys[k].tenant = Absent
  /\ keys' = [keys EXCEPT ![k] = [tenant |-> t, revokedBy |-> Absent]]
  /\ UNCHANGED <<lapsed, users, sessions, trail>>

createKey(c) == at[c] = "create" /\ insertApiKey(asked[c].key, asked[c].by.tenant)

\* createTenant writes the tenant and its default key in one nested create.
createTenant(c) ==
  /\ at[c] = "tenant"
  /\ \A k \in ApiKey : keys[k].tenant # asked[c].tenant
  /\ insertApiKey(asked[c].key, asked[c].tenant)

IssueKey(c) == (createKey(c) \/ createTenant(c)) /\ goto(c, "audit") /\ UNCHANGED <<asked, known>>

ExpireKey(k) ==
  /\ k \notin lapsed
  /\ keys[k].tenant # Absent
  /\ lapsed' = lapsed \cup {k}
  /\ UNCHANGED <<keys, users, sessions, trail, at, asked, outcome, known>>

-----------------------------------------------------------------------------
(* revokeKey                                                               *)

\* Mutant: keys are looked up by id alone.
ownsAny(p, k) == keys[k].tenant # Absent

owns(p, k) == keys[k].tenant = p.tenant

FindOwnKey(c) ==
  /\ at[c] = "find"
  /\ IF owns(asked[c].by, asked[c].key) THEN goto(c, "revoke") ELSE finish(c, "rejected")
  /\ UNCHANGED <<tables, asked, known>>

\* Mutant: an unconditional update.
revocableAlways(c) == at[c] = "revoke" /\ owns(asked[c].by, asked[c].key)

revocable(c) ==
  at[c] = "revoke" /\ owns(asked[c].by, asked[c].key) /\ keys[asked[c].key].revokedBy = Absent

\* updateMany where revokedAt is null.
revoke(c) ==
  /\ revocable(c)
  /\ keys' = [keys EXCEPT ![asked[c].key] = [tenant |-> @.tenant, revokedBy |-> c]]
  /\ UNCHANGED <<lapsed, users, sessions, trail>>

\* Mutant: the count of the update is not looked at.
RevokeKeyBlindly(c) ==
  /\ at[c] = "revoke"
  /\ revoke(c) \/ (~revocable(c) /\ UNCHANGED tables)
  /\ goto(c, "audit")
  /\ UNCHANGED <<asked, known>>

RevokeKey(c) ==
  /\ \/ revoke(c) /\ goto(c, "audit")
     \/ at[c] = "revoke" /\ ~revocable(c) /\ finish(c, "rejected") /\ UNCHANGED tables
  /\ UNCHANGED <<asked, known>>

-----------------------------------------------------------------------------
(* POST /auth/register, /auth/login, /auth/refresh                         *)

\* Mutant: expiry alone ends a key.
verifiesUnlessLapsed(k) == k # Absent /\ keys[k].tenant # Absent /\ k \notin lapsed

\* findActiveByPrefix and the comparison of the hashes.
verifies(k) ==
  k # Absent /\ keys[k].tenant # Absent /\ keys[k].revokedBy = Absent /\ k \notin lapsed

\* verifyKey; then touchLastUsed and hashPassword are awaited.
VerifyKey(c) ==
  /\ at[c] = "register"
  /\ IF verifies(asked[c].key) THEN goto(c, "user") ELSE finish(c, "rejected")
  /\ UNCHANGED <<tables, asked, known>>

createUser(c) ==
  /\ at[c] = "user"
  /\ users[asked[c].email] = Absent
  /\ users' = [users EXCEPT ![asked[c].email] = c]
  /\ UNCHANGED <<keys, lapsed, sessions, trail>>

\* The unique email: P2002, a 409.
CreateUser(c) ==
  /\ \/ createUser(c) /\ goto(c, "audit")
     \/ /\ at[c] = "user" /\ users[asked[c].email] # Absent
        /\ finish(c, "rejected")
        /\ UNCHANGED tables
  /\ UNCHANGED <<asked, known>>

\* findUserByEmail and verifyPassword; a failed login is audited too, then refused.
Login(c) ==
  /\ at[c] = "login"
  /\ goto(c, IF users[asked[c].email] # Absent /\ asked[c].password THEN "audit" ELSE "refuse")
  /\ UNCHANGED <<tables, asked, known>>

storeSession(c) ==
  /\ at[c] = "store"
  /\ sessions' = sessions \cup {c}
  /\ UNCHANGED <<keys, lapsed, users, trail>>

\* Both tokens are signed; only the refresh token has a row.
StoreSession(c) == storeSession(c) /\ finish(c, "ok") /\ UNCHANGED <<asked, known>>

\* The row is looked up by the hash of the token; the token or its row may have expired.
Refresh(c) ==
  /\ at[c] = "refresh"
  /\ \/ asked[c].token \in sessions /\ finish(c, "ok")
     \/ finish(c, "rejected")
  /\ UNCHANGED <<tables, asked, known>>

-----------------------------------------------------------------------------
(* AuditLogService.record                                                  *)

actionOf(c) == IF at[c] = "refuse" THEN "login.failed" ELSE asked[c].op

\* What a call does once its entry was written, or was not: the audit never fails it.
afterAudit(c) ==
  IF at[c] = "refuse" THEN finish(c, "rejected")
  ELSE IF asked[c].op = "login" THEN goto(c, "store") ELSE finish(c, "ok")

record(c) ==
  /\ at[c] \in {"audit", "refuse"}
  /\ trail' = trail \cup {[action |-> actionOf(c), call |-> c]}
  /\ UNCHANGED <<keys, lapsed, users, sessions>>

Record(c) ==
  /\ at[c] \in {"audit", "refuse"}
  /\ record(c) \/ UNCHANGED tables
  /\ afterAudit(c)
  /\ UNCHANGED <<asked, known>>

\* What a call awaits throws, or the process dies; it may have happened all the same.
CallFails(c) ==
  /\ at[c] \notin {"new", "done"}
  /\ \/ createKey(c) \/ createTenant(c) \/ revoke(c) \/ createUser(c) \/ storeSession(c) \/ record(c)
     \/ UNCHANGED tables
  /\ finish(c, "error")
  /\ UNCHANGED <<asked, known>>

Serve(c) ==
  \/ IssueKey(c) \/ FindOwnKey(c) \/ RevokeKey(c) \/ VerifyKey(c) \/ CreateUser(c)
  \/ Login(c) \/ StoreSession(c) \/ Refresh(c) \/ Record(c)

AccessNext ==
  \/ \E c \in Call : (\E q \in Asked \cap Sendable : ReceiveCall(c, q)) \/ Serve(c) \/ CallFails(c)
  \/ \E k \in ApiKey : ExpireKey(k)

-----------------------------------------------------------------------------
AccessTypeOK ==
  /\ keys \in [ApiKey -> [tenant : Tenant \cup {Absent}, revokedBy : Call \cup {Absent}]]
  /\ lapsed \subseteq ApiKey /\ sessions \subseteq Call
  /\ users \in [Email -> Call \cup {Absent}]
  /\ trail \subseteq [action : {"create", "tenant", "revoke", "register", "login", "login.failed"},
                      call : Call]
  /\ at \in [Call -> {"new", "create", "tenant", "find", "revoke", "register", "user",
                      "login", "store", "refresh", "audit", "refuse", "done"}]
  /\ asked \in [Call -> Asked \cup {Absent}]
  /\ outcome \in [Call -> {"none", "rejected", "ok", "error"}]
  /\ known \in [Call -> SUBSET ApiKey]

\* RevokedOnce: of the requests that race to revoke a key, one at most is told that it did.
RevokedOnce ==
  \A c, d \in Call : hasRevoked(c) /\ hasRevoked(d) /\ asked[c].key = asked[d].key => c = d

\* RevocationHolds: once the revocation of a key was answered, no request that arrives
\* afterwards gets a user registered with it.
RevocationHolds == \A e \in Email : users[e] # Absent => asked[users[e]].key \notin known[users[e]]

\* RevokedByOwnTenant: the call that revoked a key was an admin's of the key's own tenant
\* ("one tenant's admin can never enumerate or revoke another tenant's keys").
RevokedByOwnTenant ==
  \A k \in ApiKey : keys[k].revokedBy # Absent =>
    LET q == asked[keys[k].revokedBy]
    IN  /\ q # Absent /\ q.op = "revoke" /\ q.key = k
        /\ q.by = [tenant |-> keys[k].tenant, role |-> "ADMIN"]

\* The call wrote revokedAt.
hasUpdated(c) ==
  at[c] # "new" /\ asked[c].op = "revoke" /\ (at[c] = "audit" \/ outcome[c] = "ok")

\* Where a call is tells what it asked for; what it knows, or has done, is in the rows.
CallInv(c) ==
  /\ IF at[c] = "new" THEN asked[c] = Absent ELSE asked[c] \in Asked
  /\ at[c] # "done" => outcome[c] = "none"
  /\ at[c] \in {"find", "revoke"} => asked[c].op = "revoke"
  /\ at[c] \in {"find", "revoke", "create"} => admitted(asked[c])
  /\ at[c] \in {"register", "user"} => asked[c].op = "register"
  /\ at[c] \in {"create", "tenant", "login", "refresh"} => asked[c].op = at[c]
  /\ at[c] \in {"store", "refuse"} => asked[c].op = "login"
  /\ at[c] = "audit" => asked[c].op # "refresh"
  /\ at[c] = "user" => asked[c].key \notin known[c]
  /\ hasUpdated(c) => keys[asked[c].key].revokedBy = c
  /\ \A k \in known[c] : keys[k].revokedBy # Absent

\* AccessInv: why: one call writes revokedAt, and it stays written.
AccessInv ==
  /\ \A c \in Call : CallInv(c)
  /\ \A e \in Email : users[e] # Absent => at[users[e]] # "new"
  /\ \A k \in ApiKey : keys[k].revokedBy # Absent => keys[k].tenant # Absent
  /\ RevocationHolds
  /\ RevokedByOwnTenant

\* What the entry of the call tells has been done, by that call.  The entry of a login tells
\* that the credentials were right: it is written before the session is.
happened(c) ==
  LET q == asked[c]
  IN  /\ q.op \in {"create", "tenant"} => keys[q.key].tenant # Absent
      /\ q.op = "create" => keys[q.key].tenant = q.by.tenant
      /\ q.op = "tenant" => keys[q.key].tenant = q.tenant
      /\ q.op = "register" => users[q.email] = c
      /\ q.op = "login" => users[q.email] # Absent /\ q.password
      /\ q.op = "revoke" => keys[q.key].revokedBy = c

\* TrailIsTrue: the audit trail may have gaps but does not lie: what an entry tells did
\* happen, and by that request, so no key is reported revoked twice.
TrailIsTrue ==
  \A x \in trail : x.action # "login.failed" => x.action = asked[x.call].op /\ happened(x.call)

\* TrailInv: why: a call is at its audit only after its write, which nothing undoes.
TrailInv ==
  /\ \A c \in Call : at[c] = "audit" => happened(c)
  /\ \A x \in trail : at[x.call] \in {"store", "done"}
  /\ TrailIsTrue
=============================================================================

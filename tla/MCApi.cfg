CONSTANTS
  Request = {r1, r2, r3}
  Key = {k}
  NoKey = NoKey
  Payload = {p, q}
  NoRequest = NoRequest
  MaxFailures = 2
  alice = alice
  bob = bob
  User = {alice, bob}
  Spelling <- MCSpelling
  Lower <- MCLower
  Bech32 = {"b", "B"}
  Valid <- MCValid
  Controller <- MCController
  Generated = {"s"}
  Registration = {1, 2}
  Challenge = {nonce}
  Sent <- MCSent
  None = None
  t1 = t1
  t2 = t2
  k1 = k1
  Call = {1, 2, 3}
  Tenant = {t1, t2}
  ApiKey = {k1, k2}
  Email = {mail}
  Principal <- MCPrincipal
  Sendable <- MCSendable
  Seeded <- MCSeeded
  Absent = Absent
SPECIFICATION Spec
INVARIANTS OneTransferPerKey AnswerIsOwnTransfer
INVARIANTS OneWalletPerAddress RegisteredByController TakenIsToldToController
INVARIANTS RevokedOnce RevocationHolds RevokedByOwnTenant TrailIsTrue
PROPERTY KeyResolves
CHECK_DEADLOCK FALSE

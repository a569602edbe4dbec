------------------------------ MODULE ApiProofs ------------------------------
(***************************************************************************)
(* WalletInv is inductive, and what the guards of the API ensure, for any  *)
(* number of requests, keys, users and addresses.                          *)
(***************************************************************************)
EXTENDS ApiServer, ApiRouteProofs

-----------------------------------------------------------------------------
(* Wallets                                                                 *)

\* The normal form of an address is an address, of the same holder, and its own normal form.
LEMMA NormalForm ==
  ASSUME NEW c \in Chain, NEW a \in Spelling
  PROVE  /\ normalize(c, a) \in Spelling
         /\ Controller[normalize(c, a)] = Controller[a]
         /\ normalize(c, normalize(c, a)) = normalize(c, a)
BY WalletAssumption DEF normalize, isCaseInsensitive

\* insertWallet writes a well-typed row in normal form, for the user of the request.
LEMMA InsertedRow ==
  ASSUME WalletsTypeOK, NEW q \in Registration, NEW b \in Body, NEW a \in Spelling,
         NEW custody \in {"EXTERNAL", "CUSTODIAL"}
  PROVE  /\ row(q, b, a, custody) \in WalletRow
         /\ row(q, b, a, custody).owner = b.user
         /\ row(q, b, a, custody).custody = custody
         /\ row(q, b, a, custody).address = normalize(b.chain, a)
         /\ row(q, b, a, custody).chain = b.chain
<1>1. normalize(b.chain, a) \in Spelling
  BY NormalForm DEF Body
<1> QED
  BY <1>1 DEF row, WalletRow, Body

\* WalletsTypeOK is kept by every step of the wallet routes.
LEMMA WalletsTypeStep ==
  ASSUME WalletsTypeOK, WalletInv, WalletsNext
  PROVE  WalletsTypeOK'
<1>1. ASSUME NEW n \in Challenge, SignMessage(n) \/ ExpireChallenge(n) PROVE WalletsTypeOK'
  BY <1>1 DEF SignMessage, ExpireChallenge, WalletsTypeOK, requestVars
<1>2. ASSUME NEW n \in Challenge, NEW u \in User, NEW x \in Sent, IssueChallenge(n, u, x[1], x[2])
      PROVE  WalletsTypeOK'
  <2>1. x[1] \in Chain /\ x[2] \in Spelling
    BY WalletAssumption
  <2>2. normalize(x[1], x[2]) \in Spelling
    BY <2>1, NormalForm
  <2> QED
    BY <1>2, <2>1, <2>2 DEF IssueChallenge, WalletsTypeOK, Claims, requestVars
<1>3. ASSUME NEW q \in Registration, NEW u \in User, NEW x \in Sent, NEW n \in Challenge \cup {None},
             ReceiveWallet(q, u, x[1], x[2], n)
      PROVE  WalletsTypeOK'
  <2>1. x[1] \in Chain /\ x[2] \in Spelling
    BY WalletAssumption
  <2> QED
    BY <1>3, <2>1 DEF ReceiveWallet, WalletsTypeOK, Body, proofVars
<1>4. ASSUME NEW q \in Registration, AssertOwnership(q) \/ FindByAddress(q) PROVE WalletsTypeOK'
  BY <1>4 DEF AssertOwnership, FindByAddress, answered, WalletsTypeOK, proofVars
<1>5. ASSUME NEW q \in Registration, CreateWallet(q) \/ RegistrationFails(q) PROVE WalletsTypeOK'
  <2>1. UNCHANGED <<required, claims, expired, signed, body>>
        /\ visit' \in [Registration -> {"new", "assert", "find", "create", "done"}]
        /\ verdict' \in [Registration -> {"none", "rejected", "taken", "created"}]
    BY <1>5 DEF CreateWallet, RegistrationFails, answered, WalletsTypeOK, proofVars
  <2>2. ASSUME insertWallet(q, body[q].address, "EXTERNAL"), visit[q] = "create"
        PROVE  wallets' \subseteq WalletRow
    <3>1. body'[q] \in Body /\ body[q].address \in Spelling
      BY <2>1, <2>2 DEF WalletInv, RegistrationInv, WalletsTypeOK, Body
    <3>2. row(q, body'[q], body[q].address, "EXTERNAL") \in WalletRow
      BY <3>1, InsertedRow
    <3> QED
      BY <2>2, <3>2 DEF insertWallet, WalletsTypeOK
  <2>3. wallets' \subseteq WalletRow
    BY <1>5, <2>2 DEF CreateWallet, RegistrationFails, WalletsTypeOK
  <2> QED
    BY <2>1, <2>3 DEF WalletsTypeOK
<1>6. ASSUME NEW q \in Registration, NEW u \in User, NEW c \in Chain, CreateCustodialWallet(q, u, c)
      PROVE  WalletsTypeOK'
  <2>1. /\ UNCHANGED <<required, claims, expired, signed>>
        /\ visit' \in [Registration -> {"new", "assert", "find", "create", "done"}]
        /\ verdict' \in [Registration -> {"none", "rejected", "taken", "created"}]
        /\ body' \in [Registration -> Body \cup {None}] /\ body'[q] \in Body
    BY <1>6 DEF CreateCustodialWallet, answered, WalletsTypeOK, proofVars, Body
  <2>2. ASSUME NEW a \in Generated, insertWallet(q, a, "CUSTODIAL") PROVE wallets' \subseteq WalletRow
    <3>1. a \in Spelling
      BY WalletAssumption
    <3>2. row(q, body'[q], a, "CUSTODIAL") \in WalletRow
      BY <2>1, <3>1, InsertedRow
    <3> QED
      BY <2>2, <3>2 DEF insertWallet, WalletsTypeOK
  <2>3. wallets' \subseteq WalletRow
    BY <1>6, <2>2 DEF CreateCustodialWallet, WalletsTypeOK
  <2> QED
    BY <2>1, <2>3 DEF WalletsTypeOK, Body
<1> QED
  BY <1>1, <1>2, <1>3, <1>4, <1>5, <1>6 DEF WalletsNext, Register

\* The row that a registration inserts keeps WalletInv's part about rows.
LEMMA InsertKeepsRows ==
  ASSUME WalletsTypeOK, WalletInv, NEW q \in Registration, body'[q] \in Body, NEW a \in Spelling,
         NEW custody \in {"EXTERNAL", "CUSTODIAL"}, insertWallet(q, a, custody),
         UNCHANGED required,
         required /\ custody = "EXTERNAL" => body'[q].user = Controller[a]
  PROVE  /\ \A w \in wallets' : w.address = normalize(w.chain, w.address)
         /\ RegisteredByController'
<1> DEFINE new == row(q, body'[q], a, custody)
<1>1. /\ new.owner = body'[q].user /\ new.custody = custody
      /\ new.address = normalize(body'[q].chain, a) /\ new.chain = body'[q].chain
  BY InsertedRow
<1>2. wallets' = wallets \cup {new}
  BY DEF insertWallet
<1>3. body'[q].chain \in Chain
  BY DEF Body
<1>4. new.address = normalize(new.chain, new.address) /\ Controller[new.address] = Controller[a]
  BY <1>1, <1>3, NormalForm
<1> HIDE DEF new
<1> QED
  BY <1>1, <1>2, <1>4 DEF WalletInv, RegisteredByController

\* A step of one registration keeps WalletInv when it keeps the rows and its own part.
LEMMA RegistrationMoves ==
  ASSUME WalletInv, NEW q \in Registration, UNCHANGED <<required, claims, signed>>,
         \A w \in wallets' : w.address = normalize(w.chain, w.address),
         RegisteredByController',
         \A p \in Registration \ {q} :
           visit'[p] = visit[p] /\ verdict'[p] = verdict[p] /\ body'[p] = body[p],
         RegistrationInv(q)',
         required /\ verdict'[q] = "taken" => body'[q].user = Controller[body'[q].address]
  PROVE  WalletInv'
<1>1. ASSUME NEW p \in Registration PROVE RegistrationInv(p)'
  <2>1. RegistrationInv(p)
    BY DEF WalletInv
  <2> QED
    BY <2>1 DEF RegistrationInv
<1>2. TakenIsToldToController'
  <2> SUFFICES ASSUME NEW p \in Registration, required, verdict'[p] = "taken"
               PROVE  body'[p].user = Controller[body'[p].address]
    BY DEF TakenIsToldToController
  <2> QED
    BY DEF WalletInv, TakenIsToldToController
<1>3. \A n \in signed' : claims'[n] # None /\ Controller[claims'[n].address] = claims'[n].user
  BY DEF WalletInv
<1>4. (\A w \in wallets : w.address = normalize(w.chain, w.address))'
  BY DEF normalize, isCaseInsensitive
<1> QED
  BY <1>1, <1>2, <1>3, <1>4 DEF WalletInv

\* WalletInv's part about rows depends on the rows.
LEMMA RowsFrame ==
  ASSUME WalletInv, UNCHANGED <<required, wallets>>
  PROVE  (\A w \in wallets' : w.address = normalize(w.chain, w.address)) /\ RegisteredByController'
<1>1. \A w \in wallets' : w.address = normalize(w.chain, w.address)
  BY DEF WalletInv
<1>2. RegisteredByController'
  BY DEF WalletInv, RegisteredByController
<1> QED
  BY <1>1, <1>2

\* A step of a challenge keeps WalletInv when those that are signed are still by the holder.
LEMMA ChallengeMoves ==
  ASSUME WalletInv, UNCHANGED <<required, wallets, visit, body, verdict>>,
         \A n \in signed' : claims'[n] # None /\ Controller[claims'[n].address] = claims'[n].user
  PROVE  WalletInv'
<1>1. ASSUME NEW p \in Registration PROVE RegistrationInv(p)'
  <2>1. RegistrationInv(p)
    BY DEF WalletInv
  <2> QED
    BY <2>1 DEF RegistrationInv
<1>2. TakenIsToldToController'
  BY DEF WalletInv, TakenIsToldToController
<1>3. (\A w \in wallets : w.address = normalize(w.chain, w.address))'
  BY RowsFrame DEF normalize, isCaseInsensitive
<1> QED
  BY <1>1, <1>2, <1>3, RowsFrame DEF WalletInv

\* WalletInv is kept by every step of the wallet routes.
LEMMA WalletsStep ==
  ASSUME WalletsTypeOK, WalletInv, WalletsNext
  PROVE  WalletsTypeOK' /\ WalletInv'
<1>0. WalletsTypeOK'
  BY WalletsTypeStep
<1> DEFINE Held(n) == claims'[n] # None /\ Controller[claims'[n].address] = claims'[n].user
<1>1. ASSUME NEW n \in Challenge, SignMessage(n) \/ ExpireChallenge(n) PROVE WalletInv'
  <2>1. UNCHANGED <<required, wallets, visit, body, verdict>>
    BY <1>1 DEF SignMessage, ExpireChallenge, requestVars
  <2>2. \A m \in signed' : Held(m)
    BY <1>1 DEF SignMessage, ExpireChallenge, WalletInv
  <2> QED
    BY <2>1, <2>2, ChallengeMoves
<1>2. ASSUME NEW n \in Challenge, NEW u \in User, NEW x \in Sent, IssueChallenge(n, u, x[1], x[2])
      PROVE  WalletInv'
  <2>1. UNCHANGED <<required, signed, wallets, visit, body, verdict>>
    BY <1>2 DEF IssueChallenge, requestVars
  <2>2. n \notin signed
    BY <1>2 DEF IssueChallenge, WalletInv
  <2>3. \A m \in signed' : claims'[m] = claims[m]
    BY <1>2, <2>1, <2>2 DEF IssueChallenge, WalletsTypeOK
  <2>4. \A m \in signed' : Held(m)
    BY <2>1, <2>3 DEF WalletInv
  <2> QED
    BY <2>1, <2>4, ChallengeMoves
<1> DEFINE Others(q) == \A p \in Registration \ {q} :
                          visit'[p] = visit[p] /\ verdict'[p] = verdict[p] /\ body'[p] = body[p]
<1>3. ASSUME NEW q \in Registration, NEW u \in User, NEW x \in Sent, NEW n \in Challenge \cup {None},
             ReceiveWallet(q, u, x[1], x[2], n)
      PROVE  WalletInv'
  <2>1. UNCHANGED <<required, claims, signed, wallets, verdict>> /\ visit[q] = "new"
    BY <1>3 DEF ReceiveWallet, arrives, proofVars
  <2>2. visit'[q] = "assert" /\ Others(q)
    BY <1>3, <2>1 DEF ReceiveWallet, WalletsTypeOK
  <2>3. body'[q] = [user |-> u, chain |-> x[1], address |-> x[2], challenge |-> n]
    BY <1>3 DEF ReceiveWallet, WalletsTypeOK
  <2>4. x[1] \in Chain /\ x[2] \in Spelling
    BY WalletAssumption
  <2>5. [user |-> u, chain |-> x[1], address |-> x[2], challenge |-> n] \in Body
    BY <2>4 DEF Body
  <2>6. body'[q] # None /\ body'[q].address # None
    BY <2>3, <2>4, <2>5, WalletAssumption
  <2>7. verdict'[q] = "none"
    BY <2>1 DEF WalletInv, RegistrationInv
  <2>8. RegistrationInv(q)'
    BY <2>2, <2>6 DEF RegistrationInv
  <2> QED
    BY <2>1, <2>2, <2>7, <2>8, RowsFrame, RegistrationMoves
<1>4. ASSUME NEW q \in Registration, AssertOwnership(q) PROVE WalletInv'
  <2>1. UNCHANGED <<required, claims, signed, wallets, body>> /\ visit[q] = "assert"
    BY <1>4 DEF AssertOwnership, proofVars
  <2>2. /\ visit'[q] \in {"find", "done"} /\ Others(q)
        /\ verdict'[q] \in {verdict[q], "rejected"}
    BY <1>4, <2>1 DEF AssertOwnership, answered, WalletsTypeOK
  <2>3. body[q] \in Body /\ body[q] # None /\ body[q].address # None
    BY <2>1 DEF WalletsTypeOK, WalletInv, RegistrationInv
  <2>4. ASSUME visit'[q] = "find"
        PROVE  /\ <<body[q].chain, body[q].address>> \in Valid
               /\ required => body[q].user = Controller[body[q].address]
    <3>1. ownershipAsserted(body[q]) /\ <<body[q].chain, body[q].address>> \in Valid
      BY <1>4, <2>4 DEF AssertOwnership, answered, WalletsTypeOK
    <3>2. body[q].chain \in Chain /\ body[q].chain # "unknown" /\ body[q].address \in Spelling
      BY <2>3, <3>1, WalletAssumption DEF Body
    <3>3. ASSUME required PROVE body[q].user = Controller[body[q].address]
      <4>1. body[q].challenge \in signed /\ matchesRequest(body[q], body[q].challenge)
        BY <3>1, <3>2, <3>3 DEF ownershipAsserted
      <4>2. Controller[normalize(body[q].chain, body[q].address)] = body[q].user
        BY <4>1 DEF matchesRequest, WalletInv
      <4> QED
        BY <3>2, <4>2, NormalForm
    <3> QED
      BY <3>1, <3>3
  <2>5. RegistrationInv(q)'
    BY <2>1, <2>2, <2>3, <2>4 DEF RegistrationInv
  <2>6. required /\ verdict'[q] = "taken" => body'[q].user = Controller[body'[q].address]
    BY <2>1, <2>2 DEF WalletInv, TakenIsToldToController
  <2> QED
    BY <2>1, <2>2, <2>5, <2>6, RowsFrame, RegistrationMoves
<1>5. ASSUME NEW q \in Registration, FindByAddress(q) PROVE WalletInv'
  <2>1. UNCHANGED <<required, claims, signed, wallets, body>> /\ visit[q] = "find"
    BY <1>5 DEF FindByAddress, proofVars
  <2>2. visit'[q] \in {"create", "done"} /\ Others(q)
    BY <1>5, <2>1 DEF FindByAddress, answered, WalletsTypeOK
  <2>3. RegistrationInv(q)
    BY DEF WalletInv
  <2>4. RegistrationInv(q)' /\ (required => body'[q].user = Controller[body'[q].address])
    BY <2>1, <2>2, <2>3 DEF RegistrationInv
  <2> QED
    BY <2>1, <2>2, <2>4, RowsFrame, RegistrationMoves
<1>6. ASSUME NEW q \in Registration, CreateWallet(q) \/ RegistrationFails(q) PROVE WalletInv'
  <2>1. UNCHANGED <<required, claims, signed, body>>
    BY <1>6 DEF CreateWallet, RegistrationFails, proofVars
  <2>2. visit'[q] = "done" /\ Others(q)
    BY <1>6, <2>1 DEF CreateWallet, RegistrationFails, answered, WalletsTypeOK
  <2>3. verdict'[q] = "taken" => visit[q] = "create"
    BY <1>6 DEF CreateWallet, RegistrationFails, answered, WalletsTypeOK
  <2>4. \/ visit[q] = "create" /\ insertWallet(q, body[q].address, "EXTERNAL")
        \/ UNCHANGED wallets
    BY <1>6 DEF CreateWallet, RegistrationFails
  <2>5. visit[q] = "create" => /\ body[q] \in Body /\ body[q].address \in Spelling
                               /\ required => body[q].user = Controller[body[q].address]
    BY DEF WalletInv, RegistrationInv, WalletsTypeOK, Body
  <2>6. (\A w \in wallets' : w.address = normalize(w.chain, w.address)) /\ RegisteredByController'
    <3>1. CASE visit[q] = "create" /\ insertWallet(q, body[q].address, "EXTERNAL")
      BY <2>1, <2>5, <3>1, InsertKeepsRows
    <3>2. CASE UNCHANGED wallets
      BY <2>1, <3>2, RowsFrame
    <3> QED
      BY <2>4, <3>1, <3>2
  <2>7. RegistrationInv(q)'
    BY <2>2 DEF RegistrationInv
  <2>8. required /\ verdict'[q] = "taken" => body'[q].user = Controller[body'[q].address]
    BY <2>1, <2>3, <2>5
  <2> QED
    BY <2>1, <2>2, <2>6, <2>7, <2>8, RegistrationMoves
<1>7. ASSUME NEW q \in Registration, NEW u \in User, NEW c \in Chain, CreateCustodialWallet(q, u, c)
      PROVE  WalletInv'
  <2>1. /\ UNCHANGED <<required, claims, signed>>
        /\ (\E a \in Generated : insertWallet(q, a, "CUSTODIAL")) \/ UNCHANGED wallets
    BY <1>7 DEF CreateCustodialWallet, proofVars
  <2>2. visit'[q] = "done" /\ Others(q) /\ verdict'[q] # "taken"
    BY <1>7 DEF CreateCustodialWallet, answered, WalletsTypeOK
  <2>3. body'[q] \in Body
    BY <1>7 DEF CreateCustodialWallet, WalletsTypeOK, Body
  <2>4. (\A w \in wallets' : w.address = normalize(w.chain, w.address)) /\ RegisteredByController'
    <3>1. ASSUME NEW a \in Generated, insertWallet(q, a, "CUSTODIAL")
          PROVE  /\ \A w \in wallets' : w.address = normalize(w.chain, w.address)
                 /\ RegisteredByController'
      BY <2>1, <2>3, <3>1, InsertKeepsRows, WalletAssumption
    <3>2. CASE UNCHANGED wallets
      BY <2>1, <3>2, RowsFrame
    <3> QED
      BY <2>1, <3>1, <3>2
  <2>5. RegistrationInv(q)'
    BY <2>2 DEF RegistrationInv
  <2> QED
    BY <2>1, <2>2, <2>4, <2>5, RegistrationMoves
<1> QED
  BY <1>0, <1>1, <1>2, <1>3, <1>4, <1>5, <1>6, <1>7 DEF WalletsNext, Register

\* UniqueStep: the unique Wallet.address, and rows in normal form, leave no second row for
\* an address, whoever raced for it.
LEMMA UniqueStep ==
  ASSUME WalletsTypeOK, WalletsTypeOK', WalletInv, WalletInv', OneWalletPerAddress, WalletsNext
  PROVE  OneWalletPerAddress'
<1>1. \/ UNCHANGED wallets
      \/ \E w : wallets' = wallets \cup {w} /\ \A v \in wallets : v.address # w.address
  BY DEF WalletsNext, IssueChallenge, SignMessage, ExpireChallenge, ReceiveWallet, Register,
     AssertOwnership, FindByAddress, CreateWallet, RegistrationFails, CreateCustodialWallet,
     insertWallet
<1>2. \A v, w \in wallets' : v.address = w.address => v = w
  BY <1>1 DEF OneWalletPerAddress, sameAddress
<1>3. ASSUME NEW v \in wallets', NEW w \in wallets', v.chain = w.chain,
             isCaseInsensitive(v.chain, v.address), Lower[v.address] = Lower[w.address]
      PROVE  v.address = w.address
  <2>1. v \in WalletRow /\ w \in WalletRow
    BY DEF WalletsTypeOK
  <2>2. v.address \in Spelling /\ w.address \in Spelling
    BY <2>1 DEF WalletRow
  <2>3. isCaseInsensitive(w.chain, w.address)
    BY <1>3, <2>2, WalletAssumption DEF isCaseInsensitive
  <2>4. v.address = normalize(v.chain, v.address) /\ w.address = normalize(w.chain, w.address)
    BY DEF WalletInv, normalize, isCaseInsensitive
  <2> QED
    BY <1>3, <2>3, <2>4 DEF normalize
<1> QED
  BY <1>2, <1>3 DEF OneWalletPerAddress, sameAddress, isCaseInsensitive

-----------------------------------------------------------------------------
(* API keys and users                                                      *)

\* The rows of the audit trail.
Entries == [action : {"create", "tenant", "revoke", "register", "login", "login.failed"}, call : Call]

\* AccessTypeOK is kept by every step of the access routes.
LEMMA AccessTypeStep ==
  ASSUME AccessTypeOK, AccessInv, AccessNext
  PROVE  AccessTypeOK'
<1>1. ASSUME NEW c \in Call, NEW q \in Asked, ReceiveCall(c, q) PROVE AccessTypeOK'
  <2>1. \A d \in Call : hasRevoked(d) => asked[d].key \in ApiKey
    <3> SUFFICES ASSUME NEW d \in Call, hasRevoked(d) PROVE asked[d].key \in ApiKey
      OBVIOUS
    <3>1. asked[d] \in Asked
      BY DEF hasRevoked, AccessInv, CallInv
    <3> QED
      BY <3>1, AskedFields DEF hasRevoked
  <2>2. {asked[d].key : d \in {e \in Call : hasRevoked(e)}} \in SUBSET ApiKey
    BY <2>1
  <2>3. known' \in [Call -> SUBSET ApiKey]
    BY <1>1, <2>2 DEF ReceiveCall, AccessTypeOK
  <2>4. (IF q.op = "revoke" THEN "find" ELSE q.op) \in {"create", "tenant", "find", "register",
                                                        "login", "refresh"}
    BY AskedFields
  <2> QED
    BY <1>1, <2>3, <2>4 DEF ReceiveCall, AccessTypeOK, goto, finish, tables
<1>2. ASSUME NEW k \in ApiKey, ExpireKey(k) PROVE AccessTypeOK'
  BY <1>2 DEF ExpireKey, AccessTypeOK
<1>3. ASSUME NEW c \in Call, Serve(c) \/ CallFails(c) PROVE AccessTypeOK'
  <2>1. at[c] # "new" /\ UNCHANGED <<asked, known>>
    BY <1>3 DEF Serve, CallFails, IssueKey, createKey, createTenant, FindOwnKey, RevokeKey, revoke,
       revocable, VerifyKey, CreateUser, createUser, Login, StoreSession, storeSession, Refresh, Record
  <2>2. CallInv(c) /\ asked[c] \in Asked
    BY <2>1 DEF AccessInv, CallInv
  <2>3. /\ at' \in [Call -> {"new", "create", "tenant", "find", "revoke", "register", "user",
                             "login", "store", "refresh", "audit", "refuse", "done"}]
        /\ outcome' \in [Call -> {"none", "rejected", "ok", "error"}]
    BY <1>3 DEF Serve, CallFails, IssueKey, FindOwnKey, RevokeKey, VerifyKey, CreateUser,
       Login, StoreSession, Refresh, Record, afterAudit, goto, finish, AccessTypeOK
  <2>4. \/ createKey(c) \/ createTenant(c) \/ revoke(c) \/ createUser(c) \/ storeSession(c)
        \/ record(c) \/ UNCHANGED tables
    BY <1>3, ZenonT(40) DEF Serve, CallFails, IssueKey, FindOwnKey, RevokeKey, VerifyKey, CreateUser,
       Login, StoreSession, Refresh, Record
  <2>5. keys' \in KeyRows
    <3>1. createKey(c) \/ createTenant(c) \/ revoke(c) \/ UNCHANGED keys
      BY <2>4 DEF createUser, storeSession, record, tables
    <3> QED
      BY <2>1, <3>1, KeyRowsStep
  <2>6. users' \in [Email -> Call \cup {Absent}]
    <3>1. users \in [Email -> Call \cup {Absent}]
      BY DEF AccessTypeOK
    <3>2. createUser(c) \/ users' = users
      BY <2>4 DEF createKey, createTenant, insertApiKey, revoke, storeSession, record, tables
    <3>3. CASE createUser(c)
      <4>1. asked[c].email \in Email
        BY <2>2, <3>3, AskedFields DEF createUser, CallInv
      <4> QED
        BY <3>1, <3>3, <4>1 DEF createUser
    <3> QED
      BY <3>1, <3>2, <3>3
  <2>7. lapsed' \subseteq ApiKey /\ sessions' \subseteq Call
    BY <2>4 DEF createKey, createTenant, insertApiKey, revoke, createUser,
       storeSession, record, tables, AccessTypeOK
  <2>8. trail' \subseteq Entries
    <3>1. record(c) => [action |-> actionOf(c), call |-> c] \in Entries
      BY <2>2, AskedFields DEF record, actionOf, Entries, CallInv
    <3> QED
      BY <2>4, <3>1 DEF createKey, createTenant, insertApiKey, revoke, createUser,
         storeSession, record, tables, AccessTypeOK, Entries
  <2> QED
    BY <2>1, <2>3, <2>5, <2>6, <2>7, <2>8 DEF AccessTypeOK, KeyRows, Entries
<1> QED
  BY <1>1, <1>2, <1>3 DEF AccessNext

\* AccessTypeOK and AccessInv are kept by every step of the access routes.
LEMMA AccessStep ==
  ASSUME AccessTypeOK, AccessInv, AccessNext
  PROVE  AccessTypeOK' /\ AccessInv'
<1>1. AccessTypeOK'
  BY AccessTypeStep
<1>2. ASSUME NEW k \in ApiKey, ExpireKey(k) PROVE AccessInv'
  BY <1>2, AccessFrame DEF ExpireKey
<1> QED
  BY <1>1, <1>2, AccessInvReceive, AccessInvServe DEF AccessNext

-----------------------------------------------------------------------------
(* The server                                                              *)

\* The invariants of the three groups of routes hold of the whole server: none touches
\* the tables of another.
THEOREM ApiSafe == Spec => [](TypeOK /\ ApiInv)
<1> DEFINE Inv == TypeOK /\ KeyInv /\ WalletInv /\ AccessInv /\ TrailInv
<1>1. Init => Inv
  <2> SUFFICES ASSUME Init PROVE Inv
    OBVIOUS
  <2>1. KeysTypeOK /\ KeyInv
    BY KeyAssumption DEF Init, KeysInit, KeysTypeOK, KeyInv, OwnsRow, RowOwned, rowOf,
       AnswerIsOwnTransfer
  <2>2. WalletsTypeOK /\ WalletInv
    BY DEF Init, WalletsInit, WalletsTypeOK, WalletInv, RegistrationInv, RegisteredByController,
       TakenIsToldToController
  <2>3. AccessTypeOK /\ AccessInv
    BY AccessAssumption DEF Init, AccessInit, AccessTypeOK, AccessInv, CallInv, hasUpdated,
       RevocationHolds, RevokedByOwnTenant
  <2>4. TrailInv
    BY DEF Init, AccessInit, TrailInv, TrailIsTrue
  <2> QED
    BY <2>1, <2>2, <2>3, <2>4 DEF TypeOK
<1>2. Inv /\ [Next]_vars => Inv'
  <2> SUFFICES ASSUME Inv, [Next]_vars PROVE Inv'
    OBVIOUS
  <2>1. UNCHANGED keyVars => (KeysTypeOK /\ KeyInv)'
    <3> SUFFICES ASSUME UNCHANGED keyVars PROVE KeysTypeOK' /\ KeyInv'
      OBVIOUS
    <3>1. KeysTypeOK'
      BY DEF keyVars, TypeOK, KeysTypeOK
    <3>2. ASSUME NEW q \in Request PROVE OwnsRow(q)'
      BY DEF keyVars, KeyInv, OwnsRow, rowOf
    <3>3. ASSUME NEW k \in Key PROVE RowOwned(k)'
      BY DEF keyVars, KeyInv, RowOwned
    <3>4. AnswerIsOwnTransfer'
      BY DEF keyVars, KeyInv, AnswerIsOwnTransfer
    <3> QED
      BY <3>1, <3>2, <3>3, <3>4 DEF KeyInv
  <2>2. UNCHANGED walletVars => (WalletsTypeOK /\ WalletInv)'
    <3> SUFFICES ASSUME UNCHANGED walletVars PROVE WalletsTypeOK' /\ WalletInv'
      OBVIOUS
    <3>1. WalletsTypeOK'
      BY DEF walletVars, proofVars, requestVars, TypeOK, WalletsTypeOK
    <3>2. UNCHANGED <<required, claims, signed, wallets, visit, body, verdict>>
      BY DEF walletVars, proofVars, requestVars
    <3>3. WalletInv'
      <4>1. \A n \in signed' : claims'[n] # None /\ Controller[claims'[n].address] = claims'[n].user
        BY <3>2 DEF WalletInv
      <4> QED
        BY <3>2, <4>1, ChallengeMoves
    <3> QED
      BY <3>1, <3>3
  <2>3. UNCHANGED accessVars => (AccessTypeOK /\ AccessInv /\ TrailInv)'
    <3> SUFFICES ASSUME UNCHANGED accessVars PROVE AccessTypeOK' /\ AccessInv' /\ TrailInv'
      OBVIOUS
    <3>1. AccessTypeOK'
      BY DEF accessVars, tables, TypeOK, AccessTypeOK
    <3>2. AccessInv'
      BY AccessFrame DEF accessVars, tables
    <3>3. TrailInv'
      BY TrailFrame DEF TypeOK, accessVars, tables
    <3> QED
      BY <3>1, <3>2, <3>3
  <2>4. CASE TransferRoute
    BY <2>2, <2>3, <2>4, KeysStep DEF TransferRoute, TypeOK
  <2>5. CASE WalletRoutes
    BY <2>1, <2>3, <2>5, WalletsStep DEF WalletRoutes, TypeOK
  <2>6. CASE AccessRoutes
    BY <2>1, <2>2, <2>6, AccessStep, TrailStep DEF AccessRoutes, TypeOK
  <2>7. CASE UNCHANGED vars
    BY <2>1, <2>2, <2>3, <2>7 DEF vars, TypeOK
  <2> QED
    BY <2>4, <2>5, <2>6, <2>7 DEF Next
<1>3. Inv => TypeOK /\ ApiInv
  BY DEF ApiInv
<1> QED
  BY <1>1, <1>2, <1>3, PTL DEF Spec

\* OneTransferPerKey for any number of requests, retries, keys and failures: the unique
\* (tenantId, key) lets one request past acquire, and the row remembers which.
THEOREM IdempotencyHolds == Spec => []OneTransferPerKey
<1>1. TypeOK /\ ApiInv => OneTransferPerKey
  <2> SUFFICES ASSUME TypeOK, KeyInv, NEW r \in made, NEW s \in made,
                      sent[r].key # NoKey, sent[r].key = sent[s].key
               PROVE  r = s
    BY DEF ApiInv, OneTransferPerKey
  <2> QED
    BY DEF TypeOK, KeysTypeOK, KeyInv, OwnsRow, rowOf
<1> QED
  BY <1>1, ApiSafe, PTL

\* AnswerIsOwnTransfer for any number of requests: withIdempotency never replays the
\* response of another key or of another payload.
THEOREM ReplaysAreFaithful == Spec => []AnswerIsOwnTransfer
<1>1. ApiInv => AnswerIsOwnTransfer
  BY DEF ApiInv, KeyInv
<1> QED
  BY <1>1, ApiSafe, PTL

\* RegisteredByController for any users, addresses and challenges.
THEOREM OwnershipIsProved == Spec => []RegisteredByController
<1>1. ApiInv => RegisteredByController
  BY DEF ApiInv, WalletInv
<1> QED
  BY <1>1, ApiSafe, PTL

\* TakenIsToldToController for any users, addresses and challenges.
THEOREM TakenIsNoOracle == Spec => []TakenIsToldToController
<1>1. ApiInv => TakenIsToldToController
  BY DEF ApiInv, WalletInv
<1> QED
  BY <1>1, ApiSafe, PTL

\* RevokedOnce for any number of admins and keys: the conditional update has one winner.
THEOREM OneRevocationWins == Spec => []RevokedOnce
<1>1. ApiInv => RevokedOnce
  BY DEF ApiInv, AccessInv, CallInv, hasUpdated, hasRevoked, RevokedOnce
<1> QED
  BY <1>1, ApiSafe, PTL

\* RevocationHolds for any number of requests: a revoked key registers nobody who comes
\* after the answer.
THEOREM RevocationIsFinal == Spec => []RevocationHolds
<1>1. ApiInv => RevocationHolds
  BY DEF ApiInv, AccessInv
<1> QED
  BY <1>1, ApiSafe, PTL

\* RevokedByOwnTenant for any tenants and keys.
THEOREM RevocationIsOwn == Spec => []RevokedByOwnTenant
<1>1. ApiInv => RevokedByOwnTenant
  BY DEF ApiInv, AccessInv
<1> QED
  BY <1>1, ApiSafe, PTL

\* OneWalletPerAddress for any number of racing registrations, custodial ones included:
\* normalizeWalletAddress and the unique Wallet.address leave one row per address.
THEOREM AddressesAreUnique == Spec => []OneWalletPerAddress
<1>1. Init => OneWalletPerAddress
  BY DEF Init, WalletsInit, OneWalletPerAddress
<1>2. /\ TypeOK /\ TypeOK' /\ ApiInv /\ ApiInv' /\ [Next]_vars /\ OneWalletPerAddress
      => OneWalletPerAddress'
  <2> SUFFICES ASSUME TypeOK, TypeOK', ApiInv, ApiInv', [Next]_vars, OneWalletPerAddress
               PROVE  OneWalletPerAddress'
    OBVIOUS
  <2>1. CASE WalletRoutes
    BY <2>1, UniqueStep DEF WalletRoutes, TypeOK, ApiInv
  <2>2. CASE UNCHANGED wallets
    BY <2>2 DEF OneWalletPerAddress, sameAddress, isCaseInsensitive
  <2> QED
    BY <2>1, <2>2 DEF Next, TransferRoute, AccessRoutes, vars, walletVars
<1> QED
  BY <1>1, <1>2, ApiSafe, PTL DEF Spec

\* TrailIsTrue for any number of calls, keys and failures: AuditLogService.record runs only
\* after the write it tells of, and what was written is never undone.
THEOREM AuditDoesNotLie == Spec => []TrailIsTrue
<1>1. ApiInv => TrailIsTrue
  BY DEF ApiInv, TrailInv
<1> QED
  BY <1>1, ApiSafe, PTL
=============================================================================

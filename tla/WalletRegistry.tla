---------------------------- MODULE WalletRegistry ----------------------------
(***************************************************************************)
(* Registering wallets: the challenge / response proof of ownership, the   *)
(* look-first-then-insert of WalletService over the unique Wallet.address, *)
(* and custodial wallets whose address the platform generates.             *)
(* An address arrives in some spelling; on EVM chains case means nothing.  *)
(* The HMAC and the signature are perfect: a token that was not issued, or *)
(* a signature that was not made, is refused.                              *)
(***************************************************************************)
EXTENDS Naturals, FiniteSets

CONSTANTS User,           \* <tenantId, userId> pairs
          Spelling,       \* addresses as clients write them
          Lower,          \* [Spelling -> Spelling], toLowerCase
          Bech32,         \* spellings that /^bcrt1/i matches
          Valid,          \* set of <<chain, spelling>> that isValidWalletAddress accepts
          Controller,     \* [Spelling -> User], who holds the key of the address
          Generated,      \* addresses createCustodialWallet may return
          Registration,   \* POST /wallets and /wallets/custodial requests, numbered as they arrive
          Challenge,      \* nonces
          Sent,           \* bound: the <<chain, spelling>> pairs clients send
          None

Chain == {"EVM", "BITCOIN", "SOLANA", "unknown"}

Claims == [user : User, chain : Chain, address : Spelling]
Body == [user : User, chain : Chain, address : Spelling \cup {None},
         challenge : Challenge \cup {None}]

ASSUME WalletAssumption ==
  /\ Registration \subseteq Nat
  /\ Lower \in [Spelling -> Spelling] /\ Controller \in [Spelling -> User]
  /\ \A s \in Spelling : Lower[Lower[s]] = Lower[s] /\ Controller[Lower[s]] = Controller[s]
  /\ \A s \in Spelling : s \in Bech32 <=> Lower[s] \in Bech32
  /\ Valid \subseteq (Chain \ {"unknown"}) \X Spelling
  /\ Generated \subseteq Spelling /\ Sent \subseteq Chain \X Spelling
  /\ None \notin Spelling \cup Challenge /\ None \notin Body /\ None \notin Claims

VARIABLES
  required,  \* REQUIRE_WALLET_OWNERSHIP_PROOF, from the environment: it does not change
  wallets,   \* the rows: address, chain, owner, custody, and the request that wrote it
  claims,    \* [Challenge -> claims of the token], None when not issued
  expired,   \* challenges whose exp has passed
  signed,    \* challenges whose message the controller of the address signed
  visit,     \* where a registration is: new, assert, find, create, done
  body,      \* its user, chain, address, and challenge (None: no proof given)
  verdict    \* how it was answered: none, rejected, taken, created

proofVars == <<required, claims, expired, signed>>
requestVars == <<visit, body, verdict>>
walletVars == <<proofVars, wallets, requestVars>>

WalletsInit ==
  /\ required \in BOOLEAN
  /\ wallets = {}
  /\ claims = [c \in Challenge |-> None]
  /\ expired = {} /\ signed = {}
  /\ visit = [q \in Registration |-> "new"]
  /\ body = [q \in Registration |-> None]
  /\ verdict = [q \in Registration |-> "none"]

-----------------------------------------------------------------------------
(* wallet-address.ts and the adapters' capabilities                        *)

isCaseInsensitive(c, s) == c = "EVM" \/ (c = "BITCOIN" /\ s \in Bech32)

\* Mutant: addresses are stored as they are spelled.
asSpelled(c, s) == s

normalize(c, s) == IF isCaseInsensitive(c, s) THEN Lower[s] ELSE s

\* Only the EVM adapter has verifyOwnership; Bitcoin has no createCustodialWallet.
verifiesOwnership(c) == c = "EVM"
createsCustodial(c) == c \in {"EVM", "SOLANA"}

-----------------------------------------------------------------------------
(* WalletOwnershipService                                                  *)

\* POST /wallets/challenge: nothing is stored; the claims travel in the sealed token.
IssueChallenge(n, u, c, s) ==
  /\ claims[n] = None
  /\ verifiesOwnership(c)
  /\ <<c, s>> \in Valid
  /\ claims' = [claims EXCEPT ![n] = [user |-> u, chain |-> c, address |-> normalize(c, s)]]
  /\ UNCHANGED <<required, expired, signed, wallets, requestVars>>

\* The user who asked for the challenge signs the message with the key of the address.
\* The message names the chain, the address and the nonce, not the user: that holders of
\* an address sign only challenges they asked for is an assumption on them.
SignMessage(n) ==
  /\ claims[n] # None
  /\ n \notin signed
  /\ Controller[claims[n].address] = claims[n].user
  /\ signed' = signed \cup {n}
  /\ UNCHANGED <<required, claims, expired, wallets, requestVars>>

\* CHALLENGE_TTL_MS passes.
ExpireChallenge(n) ==
  /\ claims[n] # None
  /\ n \notin expired
  /\ expired' = expired \cup {n}
  /\ UNCHANGED <<required, claims, signed, wallets, requestVars>>

\* open: sealed by us and not expired.
opens(n) == claims[n] # None /\ n \notin expired

\* Mutant: any user may use the token.
matchesAddress(b, n) ==
  /\ claims[n].chain = b.chain
  /\ claims[n].address = normalize(b.chain, b.address)

matchesRequest(b, n) ==
  /\ claims[n].user = b.user
  /\ claims[n].chain = b.chain
  /\ claims[n].address = normalize(b.chain, b.address)

\* assertOwnership returns instead of throwing.
ownershipAsserted(b) ==
  \/ b.chain = "unknown"
  \/ ~required /\ b.challenge = None
  \/ /\ verifiesOwnership(b.chain)
     /\ b.challenge # None
     /\ opens(b.challenge) /\ matchesRequest(b, b.challenge)
     /\ b.challenge \in signed

-----------------------------------------------------------------------------
(* POST /wallets and /wallets/custodial                                    *)

arrives(q) == visit[q] = "new" /\ \A p \in Registration : p < q => visit[p] # "new"

answered(q, v) ==
  /\ visit' = [visit EXCEPT ![q] = "done"]
  /\ verdict' = [verdict EXCEPT ![q] = v]

\* Mutant: the proof is looked at only when the address is free.
ReceiveAndLook(q, u, c, s, n) ==
  /\ arrives(q)
  /\ visit' = [visit EXCEPT ![q] = "find"]
  /\ body' = [body EXCEPT ![q] = [user |-> u, chain |-> c, address |-> s, challenge |-> n]]
  /\ UNCHANGED <<proofVars, wallets, verdict>>

\* n is None unless both a token and a signature were sent.
ReceiveWallet(q, u, c, s, n) ==
  /\ arrives(q)
  /\ visit' = [visit EXCEPT ![q] = "assert"]
  /\ body' = [body EXCEPT ![q] = [user |-> u, chain |-> c, address |-> s, challenge |-> n]]
  /\ UNCHANGED <<proofVars, wallets, verdict>>

\* assertOwnership, then isValidWalletAddress.
AssertOwnership(q) ==
  /\ visit[q] = "assert"
  /\ IF ownershipAsserted(body[q]) /\ <<body[q].chain, body[q].address>> \in Valid
     THEN visit' = [visit EXCEPT ![q] = "find"] /\ UNCHANGED verdict
     ELSE answered(q, "rejected")
  /\ UNCHANGED <<proofVars, wallets, body>>

\* findByAddress: rows of every chain, whatever their case where case means nothing.
isTaken(b) ==
  \E w \in wallets : \/ w.address = b.address
                     \/ isCaseInsensitive(b.chain, b.address) /\ Lower[w.address] = Lower[b.address]

FindByAddress(q) ==
  /\ visit[q] = "find"
  /\ IF isTaken(body[q]) THEN answered(q, "taken")
     ELSE visit' = [visit EXCEPT ![q] = "create"] /\ UNCHANGED verdict
  /\ UNCHANGED <<proofVars, wallets, body>>

row(q, b, s, custody) ==
  [address |-> normalize(b.chain, s), chain |-> b.chain, owner |-> b.user,
   custody |-> custody, by |-> q]

\* INSERT; the unique address turns the loser of a race into a 409.
insertWallet(q, s, custody) ==
  LET w == row(q, body'[q], s, custody)
  IN  /\ \A v \in wallets : v.address # w.address
      /\ wallets' = wallets \cup {w}

CreateWallet(q) ==
  /\ visit[q] = "create"
  /\ UNCHANGED <<proofVars, body>>
  /\ \/ insertWallet(q, body[q].address, "EXTERNAL") /\ answered(q, "created")
     \/ /\ \E v \in wallets : v.address = normalize(body[q].chain, body[q].address)
        /\ answered(q, "taken")
        /\ UNCHANGED wallets

\* createCustodialWallet: a generated address, the row and its key in one INSERT; an
\* unsupported chain, the KMS or the database may refuse before anything is written, and
\* the answer may be lost after it was.
CreateCustodialWallet(q, u, c) ==
  /\ arrives(q)
  /\ body' = [body EXCEPT ![q] = [user |-> u, chain |-> c, address |-> None, challenge |-> None]]
  /\ \/ answered(q, "rejected") /\ UNCHANGED wallets
     \/ /\ createsCustodial(c)
        /\ \E s \in Generated : <<c, s>> \in Valid /\ insertWallet(q, s, "CUSTODIAL")
        /\ \E v \in {"created", "none"} : answered(q, v)
  /\ UNCHANGED proofVars

\* An await throws, or the process dies; the INSERT may have happened all the same.
RegistrationFails(q) ==
  /\ visit[q] \in {"assert", "find", "create"}
  /\ answered(q, "none")
  /\ UNCHANGED <<proofVars, body>>
  /\ \/ visit[q] = "create" /\ insertWallet(q, body[q].address, "EXTERNAL")
     \/ UNCHANGED wallets

Register(q) == AssertOwnership(q) \/ FindByAddress(q) \/ CreateWallet(q)

WalletsNext ==
  \/ \E n \in Challenge :
       \/ SignMessage(n) \/ ExpireChallenge(n)
       \/ \E u \in User, x \in Sent : IssueChallenge(n, u, x[1], x[2])
  \/ \E q \in Registration :
       \/ Register(q) \/ RegistrationFails(q)
       \/ \E u \in User, c \in Chain : CreateCustodialWallet(q, u, c)
       \/ \E u \in User, x \in Sent, n \in Challenge \cup {None} :
            ReceiveWallet(q, u, x[1], x[2], n)

-----------------------------------------------------------------------------
WalletRow == [address : Spelling, chain : Chain, owner : User,
              custody : {"EXTERNAL", "CUSTODIAL"}, by : Registration]

WalletsTypeOK ==
  /\ required \in BOOLEAN
  /\ wallets \subseteq WalletRow
  /\ claims \in [Challenge -> Claims \cup {None}]
  /\ expired \subseteq Challenge /\ signed \subseteq Challenge
  /\ visit \in [Registration -> {"new", "assert", "find", "create", "done"}]
  /\ body \in [Registration -> Body \cup {None}]
  /\ verdict \in [Registration -> {"none", "rejected", "taken", "created"}]

\* The same address on chain.
sameAddress(v, w) ==
  \/ v.address = w.address
  \/ /\ v.chain = w.chain /\ isCaseInsensitive(v.chain, v.address)
     /\ Lower[v.address] = Lower[w.address]

\* OneWalletPerAddress: no two rows stand for one address, however it was spelled and
\* whoever raced to register it.
OneWalletPerAddress == \A v, w \in wallets : sameAddress(v, w) => v = w

\* RegisteredByController: when the proof is required, an EXTERNAL wallet belongs to the
\* user who holds the key of its address: a token cannot be replayed for another user,
\* address or chain.
RegisteredByController ==
  required => \A w \in wallets : w.custody = "EXTERNAL" => w.owner = Controller[w.address]

\* TakenIsToldToController: when the proof is required, only the one who holds the key of
\* an address is told that it is registered (the proof comes before the lookup).
TakenIsToldToController ==
  required => \A q \in Registration :
    verdict[q] = "taken" => body[q].user = Controller[body[q].address]

\* Past assertOwnership a registration is by the holder of the key, and only then is an
\* address found taken.
RegistrationInv(q) ==
  /\ visit[q] = "new" => verdict[q] = "none"
  /\ visit[q] \in {"assert", "find", "create"} => body[q] # None /\ body[q].address # None
  /\ visit[q] \in {"find", "create"} =>
       /\ <<body[q].chain, body[q].address>> \in Valid
       /\ required => body[q].user = Controller[body[q].address]

\* WalletInv: why: only the holder of an address signs its challenge, and rows are in
\* normal form.
WalletInv ==
  /\ \A n \in signed : claims[n] # None /\ Controller[claims[n].address] = claims[n].user
  /\ \A q \in Registration : RegistrationInv(q)
  /\ \A w \in wallets : w.address = normalize(w.chain, w.address)
  /\ RegisteredByController
  /\ TakenIsToldToController
=============================================================================

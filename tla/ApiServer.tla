------------------------------ MODULE ApiServer ------------------------------
(***************************************************************************)
(* The write side of the HTTP API: one process that serves concurrent      *)
(* requests, each a chain of awaits.  The routes of a behaviour write      *)
(* disjoint tables, so a behaviour is about one of them.                   *)
(***************************************************************************)
EXTENDS IdempotencyKeys, WalletRegistry, ApiAccess

VARIABLE route  \* transfers, wallets or access

vars == <<route, keyVars, walletVars, accessVars>>

Init == /\ route \in {"transfers", "wallets", "access"}
        /\ KeysInit /\ WalletsInit /\ AccessInit
        /\ route # "wallets" => required  \* nothing else reads it

TransferRoute == route = "transfers" /\ KeysNext /\ UNCHANGED <<route, walletVars, accessVars>>
WalletRoutes == route = "wallets" /\ WalletsNext /\ UNCHANGED <<route, keyVars, accessVars>>
AccessRoutes == route = "access" /\ AccessNext /\ UNCHANGED <<route, keyVars, walletVars>>

Next == TransferRoute \/ WalletRoutes \/ AccessRoutes

\* The event loop runs on as long as an await has settled; KeyOutage stands for the awaits
\* that do not succeed.
Serving == TransferRoute /\ \E r \in Request : Guarded(r)

Spec == Init /\ [][Next]_vars /\ WF_vars(Serving)

TypeOK == KeysTypeOK /\ WalletsTypeOK /\ AccessTypeOK

\* ApiInv: what a request still holds from its last await is true when it goes on: at most
\* one request runs the handler of a key, a registration about to insert has shown its
\* proof, a key that a call revoked, or found revoked when it came, stays revoked, and what
\* a call is about to write into the audit trail has been done.
ApiInv == KeyInv /\ WalletInv /\ AccessInv /\ TrailInv
=============================================================================

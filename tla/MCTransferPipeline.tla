------------------------ MODULE MCTransferPipeline ------------------------
(* Small instances of TransferPipeline for TLC. *)
EXTENDS TransferPipeline, TLC

CONSTANTS t1, t2, w1, w2, alice, bob

\* One request on an EVM token.
OneEvm == t1 :> "EVM"
OneSolana == t1 :> "SOLANA"
OneParties == t1 :> <<alice, bob>>

\* Handler slots are interchangeable.
WorkerSymmetry == Permutations(Worker)

\* Two requests that the matching heuristic cannot tell apart.
TwinEvm == t1 :> "EVM" @@ t2 :> "EVM"
TwinSymmetry == Permutations(Tx)
TwinParties == t1 :> <<alice, bob>> @@ t2 :> <<alice, bob>>
===========================================================================

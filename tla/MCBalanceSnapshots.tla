------------------------- MODULE MCBalanceSnapshots -------------------------
(* A small instance of BalanceSnapshots for TLC. *)
EXTENDS BalanceSnapshots

\* Two workers race for the row of one wallet, or one worker and the sweep meet two rows.
MCScopes ==
  {[nodes |-> Node, wallets |-> {2}], [nodes |-> {CHOOSE n \in Node : TRUE}, wallets |-> Wallet]}
=============================================================================

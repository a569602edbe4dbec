------------------------- MODULE MonotoneProjection -------------------------
(***************************************************************************)
(* What a balance snapshot promises, without the listener processes, the   *)
(* upsert or the races: a row only ever moves to a later block, and shows  *)
(* what the chain holds at that block, now and later.                      *)
(***************************************************************************)
EXTENDS Integers

CONSTANT Key          \* the rows, one per wallet

VARIABLES projection, \* projection[k]: block (0: no row) and balance
          ledger      \* ledger[k][b]: what the chain holds for k at block b

Init == \A k \in Key : projection[k].block = 0

Advance(k) ==
  /\ projection'[k].block > projection[k].block
  /\ \A j \in Key \ {k} : projection'[j] = projection[j]

\* The ledger may change in any way that leaves Faithful true.
Next == \E k \in Key : Advance(k)

Faithful ==
  \A k \in Key : projection[k].block > 0 =>
    projection[k].balance = ledger[k][projection[k].block]

Spec == Init /\ [][Next]_projection /\ []Faithful
=============================================================================

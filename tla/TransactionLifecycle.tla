------------------------ MODULE TransactionLifecycle ------------------------
(***************************************************************************)
(* What the ledger promises about one transaction row, whoever writes it:  *)
(* the row is created PENDING, moves only along ALLOWED_TRANSITIONS, and   *)
(* the commit that makes it CONFIRMED is the commit that writes its one    *)
(* "transaction.confirmed" outbox event.                                   *)
(***************************************************************************)
EXTENDS TransactionStateMachine, Naturals

CONSTANT Tx

VARIABLES status,   \* [Tx -> RowStatus], Transaction.status
          events    \* [Tx -> Nat], OutboxEvent rows with aggregateId = the row

lifecycleVars == <<status, events>>

Init == /\ status = [t \in Tx |-> "NONE"]
        /\ events = [t \in Tx |-> 0]

Create(t) == /\ status[t] = "NONE"
             /\ status' = [status EXCEPT ![t] = "PENDING"]
             /\ UNCHANGED events

Transition(t, to) ==
  /\ status[t] # "NONE"
  /\ canTransition(status[t], to)
  /\ status' = [status EXCEPT ![t] = to]
  /\ events' = IF to = "CONFIRMED" THEN [events EXCEPT ![t] = @ + 1] ELSE events

Next == \E t \in Tx : Create(t) \/ \E to \in TransactionStatus : Transition(t, to)

Spec == Init /\ [][Next]_lifecycleVars
=============================================================================

---------------------- MODULE TransactionStateMachine ----------------------
(***************************************************************************)
(* The closed transition table of src/domain/transaction/                  *)
(* transaction-state-machine.ts.  "NONE" stands for a request that has no  *)
(* row in the Transaction table.                                           *)
(***************************************************************************)

TransactionStatus ==
  {"PENDING", "SUBMITTED", "CONFIRMING", "CONFIRMED", "FAILED", "EXPIRED"}

RowStatus == TransactionStatus \cup {"NONE"}

ALLOWED_TRANSITIONS ==
  [ PENDING    |-> {"SUBMITTED", "FAILED"},
    SUBMITTED  |-> {"CONFIRMING", "EXPIRED"},
    CONFIRMING |-> {"CONFIRMED", "FAILED", "EXPIRED"},
    CONFIRMED  |-> {},
    FAILED     |-> {},
    EXPIRED    |-> {} ]

canTransition(from, to) == to \in ALLOWED_TRANSITIONS[from]

\* ConfirmationProcessor.isTerminal
Terminal == {"CONFIRMED", "FAILED", "EXPIRED"}
=============================================================================

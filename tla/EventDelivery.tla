--------------------------- MODULE EventDelivery ---------------------------
(***************************************************************************)
(* What the transactional outbox promises, without the relays, their       *)
(* batches, the leases or the attempts: at-least-once delivery of the      *)
(* events that were committed, and of no others.  An event is committed    *)
(* once, is sent only when it is committed, is settled only when it was    *)
(* sent, and is handled only by taking what was sent; nothing is unsettled *)
(* or taken back.                                                          *)
(***************************************************************************)
EXTENDS Naturals

CONSTANT Event

VARIABLES committed,  \* events whose transaction committed
          sent,       \* events in the queue
          settled,    \* events that need not be sent again
          deliveries  \* [Event -> Nat], times an event was handled

deliveryVars == <<committed, sent, settled, deliveries>>

Init == /\ committed = {} /\ sent = {} /\ settled = {}
        /\ deliveries = [e \in Event |-> 0]

Commit(e) == /\ e \notin committed
             /\ committed' = committed \cup {e}
             /\ UNCHANGED <<sent, settled, deliveries>>

Send(batch) == /\ batch \subseteq committed
               /\ sent' = sent \cup batch
               /\ UNCHANGED <<committed, settled, deliveries>>

Settle(batch) == /\ \A e \in batch : e \in sent \/ deliveries[e] > 0
                 /\ settled' = settled \cup batch
                 /\ UNCHANGED <<committed, sent, deliveries>>

Handle(e) == /\ e \in sent
             /\ sent' = sent \ {e}
             /\ deliveries' = [deliveries EXCEPT ![e] = @ + 1]
             /\ UNCHANGED <<committed, settled>>

Next == \/ \E e \in Event : Commit(e) \/ Handle(e)
        \/ \E batch \in SUBSET Event : Send(batch) \/ Settle(batch)

Spec == Init /\ [][Next]_deliveryVars
=============================================================================

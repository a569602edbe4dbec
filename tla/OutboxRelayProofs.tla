-------------------------- MODULE OutboxRelayProofs --------------------------
(***************************************************************************)
(* No outbox event is lost, for any set of events, relays, batch limit and *)
(* number of failures.  NothingLost alone is not inductive: MarkPublished  *)
(* needs to know that the batch it marks was enqueued (Enqueued), and that *)
(* a job which left the queue by completing was counted.                   *)
(* The copies of an event are bounded as well, by the relays and failures  *)
(* that can still owe one (CopyInv).                                       *)
(***************************************************************************)
EXTENDS OutboxRelay, FiniteSetTheorems, TLAPS

\* Shapes: the part of the type invariant the argument needs.
Shapes ==
  /\ published \subseteq Event
  /\ rows \subseteq Event
  /\ job \in [Event -> {"none", "waiting", "failed"}]
  /\ handled \in [Event -> Nat]
  /\ relay \in [Node -> [at : {"idle", "addBulk", "mark"}, batch : SUBSET Event]]

RelayInv == Shapes /\ NothingLost /\ Enqueued

\* RelayInit: the initial state satisfies the inductive invariant.
LEMMA RelayInit == Init => RelayInv
BY DEF Init, RelayInv, Shapes, NothingLost, Enqueued, idle

\* ShapesStep: every step of relay, queue and consumer keeps the shapes.
LEMMA ShapesStep == Shapes /\ [Next]_vars => Shapes'
<1> SUFFICES ASSUME Shapes, [Next]_vars PROVE Shapes'
  OBVIOUS
<1> USE DEF Shapes
<1>1. ASSUME NEW e \in Event, CreateInTransaction(e) PROVE Shapes'
  BY <1>1 DEF CreateInTransaction
<1>2. ASSUME NEW e \in Event, Consume(e) PROVE Shapes'
  BY <1>2 DEF Consume
<1>3. ASSUME NEW e \in Event, ConsumeThrows(e) PROVE Shapes'
  BY <1>3 DEF ConsumeThrows
<1>4. ASSUME NEW n \in Node, Relay(n) PROVE Shapes'
  BY <1>4 DEF Relay, claimUnpublished, Open
<1>5. ASSUME NEW n \in Node, AddBulk(n) PROVE Shapes'
  BY <1>5 DEF AddBulk
<1>6. ASSUME NEW n \in Node, MarkPublished(n) PROVE Shapes'
  BY <1>6 DEF MarkPublished, publishedWith, idle
<1>7. ASSUME NEW n \in Node, RelayFails(n) PROVE Shapes'
  BY <1>7 DEF RelayFails, idle
<1>8. CASE UNCHANGED vars
  BY <1>8 DEF vars
<1> QED
  BY <1>1, <1>2, <1>3, <1>4, <1>5, <1>6, <1>7, <1>8 DEF Next, RelayStep

\* ReachedStays: an event that is in the queue or was completed stays so.
LEMMA ReachedStays ==
  ASSUME Shapes, [Next]_vars, NEW e \in Event, job[e] # "none" \/ handled[e] > 0
  PROVE  job'[e] # "none" \/ handled'[e] > 0
<1> USE DEF Shapes
<1>1. ASSUME NEW f \in Event, CreateInTransaction(f) PROVE job'[e] # "none" \/ handled'[e] > 0
  BY <1>1 DEF CreateInTransaction
<1>2. ASSUME NEW f \in Event, Consume(f) PROVE job'[e] # "none" \/ handled'[e] > 0
  BY <1>2 DEF Consume
<1>3. ASSUME NEW f \in Event, ConsumeThrows(f) PROVE job'[e] # "none" \/ handled'[e] > 0
  BY <1>3 DEF ConsumeThrows
<1>4. ASSUME NEW n \in Node, Relay(n) PROVE job'[e] # "none" \/ handled'[e] > 0
  BY <1>4 DEF Relay
<1>5. ASSUME NEW n \in Node, AddBulk(n) PROVE job'[e] # "none" \/ handled'[e] > 0
  BY <1>5 DEF AddBulk
<1>6. ASSUME NEW n \in Node, MarkPublished(n) \/ RelayFails(n)
      PROVE  job'[e] # "none" \/ handled'[e] > 0
  BY <1>6 DEF MarkPublished, RelayFails
<1>7. CASE UNCHANGED vars
  BY <1>7 DEF vars
<1> QED
  BY <1>1, <1>2, <1>3, <1>4, <1>5, <1>6, <1>7 DEF Next, RelayStep

\* RelayInvStep: every step of relay, queue and consumer keeps the invariant.
LEMMA RelayInvStep == RelayInv /\ [Next]_vars => RelayInv'
<1> SUFFICES ASSUME RelayInv, [Next]_vars PROVE RelayInv'
  OBVIOUS
<1>1. Shapes /\ Shapes'
  BY ShapesStep DEF RelayInv
<1>2. \A e \in Event : (job[e] # "none" \/ handled[e] > 0) =>
                       (job'[e] # "none" \/ handled'[e] > 0)
  BY <1>1, ReachedStays
<1>3. ASSUME NEW n \in Node, MarkPublished(n) PROVE NothingLost' /\ Enqueued'
  BY <1>1, <1>2, <1>3 DEF MarkPublished, publishedWith, idle, RelayInv, Shapes, NothingLost, Enqueued
<1>4. ASSUME NEW n \in Node, AddBulk(n) PROVE NothingLost' /\ Enqueued'
  <2>1. \A e \in relay[n].batch : job'[e] # "none"
    BY <1>1, <1>4 DEF AddBulk, Shapes
  <2>2. NothingLost'
    BY <1>1, <1>2, <1>4 DEF AddBulk, RelayInv, NothingLost, Shapes
  <2>3. Enqueued'
    BY <1>1, <1>2, <1>4, <2>1 DEF AddBulk, RelayInv, Enqueued, Shapes
  <2> QED
    BY <2>2, <2>3
<1>5. ASSUME NEW n \in Node, Relay(n) \/ RelayFails(n) PROVE NothingLost' /\ Enqueued'
  BY <1>1, <1>2, <1>5 DEF Relay, RelayFails, idle, RelayInv, Shapes, NothingLost, Enqueued
<1>6. ASSUME published' = published, relay' = relay PROVE NothingLost' /\ Enqueued'
  BY <1>1, <1>2, <1>6 DEF RelayInv, Shapes, NothingLost, Enqueued
<1>7. ASSUME NEW e \in Event, CreateInTransaction(e) \/ Consume(e) \/ ConsumeThrows(e)
      PROVE  NothingLost' /\ Enqueued'
  <2>1. published' = published /\ relay' = relay
    BY <1>7 DEF CreateInTransaction, Consume, ConsumeThrows
  <2> QED
    BY <1>6, <2>1
<1>8. ASSUME UNCHANGED vars PROVE NothingLost' /\ Enqueued'
  BY <1>6, <1>8 DEF vars
<1>9. NothingLost' /\ Enqueued'
  BY <1>3, <1>4, <1>5, <1>7, <1>8 DEF Next, RelayStep
<1> QED
  BY <1>1, <1>9 DEF RelayInv

\* NoEventIsLost: in every behaviour, whatever relays crash or overlap, an outbox row
\* that is marked published has reached the queue or was completed by a consumer.
THEOREM NoEventIsLost == Spec => []NothingLost
<1>1. RelayInv => NothingLost
  BY DEF RelayInv
<1> QED
  BY RelayInit, RelayInvStep, <1>1, PTL DEF Spec

\* AttemptsLeft: a job that waits has an attempt left.
AttemptsLeft == \A e \in Event : job[e] = "waiting" => attempts[e] < MaxAttempts

\* ClaimedBatch: what a claim returns are open rows, no more than the limit.
LEMMA ClaimedBatch ==
  ASSUME rows \subseteq Event, NEW batch \in claimUnpublished
  PROVE  batch \subseteq rows /\ Cardinality(batch) <= Limit
<1>1. batch \subseteq rows /\ (Cardinality(batch) = Limit \/ Cardinality(batch) < Limit)
  BY DEF claimUnpublished, Open
<1>2. Cardinality(batch) \in Nat
  BY <1>1, RelayAssumption, FS_Subset, FS_CardinalityType
<1> QED
  BY <1>1, <1>2, RelayAssumption

\* RelayTypeInit: the types hold in the initial state.
LEMMA RelayTypeInit == Init => TypeOK /\ AttemptsLeft
<1> SUFFICES ASSUME Init PROVE TypeOK /\ AttemptsLeft
  OBVIOUS
<1>1. Cardinality({}) = 0
  BY FS_EmptySet
<1>2. 0 \in 0..MaxAttempts /\ 0 \in 0..MaxCrashes /\ 0 < MaxAttempts /\ 0 <= Limit
  BY RelayAssumption
<1>3. /\ rows = {} /\ published = {} /\ crashes = 0
      /\ job \in [Event -> {"none", "waiting", "failed"}] /\ \A e \in Event : job[e] = "none"
      /\ attempts \in [Event -> 0..MaxAttempts] /\ handled \in [Event -> Nat]
  BY <1>2 DEF Init
<1>4. /\ relay \in [Node -> [at : {"idle", "addBulk", "mark"}, batch : SUBSET rows]]
      /\ \A n \in Node : relay[n].batch = {}
  BY DEF Init, idle
<1> QED
  BY <1>1, <1>2, <1>3, <1>4 DEF TypeOK, AttemptsLeft

\* RelayTypeStep: every step keeps the types, the limit of a batch and the attempts.
LEMMA RelayTypeStep == TypeOK /\ AttemptsLeft /\ [Next]_vars => TypeOK' /\ AttemptsLeft'
<1> SUFFICES ASSUME TypeOK, AttemptsLeft, [Next]_vars PROVE TypeOK' /\ AttemptsLeft'
  OBVIOUS
<1> USE RelayAssumption DEF TypeOK, AttemptsLeft
<1>0. Cardinality({}) = 0
  BY FS_EmptySet
<1>1. ASSUME NEW e \in Event, CreateInTransaction(e) PROVE TypeOK' /\ AttemptsLeft'
  BY <1>1 DEF CreateInTransaction
<1>2. ASSUME NEW e \in Event, Consume(e) PROVE TypeOK' /\ AttemptsLeft'
  BY <1>2 DEF Consume
<1>3. ASSUME NEW e \in Event, ConsumeThrows(e) PROVE TypeOK' /\ AttemptsLeft'
  BY <1>3 DEF ConsumeThrows
<1>4. ASSUME NEW n \in Node, Relay(n) PROVE TypeOK' /\ AttemptsLeft'
  <2>1. PICK batch \in claimUnpublished :
          relay' = [relay EXCEPT ![n] = [at |-> "addBulk", batch |-> batch]]
    BY <1>4 DEF Relay
  <2>2. batch \subseteq rows /\ Cardinality(batch) <= Limit
    BY ClaimedBatch
  <2> QED
    BY <1>4, <2>1, <2>2 DEF Relay
<1>5. ASSUME NEW n \in Node, AddBulk(n) PROVE TypeOK' /\ AttemptsLeft'
  BY <1>5 DEF AddBulk
<1>6. ASSUME NEW n \in Node, MarkPublished(n) PROVE TypeOK' /\ AttemptsLeft'
  BY <1>0, <1>6 DEF MarkPublished, publishedWith, idle
<1>7. ASSUME NEW n \in Node, RelayFails(n) PROVE TypeOK' /\ AttemptsLeft'
  BY <1>0, <1>7 DEF RelayFails, idle
<1>8. CASE UNCHANGED vars
  BY <1>8 DEF vars
<1> QED
  BY <1>1, <1>2, <1>3, <1>4, <1>5, <1>6, <1>7, <1>8 DEF Next, RelayStep

\* RelayTypeCorrect: only rows are published or carried, no batch exceeds the limit and no
\* job its attempts, for any set of events and relays.
THEOREM RelayTypeCorrect == Spec => []TypeOK
BY RelayTypeInit, RelayTypeStep, PTL DEF Spec

-----------------------------------------------------------------------------
(* Copies of an event.  While its row is open, a copy is owed to a relay   *)
(* that is about to mark it or to one that failed; once it is published,   *)
(* only the relays that still hold it in a batch can add another.          *)

copies(e) == handled[e] + (IF job[e] = "none" THEN 0 ELSE 1)
holders(e, step) == {n \in Node : relay[n].at = step /\ e \in relay[n].batch}

CopyInv(e) ==
  /\ e \notin published => copies(e) <= crashes + Cardinality(holders(e, "mark"))
  /\ copies(e) + Cardinality(holders(e, "addBulk")) <= crashes + Cardinality(Node)

\* HolderSets: the relays about to enqueue and the relays about to mark are apart, and
\* one of them leaving or joining counts for one.
LEMMA HolderSets ==
  ASSUME NEW S \in SUBSET Node, NEW T \in SUBSET Node, S \cap T = {}, NEW n \in Node
  PROVE  /\ Cardinality(S) \in Nat /\ Cardinality(T) \in Nat /\ Cardinality(Node) \in Nat
         /\ Cardinality(S) + Cardinality(T) <= Cardinality(Node)
         /\ Cardinality(S \ {n}) = IF n \in S THEN Cardinality(S) - 1 ELSE Cardinality(S)
         /\ Cardinality(T \cup {n}) = IF n \in T THEN Cardinality(T) ELSE Cardinality(T) + 1
<1>1. IsFiniteSet(S) /\ IsFiniteSet(T) /\ IsFiniteSet(Node) /\ IsFiniteSet(S \cup T)
  BY RelayAssumption, FS_Subset
<1>2. Cardinality(S) \in Nat /\ Cardinality(T) \in Nat /\ Cardinality(Node) \in Nat
  BY <1>1, FS_CardinalityType
<1>3. Cardinality(S \cup T) = Cardinality(S) + Cardinality(T)
  <2>1. Cardinality(S \cup T) = Cardinality(S) + Cardinality(T) - Cardinality(S \cap T)
    BY <1>1, FS_Union
  <2>2. Cardinality(S \cap T) = 0
    BY FS_EmptySet
  <2> QED
    BY <1>2, <2>1, <2>2
<1>4. Cardinality(S \cup T) <= Cardinality(Node)
  BY <1>1, FS_Subset
<1>5. Cardinality(S \ {n}) = IF n \in S THEN Cardinality(S) - 1 ELSE Cardinality(S)
  BY <1>1, FS_RemoveElement
<1>6. Cardinality(T \cup {n}) = IF n \in T THEN Cardinality(T) ELSE Cardinality(T) + 1
  BY <1>1, FS_AddElement
<1> QED
  BY <1>2, <1>3, <1>4, <1>5, <1>6

\* CopyStep: every step keeps the account of the copies of an event.
LEMMA CopyStep ==
  ASSUME TypeOK, TypeOK', [Next]_vars, NEW e \in Event, CopyInv(e)
  PROVE  CopyInv(e)'
<1> DEFINE A == holders(e, "addBulk")
           M == holders(e, "mark")
<1>1. A \in SUBSET Node /\ M \in SUBSET Node /\ A \cap M = {}
  BY DEF holders
<1>2. copies(e) \in Nat /\ copies(e)' \in Nat /\ crashes \in Nat /\ crashes' \in Nat
  BY RelayAssumption DEF copies, TypeOK
<1>3. Cardinality(A) \in Nat /\ Cardinality(M) \in Nat /\ Cardinality(Node) \in Nat
  BY <1>1, RelayAssumption, FS_Subset, FS_CardinalityType
<1>4. ASSUME relay' = relay, published' = published, crashes' = crashes, copies(e)' = copies(e)
      PROVE  CopyInv(e)'
  <2>1. holders(e, "addBulk")' = A /\ holders(e, "mark")' = M
    BY <1>4 DEF holders
  <2> QED
    BY <1>4, <2>1 DEF CopyInv
<1>5. ASSUME NEW f \in Event, CreateInTransaction(f) \/ Consume(f) \/ ConsumeThrows(f)
      PROVE  CopyInv(e)'
  <2>1. copies(e)' = copies(e)
    BY <1>5 DEF CreateInTransaction, Consume, ConsumeThrows, copies, TypeOK
  <2> QED
    BY <1>4, <1>5, <2>1 DEF CreateInTransaction, Consume, ConsumeThrows
<1>6. ASSUME NEW n \in Node, Relay(n) PROVE CopyInv(e)'
  <2>1. PICK batch \in claimUnpublished :
          relay' = [relay EXCEPT ![n] = [at |-> "addBulk", batch |-> batch]]
    BY <1>6 DEF Relay
  <2>2. relay[n] = idle /\ UNCHANGED <<published, crashes, job, handled>>
    BY <1>6 DEF Relay
  <2>3. holders(e, "mark")' = M
    BY <2>1, <2>2 DEF holders, idle, TypeOK
  <2>4. CASE e \in published
    <3>1. e \notin batch
      BY <2>4 DEF claimUnpublished, Open
    <3>2. holders(e, "addBulk")' = A
      BY <2>1, <2>2, <3>1 DEF holders, idle, TypeOK
    <3> QED
      BY <2>2, <2>3, <3>2 DEF CopyInv, copies
  <2>5. CASE e \notin published
    <3>1. holders(e, "addBulk")' \in SUBSET Node /\ holders(e, "addBulk")' \cap M = {}
      BY <2>3 DEF holders
    <3>2. /\ Cardinality(holders(e, "addBulk")') \in Nat
          /\ Cardinality(holders(e, "addBulk")') + Cardinality(M) <= Cardinality(Node)
      BY <1>1, <3>1, HolderSets
    <3>3. copies(e)' = copies(e) /\ copies(e) <= crashes + Cardinality(M)
      BY <2>2, <2>5 DEF CopyInv, copies
    <3> HIDE DEF A, M
    <3> QED
      BY <1>2, <1>3, <2>2, <2>3, <3>2, <3>3 DEF CopyInv, A, M
  <2> QED
    BY <2>4, <2>5
<1>7. ASSUME NEW n \in Node, AddBulk(n) PROVE CopyInv(e)'
  <2>1. /\ relay[n].at = "addBulk" /\ relay'[n].at = "mark" /\ relay'[n].batch = relay[n].batch
        /\ \A m \in Node \ {n} : relay'[m] = relay[m]
        /\ UNCHANGED <<published, crashes, handled>>
    BY <1>7 DEF AddBulk, TypeOK
  <2>2. CASE e \in relay[n].batch
    <3>1. n \in A /\ n \notin M
      BY <2>1, <2>2 DEF holders
    <3>2. holders(e, "addBulk")' = A \ {n} /\ holders(e, "mark")' = M \cup {n}
      BY <2>1, <2>2 DEF holders
    <3>3. copies(e)' <= copies(e) + 1
      BY <1>7, <2>1 DEF AddBulk, copies, TypeOK
    <3>4. /\ Cardinality(A \ {n}) = Cardinality(A) - 1
          /\ Cardinality(M \cup {n}) = Cardinality(M) + 1
      <4> HIDE DEF A, M
      <4> QED
        BY <1>1, <3>1, HolderSets
    <3>5. /\ e \notin published => copies(e) <= crashes + Cardinality(M)
          /\ copies(e) + Cardinality(A) <= crashes + Cardinality(Node)
      BY DEF CopyInv
    <3>6. /\ e \notin published => copies(e)' <= crashes + Cardinality(M \cup {n})
          /\ copies(e)' + Cardinality(A \ {n}) <= crashes + Cardinality(Node)
      <4> HIDE DEF A, M
      <4> QED
        BY <1>2, <1>3, <3>3, <3>4, <3>5
    <3> QED
      BY <2>1, <3>2, <3>6 DEF CopyInv
  <2>3. CASE e \notin relay[n].batch
    <3>1. holders(e, "addBulk")' = A /\ holders(e, "mark")' = M
      BY <2>1, <2>3 DEF holders
    <3>2. copies(e)' = copies(e)
      BY <1>7, <2>1, <2>3 DEF AddBulk, copies, TypeOK
    <3> QED
      BY <2>1, <3>1, <3>2 DEF CopyInv
  <2> QED
    BY <2>2, <2>3
<1>8. ASSUME NEW n \in Node, MarkPublished(n) PROVE CopyInv(e)'
  <2>1. /\ relay[n].at = "mark" /\ relay'[n] = idle
        /\ \A m \in Node \ {n} : relay'[m] = relay[m]
        /\ UNCHANGED <<crashes, handled, job>>
        /\ published' = published \cup relay[n].batch
    BY <1>8 DEF MarkPublished, publishedWith, TypeOK
  <2>2. copies(e)' = copies(e)
    BY <2>1 DEF copies
  <2>3. holders(e, "addBulk")' = A
    BY <2>1 DEF holders, idle
  <2>4. e \notin published' => holders(e, "mark")' = M
    BY <2>1 DEF holders, idle
  <2> QED
    BY <2>1, <2>2, <2>3, <2>4 DEF CopyInv
<1>9. ASSUME NEW n \in Node, RelayFails(n) PROVE CopyInv(e)'
  <2>1. /\ relay'[n] = idle /\ crashes' = crashes + 1
        /\ \A m \in Node \ {n} : relay'[m] = relay[m]
        /\ UNCHANGED <<published, handled, job>>
    BY <1>9 DEF RelayFails, TypeOK
  <2>2. copies(e)' = copies(e)
    BY <2>1 DEF copies
  <2>3. holders(e, "addBulk")' = A \ {n} /\ holders(e, "mark")' = M \ {n}
    BY <2>1 DEF holders, idle
  <2>4. /\ Cardinality(A \ {n}) = Cardinality(A) - 1 \/ Cardinality(A \ {n}) = Cardinality(A)
        /\ Cardinality(M \ {n}) = Cardinality(M) - 1 \/ Cardinality(M \ {n}) = Cardinality(M)
    <3> HIDE DEF A, M
    <3>1. M \cap A = {}
      BY <1>1
    <3> QED
      BY <1>1, <3>1, HolderSets
  <2>5. /\ e \notin published => copies(e) <= crashes + Cardinality(M)
        /\ copies(e) + Cardinality(A) <= crashes + Cardinality(Node)
    BY DEF CopyInv
  <2>6. /\ e \notin published => copies(e) <= crashes + 1 + Cardinality(M \ {n})
        /\ copies(e) + Cardinality(A \ {n}) <= crashes + 1 + Cardinality(Node)
    <3> HIDE DEF A, M
    <3> QED
      BY <1>2, <1>3, <2>4, <2>5
  <2> QED
    BY <2>1, <2>2, <2>3, <2>6 DEF CopyInv
<1>10. CASE UNCHANGED vars
  BY <1>4, <1>10 DEF vars, copies
<1> QED
  BY <1>5, <1>6, <1>7, <1>8, <1>9, <1>10 DEF Next, RelayStep

\* CopiesAreBounded: however relays overlap and fail between enqueue and mark, an event is
\* never delivered more often than there are relays and failures.
THEOREM CopiesAreBounded == Spec => []CopiesBounded
<1> DEFINE Inv == TypeOK /\ AttemptsLeft /\ \A e \in Event : CopyInv(e)
<1>1. Init => Inv
  <2> SUFFICES ASSUME Init, NEW e \in Event PROVE CopyInv(e)
    BY RelayTypeInit
  <2>1. Cardinality({}) = 0 /\ Cardinality(Node) \in Nat
    BY FS_EmptySet, FS_CardinalityType, RelayAssumption
  <2>2. copies(e) = 0 /\ holders(e, "addBulk") = {} /\ holders(e, "mark") = {} /\ crashes = 0
    BY DEF Init, copies, holders, idle
  <2> QED
    BY <2>1, <2>2 DEF CopyInv
<1>2. Inv /\ [Next]_vars => Inv'
  <2> SUFFICES ASSUME Inv, [Next]_vars PROVE Inv'
    OBVIOUS
  <2>1. TypeOK' /\ AttemptsLeft'
    BY RelayTypeStep
  <2>2. ASSUME NEW e \in Event PROVE CopyInv(e)'
    BY <2>1, CopyStep
  <2> QED
    BY <2>1, <2>2
<1>3. Inv => CopiesBounded
  <2> SUFFICES ASSUME Inv, NEW e \in Event
               PROVE  copies(e) <= crashes + Cardinality(Node)
    BY DEF CopiesBounded, copies
  <2>1. holders(e, "addBulk") \subseteq Node
    BY DEF holders
  <2>2. /\ Cardinality(holders(e, "addBulk")) \in Nat /\ Cardinality(Node) \in Nat
    BY <2>1, RelayAssumption, FS_Subset, FS_CardinalityType
  <2>3. copies(e) \in Nat /\ crashes \in Nat
    BY RelayAssumption DEF copies, TypeOK
  <2> QED
    BY <2>2, <2>3 DEF CopyInv
<1> QED
  BY <1>1, <1>2, <1>3, PTL DEF Spec

-----------------------------------------------------------------------------
(* At-least-once delivery.                                                 *)

\* SendStep: addBulk queues the batch of its relay, ids that exist included.
LEMMA SendStep ==
  ASSUME TypeOK, NEW n \in Node, AddBulk(n)
  PROVE  Delivery!Next
<1> DEFINE batch == relay[n].batch
<1>1. batch \in SUBSET Event /\ batch \subseteq rows
  BY DEF TypeOK
<1>2. {e \in Event : job'[e] # "none"} = {e \in Event : job[e] # "none"} \cup batch
  <2>1. \A e \in Event : job'[e] = IF e \in batch /\ job[e] = "none" THEN "waiting" ELSE job[e]
    BY DEF AddBulk
  <2> QED
    BY <1>1, <2>1
<1>3. UNCHANGED <<rows, published, handled>>
  BY DEF AddBulk
<1> HIDE DEF batch
<1>4. \E b \in SUBSET Event : Delivery!Send(b)
  BY <1>1, <1>2, <1>3, Zenon DEF Delivery!Send
<1> QED
  BY <1>4, Zenon DEF Delivery!Next

\* SettleStep: what a relay marks was queued before.
LEMMA SettleStep ==
  ASSUME TypeOK, RelayInv, NEW n \in Node, MarkPublished(n)
  PROVE  Delivery!Next
<1> DEFINE batch == relay[n].batch
<1>1. batch \in SUBSET Event
  BY DEF TypeOK
<1>2. \A e \in batch : e \in {d \in Event : job[d] # "none"} \/ handled[e] > 0
  BY <1>1 DEF RelayInv, Enqueued, MarkPublished
<1>3. published' = published \cup batch /\ UNCHANGED <<rows, job, handled>>
  BY DEF MarkPublished, publishedWith
<1>4. Delivery!Settle(batch)
  BY <1>2, <1>3 DEF Delivery!Settle
<1> HIDE DEF batch
<1> QED
  BY <1>1, <1>4, Zenon DEF Delivery!Next

\* HandleStep: a completed job was in the queue and leaves it.
LEMMA HandleStep ==
  ASSUME TypeOK, NEW e \in Event, Consume(e)
  PROVE  Delivery!Next
<1>1. {d \in Event : job'[d] # "none"} = {d \in Event : job[d] # "none"} \ {e}
  BY DEF Consume, TypeOK
<1>2. Delivery!Handle(e)
  BY <1>1 DEF Consume, Delivery!Handle
<1> QED
  BY <1>2 DEF Delivery!Next

\* DeliveryStep: every step of relay, queue and consumer is a step of the delivery
\* or changes nothing it can see.
LEMMA DeliveryStep ==
  ASSUME TypeOK, RelayInv, [Next]_vars
  PROVE  [Delivery!Next]_(Delivery!deliveryVars)
<1> USE DEF Delivery!deliveryVars
<1>1. ASSUME NEW e \in Event, CreateInTransaction(e) PROVE Delivery!Next
  BY <1>1 DEF CreateInTransaction, Delivery!Commit, Delivery!Next
<1>2. ASSUME NEW e \in Event, ConsumeThrows(e) PROVE UNCHANGED Delivery!deliveryVars
  <2>1. {d \in Event : job'[d] # "none"} = {d \in Event : job[d] # "none"}
    BY <1>2 DEF ConsumeThrows, TypeOK
  <2> QED
    BY <1>2, <2>1 DEF ConsumeThrows
<1>3. ASSUME NEW n \in Node, Relay(n) \/ RelayFails(n) PROVE UNCHANGED Delivery!deliveryVars
  BY <1>3 DEF Relay, RelayFails
<1>4. CASE UNCHANGED vars
  BY <1>4 DEF vars
<1> QED
  BY <1>1, <1>2, <1>3, <1>4, SendStep, SettleStep, HandleStep DEF Next, RelayStep

\* RelayImplementsDelivery: any number of relays, whatever batches they claim, overlap on or
\* fail with, deliver at least once: no event is queued, marked or handled that was not
\* committed with its row, and none is marked before it was queued.
THEOREM RelayImplementsDelivery == Spec => DeliverySpec
<1>1. Init => Delivery!Init
  BY DEF Init, Delivery!Init
<1>2. TypeOK /\ RelayInv /\ [Next]_vars => [Delivery!Next]_(Delivery!deliveryVars)
  BY DeliveryStep
<1> QED
  BY <1>1, <1>2, RelayTypeInit, RelayTypeStep, RelayInit, RelayInvStep, PTL
     DEF Spec, DeliverySpec, Delivery!Spec
=============================================================================

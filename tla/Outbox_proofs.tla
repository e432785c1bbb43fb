---------------------------- MODULE Outbox_proofs ----------------------------
(***************************************************************************)
(* Proofs about module Outbox, for every number of events and publishers,  *)
(* every batch size and every number of faults.                            *)
(***************************************************************************)
EXTENDS Outbox, FiniteSetTheorems, TLAPS

-----------------------------------------------------------------------------
(* Where a step may go.                                                    *)

\* Every other step leaves the copies alone.
LEMMA DeliveredIsKept ==
    ASSUME copies' = copies
    PROVE  Delivered' = Delivered
BY DEF Delivered

-----------------------------------------------------------------------------
(* The invariant of any run.                                               *)

LEMMA InitHolds == Init => IInv
<1> SUFFICES ASSUME Init PROVE IInv
    OBVIOUS
<1>1. TypeOK
      BY OutboxAssumption DEF Init, TypeOK
<1>2. Delivered = {}
      BY DEF Init, Delivered
<1>3. BatchesAreCommitted
      BY DEF Init, BatchesAreCommitted
<1> QED BY <1>1, <1>2, <1>3 DEF IInv, PublishedWasDelivered, Init

LEMMA StepKeepsIInv == IInv /\ [Next]_vars => IInv'
<1> SUFFICES ASSUME IInv, [Next]_vars PROVE IInv'
    OBVIOUS
<1> USE DEF IInv
<1>1. ASSUME NEW e \in Events, Insert(e) PROVE IInv'
  <2>1. TypeOK'
        BY <1>1 DEF Insert, TypeOK
  <2>2. Delivered' = Delivered
        BY <1>1, DeliveredIsKept DEF Insert
  <2>3. Committed' = Committed
        BY <1>1 DEF Insert, Committed, TypeOK
  <2> QED BY <1>1, <2>1, <2>2, <2>3 DEF Insert, BatchesAreCommitted, PublishedWasDelivered
<1>2. ASSUME NEW e \in Events, Ends(e) PROVE IInv'
  <2>1. TypeOK'
        BY <1>2 DEF Ends, TypeOK
  <2>2. Delivered' = Delivered
        BY <1>2, DeliveredIsKept DEF Ends
  <2>3. Committed \subseteq Committed'
        BY <1>2 DEF Ends, Committed, TypeOK
  <2> QED BY <1>2, <2>1, <2>2, <2>3 DEF Ends, BatchesAreCommitted, PublishedWasDelivered
<1>3. ASSUME NEW p \in Publishers, Fetch(p) PROVE IInv'
  <2>1. PICK rows \in SUBSET Eligible : batch' = [batch EXCEPT ![p] = rows]
        BY <1>3 DEF Fetch
  <2>2. rows \subseteq Committed
        BY DEF Eligible
  <2>3. Committed \subseteq Events
        BY DEF Committed
  <2>4. TypeOK'
        BY <1>3, <2>1, <2>2, <2>3 DEF Fetch, TypeOK
  <2>5. Delivered' = Delivered /\ Committed' = Committed
        BY <1>3, DeliveredIsKept DEF Fetch, Committed
  <2>6. BatchesAreCommitted'
        BY <1>3, <2>1, <2>2, <2>5 DEF Fetch, BatchesAreCommitted, TypeOK
  <2> QED BY <1>3, <2>4, <2>5, <2>6 DEF Fetch, PublishedWasDelivered
<1>4. ASSUME NEW p \in Publishers, Publish(p) PROVE IInv'
  <2>1. PICK e \in Events : /\ IsNext(p, e)
                            /\ copies' = [copies EXCEPT ![e] = @ + 1]
                            /\ batch' = [batch EXCEPT ![p] = @ \ {e}]
                            /\ sent' = [sent EXCEPT ![p] = @ \cup {e}]
        BY <1>4 DEF Publish, Delivers
  <2>2. TypeOK'
        BY <1>4, <2>1 DEF Publish, TypeOK
  <2>3. e \in Committed
        BY <2>1 DEF IsNext, BatchesAreCommitted
  <2>4. Delivered' = Delivered \cup {e}
        BY <2>1 DEF Delivered, TypeOK
  <2>5. Committed' = Committed
        BY <1>4 DEF Publish, Committed
  <2>6. BatchesAreCommitted'
        BY <2>1, <2>4, <2>5 DEF BatchesAreCommitted, TypeOK
  <2> QED BY <1>4, <2>2, <2>3, <2>4, <2>5, <2>6 DEF Publish, PublishedWasDelivered
<1>5. ASSUME NEW p \in Publishers, Refused(p) PROVE IInv'
  <2>1. PICK e \in Events :
            /\ IsNext(p, e)
            /\ Delivers(e) \/ UNCHANGED copies
            /\ batch' = [batch EXCEPT ![p] = @ \ {e}]
            /\ LET counted == [attempts EXCEPT ![e] = @ + 1] IN
               \/ attempts' = counted /\ UNCHANGED faults
               \/ attempts' \in {attempts, counted} /\ Fault
        BY <1>5 DEF Refused
  <2>2. refusals' \in 0 .. MaxRefusals /\ faults' \in 0 .. MaxFaults
        BY <1>5, <2>1, OutboxAssumption DEF Refused, Fault, TypeOK
  <2>3. attempts' \in [Events -> Nat] /\ copies' \in [Events -> Nat]
        BY <2>1 DEF Delivers, TypeOK
  <2>4. TypeOK'
        BY <1>5, <2>1, <2>2, <2>3 DEF Refused, TypeOK
  <2>5. Committed' = Committed /\ e \in Committed
        BY <1>5, <2>1 DEF Refused, Committed, IsNext, BatchesAreCommitted
  <2>6. Delivered' = Delivered \/ Delivered' = Delivered \cup {e}
        BY <2>1 DEF Delivers, Delivered, TypeOK
  <2>7. BatchesAreCommitted'
        BY <1>5, <2>1, <2>5, <2>6 DEF Refused, BatchesAreCommitted, TypeOK
  <2> QED BY <1>5, <2>4, <2>5, <2>6, <2>7 DEF Refused, PublishedWasDelivered
<1>6. ASSUME NEW p \in Publishers, Resent(p) PROVE IInv'
  <2>1. PICK e \in Events : IsNext(p, e) /\ copies' = [copies EXCEPT ![e] = @ + 1]
        BY <1>6 DEF Resent, Delivers
  <2>2. TypeOK'
        BY <1>6, <2>1, OutboxAssumption DEF Resent, Fault, TypeOK
  <2>3. Committed' = Committed /\ e \in Committed
        BY <1>6, <2>1 DEF Resent, Committed, IsNext, BatchesAreCommitted
  <2>4. Delivered' = Delivered \cup {e}
        BY <2>1 DEF Delivered, TypeOK
  <2> QED BY <1>6, <2>2, <2>3, <2>4 DEF Resent, BatchesAreCommitted, PublishedWasDelivered
<1>7. ASSUME NEW p \in Publishers, MarkPublished(p) PROVE IInv'
  <2>1. TypeOK'
        BY <1>7 DEF MarkPublished, TypeOK
  <2>2. Delivered' = Delivered /\ Committed' = Committed
        BY <1>7, DeliveredIsKept DEF MarkPublished, Committed
  <2>3. BatchesAreCommitted'
        BY <1>7, <2>2 DEF MarkPublished, BatchesAreCommitted, TypeOK
  <2>4. PublishedWasDelivered'
        BY <1>7, <2>2 DEF MarkPublished, BatchesAreCommitted, PublishedWasDelivered
  <2> QED BY <2>1, <2>2, <2>3, <2>4
<1>8. ASSUME NEW p \in Publishers, Interrupted(p) PROVE IInv'
  <2>1. published' = published \/ published' = published \cup sent[p]
        BY <1>8 DEF Interrupted
  <2>2. TypeOK'
        BY <1>8, <2>1, OutboxAssumption DEF Interrupted, Fault, TypeOK
  <2>3. Delivered' = Delivered /\ Committed' = Committed
        BY <1>8, DeliveredIsKept DEF Interrupted, Committed
  <2>4. BatchesAreCommitted'
        BY <1>8, <2>3 DEF Interrupted, BatchesAreCommitted, TypeOK
  <2>5. PublishedWasDelivered'
        BY <2>1, <2>3 DEF BatchesAreCommitted, PublishedWasDelivered
  <2> QED BY <2>2, <2>3, <2>4, <2>5
<1>9. CASE UNCHANGED vars
      BY <1>9 DEF vars, TypeOK, BatchesAreCommitted, PublishedWasDelivered, Delivered, Committed
<1> QED BY <1>1, <1>2, <1>3, <1>4, <1>5, <1>6, <1>7, <1>8, <1>9 DEF Next, TickStep

\* The inductive invariant holds, for any number of publishers and events.
THEOREM InvariantHolds == Spec => []IInv
BY InitHolds, StepKeepsIInv, PTL DEF Spec

\* No event is marked as published before the bus had it: Tick marks what it
\* forwarded, whoever else forwards the same rows and whoever is interrupted.
THEOREM PublishedIsDelivered == Spec => []PublishedWasDelivered
<1>1. IInv => PublishedWasDelivered
      BY DEF IInv
<1> QED BY <1>1, InvariantHolds, PTL

-----------------------------------------------------------------------------
(* The outbox implements EventDelivery.                                    *)

LEMMA StepRefines == IInv /\ [Next]_vars => [Delivery!Next]_(Delivery!vars)
<1> SUFFICES ASSUME IInv, [Next]_vars
             PROVE  Delivery!Next \/ UNCHANGED <<Committed, Delivered>>
    BY DEF Delivery!vars
<1>1. ASSUME NEW e \in Events, Insert(e) PROVE UNCHANGED <<Committed, Delivered>>
      BY <1>1, DeliveredIsKept DEF Insert, Committed, IInv, TypeOK
<1>2. ASSUME NEW e \in Events, Ends(e)
      PROVE  Delivery!Commit(e) \/ UNCHANGED <<Committed, Delivered>>
  <2>1. Delivered' = Delivered
        BY <1>2, DeliveredIsKept DEF Ends
  <2>2. e \notin Committed
        BY <1>2 DEF Ends, Committed
  <2>3. Committed' = Committed \cup {e} \/ Committed' = Committed
        BY <1>2 DEF Ends, Committed, IInv, TypeOK
  <2> QED BY <2>1, <2>2, <2>3 DEF Delivery!Commit
<1>3. ASSUME NEW p \in Publishers, NEW e \in Events, IsNext(p, e), Delivers(e), UNCHANGED tx
      PROVE  Delivery!Hear(e)
  <2>1. e \in Committed
        BY <1>3 DEF IsNext, IInv, BatchesAreCommitted
  <2>2. Delivered' = Delivered \cup {e} /\ Committed' = Committed
        BY <1>3 DEF Delivers, Delivered, Committed, IInv, TypeOK
  <2> QED BY <2>1, <2>2 DEF Delivery!Hear
<1>4. ASSUME NEW p \in Publishers, Publish(p) \/ Refused(p) \/ Resent(p)
      PROVE  (\E e \in Events : Delivery!Hear(e)) \/ UNCHANGED <<Committed, Delivered>>
  <2>1. UNCHANGED tx
        BY <1>4 DEF Publish, Refused, Resent
  <2>2. (\E e \in Events : IsNext(p, e) /\ Delivers(e)) \/ UNCHANGED copies
        BY <1>4 DEF Publish, Refused, Resent
  <2> QED BY <1>3, <2>1, <2>2, DeliveredIsKept DEF Committed
<1>5. ASSUME NEW p \in Publishers, Fetch(p) \/ MarkPublished(p) \/ Interrupted(p)
      PROVE  UNCHANGED <<Committed, Delivered>>
      BY <1>5, DeliveredIsKept DEF Fetch, MarkPublished, Interrupted, Committed
<1>6. CASE UNCHANGED vars
      BY <1>6 DEF vars, Committed, Delivered
<1> QED BY <1>1, <1>2, <1>4, <1>5, <1>6 DEF Next, TickStep, Delivery!Next

\* Every run of the publishers, with any refusals and faults, is at-least-once delivery
\* of committed events as EventDelivery describes it.
THEOREM DeliveryIsImplemented == Spec => ImplementsDelivery
<1>1. Init => Delivery!Init
      BY DEF Init, Delivery!Init, Committed, Delivered
<1> QED BY <1>1, StepRefines, InvariantHolds, PTL DEF Spec, ImplementsDelivery, Delivery!Spec

-----------------------------------------------------------------------------
(* The order of delivery, until Redis refuses an event.                    *)

LEMMA OrderInitHolds == Init => OrderIInv
<1> SUFFICES ASSUME Init PROVE OrderIInv
    OBVIOUS
<1>1. Delivered = {} /\ Committed = {}
      BY DEF Init, Delivered, Committed
<1> QED BY <1>1, InitHolds
        DEF Init, OrderIInv, SubjectsAreSerial, BatchesSkipNothing, FirstInOrder

LEMMA StepKeepsOrder == OrderIInv /\ [Next]_vars => OrderIInv'
<1> SUFFICES ASSUME OrderIInv, [Next]_vars PROVE OrderIInv'
    OBVIOUS
<1>i. IInv'
      BY StepKeepsIInv DEF OrderIInv
<1>t. IInv /\ TypeOK /\ BatchesAreCommitted /\ Delivered \subseteq Committed
      BY DEF OrderIInv, IInv
<1>1. ASSUME NEW e \in Events, Insert(e) PROVE OrderIInv'
  <2>1. Delivered' = Delivered
        BY <1>1, DeliveredIsKept DEF Insert
  <2>2. Committed' = Committed
        BY <1>1, <1>t DEF Insert, Committed, TypeOK
  <2>3. SubjectsAreSerial'
        BY <1>1, <1>t DEF Insert, OrderIInv, SubjectsAreSerial, TypeOK
  <2> QED BY <1>1, <1>i, <2>1, <2>2, <2>3
          DEF Insert, OrderIInv, BatchesSkipNothing, FirstInOrder
<1>2. ASSUME NEW d \in Events, Ends(d) PROVE OrderIInv'
  <2>1. Delivered' = Delivered
        BY <1>2, DeliveredIsKept DEF Ends
  <2>2. Committed' \subseteq Committed \cup {d}
        BY <1>2, <1>t DEF Ends, Committed, TypeOK
  <2>3. \A e \in Events : d < e /\ Subject[d] = Subject[e] => e \notin Committed
        BY <1>2 DEF Ends, OrderIInv, SubjectsAreSerial, Committed
  <2>4. SubjectsAreSerial'
        BY <1>2, <1>t DEF Ends, OrderIInv, SubjectsAreSerial, TypeOK
  <2>5. BatchesSkipNothing'
        BY <1>2, <1>t, <2>1, <2>2, <2>3
        DEF Ends, OrderIInv, BatchesSkipNothing, BatchesAreCommitted
  <2>6. FirstInOrder'
        BY <1>2, <1>t, <2>1, <2>2, <2>3 DEF Ends, OrderIInv, FirstInOrder
  <2> QED BY <1>2, <1>i, <2>4, <2>5, <2>6 DEF Ends, OrderIInv
<1>3. ASSUME NEW p \in Publishers, Fetch(p) PROVE OrderIInv'
  <2>1. PICK rows \in SUBSET Eligible : IsBatch(rows) /\ batch' = [batch EXCEPT ![p] = rows]
        BY <1>3 DEF Fetch
  <2>2. Delivered' = Delivered /\ Committed' = Committed
        BY <1>3, DeliveredIsKept DEF Fetch, Committed
  <2>3. ASSUME refusals = 0, NEW d \in Events, NEW e \in rows, d < e, d \in Committed
        PROVE  d \in rows \cup Delivered
    <3>1. CASE d \in published
          BY <3>1, <1>t DEF IInv, PublishedWasDelivered
    <3>2. CASE d \notin published
      <4>1. d \in Eligible
            BY <2>3, <3>2, OutboxAssumption DEF Eligible, OrderIInv
      <4>2. e \in Events
            BY DEF Eligible, Committed
      <4> QED BY <2>1, <2>3, <4>1, <4>2 DEF IsBatch, Events
    <3> QED BY <3>1, <3>2
  <2>4. BatchesSkipNothing'
        BY <1>3, <1>t, <2>1, <2>2, <2>3 DEF Fetch, OrderIInv, BatchesSkipNothing, TypeOK
  <2> QED BY <1>3, <1>i, <2>2, <2>4 DEF Fetch, OrderIInv, SubjectsAreSerial, FirstInOrder
<1>4. ASSUME NEW p \in Publishers, Publish(p) \/ Resent(p) PROVE OrderIInv'
  <2>1. PICK e \in Events : /\ IsNext(p, e)
                            /\ copies' = [copies EXCEPT ![e] = @ + 1]
                            /\ \/ batch' = [batch EXCEPT ![p] = @ \ {e}]
                               \/ UNCHANGED batch
        BY <1>4 DEF Publish, Resent, Delivers
  <2>2. UNCHANGED <<tx, attempts, refusals>>
        BY <1>4 DEF Publish, Resent
  <2>3. Delivered' = Delivered \cup {e} /\ Committed' = Committed
        BY <1>t, <2>1, <2>2 DEF Delivered, Committed, TypeOK
  <2>4. refusals = 0 =>
           \A d \in Events :
               d < e /\ Subject[d] = Subject[e] /\ d \in Committed => d \in Delivered
        BY <2>1 DEF IsNext, OrderIInv, BatchesSkipNothing, Events
  <2>5. BatchesSkipNothing'
        BY <1>t, <2>1, <2>2, <2>3 DEF OrderIInv, BatchesSkipNothing, TypeOK
  <2>6. FirstInOrder'
        BY <2>2, <2>3, <2>4 DEF OrderIInv, FirstInOrder
  <2> QED BY <1>i, <2>2, <2>5, <2>6 DEF OrderIInv, SubjectsAreSerial
<1>5. ASSUME NEW p \in Publishers, Refused(p) PROVE OrderIInv'
  <2>1. refusals' # 0
        BY <1>5, <1>t DEF Refused, TypeOK
  <2> QED BY <1>5, <1>i, <2>1
          DEF Refused, OrderIInv, SubjectsAreSerial, BatchesSkipNothing, FirstInOrder
<1>6. ASSUME NEW p \in Publishers, MarkPublished(p) PROVE OrderIInv'
  <2>1. Delivered' = Delivered /\ Committed' = Committed
        BY <1>6, DeliveredIsKept DEF MarkPublished, Committed
  <2> QED BY <1>6, <1>i, <2>1
          DEF MarkPublished, OrderIInv, SubjectsAreSerial, BatchesSkipNothing, FirstInOrder
<1>7. ASSUME NEW p \in Publishers, Interrupted(p) PROVE OrderIInv'
  <2>1. Delivered' = Delivered /\ Committed' = Committed
        BY <1>7, DeliveredIsKept DEF Interrupted, Committed
  <2>2. BatchesSkipNothing'
        BY <1>7, <1>t, <2>1 DEF Interrupted, OrderIInv, BatchesSkipNothing, TypeOK
  <2> QED BY <1>7, <1>i, <2>1, <2>2 DEF Interrupted, OrderIInv, SubjectsAreSerial, FirstInOrder
<1>8. CASE UNCHANGED vars
      BY <1>8, <1>i DEF vars, OrderIInv, SubjectsAreSerial, BatchesSkipNothing, FirstInOrder,
                      Delivered, Committed
<1> QED BY <1>1, <1>2, <1>3, <1>4, <1>5, <1>6, <1>7, <1>8 DEF Next, TickStep

\* The inductive invariant of the order holds.
THEOREM OrderInvariantHolds == Spec => []OrderIInv
BY OrderInitHolds, StepKeepsOrder, PTL DEF Spec

\* Until Redis refuses an event, the events of one lab reach the bus first in the order
\* they were committed, whatever publishers race or are interrupted.
THEOREM DeliveredInOrder == Spec => []FirstInOrder
<1>1. OrderIInv => FirstInOrder
      BY DEF OrderIInv
<1> QED BY <1>1, OrderInvariantHolds, PTL

-----------------------------------------------------------------------------
(* The copies of an event.                                                 *)

\* Sets of publishers are finite, and two that are disjoint fit into Publishers.
LEMMA PublishersAreFinite ==
    ASSUME NEW S \in SUBSET Publishers, NEW T \in SUBSET Publishers, S \cap T = {}
    PROVE  /\ Cardinality(S) \in Nat /\ Cardinality(T) \in Nat /\ Cardinality(Publishers) \in Nat
           /\ Cardinality(S) + Cardinality(T) <= Cardinality(Publishers)
<1>1. IsFiniteSet(Publishers)
      BY OutboxAssumption
<1>2. IsFiniteSet(S) /\ IsFiniteSet(T) /\ Cardinality(S) \in Nat /\ Cardinality(T) \in Nat
      BY <1>1, FS_Subset, FS_CardinalityType
<1>3. Cardinality(S \cup T) = Cardinality(S) + Cardinality(T)
  <2>1. Cardinality(S \cup T) = Cardinality(S) + Cardinality(T) - Cardinality(S \cap T)
        BY <1>2, FS_Union
  <2>2. Cardinality(S \cap T) = 0
        BY FS_EmptySet
  <2> QED BY <1>2, <2>1, <2>2
<1>4. Cardinality(S \cup T) <= Cardinality(Publishers)
      BY <1>1, FS_Subset
<1>5. Cardinality(Publishers) \in Nat
      BY <1>1, FS_CardinalityType
<1> QED BY <1>2, <1>3, <1>4, <1>5

LEMMA SmallerSet ==
    ASSUME NEW S \in SUBSET Publishers, NEW T \in SUBSET S
    PROVE  Cardinality(T) <= Cardinality(S) /\ Cardinality(T) \in Nat /\ Cardinality(S) \in Nat
BY OutboxAssumption, FS_Subset, FS_CardinalityType

LEMMA SetWithout ==
    ASSUME NEW S \in SUBSET Publishers, NEW p \in S
    PROVE  Cardinality(S \ {p}) = Cardinality(S) - 1
BY OutboxAssumption, FS_Subset, FS_RemoveElement

LEMMA SetWith ==
    ASSUME NEW S \in SUBSET Publishers, NEW p \in Publishers \ S
    PROVE  Cardinality(S \cup {p}) = Cardinality(S) + 1
BY OutboxAssumption, FS_Subset, FS_AddElement

LEMMA ExcusedType == ASSUME TypeOK, NEW e \in Events PROVE Excused(e) \in Nat
BY OutboxAssumption DEF TypeOK, Excused

LEMMA CopiesInitHolds == Init => CopiesIInv
<1> SUFFICES ASSUME Init PROVE CopiesIInv
    OBVIOUS
<1>1. ASSUME NEW e \in Events PROVE Forwarding(e) = {} /\ Unmarked(e) = {}
      BY DEF Init, Forwarding, Unmarked
<1>2. Cardinality({}) = 0 /\ Cardinality(Publishers) \in Nat
      BY FS_EmptySet, OutboxAssumption, FS_CardinalityType
<1>3. CopiesAreAccounted
  <2>1. \A p \in Publishers : batch[p] \cap sent[p] = {}
        BY DEF Init
  <2>2. ASSUME NEW e \in Events PROVE copies[e] = 0 /\ Excused(e) = 0
        BY DEF Init, Excused
  <2>3. ASSUME NEW e \in Events
        PROVE  /\ copies[e] + Cardinality(Forwarding(e)) <= Cardinality(Publishers) + Excused(e)
               /\ copies[e] <= Cardinality(Unmarked(e)) + Excused(e)
    <3>1. Cardinality(Forwarding(e)) = 0 /\ Cardinality(Unmarked(e)) = 0
          BY <1>1, <1>2
    <3> QED BY <1>2, <2>2, <3>1
  <2> QED BY <2>1, <2>3 DEF CopiesAreAccounted
<1> QED BY <1>3, InitHolds DEF CopiesIInv, IInv

\* A step that leaves the rows of the publishers alone.
LEMMA RowsAreKept ==
    ASSUME UNCHANGED <<batch, sent>>
    PROVE  \A e \in Events : Forwarding(e)' = Forwarding(e) /\ Unmarked(e)' = Unmarked(e)
BY DEF Forwarding, Unmarked

LEMMA FetchKeepsCopies == ASSUME CopiesIInv, NEW p \in Publishers, Fetch(p) PROVE CopiesAreAccounted'
<1>1. PICK rows \in SUBSET Eligible : batch' = [batch EXCEPT ![p] = rows]
      BY DEF Fetch
<1>2. /\ batch \in [Publishers -> SUBSET Events] /\ sent \in [Publishers -> SUBSET Events]
      /\ copies \in [Events -> Nat] /\ rows \subseteq Events \ published
      /\ batch[p] = {} /\ sent[p] = {}
      BY DEF Fetch, Idle, Eligible, Committed, CopiesIInv, TypeOK
<1>3. /\ UNCHANGED <<published, copies, sent>>
      /\ \A e \in Events : Excused(e)' = Excused(e) /\ Excused(e) \in Nat
      BY ExcusedType DEF Fetch, CopiesIInv, Excused
<1>4. \A q \in Publishers : batch'[q] = IF q = p THEN rows ELSE batch[q]
      BY <1>1, <1>2
<1>5. \A q \in Publishers : batch'[q] \cap sent'[q] = {}
      BY <1>2, <1>3, <1>4 DEF CopiesIInv, CopiesAreAccounted
<1>6. ASSUME NEW e \in Events
      PROVE  /\ copies[e] + Cardinality(Forwarding(e)') <= Cardinality(Publishers) + Excused(e)
             /\ Unmarked(e)' = Unmarked(e)
  <2>1. Unmarked(e)' = Unmarked(e)
        BY <1>3 DEF Unmarked
  <2>2. CASE e \notin rows
    <3>1. Forwarding(e)' = Forwarding(e)
          BY <1>2, <1>4, <2>2 DEF Forwarding
    <3> QED BY <2>1, <3>1 DEF CopiesIInv, CopiesAreAccounted
  <2>3. CASE e \in rows
    <3>1. copies[e] <= Cardinality(Unmarked(e)) + Excused(e)
          BY <1>2, <2>3 DEF CopiesIInv, CopiesAreAccounted
    <3>2. Forwarding(e)' \in SUBSET Publishers /\ Unmarked(e) \in SUBSET Publishers
          BY DEF Forwarding, Unmarked
    <3>3. Forwarding(e)' \cap Unmarked(e) = {}
          BY <1>3, <1>5 DEF Forwarding, Unmarked
    <3>4. /\ Cardinality(Forwarding(e)') \in Nat /\ Cardinality(Unmarked(e)) \in Nat
          /\ Cardinality(Publishers) \in Nat
          /\ Cardinality(Forwarding(e)') + Cardinality(Unmarked(e)) <= Cardinality(Publishers)
          BY <3>2, <3>3, PublishersAreFinite
    <3>5. copies[e] \in Nat
          BY <1>2
    <3> QED BY <1>2, <1>3, <2>1, <3>1, <3>4, <3>5
  <2> QED BY <2>2, <2>3
<1>7. \A e \in Events : e \notin published => copies[e] <= Cardinality(Unmarked(e)) + Excused(e)
      BY DEF CopiesIInv, CopiesAreAccounted
<1> QED BY <1>3, <1>5, <1>6, <1>7 DEF CopiesAreAccounted

LEMMA PublishKeepsCopies == ASSUME CopiesIInv, NEW p \in Publishers, Publish(p) PROVE CopiesAreAccounted'
<1>1. PICK d \in Events : /\ d \in batch[p]
                          /\ copies' = [copies EXCEPT ![d] = @ + 1]
                          /\ batch' = [batch EXCEPT ![p] = @ \ {d}]
                          /\ sent' = [sent EXCEPT ![p] = @ \cup {d}]
      BY DEF Publish, IsNext, Delivers
<1>2. /\ batch \in [Publishers -> SUBSET Events] /\ sent \in [Publishers -> SUBSET Events]
      /\ copies \in [Events -> Nat] /\ UNCHANGED published
      /\ \A e \in Events : Excused(e)' = Excused(e) /\ Excused(e) \in Nat
      BY ExcusedType DEF Publish, CopiesIInv, TypeOK, Excused
<1>3. /\ \A q \in Publishers : batch'[q] = IF q = p THEN batch[p] \ {d} ELSE batch[q]
      /\ \A q \in Publishers : sent'[q] = IF q = p THEN sent[p] \cup {d} ELSE sent[q]
      /\ \A e \in Events : copies'[e] = IF e = d THEN copies[d] + 1 ELSE copies[e]
      BY <1>1, <1>2
<1>4. \A q \in Publishers : batch[q] \cap sent[q] = {}
      BY DEF CopiesIInv, CopiesAreAccounted
<1>5. \A q \in Publishers : batch'[q] \cap sent'[q] = {}
      BY <1>3, <1>4
<1>6. ASSUME NEW e \in Events
      PROVE  /\ copies'[e] + Cardinality(Forwarding(e)') <= Cardinality(Publishers) + Excused(e)
             /\ e \notin published => copies'[e] <= Cardinality(Unmarked(e)') + Excused(e)
  <2>1. /\ copies[e] + Cardinality(Forwarding(e)) <= Cardinality(Publishers) + Excused(e)
        /\ e \notin published => copies[e] <= Cardinality(Unmarked(e)) + Excused(e)
        BY DEF CopiesIInv, CopiesAreAccounted
  <2>2. CASE e # d
    <3>1. Forwarding(e)' = Forwarding(e) /\ Unmarked(e)' = Unmarked(e)
          BY <1>3, <2>2 DEF Forwarding, Unmarked
    <3> QED BY <1>3, <2>1, <2>2, <3>1
  <2>3. CASE e = d
    <3>1. Forwarding(e)' = Forwarding(e) \ {p} /\ Unmarked(e)' = Unmarked(e) \cup {p}
          BY <1>3, <2>3 DEF Forwarding, Unmarked
    <3>2. p \in Forwarding(e) /\ p \notin Unmarked(e)
          BY <1>1, <1>4, <2>3 DEF Forwarding, Unmarked
    <3>3. /\ Forwarding(e) \in SUBSET Publishers /\ Unmarked(e) \in SUBSET Publishers
          /\ {} \in SUBSET Publishers
          BY DEF Forwarding, Unmarked
    <3>4. /\ Cardinality(Forwarding(e)') = Cardinality(Forwarding(e)) - 1
          /\ Cardinality(Unmarked(e)') = Cardinality(Unmarked(e)) + 1
          BY <3>1, <3>2, <3>3, SetWithout, SetWith
    <3>5. /\ Cardinality(Forwarding(e)) \in Nat /\ Cardinality(Unmarked(e)) \in Nat
          /\ Cardinality(Publishers) \in Nat /\ copies[e] \in Nat
          BY <1>2, <3>3, PublishersAreFinite
    <3> QED BY <1>2, <1>3, <2>1, <2>3, <3>4, <3>5
  <2> QED BY <2>2, <2>3
<1> QED BY <1>2, <1>5, <1>6 DEF CopiesAreAccounted

\* A step that adds no copy without an attempt or a fault of its own.
LEMMA CopiesAreExcused ==
    ASSUME CopiesIInv, UNCHANGED <<published, sent>>,
           \A q \in Publishers : batch'[q] \subseteq batch[q],
           \A e \in Events : /\ copies'[e] \in Nat /\ Excused(e)' \in Nat
                             /\ copies'[e] + Excused(e) <= copies[e] + Excused(e)'
    PROVE  CopiesAreAccounted'
<1>1. \A q \in Publishers : batch'[q] \cap sent'[q] = {}
      BY DEF CopiesIInv, CopiesAreAccounted
<1>2. ASSUME NEW e \in Events
      PROVE  /\ copies'[e] + Cardinality(Forwarding(e)') <= Cardinality(Publishers) + Excused(e)'
             /\ e \notin published' => copies'[e] <= Cardinality(Unmarked(e)') + Excused(e)'
  <2>1. /\ copies[e] + Cardinality(Forwarding(e)) <= Cardinality(Publishers) + Excused(e)
        /\ e \notin published => copies[e] <= Cardinality(Unmarked(e)) + Excused(e)
        BY DEF CopiesIInv, CopiesAreAccounted
  <2>2. Unmarked(e)' = Unmarked(e)
        BY DEF Unmarked
  <2>3. /\ Forwarding(e) \in SUBSET Publishers /\ Forwarding(e)' \in SUBSET Forwarding(e)
        /\ Unmarked(e) \in SUBSET Publishers
        /\ Publishers \in SUBSET Publishers
        BY DEF Forwarding, Unmarked
  <2>4. /\ Cardinality(Forwarding(e)) \in Nat /\ Cardinality(Forwarding(e)') \in Nat
        /\ Cardinality(Forwarding(e)') <= Cardinality(Forwarding(e))
        /\ Cardinality(Unmarked(e)) \in Nat /\ Cardinality(Publishers) \in Nat
        BY <2>3, SmallerSet
  <2>5. copies[e] \in Nat /\ Excused(e) \in Nat
        BY ExcusedType DEF CopiesIInv, TypeOK
  <2> QED BY <2>1, <2>2, <2>4, <2>5
<1> QED BY <1>1, <1>2 DEF CopiesAreAccounted

\* A step that takes rows from one publisher, and at most one of them per event.
LEMMA RowsAreDropped ==
    ASSUME CopiesIInv, NEW p \in Publishers, UNCHANGED copies,
           \A e \in Events : Excused(e)' \in Nat /\ Excused(e)' >= Excused(e),
           published \subseteq published',
           \A q \in Publishers : batch'[q] \subseteq batch[q],
           \A q \in Publishers : sent'[q] \subseteq sent[q],
           \A q \in Publishers : q # p => sent'[q] = sent[q],
           \A e \in sent[p] : e \in sent'[p] \/ e \in published' \/ Excused(e)' > Excused(e)
    PROVE  CopiesAreAccounted'
<1>1. copies \in [Events -> Nat] /\ \A e \in Events : Excused(e) \in Nat
      BY ExcusedType DEF CopiesIInv, TypeOK
<1>2. \A q \in Publishers : batch'[q] \cap sent'[q] = {}
      BY DEF CopiesIInv, CopiesAreAccounted
<1>3. ASSUME NEW e \in Events
      PROVE  /\ copies[e] + Cardinality(Forwarding(e)') <= Cardinality(Publishers) + Excused(e)'
             /\ e \notin published' => copies[e] <= Cardinality(Unmarked(e)') + Excused(e)'
  <2>1. /\ copies[e] + Cardinality(Forwarding(e)) <= Cardinality(Publishers) + Excused(e)
        /\ e \notin published => copies[e] <= Cardinality(Unmarked(e)) + Excused(e)
        BY DEF CopiesIInv, CopiesAreAccounted
  <2>2. /\ Forwarding(e) \in SUBSET Publishers /\ Forwarding(e)' \in SUBSET Forwarding(e)
        /\ Unmarked(e) \in SUBSET Publishers /\ Unmarked(e)' \in SUBSET Unmarked(e)
        /\ Publishers \in SUBSET Publishers
        BY DEF Forwarding, Unmarked
  <2>3. /\ Cardinality(Forwarding(e)) \in Nat /\ Cardinality(Forwarding(e)') \in Nat
        /\ Cardinality(Forwarding(e)') <= Cardinality(Forwarding(e))
        /\ Cardinality(Unmarked(e)) \in Nat /\ Cardinality(Unmarked(e)') \in Nat
        /\ Cardinality(Publishers) \in Nat /\ copies[e] \in Nat
        BY <1>1, <2>2, SmallerSet
  <2>4. copies[e] + Cardinality(Forwarding(e)') <= Cardinality(Publishers) + Excused(e)'
        BY <1>1, <2>1, <2>3
  <2>5. ASSUME e \notin published' PROVE copies[e] <= Cardinality(Unmarked(e)') + Excused(e)'
    <3>1. CASE Unmarked(e)' = Unmarked(e)
          BY <1>1, <2>1, <2>3, <2>5, <3>1
    <3>2. CASE Unmarked(e)' # Unmarked(e)
      <4>1. e \in sent[p] /\ e \notin sent'[p] /\ Unmarked(e)' = Unmarked(e) \ {p}
            BY <2>2, <3>2 DEF Unmarked
      <4>2. Excused(e)' > Excused(e) /\ p \in Unmarked(e)
            BY <2>5, <4>1 DEF Unmarked
      <4>3. Cardinality(Unmarked(e)') = Cardinality(Unmarked(e)) - 1
            BY <2>2, <4>1, <4>2, SetWithout
      <4> QED BY <1>1, <2>1, <2>3, <2>5, <4>2, <4>3
    <3> QED BY <3>1, <3>2
  <2> QED BY <2>4, <2>5
<1> QED BY <1>2, <1>3 DEF CopiesAreAccounted

LEMMA StepKeepsCopies == CopiesIInv /\ IInv /\ [Next]_vars => CopiesIInv'
<1> SUFFICES ASSUME CopiesIInv, IInv, [Next]_vars PROVE CopiesAreAccounted'
    BY StepKeepsIInv DEF CopiesIInv, IInv
<1>t. /\ batch \in [Publishers -> SUBSET Events] /\ sent \in [Publishers -> SUBSET Events]
      /\ copies \in [Events -> Nat] /\ attempts \in [Events -> Nat] /\ faults \in Nat
      BY OutboxAssumption DEF IInv, TypeOK
<1>e. \A e \in Events : Excused(e) \in Nat /\ Excused(e)' \in Nat
      BY StepKeepsIInv, ExcusedType, OutboxAssumption DEF IInv, TypeOK, Excused
<1>f. Fault => faults' = faults + 1
      BY DEF Fault
<1>1. CASE \/ \E e \in Events : Insert(e) \/ Ends(e)
           \/ UNCHANGED vars
  <2>1. UNCHANGED <<published, copies, batch, sent, attempts, faults>>
        BY <1>1 DEF Insert, Ends, vars
  <2> QED BY <2>1, RowsAreKept DEF CopiesIInv, CopiesAreAccounted, Excused
<1>2. ASSUME NEW p \in Publishers, Fetch(p) PROVE CopiesAreAccounted'
      BY <1>2, FetchKeepsCopies
<1>3. ASSUME NEW p \in Publishers, Publish(p) PROVE CopiesAreAccounted'
      BY <1>3, PublishKeepsCopies
<1>4. ASSUME NEW p \in Publishers, Refused(p) PROVE CopiesAreAccounted'
  <2>1. PICK d \in Events :
            /\ copies' = [copies EXCEPT ![d] = @ + 1] \/ UNCHANGED copies
            /\ batch' = [batch EXCEPT ![p] = @ \ {d}]
            /\ LET counted == [attempts EXCEPT ![d] = @ + 1] IN
               \/ attempts' = counted /\ UNCHANGED faults
               \/ attempts' \in {attempts, counted} /\ Fault
        BY <1>4 DEF Refused, Delivers
  <2>2. UNCHANGED <<published, sent>> /\ \A q \in Publishers : batch'[q] \subseteq batch[q]
        BY <1>4, <1>t, <2>1 DEF Refused
  <2>3. ASSUME NEW e \in Events
        PROVE  copies'[e] \in Nat /\ copies'[e] + Excused(e) <= copies[e] + Excused(e)'
    <3>1. /\ copies'[e] = copies[e] \/ (e = d /\ copies'[e] = copies[e] + 1)
          /\ attempts'[e] = attempts[e] \/ attempts'[e] = attempts[e] + 1
          /\ faults' = faults \/ faults' = faults + 1
          /\ e = d => attempts'[e] = attempts[e] + 1 \/ faults' = faults + 1
          BY <1>t, <1>f, <2>1
    <3>2. copies[e] \in Nat /\ attempts[e] \in Nat
          BY <1>t
    <3> QED BY <1>t, <3>1, <3>2 DEF Excused
  <2> QED BY <1>e, <2>2, <2>3, CopiesAreExcused
<1>5. ASSUME NEW p \in Publishers, Resent(p) PROVE CopiesAreAccounted'
  <2>1. PICK d \in Events : copies' = [copies EXCEPT ![d] = @ + 1]
        BY <1>5 DEF Resent, Delivers
  <2>2. UNCHANGED <<published, sent, batch, attempts>> /\ faults' = faults + 1
        BY <1>5, <1>f DEF Resent
  <2>3. ASSUME NEW e \in Events
        PROVE  copies'[e] \in Nat /\ copies'[e] + Excused(e) <= copies[e] + Excused(e)'
    <3>1. copies'[e] = copies[e] \/ copies'[e] = copies[e] + 1
          BY <1>t, <2>1
    <3>2. copies[e] \in Nat /\ attempts[e] \in Nat
          BY <1>t
    <3> QED BY <1>t, <2>2, <3>1, <3>2 DEF Excused
  <2> QED BY <1>e, <2>2, <2>3, CopiesAreExcused
<1>6. ASSUME NEW p \in Publishers, MarkPublished(p) PROVE CopiesAreAccounted'
  <2>1. /\ UNCHANGED <<copies, batch, attempts, faults>> /\ published' = published \cup sent[p]
        /\ \A q \in Publishers : sent'[q] = IF q = p THEN {} ELSE sent[q]
        BY <1>6, <1>t DEF MarkPublished
  <2>2. \A e \in Events : Excused(e)' = Excused(e)
        BY <2>1 DEF Excused
  <2> QED BY <1>e, <2>1, <2>2, RowsAreDropped
<1>7. ASSUME NEW p \in Publishers, Interrupted(p) PROVE CopiesAreAccounted'
  <2>1. /\ UNCHANGED <<copies, attempts>> /\ published \subseteq published'
        /\ faults' = faults + 1
        /\ \A q \in Publishers : batch'[q] = IF q = p THEN {} ELSE batch[q]
        /\ \A q \in Publishers : sent'[q] = IF q = p THEN {} ELSE sent[q]
        BY <1>7, <1>t, <1>f DEF Interrupted
  <2>2. \A e \in Events : Excused(e)' > Excused(e) /\ Excused(e)' >= Excused(e)
        BY <1>t, <2>1 DEF Excused
  <2>3. \A e \in sent[p] : Excused(e)' > Excused(e)
        BY <1>t, <2>2
  <2>4. /\ \A q \in Publishers : batch'[q] \subseteq batch[q] /\ sent'[q] \subseteq sent[q]
        /\ \A q \in Publishers : q # p => sent'[q] = sent[q]
        BY <2>1
  <2> QED BY <1>e, <2>1, <2>2, <2>3, <2>4, RowsAreDropped
<1> QED BY <1>1, <1>2, <1>3, <1>4, <1>5, <1>6, <1>7 DEF Next, TickStep

\* The copies of an event stay accounted for, by the publishers that hold its row, by the
\* attempts counted against it and by the faults.
THEOREM CopiesInvariantHolds == Spec => []CopiesIInv
BY CopiesInitHolds, StepKeepsCopies, InvariantHolds, PTL DEF Spec

\* However many publishers race on the unlocked rows, the bus has an event at most once
\* for each of them, once more for each attempt counted against its row, and once more
\* for each fault: batches never overlap what their own publisher has forwarded, a marked
\* row is fetched no more, and an error that follows a delivery is itself counted.
THEOREM DuplicatesAreFew == Spec => []FewDuplicates
<1>1. CopiesIInv => FewDuplicates
  <2> SUFFICES ASSUME CopiesIInv, NEW e \in Events
               PROVE  copies[e] <= Cardinality(Publishers) + Excused(e)
      BY OutboxAssumption, FS_CardinalityType DEF FewDuplicates, Excused, CopiesIInv, TypeOK
  <2>1. /\ Forwarding(e) \in SUBSET Publishers /\ {} \in SUBSET Publishers
        BY DEF Forwarding
  <2>2. Cardinality(Forwarding(e)) \in Nat /\ Cardinality(Publishers) \in Nat
        BY <2>1, PublishersAreFinite
  <2>3. copies[e] \in Nat /\ Excused(e) \in Nat
        BY ExcusedType DEF CopiesIInv, TypeOK
  <2>4. copies[e] + Cardinality(Forwarding(e)) <= Cardinality(Publishers) + Excused(e)
        BY DEF CopiesIInv, CopiesAreAccounted
  <2> QED BY <2>2, <2>3, <2>4
<1> QED BY <1>1, CopiesInvariantHolds, PTL
=============================================================================

------------------------------- MODULE Outbox -------------------------------
(***************************************************************************)
(* The transactional outbox: repositories insert a row in the transaction  *)
(* of the change it tells of, and publishers poll the table and forward    *)
(* each row to the event bus (outbox.Publisher.Tick).  Every gateway       *)
(* process runs a publisher, and no row is locked while it is forwarded.   *)
(*                                                                         *)
(* An event is its row's id.  The ids come from a sequence, so they are    *)
(* drawn in the order of the INSERTs, which is not that of the COMMITs;    *)
(* only the events of one lab are drawn in the order they commit, because  *)
(* the UPDATE before the INSERT holds the lab's row until the commit.      *)
(***************************************************************************)
EXTENDS Naturals, FiniteSets

CONSTANTS MaxEvents,     \* bound: rows ever inserted
          Subject,       \* 1 .. MaxEvents -> the lab or project an event is about
          Publishers,    \* gateway processes
          BatchSize,     \* rows of one Fetch (100 in the code)
          MaxAttempts,   \* errors after which a row is left alone (10 in the code)
          MaxRefusals,   \* bound: publishes that return an error
          MaxFaults      \* bound: shutdowns, deaths, failed updates of the table

Events == 1 .. MaxEvents

ASSUME OutboxAssumption ==
    /\ MaxEvents \in Nat
    /\ BatchSize \in Nat \ {0}
    /\ MaxAttempts \in Nat \ {0}
    /\ MaxRefusals \in Nat
    /\ MaxFaults \in Nat
    /\ DOMAIN Subject = Events
    /\ IsFiniteSet(Publishers)

VARIABLES tx,          \* Events -> the state of the transaction that inserts the row
          published,   \* rows whose published_at is set
          attempts,    \* Events -> the attempts column
          copies,      \* Events -> how often the bus delivered the event
          batch,       \* Publishers -> rows fetched and not forwarded yet
          sent,        \* Publishers -> rows forwarded and not marked yet
          refusals,
          faults

vars == <<tx, published, attempts, copies, batch, sent, refusals, faults>>

TypeOK ==
    /\ tx \in [Events -> {"none", "open", "committed", "aborted"}]
    /\ published \subseteq Events
    /\ attempts \in [Events -> Nat]
    /\ copies \in [Events -> Nat]
    /\ batch \in [Publishers -> SUBSET Events]
    /\ sent \in [Publishers -> SUBSET Events]
    /\ refusals \in 0 .. MaxRefusals
    /\ faults \in 0 .. MaxFaults

Init ==
    /\ tx = [e \in Events |-> "none"]
    /\ published = {}
    /\ attempts = [e \in Events |-> 0]
    /\ copies = [e \in Events |-> 0]
    /\ batch = [p \in Publishers |-> {}]
    /\ sent = [p \in Publishers |-> {}]
    /\ refusals = 0
    /\ faults = 0

Committed == {e \in Events : tx[e] = "committed"}
Delivered == {e \in Events : copies[e] > 0}

Idle(p) == batch[p] = {} /\ sent[p] = {}
Fault   == faults < MaxFaults /\ faults' = faults + 1

-----------------------------------------------------------------------------
\* InsertOutbox draws the next id, in a transaction that holds its subject's row.
Insert(e) ==
    /\ tx[e] = "none"
    /\ \A d \in Events : d < e => tx[d] # "none"
    /\ \A d \in Events : tx[d] = "open" => Subject[d] # Subject[e]
    /\ tx' = [tx EXCEPT ![e] = "open"]
    /\ UNCHANGED <<published, attempts, copies, batch, sent, refusals, faults>>

\* The transaction commits, or is rolled back and leaves a gap.
Ends(e) ==
    /\ tx[e] = "open"
    /\ \E end \in {"committed", "aborted"} : tx' = [tx EXCEPT ![e] = end]
    /\ UNCHANGED <<published, attempts, copies, batch, sent, refusals, faults>>

-----------------------------------------------------------------------------
\* The rows a Fetch selects from: unpublished, and not poison.
Eligible == {e \in Committed \ published : attempts[e] < MaxAttempts}

\* The lowest BatchSize ids of them, ORDER BY id LIMIT.
IsBatch(rows) ==
    /\ rows \subseteq Eligible
    /\ \A e \in rows, d \in Eligible \ rows : e < d
    /\ Cardinality(rows) <= BatchSize
    /\ rows = Eligible \/ Cardinality(rows) = BatchSize

\* Wrong: rows are fetched whose transaction has not committed.
WrongFetch(p) ==
    /\ Idle(p)
    /\ \E e \in Events : tx[e] = "open" /\ batch' = [batch EXCEPT ![p] = {e}]
    /\ UNCHANGED <<tx, published, attempts, copies, sent, refusals, faults>>

\* Tick fetches a batch.
Fetch(p) ==
    /\ Idle(p)
    /\ Eligible # {}
    /\ \E rows \in SUBSET Eligible : IsBatch(rows) /\ batch' = [batch EXCEPT ![p] = rows]
    /\ UNCHANGED <<tx, published, attempts, copies, sent, refusals, faults>>

\* Wrong: the rows of a batch are forwarded in any order.
WrongIsNext(p, e) == e \in batch[p]

\* The rows of a batch are forwarded in the order of their ids.
IsNext(p, e) == e \in batch[p] /\ \A d \in batch[p] : e <= d

\* The bus has one more copy of an event.
Delivers(e) == copies' = [copies EXCEPT ![e] = @ + 1]

\* Bus.Publish returns nil.
Publish(p) ==
    /\ \E e \in Events :
          /\ IsNext(p, e)
          /\ Delivers(e)
          /\ batch' = [batch EXCEPT ![p] = @ \ {e}]
          /\ sent' = [sent EXCEPT ![p] = @ \cup {e}]
    /\ UNCHANGED <<tx, published, attempts, refusals, faults>>

\* Wrong: a refused row counts as forwarded.
WrongRefused(p) ==
    /\ refusals < MaxRefusals
    /\ refusals' = refusals + 1
    /\ \E e \in Events :
          /\ IsNext(p, e)
          /\ batch' = [batch EXCEPT ![p] = @ \ {e}]
          /\ sent' = [sent EXCEPT ![p] = @ \cup {e}]
    /\ UNCHANGED <<tx, published, attempts, copies, faults>>

\* Bus.Publish returns an error, which may also be a reply that was lost after Redis
\* delivered the event: the attempt is counted, and the batch goes on. An error of
\* BumpAttempts is only logged, whether the row was updated or not.
Refused(p) ==
    /\ refusals < MaxRefusals
    /\ refusals' = refusals + 1
    /\ \E e \in Events :
          /\ IsNext(p, e)
          /\ Delivers(e) \/ UNCHANGED copies
          /\ batch' = [batch EXCEPT ![p] = @ \ {e}]
          /\ LET counted == [attempts EXCEPT ![e] = @ + 1] IN
             \/ attempts' = counted /\ UNCHANGED faults
             \/ attempts' \in {attempts, counted} /\ Fault
    /\ UNCHANGED <<tx, published, sent>>

\* Bus.Publish is still under way: the Redis client lost the reply to a PUBLISH that was
\* delivered, and sends it again.
Resent(p) ==
    /\ \E e \in Events : IsNext(p, e) /\ Delivers(e)
    /\ Fault
    /\ UNCHANGED <<tx, published, attempts, batch, sent, refusals>>

\* Wrong: the whole batch is marked, with the rows that were not forwarded yet.
WrongMarkPublished(p) ==
    /\ ~ Idle(p)
    /\ published' = published \cup batch[p] \cup sent[p]
    /\ sent' = [sent EXCEPT ![p] = {}]
    /\ batch' = [batch EXCEPT ![p] = {}]
    /\ UNCHANGED <<tx, attempts, copies, refusals, faults>>

\* Wrong: the marks are forgotten when the batch is through.
WrongForgetsMarks(p) ==
    /\ batch[p] = {} /\ sent[p] # {}
    /\ sent' = [sent EXCEPT ![p] = {}]
    /\ UNCHANGED <<tx, published, attempts, copies, batch, refusals, faults>>

\* MarkPublished of the rows that were forwarded, once the batch is through.
MarkPublished(p) ==
    /\ batch[p] = {} /\ sent[p] # {}
    /\ published' = published \cup sent[p]
    /\ sent' = [sent EXCEPT ![p] = {}]
    /\ UNCHANGED <<tx, attempts, copies, batch, refusals, faults>>

\* The process dies or shuts down during a tick, or MarkPublished fails: the rows it
\* forwarded stay unmarked, unless MarkPublished had taken effect before.
Interrupted(p) ==
    /\ ~ Idle(p)
    /\ Fault
    /\ \/ UNCHANGED published
       \/ batch[p] = {} /\ published' = published \cup sent[p]
    /\ batch' = [batch EXCEPT ![p] = {}]
    /\ sent' = [sent EXCEPT ![p] = {}]
    /\ UNCHANGED <<tx, attempts, copies, refusals>>

TickStep(p) == Fetch(p) \/ Publish(p) \/ MarkPublished(p)

Next ==
    \/ \E e \in Events : Insert(e) \/ Ends(e)
    \/ \E p \in Publishers : TickStep(p) \/ Refused(p) \/ Resent(p) \/ Interrupted(p)

Spec == Init /\ [][Next]_vars

\* The publishers keep ticking; transactions and faults may stop.
FairSpec == Spec /\ \A p \in Publishers : WF_vars(TickStep(p))

-----------------------------------------------------------------------------
\* No event is marked as published before the bus had it, whatever publisher stops at
\* whatever point and whichever of them marks the row (Tick marks after it forwards).
PublishedWasDelivered == published \subseteq Delivered

\* Until Redis refuses an event, the events of one lab are first delivered in the order
\* they were committed: publishers that race or stop half-way repeat events, but never
\* skip one (Fetch by id, against ids committed out of order).
FirstInOrder ==
    refusals = 0 =>
        \A d, e \in Events :
            d < e /\ Subject[d] = Subject[e] /\ d \in Committed /\ e \in Delivered =>
                d \in Delivered

\* The bus has an event once for each publisher, and again only for an attempt that was
\* counted against its row or for a fault: publishers that race on the unlocked rows, and
\* publishes that fail after they delivered, do not multiply it further.
FewDuplicates ==
    \A e \in Events : copies[e] <= Cardinality(Publishers) + attempts[e] + faults

\* At least once: every committed event is delivered in the end, and marked, unless Redis
\* refused it as often as the poison limit allows.
EveryEventIsPublished ==
    \A e \in Events :
        (e \in Committed) ~> (e \in Delivered \cap published \/ attempts[e] >= MaxAttempts)

\* The outbox delivers as EventDelivery says.
Delivery == INSTANCE EventDelivery WITH committed <- Committed, heard <- Delivered

ImplementsDelivery == Delivery!Spec

-----------------------------------------------------------------------------
(* Why PublishedWasDelivered, FirstInOrder and FewDuplicates hold.         *)

\* A publisher holds committed rows only, and marks only what it forwarded.
BatchesAreCommitted ==
    \A p \in Publishers : /\ batch[p] \subseteq Committed
                          /\ sent[p] \subseteq Delivered

\* The inductive invariant of the deliveries.
IInv ==
    /\ TypeOK
    /\ BatchesAreCommitted
    /\ Delivered \subseteq Committed
    /\ PublishedWasDelivered

\* Two events of one subject are never in doubt at once: the later row is inserted
\* after the transaction of the earlier one has ended.
SubjectsAreSerial ==
    \A d, e \in Events :
        d < e /\ Subject[d] = Subject[e] /\ tx[e] # "none" => tx[d] \in {"committed", "aborted"}

\* Until a refusal, a batch that holds a row holds the earlier rows of its subject, or
\* they are out.
BatchesSkipNothing ==
    refusals = 0 =>
        \A p \in Publishers : \A d, e \in Events :
            d < e /\ Subject[d] = Subject[e] /\ d \in Committed /\ e \in batch[p] =>
                d \in batch[p] \cup Delivered

\* The inductive invariant of the order.
OrderIInv ==
    /\ IInv
    /\ refusals = 0 => \A e \in Events : attempts[e] = 0
    /\ SubjectsAreSerial
    /\ BatchesSkipNothing
    /\ FirstInOrder

\* The publishers that hold the row of an event: still to forward, still to mark.
Forwarding(e) == {p \in Publishers : e \in batch[p]}
Unmarked(e)   == {p \in Publishers : e \in sent[p]}

\* Copies that a failed or a repeated publish may have made.
Excused(e) == attempts[e] + faults

\* Every copy beyond those is one that a publisher still has to mark, until the row is
\* marked; then what comes are the copies of the publishers that hold the row.
CopiesAreAccounted ==
    /\ \A p \in Publishers : batch[p] \cap sent[p] = {}
    /\ \A e \in Events :
          /\ copies[e] + Cardinality(Forwarding(e)) <= Cardinality(Publishers) + Excused(e)
          /\ e \notin published => copies[e] <= Cardinality(Unmarked(e)) + Excused(e)

\* The inductive invariant of the copies.
CopiesIInv == TypeOK /\ CopiesAreAccounted
=============================================================================

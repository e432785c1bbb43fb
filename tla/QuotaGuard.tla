----------------------------- MODULE QuotaGuard -----------------------------
(***************************************************************************)
(* The capacity guard: CreateLab decides on a snapshot of the cluster that *)
(* Postgres caches, and refuses when the snapshot is old, after asking the *)
(* worker for a new one (quotarefresh).  Between the measurement and the   *)
(* server that a decision admits lie the write of the cache, its age, the  *)
(* transaction of the create and the deploy, while other creates decide.   *)
(*                                                                         *)
(* The cluster is filled by the servers of labs and by other tenants.  A   *)
(* lab takes more than the guard reckons with: Footprint is a fixed number *)
(* of the code, Takes is what the servers of the deploy's topology need.   *)
(* Time is counted in steps of Tick.                                       *)
(***************************************************************************)
EXTENDS Integers, FiniteSets

CONSTANTS Creates,       \* requests for a lab
          Workers,       \* handlers of the worker processes
          Total,         \* Resources -> what the hypervisors have
          Footprint,     \* Resources -> what resourceRequestFor says of a lab
          Takes,         \* Resources -> what the servers of a lab take together
          Foreign,       \* Resources -> what a server of another tenant takes
          CinderLimits,  \* answers of Cinder that have a limit, as [used, total]
          ThresholdPct,  \* CLG_QUOTA_THRESHOLD_PCT, or 90
          MaxAge,        \* twice the time to live of the cache
          NoSnapshot,    \* the empty cache
          MaxTime,       \* bound: ticks of the clock
          MaxOthers,     \* bound: servers of other tenants
          MaxFaults      \* bound: refused calls and deaths, fewer than the retries of a task

Resources == {"vcpus", "ram", "disk"}
Compute   == {"vcpus", "ram"}

ASSUME QuotaAssumption ==
    /\ {Total, Footprint, Takes, Foreign} \subseteq [Resources -> Nat]
    /\ CinderLimits \subseteq [used : Nat, total : Nat]
    /\ IsFiniteSet(Creates)
    /\ {ThresholdPct, MaxAge, MaxTime, MaxOthers, MaxFaults} \subseteq Nat

VARIABLES now,
          others,      \* servers of other tenants
          create,      \* Creates -> how far the request is
          decided,     \* Creates -> the snapshot it was decided on, and when
          cache,       \* the row of quota_cache
          refreshes,   \* refresh tasks that wait in the queue
          exec,        \* Workers -> the snapshot fetched and not written yet
          slowest,     \* the longest time from a measurement to its write (history)
          faults

vars == <<now, others, create, decided, cache, refreshes, exec, slowest, faults>>
cacheVars == <<cache, refreshes, exec, slowest>>

Times    == 0 .. MaxTime
Idle     == [pc |-> "idle", snap |-> NoSnapshot]
Fetching == [pc |-> "fetch", snap |-> NoSnapshot]

\* The labs all of whose servers run, and those that may have some.
Standing == {c \in Creates : create[c] = "standing"}
Present  == {c \in Creates : create[c] \in {"admitted", "standing", "leaving"}}

-----------------------------------------------------------------------------
(* The guard.                                                              *)

\* UtilizationPct of a capacity is above the threshold. A total of 0 counts as 0 %.
Exceeds(c) == c.total # 0 /\ c.used * 100 > ThresholdPct * c.total

\* PredictAfter: the snapshot with one more lab.
PredictAfter(s) == [r \in Resources |-> [s[r] EXCEPT !.used = @ + Footprint[r]]]

\* Wrong: the lab that asks is not counted.
WrongAllowed(s) == \A r \in Resources : ~ Exceeds(s[r])

\* Evaluate: no resource is predicted above the threshold (MaxUtilizationPct).
Allowed(s) == \A r \in Resources : ~ Exceeds(PredictAfter(s)[r])

-----------------------------------------------------------------------------
(* The cluster.                                                            *)

\* What a number of labs and the other tenants take of a resource.
Taken(r, labs) == Takes[r] * labs + Foreign[r] * others

\* The hypervisor statistics. Of the labs whose servers are being booted or deleted, some
\* are counted with all their servers and some with none, which stand for the counts in
\* between.
Statistics == {[r \in Resources |-> [used |-> Taken(r, Cardinality(Standing \cup some)), total |-> Total[r]]] :
                  some \in SUBSET (Present \ Standing)}

\* What GetQuotaSnapshot may return: Cinder's limit, of one project, replaces the disk
\* of the hypervisors when Cinder answers and has a limit.
Snapshots == Statistics \cup {[s EXCEPT !["disk"] = l] : s \in Statistics, l \in CinderLimits}

\* A measurement, with the labs that it saw whole and the other tenants (history).
Measured(s) == [usage |-> s, at |-> now, seen |-> Standing, others |-> others]

Usages       == [Resources -> [used : Nat, total : Nat]]
Measurements == [usage : Usages, at : Times, seen : SUBSET Creates, others : 0 .. MaxOthers]
Decisions    == [snap : Measurements, time : Times]
CacheRows    == [snap : Measurements, fetchedAt : Times]
Writing      == [pc : {"write"}, snap : Measurements]

TypeOK ==
    /\ now \in Times /\ others \in 0 .. MaxOthers
    /\ create \in [Creates -> {"new", "stale", "allowed", "admitted", "standing", "leaving", "over"}]
    /\ decided \in [Creates -> {NoSnapshot} \cup Decisions]
    /\ cache \in {NoSnapshot} \cup CacheRows
    /\ refreshes \in Nat
    /\ exec \in [Workers -> {Idle, Fetching} \cup Writing]
    /\ slowest \in Times
    /\ faults \in 0 .. MaxFaults

\* The cache may hold what an earlier request had measured.
Init ==
    /\ now = 0 /\ others \in 0 .. MaxOthers
    /\ create = [c \in Creates |-> "new"]
    /\ decided = [c \in Creates |-> NoSnapshot]
    /\ cache \in {NoSnapshot} \cup {[snap |-> Measured(s), fetchedAt |-> now] : s \in Snapshots}
    /\ refreshes = 0
    /\ exec = [w \in Workers |-> Idle]
    /\ slowest = 0
    /\ faults = 0

Fault == faults < MaxFaults /\ faults' = faults + 1

Tick == /\ now < MaxTime /\ now' = now + 1
        /\ UNCHANGED <<others, create, decided, cacheVars, faults>>

OthersChange == /\ others' \in {others - 1, others + 1} \cap 0 .. MaxOthers
                /\ UNCHANGED <<now, create, decided, cacheVars, faults>>

-----------------------------------------------------------------------------
(* CreateLab.                                                              *)

\* The one row of quota_cache, if there is one.
GetQuotaCache == cache

\* Read: the age counts from the write of the row; an empty cache is older than any age.
Age == IF GetQuotaCache = NoSnapshot THEN MaxTime + MaxAge + 1 ELSE now - GetQuotaCache.fetchedAt

IsStale == Age > MaxAge

\* The read of the cache and the decision on what it returned. When Postgres refuses
\* the read, the request ends.
Decide(c) ==
    /\ create[c] = "new"
    /\ \/ /\ IsStale
          /\ create' = [create EXCEPT ![c] = "stale"]
          /\ UNCHANGED <<decided, faults>>
       \/ /\ ~ IsStale
          /\ decided' = [decided EXCEPT ![c] = [snap |-> cache.snap, time |-> now]]
          /\ create' = [create EXCEPT ![c] = IF Allowed(cache.snap.usage) THEN "allowed" ELSE "over"]
          /\ UNCHANGED faults
       \/ Fault /\ create' = [create EXCEPT ![c] = "over"] /\ UNCHANGED decided
    /\ UNCHANGED <<now, others, cacheVars>>

\* A stale snapshot: a refresh is enqueued, without a key, and the request is refused
\* whether or not that worked.
AskRefresh(c) ==
    /\ create[c] = "stale"
    /\ create' = [create EXCEPT ![c] = "over"]
    /\ \/ refreshes' = refreshes + 1 /\ UNCHANGED faults
       \/ Fault /\ UNCHANGED refreshes
    /\ UNCHANGED <<now, others, decided, cache, exec, slowest>>

\* The transaction: the lab is rented and its deploy is enqueued, or the pool is empty,
\* the student has a lab, or the transaction fails.
Commit(c) ==
    /\ create[c] = "allowed"
    /\ \E end \in {"admitted", "over"} : create' = [create EXCEPT ![c] = end]
    /\ UNCHANGED <<now, others, decided, cacheVars, faults>>

\* The deploy of the lab has booted all its servers, or has failed after some or none.
Built(c) ==
    /\ create[c] = "admitted"
    /\ \E end \in {"standing", "leaving", "over"} : create' = [create EXCEPT ![c] = end]
    /\ UNCHANGED <<now, others, decided, cacheVars, faults>>

\* The cleanup begins to delete the servers of the lab.
TearDown(c) ==
    /\ create[c] = "standing"
    /\ create' = [create EXCEPT ![c] = "leaving"]
    /\ UNCHANGED <<now, others, decided, cacheVars, faults>>

\* The last server of the lab is deleted; it may never be.
TornDown(c) ==
    /\ create[c] = "leaving"
    /\ create' = [create EXCEPT ![c] = "over"]
    /\ UNCHANGED <<now, others, decided, cacheVars, faults>>

-----------------------------------------------------------------------------
(* The refresh task. Tasks have no key: several may run at once.           *)

Dequeue(w) ==
    /\ exec[w] = Idle /\ refreshes > 0
    /\ refreshes' = refreshes - 1
    /\ exec' = [exec EXCEPT ![w] = Fetching]
    /\ UNCHANGED <<now, others, create, decided, cache, slowest, faults>>

\* GetQuotaSnapshot.
Fetch(w) ==
    /\ exec[w] = Fetching
    /\ \E s \in Snapshots : exec' = [exec EXCEPT ![w] = [pc |-> "write", snap |-> Measured(s)]]
    /\ UNCHANGED <<now, others, create, decided, cache, refreshes, slowest, faults>>

\* Wrong: the row is stamped, but keeps the snapshot it has.
WrongUpsert(w) == IF cache = NoSnapshot THEN [snap |-> exec[w].snap, fetchedAt |-> now]
                  ELSE [cache EXCEPT !.fetchedAt = now]

\* UpsertQuotaCache stamps the row with the time of the write; the time of the
\* measurement is in the snapshot, where nothing reads it.
Upsert(w) == [snap |-> exec[w].snap, fetchedAt |-> now]

\* Write, and the handler returns.
Write(w) ==
    /\ exec[w].pc = "write"
    /\ cache' = Upsert(w)
    /\ slowest' = IF now - exec[w].snap.at > slowest THEN now - exec[w].snap.at ELSE slowest
    /\ exec' = [exec EXCEPT ![w] = Idle]
    /\ UNCHANGED <<now, others, create, decided, refreshes, faults>>

\* Wrong: the handler logs the error and returns nil.
WrongRefreshFails(w) ==
    /\ exec[w] # Idle /\ Fault
    /\ exec' = [exec EXCEPT ![w] = Idle]
    /\ UNCHANGED <<now, others, create, decided, refreshes, cache, slowest>>

\* A call fails, or the worker dies: the task is retried.
RefreshFails(w) ==
    /\ exec[w] # Idle /\ Fault
    /\ refreshes' = refreshes + 1
    /\ exec' = [exec EXCEPT ![w] = Idle]
    /\ UNCHANGED <<now, others, create, decided, cache, slowest>>

RefreshStep(w) == Dequeue(w) \/ Fetch(w) \/ Write(w)

Next ==
    \/ Tick \/ OthersChange
    \/ \E c \in Creates : Decide(c) \/ AskRefresh(c) \/ Commit(c)
    \/ \E c \in Creates : Built(c) \/ TearDown(c) \/ TornDown(c)
    \/ \E w \in Workers : RefreshStep(w) \/ RefreshFails(w)

Spec == Init /\ [][Next]_vars

\* The worker processes keep working; nothing else has to happen.
FairSpec == Spec /\ \A w \in Workers : WF_vars(RefreshStep(w))

-----------------------------------------------------------------------------
\* Two labs were decided on measurements that did not see the other with all its servers,
\* or other tenants grew after a decision.
Blind ==
    \/ \E c \in Present : others > decided[c].snap.others
    \/ \E c, d \in Present : /\ c # d
                             /\ d \notin decided[c].snap.seen
                             /\ c \notin decided[d].snap.seen

\* A number of labs would take the cluster over the threshold, with an estimate besides.
Crowded(labs, estimate) ==
    \E r \in Compute : Exceeds([used |-> Taken(r, labs) + estimate[r], total |-> Total[r]])

\* Unless labs were decided blindly (create.go decides on a cached snapshot; nothing is
\* reserved meanwhile), all labs but one, and that one as small as the guard believes it,
\* stay within the threshold: the cluster is never over it by more than what one lab takes
\* beyond its estimate.
OvercommitIsBlind ==
    Present # {} /\ Crowded(Cardinality(Present) - 1, Footprint) => Blind

\* What the guard is for: a lab that was admitted with full sight does not take the cluster
\* over the threshold (package quota, Evaluate). It does, as it takes more than its
\* estimate (resourceRequestFor).
GuardKeepsThreshold ==
    Present # {} /\ Crowded(Cardinality(Present), [r \in Resources |-> 0]) => Blind

\* No request is decided on a measurement older than the maximal age and the time the
\* slowest refresh took to write what it had measured, in whatever order overlapping
\* refreshes write (the age of a snapshot counts from its write, not its measurement).
DecidedOnRecentMeasure ==
    \A c \in Creates :
        decided[c] # NoSnapshot => decided[c].time - decided[c].snap.at <= MaxAge + slowest

\* A refusal for an old snapshot whose refresh was enqueued is followed by a snapshot
\* measured after it, through failing calls and dying workers (quotarefresh.HandleTask
\* returns its errors, so that the task is retried).
StaleIsRefreshed ==
    \A t \in Times :
        (refreshes > 0 /\ now = t) ~> (cache # NoSnapshot /\ cache.snap.at >= t)

-----------------------------------------------------------------------------
(* Why OvercommitIsBlind and DecidedOnRecentMeasure hold.                  *)

\* The requests that were allowed and still have a lab, or may get one.
Building == {c \in Creates : create[c] = "allowed"} \cup Present

\* The states of a request whose servers once all stood.
Stood == {"standing", "leaving", "over"}

\* A measurement has counted at least the servers of the labs that it saw; a lab is seen
\* only after its servers stood.
Honest(m, states, time) ==
    /\ \A r \in Compute : /\ m.usage[r].total = Total[r]
                          /\ Takes[r] * Cardinality(m.seen) + Foreign[r] * m.others <= m.usage[r].used
    /\ \A c \in m.seen : states[c] \in Stood
    /\ m.at <= time

\* Snapshots stay what they were measured to be, in whatever order they are written.
SnapshotsAreHonest ==
    /\ cache # NoSnapshot => /\ Honest(cache.snap, create, now)
                             /\ cache.fetchedAt - cache.snap.at <= slowest
                             /\ cache.fetchedAt <= now
    /\ \A w \in Workers : exec[w].pc = "write" => Honest(exec[w].snap, create, now)

\* A request goes on only after a decision on such a snapshot allowed it.
DecisionsAreHonest ==
    \A c \in Building :
        /\ decided[c] \in Decisions
        /\ Honest(decided[c].snap, create, now)
        /\ Allowed(decided[c].snap.usage)

\* Of any requests that go on, one was decided last: no decision of the others saw it.
OneIsLast ==
    \A S \in SUBSET Building :
        S # {} => \E c \in S : \A d \in S \ {c} : c \notin decided[d].snap.seen

\* The inductive invariant.
IInv ==
    /\ TypeOK
    /\ SnapshotsAreHonest
    /\ DecisionsAreHonest
    /\ OneIsLast
    /\ DecidedOnRecentMeasure
=============================================================================

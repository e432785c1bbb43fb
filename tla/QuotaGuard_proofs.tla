-------------------------- MODULE QuotaGuard_proofs --------------------------
(***************************************************************************)
(* Proofs about module QuotaGuard, for every cluster, estimate and size   *)
(* of a lab, any number of requests, workers and ticks, every threshold    *)
(* and every age.                                                          *)
(***************************************************************************)
EXTENDS QuotaGuard, FiniteSetTheorems, TLAPS

-----------------------------------------------------------------------------
(* The arithmetic of the guard.                                            *)

\* More labs take more.
LEMMA MoreTakesMore ==
    ASSUME NEW f \in Nat, NEW m \in Nat, NEW n \in Nat, m <= n
    PROVE  f * m <= f * n /\ f * m \in Nat /\ f * n \in Nat
OBVIOUS

\* What takes less than what fits, fits as well.
LEMMA LessFits ==
    ASSUME NEW a \in Nat, NEW b \in Nat, NEW total \in Nat, a <= b,
           ~ Exceeds([used |-> b, total |-> total])
    PROVE  ~ Exceeds([used |-> a, total |-> total])
<1>1. PICK t \in Int : t = ThresholdPct * total
      BY QuotaAssumption
<1>2. a * 100 <= b * 100
      OBVIOUS
<1> QED BY <1>1, <1>2 DEF Exceeds

LEMMA SizesAreNat ==
    \A r \in Resources : Total[r] \in Nat /\ Footprint[r] \in Nat /\ Takes[r] \in Nat /\ Foreign[r] \in Nat
BY QuotaAssumption

\* A measurement stays honest while time goes on and servers that stood stand or are gone.
LEMMA HonestStays ==
    ASSUME NEW m \in Measurements, NEW s1, NEW s2, NEW t1 \in Nat, NEW t2 \in Nat,
           Honest(m, s1, t1), t1 <= t2,
           \A c \in Creates : s1[c] \in Stood => s2[c] \in Stood
    PROVE  Honest(m, s2, t2)
BY QuotaAssumption DEF Honest, Measurements, Times

-----------------------------------------------------------------------------
(* Where a step may go.                                                    *)

\* Time does not go back, and a request that is over, or whose server stood, stays so.
LEMMA StepsGoOn ==
    ASSUME TypeOK, [Next]_vars
    PROVE  /\ now' \in Times /\ now \in Nat /\ now' \in Nat /\ now <= now'
           /\ create' \in [Creates -> {"new", "stale", "allowed", "admitted", "standing", "leaving", "over"}]
           /\ \A c \in Creates :
                 create[c] \in Stood => create'[c] \in Stood
<1>1. now \in Times /\ create \in [Creates -> {"new", "stale", "allowed", "admitted", "standing", "leaving", "over"}]
      BY DEF TypeOK
<1>2. CASE Tick
      BY <1>1, <1>2, QuotaAssumption DEF Tick, Times
<1>3. ASSUME NEW c \in Creates, Decide(c) \/ AskRefresh(c) \/ Commit(c) \/ Built(c) \/ TearDown(c) \/ TornDown(c)
      PROVE  /\ now' = now
             /\ create' \in [Creates -> {"new", "stale", "allowed", "admitted", "standing", "leaving", "over"}]
             /\ \A d \in Creates : d # c => create'[d] = create[d]
             /\ create[c] \in Stood => create'[c] \in Stood
      BY <1>1, <1>3 DEF Decide, AskRefresh, Commit, Built, TearDown, TornDown, Stood
<1>4. CASE \/ OthersChange
           \/ \E w \in Workers : RefreshStep(w) \/ RefreshFails(w)
           \/ UNCHANGED vars
      BY <1>1, <1>4, QuotaAssumption
      DEF OthersChange, RefreshStep, Dequeue, Fetch, Write, RefreshFails, vars, Times
<1> QED BY <1>1, <1>2, <1>3, <1>4, QuotaAssumption DEF Next, Times

\* The statistics are numbers, whatever stands.
LEMMA StandingIsFinite ==
    ASSUME NEW S \in SUBSET Creates
    PROVE  IsFiniteSet(S) /\ Cardinality(S) \in Nat
BY QuotaAssumption, FS_Subset, FS_CardinalityType

\* What GetQuotaSnapshot returns is a snapshot, and reports of the compute resources at
\* least what the standing labs and the other tenants take.
LEMMA SnapshotsAre ==
    ASSUME others \in Nat, NEW s \in Snapshots
    PROVE  /\ s \in Usages
           /\ \A r \in Compute : /\ s[r].total = Total[r]
                                 /\ Takes[r] * Cardinality(Standing) + Foreign[r] * others <= s[r].used
<1>2. ASSUME NEW t \in Statistics
      PROVE  /\ t \in Usages
             /\ \A r \in Compute : /\ t[r].total = Total[r]
                                   /\ Takes[r] * Cardinality(Standing) + Foreign[r] * others <= t[r].used
  <2>1. PICK some \in SUBSET (Present \ Standing) :
            t = [r \in Resources |-> [used |-> Taken(r, Cardinality(Standing \cup some)), total |-> Total[r]]]
        BY <1>2 DEF Statistics
  <2>2. /\ Cardinality(Standing) \in Nat /\ Cardinality(Standing \cup some) \in Nat
        /\ Cardinality(Standing) <= Cardinality(Standing \cup some)
    <3>1. Standing \in SUBSET Creates /\ Standing \cup some \in SUBSET Creates
          BY DEF Standing, Present
    <3> QED BY <3>1, StandingIsFinite, FS_Subset
  <2>3. ASSUME NEW r \in Resources
        PROVE  /\ t[r] \in [used : Nat, total : Nat] /\ t[r].total = Total[r]
               /\ Takes[r] * Cardinality(Standing) + Foreign[r] * others <= t[r].used
    <3>1. PICK n \in Nat : n = Cardinality(Standing)
          BY <2>2
    <3>2. PICK k \in Nat : k = Cardinality(Standing \cup some)
          BY <2>2
    <3>3. Takes[r] * n <= Takes[r] * k /\ Takes[r] * n \in Nat /\ Takes[r] * k \in Nat
          BY <2>2, <3>1, <3>2, SizesAreNat, MoreTakesMore
    <3>4. Foreign[r] * others \in Nat
          BY SizesAreNat
    <3>5. t[r] = [used |-> Takes[r] * k + Foreign[r] * others, total |-> Total[r]]
          BY <2>1, <3>2 DEF Taken
    <3>6. /\ Takes[r] * k + Foreign[r] * others \in Nat
          /\ Takes[r] * n + Foreign[r] * others <= Takes[r] * k + Foreign[r] * others
          BY <3>3, <3>4
    <3> QED BY <3>1, <3>5, <3>6, SizesAreNat
  <2>4. t \in Usages
        BY <2>1, <2>3 DEF Usages
  <2> QED BY <2>3, <2>4 DEF Resources, Compute
<1>3. CASE s \in Statistics
      BY <1>2, <1>3
<1>4. ASSUME NEW t \in Statistics, NEW l \in CinderLimits, s = [t EXCEPT !["disk"] = l]
      PROVE  /\ s \in Usages
             /\ \A r \in Compute : s[r] = t[r]
  <2>1. l \in [used : Nat, total : Nat]
        BY QuotaAssumption
  <2> QED BY <1>2, <1>4, <2>1 DEF Usages, Resources, Compute
<1> QED BY <1>2, <1>3, <1>4 DEF Snapshots

\* What is measured is honest.
LEMMA MeasuredIsHonest ==
    ASSUME TypeOK, NEW s \in Snapshots
    PROVE  Measured(s) \in Measurements /\ Honest(Measured(s), create, now)
<1>1. /\ Measured(s).usage = s /\ Measured(s).at = now
      /\ Measured(s).seen = Standing /\ Measured(s).others = others
      BY DEF Measured
<1>o. others \in Nat
      BY QuotaAssumption DEF TypeOK
<1>2. Measured(s) \in Measurements
      BY <1>o, SnapshotsAre DEF Measured, Measurements, TypeOK, Standing
<1>3. now <= now
      BY QuotaAssumption DEF TypeOK, Times
<1> QED BY <1>1, <1>2, <1>3, <1>o, SnapshotsAre DEF Honest, Standing, Stood

-----------------------------------------------------------------------------
(* The type invariant.                                                     *)

LEMMA InitIsTyped == Init => TypeOK
<1> SUFFICES ASSUME Init PROVE TypeOK
    OBVIOUS
<1>1. Standing = {} /\ Present = {} /\ others \in 0 .. MaxOthers /\ now \in Times
      BY QuotaAssumption DEF Init, Standing, Present, Times
<1>2. TypeOK \/ cache \notin {NoSnapshot} \cup CacheRows
      BY <1>1, QuotaAssumption DEF Init, TypeOK, Times
<1>3. ASSUME NEW s \in Snapshots PROVE [snap |-> Measured(s), fetchedAt |-> now] \in CacheRows
  <2>1. s \in Usages
        BY <1>1, QuotaAssumption, SnapshotsAre
  <2> QED BY <1>1, <2>1 DEF CacheRows, Measurements, Measured
<1> QED BY <1>2, <1>3 DEF Init

LEMMA StepKeepsType == TypeOK /\ SnapshotsAreHonest /\ [Next]_vars => TypeOK'
<1> SUFFICES ASSUME TypeOK, SnapshotsAreHonest, [Next]_vars PROVE TypeOK'
    OBVIOUS
<1>g. /\ now' \in Times /\ now \in Times
      /\ create' \in [Creates -> {"new", "stale", "allowed", "admitted", "standing", "leaving", "over"}]
      BY StepsGoOn DEF TypeOK
<1>1. CASE Tick \/ OthersChange
      BY <1>1, <1>g DEF Tick, OthersChange, cacheVars, TypeOK
<1>f. ASSUME Fault PROVE faults' \in 0 .. MaxFaults
      BY <1>f, QuotaAssumption DEF Fault, TypeOK
<1>2. ASSUME NEW c \in Creates, Decide(c) PROVE TypeOK'
  <2>1. ~ IsStale => cache \in CacheRows
        BY QuotaAssumption DEF IsStale, Age, GetQuotaCache, TypeOK
  <2>2. ~ IsStale => [snap |-> cache.snap, time |-> now] \in Decisions
        BY <1>g, <2>1 DEF CacheRows, Decisions
  <2>3. decided' \in [Creates -> {NoSnapshot} \cup Decisions]
        BY <1>2, <2>2 DEF Decide, TypeOK
  <2>4. faults' \in 0 .. MaxFaults
        BY <1>2, <1>f DEF Decide, TypeOK
  <2> QED BY <1>2, <1>g, <2>3, <2>4 DEF Decide, cacheVars, TypeOK
<1>3. ASSUME NEW c \in Creates, AskRefresh(c) PROVE TypeOK'
  <2>1. faults' \in 0 .. MaxFaults
        BY <1>3, <1>f DEF AskRefresh, TypeOK
  <2> QED BY <1>3, <1>g, <2>1 DEF AskRefresh, TypeOK
<1>4. ASSUME NEW c \in Creates, Commit(c) \/ Built(c) \/ TearDown(c) \/ TornDown(c) PROVE TypeOK'
      BY <1>4, <1>g DEF Commit, Built, TearDown, TornDown, cacheVars, TypeOK
<1>5. ASSUME NEW w \in Workers, Dequeue(w) PROVE TypeOK'
      BY <1>5, <1>g DEF Dequeue, TypeOK
<1>6. ASSUME NEW w \in Workers, Fetch(w) PROVE TypeOK'
  <2>1. PICK s \in Snapshots : exec' = [exec EXCEPT ![w] = [pc |-> "write", snap |-> Measured(s)]]
        BY <1>6 DEF Fetch
  <2>2. Measured(s) \in Measurements
        BY MeasuredIsHonest
  <2>3. [pc |-> "write", snap |-> Measured(s)] \in Writing
        BY <2>2 DEF Writing
  <2> QED BY <1>6, <1>g, <2>1, <2>3 DEF Fetch, TypeOK
<1>7. ASSUME NEW w \in Workers, Write(w) PROVE TypeOK'
  <2>1. exec[w] \in Writing /\ exec[w].snap \in Measurements
        BY <1>7 DEF Write, TypeOK, Idle, Fetching, Writing
  <2>2. exec[w].snap.at <= now /\ exec[w].snap.at \in Times
        BY <1>7, <2>1 DEF Write, SnapshotsAreHonest, Honest, Measurements
  <2>3. slowest' \in Times
        BY <1>7, <1>g, <2>2, QuotaAssumption DEF Write, TypeOK, Times
  <2>4. cache' \in CacheRows
        BY <1>7, <1>g, <2>1 DEF Write, Upsert, CacheRows
  <2> QED BY <1>7, <1>g, <2>3, <2>4 DEF Write, TypeOK
<1>8. ASSUME NEW w \in Workers, RefreshFails(w) PROVE TypeOK'
  <2>1. faults' \in 0 .. MaxFaults
        BY <1>8, <1>f DEF RefreshFails
  <2> QED BY <1>8, <1>g, <2>1 DEF RefreshFails, TypeOK
<1>9. CASE UNCHANGED vars
      BY <1>9 DEF vars, TypeOK
<1> QED BY <1>1, <1>2, <1>3, <1>4, <1>5, <1>6, <1>7, <1>8, <1>9 DEF Next, RefreshStep

-----------------------------------------------------------------------------
(* The snapshots.                                                          *)

LEMMA StepKeepsSnapshots == TypeOK /\ SnapshotsAreHonest /\ [Next]_vars => SnapshotsAreHonest'
<1> SUFFICES ASSUME TypeOK, SnapshotsAreHonest, [Next]_vars PROVE SnapshotsAreHonest'
    OBVIOUS
<1>g. /\ now \in Nat /\ now' \in Nat /\ now <= now'
      /\ \A c \in Creates : create[c] \in Stood => create'[c] \in Stood
      BY StepsGoOn
<1>c. cache # NoSnapshot => /\ cache.snap \in Measurements /\ cache.fetchedAt \in Nat
                            /\ cache.snap.at \in Nat /\ slowest \in Nat
      BY QuotaAssumption DEF TypeOK, CacheRows, Measurements, Times
<1>e. ASSUME NEW w \in Workers, exec[w].pc = "write"
      PROVE  exec[w].snap \in Measurements /\ Honest(exec[w].snap, create', now')
  <2>1. exec[w].snap \in Measurements
        BY <1>e DEF TypeOK, Idle, Fetching, Writing
  <2>2. Honest(exec[w].snap, create, now)
        BY <1>e DEF SnapshotsAreHonest
  <2> QED BY <1>g, <2>1, <2>2, HonestStays
<1>k. ASSUME UNCHANGED <<cache, slowest>>
      PROVE  cache' # NoSnapshot => /\ Honest(cache'.snap, create', now')
                                    /\ cache'.fetchedAt - cache'.snap.at <= slowest'
                                    /\ cache'.fetchedAt <= now'
  <2> SUFFICES ASSUME cache # NoSnapshot
               PROVE  /\ Honest(cache.snap, create', now')
                      /\ cache.fetchedAt - cache.snap.at <= slowest
                      /\ cache.fetchedAt <= now'
      BY <1>k
  <2>1. Honest(cache.snap, create, now) /\ cache.fetchedAt - cache.snap.at <= slowest /\ cache.fetchedAt <= now
        BY DEF SnapshotsAreHonest
  <2> QED BY <1>c, <1>g, <2>1, HonestStays
<1>1. CASE \/ Tick \/ OthersChange
           \/ \E c \in Creates : Decide(c) \/ AskRefresh(c) \/ Commit(c) \/ Built(c) \/ TearDown(c) \/ TornDown(c)
           \/ UNCHANGED vars
  <2>1. UNCHANGED <<cache, slowest, exec>>
        BY <1>1 DEF Tick, OthersChange, Decide, AskRefresh, Commit, Built, TearDown, TornDown, vars, cacheVars
  <2> QED BY <1>e, <1>k, <2>1 DEF SnapshotsAreHonest
<1>2. ASSUME NEW w \in Workers, Dequeue(w) \/ RefreshFails(w) PROVE SnapshotsAreHonest'
  <2>1. UNCHANGED <<cache, slowest>> /\ (exec' = [exec EXCEPT ![w] = Fetching] \/ exec' = [exec EXCEPT ![w] = Idle])
        BY <1>2 DEF Dequeue, RefreshFails
  <2>2. \A v \in Workers : exec'[v].pc = "write" => exec'[v] = exec[v]
        BY <2>1 DEF TypeOK, Idle, Fetching
  <2> QED BY <1>e, <1>k, <2>1, <2>2 DEF SnapshotsAreHonest
<1>3. ASSUME NEW w \in Workers, Fetch(w) PROVE SnapshotsAreHonest'
  <2>1. PICK s \in Snapshots : exec' = [exec EXCEPT ![w] = [pc |-> "write", snap |-> Measured(s)]]
        BY <1>3 DEF Fetch
  <2>2. UNCHANGED <<cache, slowest, create, now>>
        BY <1>3 DEF Fetch
  <2>4. Honest(Measured(s), create, now)
        BY MeasuredIsHonest
  <2>5. \A v \in Workers : exec'[v] = IF v = w THEN [pc |-> "write", snap |-> Measured(s)] ELSE exec[v]
        BY <2>1 DEF TypeOK
  <2>6. \A v \in Workers : exec'[v].pc = "write" => Honest(exec'[v].snap, create', now')
        BY <1>e, <2>2, <2>4, <2>5
  <2> QED BY <1>k, <2>2, <2>6 DEF SnapshotsAreHonest
<1>4. ASSUME NEW w \in Workers, Write(w) PROVE SnapshotsAreHonest'
  <2>1. /\ exec[w].pc = "write" /\ cache' = [snap |-> exec[w].snap, fetchedAt |-> now]
        /\ exec' = [exec EXCEPT ![w] = Idle] /\ now' = now
        /\ slowest' = IF now - exec[w].snap.at > slowest THEN now - exec[w].snap.at ELSE slowest
        BY <1>4 DEF Write, Upsert
  <2>2. exec[w].snap.at \in Nat /\ slowest \in Nat
        BY <1>e, <2>1, QuotaAssumption DEF TypeOK, Measurements, Times
  <2>3. Honest(cache'.snap, create', now')
        BY <1>e, <2>1
  <2>4. cache'.fetchedAt - cache'.snap.at <= slowest' /\ cache'.fetchedAt <= now'
        BY <1>g, <2>1, <2>2
  <2>5. \A v \in Workers : exec'[v].pc = "write" => exec'[v] = exec[v]
        BY <2>1 DEF TypeOK, Idle
  <2> QED BY <1>e, <2>3, <2>4, <2>5 DEF SnapshotsAreHonest
<1> QED BY <1>1, <1>2, <1>3, <1>4 DEF Next, RefreshStep

-----------------------------------------------------------------------------
(* The decisions.                                                          *)

LEMMA StepKeepsDecisions == IInv /\ [Next]_vars => (DecisionsAreHonest /\ OneIsLast)'
<1> SUFFICES ASSUME IInv, [Next]_vars PROVE DecisionsAreHonest' /\ OneIsLast'
    OBVIOUS
<1>t. TypeOK /\ SnapshotsAreHonest /\ DecisionsAreHonest /\ OneIsLast
      BY DEF IInv
<1>g. /\ now \in Nat /\ now' \in Nat /\ now <= now'
      /\ \A c \in Creates : create[c] \in Stood => create'[c] \in Stood
      BY <1>t, StepsGoOn
<1>h. ASSUME NEW c \in Building
      PROVE  /\ decided[c] \in Decisions /\ Allowed(decided[c].snap.usage)
             /\ Honest(decided[c].snap, create', now')
  <2>1. /\ decided[c] \in Decisions /\ Allowed(decided[c].snap.usage)
        /\ Honest(decided[c].snap, create, now)
        BY <1>t DEF DecisionsAreHonest
  <2>2. decided[c].snap \in Measurements
        BY <2>1 DEF Decisions
  <2> QED BY <1>g, <2>1, <2>2, HonestStays
<1>k. ASSUME Building' \subseteq Building, \A c \in Building : decided'[c] = decided[c]
      PROVE  DecisionsAreHonest' /\ OneIsLast'
  <2>1. DecisionsAreHonest'
        BY <1>h, <1>k DEF DecisionsAreHonest
  <2>2. OneIsLast'
        BY <1>k, <1>t DEF OneIsLast
  <2> QED BY <2>1, <2>2
<1>1. CASE \/ Tick \/ OthersChange
           \/ \E w \in Workers : RefreshStep(w) \/ RefreshFails(w)
           \/ UNCHANGED vars
  <2>1. UNCHANGED <<create, decided>>
        BY <1>1 DEF Tick, OthersChange, RefreshStep, Dequeue, Fetch, Write, RefreshFails, vars
  <2>2. Building' = Building
        BY <2>1 DEF Building, Present
  <2> QED BY <1>k, <2>1, <2>2
<1>2. ASSUME NEW c \in Creates, AskRefresh(c) \/ Commit(c) \/ Built(c) \/ TearDown(c) \/ TornDown(c)
      PROVE  DecisionsAreHonest' /\ OneIsLast'
  <2>1. UNCHANGED decided
        BY <1>2 DEF AskRefresh, Commit, Built, TearDown, TornDown
  <2>2. Building' \subseteq Building
        BY <1>2, <1>t DEF AskRefresh, Commit, Built, TearDown, TornDown, Building, Present, TypeOK
  <2> QED BY <1>k, <2>1, <2>2
<1>3. ASSUME NEW c \in Creates, Decide(c) PROVE DecisionsAreHonest' /\ OneIsLast'
  <2>1. /\ create[c] = "new" /\ c \notin Building
        /\ create \in [Creates -> {"new", "stale", "allowed", "admitted", "standing", "leaving", "over"}]
        /\ decided \in [Creates -> {NoSnapshot} \cup Decisions]
        BY <1>3, <1>t DEF Decide, Building, Present, TypeOK
  <2>2. \A d \in Creates : d # c => create'[d] = create[d] /\ decided'[d] = decided[d]
        BY <1>3, <2>1 DEF Decide
  <2>3. CASE create'[c] # "allowed"
    <3>1. create'[c] \in {"stale", "over"}
          BY <1>3, <2>1, <2>3 DEF Decide
    <3>2. Building' \subseteq Building
          BY <2>2, <3>1 DEF Building, Present
    <3> QED BY <1>k, <2>1, <2>2, <3>2 DEF Building, Present
  <2>4. CASE create'[c] = "allowed"
    <3>1. /\ ~ IsStale /\ Allowed(cache.snap.usage) /\ now' = now
          /\ decided' = [decided EXCEPT ![c] = [snap |-> cache.snap, time |-> now]]
          BY <1>3, <2>1, <2>4 DEF Decide
    <3>2. cache # NoSnapshot /\ cache \in CacheRows
          BY <1>t, <3>1, QuotaAssumption DEF IsStale, Age, GetQuotaCache, TypeOK
    <3>3. decided'[c] \in Decisions /\ decided'[c].snap = cache.snap
          BY <1>t, <2>1, <3>1, <3>2 DEF CacheRows, Decisions, TypeOK
    <3>4. Honest(cache.snap, create, now)
          BY <1>t, <3>2 DEF SnapshotsAreHonest
    <3>5. Honest(cache.snap, create', now')
          BY <1>g, <3>2, <3>4, HonestStays DEF CacheRows
    <3>6. Building' = Building \cup {c}
          BY <2>2, <2>4 DEF Building, Present
    <3>7. DecisionsAreHonest'
          BY <1>h, <2>1, <2>2, <3>1, <3>3, <3>5, <3>6 DEF DecisionsAreHonest, Building, Present
    <3>8. ASSUME NEW S \in SUBSET Building', S # {}
          PROVE  \E d \in S : \A e \in S \ {d} : d \notin decided'[e].snap.seen
      <4>1. CASE c \in S
        <5>1. ASSUME NEW e \in S \ {c} PROVE c \notin decided'[e].snap.seen
          <6>1. e \in Building /\ decided'[e] = decided[e]
                BY <2>2, <3>6 DEF Building, Present
          <6>2. Honest(decided[e].snap, create, now)
                BY <1>t, <6>1 DEF DecisionsAreHonest
          <6> QED BY <2>1, <6>1, <6>2 DEF Honest, Stood
        <5> QED BY <4>1, <5>1
      <4>2. CASE c \notin S
        <5>1. S \in SUBSET Building
              BY <3>6, <4>2
        <5>2. PICK d \in S : \A e \in S \ {d} : d \notin decided[e].snap.seen
              BY <1>t, <3>8, <5>1 DEF OneIsLast
        <5>3. \A e \in S : decided'[e] = decided[e]
              BY <2>2, <4>2, <5>1 DEF Building, Present
        <5> QED BY <5>2, <5>3
      <4> QED BY <4>1, <4>2
    <3> QED BY <3>7, <3>8 DEF OneIsLast
  <2> QED BY <2>3, <2>4
<1> QED BY <1>1, <1>2, <1>3 DEF Next

LEMMA StepKeepsAge == IInv /\ [Next]_vars => DecidedOnRecentMeasure'
<1> SUFFICES ASSUME IInv, [Next]_vars, NEW c \in Creates, decided'[c] # NoSnapshot
             PROVE  decided'[c].time - decided'[c].snap.at <= MaxAge + slowest'
    BY DEF DecidedOnRecentMeasure
<1>t. TypeOK /\ SnapshotsAreHonest /\ DecidedOnRecentMeasure
      BY DEF IInv
<1>d. decided \in [Creates -> {NoSnapshot} \cup Decisions]
      BY <1>t DEF TypeOK
<1>s. slowest \in Nat /\ MaxAge \in Nat /\ now \in Nat
      BY <1>t, QuotaAssumption DEF TypeOK, Times
<1>k. ASSUME decided'[c] = decided[c], slowest' \in Int, slowest <= slowest'
      PROVE  decided'[c].time - decided'[c].snap.at <= MaxAge + slowest'
  <2>1. decided[c].time - decided[c].snap.at <= MaxAge + slowest
        BY <1>k, <1>t DEF DecidedOnRecentMeasure
  <2>2. decided[c].time \in Nat /\ decided[c].snap.at \in Nat
        BY <1>d, <1>k, QuotaAssumption DEF Decisions, Measurements, Times
  <2> QED BY <1>k, <1>s, <2>1, <2>2
<1>1. ASSUME NEW d \in Creates, Decide(d)
      PROVE  decided'[c].time - decided'[c].snap.at <= MaxAge + slowest'
  <2>1. slowest' = slowest
        BY <1>1 DEF Decide, cacheVars
  <2>2. CASE decided'[c] = decided[c]
        BY <1>k, <1>s, <2>1, <2>2
  <2>3. CASE decided'[c] # decided[c]
    <3>1. ~ IsStale /\ decided'[c] = [snap |-> cache.snap, time |-> now]
          BY <1>1, <1>d, <2>3 DEF Decide
    <3>2. cache # NoSnapshot /\ cache \in CacheRows /\ now - cache.fetchedAt <= MaxAge
          BY <1>t, <1>s, <3>1, QuotaAssumption DEF IsStale, Age, GetQuotaCache, TypeOK, CacheRows, Times
    <3>3. cache.fetchedAt - cache.snap.at <= slowest
          BY <1>t, <3>2 DEF SnapshotsAreHonest
    <3>4. cache.fetchedAt \in Nat /\ cache.snap.at \in Nat
          BY <3>2, QuotaAssumption DEF CacheRows, Measurements, Times
    <3>5. now - cache.snap.at <= MaxAge + slowest
          BY <1>s, <3>2, <3>3, <3>4
    <3> QED BY <2>1, <3>1, <3>5
  <2> QED BY <2>2, <2>3
<1>2. ASSUME NEW w \in Workers, Write(w)
      PROVE  decided'[c].time - decided'[c].snap.at <= MaxAge + slowest'
  <2>1. exec[w].snap.at \in Nat
        BY <1>2, <1>t, QuotaAssumption DEF Write, TypeOK, Idle, Fetching, Writing, Measurements, Times
  <2>2. slowest' \in Int /\ slowest <= slowest' /\ decided' = decided
        BY <1>2, <1>s, <2>1 DEF Write
  <2> QED BY <1>k, <2>2
<1>3. CASE \/ Tick \/ OthersChange
           \/ \E d \in Creates : AskRefresh(d) \/ Commit(d) \/ Built(d) \/ TearDown(d) \/ TornDown(d)
           \/ \E w \in Workers : Dequeue(w) \/ Fetch(w) \/ RefreshFails(w)
           \/ UNCHANGED vars
  <2>1. UNCHANGED <<decided, slowest>>
        BY <1>3 DEF Tick, OthersChange, AskRefresh, Commit, Built, TearDown, TornDown, Dequeue, Fetch, RefreshFails,
                    vars, cacheVars
  <2> QED BY <1>k, <1>s, <2>1
<1> QED BY <1>1, <1>2, <1>3 DEF Next, RefreshStep

-----------------------------------------------------------------------------
(* The invariant.                                                          *)

LEMMA InitHolds == Init => IInv
<1> SUFFICES ASSUME Init PROVE IInv
    OBVIOUS
<1>1. \A w \in Workers : exec[w].pc = "idle"
      BY DEF Init, Idle
<1>2. SnapshotsAreHonest
  <2>1. ASSUME cache # NoSnapshot
        PROVE  /\ Honest(cache.snap, create, now)
               /\ cache.fetchedAt - cache.snap.at <= slowest
               /\ cache.fetchedAt <= now
    <3>1. PICK s \in Snapshots : cache = [snap |-> Measured(s), fetchedAt |-> now]
          BY <2>1 DEF Init
    <3>2. Honest(cache.snap, create, now)
          BY <3>1, InitIsTyped, MeasuredIsHonest
    <3>3. cache.fetchedAt = 0 /\ cache.snap.at = 0 /\ slowest = 0 /\ now = 0
          BY <3>1 DEF Init, Measured
    <3> QED BY <3>2, <3>3
  <2> QED BY <1>1, <2>1 DEF SnapshotsAreHonest
<1>3. Building = {}
      BY DEF Init, Building, Present
<1>4. DecisionsAreHonest /\ OneIsLast
      BY <1>3 DEF DecisionsAreHonest, OneIsLast
<1>5. DecidedOnRecentMeasure
      BY DEF Init, DecidedOnRecentMeasure
<1> QED BY <1>2, <1>4, <1>5, InitIsTyped DEF IInv

LEMMA StepKeepsIInv == IInv /\ [Next]_vars => IInv'
BY StepKeepsType, StepKeepsSnapshots, StepKeepsDecisions, StepKeepsAge DEF IInv

\* The inductive invariant holds for any cluster, requests, tenants and refreshes.
THEOREM InvariantHolds == Spec => []IInv
BY InitHolds, StepKeepsIInv, PTL DEF Spec

\* No request is decided on a measurement older than the maximal age and the time that
\* the slowest refresh took from its measurement to its write: the age that Read checks
\* counts from the write.
THEOREM DecisionsAreRecent == Spec => []DecidedOnRecentMeasure
<1>1. IInv => DecidedOnRecentMeasure
      BY DEF IInv
<1> QED BY <1>1, InvariantHolds, PTL

\* Unless two labs were decided without seeing each other, or other tenants grew since a
\* decision, all labs but one stay within the threshold beside the estimate of that one: of
\* the labs that are there, the one decided last saw all others and was allowed beside them.
THEOREM OvercommitNeedsBlindness == Spec => []OvercommitIsBlind
<1>1. IInv => OvercommitIsBlind
  <2> SUFFICES ASSUME IInv, Present # {}, Crowded(Cardinality(Present) - 1, Footprint),
                      \A c \in Present : ~ others > decided[c].snap.others,
                      \A c, d \in Present : c # d => \/ d \in decided[c].snap.seen
                                                     \/ c \in decided[d].snap.seen
               PROVE  FALSE
      BY DEF OvercommitIsBlind, Blind
  <2>1. Present \in SUBSET Building /\ Present \in SUBSET Creates
        BY DEF Present, Building
  <2>2. PICK c \in Present : \A d \in Present \ {c} : c \notin decided[d].snap.seen
        BY <2>1 DEF IInv, OneIsLast
  <2>3. PICK m \in Measurements : m = decided[c].snap
        BY <2>1 DEF IInv, DecisionsAreHonest, Decisions
  <2>4. Present \ {c} \subseteq m.seen /\ m.seen \in SUBSET Creates
        BY <2>2, <2>3 DEF Measurements
  <2>5. PICK n \in Nat, k \in Nat : /\ n = Cardinality(Present) - 1
                                  /\ k = Cardinality(m.seen) /\ n <= k
    <3>1. /\ IsFiniteSet(Present) /\ IsFiniteSet(m.seen)
          /\ Cardinality(Present) \in Nat /\ Cardinality(m.seen) \in Nat
          BY <2>1, <2>4, StandingIsFinite
    <3>2. Cardinality(Present \ {c}) = Cardinality(Present) - 1
          BY <3>1, FS_RemoveElement
    <3>3. Cardinality(Present \ {c}) <= Cardinality(m.seen) /\ Cardinality(Present \ {c}) \in Nat
          BY <2>4, <3>1, FS_Subset, FS_CardinalityType
    <3> QED BY <3>1, <3>2, <3>3
  <2>6. others \in Nat /\ m.others \in Nat /\ others <= m.others
    <3>1. others \in Nat /\ m.others \in Nat
          BY QuotaAssumption DEF IInv, TypeOK, Measurements
    <3>2. ~ others > m.others
          BY <2>3
    <3> QED BY <3>1, <3>2
  <2>7. PICK r \in Compute : Exceeds([used |-> Taken(r, n) + Footprint[r], total |-> Total[r]])
        BY <2>5 DEF Crowded
  <2>8. /\ r \in Resources /\ Footprint[r] \in Nat /\ Total[r] \in Nat
        /\ Takes[r] \in Nat /\ Foreign[r] \in Nat
        BY SizesAreNat DEF Resources, Compute
  <2>9. Honest(m, create, now) /\ Allowed(m.usage)
        BY <2>1, <2>3 DEF IInv, DecisionsAreHonest
  <2>10. PICK u \in Nat : /\ m.usage[r] = [used |-> u, total |-> Total[r]]
                          /\ Takes[r] * k + Foreign[r] * m.others <= u
    <3>1. m.usage[r] \in [used : Nat, total : Nat]
          BY <2>8 DEF Measurements, Usages
    <3>2. /\ m.usage[r].total = Total[r]
          /\ Takes[r] * k + Foreign[r] * m.others <= m.usage[r].used
          BY <2>5, <2>9 DEF Honest
    <3> QED BY <3>1, <3>2
  <2>11. ~ Exceeds([used |-> u + Footprint[r], total |-> Total[r]])
    <3>1. PredictAfter(m.usage)[r] = [used |-> u + Footprint[r], total |-> Total[r]]
          BY <2>8, <2>10 DEF PredictAfter
    <3> QED BY <2>8, <2>9, <3>1 DEF Allowed
  <2>12. Taken(r, n) + Footprint[r] \in Nat /\ Taken(r, n) + Footprint[r] <= u + Footprint[r]
    <3>1. Takes[r] * n <= Takes[r] * k /\ Takes[r] * n \in Nat /\ Takes[r] * k \in Nat
          BY <2>5, <2>8, MoreTakesMore
    <3>2. /\ Foreign[r] * others <= Foreign[r] * m.others
          /\ Foreign[r] * others \in Nat /\ Foreign[r] * m.others \in Nat
          BY <2>6, <2>8, MoreTakesMore
    <3>3. Taken(r, n) = Takes[r] * n + Foreign[r] * others
          BY DEF Taken
    <3> QED BY <2>8, <2>10, <3>1, <3>2, <3>3
  <2>13. u + Footprint[r] \in Nat
        BY <2>8, <2>10
  <2> QED BY <2>7, <2>8, <2>11, <2>12, <2>13, LessFits
<1> QED BY <1>1, InvariantHolds, PTL
=============================================================================

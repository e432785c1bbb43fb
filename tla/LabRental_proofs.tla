-------------------------- MODULE LabRental_proofs --------------------------
(***************************************************************************)
(* LabRental for every number of labs, projects, requests and retries.     *)
(*                                                                         *)
(* With any faults and any commands: the types, and that no project stays  *)
(* allocated to a lab that is finished (IInv).  With any faults, but no    *)
(* lifecycle request: labs move along legal edges only (LegalIInv).  With  *)
(* no request, and no cleanup that dies after it freed its project: a live *)
(* lab has its rent, quarantine is left alone (RentIInv), and what is      *)
(* freed or done has been torn down (CleanIInv).  With requests and any    *)
(* faults, while a project is rented again only when its last tenant has   *)
(* ended: what is freed has been torn down (UserIInv).                     *)
(* Each part has one lemma per action, and ends in its theorems.           *)
(***************************************************************************)
EXTENDS LabRental, TLAPS

USE DEF GetLabInstanceByID, GetProjectByID

-----------------------------------------------------------------------------
(* What one call does to the rows and to the queue.                        *)

\* The rent of a lab outlives any step: its lab keeps the project it was given.
RowsKept == \A l \in Labs : Rented(l) => Rented(l)' /\ labs'[l].project = labs[l].project

\* The step makes no project "allocated".
NoNewRent ==
    \A p \in Projects : projects'[p].state = "allocated" => projects'[p] = projects[p]

\* The commands of the LabInstance aggregate keep the type of a row.
LEMMA TransitionType ==
    ASSUME NEW lab \in LabRows, NEW to \in LabStates, NEW ts \in Nat
    PROVE  /\ Transition(lab, to, ts) \in LabRows
           /\ Transition(lab, to, ts).state = to
           /\ Transition(lab, to, ts).project = lab.project
           /\ Transition(lab, to, ts).known = lab.known
           /\ Transition(lab, to, ts).updated = ts
BY DEF LabRows, Transition

LEMMA MarkReadyType ==
    ASSUME NEW lab \in LabRows, NEW known \in SUBSET Handles, NEW ts \in Nat
    PROVE  /\ MarkReady(lab, known, ts) \in LabRows
           /\ MarkReady(lab, known, ts).state = "ready"
           /\ MarkReady(lab, known, ts).project = lab.project
           /\ MarkReady(lab, known, ts).updated = ts
<1>1. /\ [lab EXCEPT !.known = known] \in LabRows
      /\ [lab EXCEPT !.known = known].project = lab.project
  BY DEF LabRows
<1>2. "ready" \in LabStates
  BY DEF LabStates
<1>3. MarkReady(lab, known, ts) = Transition([lab EXCEPT !.known = known], "ready", ts)
  BY DEF MarkReady
<1>4. \A row \in LabRows :
         /\ Transition(row, "ready", ts) \in LabRows
         /\ Transition(row, "ready", ts).state = "ready"
         /\ Transition(row, "ready", ts).project = row.project
         /\ Transition(row, "ready", ts).updated = ts
  BY <1>2, TransitionType
<1>. QED  BY <1>1, <1>3, <1>4

LEMMA AssignProjectType ==
    ASSUME NEW lab \in LabRows, NEW p \in Projects, NEW ts \in Nat
    PROVE  /\ AssignProject(lab, p, ts) \in LabRows
           /\ AssignProject(lab, p, ts).state = "deploying"
           /\ AssignProject(lab, p, ts).project = p
           /\ AssignProject(lab, p, ts).updated = ts
<1>1. [lab EXCEPT !.project = p] \in LabRows /\ [lab EXCEPT !.project = p].project = p
  BY DEF LabRows
<1>2. "deploying" \in LabStates
  BY DEF LabStates
<1>3. AssignProject(lab, p, ts) = Transition([lab EXCEPT !.project = p], "deploying", ts)
  BY DEF AssignProject
<1>4. \A row \in LabRows :
         /\ Transition(row, "deploying", ts) \in LabRows
         /\ Transition(row, "deploying", ts).state = "deploying"
         /\ Transition(row, "deploying", ts).project = row.project
         /\ Transition(row, "deploying", ts).updated = ts
  BY <1>2, TransitionType
<1>. QED  BY <1>1, <1>3, <1>4

LEMMA ExtendCleanupType ==
    ASSUME NEW lab \in LabRows, NEW ts \in Nat
    PROVE  /\ ExtendCleanup(lab, ts) \in LabRows
           /\ ExtendCleanup(lab, ts).state = lab.state
           /\ ExtendCleanup(lab, ts).project = lab.project
           /\ ExtendCleanup(lab, ts).known = lab.known
BY DEF LabRows, ExtendCleanup

LEMMA NewLabType ==
    ASSUME NEW ts \in Nat
    PROVE  NewLab(ts) \in LabRows /\ NoLabRow \in LabRows
BY DEF NewLab, Transition, NoLabRow, LabRows, LabStates, Handles

\* The commands of the Project aggregate keep its type, and none of them rents.
LEMMA ReleaseType ==
    ASSUME NEW project \in ProjectRows, NEW ts \in Nat
    PROVE  Release(project, ts) \in ProjectRows /\ Release(project, ts).state = "cleaning"
BY DEF ProjectRows, ProjectStates, Release

LEMMA MarkCleanType ==
    ASSUME NEW project \in ProjectRows, NEW ts \in Nat
    PROVE  MarkClean(project, ts) \in ProjectRows /\ MarkClean(project, ts).state = "free"
BY DEF ProjectRows, ProjectStates, MarkClean

LEMMA RecordCleanupFailureType ==
    ASSUME NEW project \in ProjectRows, NEW ts \in Nat
    PROVE  /\ RecordCleanupFailure(project, ts) \in ProjectRows
           /\ RecordCleanupFailure(project, ts).state \in {"cleaning", "quarantine"}
<1>. DEFINE failures == project.failures + 1
            state    == IF failures >= MaxCleanupFailures THEN "quarantine" ELSE "cleaning"
<1>1. failures \in Nat /\ state \in {"cleaning", "quarantine"} /\ state \in ProjectStates
  BY DEF ProjectRows, ProjectStates
<1>2. RecordCleanupFailure(project, ts) =
        [project EXCEPT !.failures = failures, !.changed = ts, !.state = state]
  BY DEF RecordCleanupFailure
<1>. HIDE DEF failures, state
<1>. QED  BY <1>1, <1>2 DEF ProjectRows

LEMMA QuarantineType ==
    ASSUME NEW project \in ProjectRows, NEW ts \in Nat
    PROVE  /\ QuarantineNow(project, ts) \in ProjectRows
           /\ QuarantineNow(project, ts).state = "quarantine"
           /\ ManualResolve(project, ts) \in ProjectRows
BY DEF ProjectRows, ProjectStates, QuarantineNow, ManualResolve

LEMMA PersistedType ==
    ASSUME NEW project \in ProjectRows
    PROVE  Persisted(project) \in ProjectRows /\ Persisted(project).state = project.state
BY DEF ProjectRows, Persisted

LEMMA FreeProjectType == FreeProject \in ProjectRows /\ FreeProject.state = "free"
BY DEF FreeProject, ProjectRows, ProjectStates

\* A task id is a lab and a kind.
LEMMA TaskIdFacts ==
    /\ CleanupTasks \subseteq TaskIds
    /\ \A t \in CleanupTasks : LabOf(t) \in Labs /\ \A l \in Labs : t # Deploy(l)
    /\ \A l \in Labs : /\ Deploy(l) \in TaskIds
                       /\ \A kind \in TaskKinds : <<l, kind>> \in TaskIds
                       /\ \A k \in Labs : Deploy(l) = Deploy(k) => l = k
BY DEF CleanupTasks, TaskIds, CleanupKinds, TaskKinds, LabOf, Deploy

\* Every queue operation on t keeps the type and leaves every other task alone.
LEMMA QueueTypes ==
    ASSUME QueueTypeOK, NEW t \in TaskIds,
           \/ Dequeue(t) \/ Complete(t) \/ Retry(t) \/ Fire(t)
           \/ Enqueue(t) \/ EnqueueAt(t)
    PROVE  /\ tasks' \in [TaskIds -> Tasks]
           /\ \A u \in TaskIds : u # t => tasks'[u] = tasks[u]
BY SMTT(30), QueueAssumption DEF QueueTypeOK, Dequeue, Complete, Retry, Fire, Enqueue,
   EnqueueAt, Put, Tasks, TaskStatus, NoTask, Status

LEMMA FaultType ==
    ASSUME QueueTypeOK, Fault PROVE faults' \in 0 .. MaxFaults
BY QueueAssumption DEF QueueTypeOK, Fault

-----------------------------------------------------------------------------
(* What a save does to the rent, and what it leaves true of everyone else. *)

\* All that the rest of the system needs to know of a step's effect on the rows.
RentKept ==
    /\ StorageTypeOK'
    /\ RentIsBacked'
    /\ LabsKeepProject'
    /\ RowsKept
    /\ NoNewRent

LEMMA RowsUntouched ==
    ASSUME IInv, UNCHANGED <<labs, projects>>, now' \in Nat
    PROVE  RentKept
BY DEF IInv, TypeOK, StorageTypeOK, RentKept, RentIsBacked, LabsKeepProject, RowsKept,
   NoNewRent, Rented

\* Saving a lab that was given a project, with the project it was given, keeps the
\* rent; to save it as done it must not hold an allocated project.
LEMMA LabSaved ==
    ASSUME IInv, NEW l \in Labs, NEW row \in LabRows, Rented(l),
           row.project = labs[l].project,
           \/ row.state \in HoldingStates
           \/ /\ row.state = "done"
              /\ projects[row.project].state = "allocated" => projects[row.project].lab # l,
           SaveLab(l, row), UNCHANGED projects, now' \in Nat
    PROVE  RentKept
<1>1. /\ labs' \in [Labs -> LabRows]
      /\ labs'[l] = row
      /\ \A k \in Labs : k # l => labs'[k] = labs[k]
  BY DEF IInv, TypeOK, StorageTypeOK, SaveLab
<1>2. StorageTypeOK'
  BY <1>1 DEF IInv, TypeOK, StorageTypeOK
<1>3. Rented(l)' /\ labs'[l].project = labs[l].project
  BY <1>1 DEF Rented
<1>4. RowsKept
  BY <1>1, <1>3 DEF RowsKept, Rented
<1>5. LabsKeepProject'
  <2>1. labs[l].project \in Projects
    BY DEF IInv, LabsKeepProject
  <2>. QED  BY <1>1, <1>3, <2>1 DEF IInv, LabsKeepProject, Rented, HoldingStates
<1>6. RentIsBacked'
  <2>1. ASSUME NEW p \in Projects, projects'[p].state = "allocated"
        PROVE  \E k \in Labs : /\ projects'[p].lab = k
                               /\ labs'[k].project = p
                               /\ labs'[k].state \in HoldingStates
    <3>1. PICK k \in Labs : /\ projects[p].lab = k
                            /\ labs[k].project = p
                            /\ labs[k].state \in HoldingStates
      BY <2>1 DEF IInv, RentIsBacked
    <3>2. CASE k # l
      BY <3>1, <3>2, <1>1
    <3>3. CASE k = l
      BY <3>1, <3>3, <1>1, <2>1
    <3>. QED  BY <3>2, <3>3
  <2>. QED  BY <2>1 DEF RentIsBacked
<1>7. NoNewRent
  BY DEF NoNewRent
<1>. QED  BY <1>2, <1>4, <1>5, <1>6, <1>7 DEF RentKept

\* Saving a project that is not allocated keeps the rent of the others.
LEMMA ProjectSaved ==
    ASSUME IInv, NEW p \in Projects, NEW row \in ProjectRows, row.state # "allocated",
           SaveProject(p, row), UNCHANGED labs, now' \in Nat
    PROVE  RentKept /\ projects'[p].state # "allocated"
<1>1. /\ projects' \in [Projects -> ProjectRows]
      /\ projects'[p].state # "allocated"
      /\ \A q \in Projects : q # p => projects'[q] = projects[q]
  BY PersistedType DEF IInv, TypeOK, StorageTypeOK, SaveProject
<1>2. StorageTypeOK'
  BY <1>1 DEF IInv, TypeOK, StorageTypeOK
<1>3. NoNewRent
  BY <1>1 DEF NoNewRent
<1>4. RentIsBacked'
  BY <1>1 DEF IInv, RentIsBacked
<1>5. RowsKept /\ LabsKeepProject'
  BY DEF IInv, RowsKept, LabsKeepProject, Rented
<1>. QED  BY <1>1, <1>2, <1>3, <1>4, <1>5 DEF RentKept

LEMMA DeployFrame ==
    ASSUME NEW l \in Labs, DeployIsRented(l), RowsKept,
           handoff'[l] = handoff[l], verdict'[l] = verdict[l],
           tasks'[Deploy(l)] = tasks[Deploy(l)]
    PROVE  DeployIsRented(l)'
BY DEF DeployIsRented, RowsKept, Status

LEMMA CleanerFrame ==
    ASSUME IInv, NEW t \in CleanupTasks, RentKept, cleaner'[t] = cleaner[t]
    PROVE  CleanerReleases(t)'
<1>. DEFINE c == cleaner[t]
            p == c.lab.project
<1>1. CleanerReleases(t) /\ LabOf(t) \in Labs
  BY TaskIdFacts DEF IInv
<1>2. /\ Rented(LabOf(t)) => /\ Rented(LabOf(t))'
                             /\ labs'[LabOf(t)].project = labs[LabOf(t)].project
      /\ Rented(LabOf(t)) => labs[LabOf(t)].project \in Projects
  BY <1>1 DEF RentKept, RowsKept, IInv, LabsKeepProject
<1>3. p \in Projects /\ projects'[p].state = "allocated" => projects'[p] = projects[p]
  BY DEF RentKept, NoNewRent
<1>4. c.pc \in PastRelease => c.pc \notin {"idle", "load"}
  BY DEF PastRelease
<1>5. LabOf(t)' = LabOf(t) /\ PastRelease' = PastRelease
  BY DEF LabOf, PastRelease
<1>. QED  BY <1>1, <1>2, <1>3, <1>4, <1>5 DEF CleanerReleases

LEMMA RequestFrame ==
    ASSUME IInv, NEW r \in Requests, RentKept, requests'[r] = requests[r]
    PROVE  RequestKeepsProject(r)'
<1>. DEFINE q == requests[r]
<1>1. RequestKeepsProject(r)
  BY DEF IInv
<1>2. q.lab \in Labs /\ Rented(q.lab) =>
         Rented(q.lab)' /\ labs'[q.lab].project = labs[q.lab].project
  BY DEF RentKept, RowsKept
<1>. QED  BY <1>1, <1>2 DEF RequestKeepsProject
-----------------------------------------------------------------------------
(* The cleanup saga.                                                       *)

\* A step of the cleanup of task t that keeps the rent and the types, and leaves t
\* itself in order, preserves the invariant.
LEMMA CleanupFrame ==
    ASSUME IInv, NEW t \in CleanupTasks, RentKept,
           cleaner' \in [CleanupTasks -> Cleaners],
           \A u \in CleanupTasks : u # t => cleaner'[u] = cleaner[u],
           tasks' \in [TaskIds -> Tasks],
           \A u \in TaskIds : u # t => tasks'[u] = tasks[u],
           faults' \in 0 .. MaxFaults, CloudTypeOK',
           CleanerReleases(t)',
           UNCHANGED <<handoff, verdict, requests>>
    PROVE  IInv'
<1>1. TypeOK'
  BY DEF IInv, TypeOK, RentKept, QueueTypeOK, CleanupTypeOK, ProvisioningTypeOK, LabOpsTypeOK
<1>2. \A l \in Labs : DeployIsRented(l)'
  BY DeployFrame, TaskIdFacts DEF IInv, RentKept
<1>3. \A u \in CleanupTasks : CleanerReleases(u)'
  BY CleanerFrame
<1>4. \A r \in Requests : RequestKeepsProject(r)'
  BY RequestFrame
<1>. QED  BY <1>1, <1>2, <1>3, <1>4 DEF IInv, RentKept

LEMMA CleanerTypes ==
    /\ IdleCleaner \in Cleaners /\ IdleCleaner.pc = "idle"
    /\ \A c \in Cleaners : /\ c.pc \in CleanupPCs /\ c.ts \in Nat
                           /\ c.lab \in LabRows /\ c.project \in ProjectRows
                           /\ \A pc \in CleanupPCs : [c EXCEPT !.pc = pc] \in Cleaners
                           /\ c.lab.known \in SUBSET Handles
BY NewLabType, FreeProjectType DEF IdleCleaner, Cleaners, CleanupPCs, LabRows

\* Run returns: the call is over, and it has nothing left to keep in order.
LEMMA CleanupReturns ==
    ASSUME IInv, NEW t \in CleanupTasks, RentKept, Return(t) \/ Fail(t),
           faults' \in 0 .. MaxFaults, CloudTypeOK',
           UNCHANGED <<handoff, verdict, requests>>
    PROVE  IInv'
<1>1. t \in TaskIds /\ QueueTypeOK
  BY TaskIdFacts DEF IInv, TypeOK
<1>2. /\ tasks' \in [TaskIds -> Tasks]
      /\ \A u \in TaskIds : u # t => tasks'[u] = tasks[u]
  BY <1>1, QueueTypes DEF Return, Fail
<1>3. /\ cleaner' \in [CleanupTasks -> Cleaners]
      /\ cleaner'[t].pc = "idle"
      /\ \A u \in CleanupTasks : u # t => cleaner'[u] = cleaner[u]
  BY CleanerTypes DEF IInv, TypeOK, CleanupTypeOK, Return, Fail
<1>4. CleanerReleases(t)'
  BY <1>3 DEF CleanerReleases, PastRelease
<1>. QED  BY <1>2, <1>3, <1>4, CleanupFrame

\* The call goes on, in a state c that is in order.
LEMMA CleanupGoesOn ==
    ASSUME IInv, NEW t \in CleanupTasks, RentKept, NEW c \in Cleaners,
           cleaner' = [cleaner EXCEPT ![t] = c],
           CleanerReleases(t)', CloudTypeOK', faults' \in 0 .. MaxFaults,
           UNCHANGED <<tasks, handoff, verdict, requests>>
    PROVE  IInv'
<1>1. /\ cleaner' \in [CleanupTasks -> Cleaners]
      /\ \A u \in CleanupTasks : u # t => cleaner'[u] = cleaner[u]
  BY DEF IInv, TypeOK, CleanupTypeOK
<1>2. tasks' \in [TaskIds -> Tasks]
  BY DEF IInv, TypeOK, QueueTypeOK
<1>. QED  BY <1>1, <1>2, CleanupFrame
\* The lab a cleanup works on: it was given a project, which the copy still names.
LEMMA CleanerFacts ==
    ASSUME IInv, NEW t \in CleanupTasks
    PROVE  /\ LabOf(t) \in Labs /\ t \in TaskIds
           /\ cleaner[t] \in Cleaners /\ labs[LabOf(t)] \in LabRows
           /\ now \in Nat /\ Now \in Nat /\ faults \in 0 .. MaxFaults
           /\ exists \in [Labs -> SUBSET Handles]
           /\ cleaner[t].pc \notin {"idle", "load"} =>
                 /\ Rented(LabOf(t))
                 /\ cleaner[t].lab.project = labs[LabOf(t)].project
                 /\ cleaner[t].lab.project \in Projects
                 /\ cleaner[t].lab.state = "cleaning"
                 /\ projects[cleaner[t].lab.project] \in ProjectRows
<1>1. CleanerReleases(t) /\ LabOf(t) \in Labs /\ t \in TaskIds
  BY TaskIdFacts DEF IInv
<1>2. Rented(LabOf(t)) => labs[LabOf(t)].project \in Projects
  BY <1>1 DEF IInv, LabsKeepProject
<1>. QED
  BY <1>1, <1>2 DEF IInv, TypeOK, StorageTypeOK, QueueTypeOK, CloudTypeOK, CleanupTypeOK,
     CleanerReleases, Now

LEMMA CleanupStartKeeps ==
    ASSUME IInv, NEW t \in CleanupTasks, CleanupStart(t),
           UNCHANGED <<handoff, verdict, requests>>
    PROVE  IInv'
<1>1. RentKept
  BY RowsUntouched, CleanerFacts DEF CleanupStart
<1>2. /\ tasks' \in [TaskIds -> Tasks]
      /\ \A u \in TaskIds : u # t => tasks'[u] = tasks[u]
  BY QueueTypes, TaskIdFacts DEF CleanupStart, IInv, TypeOK
<1>3. /\ cleaner' \in [CleanupTasks -> Cleaners]
      /\ cleaner'[t].pc = "load"
      /\ \A u \in CleanupTasks : u # t => cleaner'[u] = cleaner[u]
  <2>1. [cleaner[t] EXCEPT !.pc = "load", !.ts = Now] \in Cleaners
    BY CleanerFacts DEF Cleaners, CleanupPCs
  <2>2. cleaner' = [cleaner EXCEPT ![t] = [cleaner[t] EXCEPT !.pc = "load", !.ts = Now]]
    BY DEF CleanupStart, IInv, TypeOK, CleanupTypeOK
  <2>. QED  BY <2>1, <2>2 DEF IInv, TypeOK, CleanupTypeOK, Cleaners
<1>4. CleanerReleases(t)'
  BY <1>3 DEF CleanerReleases, PastRelease
<1>5. faults' \in 0 .. MaxFaults /\ CloudTypeOK'
  BY CleanerFacts DEF CleanupStart, CloudTypeOK
<1>. QED  BY <1>1, <1>2, <1>3, <1>4, <1>5, CleanupFrame

\* A lab that can be cleaned was given a project.
LEMMA CleanableIsRented ==
    ASSUME NEW l \in Labs,
           labs[l].state = "cleaning" \/ CanTransition(labs[l].state, "cleaning")
    PROVE  Rented(l) /\ labs[l].state \in HoldingStates
BY DEF CanTransition, AllowedTransitions, LabStates, Rented, HoldingStates

LEMMA CleanupLoadKeeps ==
    ASSUME IInv, NEW t \in CleanupTasks, CleanupLoad(t),
           UNCHANGED <<handoff, verdict, requests>>
    PROVE  IInv'
<1>. DEFINE row == labs[LabOf(t)]
<1>1. RentKept
  BY RowsUntouched, CleanerFacts DEF CleanupLoad, storageVars
<1>2. faults' \in 0 .. MaxFaults /\ CloudTypeOK' /\ UNCHANGED <<labs, projects>>
  BY CleanerFacts DEF CleanupLoad, CloudTypeOK, storageVars
<1>3. CASE /\ row.state = "cleaning"
           /\ cleaner' = [cleaner EXCEPT ![t].pc = "project", ![t].lab = row]
           /\ UNCHANGED tasks
  <2>. DEFINE c == [cleaner[t] EXCEPT !.pc = "project", !.lab = row]
  <2>1. c \in Cleaners /\ c.pc = "project" /\ c.lab = row
    BY CleanerFacts DEF Cleaners, CleanupPCs
  <2>2. cleaner' = [cleaner EXCEPT ![t] = c] /\ cleaner'[t] = c
    BY <1>3 DEF IInv, TypeOK, CleanupTypeOK
  <2>3. Rented(LabOf(t))'
    BY <1>2, <1>3, CleanableIsRented, CleanerFacts DEF Rented
  <2>4. CleanerReleases(t)'
    BY <1>2, <1>3, <2>1, <2>2, <2>3 DEF CleanerReleases, PastRelease
  <2>. HIDE DEF c
  <2>. QED  BY <1>1, <1>2, <1>3, <2>1, <2>2, <2>4, CleanupGoesOn
<1>4. CASE /\ row.state # "cleaning" /\ CanTransition(row.state, "cleaning")
           /\ cleaner' = [cleaner EXCEPT ![t].pc  = "mark",
                              ![t].lab = Transition(row, "cleaning", cleaner[t].ts)]
           /\ UNCHANGED tasks
  <2>. DEFINE copy == Transition(row, "cleaning", cleaner[t].ts)
              c    == [cleaner[t] EXCEPT !.pc = "mark", !.lab = copy]
  <2>1. copy \in LabRows /\ copy.state = "cleaning" /\ copy.project = row.project
    <3>1. "cleaning" \in LabStates
      BY DEF LabStates
    <3>. QED  BY <3>1, CleanerFacts, CleanerTypes, TransitionType
  <2>. HIDE DEF copy
  <2>2. c \in Cleaners /\ c.pc = "mark" /\ c.lab = copy
    BY <2>1, CleanerFacts DEF Cleaners, CleanupPCs
  <2>3. cleaner' = [cleaner EXCEPT ![t] = c] /\ cleaner'[t] = c
    BY <1>4 DEF IInv, TypeOK, CleanupTypeOK, copy
  <2>4. Rented(LabOf(t))'
    BY <1>2, <1>4, CleanableIsRented, CleanerFacts DEF Rented
  <2>5. CleanerReleases(t)'
    BY <1>2, <2>1, <2>2, <2>3, <2>4 DEF CleanerReleases, PastRelease
  <2>. HIDE DEF c
  <2>. QED  BY <1>1, <1>2, <1>4, <2>2, <2>3, <2>5, CleanupGoesOn
<1>5. CASE Return(t)
  BY <1>1, <1>2, <1>5, CleanupReturns
<1>. QED  BY <1>3, <1>4, <1>5 DEF CleanupLoad
\* Past the load, moving to another statement keeps the cleanup in order as long as
\* the copy of the project is not saved next and the project is not its lab's.
LEMMA CleanerMovesOn ==
    ASSUME IInv, NEW t \in CleanupTasks, RentKept,
           cleaner[t].pc \notin {"idle", "load"},
           NEW pc \in CleanupPCs, NEW copy \in ProjectRows,
           pc \in {"release", "failure", "clean"} => copy.state # "allocated",
           pc \in PastRelease =>
              (projects'[cleaner[t].lab.project].state = "allocated" =>
                  projects'[cleaner[t].lab.project].lab # LabOf(t)),
           cleaner' = [cleaner EXCEPT ![t].pc = pc, ![t].project = copy]
    PROVE  /\ CleanerReleases(t)'
           /\ [cleaner[t] EXCEPT !.pc = pc, !.project = copy] \in Cleaners
           /\ cleaner' = [cleaner EXCEPT ![t] =
                             [cleaner[t] EXCEPT !.pc = pc, !.project = copy]]
<1>. DEFINE c == [cleaner[t] EXCEPT !.pc = pc, !.project = copy]
<1>1. c \in Cleaners /\ c.pc = pc /\ c.project = copy /\ c.lab = cleaner[t].lab
  BY CleanerFacts DEF Cleaners
<1>2. cleaner' = [cleaner EXCEPT ![t] = c] /\ cleaner'[t] = c
  BY DEF IInv, TypeOK, CleanupTypeOK
<1>3. /\ Rented(LabOf(t))'
      /\ labs'[LabOf(t)].project = labs[LabOf(t)].project
  BY CleanerFacts DEF RentKept, RowsKept
<1>4. LabOf(t)' = LabOf(t) /\ PastRelease' = PastRelease
  BY DEF LabOf, PastRelease
<1>. HIDE DEF c
<1>5. CleanerReleases(t)'
  BY <1>1, <1>2, <1>3, <1>4, CleanerFacts DEF CleanerReleases
<1>. QED  BY <1>1, <1>2, <1>5 DEF c

\* The same for a step that only moves the program counter.
LEMMA GotoKeeps ==
    ASSUME IInv, NEW t \in CleanupTasks, RentKept,
           cleaner[t].pc \notin {"idle", "load"},
           NEW pc \in {"project", "teardown", "secret", "finish"},
           pc # "project" =>
              (projects'[cleaner[t].lab.project].state = "allocated" =>
                  projects'[cleaner[t].lab.project].lab # LabOf(t)),
           Goto(t, pc), CloudTypeOK', faults' \in 0 .. MaxFaults,
           UNCHANGED <<tasks, handoff, verdict, requests>>
    PROVE  IInv'
<1>. DEFINE copy == cleaner[t].project
            c    == [cleaner[t] EXCEPT !.pc = pc, !.project = copy]
<1>1. pc \in CleanupPCs /\ copy \in ProjectRows
  BY CleanerFacts, CleanerTypes DEF CleanupPCs
<1>2. cleaner' = [cleaner EXCEPT ![t].pc = pc, ![t].project = copy]
  BY CleanerFacts DEF Goto, IInv, TypeOK, CleanupTypeOK, Cleaners
<1>3. /\ CleanerReleases(t)' /\ c \in Cleaners
      /\ cleaner' = [cleaner EXCEPT ![t] = c]
  BY <1>1, <1>2, CleanerMovesOn DEF PastRelease
<1>. HIDE DEF c
<1>. QED  BY <1>3, CleanupGoesOn

LEMMA CleanupMarkKeeps ==
    ASSUME IInv, NEW t \in CleanupTasks, CleanupMark(t),
           UNCHANGED <<handoff, verdict, requests>>
    PROVE  IInv'
<1>. DEFINE l == LabOf(t)
<1>1. faults' \in 0 .. MaxFaults /\ CloudTypeOK' /\ now' \in Nat /\ UNCHANGED projects
  BY CleanerFacts DEF CleanupMark, CloudTypeOK
<1>2. cleaner[t].pc = "mark"
  BY DEF CleanupMark, At
<1>3. CASE SaveLab(l, cleaner[t].lab) /\ Goto(t, "project") /\ UNCHANGED tasks
  <2>1. RentKept
    <3>1. "cleaning" \in HoldingStates
      BY DEF HoldingStates
    <3>. QED  BY <1>1, <1>2, <1>3, <3>1, CleanerFacts, CleanerTypes, LabSaved
  <2>. QED  BY <1>1, <1>2, <1>3, <2>1, GotoKeeps
<1>4. CASE Fail(t) /\ UNCHANGED labs
  <2>1. RentKept
    BY <1>1, <1>4, RowsUntouched
  <2>. QED  BY <1>1, <1>4, <2>1, CleanupReturns
<1>. QED  BY <1>3, <1>4 DEF CleanupMark

LEMMA CleanupLoadProjectKeeps ==
    ASSUME IInv, NEW t \in CleanupTasks, CleanupLoadProject(t),
           UNCHANGED <<handoff, verdict, requests>>
    PROVE  IInv'
<1>. DEFINE row  == projects[cleaner[t].lab.project]
            copy == Release(row, cleaner[t].ts)
<1>1. RentKept /\ faults' \in 0 .. MaxFaults /\ CloudTypeOK' /\ UNCHANGED <<projects, tasks>>
  BY RowsUntouched, CleanerFacts DEF CleanupLoadProject, storageVars, queueVars, CloudTypeOK
<1>2. cleaner[t].pc = "project" /\ row \in ProjectRows
  BY CleanerFacts DEF CleanupLoadProject, At
<1>3. "release" \in CleanupPCs /\ "teardown" \in CleanupPCs /\ "release" \notin PastRelease
  BY DEF CleanupPCs, PastRelease
<1>4. CASE row.state = "allocated"
  <2>. DEFINE c == [cleaner[t] EXCEPT !.pc = "release", !.project = copy]
  <2>1. copy \in ProjectRows /\ copy.state # "allocated"
    BY <1>2, CleanerFacts, CleanerTypes, ReleaseType
  <2>2. cleaner' = [cleaner EXCEPT ![t].pc = "release", ![t].project = copy]
    BY <1>4 DEF CleanupLoadProject
  <2>. HIDE DEF copy
  <2>3. CleanerReleases(t)' /\ c \in Cleaners /\ cleaner' = [cleaner EXCEPT ![t] = c]
    BY <1>1, <1>2, <1>3, <2>1, <2>2, CleanerMovesOn
  <2>. HIDE DEF c
  <2>. QED  BY <1>1, <2>3, CleanupGoesOn
<1>5. CASE row.state # "allocated"
  <2>. DEFINE c == [cleaner[t] EXCEPT !.pc = "teardown", !.project = row]
  <2>1. cleaner' = [cleaner EXCEPT ![t].pc = "teardown", ![t].project = row]
    BY <1>5 DEF CleanupLoadProject
  <2>2. projects'[cleaner[t].lab.project].state # "allocated"
    BY <1>1, <1>5
  <2>. HIDE DEF row
  <2>3. CleanerReleases(t)' /\ c \in Cleaners /\ cleaner' = [cleaner EXCEPT ![t] = c]
    BY <1>1, <1>2, <1>3, <2>1, <2>2, CleanerMovesOn
  <2>. HIDE DEF c
  <2>. QED  BY <1>1, <2>3, CleanupGoesOn
<1>. QED  BY <1>4, <1>5
\* The three saves of the project: what follows one that succeeds is a return, or
\* a statement past the release.
LEMMA CleanupSaveProjectKeeps ==
    ASSUME IInv, NEW t \in CleanupTasks, NEW pc \in {"release", "failure", "clean"},
           CleanupSaveProject(t, pc,
               \/ Goto(t, "teardown") /\ UNCHANGED tasks
               \/ Goto(t, "secret") /\ UNCHANGED tasks
               \/ Goto(t, "finish") /\ UNCHANGED tasks
               \/ Fail(t)),
           UNCHANGED <<handoff, verdict, requests>>
    PROVE  IInv'
<1>. DEFINE p == cleaner[t].lab.project
<1>1. /\ faults' \in 0 .. MaxFaults /\ CloudTypeOK' /\ now' \in Nat /\ UNCHANGED labs
      /\ cleaner[t].pc = pc
  BY CleanerFacts DEF CleanupSaveProject, CloudTypeOK, At
<1>2. p \in Projects /\ cleaner[t].project \in ProjectRows
  BY <1>1, CleanerFacts, CleanerTypes
<1>3. cleaner[t].project.state # "allocated"
  BY <1>1 DEF IInv, CleanerReleases
<1>4. CASE UNCHANGED projects /\ Fail(t)
  <2>1. RentKept
    BY <1>1, <1>4, RowsUntouched
  <2>. QED  BY <1>1, <1>4, <2>1, CleanupReturns
<1>5. CASE SaveProject(p, cleaner[t].project)
  <2>1. RentKept /\ projects'[p].state # "allocated"
    BY <1>1, <1>2, <1>3, <1>5, ProjectSaved
  <2>2. CASE Fail(t)
    BY <1>1, <2>1, <2>2, CleanupReturns
  <2>3. ASSUME NEW next \in {"teardown", "secret", "finish"}, Goto(t, next), UNCHANGED tasks
        PROVE  IInv'
    BY <1>1, <2>1, <2>3, GotoKeeps
  <2>. QED  BY <1>5, <2>2, <2>3 DEF CleanupSaveProject
<1>. QED  BY <1>4, <1>5 DEF CleanupSaveProject

LEMMA CleanupTeardownKeeps ==
    ASSUME IInv, NEW t \in CleanupTasks, CleanupTeardown(t),
           UNCHANGED <<handoff, verdict, requests>>
    PROVE  IInv'
<1>. DEFINE p    == cleaner[t].lab.project
            pc   == IF cleaner[t].project.state = "cleaning" THEN "clean" ELSE "secret"
            copy == IF cleaner[t].project.state = "cleaning"
                    THEN MarkClean(cleaner[t].project, cleaner[t].ts) ELSE cleaner[t].project
            c    == [cleaner[t] EXCEPT !.pc = pc, !.project = copy]
<1>1. RentKept /\ faults' \in 0 .. MaxFaults /\ UNCHANGED <<labs, projects, tasks>>
  BY RowsUntouched, CleanerFacts DEF CleanupTeardown, storageVars, queueVars
<1>2. CloudTypeOK'
  BY CleanerFacts DEF CleanupTeardown, CloudTypeOK, Deleted
<1>3. cleaner[t].pc = "teardown"
  BY DEF CleanupTeardown, At
<1>4. projects[p].state = "allocated" => projects[p].lab # LabOf(t)
  BY <1>3 DEF IInv, CleanerReleases, PastRelease
<1>5. pc \in CleanupPCs /\ copy \in ProjectRows /\ pc # "release" /\ pc # "failure"
  BY CleanerFacts, CleanerTypes, MarkCleanType DEF CleanupPCs
<1>6. pc = "clean" => copy.state # "allocated"
  BY CleanerFacts, CleanerTypes, MarkCleanType
<1>7. cleaner' = [cleaner EXCEPT ![t].pc = pc, ![t].project = copy]
  <2>1. CASE cleaner[t].project.state = "cleaning"
    BY <2>1 DEF CleanupTeardown
  <2>2. CASE cleaner[t].project.state # "cleaning"
    BY <2>2, CleanerFacts DEF CleanupTeardown, IInv, TypeOK, CleanupTypeOK, Cleaners
  <2>. QED  BY <2>1, <2>2
<1>. HIDE DEF pc, copy
<1>8. CleanerReleases(t)' /\ c \in Cleaners /\ cleaner' = [cleaner EXCEPT ![t] = c]
  BY <1>1, <1>3, <1>4, <1>5, <1>6, <1>7, CleanerMovesOn
<1>. HIDE DEF c
<1>. QED  BY <1>1, <1>2, <1>8, CleanupGoesOn

LEMMA CleanupTeardownFailsKeeps ==
    ASSUME IInv, NEW t \in CleanupTasks, CleanupTeardownFails(t),
           UNCHANGED <<handoff, verdict, requests>>
    PROVE  IInv'
<1>. DEFINE p    == cleaner[t].lab.project
            copy == RecordCleanupFailure(cleaner[t].project, cleaner[t].ts)
            c    == [cleaner[t] EXCEPT !.pc = "failure", !.project = copy]
<1>1. RentKept /\ faults' \in 0 .. MaxFaults /\ UNCHANGED <<labs, projects>>
  BY RowsUntouched, CleanerFacts DEF CleanupTeardownFails, storageVars
<1>2. CloudTypeOK'
  BY CleanerFacts DEF CleanupTeardownFails, CloudTypeOK, Deleted
<1>3. cleaner[t].pc = "teardown"
  BY DEF CleanupTeardownFails, At
<1>4. projects[p].state = "allocated" => projects[p].lab # LabOf(t)
  BY <1>3 DEF IInv, CleanerReleases, PastRelease
<1>5. CASE cleaner[t].project.state = "cleaning"
  <2>1. copy \in ProjectRows /\ copy.state # "allocated"
    BY CleanerFacts, CleanerTypes, RecordCleanupFailureType
  <2>2. cleaner' = [cleaner EXCEPT ![t].pc = "failure", ![t].project = copy]
        /\ UNCHANGED tasks
    BY <1>5 DEF CleanupTeardownFails, IInv, TypeOK, CleanupTypeOK, Cleaners
  <2>3. "failure" \in CleanupPCs
    BY DEF CleanupPCs
  <2>. HIDE DEF copy
  <2>4. CleanerReleases(t)' /\ c \in Cleaners /\ cleaner' = [cleaner EXCEPT ![t] = c]
    BY <1>1, <1>3, <1>4, <2>1, <2>2, <2>3, CleanerMovesOn
  <2>. HIDE DEF c
  <2>. QED  BY <1>1, <1>2, <2>2, <2>4, CleanupGoesOn
<1>6. CASE cleaner[t].project.state # "cleaning"
  <2>1. Fail(t)
    BY <1>6 DEF CleanupTeardownFails
  <2>. QED  BY <1>1, <1>2, <2>1, CleanupReturns
<1>. QED  BY <1>5, <1>6

LEMMA CleanupSecretKeeps ==
    ASSUME IInv, NEW t \in CleanupTasks, CleanupSecret(t),
           UNCHANGED <<handoff, verdict, requests>>
    PROVE  IInv'
<1>1. RentKept /\ UNCHANGED <<labs, projects, tasks>>
  BY RowsUntouched, CleanerFacts DEF CleanupSecret, storageVars
<1>2. CloudTypeOK' /\ faults' \in 0 .. MaxFaults
  BY CleanerFacts, FaultType DEF CleanupSecret, CloudTypeOK, Deleted, IInv, TypeOK
<1>3. cleaner[t].pc = "secret" /\ Goto(t, "finish")
  BY DEF CleanupSecret, At
<1>4. projects[cleaner[t].lab.project].state = "allocated" =>
          projects[cleaner[t].lab.project].lab # LabOf(t)
  BY <1>3 DEF IInv, CleanerReleases, PastRelease
<1>. QED  BY <1>1, <1>2, <1>3, <1>4, GotoKeeps

\* A lab is saved as done only past the release of its project.
LEMMA CleanupFinishKeeps ==
    ASSUME IInv, NEW t \in CleanupTasks, CleanupFinish(t),
           UNCHANGED <<handoff, verdict, requests>>
    PROVE  IInv'
<1>. DEFINE l   == LabOf(t)
            row == Transition(cleaner[t].lab, "done", cleaner[t].ts)
<1>1. faults' \in 0 .. MaxFaults /\ CloudTypeOK' /\ now' \in Nat /\ UNCHANGED projects
  BY CleanerFacts DEF CleanupFinish, CloudTypeOK
<1>2. cleaner[t].pc = "finish"
  BY DEF CleanupFinish, At
<1>3. projects[cleaner[t].lab.project].state = "allocated" =>
          projects[cleaner[t].lab.project].lab # l
  BY <1>2 DEF IInv, CleanerReleases, PastRelease
<1>4. CASE SaveLab(l, row) /\ Return(t)
  <2>1. row \in LabRows /\ row.state = "done" /\ row.project = cleaner[t].lab.project
    <3>1. "done" \in LabStates
      BY DEF LabStates
    <3>. QED  BY <3>1, CleanerFacts, CleanerTypes, TransitionType
  <2>. HIDE DEF row
  <2>2. RentKept
    BY <1>1, <1>2, <1>3, <1>4, <2>1, CleanerFacts, LabSaved
  <2>. QED  BY <1>1, <1>4, <2>2, CleanupReturns
<1>5. CASE Fail(t) /\ UNCHANGED labs
  <2>1. RentKept
    BY <1>1, <1>5, RowsUntouched
  <2>. QED  BY <1>1, <1>5, <2>1, CleanupReturns
<1>. QED  BY <1>4, <1>5 DEF CleanupFinish

LEMMA CleanupCrashKeeps ==
    ASSUME IInv, NEW t \in CleanupTasks, CleanupCrash(t),
           UNCHANGED <<handoff, verdict, requests>>
    PROVE  IInv'
<1>1. RentKept
  BY RowsUntouched, CleanerFacts DEF CleanupCrash, storageVars
<1>2. CloudTypeOK' /\ faults' \in 0 .. MaxFaults
  BY CleanerFacts, FaultType DEF CleanupCrash, CloudTypeOK, IInv, TypeOK
<1>. QED  BY <1>1, <1>2, CleanupReturns DEF CleanupCrash

LEMMA CleanerMovesKeeps ==
    ASSUME IInv, NEW t \in CleanupTasks, CleanerMoves(t)
    PROVE  IInv'
<1>1. UNCHANGED <<handoff, verdict, requests>> /\ CleanupNext(t)
  BY DEF CleanerMoves
<1>2. CASE CleanupRelease(t)
  BY <1>1, <1>2, CleanupSaveProjectKeeps DEF CleanupRelease, CleanupSaveProject
<1>3. CASE CleanupFailure(t)
  BY <1>1, <1>3, CleanupSaveProjectKeeps DEF CleanupFailure, CleanupSaveProject
<1>4. CASE CleanupClean(t)
  BY <1>1, <1>4, CleanupSaveProjectKeeps DEF CleanupClean, CleanupSaveProject
<1>. QED
  BY <1>1, <1>2, <1>3, <1>4, CleanupStartKeeps, CleanupLoadKeeps, CleanupMarkKeeps,
     CleanupLoadProjectKeeps, CleanupTeardownKeeps, CleanupTeardownFailsKeeps,
     CleanupSecretKeeps, CleanupFinishKeeps, CleanupCrashKeeps
     DEF CleanupNext, CleanupStep
-----------------------------------------------------------------------------
(* Admission and deploy.                                                   *)

\* A step of lab l that keeps the rent and the types, and leaves l's deploy in
\* order, preserves the invariant.
LEMMA ProvisioningFrame ==
    ASSUME IInv, NEW l \in Labs, RentKept,
           handoff' \in [Labs -> HandOffs], verdict' \in [Labs -> Verdicts],
           tasks' \in [TaskIds -> Tasks], faults' \in 0 .. MaxFaults, CloudTypeOK',
           \A k \in Labs : k # l => /\ handoff'[k] = handoff[k]
                                    /\ verdict'[k] = verdict[k]
                                    /\ tasks'[Deploy(k)] = tasks[Deploy(k)],
           DeployIsRented(l)', UNCHANGED <<cleaner, requests>>
    PROVE  IInv'
<1>1. TypeOK'
  BY DEF IInv, TypeOK, RentKept, QueueTypeOK, CleanupTypeOK, ProvisioningTypeOK, LabOpsTypeOK
<1>2. \A k \in Labs : DeployIsRented(k)'
  BY DeployFrame DEF IInv, RentKept
<1>3. \A t \in CleanupTasks : CleanerReleases(t)'
  BY CleanerFrame
<1>4. \A r \in Requests : RequestKeepsProject(r)'
  BY RequestFrame
<1>. QED  BY <1>1, <1>2, <1>3, <1>4 DEF IInv, RentKept

LEMMA ProvisioningFacts ==
    ASSUME IInv
    PROVE  /\ labs \in [Labs -> LabRows] /\ projects \in [Projects -> ProjectRows]
           /\ now \in Nat /\ Now \in Nat
           /\ tasks \in [TaskIds -> Tasks] /\ faults \in 0 .. MaxFaults /\ QueueTypeOK
           /\ exists \in [Labs -> SUBSET Handles] /\ CloudTypeOK
           /\ handoff \in [Labs -> HandOffs] /\ verdict \in [Labs -> Verdicts]
           /\ NoVerdict \in Verdicts /\ NoVerdict.state \notin Outcomes
           /\ HandOffs = {"none", "deploy", "timer", "compensate"}
           /\ \A l \in Labs : DeployIsRented(l)
BY DEF IInv, TypeOK, StorageTypeOK, QueueTypeOK, CloudTypeOK, ProvisioningTypeOK, Now,
   NoVerdict, Outcomes, Verdicts, HandOffs

\* A step of a deploy that saves no row: the lab it works on was given a project.
LEMMA DeployBookkeeping ==
    ASSUME IInv, NEW l \in Labs, Rented(l), UNCHANGED <<labs, projects>>, now' \in Nat,
           handoff' \in [Labs -> HandOffs], verdict' \in [Labs -> Verdicts],
           tasks' \in [TaskIds -> Tasks], faults' \in 0 .. MaxFaults, CloudTypeOK',
           \A k \in Labs : k # l => /\ handoff'[k] = handoff[k]
                                    /\ verdict'[k] = verdict[k]
                                    /\ tasks'[Deploy(k)] = tasks[Deploy(k)],
           UNCHANGED <<cleaner, requests>>
    PROVE  IInv'
<1>1. RentKept
  BY RowsUntouched
<1>2. DeployIsRented(l)'
  BY DEF DeployIsRented, Rented
<1>. QED  BY <1>1, <1>2, ProvisioningFrame

\* A verdict that is not the outcome of a deploy promises nothing.
LEMMA VerdictOnly ==
    ASSUME IInv, NEW l \in Labs, NEW v \in Verdicts, v.state \notin Outcomes, Decides(l, v),
           now' \in Nat, UNCHANGED <<labs, projects, handoff, tasks, faults, exists>>,
           UNCHANGED <<cleaner, requests>>
    PROVE  IInv'
<1>1. /\ verdict' \in [Labs -> Verdicts] /\ verdict'[l] = v
      /\ \A k \in Labs : k # l => verdict'[k] = verdict[k]
  BY ProvisioningFacts DEF Decides
<1>2. RentKept
  BY RowsUntouched
<1>3. DeployIsRented(l)'
  BY <1>1, ProvisioningFacts DEF DeployIsRented, Rented, Status, Outcomes
<1>4. /\ handoff' \in [Labs -> HandOffs] /\ tasks' \in [TaskIds -> Tasks]
      /\ faults' \in 0 .. MaxFaults /\ CloudTypeOK'
  BY ProvisioningFacts DEF CloudTypeOK
<1>. QED  BY <1>1, <1>2, <1>3, <1>4, ProvisioningFrame

LEMMA AdmitLabKeeps ==
    ASSUME IInv, NEW l \in Labs, AdmitLab(l), UNCHANGED <<cleaner, requests>>
    PROVE  IInv'
<1>. DEFINE v == [state |-> "admitted", ts |-> Now]
<1>1. v \in Verdicts /\ v.state \notin Outcomes
  BY ProvisioningFacts DEF Verdicts, Outcomes
<1>2. /\ Decides(l, v) /\ now' \in Nat
      /\ UNCHANGED <<labs, projects, handoff, tasks, faults, exists>>
  BY ProvisioningFacts DEF AdmitLab, queueVars
<1>. QED  BY <1>1, <1>2, VerdictOnly

LEMMA CreateLabKeeps ==
    ASSUME IInv, NEW l \in Labs, CreateLab(l), UNCHANGED <<cleaner, requests>>
    PROVE  IInv'
<1>. DEFINE ts == verdict[l].ts
<1>1. /\ now' = now /\ ts \in Nat /\ labs[l].state = "absent" /\ verdict[l].state = "admitted"
      /\ tasks' \in [TaskIds -> Tasks] /\ faults' \in 0 .. MaxFaults /\ CloudTypeOK'
      /\ UNCHANGED tasks
  BY ProvisioningFacts DEF CreateLab, queueVars, CloudTypeOK, Verdicts
<1>11. CASE Decides(l, [state |-> "refused", ts |-> 0]) /\ UNCHANGED <<labs, projects, handoff>>
  <2>1. [state |-> "refused", ts |-> 0] \in Verdicts
    BY DEF Verdicts
  <2>2. now' \in Nat /\ UNCHANGED <<faults, exists>>
    BY <1>1, ProvisioningFacts DEF CreateLab, queueVars
  <2>. QED  BY <1>1, <1>11, <2>1, <2>2, VerdictOnly DEF Outcomes
<1>. HIDE DEF ts
<1>2. ~ Rented(l)
  BY <1>1 DEF Rented, HoldingStates
<1>3. CASE \E p \in FreeProjects :
              /\ SaveLab(l, AssignProject(NewLab(ts), p, ts))
              /\ SaveProject(p, Allocated(p, l, ts))
              /\ Owes(l, "deploy") /\ Decides(l, NoVerdict)
  <2>1. PICK p \in FreeProjects :
              /\ SaveLab(l, AssignProject(NewLab(ts), p, ts))
              /\ SaveProject(p, Allocated(p, l, ts))
              /\ Owes(l, "deploy") /\ Decides(l, NoVerdict)
    BY <1>3
  <2>. DEFINE row   == AssignProject(NewLab(ts), p, ts)
              lease == Allocated(p, l, ts)
  <2>2. p \in Projects /\ projects[p].state = "free"
    BY DEF FreeProjects
  <2>3. row \in LabRows /\ row.state = "deploying" /\ row.project = p
    BY <1>1, <2>2, NewLabType, AssignProjectType
  <2>4. /\ lease \in ProjectRows /\ lease.state = "allocated" /\ lease.lab = l
        /\ Persisted(lease) = lease
    <3>1. projects[p] \in ProjectRows
      BY <2>2, ProvisioningFacts
    <3>2. lease = [projects[p] EXCEPT !.state = "allocated", !.lab = l, !.changed = ts]
      BY DEF Allocated
    <3>3. lease \in ProjectRows /\ lease.state = "allocated" /\ lease.lab = l
      BY <1>1, <3>1, <3>2 DEF ProjectRows, ProjectStates
    <3>. QED  BY <3>3 DEF Persisted
  <2>. HIDE DEF row, lease
  <2>5. /\ labs' \in [Labs -> LabRows] /\ labs'[l] = row
        /\ \A k \in Labs : k # l => labs'[k] = labs[k]
    BY <2>1, <2>3, ProvisioningFacts DEF SaveLab, row
  <2>6. /\ projects' \in [Projects -> ProjectRows] /\ projects'[p] = lease
        /\ \A q \in Projects : q # p => projects'[q] = projects[q]
    BY <2>1, <2>2, <2>4, ProvisioningFacts DEF SaveProject, lease
  <2>7. Rented(l)'
    BY <2>3, <2>5 DEF Rented, HoldingStates
  <2>8. StorageTypeOK' /\ RowsKept
    BY <1>1, <1>2, <2>5, <2>6, ProvisioningFacts DEF StorageTypeOK, RowsKept, Rented
  <2>9. LabsKeepProject'
    BY <2>2, <2>3, <2>5 DEF IInv, LabsKeepProject, Rented
  <2>10. RentIsBacked'
    <3>1. ASSUME NEW q \in Projects, projects'[q].state = "allocated"
          PROVE  \E k \in Labs : /\ projects'[q].lab = k
                                 /\ labs'[k].project = q
                                 /\ labs'[k].state \in HoldingStates
      <4>1. CASE q = p
        BY <4>1, <2>3, <2>4, <2>5, <2>6 DEF HoldingStates
      <4>2. CASE q # p
        <5>1. PICK k \in Labs : /\ projects[q].lab = k
                                /\ labs[k].project = q
                                /\ labs[k].state \in HoldingStates
          BY <3>1, <4>2, <2>6 DEF IInv, RentIsBacked
        <5>2. k # l
          BY <5>1, <1>1 DEF HoldingStates
        <5>. QED  BY <5>1, <5>2, <4>2, <2>5, <2>6
      <4>. QED  BY <4>1, <4>2
    <3>. QED  BY <3>1 DEF RentIsBacked
  <2>11. \A t \in CleanupTasks : CleanerReleases(t)'
    <3>1. ASSUME NEW t \in CleanupTasks PROVE CleanerReleases(t)'
      <4>. DEFINE c == cleaner[t]
      <4>1. CleanerReleases(t) /\ LabOf(t) \in Labs /\ cleaner'[t] = c
        BY TaskIdFacts DEF IInv
      <4>2. c.pc \notin {"idle", "load"} => Rented(LabOf(t)) /\ LabOf(t) # l
        BY <4>1, <1>2 DEF CleanerReleases
      <4>3. c.pc \in PastRelease => c.pc \notin {"idle", "load"}
        BY DEF PastRelease
      <4>4. /\ LabOf(t)' = LabOf(t) /\ PastRelease' = PastRelease
            /\ Rented(LabOf(t)) => Rented(LabOf(t))'
                                   /\ labs'[LabOf(t)].project = labs[LabOf(t)].project
        BY <4>1, <2>8 DEF LabOf, PastRelease, RowsKept
      <4>5. c.pc \in PastRelease /\ projects'[c.lab.project].state = "allocated" =>
                projects'[c.lab.project].lab # LabOf(t)
        <5>1. CASE c.lab.project = p
          BY <5>1, <4>2, <4>3, <2>4, <2>6
        <5>2. CASE c.lab.project # p
          <6>1. c.pc \in PastRelease => c.lab.project \in Projects
            BY <4>3, CleanerFacts
          <6>. QED  BY <5>2, <6>1, <4>1, <2>6 DEF CleanerReleases
        <5>. QED  BY <5>1, <5>2
      <4>. QED  BY <4>1, <4>2, <4>4, <4>5 DEF CleanerReleases
    <3>. QED  BY <3>1
  <2>12. \A r \in Requests : RequestKeepsProject(r)'
    BY <2>8 DEF IInv, RequestKeepsProject, RowsKept
  <2>13. /\ handoff' \in [Labs -> HandOffs] /\ verdict' \in [Labs -> Verdicts]
         /\ \A k \in Labs : k # l => handoff'[k] = handoff[k] /\ verdict'[k] = verdict[k]
    BY <2>1, ProvisioningFacts DEF Owes, Decides
  <2>14. \A k \in Labs : DeployIsRented(k)'
    BY <1>1, <2>7, <2>8, <2>13, DeployFrame, ProvisioningFacts DEF DeployIsRented
  <2>15. TypeOK'
    BY <1>1, <2>8, <2>13
       DEF IInv, TypeOK, QueueTypeOK, CleanupTypeOK, ProvisioningTypeOK, LabOpsTypeOK
  <2>. QED  BY <2>9, <2>10, <2>11, <2>12, <2>14, <2>15 DEF IInv
<1>4. CASE /\ SaveLab(l, Transition(NewLab(ts), "rejected", ts))
           /\ Decides(l, NoVerdict)
           /\ UNCHANGED <<projects, handoff>>
  <2>. DEFINE row == Transition(NewLab(ts), "rejected", ts)
  <2>1. row \in LabRows /\ row.state = "rejected"
    <3>1. "rejected" \in LabStates
      BY DEF LabStates
    <3>. QED  BY <1>1, <3>1, NewLabType, TransitionType
  <2>. HIDE DEF row
  <2>2. /\ labs' \in [Labs -> LabRows] /\ labs'[l] = row
        /\ \A k \in Labs : k # l => labs'[k] = labs[k]
    BY <1>4, <2>1, ProvisioningFacts DEF SaveLab, row
  <2>3. StorageTypeOK' /\ RowsKept /\ NoNewRent
    BY <1>1, <1>2, <1>4, <2>2, ProvisioningFacts
       DEF StorageTypeOK, RowsKept, NoNewRent, Rented
  <2>4. RentIsBacked'
    <3>1. ASSUME NEW q \in Projects, projects'[q].state = "allocated"
          PROVE  \E k \in Labs : /\ projects'[q].lab = k
                                 /\ labs'[k].project = q
                                 /\ labs'[k].state \in HoldingStates
      <4>1. PICK k \in Labs : /\ projects[q].lab = k
                              /\ labs[k].project = q
                              /\ labs[k].state \in HoldingStates
        BY <1>4, <3>1 DEF IInv, RentIsBacked
      <4>2. k # l
        BY <4>1, <1>1 DEF HoldingStates
      <4>. QED  BY <4>1, <4>2, <1>4, <2>2
    <3>. QED  BY <3>1 DEF RentIsBacked
  <2>5. LabsKeepProject'
    BY <2>1, <2>2 DEF IInv, LabsKeepProject, Rented, HoldingStates
  <2>6. /\ DeployIsRented(l)' /\ verdict' \in [Labs -> Verdicts]
        /\ \A k \in Labs : k # l => verdict'[k] = verdict[k]
    BY <1>1, <1>2, <1>4, ProvisioningFacts DEF DeployIsRented, Status, Decides, Outcomes
  <2>7. RentKept
    BY <2>3, <2>4, <2>5 DEF RentKept
  <2>. QED  BY <1>1, <1>4, <2>6, <2>7, ProvisioningFrame, ProvisioningFacts
<1>. QED  BY <1>11, <1>3, <1>4 DEF CreateLab, ts

\* A queue operation on the deploy task of l leaves the other deploys alone.
LEMMA DeployQueueTypes ==
    ASSUME IInv, NEW l \in Labs,
           \/ UNCHANGED tasks
           \/ Dequeue(Deploy(l)) \/ Complete(Deploy(l)) \/ Retry(Deploy(l))
           \/ Enqueue(Deploy(l))
    PROVE  /\ tasks' \in [TaskIds -> Tasks]
           /\ \A k \in Labs : k # l => tasks'[Deploy(k)] = tasks[Deploy(k)]
BY ProvisioningFacts, TaskIdFacts, QueueTypes

LEMMA EnqueueDeployKeeps ==
    ASSUME IInv, NEW l \in Labs, EnqueueDeploy(l) \/ EnqueueDeployLost(l),
           UNCHANGED <<cleaner, requests>>
    PROVE  IInv'
<1>1. Rented(l)
  BY ProvisioningFacts DEF EnqueueDeploy, EnqueueDeployLost, DeployIsRented
<1>2. /\ UNCHANGED <<labs, projects, now, exists, verdict>>
      /\ Owes(l, "none")
      /\ UNCHANGED tasks \/ Enqueue(Deploy(l))
      /\ faults' \in 0 .. MaxFaults
  BY ProvisioningFacts, FaultType DEF EnqueueDeploy, EnqueueDeployLost, storageVars
<1>3. /\ handoff' \in [Labs -> HandOffs] /\ verdict' \in [Labs -> Verdicts]
      /\ \A k \in Labs : k # l => handoff'[k] = handoff[k]
      /\ now' \in Nat /\ CloudTypeOK'
  BY <1>2, ProvisioningFacts DEF Owes, CloudTypeOK
<1>. QED  BY <1>1, <1>2, <1>3, DeployQueueTypes, DeployBookkeeping

LEMMA DeployStartKeeps ==
    ASSUME IInv, NEW l \in Labs, DeployStart(l), UNCHANGED <<cleaner, requests>>
    PROVE  IInv'
<1>1. Rented(l)
  BY ProvisioningFacts DEF DeployStart, DeployIsRented
<1>2. /\ UNCHANGED <<labs, projects, now, faults, exists, handoff, verdict>>
      /\ Dequeue(Deploy(l)) \/ Complete(Deploy(l))
  BY DEF DeployStart, storageVars
<1>3. /\ handoff' \in [Labs -> HandOffs] /\ verdict' \in [Labs -> Verdicts]
      /\ now' \in Nat /\ CloudTypeOK' /\ faults' \in 0 .. MaxFaults
  BY <1>2, ProvisioningFacts DEF CloudTypeOK
<1>. QED  BY <1>1, <1>2, <1>3, DeployQueueTypes, DeployBookkeeping

LEMMA DeployEndsKeeps ==
    ASSUME IInv, NEW l \in Labs, DeploySucceeds(l) \/ DeployFails(l),
           UNCHANGED <<cleaner, requests>>
    PROVE  IInv'
<1>1. Rented(l)
  BY ProvisioningFacts DEF DeploySucceeds, DeployFails, DeployRunning, DeployIsRented
<1>2. PICK outcome \in {"ready", "failed"}, created \in SUBSET Handles :
          /\ Decides(l, [state |-> outcome, ts |-> Now])
          /\ Created(l, created)
  <2>1. CASE DeploySucceeds(l)
    BY <2>1 DEF DeploySucceeds
  <2>2. CASE DeployFails(l)
    <3>1. Partial \subseteq SUBSET Handles
      BY DEF Partial, Handles, ProviderHandles
    <3>. QED  BY <2>2, <3>1 DEF DeployFails
  <2>. QED  BY <2>1, <2>2
<1>3. now' = Now /\ UNCHANGED <<labs, projects, tasks, faults, handoff>>
  BY DEF DeploySucceeds, DeployFails, queueVars
<1>4. [state |-> outcome, ts |-> Now] \in Verdicts
  BY ProvisioningFacts DEF Verdicts
<1>5. /\ verdict' \in [Labs -> Verdicts]
      /\ \A k \in Labs : k # l => verdict'[k] = verdict[k]
  BY <1>2, <1>4, ProvisioningFacts DEF Decides
<1>6. CloudTypeOK'
  BY <1>2, ProvisioningFacts DEF CloudTypeOK, Created
<1>7. handoff' \in [Labs -> HandOffs] /\ now' \in Nat /\ faults' \in 0 .. MaxFaults
  BY <1>3, ProvisioningFacts
<1>. QED  BY <1>1, <1>3, <1>5, <1>6, <1>7, DeployQueueTypes, DeployBookkeeping

\* The row a deploy saves: the outcome, stamped with the time of the verdict.
LEMMA DeployRowFacts ==
    ASSUME IInv, NEW l \in Labs
    PROVE  /\ DeployRow(l) \in LabRows
           /\ DeployRow(l).project = labs[l].project
           /\ DeployRow(l).state = IF verdict[l].state = "ready" THEN "ready" ELSE "failed"
           /\ DeployRow(l).updated = verdict[l].ts
<1>. DEFINE row    == DeployRow(l)
            loaded == [labs[l] EXCEPT !.state = "deploying", !.known = {}]
<1>1. labs[l] \in LabRows /\ verdict[l] \in Verdicts
  BY ProvisioningFacts
<1>2. loaded \in LabRows /\ loaded.project = labs[l].project
  BY <1>1 DEF LabRows, LabStates
<1>3. verdict[l].ts \in Nat /\ "failed" \in LabStates /\ Handles \in SUBSET Handles
  BY <1>1 DEF Verdicts, LabStates
<1>. HIDE DEF loaded
<1>4. row = IF verdict[l].state = "ready"
            THEN MarkReady(loaded, Handles, verdict[l].ts)
            ELSE Transition(loaded, "failed", verdict[l].ts)
  BY DEF DeployRow, loaded
<1>. HIDE DEF row
<1>5. CASE verdict[l].state = "ready"
  <2>1. row = MarkReady(loaded, Handles, verdict[l].ts)
    BY <1>4, <1>5
  <2>. QED  BY <1>2, <1>3, <1>5, <2>1, MarkReadyType DEF row
<1>6. CASE verdict[l].state # "ready"
  <2>1. row = Transition(loaded, "failed", verdict[l].ts)
    BY <1>4, <1>6
  <2>. QED  BY <1>2, <1>3, <1>6, <2>1, TransitionType DEF row
<1>. QED  BY <1>5, <1>6

LEMMA DeploySavesKeeps ==
    ASSUME IInv, NEW l \in Labs, DeploySaves(l), UNCHANGED <<cleaner, requests>>
    PROVE  IInv'
<1>1. Rented(l) /\ labs[l] \in LabRows /\ verdict[l] \in Verdicts
  BY ProvisioningFacts DEF DeploySaves, DeployIsRented
<1>2. UNCHANGED <<projects, now, faults, exists>> /\ Decides(l, NoVerdict)
  BY DEF DeploySaves
<1>3. /\ verdict' \in [Labs -> Verdicts]
      /\ \A k \in Labs : k # l => verdict'[k] = verdict[k]
      /\ now' \in Nat /\ faults' \in 0 .. MaxFaults /\ CloudTypeOK'
  BY <1>2, ProvisioningFacts DEF Decides, CloudTypeOK
<1>4. CASE /\ SaveLab(l, DeployRow(l))
           /\ Owes(l, IF verdict[l].state = "ready" THEN "timer" ELSE "compensate")
           /\ UNCHANGED tasks
  <2>. DEFINE row == DeployRow(l)
  <2>3. row \in LabRows /\ row.project = labs[l].project /\ row.state \in {"ready", "failed"}
    BY <1>1, DeployRowFacts
  <2>. HIDE DEF row
  <2>4. row.state \in HoldingStates
    BY <2>3 DEF HoldingStates
  <2>5. RentKept
    BY <1>1, <1>2, <1>3, <1>4, <2>3, <2>4, LabSaved DEF row
  <2>6. DeployIsRented(l)'
    BY <1>1, <2>5 DEF RentKept, RowsKept, DeployIsRented
  <2>7. /\ handoff' \in [Labs -> HandOffs]
        /\ \A k \in Labs : k # l => handoff'[k] = handoff[k]
    BY <1>4, ProvisioningFacts DEF Owes
  <2>. QED  BY <1>3, <1>4, <2>5, <2>6, <2>7, DeployQueueTypes, ProvisioningFrame
<1>5. CASE Retry(Deploy(l)) /\ UNCHANGED <<labs, handoff>>
  <2>1. handoff' \in [Labs -> HandOffs]
    BY <1>5, ProvisioningFacts
  <2>. QED  BY <1>1, <1>2, <1>3, <1>5, <2>1, DeployQueueTypes, DeployBookkeeping
<1>. QED  BY <1>4, <1>5 DEF DeploySaves
LEMMA DeployHandOffKeeps ==
    ASSUME IInv, NEW l \in Labs, DeployHandOff(l), UNCHANGED <<cleaner, requests>>
    PROVE  IInv'
<1>. DEFINE task   == <<l, handoff[l]>>
            status == IF handoff[l] = "timer" THEN "scheduled" ELSE "pending"
<1>1. Rented(l) /\ handoff[l] \in {"timer", "compensate"}
  BY ProvisioningFacts DEF DeployHandOff, DeployIsRented
<1>2. /\ UNCHANGED <<labs, projects, now, faults, exists, verdict>>
      /\ Owes(l, "none")
      /\ tasks' = [Put(task, status) EXCEPT ![Deploy(l)] = NoTask]
  BY DEF DeployHandOff, storageVars
<1>3. task \in TaskIds /\ status \in TaskStatus /\ \A k \in Labs : task # Deploy(k)
  BY <1>1 DEF TaskIds, TaskKinds, CleanupKinds, TaskStatus, Deploy
<1>4. /\ Put(task, status) \in [TaskIds -> Tasks]
      /\ \A u \in TaskIds : u # task => Put(task, status)[u] = tasks[u]
  <2>. HIDE DEF task, status
  <2>. QED  BY <1>3, ProvisioningFacts, QueueAssumption DEF Put, Tasks
<1>5. NoTask \in Tasks
  BY QueueAssumption DEF NoTask, Tasks, TaskStatus
<1>. HIDE DEF task, status
<1>6. /\ tasks' \in [TaskIds -> Tasks]
      /\ \A k \in Labs : k # l => tasks'[Deploy(k)] = tasks[Deploy(k)]
  BY <1>2, <1>3, <1>4, <1>5, TaskIdFacts
<1>7. /\ handoff' \in [Labs -> HandOffs] /\ verdict' \in [Labs -> Verdicts]
      /\ \A k \in Labs : k # l => handoff'[k] = handoff[k]
      /\ now' \in Nat /\ CloudTypeOK' /\ faults' \in 0 .. MaxFaults
  BY <1>2, ProvisioningFacts DEF Owes, CloudTypeOK
<1>. QED  BY <1>1, <1>2, <1>6, <1>7, DeployBookkeeping

LEMMA DeployFaultKeeps ==
    ASSUME IInv, NEW l \in Labs, DeployHandOffLost(l) \/ DeployCrash(l),
           UNCHANGED <<cleaner, requests>>
    PROVE  IInv'
<1>1. Rented(l)
  BY ProvisioningFacts DEF DeployHandOffLost, DeployCrash, DeployIsRented
<1>2. /\ UNCHANGED <<labs, projects, now, exists>>
      /\ Owes(l, "none")
      /\ UNCHANGED verdict \/ Decides(l, NoVerdict)
      /\ Complete(Deploy(l)) \/ Retry(Deploy(l))
      /\ faults' \in 0 .. MaxFaults
  BY ProvisioningFacts, FaultType DEF DeployHandOffLost, DeployCrash, storageVars
<1>3. /\ handoff' \in [Labs -> HandOffs] /\ verdict' \in [Labs -> Verdicts]
      /\ \A k \in Labs : k # l => handoff'[k] = handoff[k] /\ verdict'[k] = verdict[k]
      /\ now' \in Nat /\ CloudTypeOK'
  BY <1>2, ProvisioningFacts DEF Owes, Decides, CloudTypeOK
<1>. QED  BY <1>1, <1>2, <1>3, DeployQueueTypes, DeployBookkeeping

LEMMA LabMovesKeeps ==
    ASSUME IInv, NEW l \in Labs, LabMoves(l)
    PROVE  IInv'
BY AdmitLabKeeps, CreateLabKeeps, EnqueueDeployKeeps, DeployStartKeeps, DeployEndsKeeps,
   DeploySavesKeeps, DeployHandOffKeeps, DeployFaultKeeps
   DEF LabMoves, ProvisioningNext, DeployStep

-----------------------------------------------------------------------------
(* The requests of users and administrators.                               *)

\* A step of request r that keeps the rent and leaves r in order preserves the
\* invariant.
LEMMA RequestStepFrame ==
    ASSUME IInv, NEW r \in Requests, RentKept,
           requests' \in [Requests -> RequestStates],
           \A s \in Requests : s # r => requests'[s] = requests[s],
           RequestKeepsProject(r)',
           tasks' \in [TaskIds -> Tasks], faults' \in 0 .. MaxFaults,
           \A l \in Labs : tasks'[Deploy(l)] = tasks[Deploy(l)],
           UNCHANGED <<exists, cleaner, handoff, verdict>>
    PROVE  IInv'
<1>1. TypeOK'
  BY DEF IInv, TypeOK, RentKept, QueueTypeOK, CloudTypeOK, CleanupTypeOK, ProvisioningTypeOK,
     LabOpsTypeOK
<1>2. \A l \in Labs : DeployIsRented(l)'
  BY DeployFrame DEF IInv, RentKept
<1>3. \A t \in CleanupTasks : CleanerReleases(t)'
  BY CleanerFrame
<1>4. \A s \in Requests : RequestKeepsProject(s)'
  BY RequestFrame
<1>. QED  BY <1>1, <1>2, <1>3, <1>4 DEF IInv, RentKept

LEMMA RequestFacts ==
    ASSUME IInv, NEW r \in Requests
    PROVE  /\ requests \in [Requests -> RequestStates] /\ requests[r] \in RequestStates
           /\ RequestKeepsProject(r)
           /\ NewRequest \in RequestStates
           /\ \A q \in RequestStates : /\ q.row \in LabRows /\ q.project \in ProjectRows
                                       /\ q.ts \in Nat /\ q.command \in LabCommands \cup {"none"}
BY NewLabType, FreeProjectType
   DEF IInv, TypeOK, LabOpsTypeOK, NewRequest, RequestStates

LEMMA ReplyEnds ==
    ASSUME IInv, NEW r \in Requests, Reply(r)
    PROVE  /\ requests' \in [Requests -> RequestStates]
           /\ requests'[r].pc = "done" /\ requests'[r].command = requests[r].command
           /\ \A s \in Requests : s # r => requests'[s] = requests[s]
<1>. DEFINE q == [NewRequest EXCEPT !.pc = "done", !.command = requests[r].command]
<1>1. q \in RequestStates /\ q.pc = "done" /\ q.command = requests[r].command
  BY RequestFacts DEF NewRequest, RequestStates
<1>. QED  BY <1>1, RequestFacts DEF Reply

\* The request ends: it has nothing left to keep in order.
LEMMA ReplyKeeps ==
    ASSUME IInv, NEW r \in Requests, RentKept, Reply(r),
           tasks' \in [TaskIds -> Tasks], faults' \in 0 .. MaxFaults,
           \A l \in Labs : tasks'[Deploy(l)] = tasks[Deploy(l)],
           UNCHANGED <<exists, cleaner, handoff, verdict>>
    PROVE  IInv'
<1>1. RequestKeepsProject(r)'
  BY ReplyEnds DEF RequestKeepsProject
<1>. QED  BY <1>1, ReplyEnds, RequestStepFrame

\* The request goes on, in a state q that is in order.
LEMMA RequestGoesOn ==
    ASSUME IInv, NEW r \in Requests, RentKept, NEW q \in RequestStates,
           requests' = [requests EXCEPT ![r] = q],
           RequestKeepsProject(r)',
           UNCHANGED <<tasks, faults, exists, cleaner, handoff, verdict>>
    PROVE  IInv'
<1>1. /\ requests' \in [Requests -> RequestStates]
      /\ \A s \in Requests : s # r => requests'[s] = requests[s]
  BY RequestFacts
<1>2. tasks' \in [TaskIds -> Tasks] /\ faults' \in 0 .. MaxFaults
  BY ProvisioningFacts
<1>. QED  BY <1>1, <1>2, RequestStepFrame
\* Where the edges into frozen and ready start.
LEMMA EdgesIn ==
    ASSUME NEW state
    PROVE  /\ CanTransition(state, "frozen") => state = "ready"
           /\ CanTransition(state, "ready") => state \in {"deploying", "checking", "frozen"}
BY DEF CanTransition, AllowedTransitions, LabStates

LEMMA HoldingFacts ==
    /\ "cleaning" \in LabStates /\ "frozen" \in LabStates /\ "ready" \in LabStates
    /\ "cleaning" \in HoldingStates /\ "frozen" \in HoldingStates
    /\ "ready" \in HoldingStates /\ "failed" \in HoldingStates
    /\ "deploying" \in HoldingStates /\ "checking" \in HoldingStates
BY DEF LabStates, HoldingStates

\* A command is accepted only by a lab that was given a project, and leaves it so.
LEMMA AcceptedRow ==
    ASSUME NEW command \in LifecycleCommands, NEW row \in LabRows, NEW ts \in Nat,
           Accepts(command, row.state)
    PROVE  /\ row.state \in HoldingStates
           /\ Applied(command, row, ts) \in LabRows
           /\ Applied(command, row, ts).state \in HoldingStates
           /\ Applied(command, row, ts).project = row.project
<1>1. CASE command = "stop"
  <2>1. row.state \in {"ready", "frozen", "failed"}
    BY <1>1 DEF Accepts
  <2>2. Applied(command, row, ts) = Transition(row, "cleaning", ts)
    BY <1>1 DEF Applied
  <2>. QED  BY <2>1, <2>2, HoldingFacts, TransitionType
<1>2. CASE command = "freeze"
  <2>1. CanTransition(row.state, "frozen")
    BY <1>2 DEF Accepts
  <2>2. Applied(command, row, ts) = Transition(row, "frozen", ts)
    BY <1>2 DEF Applied
  <2>. QED  BY <2>1, <2>2, EdgesIn, HoldingFacts, TransitionType
<1>3. CASE command = "unfreeze"
  <2>1. CanTransition(row.state, "ready")
    BY <1>3 DEF Accepts
  <2>2. Applied(command, row, ts) = Transition(row, "ready", ts)
    BY <1>3 DEF Applied
  <2>. QED  BY <2>1, <2>2, EdgesIn, HoldingFacts, TransitionType
<1>4. CASE command = "extend"
  <2>1. row.state = "ready"
    BY <1>4 DEF Accepts
  <2>2. Applied(command, row, ts) = ExtendCleanup(row, ts)
    BY <1>4 DEF Applied
  <2>. QED  BY <2>1, <2>2, HoldingFacts, ExtendCleanupType
<1>. QED  BY <1>1, <1>2, <1>3, <1>4 DEF LifecycleCommands

LEMMA RequestLoadsLabKeeps ==
    ASSUME IInv, NEW r \in Requests, RequestLoadsLab(r),
           UNCHANGED <<exists, cleaner, handoff, verdict>>
    PROVE  IInv'
<1>1. PICK command \in LabCommands \cap LifecycleCommands, l \in Labs :
          requests' = [requests EXCEPT ![r] = [@ EXCEPT !.pc = "lab", !.command = command,
                                                        !.lab = l, !.row = labs[l]]]
  BY DEF RequestLoadsLab
<1>. DEFINE q == [requests[r] EXCEPT !.pc = "lab", !.command = command,
                                     !.lab = l, !.row = labs[l]]
<1>2. q \in RequestStates /\ q.pc = "lab" /\ q.command = command /\ q.lab = l
      /\ q.row = labs[l]
  BY RequestFacts, ProvisioningFacts DEF RequestStates
<1>3. requests' = [requests EXCEPT ![r] = q] /\ requests'[r] = q
  BY <1>1, RequestFacts
<1>4. UNCHANGED <<labs, projects, now, tasks, faults>> /\ now' \in Nat
  BY ProvisioningFacts DEF RequestLoadsLab, storageVars, queueVars
<1>5. RentKept
  BY <1>4, RowsUntouched
<1>6. Accepts(command, labs[l].state) => labs[l].state \in HoldingStates
  BY ProvisioningFacts, AcceptedRow
<1>. HIDE DEF q
<1>7. RequestKeepsProject(r)'
  BY <1>2, <1>3, <1>4, <1>6 DEF RequestKeepsProject, Rented
<1>. QED  BY <1>2, <1>3, <1>4, <1>5, <1>7, RequestGoesOn

LEMMA RequestChecksKeeps ==
    ASSUME IInv, NEW r \in Requests, RequestChecks(r),
           UNCHANGED <<exists, cleaner, handoff, verdict>>
    PROVE  IInv'
<1>. DEFINE q == requests[r]
<1>1. q.pc = "lab" /\ now' = Now /\ UNCHANGED <<labs, projects, tasks, faults>>
  BY DEF RequestChecks, queueVars
<1>2. RentKept
  BY <1>1, RowsUntouched, ProvisioningFacts
<1>3. CASE Accepts(q.command, q.row.state)
  <2>. DEFINE row  == Applied(q.command, q.row, Now)
              next == [q EXCEPT !.pc = "save", !.row = row]
  <2>1. /\ q.command \in LifecycleCommands /\ q.lab \in Labs
        /\ Rented(q.lab) /\ q.row.project = labs[q.lab].project
    BY <1>1, <1>3, RequestFacts DEF RequestKeepsProject
  <2>2. row \in LabRows /\ row.state \in HoldingStates /\ row.project = q.row.project
    BY <1>3, <2>1, RequestFacts, ProvisioningFacts, AcceptedRow
  <2>3. requests' = [requests EXCEPT ![r].pc = "save", ![r].row = row]
    BY <1>3, RequestFacts DEF RequestChecks
  <2>. HIDE DEF row
  <2>4. /\ next \in RequestStates /\ next.pc = "save" /\ next.command = q.command
        /\ next.lab = q.lab /\ next.row = row
    BY <2>2, RequestFacts DEF RequestStates
  <2>5. requests' = [requests EXCEPT ![r] = next] /\ requests'[r] = next
    BY <2>3, RequestFacts
  <2>. HIDE DEF next
  <2>6. RequestKeepsProject(r)'
    BY <1>1, <2>1, <2>2, <2>4, <2>5 DEF RequestKeepsProject, Rented
  <2>. QED  BY <1>1, <1>2, <2>4, <2>5, <2>6, RequestGoesOn
<1>4. CASE ~ Accepts(q.command, q.row.state)
  BY <1>1, <1>2, <1>4, ReplyKeeps, ProvisioningFacts DEF RequestChecks
<1>. QED  BY <1>3, <1>4

LEMMA RequestSavesLabKeeps ==
    ASSUME IInv, NEW r \in Requests, RequestSavesLab(r),
           UNCHANGED <<exists, cleaner, handoff, verdict>>
    PROVE  IInv'
<1>. DEFINE q    == requests[r]
            next == [q EXCEPT !.pc = "enqueue"]
<1>1. q.pc = "save" /\ UNCHANGED <<projects, now, tasks, faults>> /\ now' \in Nat
  BY ProvisioningFacts DEF RequestSavesLab, queueVars
<1>2. /\ q.lab \in Labs /\ q.row \in LabRows /\ Rented(q.lab)
      /\ q.row.project = labs[q.lab].project /\ q.row.state \in HoldingStates
  BY <1>1, RequestFacts DEF RequestKeepsProject
<1>3. SaveLab(q.lab, q.row) \/ UNCHANGED labs
  BY DEF RequestSavesLab
<1>4. RentKept
  BY <1>1, <1>2, <1>3, LabSaved, RowsUntouched
<1>5. CASE Reply(r)
  BY <1>1, <1>4, <1>5, ReplyKeeps, ProvisioningFacts
<1>6. CASE requests' = [requests EXCEPT ![r].pc = "enqueue"]
  <2>1. next \in RequestStates /\ next.pc = "enqueue" /\ next.lab = q.lab
    BY RequestFacts DEF RequestStates
  <2>2. requests' = [requests EXCEPT ![r] = next] /\ requests'[r] = next
    BY <1>6, RequestFacts
  <2>. HIDE DEF next
  <2>3. RequestKeepsProject(r)'
    BY <1>2, <2>1, <2>2 DEF RequestKeepsProject
  <2>. QED  BY <1>1, <1>4, <2>1, <2>2, <2>3, RequestGoesOn
<1>. QED  BY <1>5, <1>6 DEF RequestSavesLab

LEMMA StopEnqueueKeeps ==
    ASSUME IInv, NEW r \in Requests, StopEnqueues(r) \/ StopEnqueueLost(r),
           UNCHANGED <<exists, cleaner, handoff, verdict>>
    PROVE  IInv'
<1>. DEFINE t == <<requests[r].lab, "manual">>
<1>1. requests[r].pc = "enqueue" /\ Reply(r) /\ UNCHANGED <<labs, projects, now>>
  BY DEF StopEnqueues, StopEnqueueLost, storageVars
<1>2. t \in TaskIds /\ \A l \in Labs : t # Deploy(l)
  BY <1>1, RequestFacts DEF RequestKeepsProject, TaskIds, TaskKinds, CleanupKinds, Deploy
<1>3. RentKept
  BY <1>1, RowsUntouched, ProvisioningFacts
<1>4. /\ Enqueue(t) \/ UNCHANGED tasks
      /\ faults' \in 0 .. MaxFaults
  BY ProvisioningFacts, FaultType DEF StopEnqueues, StopEnqueueLost
<1>. HIDE DEF t
<1>5. /\ tasks' \in [TaskIds -> Tasks]
      /\ \A l \in Labs : tasks'[Deploy(l)] = tasks[Deploy(l)]
  BY <1>2, <1>4, QueueTypes, ProvisioningFacts, TaskIdFacts
<1>. QED  BY <1>1, <1>3, <1>4, <1>5, ReplyKeeps
LEMMA RequestStampsKeeps ==
    ASSUME IInv, NEW r \in Requests, RequestStamps(r),
           UNCHANGED <<exists, cleaner, handoff, verdict>>
    PROVE  IInv'
<1>1. PICK command \in LabCommands \cap PoolCommands, p \in Projects :
          requests' = [requests EXCEPT ![r] =
                         [@ EXCEPT !.pc = "load", !.ts = Now, !.command = command, !.id = p]]
  BY DEF RequestStamps
<1>. DEFINE q == [requests[r] EXCEPT !.pc = "load", !.ts = Now, !.command = command,
                                     !.id = p]
<1>2. q \in RequestStates /\ q.pc = "load" /\ q.command = command /\ q.id = p
  BY RequestFacts, ProvisioningFacts DEF RequestStates
<1>3. requests' = [requests EXCEPT ![r] = q] /\ requests'[r] = q
  BY <1>1, RequestFacts
<1>4. now' = Now /\ UNCHANGED <<labs, projects, tasks, faults>>
  BY DEF RequestStamps, queueVars
<1>5. RentKept
  BY <1>4, RowsUntouched, ProvisioningFacts
<1>. HIDE DEF q
<1>6. RequestKeepsProject(r)'
  BY <1>2, <1>3 DEF RequestKeepsProject
<1>. QED  BY <1>2, <1>3, <1>4, <1>5, <1>6, RequestGoesOn

LEMMA RequestLoadsProjectKeeps ==
    ASSUME IInv, NEW r \in Requests, RequestLoadsProject(r),
           UNCHANGED <<exists, cleaner, handoff, verdict>>
    PROVE  IInv'
<1>. DEFINE q    == requests[r]
            row  == projects[q.id]
            copy == PoolApplied(q.command, row, q.ts)
            next == [q EXCEPT !.pc = "project", !.project = copy]
<1>1. q.pc = "load" /\ UNCHANGED <<labs, projects, now, tasks, faults>> /\ now' \in Nat
  BY ProvisioningFacts DEF RequestLoadsProject, storageVars, queueVars
<1>2. RentKept
  BY <1>1, RowsUntouched
<1>3. q.id \in Projects /\ row \in ProjectRows /\ q.ts \in Nat
  BY <1>1, RequestFacts, ProvisioningFacts DEF RequestKeepsProject
<1>4. copy \in ProjectRows /\ copy.state # "allocated"
  BY <1>3, QuarantineType, MarkCleanType DEF PoolApplied
<1>5. CASE requests' = [requests EXCEPT ![r].pc = "project", ![r].project = copy]
  <2>. HIDE DEF copy
  <2>1. next \in RequestStates /\ next.pc = "project" /\ next.id = q.id
        /\ next.project = copy
    BY <1>4, RequestFacts DEF RequestStates
  <2>2. requests' = [requests EXCEPT ![r] = next] /\ requests'[r] = next
    BY <1>5, RequestFacts
  <2>. HIDE DEF next
  <2>3. RequestKeepsProject(r)'
    BY <1>3, <1>4, <2>1, <2>2 DEF RequestKeepsProject
  <2>. QED  BY <1>1, <1>2, <2>1, <2>2, <2>3, RequestGoesOn
<1>6. CASE Reply(r)
  BY <1>1, <1>2, <1>6, ReplyKeeps, ProvisioningFacts
<1>. QED  BY <1>5, <1>6 DEF RequestLoadsProject

LEMMA RequestSavesProjectKeeps ==
    ASSUME IInv, NEW r \in Requests, RequestSavesProject(r),
           UNCHANGED <<exists, cleaner, handoff, verdict>>
    PROVE  IInv'
<1>. DEFINE q == requests[r]
<1>1. /\ q.pc = "project" /\ UNCHANGED <<labs, now, tasks, faults>> /\ now' \in Nat
      /\ Reply(r)
      /\ SaveProject(q.id, q.project) \/ UNCHANGED projects
  BY ProvisioningFacts DEF RequestSavesProject, queueVars
<1>2. q.id \in Projects /\ q.project \in ProjectRows /\ q.project.state # "allocated"
  BY <1>1, RequestFacts DEF RequestKeepsProject
<1>3. RentKept
  BY <1>1, <1>2, ProjectSaved, RowsUntouched
<1>. QED  BY <1>1, <1>3, ReplyKeeps, ProvisioningFacts

LEMMA RequestMovesKeeps ==
    ASSUME IInv, NEW r \in Requests, RequestMoves(r)
    PROVE  IInv'
BY RequestLoadsLabKeeps, RequestChecksKeeps, RequestSavesLabKeeps, StopEnqueueKeeps,
   RequestStampsKeeps, RequestLoadsProjectKeeps, RequestSavesProjectKeeps
   DEF RequestMoves, LabOpsNext, RequestStep

-----------------------------------------------------------------------------
(* The specification.                                                      *)

LEMMA TimerFiresKeeps ==
    ASSUME IInv, NEW t \in TaskIds, TimerFires(t)
    PROVE  IInv'
<1>1. /\ UNCHANGED <<labs, projects, now, faults, exists, cleaner, handoff, verdict, requests>>
      /\ Fire(t) /\ now' \in Nat
  BY ProvisioningFacts DEF TimerFires, storageVars
<1>2. RentKept
  BY <1>1, RowsUntouched
<1>3. tasks' \in [TaskIds -> Tasks]
  BY <1>1, QueueTypes, ProvisioningFacts
<1>4. TypeOK'
  BY <1>1, <1>2, <1>3 DEF IInv, TypeOK, RentKept, QueueTypeOK, CloudTypeOK, CleanupTypeOK,
     ProvisioningTypeOK, LabOpsTypeOK
<1>5. \A l \in Labs : DeployIsRented(l)'
  <2>1. \A l \in Labs : tasks'[Deploy(l)].status # "absent" =>
                           tasks[Deploy(l)].status # "absent"
    BY <1>1, <1>3, TaskIdFacts, QueueTypes, ProvisioningFacts DEF Fire, Status
  <2>. QED  BY <1>1, <1>2, <2>1 DEF IInv, RentKept, RowsKept, DeployIsRented, Status
<1>6. \A u \in CleanupTasks : CleanerReleases(u)'
  BY <1>1, <1>2, CleanerFrame
<1>7. \A r \in Requests : RequestKeepsProject(r)'
  BY <1>1, <1>2, RequestFrame
<1>. QED  BY <1>2, <1>4, <1>5, <1>6, <1>7 DEF IInv, RentKept

LEMMA InitEstablishes == Init => IInv
<1>. SUFFICES ASSUME Init PROVE IInv
  OBVIOUS
<1>. USE DEF Init, StorageInit, QueueInit, CloudInit, CleanupInit, ProvisioningInit, LabOpsInit
<1>1. StorageTypeOK /\ CloudTypeOK
  BY NewLabType, FreeProjectType DEF StorageTypeOK, CloudTypeOK
<1>2. QueueTypeOK
  BY QueueAssumption DEF QueueTypeOK, Tasks, TaskStatus, NoTask
<1>3. CleanupTypeOK
  BY CleanerTypes DEF CleanupTypeOK
<1>4. ProvisioningTypeOK
  BY DEF ProvisioningTypeOK, HandOffs, Verdicts, NoVerdict
<1>5. LabOpsTypeOK
  BY NewLabType, FreeProjectType DEF LabOpsTypeOK, RequestStates, NewRequest
<1>6. RentIsBacked /\ LabsKeepProject
  BY FreeProjectType DEF RentIsBacked, LabsKeepProject, Rented, HoldingStates, NoLabRow
<1>7. \A l \in Labs : DeployIsRented(l)
  BY TaskIdFacts DEF DeployIsRented, NoVerdict, Outcomes, Status, NoTask
<1>8. \A t \in CleanupTasks : CleanerReleases(t)
  BY DEF CleanerReleases, IdleCleaner, PastRelease
<1>9. \A r \in Requests : RequestKeepsProject(r)
  BY DEF RequestKeepsProject, NewRequest
<1>. QED  BY <1>1, <1>2, <1>3, <1>4, <1>5, <1>6, <1>7, <1>8, <1>9 DEF IInv, TypeOK

LEMMA NextKeeps == IInv /\ [Next]_vars => IInv'
<1>. SUFFICES ASSUME IInv, [Next]_vars PROVE IInv'
  OBVIOUS
<1>1. CASE UNCHANGED vars
  BY <1>1 DEF vars, storageVars, queueVars, IInv, TypeOK, StorageTypeOK, QueueTypeOK,
     CloudTypeOK, CleanupTypeOK, ProvisioningTypeOK, LabOpsTypeOK, RentIsBacked,
     LabsKeepProject, DeployIsRented, Rented, Status, CleanerReleases, RequestKeepsProject
<1>. QED
  BY <1>1, CleanerMovesKeeps, LabMovesKeeps, RequestMovesKeeps, TimerFiresKeeps DEF Next

\* The inductive invariant holds for every environment: any number of labs,
\* projects, requests, retries and faults.
THEOREM InvariantHolds == Spec => []IInv
BY InitEstablishes, NextKeeps, PTL DEF Spec

\* The types of every component's variables.
THEOREM TypeCorrect == Spec => []TypeOK
<1>1. IInv => TypeOK
  BY DEF IInv
<1>. QED  BY <1>1, InvariantHolds, PTL

\* A project counted as allocated is always backed by an unfinished lab that holds it.
THEOREM RentAlwaysBacked == Spec => []RentIsBacked
<1>1. IInv => RentIsBacked
  BY DEF IInv
<1>. QED  BY <1>1, InvariantHolds, PTL

-----------------------------------------------------------------------------
(* Only legal transitions, when no user's request interferes.  The faults  *)
(* stay: crashes, refused calls and retries of any number.                 *)

\* What the order of one lab's deploy and cleanup asks of that lab.
LabInOrder(l) ==
    /\ DeployInOrder(l)
    /\ \A t \in CleanupTasks : LabOf(t) = l => CleanupFollows(t) /\ CleanerIsAlone(t)

\* The step leaves the lab, its tasks and its cleanups where they were.
NotMoved(l) ==
    /\ labs'[l].state = labs[l].state
    /\ handoff'[l] = handoff[l] /\ verdict'[l] = verdict[l]
    /\ \A t \in TaskIds : LabOf(t) = l => tasks'[t].status = tasks[t].status
    /\ \A t \in CleanupTasks : LabOf(t) = l => cleaner'[t].pc = cleaner[t].pc

LegalMove(l) ==
    labs'[l].state # labs[l].state /\ labs[l].state # "absent" =>
        CanTransition(labs[l].state, labs'[l].state)

NoLabRequests == \A r \in Requests : requests[r].pc \notin {"lab", "save", "enqueue"}

\* What both steps of a lab and steps elsewhere leave behind.
LegalStep == LegalIInv' /\ \A l \in Labs : LegalMove(l)

LEMMA TasksOfLab ==
    /\ \A l \in Labs : LabOf(Deploy(l)) = l
    /\ \A t \in TaskIds : LabOf(t) \in Labs
    /\ \A t \in TaskIds : t \in CleanupTasks \/ t = Deploy(LabOf(t))
BY DEF CleanupTasks, TaskIds, CleanupKinds, TaskKinds, LabOf, Deploy

LEMMA OrderFrame ==
    ASSUME NEW l \in Labs, LabInOrder(l), NotMoved(l)
    PROVE  LabInOrder(l)'
<1>1. DeployInOrder(l)'
  BY TaskIdFacts, TasksOfLab DEF LabInOrder, NotMoved, DeployInOrder, Status
<1>2. ASSUME NEW t \in CleanupTasks, LabOf(t) = l
      PROVE  CleanupFollows(t)' /\ CleanerIsAlone(t)'
  <2>1. /\ CleanupFollows(t) /\ CleanerIsAlone(t)
        /\ cleaner'[t].pc = cleaner[t].pc /\ tasks'[t].status = tasks[t].status
        /\ labs'[l].state = labs[l].state /\ handoff'[l] = handoff[l]
    BY <1>2, TaskIdFacts DEF LabInOrder, NotMoved
  <2>2. \A u \in CleanupTasks : LabOf(u) = l => tasks'[u].status = tasks[u].status
    BY TaskIdFacts DEF NotMoved
  <2>. QED  BY <1>2, <2>1, <2>2 DEF CleanupFollows, CleanerIsAlone, At, Status
<1>. QED  BY <1>1, <1>2 DEF LabInOrder

\* A step of lab l that leaves l in order and moves no other lab.
LEMMA LegalFrame ==
    ASSUME LegalIInv, NEW l \in Labs, LabInOrder(l)', LegalMove(l),
           \A k \in Labs : k # l => NotMoved(k), NoLabRequests'
    PROVE  LegalStep
<1>1. \A k \in Labs : LabInOrder(k)'
  BY OrderFrame, TaskIdFacts DEF LegalIInv, LabInOrder
<1>2. \A k \in Labs : LegalMove(k)
  BY DEF LegalMove, NotMoved
<1>3. \A k \in Labs : DeployInOrder(k)'
  BY <1>1 DEF LabInOrder
<1>4. \A t \in CleanupTasks : CleanupFollows(t)' /\ CleanerIsAlone(t)'
  BY <1>1, TaskIdFacts DEF LabInOrder
<1>. QED  BY <1>2, <1>3, <1>4 DEF LegalStep, LegalIInv, NoLabRequests

\* What each operation of the queue does to the status of its task.
LEMMA QueueStatus ==
    ASSUME QueueTypeOK, NEW t \in TaskIds
    PROVE  /\ Dequeue(t) => tasks[t].status = "pending" /\ tasks'[t].status = "active"
           /\ Complete(t) => tasks'[t].status = "absent"
           /\ Retry(t) => tasks'[t].status \in {"pending", "archived"}
           /\ Fire(t) => tasks[t].status = "scheduled" /\ tasks'[t].status = "pending"
           /\ Enqueue(t) => /\ tasks'[t].status # "absent"
                            /\ tasks[t].status = "absent" => tasks'[t].status = "pending"
BY SMTT(30), QueueAssumption DEF QueueTypeOK, Dequeue, Complete, Retry, Fire, Enqueue,
   Put, Tasks, TaskStatus, NoTask, Status

\* While a cleanup task is there it is the only one of its lab, whose deploy is over.
LEMMA CleanupAlone ==
    ASSUME LegalIInv, NEW t \in CleanupTasks, tasks[t].status # "absent"
    PROVE  /\ handoff[LabOf(t)] = "none"
           /\ tasks[Deploy(LabOf(t))].status # "active"
           /\ verdict[LabOf(t)].state \notin Outcomes
           /\ labs[LabOf(t)].state \notin {"absent", "rejected", "deploying"}
           /\ \A u \in CleanupTasks : LabOf(u) = LabOf(t) /\ u # t =>
                 tasks[u].status = "absent" /\ cleaner[u].pc = "idle"
<1>1. CleanupFollows(t) /\ DeployInOrder(LabOf(t))
  BY TaskIdFacts DEF LegalIInv
<1>2. \A u \in CleanupTasks : tasks[u].status = "absent" => cleaner[u].pc = "idle"
  BY DEF LegalIInv, CleanerIsAlone, At, Status
<1>. QED  BY <1>1, <1>2 DEF CleanupFollows, DeployInOrder, Status

\* A step of the cleanup of t that leaves its lab where a cleanup may be.
LEMMA CleanupLegalFrame ==
    ASSUME IInv, LegalIInv, NEW t \in CleanupTasks, tasks[t].status # "absent",
           \A u \in TaskIds : u # t => tasks'[u] = tasks[u],
           \A u \in CleanupTasks : u # t => cleaner'[u] = cleaner[u],
           \A k \in Labs : k # LabOf(t) => labs'[k] = labs[k],
           labs'[LabOf(t)].state \notin {"absent", "rejected", "deploying"},
           LegalMove(LabOf(t)), CleanerIsAlone(t)',
           UNCHANGED <<handoff, verdict, requests>>
    PROVE  LegalStep
<1>. DEFINE l == LabOf(t)
<1>1. l \in Labs /\ t \in TaskIds /\ Deploy(l) \in TaskIds /\ t # Deploy(l)
  BY TaskIdFacts
<1>2. DeployInOrder(l)'
  BY <1>1, CleanupAlone DEF DeployInOrder, Status
<1>3. ASSUME NEW u \in CleanupTasks, LabOf(u) = l
      PROVE  CleanupFollows(u)' /\ CleanerIsAlone(u)'
  <2>1. CASE u = t
    <3>1. \A v \in CleanupTasks : LabOf(v) = l /\ v # t => tasks'[v].status = "absent"
      BY CleanupAlone, TaskIdFacts
    <3>. QED  BY <2>1, <3>1, CleanupAlone DEF CleanupFollows, Status
  <2>2. CASE u # t
    <3>1. tasks'[u].status = "absent" /\ cleaner'[u].pc = "idle"
      BY <1>3, <2>2, CleanupAlone, TaskIdFacts
    <3>. QED  BY <3>1 DEF CleanupFollows, CleanerIsAlone, At, Status
  <2>. QED  BY <2>1, <2>2
<1>4. LabInOrder(l)'
  BY <1>2, <1>3 DEF LabInOrder
<1>5. \A k \in Labs : k # l => NotMoved(k)
  BY TaskIdFacts DEF NotMoved
<1>6. NoLabRequests'
  BY DEF LegalIInv, NoLabRequests
<1>. QED  BY <1>1, <1>4, <1>5, <1>6, LegalFrame

\* The calls of other tasks, and the pc of t after Return, Fail or Goto.
LEMMA CleanerFields ==
    ASSUME IInv, NEW t \in CleanupTasks
    PROVE  /\ \A pc \in CleanupPCs : Goto(t, pc) =>
                /\ cleaner'[t].pc = pc
                /\ \A u \in CleanupTasks : u # t => cleaner'[u] = cleaner[u]
           /\ Return(t) \/ Fail(t) =>
                /\ cleaner'[t].pc = "idle"
                /\ \A u \in CleanupTasks : u # t => cleaner'[u] = cleaner[u]
                /\ \A u \in TaskIds : u # t => tasks'[u] = tasks[u]
<1>1. cleaner \in [CleanupTasks -> Cleaners] /\ t \in TaskIds /\ QueueTypeOK
  BY TaskIdFacts DEF IInv, TypeOK, CleanupTypeOK
<1>2. Return(t) \/ Fail(t) => \A u \in TaskIds : u # t => tasks'[u] = tasks[u]
  BY <1>1, QueueTypes DEF Return, Fail
<1>. QED  BY <1>1, <1>2, CleanerTypes DEF Goto, Return, Fail, Cleaners

\* A call that returns, having saved its lab as done or nothing.
LEMMA LegalReturn ==
    ASSUME IInv, LegalIInv, NEW t \in CleanupTasks, cleaner[t].pc # "idle",
           Return(t) \/ Fail(t),
           \/ UNCHANGED labs
           \/ \E row \in LabRows : /\ SaveLab(LabOf(t), row) /\ row.state = "done"
                                   /\ cleaner[t].pc = "finish",
           UNCHANGED <<handoff, verdict, requests>>
    PROVE  LegalStep
<1>. DEFINE l == LabOf(t)
<1>1. CleanerIsAlone(t) /\ l \in Labs /\ labs \in [Labs -> LabRows]
  BY TaskIdFacts, ProvisioningFacts DEF LegalIInv
<1>2. tasks[t].status # "absent"
  BY <1>1 DEF CleanerIsAlone, At, Status
<1>3. labs[l].state \notin {"absent", "rejected", "deploying"}
  BY <1>2, CleanupAlone
<1>4. CASE UNCHANGED labs
  BY <1>1, <1>2, <1>3, <1>4, CleanerFields, CleanupLegalFrame DEF LegalMove, CleanerIsAlone, At
<1>5. ASSUME NEW row \in LabRows, SaveLab(l, row), row.state = "done", cleaner[t].pc = "finish"
      PROVE  LegalStep
  <2>1. labs'[l].state = "done" /\ \A k \in Labs : k # l => labs'[k] = labs[k]
    BY <1>1, <1>5 DEF SaveLab
  <2>2. labs[l].state = "cleaning"
    BY <1>1, <1>5 DEF CleanerIsAlone
  <2>3. LegalMove(l)
    BY <2>1, <2>2 DEF LegalMove, CanTransition, AllowedTransitions, LabStates
  <2>4. CleanerIsAlone(t)'
    BY CleanerFields DEF CleanerIsAlone, At
  <2>. QED  BY <1>2, <2>1, <2>3, <2>4, CleanerFields, CleanupLegalFrame
<1>. QED  BY <1>4, <1>5

\* A call that goes on and saves no lab.
LEMMA LegalGoesOn ==
    ASSUME IInv, LegalIInv, NEW t \in CleanupTasks, cleaner[t].pc # "idle",
           UNCHANGED <<labs, tasks>>,
           \A u \in CleanupTasks : u # t => cleaner'[u] = cleaner[u],
           \/ cleaner[t].pc # "load" /\ cleaner[t].pc # "mark" /\ cleaner'[t].pc # "mark"
           \/ cleaner'[t].pc = "mark" /\ CanTransition(labs[LabOf(t)].state, "cleaning")
           \/ labs[LabOf(t)].state = "cleaning" /\ cleaner'[t].pc # "mark",
           UNCHANGED <<handoff, verdict, requests>>
    PROVE  LegalStep
<1>1. CleanerIsAlone(t) /\ tasks[t].status = "active"
  BY DEF LegalIInv, CleanerIsAlone, At, Status
<1>2. labs[LabOf(t)].state \notin {"absent", "rejected", "deploying"}
  BY <1>1, CleanupAlone
<1>3. CleanerIsAlone(t)'
  BY <1>1 DEF CleanerIsAlone, At, Status
<1>4. LegalMove(LabOf(t))
  BY DEF LegalMove
<1>. QED  BY <1>1, <1>2, <1>3, <1>4, CleanupLegalFrame

LEMMA CleanupStartLegal ==
    ASSUME IInv, LegalIInv, NEW t \in CleanupTasks, CleanupStart(t),
           UNCHANGED <<handoff, verdict, requests>>
    PROVE  LegalStep
<1>1. t \in TaskIds /\ QueueTypeOK /\ Dequeue(t) /\ UNCHANGED labs
  BY TaskIdFacts DEF CleanupStart, IInv, TypeOK
<1>2. /\ tasks[t].status = "pending" /\ tasks'[t].status = "active"
      /\ \A u \in TaskIds : u # t => tasks'[u] = tasks[u]
  BY <1>1, QueueStatus, QueueTypes
<1>3. /\ cleaner'[t].pc = "load"
      /\ \A u \in CleanupTasks : u # t => cleaner'[u] = cleaner[u]
  BY CleanerFacts DEF CleanupStart, IInv, TypeOK, CleanupTypeOK, Cleaners
<1>4. labs[LabOf(t)].state \notin {"absent", "rejected", "deploying"}
  BY <1>2, CleanupAlone
<1>5. CleanerIsAlone(t)' /\ LegalMove(LabOf(t))
  BY <1>1, <1>2, <1>3 DEF CleanerIsAlone, At, Status, LegalMove
<1>. QED  BY <1>1, <1>2, <1>3, <1>4, <1>5, CleanupLegalFrame

LEMMA CleanupLoadLegal ==
    ASSUME IInv, LegalIInv, NEW t \in CleanupTasks, CleanupLoad(t),
           UNCHANGED <<handoff, verdict, requests>>
    PROVE  LegalStep
<1>1. cleaner[t].pc = "load" /\ UNCHANGED labs
  BY DEF CleanupLoad, At, storageVars
<1>2. cleaner \in [CleanupTasks -> Cleaners]
  BY DEF IInv, TypeOK, CleanupTypeOK
<1>3. CASE /\ labs[LabOf(t)].state = "cleaning"
           /\ cleaner' = [cleaner EXCEPT ![t].pc = "project", ![t].lab = labs[LabOf(t)]]
           /\ UNCHANGED tasks
  <2>1. /\ cleaner'[t].pc = "project"
        /\ \A u \in CleanupTasks : u # t => cleaner'[u] = cleaner[u]
    BY <1>2, <1>3 DEF Cleaners
  <2>. QED  BY <1>1, <1>3, <2>1, LegalGoesOn
<1>4. CASE /\ CanTransition(labs[LabOf(t)].state, "cleaning")
           /\ cleaner' = [cleaner EXCEPT ![t].pc  = "mark",
                   ![t].lab = Transition(labs[LabOf(t)], "cleaning", cleaner[t].ts)]
           /\ UNCHANGED tasks
  <2>1. /\ cleaner'[t].pc = "mark"
        /\ \A u \in CleanupTasks : u # t => cleaner'[u] = cleaner[u]
    BY <1>2, <1>4 DEF Cleaners
  <2>. QED  BY <1>1, <1>4, <2>1, LegalGoesOn
<1>5. CASE Return(t)
  BY <1>1, <1>5, LegalReturn
<1>. QED  BY <1>3, <1>4, <1>5 DEF CleanupLoad

LEMMA CleanupMarkLegal ==
    ASSUME IInv, LegalIInv, NEW t \in CleanupTasks, CleanupMark(t),
           UNCHANGED <<handoff, verdict, requests>>
    PROVE  LegalStep
<1>. DEFINE l == LabOf(t)
<1>1. cleaner[t].pc = "mark" /\ l \in Labs /\ labs \in [Labs -> LabRows]
  BY TaskIdFacts, ProvisioningFacts DEF CleanupMark, At
<1>2. tasks[t].status = "active" /\ CanTransition(labs[l].state, "cleaning")
  BY <1>1 DEF LegalIInv, CleanerIsAlone, At, Status
<1>3. CASE SaveLab(l, cleaner[t].lab) /\ Goto(t, "project") /\ UNCHANGED tasks
  <2>1. labs'[l].state = "cleaning" /\ \A k \in Labs : k # l => labs'[k] = labs[k]
    BY <1>1, <1>3, CleanerFacts DEF SaveLab
  <2>2. /\ cleaner'[t].pc = "project"
        /\ \A u \in CleanupTasks : u # t => cleaner'[u] = cleaner[u]
    BY <1>3, CleanerFields DEF CleanupPCs
  <2>3. CleanerIsAlone(t)' /\ LegalMove(l)
    BY <1>2, <1>3, <2>1, <2>2 DEF CleanerIsAlone, At, Status, LegalMove
  <2>. QED  BY <1>2, <1>3, <2>1, <2>2, <2>3, CleanupLegalFrame
<1>4. CASE Fail(t) /\ UNCHANGED labs
  BY <1>1, <1>4, LegalReturn
<1>. QED  BY <1>3, <1>4 DEF CleanupMark

\* The statements between the mark and the end touch the row of no lab.
LEMMA CleanupMiddleLegal ==
    ASSUME IInv, LegalIInv, NEW t \in CleanupTasks,
           \/ CleanupLoadProject(t) \/ CleanupRelease(t) \/ CleanupTeardown(t)
           \/ CleanupTeardownFails(t) \/ CleanupFailure(t) \/ CleanupClean(t)
           \/ CleanupSecret(t),
           UNCHANGED <<handoff, verdict, requests>>
    PROVE  LegalStep
<1>1. cleaner[t].pc \notin {"idle", "load", "mark"} /\ UNCHANGED labs
  BY DEF CleanupLoadProject, CleanupRelease, CleanupTeardown, CleanupTeardownFails,
     CleanupFailure, CleanupClean, CleanupSecret, CleanupSaveProject, At, storageVars
<1>2. CASE Return(t) \/ Fail(t)
  BY <1>1, <1>2, LegalReturn
<1>3. ASSUME NEW pc \in {"release", "teardown", "failure", "clean", "secret", "finish"},
             cleaner'[t].pc = pc, UNCHANGED tasks,
             \A u \in CleanupTasks : u # t => cleaner'[u] = cleaner[u]
      PROVE  LegalStep
  BY <1>1, <1>3, LegalGoesOn
<1>4. ASSUME NEW pc \in {"teardown", "secret", "finish"}, Goto(t, pc), UNCHANGED tasks
      PROVE  LegalStep
  BY <1>3, <1>4, CleanerFields DEF CleanupPCs
<1>5. cleaner \in [CleanupTasks -> Cleaners]
  BY DEF IInv, TypeOK, CleanupTypeOK
<1>6. CASE CleanupLoadProject(t)
  <2>1. /\ cleaner'[t].pc \in {"release", "teardown"} /\ UNCHANGED tasks
        /\ \A u \in CleanupTasks : u # t => cleaner'[u] = cleaner[u]
    BY <1>5, <1>6 DEF CleanupLoadProject, queueVars, Cleaners
  <2>. QED  BY <1>3, <2>1
<1>7. CASE CleanupTeardown(t)
  <2>1. /\ cleaner'[t].pc \in {"clean", "secret"} /\ UNCHANGED tasks
        /\ \A u \in CleanupTasks : u # t => cleaner'[u] = cleaner[u]
    BY <1>5, <1>7 DEF CleanupTeardown, queueVars, Cleaners
  <2>. QED  BY <1>3, <2>1
<1>8. CASE CleanupTeardownFails(t)
  <2>1. ASSUME ~ Fail(t)
        PROVE  /\ cleaner'[t].pc = "failure" /\ UNCHANGED tasks
               /\ \A u \in CleanupTasks : u # t => cleaner'[u] = cleaner[u]
    BY <1>5, <1>8, <2>1 DEF CleanupTeardownFails, Cleaners
  <2>. QED  BY <1>2, <1>3, <2>1
<1>9. CASE CleanupRelease(t) \/ CleanupFailure(t) \/ CleanupClean(t)
  BY <1>2, <1>4, <1>9 DEF CleanupRelease, CleanupFailure, CleanupClean, CleanupSaveProject
<1>10. CASE CleanupSecret(t)
  BY <1>4, <1>10 DEF CleanupSecret
<1>. QED  BY <1>6, <1>7, <1>8, <1>9, <1>10

LEMMA CleanupFinishLegal ==
    ASSUME IInv, LegalIInv, NEW t \in CleanupTasks, CleanupFinish(t),
           UNCHANGED <<handoff, verdict, requests>>
    PROVE  LegalStep
<1>. DEFINE row == Transition(cleaner[t].lab, "done", cleaner[t].ts)
<1>1. cleaner[t].pc = "finish"
  BY DEF CleanupFinish, At
<1>2. row \in LabRows /\ row.state = "done"
  <2>1. "done" \in LabStates
    BY DEF LabStates
  <2>. QED  BY <2>1, CleanerFacts, CleanerTypes, TransitionType
<1>3. \/ SaveLab(LabOf(t), row) /\ Return(t)
      \/ UNCHANGED labs /\ Fail(t)
  BY DEF CleanupFinish
<1>. HIDE DEF row
<1>. QED  BY <1>1, <1>2, <1>3, LegalReturn

LEMMA CleanerMovesLegal ==
    ASSUME IInv, LegalIInv, NEW t \in CleanupTasks, CleanerMoves(t)
    PROVE  LegalStep
<1>1. UNCHANGED <<handoff, verdict, requests>> /\ CleanupNext(t)
  BY DEF CleanerMoves
<1>2. CASE CleanupCrash(t)
  BY <1>1, <1>2, LegalReturn DEF CleanupCrash, At, storageVars
<1>. QED
  BY <1>1, <1>2, CleanupStartLegal, CleanupLoadLegal, CleanupMarkLegal, CleanupMiddleLegal,
     CleanupFinishLegal DEF CleanupNext, CleanupStep

\* No cleanup task of the lab is there yet.
NoCleanup(l) ==
    \A t \in CleanupTasks : LabOf(t) = l => tasks[t].status = "absent" /\ cleaner[t].pc = "idle"

LEMMA NoCleanupYet ==
    ASSUME LegalIInv, NEW l \in Labs,
           \/ handoff[l] # "none"
           \/ labs[l].state \in {"absent", "deploying"}
           \/ tasks[Deploy(l)].status = "active"
    PROVE  NoCleanup(l)
<1>1. \A t \in CleanupTasks : tasks[t].status = "absent" => cleaner[t].pc = "idle"
  BY DEF LegalIInv, CleanerIsAlone, At, Status
<1>2. ASSUME NEW t \in CleanupTasks, LabOf(t) = l, tasks[t].status # "absent"
      PROVE  FALSE
  BY <1>2, CleanupAlone
<1>. QED  BY <1>1, <1>2 DEF NoCleanup

\* A step of the creation or the deploy of a lab without a cleanup.
LEMMA DeployLegalFrame ==
    ASSUME IInv, LegalIInv, NEW l \in Labs, NoCleanup(l),
           \A k \in Labs : k # l => /\ labs'[k] = labs[k] /\ handoff'[k] = handoff[k]
                                    /\ verdict'[k] = verdict[k],
           \A t \in TaskIds : t # Deploy(l) => tasks'[t] = tasks[t],
           DeployInOrder(l)', LegalMove(l), UNCHANGED <<cleaner, requests>>
    PROVE  LegalStep
<1>1. \A t \in CleanupTasks : t # Deploy(l) /\ t \in TaskIds
  BY TaskIdFacts
<1>2. \A t \in CleanupTasks : LabOf(t) = l =>
          /\ tasks'[t].status = "absent" /\ cleaner'[t].pc = "idle"
  BY <1>1 DEF NoCleanup
<1>3. \A t \in CleanupTasks : LabOf(t) = l => CleanupFollows(t)' /\ CleanerIsAlone(t)'
  BY <1>2 DEF CleanupFollows, CleanerIsAlone, At, Status
<1>4. LabInOrder(l)'
  BY <1>3 DEF LabInOrder
<1>5. \A k \in Labs : k # l => NotMoved(k)
  BY TasksOfLab DEF NotMoved
<1>6. NoLabRequests'
  BY DEF LegalIInv, NoLabRequests
<1>. QED  BY <1>4, <1>5, <1>6, LegalFrame

LEMMA LabFacts ==
    ASSUME IInv, LegalIInv, NEW l \in Labs
    PROVE  /\ DeployInOrder(l) /\ DeployIsRented(l) /\ Deploy(l) \in TaskIds
           /\ \A v : Decides(l, v) =>
                 verdict'[l] = v /\ \A k \in Labs : k # l => verdict'[k] = verdict[k]
           /\ \A what : Owes(l, what) =>
                 handoff'[l] = what /\ \A k \in Labs : k # l => handoff'[k] = handoff[k]
           /\ \A row : SaveLab(l, row) =>
                 labs'[l] = row /\ \A k \in Labs : k # l => labs'[k] = labs[k]
BY ProvisioningFacts, TaskIdFacts DEF LegalIInv, Decides, Owes, SaveLab

LEMMA AdmitLabLegal ==
    ASSUME IInv, LegalIInv, NEW l \in Labs, AdmitLab(l), UNCHANGED <<cleaner, requests>>
    PROVE  LegalStep
<1>1. /\ labs[l].state = "absent" /\ UNCHANGED <<labs, tasks, handoff>>
      /\ verdict'[l].state = "admitted"
      /\ \A k \in Labs : k # l => verdict'[k] = verdict[k]
  BY LabFacts DEF AdmitLab, queueVars
<1>2. DeployInOrder(l)'
  BY <1>1, LabFacts DEF DeployInOrder, Status, Outcomes
<1>3. LegalMove(l)
  BY <1>1 DEF LegalMove
<1>. QED  BY <1>1, <1>2, <1>3, NoCleanupYet, DeployLegalFrame

LEMMA CreateLabLegal ==
    ASSUME IInv, LegalIInv, NEW l \in Labs, CreateLab(l), UNCHANGED <<cleaner, requests>>
    PROVE  LegalStep
<1>1. labs[l].state = "absent" /\ UNCHANGED tasks
  BY DEF CreateLab, queueVars
<1>2. handoff[l] = "none" /\ tasks[Deploy(l)].status = "absent"
  BY <1>1, LabFacts DEF DeployIsRented, Rented, HoldingStates, Status
<1>3. NoCleanup(l) /\ LegalMove(l)
  BY <1>1, NoCleanupYet DEF LegalMove
<1>4. /\ verdict'[l].state \notin Outcomes
      /\ \A k \in Labs : k # l => verdict'[k] = verdict[k]
  <2>1. Decides(l, [state |-> "refused", ts |-> 0]) \/ Decides(l, NoVerdict)
    BY DEF CreateLab
  <2>2. "refused" \notin Outcomes /\ NoVerdict.state \notin Outcomes
    BY DEF NoVerdict, Outcomes
  <2>. QED  BY <2>1, <2>2, LabFacts
<1>5. CASE UNCHANGED <<labs, handoff>>
  <2>1. DeployInOrder(l)'
    BY <1>1, <1>2, <1>4, <1>5 DEF DeployInOrder, Status
  <2>. QED  BY <1>1, <1>3, <1>4, <1>5, <2>1, DeployLegalFrame
<1>6. ASSUME NEW p \in Projects, Owes(l, "deploy"),
             SaveLab(l, AssignProject(NewLab(verdict[l].ts), p, verdict[l].ts))
      PROVE  LegalStep
  <2>1. AssignProject(NewLab(verdict[l].ts), p, verdict[l].ts).state = "deploying"
    <3>1. verdict[l].ts \in Nat
      BY ProvisioningFacts DEF Verdicts
    <3>2. NewLab(verdict[l].ts) \in LabRows
      BY <3>1, NewLabType
    <3>. QED  BY <3>1, <3>2, AssignProjectType
  <2>2. /\ labs'[l].state = "deploying" /\ handoff'[l] = "deploy"
        /\ \A k \in Labs : k # l => labs'[k] = labs[k] /\ handoff'[k] = handoff[k]
    BY <1>6, <2>1, LabFacts
  <2>3. DeployInOrder(l)'
    BY <1>1, <1>2, <1>4, <2>2 DEF DeployInOrder, Status
  <2>. QED  BY <1>1, <1>3, <1>4, <2>2, <2>3, DeployLegalFrame
<1>7. CASE /\ SaveLab(l, Transition(NewLab(verdict[l].ts), "rejected", verdict[l].ts))
           /\ UNCHANGED handoff
  <2>1. \A k \in Labs : k # l => labs'[k] = labs[k]
    BY <1>7, LabFacts
  <2>2. DeployInOrder(l)'
    BY <1>1, <1>2, <1>4, <1>7 DEF DeployInOrder, Status
  <2>. QED  BY <1>1, <1>3, <1>4, <1>7, <2>1, <2>2, DeployLegalFrame
<1>8. FreeProjects \subseteq Projects
  BY DEF FreeProjects
<1>. QED  BY <1>5, <1>6, <1>7, <1>8 DEF CreateLab

LEMMA EnqueueDeployLegal ==
    ASSUME IInv, LegalIInv, NEW l \in Labs, EnqueueDeploy(l) \/ EnqueueDeployLost(l),
           UNCHANGED <<cleaner, requests>>
    PROVE  LegalStep
<1>1. /\ handoff[l] = "deploy" /\ handoff'[l] = "none" /\ UNCHANGED <<labs, verdict>>
      /\ \A k \in Labs : k # l => handoff'[k] = handoff[k]
  BY LabFacts DEF EnqueueDeploy, EnqueueDeployLost, storageVars
<1>2. labs[l].state = "deploying" /\ tasks[Deploy(l)].status = "absent"
  BY <1>1, LabFacts DEF DeployInOrder, Status
<1>3. Enqueue(Deploy(l)) \/ UNCHANGED tasks
  BY DEF EnqueueDeploy, EnqueueDeployLost
<1>4. /\ tasks'[Deploy(l)].status \in {"absent", "pending"}
      /\ \A t \in TaskIds : t # Deploy(l) => tasks'[t] = tasks[t]
  BY <1>2, <1>3, LabFacts, ProvisioningFacts, QueueStatus, QueueTypes
<1>5. verdict[l].state \notin Outcomes
  BY <1>1, LabFacts DEF DeployInOrder
<1>6. DeployInOrder(l)'
  BY <1>1, <1>4, <1>5 DEF DeployInOrder, Status
<1>7. LegalMove(l) /\ NoCleanup(l)
  BY <1>1, NoCleanupYet DEF LegalMove
<1>. QED  BY <1>1, <1>4, <1>6, <1>7, DeployLegalFrame

LEMMA DeployStartLegal ==
    ASSUME IInv, LegalIInv, NEW l \in Labs, DeployStart(l), UNCHANGED <<cleaner, requests>>
    PROVE  LegalStep
<1>1. /\ tasks[Deploy(l)].status = "pending"
      /\ UNCHANGED <<labs, handoff, verdict>>
  BY DEF DeployStart, Status, storageVars
<1>2. /\ IF labs[l].state = "deploying" THEN tasks'[Deploy(l)].status = "active"
                                        ELSE tasks'[Deploy(l)].status = "absent"
      /\ \A t \in TaskIds : t # Deploy(l) => tasks'[t] = tasks[t]
  BY LabFacts, ProvisioningFacts, QueueStatus, QueueTypes DEF DeployStart
<1>3. handoff[l] = "none" /\ verdict[l].state \notin Outcomes
  BY <1>1, LabFacts, ProvisioningFacts DEF DeployInOrder, Status
<1>4. DeployInOrder(l)'
  BY <1>1, <1>2, <1>3 DEF DeployInOrder, Status
<1>5. LegalMove(l)
  BY <1>1 DEF LegalMove
<1>6. LabInOrder(l)'
  <2>1. \A t \in CleanupTasks : t # Deploy(l) /\ t \in TaskIds
    BY TaskIdFacts
  <2>2. \A t \in CleanupTasks : CleanupFollows(t) /\ CleanerIsAlone(t)
    BY DEF LegalIInv
  <2>3. \A t \in CleanupTasks : tasks'[t] = tasks[t]
    BY <1>2, <2>1
  <2>4. \A t \in CleanupTasks : CleanupFollows(t)' /\ CleanerIsAlone(t)'
    BY <1>1, <2>2, <2>3 DEF CleanupFollows, CleanerIsAlone, At, Status
  <2>. QED  BY <1>4, <2>4 DEF LabInOrder
<1>7. \A k \in Labs : k # l => NotMoved(k)
  BY <1>1, <1>2, TasksOfLab DEF NotMoved
<1>8. NoLabRequests'
  BY DEF LegalIInv, NoLabRequests
<1>. QED  BY <1>5, <1>6, <1>7, <1>8, LegalFrame

LEMMA DeployEndsLegal ==
    ASSUME IInv, LegalIInv, NEW l \in Labs, DeploySucceeds(l) \/ DeployFails(l),
           UNCHANGED <<cleaner, requests>>
    PROVE  LegalStep
<1>1. /\ tasks[Deploy(l)].status = "active" /\ handoff[l] = "none"
      /\ UNCHANGED <<labs, handoff, tasks>>
      /\ \A k \in Labs : k # l => verdict'[k] = verdict[k]
  BY LabFacts DEF DeploySucceeds, DeployFails, DeployRunning, Status, queueVars
<1>2. DeployInOrder(l)'
  BY <1>1, LabFacts DEF DeployInOrder, Status
<1>3. LegalMove(l) /\ NoCleanup(l)
  BY <1>1, NoCleanupYet DEF LegalMove
<1>. QED  BY <1>1, <1>2, <1>3, DeployLegalFrame

LEMMA DeploySavesLegal ==
    ASSUME IInv, LegalIInv, NEW l \in Labs, DeploySaves(l), UNCHANGED <<cleaner, requests>>
    PROVE  LegalStep
<1>1. /\ verdict[l].state \in Outcomes /\ verdict'[l].state \notin Outcomes
      /\ \A k \in Labs : k # l => verdict'[k] = verdict[k]
  BY LabFacts DEF DeploySaves, NoVerdict, Outcomes
<1>2. tasks[Deploy(l)].status = "active" /\ handoff[l] = "none"
      /\ labs[l].state = "deploying"
  BY <1>1, LabFacts DEF DeployInOrder, Status
<1>3. NoCleanup(l)
  BY <1>2, NoCleanupYet
<1>4. CASE /\ SaveLab(l, DeployRow(l)) /\ UNCHANGED tasks
           /\ Owes(l, IF verdict[l].state = "ready" THEN "timer" ELSE "compensate")
  <2>1. DeployRow(l).state = verdict[l].state
    BY <1>1, DeployRowFacts DEF Outcomes
  <2>2. /\ labs'[l].state = verdict[l].state
        /\ handoff'[l] = IF verdict[l].state = "ready" THEN "timer" ELSE "compensate"
        /\ \A k \in Labs : k # l => labs'[k] = labs[k] /\ handoff'[k] = handoff[k]
    BY <1>4, <2>1, LabFacts
  <2>3. DeployInOrder(l)'
    BY <1>1, <1>2, <1>4, <2>2 DEF DeployInOrder, Status, Outcomes
  <2>4. LegalMove(l)
    BY <1>1, <1>2, <2>2 DEF LegalMove, Outcomes, CanTransition, AllowedTransitions, LabStates
  <2>. QED  BY <1>1, <1>3, <1>4, <2>2, <2>3, <2>4, DeployLegalFrame
<1>5. CASE Retry(Deploy(l)) /\ UNCHANGED <<labs, handoff>>
  <2>1. /\ tasks'[Deploy(l)].status \in {"pending", "archived"}
        /\ \A t \in TaskIds : t # Deploy(l) => tasks'[t] = tasks[t]
    BY <1>5, LabFacts, ProvisioningFacts, QueueStatus, QueueTypes
  <2>2. DeployInOrder(l)'
    BY <1>1, <1>2, <1>5, <2>1 DEF DeployInOrder, Status
  <2>3. LegalMove(l)
    BY <1>5 DEF LegalMove
  <2>. QED  BY <1>1, <1>3, <1>5, <2>1, <2>2, <2>3, DeployLegalFrame
<1>. QED  BY <1>4, <1>5 DEF DeploySaves

LEMMA DeployHandOffLegal ==
    ASSUME IInv, LegalIInv, NEW l \in Labs, DeployHandOff(l), UNCHANGED <<cleaner, requests>>
    PROVE  LegalStep
<1>. DEFINE task   == <<l, handoff[l]>>
            status == IF handoff[l] = "timer" THEN "scheduled" ELSE "pending"
<1>1. /\ handoff[l] \in {"timer", "compensate"} /\ handoff'[l] = "none"
      /\ UNCHANGED <<labs, verdict>>
      /\ \A k \in Labs : k # l => handoff'[k] = handoff[k]
      /\ tasks' = [Put(task, status) EXCEPT ![Deploy(l)] = NoTask]
  BY LabFacts DEF DeployHandOff, storageVars
<1>2. task \in CleanupTasks /\ task \in TaskIds /\ LabOf(task) = l /\ task # Deploy(l)
  BY <1>1 DEF CleanupTasks, TaskIds, TaskKinds, CleanupKinds, LabOf, Deploy
<1>3. NoCleanup(l) /\ labs[l].state \in {"ready", "failed"}
  BY <1>1, NoCleanupYet, LabFacts DEF DeployInOrder
<1>. HIDE DEF task, status
<1>4. \A t \in TaskIds : t # task => Put(task, status)[t] = tasks[t]
  BY ProvisioningFacts DEF Put
<1>5. /\ tasks'[Deploy(l)] = NoTask
      /\ \A t \in TaskIds : t # task /\ t # Deploy(l) => tasks'[t] = tasks[t]
  <2>1. Put(task, status) \in [TaskIds -> [status : {status} \cup TaskStatus,
                                           retried : 0 .. MaxRetries]]
    BY <1>2, ProvisioningFacts, QueueAssumption DEF Put, Tasks
  <2>. QED  BY <1>1, <1>4, <2>1, LabFacts
<1>6. verdict[l].state \notin Outcomes
  BY <1>1, LabFacts DEF DeployInOrder
<1>7. DeployInOrder(l)'
  BY <1>1, <1>3, <1>5, <1>6 DEF DeployInOrder, Status, NoTask
<1>8. \A t \in CleanupTasks : LabOf(t) = l =>
          /\ t # task => tasks'[t].status = "absent"
          /\ cleaner'[t].pc = "idle"
  BY <1>3, <1>5, TaskIdFacts DEF NoCleanup
<1>9. \A t \in CleanupTasks : LabOf(t) = l => CleanupFollows(t)' /\ CleanerIsAlone(t)'
  BY <1>1, <1>3, <1>8 DEF CleanupFollows, CleanerIsAlone, At, Status
<1>10. LabInOrder(l)'
  BY <1>7, <1>9 DEF LabInOrder
<1>11. \A k \in Labs : k # l => NotMoved(k)
  BY <1>1, <1>2, <1>5, TasksOfLab DEF NotMoved
<1>12. NoLabRequests' /\ LegalMove(l)
  BY <1>1 DEF LegalIInv, NoLabRequests, LegalMove
<1>. QED  BY <1>10, <1>11, <1>12, LegalFrame

LEMMA DeployFaultLegal ==
    ASSUME IInv, LegalIInv, NEW l \in Labs, DeployHandOffLost(l) \/ DeployCrash(l),
           UNCHANGED <<cleaner, requests>>
    PROVE  LegalStep
<1>1. /\ handoff'[l] = "none" /\ UNCHANGED labs
      /\ \A k \in Labs : k # l => handoff'[k] = handoff[k] /\ verdict'[k] = verdict[k]
      /\ handoff[l] # "none" \/ tasks[Deploy(l)].status = "active"
      /\ Complete(Deploy(l)) \/ Retry(Deploy(l))
  BY LabFacts DEF DeployHandOffLost, DeployCrash, Status, storageVars
<1>2. verdict'[l].state \notin Outcomes
  <2>1. CASE DeployHandOffLost(l)
    BY <2>1, LabFacts DEF DeployHandOffLost, DeployInOrder
  <2>2. CASE DeployCrash(l)
    BY <2>2, LabFacts, ProvisioningFacts DEF DeployCrash
  <2>. QED  BY <2>1, <2>2
<1>3. /\ tasks'[Deploy(l)].status # "active"
      /\ \A t \in TaskIds : t # Deploy(l) => tasks'[t] = tasks[t]
  BY <1>1, LabFacts, ProvisioningFacts, QueueStatus, QueueTypes
<1>4. DeployInOrder(l)'
  BY <1>1, <1>2, <1>3 DEF DeployInOrder, Status
<1>5. LegalMove(l) /\ NoCleanup(l)
  BY <1>1, NoCleanupYet DEF LegalMove
<1>. QED  BY <1>1, <1>3, <1>4, <1>5, DeployLegalFrame

LEMMA LabMovesLegal ==
    ASSUME IInv, LegalIInv, NEW l \in Labs, LabMoves(l)
    PROVE  LegalStep
BY AdmitLabLegal, CreateLabLegal, EnqueueDeployLegal, DeployStartLegal, DeployEndsLegal,
   DeploySavesLegal, DeployHandOffLegal, DeployFaultLegal
   DEF LabMoves, ProvisioningNext, DeployStep

\* A step that moves no lab at all.
LEMMA LegalElsewhere ==
    ASSUME LegalIInv, \A l \in Labs : NotMoved(l), NoLabRequests'
    PROVE  LegalStep
<1>1. \A l \in Labs : LabInOrder(l)'
  BY OrderFrame, TaskIdFacts DEF LegalIInv, LabInOrder
<1>2. \A l \in Labs : LegalMove(l)
  BY DEF LegalMove, NotMoved
<1>3. \A t \in CleanupTasks : CleanupFollows(t)' /\ CleanerIsAlone(t)'
  BY <1>1, TaskIdFacts DEF LabInOrder
<1>. QED  BY <1>1, <1>2, <1>3 DEF LegalStep, LegalIInv, LabInOrder, NoLabRequests

\* Only the requests to the pool are served.
LEMMA RequestMovesLegal ==
    ASSUME NoLifecycleRequests, IInv, LegalIInv, NEW r \in Requests, RequestMoves(r)
    PROVE  LegalStep
<1>1. \/ RequestStamps(r) \/ RequestLoadsProject(r) \/ RequestSavesProject(r)
  BY DEF NoLifecycleRequests, LegalIInv, RequestMoves, LabOpsNext, RequestStep,
     RequestLoadsLab, RequestChecks, RequestSavesLab, StopEnqueues, StopEnqueueLost
<1>2. UNCHANGED <<labs, tasks, cleaner, handoff, verdict>>
  BY <1>1 DEF RequestMoves, RequestStamps, RequestLoadsProject, RequestSavesProject,
     storageVars, queueVars
<1>3. /\ requests'[r].pc \in {"load", "project", "done"}
      /\ \A s \in Requests : s # r => requests'[s] = requests[s]
  <2>. USE RequestFacts DEF RequestStates
  <2>1. CASE RequestStamps(r)
    BY <2>1 DEF RequestStamps
  <2>2. CASE RequestLoadsProject(r)
    <3>. DEFINE copy == PoolApplied(requests[r].command, projects[requests[r].id],
                                    requests[r].ts)
    <3>1. \/ Reply(r)
          \/ requests' = [requests EXCEPT ![r].pc = "project", ![r].project = copy]
      BY <2>2 DEF RequestLoadsProject
    <3>. HIDE DEF copy
    <3>. QED  BY <3>1, ReplyEnds
  <2>3. CASE RequestSavesProject(r)
    BY <2>3, ReplyEnds DEF RequestSavesProject
  <2>. QED  BY <1>1, <2>1, <2>2, <2>3
<1>4. NoLabRequests'
  BY <1>3 DEF LegalIInv, NoLabRequests
<1>. QED  BY <1>2, <1>4, LegalElsewhere DEF NotMoved

LEMMA TimerFiresLegal ==
    ASSUME IInv, LegalIInv, NEW t \in TaskIds, TimerFires(t)
    PROVE  LegalStep
<1>. DEFINE l == LabOf(t)
<1>1. UNCHANGED <<labs, cleaner, handoff, verdict, requests>> /\ Fire(t)
  BY DEF TimerFires, storageVars
<1>2. /\ tasks[t].status = "scheduled" /\ tasks'[t].status = "pending"
      /\ \A u \in TaskIds : u # t => tasks'[u] = tasks[u]
  BY <1>1, ProvisioningFacts, QueueStatus, QueueTypes
<1>3. \A u \in TaskIds : /\ tasks'[u].status = "absent" <=> tasks[u].status = "absent"
                         /\ tasks'[u].status = "active" <=> tasks[u].status = "active"
  BY <1>2
<1>4. \A k \in Labs : DeployInOrder(k)'
  BY <1>1, <1>3, TaskIdFacts DEF LegalIInv, DeployInOrder, Status
<1>5. ASSUME NEW u \in CleanupTasks
      PROVE  CleanupFollows(u)' /\ CleanerIsAlone(u)'
  <2>1. CleanupFollows(u) /\ CleanerIsAlone(u)
    BY DEF LegalIInv
  <2>2. CleanupFollows(u)'
    BY <1>1, <1>3, <2>1, TaskIdFacts DEF CleanupFollows, Status
  <2>3. CleanerIsAlone(u)'
    BY <1>1, <1>3, <2>1, TaskIdFacts DEF CleanerIsAlone, At, Status
  <2>. QED  BY <2>2, <2>3
<1>6. \A k \in Labs : LegalMove(k)
  BY <1>1 DEF LegalMove
<1>. QED  BY <1>1, <1>4, <1>5, <1>6 DEF LegalStep, LegalIInv

LEMMA LegalInit == Init => LegalIInv
<1>. SUFFICES ASSUME Init PROVE LegalIInv
  OBVIOUS
<1>. USE DEF Init, StorageInit, QueueInit, CleanupInit, ProvisioningInit, LabOpsInit
<1>1. \A l \in Labs : DeployInOrder(l)
  BY TaskIdFacts DEF DeployInOrder, NoVerdict, Outcomes, Status, NoTask
<1>2. \A t \in CleanupTasks : CleanupFollows(t) /\ CleanerIsAlone(t)
  BY TaskIdFacts DEF CleanupFollows, CleanerIsAlone, IdleCleaner, At, Status, NoTask
<1>3. \A r \in Requests : requests[r].pc \notin {"lab", "save", "enqueue"}
  BY DEF NewRequest
<1>. QED  BY <1>1, <1>2, <1>3 DEF LegalIInv

LEMMA LegalNext ==
    ASSUME NoLifecycleRequests, IInv, LegalIInv, [Next]_vars
    PROVE  LegalStep
<1>1. CASE UNCHANGED vars
  <2>1. (\A l \in Labs : NotMoved(l)) /\ NoLabRequests'
    BY <1>1 DEF vars, storageVars, queueVars, NotMoved, LegalIInv, NoLabRequests
  <2>. QED  BY <2>1, LegalElsewhere
<1>. QED
  BY <1>1, CleanerMovesLegal, LabMovesLegal, RequestMovesLegal, TimerFiresLegal DEF Next

\* Of a lab that no user stops or freezes there is one deploy and then one cleanup,
\* whatever crashes, is refused or is retried.
THEOREM OrderHolds ==
    ASSUME NoLifecycleRequests PROVE Spec => []LegalIInv
<1>1. IInv /\ LegalIInv /\ [Next]_vars => LegalIInv'
  BY LegalNext DEF LegalStep
<1>. QED  BY <1>1, LegalInit, InvariantHolds, PTL DEF Spec

\* The sagas and the administrator move a lab only along the edges of its state machine.
THEOREM SagasMoveLegally ==
    ASSUME NoLifecycleRequests PROVE Spec => OnlyLegalTransitions
<1>1. IInv /\ LegalIInv /\ [Next]_vars =>
          [\A l \in Labs :
             labs'[l].state # labs[l].state /\ labs[l].state # "absent" =>
                 CanTransition(labs[l].state, labs'[l].state)]_vars
  BY LegalNext DEF LegalStep, LegalMove
<1>. QED  BY <1>1, OrderHolds, InvariantHolds, PTL DEF Spec, OnlyLegalTransitions

-----------------------------------------------------------------------------
(* The rent is kept, and quarantine left alone, when no request interferes *)
(* and no cleanup dies after it has freed its project.                     *)

\* The project of lab l, in use or being cleaned.
Holds(l, p) == projects[p].state \in {"allocated", "cleaning"} /\ projects[p].lab = l

QuarantineStays ==
    \A p \in Projects : projects[p].state = "quarantine" => projects'[p].state = "quarantine"

RentStep == RentIInv' /\ QuarantineStays

\* A lab keeps its rent when neither its row nor the project it holds is touched.
LEMMA RentFrame ==
    ASSUME IInv, NEW l \in Labs, RentIsKept(l), labs'[l] = labs[l],
           HandedOver(l) => HandedOver(l)',
           \A p \in Projects : Holds(l, p) \/ projects[p].state = "quarantine" =>
               projects'[p] = projects[p]
    PROVE  RentIsKept(l)'
<1>1. labs[l].state \in UsedStates \cup {"failed", "cleaning"} => labs[l].project \in Projects
  BY DEF IInv, LabsKeepProject, Rented, HoldingStates, UsedStates
<1>2. UsedStates' = UsedStates
  BY DEF UsedStates
<1>3. labs[l].state \in UsedStates \cup {"failed", "cleaning"} =>
          /\ \A states \in SUBSET {"allocated", "cleaning"} : Has(l, states) => Has(l, states)'
          /\ SetAside(l) => SetAside(l)'
  BY <1>1 DEF Has, Holds, SetAside
<1>. QED  BY <1>2, <1>3 DEF RentIsKept

\* A cleanup stays current when neither its row nor the project its lab holds is touched.
LEMMA CurrentFrame ==
    ASSUME IInv, NEW u \in CleanupTasks, CleanerIsCurrent(u), cleaner'[u] = cleaner[u],
           ~ At(u, "idle") => labs'[LabOf(u)] = labs[LabOf(u)],
           \A p \in Projects : Holds(LabOf(u), p) => projects'[p] = projects[p]
    PROVE  CleanerIsCurrent(u)'
<1>1. cleaner[u].pc \notin {"idle", "load"} => labs[LabOf(u)].project \in Projects
  BY CleanerFacts
<1>2. cleaner[u].pc \notin {"idle", "load"} /\ Has(LabOf(u), {"allocated", "cleaning"}) =>
          Has(LabOf(u), {"allocated", "cleaning"})'
  BY <1>1 DEF At, Has, Holds
<1>. QED  BY <1>2 DEF CleanerIsCurrent, At

\* A step of the cleanup of t: it touches its own lab, and a project that lab holds.
LEMMA CleanupRentFrame ==
    ASSUME IInv, LegalIInv, RentIInv, NEW t \in CleanupTasks, tasks[t].status # "absent",
           \A k \in Labs : k # LabOf(t) => labs'[k] = labs[k],
           \A p \in Projects : projects'[p] = projects[p] \/ Holds(LabOf(t), p),
           \A u \in CleanupTasks : u # t => cleaner'[u] = cleaner[u],
           RentIsKept(LabOf(t))', CleanerIsCurrent(t)', now' \in Nat, now <= now',
           labs'[LabOf(t)].updated <= now', cleaner'[t].ts <= now',
           UNCHANGED <<verdict, requests>>
    PROVE  RentStep
<1>. DEFINE l == LabOf(t)
<1>1. l \in Labs /\ now \in Nat /\ \A u \in CleanupTasks : LabOf(u) \in Labs
  BY TaskIdFacts, ProvisioningFacts
<1>2. ASSUME NEW k \in Labs
      PROVE  RentIsKept(k)'
  <2>1. CASE k = l
    BY <2>1
  <2>2. CASE k # l
    <3>1. RentIsKept(k)
      BY DEF RentIInv
    <3>2. HandedOver(k) => HandedOver(k)'
      BY <2>2 DEF HandedOver
    <3>3. \A p \in Projects : Holds(k, p) \/ projects[p].state = "quarantine" =>
              projects'[p] = projects[p]
      BY <2>2 DEF Holds
    <3>. QED  BY <2>2, <3>1, <3>2, <3>3, RentFrame
  <2>. QED  BY <2>1, <2>2
<1>3. ASSUME NEW u \in CleanupTasks
      PROVE  CleanerIsCurrent(u)'
  <2>1. CASE u # t /\ LabOf(u) = l
    <3>1. cleaner'[u].pc = "idle"
      BY <2>1, CleanupAlone
    <3>. QED  BY <3>1 DEF CleanerIsCurrent, At
  <2>2. CASE u # t /\ LabOf(u) # l
    <3>1. CleanerIsCurrent(u) /\ cleaner'[u] = cleaner[u] /\ labs'[LabOf(u)] = labs[LabOf(u)]
      BY <1>1, <2>2 DEF RentIInv
    <3>2. \A p \in Projects : Holds(LabOf(u), p) => projects'[p] = projects[p]
      BY <2>2 DEF Holds
    <3>. QED  BY <3>1, <3>2, CurrentFrame
  <2>. QED  BY <2>1, <2>2
<1>4. StampsArePast'
  <2>1. /\ \A k \in Labs : /\ labs[k].updated \in Nat /\ verdict[k].ts \in Nat
                           /\ labs[k].updated <= now /\ verdict[k].ts <= now
        /\ \A u \in CleanupTasks : cleaner[u].ts \in Nat /\ cleaner[u].ts <= now
    BY ProvisioningFacts, CleanerFacts, CleanerTypes
       DEF RentIInv, StampsArePast, LabRows, Verdicts
  <2>2. \A k \in Labs : labs'[k].updated <= now'
    BY <1>1, <2>1
  <2>3. \A u \in CleanupTasks : cleaner'[u].ts <= now'
    BY <1>1, <2>1
  <2>4. \A k \in Labs : verdict'[k].ts <= now'
    BY <1>1, <2>1
  <2>. QED  BY <2>2, <2>3, <2>4 DEF StampsArePast
<1>5. RentIInv'
  BY <1>2, <1>3, <1>4 DEF RentIInv
<1>6. QuarantineStays
  BY DEF QuarantineStays, Holds
<1>. QED  BY <1>5, <1>6 DEF RentStep

\* What a cleanup that runs can rely on.
LEMMA CleanerHolds ==
    ASSUME IInv, LegalIInv, RentIInv, NEW t \in CleanupTasks, cleaner[t].pc # "idle"
    PROVE  /\ tasks[t].status = "active" /\ tasks[t].status # "absent"
           /\ CleanerIsCurrent(t)
           /\ RentIsKept(LabOf(t))
           /\ labs[LabOf(t)].updated <= now /\ cleaner[t].ts <= now
           /\ labs[LabOf(t)].updated <= cleaner[t].ts
           /\ cleaner[t].pc \notin {"secret", "finish"} => ~ HandedOver(LabOf(t))
           /\ cleaner[t].pc \notin {"load", "mark"} => labs[LabOf(t)].state = "cleaning"
           /\ cleaner[t].pc = "project" =>
                 \/ Holds(LabOf(t), cleaner[t].lab.project)
                 \/ projects[cleaner[t].lab.project].state = "quarantine"
           /\ cleaner[t].pc \in {"release", "failure", "clean"} =>
                 Holds(LabOf(t), cleaner[t].lab.project)
<1>. DEFINE l == LabOf(t)
<1>1. l \in Labs /\ CleanerIsAlone(t) /\ CleanerIsCurrent(t) /\ RentIsKept(l)
  BY TaskIdFacts DEF LegalIInv, RentIInv
<1>2. tasks[t].status = "active" /\ tasks[t].status # "absent"
  BY <1>1 DEF CleanerIsAlone, At, Status
<1>3. labs[l].updated <= now /\ cleaner[t].ts <= now /\ labs[l].updated <= cleaner[t].ts
  BY <1>1 DEF RentIInv, StampsArePast, CleanerIsCurrent, At
<1>4. cleaner[t].pc \notin {"secret", "finish"} => ~ HandedOver(l)
  BY <1>2, CleanupAlone DEF HandedOver
<1>5. cleaner[t].pc \notin {"load", "mark"} => labs[l].state = "cleaning"
  BY <1>1 DEF CleanerIsAlone
<1>6. cleaner[t].pc = "project" =>
          \/ Holds(l, cleaner[t].lab.project)
          \/ projects[cleaner[t].lab.project].state = "quarantine"
  BY <1>1, <1>4, <1>5, CleanerFacts DEF RentIsKept, Has, Holds, SetAside
<1>7. cleaner[t].pc \in {"release", "failure", "clean"} => Holds(l, cleaner[t].lab.project)
  BY <1>1, CleanerFacts DEF CleanerIsCurrent, Has, Holds
<1>. QED  BY <1>1, <1>2, <1>3, <1>4, <1>5, <1>6, <1>7

\* The call ends, and the project is as the lab needs it.
LEMMA RentReturn ==
    ASSUME IInv, LegalIInv, RentIInv, NEW t \in CleanupTasks, cleaner[t].pc # "idle",
           Return(t) \/ Fail(t),
           \A k \in Labs : k # LabOf(t) => labs'[k] = labs[k],
           \A p \in Projects : projects'[p] = projects[p] \/ Holds(LabOf(t), p),
           RentIsKept(LabOf(t))', labs'[LabOf(t)].updated <= now,
           UNCHANGED <<now, verdict, requests>>
    PROVE  RentStep
<1>1. cleaner' = [cleaner EXCEPT ![t] = IdleCleaner] /\ t \in TaskIds
  BY TaskIdFacts DEF Return, Fail
<1>2. /\ cleaner'[t] = IdleCleaner
      /\ \A u \in CleanupTasks : u # t => cleaner'[u] = cleaner[u]
  BY <1>1 DEF IInv, TypeOK, CleanupTypeOK
<1>3. CleanerIsCurrent(t)'
  BY <1>2 DEF CleanerIsCurrent, IdleCleaner, At
<1>4. now' \in Nat /\ now <= now' /\ cleaner'[t].ts <= now'
  BY <1>2, ProvisioningFacts DEF IdleCleaner
<1>. QED  BY <1>2, <1>3, <1>4, CleanerHolds, CleanupRentFrame

\* The same, when the call has saved nothing and was not past its release.
LEMMA RentUnsaved ==
    ASSUME IInv, LegalIInv, RentIInv, NEW t \in CleanupTasks, cleaner[t].pc # "idle",
           cleaner[t].pc \notin {"secret", "finish"}, Return(t) \/ Fail(t),
           UNCHANGED <<labs, projects, now, verdict, requests>>
    PROVE  RentStep
<1>. DEFINE l == LabOf(t)
<1>1. l \in Labs /\ RentIsKept(l) /\ ~ HandedOver(l) /\ labs[l].updated <= now
  BY TaskIdFacts, CleanerHolds
<1>2. RentIsKept(l)'
  BY <1>1, RentFrame
<1>. QED  BY <1>1, <1>2, RentReturn

\* The call goes on in state c, having saved neither its lab nor its project.
LEMMA RentGoesOn ==
    ASSUME IInv, LegalIInv, RentIInv, NEW t \in CleanupTasks, cleaner[t].pc # "idle",
           cleaner[t].pc \notin {"secret", "finish"}, NEW c,
           cleaner'[t] = c, c.ts = cleaner[t].ts,
           \A u \in CleanupTasks : u # t => cleaner'[u] = cleaner[u],
           \/ c.pc \in {"release", "failure", "clean"}
           \/ c.pc = "teardown" /\ c.project.state # "quarantine"
           => Has(LabOf(t), {"allocated", "cleaning"}),
           c.pc = "release" => c.project.state = "cleaning",
           c.pc \in {"release", "teardown", "failure"} =>
               \/ c.project.state = "cleaning" /\ c.project.lab = LabOf(t)
               \/ c.project.state = "quarantine",
           c.pc = "clean" => c.project.state = "free",
           c.pc = "mark" => c.lab.updated = c.ts,
           UNCHANGED <<labs, projects, now, verdict, requests>>
    PROVE  RentStep
<1>. DEFINE l == LabOf(t)
<1>1. l \in Labs /\ RentIsKept(l) /\ ~ HandedOver(l)
  BY TaskIdFacts, CleanerHolds
<1>2. RentIsKept(l)'
  BY <1>1, RentFrame
<1>3. CleanerIsCurrent(t)'
  <2>1. labs[l].updated <= cleaner[t].ts
    BY CleanerHolds
  <2>2. Has(l, {"allocated", "cleaning"}) => Has(l, {"allocated", "cleaning"})'
    BY DEF Has
  <2>. QED  BY <2>1, <2>2 DEF CleanerIsCurrent, At
<1>4. now' \in Nat /\ now <= now' /\ labs'[l].updated <= now' /\ cleaner'[t].ts <= now'
  BY CleanerHolds, ProvisioningFacts
<1>. QED  BY <1>2, <1>3, <1>4, CleanerHolds, CleanupRentFrame

LEMMA CleanupStartRent ==
    ASSUME IInv, LegalIInv, RentIInv, NEW t \in CleanupTasks, CleanupStart(t),
           UNCHANGED <<handoff, verdict, requests>>
    PROVE  RentStep
<1>. DEFINE l == LabOf(t)
<1>1. /\ t \in TaskIds /\ tasks[t].status = "pending" /\ l \in Labs
      /\ now' = Now /\ UNCHANGED <<labs, projects>>
  BY TaskIdFacts DEF CleanupStart, Dequeue, Status
<1>2. /\ cleaner'[t].pc = "load" /\ cleaner'[t].ts = Now
      /\ \A u \in CleanupTasks : u # t => cleaner'[u] = cleaner[u]
  BY CleanerFacts DEF CleanupStart, IInv, TypeOK, CleanupTypeOK, Cleaners
<1>3. cleaner[t].pc = "idle"
  BY <1>1 DEF LegalIInv, CleanerIsAlone, At, Status
<1>4. RentIsKept(l) /\ ~ HandedOver(l)
  BY <1>1, <1>3, CleanupAlone DEF RentIInv, HandedOver
<1>5. RentIsKept(l)'
  BY <1>1, <1>4, RentFrame
<1>6. labs[l].updated \in Nat /\ labs[l].updated <= now /\ now \in Nat /\ Now = now + 1
  BY <1>1, ProvisioningFacts DEF RentIInv, StampsArePast, LabRows, Now
<1>7. labs'[l].updated <= Now /\ Now \in Nat /\ now <= Now
  BY <1>1, <1>6
<1>8. CleanerIsCurrent(t)'
  BY <1>1, <1>2, <1>7 DEF CleanerIsCurrent, At
<1>. QED  BY <1>1, <1>2, <1>5, <1>7, <1>8, CleanupRentFrame

LEMMA CleanupLoadRent ==
    ASSUME IInv, LegalIInv, RentIInv, NEW t \in CleanupTasks, CleanupLoad(t),
           UNCHANGED <<handoff, verdict, requests>>
    PROVE  RentStep
<1>. DEFINE row == labs[LabOf(t)]
<1>1. cleaner[t].pc = "load" /\ UNCHANGED <<labs, projects, now>>
  BY DEF CleanupLoad, At, storageVars
<1>2. cleaner \in [CleanupTasks -> Cleaners]
  BY DEF IInv, TypeOK, CleanupTypeOK
<1>3. CASE cleaner' = [cleaner EXCEPT ![t].pc = "project", ![t].lab = row]
  <2>. DEFINE c == [cleaner[t] EXCEPT !.pc = "project", !.lab = row]
  <2>1. cleaner' = [cleaner EXCEPT ![t] = c] /\ c.pc = "project" /\ c.ts = cleaner[t].ts
    BY <1>2, <1>3 DEF Cleaners
  <2>2. cleaner'[t] = c /\ \A u \in CleanupTasks : u # t => cleaner'[u] = cleaner[u]
    BY <1>2, <2>1
  <2>. HIDE DEF c
  <2>. QED  BY <1>1, <2>1, <2>2, RentGoesOn
<1>4. CASE cleaner' = [cleaner EXCEPT ![t].pc  = "mark",
                           ![t].lab = Transition(row, "cleaning", cleaner[t].ts)]
  <2>. DEFINE copy == Transition(row, "cleaning", cleaner[t].ts)
              c    == [cleaner[t] EXCEPT !.pc = "mark", !.lab = copy]
  <2>1. copy.updated = cleaner[t].ts
    <3>1. row \in LabRows /\ cleaner[t].ts \in Nat /\ "cleaning" \in LabStates
      BY CleanerFacts, CleanerTypes, HoldingFacts
    <3>. HIDE DEF row
    <3>. QED  BY <3>1, TransitionType
  <2>. HIDE DEF copy
  <2>2. /\ cleaner' = [cleaner EXCEPT ![t] = c] /\ c.pc = "mark" /\ c.ts = cleaner[t].ts
        /\ c.lab = copy
    BY <1>2, <1>4 DEF Cleaners, copy
  <2>3. cleaner'[t] = c /\ \A u \in CleanupTasks : u # t => cleaner'[u] = cleaner[u]
    BY <1>2, <2>2
  <2>. HIDE DEF c
  <2>. QED  BY <1>1, <2>1, <2>2, <2>3, RentGoesOn
<1>5. CASE Return(t)
  BY <1>1, <1>5, RentUnsaved
<1>. QED  BY <1>3, <1>4, <1>5 DEF CleanupLoad

\* The lab is marked as cleaning while its project is still allocated to it.
LEMMA CleanupMarkRent ==
    ASSUME IInv, LegalIInv, RentIInv, NEW t \in CleanupTasks, CleanupMark(t),
           UNCHANGED <<handoff, verdict, requests>>
    PROVE  RentStep
<1>. DEFINE l == LabOf(t)
<1>1. cleaner[t].pc = "mark" /\ UNCHANGED <<projects, now>>
  BY DEF CleanupMark, At
<1>2. CASE SaveLab(l, cleaner[t].lab) /\ Goto(t, "project")
  <2>1. /\ labs'[l] = cleaner[t].lab /\ l \in Labs
        /\ \A k \in Labs : k # l => labs'[k] = labs[k]
    BY <1>2, TaskIdFacts, ProvisioningFacts DEF SaveLab
  <2>2. /\ cleaner[t].lab.state = "cleaning" /\ cleaner[t].lab.project = labs[l].project
        /\ cleaner[t].lab.updated = cleaner[t].ts
    BY <1>1, CleanerFacts, CleanerHolds DEF CleanerIsCurrent, At
  <2>3. labs[l].state \in {"ready", "frozen", "failed", "cleaning"}
    BY <1>1 DEF LegalIInv, CleanerIsAlone, At, CanTransition, AllowedTransitions, LabStates
  <2>4. Has(l, {"allocated", "cleaning"}) \/ SetAside(l)
    BY <1>1, <2>3, CleanerHolds DEF RentIsKept, Has, UsedStates
  <2>5. RentIsKept(l)'
    BY <1>1, <2>1, <2>2, <2>4 DEF RentIsKept, Has, SetAside, UsedStates
  <2>6. /\ cleaner'[t].pc = "project" /\ cleaner'[t].ts = cleaner[t].ts
        /\ \A u \in CleanupTasks : u # t => cleaner'[u] = cleaner[u]
    BY <1>2, CleanerFacts DEF Goto, IInv, TypeOK, CleanupTypeOK, Cleaners
  <2>7. cleaner[t].ts \in Nat
    BY CleanerFacts, CleanerTypes
  <2>8. CleanerIsCurrent(t)'
    BY <2>1, <2>2, <2>6, <2>7 DEF CleanerIsCurrent, At
  <2>9. now' \in Nat /\ now <= now' /\ labs'[l].updated <= now' /\ cleaner'[t].ts <= now'
    BY <1>1, <2>1, <2>2, <2>6, CleanerHolds, ProvisioningFacts
  <2>. QED  BY <1>1, <2>1, <2>5, <2>6, <2>8, <2>9, CleanerHolds, CleanupRentFrame
<1>3. CASE Fail(t) /\ UNCHANGED labs
  BY <1>1, <1>3, RentUnsaved
<1>. QED  BY <1>2, <1>3 DEF CleanupMark

LEMMA CleanupLoadProjectRent ==
    ASSUME IInv, LegalIInv, RentIInv, NEW t \in CleanupTasks, CleanupLoadProject(t),
           UNCHANGED <<handoff, verdict, requests>>
    PROVE  RentStep
<1>. DEFINE row == projects[cleaner[t].lab.project]
<1>1. cleaner[t].pc = "project" /\ UNCHANGED <<labs, projects, now>>
  BY DEF CleanupLoadProject, At, storageVars, queueVars
<1>2. /\ \/ row.state \in {"allocated", "cleaning"} /\ row.lab = LabOf(t)
         \/ row.state = "quarantine"
      /\ row \in ProjectRows
      /\ row.state # "quarantine" => Has(LabOf(t), {"allocated", "cleaning"})
  BY <1>1, CleanerHolds, CleanerFacts DEF Holds, Has
<1>3. cleaner \in [CleanupTasks -> Cleaners]
  BY DEF IInv, TypeOK, CleanupTypeOK
<1>4. CASE row.state = "allocated"
  <2>. DEFINE copy == Release(row, cleaner[t].ts)
              c    == [cleaner[t] EXCEPT !.pc = "release", !.project = copy]
  <2>1. copy.state = "cleaning" /\ copy.lab = LabOf(t)
    BY <1>2, <1>4 DEF Release, ProjectRows
  <2>2. cleaner' = [cleaner EXCEPT ![t].pc = "release", ![t].project = copy]
    BY <1>4 DEF CleanupLoadProject
  <2>. HIDE DEF copy
  <2>3. /\ cleaner' = [cleaner EXCEPT ![t] = c] /\ c.pc = "release"
        /\ c.ts = cleaner[t].ts /\ c.project = copy
    BY <1>3, <2>2 DEF Cleaners
  <2>4. cleaner'[t] = c /\ \A u \in CleanupTasks : u # t => cleaner'[u] = cleaner[u]
    BY <1>3, <2>3
  <2>. HIDE DEF c
  <2>. QED  BY <1>1, <1>2, <1>4, <2>1, <2>3, <2>4, RentGoesOn
<1>5. CASE row.state # "allocated"
  <2>. DEFINE c == [cleaner[t] EXCEPT !.pc = "teardown", !.project = row]
  <2>1. cleaner' = [cleaner EXCEPT ![t].pc = "teardown", ![t].project = row]
    BY <1>5 DEF CleanupLoadProject
  <2>. HIDE DEF row
  <2>2. /\ cleaner' = [cleaner EXCEPT ![t] = c] /\ c.pc = "teardown"
        /\ c.ts = cleaner[t].ts /\ c.project = row
    BY <1>3, <2>1 DEF Cleaners
  <2>3. cleaner'[t] = c /\ \A u \in CleanupTasks : u # t => cleaner'[u] = cleaner[u]
    BY <1>3, <2>2
  <2>4. /\ \/ row.state = "cleaning" /\ row.lab = LabOf(t)
           \/ row.state = "quarantine"
        /\ row.state # "quarantine" => Has(LabOf(t), {"allocated", "cleaning"})
    BY <1>2, <1>5 DEF row
  <2>. HIDE DEF c
  <2>. QED  BY <1>1, <2>2, <2>3, <2>4, RentGoesOn
<1>. QED  BY <1>4, <1>5

\* The three saves of the project: it stays with the lab to be cleaned, or the
\* cleanup is past its last word on it.
LEMMA CleanupSaveProjectRent ==
    ASSUME IInv, LegalIInv, RentIInv, NEW t \in CleanupTasks,
           CleanupRelease(t) \/ CleanupFailure(t) \/ CleanupClean(t),
           UNCHANGED <<handoff, verdict, requests>>
    PROVE  RentStep
<1>. DEFINE l    == LabOf(t)
            p    == cleaner[t].lab.project
            copy == cleaner[t].project
<1>1. /\ cleaner[t].pc \in {"release", "failure", "clean"}
      /\ UNCHANGED <<labs, now>>
  BY DEF CleanupRelease, CleanupFailure, CleanupClean, CleanupSaveProject, At
<1>2. CASE Fail(t) /\ UNCHANGED projects
  BY <1>1, <1>2, RentUnsaved
<1>3. ASSUME SaveProject(p, copy),
             \/ cleaner[t].pc = "release" /\ Goto(t, "teardown")
             \/ cleaner[t].pc = "failure" /\ copy.state = "quarantine" /\ Goto(t, "finish")
             \/ cleaner[t].pc = "failure" /\ copy.state # "quarantine" /\ Fail(t)
             \/ cleaner[t].pc = "clean" /\ Goto(t, "secret")
      PROVE  RentStep
  <2>1. /\ p \in Projects /\ copy \in ProjectRows /\ l \in Labs /\ p = labs[l].project
        /\ labs[l].state = "cleaning" /\ Holds(l, p)
    BY <1>1, CleanerFacts, CleanerTypes, CleanerHolds
  <2>2. /\ projects'[p] = Persisted(copy)
        /\ \A q \in Projects : q # p => projects'[q] = projects[q]
    BY <1>3, <2>1, ProvisioningFacts DEF SaveProject
  <2>3. \A q \in Projects : projects'[q] = projects[q] \/ Holds(l, q)
    BY <2>1, <2>2
  <2>4. copy.state = "cleaning" /\ copy.lab = l =>
            projects'[p].state = "cleaning" /\ projects'[p].lab = l
    BY <2>2 DEF Persisted
  <2>5. /\ cleaner[t].pc = "release" => copy.state = "cleaning" /\ copy.lab = l
        /\ cleaner[t].pc = "failure" /\ copy.state # "quarantine" =>
               copy.state = "cleaning" /\ copy.lab = l
    BY <1>1, CleanerHolds DEF CleanerIsCurrent
  <2>6. CASE Fail(t)
    <3>1. cleaner[t].pc = "failure" /\ copy.state # "quarantine"
      <4>1. \A pc \in {"teardown", "finish", "secret"} : Goto(t, pc) => ~ Fail(t)
        BY CleanerFields, CleanerFacts DEF CleanupPCs
      <4>. QED  BY <1>3, <2>6, <4>1
    <3>2. RentIsKept(l)'
      BY <1>1, <2>1, <2>4, <2>5, <3>1 DEF RentIsKept, Has, UsedStates
    <3>. QED  BY <1>1, <2>3, <2>6, <3>2, CleanerHolds, RentReturn
  <2>7. ASSUME NEW pc \in {"teardown", "secret", "finish"}, Goto(t, pc),
               pc = "teardown" => cleaner[t].pc = "release"
        PROVE  RentStep
    <3>1. /\ cleaner'[t].pc = pc /\ cleaner'[t].ts = cleaner[t].ts
          /\ cleaner'[t].project = copy
          /\ \A u \in CleanupTasks : u # t => cleaner'[u] = cleaner[u]
      BY <2>7, CleanerFacts DEF Goto, IInv, TypeOK, CleanupTypeOK, Cleaners
    <3>2. pc # "teardown" => HandedOver(l)'
      BY <3>1 DEF HandedOver
    <3>3. RentIsKept(l)'
      BY <1>1, <2>1, <2>4, <2>5, <2>7, <3>2 DEF RentIsKept, Has, UsedStates
    <3>4. CleanerIsCurrent(t)'
      <4>1. labs[l].updated <= cleaner[t].ts
        BY <1>1, CleanerHolds
      <4>2. pc = "teardown" => Has(l, {"allocated", "cleaning"})'
        BY <1>1, <2>1, <2>4, <2>5, <2>7 DEF Has
      <4>. QED  BY <1>1, <2>5, <2>7, <3>1, <4>1, <4>2 DEF CleanerIsCurrent, At
    <3>5. now' \in Nat /\ now <= now' /\ labs'[l].updated <= now' /\ cleaner'[t].ts <= now'
      BY <1>1, <3>1, CleanerHolds, ProvisioningFacts
    <3>. QED
      BY <1>1, <2>3, <3>1, <3>3, <3>4, <3>5, CleanerHolds, CleanupRentFrame
  <2>. QED  BY <1>3, <2>6, <2>7
<1>. QED
  BY <1>2, <1>3 DEF CleanupRelease, CleanupFailure, CleanupClean, CleanupSaveProject, At

\* Past its last word on the project, a cleanup goes on in state pc.
LEMMA RentHandedOver ==
    ASSUME IInv, LegalIInv, RentIInv, NEW t \in CleanupTasks, NEW pc \in {"secret", "finish"},
           cleaner[t].pc \in {"teardown", "secret"},
           cleaner'[t] = [cleaner[t] EXCEPT !.pc = pc],
           \A u \in CleanupTasks : u # t => cleaner'[u] = cleaner[u],
           UNCHANGED <<labs, projects, now, verdict, requests>>
    PROVE  RentStep
<1>. DEFINE l == LabOf(t)
<1>1. cleaner'[t].pc = pc /\ cleaner'[t].ts = cleaner[t].ts
  BY CleanerFacts DEF Cleaners
<1>2. l \in Labs /\ RentIsKept(l) /\ HandedOver(l)'
  BY <1>1, TaskIdFacts, CleanerHolds DEF HandedOver
<1>3. RentIsKept(l)'
  BY <1>2, RentFrame
<1>4. CleanerIsCurrent(t)'
  BY <1>1, CleanerHolds DEF CleanerIsCurrent, At
<1>5. now' \in Nat /\ now <= now' /\ labs'[l].updated <= now' /\ cleaner'[t].ts <= now'
  BY <1>1, CleanerHolds, ProvisioningFacts
<1>. QED  BY <1>1, <1>3, <1>4, <1>5, CleanerHolds, CleanupRentFrame

LEMMA CleanupTeardownRent ==
    ASSUME IInv, LegalIInv, RentIInv, NEW t \in CleanupTasks,
           CleanupTeardown(t) \/ CleanupTeardownFails(t),
           UNCHANGED <<handoff, verdict, requests>>
    PROVE  RentStep
<1>. DEFINE project == cleaner[t].project
<1>1. cleaner[t].pc = "teardown" /\ UNCHANGED <<labs, projects, now>>
  BY DEF CleanupTeardown, CleanupTeardownFails, At, storageVars, queueVars
<1>2. /\ project \in ProjectRows
      /\ \/ project.state = "cleaning" /\ project.lab = LabOf(t)
         \/ project.state = "quarantine"
      /\ project.state # "quarantine" => Has(LabOf(t), {"allocated", "cleaning"})
  BY <1>1, CleanerHolds, CleanerFacts, CleanerTypes DEF CleanerIsCurrent
<1>3. cleaner \in [CleanupTasks -> Cleaners]
  BY DEF IInv, TypeOK, CleanupTypeOK
<1>4. CASE CleanupTeardown(t) /\ project.state = "cleaning"
  <2>. DEFINE copy == MarkClean(project, cleaner[t].ts)
              c    == [cleaner[t] EXCEPT !.pc = "clean", !.project = copy]
  <2>1. copy.state = "free"
    BY <1>2, <1>4, CleanerFacts, CleanerTypes, MarkCleanType
  <2>2. cleaner' = [cleaner EXCEPT ![t].pc = "clean", ![t].project = copy]
    BY <1>4 DEF CleanupTeardown
  <2>. HIDE DEF copy
  <2>3. /\ cleaner' = [cleaner EXCEPT ![t] = c] /\ c.pc = "clean"
        /\ c.ts = cleaner[t].ts /\ c.project = copy
    BY <1>3, <2>2 DEF Cleaners
  <2>4. cleaner'[t] = c /\ \A u \in CleanupTasks : u # t => cleaner'[u] = cleaner[u]
    BY <1>3, <2>3
  <2>. HIDE DEF c
  <2>. QED  BY <1>1, <1>2, <1>4, <2>1, <2>3, <2>4, RentGoesOn
<1>5. CASE CleanupTeardownFails(t) /\ project.state = "cleaning"
  <2>. DEFINE copy == RecordCleanupFailure(project, cleaner[t].ts)
              c    == [cleaner[t] EXCEPT !.pc = "failure", !.project = copy]
  <2>1. copy.state \in {"cleaning", "quarantine"} /\ copy.lab = LabOf(t)
    <3>1. copy.state \in {"cleaning", "quarantine"}
      BY <1>2, <1>5, CleanerFacts, CleanerTypes, RecordCleanupFailureType
    <3>2. copy.lab = project.lab
      BY <1>2 DEF RecordCleanupFailure, ProjectRows
    <3>. QED  BY <1>2, <1>5, <3>1, <3>2
  <2>2. cleaner' = [cleaner EXCEPT ![t].pc = "failure", ![t].project = copy]
    BY <1>3, <1>5 DEF CleanupTeardownFails, Cleaners
  <2>. HIDE DEF copy
  <2>3. /\ cleaner' = [cleaner EXCEPT ![t] = c] /\ c.pc = "failure"
        /\ c.ts = cleaner[t].ts /\ c.project = copy
    BY <1>3, <2>2 DEF Cleaners
  <2>4. cleaner'[t] = c /\ \A u \in CleanupTasks : u # t => cleaner'[u] = cleaner[u]
    BY <1>3, <2>3
  <2>. HIDE DEF c
  <2>. QED  BY <1>1, <1>2, <1>5, <2>1, <2>3, <2>4, RentGoesOn
<1>6. CASE CleanupTeardown(t) /\ project.state = "quarantine"
  <2>1. cleaner' = [cleaner EXCEPT ![t].pc = "secret"]
    BY <1>6 DEF CleanupTeardown
  <2>2. /\ cleaner'[t] = [cleaner[t] EXCEPT !.pc = "secret"]
        /\ \A u \in CleanupTasks : u # t => cleaner'[u] = cleaner[u]
    BY <1>3, <2>1
  <2>. QED  BY <1>1, <2>2, RentHandedOver
<1>7. CASE CleanupTeardownFails(t) /\ project.state = "quarantine"
  <2>1. Fail(t)
    BY <1>7 DEF CleanupTeardownFails
  <2>. QED  BY <1>1, <2>1, RentUnsaved
<1>. QED  BY <1>2, <1>4, <1>5, <1>6, <1>7

LEMMA CleanupSecretRent ==
    ASSUME IInv, LegalIInv, RentIInv, NEW t \in CleanupTasks, CleanupSecret(t),
           UNCHANGED <<handoff, verdict, requests>>
    PROVE  RentStep
<1>1. cleaner[t].pc = "secret" /\ Goto(t, "finish") /\ UNCHANGED <<labs, projects, now>>
  BY DEF CleanupSecret, At, storageVars
<1>2. /\ cleaner'[t] = [cleaner[t] EXCEPT !.pc = "finish"]
      /\ \A u \in CleanupTasks : u # t => cleaner'[u] = cleaner[u]
  BY <1>1 DEF Goto, IInv, TypeOK, CleanupTypeOK
<1>. QED  BY <1>1, <1>2, RentHandedOver

\* The last save is never refused: nobody has stamped the lab since.
LEMMA CleanupFinishRent ==
    ASSUME IInv, LegalIInv, RentIInv, NEW t \in CleanupTasks, CleanupFinish(t),
           UNCHANGED <<handoff, verdict, requests>>
    PROVE  RentStep
<1>. DEFINE l   == LabOf(t)
            row == Transition(cleaner[t].lab, "done", cleaner[t].ts)
<1>1. cleaner[t].pc = "finish" /\ l \in Labs /\ UNCHANGED <<projects, now>>
  BY TaskIdFacts DEF CleanupFinish, At
<1>2. row.state = "done" /\ row.updated = cleaner[t].ts
  <2>1. cleaner[t].lab \in LabRows /\ cleaner[t].ts \in Nat /\ "done" \in LabStates
    BY CleanerFacts, CleanerTypes DEF LabStates
  <2>. QED  BY <2>1, TransitionType
<1>. HIDE DEF row
<1>3. CanSaveLab(l, row)
  <2>1. Indexed(l, row.state)
    BY <1>2 DEF Indexed, ActiveStates
  <2>. QED  BY <1>1, <1>2, <2>1, CleanerHolds DEF CanSaveLab
<1>4. SaveLab(l, row) /\ Return(t)
  BY <1>3 DEF CleanupFinish, row
<1>5. labs'[l] = row /\ \A k \in Labs : k # l => labs'[k] = labs[k]
  BY <1>1, <1>4, ProvisioningFacts DEF SaveLab
<1>6. RentIsKept(l)'
  BY <1>2, <1>5 DEF RentIsKept, UsedStates
<1>7. labs'[l].updated <= now
  BY <1>1, <1>2, <1>5, CleanerHolds
<1>. QED  BY <1>1, <1>4, <1>5, <1>6, <1>7, RentReturn

\* A cleanup that dies is run again: its project is still its lab's, or in quarantine.
LEMMA CleanupCrashRent ==
    ASSUME IInv, LegalIInv, RentIInv, NEW t \in CleanupTasks, CleanupCrash(t), ~ Relapses(t),
           UNCHANGED <<handoff, verdict, requests>>
    PROVE  RentStep
<1>. DEFINE l == LabOf(t)
<1>1. cleaner[t].pc # "idle" /\ Fail(t) /\ UNCHANGED <<labs, projects, now>>
  BY DEF CleanupCrash, At, storageVars
<1>2. CASE cleaner[t].pc \notin {"secret", "finish"}
  BY <1>1, <1>2, RentUnsaved
<1>3. CASE cleaner[t].pc \in {"secret", "finish"}
  <2>1. SetAside(l) /\ l \in Labs
    BY <1>3, CleanerFacts DEF Relapses, SetAside
  <2>2. SetAside(l)' /\ labs'[l].state = "cleaning"
    BY <1>1, <1>3, <2>1, CleanerHolds DEF SetAside
  <2>3. RentIsKept(l)'
    BY <2>2 DEF RentIsKept, UsedStates
  <2>4. labs'[l].updated <= now
    BY <1>1, CleanerHolds
  <2>. QED  BY <1>1, <2>3, <2>4, RentReturn
<1>. QED  BY <1>2, <1>3

LEMMA CleanerMovesRent ==
    ASSUME IInv, LegalIInv, RentIInv, NEW t \in CleanupTasks, CleanerMoves(t), ~ Relapses(t)
    PROVE  RentStep
<1>1. UNCHANGED <<handoff, verdict, requests>> /\ CleanupNext(t)
  BY DEF CleanerMoves
<1>. QED
  BY <1>1, CleanupStartRent, CleanupLoadRent, CleanupMarkRent, CleanupLoadProjectRent,
     CleanupSaveProjectRent, CleanupTeardownRent, CleanupSecretRent, CleanupFinishRent,
     CleanupCrashRent
     DEF CleanupNext, CleanupStep

\* A step of the creation or the deploy of lab l: the cleanups are elsewhere.
LEMMA DeployRentFrame ==
    ASSUME IInv, LegalIInv, RentIInv, NEW l \in Labs,
           UNCHANGED labs \/ NoCleanup(l),
           \A k \in Labs : k # l => labs'[k] = labs[k] /\ verdict'[k] = verdict[k],
           \A p \in Projects : projects'[p] = projects[p] \/ projects[p].state = "free",
           RentIsKept(l)', now' \in {now, Now},
           labs'[l].updated <= now', verdict'[l].ts <= now',
           UNCHANGED <<cleaner, requests>>
    PROVE  RentStep
<1>1. now \in Nat /\ now' \in Nat /\ now <= now'
  BY ProvisioningFacts DEF Now
<1>2. ASSUME NEW k \in Labs
      PROVE  RentIsKept(k)'
  <2>1. CASE k = l
    BY <2>1
  <2>2. CASE k # l
    <3>1. RentIsKept(k) /\ labs'[k] = labs[k]
      BY <2>2 DEF RentIInv
    <3>2. HandedOver(k) => HandedOver(k)'
      BY DEF HandedOver
    <3>3. \A p \in Projects : Holds(k, p) \/ projects[p].state = "quarantine" =>
              projects'[p] = projects[p]
      BY DEF Holds
    <3>. QED  BY <3>1, <3>2, <3>3, RentFrame
  <2>. QED  BY <2>1, <2>2
<1>3. ASSUME NEW u \in CleanupTasks
      PROVE  CleanerIsCurrent(u)'
  <2>1. CleanerIsCurrent(u) /\ LabOf(u) \in Labs
    BY TaskIdFacts DEF RentIInv
  <2>2. ~ At(u, "idle") => labs'[LabOf(u)] = labs[LabOf(u)]
    BY <2>1 DEF NoCleanup, At
  <2>3. \A p \in Projects : Holds(LabOf(u), p) => projects'[p] = projects[p]
    BY DEF Holds
  <2>. QED  BY <2>1, <2>2, <2>3, CurrentFrame
<1>4. StampsArePast'
  <2>1. /\ \A k \in Labs : /\ labs[k].updated \in Nat /\ verdict[k].ts \in Nat
                           /\ labs[k].updated <= now /\ verdict[k].ts <= now
        /\ \A u \in CleanupTasks : cleaner[u].ts \in Nat /\ cleaner[u].ts <= now
    BY ProvisioningFacts, CleanerFacts, CleanerTypes
       DEF RentIInv, StampsArePast, LabRows, Verdicts
  <2>2. \A k \in Labs : labs'[k].updated <= now' /\ verdict'[k].ts <= now'
    BY <1>1, <2>1
  <2>3. \A u \in CleanupTasks : cleaner'[u].ts <= now'
    BY <1>1, <2>1
  <2>. QED  BY <2>2, <2>3 DEF StampsArePast
<1>5. RentIInv'
  BY <1>2, <1>3, <1>4 DEF RentIInv
<1>6. QuarantineStays
  BY DEF QuarantineStays
<1>. QED  BY <1>5, <1>6 DEF RentStep

\* A step of lab l that saves no row.
LEMMA DeployRentQuiet ==
    ASSUME IInv, LegalIInv, RentIInv, NEW l \in Labs,
           UNCHANGED <<labs, projects, cleaner, requests>>,
           \A k \in Labs : k # l => verdict'[k] = verdict[k],
           now' \in {now, Now}, verdict'[l].ts <= now'
    PROVE  RentStep
<1>1. RentIsKept(l) /\ (HandedOver(l) => HandedOver(l)')
  BY DEF RentIInv, HandedOver
<1>2. RentIsKept(l)'
  BY <1>1, RentFrame
<1>3. labs[l].updated \in Nat /\ labs[l].updated <= now /\ now \in Nat /\ Now = now + 1
  BY ProvisioningFacts DEF RentIInv, StampsArePast, LabRows, Now
<1>4. labs'[l].updated <= now'
  BY <1>3
<1>. QED  BY <1>2, <1>4, DeployRentFrame

LEMMA CreateLabRent ==
    ASSUME IInv, LegalIInv, RentIInv, NEW l \in Labs, CreateLab(l),
           UNCHANGED <<cleaner, requests>>
    PROVE  RentStep
<1>. DEFINE ts == verdict[l].ts
<1>1. labs[l].state = "absent" /\ UNCHANGED now /\ NoCleanup(l)
  BY NoCleanupYet DEF CreateLab, queueVars
<1>2. ts \in Nat /\ ts <= now /\ now \in Nat /\ labs[l].updated <= now
  BY ProvisioningFacts DEF Verdicts, RentIInv, StampsArePast
<1>3. /\ verdict'[l].ts <= now
      /\ \A k \in Labs : k # l => verdict'[k] = verdict[k]
  BY <1>2, LabFacts DEF CreateLab, NoVerdict
<1>4. CASE UNCHANGED <<labs, projects>>
  BY <1>1, <1>3, <1>4, DeployRentQuiet
<1>5. ASSUME NEW p \in FreeProjects, SaveLab(l, AssignProject(NewLab(ts), p, ts)),
             SaveProject(p, Allocated(p, l, ts))
      PROVE  RentStep
  <2>. DEFINE row  == AssignProject(NewLab(ts), p, ts)
              copy == Allocated(p, l, ts)
  <2>1. p \in Projects /\ projects[p].state = "free" /\ projects[p] \in ProjectRows
    BY ProvisioningFacts DEF FreeProjects
  <2>2. row.state = "deploying" /\ row.project = p /\ row.updated = ts
    BY <1>2, <2>1, NewLabType, AssignProjectType
  <2>3. copy.state = "allocated" /\ copy.lab = l
    BY <2>1 DEF Allocated, ProjectRows
  <2>. HIDE DEF row, copy
  <2>4. labs'[l] = row /\ \A k \in Labs : k # l => labs'[k] = labs[k]
    BY <1>5, LabFacts DEF row
  <2>5. projects'[p] = copy /\ \A q \in Projects : q # p => projects'[q] = projects[q]
    BY <1>5, <2>1, <2>3, ProvisioningFacts DEF SaveProject, Persisted, copy
  <2>6. RentIsKept(l)'
    BY <2>2, <2>3, <2>4, <2>5 DEF RentIsKept, Has, UsedStates
  <2>. QED  BY <1>1, <1>2, <1>3, <2>1, <2>2, <2>4, <2>5, <2>6, DeployRentFrame
<1>6. CASE SaveLab(l, Transition(NewLab(ts), "rejected", ts)) /\ UNCHANGED projects
  <2>. DEFINE row == Transition(NewLab(ts), "rejected", ts)
  <2>1. row.state = "rejected" /\ row.updated = ts
    <3>1. "rejected" \in LabStates /\ NewLab(ts) \in LabRows
      BY <1>2, NewLabType DEF LabStates
    <3>. QED  BY <1>2, <3>1, TransitionType
  <2>. HIDE DEF row
  <2>2. labs'[l] = row /\ \A k \in Labs : k # l => labs'[k] = labs[k]
    BY <1>6, LabFacts DEF row
  <2>3. RentIsKept(l)'
    BY <2>1, <2>2 DEF RentIsKept, UsedStates
  <2>. QED  BY <1>1, <1>2, <1>3, <1>6, <2>1, <2>2, <2>3, DeployRentFrame
<1>. QED  BY <1>4, <1>5, <1>6 DEF CreateLab

LEMMA DeploySavesRent ==
    ASSUME IInv, LegalIInv, RentIInv, NEW l \in Labs, DeploySaves(l),
           UNCHANGED <<cleaner, requests>>
    PROVE  RentStep
<1>. DEFINE row == DeployRow(l)
<1>1. /\ verdict[l].state \in Outcomes /\ verdict'[l] = NoVerdict
      /\ \A k \in Labs : k # l => verdict'[k] = verdict[k]
      /\ UNCHANGED <<projects, now>>
  BY LabFacts DEF DeploySaves
<1>2. labs[l].state = "deploying" /\ NoCleanup(l)
  BY <1>1, LabFacts, NoCleanupYet DEF DeployInOrder, Status
<1>3. now \in Nat /\ verdict[l].ts <= now /\ NoVerdict.ts = 0
  BY ProvisioningFacts DEF RentIInv, StampsArePast, NoVerdict
<1>4. CASE UNCHANGED labs
  BY <1>1, <1>3, <1>4, DeployRentQuiet
<1>5. CASE SaveLab(l, row)
  <2>1. /\ row.state \in {"ready", "failed"} /\ row.project = labs[l].project
        /\ row.updated = verdict[l].ts
    BY DeployRowFacts
  <2>2. labs'[l] = row /\ \A k \in Labs : k # l => labs'[k] = labs[k]
    BY <1>5, LabFacts
  <2>. HIDE DEF row
  <2>3. Has(l, {"allocated"})
    BY <1>2 DEF RentIInv, RentIsKept, UsedStates
  <2>4. RentIsKept(l)'
    BY <1>1, <2>1, <2>2, <2>3 DEF RentIsKept, Has
  <2>. QED  BY <1>1, <1>2, <1>3, <2>1, <2>2, <2>4, DeployRentFrame
<1>. QED  BY <1>4, <1>5 DEF DeploySaves

LEMMA LabMovesRent ==
    ASSUME IInv, LegalIInv, RentIInv, NEW l \in Labs, LabMoves(l)
    PROVE  RentStep
<1>1. UNCHANGED <<cleaner, requests>> /\ ProvisioningNext(l)
  BY DEF LabMoves
<1>2. verdict[l].ts <= now /\ now \in Nat /\ Now = now + 1
  BY ProvisioningFacts DEF RentIInv, StampsArePast, Now
<1>3. CASE AdmitLab(l)
  <2>1. /\ UNCHANGED <<labs, projects>> /\ now' = Now
        /\ verdict'[l].ts = Now /\ \A k \in Labs : k # l => verdict'[k] = verdict[k]
    BY <1>3, LabFacts DEF AdmitLab, queueVars
  <2>. QED  BY <1>1, <1>2, <2>1, DeployRentQuiet
<1>4. CASE DeploySucceeds(l) \/ DeployFails(l)
  <2>1. /\ UNCHANGED <<labs, projects>> /\ now' = Now
        /\ verdict'[l].ts = Now /\ \A k \in Labs : k # l => verdict'[k] = verdict[k]
    BY <1>4, LabFacts DEF DeploySucceeds, DeployFails, queueVars
  <2>. QED  BY <1>1, <1>2, <2>1, DeployRentQuiet
<1>5. CASE EnqueueDeploy(l) \/ DeployStart(l) \/ DeployHandOff(l)
  <2>1. UNCHANGED <<labs, projects, now, verdict>>
    BY <1>5 DEF EnqueueDeploy, DeployStart, DeployHandOff, storageVars
  <2>. QED  BY <1>1, <1>2, <2>1, DeployRentQuiet
<1>6. CASE EnqueueDeployLost(l) \/ DeployHandOffLost(l) \/ DeployCrash(l)
  <2>1. /\ UNCHANGED <<labs, projects, now>>
        /\ UNCHANGED verdict \/ Decides(l, NoVerdict)
    BY <1>6 DEF EnqueueDeployLost, DeployHandOffLost, DeployCrash, storageVars
  <2>2. CASE UNCHANGED verdict
    BY <1>1, <1>2, <2>1, <2>2, DeployRentQuiet
  <2>3. CASE Decides(l, NoVerdict)
    <3>1. verdict'[l] = NoVerdict /\ \A k \in Labs : k # l => verdict'[k] = verdict[k]
      BY <2>3, LabFacts
    <3>2. verdict'[l].ts <= now
      BY <1>2, <3>1 DEF NoVerdict
    <3>. QED  BY <1>1, <2>1, <3>1, <3>2, DeployRentQuiet
  <2>. QED  BY <2>1, <2>2, <2>3
<1>. QED
  BY <1>1, <1>3, <1>4, <1>5, <1>6, CreateLabRent, DeploySavesRent
     DEF ProvisioningNext, DeployStep

\* Nobody sends a request.
LEMMA NoRequestMoves ==
    ASSUME NoRequests, RentIInv, NEW r \in Requests
    PROVE  ~ RequestMoves(r)
BY DEF NoRequests, RentIInv, RequestMoves, LabOpsNext, RequestStep, RequestLoadsLab,
   RequestChecks, RequestSavesLab, StopEnqueues, StopEnqueueLost, RequestStamps,
   RequestLoadsProject, RequestSavesProject

LEMMA RentInit == Init => RentIInv
<1>. SUFFICES ASSUME Init PROVE RentIInv
  OBVIOUS
<1>. USE DEF Init, StorageInit, QueueInit, CleanupInit, ProvisioningInit, LabOpsInit
<1>1. \A l \in Labs : RentIsKept(l)
  BY DEF RentIsKept, UsedStates, NoLabRow
<1>2. \A t \in CleanupTasks : CleanerIsCurrent(t)
  BY DEF CleanerIsCurrent, IdleCleaner, At
<1>3. StampsArePast
  BY DEF StampsArePast, NoLabRow, NoVerdict, IdleCleaner
<1>4. \A r \in Requests : requests[r].pc = "new"
  BY DEF NewRequest
<1>. QED  BY <1>1, <1>2, <1>3, <1>4 DEF RentIInv

LEMMA RentNext ==
    ASSUME NoRequests, IInv, LegalIInv, RentIInv, [Next]_vars,
           [\A t \in CleanupTasks : ~ Relapses(t)]_vars
    PROVE  RentStep
<1>1. ASSUME UNCHANGED <<labs, projects, now, cleaner, verdict, requests>>
      PROVE  RentStep
  <2>1. \A l \in Labs : RentIsKept(l)'
    BY <1>1, RentFrame DEF RentIInv, HandedOver
  <2>2. \A t \in CleanupTasks : CleanerIsCurrent(t)'
    BY <1>1, CurrentFrame DEF RentIInv
  <2>3. StampsArePast'
    BY <1>1 DEF RentIInv, StampsArePast
  <2>. QED  BY <1>1, <2>1, <2>2, <2>3 DEF RentStep, RentIInv, QuarantineStays
<1>2. CASE UNCHANGED vars
  BY <1>1, <1>2 DEF vars, storageVars, queueVars
<1>3. CASE \E t \in TaskIds : TimerFires(t)
  BY <1>1, <1>3 DEF TimerFires, storageVars
<1>. QED
  BY <1>2, <1>3, CleanerMovesRent, LabMovesRent, NoRequestMoves DEF Next

LEMMA NoRequestsIsLegal == NoRequests => NoLifecycleRequests
BY DEF NoRequests, NoLifecycleRequests

\* Whatever else crashes, is lost or is retried, a lab keeps its project until its
\* cleanup has handed it over, or has given it up to quarantine.
THEOREM RentHolds ==
    ASSUME NoRequests PROVE Spec /\ Steadily => []RentIInv
<1>1. IInv /\ LegalIInv /\ RentIInv /\ [Next]_vars /\ [\A t \in CleanupTasks : ~ Relapses(t)]_vars
          => RentIInv'
  BY RentNext DEF RentStep
<1>2. Spec => []LegalIInv
  BY NoRequestsIsLegal, OrderHolds
<1>. QED  BY <1>1, <1>2, RentInit, InvariantHolds, PTL DEF Spec, Steadily

\* A lab that is deployed, in use or failed has its project allocated to it.
THEOREM LiveLabKeepsRent ==
    ASSUME NoRequests PROVE Spec /\ Steadily => []LiveLabHasRent
<1>1. RentIInv => LiveLabHasRent
  BY DEF RentIInv, RentIsKept, Has, LiveLabHasRent
<1>. QED  BY <1>1, RentHolds, PTL

\* No project is rented to two labs: a cleanup that dies between the save of the free
\* project and the save of its lab is the only way to the double rent.
THEOREM RentsAreUnique ==
    ASSUME NoRequests PROVE Spec /\ Steadily => []RentIsUnique
<1>1. LiveLabHasRent => RentIsUnique
  BY DEF LiveLabHasRent, RentIsUnique, UsedStates
<1>. QED  BY <1>1, LiveLabKeepsRent, PTL

\* No cleanup takes a project out of quarantine.
THEOREM QuarantineIsLeftAlone ==
    ASSUME NoRequests PROVE Spec /\ Steadily => QuarantineIsSticky
<1>1. IInv /\ LegalIInv /\ RentIInv /\ [Next]_vars /\ [\A t \in CleanupTasks : ~ Relapses(t)]_vars =>
          [\A p \in Projects :
             projects[p].state = "quarantine" /\ projects'[p].state # "quarantine" =>
                 \E r \in Requests : requests[r].command = "release" /\ requests[r].id = p
                                     /\ requests[r] # requests'[r]]_vars
  BY RentNext DEF RentStep, QuarantineStays
<1>2. Spec => []LegalIInv
  BY NoRequestsIsLegal, OrderHolds
<1>. QED
  BY <1>1, <1>2, RentHolds, InvariantHolds, PTL DEF Spec, Steadily, QuarantineIsSticky

\* Where nothing dies and nothing is lost, no cleanup dies.
LEMMA FaultlessIsSteady ==
    ASSUME MaxFaults = 0 PROVE Spec => Steadily
<1>1. IInv => \A t \in CleanupTasks : ~ Relapses(t)
  BY ProvisioningFacts DEF Relapses, CleanupCrash, Fault
<1>2. IInv => [\A t \in CleanupTasks : ~ Relapses(t)]_vars
  BY <1>1
<1>. QED  BY <1>2, InvariantHolds, PTL DEF Steadily

-----------------------------------------------------------------------------
(* A free project is empty of all the database knows, and a lab is done    *)
(* only behind its teardown, under the same hypotheses.                    *)

\* All that is known of one lab and of its cleanups.
LabAndCleanups(l) ==
    LabIsClean(l) /\ \A t \in CleanupTasks : LabOf(t) = l => CleanerTears(t)

\* What one step of a lab leaves of every other lab.
CleanElsewhere(l) ==
    \A k \in Labs : k # l =>
        /\ labs'[k] = labs[k] /\ exists'[k] = exists[k]
        /\ \A t \in CleanupTasks : LabOf(t) = k => cleaner'[t] = cleaner[t]

LEMMA TornDownStays ==
    ASSUME IInv, QuarantineStays, NEW l \in Labs, Rented(l), TornDown(l),
           labs'[l].known = labs[l].known, labs'[l].project = labs[l].project,
           exists'[l] \subseteq exists[l]
    PROVE  TornDown(l)'
<1>1. labs[l].project \in Projects
  BY DEF IInv, LabsKeepProject
<1>. QED  BY <1>1 DEF TornDown, Recorded, QuarantineStays

LEMMA CleanFrame ==
    ASSUME IInv, QuarantineStays, CleanIInv, NEW l \in Labs,
           labs'[l] = labs[l], exists'[l] \subseteq exists[l],
           \A t \in CleanupTasks : LabOf(t) = l => cleaner'[t] = cleaner[t]
    PROVE  LabAndCleanups(l)'
<1>1. LabIsClean(l)'
  <2>1. LabIsClean(l)
    BY DEF CleanIInv
  <2>2. labs[l].state = "done" => Rented(l)
    BY DEF Rented
  <2>. QED  BY <2>1, <2>2, TornDownStays DEF LabIsClean
<1>2. ASSUME NEW t \in CleanupTasks, LabOf(t) = l
      PROVE  CleanerTears(t)'
  <2>1. CleanerTears(t) /\ cleaner'[t] = cleaner[t]
    BY <1>2 DEF CleanIInv
  <2>2. cleaner[t].pc \notin {"idle", "load"} => Rented(l)
    BY <1>2, CleanerFacts
  <2>3. Recorded(l) = {} => Recorded(l)' = {}
    BY DEF Recorded
  <2>. QED  BY <1>2, <2>1, <2>2, <2>3, TornDownStays DEF CleanerTears
<1>. QED  BY <1>1, <1>2 DEF LabAndCleanups

LEMMA CleanStep ==
    ASSUME IInv, QuarantineStays, CleanIInv, NEW l \in Labs,
           LabAndCleanups(l)', CleanElsewhere(l)
    PROVE  CleanIInv'
<1>1. \A k \in Labs : LabAndCleanups(k)'
  BY CleanFrame DEF CleanElsewhere
<1>. QED  BY <1>1, TaskIdFacts DEF CleanIInv, LabAndCleanups

\* A step of the cleanup of t; the other cleanups of its lab are idle.
LEMMA CleanerCleanFrame ==
    ASSUME IInv, LegalIInv, QuarantineStays, CleanIInv, NEW t \in CleanupTasks,
           tasks[t].status # "absent",
           \A u \in CleanupTasks : u # t => cleaner'[u] = cleaner[u],
           \A k \in Labs : k # LabOf(t) => labs'[k] = labs[k] /\ exists'[k] = exists[k],
           LabIsClean(LabOf(t))', CleanerTears(t)'
    PROVE  CleanIInv'
<1>. DEFINE l == LabOf(t)
<1>1. l \in Labs
  BY TaskIdFacts
<1>2. \A u \in CleanupTasks : LabOf(u) = l /\ u # t => cleaner'[u].pc = "idle"
  BY CleanupAlone
<1>3. \A u \in CleanupTasks : LabOf(u) = l => CleanerTears(u)'
  BY <1>2 DEF CleanerTears
<1>4. LabAndCleanups(l)' /\ CleanElsewhere(l)
  BY <1>3 DEF LabAndCleanups, CleanElsewhere
<1>. QED  BY <1>1, <1>4, CleanStep

\* The call ends without a save.
LEMMA CleanReturn ==
    ASSUME IInv, LegalIInv, QuarantineStays, CleanIInv, NEW t \in CleanupTasks,
           cleaner[t].pc # "idle", Return(t) \/ Fail(t),
           \A k \in Labs : k # LabOf(t) => labs'[k] = labs[k] /\ exists'[k] = exists[k],
           LabIsClean(LabOf(t))'
    PROVE  CleanIInv'
<1>1. tasks[t].status # "absent"
  BY DEF LegalIInv, CleanerIsAlone, At, Status
<1>2. CleanerTears(t)'
  BY CleanerFields DEF CleanerTears
<1>. QED  BY <1>1, <1>2, CleanerFields, CleanerCleanFrame

\* A step of a cleanup that saves no lab; resources may go, not come.
LEMMA CleanUnsaved ==
    ASSUME IInv, LegalIInv, QuarantineStays, CleanIInv, NEW t \in CleanupTasks,
           tasks[t].status # "absent", UNCHANGED labs,
           exists'[LabOf(t)] \subseteq exists[LabOf(t)],
           \A k \in Labs : k # LabOf(t) => exists'[k] = exists[k],
           \/ Return(t) \/ Fail(t)
           \/ /\ \A u \in CleanupTasks : u # t => cleaner'[u] = cleaner[u]
              /\ CleanerTears(t)'
    PROVE  CleanIInv'
<1>1. LabOf(t) \in Labs /\ LabIsClean(LabOf(t))
  BY TaskIdFacts DEF CleanIInv
<1>2. labs[LabOf(t)].state = "done" => Rented(LabOf(t))
  BY DEF Rented
<1>3. LabIsClean(LabOf(t))'
  BY <1>1, <1>2, TornDownStays DEF LabIsClean
<1>4. CASE Return(t) \/ Fail(t)
  <2>1. CleanerTears(t)'
    BY <1>4, CleanerFields DEF CleanerTears
  <2>. QED  BY <1>3, <1>4, <2>1, CleanerFields, CleanerCleanFrame
<1>5. CASE /\ \A u \in CleanupTasks : u # t => cleaner'[u] = cleaner[u]
           /\ CleanerTears(t)'
  BY <1>3, <1>5, CleanerCleanFrame
<1>. QED  BY <1>4, <1>5

LEMMA DeletedFacts ==
    ASSUME IInv, NEW l \in Labs, NEW gone, Deleted(l, gone)
    PROVE  /\ exists'[l] = exists[l] \ gone
           /\ \A k \in Labs : k # l => exists'[k] = exists[k]
BY ProvisioningFacts DEF Deleted

\* Goto only moves the pc.
LEMMA GotoFacts ==
    ASSUME IInv, NEW t \in CleanupTasks, NEW pc \in CleanupPCs, Goto(t, pc)
    PROVE  /\ cleaner'[t].pc = pc /\ cleaner'[t].lab = cleaner[t].lab
           /\ \A u \in CleanupTasks : u # t => cleaner'[u] = cleaner[u]
BY CleanerFacts DEF Goto, IInv, TypeOK, CleanupTypeOK, Cleaners

LEMMA CleanupStartClean ==
    ASSUME IInv, LegalIInv, QuarantineStays, CleanIInv, NEW t \in CleanupTasks,
           CleanupStart(t)
    PROVE  CleanIInv'
<1>1. tasks[t].status # "absent" /\ UNCHANGED <<labs, exists>>
  BY DEF CleanupStart, Dequeue, Status
<1>2. /\ cleaner'[t].pc = "load"
      /\ \A u \in CleanupTasks : u # t => cleaner'[u] = cleaner[u]
  BY CleanerFacts DEF CleanupStart, IInv, TypeOK, CleanupTypeOK, Cleaners
<1>3. CleanerTears(t)'
  BY <1>2 DEF CleanerTears
<1>. QED  BY <1>1, <1>2, <1>3, CleanUnsaved

LEMMA CleanupLoadClean ==
    ASSUME IInv, LegalIInv, QuarantineStays, CleanIInv, NEW t \in CleanupTasks,
           CleanupLoad(t)
    PROVE  CleanIInv'
<1>. DEFINE row  == labs[LabOf(t)]
            copy == Transition(row, "cleaning", cleaner[t].ts)
<1>1. /\ cleaner[t].pc = "load" /\ UNCHANGED <<labs, exists>>
      /\ cleaner \in [CleanupTasks -> Cleaners]
  BY DEF CleanupLoad, At, storageVars, IInv, TypeOK, CleanupTypeOK
<1>2. tasks[t].status # "absent"
  BY <1>1 DEF LegalIInv, CleanerIsAlone, At, Status
<1>3. CASE Return(t)
  BY <1>1, <1>2, <1>3, CleanUnsaved
<1>4. CASE cleaner' = [cleaner EXCEPT ![t].pc = "project", ![t].lab = row]
  <2>1. /\ cleaner'[t].pc = "project" /\ cleaner'[t].lab = row
        /\ \A u \in CleanupTasks : u # t => cleaner'[u] = cleaner[u]
    BY <1>1, <1>4 DEF Cleaners
  <2>2. CleanerTears(t)'
    BY <1>1, <2>1 DEF CleanerTears
  <2>. QED  BY <1>1, <1>2, <2>1, <2>2, CleanUnsaved
<1>5. CASE cleaner' = [cleaner EXCEPT ![t].pc = "mark", ![t].lab = copy]
  <2>1. copy.known = row.known
    <3>1. row \in LabRows /\ cleaner[t].ts \in Nat /\ "cleaning" \in LabStates
      BY CleanerFacts, CleanerTypes, HoldingFacts
    <3>. HIDE DEF row
    <3>. QED  BY <3>1, TransitionType
  <2>. HIDE DEF copy
  <2>2. /\ cleaner'[t].pc = "mark" /\ cleaner'[t].lab = copy
        /\ \A u \in CleanupTasks : u # t => cleaner'[u] = cleaner[u]
    BY <1>1, <1>5 DEF Cleaners
  <2>3. CleanerTears(t)'
    BY <1>1, <2>1, <2>2 DEF CleanerTears
  <2>. QED  BY <1>1, <1>2, <2>2, <2>3, CleanUnsaved
<1>. QED  BY <1>3, <1>4, <1>5 DEF CleanupLoad

LEMMA CleanupMarkClean ==
    ASSUME IInv, LegalIInv, QuarantineStays, CleanIInv, NEW t \in CleanupTasks,
           CleanupMark(t)
    PROVE  CleanIInv'
<1>. DEFINE l == LabOf(t)
<1>1. cleaner[t].pc = "mark" /\ l \in Labs /\ UNCHANGED exists
  BY TaskIdFacts DEF CleanupMark, At
<1>2. tasks[t].status # "absent"
  BY <1>1 DEF LegalIInv, CleanerIsAlone, At, Status
<1>3. CASE UNCHANGED labs /\ Fail(t)
  BY <1>1, <1>2, <1>3, CleanUnsaved
<1>4. CASE SaveLab(l, cleaner[t].lab) /\ Goto(t, "project")
  <2>1. /\ labs'[l] = cleaner[t].lab /\ cleaner[t].lab.state = "cleaning"
        /\ \A k \in Labs : k # l => labs'[k] = labs[k]
    BY <1>1, <1>4, ProvisioningFacts, CleanerFacts DEF SaveLab
  <2>2. /\ cleaner'[t].pc = "project" /\ cleaner'[t].lab = cleaner[t].lab
        /\ \A u \in CleanupTasks : u # t => cleaner'[u] = cleaner[u]
    BY <1>4, GotoFacts DEF CleanupPCs
  <2>3. LabIsClean(l)' /\ CleanerTears(t)'
    BY <2>1, <2>2 DEF LabIsClean, CleanerTears
  <2>. QED  BY <1>1, <1>2, <2>1, <2>2, <2>3, CleanerCleanFrame
<1>. QED  BY <1>3, <1>4 DEF CleanupMark

LEMMA CleanupLoadProjectClean ==
    ASSUME IInv, LegalIInv, QuarantineStays, CleanIInv, NEW t \in CleanupTasks,
           CleanupLoadProject(t)
    PROVE  CleanIInv'
<1>1. cleaner[t].pc = "project" /\ UNCHANGED <<labs, exists>>
  BY DEF CleanupLoadProject, At, storageVars
<1>2. tasks[t].status # "absent"
  BY <1>1 DEF LegalIInv, CleanerIsAlone, At, Status
<1>3. /\ cleaner'[t].pc \in {"release", "teardown"} /\ cleaner'[t].lab = cleaner[t].lab
      /\ \A u \in CleanupTasks : u # t => cleaner'[u] = cleaner[u]
  BY CleanerFacts DEF CleanupLoadProject, IInv, TypeOK, CleanupTypeOK, Cleaners
<1>4. CleanerTears(t)'
  BY <1>1, <1>3 DEF CleanIInv, CleanerTears
<1>. QED  BY <1>1, <1>2, <1>3, <1>4, CleanUnsaved

\* What follows a save of the project: it is freed behind the teardown, and the lab
\* ends without one only behind a project in quarantine.
LEMMA CleanupSaveProjectClean ==
    ASSUME IInv, LegalIInv, QuarantineStays, CleanIInv, NEW t \in CleanupTasks,
           CleanupRelease(t) \/ CleanupFailure(t) \/ CleanupClean(t)
    PROVE  CleanIInv'
<1>. DEFINE l    == LabOf(t)
            p    == cleaner[t].lab.project
            copy == cleaner[t].project
<1>1. cleaner[t].pc \in {"release", "failure", "clean"} /\ UNCHANGED <<labs, exists>>
  BY DEF CleanupRelease, CleanupFailure, CleanupClean, CleanupSaveProject, At
<1>2. tasks[t].status # "absent" /\ CleanerTears(t)
  BY <1>1 DEF LegalIInv, CleanerIsAlone, At, Status, CleanIInv
<1>3. CASE Fail(t)
  BY <1>1, <1>2, <1>3, CleanUnsaved
<1>4. ASSUME NEW pc \in {"teardown", "secret", "finish"}, Goto(t, pc),
             pc # "teardown" => TornDown(l)'
      PROVE  CleanIInv'
  <2>1. /\ cleaner'[t].pc = pc /\ cleaner'[t].lab = cleaner[t].lab
        /\ \A u \in CleanupTasks : u # t => cleaner'[u] = cleaner[u]
    BY <1>4, GotoFacts DEF CleanupPCs
  <2>2. CleanerTears(t)'
    BY <1>1, <1>2, <1>4, <2>1 DEF CleanerTears
  <2>. QED  BY <1>1, <1>2, <2>1, <2>2, CleanUnsaved
<1>5. CASE CleanupRelease(t)
  BY <1>3, <1>4, <1>5 DEF CleanupRelease, CleanupSaveProject
<1>6. CASE CleanupClean(t) /\ ~ Fail(t)
  <2>1. Goto(t, "secret") /\ cleaner[t].pc = "clean"
    BY <1>6 DEF CleanupClean, CleanupSaveProject, At
  <2>2. TornDown(l)'
    BY <1>1, <1>2, <2>1 DEF CleanerTears, TornDown, Recorded
  <2>. QED  BY <1>4, <2>1, <2>2
<1>7. CASE CleanupFailure(t) /\ ~ Fail(t)
  <2>1. /\ Goto(t, "finish") /\ SaveProject(p, copy) /\ copy.state = "quarantine"
    BY <1>7 DEF CleanupFailure, CleanupSaveProject
  <2>2. p \in Projects /\ p = labs[l].project /\ copy \in ProjectRows
    BY <1>1, CleanerFacts, CleanerTypes
  <2>3. projects'[p].state = "quarantine"
    BY <2>1, <2>2, ProvisioningFacts, PersistedType DEF SaveProject
  <2>4. TornDown(l)'
    BY <1>1, <2>2, <2>3 DEF TornDown
  <2>. QED  BY <1>4, <2>1, <2>4
<1>. QED  BY <1>3, <1>5, <1>6, <1>7

\* Every provider delete returned: nothing that the row records is left.
LEMMA CleanupTeardownClean ==
    ASSUME IInv, LegalIInv, QuarantineStays, CleanIInv, NEW t \in CleanupTasks,
           CleanupTeardown(t)
    PROVE  CleanIInv'
<1>. DEFINE l == LabOf(t)
            c == cleaner[t]
<1>1. /\ c.pc = "teardown" /\ l \in Labs /\ UNCHANGED labs
      /\ Deleted(l, c.lab.known \cap ProviderHandles)
  BY TaskIdFacts DEF CleanupTeardown, At, storageVars
<1>2. tasks[t].status # "absent" /\ c.lab.known = labs[l].known
  BY <1>1 DEF LegalIInv, CleanerIsAlone, At, Status, CleanIInv, CleanerTears
<1>3. Recorded(l)' = {}
  BY <1>1, <1>2, DeletedFacts DEF Recorded, ProviderHandles
<1>4. /\ cleaner'[t].pc \in {"clean", "secret"} /\ cleaner'[t].lab = c.lab
      /\ \A u \in CleanupTasks : u # t => cleaner'[u] = cleaner[u]
  BY CleanerFacts DEF CleanupTeardown, IInv, TypeOK, CleanupTypeOK, Cleaners
<1>5. CleanerTears(t)'
  BY <1>1, <1>2, <1>3, <1>4 DEF CleanerTears, TornDown
<1>. QED  BY <1>1, <1>2, <1>4, <1>5, DeletedFacts, CleanUnsaved

LEMMA CleanupTeardownFailsClean ==
    ASSUME IInv, LegalIInv, QuarantineStays, CleanIInv, NEW t \in CleanupTasks,
           CleanupTeardownFails(t)
    PROVE  CleanIInv'
<1>. DEFINE l == LabOf(t)
            c == cleaner[t]
<1>1. /\ c.pc = "teardown" /\ l \in Labs /\ UNCHANGED labs
      /\ \E gone : Deleted(l, gone)
  BY TaskIdFacts DEF CleanupTeardownFails, At, storageVars
<1>2. tasks[t].status # "absent" /\ c.lab.known = labs[l].known
  BY <1>1 DEF LegalIInv, CleanerIsAlone, At, Status, CleanIInv, CleanerTears
<1>3. /\ exists'[l] \subseteq exists[l]
      /\ \A k \in Labs : k # l => exists'[k] = exists[k]
  BY <1>1, DeletedFacts
<1>4. CASE Fail(t)
  BY <1>1, <1>2, <1>3, <1>4, CleanUnsaved
<1>5. CASE ~ Fail(t)
  <2>1. /\ cleaner'[t].pc = "failure" /\ cleaner'[t].lab = c.lab
        /\ \A u \in CleanupTasks : u # t => cleaner'[u] = cleaner[u]
    BY <1>5, CleanerFacts DEF CleanupTeardownFails, IInv, TypeOK, CleanupTypeOK, Cleaners
  <2>2. CleanerTears(t)'
    BY <1>1, <1>2, <2>1 DEF CleanerTears
  <2>. QED  BY <1>1, <1>2, <1>3, <2>1, <2>2, CleanUnsaved
<1>. QED  BY <1>4, <1>5

LEMMA CleanupSecretClean ==
    ASSUME IInv, LegalIInv, QuarantineStays, CleanIInv, NEW t \in CleanupTasks,
           CleanupSecret(t)
    PROVE  CleanIInv'
<1>. DEFINE l == LabOf(t)
<1>1. /\ cleaner[t].pc = "secret" /\ l \in Labs /\ UNCHANGED labs /\ Goto(t, "finish")
      /\ UNCHANGED exists \/ \E gone : Deleted(l, gone)
  BY TaskIdFacts DEF CleanupSecret, At, storageVars
<1>2. tasks[t].status # "absent" /\ CleanerTears(t) /\ Rented(l)
  BY <1>1, CleanerFacts DEF LegalIInv, CleanerIsAlone, At, Status, CleanIInv
<1>3. /\ exists'[l] \subseteq exists[l]
      /\ \A k \in Labs : k # l => exists'[k] = exists[k]
  BY <1>1, DeletedFacts
<1>4. TornDown(l)'
  BY <1>1, <1>2, <1>3, TornDownStays DEF CleanerTears
<1>5. /\ cleaner'[t].pc = "finish" /\ cleaner'[t].lab = cleaner[t].lab
      /\ \A u \in CleanupTasks : u # t => cleaner'[u] = cleaner[u]
  BY <1>1, GotoFacts DEF CleanupPCs
<1>6. CleanerTears(t)'
  BY <1>1, <1>2, <1>4, <1>5 DEF CleanerTears
<1>. QED  BY <1>1, <1>2, <1>3, <1>5, <1>6, CleanUnsaved

\* The lab is done, and its teardown is behind it.
LEMMA CleanupFinishClean ==
    ASSUME IInv, LegalIInv, QuarantineStays, CleanIInv, NEW t \in CleanupTasks,
           CleanupFinish(t)
    PROVE  CleanIInv'
<1>. DEFINE l   == LabOf(t)
            row == Transition(cleaner[t].lab, "done", cleaner[t].ts)
<1>1. cleaner[t].pc = "finish" /\ l \in Labs /\ UNCHANGED <<projects, exists>>
  BY TaskIdFacts DEF CleanupFinish, At
<1>2. tasks[t].status # "absent" /\ CleanerTears(t) /\ Rented(l)
  BY <1>1, CleanerFacts DEF LegalIInv, CleanerIsAlone, At, Status, CleanIInv
<1>3. CASE UNCHANGED labs /\ Fail(t)
  BY <1>1, <1>2, <1>3, CleanUnsaved
<1>4. CASE SaveLab(l, row) /\ Return(t)
  <2>1. /\ row.state = "done" /\ row.known = labs[l].known
        /\ row.project = labs[l].project
    <3>1. cleaner[t].lab \in LabRows /\ cleaner[t].ts \in Nat /\ "done" \in LabStates
      BY CleanerFacts, CleanerTypes DEF LabStates
    <3>2. cleaner[t].lab.known = labs[l].known /\ cleaner[t].lab.project = labs[l].project
      BY <1>1, <1>2, CleanerFacts DEF CleanerTears
    <3>. QED  BY <3>1, <3>2, TransitionType
  <2>. HIDE DEF row
  <2>2. labs'[l] = row /\ \A k \in Labs : k # l => labs'[k] = labs[k]
    BY <1>1, <1>4, ProvisioningFacts DEF SaveLab
  <2>3. TornDown(l)'
    BY <1>1, <1>2, <2>1, <2>2, TornDownStays DEF CleanerTears
  <2>4. LabIsClean(l)'
    BY <2>1, <2>2, <2>3 DEF LabIsClean
  <2>. QED  BY <1>1, <1>4, <2>2, <2>4, CleanReturn
<1>. QED  BY <1>3, <1>4 DEF CleanupFinish

LEMMA CleanerMovesClean ==
    ASSUME IInv, LegalIInv, QuarantineStays, CleanIInv,
           NEW t \in CleanupTasks, CleanerMoves(t)
    PROVE  CleanIInv'
<1>1. CleanupNext(t)
  BY DEF CleanerMoves
<1>2. CASE CleanupCrash(t)
  <2>1. Fail(t) /\ UNCHANGED <<labs, exists>> /\ tasks[t].status # "absent"
    BY <1>2 DEF CleanupCrash, storageVars, LegalIInv, CleanerIsAlone, At, Status
  <2>. QED  BY <2>1, CleanUnsaved
<1>. QED
  BY <1>1, <1>2, CleanupStartClean, CleanupLoadClean, CleanupMarkClean, CleanupLoadProjectClean,
     CleanupSaveProjectClean, CleanupTeardownClean, CleanupTeardownFailsClean,
     CleanupSecretClean, CleanupFinishClean DEF CleanupNext, CleanupStep

\* A step of the creation or the deploy of a lab: there is nothing yet to tear down.
LEMMA DeployCleanFrame ==
    ASSUME IInv, QuarantineStays, CleanIInv, NEW l \in Labs, NoCleanup(l),
           \A k \in Labs : k # l => labs'[k] = labs[k] /\ exists'[k] = exists[k],
           UNCHANGED cleaner, LabIsClean(l)'
    PROVE  CleanIInv'
<1>1. \A t \in CleanupTasks : LabOf(t) = l => CleanerTears(t)'
  BY DEF NoCleanup, CleanerTears
<1>2. LabAndCleanups(l)' /\ CleanElsewhere(l)
  BY <1>1 DEF LabAndCleanups, CleanElsewhere
<1>. QED  BY <1>2, CleanStep

LEMMA NothingMovesClean ==
    ASSUME IInv, QuarantineStays, CleanIInv, UNCHANGED <<labs, exists, cleaner>>
    PROVE  CleanIInv'
<1>1. \A l \in Labs : LabAndCleanups(l)'
  BY CleanFrame
<1>. QED  BY <1>1, TaskIdFacts DEF CleanIInv, LabAndCleanups

LEMMA LabMovesClean ==
    ASSUME IInv, LegalIInv, QuarantineStays, CleanIInv, NEW l \in Labs, LabMoves(l)
    PROVE  CleanIInv'
<1>1. ProvisioningNext(l) /\ UNCHANGED cleaner /\ labs[l] \in LabRows
  BY ProvisioningFacts DEF LabMoves
<1>2. CASE CreateLab(l)
  <2>. DEFINE ts == verdict[l].ts
  <2>1. labs[l].state = "absent" /\ NoCleanup(l) /\ UNCHANGED exists /\ ts \in Nat
    BY <1>2, NoCleanupYet, ProvisioningFacts DEF CreateLab, Verdicts
  <2>2. CASE UNCHANGED labs
    BY <1>1, <2>1, <2>2, NothingMovesClean
  <2>3. ASSUME NEW row, SaveLab(l, row),
               \/ row.state \notin {"absent", "rejected", "done"}
               \/ row.known = {} /\ row.state # "done"
        PROVE  CleanIInv'
    <3>1. labs'[l] = row /\ \A k \in Labs : k # l => labs'[k] = labs[k]
      BY <2>3, LabFacts
    <3>2. LabIsClean(l)'
      BY <2>3, <3>1 DEF LabIsClean
    <3>. QED  BY <1>1, <2>1, <3>1, <3>2, DeployCleanFrame
  <2>4. \A p \in Projects : AssignProject(NewLab(ts), p, ts).state = "deploying"
    BY <2>1, NewLabType, AssignProjectType
  <2>5. /\ Transition(NewLab(ts), "rejected", ts).known = {}
        /\ Transition(NewLab(ts), "rejected", ts).state = "rejected"
    <3>1. NewLab(ts).known = {} /\ "rejected" \in LabStates /\ NewLab(ts) \in LabRows
      BY <2>1, NewLabType DEF NewLab, Transition, NoLabRow, LabStates
    <3>. QED  BY <2>1, <3>1, TransitionType
  <2>6. FreeProjects \subseteq Projects
    BY DEF FreeProjects
  <2>. QED  BY <1>2, <2>2, <2>3, <2>4, <2>5, <2>6 DEF CreateLab
<1>3. CASE DeploySucceeds(l) \/ DeployFails(l)
  <2>1. /\ UNCHANGED labs /\ \E created : Created(l, created)
        /\ tasks[Deploy(l)].status = "active" /\ handoff[l] = "none"
    BY <1>3 DEF DeploySucceeds, DeployFails, DeployRunning, Status
  <2>2. labs[l].state = "deploying" /\ NoCleanup(l)
    BY <2>1, LabFacts, NoCleanupYet DEF DeployInOrder, Status
  <2>3. \A k \in Labs : k # l => exists'[k] = exists[k]
    BY <2>1, ProvisioningFacts DEF Created
  <2>4. LabIsClean(l)'
    BY <2>1, <2>2 DEF LabIsClean
  <2>. QED  BY <1>1, <2>1, <2>2, <2>3, <2>4, DeployCleanFrame
<1>4. CASE DeploySaves(l)
  <2>1. labs[l].state = "deploying" /\ NoCleanup(l) /\ UNCHANGED exists
    BY <1>4, LabFacts, NoCleanupYet DEF DeploySaves, DeployInOrder, Status
  <2>2. CASE UNCHANGED labs
    BY <1>1, <2>1, <2>2, NothingMovesClean
  <2>3. CASE SaveLab(l, DeployRow(l))
    <3>1. labs'[l] = DeployRow(l) /\ \A k \in Labs : k # l => labs'[k] = labs[k]
      BY <2>3, LabFacts
    <3>2. DeployRow(l).state \in {"ready", "failed"}
      BY DeployRowFacts
    <3>3. LabIsClean(l)'
      BY <3>1, <3>2 DEF LabIsClean
    <3>. QED  BY <1>1, <2>1, <3>1, <3>3, DeployCleanFrame
  <2>. QED  BY <1>4, <2>2, <2>3 DEF DeploySaves
<1>5. CASE \/ AdmitLab(l) \/ EnqueueDeploy(l) \/ EnqueueDeployLost(l) \/ DeployStart(l)
           \/ DeployHandOff(l) \/ DeployHandOffLost(l) \/ DeployCrash(l)
  <2>1. UNCHANGED <<labs, exists>>
    BY <1>5 DEF AdmitLab, EnqueueDeploy, EnqueueDeployLost, DeployStart, DeployHandOff,
       DeployHandOffLost, DeployCrash, storageVars
  <2>. QED  BY <1>1, <2>1, NothingMovesClean
<1>. QED  BY <1>1, <1>2, <1>3, <1>4, <1>5 DEF ProvisioningNext, DeployStep

LEMMA CleanInit == Init => CleanIInv
BY DEF Init, StorageInit, CloudInit, CleanupInit, CleanIInv, LabIsClean, CleanerTears,
   NoLabRow, IdleCleaner

LEMMA CleanNext ==
    ASSUME NoRequests, IInv, LegalIInv, RentIInv, CleanIInv, [Next]_vars,
           [\A t \in CleanupTasks : ~ Relapses(t)]_vars
    PROVE  CleanIInv'
<1>1. QuarantineStays
  BY RentNext DEF RentStep
<1>2. CASE UNCHANGED vars \/ \E t \in TaskIds : TimerFires(t)
  <2>1. UNCHANGED <<labs, exists, cleaner>>
    BY <1>2 DEF vars, storageVars, TimerFires
  <2>. QED  BY <1>1, <2>1, NothingMovesClean
<1>. QED
  BY <1>1, <1>2, CleanerMovesClean, LabMovesClean, NoRequestMoves DEF Next

\* Whatever else crashes, is lost or is retried, a cleanup ends behind the teardown of all its lab's row
\* records, or with the project in quarantine.
THEOREM TeardownHolds ==
    ASSUME NoRequests PROVE Spec /\ Steadily => []CleanIInv
<1>1. IInv /\ LegalIInv /\ RentIInv /\ CleanIInv /\ [Next]_vars
          /\ [\A t \in CleanupTasks : ~ Relapses(t)]_vars => CleanIInv'
  BY CleanNext
<1>2. Spec => []LegalIInv
  BY NoRequestsIsLegal, OrderHolds
<1>. QED  BY <1>1, <1>2, CleanInit, RentHolds, InvariantHolds, PTL DEF Spec, Steadily

\* A lab is done with resources left only when its project is in quarantine.
THEOREM DoneLabsAreTornDown ==
    ASSUME NoRequests PROVE Spec /\ Steadily => []DoneLabIsTornDown
<1>1. CleanIInv => DoneLabIsTornDown
  BY DEF CleanIInv, LabIsClean, TornDown, DoneLabIsTornDown
<1>. QED  BY <1>1, TeardownHolds, PTL

\* A free project is empty of what the rows of all labs that rented it record.
THEOREM FreeProjectsAreClean ==
    ASSUME NoRequests PROVE Spec /\ Steadily => []FreeProjectIsClean
<1>1. IInv /\ RentIInv /\ CleanIInv => FreeProjectIsClean
  <2>. SUFFICES ASSUME IInv, RentIInv, CleanIInv,
                       NEW p \in FreeProjects, NEW l \in Labs, labs[l].project = p
                PROVE  Recorded(l) = {}
    BY DEF FreeProjectIsClean, FreeAreClean
  <2>1. projects[p].state = "free" /\ RentIsKept(l) /\ LabIsClean(l)
    BY DEF FreeProjects, RentIInv, CleanIInv
  <2>2. labs[l].state \in {"absent", "rejected", "cleaning", "done"}
    BY <2>1, ProvisioningFacts
       DEF IInv, LabsKeepProject, RentIsKept, Has, UsedStates, LabRows, LabStates
  <2>3. CASE labs[l].state \in {"absent", "rejected"}
    BY <2>1, <2>3 DEF LabIsClean, Recorded
  <2>4. CASE labs[l].state = "done"
    BY <2>1, <2>4 DEF LabIsClean, TornDown
  <2>5. CASE labs[l].state = "cleaning"
    <3>1. HandedOver(l)
      BY <2>1, <2>5 DEF RentIsKept, Has, SetAside
    <3>. QED  BY <2>1, <3>1 DEF HandedOver, CleanIInv, CleanerTears, TornDown
  <2>. QED  BY <2>2, <2>3, <2>4, <2>5
<1>. QED  BY <1>1, TeardownHolds, RentHolds, InvariantHolds, PTL

-----------------------------------------------------------------------------
(* A free project is empty of all the database knows, whatever users and   *)
(* faults do, as long as tenants follow one another.                       *)

\* A lab whose deploy is over keeps its record and only loses resources.
Settles(l) ==
    /\ DeployOver(l) => /\ DeployOver(l)'
                        /\ labs'[l].known = labs[l].known
                        /\ labs'[l].project = labs[l].project
                        /\ exists'[l] \subseteq exists[l]
    /\ ~ DeployOver(l) /\ DeployOver(l)' => projects'[labs'[l].project].state # "free"

\* The step frees a project only behind the teardown of all its tenants.
FreesBehind ==
    \A p \in Projects, l \in Labs :
        projects'[p].state = "free" /\ Rented(l) /\ labs[l].project = p =>
            projects[p].state = "free" \/ (DeployOver(l) /\ Recorded(l) = {})

EndsForGood == \A l \in Labs : Ended(l) => Ended(l)'

LEMMA FreeStaysClean ==
    ASSUME UserIInv, \A l \in Labs : Settles(l) /\ DeployIsAhead(l)', FreesBehind
    PROVE  FreeAreClean'
<1>. SUFFICES ASSUME NEW p \in Projects, projects'[p].state = "free",
                     NEW l \in Labs, labs'[l].project = p
              PROVE  Recorded(l)' = {}
  BY DEF FreeAreClean, FreeProjects
<1>1. CASE ~ DeployOver(l)'
  BY <1>1 DEF DeployIsAhead, Recorded
<1>2. CASE DeployOver(l)'
  <2>1. DeployOver(l)
    BY <1>2 DEF Settles
  <2>2. /\ labs[l].project = p /\ labs'[l].known = labs[l].known
        /\ exists'[l] \subseteq exists[l]
    BY <2>1 DEF Settles
  <2>3. Recorded(l) = {}
    BY <2>1, <2>2 DEF FreesBehind, UserIInv, FreeAreClean, FreeProjects, DeployOver
  <2>. QED  BY <2>2, <2>3 DEF Recorded
<1>. QED  BY <1>1, <1>2

LEMMA LeftForGood ==
    ASSUME EndsForGood, \A k \in Labs : Settles(k), NEW l \in Labs, Left(l)
    PROVE  Left(l)'
<1>1. DeployOver(l) /\ Ended(l)
  BY DEF Left, Ended, DeployOver, Rented, HoldingStates
<1>. QED  BY <1>1 DEF Left, EndsForGood, Settles, Recorded

\* A step that gives no lab a project leaves tenants in their order.
LEMMA TenantsStay ==
    ASSUME UserIInv, EndsForGood, \A l \in Labs : Settles(l),
           \A l \in Labs : Rented(l)' => Rented(l) /\ labs'[l].project = labs[l].project
    PROVE  TenantsFollow'
<1>. SUFFICES ASSUME NEW k \in Labs, NEW l \in Labs, k # l, Rented(k)', Rented(l)',
                     labs'[k].project = labs'[l].project
              PROVE  Left(k)' \/ Left(l)'
  BY DEF TenantsFollow
<1>1. Left(k) \/ Left(l)
  BY DEF UserIInv, TenantsFollow
<1>. QED  BY <1>1, LeftForGood

LEMMA BehindFrame ==
    ASSUME UserIInv, NEW t \in CleanupTasks, Settles(LabOf(t)), cleaner'[t] = cleaner[t]
    PROVE  CleanerIsBehind(t)'
<1>1. CleanerIsBehind(t) /\ LabOf(t)' = LabOf(t)
  BY DEF UserIInv, LabOf
<1>2. Recorded(LabOf(t)) = {} /\ DeployOver(LabOf(t)) => Recorded(LabOf(t))' = {}
  BY DEF Settles, Recorded
<1>. QED  BY <1>1, <1>2 DEF CleanerIsBehind, Settles

LEMMA RequestBehindFrame ==
    ASSUME IInv, UserIInv, NEW r \in Requests, \A l \in Labs : Settles(l),
           requests'[r] = requests[r]
    PROVE  RequestIsBehind(r)'
<1>1. RequestIsBehind(r) /\ RequestKeepsProject(r)
  BY DEF UserIInv, IInv
<1>2. Works(r)' = Works(r) /\ (Works(r) => requests[r].lab \in Labs)
  BY <1>1 DEF Works, RequestKeepsProject
<1>. QED  BY <1>1, <1>2 DEF RequestIsBehind, Settles

\* A lab whose deploy the step does not touch.
LEMMA AheadFrame ==
    ASSUME IInv, UserIInv, NEW l \in Labs, Settles(l), FreesBehind,
           labs'[l] = labs[l] \/ DeployOver(l),
           \A status \in {"absent", "active"} :
               tasks'[Deploy(l)].status = status <=> tasks[Deploy(l)].status = status,
           handoff'[l] = handoff[l], verdict'[l] = verdict[l]
    PROVE  DeployIsAhead(l)'
<1>1. DeployIsAhead(l) /\ Deploy(l)' = Deploy(l)
  BY DEF UserIInv, Deploy
<1>2. CASE DeployOver(l)
  <2>1. DeployOver(l)' /\ labs[l].state # "deploying" /\ labs'[l].state # "deploying"
    BY <1>2 DEF Settles, DeployOver
  <2>. QED  BY <1>1, <2>1 DEF DeployIsAhead, Status
<1>3. CASE labs'[l] = labs[l] /\ ~ DeployOver(l)
  <2>1. DeployOver(l)' = DeployOver(l)
    BY <1>3 DEF DeployOver, Rented
  <2>2. labs[l].state = "deploying" => projects'[labs[l].project].state # "free"
    <3>1. labs[l].state = "deploying" => Rented(l) /\ labs[l].project \in Projects
      BY DEF Rented, HoldingStates, IInv, LabsKeepProject
    <3>. QED  BY <1>1, <1>3, <3>1 DEF FreesBehind, DeployIsAhead
  <2>. QED  BY <1>1, <1>3, <2>1, <2>2 DEF DeployIsAhead, Status
<1>. QED  BY <1>2, <1>3

\* All that is left to show of one step.
LEMMA UserFrame ==
    ASSUME IInv, UserIInv, EndsForGood, FreesBehind, TenantsFollow',
           \A l \in Labs : Settles(l) /\ DeployIsAhead(l)',
           \A t \in CleanupTasks : cleaner'[t] = cleaner[t] \/ CleanerIsBehind(t)',
           \A r \in Requests : requests'[r] = requests[r] \/ RequestIsBehind(r)'
    PROVE  UserIInv'
<1>1. \A t \in CleanupTasks : CleanerIsBehind(t)'
  BY BehindFrame, TaskIdFacts
<1>2. \A r \in Requests : RequestIsBehind(r)'
  BY RequestBehindFrame
<1>. QED  BY <1>1, <1>2, FreeStaysClean DEF UserIInv

\* A step that is not a step of a deploy: rows of labs are saved behind it.
LEMMA UserRowsFrame ==
    ASSUME IInv, UserIInv, EndsForGood, FreesBehind,
           \A l \in Labs :
              /\ \/ labs'[l] = labs[l]
                 \/ /\ DeployOver(l) /\ DeployOver(l)'
                    /\ labs'[l].known = labs[l].known
                    /\ labs'[l].project = labs[l].project
              /\ exists'[l] \subseteq exists[l]
              /\ \A status \in {"absent", "active"} :
                    tasks'[Deploy(l)].status = status <=> tasks[Deploy(l)].status = status,
           \A t \in CleanupTasks : cleaner'[t] = cleaner[t] \/ CleanerIsBehind(t)',
           \A r \in Requests : requests'[r] = requests[r] \/ RequestIsBehind(r)',
           UNCHANGED <<handoff, verdict>>
    PROVE  UserIInv'
<1>1. ASSUME NEW l \in Labs
      PROVE  /\ Settles(l)
             /\ Rented(l)' => Rented(l) /\ labs'[l].project = labs[l].project
  BY <1>1 DEF Settles, DeployOver, Rented
<1>2. \A l \in Labs : DeployIsAhead(l)'
  BY <1>1, AheadFrame
<1>3. TenantsFollow'
  BY <1>1, TenantsStay
<1>. QED  BY <1>1, <1>2, <1>3, UserFrame

\* What any step of the cleanup of t does to the rows and to the cloud.
CleanerWrites(t) ==
    LET l == LabOf(t)
    IN  /\ \A k \in Labs : k # l => labs'[k] = labs[k] /\ exists'[k] = exists[k]
        /\ \/ labs'[l] = labs[l]
           \/ /\ cleaner[t].pc \notin {"idle", "load"} /\ DeployOver(l)'
              /\ labs'[l].known = labs[l].known /\ labs'[l].project = labs[l].project
        /\ exists'[l] \subseteq exists[l]
        /\ FreesBehind
        /\ UNCHANGED <<handoff, verdict, requests>>

LEMMA CleanerReads ==
    ASSUME NEW t \in CleanupTasks, UNCHANGED <<labs, projects, exists>>,
           UNCHANGED <<handoff, verdict, requests>>
    PROVE  CleanerWrites(t)
BY DEF CleanerWrites, FreesBehind

LEMMA CleanerUserFrame ==
    ASSUME IInv, UserIInv, NEW t \in CleanupTasks, CleanerWrites(t),
           \A u \in TaskIds : u # t => tasks'[u] = tasks[u],
           \A u \in CleanupTasks : u # t => cleaner'[u] = cleaner[u],
           \/ cleaner[t].pc \notin {"idle", "load"}
           \/ cleaner'[t].pc \in {"idle", "load"}
           \/ labs[LabOf(t)].state # "done",
           CleanerIsBehind(t)'
    PROVE  UserIInv'
<1>. DEFINE l == LabOf(t)
<1>1. l \in Labs /\ \A k \in Labs : Deploy(k) \in TaskIds /\ t # Deploy(k)
  BY TaskIdFacts
<1>2. CleanerIsBehind(t)
  BY DEF UserIInv
<1>3. EndsForGood
  <2>. SUFFICES ASSUME NEW k \in Labs, Ended(k) PROVE Ended(k)'
    BY DEF EndsForGood
  <2>1. k = l => cleaner[t].pc \in {"idle", "load"}
    BY DEF Ended
  <2>2. labs'[k] = labs[k]
    BY <1>1, <2>1 DEF CleanerWrites
  <2>3. k = l => cleaner'[t].pc \in {"idle", "load"}
    BY <2>1 DEF Ended
  <2>4. \A u \in CleanupTasks : LabOf(u) = k => cleaner'[u].pc \in {"idle", "load"}
    BY <2>3 DEF Ended
  <2>5. \A r \in Requests : Works(r)' = Works(r) /\ requests'[r] = requests[r]
    BY DEF CleanerWrites, Works
  <2>. QED  BY <2>2, <2>4, <2>5 DEF Ended
<1>4. \A k \in Labs :
         /\ \/ labs'[k] = labs[k]
            \/ /\ DeployOver(k) /\ DeployOver(k)'
               /\ labs'[k].known = labs[k].known /\ labs'[k].project = labs[k].project
         /\ exists'[k] \subseteq exists[k]
  BY <1>1, <1>2 DEF CleanerWrites, CleanerIsBehind
<1>5. \A u \in CleanupTasks : cleaner'[u] = cleaner[u] \/ CleanerIsBehind(u)'
  OBVIOUS
<1>. QED  BY <1>1, <1>3, <1>4, <1>5, UserRowsFrame DEF CleanerWrites

LEMMA UserReturn ==
    ASSUME IInv, UserIInv, NEW t \in CleanupTasks, CleanerWrites(t), Return(t) \/ Fail(t)
    PROVE  UserIInv'
<1>1. /\ cleaner'[t].pc = "idle"
      /\ \A u \in CleanupTasks : u # t => cleaner'[u] = cleaner[u]
      /\ \A u \in TaskIds : u # t => tasks'[u] = tasks[u]
  BY CleanerFields
<1>2. CleanerIsBehind(t)'
  BY <1>1 DEF CleanerIsBehind
<1>. QED  BY <1>1, <1>2, CleanerUserFrame

LEMMA UserGoesOn ==
    ASSUME IInv, UserIInv, NEW t \in CleanupTasks, CleanerWrites(t), UNCHANGED tasks,
           cleaner[t].pc \notin {"idle", "load"},
           \A u \in CleanupTasks : u # t => cleaner'[u] = cleaner[u],
           cleaner'[t].lab = cleaner[t].lab,
           cleaner'[t].pc \in {"release", "failure"} => cleaner'[t].project.state # "free",
           cleaner'[t].pc = "clean" => Recorded(LabOf(t))' = {}
    PROVE  UserIInv'
<1>1. /\ DeployOver(LabOf(t)) /\ cleaner[t].lab.known = labs[LabOf(t)].known
      /\ LabOf(t)' = LabOf(t)
  BY DEF UserIInv, CleanerIsBehind, LabOf
<1>2. DeployOver(LabOf(t))' /\ labs'[LabOf(t)].known = labs[LabOf(t)].known
  BY <1>1 DEF CleanerWrites, DeployOver, Rented
<1>3. CleanerIsBehind(t)'
  BY <1>1, <1>2 DEF CleanerIsBehind
<1>. QED  BY <1>3, CleanerUserFrame

LEMMA CleanupStartUser ==
    ASSUME IInv, UserIInv, NEW t \in CleanupTasks, CleanupStart(t),
           UNCHANGED <<handoff, verdict, requests>>
    PROVE  UserIInv'
<1>1. CleanerWrites(t)
  BY CleanerReads DEF CleanupStart
<1>2. \A u \in TaskIds : u # t => tasks'[u] = tasks[u]
  BY CleanerFacts, ProvisioningFacts, QueueTypes DEF CleanupStart
<1>3. /\ cleaner'[t].pc = "load"
      /\ \A u \in CleanupTasks : u # t => cleaner'[u] = cleaner[u]
  BY CleanerFacts DEF CleanupStart, IInv, TypeOK, CleanupTypeOK, Cleaners
<1>4. CleanerIsBehind(t)'
  BY <1>3 DEF CleanerIsBehind
<1>. QED  BY <1>1, <1>2, <1>3, <1>4, CleanerUserFrame

LEMMA CleanupLoadUser ==
    ASSUME IInv, UserIInv, NEW t \in CleanupTasks, CleanupLoad(t),
           UNCHANGED <<handoff, verdict, requests>>
    PROVE  UserIInv'
<1>. DEFINE row  == labs[LabOf(t)]
            copy == Transition(row, "cleaning", cleaner[t].ts)
<1>1. /\ cleaner[t].pc = "load" /\ UNCHANGED <<labs, projects, exists>>
      /\ cleaner \in [CleanupTasks -> Cleaners] /\ LabOf(t)' = LabOf(t)
  BY DEF CleanupLoad, At, storageVars, IInv, TypeOK, CleanupTypeOK, LabOf
<1>2. CleanerWrites(t)
  BY <1>1, CleanerReads
<1>3. CASE Return(t)
  BY <1>2, <1>3, UserReturn
<1>4. ASSUME NEW next \in {"project", "mark"}, NEW lab, lab.known = row.known,
             cleaner' = [cleaner EXCEPT ![t].pc = next, ![t].lab = lab], UNCHANGED tasks,
             row.state = "cleaning" \/ CanTransition(row.state, "cleaning")
      PROVE  UserIInv'
  <2>1. /\ cleaner'[t].pc = next /\ cleaner'[t].lab = lab
        /\ \A u \in CleanupTasks : u # t => cleaner'[u] = cleaner[u]
    BY <1>1, <1>4 DEF Cleaners
  <2>2. row.state \in {"ready", "frozen", "failed", "cleaning"}
    BY <1>4 DEF CanTransition, AllowedTransitions, LabStates
  <2>3. DeployOver(LabOf(t))'
    BY <1>1, <2>2, HoldingFacts DEF DeployOver, Rented
  <2>4. CleanerIsBehind(t)'
    BY <1>1, <1>4, <2>1, <2>3 DEF CleanerIsBehind
  <2>. QED  BY <1>2, <1>4, <2>1, <2>2, <2>4, CleanerUserFrame
<1>5. copy.known = row.known
  <2>1. row \in LabRows /\ cleaner[t].ts \in Nat /\ "cleaning" \in LabStates
    BY CleanerFacts, CleanerTypes, HoldingFacts
  <2>. HIDE DEF row
  <2>. QED  BY <2>1, TransitionType
<1>6. CASE /\ row.state = "cleaning" /\ UNCHANGED tasks
           /\ cleaner' = [cleaner EXCEPT ![t].pc = "project", ![t].lab = row]
  BY <1>4, <1>6
<1>7. CASE /\ CanTransition(row.state, "cleaning") /\ UNCHANGED tasks
           /\ cleaner' = [cleaner EXCEPT ![t].pc = "mark", ![t].lab = copy]
  <2>. HIDE DEF copy
  <2>. QED  BY <1>4, <1>5, <1>7
<1>. QED  BY <1>3, <1>6, <1>7 DEF CleanupLoad

LEMMA CleanupMarkUser ==
    ASSUME IInv, UserIInv, NEW t \in CleanupTasks, CleanupMark(t),
           UNCHANGED <<handoff, verdict, requests>>
    PROVE  UserIInv'
<1>. DEFINE l == LabOf(t)
<1>1. cleaner[t].pc = "mark" /\ l \in Labs /\ UNCHANGED <<projects, exists>>
  BY TaskIdFacts DEF CleanupMark, At
<1>2. CASE UNCHANGED labs /\ Fail(t)
  BY <1>1, <1>2, CleanerReads, UserReturn
<1>3. CASE SaveLab(l, cleaner[t].lab) /\ Goto(t, "project") /\ UNCHANGED tasks
  <2>1. /\ labs'[l] = cleaner[t].lab /\ \A k \in Labs : k # l => labs'[k] = labs[k]
    BY <1>1, <1>3, ProvisioningFacts DEF SaveLab
  <2>2. /\ cleaner[t].lab.state = "cleaning" /\ cleaner[t].lab.project = labs[l].project
        /\ cleaner[t].lab.known = labs[l].known
    BY <1>1, CleanerFacts DEF UserIInv, CleanerIsBehind
  <2>3. DeployOver(l)'
    BY <2>1, <2>2, HoldingFacts DEF DeployOver, Rented
  <2>4. CleanerWrites(t)
    BY <1>1, <2>1, <2>2, <2>3 DEF CleanerWrites, FreesBehind
  <2>. QED  BY <1>1, <1>3, <2>4, GotoFacts, UserGoesOn DEF CleanupPCs
<1>. QED  BY <1>2, <1>3 DEF CleanupMark

\* The call moves on with a copy of the project.
LEMMA CopyFacts ==
    ASSUME IInv, NEW t \in CleanupTasks, NEW pc, NEW copy,
           cleaner' = [cleaner EXCEPT ![t].pc = pc, ![t].project = copy]
    PROVE  /\ cleaner'[t].pc = pc /\ cleaner'[t].lab = cleaner[t].lab
           /\ cleaner'[t].project = copy
           /\ \A u \in CleanupTasks : u # t => cleaner'[u] = cleaner[u]
BY DEF IInv, TypeOK, CleanupTypeOK, Cleaners

LEMMA CleanupLoadProjectUser ==
    ASSUME IInv, UserIInv, NEW t \in CleanupTasks, CleanupLoadProject(t),
           UNCHANGED <<handoff, verdict, requests>>
    PROVE  UserIInv'
<1>. DEFINE row  == projects[cleaner[t].lab.project]
            copy == Release(row, cleaner[t].ts)
<1>1. cleaner[t].pc = "project" /\ UNCHANGED <<labs, projects, exists, tasks>>
  BY DEF CleanupLoadProject, At, storageVars, queueVars
<1>2. copy.state = "cleaning"
  <2>1. row \in ProjectRows /\ cleaner[t].ts \in Nat
    BY <1>1, CleanerFacts, CleanerTypes
  <2>. HIDE DEF row
  <2>. QED  BY <2>1, ReleaseType
<1>3. \/ cleaner' = [cleaner EXCEPT ![t].pc = "release", ![t].project = copy]
      \/ cleaner' = [cleaner EXCEPT ![t].pc = "teardown", ![t].project = row]
  <2>1. CASE row.state = "allocated"
    BY <2>1 DEF CleanupLoadProject
  <2>2. CASE row.state # "allocated"
    BY <2>2 DEF CleanupLoadProject
  <2>. QED  BY <2>1, <2>2
<1>. HIDE DEF copy, row
<1>4. /\ \A u \in CleanupTasks : u # t => cleaner'[u] = cleaner[u]
      /\ cleaner'[t].lab = cleaner[t].lab
      /\ \/ cleaner'[t].pc = "release" /\ cleaner'[t].project = copy
         \/ cleaner'[t].pc = "teardown"
  BY <1>3, CopyFacts
<1>. QED  BY <1>1, <1>2, <1>4, CleanerReads, UserGoesOn

\* A project is freed behind the teardown, and when every other tenant has left it.
LEMMA CleanupSaveProjectUser ==
    ASSUME IInv, UserIInv, NEW t \in CleanupTasks,
           CleanupRelease(t) \/ CleanupFailure(t) \/ CleanupClean(t),
           UNCHANGED <<handoff, verdict, requests>>
    PROVE  UserIInv'
<1>. DEFINE l    == LabOf(t)
            p    == cleaner[t].lab.project
            copy == cleaner[t].project
<1>1. /\ cleaner[t].pc \in {"release", "failure", "clean"} /\ UNCHANGED <<labs, exists>>
      /\ SaveProject(p, copy) \/ UNCHANGED projects
  BY DEF CleanupRelease, CleanupFailure, CleanupClean, CleanupSaveProject, At
<1>2. /\ l \in Labs /\ Rented(l) /\ p = labs[l].project /\ p \in Projects
      /\ copy \in ProjectRows /\ CleanerIsBehind(t) /\ LabOf(t)' = LabOf(t)
  BY <1>1, CleanerFacts, CleanerTypes DEF UserIInv, LabOf
<1>3. /\ \A q \in Projects : q # p => projects'[q] = projects[q]
      /\ projects'[p] = projects[p] \/ projects'[p].state = copy.state
  BY <1>1, <1>2, ProvisioningFacts, PersistedType DEF SaveProject
<1>4. FreesBehind
  <2>. SUFFICES ASSUME NEW q \in Projects, NEW k \in Labs, projects'[q].state = "free",
                       Rented(k), labs[k].project = q, projects[q].state # "free"
                PROVE  DeployOver(k) /\ Recorded(k) = {}
    BY DEF FreesBehind
  <2>1. q = p /\ copy.state = "free"
    BY <1>3
  <2>2. cleaner[t].pc = "clean" /\ DeployOver(l) /\ Recorded(l) = {}
    BY <1>1, <1>2, <2>1 DEF CleanerIsBehind
  <2>3. ~ Ended(l)
    BY <2>2 DEF Ended
  <2>4. k # l => Left(k)
    BY <1>2, <2>1, <2>3 DEF UserIInv, TenantsFollow, Left
  <2>. QED  BY <2>2, <2>4 DEF Left, Ended, DeployOver
<1>5. CleanerWrites(t)
  BY <1>1, <1>4 DEF CleanerWrites
<1>6. CASE Fail(t)
  BY <1>5, <1>6, UserReturn
<1>7. ASSUME NEW pc \in {"teardown", "secret", "finish"}, Goto(t, pc), UNCHANGED tasks
      PROVE  UserIInv'
  BY <1>1, <1>5, <1>7, GotoFacts, UserGoesOn DEF CleanupPCs
<1>. QED
  BY <1>6, <1>7 DEF CleanupRelease, CleanupFailure, CleanupClean, CleanupSaveProject

\* Every provider delete returned: nothing that the row records is left.
LEMMA CleanupTeardownUser ==
    ASSUME IInv, UserIInv, NEW t \in CleanupTasks, CleanupTeardown(t),
           UNCHANGED <<handoff, verdict, requests>>
    PROVE  UserIInv'
<1>. DEFINE l == LabOf(t)
            c == cleaner[t]
<1>1. /\ c.pc = "teardown" /\ l \in Labs /\ UNCHANGED <<labs, projects, tasks>>
      /\ Deleted(l, c.lab.known \cap ProviderHandles)
  BY TaskIdFacts DEF CleanupTeardown, At, storageVars, queueVars
<1>2. c.lab.known = labs[l].known /\ LabOf(t)' = LabOf(t)
  BY <1>1 DEF UserIInv, CleanerIsBehind, LabOf
<1>3. Recorded(LabOf(t))' = {}
  BY <1>1, <1>2, DeletedFacts DEF Recorded, ProviderHandles
<1>4. CleanerWrites(t)
  BY <1>1, DeletedFacts DEF CleanerWrites, FreesBehind
<1>5. /\ cleaner'[t].pc \in {"clean", "secret"} /\ cleaner'[t].lab = c.lab
      /\ \A u \in CleanupTasks : u # t => cleaner'[u] = cleaner[u]
  BY CleanerFacts DEF CleanupTeardown, IInv, TypeOK, CleanupTypeOK, Cleaners
<1>. QED  BY <1>1, <1>3, <1>4, <1>5, UserGoesOn

LEMMA CleanupTeardownFailsUser ==
    ASSUME IInv, UserIInv, NEW t \in CleanupTasks, CleanupTeardownFails(t),
           UNCHANGED <<handoff, verdict, requests>>
    PROVE  UserIInv'
<1>. DEFINE l    == LabOf(t)
            c    == cleaner[t]
            copy == RecordCleanupFailure(c.project, c.ts)
<1>1. /\ c.pc = "teardown" /\ l \in Labs /\ UNCHANGED <<labs, projects>>
      /\ \E gone : Deleted(l, gone)
  BY TaskIdFacts DEF CleanupTeardownFails, At, storageVars
<1>2. CleanerWrites(t)
  BY <1>1, DeletedFacts DEF CleanerWrites, FreesBehind
<1>3. CASE Fail(t)
  BY <1>2, <1>3, UserReturn
<1>4. CASE /\ cleaner' = [cleaner EXCEPT ![t].pc = "failure", ![t].project = copy]
           /\ UNCHANGED tasks
  <2>1. copy.state # "free"
    <3>1. c.project \in ProjectRows /\ c.ts \in Nat
      BY CleanerFacts, CleanerTypes
    <3>. HIDE DEF c
    <3>. QED  BY <3>1, RecordCleanupFailureType
  <2>. HIDE DEF copy
  <2>2. /\ cleaner'[t].pc = "failure" /\ cleaner'[t].lab = c.lab
        /\ cleaner'[t].project = copy
        /\ \A u \in CleanupTasks : u # t => cleaner'[u] = cleaner[u]
    BY <1>4, CopyFacts
  <2>. QED  BY <1>1, <1>2, <1>4, <2>1, <2>2, UserGoesOn
<1>5. CASE c.project.state = "cleaning"
  <2>1. /\ cleaner' = [cleaner EXCEPT ![t].pc = "failure", ![t].project = copy]
        /\ UNCHANGED tasks
    BY <1>5 DEF CleanupTeardownFails, IInv, TypeOK, CleanupTypeOK, Cleaners
  <2>. QED  BY <1>4, <2>1
<1>. QED  BY <1>3, <1>5 DEF CleanupTeardownFails

LEMMA CleanupSecretUser ==
    ASSUME IInv, UserIInv, NEW t \in CleanupTasks, CleanupSecret(t),
           UNCHANGED <<handoff, verdict, requests>>
    PROVE  UserIInv'
<1>. DEFINE l == LabOf(t)
<1>1. /\ cleaner[t].pc = "secret" /\ l \in Labs /\ UNCHANGED <<labs, projects, tasks>>
      /\ UNCHANGED exists \/ \E gone : Deleted(l, gone)
      /\ Goto(t, "finish")
  BY TaskIdFacts DEF CleanupSecret, At, storageVars
<1>2. CleanerWrites(t)
  BY <1>1, DeletedFacts DEF CleanerWrites, FreesBehind
<1>. QED  BY <1>1, <1>2, GotoFacts, UserGoesOn DEF CleanupPCs

LEMMA CleanupFinishUser ==
    ASSUME IInv, UserIInv, NEW t \in CleanupTasks, CleanupFinish(t),
           UNCHANGED <<handoff, verdict, requests>>
    PROVE  UserIInv'
<1>. DEFINE l   == LabOf(t)
            row == Transition(cleaner[t].lab, "done", cleaner[t].ts)
<1>1. cleaner[t].pc = "finish" /\ l \in Labs /\ UNCHANGED <<projects, exists>>
  BY TaskIdFacts DEF CleanupFinish, At
<1>2. CASE UNCHANGED labs /\ Fail(t)
  BY <1>1, <1>2, CleanerReads, UserReturn
<1>3. CASE SaveLab(l, row) /\ Return(t)
  <2>1. /\ row.state = "done" /\ row.known = labs[l].known
        /\ row.project = labs[l].project
    <3>1. cleaner[t].lab \in LabRows /\ cleaner[t].ts \in Nat /\ "done" \in LabStates
      BY CleanerFacts, CleanerTypes DEF LabStates
    <3>2. cleaner[t].lab.known = labs[l].known /\ cleaner[t].lab.project = labs[l].project
      BY <1>1, CleanerFacts DEF UserIInv, CleanerIsBehind
    <3>. QED  BY <3>1, <3>2, TransitionType
  <2>. HIDE DEF row
  <2>2. labs'[l] = row /\ \A k \in Labs : k # l => labs'[k] = labs[k]
    BY <1>1, <1>3, ProvisioningFacts DEF SaveLab
  <2>3. DeployOver(l)'
    BY <2>1, <2>2 DEF DeployOver, Rented
  <2>4. CleanerWrites(t)
    BY <1>1, <2>1, <2>2, <2>3 DEF CleanerWrites, FreesBehind
  <2>. QED  BY <1>3, <2>4, UserReturn
<1>. QED  BY <1>2, <1>3 DEF CleanupFinish

LEMMA CleanerMovesUser ==
    ASSUME IInv, UserIInv, NEW t \in CleanupTasks, CleanerMoves(t)
    PROVE  UserIInv'
<1>1. CleanupNext(t) /\ UNCHANGED <<handoff, verdict, requests>>
  BY DEF CleanerMoves
<1>2. CASE CleanupCrash(t)
  <2>1. Fail(t) /\ UNCHANGED <<labs, projects, exists>>
    BY <1>2 DEF CleanupCrash, storageVars
  <2>. QED  BY <1>1, <2>1, CleanerReads, UserReturn
<1>. QED
  BY <1>1, <1>2, CleanupStartUser, CleanupLoadUser, CleanupMarkUser, CleanupLoadProjectUser,
     CleanupSaveProjectUser, CleanupTeardownUser, CleanupTeardownFailsUser,
     CleanupSecretUser, CleanupFinishUser DEF CleanupNext, CleanupStep

\* What an orderly command accepts is past its deploy, and stays so.
LEMMA OrderlyRow ==
    ASSUME NEW command \in LifecycleCommands, command # "unfreeze",
           NEW row \in LabRows, NEW ts \in Nat, Accepts(command, row.state)
    PROVE  /\ row.state \in {"ready", "frozen", "failed"}
           /\ Applied(command, row, ts).known = row.known
           /\ Applied(command, row, ts).state # "deploying"
<1>1. CASE command = "stop"
  BY <1>1, HoldingFacts, TransitionType DEF Accepts, Applied
<1>2. CASE command = "freeze"
  BY <1>2, EdgesIn, HoldingFacts, TransitionType DEF Accepts, Applied
<1>3. CASE command = "extend"
  BY <1>3, ExtendCleanupType DEF Accepts, Applied
<1>. QED  BY <1>1, <1>2, <1>3 DEF LifecycleCommands

\* A step of request r that saves a row it worked on, or none.
LEMMA RequestUserFrame ==
    ASSUME IInv, UserIInv, NEW r \in Requests,
           \A l \in Labs :
              \/ labs'[l] = labs[l]
              \/ /\ Works(r) /\ requests[r].lab = l /\ DeployOver(l)'
                 /\ labs'[l].known = labs[l].known /\ labs'[l].project = labs[l].project,
           FreesBehind, \A l \in Labs : tasks'[Deploy(l)] = tasks[Deploy(l)],
           \A s \in Requests : s # r => requests'[s] = requests[s],
           \A l \in Labs : Works(r)' /\ requests'[r].lab = l => ~ Ended(l),
           RequestIsBehind(r)', UNCHANGED <<exists, cleaner, handoff, verdict>>
    PROVE  UserIInv'
<1>1. EndsForGood
  <2>. SUFFICES ASSUME NEW k \in Labs, Ended(k) PROVE Ended(k)'
    BY DEF EndsForGood
  <2>1. labs'[k] = labs[k]
    BY DEF Ended
  <2>2. ASSUME NEW s \in Requests, requests'[s].lab = k
        PROVE  ~ Works(s)'
    <3>1. CASE s = r
      BY <2>2, <3>1 DEF Ended
    <3>2. CASE s # r
      BY <2>2, <3>2 DEF Ended, Works
    <3>. QED  BY <3>1, <3>2
  <2>. QED  BY <2>1, <2>2 DEF Ended
<1>2. \A l \in Labs :
         \/ labs'[l] = labs[l]
         \/ /\ DeployOver(l) /\ DeployOver(l)'
            /\ labs'[l].known = labs[l].known /\ labs'[l].project = labs[l].project
  BY DEF UserIInv, RequestIsBehind
<1>3. \A s \in Requests : requests'[s] = requests[s] \/ RequestIsBehind(s)'
  OBVIOUS
<1>. QED  BY <1>1, <1>2, <1>3, UserRowsFrame

LEMMA ReplyFacts ==
    ASSUME IInv, NEW r \in Requests, Reply(r)
    PROVE  /\ ~ Works(r)' /\ RequestIsBehind(r)'
           /\ \A s \in Requests : s # r => requests'[s] = requests[s]
BY ReplyEnds DEF Works, RequestIsBehind

LEMMA RequestLoadsLabUser ==
    ASSUME Orderly', IInv, UserIInv, NEW r \in Requests, RequestLoadsLab(r),
           UNCHANGED <<exists, cleaner, handoff, verdict>>
    PROVE  UserIInv'
<1>1. /\ requests'[r].pc = "lab" /\ requests'[r].command \in LabCommands \cap LifecycleCommands
      /\ requests'[r].lab \in Labs /\ requests'[r].row = labs[requests'[r].lab]
      /\ \A s \in Requests : s # r => requests'[s] = requests[s]
  <2>1. PICK command \in LabCommands \cap LifecycleCommands, l \in Labs :
            requests' = [requests EXCEPT ![r] = [@ EXCEPT !.pc = "lab", !.command = command,
                                                          !.lab = l, !.row = labs[l]]]
    BY DEF RequestLoadsLab
  <2>. QED  BY <2>1, RequestFacts DEF RequestStates
<1>2. UNCHANGED <<labs, projects, tasks>>
  BY DEF RequestLoadsLab, storageVars, queueVars
<1>3. Works(r)' => labs[requests'[r].lab].state \in {"ready", "frozen", "failed"}
  BY <1>1, OrderlyRow, ProvisioningFacts DEF Works, Orderly
<1>4. RequestIsBehind(r)'
  BY <1>1, <1>2, <1>3, HoldingFacts DEF RequestIsBehind, DeployOver, Rented
<1>5. FreesBehind
  BY <1>2 DEF FreesBehind
<1>6. \A l \in Labs : Works(r)' /\ requests'[r].lab = l => ~ Ended(l)
  BY <1>3 DEF Ended
<1>. QED  BY <1>1, <1>2, <1>4, <1>5, <1>6, RequestUserFrame

LEMMA RequestChecksUser ==
    ASSUME Orderly, IInv, UserIInv, NEW r \in Requests, RequestChecks(r),
           UNCHANGED <<exists, cleaner, handoff, verdict>>
    PROVE  UserIInv'
<1>. DEFINE q   == requests[r]
            row == Applied(q.command, q.row, Now)
<1>1. q.pc = "lab" /\ UNCHANGED <<labs, projects, tasks>>
  BY DEF RequestChecks, queueVars
<1>2. FreesBehind
  BY <1>1 DEF FreesBehind
<1>3. CASE ~ Accepts(q.command, q.row.state)
  <2>1. Reply(r)
    BY <1>3 DEF RequestChecks
  <2>. QED  BY <1>1, <1>2, <2>1, ReplyFacts, RequestUserFrame
<1>4. CASE Accepts(q.command, q.row.state)
  <2>1. Works(r) /\ DeployOver(q.lab) /\ q.row.known = labs[q.lab].known
    BY <1>1, <1>4 DEF Works, UserIInv, RequestIsBehind
  <2>2. row.known = q.row.known /\ row.state # "deploying"
    <3>1. /\ q.command \in LifecycleCommands /\ q.command # "unfreeze"
          /\ q.row \in LabRows /\ Now \in Nat
      BY <1>1, RequestFacts, ProvisioningFacts
         DEF RequestKeepsProject, LifecycleCommands, Orderly
    <3>. QED  BY <1>4, <3>1, OrderlyRow
  <2>3. requests' = [requests EXCEPT ![r].pc = "save", ![r].row = row]
    BY <1>4, RequestFacts DEF RequestChecks
  <2>. HIDE DEF row
  <2>4. /\ requests'[r].pc = "save" /\ requests'[r].lab = q.lab /\ requests'[r].row = row
        /\ \A s \in Requests : s # r => requests'[s] = requests[s]
    BY <2>3, RequestFacts DEF RequestStates
  <2>5. \A l \in Labs : DeployOver(l)' = DeployOver(l)
    BY <1>1 DEF DeployOver, Rented
  <2>6. q.lab \in Labs
    BY <1>1, RequestFacts DEF RequestKeepsProject
  <2>7. RequestIsBehind(r)'
    BY <1>1, <2>1, <2>2, <2>4, <2>5, <2>6 DEF RequestIsBehind
  <2>8. \A l \in Labs : q.lab = l => ~ Ended(l)
    BY <2>1 DEF Ended
  <2>. QED  BY <1>1, <1>2, <2>4, <2>7, <2>8, RequestUserFrame
<1>. QED  BY <1>3, <1>4

LEMMA RequestSavesLabUser ==
    ASSUME IInv, UserIInv, NEW r \in Requests, RequestSavesLab(r),
           UNCHANGED <<exists, cleaner, handoff, verdict>>
    PROVE  UserIInv'
<1>. DEFINE q == requests[r]
<1>1. q.pc = "save" /\ Works(r) /\ UNCHANGED <<projects, tasks>>
  BY DEF RequestSavesLab, queueVars, Works
<1>2. /\ q.lab \in Labs /\ q.row.project = labs[q.lab].project
      /\ q.row.state \in HoldingStates /\ q.row.state # "deploying"
      /\ q.row.known = labs[q.lab].known
  BY <1>1, RequestFacts DEF RequestKeepsProject, UserIInv, RequestIsBehind
<1>3. CASE UNCHANGED labs
  <2>1. \A l \in Labs : labs'[l] = labs[l]
    BY <1>3
  <2>2. FreesBehind
    BY <1>1 DEF FreesBehind
  <2>3. Reply(r) \/ requests' = [requests EXCEPT ![r].pc = "enqueue"]
    BY DEF RequestSavesLab
  <2>4. /\ ~ Works(r)' /\ RequestIsBehind(r)'
        /\ \A s \in Requests : s # r => requests'[s] = requests[s]
    BY <2>3, ReplyFacts, RequestFacts DEF RequestStates, Works, RequestIsBehind
  <2>. QED  BY <1>1, <2>1, <2>2, <2>4, RequestUserFrame
<1>4. CASE SaveLab(q.lab, q.row)
  <2>1. labs'[q.lab] = q.row /\ \A k \in Labs : k # q.lab => labs'[k] = labs[k]
    BY <1>2, <1>4, ProvisioningFacts DEF SaveLab
  <2>2. \A l \in Labs : q.lab = l => DeployOver(l)'
    BY <1>2, <2>1 DEF DeployOver, Rented
  <2>3. FreesBehind
    BY <1>1 DEF FreesBehind
  <2>4. Reply(r) \/ requests' = [requests EXCEPT ![r].pc = "enqueue"]
    BY DEF RequestSavesLab
  <2>5. /\ ~ Works(r)' /\ RequestIsBehind(r)'
        /\ \A s \in Requests : s # r => requests'[s] = requests[s]
    BY <2>4, ReplyFacts, RequestFacts DEF RequestStates, Works, RequestIsBehind
  <2>6. \A l \in Labs :
           \/ labs'[l] = labs[l]
           \/ /\ Works(r) /\ q.lab = l /\ DeployOver(l)'
              /\ labs'[l].known = labs[l].known /\ labs'[l].project = labs[l].project
    BY <1>1, <1>2, <2>1, <2>2
  <2>. QED  BY <1>1, <2>3, <2>5, <2>6, RequestUserFrame
<1>. QED  BY <1>3, <1>4 DEF RequestSavesLab

LEMMA StopEnqueueUser ==
    ASSUME IInv, UserIInv, NEW r \in Requests, StopEnqueues(r) \/ StopEnqueueLost(r),
           UNCHANGED <<exists, cleaner, handoff, verdict>>
    PROVE  UserIInv'
<1>. DEFINE t == <<requests[r].lab, "manual">>
<1>1. requests[r].pc = "enqueue" /\ Reply(r) /\ UNCHANGED <<labs, projects>>
  BY DEF StopEnqueues, StopEnqueueLost, storageVars
<1>2. t \in TaskIds /\ \A l \in Labs : t # Deploy(l)
  BY <1>1, RequestFacts DEF RequestKeepsProject, TaskIds, TaskKinds, CleanupKinds, Deploy
<1>3. Enqueue(t) \/ UNCHANGED tasks
  BY DEF StopEnqueues, StopEnqueueLost
<1>. HIDE DEF t
<1>4. \A l \in Labs : tasks'[Deploy(l)] = tasks[Deploy(l)]
  BY <1>2, <1>3, QueueTypes, ProvisioningFacts, TaskIdFacts
<1>5. FreesBehind
  BY <1>1 DEF FreesBehind
<1>. QED  BY <1>1, <1>4, <1>5, ReplyFacts, RequestUserFrame

LEMMA RequestStampsUser ==
    ASSUME IInv, UserIInv, NEW r \in Requests, RequestStamps(r),
           UNCHANGED <<exists, cleaner, handoff, verdict>>
    PROVE  UserIInv'
<1>1. /\ requests'[r].pc = "load" /\ \A s \in Requests : s # r => requests'[s] = requests[s]
      /\ UNCHANGED <<labs, projects, tasks>>
  BY RequestFacts DEF RequestStamps, queueVars, RequestStates
<1>2. ~ Works(r)' /\ RequestIsBehind(r)' /\ FreesBehind
  BY <1>1 DEF Works, RequestIsBehind, FreesBehind
<1>. QED  BY <1>1, <1>2, RequestUserFrame

\* The only orderly command on the pool is the quarantine.
LEMMA RequestLoadsProjectUser ==
    ASSUME Orderly, IInv, UserIInv, NEW r \in Requests, RequestLoadsProject(r),
           UNCHANGED <<exists, cleaner, handoff, verdict>>
    PROVE  UserIInv'
<1>. DEFINE q    == requests[r]
            row  == projects[q.id]
            copy == PoolApplied(q.command, row, q.ts)
<1>1. q.pc = "load" /\ UNCHANGED <<labs, projects, tasks>>
  BY DEF RequestLoadsProject, storageVars, queueVars
<1>2. q.command = "quarantine" /\ row \in ProjectRows /\ q.ts \in Nat
  BY <1>1, RequestFacts, ProvisioningFacts
     DEF RequestKeepsProject, PoolCommands, Orderly
<1>3. copy.state = "quarantine"
  <2>. HIDE DEF row
  <2>. QED  BY <1>2, QuarantineType DEF PoolApplied
<1>4. FreesBehind
  BY <1>1 DEF FreesBehind
<1>5. CASE Reply(r)
  BY <1>1, <1>4, <1>5, ReplyFacts, RequestUserFrame
<1>6. CASE requests' = [requests EXCEPT ![r].pc = "project", ![r].project = copy]
  <2>. HIDE DEF copy
  <2>1. /\ requests'[r].pc = "project" /\ requests'[r].project = copy
        /\ \A s \in Requests : s # r => requests'[s] = requests[s]
    BY <1>6, RequestFacts DEF RequestStates
  <2>2. ~ Works(r)' /\ RequestIsBehind(r)'
    BY <1>3, <2>1 DEF Works, RequestIsBehind
  <2>. QED  BY <1>1, <1>4, <2>1, <2>2, RequestUserFrame
<1>. QED  BY <1>5, <1>6 DEF RequestLoadsProject

LEMMA RequestSavesProjectUser ==
    ASSUME IInv, UserIInv, NEW r \in Requests, RequestSavesProject(r),
           UNCHANGED <<exists, cleaner, handoff, verdict>>
    PROVE  UserIInv'
<1>. DEFINE q == requests[r]
<1>1. /\ q.pc = "project" /\ Reply(r) /\ UNCHANGED <<labs, tasks>>
      /\ SaveProject(q.id, q.project) \/ UNCHANGED projects
  BY DEF RequestSavesProject, queueVars
<1>2. q.id \in Projects /\ q.project \in ProjectRows /\ q.project.state # "free"
  BY <1>1, RequestFacts DEF RequestKeepsProject, UserIInv, RequestIsBehind
<1>3. \A p \in Projects : projects'[p] = projects[p] \/ projects'[p].state # "free"
  BY <1>1, <1>2, ProvisioningFacts, PersistedType DEF SaveProject
<1>4. FreesBehind
  BY <1>3 DEF FreesBehind
<1>. QED  BY <1>1, <1>4, ReplyFacts, RequestUserFrame

LEMMA RequestMovesUser ==
    ASSUME Orderly, Orderly', IInv, UserIInv, NEW r \in Requests, RequestMoves(r)
    PROVE  UserIInv'
BY RequestLoadsLabUser, RequestChecksUser, RequestSavesLabUser, StopEnqueueUser,
   RequestStampsUser, RequestLoadsProjectUser, RequestSavesProjectUser
   DEF RequestMoves, LabOpsNext, RequestStep

\* What one statement of lab l does to the functions it writes.
LEMMA LabWrites ==
    ASSUME IInv, UserIInv, NEW l \in Labs
    PROVE  /\ DeployIsAhead(l) /\ DeployIsRented(l) /\ Deploy(l) \in TaskIds
           /\ \A v : Decides(l, v) =>
                 verdict'[l] = v /\ \A k \in Labs : k # l => verdict'[k] = verdict[k]
           /\ \A what : Owes(l, what) =>
                 handoff'[l] = what /\ \A k \in Labs : k # l => handoff'[k] = handoff[k]
           /\ \A row : SaveLab(l, row) =>
                 labs'[l] = row /\ \A k \in Labs : k # l => labs'[k] = labs[k]
           /\ \A handles : Created(l, handles) =>
                 \A k \in Labs : k # l => exists'[k] = exists[k]
BY ProvisioningFacts, TaskIdFacts DEF UserIInv, Decides, Owes, SaveLab, Created

\* A step of lab l: its resources come, and its project is given, before the deploy
\* is over, and when every other tenant has left.
LEMMA LabUserFrame ==
    ASSUME IInv, UserIInv, NEW l \in Labs,
           ~ DeployOver(l) \/ (labs'[l] = labs[l] /\ exists'[l] = exists[l]),
           ~ DeployOver(l) /\ DeployOver(l)' => projects'[labs'[l].project].state # "free",
           \A k \in Labs : k # l => /\ labs'[k] = labs[k] /\ exists'[k] = exists[k]
                                    /\ handoff'[k] = handoff[k] /\ verdict'[k] = verdict[k]
                                    /\ tasks'[Deploy(k)] = tasks[Deploy(k)],
           \A p \in Projects : projects'[p].state = "free" => projects[p].state = "free",
           \/ Rented(l)' => Rented(l) /\ labs'[l].project = labs[l].project
           \/ \A k \in Labs : k # l /\ Rented(k) /\ labs[k].project = labs'[l].project => Left(k),
           DeployIsAhead(l)', UNCHANGED <<cleaner, requests>>
    PROVE  UserIInv'
<1>1. EndsForGood
  <2>. SUFFICES ASSUME NEW k \in Labs, Ended(k) PROVE Ended(k)'
    BY DEF EndsForGood
  <2>1. labs'[k] = labs[k]
    BY DEF Ended, DeployOver, Rented
  <2>2. \A r \in Requests : Works(r)' = Works(r)
    BY DEF Works
  <2>. QED  BY <2>1, <2>2 DEF Ended
<1>2. \A k \in Labs : Settles(k)
  <2>1. Settles(l)
    BY DEF Settles, DeployOver, Rented
  <2>2. \A k \in Labs : k # l => Settles(k)
    BY DEF Settles, DeployOver, Rented
  <2>. QED  BY <2>1, <2>2
<1>3. FreesBehind
  BY DEF FreesBehind
<1>4. \A k \in Labs : DeployIsAhead(k)'
  BY <1>2, <1>3, AheadFrame
<1>5. TenantsFollow'
  <2>1. CASE Rented(l)' => Rented(l) /\ labs'[l].project = labs[l].project
    <3>1. \A k \in Labs : Rented(k)' => Rented(k) /\ labs'[k].project = labs[k].project
      BY <2>1 DEF Rented
    <3>. QED  BY <1>1, <1>2, <3>1, TenantsStay
  <2>2. CASE \A k \in Labs : k # l /\ Rented(k) /\ labs[k].project = labs'[l].project => Left(k)
    <3>. SUFFICES ASSUME NEW j \in Labs, NEW k \in Labs, j # k, Rented(j)', Rented(k)',
                         labs'[j].project = labs'[k].project
                  PROVE  Left(j)' \/ Left(k)'
      BY DEF TenantsFollow
    <3>1. \A i \in Labs : i # l /\ Rented(i)' => Rented(i) /\ labs'[i] = labs[i]
      BY DEF Rented
    <3>2. Left(j) \/ Left(k)
      BY <2>2, <3>1 DEF UserIInv, TenantsFollow
    <3>. QED  BY <1>1, <1>2, <3>2, LeftForGood
  <2>. QED  BY <2>1, <2>2
<1>. QED  BY <1>1, <1>2, <1>3, <1>4, <1>5, UserFrame

\* The rent of a project is the turn of its new tenant.
LEMMA CreateLabUser ==
    ASSUME IInv, UserIInv, NEW l \in Labs, CreateLab(l), UNCHANGED <<cleaner, requests>>,
           RentsInTurn
    PROVE  UserIInv'
<1>. DEFINE ts == verdict[l].ts
<1>1. /\ labs[l].state = "absent" /\ ts \in Nat /\ UNCHANGED <<tasks, exists>>
      /\ ~ DeployOver(l) /\ labs[l].known = {}
  BY LabWrites, ProvisioningFacts
     DEF CreateLab, queueVars, Verdicts, DeployOver, Rented, HoldingStates, DeployIsAhead
<1>2. handoff[l] = "none" /\ tasks[Deploy(l)].status = "absent"
  BY <1>1, LabWrites DEF DeployIsRented, Rented, HoldingStates, Status
<1>3. /\ verdict'[l].state \notin Outcomes
      /\ \A k \in Labs : k # l => verdict'[k] = verdict[k]
  <2>1. Decides(l, [state |-> "refused", ts |-> 0]) \/ Decides(l, NoVerdict)
    BY DEF CreateLab
  <2>2. "refused" \notin Outcomes /\ NoVerdict.state \notin Outcomes
    BY DEF NoVerdict, Outcomes
  <2>. QED  BY <2>1, <2>2, LabWrites
<1>4. CASE UNCHANGED <<labs, projects, handoff>>
  <2>1. DeployIsAhead(l)' /\ Rented(l)' = Rented(l) /\ DeployOver(l)' = DeployOver(l)
    BY <1>1, <1>2, <1>3, <1>4 DEF DeployIsAhead, DeployOver, Rented, Status
  <2>. QED  BY <1>1, <1>3, <1>4, <2>1, LabUserFrame
<1>5. ASSUME NEW p \in FreeProjects, Owes(l, "deploy"),
             SaveLab(l, AssignProject(NewLab(ts), p, ts)), SaveProject(p, Allocated(p, l, ts))
      PROVE  UserIInv'
  <2>. DEFINE row   == AssignProject(NewLab(ts), p, ts)
              lease == Allocated(p, l, ts)
  <2>1. p \in Projects /\ projects[p].state = "free" /\ projects[p] \in ProjectRows
    BY ProvisioningFacts DEF FreeProjects
  <2>2. row.state = "deploying" /\ row.project = p /\ row.known = {}
    <3>1. NewLab(ts) \in LabRows /\ NewLab(ts).known = {}
      BY <1>1, NewLabType DEF NewLab, Transition, NoLabRow
    <3>2. row.known = NewLab(ts).known
      BY <3>1 DEF AssignProject, Transition, LabRows
    <3>. QED  BY <1>1, <2>1, <3>1, <3>2, AssignProjectType
  <2>3. lease \in ProjectRows /\ lease.state = "allocated"
    BY <1>1, <2>1 DEF Allocated, ProjectRows, ProjectStates
  <2>. HIDE DEF row, lease
  <2>4. labs'[l] = row /\ \A k \in Labs : k # l => labs'[k] = labs[k]
    BY <1>5, LabWrites DEF row
  <2>5. handoff'[l] = "deploy" /\ \A k \in Labs : k # l => handoff'[k] = handoff[k]
    BY <1>5, LabWrites
  <2>6. /\ projects'[p].state = "allocated"
        /\ \A q \in Projects : q # p => projects'[q] = projects[q]
    BY <1>5, <2>1, <2>3, PersistedType, ProvisioningFacts DEF SaveProject, lease
  <2>7. DeployIsAhead(l)' /\ ~ DeployOver(l)'
    BY <1>1, <1>2, <1>3, <2>2, <2>4, <2>5, <2>6 DEF DeployIsAhead, DeployOver, Status
  <2>8. \A k \in Labs : k # l /\ Rented(k) /\ labs[k].project = labs'[l].project => Left(k)
    BY <2>2, <2>4, <2>6 DEF Left, UserIInv, FreeAreClean, RentsInTurn
  <2>. QED  BY <1>1, <1>3, <2>4, <2>5, <2>6, <2>7, <2>8, LabUserFrame
<1>6. CASE /\ SaveLab(l, Transition(NewLab(ts), "rejected", ts))
           /\ UNCHANGED <<projects, handoff>>
  <2>. DEFINE row == Transition(NewLab(ts), "rejected", ts)
  <2>1. row.state = "rejected" /\ row.known = {}
    <3>1. NewLab(ts) \in LabRows /\ NewLab(ts).known = {} /\ "rejected" \in LabStates
      BY <1>1, NewLabType DEF NewLab, Transition, NoLabRow, LabStates
    <3>. QED  BY <1>1, <3>1, TransitionType
  <2>. HIDE DEF row
  <2>2. labs'[l] = row /\ \A k \in Labs : k # l => labs'[k] = labs[k]
    BY <1>6, LabWrites DEF row
  <2>3. ~ Rented(l)' /\ ~ DeployOver(l)'
    BY <2>1, <2>2 DEF Rented, HoldingStates, DeployOver
  <2>4. DeployIsAhead(l)'
    BY <1>2, <1>3, <1>6, <2>1, <2>2, <1>1 DEF DeployIsAhead, Status
  <2>. QED  BY <1>1, <1>3, <1>6, <2>2, <2>3, <2>4, LabUserFrame
<1>. QED  BY <1>4, <1>5, <1>6 DEF CreateLab

\* A step of lab l that saves no row and creates nothing.
LEMMA LabQuietUser ==
    ASSUME IInv, UserIInv, NEW l \in Labs, UNCHANGED <<labs, projects, exists>>,
           \A k \in Labs : k # l => /\ handoff'[k] = handoff[k] /\ verdict'[k] = verdict[k]
                                    /\ tasks'[Deploy(k)] = tasks[Deploy(k)],
           DeployIsAhead(l)', UNCHANGED <<cleaner, requests>>
    PROVE  UserIInv'
<1>1. DeployOver(l)' = DeployOver(l) /\ Rented(l)' = Rented(l)
  BY DEF DeployOver, Rented
<1>. QED  BY <1>1, LabUserFrame

\* What the steps of the deploy of l do to the queue.
LEMMA DeployTasks ==
    ASSUME IInv, NEW l \in Labs
    PROVE  /\ Dequeue(Deploy(l)) => tasks'[Deploy(l)].status = "active"
           /\ Complete(Deploy(l)) => tasks'[Deploy(l)].status = "absent"
           /\ Retry(Deploy(l)) => tasks'[Deploy(l)].status \in {"pending", "archived"}
           /\ Enqueue(Deploy(l)) /\ tasks[Deploy(l)].status = "absent"
                  => tasks'[Deploy(l)].status = "pending"
BY ProvisioningFacts, TaskIdFacts, QueueStatus

LEMMA AdmitLabUser ==
    ASSUME IInv, UserIInv, NEW l \in Labs, AdmitLab(l), UNCHANGED <<cleaner, requests>>
    PROVE  UserIInv'
<1>1. /\ labs[l].state = "absent" /\ UNCHANGED <<labs, projects, tasks, exists, handoff>>
      /\ verdict'[l].state = "admitted"
      /\ \A k \in Labs : k # l => verdict'[k] = verdict[k]
  BY LabWrites DEF AdmitLab, queueVars
<1>2. DeployIsAhead(l)'
  BY <1>1, LabWrites DEF DeployIsAhead, DeployOver, Rented, Status, Outcomes
<1>. QED  BY <1>1, <1>2, LabQuietUser

LEMMA EnqueueDeployUser ==
    ASSUME IInv, UserIInv, NEW l \in Labs, EnqueueDeploy(l) \/ EnqueueDeployLost(l),
           UNCHANGED <<cleaner, requests>>
    PROVE  UserIInv'
<1>1. /\ handoff[l] = "deploy" /\ handoff'[l] = "none"
      /\ UNCHANGED <<labs, projects, exists, verdict>>
      /\ \A k \in Labs : k # l => handoff'[k] = handoff[k]
      /\ Enqueue(Deploy(l)) \/ UNCHANGED tasks
  BY LabWrites DEF EnqueueDeploy, EnqueueDeployLost, storageVars
<1>2. /\ labs[l].state = "deploying" /\ tasks[Deploy(l)].status = "absent"
      /\ verdict[l].state \notin Outcomes
  BY <1>1, LabWrites DEF DeployIsAhead, Status
<1>3. tasks'[Deploy(l)].status \in {"absent", "pending"}
  BY <1>1, <1>2, DeployTasks
<1>4. DeployIsAhead(l)'
  BY <1>1, <1>2, <1>3, LabWrites DEF DeployIsAhead, DeployOver, Rented, Status
<1>. QED  BY <1>1, <1>4, DeployQueueTypes, LabQuietUser

LEMMA DeployStartUser ==
    ASSUME IInv, UserIInv, NEW l \in Labs, DeployStart(l), UNCHANGED <<cleaner, requests>>
    PROVE  UserIInv'
<1>1. /\ tasks[Deploy(l)].status = "pending"
      /\ UNCHANGED <<labs, projects, exists, handoff, verdict>>
      /\ \/ labs[l].state = "deploying" /\ Dequeue(Deploy(l))
         \/ Complete(Deploy(l))
  BY DEF DeployStart, Status, storageVars
<1>2. \/ labs[l].state = "deploying" /\ tasks'[Deploy(l)].status = "active"
      \/ tasks'[Deploy(l)].status = "absent"
  BY <1>1, DeployTasks
<1>3. handoff[l] # "deploy" /\ verdict[l].state \notin Outcomes
  BY <1>1, LabWrites DEF DeployIsAhead, Status
<1>4. DeployIsAhead(l)'
  BY <1>1, <1>2, <1>3, LabWrites DEF DeployIsAhead, DeployOver, Rented, Status
<1>. QED  BY <1>1, <1>4, DeployQueueTypes, LabQuietUser

LEMMA DeployEndsUser ==
    ASSUME IInv, UserIInv, NEW l \in Labs, DeploySucceeds(l) \/ DeployFails(l),
           UNCHANGED <<cleaner, requests>>
    PROVE  UserIInv'
<1>1. /\ tasks[Deploy(l)].status = "active" /\ handoff[l] = "none"
      /\ UNCHANGED <<labs, projects, handoff, tasks>>
      /\ \A k \in Labs : k # l => verdict'[k] = verdict[k]
      /\ \E created : Created(l, created)
  BY LabWrites DEF DeploySucceeds, DeployFails, DeployRunning, Status, queueVars
<1>2. \A k \in Labs : k # l => exists'[k] = exists[k]
  BY <1>1, LabWrites
<1>3. /\ ~ DeployOver(l) /\ ~ DeployOver(l)' /\ Rented(l)' = Rented(l)
      /\ DeployIsAhead(l)'
  BY <1>1, LabWrites DEF DeployIsAhead, DeployOver, Rented, Status
<1>. QED  BY <1>1, <1>2, <1>3, LabUserFrame

LEMMA DeploySavesUser ==
    ASSUME IInv, UserIInv, NEW l \in Labs, DeploySaves(l), UNCHANGED <<cleaner, requests>>
    PROVE  UserIInv'
<1>1. /\ verdict[l].state \in Outcomes /\ verdict'[l].state \notin Outcomes
      /\ \A k \in Labs : k # l => verdict'[k] = verdict[k]
      /\ UNCHANGED <<projects, exists>>
  BY LabWrites DEF DeploySaves, NoVerdict, Outcomes
<1>2. /\ tasks[Deploy(l)].status = "active" /\ handoff[l] = "none"
      /\ labs[l].state = "deploying" /\ projects[labs[l].project].state # "free"
      /\ Rented(l) /\ ~ DeployOver(l)
  BY <1>1, LabWrites DEF DeployIsAhead, Status, DeployOver, Rented, HoldingStates
<1>3. CASE /\ SaveLab(l, DeployRow(l)) /\ UNCHANGED tasks
           /\ Owes(l, IF verdict[l].state = "ready" THEN "timer" ELSE "compensate")
  <2>. DEFINE row == DeployRow(l)
  <2>1. row.project = labs[l].project /\ row.state \in {"ready", "failed"}
    BY DeployRowFacts
  <2>. HIDE DEF row
  <2>2. labs'[l] = row /\ \A k \in Labs : k # l => labs'[k] = labs[k]
    BY <1>3, LabWrites DEF row
  <2>3. /\ handoff'[l] \in {"timer", "compensate"}
        /\ \A k \in Labs : k # l => handoff'[k] = handoff[k]
    BY <1>3, LabWrites
  <2>4. DeployOver(l)' /\ labs'[l].project = labs[l].project
        /\ labs'[l].state \in {"ready", "failed"}
    BY <2>1, <2>2 DEF DeployOver, Rented, HoldingStates
  <2>5. DeployIsAhead(l)'
    BY <1>1, <2>3, <2>4 DEF DeployIsAhead, Status
  <2>. QED  BY <1>1, <1>2, <1>3, <2>2, <2>3, <2>4, <2>5, LabUserFrame
<1>4. CASE Retry(Deploy(l)) /\ UNCHANGED <<labs, handoff>>
  <2>1. tasks'[Deploy(l)].status \in {"pending", "archived"}
    BY <1>4, DeployTasks
  <2>2. DeployIsAhead(l)'
    BY <1>1, <1>2, <1>4, <2>1, LabWrites DEF DeployIsAhead, DeployOver, Rented, Status
  <2>. QED  BY <1>1, <1>4, <2>2, DeployQueueTypes, LabQuietUser
<1>. QED  BY <1>3, <1>4 DEF DeploySaves

LEMMA DeployHandOffUser ==
    ASSUME IInv, UserIInv, NEW l \in Labs, DeployHandOff(l), UNCHANGED <<cleaner, requests>>
    PROVE  UserIInv'
<1>. DEFINE task   == <<l, handoff[l]>>
            status == IF handoff[l] = "timer" THEN "scheduled" ELSE "pending"
<1>1. /\ handoff[l] \in {"timer", "compensate"} /\ handoff'[l] = "none"
      /\ UNCHANGED <<labs, projects, exists, verdict>>
      /\ \A k \in Labs : k # l => handoff'[k] = handoff[k]
      /\ tasks' = [Put(task, status) EXCEPT ![Deploy(l)] = NoTask]
  BY LabWrites DEF DeployHandOff, storageVars
<1>2. task \in CleanupTasks /\ task \in TaskIds
  BY <1>1 DEF CleanupTasks, TaskIds, TaskKinds, CleanupKinds
<1>. HIDE DEF task, status
<1>3. /\ \A t \in TaskIds : t # task => Put(task, status)[t] = tasks[t]
      /\ DOMAIN Put(task, status) = TaskIds
  BY ProvisioningFacts DEF Put
<1>4. /\ tasks'[Deploy(l)] = NoTask
      /\ \A k \in Labs : k # l => tasks'[Deploy(k)] = tasks[Deploy(k)]
  BY <1>1, <1>2, <1>3, TaskIdFacts
<1>5. verdict[l].state \notin Outcomes
  BY <1>1, LabWrites DEF DeployIsAhead
<1>6. DeployIsAhead(l)'
  BY <1>1, <1>4, <1>5, LabWrites DEF DeployIsAhead, DeployOver, Rented, Status, NoTask
<1>. QED  BY <1>1, <1>4, <1>6, LabQuietUser

LEMMA DeployFaultUser ==
    ASSUME IInv, UserIInv, NEW l \in Labs, DeployHandOffLost(l) \/ DeployCrash(l),
           UNCHANGED <<cleaner, requests>>
    PROVE  UserIInv'
<1>1. /\ handoff'[l] = "none" /\ UNCHANGED <<labs, projects, exists>>
      /\ \A k \in Labs : k # l => handoff'[k] = handoff[k] /\ verdict'[k] = verdict[k]
      /\ Complete(Deploy(l)) \/ Retry(Deploy(l))
  BY LabWrites DEF DeployHandOffLost, DeployCrash, storageVars
<1>2. verdict'[l].state \notin Outcomes
  <2>1. CASE DeployHandOffLost(l)
    BY <2>1, LabWrites DEF DeployHandOffLost, DeployIsAhead
  <2>2. CASE DeployCrash(l)
    BY <2>2, LabWrites, ProvisioningFacts DEF DeployCrash
  <2>. QED  BY <2>1, <2>2
<1>3. tasks'[Deploy(l)].status \in {"absent", "pending", "archived"}
  BY <1>1, DeployTasks
<1>4. DeployIsAhead(l)'
  BY <1>1, <1>2, <1>3, LabWrites DEF DeployIsAhead, DeployOver, Rented, Status
<1>. QED  BY <1>1, <1>4, DeployQueueTypes, LabQuietUser

LEMMA LabMovesUser ==
    ASSUME IInv, UserIInv, NEW l \in Labs, LabMoves(l), RentsInTurn
    PROVE  UserIInv'
BY AdmitLabUser, CreateLabUser, EnqueueDeployUser, DeployStartUser, DeployEndsUser,
   DeploySavesUser, DeployHandOffUser, DeployFaultUser
   DEF LabMoves, ProvisioningNext, DeployStep

\* The queue and the clock move no row.
LEMMA NothingMovesUser ==
    ASSUME IInv, UserIInv, UNCHANGED <<labs, projects, exists, cleaner, handoff, verdict>>,
           UNCHANGED requests,
           \A l \in Labs, status \in {"absent", "active"} :
              tasks'[Deploy(l)].status = status <=> tasks[Deploy(l)].status = status
    PROVE  UserIInv'
<1>1. EndsForGood
  BY DEF EndsForGood, Ended, Works
<1>2. FreesBehind
  BY DEF FreesBehind
<1>. QED  BY <1>1, <1>2, UserRowsFrame

LEMMA TimerFiresUser ==
    ASSUME IInv, UserIInv, NEW t \in TaskIds, TimerFires(t)
    PROVE  UserIInv'
<1>1. /\ UNCHANGED <<labs, projects, exists, cleaner, handoff, verdict, requests>>
      /\ Fire(t)
  BY DEF TimerFires, storageVars
<1>2. \A u \in TaskIds : /\ tasks'[u].status = "absent" <=> tasks[u].status = "absent"
                         /\ tasks'[u].status = "active" <=> tasks[u].status = "active"
  BY <1>1, ProvisioningFacts, QueueStatus, QueueTypes
<1>3. \A l \in Labs : /\ tasks'[Deploy(l)].status = "absent" <=> tasks[Deploy(l)].status = "absent"
                      /\ tasks'[Deploy(l)].status = "active" <=> tasks[Deploy(l)].status = "active"
  BY <1>2, TaskIdFacts
<1>. QED  BY <1>1, <1>3, NothingMovesUser

LEMMA UserInit == Init => UserIInv
<1>. SUFFICES ASSUME Init PROVE UserIInv
  OBVIOUS
<1>1. /\ \A l \in Labs : labs[l].state = "absent" /\ labs[l].known = {}
                         /\ handoff[l] = "none" /\ verdict[l].state = "none"
                         /\ tasks[Deploy(l)].status = "absent"
      /\ \A t \in CleanupTasks : cleaner[t].pc = "idle"
      /\ \A r \in Requests : requests[r].pc = "new"
  BY TaskIdFacts DEF Init, StorageInit, QueueInit, CleanupInit, ProvisioningInit, LabOpsInit,
     NoLabRow, IdleCleaner, NewRequest, NoTask, NoVerdict
<1>2. \A l \in Labs : ~ Rented(l) /\ Recorded(l) = {}
  BY <1>1 DEF Rented, HoldingStates, Recorded
<1>3. \A l \in Labs : DeployIsAhead(l)
  BY <1>1 DEF DeployIsAhead, DeployOver, Rented, Status, Outcomes
<1>4. \A t \in CleanupTasks : CleanerIsBehind(t)
  BY <1>1 DEF CleanerIsBehind
<1>5. \A r \in Requests : RequestIsBehind(r)
  BY <1>1 DEF RequestIsBehind, Works
<1>. QED  BY <1>2, <1>3, <1>4, <1>5 DEF UserIInv, FreeAreClean, TenantsFollow

\* A request that was not sent carries no command, and one that was keeps it on record.
UnsentIsBlank(r) == requests[r].pc = "new" => requests[r].command = "none"

CommandStays(r) == /\ UnsentIsBlank(r)'
                   /\ requests'[r].command = requests[r].command \/ requests[r].command = "none"

LEMMA CommandsStay ==
    ASSUME IInv, \A r \in Requests : UnsentIsBlank(r), [Next]_vars
    PROVE  \A r \in Requests : CommandStays(r)
<1>1. ASSUME NEW r \in Requests, requests'[r] = requests[r]
      PROVE  CommandStays(r)
  BY <1>1 DEF CommandStays, UnsentIsBlank
<1>2. ASSUME NEW r \in Requests, RequestMoves(r)
      PROVE  /\ CommandStays(r)
             /\ \A s \in Requests : s # r => requests'[s] = requests[s]
  <2>. DEFINE q == requests[r]
  <2>. USE RequestFacts DEF CommandStays, UnsentIsBlank, RequestStates
  <2>1. CASE RequestLoadsLab(r)
    <3>1. PICK command \in LabCommands \cap LifecycleCommands, l \in Labs :
              requests' = [requests EXCEPT ![r] = [@ EXCEPT !.pc = "lab", !.command = command,
                                                            !.lab = l, !.row = labs[l]]]
      BY <2>1 DEF RequestLoadsLab
    <3>2. q.pc = "new" /\ requests'[r].pc = "lab"
      BY <2>1, <3>1 DEF RequestLoadsLab
    <3>. QED  BY <3>1, <3>2
  <2>2. CASE RequestStamps(r)
    <3>1. PICK command \in LabCommands \cap PoolCommands, p \in Projects :
              requests' = [requests EXCEPT ![r] = [@ EXCEPT !.pc = "load", !.ts = Now,
                                                            !.command = command, !.id = p]]
      BY <2>2 DEF RequestStamps
    <3>2. q.pc = "new" /\ requests'[r].pc = "load"
      BY <2>2, <3>1 DEF RequestStamps
    <3>. QED  BY <3>1, <3>2
  <2>3. CASE Reply(r)
    BY <2>3, ReplyEnds
  <2>4. CASE RequestChecks(r) /\ ~ Reply(r)
    <3>. DEFINE row == Applied(q.command, q.row, Now)
    <3>1. requests' = [requests EXCEPT ![r].pc = "save", ![r].row = row]
      BY <2>4 DEF RequestChecks
    <3>. HIDE DEF row
    <3>. QED  BY <3>1
  <2>5. CASE RequestSavesLab(r) /\ ~ Reply(r)
    BY <2>5 DEF RequestSavesLab
  <2>6. CASE RequestLoadsProject(r) /\ ~ Reply(r)
    <3>. DEFINE copy == PoolApplied(q.command, projects[q.id], q.ts)
    <3>1. requests' = [requests EXCEPT ![r].pc = "project", ![r].project = copy]
      BY <2>6 DEF RequestLoadsProject
    <3>. HIDE DEF copy
    <3>. QED  BY <3>1
  <2>. QED  BY <1>2, <2>1, <2>2, <2>3, <2>4, <2>5, <2>6
            DEF RequestMoves, LabOpsNext, RequestStep, StopEnqueues, StopEnqueueLost,
                RequestSavesProject
<1>3. CASE \E r \in Requests : RequestMoves(r)
  BY <1>1, <1>2, <1>3
<1>4. CASE UNCHANGED requests
  BY <1>1, <1>4
<1>. QED  BY <1>3, <1>4 DEF Next, vars, CleanerMoves, LabMoves, TimerFires

LEMMA UserNext ==
    ASSUME Orderly, Orderly', IInv, UserIInv, [Next]_vars, [RentsInTurn]_vars
    PROVE  UserIInv'
<1>1. CASE UNCHANGED vars
  <2>1. UNCHANGED <<labs, projects, tasks, exists, cleaner, handoff, verdict, requests>>
    BY <1>1 DEF vars, storageVars, queueVars
  <2>. QED  BY <2>1, NothingMovesUser
<1>2. CASE Next /\ RentsInTurn
  BY <1>2, CleanerMovesUser, LabMovesUser, RequestMovesUser, TimerFiresUser DEF Next
<1>. QED  BY <1>1, <1>2

\* Whatever users request, until one asks to unfreeze a lab or an administrator frees a
\* project by hand, and whatever crashes, is lost or is retried: while every project is
\* rented again only when its last tenant has ended, every copy of a lab's row records
\* what the row records, and the project is freed behind the teardown of that.
THEOREM UserHolds == Spec /\ InTurn => [](Orderly => UserIInv)
<1>. DEFINE Blank == \A r \in Requests : UnsentIsBlank(r)
            Inv   == Blank /\ (Orderly => UserIInv)
<1>1. Init => Inv
  <2>1. Init => Blank
    BY DEF Init, LabOpsInit, NewRequest, UnsentIsBlank
  <2>. QED  BY <2>1, UserInit
<1>2. IInv /\ Inv /\ [Next]_vars /\ [RentsInTurn]_vars => Inv'
  <2>. SUFFICES ASSUME IInv, Inv, [Next]_vars, [RentsInTurn]_vars PROVE Inv'
    OBVIOUS
  <2>1. \A r \in Requests : CommandStays(r)
    BY CommandsStay
  <2>2. Blank'
    BY <2>1 DEF CommandStays
  <2>3. Orderly' => Orderly
    BY <2>1 DEF CommandStays, Orderly
  <2>. QED  BY <2>2, <2>3, UserNext
<1>. QED  BY <1>1, <1>2, InvariantHolds, PTL DEF Spec, InTurn

\* So a free project is empty of what the rows of all labs that rented it record, with
\* users stopping, freezing and extending their labs at any moment.
THEOREM UsersLeaveFreeProjectsClean == Spec /\ InTurn => []FreeProjectIsClean
<1>1. (Orderly => UserIInv) => FreeProjectIsClean
  BY DEF UserIInv, FreeProjectIsClean
<1>. QED  BY <1>1, UserHolds, PTL

\* Nothing but CreateLab gives a project away.
LEMMA OnlyCreateRents ==
    ASSUME IInv, [Next]_vars,
           NEW p \in Projects, projects[p].state = "free", projects'[p].state = "allocated"
    PROVE  \E l \in Labs : CreateLab(l)
<1>1. CASE UNCHANGED projects
  BY <1>1
<1>2. ASSUME NEW q \in Projects, NEW row \in ProjectRows, row.state # "allocated",
             SaveProject(q, row)
      PROVE  FALSE
  <2>1. \A i \in Projects : projects'[i] = projects[i] \/ projects'[i].state # "allocated"
    BY <1>2, ProvisioningFacts, PersistedType DEF SaveProject
  <2>. QED  BY <2>1
<1>3. ASSUME NEW t \in CleanupTasks, CleanerMoves(t), projects' # projects
      PROVE  FALSE
  <2>1. CleanupRelease(t) \/ CleanupFailure(t) \/ CleanupClean(t)
    BY <1>3 DEF CleanerMoves, CleanupNext, CleanupStep, CleanupStart, CleanupLoad, CleanupMark,
       CleanupLoadProject, CleanupTeardown, CleanupTeardownFails, CleanupSecret, CleanupFinish,
       CleanupCrash, storageVars
  <2>2. /\ cleaner[t].pc \in {"release", "failure", "clean"}
        /\ SaveProject(cleaner[t].lab.project, cleaner[t].project)
    BY <1>3, <2>1 DEF CleanupRelease, CleanupFailure, CleanupClean, CleanupSaveProject, At
  <2>3. cleaner[t].lab.project \in Projects /\ cleaner[t].project \in ProjectRows
    BY <2>2, CleanerFacts, CleanerTypes
  <2>4. cleaner[t].project.state # "allocated"
    BY <2>2 DEF IInv, CleanerReleases
  <2>. QED  BY <1>2, <2>2, <2>3, <2>4
<1>4. ASSUME NEW r \in Requests, RequestMoves(r), projects' # projects
      PROVE  FALSE
  <2>. DEFINE q == requests[r]
  <2>1. RequestSavesProject(r)
    BY <1>4 DEF RequestMoves, LabOpsNext, RequestStep, RequestLoadsLab, RequestChecks,
       RequestSavesLab, StopEnqueues, StopEnqueueLost, RequestStamps, RequestLoadsProject,
       storageVars
  <2>2. q.pc = "project" /\ SaveProject(q.id, q.project)
    BY <1>4, <2>1 DEF RequestSavesProject
  <2>3. q.id \in Projects /\ q.project \in ProjectRows /\ q.project.state # "allocated"
    BY <2>2, RequestFacts DEF RequestKeepsProject
  <2>. QED  BY <1>2, <2>2, <2>3
<1>5. ASSUME NEW l \in Labs, LabMoves(l), projects' # projects
      PROVE  CreateLab(l)
  BY <1>5 DEF LabMoves, ProvisioningNext, DeployStep, AdmitLab, EnqueueDeploy,
     EnqueueDeployLost, DeployStart, DeploySucceeds, DeployFails, DeploySaves, DeployHandOff,
     DeployHandOffLost, DeployCrash, storageVars
<1>6. ASSUME NEW t \in TaskIds, TimerFires(t) PROVE UNCHANGED projects
  BY <1>6 DEF TimerFires, storageVars
<1>7. UNCHANGED vars => UNCHANGED projects
  BY DEF vars, storageVars
<1>. QED  BY <1>1, <1>3, <1>4, <1>5, <1>6, <1>7 DEF Next

\* One lab is always in turn: it is created once, so its project has no earlier tenant.
THEOREM OneLabIsInTurn ==
    ASSUME \A k, l \in Labs : k = l PROVE Spec => InTurn
<1>1. IInv /\ [Next]_vars => [RentsInTurn]_vars
  <2>. SUFFICES ASSUME IInv, [Next]_vars, NEW p \in FreeProjects, NEW l \in Labs, Rented(l),
                       projects'[p].state = "allocated"
                PROVE  FALSE
    BY DEF RentsInTurn
  <2>1. p \in Projects /\ projects[p].state = "free"
    BY DEF FreeProjects
  <2>2. PICK k \in Labs : CreateLab(k)
    BY <2>1, OnlyCreateRents
  <2>3. k = l /\ labs[k].state = "absent"
    BY <2>2 DEF CreateLab
  <2>. QED  BY <2>3 DEF Rented, HoldingStates
<1>. QED  BY <1>1, InvariantHolds, PTL DEF Spec, InTurn
=============================================================================

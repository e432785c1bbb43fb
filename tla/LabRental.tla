----------------------------- MODULE LabRental -----------------------------
(***************************************************************************)
(* The life of a lab and of the project it rents: the create request, the  *)
(* deploy task, the cleanup tasks, the lifecycle requests of users, and    *)
(* the administrator's work on the pool, all running at once over one      *)
(* database, one task queue and one cloud.                                 *)
(*                                                                         *)
(* The constants choose the environment: MaxFaults process deaths or       *)
(* refused infrastructure calls, and the commands in LabCommands.          *)
(***************************************************************************)
EXTENDS CleanupSaga, Provisioning, LabOps

vars == <<storageVars, queueVars, exists, cleaner, handoff, verdict, requests>>

TypeOK ==
    /\ StorageTypeOK
    /\ QueueTypeOK
    /\ CloudTypeOK
    /\ CleanupTypeOK
    /\ ProvisioningTypeOK
    /\ LabOpsTypeOK

Init ==
    /\ StorageInit
    /\ QueueInit
    /\ CloudInit
    /\ CleanupInit
    /\ ProvisioningInit
    /\ LabOpsInit

\* The scheduler of the queue: a cleanup timer falls due, now or ever.
TimerFires(t) ==
    /\ Fire(t)
    /\ UNCHANGED <<storageVars, faults, exists, cleaner, handoff, verdict, requests>>

CleanerMoves(t) == CleanupNext(t) /\ UNCHANGED <<handoff, verdict, requests>>
LabMoves(l)     == ProvisioningNext(l) /\ UNCHANGED <<cleaner, requests>>
RequestMoves(r) == LabOpsNext(r) /\ UNCHANGED <<exists, cleaner, handoff, verdict>>

Next ==
    \/ \E t \in CleanupTasks : CleanerMoves(t)
    \/ \E l \in Labs : LabMoves(l)
    \/ \E r \in Requests : RequestMoves(r)
    \/ \E t \in TaskIds : TimerFires(t)

Spec == Init /\ [][Next]_vars

\* The worker keeps executing handlers, the queue keeps its timers and a
\* request that was accepted goes on; nothing forces a user, an
\* administrator, a failure of the provider or a fault to happen.
Fairness ==
    /\ \A t \in CleanupTasks : WF_vars(CleanupStep(t) /\ UNCHANGED <<handoff, verdict, requests>>)
    /\ \A l \in Labs : WF_vars(DeployStep(l) /\ UNCHANGED <<cleaner, requests>>)
    /\ \A r \in Requests : WF_vars(RequestStep(r) /\ UNCHANGED <<exists, cleaner, handoff, verdict>>)
    /\ \A t \in TaskIds : WF_vars(TimerFires(t))

FairSpec == Spec /\ Fairness

-----------------------------------------------------------------------------
(* States in which the pool must keep the lab's project for it.            *)
HoldingStates == {"deploying", "ready", "checking", "frozen", "failed", "cleaning"}
UsedStates    == {"deploying", "ready", "checking", "frozen"}

\* Whatever crashes, whatever is retried and whoever writes last, a project that
\* the pool counts as allocated is backed by a lab that points back at it and is
\* neither finished nor rejected: no project is lost to the pool by staying
\* allocated to a lab whose cleanup is over (cleanup.Run against CreateLab, the
\* deploy saga, the lifecycle requests and the administrator).
RentIsBacked ==
    \A p \in Projects :
        projects[p].state = "allocated" =>
            \E l \in Labs : /\ projects[p].lab = l
                            /\ labs[l].project = p
                            /\ labs[l].state \in HoldingStates

\* With nobody but the sagas at work, and no cleanup that dies after it freed its
\* project, a lab that is deployed, in use or failed has its project allocated to it:
\* cleanup.Run of one lab never takes away or frees what another lab rents, however
\* often its teardown is retried.
LiveLabHasRent ==
    \A l \in Labs :
        labs[l].state \in UsedStates \cup {"failed"} =>
            /\ projects[labs[l].project].state = "allocated"
            /\ projects[labs[l].project].lab = l

\* What the row of a lab records at the provider and is still there.
Recorded(l) == labs[l].known \cap exists[l] \cap ProviderHandles

\* Nobody has sent the command that makes a lab ready while it still deploys (CanTransition
\* accepts it), nor the one that frees a project with whatever is in it.
Orderly == \A r \in Requests : requests[r].command \notin {"unfreeze", "release"}

FreeAreClean == \A p \in FreeProjects, l \in Labs : labs[l].project = p => Recorded(l) = {}

\* A project that is free is empty of all the database knows of: no lab that ever
\* rented it has a recorded server, keypair or network that exists, whatever the
\* order in which users' requests, timers and crashes run cleanup.Run, as long as
\* nothing of a lab is left running when its project is rented again, and all
\* requests so far were orderly.
FreeProjectIsClean == Orderly => FreeAreClean

\* A lab is done with recorded resources still there only when its project is in
\* quarantine: finishLab runs after the teardown or after the retries are spent. Of
\* orderly requests, and where nothing was lost or nobody has sent one.
DoneLabIsTornDown ==
    Orderly /\ (faults = 0 \/ \A r \in Requests : requests[r].command = "none") =>
    \A l \in Labs :
        labs[l].state = "done" /\ Recorded(l) # {} =>
            projects[labs[l].project].state = "quarantine"

\* No save of a stale copy by a saga moves a lab along an edge that the state
\* machine of the LabInstance aggregate does not have, even after a crash between
\* any two statements.
OnlyLegalTransitions ==
    [][\A l \in Labs :
         labs'[l].state # labs[l].state /\ labs[l].state # "absent" =>
             CanTransition(labs[l].state, labs'[l].state)]_vars

\* No cleanup takes a project out of quarantine, its own or that of another lab,
\* when a cleanup put it there: only an administrator may.
QuarantineIsSticky ==
    [][\A p \in Projects :
         projects[p].state = "quarantine" /\ projects'[p].state # "quarantine" =>
             \E r \in Requests : requests[r].command = "release" /\ requests[r].id = p
                                 /\ requests[r] # requests'[r]]_vars

\* Every lab that was given a project ends, and every rent ends: deploy, timer or
\* compensation, and cleanup follow one another to the end.
EveryLabEnds ==
    \A l \in Labs : (labs[l].state \in HoldingStates) ~> (labs[l].state = "done")

EveryRentEnds ==
    \A p \in Projects : (projects[p].state \in {"allocated", "cleaning"})
                            ~> (projects[p].state \in {"free", "quarantine"})

\* A cleanup that has begun ends, through crashes and failing teardowns, or leaves an
\* archived task behind for the operator: no lab is forgotten half-cleaned.
CleaningIsNotForgotten ==
    \A l \in Labs :
        (labs[l].state = "cleaning")
            ~> \/ labs[l].state = "done"
               \/ \E kind \in CleanupKinds : Status(<<l, kind>>) = "archived"

-----------------------------------------------------------------------------
(* What the documents and comments say, and the code does not do.          *)

\* A project is rented to at most one lab (docs/STATE_MACHINES.md, the invariants of
\* Project). cleanup.Run releases the project its lab row names without asking who
\* rents it now, so a retry may free the project of the next tenant.
RentIsUnique ==
    \A k, l \in Labs :
        k # l /\ labs[k].state \in UsedStates /\ labs[l].state \in UsedStates =>
            labs[k].project # labs[l].project

\* The cleanup of a failed deploy tears down whatever the partial deploy created
\* (comment of deploy.fail), so a free project holds no lab's resources. fail saves
\* the row without the handles of what the steps created.
FreeProjectIsEmpty ==
    \A p \in FreeProjects, l \in Labs :
        labs[l].project = p => exists[l] \cap ProviderHandles = {}

\* A failed lab moves on to cleaning by itself (docs/STATE_MACHINES.md, the states of
\* LabInstance). The unique index of the active labs refuses that save when the
\* student has started another lab since: failed is not indexed, cleaning is.
FailedIsCleaned ==
    \A l \in Labs : (labs[l].state = "failed") ~> (labs[l].state # "failed")

\* No transition leaves done (docs/STATE_MACHINES.md, the forbidden transitions). A
\* request that read the row before the cleanup saves it after.
DoneIsFinal ==
    [][\A l \in Labs : labs[l].state = "done" => labs'[l].state = "done"]_vars

-----------------------------------------------------------------------------
(* Why RentIsBacked holds: its inductive strengthening.                    *)

\* The labs that were ever given a project.
Rented(l) == labs[l].state \in HoldingStates \cup {"done"}

LabsKeepProject ==
    \A l \in Labs : /\ labs[l].state \notin {"pending_quota", "pending_project"}
                    /\ Rented(l) => labs[l].project \in Projects

\* Only a lab that was given a project has a deploy task, or one owed to it.
DeployIsRented(l) ==
    handoff[l] # "none" \/ verdict[l].state \in Outcomes \/ Status(Deploy(l)) # "absent"
        => Rented(l)

PastRelease == {"teardown", "failure", "clean", "secret", "finish"}

\* A cleanup works on its lab's own project, never writes "allocated", and from
\* the release on the project is not allocated to its lab any more.
CleanerReleases(t) ==
    LET c == cleaner[t]
        p == c.lab.project
    IN  /\ c.pc \notin {"idle", "load"} => /\ Rented(LabOf(t))
                                           /\ c.lab.state = "cleaning"
                                           /\ p = labs[LabOf(t)].project
        /\ c.pc \in {"release", "failure", "clean"} => c.project.state # "allocated"
        /\ c.pc \in PastRelease /\ projects[p].state = "allocated" =>
                projects[p].lab # LabOf(t)

\* A request works on a lab that was given a project, or will be refused, and
\* never writes "allocated".
RequestKeepsProject(r) ==
    LET q == requests[r]
    IN  /\ q.pc \in {"lab", "save", "enqueue"} => q.lab \in Labs
        /\ q.pc \in {"lab", "save"} => q.command \in LifecycleCommands
        /\ \/ q.pc = "lab" /\ Accepts(q.command, q.row.state)
           \/ q.pc = "save"
           => Rented(q.lab) /\ q.row.project = labs[q.lab].project
        /\ q.pc = "save" => q.row.state \in HoldingStates
        /\ q.pc \in {"load", "project"} => q.id \in Projects
        /\ q.pc = "load" => q.command \in PoolCommands
        /\ q.pc = "project" => q.project.state # "allocated"

\* The inductive invariant. The rent is backed because no copy of a project row is
\* saved as allocated, and because a lab is done only behind its own release.
IInv ==
    /\ TypeOK
    /\ RentIsBacked
    /\ LabsKeepProject
    /\ \A l \in Labs : DeployIsRented(l)
    /\ \A t \in CleanupTasks : CleanerReleases(t)
    /\ \A r \in Requests : RequestKeepsProject(r)

-----------------------------------------------------------------------------
(* Why OnlyLegalTransitions holds while no user's request interferes: of a *)
(* lab there is one deploy, then at most one cleanup task.                 *)

NoLifecycleRequests == LabCommands \cap LifecycleCommands = {}

\* The deploy that runs is that of a deploying lab; what it owes agrees with what it saved.
DeployInOrder(l) ==
    /\ handoff[l] = "deploy" => labs[l].state = "deploying" /\ Status(Deploy(l)) = "absent"
    /\ handoff[l] = "timer" => labs[l].state = "ready"
    /\ handoff[l] = "compensate" => labs[l].state = "failed"
    /\ handoff[l] \in {"timer", "compensate"} => Status(Deploy(l)) = "active"
    /\ Status(Deploy(l)) = "active" /\ handoff[l] = "none" => labs[l].state = "deploying"
    /\ verdict[l].state \in Outcomes => Status(Deploy(l)) = "active" /\ handoff[l] = "none"

\* The timer or the compensation is enqueued once, after the deploy has ended.
CleanupFollows(t) ==
    Status(t) # "absent" =>
        /\ handoff[LabOf(t)] = "none"
        /\ labs[LabOf(t)].state \notin {"absent", "rejected", "deploying"}
        /\ \A u \in CleanupTasks : LabOf(u) = LabOf(t) /\ Status(u) # "absent" => u = t

\* A cleanup that runs finds the lab as it loaded or left it.
CleanerIsAlone(t) ==
    /\ ~ At(t, "idle") => Status(t) = "active"
    /\ At(t, "mark") => CanTransition(labs[LabOf(t)].state, "cleaning")
    /\ cleaner[t].pc \notin {"idle", "load", "mark"} => labs[LabOf(t)].state = "cleaning"

\* The inductive invariant, whatever crashes, is refused or is retried.
LegalIInv ==
    /\ \A l \in Labs : DeployInOrder(l)
    /\ \A t \in CleanupTasks : CleanupFollows(t) /\ CleanerIsAlone(t)
    /\ \A r \in Requests : requests[r].pc \notin {"lab", "save", "enqueue"}

-----------------------------------------------------------------------------
(* Why LiveLabHasRent and QuarantineIsSticky hold while no request         *)
(* interferes: processes may die, calls be refused and teardowns fail, but *)
(* one window is spared.  A cleanup that dies in it is run again on a      *)
(* project that may be another lab's by then.                              *)

NoRequests == LabCommands = {}

\* The cleanup has freed its project, and dies before its lab is done.
Relapses(t) == /\ cleaner[t].pc \in {"secret", "finish"}
               /\ projects[cleaner[t].lab.project].state # "quarantine"
               /\ CleanupCrash(t)

Steadily == [][\A t \in CleanupTasks : ~ Relapses(t)]_vars

\* The project is the lab's, to use or to clean.
Has(l, states) == /\ projects[labs[l].project].state \in states
                  /\ projects[labs[l].project].lab = l

\* The cleanup is past its last word on the project.
HandedOver(l) == \E t \in CleanupTasks : LabOf(t) = l /\ cleaner[t].pc \in {"secret", "finish"}

SetAside(l) == projects[labs[l].project].state = "quarantine"

RentIsKept(l) ==
    /\ labs[l].state \in UsedStates \cup {"failed"} => Has(l, {"allocated"})
    /\ labs[l].state = "cleaning" =>
          Has(l, {"allocated", "cleaning"}) \/ HandedOver(l) \/ SetAside(l)

\* A cleanup writes a project only while it is its lab's, and its last save is never refused.
CleanerIsCurrent(t) ==
    /\ \/ cleaner[t].pc \in {"release", "failure", "clean"}
       \/ cleaner[t].pc = "teardown" /\ cleaner[t].project.state # "quarantine"
       => Has(LabOf(t), {"allocated", "cleaning"})
    /\ cleaner[t].pc = "release" => cleaner[t].project.state = "cleaning"
    /\ cleaner[t].pc = "clean" => cleaner[t].project.state = "free"
    /\ cleaner[t].pc \in {"release", "teardown", "failure"} =>
          \/ cleaner[t].project.state = "cleaning" /\ cleaner[t].project.lab = LabOf(t)
          \/ cleaner[t].project.state = "quarantine"
    /\ At(t, "mark") => cleaner[t].lab.updated = cleaner[t].ts
    /\ ~ At(t, "idle") => labs[LabOf(t)].updated <= cleaner[t].ts

\* Nothing carries a stamp of the future.
StampsArePast ==
    /\ \A l \in Labs : labs[l].updated <= now /\ verdict[l].ts <= now
    /\ \A t \in CleanupTasks : cleaner[t].ts <= now

\* The inductive invariant, together with IInv and LegalIInv.
RentIInv ==
    /\ \A l \in Labs : RentIsKept(l)
    /\ \A t \in CleanupTasks : CleanerIsCurrent(t)
    /\ StampsArePast
    /\ \A r \in Requests : requests[r].pc = "new"

-----------------------------------------------------------------------------
(* Why FreeProjectIsClean and DoneLabIsTornDown hold then: a project is    *)
(* freed, and a lab is done, behind a teardown of all the row records, or  *)
(* else the project is in quarantine.                                      *)

TornDown(l) == Recorded(l) = {} \/ projects[labs[l].project].state = "quarantine"

LabIsClean(l) == /\ labs[l].state \in {"absent", "rejected"} => labs[l].known = {}
                 /\ labs[l].state = "done" => TornDown(l)

\* A cleanup tears down what the row records, not an older or a newer copy.
CleanerTears(t) ==
    /\ cleaner[t].pc \notin {"idle", "load"} => cleaner[t].lab.known = labs[LabOf(t)].known
    /\ cleaner[t].pc = "clean" => Recorded(LabOf(t)) = {}
    /\ cleaner[t].pc \in {"secret", "finish"} => TornDown(LabOf(t))

\* The inductive invariant, together with the three before it.
CleanIInv == /\ \A l \in Labs : LabIsClean(l)
             /\ \A t \in CleanupTasks : CleanerTears(t)

-----------------------------------------------------------------------------
(* Why FreeProjectIsClean holds with requests of users and whatever faults *)
(* while a project is rented again only when its last tenant has ended:    *)
(* once the deploy is over its resources only go, and every copy of the    *)
(* row names the same ones.                                                *)

\* The request will save the row it holds a copy of.
Works(r) == \/ requests[r].pc = "save"
            \/ requests[r].pc = "lab" /\ Accepts(requests[r].command, requests[r].row.state)

\* The lab is done, and no call is left that began before it was.
Ended(l) == /\ labs[l].state = "done"
            /\ \A t \in CleanupTasks : LabOf(t) = l => cleaner[t].pc \in {"idle", "load"}
            /\ \A r \in Requests : requests[r].lab = l => ~ Works(r)

\* A project that is rented now has no tenant that has not ended.
RentsInTurn ==
    \A p \in FreeProjects, l \in Labs :
        Rented(l) /\ labs[l].project = p /\ projects'[p].state = "allocated" => Ended(l)

InTurn == [][RentsInTurn]_vars

DeployOver(l) == Rented(l) /\ labs[l].state # "deploying"

\* While the deploy runs the row records nothing, and the project is not free.
DeployIsAhead(l) ==
    /\ ~ DeployOver(l) => labs[l].known = {}
    /\ labs[l].state = "deploying" => projects[labs[l].project].state # "free"
    /\ Status(Deploy(l)) = "active" /\ handoff[l] = "none" => labs[l].state = "deploying"
    /\ verdict[l].state \in Outcomes => Status(Deploy(l)) = "active" /\ handoff[l] = "none"
    /\ handoff[l] = "deploy" => labs[l].state = "deploying" /\ Status(Deploy(l)) = "absent"

\* A cleanup works behind the deploy, and frees what it has torn down.
CleanerIsBehind(t) ==
    /\ cleaner[t].pc \notin {"idle", "load"} =>
           DeployOver(LabOf(t)) /\ cleaner[t].lab.known = labs[LabOf(t)].known
    /\ cleaner[t].pc \in {"release", "failure"} => cleaner[t].project.state # "free"
    /\ cleaner[t].pc = "clean" => Recorded(LabOf(t)) = {}

\* So does a request, and it frees nothing.
RequestIsBehind(r) ==
    LET q == requests[r]
    IN  /\ Works(r) => DeployOver(q.lab) /\ q.row.known = labs[q.lab].known
        /\ q.pc = "save" => q.row.state # "deploying"
        /\ q.pc = "project" => q.project.state # "free"

\* Of two labs that were given the same project one has left it, and left it empty.
Left(l) == Ended(l) /\ Recorded(l) = {}

TenantsFollow ==
    \A k, l \in Labs : k # l /\ Rented(k) /\ Rented(l) /\ labs[k].project = labs[l].project
                          => Left(k) \/ Left(l)

\* The inductive invariant, together with IInv, as long as all requests are orderly.
UserIInv ==
    /\ FreeAreClean
    /\ TenantsFollow
    /\ \A l \in Labs : DeployIsAhead(l)
    /\ \A t \in CleanupTasks : CleanerIsBehind(t)
    /\ \A r \in Requests : RequestIsBehind(r)
=============================================================================

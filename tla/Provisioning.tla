---------------------------- MODULE Provisioning ----------------------------
(***************************************************************************)
(* How a lab comes to hold a project, and how it leaves "deploying":       *)
(* lab.CreateLab, and the two ends of the deploy saga, succeed and fail.   *)
(* The five steps between them are module DeploySaga; here a delivered     *)
(* deploy task creates some of the lab's resources and ends in one of      *)
(* them, or errs and is retried.                                           *)
(*                                                                         *)
(* Each commits to Postgres first and talks to the task queue after, from  *)
(* memory: handoff[l] is the enqueue call a live process still owes.       *)
(***************************************************************************)
EXTENDS Storage, TaskQueue, Cloud

VARIABLES handoff,   \* Labs -> HandOffs
          verdict    \* Labs -> Verdicts: what a request or a deploy is about to save

HandOffs == {"none", "deploy", "timer", "compensate"}

Verdicts  == [state : {"none", "admitted", "refused", "ready", "failed"}, ts : Nat]
Outcomes  == {"ready", "failed"}
NoVerdict == [state |-> "none", ts |-> 0]

ProvisioningTypeOK == /\ handoff \in [Labs -> HandOffs]
                      /\ verdict \in [Labs -> Verdicts]

ProvisioningInit == /\ handoff = [l \in Labs |-> "none"]
                    /\ verdict = [l \in Labs |-> NoVerdict]

Deploy(l) == <<l, "deploy">>

Owes(l, what) == handoff' = [handoff EXCEPT ![l] = what]

Decides(l, v) == verdict' = [verdict EXCEPT ![l] = v]

-----------------------------------------------------------------------------
\* CreateLab up to the BEGIN of its transaction: the quota has been evaluated.
\* The clock is read here, and now() in AllocateOneFree is this BEGIN too.
AdmitLab(l) ==
    /\ labs[l].state = "absent"
    /\ verdict[l].state = "none"
    /\ now' = Now
    /\ Decides(l, [state |-> "admitted", ts |-> Now])
    /\ UNCHANGED <<labs, projects, queueVars, exists, handoff>>

\* The transaction of CreateLab: the lab row, whose id is new, and the lease of a
\* project commit together.  An empty pool commits a rejected lab instead, and an
\* active lab of the same student and course refuses the request.
CreateLab(l) ==
    LET ts == verdict[l].ts IN
    /\ verdict[l].state = "admitted" /\ labs[l].state = "absent"
    /\ \/ /\ ActiveLabs(Owner[l]) # {}
          /\ Decides(l, [state |-> "refused", ts |-> 0])
          /\ UNCHANGED <<labs, projects, handoff>>
       \/ /\ ActiveLabs(Owner[l]) = {}
          /\ \E p \in FreeProjects :
                /\ SaveLab(l, AssignProject(NewLab(ts), p, ts))
                /\ SaveProject(p, Allocated(p, l, ts))
          /\ Owes(l, "deploy")
          /\ Decides(l, NoVerdict)
       \/ /\ ActiveLabs(Owner[l]) = {}
          /\ FreeProjects = {}
          /\ SaveLab(l, Transition(NewLab(ts), "rejected", ts))
          /\ Decides(l, NoVerdict)
          /\ UNCHANGED <<projects, handoff>>
    /\ UNCHANGED <<now, queueVars, exists>>

\* The Enqueue that follows the commit.
EnqueueDeploy(l) ==
    /\ handoff[l] = "deploy"
    /\ Enqueue(Deploy(l))
    /\ Owes(l, "none")
    /\ UNCHANGED <<storageVars, faults, exists, verdict>>

\* The gateway dies first, or Redis refuses: the error is only logged.
EnqueueDeployLost(l) ==
    /\ handoff[l] = "deploy"
    /\ Fault
    /\ Owes(l, "none")
    /\ UNCHANGED <<storageVars, tasks, exists, verdict>>

-----------------------------------------------------------------------------
\* Wrong: a redelivered task does not look at the state the first run left.
WrongDeployStart(l) ==
    /\ Status(Deploy(l)) = "pending"
    /\ Dequeue(Deploy(l))
    /\ UNCHANGED <<storageVars, faults, exists, handoff, verdict>>

\* Run loads the lab; one that is not deploying has nothing to do.
DeployStart(l) ==
    /\ Status(Deploy(l)) = "pending"
    /\ IF GetLabInstanceByID(l).state = "deploying" THEN Dequeue(Deploy(l)) ELSE Complete(Deploy(l))
    /\ UNCHANGED <<storageVars, faults, exists, handoff, verdict>>

DeployRunning(l) == /\ Status(Deploy(l)) = "active"
                    /\ handoff[l] = "none"
                    /\ verdict[l].state = "none"

\* succeed, up to the captured now: all five steps have succeeded.
DeploySucceeds(l) ==
    /\ DeployRunning(l)
    /\ now' = Now
    /\ Created(l, Handles)
    /\ Decides(l, [state |-> "ready", ts |-> Now])
    /\ UNCHANGED <<labs, projects, queueVars, handoff>>

\* What a deploy that fails has created: a prefix of the steps' resources.
Partial == { {}, {"keypair"}, {"keypair", "secret"},
             {"keypair", "secret", "network"}, Handles }

\* fail, up to the captured now: a step has spent its attempts.
DeployFails(l) ==
    /\ DeployRunning(l)
    /\ now' = Now
    /\ \E created \in Partial : Created(l, created)
    /\ Decides(l, [state |-> "failed", ts |-> Now])
    /\ UNCHANGED <<labs, projects, queueVars, handoff>>

\* The row to save: the one Run loaded, which was deploying, with its project and
\* no handle recorded. succeed adds the handles; fail leaves them out.
DeployRow(l) ==
    LET loaded == [GetLabInstanceByID(l) EXCEPT !.state = "deploying", !.known = {}]
    IN  IF verdict[l].state = "ready"
        THEN MarkReady(loaded, Handles, verdict[l].ts)
        ELSE Transition(loaded, "failed", verdict[l].ts)

\* saveLab, and then the follow-up task is owed: the timer or the compensation.
DeploySaves(l) ==
    /\ verdict[l].state \in Outcomes
    /\ Decides(l, NoVerdict)
    /\ IF CanSaveLab(l, DeployRow(l))
       THEN /\ SaveLab(l, DeployRow(l))
            /\ Owes(l, IF verdict[l].state = "ready" THEN "timer" ELSE "compensate")
            /\ UNCHANGED tasks
       ELSE Retry(Deploy(l)) /\ UNCHANGED <<labs, handoff>>
    /\ UNCHANGED <<projects, now, faults, exists>>

\* Wrong: nothing is enqueued after a failed deploy.
WrongDeployHandOff(l) ==
    LET kind == handoff[l] IN
    /\ kind \in {"timer", "compensate"}
    /\ tasks' = [IF kind = "timer" THEN Put(<<l, kind>>, "scheduled") ELSE tasks
                    EXCEPT ![Deploy(l)] = NoTask]
    /\ Owes(l, "none")
    /\ UNCHANGED <<storageVars, faults, exists, verdict>>

\* The EnqueueAt or Enqueue that follows, and Run's return nil.
DeployHandOff(l) ==
    LET kind == handoff[l] IN
    /\ kind \in {"timer", "compensate"}
    /\ tasks' = [Put(<<l, kind>>, IF kind = "timer" THEN "scheduled" ELSE "pending")
                    EXCEPT ![Deploy(l)] = NoTask]
    /\ Owes(l, "none")
    /\ UNCHANGED <<storageVars, faults, exists, verdict>>

\* Redis refuses the follow-up task: the error is only logged.
DeployHandOffLost(l) ==
    /\ handoff[l] \in {"timer", "compensate"}
    /\ Fault
    /\ Complete(Deploy(l))
    /\ Owes(l, "none")
    /\ UNCHANGED <<storageVars, exists, verdict>>

\* A step errs or the worker dies, before or after the save.
DeployCrash(l) ==
    /\ Status(Deploy(l)) = "active"
    /\ Fault
    /\ Retry(Deploy(l))
    /\ Owes(l, "none")
    /\ Decides(l, NoVerdict)
    /\ UNCHANGED <<storageVars, exists>>

DeployStep(l) ==
    \/ EnqueueDeploy(l)
    \/ DeployStart(l)
    \/ DeploySucceeds(l)
    \/ DeploySaves(l)
    \/ DeployHandOff(l)

ProvisioningNext(l) ==
    \/ DeployStep(l)
    \/ AdmitLab(l)
    \/ CreateLab(l)
    \/ EnqueueDeployLost(l)
    \/ DeployFails(l)
    \/ DeployHandOffLost(l)
    \/ DeployCrash(l)
=============================================================================

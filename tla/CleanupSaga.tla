---------------------------- MODULE CleanupSaga ----------------------------
(***************************************************************************)
(* cleanup.Deps.Run, one call per delivered cleanup task, statement by     *)
(* statement: the calls of different tasks interleave between any two      *)
(* accesses to the database or to the cloud, and each works on the copies  *)
(* it loaded and on the one clock value it captured when it started.       *)
(*                                                                         *)
(* cleaner[t] is the call of task t: pc names the statement it is about to *)
(* run, ts its now, lab and project the aggregates it loaded.              *)
(***************************************************************************)
EXTENDS Storage, TaskQueue, Cloud

VARIABLE cleaner     \* CleanupTasks -> Cleaners

CleanupPCs == { "idle", "load", "mark", "project", "release", "teardown",
                "failure", "clean", "secret", "finish" }

Cleaners == [pc : CleanupPCs, ts : Nat, lab : LabRows, project : ProjectRows]

IdleCleaner == [pc |-> "idle", ts |-> 0, lab |-> NoLabRow, project |-> FreeProject]

CleanupTypeOK == cleaner \in [CleanupTasks -> Cleaners]
CleanupInit   == cleaner = [t \in CleanupTasks |-> IdleCleaner]

At(t, pc) == cleaner[t].pc = pc

Goto(t, pc) == cleaner' = [cleaner EXCEPT ![t].pc = pc]

\* Run returned nil: the task is done.
Return(t) == Complete(t) /\ cleaner' = [cleaner EXCEPT ![t] = IdleCleaner]

\* Run returned an error: asynq retries the task, or archives it.
Fail(t) == Retry(t) /\ cleaner' = [cleaner EXCEPT ![t] = IdleCleaner]

-----------------------------------------------------------------------------
\* now := d.Clock.Now()
CleanupStart(t) ==
    /\ Dequeue(t)
    /\ now' = Now
    /\ cleaner' = [cleaner EXCEPT ![t].pc = "load", ![t].ts = Now]
    /\ UNCHANGED <<labs, projects, exists, faults>>

\* Wrong: a lab that is already cleaning is left to the call that marked it.
WrongCleanupLoad(t) ==
    LET row == GetLabInstanceByID(LabOf(t)) IN
    /\ At(t, "load")
    /\ IF row.state # "cleaning" /\ CanTransition(row.state, "cleaning")
       THEN /\ cleaner' = [cleaner EXCEPT ![t].pc  = "mark",
                                          ![t].lab = Transition(row, "cleaning", cleaner[t].ts)]
            /\ UNCHANGED tasks
       ELSE Return(t)
    /\ UNCHANGED <<storageVars, exists, faults>>

\* GetByID.  A done lab and a lab that cannot be cleaned are both "nothing to do".
CleanupLoad(t) ==
    LET row == GetLabInstanceByID(LabOf(t)) IN
    /\ At(t, "load")
    /\ \/ /\ row.state = "cleaning"
          /\ cleaner' = [cleaner EXCEPT ![t].pc = "project", ![t].lab = row]
          /\ UNCHANGED tasks
       \/ /\ row.state # "cleaning" /\ CanTransition(row.state, "cleaning")
          /\ cleaner' = [cleaner EXCEPT ![t].pc  = "mark",
                                        ![t].lab = Transition(row, "cleaning", cleaner[t].ts)]
          /\ UNCHANGED tasks
       \/ /\ ~ CanTransition(row.state, "cleaning")
          /\ Return(t)
    /\ UNCHANGED <<storageVars, exists, faults>>

\* saveLab: the lab moves to cleaning.
CleanupMark(t) ==
    LET l == LabOf(t) IN
    /\ At(t, "mark")
    /\ IF CanSaveLab(l, cleaner[t].lab)
       THEN SaveLab(l, cleaner[t].lab) /\ Goto(t, "project") /\ UNCHANGED tasks
       ELSE Fail(t) /\ UNCHANGED labs
    /\ UNCHANGED <<projects, now, exists, faults>>

\* Wrong: the release of an allocated project is forgotten.
WrongCleanupLoadProject(t) ==
    /\ At(t, "project")
    /\ cleaner' = [cleaner EXCEPT ![t].pc = "teardown",
                                  ![t].project = GetProjectByID(cleaner[t].lab.project)]
    /\ UNCHANGED <<storageVars, queueVars, exists>>

\* Pool.GetByID; an allocated project is released first, whoever rents it.
\* A lab that can be cleaned always has a project.
CleanupLoadProject(t) ==
    LET row == GetProjectByID(cleaner[t].lab.project) IN
    /\ At(t, "project")
    /\ cleaner' = IF row.state = "allocated"
                  THEN [cleaner EXCEPT ![t].pc = "release",
                                       ![t].project = Release(row, cleaner[t].ts)]
                  ELSE [cleaner EXCEPT ![t].pc = "teardown", ![t].project = row]
    /\ UNCHANGED <<storageVars, queueVars, exists>>

\* saveProject of the copy, at one of the three places Run calls it.
CleanupSaveProject(t, pc, next) ==
    LET p == cleaner[t].lab.project IN
    /\ At(t, pc)
    /\ IF CanSaveProject(p, cleaner[t].project)
       THEN SaveProject(p, cleaner[t].project) /\ next
       ELSE Fail(t) /\ UNCHANGED projects
    /\ UNCHANGED <<labs, now, exists, faults>>

CleanupRelease(t) ==
    CleanupSaveProject(t, "release", Goto(t, "teardown") /\ UNCHANGED tasks)

\* Wrong: the keypair is forgotten.
WrongCleanupTeardown(t) ==
    LET c == cleaner[t] IN
    /\ At(t, "teardown")
    /\ Deleted(LabOf(t), c.lab.known \cap {"servers", "network"})
    /\ cleaner' = IF c.project.state = "cleaning"
                  THEN [cleaner EXCEPT ![t].pc = "clean",
                                       ![t].project = MarkClean(c.project, c.ts)]
                  ELSE [cleaner EXCEPT ![t].pc = "secret"]
    /\ UNCHANGED <<storageVars, queueVars>>

\* Every provider delete returned nil: what the row holds handles of is gone.
CleanupTeardown(t) ==
    LET c == cleaner[t] IN
    /\ At(t, "teardown")
    /\ Deleted(LabOf(t), c.lab.known \cap ProviderHandles)
    /\ cleaner' = IF c.project.state = "cleaning"
                  THEN [cleaner EXCEPT ![t].pc = "clean",
                                       ![t].project = MarkClean(c.project, c.ts)]
                  ELSE [cleaner EXCEPT ![t].pc = "secret"]
    /\ UNCHANGED <<storageVars, queueVars>>

\* A provider delete failed after some prefix of servers, keypair, network.
TeardownPrefixes == { {}, {"servers"}, {"servers", "keypair"} }

CleanupTeardownFails(t) ==
    LET c == cleaner[t] IN
    /\ At(t, "teardown")
    /\ \E gone \in TeardownPrefixes :
          /\ ~ (c.lab.known \cap ProviderHandles \subseteq gone)
          /\ Deleted(LabOf(t), c.lab.known \cap gone)
    /\ IF c.project.state = "cleaning"
       THEN /\ cleaner' = [cleaner EXCEPT ![t].pc = "failure",
                                          ![t].project = RecordCleanupFailure(@, c.ts)]
            /\ UNCHANGED tasks
       ELSE Fail(t)
    /\ UNCHANGED <<storageVars, faults>>

\* Wrong: nil is returned after a failure is recorded, so nothing retries it.
WrongCleanupFailure(t) ==
    CleanupSaveProject(t, "failure",
        IF cleaner[t].project.state = "quarantine"
        THEN Goto(t, "finish") /\ UNCHANGED tasks
        ELSE Return(t))

\* The failure count is saved; a quarantined project ends the saga.
CleanupFailure(t) ==
    CleanupSaveProject(t, "failure",
        IF cleaner[t].project.state = "quarantine"
        THEN Goto(t, "finish") /\ UNCHANGED tasks
        ELSE Fail(t))

CleanupClean(t) ==
    CleanupSaveProject(t, "clean", Goto(t, "secret") /\ UNCHANGED tasks)

\* Secrets.Delete: an error is only logged.
CleanupSecret(t) ==
    /\ At(t, "secret")
    /\ \/ /\ Deleted(LabOf(t), cleaner[t].lab.known \cap {"secret"})
          /\ UNCHANGED faults
       \/ "secret" \in cleaner[t].lab.known /\ Fault /\ UNCHANGED exists
    /\ Goto(t, "finish")
    /\ UNCHANGED <<storageVars, tasks>>

\* finishLab: lab -> done.
CleanupFinish(t) ==
    LET l   == LabOf(t)
        row == Transition(cleaner[t].lab, "done", cleaner[t].ts) IN
    /\ At(t, "finish")
    /\ IF CanSaveLab(l, row)
       THEN SaveLab(l, row) /\ Return(t)
       ELSE Fail(t) /\ UNCHANGED labs
    /\ UNCHANGED <<projects, now, exists, faults>>

\* The worker dies, or a database call fails: the lease expires, asynq retries.
CleanupCrash(t) ==
    /\ ~ At(t, "idle")
    /\ Fault
    /\ Fail(t)
    /\ UNCHANGED <<storageVars, exists>>

CleanupStep(t) ==
    \/ CleanupStart(t)
    \/ CleanupLoad(t)
    \/ CleanupMark(t)
    \/ CleanupLoadProject(t)
    \/ CleanupRelease(t)
    \/ CleanupTeardown(t)
    \/ CleanupFailure(t)
    \/ CleanupClean(t)
    \/ CleanupSecret(t)
    \/ CleanupFinish(t)

CleanupNext(t) == CleanupStep(t) \/ CleanupTeardownFails(t) \/ CleanupCrash(t)
=============================================================================

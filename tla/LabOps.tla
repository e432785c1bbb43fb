------------------------------- MODULE LabOps -------------------------------
(***************************************************************************)
(* The lifecycle requests of the HTTP API (app/lab/ops.go) and the pool    *)
(* requests of the administrator (app/admin/admin.go).  Both read a row    *)
(* with a plain SELECT, change the copy, and save it in a transaction:     *)
(* anything may happen to the row in between.  Who may send which request  *)
(* is module Policy; here any request may arrive in any state.       *)
(***************************************************************************)
EXTENDS Storage, TaskQueue

CONSTANTS Requests,    \* bound: the requests that may be sent
          LabCommands  \* the lifecycle commands they may carry

LifecycleCommands == {"stop", "freeze", "unfreeze", "extend"}
PoolCommands      == {"quarantine", "release"}

ASSUME LabOpsAssumption ==
    LabCommands \subseteq LifecycleCommands \cup PoolCommands

VARIABLE requests      \* Requests -> RequestStates

RequestStates == [ pc      : {"new", "lab", "save", "enqueue", "load", "project", "done"},
                   ts      : Nat,
                   command : LabCommands \cup {"none"},
                   lab     : Labs \cup {Nobody},
                   row     : LabRows,
                   id      : Projects \cup {Nobody},
                   project : ProjectRows ]

NewRequest == [pc |-> "new", ts |-> 0, command |-> "none", lab |-> Nobody, row |-> NoLabRow,
               id |-> Nobody, project |-> FreeProject]

LabOpsTypeOK == requests \in [Requests -> RequestStates]
LabOpsInit   == requests = [r \in Requests |-> NewRequest]

\* The request ends, whatever it returns; that it was sent stays on record.
Reply(r) == requests' = [requests EXCEPT ![r] = [NewRequest EXCEPT !.pc      = "done",
                                                                   !.command = requests[r].command]]

-----------------------------------------------------------------------------
\* StopLab, FreezeLab, UnfreezeLab, ExtendLab: Lab.GetByID.
RequestLoadsLab(r) ==
    /\ requests[r].pc = "new"
    /\ \E command \in LabCommands \cap LifecycleCommands, l \in Labs :
          /\ labs[l].state # "absent"
          /\ requests' = [requests EXCEPT ![r] =
                            [@ EXCEPT !.pc = "lab", !.command = command,
                                      !.lab = l, !.row = GetLabInstanceByID(l)]]
    /\ UNCHANGED <<storageVars, queueVars>>

\* The state check of each command, made on the copy.
Accepts(command, state) ==
    CASE command = "stop"     -> state \in {"ready", "frozen", "failed"}
      [] command = "freeze"   -> CanTransition(state, "frozen")
      [] command = "unfreeze" -> CanTransition(state, "ready")
      [] command = "extend"   -> state = "ready"

\* The aggregate's method, and the row it leaves to save.
Applied(command, row, ts) ==
    CASE command = "stop"     -> Transition(row, "cleaning", ts)
      [] command = "freeze"   -> Transition(row, "frozen", ts)
      [] command = "unfreeze" -> Transition(row, "ready", ts)
      [] command = "extend"   -> ExtendCleanup(row, ts)

\* now := Clock.Now(), after the read; a refused command has no effect.
RequestChecks(r) ==
    LET q == requests[r] IN
    /\ q.pc = "lab"
    /\ now' = Now
    /\ IF Accepts(q.command, q.row.state)
       THEN requests' = [requests EXCEPT ![r].pc = "save",
                                         ![r].row = Applied(q.command, @, Now)]
       ELSE Reply(r)
    /\ UNCHANGED <<labs, projects, queueVars>>

\* Lab.Save of the copy; a refused save is an error for the caller.
RequestSavesLab(r) ==
    LET q == requests[r] IN
    /\ q.pc = "save"
    /\ IF CanSaveLab(q.lab, q.row)
       THEN /\ SaveLab(q.lab, q.row)
            /\ IF q.command = "stop"
               THEN requests' = [requests EXCEPT ![r].pc = "enqueue"]
               ELSE Reply(r)
       ELSE Reply(r) /\ UNCHANGED labs
    /\ UNCHANGED <<projects, now, queueVars>>

\* StopLab enqueues the manual cleanup after the commit.
StopEnqueues(r) ==
    /\ requests[r].pc = "enqueue"
    /\ Enqueue(<<requests[r].lab, "manual">>)
    /\ Reply(r)
    /\ UNCHANGED <<storageVars, faults>>

\* The gateway dies first, or Redis refuses: the error is only logged.
StopEnqueueLost(r) ==
    /\ requests[r].pc = "enqueue"
    /\ Fault
    /\ Reply(r)
    /\ UNCHANGED <<storageVars, tasks>>

-----------------------------------------------------------------------------
\* QuarantineProject and ReleaseProject: now := Clock.Now() comes first.
RequestStamps(r) ==
    /\ requests[r].pc = "new"
    /\ now' = Now
    /\ \E command \in LabCommands \cap PoolCommands, p \in Projects :
          requests' = [requests EXCEPT ![r] =
                         [@ EXCEPT !.pc = "load", !.ts = Now, !.command = command, !.id = p]]
    /\ UNCHANGED <<labs, projects, queueVars>>

\* The states a pool command is accepted in, and the copy it leaves to save.
PoolAccepts(command, project) ==
    CASE command = "quarantine" -> CanQuarantine(project)
      [] command = "release"    -> project.state \in {"quarantine", "cleaning"}

PoolApplied(command, project, ts) ==
    IF command = "quarantine"
    THEN QuarantineNow(project, ts)
    ELSE MarkClean(IF project.state = "quarantine" THEN ManualResolve(project, ts) ELSE project,
                   ts)

\* Pool.GetByID, then the aggregate's methods on the copy.
RequestLoadsProject(r) ==
    LET q   == requests[r]
        row == GetProjectByID(q.id) IN
    /\ q.pc = "load"
    /\ IF PoolAccepts(q.command, row)
       THEN requests' = [requests EXCEPT ![r].pc = "project",
                                         ![r].project = PoolApplied(q.command, row, q.ts)]
       ELSE Reply(r)
    /\ UNCHANGED <<storageVars, queueVars>>

RequestSavesProject(r) ==
    LET q == requests[r] IN
    /\ q.pc = "project"
    /\ IF CanSaveProject(q.id, q.project)
       THEN SaveProject(q.id, q.project)
       ELSE UNCHANGED projects
    /\ Reply(r)
    /\ UNCHANGED <<labs, now, queueVars>>

RequestStep(r) == \/ RequestChecks(r)
                  \/ RequestSavesLab(r)
                  \/ StopEnqueues(r)
                  \/ RequestLoadsProject(r)
                  \/ RequestSavesProject(r)

LabOpsNext(r) == \/ RequestStep(r)
                 \/ RequestLoadsLab(r)
                 \/ RequestStamps(r)
                 \/ StopEnqueueLost(r)
=============================================================================

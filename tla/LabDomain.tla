----------------------------- MODULE LabDomain -----------------------------
(***************************************************************************)
(* The two aggregates every component shares: the LabInstance state        *)
(* machine (internal/domain/lab) and the Project state machine of the pool *)
(* (internal/domain/pool).  A command is an operator from a row to the row *)
(* it leaves behind; the state check that makes the Go method return       *)
(* ErrInvalidTransition is the operator Can..., used as a guard.           *)
(*                                                                         *)
(* Time is the logical clock of module Storage: ts is the value of         *)
(* Clock.Now() the caller captured, not the time of the call.              *)
(***************************************************************************)
EXTENDS Naturals

CONSTANTS Labs,                \* lab instance ids
          Projects,            \* pre-created projects of one pool partition
          Nobody,              \* a NULL reference
          MaxCleanupFailures   \* pool.MaxCleanupFailures (3 in the code)

ASSUME DomainAssumption ==
    /\ Nobody \notin Labs
    /\ Nobody \notin Projects
    /\ MaxCleanupFailures \in Nat \ {0}

-----------------------------------------------------------------------------
(* LabInstance.  "absent" is a row that does not exist yet.                *)

LabStates == { "pending_quota", "pending_project", "deploying", "ready",
               "checking", "frozen", "failed", "cleaning", "done", "rejected" }

AllowedTransitions ==
    [ pending_quota   |-> {"rejected", "pending_project"},
      pending_project |-> {"rejected", "deploying"},
      deploying       |-> {"ready", "failed"},
      ready           |-> {"checking", "frozen", "cleaning"},
      checking        |-> {"ready"},
      frozen          |-> {"ready", "cleaning"},
      failed          |-> {"cleaning"},
      cleaning        |-> {"done", "cleaning"},
      done            |-> {},
      rejected        |-> {} ]

CanTransition(from, to) == from \in LabStates /\ to \in AllowedTransitions[from]

\* What the one-active-lab index and FindActiveByStudentAndCourse count.
ActiveStates == LabStates \ {"done", "rejected", "failed"}

\* What a row can hold a handle of: KIResources and the SSH key's secret id.
ProviderHandles == {"servers", "keypair", "network"}
Handles == ProviderHandles \cup {"secret"}

LabRows == [ state   : LabStates \cup {"absent"},
             project : Projects \cup {Nobody},
             known   : SUBSET Handles,
             updated : Nat ]

NoLabRow == [state |-> "absent", project |-> Nobody, known |-> {}, updated |-> 0]

Transition(lab, to, ts) == [lab EXCEPT !.state = to, !.updated = ts]

\* New, then pending_quota -> pending_project, as CreateLab does before Create.
NewLab(ts) == Transition([NoLabRow EXCEPT !.state = "pending_quota"],
                         "pending_project", ts)

AssignProject(lab, p, ts) == Transition([lab EXCEPT !.project = p], "deploying", ts)

\* MarkReady after succeed() copied the provider handles onto the row.
MarkReady(lab, handles, ts) ==
    Transition([lab EXCEPT !.known = handles], "ready", ts)

\* A new cleanup_at is not modelled: the row is rewritten with a new stamp.
ExtendCleanup(lab, ts) == [lab EXCEPT !.updated = ts]

-----------------------------------------------------------------------------
(* Project.                                                                *)

ProjectStates == {"free", "allocated", "cleaning", "quarantine", "decommissioned"}

ProjectRows == [ state    : ProjectStates,
                 lab      : Labs \cup {Nobody},
                 failures : Nat,
                 changed  : Nat ]

FreeProject == [state |-> "free", lab |-> Nobody, failures |-> 0, changed |-> 0]

Release(project, ts) == [project EXCEPT !.state = "cleaning", !.changed = ts]

MarkClean(project, ts) ==
    [project EXCEPT !.state = "free", !.lab = Nobody, !.failures = 0, !.changed = ts]

RecordCleanupFailure(project, ts) ==
    LET failures == project.failures + 1
    IN  [project EXCEPT !.failures = failures,
                        !.changed  = ts,
                        !.state    = IF failures >= MaxCleanupFailures
                                     THEN "quarantine" ELSE "cleaning"]

CanQuarantine(project) == project.state \notin {"decommissioned", "quarantine"}

QuarantineNow(project, ts) == [project EXCEPT !.state = "quarantine", !.changed = ts]

ManualResolve(project, ts) ==
    [project EXCEPT !.state = "cleaning", !.failures = 0, !.changed = ts]
=============================================================================

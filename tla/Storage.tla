------------------------------ MODULE Storage ------------------------------
(***************************************************************************)
(* The rows the use cases and the sagas share through Postgres, and what   *)
(* one repository call does to them.                                       *)
(*                                                                         *)
(* Every Save runs in a transaction of its own (UoW.WithTx around a single *)
(* UPDATE), so it is one atomic step; GetByID is a plain SELECT outside    *)
(* any transaction, so whatever is read may be stale when it is saved.     *)
(* The UPDATE is guarded by a timestamp, not by a version:                 *)
(*     WHERE id = $1 AND updated_at <= $new                                *)
(* so it refuses a writer whose clock value is older than the row's, and   *)
(* accepts one whose READ is older: a lost update is possible.             *)
(*                                                                         *)
(* now is a logical clock: Now is the next value of Clock.Now(), and two   *)
(* captures never return the same value (they are microseconds apart).     *)
(***************************************************************************)
EXTENDS LabDomain, FiniteSets

CONSTANT Owner        \* Labs -> the (student, course) pair of the lab

VARIABLES labs,       \* lab_instances: Labs -> LabRows
          projects,   \* projects: Projects -> ProjectRows
          now         \* the last value Clock.Now() returned

storageVars == <<labs, projects, now>>

StorageTypeOK ==
    /\ labs \in [Labs -> LabRows]
    /\ projects \in [Projects -> ProjectRows]
    /\ now \in Nat

StorageInit ==
    /\ labs = [l \in Labs |-> NoLabRow]
    /\ projects = [p \in Projects |-> FreeProject]
    /\ now = 0

Now == now + 1

-----------------------------------------------------------------------------
(* lab_instances *)

\* The partial unique index lab_instances_one_active_per_student_course:
\* "failed" is not indexed, "cleaning" is.
Indexed(l, state) ==
    state \in ActiveStates =>
        \A k \in Labs \ {l} :
            Owner[k] = Owner[l] => labs[k].state \notin ActiveStates

\* GetByID of both repositories: a plain SELECT.
GetLabInstanceByID(l) == labs[l]
GetProjectByID(p)     == projects[p]

\* LabRepo.Save succeeds; otherwise it returns an error and writes nothing.
CanSaveLab(l, row) == /\ labs[l].updated <= row.updated
                      /\ Indexed(l, row.state)

SaveLab(l, row) == labs' = [labs EXCEPT ![l] = row]

ActiveLabs(owner) == {l \in Labs : Owner[l] = owner /\ labs[l].state \in ActiveStates}

-----------------------------------------------------------------------------
(* projects *)

\* The columns PoolRepo.Save writes: allocated_to_lab_id is NULL unless the
\* project is allocated or cleaning.
Persisted(row) ==
    IF row.state \in {"allocated", "cleaning"} THEN row ELSE [row EXCEPT !.lab = Nobody]

\* Wrong: the UPDATE has no timestamp guard.
WrongCanSaveProject(p, row) == TRUE

\* PoolRepo.Save succeeds; otherwise it returns ErrIdempotencyClash.
CanSaveProject(p, row) == projects[p].changed <= row.changed

SaveProject(p, row) == projects' = [projects EXCEPT ![p] = Persisted(row)]

\* Wrong: every project that nobody rents is handed out.
WrongFreeProjects == {p \in Projects : projects[p].state # "allocated"}

FreeProjects == {p \in Projects : projects[p].state = "free"}

\* AllocateOneFree: UPDATE ... WHERE id = (SELECT ... FOR UPDATE SKIP LOCKED).
\* Any free row may be the one left unlocked by the other allocators; a row that is
\* skipped because it is locked counts as leased by the one that locked it.
Allocated(p, l, ts) ==
    [projects[p] EXCEPT !.state = "allocated", !.lab = l, !.changed = ts]
=============================================================================

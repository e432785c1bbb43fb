----------------------------- MODULE TaskQueue -----------------------------
(***************************************************************************)
(* The durable task queue as the gateway uses it: asynq on Redis, one task *)
(* per idempotency key (the asynq TaskID).  A task is delivered at least   *)
(* once: a handler that returns an error, or a worker that dies holding    *)
(* the lease, puts it back until the retry budget is spent, and then it is *)
(* archived.  An archived task still owns its key, so enqueueing it again  *)
(* is a conflict, which the client reports as success; a completed task    *)
(* leaves nothing behind.  asynq itself is external; Enqueue is the client *)
(* of adapters/queue/asynq.                                                *)
(***************************************************************************)
EXTENDS LabDomain

CONSTANTS MaxRetries,    \* asynq.MaxRetry of the saga tasks (5 in the code)
          MaxFaults      \* bound: process deaths and infrastructure errors

ASSUME QueueAssumption == MaxRetries \in Nat /\ MaxFaults \in Nat

VARIABLES tasks,         \* TaskIds -> Tasks
          faults         \* the faults that happened so far

queueVars == <<tasks, faults>>

\* "deploy:<lab>:1", "cleanup:<lab>:timer", ":manual" and ":compensate".
CleanupKinds == {"timer", "manual", "compensate"}
TaskKinds    == CleanupKinds \cup {"deploy"}
TaskIds      == Labs \X TaskKinds
CleanupTasks == Labs \X CleanupKinds
LabOf(t)     == t[1]

TaskStatus == {"absent", "scheduled", "pending", "active", "archived"}

Tasks == [status : TaskStatus, retried : 0 .. MaxRetries]

NoTask == [status |-> "absent", retried |-> 0]

QueueTypeOK == /\ tasks \in [TaskIds -> Tasks]
               /\ faults \in 0 .. MaxFaults

QueueInit == /\ tasks = [t \in TaskIds |-> NoTask]
             /\ faults = 0

Status(t) == tasks[t].status

\* Enqueue and EnqueueAt: a key that is taken is "already done".
Put(t, status) ==
    IF Status(t) = "absent"
    THEN [tasks EXCEPT ![t] = [status |-> status, retried |-> 0]]
    ELSE tasks

Enqueue(t)   == tasks' = Put(t, "pending")
EnqueueAt(t) == tasks' = Put(t, "scheduled")

\* A scheduled task falls due: the clock time of the timer is abstracted.
Fire(t) == /\ Status(t) = "scheduled"
           /\ tasks' = [tasks EXCEPT ![t].status = "pending"]

\* A worker takes a pending task.
Dequeue(t) == /\ Status(t) = "pending"
              /\ tasks' = [tasks EXCEPT ![t].status = "active"]

\* The handler returned nil.
Complete(t) == tasks' = [tasks EXCEPT ![t] = NoTask]

\* The handler returned an error, or the lease of a dead worker expired.
Retry(t) ==
    tasks' = IF tasks[t].retried < MaxRetries
             THEN [tasks EXCEPT ![t] = [status |-> "pending", retried |-> @.retried + 1]]
             ELSE [tasks EXCEPT ![t].status = "archived"]

\* A process dies, or Postgres or Redis refuses a call.
Fault == faults < MaxFaults /\ faults' = faults + 1
=============================================================================

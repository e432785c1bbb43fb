----------------------------- MODULE CheckRuns -----------------------------
(***************************************************************************)
(* Checks of a lab: a user asks for one while the lab is ready             *)
(* (verify.RunCheck), the gateway stores a run and enqueues its task, and  *)
(* a worker runs a playbook on the lab's machine and stores the verdict    *)
(* (verify.ExecuteCheck).                                                  *)
(*                                                                         *)
(* Nothing holds the lab meanwhile: its cleanup may begin, take the        *)
(* machine and the key away, and the address may be another lab's by the   *)
(* time the playbook runs.  The task is delivered at least once: after an  *)
(* error, after the death of the worker, and while a worker that has       *)
(* missed its lease still works on it.  Every save writes the whole row.   *)
(* A run and its steps are read in two statements, outside a transaction.  *)
(***************************************************************************)
EXTENDS Ansible, Secrets

CONSTANTS Labs,         \* labs, which share one address of the provider in turn
          Runs,         \* check runs
          LabOf,        \* Runs -> Labs
          Workers,      \* handlers of the worker processes
          Plays,        \* what playbooks do, as sequences of sets of flags
          Nothing,      \* no lab, no run
          MaxRetries,   \* of a task (3 in the code)
          MaxFaults,    \* bound: deaths, refused calls
          MaxExpiries   \* bound: leases that expire while the worker lives

ASSUME CheckAssumption ==
    /\ MaxRetries \in Nat /\ MaxFaults \in Nat /\ MaxExpiries \in Nat
    /\ LabOf \in [Runs -> Labs]
    /\ Nothing \notin Labs \cup Runs
    /\ NoSecret \notin {SecretRow(k, KeyKind, l, l) : k \in {1, 2}, l \in Labs}

Verdicts  == {"passed", "failed", "timeout", "errored"}
RunStates == {"none", "queued", "running"} \cup Verdicts

\* Wrong: a run that a worker began is taken for finished.
WrongIsTerminal(s) == s \in {"running", "passed", "failed", "timeout", "errored"}

IsTerminal(s) == s \in {"passed", "failed", "timeout", "errored"}

Statuses  == {"ok", "changed", "failed", "unreachable", "skipped"}
StepLists == {[i \in DOMAIN p |-> StepStatus(p[i])] : p \in Plays} \cup {<<>>, <<"unreachable">>}
Rows      == [state : RunStates, steps : StepLists]
NoRow     == Result("none", <<>>)

VARIABLES labs,       \* Labs -> the state of the row, and whether it names an address
          machine,    \* the lab whose server has the address
          secrets,    \* Labs -> the row of the checker's key
          kek,        \* the key that the processes are started with
          request,    \* Runs -> how far RunCheck is
          runs,       \* Runs -> the state column of check_runs
          steps,      \* Runs -> the rows of check_run_steps
          tasks,      \* Runs -> the task in the queue
          exec,       \* Workers -> the execution at work
          view,       \* what a user who asks for the run has been told so far
          earned,     \* runs whose playbook went through on their lab's machine (history)
          expiries,
          faults

vars == <<labs, machine, secrets, kek, request, runs, steps, tasks, exec, view, earned, expiries, faults>>
labVars == <<labs, machine, secrets, kek>>
rowVars == <<runs, steps>>

NoTask == [status |-> "absent", retried |-> 0]
Tasks  == [status : {"absent", "pending", "active", "archived"}, retried : 0 .. MaxRetries]
Idle   == [run |-> Nothing, pc |-> "idle", row |-> NoRow]
Execs  == [run : Runs \cup {Nothing}, pc : {"idle", "load", "steps", "key", "start", "play", "save", "ack"}, row : Rows]
Views  == [run : Runs \cup {Nothing}, pc : {"new", "steps", "shown"}, row : Rows]
KeyRow(k, l) == SecretRow(k, KeyKind, l, l)

TypeOK ==
    /\ labs \in [Labs -> [state : {"deploying", "ready", "cleaning", "done"}, target : BOOLEAN]]
    /\ machine \in Labs \cup {Nothing}
    /\ kek \in {1, 2}
    /\ secrets \in [Labs -> {NoSecret} \cup {KeyRow(k, l) : k \in {1, 2}, l \in Labs}]
    /\ request \in [Runs -> {"new", "admitted", "created", "answered"}]
    /\ runs \in [Runs -> RunStates]
    /\ steps \in [Runs -> StepLists]
    /\ tasks \in [Runs -> Tasks]
    /\ exec \in [Workers -> Execs]
    /\ view \in Views
    /\ earned \subseteq Runs
    /\ expiries \in 0 .. MaxExpiries
    /\ faults \in 0 .. MaxFaults

Init ==
    /\ labs = [l \in Labs |-> [state |-> "deploying", target |-> FALSE]]
    /\ machine = Nothing
    /\ secrets = [l \in Labs |-> NoSecret]
    /\ kek = 1
    /\ request = [r \in Runs |-> "new"]
    /\ runs = [r \in Runs |-> "none"]
    /\ steps = [r \in Runs |-> <<>>]
    /\ tasks = [r \in Runs |-> NoTask]
    /\ exec = [w \in Workers |-> Idle]
    /\ view = [run |-> Nothing, pc |-> "new", row |-> NoRow]
    /\ earned = {}
    /\ expiries = 0
    /\ faults = 0

Fault == faults < MaxFaults /\ faults' = faults + 1

-----------------------------------------------------------------------------
(* The table encrypted_secrets.                                            *)

GetEncryptedSecretByID(l) == secrets[l]
InsertEncryptedSecret(l, row) == secrets' = [secrets EXCEPT ![l] = row]
DeleteEncryptedSecret(l) == secrets' = [secrets EXCEPT ![l] = NoSecret]

-----------------------------------------------------------------------------
(* The lab, as its sagas change it.                                        *)

\* The deploy succeeds: the row has the address and the secret of the key.
LabReady(l) ==
    /\ labs[l].state = "deploying" /\ machine = Nothing
    /\ machine' = l
    /\ InsertEncryptedSecret(l, KeyRow(kek, l))
    /\ labs' = [labs EXCEPT ![l] = [state |-> "ready", target |-> TRUE]]
    /\ UNCHANGED <<kek, request, rowVars, tasks, exec, view, earned, expiries, faults>>

\* An unfreeze makes the lab ready in the middle of its deploy, which fails later.
LabReadyEarly(l) ==
    /\ labs[l].state = "deploying"
    /\ labs' = [labs EXCEPT ![l].state = "ready"]
    /\ UNCHANGED <<machine, secrets, kek, request, rowVars, tasks, exec, view, earned, expiries, faults>>

\* The cleanup begins, deletes the server and then the key. The row keeps the address
\* and the id of the secret.
LabCleaning(l) ==
    /\ labs[l].state = "ready"
    /\ labs' = [labs EXCEPT ![l].state = "cleaning"]
    /\ UNCHANGED <<machine, secrets, kek, request, rowVars, tasks, exec, view, earned, expiries, faults>>

LabTornDown(l) ==
    /\ labs[l].state = "cleaning" /\ machine = l
    /\ machine' = Nothing
    /\ UNCHANGED <<labs, secrets, kek, request, rowVars, tasks, exec, view, earned, expiries, faults>>

LabDone(l) ==
    /\ labs[l].state = "cleaning" /\ machine # l
    /\ labs' = [labs EXCEPT ![l].state = "done"]
    /\ DeleteEncryptedSecret(l)
    /\ UNCHANGED <<machine, kek, request, rowVars, tasks, exec, view, earned, expiries, faults>>

\* The processes are restarted with another KEK: CLG_KEK_BASE64 has no versions.
ChangeKEK ==
    /\ Fault
    /\ kek' = 2
    /\ kek = 1
    /\ UNCHANGED <<labs, machine, secrets, request, rowVars, tasks, exec, view, earned, expiries>>

-----------------------------------------------------------------------------
(* The tables check_runs and check_run_steps.                              *)

\* The two statements of GetByID.
GetCheckRunByID(r)   == runs[r]
ListCheckRunSteps(r) == steps[r]

CreateCheckRun(r) == runs' = [runs EXCEPT ![r] = "queued"]
UpdateCheckRun(r, state) == runs' = [runs EXCEPT ![r] = state]

\* Wrong: the steps of a run are stored only when it failed.
WrongReplaceSteps(r, list) ==
    steps' = IF list = <<>> \/ list[1] = "ok" THEN steps ELSE [steps EXCEPT ![r] = list]

\* replaceCheckRunSteps: DeleteCheckRunSteps, and an InsertCheckRunStep for each.
ReplaceSteps(r, list) == steps' = [steps EXCEPT ![r] = list]

\* Save, in a transaction: no version, no state is asked for.
Save(r, row) == UpdateCheckRun(r, row.state) /\ ReplaceSteps(r, row.steps)

-----------------------------------------------------------------------------
(* The queue.                                                              *)

\* A handler returned nil. It may be the handler of an expired lease.
Ack(r) == tasks' = IF tasks[r].status = "active" THEN [tasks EXCEPT ![r] = NoTask] ELSE tasks

\* A handler returned an error, or its lease expired.
Retry(r) ==
    tasks' = IF tasks[r].status # "active" THEN tasks
             ELSE IF tasks[r].retried < MaxRetries
             THEN [tasks EXCEPT ![r] = [status |-> "pending", retried |-> @.retried + 1]]
             ELSE [tasks EXCEPT ![r].status = "archived"]

Dequeue(w) ==
    /\ exec[w].pc = "idle"
    /\ \E r \in Runs :
          /\ tasks[r].status = "pending"
          /\ tasks' = [tasks EXCEPT ![r].status = "active"]
          /\ exec' = [exec EXCEPT ![w] = [run |-> r, pc |-> "load", row |-> NoRow]]
    /\ UNCHANGED <<labVars, request, rowVars, view, earned, expiries, faults>>

\* The worker is paused beyond its lease: the task is retried, the worker goes on later.
LeaseExpires(r) ==
    /\ expiries < MaxExpiries
    /\ tasks[r].status = "active"
    /\ expiries' = expiries + 1
    /\ Retry(r)
    /\ UNCHANGED <<labVars, request, rowVars, exec, view, earned, faults>>

\* The worker dies, or the database refuses a call and the handler returns the error.
Fails(w) ==
    /\ exec[w].pc # "idle"
    /\ Fault
    /\ Retry(exec[w].run)
    /\ exec' = [exec EXCEPT ![w] = Idle]
    /\ UNCHANGED <<labVars, request, rowVars, view, earned, expiries>>

-----------------------------------------------------------------------------
(* RunCheck, in a gateway.                                                 *)

\* The lab is read and must be ready.
Admit(r) ==
    /\ request[r] = "new"
    /\ labs[LabOf[r]].state = "ready"
    /\ request' = [request EXCEPT ![r] = "admitted"]
    /\ UNCHANGED <<labVars, rowVars, tasks, exec, view, earned, expiries, faults>>

\* The queued run is committed, whatever became of the lab.
Create(r) ==
    /\ request[r] = "admitted"
    /\ request' = [request EXCEPT ![r] = "created"]
    /\ CreateCheckRun(r)
    /\ ReplaceSteps(r, <<>>)
    /\ UNCHANGED <<labVars, tasks, exec, view, earned, expiries, faults>>

\* The task is enqueued. An error of the queue is only logged.
EnqueueCheck(r) ==
    /\ request[r] = "created"
    /\ request' = [request EXCEPT ![r] = "answered"]
    /\ \/ tasks' = [tasks EXCEPT ![r].status = "pending"] /\ UNCHANGED faults
       \/ Fault /\ UNCHANGED tasks
    /\ UNCHANGED <<labVars, rowVars, exec, view, earned, expiries>>

-----------------------------------------------------------------------------
(* ExecuteCheck, in a worker.                                              *)

Goto(w, pc, row) == exec' = [exec EXCEPT ![w].pc = pc, ![w].row = row]
Return(w)        == exec' = [exec EXCEPT ![w] = Idle]

LoadRun(w) ==
    /\ exec[w].pc = "load"
    /\ Goto(w, "steps", Result(GetCheckRunByID(exec[w].run), <<>>))
    /\ UNCHANGED <<labVars, request, rowVars, tasks, view, earned, expiries, faults>>

\* Wrong: a finished run is executed once more.
WrongLoad(w) ==
    LET r == exec[w].run
    IN  /\ exec[w].pc = "steps"
        /\ Goto(w, "key", Result("queued", <<>>))
        /\ UNCHANGED <<labVars, request, rowVars, tasks, view, earned, expiries, faults>>

\* The steps and the lab are read. A finished run is nothing to do; a lab without an
\* address or a key goes to finishErrored.
Load(w) ==
    LET r   == exec[w].run
        row == [exec[w].row EXCEPT !.steps = ListCheckRunSteps(r)]
    IN  /\ exec[w].pc = "steps"
        /\ CASE IsTerminal(row.state) -> Ack(r) /\ Return(w)
             [] ~ IsTerminal(row.state) /\ ~ labs[LabOf[r]].target ->
                    Goto(w, "save", Result("errored", <<>>)) /\ UNCHANGED tasks
             [] OTHER -> Goto(w, "key", row) /\ UNCHANGED tasks
        /\ UNCHANGED <<labVars, request, rowVars, view, earned, expiries, faults>>

\* The key is fetched. When it is gone or cannot be decrypted the task is retried.
GetKey(w) ==
    LET r == exec[w].run
        l == LabOf[r]
    IN  /\ exec[w].pc = "key"
        /\ IF SecretGet(GetEncryptedSecretByID(l), kek, KeyKind, l) = "ok"
           THEN /\ Goto(w, IF exec[w].row.state = "queued" THEN "start" ELSE "play", exec[w].row)
                /\ UNCHANGED tasks
           ELSE Retry(r) /\ Return(w)
        /\ UNCHANGED <<labVars, request, rowVars, view, earned, expiries, faults>>

\* Start: the run is stored as running.
Start(w) ==
    /\ exec[w].pc = "start"
    /\ Goto(w, "play", [exec[w].row EXCEPT !.state = "running"])
    /\ Save(exec[w].run, [exec[w].row EXCEPT !.state = "running"])
    /\ UNCHANGED <<labVars, request, tasks, view, earned, expiries, faults>>

\* What a playbook may do: no contact unless the machine takes the lab's key.
OutcomesFor(l) ==
    IF machine = l THEN Outcomes(Plays)
    ELSE {o \in Outcomes({<<{"unreachable"}>>}) : o.exit = "error" /\ o.unreachable}

\* The playbook is run at the address the row of the lab names.
Play(w) ==
    LET r == exec[w].run
    IN  /\ exec[w].pc = "play"
        /\ \E o \in OutcomesFor(LabOf[r]) :
              /\ Goto(w, "save", RunResult(o))
              /\ earned' = IF Clean(o) THEN earned \cup {r} ELSE earned
        /\ UNCHANGED <<labVars, request, rowVars, tasks, view, expiries, faults>>

\* Finish: the verdict is stored with its steps.
SaveVerdict(w) ==
    /\ exec[w].pc = "save"
    /\ Save(exec[w].run, exec[w].row)
    /\ Goto(w, "ack", NoRow)
    /\ UNCHANGED <<labVars, request, tasks, view, earned, expiries, faults>>

\* The handler returns nil.
Returns(w) ==
    /\ exec[w].pc = "ack"
    /\ Ack(exec[w].run)
    /\ Return(w)
    /\ UNCHANGED <<labVars, request, rowVars, view, earned, expiries, faults>>

Execute(w) ==
    Dequeue(w) \/ LoadRun(w) \/ Load(w) \/ GetKey(w) \/ Start(w) \/ Play(w) \/ SaveVerdict(w) \/ Returns(w)

-----------------------------------------------------------------------------
(* GetCheckRun, in a gateway: a user asks for a run once.                  *)

AskRun(r) ==
    /\ view.pc = "new" /\ runs[r] # "none"
    /\ view' = [run |-> r, pc |-> "steps", row |-> Result(GetCheckRunByID(r), <<>>)]
    /\ UNCHANGED <<labVars, request, rowVars, tasks, exec, earned, expiries, faults>>

ShowRun ==
    /\ view.pc = "steps"
    /\ view' = [view EXCEPT !.pc = "shown", !.row.steps = ListCheckRunSteps(view.run)]
    /\ UNCHANGED <<labVars, request, rowVars, tasks, exec, earned, expiries, faults>>

-----------------------------------------------------------------------------
LabNext(l) == LabReady(l) \/ LabReadyEarly(l) \/ LabCleaning(l) \/ LabTornDown(l) \/ LabDone(l)

Next ==
    \/ \E l \in Labs : LabNext(l)
    \/ ChangeKEK
    \/ \E r \in Runs : Admit(r) \/ Create(r) \/ EnqueueCheck(r) \/ LeaseExpires(r) \/ AskRun(r)
    \/ ShowRun
    \/ \E w \in Workers : Execute(w) \/ Fails(w)

Spec == Init /\ [][Next]_vars

\* The workers keep working. Labs, users and faults may do nothing.
FairSpec == Spec /\ \A w \in Workers : WF_vars(Execute(w))

-----------------------------------------------------------------------------
\* A run is passed only when a playbook did all its tasks on the machine of the run's
\* own lab, whoever has the address by then and however ansible-playbook ended (Run,
\* parseCallback, and the key that Get returns).
PassedIsEarned == \A r \in Runs : runs[r] = "passed" => r \in earned

\* The verdict and the steps of a run are of one piece, though a save of a worker that
\* lost its lease lands between those of another, and a user who asks for the run, in
\* two statements, is never told a verdict with other steps than those that led to it;
\* only after an expired lease may the steps be of another execution (Save, GetByID).
ShownIsConsistent ==
    /\ \A r \in Runs :
          /\ runs[r] \in {"queued", "timeout"} => steps[r] = <<>>
          /\ runs[r] = "running" /\ expiries = 0 => steps[r] = <<>>
          /\ runs[r] = "passed" => \A i \in DOMAIN steps[r] : steps[r][i] \notin BadStatus
    /\ view.pc = "shown" /\ view.row.state \in Verdicts /\ expiries = 0 =>
          view.row = Result(runs[view.run], steps[view.run])

\* A verdict is final, through deaths of workers at any statement and repeated
\* deliveries, unless two workers held the task at once: only after an expired lease
\* may a save take a verdict back.
VerdictIsFinal ==
    [][\A r \in Runs : runs[r] \in Verdicts /\ expiries = 0 =>
                          runs'[r] = runs[r] /\ steps'[r] = steps[r]]_vars

Unfinished(r) == runs[r] \notin Verdicts /\ tasks[r].status \in {"pending", "active"}
Settled(r)    == runs[r] \in Verdicts \/ tasks[r].status = "archived"

\* A check that got into the queue ends with a verdict, or as an archived task for the
\* operator, though its lab is cleaned first or its worker dies in the middle; without
\* an expired lease it stays so.
NoCheckIsForgotten == \A r \in Runs : Unfinished(r) ~> [](Settled(r) \/ expiries > 0)

-----------------------------------------------------------------------------
(* Why the verdicts are earned, consistent and final.                      *)

\* A run exists from Create on, its task from EnqueueCheck on; a worker executes only
\* runs that were enqueued, and saves only verdicts.
RunsExist ==
    /\ \A r \in Runs :
          /\ request[r] \in {"new", "admitted"} <=> runs[r] = "none"
          /\ tasks[r].status # "absent" => request[r] = "answered"
    /\ \A w \in Workers :
          /\ exec[w].pc = "idle" <=> exec[w] = Idle
          /\ exec[w].pc # "idle" => exec[w].run \in Runs /\ request[exec[w].run] = "answered"
          /\ exec[w].pc = "start" => exec[w].row.state = "queued"
          /\ exec[w].pc = "save" => exec[w].row.state \in Verdicts

\* A verdict "passed", stored or about to be, was earned.
PassesAreEarned ==
    /\ \A r \in Runs : runs[r] = "passed" => r \in earned
    /\ \A w \in Workers : exec[w].row.state = "passed" => exec[w].run \in earned

\* The steps go with the state: none before the playbook ran or when it was killed, and
\* no bad one when it passed.
StepsFit(state, list) ==
    /\ state \in {"queued", "timeout"} => list = <<>>
    /\ state = "passed" => \A i \in DOMAIN list : list[i] \notin BadStatus

RowsAreSound ==
    /\ \A r \in Runs : StepsFit(runs[r], steps[r])
    /\ \A w \in Workers : exec[w].pc = "save" => StepsFit(exec[w].row.state, exec[w].row.steps)

\* Without an expired lease one worker has a task, and what it read is what is stored:
\* it goes on with a run that has no verdict yet.
OneWorkerEach ==
    expiries = 0 =>
        /\ \A r \in Runs : runs[r] = "running" => steps[r] = <<>>
        /\ \A w \in Workers : exec[w].pc # "idle" => tasks[exec[w].run].status = "active"
        /\ \A v, w \in Workers :
              exec[v].pc # "idle" /\ exec[w].pc # "idle" /\ exec[v].run = exec[w].run => v = w
        /\ \A w \in Workers :
              LET r == exec[w].run
              IN  /\ exec[w].pc = "steps" => exec[w].row.state = runs[r]
                  /\ exec[w].pc \in {"key", "start"} => exec[w].row = Result(runs[r], steps[r])
                  /\ exec[w].pc \in {"key", "start", "play", "save"} => runs[r] \notin Verdicts

\* What a user has been told is what is stored, until a lease expires.
ViewIsTrue ==
    /\ view.pc # "new" => view.run \in Runs
    /\ view.pc # "new" /\ view.row.state \in Verdicts /\ expiries = 0 =>
          /\ runs[view.run] = view.row.state
          /\ view.pc = "shown" => view.row.steps = steps[view.run]

\* The inductive invariant.
IInv ==
    /\ TypeOK
    /\ RunsExist
    /\ PassesAreEarned
    /\ RowsAreSound
    /\ OneWorkerEach
    /\ ViewIsTrue
=============================================================================

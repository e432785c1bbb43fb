-------------------------- MODULE CheckRuns_proofs --------------------------
(***************************************************************************)
(* Proofs about module CheckRuns, for any labs, runs, workers and          *)
(* playbooks, and any number of retries, faults and expired leases.        *)
(***************************************************************************)
EXTENDS CheckRuns, TLAPS

-----------------------------------------------------------------------------
(* What an execution of a playbook comes to.                               *)

LEMMA RowsAre ==
    /\ \A s \in RunStates, list \in StepLists :
          Result(s, list) \in Rows /\ Result(s, list).state = s /\ Result(s, list).steps = list
    /\ <<>> \in StepLists /\ NoRow \in Rows /\ NoRow.state = "none"
    /\ Idle \in Execs /\ Idle.pc = "idle" /\ Idle.run = Nothing /\ Idle.row = NoRow
    /\ Verdicts \subseteq RunStates /\ "none" \in RunStates /\ "queued" \in RunStates /\ "running" \in RunStates
    /\ {"none", "queued", "running"} \cap Verdicts = {}
    /\ \A s \in RunStates : IsTerminal(s) <=> s \in Verdicts
<1>1. Verdicts \subseteq RunStates /\ "none" \in RunStates /\ "queued" \in RunStates /\ "running" \in RunStates
      BY DEF Verdicts, RunStates
<1>2. <<>> \in StepLists
      BY DEF StepLists
<1>3. \A s \in RunStates, list \in StepLists :
          Result(s, list) \in Rows /\ Result(s, list).state = s /\ Result(s, list).steps = list
      BY DEF Result, Rows
<1>4. NoRow \in Rows /\ NoRow.state = "none"
      BY <1>1, <1>2, <1>3 DEF NoRow
<1>5. Idle \in Execs /\ Idle.pc = "idle" /\ Idle.run = Nothing /\ Idle.row = NoRow
      BY <1>4 DEF Idle, Execs
<1>6. /\ {"none", "queued", "running"} \cap Verdicts = {}
      /\ \A s \in RunStates : IsTerminal(s) <=> s \in Verdicts
      BY DEF Verdicts, IsTerminal
<1> QED BY <1>1, <1>2, <1>3, <1>4, <1>5, <1>6

\* A task that is not bad failed on no host and reached it.
LEMMA GoodStep == ASSUME NEW flags, StepStatus(flags) \notin BadStatus PROVE flags \cap BadStatus = {}
BY DEF StepStatus, BadStatus

\* Run ends in a verdict that fits its steps, and "passed" is one that the playbook earned.
LEMMA ResultIsVerdict ==
    ASSUME NEW l, NEW o \in OutcomesFor(l)
    PROVE  /\ RunResult(o) \in Rows /\ RunResult(o).state \in Verdicts
           /\ StepsFit(RunResult(o).state, RunResult(o).steps)
           /\ RunResult(o).state = "passed" => Clean(o)
<1> DEFINE list == [i \in DOMAIN o.tasks |-> StepStatus(o.tasks[i])]
           bad  == o.failures \/ o.unreachable \/ \E i \in DOMAIN list : list[i] \in BadStatus
<1>1. o \in Outcomes(Plays) \/ o \in Outcomes({<<{"unreachable"}>>})
      BY DEF OutcomesFor
<1>2. list \in StepLists
  <2>1. CASE o \in Outcomes(Plays)
        BY <2>1 DEF Outcomes, StepLists
  <2>2. CASE o \in Outcomes({<<{"unreachable"}>>})
    <3>1. o.tasks = <<{"unreachable"}>>
          BY <2>2 DEF Outcomes
    <3>2. list = <<"unreachable">>
          BY <3>1 DEF StepStatus
    <3> QED BY <3>2 DEF StepLists
  <2> QED BY <1>1, <2>1, <2>2
<1>3. {"passed", "failed", "timeout", "errored"} \subseteq Verdicts /\ <<>> \in StepLists
      BY RowsAre DEF Verdicts
<1>4. ParseCallback(o) = Result(IF bad THEN "failed" ELSE "passed", list)
      BY DEF ParseCallback
<1>5. ~ bad => \A i \in DOMAIN list : list[i] \notin BadStatus
      OBVIOUS
<1>6. ~ bad => ~ o.failures /\ ~ o.unreachable /\ \A i \in DOMAIN o.tasks : o.tasks[i] \cap BadStatus = {}
      BY GoodStep
<1>7. o.exit \in {"ok", "error"}
      BY <1>1 DEF Outcomes
<1> HIDE DEF list, bad
<1>8. /\ ParseCallback(o) \in Rows /\ ParseCallback(o).steps = list
      /\ ParseCallback(o).state = IF bad THEN "failed" ELSE "passed"
      BY <1>2, <1>3, <1>4, RowsAre
<1>9. CASE o.timedOut
  <2>1. RunResult(o) = Result("timeout", <<>>)
        BY <1>9 DEF RunResult
  <2> QED BY <1>3, <2>1, RowsAre DEF StepsFit
<1>10. CASE ~ o.timedOut /\ ~ o.json
  <2>1. RunResult(o) = Result("errored", <<>>)
        BY <1>10 DEF RunResult
  <2> QED BY <1>3, <2>1, RowsAre DEF StepsFit
<1>11. CASE ~ o.timedOut /\ o.json /\ o.exit = "error" /\ ~ bad
  <2>1. RunResult(o) = Result("errored", list)
        BY <1>8, <1>11 DEF RunResult
  <2> QED BY <1>2, <1>3, <2>1, RowsAre DEF StepsFit
<1>12. CASE ~ o.timedOut /\ o.json /\ (o.exit = "ok" \/ bad)
  <2>1. RunResult(o) = ParseCallback(o)
        BY <1>8, <1>12 DEF RunResult
  <2>2. CASE bad
        BY <1>3, <1>8, <2>1, <2>2 DEF StepsFit
  <2>3. CASE ~ bad
        BY <1>3, <1>5, <1>6, <1>8, <1>12, <2>1, <2>3 DEF StepsFit, Clean
  <2> QED BY <2>2, <2>3
<1> QED BY <1>7, <1>9, <1>10, <1>11, <1>12

-----------------------------------------------------------------------------
(* Where a step may go.                                                    *)

PCs == {"idle", "load", "steps", "key", "start", "play", "save", "ack"}

LEMMA ExecsAre == Execs = [run : Runs \cup {Nothing}, pc : PCs, row : Rows]
BY DEF Execs, PCs

\* A worker goes on, or is through; the others stay where they are.
LEMMA GotoIs ==
    ASSUME TypeOK, NEW w \in Workers, NEW pc \in PCs, NEW row \in Rows, Goto(w, pc, row)
    PROVE  /\ exec' \in [Workers -> Execs]
           /\ exec'[w].run = exec[w].run /\ exec'[w].pc = pc /\ exec'[w].row = row
           /\ \A v \in Workers : v # w => exec'[v] = exec[v]
<1>1. exec \in [Workers -> Execs]
      BY DEF TypeOK
<1>2. PICK e : e = [exec[w] EXCEPT !.pc = pc, !.row = row]
      OBVIOUS
<1>3. /\ e.run = exec[w].run /\ e.pc = pc /\ e.row = row
      /\ e = [run |-> exec[w].run, pc |-> pc, row |-> row]
      BY <1>1, <1>2, ExecsAre
<1>4. e \in Execs
      BY <1>1, <1>3, ExecsAre
<1>5. exec' = [exec EXCEPT ![w] = e]
      BY <1>1, <1>2 DEF Goto
<1> QED BY <1>1, <1>3, <1>4, <1>5

LEMMA ReturnIs ==
    ASSUME TypeOK, NEW w \in Workers, exec' = [exec EXCEPT ![w] = Idle]
    PROVE  /\ exec' \in [Workers -> Execs] /\ exec'[w] = Idle
           /\ \A v \in Workers : v # w => exec'[v] = exec[v]
BY RowsAre DEF TypeOK

LEMMA RetryIs ==
    ASSUME TypeOK, NEW r \in Runs, Retry(r)
    PROVE  /\ tasks' \in [Runs -> Tasks]
           /\ \A q \in Runs : q # r => tasks'[q] = tasks[q]
           /\ \A q \in Runs : tasks[q].status = "absent" => tasks'[q].status = "absent"
<1>1. tasks \in [Runs -> Tasks]
      BY DEF TypeOK
<1>2. CASE tasks[r].status # "active"
  <2>1. tasks' = tasks
        BY <1>2 DEF Retry
  <2> QED BY <1>1, <2>1
<1>3. CASE tasks[r].status = "active" /\ tasks[r].retried < MaxRetries
  <2>1. tasks' = [tasks EXCEPT ![r] = [status |-> "pending", retried |-> tasks[r].retried + 1]]
        BY <1>1, <1>3 DEF Retry
  <2>2. [status |-> "pending", retried |-> tasks[r].retried + 1] \in Tasks
        BY <1>1, <1>3, CheckAssumption DEF Tasks
  <2> QED BY <1>1, <1>3, <2>1, <2>2
<1>4. CASE tasks[r].status = "active" /\ ~ tasks[r].retried < MaxRetries
  <2>1. tasks' = [tasks EXCEPT ![r].status = "archived"]
        BY <1>4 DEF Retry
  <2> QED BY <1>1, <1>4, <2>1 DEF Tasks
<1> QED BY <1>2, <1>3, <1>4

LEMMA AckIs ==
    ASSUME TypeOK, NEW r \in Runs, Ack(r)
    PROVE  /\ tasks' \in [Runs -> Tasks]
           /\ \A q \in Runs : q # r => tasks'[q] = tasks[q]
           /\ \A q \in Runs : tasks[q].status = "absent" => tasks'[q].status = "absent"
<1>1. tasks \in [Runs -> Tasks] /\ NoTask \in Tasks
      BY CheckAssumption DEF TypeOK, NoTask, Tasks
<1>2. CASE tasks[r].status # "active"
      BY <1>1, <1>2 DEF Ack
<1>3. CASE tasks[r].status = "active"
      BY <1>1, <1>3 DEF Ack, NoTask
<1> QED BY <1>2, <1>3

LEMMA SaveIs ==
    ASSUME TypeOK, NEW r \in Runs, NEW row \in Rows, Save(r, row)
    PROVE  /\ runs' \in [Runs -> RunStates] /\ steps' \in [Runs -> StepLists]
           /\ runs'[r] = row.state /\ steps'[r] = row.steps
           /\ \A q \in Runs : q # r => runs'[q] = runs[q] /\ steps'[q] = steps[q]
BY DEF TypeOK, Save, UpdateCheckRun, ReplaceSteps, Rows

-----------------------------------------------------------------------------
(* The invariant.                                                          *)

LEMMA InitHolds == Init => IInv
<1> SUFFICES ASSUME Init PROVE IInv
    OBVIOUS
<1>1. \A w \in Workers : exec[w] = Idle
      BY DEF Init
<1>2. TypeOK
  <2>1. NoTask \in Tasks
        BY CheckAssumption DEF NoTask, Tasks
  <2>2. view \in Views
        BY RowsAre DEF Init, Views
  <2> QED BY <2>1, <2>2, RowsAre, CheckAssumption DEF Init, TypeOK
<1>3. RunsExist /\ PassesAreEarned /\ RowsAreSound /\ OneWorkerEach /\ ViewIsTrue
      BY <1>1, RowsAre
      DEF Init, RunsExist, PassesAreEarned, RowsAreSound, StepsFit, OneWorkerEach, ViewIsTrue, NoTask
<1> QED BY <1>2, <1>3 DEF IInv

\* What happens to labs, machines, keys and the KEK touches no run.
LEMMA LabsKeep == ASSUME IInv, ChangeKEK \/ \E l \in Labs : LabNext(l) PROVE IInv'
<1>1. UNCHANGED <<request, runs, steps, tasks, exec, view, earned, expiries>>
      BY DEF ChangeKEK, LabNext, LabReady, LabReadyEarly, LabCleaning, LabTornDown, LabDone, rowVars, labVars
<1>2. TypeOK'
  <2>1. CASE ChangeKEK
        BY <1>1, <2>1, CheckAssumption DEF IInv, TypeOK, ChangeKEK, Fault
  <2>2. ASSUME NEW l \in Labs, LabNext(l)
        PROVE  /\ labs' \in [Labs -> [state : {"deploying", "ready", "cleaning", "done"}, target : BOOLEAN]]
               /\ machine' \in Labs \cup {Nothing}
               /\ secrets' \in [Labs -> {NoSecret} \cup {KeyRow(k, m) : k \in {1, 2}, m \in Labs}]
               /\ UNCHANGED <<kek, faults>>
    <3>1. CASE LabReady(l)
          BY <3>1 DEF LabReady, InsertEncryptedSecret, IInv, TypeOK
    <3>2. CASE LabReadyEarly(l) \/ LabCleaning(l) \/ LabTornDown(l)
      <4>1. UNCHANGED <<secrets, kek, faults>> /\ machine' \in {machine, Nothing}
            BY <3>2 DEF LabReadyEarly, LabCleaning, LabTornDown
      <4>2. labs' \in [Labs -> [state : {"deploying", "ready", "cleaning", "done"}, target : BOOLEAN]]
        <5>1. labs \in [Labs -> [state : {"deploying", "ready", "cleaning", "done"}, target : BOOLEAN]]
              BY DEF IInv, TypeOK
        <5> QED BY <3>2, <5>1 DEF LabReadyEarly, LabCleaning, LabTornDown
      <4> QED BY <4>1, <4>2 DEF IInv, TypeOK
    <3>3. CASE LabDone(l)
          BY <3>3 DEF LabDone, DeleteEncryptedSecret, IInv, TypeOK
    <3> QED BY <2>2, <3>1, <3>2, <3>3 DEF LabNext
  <2>3. /\ labs' \in [Labs -> [state : {"deploying", "ready", "cleaning", "done"}, target : BOOLEAN]]
        /\ machine' \in Labs \cup {Nothing}
        /\ secrets' \in [Labs -> {NoSecret} \cup {KeyRow(k, m) : k \in {1, 2}, m \in Labs}]
        /\ kek' \in {1, 2} /\ faults' \in 0 .. MaxFaults
    <3> HIDE DEF KeyRow
    <3>1. CASE ChangeKEK
          BY <2>1, <3>1 DEF TypeOK
    <3>2. ASSUME NEW l \in Labs, LabNext(l)
          PROVE  kek' \in {1, 2} /\ faults' \in 0 .. MaxFaults
          BY <2>2, <3>2 DEF IInv, TypeOK
    <3> QED BY <2>2, <3>1, <3>2
  <2> HIDE DEF KeyRow
  <2> QED BY <1>1, <2>3 DEF IInv, TypeOK
<1>3. RunsExist' /\ PassesAreEarned' /\ RowsAreSound' /\ OneWorkerEach' /\ ViewIsTrue'
      BY <1>1 DEF IInv, RunsExist, PassesAreEarned, RowsAreSound, OneWorkerEach, ViewIsTrue
<1> QED BY <1>2, <1>3 DEF IInv

LEMMA AdmitKeeps == ASSUME IInv, NEW r \in Runs, Admit(r) PROVE IInv'
<1>1. /\ UNCHANGED <<labVars, runs, steps, tasks, exec, view, earned, expiries, faults>>
      /\ request[r] = "new" /\ request' = [request EXCEPT ![r] = "admitted"]
      BY DEF Admit, rowVars
<1>2. TypeOK'
      BY <1>1 DEF IInv, TypeOK, labVars
<1>3. RunsExist'
      BY <1>1 DEF IInv, TypeOK, RunsExist
<1>4. PassesAreEarned' /\ RowsAreSound' /\ OneWorkerEach' /\ ViewIsTrue'
      BY <1>1 DEF IInv, PassesAreEarned, RowsAreSound, OneWorkerEach, ViewIsTrue
<1> QED BY <1>2, <1>3, <1>4 DEF IInv

LEMMA CreateKeeps == ASSUME IInv, NEW r \in Runs, Create(r) PROVE IInv'
<1>1. /\ UNCHANGED <<labVars, tasks, exec, view, earned, expiries, faults>>
      /\ request[r] = "admitted" /\ request' = [request EXCEPT ![r] = "created"]
      /\ runs' = [runs EXCEPT ![r] = "queued"] /\ steps' = [steps EXCEPT ![r] = <<>>]
      BY DEF Create, CreateCheckRun, ReplaceSteps
<1>2. TypeOK'
  <2>1. runs' \in [Runs -> RunStates] /\ steps' \in [Runs -> StepLists]
        BY <1>1, RowsAre DEF IInv, TypeOK
  <2>2. request' \in [Runs -> {"new", "admitted", "created", "answered"}]
        BY <1>1 DEF IInv, TypeOK
  <2> QED BY <1>1, <2>1, <2>2 DEF IInv, TypeOK, labVars
<1>3. runs[r] = "none" /\ \A w \in Workers : exec[w].pc # "idle" => exec[w].run # r
      BY <1>1 DEF IInv, RunsExist
<1>4. /\ \A q \in Runs : runs'[q] = IF q = r THEN "queued" ELSE runs[q]
      /\ \A q \in Runs : steps'[q] = IF q = r THEN <<>> ELSE steps[q]
      /\ \A q \in Runs : request'[q] = IF q = r THEN "created" ELSE request[q]
      BY <1>1 DEF IInv, TypeOK
<1>5. RunsExist'
      BY <1>1, <1>3, <1>4 DEF IInv, RunsExist
<1>6. PassesAreEarned' /\ RowsAreSound'
      BY <1>1, <1>4 DEF IInv, PassesAreEarned, RowsAreSound, StepsFit
<1>7. OneWorkerEach'
      BY <1>1, <1>3, <1>4 DEF IInv, RunsExist, OneWorkerEach
<1>8. ViewIsTrue'
      BY <1>1, <1>3, <1>4, RowsAre DEF IInv, ViewIsTrue
<1> QED BY <1>2, <1>5, <1>6, <1>7, <1>8 DEF IInv

LEMMA EnqueueCheckKeeps == ASSUME IInv, NEW r \in Runs, EnqueueCheck(r) PROVE IInv'
<1>1. /\ UNCHANGED <<labVars, runs, steps, exec, view, earned, expiries>>
      /\ request[r] = "created" /\ request' = [request EXCEPT ![r] = "answered"]
      /\ tasks' = [tasks EXCEPT ![r].status = "pending"] \/ tasks' = tasks
      BY DEF EnqueueCheck, rowVars
<1>2. faults' \in 0 .. MaxFaults
      BY CheckAssumption DEF EnqueueCheck, Fault, IInv, TypeOK
<1>3. tasks \in [Runs -> Tasks]
      BY DEF IInv, TypeOK
<1>4. tasks' \in [Runs -> Tasks] /\ \A q \in Runs : q # r => tasks'[q] = tasks[q]
      BY <1>1, <1>3 DEF Tasks
<1>5. \A w \in Workers : exec[w].pc # "idle" => exec[w].run # r /\ exec[w].run \in Runs
      BY <1>1 DEF IInv, RunsExist
<1>6. TypeOK'
  <2>1. request' \in [Runs -> {"new", "admitted", "created", "answered"}]
        BY <1>1 DEF IInv, TypeOK
  <2> HIDE DEF KeyRow
  <2> QED BY <1>1, <1>2, <1>4, <2>1 DEF IInv, TypeOK, labVars
<1>7. RunsExist'
      BY <1>1, <1>4 DEF IInv, TypeOK, RunsExist
<1>8. PassesAreEarned' /\ RowsAreSound' /\ ViewIsTrue'
      BY <1>1 DEF IInv, PassesAreEarned, RowsAreSound, ViewIsTrue
<1>9. OneWorkerEach'
      BY <1>1, <1>4, <1>5 DEF IInv, OneWorkerEach
<1> QED BY <1>6, <1>7, <1>8, <1>9 DEF IInv

LEMMA LeaseExpiresKeeps == ASSUME IInv, NEW r \in Runs, LeaseExpires(r) PROVE IInv'
<1>1. /\ UNCHANGED <<labVars, request, runs, steps, exec, view, earned, faults>>
      /\ expiries < MaxExpiries /\ expiries' = expiries + 1 /\ Retry(r)
      BY DEF LeaseExpires, rowVars
<1>2. expiries' \in 0 .. MaxExpiries /\ expiries' # 0
      BY <1>1, CheckAssumption DEF IInv, TypeOK
<1>3. tasks' \in [Runs -> Tasks] /\ \A q \in Runs : tasks[q].status = "absent" => tasks'[q].status = "absent"
      BY <1>1, RetryIs DEF IInv
<1>4. TypeOK'
      BY <1>1, <1>2, <1>3 DEF IInv, TypeOK, labVars
<1>5. RunsExist'
      BY <1>1, <1>3 DEF IInv, RunsExist
<1>6. PassesAreEarned' /\ RowsAreSound' /\ OneWorkerEach' /\ ViewIsTrue'
      BY <1>1, <1>2 DEF IInv, PassesAreEarned, RowsAreSound, OneWorkerEach, ViewIsTrue
<1> QED BY <1>4, <1>5, <1>6 DEF IInv

\* A user who asks changes nothing but what he has been told.
LEMMA AskKeeps == ASSUME IInv, ShowRun \/ \E r \in Runs : AskRun(r) PROVE IInv'
<1>1. UNCHANGED <<labVars, request, runs, steps, tasks, exec, earned, expiries, faults>>
      BY DEF ShowRun, AskRun, rowVars
<1>2. RunsExist' /\ PassesAreEarned' /\ RowsAreSound' /\ OneWorkerEach'
      BY <1>1 DEF IInv, RunsExist, PassesAreEarned, RowsAreSound, OneWorkerEach
<1>3. view \in Views /\ runs \in [Runs -> RunStates] /\ steps \in [Runs -> StepLists]
      BY DEF IInv, TypeOK
<1>4. ASSUME NEW r \in Runs, AskRun(r) PROVE view' \in Views /\ ViewIsTrue'
  <2>1. view' = [run |-> r, pc |-> "steps", row |-> Result(runs[r], <<>>)]
        BY <1>4 DEF AskRun, GetCheckRunByID
  <2>2. Result(runs[r], <<>>) \in Rows /\ Result(runs[r], <<>>).state = runs[r]
        BY <1>3, RowsAre
  <2>3. view' \in Views
        BY <2>1, <2>2 DEF Views
  <2> QED BY <1>1, <2>1, <2>2, <2>3 DEF ViewIsTrue
<1>5. ASSUME ShowRun PROVE view' \in Views /\ ViewIsTrue'
  <2>1. view.pc = "steps" /\ view.run \in Runs
        BY <1>5 DEF ShowRun, IInv, ViewIsTrue
  <2>2. view' = [view EXCEPT !.pc = "shown", !.row.steps = steps[view.run]]
        BY <1>5 DEF ShowRun, ListCheckRunSteps
  <2>3. /\ view'.run = view.run /\ view'.pc = "shown" /\ view'.row = [view.row EXCEPT !.steps = steps[view.run]]
        /\ view' = [run |-> view.run, pc |-> "shown", row |-> view'.row]
        BY <1>3, <2>2 DEF Views
  <2>4. view.row \in Rows
        BY <1>3 DEF Views
  <2>5. /\ view'.row.state = view.row.state /\ view'.row.steps = steps[view.run]
        /\ view'.row = [state |-> view.row.state, steps |-> steps[view.run]]
        BY <2>3, <2>4 DEF Rows
  <2>6. view'.row \in Rows
        BY <1>3, <2>1, <2>4, <2>5 DEF Rows
  <2>7. view' \in Views
        BY <2>1, <2>3, <2>6 DEF Views
  <2>8. view.row.state \in Verdicts /\ expiries = 0 => runs[view.run] = view.row.state
        BY <2>1 DEF IInv, ViewIsTrue
  <2>9. /\ view'.run = view.run /\ view'.row.state = view.row.state /\ view'.row.steps = steps[view.run]
        /\ runs' = runs /\ steps' = steps /\ expiries' = expiries
        BY <1>1, <2>3, <2>5
  <2>10. view'.run \in Runs
        BY <2>1, <2>9
  <2>11. view'.row.state \in Verdicts /\ expiries' = 0 => runs'[view'.run] = view'.row.state
        BY <2>8, <2>9
  <2>12. view'.row.steps = steps'[view'.run]
        BY <2>9, Zenon
  <2>13. ViewIsTrue'
        BY <2>10, <2>11, <2>12, Zenon DEF ViewIsTrue
  <2> QED BY <2>7, <2>13
<1>6. TypeOK'
      BY <1>1, <1>4, <1>5 DEF IInv, TypeOK, labVars
<1> QED BY <1>2, <1>4, <1>5, <1>6 DEF IInv

-----------------------------------------------------------------------------
(* The steps of a worker.                                                  *)

LEMMA DequeueKeeps == ASSUME IInv, NEW w \in Workers, Dequeue(w) PROVE IInv'
<1>1. PICK r \in Runs : /\ tasks[r].status = "pending"
                        /\ tasks' = [tasks EXCEPT ![r].status = "active"]
                        /\ exec' = [exec EXCEPT ![w] = [run |-> r, pc |-> "load", row |-> NoRow]]
      BY DEF Dequeue
<1>2. UNCHANGED <<labVars, request, runs, steps, view, earned, expiries, faults>> /\ exec[w].pc = "idle"
      BY DEF Dequeue, rowVars
<1>3. exec \in [Workers -> Execs] /\ tasks \in [Runs -> Tasks]
      BY DEF IInv, TypeOK
<1>4. [run |-> r, pc |-> "load", row |-> NoRow] \in Execs
      BY RowsAre DEF Execs
<1>5. /\ exec' \in [Workers -> Execs]
      /\ exec'[w].run = r /\ exec'[w].pc = "load" /\ exec'[w].row = NoRow
      /\ \A v \in Workers : v # w => exec'[v] = exec[v]
      BY <1>1, <1>3, <1>4
<1>6. /\ tasks' \in [Runs -> Tasks] /\ tasks'[r].status = "active"
      /\ \A q \in Runs : q # r => tasks'[q] = tasks[q]
      BY <1>1, <1>3 DEF Tasks
<1>7. TypeOK'
      BY <1>2, <1>5, <1>6 DEF IInv, TypeOK, labVars
<1>8. request[r] = "answered"
      BY <1>1 DEF IInv, RunsExist
<1>9. RunsExist'
      BY <1>2, <1>5, <1>6, <1>8, RowsAre DEF IInv, RunsExist
<1>10. PassesAreEarned' /\ RowsAreSound' /\ ViewIsTrue'
      BY <1>2, <1>5, RowsAre DEF IInv, PassesAreEarned, RowsAreSound, ViewIsTrue
<1>11. expiries = 0 => \A v \in Workers : exec[v].pc # "idle" => exec[v].run # r
      BY <1>1 DEF IInv, OneWorkerEach
<1>12. OneWorkerEach'
      BY <1>2, <1>5, <1>6, <1>11 DEF IInv, RunsExist, OneWorkerEach
<1> QED BY <1>7, <1>9, <1>10, <1>12 DEF IInv

\* A step of one worker that saves nothing and keeps its task: it goes to pc with row.
LEMMA MoveKeeps ==
    ASSUME IInv, NEW w \in Workers, NEW pc \in PCs, NEW row \in Rows, Goto(w, pc, row),
           exec[w].pc # "idle", pc # "idle",
           UNCHANGED <<labVars, request, runs, steps, tasks, view, expiries, faults>>,
           earned' \in SUBSET Runs, earned \subseteq earned',
           row.state = "passed" => exec[w].run \in earned',
           pc = "start" => row.state = "queued",
           pc = "save" => row.state \in Verdicts /\ StepsFit(row.state, row.steps),
           expiries = 0 =>
              /\ pc = "steps" => row.state = runs[exec[w].run]
              /\ pc \in {"key", "start"} => row = Result(runs[exec[w].run], steps[exec[w].run])
              /\ pc \in {"key", "start", "play", "save"} => runs[exec[w].run] \notin Verdicts
    PROVE  IInv'
<1>1. /\ exec' \in [Workers -> Execs]
      /\ exec'[w].run = exec[w].run /\ exec'[w].pc = pc /\ exec'[w].row = row
      /\ \A v \in Workers : v # w => exec'[v] = exec[v]
      BY GotoIs DEF IInv
<1>2. TypeOK'
      BY <1>1 DEF IInv, TypeOK, labVars
<1>3. RunsExist'
      BY <1>1, RowsAre DEF IInv, RunsExist
<1>4. PassesAreEarned' /\ RowsAreSound' /\ ViewIsTrue'
      BY <1>1 DEF IInv, PassesAreEarned, RowsAreSound, ViewIsTrue
<1>5. OneWorkerEach'
      BY <1>1 DEF IInv, OneWorkerEach
<1> QED BY <1>2, <1>3, <1>4, <1>5 DEF IInv

\* A worker is through with its task, or gives it back: the task stays or goes.
LEMMA ReturnKeeps ==
    ASSUME IInv, NEW w \in Workers, exec[w].pc # "idle", exec' = [exec EXCEPT ![w] = Idle],
           Ack(exec[w].run) \/ Retry(exec[w].run),
           UNCHANGED <<labVars, request, runs, steps, view, earned, expiries>>,
           faults' \in 0 .. MaxFaults
    PROVE  IInv'
<1>1. exec[w].run \in Runs
      BY DEF IInv, RunsExist
<1>2. /\ tasks' \in [Runs -> Tasks] /\ \A q \in Runs : q # exec[w].run => tasks'[q] = tasks[q]
      /\ \A q \in Runs : tasks[q].status = "absent" => tasks'[q].status = "absent"
      BY <1>1, AckIs, RetryIs DEF IInv
<1>3. /\ exec' \in [Workers -> Execs] /\ exec'[w] = Idle
      /\ \A v \in Workers : v # w => exec'[v] = exec[v]
      BY ReturnIs DEF IInv
<1>4. TypeOK'
      BY <1>2, <1>3 DEF IInv, TypeOK, labVars
<1>5. RunsExist'
      BY <1>2, <1>3, RowsAre DEF IInv, RunsExist
<1>6. PassesAreEarned' /\ RowsAreSound' /\ ViewIsTrue'
      BY <1>3, RowsAre DEF IInv, PassesAreEarned, RowsAreSound, ViewIsTrue
<1>7. expiries = 0 => \A v \in Workers : v # w /\ exec[v].pc # "idle" => exec[v].run # exec[w].run /\ exec[v].run \in Runs
      BY DEF IInv, OneWorkerEach, RunsExist
<1>8. OneWorkerEach'
      BY <1>2, <1>3, <1>7, RowsAre DEF IInv, OneWorkerEach
<1> QED BY <1>4, <1>5, <1>6, <1>8 DEF IInv

\* A worker saves its run.
LEMMA SaveKeeps ==
    ASSUME IInv, NEW w \in Workers, NEW pc \in {"play", "ack"}, NEW row \in Rows, NEW saved \in Rows,
           Goto(w, pc, row), exec[w].pc \in {"start", "save"}, Save(exec[w].run, saved),
           UNCHANGED <<labVars, request, tasks, view, earned, expiries, faults>>,
           row.state # "passed", saved.state # "none",
           saved.state = "passed" => exec[w].run \in earned,
           StepsFit(saved.state, saved.steps),
           pc = "play" => saved.state \notin Verdicts,
           expiries = 0 /\ saved.state = "running" => saved.steps = <<>>
    PROVE  IInv'
<1>1. /\ exec' \in [Workers -> Execs]
      /\ exec'[w].run = exec[w].run /\ exec'[w].pc = pc /\ exec'[w].row = row
      /\ \A v \in Workers : v # w => exec'[v] = exec[v]
      BY GotoIs DEF IInv, PCs
<1>2. PICK r \in Runs : r = exec[w].run /\ request[r] = "answered"
      BY DEF IInv, RunsExist
<1>3. /\ runs' \in [Runs -> RunStates] /\ steps' \in [Runs -> StepLists]
      /\ runs'[r] = saved.state /\ steps'[r] = saved.steps
      /\ \A q \in Runs : q # r => runs'[q] = runs[q] /\ steps'[q] = steps[q]
      BY <1>2, SaveIs DEF IInv
<1>4. TypeOK'
      BY <1>1, <1>3 DEF IInv, TypeOK, labVars
<1>5. RunsExist'
      BY <1>1, <1>2, <1>3, RowsAre DEF IInv, RunsExist
<1>6. PassesAreEarned'
      BY <1>1, <1>2, <1>3 DEF IInv, PassesAreEarned
<1>7. RowsAreSound'
      BY <1>1, <1>3 DEF IInv, RowsAreSound
<1>8. expiries = 0 => /\ runs[r] \notin Verdicts
                      /\ \A v \in Workers : v # w /\ exec[v].pc # "idle" => exec[v].run # r /\ exec[v].run \in Runs
      BY <1>2 DEF IInv, OneWorkerEach, RunsExist
<1>9. OneWorkerEach'
  <2> SUFFICES ASSUME expiries = 0
               PROVE  /\ \A q \in Runs : runs'[q] = "running" => steps'[q] = <<>>
                      /\ \A v \in Workers : exec'[v].pc # "idle" => tasks[exec'[v].run].status = "active"
                      /\ \A u, v \in Workers :
                            exec'[u].pc # "idle" /\ exec'[v].pc # "idle" /\ exec'[u].run = exec'[v].run => u = v
                      /\ \A v \in Workers :
                            LET q == exec'[v].run
                            IN  /\ exec'[v].pc = "steps" => exec'[v].row.state = runs'[q]
                                /\ exec'[v].pc \in {"key", "start"} => exec'[v].row = Result(runs'[q], steps'[q])
                                /\ exec'[v].pc \in {"key", "start", "play", "save"} => runs'[q] \notin Verdicts
      BY DEF OneWorkerEach
  <2>1. \A q \in Runs : runs'[q] = "running" => steps'[q] = <<>>
        BY <1>3 DEF IInv, OneWorkerEach
  <2>2. \A v \in Workers : exec'[v].pc # "idle" => tasks[exec'[v].run].status = "active"
        BY <1>1 DEF IInv, OneWorkerEach
  <2>3. \A u, v \in Workers :
           exec'[u].pc # "idle" /\ exec'[v].pc # "idle" /\ exec'[u].run = exec'[v].run => u = v
        BY <1>1 DEF IInv, OneWorkerEach
  <2>4. ASSUME NEW v \in Workers
        PROVE  LET q == exec'[v].run
               IN  /\ exec'[v].pc = "steps" => exec'[v].row.state = runs'[q]
                   /\ exec'[v].pc \in {"key", "start"} => exec'[v].row = Result(runs'[q], steps'[q])
                   /\ exec'[v].pc \in {"key", "start", "play", "save"} => runs'[q] \notin Verdicts
    <3>1. CASE v = w
          BY <1>1, <1>2, <1>3, <3>1
    <3>2. CASE v # w
          BY <1>1, <1>2, <1>3, <1>8, <3>2 DEF IInv, OneWorkerEach
    <3> QED BY <3>1, <3>2
  <2> QED BY <2>1, <2>2, <2>3, <2>4
<1>10. ViewIsTrue'
      BY <1>3, <1>8 DEF IInv, ViewIsTrue
<1> QED BY <1>4, <1>5, <1>6, <1>7, <1>9, <1>10 DEF IInv

\* What the worker at work holds is typed, and its run exists.
LEMMA WorkerIsTyped ==
    ASSUME IInv, NEW w \in Workers, exec[w].pc # "idle"
    PROVE  /\ exec[w].run \in Runs /\ exec[w].row \in Rows /\ exec[w].row.state \in RunStates
           /\ exec[w].row.steps \in StepLists /\ runs[exec[w].run] \in RunStates \ {"none"}
           /\ steps[exec[w].run] \in StepLists
           /\ exec[w].row = Result(exec[w].row.state, exec[w].row.steps)
<1>1. exec[w] \in Execs /\ exec[w].run \in Runs /\ runs[exec[w].run] # "none"
      BY DEF IInv, TypeOK, RunsExist
<1>2. exec[w].row \in Rows
      BY <1>1, ExecsAre
<1>3. runs[exec[w].run] \in RunStates /\ steps[exec[w].run] \in StepLists
      BY <1>1 DEF IInv, TypeOK
<1> QED BY <1>1, <1>2, <1>3 DEF Rows, Result

LEMMA LoadRunKeeps == ASSUME IInv, NEW w \in Workers, LoadRun(w) PROVE IInv'
<1>1. /\ exec[w].pc = "load" /\ Goto(w, "steps", Result(runs[exec[w].run], <<>>))
      /\ UNCHANGED <<labVars, request, runs, steps, tasks, view, earned, expiries, faults>>
      BY DEF LoadRun, GetCheckRunByID, rowVars
<1>2. PICK row \in Rows : row = Result(runs[exec[w].run], <<>>) /\ row.state = runs[exec[w].run]
      BY <1>1, WorkerIsTyped, RowsAre
<1>3. row.state = "passed" => exec[w].run \in earned
      BY <1>1, <1>2, WorkerIsTyped DEF IInv, PassesAreEarned
<1>4. earned' \in SUBSET Runs /\ earned' = earned /\ "steps" \in PCs
      BY <1>1 DEF IInv, TypeOK, PCs
<1> QED BY <1>1, <1>2, <1>3, <1>4, MoveKeeps

LEMMA LoadKeeps == ASSUME IInv, NEW w \in Workers, Load(w) PROVE IInv'
<1> DEFINE r == exec[w].run
<1>1. PICK row : row = [exec[w].row EXCEPT !.steps = steps[r]]
      OBVIOUS
<1>2. /\ exec[w].pc = "steps"
      /\ UNCHANGED <<labVars, request, runs, steps, view, earned, expiries, faults>>
      BY DEF Load, rowVars
<1>3. /\ row.state = exec[w].row.state /\ row.steps = steps[r]
      /\ row = Result(exec[w].row.state, steps[r])
      BY <1>1, <1>2, WorkerIsTyped DEF Rows, Result
<1>4. row \in Rows
      BY <1>2, <1>3, WorkerIsTyped, RowsAre
<1>5. expiries = 0 => row.state = runs[r]
      BY <1>2, <1>3 DEF IInv, OneWorkerEach
<1>6. row.state = "passed" => r \in earned
      BY <1>3 DEF IInv, PassesAreEarned
<1>7. earned' \in SUBSET Runs /\ earned' = earned
      BY <1>2 DEF IInv, TypeOK
<1>8. CASE IsTerminal(row.state)
  <2>1. Ack(r) /\ exec' = [exec EXCEPT ![w] = Idle]
        BY <1>1, <1>8 DEF Load, ListCheckRunSteps, Return
  <2>2. faults' \in 0 .. MaxFaults
        BY <1>2 DEF IInv, TypeOK
  <2> QED BY <1>2, <2>1, <2>2, ReturnKeeps
<1>9. CASE ~ IsTerminal(row.state) /\ ~ labs[LabOf[r]].target
  <2>1. Goto(w, "save", Result("errored", <<>>)) /\ UNCHANGED tasks
        BY <1>1, <1>9 DEF Load, ListCheckRunSteps
  <2>2. /\ Result("errored", <<>>) \in Rows /\ Result("errored", <<>>).state = "errored"
        /\ Result("errored", <<>>).steps = <<>> /\ "errored" \in Verdicts
        BY RowsAre DEF Verdicts
  <2>3. expiries = 0 => runs[r] \notin Verdicts
        BY <1>2, <1>5, <1>9, WorkerIsTyped, RowsAre
  <2>4. StepsFit("errored", <<>>)
        BY DEF StepsFit
  <2>5. PICK saved \in Rows : saved = Result("errored", <<>>)
        BY <2>2
  <2>6. "save" \in PCs
        BY DEF PCs
  <2> QED BY <1>2, <1>7, <2>1, <2>2, <2>3, <2>4, <2>5, <2>6, MoveKeeps
<1>10. CASE ~ IsTerminal(row.state) /\ labs[LabOf[r]].target
  <2>1. Goto(w, "key", row) /\ UNCHANGED tasks
        BY <1>1, <1>10 DEF Load, ListCheckRunSteps
  <2>2. expiries = 0 => runs[r] \notin Verdicts /\ row = Result(runs[r], steps[r])
        BY <1>2, <1>3, <1>5, <1>10, WorkerIsTyped, RowsAre
  <2>3. "key" \in PCs
        BY DEF PCs
  <2> QED BY <1>2, <1>4, <1>6, <1>7, <2>1, <2>2, <2>3, MoveKeeps
<1> QED BY <1>8, <1>9, <1>10

LEMMA GetKeyKeeps == ASSUME IInv, NEW w \in Workers, GetKey(w) PROVE IInv'
<1>1. /\ exec[w].pc = "key"
      /\ UNCHANGED <<labVars, request, runs, steps, view, earned, expiries, faults>>
      BY DEF GetKey, rowVars
<1>2. PICK pc : pc = IF exec[w].row.state = "queued" THEN "start" ELSE "play"
      OBVIOUS
<1>3. \/ Goto(w, pc, exec[w].row) /\ UNCHANGED tasks
      \/ Retry(exec[w].run) /\ exec' = [exec EXCEPT ![w] = Idle]
      BY <1>2 DEF GetKey, Return
<1>4. faults' \in 0 .. MaxFaults /\ earned' \in SUBSET Runs /\ earned' = earned
      BY <1>1 DEF IInv, TypeOK
<1>5. CASE Retry(exec[w].run) /\ exec' = [exec EXCEPT ![w] = Idle]
      BY <1>1, <1>4, <1>5, ReturnKeeps
<1>6. CASE Goto(w, pc, exec[w].row) /\ UNCHANGED tasks
  <2>1. PICK row \in Rows : row = exec[w].row
        BY <1>1, WorkerIsTyped
  <2>2. pc \in PCs /\ pc \in {"start", "play"} /\ (pc = "start" => row.state = "queued")
        BY <1>2, <2>1 DEF PCs
  <2>3. row.state = "passed" => exec[w].run \in earned
        BY <2>1 DEF IInv, PassesAreEarned
  <2>4. expiries = 0 => /\ runs[exec[w].run] \notin Verdicts
                        /\ row = Result(runs[exec[w].run], steps[exec[w].run])
        BY <1>1, <2>1 DEF IInv, OneWorkerEach
  <2> QED BY <1>1, <1>4, <1>6, <2>1, <2>2, <2>3, <2>4, MoveKeeps
<1> QED BY <1>3, <1>5, <1>6

LEMMA StartKeeps == ASSUME IInv, NEW w \in Workers, Start(w) PROVE IInv'
<1>1. PICK row : row = [exec[w].row EXCEPT !.state = "running"]
      OBVIOUS
<1>2. /\ exec[w].pc = "start" /\ Goto(w, "play", row) /\ Save(exec[w].run, row)
      /\ UNCHANGED <<labVars, request, tasks, view, earned, expiries, faults>>
      BY <1>1 DEF Start
<1>3. row.state = "running" /\ row.steps = exec[w].row.steps /\ row = Result("running", exec[w].row.steps)
      BY <1>1, <1>2, WorkerIsTyped DEF Rows, Result
<1>4. row \in Rows
      BY <1>2, <1>3, WorkerIsTyped, RowsAre
<1>5. ASSUME expiries = 0 PROVE row.steps = <<>>
  <2>1. /\ exec[w].row = Result(runs[exec[w].run], steps[exec[w].run])
        /\ exec[w].row.state = "queued" /\ exec[w].run \in Runs
        BY <1>2, <1>5 DEF IInv, OneWorkerEach, RunsExist
  <2>2. runs[exec[w].run] = "queued" /\ exec[w].row.steps = steps[exec[w].run]
        BY <1>2, <2>1, WorkerIsTyped, RowsAre
  <2>3. StepsFit(runs[exec[w].run], steps[exec[w].run])
        BY <2>1 DEF IInv, RowsAreSound
  <2> QED BY <1>3, <2>2, <2>3 DEF StepsFit
<1>6. StepsFit(row.state, row.steps) /\ row.state \notin Verdicts
      BY <1>3, RowsAre DEF StepsFit
<1> QED BY <1>2, <1>3, <1>4, <1>5, <1>6, SaveKeeps

LEMMA PlayKeeps == ASSUME IInv, NEW w \in Workers, Play(w) PROVE IInv'
<1>1. PICK o \in OutcomesFor(LabOf[exec[w].run]) :
         /\ Goto(w, "save", RunResult(o))
         /\ earned' = IF Clean(o) THEN earned \cup {exec[w].run} ELSE earned
      BY DEF Play
<1>2. /\ exec[w].pc = "play"
      /\ UNCHANGED <<labVars, request, runs, steps, tasks, view, expiries, faults>>
      BY DEF Play, rowVars
<1>3. PICK row \in Rows : /\ row = RunResult(o) /\ row.state \in Verdicts
                          /\ StepsFit(row.state, row.steps)
                          /\ row.state = "passed" => Clean(o)
      BY ResultIsVerdict
<1>4. /\ earned' \in SUBSET Runs /\ earned \subseteq earned'
      /\ row.state = "passed" => exec[w].run \in earned'
      BY <1>1, <1>2, <1>3, WorkerIsTyped DEF IInv, TypeOK
<1>5. expiries = 0 => runs[exec[w].run] \notin Verdicts
      BY <1>2 DEF IInv, OneWorkerEach
<1>6. "save" \in PCs
      BY DEF PCs
<1> QED BY <1>1, <1>2, <1>3, <1>4, <1>5, <1>6, MoveKeeps

LEMMA SaveVerdictKeeps == ASSUME IInv, NEW w \in Workers, SaveVerdict(w) PROVE IInv'
<1>1. /\ exec[w].pc = "save" /\ Save(exec[w].run, exec[w].row) /\ Goto(w, "ack", NoRow)
      /\ UNCHANGED <<labVars, request, tasks, view, earned, expiries, faults>>
      BY DEF SaveVerdict
<1>2. PICK saved \in Rows : saved = exec[w].row
      BY <1>1, WorkerIsTyped
<1>3. saved.state \in Verdicts /\ StepsFit(saved.state, saved.steps)
      BY <1>1, <1>2 DEF IInv, RunsExist, RowsAreSound
<1>4. saved.state # "none" /\ saved.state # "running" /\ NoRow.state # "passed" /\ NoRow \in Rows
      BY <1>3, RowsAre DEF Verdicts
<1>5. saved.state = "passed" => exec[w].run \in earned
      BY <1>2 DEF IInv, PassesAreEarned
<1> QED BY <1>1, <1>2, <1>3, <1>4, <1>5, SaveKeeps

LEMMA StepKeepsIInv == IInv /\ [Next]_vars => IInv'
<1> SUFFICES ASSUME IInv, [Next]_vars PROVE IInv'
    OBVIOUS
<1>f. faults \in 0 .. MaxFaults /\ (Fault => faults' \in 0 .. MaxFaults)
      BY CheckAssumption DEF IInv, TypeOK, Fault
<1>1. ASSUME NEW w \in Workers, Fails(w) PROVE IInv'
  <2>1. /\ exec[w].pc # "idle" /\ exec' = [exec EXCEPT ![w] = Idle] /\ Retry(exec[w].run)
        /\ UNCHANGED <<labVars, request, runs, steps, view, earned, expiries>> /\ faults' \in 0 .. MaxFaults
        BY <1>1, <1>f DEF Fails, rowVars
  <2> QED BY <2>1, ReturnKeeps
<1>2. ASSUME NEW w \in Workers, Returns(w) PROVE IInv'
  <2>1. /\ exec[w].pc # "idle" /\ exec' = [exec EXCEPT ![w] = Idle] /\ Ack(exec[w].run)
        /\ UNCHANGED <<labVars, request, runs, steps, view, earned, expiries>> /\ faults' \in 0 .. MaxFaults
        BY <1>2, <1>f DEF Returns, Return, rowVars
  <2> QED BY <2>1, ReturnKeeps
<1>3. ASSUME NEW w \in Workers, Execute(w) PROVE IInv'
      BY <1>2, <1>3, DequeueKeeps, LoadRunKeeps, LoadKeeps, GetKeyKeeps, StartKeeps, PlayKeeps, SaveVerdictKeeps
      DEF Execute
<1>4. CASE UNCHANGED vars
      BY <1>4 DEF vars, labVars, rowVars, IInv, TypeOK, RunsExist, PassesAreEarned, RowsAreSound, OneWorkerEach, ViewIsTrue
<1> QED BY <1>1, <1>3, <1>4, LabsKeep, AdmitKeeps, CreateKeeps, EnqueueCheckKeeps, LeaseExpiresKeeps, AskKeeps
        DEF Next

\* The inductive invariant of the checks holds for any labs, runs, workers and playbooks.
THEOREM InvariantHolds == Spec => []IInv
BY InitHolds, StepKeepsIInv, PTL DEF Spec

-----------------------------------------------------------------------------
(* The verdicts.                                                           *)

\* A run is passed only when a playbook did all its tasks on the machine of the run's
\* own lab: through repeated deliveries, deaths and late saves, whatever Save writes was
\* made of an execution of that run.
THEOREM PassesAreAlwaysEarned == Spec => []PassedIsEarned
<1>1. IInv => PassedIsEarned
      BY DEF IInv, PassesAreEarned, PassedIsEarned
<1> QED BY <1>1, InvariantHolds, PTL

\* The verdict and the steps of a run are of one piece, and a user who reads them in two
\* statements is told what is stored, unless a lease expired.
THEOREM ShownIsAlwaysConsistent == Spec => []ShownIsConsistent
<1>1. IInv => ShownIsConsistent
  <2> SUFFICES ASSUME IInv PROVE ShownIsConsistent
      OBVIOUS
  <2>1. ASSUME NEW r \in Runs
        PROVE  /\ runs[r] \in {"queued", "timeout"} => steps[r] = <<>>
               /\ runs[r] = "running" /\ expiries = 0 => steps[r] = <<>>
               /\ runs[r] = "passed" => \A i \in DOMAIN steps[r] : steps[r][i] \notin BadStatus
        BY DEF IInv, RowsAreSound, StepsFit, OneWorkerEach
  <2>2. ASSUME view.pc = "shown", view.row.state \in Verdicts, expiries = 0
        PROVE  view.row = Result(runs[view.run], steps[view.run])
    <3>1. runs[view.run] = view.row.state /\ view.row.steps = steps[view.run]
          BY <2>2 DEF IInv, ViewIsTrue
    <3>2. view.row \in Rows
          BY DEF IInv, TypeOK, Views
    <3> QED BY <3>1, <3>2 DEF Rows, Result
  <2> QED BY <2>1, <2>2 DEF ShownIsConsistent
<1> QED BY <1>1, InvariantHolds, PTL

\* A verdict is final: only after an expired lease may a save of another worker, or a
\* second execution, replace it.
THEOREM VerdictsAreFinal == Spec => VerdictIsFinal
<1>1. IInv /\ [Next]_vars =>
         [\A r \in Runs : runs[r] \in Verdicts /\ expiries = 0 => runs'[r] = runs[r] /\ steps'[r] = steps[r]]_vars
  <2> SUFFICES ASSUME IInv, Next, NEW r \in Runs, runs[r] \in Verdicts, expiries = 0
               PROVE  runs'[r] = runs[r] /\ steps'[r] = steps[r]
      OBVIOUS
  <2>1. ASSUME NEW q \in Runs, Create(q) PROVE runs'[r] = runs[r] /\ steps'[r] = steps[r]
    <3>1. runs[q] = "none"
          BY <2>1 DEF Create, IInv, RunsExist
    <3>2. q # r
          BY <3>1, RowsAre
    <3> QED BY <2>1, <3>2 DEF Create, CreateCheckRun, ReplaceSteps, IInv, TypeOK
  <2>2. ASSUME NEW w \in Workers, Start(w) \/ SaveVerdict(w)
        PROVE  runs'[r] = runs[r] /\ steps'[r] = steps[r]
    <3>1. exec[w].pc \in {"start", "save"}
          BY <2>2 DEF Start, SaveVerdict
    <3>2. exec[w].run # r
          BY <3>1 DEF IInv, OneWorkerEach
    <3> QED BY <2>2, <3>2 DEF Start, SaveVerdict, Save, UpdateCheckRun, ReplaceSteps, IInv, TypeOK
  <2>3. ASSUME UNCHANGED rowVars PROVE runs'[r] = runs[r] /\ steps'[r] = steps[r]
        BY <2>3 DEF rowVars
  <2>4. CASE \/ ChangeKEK \/ ShowRun
             \/ \E l \in Labs : LabNext(l)
             \/ \E q \in Runs : Admit(q) \/ EnqueueCheck(q) \/ LeaseExpires(q) \/ AskRun(q)
        BY <2>3, <2>4 DEF ChangeKEK, ShowRun, LabNext, LabReady, LabReadyEarly, LabCleaning, LabTornDown, LabDone,
                          Admit, EnqueueCheck, LeaseExpires, AskRun
  <2>5. ASSUME NEW w \in Workers,
               Dequeue(w) \/ LoadRun(w) \/ Load(w) \/ GetKey(w) \/ Play(w) \/ Returns(w) \/ Fails(w)
        PROVE  runs'[r] = runs[r] /\ steps'[r] = steps[r]
        BY <2>3, <2>5 DEF Dequeue, LoadRun, Load, GetKey, Play, Returns, Fails
  <2> QED BY <2>1, <2>2, <2>4, <2>5 DEF Next, Execute
<1> QED BY <1>1, InvariantHolds, PTL DEF Spec, VerdictIsFinal
=============================================================================

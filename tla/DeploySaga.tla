----------------------------- MODULE DeploySaga -----------------------------
(***************************************************************************)
(* deploy.Deps.Run for one lab, from its task's first delivery to its      *)
(* last: the five steps, the record each keeps in lab_deploy_steps, the    *)
(* calls each makes to the provider and to the secret store, and the two   *)
(* ends of the saga.  Nothing but the saga works on the lab here (module   *)
(* LabRental has the others); a crash may fall between any two calls.      *)
(***************************************************************************)
EXTENDS Naturals, Sequences, FiniteSets

CONSTANTS NumVMs,          \* virtual machines of the lab's topology
          MaxAttempts,     \* attempts of a step before compensation (3 in the code)
          MaxRetries,      \* retries of the task by asynq (5 in the code)
          MaxFaults,       \* bound: worker deaths, failed calls to Postgres or Redis
          KeyIsReturned    \* CreateKeypair returns the private key of a keypair that
                           \* exists already: inmem does, OpenStack does not

ASSUME DeployAssumption ==
    /\ NumVMs \in Nat \ {0}
    /\ MaxAttempts \in Nat \ {0}
    /\ MaxRetries \in Nat
    /\ MaxFaults \in Nat
    /\ KeyIsReturned \in BOOLEAN

VARIABLES row,        \* the lab: its state, and the handles and secret it records
          steps,      \* lab_deploy_steps
          task,       \* the deploy task in the queue
          saga,       \* the call of Run that is executing
          made,       \* the provider resources that exist
          secrets,    \* the stored secrets: does each hold a private key
          followUp,   \* the task the saga's end enqueued
          faults      \* the faults that happened so far

vars == <<row, steps, task, saga, made, secrets, followUp, faults>>

-----------------------------------------------------------------------------
(* What each step calls, in order, one call per resource.                  *)

Keypair   == <<"keypair", 0>>
Secret    == <<"secret", 0>>
Network   == <<"network", 0>>
Resources == {Keypair, Network} \cup ({"server", "ip"} \X (1 .. NumVMs))

OrderedSteps == << "create_keypair", "provision_network", "boot_vm", "wait_ssh",
                   "initial_check" >>

Calls(step) ==
    CASE step = "create_keypair"    -> <<Keypair, Secret>>
      [] step = "provision_network" -> <<Network>>
      [] step = "boot_vm"           -> [i \in 1 .. NumVMs |-> <<"server", i>>]
      [] step = "wait_ssh"          -> [i \in 1 .. NumVMs |-> <<"ip", i>>]
      [] step = "initial_check"     -> <<>>

\* deployState: the handles of the steps so far; secret is the id of the stored key.
DeployStates == [handles : SUBSET Resources, secret : Nat]
NoState      == [handles |-> {}, secret |-> 0]

StepNames   == {OrderedSteps[i] : i \in DOMAIN OrderedSteps}
StepRecords == [ status  : {"pending", "in_progress", "succeeded", "failed"},
                 attempt : Nat,
                 result  : DeployStates ]

\* GetOrInit of a step that has no row yet.
PendingStep == [status |-> "pending", attempt |-> 0, result |-> NoState]

SagaPCs == {"idle", "next", "begin", "call", "record", "failed", "fail", "hand_off"}

Sagas == [ pc   : SagaPCs,
           step : 1 .. Len(OrderedSteps) + 1,   \* its place in OrderedSteps
           call : Nat \ {0},                    \* the next call of the step
           st   : DeployStates,
           key  : BOOLEAN ]                     \* kp.PrivateKey is not empty

IdleSaga == [pc |-> "idle", step |-> 1, call |-> 1, st |-> NoState, key |-> FALSE]

TypeOK ==
    /\ row \in [state : {"deploying", "ready", "failed"}, known : DeployStates]
    /\ steps \in [StepNames -> StepRecords]
    /\ task \in [status : {"pending", "active", "done", "archived"}, retried : 0 .. MaxRetries]
    /\ saga \in Sagas
    /\ made \subseteq Resources
    /\ secrets \in Seq(BOOLEAN)
    /\ followUp \in {"none", "timer", "compensate"}
    /\ faults \in 0 .. MaxFaults

\* CreateLab has committed the deploying lab and enqueued its task.
Init ==
    /\ row = [state |-> "deploying", known |-> NoState]
    /\ steps = [s \in StepNames |-> PendingStep]
    /\ task = [status |-> "pending", retried |-> 0]
    /\ saga = IdleSaga
    /\ made = {}
    /\ secrets = <<>>
    /\ followUp = "none"
    /\ faults = 0

Step     == OrderedSteps[saga.step]
NextCall == Calls(Step)[saga.call]
Goto(pc) == saga' = [saga EXCEPT !.pc = pc]
Fault    == faults < MaxFaults /\ faults' = faults + 1

\* The row of the step at work is inserted or replaced.
UpsertDeployStep(rec) == steps' = [steps EXCEPT ![Step] = rec]

\* Run returned nil, or an error: asynq drops, retries or archives the task.
Complete == task' = [task EXCEPT !.status = "done"] /\ saga' = IdleSaga

Retry == /\ saga' = IdleSaga
         /\ task' = IF task.retried < MaxRetries
                    THEN [status |-> "pending", retried |-> task.retried + 1]
                    ELSE [task EXCEPT !.status = "archived"]

-----------------------------------------------------------------------------
\* A worker takes the task and loads the lab.
Start ==
    /\ task.status = "pending"
    /\ IF row.state = "deploying"
       THEN task' = [task EXCEPT !.status = "active"] /\ Goto("next")
       ELSE Complete
    /\ UNCHANGED <<row, steps, made, secrets, followUp, faults>>

\* Wrong: a step that failed is skipped as well, and its empty result replayed.
WrongLoadStep ==
    /\ saga.pc = "next" /\ saga.step \in DOMAIN OrderedSteps
    /\ saga' = IF steps[Step].status \in {"succeeded", "failed"}
               THEN [saga EXCEPT !.step = @ + 1, !.st = steps[Step].result]
               ELSE [saga EXCEPT !.pc = "begin"]
    /\ UNCHANGED <<row, steps, task, made, secrets, followUp, faults>>

\* Wrong: a step in progress is left to the call that began it, which may have died.
WrongLoadStepBegun ==
    /\ saga.pc = "next" /\ saga.step \in DOMAIN OrderedSteps
    /\ CASE steps[Step].status = "succeeded" ->
              /\ saga' = [saga EXCEPT !.step = @ + 1, !.st = steps[Step].result]
              /\ UNCHANGED task
         [] steps[Step].status = "in_progress" -> Complete
         [] OTHER -> Goto("begin") /\ UNCHANGED task
    /\ UNCHANGED <<row, steps, made, secrets, followUp, faults>>

\* GetOrInit; the result of a step that succeeded is replayed.
LoadStep ==
    /\ saga.pc = "next" /\ saga.step \in DOMAIN OrderedSteps
    /\ saga' = IF steps[Step].status = "succeeded"
               THEN [saga EXCEPT !.step = @ + 1, !.st = steps[Step].result]
               ELSE [saga EXCEPT !.pc = "begin"]
    /\ UNCHANGED <<row, steps, task, made, secrets, followUp, faults>>

\* The attempt is counted before the step runs.
BeginStep ==
    /\ saga.pc = "begin"
    /\ UpsertDeployStep([steps[Step] EXCEPT !.status = "in_progress", !.attempt = @ + 1])
    /\ saga' = [saga EXCEPT !.pc = "call", !.call = 1]
    /\ UNCHANGED <<row, task, made, secrets, followUp, faults>>

Calling == saga.pc = "call" /\ saga.call \in DOMAIN Calls(Step)

\* CreateKeypair returns the private key of the keypair it makes, or finds.
KeyReturned == Keypair \notin made \/ KeyIsReturned

\* Put inserts a new row each time.
PutSecret == secrets' = Append(secrets, saga.key)

\* What a call leaves behind: every provider call finds by its name, or by its port,
\* what an earlier attempt made.
Effect ==
    IF NextCall = Secret
    THEN PutSecret /\ UNCHANGED made
    ELSE made' = made \cup {NextCall} /\ UNCHANGED secrets

\* Wrong: the private key is taken from the provider only when the keypair is new.
WrongCallReturns ==
    /\ Calling
    /\ Effect
    /\ saga' = IF NextCall = Secret
               THEN [saga EXCEPT !.call = @ + 1, !.st.secret = Len(secrets')]
               ELSE [saga EXCEPT !.call = @ + 1,
                                 !.st.handles = @ \cup {NextCall},
                                 !.key = NextCall = Keypair /\ Keypair \notin made]
    /\ UNCHANGED <<row, steps, task, followUp, faults>>

\* The call returns: the handle joins the state; CreateKeypair also returns the key.
CallReturns ==
    /\ Calling
    /\ Effect
    /\ saga' = IF NextCall = Secret
               THEN [saga EXCEPT !.call = @ + 1, !.st.secret = Len(secrets')]
               ELSE [saga EXCEPT !.call = @ + 1,
                                 !.st.handles = @ \cup {NextCall},
                                 !.key = IF NextCall = Keypair THEN KeyReturned ELSE @]
    /\ UNCHANGED <<row, steps, task, followUp, faults>>

\* The call returns an error, whether or not it took effect.
CallFails ==
    /\ Calling
    /\ Effect \/ UNCHANGED <<made, secrets>>
    /\ Goto("failed")
    /\ UNCHANGED <<row, steps, task, followUp, faults>>

StepReturns ==
    /\ saga.pc = "call" /\ saga.call \notin DOMAIN Calls(Step)
    /\ Goto("record")
    /\ UNCHANGED <<row, steps, task, made, secrets, followUp, faults>>

\* Wrong: the result holds the handles of this step only.
WrongRecordSuccess ==
    /\ saga.pc = "record"
    /\ UpsertDeployStep([steps[Step] EXCEPT
          !.status = "succeeded",
          !.result = [saga.st EXCEPT !.handles =
                         @ \cap {Calls(Step)[i] : i \in DOMAIN Calls(Step)}]])
    /\ saga' = [saga EXCEPT !.pc = "next", !.step = @ + 1]
    /\ UNCHANGED <<row, task, made, secrets, followUp, faults>>

\* The step is saved as succeeded, with the state so far as its result.
RecordSuccess ==
    /\ saga.pc = "record"
    /\ UpsertDeployStep([steps[Step] EXCEPT !.status = "succeeded", !.result = saga.st])
    /\ saga' = [saga EXCEPT !.pc = "next", !.step = @ + 1]
    /\ UNCHANGED <<row, task, made, secrets, followUp, faults>>

\* Wrong: the attempts are never counted against the budget.
WrongRecordFailure ==
    /\ saga.pc = "failed"
    /\ \/ UpsertDeployStep([steps[Step] EXCEPT !.status = "failed"]) /\ UNCHANGED faults
       \/ Fault /\ UNCHANGED steps
    /\ Retry
    /\ UNCHANGED <<row, made, secrets, followUp>>

\* The step is saved as failed, or that save fails and is only logged; a step that
\* has spent its attempts ends the saga, any other has asynq retry the task.
RecordFailure ==
    /\ saga.pc = "failed"
    /\ \/ UpsertDeployStep([steps[Step] EXCEPT !.status = "failed"]) /\ UNCHANGED faults
       \/ Fault /\ UNCHANGED steps
    /\ IF steps[Step].attempt >= MaxAttempts
       THEN Goto("fail") /\ UNCHANGED task
       ELSE Retry
    /\ UNCHANGED <<row, made, secrets, followUp>>

-----------------------------------------------------------------------------
\* succeed: the lab is ready and its row records every handle.
Succeed ==
    /\ saga.pc = "next" /\ saga.step \notin DOMAIN OrderedSteps
    /\ row' = [state |-> "ready", known |-> saga.st]
    /\ Goto("hand_off")
    /\ UNCHANGED <<steps, task, made, secrets, followUp, faults>>

\* fail: the lab is failed and its row records nothing.
FailLab ==
    /\ saga.pc = "fail"
    /\ row' = [row EXCEPT !.state = "failed"]
    /\ Goto("hand_off")
    /\ UNCHANGED <<steps, task, made, secrets, followUp, faults>>

\* The cleanup timer, or the compensation, is enqueued; an error is only logged.
HandOff ==
    /\ saga.pc = "hand_off"
    /\ \/ /\ followUp' = IF row.state = "ready" THEN "timer" ELSE "compensate"
          /\ UNCHANGED faults
       \/ Fault /\ UNCHANGED followUp
    /\ Complete
    /\ UNCHANGED <<row, steps, made, secrets>>

\* The worker dies, or a save of the saga fails: asynq retries the task.
Crash ==
    /\ saga.pc # "idle"
    /\ Fault
    /\ Retry
    /\ UNCHANGED <<row, steps, made, secrets, followUp>>

SagaStep ==
    \/ Start
    \/ LoadStep
    \/ BeginStep
    \/ CallReturns
    \/ StepReturns
    \/ RecordSuccess
    \/ RecordFailure
    \/ Succeed
    \/ FailLab
    \/ HandOff

Next == SagaStep \/ CallFails \/ Crash

Spec == Init /\ [][Next]_vars

\* The worker keeps executing the handler; no call has to fail, and none to crash.
FairSpec == Spec /\ WF_vars(SagaStep)

-----------------------------------------------------------------------------
\* However often the saga was retried and wherever it crashed, the row of a ready lab
\* records every server, address, network and keypair that exists, so that cleanup.Run
\* can delete them all (the replay of results in Run, and succeed).
ReadyKnowsAll == row.state = "ready" => row.known.handles = made /\ made = Resources

\* The key a student of a ready lab downloads is a private key: true with a provider
\* that returns the key of an existing keypair again (runCreateKeypair).
ReadyHasUsableKey ==
    row.state = "ready" => row.known.secret \in DOMAIN secrets /\ secrets[row.known.secret]

\* A deploy is given up only when a step has spent its attempts, and a step is
\* attempted beyond its budget only because of crashes or lost saves.
FailedAfterBudget ==
    /\ row.state = "failed" => \E s \in StepNames : steps[s].attempt >= MaxAttempts
    /\ \A s \in StepNames : steps[s].attempt <= MaxAttempts + faults

\* No lab is left deploying without a task: the saga ends, ready or failed, or asynq has
\* archived the task where an operator finds it, whatever calls fail and wherever the
\* worker dies (Run returns nil only for a lab that is not deploying any more).
DeployIsNotForgotten ==
    (row.state = "deploying") ~> (row.state # "deploying" \/ task.status = "archived")

\* A transient failure has asynq retry and a spent budget compensates (comment of Run), so
\* every deploy ends with the lab ready or failed. Five retries (CreateLab) do not cover
\* the attempts of four steps: with no step beyond its budget the task is archived and the
\* lab stays deploying.
DeployEnds == (row.state = "deploying") ~> (row.state # "deploying")

\* The saga does what DeployContract says of it.
Kinds == {"servers", "keypair", "network"}

\* The handles LabDomain tells apart; the addresses go with their servers.
KindsOf(handles) ==
    {k \in Kinds : \/ k = "keypair" /\ Keypair \in handles
                   \/ k = "network" /\ Network \in handles
                   \/ k = "servers" /\ \E i \in 1 .. NumVMs : <<"server", i>> \in handles}

Contract == INSTANCE DeployContract
              WITH state <- row.state,
                   made  <- KindsOf(made),
                   known <- KindsOf(row.known.handles),
                   Chain <- {{}, {"keypair"}, {"keypair", "network"}, Kinds}

ImplementsContract == Contract!Spec
-----------------------------------------------------------------------------
(* Why these hold.                                                         *)

\* The step that makes a resource, and the resources of the steps before the i-th.
StepOf(r) == CASE r = Keypair -> 1
               [] r = Network -> 2
               [] r \in {"server"} \X (1 .. NumVMs) -> 3
               [] r \in {"ip"} \X (1 .. NumVMs) -> 4
Before(i) == {r \in Resources : StepOf(r) < i}

\* What the first n - 1 calls of the i-th step return.
Returned(i, n) ==
    {r \in Resources : \E c \in DOMAIN Calls(OrderedSteps[i]) : c < n /\ r = Calls(OrderedSteps[i])[c]}

\* The id of a secret that holds a private key.
Holds(id) == id \in DOMAIN secrets /\ (KeyIsReturned => secrets[id])

\* A state that holds everything of the steps before the i-th.
IsComplete(st, i) ==
    /\ st.handles = Before(i)
    /\ Before(i) \subseteq made
    /\ i > 1 => Holds(st.secret)

Succeeded(i) == steps[OrderedSteps[i]].status = "succeeded"

\* Where the task, the lab and the call stand to each other. One saga runs at a time, on
\* a lab that is deploying until it ends, and it ends once.
PhaseAgrees ==
    /\ saga.pc = "idle" <=> task.status # "active"
    /\ saga.pc = "idle" => saga = IdleSaga
    /\ saga.pc \notin {"idle", "hand_off"} => row.state = "deploying"
    /\ saga.pc = "hand_off" => row.state # "deploying"
    /\ saga.pc \in {"begin", "call", "record", "failed", "fail"} => saga.step < 6
    /\ saga.pc \in {"begin", "call", "record", "failed"} => ~ Succeeded(saga.step)
    /\ followUp # "none" => row.state # "deploying" /\ saga.pc = "idle"

\* A step has begun only when those before it have succeeded, and a step that
\* succeeded keeps a result that holds everything made so far.
ResultsAreComplete ==
    /\ \A i \in 1 .. 5 : Succeeded(i) => IsComplete(steps[OrderedSteps[i]].result, i + 1)
    /\ saga.pc # "idle" => \A i \in 1 .. 5 : i < saga.step => Succeeded(i)
    /\ \A r \in made : \A i \in 1 .. 5 : i < StepOf(r) => Succeeded(i)

\* What the executing call holds in memory.
SagaIsComplete ==
    /\ saga.pc \in {"next", "begin"} => IsComplete(saga.st, saga.step)
    /\ saga.pc = "call" =>
          /\ saga.st.handles = Before(saga.step) \cup Returned(saga.step, saga.call)
          /\ saga.st.handles \subseteq made
          /\ saga.step > 1 => Holds(saga.st.secret)
          /\ saga.step = 1 /\ saga.call = 2 /\ KeyIsReturned => saga.key
          /\ saga.step = 1 /\ saga.call > 2 => Holds(saga.st.secret)
    /\ saga.pc = "record" => IsComplete(saga.st, saga.step + 1)

\* What the row holds: everything when the lab is ready, nothing before.
RowIsComplete ==
    /\ row.state = "ready" => IsComplete(row.known, 6) /\ \A i \in 1 .. 5 : Succeeded(i)
    /\ row.state # "ready" => row.known = NoState

\* The budget of a step is used up, beyond the faults, only by the attempt that ends
\* the saga, or by the one that succeeds.
BudgetIsKept ==
    /\ \A i \in 1 .. 5 :
          LET spent == steps[OrderedSteps[i]].attempt
          IN  /\ spent <= MaxAttempts + faults
              /\ spent = MaxAttempts + faults =>
                    \/ Succeeded(i)
                    \/ row.state = "failed"
                    \/ saga.step = i /\ saga.pc \in {"call", "record", "failed", "fail"}
    /\ saga.pc = "fail" => steps[Step].attempt >= MaxAttempts
    /\ row.state = "failed" => \E s \in StepNames : steps[s].attempt >= MaxAttempts

\* The inductive invariant.
IInv ==
    /\ TypeOK
    /\ PhaseAgrees
    /\ ResultsAreComplete
    /\ SagaIsComplete
    /\ RowIsComplete
    /\ BudgetIsKept
=============================================================================

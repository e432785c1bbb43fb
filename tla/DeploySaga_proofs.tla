-------------------------- MODULE DeploySaga_proofs --------------------------
(***************************************************************************)
(* Proofs about module DeploySaga, for every number of machines, every     *)
(* budget of attempts and retries, and every number of faults.             *)
(***************************************************************************)
EXTENDS DeploySaga, TLAPS

-----------------------------------------------------------------------------
(* The five steps and their calls.                                         *)

LEMMA StepsAre ==
    /\ DOMAIN OrderedSteps = 1 .. 5 /\ Len(OrderedSteps) = 5
    /\ StepNames = {OrderedSteps[i] : i \in 1 .. 5}
    /\ \A i \in 1 .. 5 : OrderedSteps[i] \in StepNames
    /\ \A i, j \in 1 .. 5 : OrderedSteps[i] = OrderedSteps[j] => i = j
    /\ OrderedSteps[1] = "create_keypair" /\ OrderedSteps[2] = "provision_network"
    /\ OrderedSteps[3] = "boot_vm" /\ OrderedSteps[4] = "wait_ssh"
    /\ OrderedSteps[5] = "initial_check"
<1>1. DOMAIN OrderedSteps = 1 .. 5 /\ Len(OrderedSteps) = 5
      BY DEF OrderedSteps
<1> QED BY <1>1 DEF OrderedSteps, StepNames

LEMMA ResourcesAre ==
    /\ Keypair \in Resources /\ Network \in Resources /\ Secret \notin Resources
    /\ \A r \in {"server", "ip"} \X (1 .. NumVMs) : r \in Resources
    /\ StepOf(Keypair) = 1 /\ StepOf(Network) = 2
    /\ \A i \in 1 .. NumVMs : StepOf(<<"server", i>>) = 3 /\ StepOf(<<"ip", i>>) = 4
    /\ \A r \in Resources : StepOf(r) \in 1 .. 4
    /\ \A r \in Resources : StepOf(r) = 1 => r = Keypair
    /\ \A r \in Resources : StepOf(r) = 2 => r = Network
    /\ \A r \in Resources : StepOf(r) = 3 => \E i \in 1 .. NumVMs : r = <<"server", i>>
    /\ \A r \in Resources : StepOf(r) = 4 => \E i \in 1 .. NumVMs : r = <<"ip", i>>
<1>1. Keypair \in Resources /\ Network \in Resources /\ Secret \notin Resources
      BY DEF Keypair, Network, Secret, Resources
<1>2. StepOf(Keypair) = 1 /\ StepOf(Network) = 2
      BY DEF Keypair, Network, StepOf
<1>3. \A i \in 1 .. NumVMs : StepOf(<<"server", i>>) = 3 /\ StepOf(<<"ip", i>>) = 4
      BY DEF Keypair, Network, StepOf
<1>4. \A r \in Resources : \/ r = Keypair
                           \/ r = Network
                           \/ \E i \in 1 .. NumVMs : r = <<"server", i>> \/ r = <<"ip", i>>
      BY DEF Resources
<1>5. \A r \in {"server", "ip"} \X (1 .. NumVMs) : r \in Resources
      BY DEF Resources
<1>6. ASSUME NEW r \in Resources
      PROVE  /\ StepOf(r) \in 1 .. 4
             /\ StepOf(r) = 1 => r = Keypair
             /\ StepOf(r) = 2 => r = Network
             /\ StepOf(r) = 3 => \E i \in 1 .. NumVMs : r = <<"server", i>>
             /\ StepOf(r) = 4 => \E i \in 1 .. NumVMs : r = <<"ip", i>>
  <2>1. CASE r = Keypair
        BY <1>2, <2>1
  <2>2. CASE r = Network
        BY <1>2, <2>2
  <2>3. ASSUME NEW i \in 1 .. NumVMs, r = <<"server", i>> PROVE StepOf(r) = 3
        BY <1>3, <2>3
  <2>4. ASSUME NEW i \in 1 .. NumVMs, r = <<"ip", i>> PROVE StepOf(r) = 4
        BY <1>3, <2>4
  <2> HIDE DEF StepOf
  <2> QED BY <1>4, <2>1, <2>2, <2>3, <2>4
<1> QED BY <1>1, <1>2, <1>3, <1>5, <1>6

\* The calls of a step are numbered from 1. Each makes a resource of that step, except
\* the second call of the first step, which stores the key; every resource has its call.
LEMMA CallsAre ==
    ASSUME NEW i \in 1 .. 5
    PROVE  /\ \E n \in Nat : DOMAIN Calls(OrderedSteps[i]) = 1 .. n
           /\ \A c \in DOMAIN Calls(OrderedSteps[i]) :
                 LET r == Calls(OrderedSteps[i])[c]
                 IN  \/ r = Secret /\ i = 1 /\ c = 2
                     \/ r \in Resources /\ r # Secret /\ StepOf(r) = i /\ (i = 1 => c = 1)
           /\ i = 1 => 1 \in DOMAIN Calls(OrderedSteps[i]) /\ 2 \in DOMAIN Calls(OrderedSteps[i])
           /\ \A r \in Resources :
                 StepOf(r) = i => \E c \in DOMAIN Calls(OrderedSteps[i]) : Calls(OrderedSteps[i])[c] = r
<1>1. CASE i = 1
  <2>1. Calls(OrderedSteps[i]) = <<Keypair, Secret>>
        BY <1>1, StepsAre DEF Calls
  <2> QED BY <1>1, <2>1, ResourcesAre
<1>2. CASE i = 2
  <2>1. Calls(OrderedSteps[i]) = <<Network>>
        BY <1>2, StepsAre DEF Calls
  <2> QED BY <1>2, <2>1, ResourcesAre
<1>3. CASE i = 3
  <2>1. Calls(OrderedSteps[i]) = [k \in 1 .. NumVMs |-> <<"server", k>>]
        BY <1>3, StepsAre DEF Calls
  <2>2. \A k \in 1 .. NumVMs : LET r == <<"server", k>>
                               IN  r \in Resources /\ r # Secret /\ StepOf(r) = i
        BY <1>3, ResourcesAre
  <2>3. \A r \in Resources : StepOf(r) = i => \E k \in 1 .. NumVMs : r = <<"server", k>>
        BY <1>3, ResourcesAre
  <2> QED BY <1>3, <2>1, <2>2, <2>3, DeployAssumption
<1>4. CASE i = 4
  <2>1. Calls(OrderedSteps[i]) = [k \in 1 .. NumVMs |-> <<"ip", k>>]
        BY <1>4, StepsAre DEF Calls
  <2>2. \A k \in 1 .. NumVMs : LET r == <<"ip", k>>
                               IN  r \in Resources /\ r # Secret /\ StepOf(r) = i
        BY <1>4, ResourcesAre
  <2>3. \A r \in Resources : StepOf(r) = i => \E k \in 1 .. NumVMs : r = <<"ip", k>>
        BY <1>4, ResourcesAre
  <2> QED BY <1>4, <2>1, <2>2, <2>3, DeployAssumption
<1>5. CASE i = 5
  <2>1. Calls(OrderedSteps[i]) = <<>>
        BY <1>5, StepsAre DEF Calls
  <2> QED BY <1>5, <2>1, ResourcesAre
<1> QED BY <1>1, <1>2, <1>3, <1>4, <1>5

\* What a step adds to what was there before it.
LEMMA BeforeGrows ==
    /\ Before(1) = {} /\ Before(5) = Resources /\ Before(6) = Resources
    /\ \A i \in 1 .. 6 : Before(i) \subseteq Resources
    /\ \A i \in 1 .. 5 : Before(i) \subseteq Before(i + 1)
    /\ \A i \in 1 .. 5 : \A r \in Resources : r \in Before(i + 1) <=> r \in Before(i) \/ StepOf(r) = i
BY ResourcesAre DEF Before

\* Nothing is returned before the first call; each call returns its resource; after the
\* last one everything of the step is there.
LEMMA ReturnedGrows ==
    ASSUME NEW i \in 1 .. 5, NEW n \in Nat \ {0}
    PROVE  /\ Returned(i, 1) = {}
           /\ n \in DOMAIN Calls(OrderedSteps[i]) =>
                 Returned(i, n + 1) = IF Calls(OrderedSteps[i])[n] = Secret THEN Returned(i, n)
                                      ELSE Returned(i, n) \cup {Calls(OrderedSteps[i])[n]}
           /\ n \notin DOMAIN Calls(OrderedSteps[i]) =>
                 Before(i) \cup Returned(i, n) = Before(i + 1)
<1> DEFINE calls == Calls(OrderedSteps[i])
<1>1. PICK last \in Nat : DOMAIN calls = 1 .. last
      BY CallsAre
<1>2. Returned(i, 1) = {}
      BY <1>1 DEF Returned
<1>3. ASSUME n \in DOMAIN calls
      PROVE  Returned(i, n + 1) = IF calls[n] = Secret THEN Returned(i, n) ELSE Returned(i, n) \cup {calls[n]}
  <2>1. calls[n] = Secret \/ (calls[n] \in Resources /\ calls[n] # Secret)
        BY <1>3, CallsAre
  <2>2. \A c \in DOMAIN calls : c < n + 1 <=> c < n \/ c = n
        BY <1>1
  <2> QED BY <1>3, <2>1, <2>2, ResourcesAre DEF Returned
<1>4. ASSUME n \notin DOMAIN calls PROVE Before(i) \cup Returned(i, n) = Before(i + 1)
  <2>1. \A c \in DOMAIN calls : c < n
        BY <1>1, <1>4
  <2>2. Returned(i, n) = {r \in Resources : \E c \in DOMAIN calls : r = calls[c]}
        BY <2>1 DEF Returned
  <2>3. \A r \in Resources : r \in Returned(i, n) <=> StepOf(r) = i
        BY <2>2, CallsAre, ResourcesAre
  <2> QED BY <2>2, <2>3, BeforeGrows
<1> QED BY <1>2, <1>3, <1>4

-----------------------------------------------------------------------------
(* Where a step may go.                                                    *)

LEMMA SagasAre == Sagas = [pc : SagaPCs, step : 1 .. 6, call : Nat \ {0}, st : DeployStates, key : BOOLEAN]
BY StepsAre DEF Sagas

LEMMA StepIsTyped ==
    ASSUME TypeOK
    PROVE  /\ saga.step \in 1 .. 6 /\ saga.call \in Nat \ {0}
           /\ saga.step < 6 => saga.step \in 1 .. 5 /\ Step \in StepNames
           /\ saga.step \in DOMAIN OrderedSteps <=> saga.step < 6
BY StepsAre DEF TypeOK, Sagas, Step

LEMMA FaultIsTyped == ASSUME TypeOK, Fault PROVE faults \in Nat /\ faults' = faults + 1 /\ faults' \in 0 .. MaxFaults
BY DeployAssumption DEF TypeOK, Fault

\* Saving one step's row leaves the others as they are.
LEMMA UpsertIs ==
    ASSUME TypeOK, saga.step < 6, NEW rec \in StepRecords, UpsertDeployStep(rec)
    PROVE  /\ steps' \in [StepNames -> StepRecords]
           /\ \A i \in 1 .. 5 :
                 steps'[OrderedSteps[i]] = IF i = saga.step THEN rec ELSE steps[OrderedSteps[i]]
<1>1. saga.step \in 1 .. 5 /\ Step \in StepNames /\ Step = OrderedSteps[saga.step]
      BY StepIsTyped DEF Step
<1>2. steps \in [StepNames -> StepRecords] /\ steps' = [steps EXCEPT ![Step] = rec]
      BY DEF TypeOK, UpsertDeployStep
<1>3. \A i \in 1 .. 5 : OrderedSteps[i] \in StepNames /\ (OrderedSteps[i] = Step <=> i = saga.step)
      BY <1>1, StepsAre
<1> HIDE DEF Step, StepNames, StepRecords
<1> QED BY <1>1, <1>2, <1>3

\* A stored secret keeps its content.
LEMMA SecretsStay ==
    ASSUME TypeOK, UNCHANGED secrets \/ PutSecret
    PROVE  /\ secrets' \in Seq(BOOLEAN)
           /\ \A id \in DOMAIN secrets : id \in DOMAIN secrets' /\ secrets'[id] = secrets[id]
<1>1. saga.key \in BOOLEAN /\ secrets \in Seq(BOOLEAN)
      BY DEF TypeOK, Sagas
<1> QED BY <1>1 DEF PutSecret

-----------------------------------------------------------------------------
(* The invariant.                                                          *)

LEMMA InitHolds == Init => IInv
<1> SUFFICES ASSUME Init PROVE IInv
    OBVIOUS
<1>1. \A i \in 1 .. 5 : steps[OrderedSteps[i]] = PendingStep
      BY StepsAre DEF Init
<1>2. NoState \in DeployStates
      BY DEF NoState, DeployStates
<1>3. TypeOK
  <2>1. PendingStep \in StepRecords
        BY <1>2 DEF PendingStep, StepRecords
  <2>2. IdleSaga \in Sagas
        BY <1>2, StepsAre DEF IdleSaga, Sagas, SagaPCs
  <2> QED BY <1>2, <2>1, <2>2, DeployAssumption DEF Init, TypeOK
<1>4. PhaseAgrees /\ SagaIsComplete /\ RowIsComplete
      BY DEF Init, IdleSaga, PhaseAgrees, SagaIsComplete, RowIsComplete
<1>5. ResultsAreComplete /\ BudgetIsKept
      BY <1>1, DeployAssumption DEF Init, IdleSaga, PendingStep, ResultsAreComplete, BudgetIsKept, Succeeded
<1> QED BY <1>3, <1>4, <1>5 DEF IInv

LEMMA StartKeeps == ASSUME IInv, Start PROVE IInv'
<1>1. saga = IdleSaga /\ UNCHANGED <<row, steps, made, secrets, followUp, faults>>
      BY DEF Start, IInv, PhaseAgrees
<1>2. \/ row.state = "deploying" /\ task' = [task EXCEPT !.status = "active"] /\ saga' = [IdleSaga EXCEPT !.pc = "next"]
      \/ row.state # "deploying" /\ task' = [task EXCEPT !.status = "done"] /\ saga' = IdleSaga
      BY <1>1 DEF Start, Goto, Complete
<1>3. TypeOK'
      BY <1>1, <1>2 DEF IInv, TypeOK, Sagas, SagaPCs, IdleSaga
<1>4. PhaseAgrees'
      BY <1>1, <1>2 DEF Start, IInv, TypeOK, PhaseAgrees, IdleSaga
<1>5. ResultsAreComplete'
  <2>1. \A i \in 1 .. 5 : Succeeded(i)' <=> Succeeded(i)
        BY <1>1 DEF Succeeded
  <2>2. \A i \in 1 .. 5 : Succeeded(i)' => IsComplete(steps[OrderedSteps[i]].result, i + 1)'
        BY <1>1, <2>1 DEF IInv, ResultsAreComplete, IsComplete, Holds
  <2>3. saga'.step = 1
        BY <1>1, <1>2 DEF IdleSaga
  <2>4. \A r \in made' : \A i \in 1 .. 5 : i < StepOf(r) => Succeeded(i)'
        BY <1>1, <2>1 DEF IInv, ResultsAreComplete
  <2> QED BY <2>2, <2>3, <2>4 DEF ResultsAreComplete
<1>6. SagaIsComplete'
      BY <1>1, <1>2, BeforeGrows DEF SagaIsComplete, IsComplete, IdleSaga, NoState
<1>7. RowIsComplete'
      BY <1>1 DEF IInv, RowIsComplete, IsComplete, Holds, Succeeded
<1>8. BudgetIsKept'
      BY <1>1, <1>2 DEF IInv, BudgetIsKept, Succeeded, IdleSaga
<1> QED BY <1>3, <1>4, <1>5, <1>6, <1>7, <1>8 DEF IInv

LEMMA LoadStepKeeps == ASSUME IInv, LoadStep PROVE IInv'
<1>1. /\ saga.pc = "next" /\ saga.step \in 1 .. 5 /\ Step \in StepNames
      /\ saga \in Sagas /\ row.state = "deploying" /\ task.status = "active" /\ followUp = "none"
      BY StepIsTyped DEF LoadStep, IInv, TypeOK, PhaseAgrees
<1>2. UNCHANGED <<row, steps, task, made, secrets, followUp, faults>>
      BY DEF LoadStep
<1>3. steps[Step].result \in DeployStates
      BY <1>1 DEF IInv, TypeOK, StepRecords
<1>4. \/ /\ Succeeded(saga.step)
         /\ saga' = [saga EXCEPT !.step = @ + 1, !.st = steps[Step].result]
      \/ /\ ~ Succeeded(saga.step)
         /\ saga' = [saga EXCEPT !.pc = "begin"]
      BY DEF LoadStep, Succeeded, Step
<1>s. /\ saga' \in Sagas
      /\ saga'.pc = IF Succeeded(saga.step) THEN "next" ELSE "begin"
      /\ saga'.step = IF Succeeded(saga.step) THEN saga.step + 1 ELSE saga.step
      /\ saga'.st = IF Succeeded(saga.step) THEN steps[Step].result ELSE saga.st
  <2>1. "begin" \in SagaPCs /\ "next" \in SagaPCs /\ saga.step + 1 \in 1 .. 6
        BY <1>1 DEF SagaPCs
  <2>2. CASE Succeeded(saga.step)
    <3>1. /\ saga'.pc = "next" /\ saga'.step = saga.step + 1 /\ saga'.st = steps[Step].result
          /\ saga' = [pc |-> saga'.pc, step |-> saga'.step, call |-> saga.call, st |-> saga'.st, key |-> saga.key]
          BY <1>1, <1>4, <2>2, SagasAre
    <3> QED BY <1>1, <1>3, <2>1, <2>2, <3>1, SagasAre
  <2>3. CASE ~ Succeeded(saga.step)
    <3>1. /\ saga'.pc = "begin" /\ saga'.step = saga.step /\ saga'.st = saga.st
          /\ saga' = [pc |-> saga'.pc, step |-> saga.step, call |-> saga.call, st |-> saga.st, key |-> saga.key]
          BY <1>1, <1>4, <2>3, SagasAre
    <3> QED BY <1>1, <2>1, <2>3, <3>1, SagasAre
  <2> QED BY <2>2, <2>3
<1>5. TypeOK'
  <2>1. saga' \in Sagas
        BY <1>s
  <2> QED BY <1>2, <2>1 DEF IInv, TypeOK
<1>6. PhaseAgrees'
      BY <1>1, <1>2, <1>s DEF IInv, PhaseAgrees, Succeeded
<1>7. ResultsAreComplete'
  <2>1. \A i \in 1 .. 5 : Succeeded(i)' <=> Succeeded(i)
        BY <1>2 DEF Succeeded
  <2>2. \A i \in 1 .. 5 : Succeeded(i)' => IsComplete(steps[OrderedSteps[i]].result, i + 1)'
        BY <1>2, <2>1 DEF IInv, ResultsAreComplete, IsComplete, Holds
  <2>3. \A i \in 1 .. 5 : i < saga'.step => Succeeded(i)'
        BY <1>1, <1>s, <2>1 DEF IInv, ResultsAreComplete
  <2>4. \A r \in made' : \A i \in 1 .. 5 : i < StepOf(r) => Succeeded(i)'
        BY <1>2, <2>1 DEF IInv, ResultsAreComplete
  <2> QED BY <2>2, <2>3, <2>4 DEF ResultsAreComplete
<1>8. SagaIsComplete'
      BY <1>1, <1>2, <1>s DEF IInv, ResultsAreComplete, SagaIsComplete, IsComplete, Holds, Step
<1>9. RowIsComplete'
      BY <1>2 DEF IInv, RowIsComplete, IsComplete, Holds, Succeeded
<1>10. BudgetIsKept'
      BY <1>1, <1>2, <1>s DEF IInv, BudgetIsKept, Succeeded
<1> QED BY <1>5, <1>6, <1>7, <1>8, <1>9, <1>10 DEF IInv

LEMMA BeginStepKeeps == ASSUME IInv, BeginStep PROVE IInv'
<1>r. PICK rec : rec = [steps[Step] EXCEPT !.status = "in_progress", !.attempt = @ + 1]
      OBVIOUS
<1>1. /\ saga.pc = "begin" /\ saga.step \in 1 .. 5 /\ Step \in StepNames /\ Step = OrderedSteps[saga.step]
      /\ saga \in Sagas /\ row.state = "deploying" /\ task.status = "active" /\ followUp = "none"
      /\ ~ Succeeded(saga.step)
      BY StepIsTyped DEF BeginStep, IInv, TypeOK, PhaseAgrees, Step
<1>2. UNCHANGED <<row, task, made, secrets, followUp, faults>>
      BY DEF BeginStep
<1>3. rec \in StepRecords /\ rec.status = "in_progress" /\ rec.attempt = steps[Step].attempt + 1
  <2>1. steps[Step] \in StepRecords
        BY <1>1 DEF IInv, TypeOK
  <2>2. /\ rec.status = "in_progress" /\ rec.attempt = steps[Step].attempt + 1
        /\ rec = [status |-> rec.status, attempt |-> rec.attempt, result |-> steps[Step].result]
        /\ steps[Step].attempt \in Nat /\ steps[Step].result \in DeployStates
        BY <1>r, <2>1 DEF StepRecords
  <2> QED BY <2>2 DEF StepRecords
<1>4. /\ steps' \in [StepNames -> StepRecords]
      /\ \A i \in 1 .. 5 : steps'[OrderedSteps[i]] = IF i = saga.step THEN rec ELSE steps[OrderedSteps[i]]
      BY <1>r, <1>1, <1>3, UpsertIs DEF BeginStep, IInv
<1>5. /\ saga' \in Sagas /\ saga'.pc = "call" /\ saga'.call = 1
      /\ saga'.step = saga.step /\ saga'.st = saga.st
  <2>1. saga' = [saga EXCEPT !.pc = "call", !.call = 1]
        BY DEF BeginStep
  <2>2. /\ saga'.pc = "call" /\ saga'.call = 1 /\ saga'.step = saga.step /\ saga'.st = saga.st
        /\ saga' = [pc |-> saga'.pc, step |-> saga.step, call |-> saga'.call, st |-> saga.st, key |-> saga.key]
        BY <1>1, <2>1, SagasAre
  <2>3. "call" \in SagaPCs /\ 1 \in Nat \ {0}
        BY DEF SagaPCs
  <2> QED BY <1>1, <2>2, <2>3, SagasAre
<1>6. TypeOK'
      BY <1>2, <1>4, <1>5 DEF IInv, TypeOK
<1>7. \A i \in 1 .. 5 : /\ Succeeded(i)' <=> Succeeded(i)
                        /\ Succeeded(i) => steps'[OrderedSteps[i]] = steps[OrderedSteps[i]]
  <2> QED BY <1>1, <1>3, <1>4 DEF Succeeded
<1>8. PhaseAgrees'
      BY <1>1, <1>2, <1>5, <1>7 DEF PhaseAgrees
<1>9. ResultsAreComplete'
      BY <1>1, <1>2, <1>5, <1>7 DEF IInv, ResultsAreComplete, IsComplete, Holds
<1>10. SagaIsComplete'
  <2>1. Returned(saga.step, 1) = {}
        BY <1>1, 1 \in Nat \ {0}, ReturnedGrows
  <2> QED BY <1>1, <1>2, <1>5, <2>1 DEF IInv, SagaIsComplete, IsComplete, Holds
<1>11. RowIsComplete'
      BY <1>1, <1>2 DEF IInv, RowIsComplete
<1>12. BudgetIsKept'
  <2>1. rec.attempt <= MaxAttempts + faults
    <3>1. steps[Step].attempt # MaxAttempts + faults /\ steps[Step].attempt <= MaxAttempts + faults
          BY <1>1 DEF IInv, BudgetIsKept
    <3>2. steps[Step].attempt \in Nat /\ MaxAttempts + faults \in Nat
          BY <1>1, DeployAssumption DEF IInv, TypeOK, StepRecords
    <3> QED BY <1>3, <3>1, <3>2
  <2> QED BY <1>1, <1>2, <1>4, <1>5, <1>7, <2>1 DEF IInv, BudgetIsKept
<1> QED BY <1>6, <1>8, <1>9, <1>10, <1>11, <1>12 DEF IInv

\* A call that takes effect adds one resource of the step at work, or a secret.
LEMMA EffectIs ==
    ASSUME IInv, Calling, Effect
    PROVE  LET new == {NextCall} \ {Secret}
           IN  /\ made' = made \cup new /\ new \subseteq Resources
               /\ \A r \in new : StepOf(r) = saga.step
               /\ secrets' = IF NextCall = Secret THEN Append(secrets, saga.key) ELSE secrets
               /\ NextCall = Secret => saga.step = 1 /\ saga.call = 2
<1>1. saga.step \in 1 .. 5 /\ Step = OrderedSteps[saga.step] /\ saga.call \in DOMAIN Calls(OrderedSteps[saga.step])
      BY StepIsTyped DEF Calling, IInv, TypeOK, PhaseAgrees, Step
<1>2. \/ NextCall = Secret /\ saga.step = 1 /\ saga.call = 2
      \/ NextCall \in Resources /\ NextCall # Secret /\ StepOf(NextCall) = saga.step
      BY <1>1, CallsAre DEF NextCall
<1> HIDE DEF NextCall, Secret, StepOf, Resources
<1> QED BY <1>2 DEF Effect, PutSecret

\* What is on record stays complete while calls take effect.
LEMMA EffectKeeps ==
    ASSUME IInv, Calling, Effect \/ UNCHANGED <<made, secrets>>, UNCHANGED <<row, steps, followUp, faults>>,
           saga' \in Sagas, saga'.step = saga.step, saga'.pc \in {"call", "failed"}, UNCHANGED task
    PROVE  TypeOK' /\ PhaseAgrees' /\ ResultsAreComplete' /\ RowIsComplete' /\ BudgetIsKept'
<1>1. saga.pc = "call" /\ row.state = "deploying" /\ saga.step \in 1 .. 5
      BY StepIsTyped DEF Calling, IInv, TypeOK, PhaseAgrees
<1>2. /\ made \subseteq made' /\ made' \subseteq Resources
      /\ \A r \in made' \ made : StepOf(r) = saga.step
      BY EffectIs DEF IInv, TypeOK
<1>3. UNCHANGED secrets \/ PutSecret
      BY DEF Effect
<1>4. /\ secrets' \in Seq(BOOLEAN)
      /\ \A id \in DOMAIN secrets : id \in DOMAIN secrets' /\ secrets'[id] = secrets[id]
      BY <1>3, SecretsStay DEF IInv
<1>5. TypeOK'
      BY <1>2, <1>4 DEF IInv, TypeOK
<1>6. PhaseAgrees'
      BY <1>1 DEF IInv, PhaseAgrees, Succeeded
<1>7. ResultsAreComplete'
  <2>1. \A i \in 1 .. 5 : Succeeded(i)' <=> Succeeded(i)
        BY DEF Succeeded
  <2>2. \A i \in 1 .. 5 : Succeeded(i) => IsComplete(steps[OrderedSteps[i]].result, i + 1)'
        BY <1>2, <1>4 DEF IInv, ResultsAreComplete, IsComplete, Holds
  <2>3. \A i \in 1 .. 5 : i < saga.step => Succeeded(i)
        BY <1>1 DEF IInv, ResultsAreComplete
  <2> QED BY <1>1, <1>2, <2>1, <2>2, <2>3 DEF IInv, ResultsAreComplete
<1>8. RowIsComplete'
      BY <1>1 DEF IInv, RowIsComplete
<1>9. BudgetIsKept'
      BY <1>1 DEF IInv, BudgetIsKept, Succeeded
<1> QED BY <1>5, <1>6, <1>7, <1>8, <1>9

LEMMA CallFailsKeeps == ASSUME IInv, CallFails PROVE IInv'
<1>1. /\ Calling /\ (Effect \/ UNCHANGED <<made, secrets>>)
      /\ UNCHANGED <<row, steps, task, followUp, faults>>
      BY DEF CallFails
<1>2. saga' \in Sagas /\ saga'.step = saga.step /\ saga'.pc = "failed"
      BY SagasAre DEF CallFails, Goto, SagaPCs, IInv, TypeOK
<1>3. TypeOK' /\ PhaseAgrees' /\ ResultsAreComplete' /\ RowIsComplete' /\ BudgetIsKept'
      BY <1>1, <1>2, EffectKeeps
<1>4. SagaIsComplete'
      BY <1>2 DEF SagaIsComplete
<1> QED BY <1>3, <1>4 DEF IInv

LEMMA CallReturnsKeeps == ASSUME IInv, CallReturns PROVE IInv'
<1>1. Calling /\ Effect /\ UNCHANGED <<row, steps, task, followUp, faults>>
      BY DEF CallReturns
<1>2. /\ saga \in Sagas /\ saga.pc = "call" /\ saga.step \in 1 .. 5 /\ saga.call \in Nat \ {0}
      /\ saga.call \in DOMAIN Calls(OrderedSteps[saga.step])
      /\ NextCall = Calls(OrderedSteps[saga.step])[saga.call]
      BY <1>1, StepIsTyped DEF Calling, IInv, TypeOK, PhaseAgrees, Step, NextCall
<1>3. secrets \in Seq(BOOLEAN) /\ secrets' \in Seq(BOOLEAN)
      BY <1>1, SecretsStay DEF IInv, TypeOK, Effect
<1>4. /\ Returned(saga.step, saga.call + 1) =
            IF NextCall = Secret THEN Returned(saga.step, saga.call)
            ELSE Returned(saga.step, saga.call) \cup {NextCall}
      BY <1>2, ReturnedGrows
<1>5. \/ NextCall = Secret /\ saga.step = 1 /\ saga.call = 2
      \/ NextCall \in Resources /\ NextCall # Secret /\ (saga.step = 1 => saga.call = 1)
      BY <1>2, CallsAre
<1>6. CASE NextCall = Secret
  <2>1. saga' = [saga EXCEPT !.call = @ + 1, !.st.secret = Len(secrets')]
        BY <1>6 DEF CallReturns
  <2>2. secrets' = Append(secrets, saga.key) /\ made' = made
        BY <1>1, <1>6 DEF Effect, PutSecret
  <2>3. Len(secrets') \in Nat /\ Len(secrets') \in DOMAIN secrets' /\ secrets'[Len(secrets')] = saga.key
        BY <1>3, <2>2, <1>2, SagasAre
  <2>4. /\ saga' \in Sagas /\ saga'.pc = "call" /\ saga'.step = saga.step /\ saga'.call = saga.call + 1
        /\ saga'.st.handles = saga.st.handles /\ saga'.st.secret = Len(secrets')
    <3>1. /\ saga'.pc = "call" /\ saga'.step = saga.step /\ saga'.call = saga.call + 1
          /\ saga' = [pc |-> saga.pc, step |-> saga.step, call |-> saga'.call, st |-> saga'.st, key |-> saga.key]
          BY <1>2, <2>1, SagasAre
    <3>2. /\ saga'.st.handles = saga.st.handles /\ saga'.st.secret = Len(secrets')
          /\ saga'.st = [handles |-> saga.st.handles, secret |-> saga'.st.secret]
          BY <1>2, <2>1, SagasAre DEF DeployStates
    <3>3. saga'.st \in DeployStates /\ saga.call + 1 \in Nat \ {0}
          BY <1>2, <2>3, <3>2, SagasAre DEF DeployStates
    <3> QED BY <1>2, <3>1, <3>2, <3>3, SagasAre
  <2>5. TypeOK' /\ PhaseAgrees' /\ ResultsAreComplete' /\ RowIsComplete' /\ BudgetIsKept'
        BY <1>1, <2>4, EffectKeeps
  <2>6. KeyIsReturned => saga.key
        BY <1>2, <1>5, <1>6 DEF IInv, SagaIsComplete
  <2>7. SagaIsComplete'
        BY <1>2, <1>4, <1>5, <1>6, <2>2, <2>3, <2>4, <2>6 DEF IInv, SagaIsComplete, Holds
  <2> QED BY <2>5, <2>7 DEF IInv
<1>7. CASE NextCall # Secret
  <2>1. saga' = [saga EXCEPT !.call = @ + 1, !.st.handles = @ \cup {NextCall},
                             !.key = IF NextCall = Keypair THEN KeyReturned ELSE @]
        BY <1>7 DEF CallReturns
  <2>2. made' = made \cup {NextCall} /\ secrets' = secrets
        BY <1>1, <1>7 DEF Effect
  <2>3. KeyReturned \in BOOLEAN /\ (KeyIsReturned => KeyReturned)
        BY DeployAssumption DEF KeyReturned
  <2>4. /\ saga' \in Sagas /\ saga'.pc = "call" /\ saga'.step = saga.step /\ saga'.call = saga.call + 1
        /\ saga'.st.handles = saga.st.handles \cup {NextCall} /\ saga'.st.secret = saga.st.secret
        /\ NextCall = Keypair => saga'.key = KeyReturned
    <3>1. /\ saga.st \in DeployStates /\ saga.st.handles \subseteq Resources /\ saga.st.secret \in Nat
          /\ saga.key \in BOOLEAN
          BY <1>2, SagasAre DEF DeployStates
    <3> HIDE DEF NextCall, Keypair, KeyReturned, Resources
    <3>2. /\ saga'.pc = "call" /\ saga'.step = saga.step /\ saga'.call = saga.call + 1
          /\ saga'.key = IF NextCall = Keypair THEN KeyReturned ELSE saga.key
          /\ saga' = [pc |-> saga.pc, step |-> saga.step, call |-> saga'.call, st |-> saga'.st, key |-> saga'.key]
          BY <1>2, <2>1, SagasAre
    <3>3. /\ saga'.st.handles = saga.st.handles \cup {NextCall} /\ saga'.st.secret = saga.st.secret
          /\ saga'.st = [handles |-> saga'.st.handles, secret |-> saga.st.secret]
          BY <1>2, <2>1, SagasAre DEF DeployStates
    <3>4. saga'.st \in DeployStates /\ saga'.call \in Nat \ {0} /\ saga'.key \in BOOLEAN
          BY <1>2, <1>5, <1>7, <2>3, <3>1, <3>2, <3>3 DEF DeployStates
    <3> QED BY <1>2, <3>2, <3>3, <3>4, SagasAre
  <2>5. TypeOK' /\ PhaseAgrees' /\ ResultsAreComplete' /\ RowIsComplete' /\ BudgetIsKept'
        BY <1>1, <2>4, EffectKeeps
  <2>6. saga.step = 1 => NextCall = Keypair /\ saga.call = 1
    <3>1. saga.step = 1 => StepOf(NextCall) = 1
          BY <1>2, <1>7, CallsAre
    <3> QED BY <1>5, <1>7, <3>1, ResourcesAre
  <2>7. SagaIsComplete'
    <3> HIDE DEF NextCall, Keypair, KeyReturned, Resources
    <3> QED BY <1>2, <1>4, <1>7, <2>2, <2>3, <2>4, <2>6 DEF IInv, SagaIsComplete, Holds
  <2> QED BY <2>5, <2>7 DEF IInv
<1> QED BY <1>6, <1>7

LEMMA StepReturnsKeeps == ASSUME IInv, StepReturns PROVE IInv'
<1>1. /\ saga.pc = "call" /\ saga.step \in 1 .. 5 /\ saga.call \in Nat \ {0}
      /\ saga.call \notin DOMAIN Calls(OrderedSteps[saga.step])
      BY StepIsTyped DEF StepReturns, IInv, TypeOK, PhaseAgrees, Step
<1>2. UNCHANGED <<row, steps, task, made, secrets, followUp, faults>>
      BY DEF StepReturns
<1>3. saga' \in Sagas /\ saga'.pc = "record" /\ saga'.step = saga.step /\ saga'.st = saga.st
      BY SagasAre DEF StepReturns, Goto, SagaPCs, IInv, TypeOK
<1>4. TypeOK' /\ PhaseAgrees'
      BY <1>1, <1>2, <1>3 DEF IInv, TypeOK, PhaseAgrees, Succeeded
<1>5. ResultsAreComplete' /\ RowIsComplete'
      BY <1>1, <1>2, <1>3 DEF IInv, ResultsAreComplete, RowIsComplete, Succeeded, IsComplete, Holds
<1>6. SagaIsComplete'
  <2>1. Before(saga.step) \cup Returned(saga.step, saga.call) = Before(saga.step + 1)
        BY <1>1, ReturnedGrows
  <2>2. saga.step = 1 => saga.call > 2
        BY <1>1, CallsAre
  <2>3. saga.st.handles = Before(saga.step + 1) /\ saga.st.handles \subseteq made
        BY <1>1, <2>1 DEF IInv, SagaIsComplete
  <2>4. Holds(saga.st.secret)
        BY <1>1, <2>2 DEF IInv, SagaIsComplete
  <2>5. IsComplete(saga.st, saga.step + 1)
        BY <2>3, <2>4 DEF IsComplete
  <2>6. IsComplete(saga.st, saga.step + 1)'
        BY <1>2, <1>3, <2>5 DEF IsComplete, Holds
  <2> QED BY <1>3, <2>6 DEF SagaIsComplete
<1>7. BudgetIsKept'
      BY <1>1, <1>2, <1>3 DEF IInv, BudgetIsKept, Succeeded
<1> QED BY <1>4, <1>5, <1>6, <1>7 DEF IInv

LEMMA RecordSuccessKeeps == ASSUME IInv, RecordSuccess PROVE IInv'
<1>r. PICK rec : rec = [steps[Step] EXCEPT !.status = "succeeded", !.result = saga.st]
      OBVIOUS
<1>1. /\ saga.pc = "record" /\ saga.step \in 1 .. 5 /\ Step \in StepNames /\ Step = OrderedSteps[saga.step]
      /\ saga \in Sagas /\ row.state = "deploying" /\ task.status = "active" /\ followUp = "none"
      BY StepIsTyped DEF RecordSuccess, IInv, TypeOK, PhaseAgrees, Step
<1>2. UNCHANGED <<row, task, made, secrets, followUp, faults>>
      BY DEF RecordSuccess
<1>3. rec \in StepRecords /\ rec.status = "succeeded" /\ rec.result = saga.st /\ rec.attempt = steps[Step].attempt
  <2>1. steps[Step] \in StepRecords /\ saga.st \in DeployStates
        BY <1>1, SagasAre DEF IInv, TypeOK
  <2>2. /\ rec.status = "succeeded" /\ rec.result = saga.st /\ rec.attempt = steps[Step].attempt
        /\ rec = [status |-> rec.status, attempt |-> steps[Step].attempt, result |-> rec.result]
        /\ steps[Step].attempt \in Nat
        BY <1>r, <2>1 DEF StepRecords
  <2> QED BY <2>1, <2>2 DEF StepRecords
<1>4. /\ steps' \in [StepNames -> StepRecords]
      /\ \A i \in 1 .. 5 : steps'[OrderedSteps[i]] = IF i = saga.step THEN rec ELSE steps[OrderedSteps[i]]
      BY <1>r, <1>1, <1>3, UpsertIs DEF RecordSuccess, IInv
<1>5. /\ saga' \in Sagas /\ saga'.pc = "next"
      /\ saga'.step = saga.step + 1 /\ saga'.st = saga.st
  <2>1. saga' = [saga EXCEPT !.pc = "next", !.step = saga.step + 1]
        BY DEF RecordSuccess
  <2>2. /\ saga'.pc = "next" /\ saga'.step = saga.step + 1 /\ saga'.st = saga.st
        /\ saga' = [pc |-> saga'.pc, step |-> saga'.step, call |-> saga.call, st |-> saga.st, key |-> saga.key]
        BY <1>1, <2>1, SagasAre
  <2>3. "next" \in SagaPCs /\ saga.step + 1 \in 1 .. 6
        BY <1>1 DEF SagaPCs
  <2> QED BY <1>1, <2>2, <2>3, SagasAre
<1>6. \A i \in 1 .. 5 : Succeeded(i)' <=> Succeeded(i) \/ i = saga.step
      BY <1>1, <1>3, <1>4 DEF Succeeded
<1>7. TypeOK' /\ PhaseAgrees'
      BY <1>1, <1>2, <1>4, <1>5 DEF IInv, TypeOK, PhaseAgrees
<1>8. IsComplete(saga.st, saga.step + 1)
      BY <1>1 DEF IInv, SagaIsComplete
<1>9. ResultsAreComplete'
  <2>1. \A i \in 1 .. 5 : Succeeded(i)' => IsComplete(steps[OrderedSteps[i]].result, i + 1)'
        BY <1>1, <1>2, <1>3, <1>4, <1>6, <1>8 DEF IInv, ResultsAreComplete, IsComplete, Holds
  <2> QED BY <1>1, <1>2, <1>5, <1>6, <2>1 DEF IInv, ResultsAreComplete
<1>10. SagaIsComplete'
      BY <1>2, <1>5, <1>8 DEF SagaIsComplete, IsComplete, Holds
<1>11. RowIsComplete'
      BY <1>1, <1>2 DEF IInv, RowIsComplete
<1>12. BudgetIsKept'
      BY <1>1, <1>2, <1>3, <1>4, <1>5, <1>6 DEF IInv, BudgetIsKept
<1> QED BY <1>7, <1>9, <1>10, <1>11, <1>12 DEF IInv

\* The saga ends its call, without or with the loss of a fault; what it saved stays.
LEMMA IdleIsTyped == IdleSaga \in Sagas /\ IdleSaga.pc = "idle"
BY SagasAre DEF IdleSaga, SagaPCs, DeployStates, NoState

LEMMA RetryIs ==
    ASSUME TypeOK, Retry
    PROVE  /\ saga' = IdleSaga /\ saga' \in Sagas /\ saga'.pc = "idle"
           /\ task' \in [status : {"pending", "active", "done", "archived"}, retried : 0 .. MaxRetries]
           /\ task'.status # "active"
<1>1. task.status \in {"pending", "active", "done", "archived"} /\ task.retried \in 0 .. MaxRetries
      BY DEF TypeOK
<1>2. CASE task.retried < MaxRetries
      BY <1>1, <1>2, IdleIsTyped, DeployAssumption DEF Retry
<1>3. CASE ~ task.retried < MaxRetries
      BY <1>1, <1>3, IdleIsTyped DEF Retry, TypeOK
<1> QED BY <1>2, <1>3

LEMMA BudgetIsTight ==
    ASSUME NEW spent \in Nat, NEW budget \in Nat, NEW before \in Nat, NEW after \in Nat,
           spent <= budget + before, before <= after, spent = budget + after
    PROVE  spent = budget + before
OBVIOUS

LEMMA RecordFailureKeeps == ASSUME IInv, RecordFailure PROVE IInv'
<1>r. PICK rec : rec = [steps[Step] EXCEPT !.status = "failed"]
      OBVIOUS
<1>1. /\ saga.pc = "failed" /\ saga.step \in 1 .. 5 /\ Step \in StepNames /\ Step = OrderedSteps[saga.step]
      /\ saga \in Sagas /\ row.state = "deploying" /\ task.status = "active" /\ followUp = "none"
      /\ ~ Succeeded(saga.step) /\ steps[Step] \in StepRecords
      BY StepIsTyped DEF RecordFailure, IInv, TypeOK, PhaseAgrees, Step
<1>2. UNCHANGED <<row, made, secrets, followUp>>
      BY DEF RecordFailure
<1>3. rec \in StepRecords /\ rec.status = "failed" /\ rec.attempt = steps[Step].attempt
      BY <1>r, <1>1 DEF StepRecords
<1>4. /\ steps' \in [StepNames -> StepRecords]
      /\ \A i \in 1 .. 5 : steps'[OrderedSteps[i]].attempt = steps[OrderedSteps[i]].attempt
      /\ \A i \in 1 .. 5 : Succeeded(i)' <=> Succeeded(i)
      /\ \A i \in 1 .. 5 : Succeeded(i) => steps'[OrderedSteps[i]] = steps[OrderedSteps[i]]
  <2>1. CASE UpsertDeployStep(rec)
    <3>1. /\ steps' \in [StepNames -> StepRecords]
          /\ \A i \in 1 .. 5 : steps'[OrderedSteps[i]] = IF i = saga.step THEN rec ELSE steps[OrderedSteps[i]]
          BY <1>1, <1>3, <2>1, UpsertIs DEF IInv
    <3> QED BY <1>1, <1>3, <3>1 DEF Succeeded
  <2>2. CASE UNCHANGED steps
        BY <2>2 DEF IInv, TypeOK, Succeeded
  <2> QED BY <1>r, <2>1, <2>2 DEF RecordFailure
<1>5. faults \in Nat /\ faults' \in 0 .. MaxFaults /\ faults' >= faults
      BY FaultIsTyped, DeployAssumption DEF RecordFailure, IInv, TypeOK
<1>6. \/ /\ steps[Step].attempt >= MaxAttempts /\ task' = task
         /\ saga' \in Sagas /\ saga'.pc = "fail" /\ saga'.step = saga.step
      \/ /\ ~ steps[Step].attempt >= MaxAttempts
         /\ saga' = IdleSaga /\ saga' \in Sagas /\ saga'.pc = "idle"
         /\ task' \in [status : {"pending", "active", "done", "archived"}, retried : 0 .. MaxRetries]
         /\ task'.status # "active"
  <2>1. CASE steps[Step].attempt >= MaxAttempts
    <3>1. saga' = [saga EXCEPT !.pc = "fail"] /\ task' = task
          BY <2>1 DEF RecordFailure, Goto
    <3> QED BY <1>1, <2>1, <3>1, SagasAre DEF SagaPCs
  <2>2. CASE ~ steps[Step].attempt >= MaxAttempts
        BY <2>2, RetryIs DEF RecordFailure, IInv
  <2> QED BY <2>1, <2>2
<1>7. TypeOK'
      BY <1>2, <1>4, <1>5, <1>6 DEF IInv, TypeOK
<1>8. PhaseAgrees'
      BY <1>1, <1>2, <1>6 DEF PhaseAgrees
<1>9. ResultsAreComplete'
      BY <1>1, <1>2, <1>4, <1>6 DEF IInv, ResultsAreComplete, IsComplete, Holds
<1>10. SagaIsComplete' /\ RowIsComplete'
      BY <1>1, <1>2, <1>6 DEF IInv, SagaIsComplete, RowIsComplete
<1>11. BudgetIsKept'
  <2>1. ASSUME NEW i \in 1 .. 5
        PROVE  LET spent == steps'[OrderedSteps[i]].attempt
               IN  /\ spent <= MaxAttempts + faults'
                   /\ spent = MaxAttempts + faults' =>
                        \/ Succeeded(i)'
                        \/ saga'.step = i /\ saga'.pc \in {"call", "record", "failed", "fail"}
    <3>1. /\ steps[OrderedSteps[i]].attempt <= MaxAttempts + faults
          /\ steps[OrderedSteps[i]].attempt = MaxAttempts + faults => Succeeded(i) \/ saga.step = i
          BY <1>1 DEF IInv, BudgetIsKept
    <3>2. steps[OrderedSteps[i]].attempt \in Nat
          BY StepsAre DEF IInv, TypeOK, StepRecords
    <3>3. /\ steps'[OrderedSteps[i]].attempt = steps[OrderedSteps[i]].attempt
          /\ Succeeded(i)' <=> Succeeded(i)
          BY <1>4
    <3>4. CASE i = saga.step
      <4>1. \/ saga'.step = i /\ saga'.pc = "fail"
            \/ ~ steps[OrderedSteps[i]].attempt >= MaxAttempts
            BY <1>1, <1>6, <3>4
      <4>2. steps'[OrderedSteps[i]].attempt <= MaxAttempts + faults'
            BY <1>5, <3>1, <3>2, <3>3, DeployAssumption
      <4>3. ~ steps[OrderedSteps[i]].attempt >= MaxAttempts => steps'[OrderedSteps[i]].attempt # MaxAttempts + faults'
            BY <1>5, <3>2, <3>3, DeployAssumption
      <4> QED BY <4>1, <4>2, <4>3
    <3>5. CASE i # saga.step
      <4>1. steps[OrderedSteps[i]].attempt = MaxAttempts + faults => Succeeded(i)
            BY <3>1, <3>5
      <4>2. steps[OrderedSteps[i]].attempt <= MaxAttempts + faults'
            BY <1>5, <3>1, <3>2, DeployAssumption
      <4>3. ASSUME steps[OrderedSteps[i]].attempt = MaxAttempts + faults'
            PROVE  steps[OrderedSteps[i]].attempt = MaxAttempts + faults
        <5>1. MaxAttempts \in Nat /\ faults \in Nat /\ faults' \in Nat /\ faults <= faults'
              BY <1>5, DeployAssumption
        <5> QED BY <3>1, <3>2, <4>3, <5>1, BudgetIsTight
      <4> QED BY <3>3, <4>1, <4>2, <4>3
    <3> QED BY <3>4, <3>5
  <2>2. saga'.pc = "fail" => steps'[Step'].attempt >= MaxAttempts
        BY <1>1, <1>4, <1>6 DEF Step
  <2>3. row'.state # "failed"
        BY <1>1, <1>2
  <2> QED BY <2>1, <2>2, <2>3 DEF BudgetIsKept
<1> QED BY <1>7, <1>8, <1>9, <1>10, <1>11 DEF IInv

LEMMA SucceedKeeps == ASSUME IInv, Succeed PROVE IInv'
<1>1. /\ saga.pc = "next" /\ saga.step = 6 /\ saga \in Sagas /\ row.state = "deploying"
      /\ task.status = "active" /\ followUp = "none"
      BY StepIsTyped DEF Succeed, IInv, TypeOK, PhaseAgrees
<1>2. UNCHANGED <<steps, task, made, secrets, followUp, faults>> /\ row' = [state |-> "ready", known |-> saga.st]
      BY DEF Succeed
<1>3. saga' \in Sagas /\ saga'.pc = "hand_off" /\ saga'.step = saga.step
      BY <1>1, SagasAre DEF Succeed, Goto, SagaPCs
<1>4. TypeOK' /\ PhaseAgrees'
      BY <1>1, <1>2, <1>3, SagasAre DEF IInv, TypeOK, PhaseAgrees
<1>5. ResultsAreComplete' /\ SagaIsComplete'
      BY <1>1, <1>2, <1>3 DEF IInv, ResultsAreComplete, SagaIsComplete, Succeeded, IsComplete, Holds
<1>6. RowIsComplete'
      BY <1>1, <1>2 DEF IInv, ResultsAreComplete, SagaIsComplete, RowIsComplete, Succeeded, IsComplete, Holds
<1>7. BudgetIsKept'
      BY <1>1, <1>2, <1>3 DEF IInv, BudgetIsKept, Succeeded
<1> QED BY <1>4, <1>5, <1>6, <1>7 DEF IInv

LEMMA FailLabKeeps == ASSUME IInv, FailLab PROVE IInv'
<1>1. /\ saga.pc = "fail" /\ saga.step \in 1 .. 5 /\ Step \in StepNames /\ saga \in Sagas
      /\ row.state = "deploying" /\ task.status = "active" /\ followUp = "none" /\ row.known = NoState
      BY StepIsTyped DEF FailLab, IInv, TypeOK, PhaseAgrees, RowIsComplete
<1>2. UNCHANGED <<steps, task, made, secrets, followUp, faults>>
      BY DEF FailLab
<1>3. row'.state = "failed" /\ row'.known = NoState
      /\ row' \in [state : {"deploying", "ready", "failed"}, known : DeployStates]
      BY <1>1 DEF FailLab, IInv, TypeOK
<1>4. saga' \in Sagas /\ saga'.pc = "hand_off" /\ saga'.step = saga.step
      BY <1>1, SagasAre DEF FailLab, Goto, SagaPCs
<1>5. TypeOK' /\ PhaseAgrees'
      BY <1>1, <1>2, <1>3, <1>4 DEF IInv, TypeOK, PhaseAgrees
<1>6. ResultsAreComplete' /\ SagaIsComplete' /\ RowIsComplete'
      BY <1>1, <1>2, <1>3, <1>4
      DEF IInv, ResultsAreComplete, SagaIsComplete, RowIsComplete, Succeeded, IsComplete, Holds
<1>7. BudgetIsKept'
      BY <1>1, <1>2, <1>3, <1>4 DEF IInv, BudgetIsKept, Succeeded
<1> QED BY <1>5, <1>6, <1>7 DEF IInv

LEMMA HandOffKeeps == ASSUME IInv, HandOff PROVE IInv'
<1>1. /\ saga.pc = "hand_off" /\ row.state # "deploying"
      /\ UNCHANGED <<row, steps, made, secrets>> /\ saga' = IdleSaga
      BY DEF HandOff, Complete, IInv, PhaseAgrees
<1>2. /\ task' \in [status : {"pending", "active", "done", "archived"}, retried : 0 .. MaxRetries]
      /\ task'.status = "done"
      BY DEF HandOff, Complete, IInv, TypeOK
<1>3. followUp' \in {"none", "timer", "compensate"} /\ faults \in Nat
      /\ faults' \in 0 .. MaxFaults /\ faults' >= faults
      BY FaultIsTyped, DeployAssumption DEF HandOff, IInv, TypeOK
<1>4. TypeOK' /\ PhaseAgrees'
      BY <1>1, <1>2, <1>3, IdleIsTyped DEF IInv, TypeOK, PhaseAgrees
<1>5. ResultsAreComplete' /\ SagaIsComplete' /\ RowIsComplete'
      BY <1>1, IdleIsTyped
      DEF IInv, ResultsAreComplete, SagaIsComplete, RowIsComplete, Succeeded, IsComplete, Holds
<1>6. BudgetIsKept'
  <2>1. \A i \in 1 .. 5 : steps[OrderedSteps[i]].attempt \in Nat
        BY StepsAre DEF IInv, TypeOK, StepRecords
  <2>2. row.state \in {"deploying", "ready", "failed"}
        BY DEF IInv, TypeOK
  <2>3. \A i \in 1 .. 5 : row.state = "failed" \/ Succeeded(i)
        BY <1>1, <2>2 DEF IInv, RowIsComplete
  <2>4. \A i \in 1 .. 5 : steps[OrderedSteps[i]].attempt <= MaxAttempts + faults'
        BY <1>3, <2>1, DeployAssumption DEF IInv, BudgetIsKept
  <2>5. row.state = "failed" => \E s \in StepNames : steps[s].attempt >= MaxAttempts
        BY DEF IInv, BudgetIsKept
  <2>6. \A i \in 1 .. 5 : Succeeded(i)' <=> Succeeded(i)
        BY <1>1 DEF Succeeded
  <2> QED BY <1>1, <2>3, <2>4, <2>5, <2>6, IdleIsTyped DEF BudgetIsKept
<1> QED BY <1>4, <1>5, <1>6 DEF IInv

LEMMA CrashKeeps == ASSUME IInv, Crash PROVE IInv'
<1>1. saga.pc # "idle" /\ UNCHANGED <<row, steps, made, secrets, followUp>> /\ followUp = "none"
      BY DEF Crash, IInv, PhaseAgrees
<1>2. /\ saga' = IdleSaga /\ saga' \in Sagas /\ saga'.pc = "idle"
      /\ task' \in [status : {"pending", "active", "done", "archived"}, retried : 0 .. MaxRetries]
      /\ task'.status # "active"
      BY RetryIs DEF Crash, IInv
<1>3. faults \in Nat /\ faults' = faults + 1 /\ faults' \in 0 .. MaxFaults
      BY FaultIsTyped DEF Crash, IInv
<1>4. TypeOK' /\ PhaseAgrees'
      BY <1>1, <1>2, <1>3 DEF IInv, TypeOK, PhaseAgrees
<1>5. ResultsAreComplete' /\ SagaIsComplete' /\ RowIsComplete'
      BY <1>1, <1>2
      DEF IInv, ResultsAreComplete, SagaIsComplete, RowIsComplete, Succeeded, IsComplete, Holds
<1>6. BudgetIsKept'
  <2>1. \A i \in 1 .. 5 : steps[OrderedSteps[i]].attempt \in Nat
        BY StepsAre DEF IInv, TypeOK, StepRecords
  <2> QED BY <1>1, <1>2, <1>3, <2>1, DeployAssumption DEF IInv, BudgetIsKept, Succeeded
<1> QED BY <1>4, <1>5, <1>6 DEF IInv

LEMMA StepKeepsIInv == IInv /\ [Next]_vars => IInv'
<1> SUFFICES ASSUME IInv, [Next]_vars PROVE IInv'
    OBVIOUS
<1>1. CASE SagaStep
      BY <1>1, StartKeeps, LoadStepKeeps, BeginStepKeeps, CallReturnsKeeps, StepReturnsKeeps,
         RecordSuccessKeeps, RecordFailureKeeps, SucceedKeeps, FailLabKeeps, HandOffKeeps
      DEF SagaStep
<1>2. CASE CallFails \/ Crash
      BY <1>2, CallFailsKeeps, CrashKeeps
<1>3. CASE UNCHANGED vars
  <2>1. TypeOK' /\ PhaseAgrees' /\ RowIsComplete'
        BY <1>3 DEF vars, IInv, TypeOK, PhaseAgrees, RowIsComplete, Succeeded, IsComplete, Holds
  <2>2. ResultsAreComplete' /\ BudgetIsKept'
        BY <1>3 DEF vars, IInv, ResultsAreComplete, BudgetIsKept, Succeeded, IsComplete, Holds, Step
  <2>3. SagaIsComplete'
        BY <1>3 DEF vars, IInv, SagaIsComplete, IsComplete, Holds
  <2> QED BY <2>1, <2>2, <2>3 DEF IInv
<1> QED BY <1>1, <1>2, <1>3 DEF Next

\* The inductive invariant holds throughout every deploy.
THEOREM InvariantHolds == Spec => []IInv
BY InitHolds, StepKeepsIInv, PTL DEF Spec

\* The lab, the saved steps, the task and the state of the running call stay what
\* their columns and types allow, for any topology and any budget.
THEOREM TypeIsCorrect == Spec => []TypeOK
<1>1. IInv => TypeOK
      BY DEF IInv
<1> QED BY <1>1, InvariantHolds, PTL

-----------------------------------------------------------------------------
(* What a deploy leaves behind.                                            *)

\* However often the saga was retried and wherever it crashed, the row of a ready lab
\* records every resource of the topology, and no other resource exists.
THEOREM ReadyLabKnowsAll == Spec => []ReadyKnowsAll
<1>1. IInv => ReadyKnowsAll
      BY BeforeGrows DEF IInv, TypeOK, RowIsComplete, IsComplete, ReadyKnowsAll
<1> QED BY <1>1, InvariantHolds, PTL

\* With a provider that returns the key of a keypair it finds, the secret a ready lab
\* refers to holds a private key, after any retries and crashes.
THEOREM ReadyLabHasUsableKey == ASSUME KeyIsReturned PROVE Spec => []ReadyHasUsableKey
<1>1. IInv => ReadyHasUsableKey
      BY DEF IInv, RowIsComplete, IsComplete, Holds, ReadyHasUsableKey
<1> QED BY <1>1, InvariantHolds, PTL

\* A lab fails only when a step has spent its attempts, and no step is begun more often
\* than its budget and the faults allow.
THEOREM FailureIsEarned == Spec => []FailedAfterBudget
<1>1. IInv => FailedAfterBudget
      BY StepsAre DEF IInv, BudgetIsKept, FailedAfterBudget
<1> QED BY <1>1, InvariantHolds, PTL

-----------------------------------------------------------------------------
(* The saga does what DeployContract says.                                 *)

\* What exists of a lab is, in the contract's kinds, a link of the chain of deploys.
LEMMA MadeIsInChain ==
    IInv => KindsOf(made) \in {{}, {"keypair"}, {"keypair", "network"}, Kinds}
<1> SUFFICES ASSUME IInv PROVE KindsOf(made) \in {{}, {"keypair"}, {"keypair", "network"}, Kinds}
    OBVIOUS
<1>1. made \subseteq Resources /\ \A r \in made : \A i \in 1 .. 5 : i < StepOf(r) => Before(i + 1) \subseteq made
      BY DEF IInv, TypeOK, ResultsAreComplete, IsComplete
<1>2. Network \in made => Keypair \in made
      BY <1>1, ResourcesAre, BeforeGrows
<1>3. ASSUME NEW i \in 1 .. NumVMs, <<"server", i>> \in made PROVE Keypair \in made /\ Network \in made
  <2>1. StepOf(<<"server", i>>) = 3
        BY ResourcesAre
  <2>2. Before(2) \subseteq made /\ Before(3) \subseteq made
        BY <1>1, <1>3, <2>1
  <2> QED BY <2>2, ResourcesAre DEF Before
<1>4. CASE Keypair \notin made
      BY <1>2, <1>3, <1>4 DEF KindsOf, Kinds
<1>5. CASE Keypair \in made /\ Network \notin made
      BY <1>3, <1>5 DEF KindsOf, Kinds
<1>6. CASE Keypair \in made /\ Network \in made
  <2>1. "keypair" \in KindsOf(made) /\ "network" \in KindsOf(made) /\ KindsOf(made) \subseteq Kinds
        BY <1>6 DEF KindsOf, Kinds
  <2> QED BY <2>1 DEF Kinds
<1> QED BY <1>4, <1>5, <1>6

LEMMA StepRefines == IInv /\ [Next]_vars => [Contract!Next]_(Contract!vars)
<1> SUFFICES ASSUME IInv, [Next]_vars PROVE [Contract!Next]_(Contract!vars)
    OBVIOUS
<1>k. ASSUME UNCHANGED <<row, made, followUp>> PROVE UNCHANGED Contract!vars
      BY <1>k DEF Contract!vars, KindsOf
<1>m. ASSUME Calling, Effect \/ UNCHANGED made, UNCHANGED <<row, followUp>>
      PROVE  [Contract!Next]_(Contract!vars)
  <2>1. row.state = "deploying"
        BY <1>m DEF Calling, IInv, PhaseAgrees
  <2>2. made \subseteq made'
        BY <1>m DEF Effect
  <2>3. KindsOf(made) \subseteq KindsOf(made')
        BY <2>2 DEF KindsOf
  <2>4. IInv'
        BY StepKeepsIInv
  <2>5. KindsOf(made') \in {{}, {"keypair"}, {"keypair", "network"}, Kinds}
    <3>1. (IInv => KindsOf(made) \in {{}, {"keypair"}, {"keypair", "network"}, Kinds})'
          BY MadeIsInChain, PTL
    <3> QED BY <2>4, <3>1 DEF KindsOf
  <2>6. KindsOf(made)' = KindsOf(made') /\ KindsOf(row.known.handles)' = KindsOf(row.known.handles)
        BY <1>m DEF KindsOf
  <2>7. CASE KindsOf(made) = KindsOf(made')
        BY <1>m, <2>6, <2>7 DEF Contract!vars
  <2>8. CASE KindsOf(made) # KindsOf(made')
        BY <1>m, <2>1, <2>3, <2>5, <2>6, <2>8 DEF Contract!Next, Contract!Makes
  <2> QED BY <2>7, <2>8
<1>1. CASE Start \/ LoadStep \/ BeginStep \/ StepReturns \/ RecordSuccess \/ RecordFailure \/ Crash
      BY <1>1, <1>k DEF Start, LoadStep, BeginStep, StepReturns, RecordSuccess, RecordFailure, Crash
<1>2. CASE CallReturns \/ CallFails
      BY <1>2, <1>m DEF CallReturns, CallFails
<1>3. CASE Succeed
  <2>1. saga.step = 6 /\ saga.pc = "next" /\ row.state = "deploying"
        BY <1>3, StepIsTyped DEF Succeed, IInv, TypeOK, PhaseAgrees
  <2>2. saga.st.handles = made /\ made = Resources
    <3>1. IsComplete(saga.st, 6)
          BY <2>1 DEF IInv, SagaIsComplete
    <3>2. made \subseteq Resources
          BY DEF IInv, TypeOK
    <3> QED BY <3>1, <3>2, BeforeGrows DEF IsComplete
  <2>3. KindsOf(made) = Kinds
    <3>1. 1 \in 1 .. NumVMs
          BY DeployAssumption
    <3>2. Keypair \in made /\ Network \in made /\ <<"server", 1>> \in made
          BY <2>2, <3>1, ResourcesAre
    <3> QED BY <3>1, <3>2 DEF KindsOf, Kinds
  <2>4. row'.state = "ready" /\ row'.known.handles = made /\ UNCHANGED <<made, followUp>>
        BY <1>3, <2>2 DEF Succeed
  <2>5. KindsOf(row.known.handles)' = KindsOf(made) /\ KindsOf(made)' = KindsOf(made)
        BY <2>4 DEF KindsOf
  <2> QED BY <2>1, <2>3, <2>4, <2>5 DEF Contract!Next, Contract!Succeeds, Kinds
<1>4. CASE FailLab
  <2>1. row.state = "deploying" /\ row.known = NoState
        BY <1>4 DEF FailLab, IInv, PhaseAgrees, RowIsComplete
  <2>2. row'.state = "failed" /\ row'.known = row.known /\ UNCHANGED <<made, followUp>>
        BY <1>4 DEF FailLab, IInv, TypeOK
  <2>3. KindsOf(row.known.handles)' = KindsOf(row.known.handles) /\ KindsOf(made)' = KindsOf(made)
        BY <2>2 DEF KindsOf
  <2> QED BY <2>1, <2>2, <2>3 DEF Contract!Next, Contract!Fails
<1>5. CASE HandOff
  <2>1. row.state # "deploying" /\ followUp = "none" /\ UNCHANGED <<row, made>>
        BY <1>5 DEF HandOff, IInv, PhaseAgrees
  <2>2. KindsOf(row.known.handles)' = KindsOf(row.known.handles) /\ KindsOf(made)' = KindsOf(made)
        BY <2>1 DEF KindsOf
  <2> QED BY <1>5, <2>1, <2>2 DEF HandOff, Contract!Next, Contract!HandsOff, Contract!vars
<1>6. CASE UNCHANGED vars
      BY <1>6, <1>k DEF vars
<1> QED BY <1>1, <1>2, <1>3, <1>4, <1>5, <1>6 DEF Next, SagaStep

\* Every deploy, with any failed calls and crashes, is one that DeployContract allows:
\* what module Provisioning takes the saga to be is what its steps do.
THEOREM ContractIsImplemented == Spec => ImplementsContract
<1>1. Init => Contract!Init
  <2>1. KindsOf({}) = {}
        BY DEF KindsOf
  <2> SUFFICES ASSUME Init PROVE Contract!Init
      OBVIOUS
  <2>3. row.state = "deploying" /\ followUp = "none" /\ made = {} /\ row.known.handles = {}
        BY DEF Init, NoState
  <2>4. KindsOf(made) = {} /\ KindsOf(row.known.handles) = {}
        BY <2>1, <2>3
  <2> QED BY <2>3, <2>4 DEF Contract!Init
<1> QED BY <1>1, StepRefines, InvariantHolds, PTL DEF Spec, ImplementsContract, Contract!Spec
=============================================================================

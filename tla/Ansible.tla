------------------------------ MODULE Ansible ------------------------------
(***************************************************************************)
(* What ansible.Runner makes of one execution of a playbook against the    *)
(* machine of a lab: a verdict, and the results of the tasks.              *)
(***************************************************************************)
EXTENDS Sequences

\* What the JSON callback says of a task on the host.
Flags == {"changed", "skipped", "failed", "unreachable"}

\* How ansible-playbook ended: killed by the timeout of the template or not, its exit
\* code, whether stdout holds the JSON of the callback, its tasks, and whether the
\* statistics count a failure or an unreachable host.
Outcomes(Plays) == [timedOut : BOOLEAN, exit : {"ok", "error"}, json : BOOLEAN,
                    tasks : Plays, failures : BOOLEAN, unreachable : BOOLEAN]

StepStatus(flags) ==
    IF "unreachable" \in flags THEN "unreachable"
    ELSE IF "failed" \in flags THEN "failed"
    ELSE IF "skipped" \in flags THEN "skipped"
    ELSE IF "changed" \in flags THEN "changed"
    ELSE "ok"

BadStatus == {"failed", "unreachable"}

Result(verdict, steps) == [state |-> verdict, steps |-> steps]

\* parseCallback, for output that is JSON: passed unless something failed.
ParseCallback(o) ==
    LET steps == [i \in DOMAIN o.tasks |-> StepStatus(o.tasks[i])]
        bad   == o.failures \/ o.unreachable \/ \E i \in DOMAIN steps : steps[i] \in BadStatus
    IN  Result(IF bad THEN "failed" ELSE "passed", steps)

\* Wrong: the exit code is not looked at.
WrongRunResult(o) ==
    IF o.timedOut THEN Result("timeout", <<>>)
    ELSE IF ~ o.json THEN Result("errored", <<>>)
    ELSE ParseCallback(o)

\* Run: the timeout first, then output that cannot be read, then a playbook that
\* stopped with an error although no task failed.
RunResult(o) ==
    IF o.timedOut THEN Result("timeout", <<>>)
    ELSE IF ~ o.json THEN Result("errored", <<>>)
    ELSE IF o.exit = "error" /\ ParseCallback(o).state = "passed"
    THEN Result("errored", ParseCallback(o).steps)
    ELSE ParseCallback(o)

\* Every task of the playbook went through on the machine.
Clean(o) ==
    /\ ~ o.timedOut /\ o.exit = "ok" /\ o.json
    /\ ~ o.failures /\ ~ o.unreachable
    /\ \A i \in DOMAIN o.tasks : o.tasks[i] \cap BadStatus = {}
=============================================================================

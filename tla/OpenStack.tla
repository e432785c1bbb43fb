----------------------------- MODULE OpenStack -----------------------------
(***************************************************************************)
(* The OpenStack provider, call by call: what the deploy of a lab asks of  *)
(* it, step by step with retries, and what the teardown of its cleanup     *)
(* does.  One lab in one project: projects do not share resources, and the *)
(* names of a lab's resources are its own.                                 *)
(*                                                                         *)
(* An API call may be refused, or done and its reply lost (a timeout, the  *)
(* death of the worker).  The saga then runs its step again from the first *)
(* call, with the same names.  Nova builds and deletes servers while the   *)
(* calls go on.                                                            *)
(***************************************************************************)
EXTENDS Naturals

CONSTANTS MaxFaults,            \* bound: calls that are refused or whose reply is lost
          MaxCleanupFailures    \* teardowns that may fail before quarantine (3 in the code)

ASSUME OpenStackAssumption == MaxFaults \in Nat /\ MaxCleanupFailures \in Nat \ {0}

Resources == {"keypair", "network", "subnet", "router", "interface", "server", "fip"}

\* The program counter: the API call that is next.
DeployCalls   == {"keypair.get", "keypair.create", "network.find", "network.create",
                  "subnet.ensure", "router.ensure", "interface.add",
                  "server.find", "server.refs", "server.create", "server.wait",
                  "fip.find", "fip.create"}
TeardownCalls == {"fip.release", "server.delete", "keypair.delete", "interface.remove",
                  "router.delete", "subnet.delete", "network.delete"}
Ends          == {"failed", "gone", "quarantined"}

VARIABLES pc,         \* the next call, "ready", or an end
          count,      \* Resources -> how many there are
          status,     \* of the server, as Nova shows it
          attached,   \* the floating IP is associated with the server's port
          failed,     \* calls that were refused or lost (history)
          failures,   \* teardowns that failed
          faults

vars == <<pc, count, status, attached, failed, failures, faults>>

TypeOK ==
    /\ pc \in DeployCalls \cup TeardownCalls \cup Ends \cup {"ready"}
    /\ count \in [Resources -> Nat]
    /\ status \in {"none", "BUILD", "ACTIVE", "ERROR", "deleting"}
    /\ attached \in BOOLEAN
    /\ failed \subseteq DeployCalls \cup TeardownCalls
    /\ failures \in 0 .. MaxCleanupFailures
    /\ faults \in 0 .. MaxFaults

Init ==
    /\ pc = "keypair.get"
    /\ count = [r \in Resources |-> 0]
    /\ status = "none"
    /\ attached = FALSE
    /\ failed = {}
    /\ failures = 0
    /\ faults = 0

Has(r) == count[r] > 0

-----------------------------------------------------------------------------
(* Steps and their retries.                                                *)

\* The first call of the deploy step, or of the teardown, that a call belongs to.
StepStart(call) ==
    CASE call \in {"keypair.get", "keypair.create"} -> "keypair.get"
      [] call \in {"network.find", "network.create", "subnet.ensure", "router.ensure",
                   "interface.add"} -> "network.find"
      [] call \in {"server.find", "server.refs", "server.create"} -> "server.find"
      [] call \in {"server.wait", "fip.find", "fip.create"} -> "server.wait"
      [] OTHER -> "fip.release"

\* A call of a step fails: the step is tried again, or the saga gives up. The attempts
\* of the deploy steps are left open; the teardowns are counted.
StepFails ==
    IF pc \in DeployCalls
    THEN pc' \in {StepStart(pc), "failed"} /\ UNCHANGED failures
    ELSE /\ failures' = failures + 1
         /\ pc' = IF failures' >= MaxCleanupFailures THEN "quarantined" ELSE StepStart(pc)

\* A call goes through, and next comes another.
Then(next) == pc' = next /\ UNCHANGED <<failed, failures, faults>>

\* A call is refused, or it is done and its reply is lost.
Breaks == /\ faults < MaxFaults
          /\ faults' = faults + 1
          /\ failed' = failed \cup {pc}

\* A call that changes nothing and does not come back.
Unanswered ==
    /\ pc \in (DeployCalls \cup TeardownCalls) \ {"fip.release"}
    /\ Breaks /\ StepFails
    /\ UNCHANGED <<count, status, attached>>

\* A call that creates or deletes one resource.
Create(r, next) == /\ count' = [count EXCEPT ![r] = @ + 1]
                   /\ Then(next) \/ (Breaks /\ StepFails)

Delete(r, next) == /\ count' = [count EXCEPT ![r] = 0]
                   /\ Then(next) \/ (Breaks /\ StepFails)

\* Neutron or Nova answers with an error that is no fault: the step fails.
Rejected == StepFails /\ UNCHANGED <<count, status, attached, failed, faults>>

-----------------------------------------------------------------------------
(* The calls of the deploy.                                                *)

\* CreateKeypair returns an existing one.
KeypairGet ==
    /\ pc = "keypair.get"
    /\ Then(IF Has("keypair") THEN "network.find" ELSE "keypair.create")
    /\ UNCHANGED <<count, status, attached>>

KeypairCreate ==
    /\ pc = "keypair.create"
    /\ Create("keypair", "network.find")
    /\ UNCHANGED <<status, attached>>

\* CreateNetwork returns an existing one, whatever it lacks.
NetworkFind ==
    /\ pc = "network.find"
    /\ Then(IF Has("network") THEN "server.find" ELSE "network.create")
    /\ UNCHANGED <<count, status, attached>>

NetworkCreate ==
    /\ pc = "network.create"
    /\ Create("network", "subnet.ensure")
    /\ UNCHANGED <<status, attached>>

SubnetEnsure ==
    /\ pc = "subnet.ensure"
    /\ IF Has("subnet")
       THEN Then("router.ensure") /\ UNCHANGED count
       ELSE Create("subnet", "router.ensure")
    /\ UNCHANGED <<status, attached>>

RouterEnsure ==
    /\ pc = "router.ensure"
    /\ IF Has("router")
       THEN Then("interface.add") /\ UNCHANGED count
       ELSE Create("router", "interface.add")
    /\ UNCHANGED <<status, attached>>

\* A conflict says that the interface is there.
InterfaceAdd ==
    /\ pc = "interface.add"
    /\ IF Has("interface")
       THEN Then("server.find") /\ UNCHANGED count
       ELSE Create("interface", "server.find")
    /\ UNCHANGED <<status, attached>>

\* Wrong: a server is created without a look at those there are.
WrongServerFind ==
    /\ pc = "server.find"
    /\ Then("server.refs")
    /\ UNCHANGED <<count, status, attached>>

\* BootServer returns an existing one, in whatever status.
ServerFind ==
    /\ pc = "server.find"
    /\ Then(IF Has("server") THEN "server.wait" ELSE "server.refs")
    /\ UNCHANGED <<count, status, attached>>

\* Image and flavour are looked up by name, or are not found.
ServerRefs ==
    /\ pc = "server.refs"
    /\ \/ Then("server.create") /\ UNCHANGED <<count, status, attached>>
       \/ Rejected

\* Nova needs a subnet on the network.
ServerCreate ==
    /\ pc = "server.create"
    /\ IF Has("subnet")
       THEN Create("server", "server.wait") /\ status' = "BUILD" /\ UNCHANGED attached
       ELSE Rejected

\* Wrong: a server that is not being built any more is taken for active.
WrongServerWait ==
    /\ pc = "server.wait"
    /\ status # "BUILD"
    /\ Then("fip.find")
    /\ UNCHANGED <<count, status, attached>>

\* WaitForActive polls.
ServerWait ==
    /\ pc = "server.wait"
    /\ \/ status = "ACTIVE" /\ Then("fip.find") /\ UNCHANGED <<count, status, attached>>
       \/ status = "ERROR" /\ Rejected

\* AllocateFloatingIP returns the one that the server's port has.
FipFind ==
    /\ pc = "fip.find"
    /\ Then(IF attached THEN "ready" ELSE "fip.create")
    /\ UNCHANGED <<count, status, attached>>

\* Neutron associates an address only where a router leads to the public network.
FipCreate ==
    /\ pc = "fip.create"
    /\ IF Has("interface")
       THEN Create("fip", "ready") /\ attached' = TRUE /\ UNCHANGED status
       ELSE Rejected

-----------------------------------------------------------------------------
(* The calls of the teardown, of a lab that was ready.                     *)

TeardownBegins ==
    /\ pc = "ready"
    /\ Then("fip.release")
    /\ UNCHANGED <<count, status, attached>>

\* Wrong: the addresses of the server are not released.
WrongFipRelease ==
    /\ pc = "fip.release"
    /\ Then("server.delete")
    /\ UNCHANGED <<count, status, attached>>

\* The addresses are found by the ports of the server, if it still has them. An error
\* is ignored: DeleteServer goes on.
FipRelease ==
    /\ pc = "fip.release"
    /\ \/ /\ attached' = FALSE
          /\ count' = IF attached THEN [count EXCEPT !["fip"] = 0] ELSE count
          /\ Then("server.delete")
       \/ /\ Breaks
          /\ pc' = "server.delete"
          /\ UNCHANGED <<count, attached, failures>>
    /\ UNCHANGED status

\* Nova accepts the deletion and does it later. A missing server is fine.
ServerDelete ==
    /\ pc = "server.delete"
    /\ status' = IF Has("server") THEN "deleting" ELSE status
    /\ Then("keypair.delete") \/ (Breaks /\ StepFails)
    /\ UNCHANGED <<count, attached>>

KeypairDelete ==
    /\ pc = "keypair.delete"
    /\ Delete("keypair", "interface.remove")
    /\ UNCHANGED <<status, attached>>

\* The routers are found by their ports on the network. Removing one conflicts with an
\* address that goes through it; a conflict is ignored.
InterfaceRemove ==
    /\ pc = "interface.remove"
    /\ \/ ~ Has("interface") /\ Then("subnet.delete") /\ UNCHANGED count
       \/ Has("interface") /\ attached /\ Then("router.delete") /\ UNCHANGED count
       \/ Has("interface") /\ ~ attached /\ Delete("interface", "router.delete")
    /\ UNCHANGED <<status, attached>>

\* Wrong: the deletion waits until the interface is gone.
WrongRouterDelete ==
    /\ pc = "router.delete"
    /\ ~ Has("interface")
    /\ Delete("router", "subnet.delete")
    /\ UNCHANGED <<status, attached>>

\* A router with an interface conflicts, which is ignored.
RouterDelete ==
    /\ pc = "router.delete"
    /\ IF Has("interface")
       THEN Then("subnet.delete") /\ UNCHANGED count
       ELSE Delete("router", "subnet.delete")
    /\ UNCHANGED <<status, attached>>

\* A port holds the subnet and the network.
InUse == Has("server") \/ Has("interface")

\* A conflict of the subnet is ignored.
SubnetDelete ==
    /\ pc = "subnet.delete"
    /\ IF InUse
       THEN Then("network.delete") /\ UNCHANGED count
       ELSE Delete("subnet", "network.delete")
    /\ UNCHANGED <<status, attached>>

\* A conflict of the network fails the teardown. Its subnets go with it.
NetworkDelete ==
    /\ pc = "network.delete"
    /\ IF InUse
       THEN Rejected
       ELSE /\ count' = [count EXCEPT !["network"] = 0, !["subnet"] = 0]
            /\ Then("gone") \/ (Breaks /\ StepFails)
            /\ UNCHANGED <<status, attached>>

-----------------------------------------------------------------------------
(* Nova, meanwhile.                                                        *)

Built ==
    /\ status = "BUILD"
    /\ status' \in {"ACTIVE", "ERROR"}
    /\ UNCHANGED <<pc, count, attached, failed, failures, faults>>

\* The server goes, with its port. Its address stays in the project, unassociated.
Deleted ==
    /\ status = "deleting"
    /\ status' = "none"
    /\ count' = [count EXCEPT !["server"] = 0]
    /\ attached' = FALSE
    /\ UNCHANGED <<pc, failed, failures, faults>>

DeployStep ==
    \/ KeypairGet \/ KeypairCreate
    \/ NetworkFind \/ NetworkCreate \/ SubnetEnsure \/ RouterEnsure \/ InterfaceAdd
    \/ ServerFind \/ ServerRefs \/ ServerCreate \/ ServerWait \/ FipFind \/ FipCreate

TeardownStep ==
    \/ FipRelease \/ ServerDelete \/ KeypairDelete
    \/ InterfaceRemove \/ RouterDelete \/ SubnetDelete \/ NetworkDelete

Next == DeployStep \/ TeardownBegins \/ TeardownStep \/ Unanswered \/ Built \/ Deleted

Spec == Init /\ [][Next]_vars

\* The worker runs a teardown to its end, and Nova deletes what it was told to.
FairSpec == Spec /\ WF_vars(TeardownStep) /\ WF_vars(Deleted)

-----------------------------------------------------------------------------
\* A deploy that got through all its steps has a machine that can be reached, whatever
\* its calls left half-made on the way: an active server, with an address, on a network
\* with a subnet and a router (CreateNetwork and BootServer return what they find).
ReadyIsReachable ==
    pc = "ready" => /\ \A r \in Resources : Has(r)
                    /\ status = "ACTIVE" /\ attached

\* Steps that are run again, after a call was done and its reply lost, never make a
\* resource twice (BootServer, CreateNetwork, AllocateFloatingIP).
NothingTwice == \A r \in Resources : count[r] <= 1

\* A teardown that succeeded left nothing behind, in whatever order Nova's deletions and
\* its own retries went. Only an address whose release failed, and a router whose
\* deletion failed, may stay (DeleteServer ignores the error; DeleteNetwork finds the
\* router by an interface that is gone when it is retried).
TornDownIsEmpty ==
    pc = "gone" =>
        \A r \in Resources :
            Has(r) => \/ r = "fip" /\ "fip.release" \in failed
                      \/ r = "router" /\ failed \cap {"interface.remove", "router.delete"} # {}

\* A teardown ends, with the project empty or in quarantine.
TeardownEnds == (pc \in TeardownCalls) ~> (pc \in {"gone", "quarantined"})
=============================================================================

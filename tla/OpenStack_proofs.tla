--------------------------- MODULE OpenStack_proofs ---------------------------
(***************************************************************************)
(* Proofs about module OpenStack, for any number of calls that are refused *)
(* or whose reply is lost.                                                 *)
(***************************************************************************)
EXTENDS OpenStack, TLAPS

\* The deploy runs or is through; the teardown runs or is through.
Deploying   == pc \in DeployCalls \cup {"ready"}
TearingDown == pc \in TeardownCalls \cup {"gone"}

\* A create is reached only past a look-up that found nothing.
CreateFindsNothing ==
    /\ pc = "keypair.create" => ~ Has("keypair")
    /\ pc = "network.create" => ~ Has("network")
    /\ pc \in {"server.refs", "server.create"} => ~ Has("server")
    /\ pc = "fip.create" => ~ attached

\* What a deploy has by the time it makes a call, and what the things that it found
\* cannot have been made without.
DeployBuilds ==
    Deploying =>
        /\ pc \notin {"keypair.get", "keypair.create"} => Has("keypair")
        /\ pc \notin {"keypair.get", "keypair.create", "network.find", "network.create"} => Has("network")
        /\ pc = "interface.add" => Has("router")
        /\ pc \in {"server.wait", "fip.find", "fip.create", "ready"} => Has("server")
        /\ pc \in {"fip.find", "fip.create", "ready"} => status = "ACTIVE"
        /\ pc = "ready" => attached
        /\ Has("interface") => Has("router")
        /\ Has("server") => Has("subnet")
        /\ attached => Has("interface")
        /\ attached <=> Has("fip")
        /\ status # "deleting"

\* What a teardown leaves by the time it makes a call, unless a call before it failed.
TeardownClears ==
    TearingDown =>
        /\ pc \in {"interface.remove", "router.delete", "subnet.delete", "network.delete", "gone"} => ~ Has("keypair")
        /\ Has("fip") /\ (pc # "fip.release" \/ ~ attached \/ status = "deleting") => "fip.release" \in failed
        /\ Has("router") /\ ~ Has("interface") /\ pc # "router.delete" =>
               failed \cap {"interface.remove", "router.delete"} # {}
        /\ pc = "gone" => \A r \in {"network", "subnet", "interface", "server"} : ~ Has(r)

\* No teardown has failed yet, or one more may.
FailuresAreCounted ==
    /\ Deploying => failures = 0
    /\ pc \in TeardownCalls => failures < MaxCleanupFailures

IInv == /\ TypeOK
        /\ NothingTwice
        /\ CreateFindsNothing
        /\ DeployBuilds
        /\ TeardownClears
        /\ FailuresAreCounted

LEMMA InitHolds == Init => IInv
<1> SUFFICES ASSUME Init PROVE IInv
    OBVIOUS
<1>1. TypeOK
  <2>1. count \in [Resources -> Nat]
        BY DEF Init
  <2>2. 0 \in 0 .. MaxCleanupFailures /\ 0 \in 0 .. MaxFaults
        BY OpenStackAssumption
  <2> QED BY <2>1, <2>2 DEF Init, TypeOK, DeployCalls
<1>2. \A r \in Resources : ~ Has(r) /\ count[r] <= 1
      BY DEF Init, Has
<1>3. NothingTwice /\ FailuresAreCounted
      BY <1>2 DEF Init, NothingTwice, FailuresAreCounted, TeardownCalls
<1>4. CreateFindsNothing /\ DeployBuilds
      BY <1>2 DEF Init, CreateFindsNothing, DeployBuilds, Resources
<1>5. TeardownClears
      BY DEF Init, TeardownClears, TearingDown, TeardownCalls
<1> QED BY <1>1, <1>3, <1>4, <1>5 DEF IInv

-----------------------------------------------------------------------------
(* How a call ends.                                                        *)

\* A call is done, or it breaks off and its step fails, or it is rejected.
CallEnds(next) ==
    \/ Then(next)
    \/ Breaks /\ StepFails
    \/ StepFails /\ UNCHANGED <<failed, faults>>

\* Only the calls that broke off are added to those that failed.
LEMMA FailedIsTyped ==
    ASSUME IInv, pc \in DeployCalls \cup TeardownCalls, Breaks \/ UNCHANGED <<failed, faults>>
    PROVE  /\ failed' \subseteq DeployCalls \cup TeardownCalls
           /\ faults' \in 0 .. MaxFaults
           /\ failed \subseteq failed'
BY OpenStackAssumption DEF IInv, TypeOK, Breaks

\* A deploy step that fails is tried from its first call, or the deploy gives up.
LEMMA DeployCallEnds ==
    ASSUME IInv, pc \in DeployCalls, NEW next \in DeployCalls \cup {"ready"}, CallEnds(next)
    PROVE  /\ pc' \in {next, StepStart(pc), "failed"}
           /\ failed' \subseteq DeployCalls \cup TeardownCalls
           /\ faults' \in 0 .. MaxFaults
           /\ failures' = 0 /\ failures' \in 0 .. MaxCleanupFailures
           /\ pc' \in DeployCalls \cup {"ready", "failed"}
           /\ FailuresAreCounted'
<1>1. failures = 0 /\ 0 \in 0 .. MaxCleanupFailures
      BY OpenStackAssumption DEF IInv, FailuresAreCounted, Deploying
<1>2. pc' \in {next, StepStart(pc), "failed"} /\ failures' = 0
      BY <1>1 DEF CallEnds, Then, StepFails
<1>3. Breaks \/ UNCHANGED <<failed, faults>>
      BY DEF CallEnds, Then
<1>4. StepStart(pc) \in DeployCalls
      BY DEF StepStart, DeployCalls
<1>5. pc' \notin TeardownCalls
      BY <1>2, <1>4 DEF DeployCalls, TeardownCalls
<1> QED BY <1>1, <1>2, <1>3, <1>4, <1>5, FailedIsTyped DEF FailuresAreCounted

\* A teardown that fails begins again, or the project goes to quarantine.
LEMMA TeardownCallEnds ==
    ASSUME IInv, pc \in TeardownCalls, NEW next \in TeardownCalls \cup {"gone"},
           CallEnds(next) \/ (Breaks /\ pc' = next /\ UNCHANGED failures)
    PROVE  /\ pc' \in {next, "fip.release", "quarantined"}
           /\ failed' \subseteq DeployCalls \cup TeardownCalls
           /\ failed \subseteq failed'
           /\ faults' \in 0 .. MaxFaults
           /\ failures' \in 0 .. MaxCleanupFailures
           /\ FailuresAreCounted'
<1>1. failures \in 0 .. MaxCleanupFailures /\ failures < MaxCleanupFailures
      BY DEF IInv, TypeOK, FailuresAreCounted
<1>2. pc \notin DeployCalls /\ StepStart(pc) = "fip.release"
      BY DEF StepStart, DeployCalls, TeardownCalls
<1>3. /\ pc' \in {next, "fip.release", "quarantined"}
      /\ failures' \in 0 .. MaxCleanupFailures
      /\ pc' # "quarantined" => failures' < MaxCleanupFailures
  <2>1. CASE UNCHANGED failures /\ pc' = next
        BY <2>1, <1>1 DEF TeardownCalls
  <2>2. CASE StepFails
        BY <2>2, <1>1, <1>2, OpenStackAssumption DEF StepFails
  <2> QED BY <2>1, <2>2 DEF CallEnds, Then
<1>4. Breaks \/ UNCHANGED <<failed, faults>>
      BY DEF CallEnds, Then
<1>5. FailuresAreCounted'
  <2>1. pc' \notin DeployCalls \cup {"ready"}
        BY <1>3 DEF DeployCalls, TeardownCalls
  <2>2. "quarantined" \notin TeardownCalls
        BY DEF TeardownCalls
  <2> QED BY <1>3, <2>1, <2>2 DEF FailuresAreCounted, Deploying
<1> QED BY <1>3, <1>4, <1>5, FailedIsTyped

-----------------------------------------------------------------------------
(* A call of the deploy that makes nothing, and one that makes something.  *)

\* A call that makes nothing keeps what was built.
LEMMA LookUpKeeps ==
    ASSUME IInv, pc \in DeployCalls, NEW next \in DeployCalls \cup {"ready"}, CallEnds(next),
           UNCHANGED <<count, status, attached>>
    PROVE  /\ TypeOK' /\ NothingTwice' /\ TeardownClears' /\ FailuresAreCounted'
           /\ \A r \in Resources : Has(r)' = Has(r)
           /\ pc' \in {next, StepStart(pc), "failed"}
<1>1. TypeOK'
      BY DeployCallEnds DEF IInv, TypeOK, Ends
<1>2. NothingTwice' /\ \A r \in Resources : Has(r)' = Has(r)
      BY DEF IInv, NothingTwice, Has
<1>3. TeardownClears'
      BY DeployCallEnds DEF TeardownClears, TearingDown, DeployCalls, TeardownCalls
<1> QED BY <1>1, <1>2, <1>3, DeployCallEnds

\* A call that makes one resource, of which there was none.
LEMMA CreateKeeps ==
    ASSUME IInv, pc \in DeployCalls, NEW r \in Resources, ~ Has(r),
           NEW next \in DeployCalls \cup {"ready"}, Create(r, next),
           status' \in {status, "BUILD"}, attached' \in BOOLEAN
    PROVE  /\ TypeOK' /\ NothingTwice' /\ TeardownClears' /\ FailuresAreCounted'
           /\ \A s \in Resources : Has(s)' <=> Has(s) \/ s = r
           /\ pc' \in {next, StepStart(pc), "failed"}
<1>1. count' = [count EXCEPT ![r] = @ + 1] /\ CallEnds(next)
      BY DEF Create, CallEnds
<1>2. count \in [Resources -> Nat]
      BY DEF IInv, TypeOK
<1>3. /\ count' \in [Resources -> Nat] /\ count'[r] = 1
      /\ \A s \in Resources \ {r} : count'[s] = count[s]
      BY <1>1, <1>2 DEF Has
<1>4. TypeOK'
      BY <1>1, <1>3, DeployCallEnds DEF IInv, TypeOK, Ends
<1>5. NothingTwice' /\ \A s \in Resources : Has(s)' <=> Has(s) \/ s = r
      BY <1>3 DEF IInv, NothingTwice, Has
<1>6. TeardownClears'
      BY <1>1, DeployCallEnds DEF TeardownClears, TearingDown, DeployCalls, TeardownCalls
<1> QED BY <1>1, <1>4, <1>5, <1>6, DeployCallEnds

-----------------------------------------------------------------------------
(* One lemma for each call of the deploy.                                  *)

LEMMA KeypairGetKeeps == ASSUME IInv, KeypairGet PROVE IInv'
<1>1. PICK next \in {"keypair.create", "network.find"} :
          /\ CallEnds(next) /\ (pc' = next => Has("keypair") <=> next = "network.find")
          /\ UNCHANGED <<count, status, attached>>
      BY DEF KeypairGet, CallEnds, Then, Rejected, StepFails, StepStart, DeployCalls
<1>2. pc = "keypair.get" /\ pc \in DeployCalls /\ next \in DeployCalls \cup {"ready"} /\ StepStart(pc) = "keypair.get"
      BY DEF KeypairGet, DeployCalls, StepStart
<1>3. /\ TypeOK' /\ NothingTwice' /\ TeardownClears' /\ FailuresAreCounted'
      /\ \A r \in Resources : Has(r)' = Has(r)
      /\ pc' \in {next, "keypair.get", "failed"}
      BY <1>1, <1>2, LookUpKeeps
<1>4. CreateFindsNothing' /\ DeployBuilds'
      BY <1>1, <1>2, <1>3 DEF IInv, CreateFindsNothing, DeployBuilds, Deploying, DeployCalls, Resources
<1> QED BY <1>3, <1>4 DEF IInv

LEMMA KeypairCreateKeeps == ASSUME IInv, KeypairCreate PROVE IInv'
<1>1. /\ pc = "keypair.create" /\ pc \in DeployCalls /\ "keypair" \in Resources /\ StepStart(pc) = "keypair.get"
      /\ "network.find" \in DeployCalls
      BY DEF KeypairCreate, DeployCalls, Resources, StepStart
<1>2. Create("keypair", "network.find") /\ UNCHANGED <<status, attached>> /\ ~ Has("keypair")
      BY DEF KeypairCreate, IInv, CreateFindsNothing
<1>3. /\ TypeOK' /\ NothingTwice' /\ TeardownClears' /\ FailuresAreCounted'
      /\ \A s \in Resources : Has(s)' <=> Has(s) \/ s = "keypair"
      /\ pc' \in {"network.find", "keypair.get", "failed"}
      BY <1>1, <1>2, CreateKeeps DEF IInv, TypeOK
<1>4. CreateFindsNothing' /\ DeployBuilds'
      BY <1>1, <1>2, <1>3 DEF IInv, CreateFindsNothing, DeployBuilds, Deploying, DeployCalls, Resources
<1> QED BY <1>3, <1>4 DEF IInv

LEMMA NetworkFindKeeps == ASSUME IInv, NetworkFind PROVE IInv'
<1>1. PICK next \in {"server.find", "network.create"} :
          /\ CallEnds(next) /\ (pc' = next => Has("network") <=> next = "server.find")
          /\ UNCHANGED <<count, status, attached>>
      BY DEF NetworkFind, CallEnds, Then, Rejected, StepFails, StepStart, DeployCalls
<1>2. pc = "network.find" /\ pc \in DeployCalls /\ next \in DeployCalls \cup {"ready"} /\ StepStart(pc) = "network.find"
      BY DEF NetworkFind, DeployCalls, StepStart
<1>3. /\ TypeOK' /\ NothingTwice' /\ TeardownClears' /\ FailuresAreCounted'
      /\ \A r \in Resources : Has(r)' = Has(r)
      /\ pc' \in {next, "network.find", "failed"}
      BY <1>1, <1>2, LookUpKeeps
<1>4. CreateFindsNothing' /\ DeployBuilds'
      BY <1>1, <1>2, <1>3 DEF IInv, CreateFindsNothing, DeployBuilds, Deploying, DeployCalls, Resources
<1> QED BY <1>3, <1>4 DEF IInv

LEMMA NetworkCreateKeeps == ASSUME IInv, NetworkCreate PROVE IInv'
<1>1. /\ pc = "network.create" /\ pc \in DeployCalls /\ "network" \in Resources /\ StepStart(pc) = "network.find"
      /\ "subnet.ensure" \in DeployCalls
      BY DEF NetworkCreate, DeployCalls, Resources, StepStart
<1>2. Create("network", "subnet.ensure") /\ UNCHANGED <<status, attached>> /\ ~ Has("network")
      BY DEF NetworkCreate, IInv, CreateFindsNothing
<1>3. /\ TypeOK' /\ NothingTwice' /\ TeardownClears' /\ FailuresAreCounted'
      /\ \A s \in Resources : Has(s)' <=> Has(s) \/ s = "network"
      /\ pc' \in {"subnet.ensure", "network.find", "failed"}
      BY <1>1, <1>2, CreateKeeps DEF IInv, TypeOK
<1>4. CreateFindsNothing' /\ DeployBuilds'
      BY <1>1, <1>2, <1>3 DEF IInv, CreateFindsNothing, DeployBuilds, Deploying, DeployCalls, Resources
<1> QED BY <1>3, <1>4 DEF IInv

LEMMA SubnetEnsureKeeps == ASSUME IInv, SubnetEnsure PROVE IInv'
<1>1. pc = "subnet.ensure" /\ pc \in DeployCalls /\ "subnet" \in Resources /\ StepStart(pc) = "network.find"
      /\ {"router.ensure", "network.find"} \subseteq DeployCalls \cup {"ready"}
      BY DEF SubnetEnsure, DeployCalls, Resources, StepStart
<1>2. CASE ~ Has("subnet")
  <2>1. Create("subnet", "router.ensure") /\ UNCHANGED <<status, attached>> /\ ~ Has("subnet")
        BY <1>2 DEF SubnetEnsure, IInv, CreateFindsNothing, DeployBuilds, Deploying, DeployCalls
  <2>2. /\ TypeOK' /\ NothingTwice' /\ TeardownClears' /\ FailuresAreCounted'
        /\ \A s \in Resources : Has(s)' <=> Has(s) \/ s = "subnet"
        /\ pc' \in {"router.ensure", "network.find", "failed"}
        BY <1>1, <2>1, CreateKeeps DEF IInv, TypeOK
  <2>3. CreateFindsNothing' /\ DeployBuilds'
        BY <1>1, <1>2, <2>1, <2>2 DEF IInv, CreateFindsNothing, DeployBuilds, Deploying, DeployCalls, Resources
  <2> QED BY <2>2, <2>3 DEF IInv
<1>3. CASE Has("subnet")
  <2>1. CallEnds("router.ensure") /\ UNCHANGED <<count, status, attached>>
        BY <1>3 DEF SubnetEnsure, CallEnds, Rejected
  <2>2. /\ TypeOK' /\ NothingTwice' /\ TeardownClears' /\ FailuresAreCounted'
        /\ \A s \in Resources : Has(s)' = Has(s)
        /\ pc' \in {"router.ensure", "network.find", "failed"}
        BY <1>1, <2>1, LookUpKeeps
  <2>3. CreateFindsNothing' /\ DeployBuilds'
        BY <1>1, <1>3, <2>1, <2>2 DEF IInv, CreateFindsNothing, DeployBuilds, Deploying, DeployCalls, Resources
  <2> QED BY <2>2, <2>3 DEF IInv
<1> QED BY <1>2, <1>3

LEMMA RouterEnsureKeeps == ASSUME IInv, RouterEnsure PROVE IInv'
<1>1. pc = "router.ensure" /\ pc \in DeployCalls /\ "router" \in Resources /\ StepStart(pc) = "network.find"
      /\ {"interface.add", "network.find"} \subseteq DeployCalls \cup {"ready"}
      BY DEF RouterEnsure, DeployCalls, Resources, StepStart
<1>2. CASE ~ Has("router")
  <2>1. Create("router", "interface.add") /\ UNCHANGED <<status, attached>> /\ ~ Has("router")
        BY <1>2 DEF RouterEnsure, IInv, CreateFindsNothing, DeployBuilds, Deploying, DeployCalls
  <2>2. /\ TypeOK' /\ NothingTwice' /\ TeardownClears' /\ FailuresAreCounted'
        /\ \A s \in Resources : Has(s)' <=> Has(s) \/ s = "router"
        /\ pc' \in {"interface.add", "network.find", "failed"}
        BY <1>1, <2>1, CreateKeeps DEF IInv, TypeOK
  <2>3. CreateFindsNothing' /\ DeployBuilds'
        BY <1>1, <1>2, <2>1, <2>2 DEF IInv, CreateFindsNothing, DeployBuilds, Deploying, DeployCalls, Resources
  <2> QED BY <2>2, <2>3 DEF IInv
<1>3. CASE Has("router")
  <2>1. CallEnds("interface.add") /\ UNCHANGED <<count, status, attached>>
        BY <1>3 DEF RouterEnsure, CallEnds, Rejected
  <2>2. /\ TypeOK' /\ NothingTwice' /\ TeardownClears' /\ FailuresAreCounted'
        /\ \A s \in Resources : Has(s)' = Has(s)
        /\ pc' \in {"interface.add", "network.find", "failed"}
        BY <1>1, <2>1, LookUpKeeps
  <2>3. CreateFindsNothing' /\ DeployBuilds'
        BY <1>1, <1>3, <2>1, <2>2 DEF IInv, CreateFindsNothing, DeployBuilds, Deploying, DeployCalls, Resources
  <2> QED BY <2>2, <2>3 DEF IInv
<1> QED BY <1>2, <1>3

LEMMA InterfaceAddKeeps == ASSUME IInv, InterfaceAdd PROVE IInv'
<1>1. pc = "interface.add" /\ pc \in DeployCalls /\ "interface" \in Resources /\ StepStart(pc) = "network.find"
      /\ {"server.find", "network.find"} \subseteq DeployCalls \cup {"ready"}
      BY DEF InterfaceAdd, DeployCalls, Resources, StepStart
<1>2. CASE ~ Has("interface")
  <2>1. Create("interface", "server.find") /\ UNCHANGED <<status, attached>> /\ ~ Has("interface")
        BY <1>2 DEF InterfaceAdd, IInv, CreateFindsNothing, DeployBuilds, Deploying, DeployCalls
  <2>2. /\ TypeOK' /\ NothingTwice' /\ TeardownClears' /\ FailuresAreCounted'
        /\ \A s \in Resources : Has(s)' <=> Has(s) \/ s = "interface"
        /\ pc' \in {"server.find", "network.find", "failed"}
        BY <1>1, <2>1, CreateKeeps DEF IInv, TypeOK
  <2>3. CreateFindsNothing' /\ DeployBuilds'
        BY <1>1, <1>2, <2>1, <2>2 DEF IInv, CreateFindsNothing, DeployBuilds, Deploying, DeployCalls, Resources
  <2> QED BY <2>2, <2>3 DEF IInv
<1>3. CASE Has("interface")
  <2>1. CallEnds("server.find") /\ UNCHANGED <<count, status, attached>>
        BY <1>3 DEF InterfaceAdd, CallEnds, Rejected
  <2>2. /\ TypeOK' /\ NothingTwice' /\ TeardownClears' /\ FailuresAreCounted'
        /\ \A s \in Resources : Has(s)' = Has(s)
        /\ pc' \in {"server.find", "network.find", "failed"}
        BY <1>1, <2>1, LookUpKeeps
  <2>3. CreateFindsNothing' /\ DeployBuilds'
        BY <1>1, <1>3, <2>1, <2>2 DEF IInv, CreateFindsNothing, DeployBuilds, Deploying, DeployCalls, Resources
  <2> QED BY <2>2, <2>3 DEF IInv
<1> QED BY <1>2, <1>3

LEMMA ServerFindKeeps == ASSUME IInv, ServerFind PROVE IInv'
<1>1. PICK next \in {"server.wait", "server.refs"} :
          /\ CallEnds(next) /\ (pc' = next => Has("server") <=> next = "server.wait")
          /\ UNCHANGED <<count, status, attached>>
      BY DEF ServerFind, CallEnds, Then, Rejected, StepFails, StepStart, DeployCalls
<1>2. pc = "server.find" /\ pc \in DeployCalls /\ next \in DeployCalls \cup {"ready"} /\ StepStart(pc) = "server.find"
      BY DEF ServerFind, DeployCalls, StepStart
<1>3. /\ TypeOK' /\ NothingTwice' /\ TeardownClears' /\ FailuresAreCounted'
      /\ \A r \in Resources : Has(r)' = Has(r)
      /\ pc' \in {next, "server.find", "failed"}
      BY <1>1, <1>2, LookUpKeeps
<1>4. CreateFindsNothing' /\ DeployBuilds'
      BY <1>1, <1>2, <1>3 DEF IInv, CreateFindsNothing, DeployBuilds, Deploying, DeployCalls, Resources
<1> QED BY <1>3, <1>4 DEF IInv

LEMMA ServerRefsKeeps == ASSUME IInv, ServerRefs PROVE IInv'
<1>1. PICK next \in {"server.create"} :
          /\ CallEnds(next) /\ (pc' = next => TRUE)
          /\ UNCHANGED <<count, status, attached>>
      BY DEF ServerRefs, CallEnds, Then, Rejected, StepFails, StepStart, DeployCalls
<1>2. pc = "server.refs" /\ pc \in DeployCalls /\ next \in DeployCalls \cup {"ready"} /\ StepStart(pc) = "server.find"
      BY DEF ServerRefs, DeployCalls, StepStart
<1>3. /\ TypeOK' /\ NothingTwice' /\ TeardownClears' /\ FailuresAreCounted'
      /\ \A r \in Resources : Has(r)' = Has(r)
      /\ pc' \in {next, "server.find", "failed"}
      BY <1>1, <1>2, LookUpKeeps
<1>4. CreateFindsNothing' /\ DeployBuilds'
      BY <1>1, <1>2, <1>3 DEF IInv, CreateFindsNothing, DeployBuilds, Deploying, DeployCalls, Resources
<1> QED BY <1>3, <1>4 DEF IInv

LEMMA ServerCreateKeeps == ASSUME IInv, ServerCreate PROVE IInv'
<1>1. pc = "server.create" /\ pc \in DeployCalls /\ "server" \in Resources /\ StepStart(pc) = "server.find"
      /\ {"server.wait", "server.find"} \subseteq DeployCalls \cup {"ready"}
      BY DEF ServerCreate, DeployCalls, Resources, StepStart
<1>2. CASE Has("subnet")
  <2>1. Create("server", "server.wait") /\ status' = "BUILD" /\ UNCHANGED attached /\ ~ Has("server")
        BY <1>2 DEF ServerCreate, IInv, CreateFindsNothing, DeployBuilds, Deploying, DeployCalls
  <2>2. /\ TypeOK' /\ NothingTwice' /\ TeardownClears' /\ FailuresAreCounted'
        /\ \A s \in Resources : Has(s)' <=> Has(s) \/ s = "server"
        /\ pc' \in {"server.wait", "server.find", "failed"}
        BY <1>1, <2>1, CreateKeeps DEF IInv, TypeOK
  <2>3. CreateFindsNothing' /\ DeployBuilds'
        BY <1>1, <1>2, <2>1, <2>2 DEF IInv, CreateFindsNothing, DeployBuilds, Deploying, DeployCalls, Resources
  <2> QED BY <2>2, <2>3 DEF IInv
<1>3. CASE ~ Has("subnet")
  <2>1. CallEnds("server.find") /\ UNCHANGED <<count, status, attached>>
        BY <1>3 DEF ServerCreate, CallEnds, Rejected
  <2>2. /\ TypeOK' /\ NothingTwice' /\ TeardownClears' /\ FailuresAreCounted'
        /\ \A s \in Resources : Has(s)' = Has(s)
        /\ pc' \in {"server.find", "failed"}
        BY <1>1, <2>1, LookUpKeeps
  <2>3. CreateFindsNothing' /\ DeployBuilds'
        BY <1>1, <1>3, <2>1, <2>2 DEF IInv, CreateFindsNothing, DeployBuilds, Deploying, DeployCalls, Resources
  <2> QED BY <2>2, <2>3 DEF IInv
<1> QED BY <1>2, <1>3

LEMMA ServerWaitKeeps == ASSUME IInv, ServerWait PROVE IInv'
<1>1. PICK next \in {"fip.find"} :
          /\ CallEnds(next) /\ (pc' = next => status = "ACTIVE")
          /\ UNCHANGED <<count, status, attached>>
      BY DEF ServerWait, CallEnds, Then, Rejected, StepFails, StepStart, DeployCalls
<1>2. pc = "server.wait" /\ pc \in DeployCalls /\ next \in DeployCalls \cup {"ready"} /\ StepStart(pc) = "server.wait"
      BY DEF ServerWait, DeployCalls, StepStart
<1>3. /\ TypeOK' /\ NothingTwice' /\ TeardownClears' /\ FailuresAreCounted'
      /\ \A r \in Resources : Has(r)' = Has(r)
      /\ pc' \in {next, "server.wait", "failed"}
      BY <1>1, <1>2, LookUpKeeps
<1>4. CreateFindsNothing' /\ DeployBuilds'
      BY <1>1, <1>2, <1>3 DEF IInv, CreateFindsNothing, DeployBuilds, Deploying, DeployCalls, Resources
<1> QED BY <1>3, <1>4 DEF IInv

LEMMA FipFindKeeps == ASSUME IInv, FipFind PROVE IInv'
<1>1. PICK next \in {"ready", "fip.create"} :
          /\ CallEnds(next) /\ (pc' = next => attached <=> next = "ready")
          /\ UNCHANGED <<count, status, attached>>
      BY DEF FipFind, CallEnds, Then, Rejected, StepFails, StepStart, DeployCalls
<1>2. pc = "fip.find" /\ pc \in DeployCalls /\ next \in DeployCalls \cup {"ready"} /\ StepStart(pc) = "server.wait"
      BY DEF FipFind, DeployCalls, StepStart
<1>3. /\ TypeOK' /\ NothingTwice' /\ TeardownClears' /\ FailuresAreCounted'
      /\ \A r \in Resources : Has(r)' = Has(r)
      /\ pc' \in {next, "server.wait", "failed"}
      BY <1>1, <1>2, LookUpKeeps
<1>4. CreateFindsNothing' /\ DeployBuilds'
      BY <1>1, <1>2, <1>3 DEF IInv, CreateFindsNothing, DeployBuilds, Deploying, DeployCalls, Resources
<1> QED BY <1>3, <1>4 DEF IInv

LEMMA FipCreateKeeps == ASSUME IInv, FipCreate PROVE IInv'
<1>1. pc = "fip.create" /\ pc \in DeployCalls /\ "fip" \in Resources /\ StepStart(pc) = "server.wait"
      /\ {"ready", "server.wait"} \subseteq DeployCalls \cup {"ready"}
      BY DEF FipCreate, DeployCalls, Resources, StepStart
<1>2. CASE Has("interface")
  <2>1. Create("fip", "ready") /\ attached' = TRUE /\ UNCHANGED status /\ ~ Has("fip")
        BY <1>2 DEF FipCreate, IInv, CreateFindsNothing, DeployBuilds, Deploying, DeployCalls
  <2>2. /\ TypeOK' /\ NothingTwice' /\ TeardownClears' /\ FailuresAreCounted'
        /\ \A s \in Resources : Has(s)' <=> Has(s) \/ s = "fip"
        /\ pc' \in {"ready", "server.wait", "failed"}
        BY <1>1, <2>1, CreateKeeps DEF IInv, TypeOK
  <2>3. CreateFindsNothing' /\ DeployBuilds'
        BY <1>1, <1>2, <2>1, <2>2 DEF IInv, CreateFindsNothing, DeployBuilds, Deploying, DeployCalls, Resources
  <2> QED BY <2>2, <2>3 DEF IInv
<1>3. CASE ~ Has("interface")
  <2>1. CallEnds("server.wait") /\ UNCHANGED <<count, status, attached>>
        BY <1>3 DEF FipCreate, CallEnds, Rejected
  <2>2. /\ TypeOK' /\ NothingTwice' /\ TeardownClears' /\ FailuresAreCounted'
        /\ \A s \in Resources : Has(s)' = Has(s)
        /\ pc' \in {"server.wait", "failed"}
        BY <1>1, <2>1, LookUpKeeps
  <2>3. CreateFindsNothing' /\ DeployBuilds'
        BY <1>1, <1>3, <2>1, <2>2 DEF IInv, CreateFindsNothing, DeployBuilds, Deploying, DeployCalls, Resources
  <2> QED BY <2>2, <2>3 DEF IInv
<1> QED BY <1>2, <1>3

-----------------------------------------------------------------------------
(* The calls of the teardown.                                              *)

LEMMA TeardownBeginsKeeps == ASSUME IInv, TeardownBegins PROVE IInv'
<1>1. pc = "ready" /\ pc' = "fip.release" /\ UNCHANGED <<count, status, attached, failed, failures, faults>>
      BY DEF TeardownBegins, Then
<1>2. TypeOK' /\ NothingTwice' /\ \A r \in Resources : Has(r)' = Has(r)
      BY <1>1 DEF IInv, TypeOK, NothingTwice, Has, TeardownCalls
<1>3. CreateFindsNothing' /\ DeployBuilds' /\ FailuresAreCounted'
      BY <1>1, OpenStackAssumption
         DEF IInv, CreateFindsNothing, DeployBuilds, FailuresAreCounted, Deploying, DeployCalls
<1>4. TeardownClears'
      BY <1>1, <1>2 DEF IInv, DeployBuilds, Deploying, TeardownClears, Resources
<1> QED BY <1>2, <1>3, <1>4 DEF IInv

\* A call of the teardown makes nothing.
LEMMA TeardownKeeps ==
    ASSUME IInv, pc \in TeardownCalls, NEW next \in TeardownCalls \cup {"gone"},
           CallEnds(next) \/ (Breaks /\ pc' = next /\ UNCHANGED failures),
           count' \in [Resources -> Nat], \A r \in Resources : count'[r] <= count[r],
           status' \in {status, "deleting"}, attached' \in BOOLEAN
    PROVE  /\ TypeOK' /\ NothingTwice' /\ CreateFindsNothing' /\ DeployBuilds' /\ FailuresAreCounted'
           /\ \A r \in Resources : Has(r)' => Has(r)
           /\ pc' \in {next, "fip.release", "quarantined"}
           /\ failed \subseteq failed'
           /\ CallEnds(next) /\ pc' # next => failed' = failed \/ failed' = failed \cup {pc}
<1>1. pc' \in TeardownCalls \cup {"gone", "quarantined"}
      BY TeardownCallEnds DEF TeardownCalls
<1>2. TypeOK'
      BY <1>1, TeardownCallEnds DEF IInv, TypeOK, Ends
<1>3. \A r \in Resources : count[r] \in Nat /\ count'[r] \in Nat
      BY DEF IInv, TypeOK
<1>4. NothingTwice' /\ \A r \in Resources : Has(r)' => Has(r)
      BY <1>3 DEF IInv, NothingTwice, Has
<1>5. CreateFindsNothing' /\ DeployBuilds'
      BY <1>1 DEF CreateFindsNothing, DeployBuilds, Deploying, DeployCalls, TeardownCalls
<1>6. CallEnds(next) /\ pc' # next => failed' = failed \/ failed' = failed \cup {pc}
      BY DEF CallEnds, Then, Breaks
<1> QED BY <1>2, <1>4, <1>5, <1>6, TeardownCallEnds

LEMMA FipReleaseKeeps == ASSUME IInv, FipRelease PROVE IInv'
<1>1. pc = "fip.release" /\ pc \in TeardownCalls /\ "server.delete" \in TeardownCalls \cup {"gone"}
      BY DEF FipRelease, TeardownCalls
<1>2. count \in [Resources -> Nat] /\ attached \in BOOLEAN
      BY DEF IInv, TypeOK
<1>3. CallEnds("server.delete") \/ (Breaks /\ pc' = "server.delete" /\ UNCHANGED failures)
      BY DEF FipRelease, CallEnds, Create, Delete, Then, Rejected
<1>4. count' \in [Resources -> Nat] /\ (\A r \in Resources : count'[r] <= count[r]) /\ (\A r \in Resources \ {"fip"} : count'[r] = count[r])
      BY <1>2 DEF FipRelease, Delete, Rejected, Resources, Has
<1>5. status' \in {status, "deleting"} /\ attached' \in BOOLEAN
      BY <1>2 DEF FipRelease, Rejected
<1>6. /\ TypeOK' /\ NothingTwice' /\ CreateFindsNothing' /\ DeployBuilds' /\ FailuresAreCounted'
      /\ \A r \in Resources : Has(r)' => Has(r)
      /\ pc' \in {"server.delete", "fip.release", "quarantined"}
      /\ failed \subseteq failed'
      BY <1>1, <1>3, <1>4, <1>5, TeardownKeeps
<1>7. TeardownClears'
      BY <1>1, <1>2, <1>3, <1>4, <1>5, <1>6 DEF IInv, TeardownClears, TearingDown, TeardownCalls, Resources, Has, FipRelease, Then, Breaks
<1> QED BY <1>6, <1>7 DEF IInv

LEMMA ServerDeleteKeeps == ASSUME IInv, ServerDelete PROVE IInv'
<1>1. pc = "server.delete" /\ pc \in TeardownCalls /\ "keypair.delete" \in TeardownCalls \cup {"gone"}
      BY DEF ServerDelete, TeardownCalls
<1>2. count \in [Resources -> Nat] /\ attached \in BOOLEAN
      BY DEF IInv, TypeOK
<1>3. CallEnds("keypair.delete")
      BY DEF ServerDelete, CallEnds, Create, Delete, Then, Rejected
<1>4. count' \in [Resources -> Nat] /\ (\A r \in Resources : count'[r] <= count[r]) /\ (\A r \in Resources : count'[r] = count[r])
      BY <1>2 DEF ServerDelete, Delete, Rejected, Resources, Has
<1>5. status' \in {status, "deleting"} /\ attached' \in BOOLEAN
      BY <1>2 DEF ServerDelete, Rejected
<1>6. /\ TypeOK' /\ NothingTwice' /\ CreateFindsNothing' /\ DeployBuilds' /\ FailuresAreCounted'
      /\ \A r \in Resources : Has(r)' => Has(r)
      /\ pc' \in {"keypair.delete", "fip.release", "quarantined"}
      /\ failed \subseteq failed'
      BY <1>1, <1>3, <1>4, <1>5, TeardownKeeps
<1>7. TeardownClears'
      BY <1>1, <1>2, <1>3, <1>4, <1>5, <1>6 DEF IInv, TeardownClears, TearingDown, TeardownCalls, Resources, Has, ServerDelete
<1> QED BY <1>6, <1>7 DEF IInv

LEMMA KeypairDeleteKeeps == ASSUME IInv, KeypairDelete PROVE IInv'
<1>1. pc = "keypair.delete" /\ pc \in TeardownCalls /\ "interface.remove" \in TeardownCalls \cup {"gone"}
      BY DEF KeypairDelete, TeardownCalls
<1>2. count \in [Resources -> Nat] /\ attached \in BOOLEAN
      BY DEF IInv, TypeOK
<1>3. CallEnds("interface.remove")
      BY DEF KeypairDelete, CallEnds, Create, Delete, Then, Rejected
<1>4. count' \in [Resources -> Nat] /\ (\A r \in Resources : count'[r] <= count[r]) /\ (count'["keypair"] = 0 /\ \A r \in Resources \ {"keypair"} : count'[r] = count[r])
      BY <1>2 DEF KeypairDelete, Delete, Rejected, Resources, Has
<1>5. status' \in {status, "deleting"} /\ attached' \in BOOLEAN
      BY <1>2 DEF KeypairDelete, Rejected
<1>6. /\ TypeOK' /\ NothingTwice' /\ CreateFindsNothing' /\ DeployBuilds' /\ FailuresAreCounted'
      /\ \A r \in Resources : Has(r)' => Has(r)
      /\ pc' \in {"interface.remove", "fip.release", "quarantined"}
      /\ failed \subseteq failed'
      BY <1>1, <1>3, <1>4, <1>5, TeardownKeeps
<1>7. TeardownClears'
      BY <1>1, <1>2, <1>3, <1>4, <1>5, <1>6 DEF IInv, TeardownClears, TearingDown, TeardownCalls, Resources, Has, KeypairDelete
<1> QED BY <1>6, <1>7 DEF IInv

\* The interface is the router's last tie: once it is gone the next call must delete the
\* router, for no later one finds it.
LEMMA InterfaceRemoveKeeps == ASSUME IInv, InterfaceRemove PROVE IInv'
<1>1. pc = "interface.remove" /\ pc \in TeardownCalls
      BY DEF InterfaceRemove, TeardownCalls
<1>2. count \in [Resources -> Nat] /\ attached \in BOOLEAN /\ "interface" \in Resources
      BY DEF IInv, TypeOK, Resources
<1>3. PICK next \in {"subnet.delete", "router.delete"} : CallEnds(next) /\ (next = "subnet.delete" => ~ Has("interface"))
      BY DEF InterfaceRemove, Delete, CallEnds
<1>4. next \in TeardownCalls
      BY DEF TeardownCalls
<1>5. /\ count' \in [Resources -> Nat] /\ \A r \in Resources : count'[r] <= count[r]
      /\ \A r \in Resources \ {"interface"} : count'[r] = count[r]
      /\ UNCHANGED <<status, attached>>
      BY <1>2 DEF InterfaceRemove, Delete
<1>6. count'["interface"] # count["interface"] => pc' = "router.delete" \/ "interface.remove" \in failed'
      BY <1>1 DEF InterfaceRemove, Delete, Then, Breaks
<1>7. /\ TypeOK' /\ NothingTwice' /\ CreateFindsNothing' /\ DeployBuilds' /\ FailuresAreCounted'
      /\ \A r \in Resources : Has(r)' => Has(r)
      /\ pc' \in {next, "fip.release", "quarantined"}
      /\ failed \subseteq failed'
      BY <1>1, <1>2, <1>3, <1>4, <1>5, TeardownKeeps
<1>8. TeardownClears'
      BY <1>1, <1>2, <1>5, <1>6, <1>7 DEF IInv, TeardownClears, TearingDown, TeardownCalls, Resources, Has
<1> QED BY <1>7, <1>8 DEF IInv

LEMMA RouterDeleteKeeps == ASSUME IInv, RouterDelete PROVE IInv'
<1>1. pc = "router.delete" /\ pc \in TeardownCalls /\ "subnet.delete" \in TeardownCalls \cup {"gone"}
      BY DEF RouterDelete, TeardownCalls
<1>2. count \in [Resources -> Nat] /\ attached \in BOOLEAN
      BY DEF IInv, TypeOK
<1>3. CallEnds("subnet.delete")
      BY DEF RouterDelete, CallEnds, Create, Delete, Then, Rejected
<1>4. count' \in [Resources -> Nat] /\ (\A r \in Resources : count'[r] <= count[r]) /\ ((\A r \in Resources \ {"router"} : count'[r] = count[r]) /\ (Has("interface") \/ count'["router"] = 0))
      BY <1>2 DEF RouterDelete, Delete, Rejected, Resources, Has
<1>5. status' \in {status, "deleting"} /\ attached' \in BOOLEAN
      BY <1>2 DEF RouterDelete, Rejected
<1>6. /\ TypeOK' /\ NothingTwice' /\ CreateFindsNothing' /\ DeployBuilds' /\ FailuresAreCounted'
      /\ \A r \in Resources : Has(r)' => Has(r)
      /\ pc' \in {"subnet.delete", "fip.release", "quarantined"}
      /\ failed \subseteq failed'
      BY <1>1, <1>3, <1>4, <1>5, TeardownKeeps
<1>7. TeardownClears'
      BY <1>1, <1>2, <1>3, <1>4, <1>5, <1>6 DEF IInv, TeardownClears, TearingDown, TeardownCalls, Resources, Has, RouterDelete
<1> QED BY <1>6, <1>7 DEF IInv

LEMMA SubnetDeleteKeeps == ASSUME IInv, SubnetDelete PROVE IInv'
<1>1. pc = "subnet.delete" /\ pc \in TeardownCalls /\ "network.delete" \in TeardownCalls \cup {"gone"}
      BY DEF SubnetDelete, TeardownCalls
<1>2. count \in [Resources -> Nat] /\ attached \in BOOLEAN
      BY DEF IInv, TypeOK
<1>3. CallEnds("network.delete")
      BY DEF SubnetDelete, CallEnds, Create, Delete, Then, Rejected
<1>4. count' \in [Resources -> Nat] /\ (\A r \in Resources : count'[r] <= count[r]) /\ (\A r \in Resources \ {"subnet"} : count'[r] = count[r])
      BY <1>2 DEF SubnetDelete, Delete, Rejected, Resources, Has
<1>5. status' \in {status, "deleting"} /\ attached' \in BOOLEAN
      BY <1>2 DEF SubnetDelete, Rejected
<1>6. /\ TypeOK' /\ NothingTwice' /\ CreateFindsNothing' /\ DeployBuilds' /\ FailuresAreCounted'
      /\ \A r \in Resources : Has(r)' => Has(r)
      /\ pc' \in {"network.delete", "fip.release", "quarantined"}
      /\ failed \subseteq failed'
      BY <1>1, <1>3, <1>4, <1>5, TeardownKeeps
<1>7. TeardownClears'
      BY <1>1, <1>2, <1>3, <1>4, <1>5, <1>6 DEF IInv, TeardownClears, TearingDown, TeardownCalls, Resources, Has, SubnetDelete
<1> QED BY <1>6, <1>7 DEF IInv

\* The network can be deleted only when nothing is connected to it.
LEMMA NetworkDeleteKeeps == ASSUME IInv, NetworkDelete PROVE IInv'
<1>1. pc = "network.delete" /\ pc \in TeardownCalls
      BY DEF NetworkDelete, TeardownCalls
<1>2. count \in [Resources -> Nat] /\ attached \in BOOLEAN
      BY DEF IInv, TypeOK
<1>3. CASE InUse
  <2>1. StepFails /\ UNCHANGED <<count, status, attached, failed, faults>>
        BY <1>3 DEF NetworkDelete, Rejected
  <2>2. CallEnds("fip.release") /\ "fip.release" \in TeardownCalls
        BY <2>1 DEF CallEnds, TeardownCalls
  <2>3. /\ TypeOK' /\ NothingTwice' /\ CreateFindsNothing' /\ DeployBuilds' /\ FailuresAreCounted'
        /\ pc' \in {"fip.release", "quarantined"}
        BY <1>1, <1>2, <2>1, <2>2, TeardownKeeps DEF IInv, TypeOK
  <2>4. TeardownClears'
        BY <1>1, <2>1, <2>3 DEF IInv, TeardownClears, TearingDown, TeardownCalls, Has
  <2> QED BY <2>3, <2>4 DEF IInv
<1>4. CASE ~ InUse
  <2>1. /\ count' = [count EXCEPT !["network"] = 0, !["subnet"] = 0]
        /\ CallEnds("gone") /\ UNCHANGED <<status, attached>>
        BY <1>4 DEF NetworkDelete, CallEnds
  <2>2. /\ count' \in [Resources -> Nat] /\ \A r \in Resources : count'[r] <= count[r]
        /\ \A r \in Resources \ {"network", "subnet"} : count'[r] = count[r]
        /\ count'["network"] = 0 /\ count'["subnet"] = 0
        BY <1>2, <2>1 DEF Resources
  <2>3. /\ TypeOK' /\ NothingTwice' /\ CreateFindsNothing' /\ DeployBuilds' /\ FailuresAreCounted'
        /\ \A r \in Resources : Has(r)' => Has(r)
        /\ pc' \in {"gone", "fip.release", "quarantined"} /\ failed \subseteq failed'
        BY <1>1, <1>2, <2>1, <2>2, TeardownKeeps
  <2>4. ~ Has("server") /\ ~ Has("interface")
        BY <1>4 DEF InUse
  <2>5. TeardownClears'
        BY <1>1, <2>1, <2>2, <2>3, <2>4 DEF IInv, TeardownClears, TearingDown, TeardownCalls, Resources, Has
  <2> QED BY <2>3, <2>5 DEF IInv
<1> QED BY <1>3, <1>4

-----------------------------------------------------------------------------
(* Calls without an answer, and Nova.                                      *)

LEMMA UnansweredKeeps == ASSUME IInv, Unanswered PROVE IInv'
<1>1. Breaks /\ StepFails /\ UNCHANGED <<count, status, attached>>
      BY DEF Unanswered
<1>2. CASE pc \in DeployCalls
  <2>1. CallEnds(StepStart(pc)) /\ StepStart(pc) \in DeployCalls
        BY <1>1, <1>2 DEF CallEnds, StepStart, DeployCalls
  <2>2. /\ TypeOK' /\ NothingTwice' /\ TeardownClears' /\ FailuresAreCounted'
        /\ \A r \in Resources : Has(r)' = Has(r)
        /\ pc' \in {StepStart(pc), "failed"}
        BY <1>1, <1>2, <2>1, LookUpKeeps
  <2>3. CreateFindsNothing' /\ DeployBuilds'
        BY <1>1, <1>2, <2>2
           DEF IInv, CreateFindsNothing, DeployBuilds, Deploying, DeployCalls, StepStart, Resources
  <2> QED BY <2>2, <2>3 DEF IInv
<1>3. CASE pc \in TeardownCalls
  <2>1. CallEnds("fip.release") /\ "fip.release" \in TeardownCalls
        BY <1>1 DEF CallEnds, TeardownCalls
  <2>2. count \in [Resources -> Nat] /\ attached \in BOOLEAN
        BY DEF IInv, TypeOK
  <2>3. /\ TypeOK' /\ NothingTwice' /\ CreateFindsNothing' /\ DeployBuilds' /\ FailuresAreCounted'
        /\ pc' \in {"fip.release", "quarantined"} /\ failed' = failed \cup {pc}
        BY <1>1, <1>3, <2>1, <2>2, TeardownKeeps DEF IInv, TypeOK, Breaks
  <2>4. pc # "fip.release"
        BY DEF Unanswered
  <2>5. TeardownClears'
        BY <1>1, <1>3, <2>3, <2>4 DEF IInv, TeardownClears, TearingDown, TeardownCalls, Has
  <2> QED BY <2>3, <2>5 DEF IInv
<1> QED BY <1>2, <1>3 DEF Unanswered

LEMMA BuiltKeeps == ASSUME IInv, Built PROVE IInv'
<1>1. /\ status = "BUILD" /\ status' \in {"ACTIVE", "ERROR"}
      /\ UNCHANGED <<pc, count, attached, failed, failures, faults>>
      BY DEF Built
<1>2. TypeOK' /\ NothingTwice' /\ \A r \in Resources : Has(r)' = Has(r)
      BY <1>1 DEF IInv, TypeOK, NothingTwice, Has
<1>3. CreateFindsNothing' /\ FailuresAreCounted'
      BY <1>1 DEF IInv, CreateFindsNothing, FailuresAreCounted, Deploying, Has
<1>4. DeployBuilds'
      BY <1>1 DEF IInv, DeployBuilds, Deploying, Has
<1>5. TeardownClears'
      BY <1>1 DEF IInv, TeardownClears, TearingDown, Has
<1> QED BY <1>2, <1>3, <1>4, <1>5 DEF IInv

LEMMA DeletedKeeps == ASSUME IInv, Deleted PROVE IInv'
<1>1. /\ status = "deleting" /\ status' = "none" /\ attached' = FALSE
      /\ count' = [count EXCEPT !["server"] = 0]
      /\ UNCHANGED <<pc, failed, failures, faults>>
      BY DEF Deleted
<1>2. count \in [Resources -> Nat]
      BY DEF IInv, TypeOK
<1>3. /\ count' \in [Resources -> Nat] /\ count'["server"] = 0
      /\ \A r \in Resources \ {"server"} : count'[r] = count[r]
      BY <1>1, <1>2 DEF Resources
<1>4. TypeOK' /\ NothingTwice'
  <2>1. attached' \in BOOLEAN
        BY <1>1
  <2>2. TypeOK'
        BY <1>1, <1>3, <2>1 DEF IInv, TypeOK
  <2> QED BY <1>2, <1>3, <2>2 DEF IInv, NothingTwice
<1>5. ~ Deploying
      BY <1>1 DEF IInv, DeployBuilds
<1>6. CreateFindsNothing' /\ DeployBuilds' /\ FailuresAreCounted'
      BY <1>1, <1>5 DEF IInv, CreateFindsNothing, DeployBuilds, FailuresAreCounted, Deploying, DeployCalls
<1>7. TeardownClears'
      BY <1>1, <1>3 DEF IInv, TeardownClears, TearingDown, Resources, Has
<1> QED BY <1>4, <1>6, <1>7 DEF IInv

-----------------------------------------------------------------------------
(* The theorems.                                                           *)

LEMMA StepKeepsIInv == ASSUME IInv, [Next]_vars PROVE IInv'
<1>1. CASE DeployStep
      BY <1>1, KeypairGetKeeps, KeypairCreateKeeps, NetworkFindKeeps, NetworkCreateKeeps, SubnetEnsureKeeps,
         RouterEnsureKeeps, InterfaceAddKeeps, ServerFindKeeps, ServerRefsKeeps, ServerCreateKeeps,
         ServerWaitKeeps, FipFindKeeps, FipCreateKeeps DEF DeployStep
<1>2. CASE TeardownStep
      BY <1>2, FipReleaseKeeps, ServerDeleteKeeps, KeypairDeleteKeeps, InterfaceRemoveKeeps,
         RouterDeleteKeeps, SubnetDeleteKeeps, NetworkDeleteKeeps DEF TeardownStep
<1>3. CASE UNCHANGED vars
      BY <1>3 DEF vars, IInv, TypeOK, NothingTwice, CreateFindsNothing, DeployBuilds, TeardownClears,
                  FailuresAreCounted, Deploying, TearingDown, Has
<1> QED BY <1>1, <1>2, <1>3, TeardownBeginsKeeps, UnansweredKeeps, BuiltKeeps, DeletedKeeps DEF Next

\* The calls of a deploy and of a teardown find and leave what the next ones rely on
\* (CreateNetwork, BootServer, DeleteServer, DeleteNetwork).
THEOREM InvariantHolds == Spec => []IInv
<1>1. Init => IInv
      BY InitHolds
<1>2. IInv /\ [Next]_vars => IInv'
      BY StepKeepsIInv
<1> QED BY <1>1, <1>2, PTL DEF Spec

\* However many replies are lost, no step makes a resource a second time (BootServer,
\* CreateNetwork and AllocateFloatingIP look before they create).
THEOREM NothingIsMadeTwice == Spec => []NothingTwice
<1>1. IInv => NothingTwice
      BY DEF IInv
<1> QED BY <1>1, InvariantHolds, PTL

\* A deploy that got through has a machine that can be reached, whatever its steps found
\* half-made.
THEOREM ReadyIsAlwaysReachable == Spec => []ReadyIsReachable
<1>1. IInv => ReadyIsReachable
      BY DEF IInv, ReadyIsReachable, DeployBuilds, Deploying, Resources
<1> QED BY <1>1, InvariantHolds, PTL

\* A teardown that reports success left nothing behind but an address or a router whose
\* own call failed (DeleteServer, DeleteNetwork).
THEOREM GoneIsEmpty == Spec => []TornDownIsEmpty
<1>1. IInv => TornDownIsEmpty
  <2> SUFFICES ASSUME IInv, pc = "gone", NEW r \in Resources, Has(r)
               PROVE  \/ r = "fip" /\ "fip.release" \in failed
                      \/ r = "router" /\ failed \cap {"interface.remove", "router.delete"} # {}
      BY DEF TornDownIsEmpty
  <2>1. r \in {"router", "fip"}
        BY DEF IInv, TeardownClears, TearingDown, Resources
  <2> QED BY <2>1 DEF IInv, TeardownClears, TearingDown
<1> QED BY <1>1, InvariantHolds, PTL
=============================================================================

--------------------------- MODULE DeployContract ---------------------------
(***************************************************************************)
(* What the deploy saga promises the rest of the system about one lab, and *)
(* what module Provisioning takes it to be: resources are made in the      *)
(* order of the steps and never lost, the lab leaves "deploying" once, as  *)
(* ready with everything that exists on record or as failed with nothing   *)
(* on record, and its follow-up task is enqueued after that, or lost.      *)
(***************************************************************************)
CONSTANT Chain        \* the sets of resources a deploy may have made so far

VARIABLES state,      \* of the lab: "deploying", "ready" or "failed"
          made,       \* what exists for the lab
          known,      \* what its row records
          followUp    \* the task its end enqueued: "none", "timer", "compensate"

vars == <<state, made, known, followUp>>

Init == /\ state = "deploying" /\ made = {} /\ known = {} /\ followUp = "none"

Makes == /\ state = "deploying"
         /\ made' \in Chain
         /\ made \subseteq made' /\ made # made'
         /\ UNCHANGED <<state, known, followUp>>

Succeeds == /\ state = "deploying"
            /\ \A more \in Chain : more \subseteq made
            /\ state' = "ready"
            /\ known' = made
            /\ UNCHANGED <<made, followUp>>

Fails == /\ state = "deploying"
         /\ state' = "failed"
         /\ UNCHANGED <<made, known, followUp>>

HandsOff == /\ state # "deploying"
            /\ followUp = "none"
            /\ followUp' = IF state = "ready" THEN "timer" ELSE "compensate"
            /\ UNCHANGED <<state, made, known>>

Next == Makes \/ Succeeds \/ Fails \/ HandsOff

Spec == Init /\ [][Next]_vars
=============================================================================

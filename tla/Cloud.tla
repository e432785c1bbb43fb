------------------------------- MODULE Cloud -------------------------------
(***************************************************************************)
(* What the sagas leave outside the database: the servers, the keypair and *)
(* the network of a lab at the cloud provider, and its private key in the  *)
(* secret store.  Both are external; a handle that is deleted twice, or    *)
(* that never existed, is not an error.                                    *)
(***************************************************************************)
EXTENDS LabDomain

VARIABLE exists      \* Labs -> the resources that exist for the lab

CloudTypeOK == exists \in [Labs -> SUBSET Handles]
CloudInit   == exists = [l \in Labs |-> {}]

Created(l, handles) == exists' = [exists EXCEPT ![l] = @ \cup handles]
Deleted(l, handles) == exists' = [exists EXCEPT ![l] = @ \ handles]
=============================================================================

--------------------------- MODULE EventDelivery ---------------------------
(***************************************************************************)
(* What the transactional outbox promises: the subscribers of the bus hear *)
(* of committed changes only, and every committed change stays heard or to *)
(* be heard.  An event may be heard again; that changes nothing here.      *)
(***************************************************************************)
CONSTANT Events

VARIABLES committed,   \* events whose transaction committed
          heard        \* events that were delivered at least once

vars == <<committed, heard>>

Init == committed = {} /\ heard = {}

Commit(e) == /\ e \notin committed
             /\ committed' = committed \cup {e}
             /\ UNCHANGED heard

Hear(e) == /\ e \in committed
           /\ heard' = heard \cup {e}
           /\ UNCHANGED committed

Next == \E e \in Events : Commit(e) \/ Hear(e)

Spec == Init /\ [][Next]_vars
=============================================================================

------------------------------ MODULE MCOutbox ------------------------------
(* Instances of Outbox for TLC.                                            *)
EXTENDS Outbox

\* The events alternate between two labs.
TwoLabs == [e \in Events |-> e % 2]
=============================================================================

---------------------------- MODULE MCCheckRuns ----------------------------
(* Instances of CheckRuns for TLC.                                         *)
EXTENDS CheckRuns, TLC

CONSTANTS l1, l2, r1

\* A check of the first lab; the second may take its address.
OfFirst == r1 :> l1

\* A playbook that changes something, and one that fails after it did.
FewPlays == {<<{"changed"}>>, <<{"changed", "failed"}>>}
=============================================================================

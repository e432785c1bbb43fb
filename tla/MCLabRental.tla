---------------------------- MODULE MCLabRental ----------------------------
(* Instances of LabRental for TLC: who owns the labs, and symmetry.        *)
EXTENDS LabRental, TLC

\* Every lab is another student's, or all are one student's in one course.
DistinctOwners == [l \in Labs |-> l]
OneOwner       == [l \in Labs |-> "student"]

\* Labs, projects and requests are told apart by nothing but their names; not
\* for the runs with liveness.
Symmetric == Permutations(Labs) \cup Permutations(Projects) \cup Permutations(Requests)
=============================================================================

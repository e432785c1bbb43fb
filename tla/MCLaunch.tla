------------------------------ MODULE MCLaunch ------------------------------
(* Instances of Launch for TLC.                                            *)
EXTENDS Launch, TLC

CONSTANTS t1, t2, t3

\* A user who learns in one course and teaches in another, and one with the same e-mail.
SubjectOf3 == t1 :> "ann" @@ t2 :> "ann" @@ t3 :> "bob"
CourseOf3  == t1 :> "c1" @@ t2 :> "c2" @@ t3 :> "c1"
RoleOf3    == t1 :> "learner" @@ t2 :> "teacher" @@ t3 :> "learner"
EmailOf3   == t1 :> "a" @@ t2 :> "a" @@ t3 :> "a"
KeyOf3     == t1 :> "k1" @@ t2 :> "k2" @@ t3 :> "k1"
=============================================================================

------------------------------- MODULE Policy -------------------------------
(***************************************************************************)
(* The access policy on labs (identity.DefaultPolicy), a pure function of  *)
(* the session's user, its roles and the lab's owner and course.           *)
(***************************************************************************)

\* The verbs that a lab is the target of, and those of administration.
LabActions   == {"create", "read", "freeze", "unfreeze", "extend", "delete", "ssh_key", "check"}
AdminActions == {"pool", "setting", "quota", "audit"}

\* What a student may not do to a lab of his own, and a teacher not to a student's.
NotByOwner   == {"unfreeze", "extend"}
NotByTeacher == {"ssh_key"}

Teaches(subj, course) == course \in subj.courses.teacher

\* Wrong: whoever teaches anywhere is the teacher of the course.
WrongCanActOnLab(subj, action, lab) ==
    \/ subj.role = "teacher" /\ action \notin NotByTeacher
    \/ subj.user = lab.owner /\ action \notin NotByOwner

\* The teacher of the course is looked at before the owner: one who owns a lab in a
\* course he teaches cannot read its key.
CanActOnLab(subj, action, lab) ==
    \/ subj.role = "admin"
    \/ Teaches(subj, lab.course) /\ action \notin NotByTeacher
    \/ ~ Teaches(subj, lab.course) /\ subj.user = lab.owner /\ action \notin NotByOwner

\* DefaultPolicy.Can, of a verb on a lab.
CanLab(subj, action, lab) == action \in LabActions /\ CanActOnLab(subj, action, lab)

\* DefaultPolicy.Can, of a verb of administration.
CanAdmin(subj, action) ==
    \/ subj.role = "admin" /\ action \in AdminActions
    \/ subj.role = "teacher" /\ action = "setting"

\* The courses whose labs the overview shows besides the user's own (taughtCourseIDs).
TaughtCourseIDs(subj) == subj.courses.teacher
=============================================================================

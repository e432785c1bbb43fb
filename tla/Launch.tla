------------------------------- MODULE Launch -------------------------------
(***************************************************************************)
(* An LTI launch: Moodle posts a signed token through the browser, some    *)
(* gateway verifies it (lti13.Verifier), stores the user, the course and   *)
(* the enrolment in one transaction (moodle.HandleLaunch), and answers     *)
(* with a session whose roles the policy later trusts.                     *)
(*                                                                         *)
(* The same token may be posted again, and several launches of one user    *)
(* may run at once, on one gateway or on two.  Transactions are READ       *)
(* COMMITTED: an INSERT or UPDATE waits for a transaction that holds the   *)
(* row or the unique value.  The id of a user is the request that inserted *)
(* it.  A session is a signed cookie that no server keeps: its roles are     *)
(* those of its launch until it expires or the browser drops it.           *)
(***************************************************************************)
EXTENDS Policy, Naturals, FiniteSets

CONSTANTS Requests,     \* posts of a launch form
          Gateways,     \* gateway processes
          Tokens,       \* id_tokens, each with a nonce of its own
          SubjectOf,    \* Tokens -> the user in Moodle (iss, sub)
          CourseOf,     \* Tokens -> the course of the launch
          RoleOf,       \* Tokens -> "teacher", "learner", or "other"
          EmailOf,      \* Tokens -> the e-mail, or NoEmail
          KeyOf,        \* Tokens -> the key that signed it
          LongLived,    \* tokens without an exp, or with one later than their nonce's 10 minutes
          NoEmail,
          Nobody,       \* no user, no token, no gateway
          MaxFaults     \* bound: restarts, refused calls

Subjects == {SubjectOf[t] : t \in Tokens}
Courses  == {CourseOf[t] : t \in Tokens}
Emails   == {EmailOf[t] : t \in Tokens} \cup {NoEmail}
Kids     == {KeyOf[t] : t \in Tokens}
UserRows == [email : Emails, role : {"student", "teacher"}]

ASSUME LaunchAssumption ==
    /\ \A f \in {SubjectOf, CourseOf, RoleOf, EmailOf, KeyOf} : DOMAIN f = Tokens
    /\ RoleOf \in [Tokens -> {"teacher", "learner", "other"}]
    /\ LongLived \subseteq Tokens
    /\ Nobody \notin Requests \cup Tokens \cup Gateways \cup UserRows
    /\ MaxFaults \in Nat

VARIABLES platform,   \* the keys that Moodle publishes
          keys,       \* Gateways -> the keys that it has learned
          spent,      \* tokens whose nonce is in Redis
          expired,    \* tokens past their exp
          post,       \* Requests -> [pc, token, at]
          target,     \* Requests -> the user its transaction writes
          users,      \* user ids -> the committed row, or Nobody
          links,      \* Subjects -> the committed lti_identities row
          enrolled,   \* user ids \X Courses -> the committed role
          taught,     \* <<user, course>> that were ever enrolled as teacher (history)
          session,    \* Requests -> the session it was answered with
          faults

vars == <<platform, keys, spent, expired, post, target, users, links, enrolled, taught, session, faults>>
moodleVars   == <<platform, expired>>
verifierVars == <<keys, spent>>
dbVars       == <<users, links, enrolled, taught>>

Pcs      == {"new", "verify", "fetch", "claim", "roles", "find", "write", "link", "enrol", "read", "in", "out", "refused"}
CourseRoles == [teacher : SUBSET Courses, learner : SUBSET Courses]
Sessions == [user : Requests, role : {"student", "teacher"}, courses : CourseRoles]

TypeOK ==
    /\ platform \subseteq Kids /\ keys \in [Gateways -> SUBSET Kids]
    /\ spent \subseteq Tokens /\ expired \subseteq Tokens
    /\ post \in [Requests -> [pc : Pcs, token : Tokens \cup {Nobody}, at : Gateways \cup {Nobody}]]
    /\ target \in [Requests -> Requests \cup {Nobody}]
    /\ users \in [Requests -> UserRows \cup {Nobody}]
    /\ links \in [Subjects -> Requests \cup {Nobody}]
    /\ enrolled \in [Requests \X Courses -> {"none", "learner", "teacher"}]
    /\ taught \subseteq Requests \X Courses
    /\ session \in [Requests -> Sessions \cup {Nobody}]
    /\ faults \in 0 .. MaxFaults

Init ==
    /\ platform \in {{k} : k \in Kids} /\ keys = [g \in Gateways |-> {}]
    /\ spent = {} /\ expired = {}
    /\ post = [q \in Requests |-> [pc |-> "new", token |-> Nobody, at |-> Nobody]]
    /\ target = [q \in Requests |-> Nobody]
    /\ users = [q \in Requests |-> Nobody]
    /\ links = [s \in Subjects |-> Nobody]
    /\ enrolled = [e \in Requests \X Courses |-> "none"]
    /\ taught = {}
    /\ session = [q \in Requests |-> Nobody]
    /\ faults = 0

Fault == faults < MaxFaults /\ faults' = faults + 1

Pc(q)    == post[q].pc
Token(q) == post[q].token
At(q)    == post[q].at
Email(q) == EmailOf[Token(q)]
Subject(q) == SubjectOf[Token(q)]
Goto(q, pc) == post' = [post EXCEPT ![q].pc = pc]

-----------------------------------------------------------------------------
(* Moodle and the browser.                                                 *)

\* Moodle signs with one key at a time.
Rotate == /\ platform' \in {{k} : k \in Kids} /\ platform' # platform
          /\ UNCHANGED <<expired, verifierVars, post, target, dbVars, session, faults>>

Expire(t) == /\ t \notin expired /\ expired' = expired \cup {t}
             /\ UNCHANGED <<platform, verifierVars, post, target, dbVars, session, faults>>

Post(q) ==
    /\ Pc(q) = "new"
    /\ \E t \in Tokens, g \in Gateways : post' = [post EXCEPT ![q] = [pc |-> "verify", token |-> t, at |-> g]]
    /\ UNCHANGED <<moodleVars, verifierVars, target, dbVars, session, faults>>

-----------------------------------------------------------------------------
(* VerifyLaunch.                                                           *)

\* The token is checked with a known key; a key that is not known is fetched first. The
\* claims, the audience or the nonce of the form may be wrong.
Verify(q) ==
    /\ Pc(q) = "verify"
    /\ IF KeyOf[Token(q)] \notin keys[At(q)] THEN Goto(q, "fetch")
       ELSE Goto(q, "refused") \/ (Token(q) \notin expired /\ Goto(q, "claim"))
    /\ UNCHANGED <<moodleVars, verifierVars, target, dbVars, session, faults>>

\* Wrong: a key that was not among those fetched is asked for again.
WrongFetch(q) ==
    /\ Pc(q) = "fetch"
    /\ keys' = [keys EXCEPT ![At(q)] = @ \cup platform]
    /\ Goto(q, "verify")
    /\ UNCHANGED <<moodleVars, spent, target, dbVars, session, faults>>

\* fetchJWKS adds the keys that are published now to those that were, which stay.
Fetch(q) ==
    /\ Pc(q) = "fetch"
    /\ \/ /\ keys' = [keys EXCEPT ![At(q)] = @ \cup platform]
          /\ Goto(q, IF KeyOf[Token(q)] \in keys'[At(q)] THEN "verify" ELSE "refused")
          /\ UNCHANGED faults
       \/ Fault /\ Goto(q, "refused") /\ UNCHANGED keys
    /\ UNCHANGED <<moodleVars, spent, target, dbVars, session>>

\* Wrong: each gateway remembers the nonces it has seen itself.
WrongIsSpent(q) == \E r \in Requests \ {q} :
                      /\ Token(r) = Token(q) /\ At(r) = At(q)
                      /\ Pc(r) \notin {"new", "verify", "fetch", "claim", "refused"}

IsSpent(q) == Token(q) \in spent

\* claimNonce: SETNX in the Redis of all gateways. A call that fails may have stored it.
ClaimNonce(q) ==
    /\ Pc(q) = "claim"
    /\ \/ ~ IsSpent(q) /\ spent' = spent \cup {Token(q)} /\ Goto(q, "roles") /\ UNCHANGED faults
       \/ IsSpent(q) /\ Goto(q, "refused") /\ UNCHANGED <<spent, faults>>
       \/ /\ Fault /\ Goto(q, "refused")
          /\ spent' \in {spent, spent \cup {Token(q)}}
    /\ UNCHANGED <<moodleVars, keys, target, dbVars, session>>

\* The nonce of a token expires in Redis ten minutes after it was claimed: after the
\* token itself, and after every request that has checked it before has claimed it, as a
\* request is not held for that long between the two. A token may be valid for longer:
\* the verifier asks for no exp and bounds none.
ForgetNonce(t) ==
    /\ t \in spent
    /\ \/ t \in LongLived
       \/ t \in expired /\ \A q \in Requests : Token(q) = t => Pc(q) # "claim"
    /\ spent' = spent \ {t}
    /\ UNCHANGED <<moodleVars, keys, post, target, dbVars, session, faults>>

-----------------------------------------------------------------------------
(* HandleLaunch. The nonce is spent, whatever follows.                     *)

\* rolesFromLaunch.
GlobalRole(role) == IF role = "teacher" THEN "teacher" ELSE "student"

Roles(q) ==
    /\ Pc(q) = "roles"
    /\ Goto(q, IF RoleOf[Token(q)] = "other" THEN "refused" ELSE "find")
    /\ UNCHANGED <<moodleVars, verifierVars, target, dbVars, session, faults>>

\* A request whose transaction has written its user.
Open == {q \in Requests : Pc(q) \in {"link", "enrol"}}
IsNew(q) == target[q] = q

\* GetUserByLTI: a user that is found is updated, otherwise one is inserted.
FindUser(q) ==
    /\ Pc(q) = "find"
    /\ target' = [target EXCEPT ![q] = IF links[Subject(q)] = Nobody THEN q ELSE links[Subject(q)]]
    /\ Goto(q, "write")
    /\ UNCHANGED <<moodleVars, verifierVars, dbVars, session, faults>>

\* An open transaction that holds the row of the user, or has given up or taken its e-mail.
Holds(r, q) ==
    \/ target[r] = target[q]
    \/ Email(q) # NoEmail /\ Email(r) = Email(q)
    \/ Email(q) # NoEmail /\ users[target[r]] # Nobody /\ users[target[r]].email = Email(q)

\* Wrong: e-mails need not be unique.
WrongIsTaken(q) == FALSE

\* users_email_unique.
IsTaken(q) == Email(q) # NoEmail /\ \E u \in Requests \ {target[q]} :
                                      users[u] # Nobody /\ users[u].email = Email(q)

\* The row that the launch leaves of its user.
UserFromLaunch(q) == [email |-> Email(q), role |-> GlobalRole(RoleOf[Token(q)])]

\* InsertUserFromLaunch, or UpdateUserFromLaunch, which also replaces the role.
WriteUser(q) ==
    /\ Pc(q) = "write"
    /\ \A r \in Open : ~ Holds(r, q)
    /\ Goto(q, IF IsTaken(q) THEN "refused" ELSE IF IsNew(q) THEN "link" ELSE "enrol")
    /\ UNCHANGED <<moodleVars, verifierVars, target, dbVars, session, faults>>

\* UpsertLTIIdentity of a new user: the last one that links the subject has it.
Link(q) ==
    /\ Pc(q) = "link"
    /\ \A r \in Open \ {q} : Pc(r) = "enrol" /\ IsNew(r) => Subject(r) # Subject(q)
    /\ Goto(q, "enrol")
    /\ UNCHANGED <<moodleVars, verifierVars, target, dbVars, session, faults>>

\* UpsertCourse: the one row of the course that the launch names.
UpsertCourse(q) == CourseOf[Token(q)]

\* EnrollCourseUser: the role of an enrolment is replaced.
EnrollCourseUser(u, c, role) ==
    /\ enrolled' = [enrolled EXCEPT ![<<u, c>>] = role]
    /\ taught' = IF role = "teacher" THEN taught \cup {<<u, c>>} ELSE taught

\* The course is upserted, the user enrolled with the role of this launch, and the
\* transaction commits.
Commit(q) ==
    LET u    == target[q]
        c    == UpsertCourse(q)
        role == RoleOf[Token(q)]
    IN
    /\ Pc(q) = "enrol"
    /\ users' = [users EXCEPT ![u] = UserFromLaunch(q)]
    /\ links' = IF IsNew(q) THEN [links EXCEPT ![Subject(q)] = q] ELSE links
    /\ EnrollCourseUser(u, c, role)
    /\ Goto(q, "read")
    /\ UNCHANGED <<moodleVars, verifierVars, target, session, faults>>

\* A statement fails: the transaction is rolled back.
Rollback(q) ==
    /\ Pc(q) \in {"find", "write", "link", "enrol"}
    /\ Fault
    /\ Goto(q, "refused")
    /\ UNCHANGED <<moodleVars, verifierVars, target, dbVars, session>>

\* GetCourseRoles, outside the transaction.
RolesOf(u) == [teacher |-> {c \in Courses : enrolled[<<u, c>>] = "teacher"},
               learner |-> {c \in Courses : enrolled[<<u, c>>] = "learner"}]

\* The roles are read and the session issued: its global role is that of this launch.
Issue(q) ==
    /\ Pc(q) = "read"
    /\ \/ /\ session' = [session EXCEPT ![q] = [user |-> target[q], role |-> GlobalRole(RoleOf[Token(q)]),
                                                courses |-> RolesOf(target[q])]]
          /\ Goto(q, "in") /\ UNCHANGED faults
       \/ Fault /\ Goto(q, "refused") /\ UNCHANGED session
    /\ UNCHANGED <<moodleVars, verifierVars, target, dbVars>>

-----------------------------------------------------------------------------
(* What the session opens.                                                 *)

\* RequireAuth lets a request pass whose cookie ParsePrincipal accepts, and the handler
\* acts for the principal in the cookie: users and enrolments are not read again.
RequireAuth(q) == Pc(q) = "in"
ParsePrincipal(q) == session[q]

\* canLab of the use cases.
Reaches(q, action, lab) == RequireAuth(q) /\ CanLab(ParsePrincipal(q), action, lab)

\* The user signs out and the browser drops the cookie, or its hours are over.
SignOut(q) == /\ Pc(q) = "in"
              /\ Goto(q, "out")
              /\ UNCHANGED <<moodleVars, verifierVars, target, dbVars, session, faults>>

-----------------------------------------------------------------------------
\* A gateway stops: its requests end, its transactions are rolled back, and the next one
\* knows no key.
Restart(g) ==
    /\ Fault
    /\ keys' = [keys EXCEPT ![g] = {}]
    /\ post' = [q \in Requests |-> IF At(q) = g /\ Pc(q) \notin {"in", "out"} THEN [post[q] EXCEPT !.pc = "refused"]
                                   ELSE post[q]]
    /\ UNCHANGED <<moodleVars, spent, target, dbVars, session>>

LaunchStep(q) ==
    \/ Verify(q) \/ Fetch(q) \/ ClaimNonce(q) \/ Roles(q)
    \/ FindUser(q) \/ WriteUser(q) \/ Link(q) \/ Commit(q) \/ Issue(q)

Next ==
    \/ Rotate
    \/ \E t \in Tokens : Expire(t) \/ ForgetNonce(t)
    \/ \E q \in Requests : Post(q) \/ LaunchStep(q) \/ Rollback(q) \/ SignOut(q)
    \/ \E g \in Gateways : Restart(g)

Spec == Init /\ [][Next]_vars

\* A gateway works on each request that it has; Moodle, users and faults need not act.
FairSpec == Spec /\ \A q \in Requests : WF_vars(LaunchStep(q))

-----------------------------------------------------------------------------
\* A token that expires before its nonce does opens one session at most, whichever
\* gateways it is posted to, and however often they restart (claimNonce in the shared
\* Redis). Nothing is promised of a token that lives longer than the nonce's ten minutes.
TokenOpensOnce ==
    \A q, r \in Requests :
        /\ session[q] # Nobody /\ session[r] # Nobody
        /\ Token(q) = Token(r) /\ Token(q) \notin LongLived
        => q = r

\* Launches of one user that carry one e-mail open one account, even if none existed
\* and they race to create it (GetUserByLTI reads before anything is locked; the index
\* on e-mails stops the second INSERT).
OneAccount ==
    \A q, r \in Requests :
        /\ session[q] # Nobody /\ session[r] # Nobody /\ Subject(q) = Subject(r)
        /\ \A t \in Tokens : SubjectOf[t] = Subject(q) => EmailOf[t] = Email(q)
        /\ Email(q) # NoEmail
        => session[q].user = session[r].user

\* A session that reaches a lab of somebody else belongs to a user who was enrolled as
\* teacher of the lab's course, whatever he is elsewhere (canActOnLab, on the roles that
\* GetCourseRoles read).
OnlyTeachersReachOthers ==
    \A q \in Requests, owner \in Requests, c \in Courses, a \in LabActions :
        /\ Reaches(q, a, [owner |-> owner, course |-> c])
        /\ owner # ParsePrincipal(q).user
        => <<session[q].user, c>> \in taught

\* Every post is answered: transactions that wait for each other's rows get through
\* (users, then identities, then courses).
PostsAreAnswered == \A q \in Requests : (Pc(q) = "verify") ~> (Pc(q) \in {"in", "refused"})

-----------------------------------------------------------------------------
(* Why OneAccount holds: the users of a launch, from find to its session.  *)

Posted(q) == Pc(q) # "new"
Through(q) == Pc(q) \in {"in", "out"}

\* The posts that have found out whom they write, or have written him.
Targeting == {q \in Requests : Pc(q) \in {"write", "link", "enrol", "read", "in", "out"}}

\* A user is that of one subject, through whichever launch of it he was inserted, linked,
\* found or updated: no launch of somebody else ever writes him.
UsersAreOwn ==
    /\ \A s \in Subjects : links[s] # Nobody => Posted(links[s]) /\ Subject(links[s]) = s
    /\ \A q \in Targeting : /\ target[q] \in Requests /\ Posted(target[q])
                            /\ Subject(target[q]) = Subject(q)
    /\ \A u \in Requests : users[u] # Nobody =>
           /\ Posted(u)
           /\ \E t \in Tokens : SubjectOf[t] = Subject(u) /\ EmailOf[t] = users[u].email

\* A launch that committed left its user, and its session is his.
UsersAreStored ==
    /\ \A q \in Requests : Pc(q) = "read" \/ Through(q) => users[target[q]] # Nobody
    /\ \A q \in Requests : Through(q) => session[q].user = target[q]

\* The index on e-mails, among the committed rows and those that are about to be: an open
\* transaction has its user's row, and its e-mail, to itself.
EmailsAreUnique ==
    /\ \A u, v \in Requests :
           /\ users[u] # Nobody /\ users[v] # Nobody
           /\ users[u].email = users[v].email /\ users[u].email # NoEmail
           => u = v
    /\ \A q \in Open : ~ IsTaken(q)
    /\ \A q, r \in Open : q # r => /\ target[q] # target[r]
                                   /\ Email(q) # NoEmail => Email(q) # Email(r)

AccountIInv == UsersAreOwn /\ UsersAreStored /\ EmailsAreUnique
=============================================================================

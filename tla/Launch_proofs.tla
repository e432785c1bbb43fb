---------------------------- MODULE Launch_proofs ----------------------------
(***************************************************************************)
(* Proofs about module Launch, for any number of posts, gateways and       *)
(* tokens, and any number of restarts and failed statements.               *)
(***************************************************************************)
EXTENDS Launch, TLAPS

\* The posts whose token was accepted, and that were not refused since.
Claimed == {q \in Requests : Pc(q) \in {"roles", "find", "write", "link", "enrol", "read", "in", "out"}}

\* The posts that write, or have written, a user.
Writing == {q \in Requests : Pc(q) \in {"write", "link", "enrol", "read"}}

\* A post that was sent has a token and a gateway, one that writes knows whom and as what.
PostsAreSound ==
    /\ \A q \in Requests : Pc(q) = "new" => At(q) = Nobody
    /\ \A q \in Requests : Pc(q) # "new" => Token(q) \in Tokens /\ At(q) \in Gateways
    /\ \A q \in Writing : target[q] \in Requests
    /\ \A q \in Requests : Pc(q) \in {"find", "write", "link", "enrol"} => RoleOf[Token(q)] # "other"

\* A token that was accepted, and does not outlive its nonce, cannot be accepted again:
\* its nonce is in Redis, or it has expired and nobody who checked it before is about to
\* claim it.
TokensStayClosed ==
    \A q \in Claimed : Token(q) \notin LongLived =>
        \/ Token(q) \in spent
        \/ /\ Token(q) \in expired
           /\ \A r \in Requests : Token(r) = Token(q) => Pc(r) # "claim"

ClaimedOnce == \A q, r \in Claimed : Token(q) = Token(r) /\ Token(q) \notin LongLived => q = r

\* The posts that went through have a session, and only they.
SessionsAreIssued ==
    \A q \in Requests : /\ session[q] # Nobody => Through(q)
                        /\ Through(q) => session[q] \in Sessions

\* Who is a teacher was enrolled as one, in the table and in every session.
TeachersWereEnrolled ==
    /\ \A u \in Requests, c \in Courses : enrolled[<<u, c>>] = "teacher" => <<u, c>> \in taught
    /\ \A q \in Requests : Through(q) =>
           \A c \in session[q].courses.teacher : <<session[q].user, c>> \in taught

IInv == /\ TypeOK
        /\ PostsAreSound
        /\ TokensStayClosed
        /\ ClaimedOnce
        /\ SessionsAreIssued
        /\ TeachersWereEnrolled

-----------------------------------------------------------------------------
(* The constants, and how a post moves.                                    *)

LEMMA TokensAreDescribed ==
    /\ \A t \in Tokens : /\ SubjectOf[t] \in Subjects /\ CourseOf[t] \in Courses
                         /\ EmailOf[t] \in Emails /\ KeyOf[t] \in Kids
                         /\ RoleOf[t] \in {"teacher", "learner", "other"}
    /\ NoEmail \in Emails
BY LaunchAssumption DEF Subjects, Courses, Emails, Kids

\* Goto changes nothing but the place of one post.
LEMMA GotoMoves ==
    ASSUME TypeOK, NEW q \in Requests, NEW pc \in Pcs, Goto(q, pc)
    PROVE  /\ post' \in [Requests -> [pc : Pcs, token : Tokens \cup {Nobody}, at : Gateways \cup {Nobody}]]
           /\ \A r \in Requests : /\ Token(r)' = Token(r)
                                  /\ At(r)' = At(r)
                                  /\ Pc(r)' = IF r = q THEN pc ELSE Pc(r)
BY DEF Goto, TypeOK, Token, At, Pc

LEMMA InitHolds == Init => IInv
<1> SUFFICES ASSUME Init PROVE IInv
    OBVIOUS
<1>1. \A q \in Requests : Pc(q) = "new" /\ At(q) = Nobody
      BY DEF Init, Pc, At
<1>2. TypeOK
  <2>1. platform \subseteq Kids
        BY DEF Init
  <2>2. 0 \in 0 .. MaxFaults
        BY LaunchAssumption
  <2>3. post \in [Requests -> [pc : Pcs, token : Tokens \cup {Nobody}, at : Gateways \cup {Nobody}]]
        BY DEF Init, Pcs
  <2>4. enrolled \in [Requests \X Courses -> {"none", "learner", "teacher"}]
        BY DEF Init
  <2> QED BY <2>1, <2>2, <2>3, <2>4 DEF Init, TypeOK
<1>3. Claimed = {} /\ Writing = {} /\ \A q \in Requests : ~ Through(q)
      BY <1>1 DEF Claimed, Writing, Through
<1>4. PostsAreSound
      BY <1>1, <1>3 DEF PostsAreSound
<1>5. TeachersWereEnrolled
  <2>1. \A u \in Requests, c \in Courses : enrolled[<<u, c>>] = "none"
        BY DEF Init
  <2> QED BY <1>3, <2>1 DEF TeachersWereEnrolled
<1> QED BY <1>2, <1>3, <1>4, <1>5
        DEF IInv, TokensStayClosed, ClaimedOnce, SessionsAreIssued, Init

-----------------------------------------------------------------------------
(* A post moves and the nonces, the users and the sessions stay.           *)

\* The steps that can be taken without looking at the nonces: the post was accepted
\* before, or is refused, or has not been accepted yet.
LEMMA MoveKeepsTokens ==
    ASSUME IInv, NEW q \in Requests, NEW pc \in Pcs, Goto(q, pc), UNCHANGED <<spent, expired>>,
           pc = "claim" => Token(q) \notin expired,
           q \in Claimed \/ pc \in {"verify", "fetch", "claim", "refused"}
    PROVE  TokensStayClosed' /\ ClaimedOnce'
<1>1. \A r \in Requests : /\ Token(r)' = Token(r)
                          /\ Pc(r)' = IF r = q THEN pc ELSE Pc(r)
      BY GotoMoves DEF IInv
<1>2. Claimed' \subseteq Claimed
      BY <1>1 DEF Claimed
<1>3. ClaimedOnce'
      BY <1>1, <1>2 DEF IInv, ClaimedOnce, Claimed
<1>4. TokensStayClosed'
  <2> SUFFICES ASSUME NEW r \in Claimed', Token(r)' \notin LongLived, Token(r)' \notin spent'
               PROVE  /\ Token(r)' \in expired'
                      /\ \A s \in Requests : Token(s)' = Token(r)' => Pc(s)' # "claim"
      BY DEF TokensStayClosed
  <2>1. r \in Claimed /\ r \in Requests
        BY <1>2 DEF Claimed
  <2>2. /\ Token(r) \in expired
        /\ \A s \in Requests : Token(s) = Token(r) => Pc(s) # "claim"
        BY <1>1, <2>1 DEF IInv, TokensStayClosed
  <2> QED BY <1>1, <2>1, <2>2
<1> QED BY <1>3, <1>4

\* The post knows what its next place asks for.
LEMMA MoveIsSound ==
    ASSUME IInv, NEW q \in Requests, NEW pc \in Pcs, Goto(q, pc), Pc(q) # "new", pc # "new",
           \/ UNCHANGED target
           \/ \E u \in Requests : target' = [target EXCEPT ![q] = u],
           pc \in {"write", "link", "enrol", "read"} => target'[q] \in Requests,
           pc \in {"find", "write", "link", "enrol"} => RoleOf[Token(q)] # "other"
    PROVE  PostsAreSound'
<1>1. \A r \in Requests : /\ Token(r)' = Token(r)
                          /\ At(r)' = At(r)
                          /\ Pc(r)' = IF r = q THEN pc ELSE Pc(r)
      BY GotoMoves DEF IInv
<1>2. \A r \in Requests \ {q} : target'[r] = target[r]
      BY DEF IInv, TypeOK
<1>3. \A r \in Requests : /\ Pc(r)' = "new" => At(r)' = Nobody
                          /\ Pc(r)' # "new" => Token(r)' \in Tokens /\ At(r)' \in Gateways
      BY <1>1 DEF IInv, PostsAreSound
<1>4. \A r \in Writing' : target'[r] \in Requests
      BY <1>1, <1>2 DEF IInv, PostsAreSound, Writing
<1>5. \A r \in Requests :
          Pc(r)' \in {"find", "write", "link", "enrol"} => RoleOf[Token(r)'] # "other"
      BY <1>1 DEF IInv, PostsAreSound
<1> QED BY <1>3, <1>4, <1>5 DEF PostsAreSound

\* No session is issued.
LEMMA MoveKeepsSessions ==
    ASSUME IInv, NEW q \in Requests, NEW pc \in Pcs, Goto(q, pc), UNCHANGED session,
           Pc(q) \in {"in", "out"} <=> pc \in {"in", "out"}
    PROVE  SessionsAreIssued' /\ \A r \in Requests : Through(r)' = Through(r)
<1>1. \A r \in Requests : Pc(r)' = IF r = q THEN pc ELSE Pc(r)
      BY GotoMoves DEF IInv
<1>2. \A r \in Requests : Through(r)' = Through(r)
      BY <1>1 DEF Through
<1> QED BY <1>2 DEF IInv, SessionsAreIssued

\* No user is enrolled.
LEMMA RolesAreKept ==
    ASSUME IInv, UNCHANGED <<enrolled, taught, session>>,
           \A q \in Requests : Through(q)' => Through(q)
    PROVE  TeachersWereEnrolled'
BY DEF IInv, TeachersWereEnrolled

LEMMA FaultIsTyped == TypeOK /\ Fault => faults' \in 0 .. MaxFaults
BY LaunchAssumption DEF TypeOK, Fault

\* A post that only moves.
LEMMA MoveKeepsIInv ==
    ASSUME IInv, NEW q \in Requests, NEW pc \in Pcs, Goto(q, pc), Pc(q) # "new", pc # "new",
           UNCHANGED <<moodleVars, verifierVars, target, dbVars, session>>,
           Fault \/ UNCHANGED faults,
           pc = "claim" => Token(q) \notin expired,
           q \in Claimed \/ pc \in {"verify", "fetch", "claim", "refused"},
           pc \in {"write", "link", "enrol", "read"} => target[q] \in Requests,
           pc \in {"find", "write", "link", "enrol"} => RoleOf[Token(q)] # "other",
           Pc(q) \in {"in", "out"} <=> pc \in {"in", "out"}
    PROVE  IInv'
<1>1. TypeOK'
      BY GotoMoves, FaultIsTyped DEF IInv, TypeOK, moodleVars, verifierVars, dbVars
<1>2. PostsAreSound'
      BY MoveIsSound
<1>3. TokensStayClosed' /\ ClaimedOnce'
      BY MoveKeepsTokens DEF moodleVars, verifierVars
<1>4. SessionsAreIssued'
      BY MoveKeepsSessions
<1>5. TeachersWereEnrolled'
      BY MoveKeepsSessions, RolesAreKept DEF dbVars
<1> QED BY <1>1, <1>2, <1>3, <1>4, <1>5 DEF IInv

-----------------------------------------------------------------------------
(* One lemma for each action.                                              *)

LEMMA RotateKeeps == ASSUME IInv, Rotate PROVE IInv'
<1>1. TypeOK'
      BY DEF Rotate, IInv, TypeOK, verifierVars, dbVars
<1>2. UNCHANGED <<post, target, spent, expired, enrolled, taught, session>>
      BY DEF Rotate, verifierVars, dbVars
<1> QED BY <1>1, <1>2 DEF IInv, PostsAreSound, TokensStayClosed, ClaimedOnce, SessionsAreIssued,
               TeachersWereEnrolled, Through, Claimed, Writing, Pc, Token, At

LEMMA ExpireKeeps == ASSUME IInv, NEW t \in Tokens, Expire(t) PROVE IInv'
<1>1. TypeOK'
      BY DEF Expire, IInv, TypeOK, verifierVars, dbVars
<1>2. UNCHANGED <<post, target, spent, enrolled, taught, session>> /\ expired \subseteq expired'
      BY DEF Expire, verifierVars, dbVars
<1> QED BY <1>1, <1>2 DEF IInv, PostsAreSound, TokensStayClosed, ClaimedOnce, SessionsAreIssued,
               TeachersWereEnrolled, Through, Claimed, Writing, Pc, Token, At

LEMMA ForgetNonceKeeps == ASSUME IInv, NEW t \in Tokens, ForgetNonce(t) PROVE IInv'
<1>1. TypeOK'
      BY DEF ForgetNonce, IInv, TypeOK, moodleVars, dbVars
<1>2. UNCHANGED <<post, target, expired, enrolled, taught, session>>
      BY DEF ForgetNonce, moodleVars, dbVars
<1>3. /\ spent' = spent \ {t}
      /\ t \notin LongLived =>
             t \in expired /\ \A q \in Requests : Token(q) = t => Pc(q) # "claim"
      BY DEF ForgetNonce
<1>4. Claimed' = Claimed /\ \A q \in Requests : Token(q)' = Token(q) /\ Pc(q)' = Pc(q)
      BY <1>2 DEF Claimed, Token, Pc
<1>5. TokensStayClosed'
      BY <1>2, <1>3, <1>4 DEF IInv, TokensStayClosed, Claimed
<1> QED BY <1>1, <1>2, <1>5 DEF IInv, PostsAreSound, ClaimedOnce, SessionsAreIssued,
               TeachersWereEnrolled, Through, Claimed, Writing, Pc, Token, At

LEMMA PostKeeps == ASSUME IInv, NEW q \in Requests, Post(q) PROVE IInv'
<1>1. PICK t \in Tokens, g \in Gateways :
          post' = [post EXCEPT ![q] = [pc |-> "verify", token |-> t, at |-> g]]
      BY DEF Post
<1>2. UNCHANGED <<moodleVars, verifierVars, target, dbVars, session, faults>> /\ Pc(q) = "new"
      BY DEF Post
<1>3. \A r \in Requests : /\ Token(r)' = IF r = q THEN t ELSE Token(r)
                          /\ At(r)' = IF r = q THEN g ELSE At(r)
                          /\ Pc(r)' = IF r = q THEN "verify" ELSE Pc(r)
      BY <1>1 DEF IInv, TypeOK, Token, At, Pc
<1>4. TypeOK'
      BY <1>1, <1>2 DEF IInv, TypeOK, Pcs, moodleVars, verifierVars, dbVars
<1>5. q \notin Claimed /\ Claimed' = Claimed /\ Writing' = Writing
      BY <1>2, <1>3 DEF Claimed, Writing
<1>6. PostsAreSound'
      BY <1>2, <1>3, <1>5 DEF IInv, PostsAreSound, Writing
<1>7. TokensStayClosed' /\ ClaimedOnce'
      BY <1>2, <1>3, <1>5 DEF IInv, TokensStayClosed, ClaimedOnce, Claimed, verifierVars, moodleVars
<1>8. SessionsAreIssued' /\ \A r \in Requests : Through(r)' = Through(r)
      BY <1>2, <1>3 DEF IInv, SessionsAreIssued, Through
<1>9. TeachersWereEnrolled'
      BY <1>2, <1>8, RolesAreKept DEF dbVars
<1> QED BY <1>4, <1>6, <1>7, <1>8, <1>9 DEF IInv

LEMMA VerifyKeeps == ASSUME IInv, NEW q \in Requests, Verify(q) PROVE IInv'
<1>1. CASE Goto(q, "fetch")
      BY <1>1, MoveKeepsIInv DEF Verify, Pcs
<1>2. CASE Goto(q, "refused")
      BY <1>2, MoveKeepsIInv DEF Verify, Pcs
<1>3. CASE Token(q) \notin expired /\ Goto(q, "claim")
      BY <1>3, MoveKeepsIInv DEF Verify, Pcs
<1> QED BY <1>1, <1>2, <1>3 DEF Verify

LEMMA FetchKeeps == ASSUME IInv, NEW q \in Requests, Fetch(q) PROVE IInv'
<1>1. PICK pc \in {"verify", "refused"} : Goto(q, pc)
      BY DEF Fetch
<1>2. /\ Pc(q) = "fetch" /\ (Fault \/ UNCHANGED faults)
      /\ UNCHANGED <<moodleVars, spent, target, dbVars, session>>
      BY DEF Fetch
<1>3. pc \in Pcs
      BY DEF Pcs
<1>4. keys' \in [Gateways -> SUBSET Kids]
  <2>1. CASE UNCHANGED keys
        BY <2>1 DEF IInv, TypeOK
  <2>2. CASE keys' = [keys EXCEPT ![At(q)] = @ \cup platform]
        BY <2>2 DEF IInv, TypeOK
  <2> QED BY <2>1, <2>2 DEF Fetch
<1>5. TypeOK'
      BY <1>1, <1>2, <1>3, <1>4, GotoMoves, FaultIsTyped DEF IInv, TypeOK, moodleVars, dbVars
<1>6. PostsAreSound'
      BY <1>1, <1>2, <1>3, MoveIsSound
<1>7. TokensStayClosed' /\ ClaimedOnce'
      BY <1>1, <1>2, <1>3, MoveKeepsTokens DEF moodleVars
<1>8. SessionsAreIssued' /\ TeachersWereEnrolled'
      BY <1>1, <1>2, <1>3, MoveKeepsSessions, RolesAreKept DEF dbVars
<1> QED BY <1>5, <1>6, <1>7, <1>8 DEF IInv

\* A token whose nonce is not in Redis, and that somebody is about to claim, was not
\* accepted before: either its nonce would be in Redis or nobody would be about to.
LEMMA ClaimNonceKeeps == ASSUME IInv, NEW q \in Requests, ClaimNonce(q) PROVE IInv'
<1>1. PICK pc \in {"roles", "refused"} : Goto(q, pc)
      BY DEF ClaimNonce
<1>2. /\ Pc(q) = "claim" /\ (Fault \/ UNCHANGED faults)
      /\ UNCHANGED <<moodleVars, keys, target, dbVars, session>>
      BY DEF ClaimNonce
<1>3. pc \in Pcs
      BY DEF Pcs
<1>4. \A r \in Requests : /\ Token(r)' = Token(r)
                          /\ Pc(r)' = IF r = q THEN pc ELSE Pc(r)
      BY <1>1, <1>3, GotoMoves DEF IInv
<1>5. Token(q) \in Tokens
      BY <1>2 DEF IInv, PostsAreSound
<1>6. spent \subseteq spent' /\ spent' \subseteq Tokens
      BY <1>5 DEF ClaimNonce, IInv, TypeOK
<1>7. pc = "roles" => Token(q) \notin spent /\ Token(q) \in spent'
  <2> SUFFICES ASSUME pc = "roles" PROVE Token(q) \notin spent /\ Token(q) \in spent'
      OBVIOUS
  <2>1. ~ Goto(q, "refused")
        BY <1>4 DEF Goto, Pc, IInv, TypeOK
  <2> QED BY <2>1 DEF ClaimNonce, IsSpent
<1>8. Claimed' \subseteq Claimed \cup {q} /\ (pc = "refused" => Claimed' \subseteq Claimed)
      BY <1>4, <1>2 DEF Claimed
<1>9. pc = "roles" /\ Token(q) \notin LongLived => \A r \in Claimed : Token(r) # Token(q)
      BY <1>2, <1>7 DEF IInv, TokensStayClosed
<1>10. ClaimedOnce'
      BY <1>4, <1>8, <1>9 DEF IInv, ClaimedOnce, Claimed
<1>11. TokensStayClosed'
  <2> SUFFICES ASSUME NEW r \in Claimed', Token(r)' \notin LongLived, Token(r)' \notin spent'
               PROVE  /\ Token(r)' \in expired'
                      /\ \A s \in Requests : Token(s)' = Token(r)' => Pc(s)' # "claim"
      BY DEF TokensStayClosed
  <2>1. r \in Requests /\ Token(r)' = Token(r)
        BY <1>4 DEF Claimed
  <2>2. r \in Claimed
        BY <1>7, <1>8, <2>1
  <2>3. /\ Token(r) \in expired
        /\ \A s \in Requests : Token(s) = Token(r) => Pc(s) # "claim"
        BY <1>6, <2>1, <2>2 DEF IInv, TokensStayClosed
  <2> QED BY <1>2, <1>4, <2>1, <2>3 DEF moodleVars
<1>12. TypeOK'
      BY <1>1, <1>2, <1>3, <1>6, GotoMoves, FaultIsTyped DEF IInv, TypeOK, moodleVars, dbVars
<1>13. PostsAreSound'
      BY <1>1, <1>2, <1>3, MoveIsSound
<1>14. SessionsAreIssued' /\ TeachersWereEnrolled'
      BY <1>1, <1>2, <1>3, MoveKeepsSessions, RolesAreKept DEF dbVars
<1> QED BY <1>10, <1>11, <1>12, <1>13, <1>14 DEF IInv

LEMMA RolesKeeps == ASSUME IInv, NEW q \in Requests, Roles(q) PROVE IInv'
<1>1. q \in Claimed
      BY DEF Roles, Claimed
<1>2. CASE RoleOf[Token(q)] = "other" /\ Goto(q, "refused")
      BY <1>1, <1>2, MoveKeepsIInv DEF Roles, Pcs
<1>3. CASE RoleOf[Token(q)] # "other" /\ Goto(q, "find")
      BY <1>1, <1>3, MoveKeepsIInv DEF Roles, Pcs
<1> QED BY <1>2, <1>3 DEF Roles

LEMMA FindUserKeeps == ASSUME IInv, NEW q \in Requests, FindUser(q) PROVE IInv'
<1>1. Pc(q) = "find" /\ Goto(q, "write") /\ "write" \in Pcs /\ q \in Claimed
      BY DEF FindUser, Pcs, Claimed
<1>2. UNCHANGED <<moodleVars, verifierVars, dbVars, session, faults>>
      BY DEF FindUser
<1>3. PICK u \in Requests : target' = [target EXCEPT ![q] = u]
  <2>1. Token(q) \in Tokens
        BY <1>1 DEF IInv, PostsAreSound
  <2>2. links[Subject(q)] \in Requests \cup {Nobody}
        BY <2>1, TokensAreDescribed DEF Subject, IInv, TypeOK
  <2> QED BY <2>2 DEF FindUser
<1>4. target' \in [Requests -> Requests \cup {Nobody}] /\ target'[q] \in Requests
      BY <1>3 DEF IInv, TypeOK
<1>5. TypeOK'
      BY <1>1, <1>2, <1>4, GotoMoves DEF IInv, TypeOK, moodleVars, verifierVars, dbVars
<1>6. RoleOf[Token(q)] # "other"
      BY <1>1 DEF IInv, PostsAreSound
<1>7. PostsAreSound'
      BY <1>1, <1>3, <1>4, <1>6, MoveIsSound
<1>8. TokensStayClosed' /\ ClaimedOnce'
      BY <1>1, <1>2, MoveKeepsTokens DEF moodleVars, verifierVars
<1>9. SessionsAreIssued' /\ TeachersWereEnrolled'
      BY <1>1, <1>2, MoveKeepsSessions, RolesAreKept DEF dbVars
<1> QED BY <1>5, <1>7, <1>8, <1>9 DEF IInv

LEMMA WriteUserKeeps == ASSUME IInv, NEW q \in Requests, WriteUser(q) PROVE IInv'
<1>1. Pc(q) = "write" /\ q \in Claimed /\ target[q] \in Requests /\ RoleOf[Token(q)] # "other"
      BY DEF WriteUser, Claimed, Writing, IInv, PostsAreSound
<1>2. PICK pc \in {"refused", "link", "enrol"} : Goto(q, pc)
      BY DEF WriteUser
<1> QED BY <1>1, <1>2, MoveKeepsIInv DEF WriteUser, Pcs

LEMMA LinkKeeps == ASSUME IInv, NEW q \in Requests, Link(q) PROVE IInv'
<1>1. Pc(q) = "link" /\ q \in Claimed /\ target[q] \in Requests /\ RoleOf[Token(q)] # "other"
      BY DEF Link, Claimed, Writing, IInv, PostsAreSound
<1> QED BY <1>1, MoveKeepsIInv DEF Link, Pcs

\* The role that is written is that of the token, and who is enrolled as a teacher is
\* remembered in the same step.
LEMMA CommitKeeps == ASSUME IInv, NEW q \in Requests, Commit(q) PROVE IInv'
<1> DEFINE u == target[q]
           c == CourseOf[Token(q)]
           role == RoleOf[Token(q)]
<1>1. Pc(q) = "enrol" /\ Goto(q, "read") /\ "read" \in Pcs /\ q \in Claimed
      BY DEF Commit, Pcs, Claimed
<1>2. UNCHANGED <<moodleVars, verifierVars, target, session, faults>>
      BY DEF Commit
<1>3. Token(q) \in Tokens /\ u \in Requests /\ role # "other"
      BY <1>1 DEF IInv, PostsAreSound, Writing
<1>4. c \in Courses /\ role \in {"teacher", "learner"} /\ Subject(q) \in Subjects /\ Email(q) \in Emails
      BY <1>3, TokensAreDescribed DEF Subject, Email
<1>5. users' \in [Requests -> UserRows \cup {Nobody}]
  <2>1. UserFromLaunch(q) \in UserRows
        BY <1>4 DEF UserFromLaunch, UserRows, GlobalRole
  <2> QED BY <1>3, <2>1 DEF Commit, IInv, TypeOK
<1>6. links' \in [Subjects -> Requests \cup {Nobody}]
      BY <1>4 DEF Commit, IInv, TypeOK
<1>7. /\ enrolled' = [enrolled EXCEPT ![<<u, c>>] = role]
      /\ taught' = IF role = "teacher" THEN taught \cup {<<u, c>>} ELSE taught
      BY DEF Commit, EnrollCourseUser, UpsertCourse
<1>8. <<u, c>> \in Requests \X Courses
      BY <1>3, <1>4
<1>9. /\ enrolled' \in [Requests \X Courses -> {"none", "learner", "teacher"}]
      /\ \A e \in Requests \X Courses : enrolled'[e] = IF e = <<u, c>> THEN role ELSE enrolled[e]
      BY <1>4, <1>7, <1>8 DEF IInv, TypeOK
<1>10. taught \subseteq taught' /\ taught' \subseteq Requests \X Courses
      BY <1>7, <1>8 DEF IInv, TypeOK
<1>11. TypeOK'
      BY <1>1, <1>2, <1>5, <1>6, <1>9, <1>10, GotoMoves DEF IInv, TypeOK, moodleVars, verifierVars
<1>12. PostsAreSound'
      BY <1>1, <1>2, <1>3, MoveIsSound
<1>13. TokensStayClosed' /\ ClaimedOnce'
      BY <1>1, <1>2, MoveKeepsTokens DEF moodleVars, verifierVars
<1>14. SessionsAreIssued' /\ \A r \in Requests : Through(r)' = Through(r)
      BY <1>1, <1>2, MoveKeepsSessions
<1>15. TeachersWereEnrolled'
  <2>1. ASSUME NEW v \in Requests, NEW d \in Courses, enrolled'[<<v, d>>] = "teacher"
        PROVE  <<v, d>> \in taught'
    <3>1. <<v, d>> \in Requests \X Courses
          OBVIOUS
    <3>2. CASE <<v, d>> = <<u, c>>
          BY <1>7, <1>9, <2>1, <3>1, <3>2
    <3>3. CASE <<v, d>> # <<u, c>>
      <4>1. enrolled[<<v, d>>] = "teacher"
            BY <1>9, <2>1, <3>1, <3>3
      <4> QED BY <1>10, <4>1 DEF IInv, TeachersWereEnrolled
    <3> QED BY <3>2, <3>3
  <2>2. \A r \in Requests : Through(r)' =>
            \A d \in session'[r].courses.teacher : <<session'[r].user, d>> \in taught'
        BY <1>2, <1>10, <1>14 DEF IInv, TeachersWereEnrolled
  <2> QED BY <2>1, <2>2 DEF TeachersWereEnrolled
<1> QED BY <1>11, <1>12, <1>13, <1>14, <1>15 DEF IInv

LEMMA RollbackKeeps == ASSUME IInv, NEW q \in Requests, Rollback(q) PROVE IInv'
<1>1. Pc(q) \in {"find", "write", "link", "enrol"} /\ Goto(q, "refused") /\ "refused" \in Pcs
      BY DEF Rollback, Pcs
<1> QED BY <1>1, MoveKeepsIInv DEF Rollback

\* The session has the roles that were read, which are those of the table.
LEMMA IssueKeeps == ASSUME IInv, NEW q \in Requests, Issue(q) PROVE IInv'
<1> DEFINE s == [user |-> target[q], role |-> GlobalRole(RoleOf[Token(q)]), courses |-> RolesOf(target[q])]
<1>1. /\ Pc(q) = "read" /\ q \in Claimed
      /\ UNCHANGED <<moodleVars, verifierVars, target, dbVars>>
      BY DEF Issue, Claimed
<1>2. CASE Fault /\ Goto(q, "refused") /\ UNCHANGED session
      BY <1>1, <1>2, MoveKeepsIInv DEF Pcs
<1>3. CASE session' = [session EXCEPT ![q] = s] /\ Goto(q, "in") /\ UNCHANGED faults
  <2>1. target[q] \in Requests
        BY <1>1 DEF IInv, PostsAreSound, Writing
  <2>2. s \in Sessions
        BY <2>1 DEF Sessions, GlobalRole, CourseRoles, RolesOf
  <2>3. /\ session' \in [Requests -> Sessions \cup {Nobody}]
        /\ \A r \in Requests : session'[r] = IF r = q THEN s ELSE session[r]
        BY <1>3, <2>2 DEF IInv, TypeOK
  <2>4. "in" \in Pcs
        BY DEF Pcs
  <2>5. TypeOK'
        BY <1>1, <1>3, <2>3, <2>4, GotoMoves DEF IInv, TypeOK, moodleVars, verifierVars, dbVars
  <2>6. PostsAreSound'
        BY <1>1, <1>3, <2>4, MoveIsSound
  <2>7. TokensStayClosed' /\ ClaimedOnce'
        BY <1>1, <1>3, <2>4, MoveKeepsTokens DEF moodleVars, verifierVars
  <2>8. \A r \in Requests : Through(r)' <=> Through(r) \/ r = q
        BY <1>3, <2>4, GotoMoves DEF IInv, Through
  <2>9. SessionsAreIssued'
        BY <2>2, <2>3, <2>8 DEF IInv, SessionsAreIssued
  <2>10. \A c \in s.courses.teacher : <<s.user, c>> \in taught
        BY <2>1 DEF RolesOf, IInv, TeachersWereEnrolled
  <2>11. TeachersWereEnrolled'
        BY <1>1, <2>3, <2>8, <2>10 DEF IInv, TeachersWereEnrolled, dbVars
  <2> QED BY <2>5, <2>6, <2>7, <2>9, <2>11 DEF IInv
<1> QED BY <1>2, <1>3 DEF Issue

LEMMA SignOutKeeps == ASSUME IInv, NEW q \in Requests, SignOut(q) PROVE IInv'
<1>1. Pc(q) = "in" /\ q \in Claimed /\ Goto(q, "out") /\ "out" \in Pcs
      BY DEF SignOut, Claimed, Pcs
<1> QED BY <1>1, MoveKeepsIInv DEF SignOut

\* Posts are refused, and a key is unlearned; a post that was not sent is nowhere.
LEMMA RestartKeeps == ASSUME IInv, NEW g \in Gateways, Restart(g) PROVE IInv'
<1>1. UNCHANGED <<moodleVars, spent, target, dbVars, session>> /\ Fault
      BY DEF Restart
<1>2. keys' \in [Gateways -> SUBSET Kids]
      BY DEF Restart, IInv, TypeOK
<1>3. post' \in [Requests -> [pc : Pcs, token : Tokens \cup {Nobody}, at : Gateways \cup {Nobody}]]
      BY DEF Restart, IInv, TypeOK, Pcs
<1>4. \A q \in Requests :
          /\ Token(q)' = Token(q) /\ At(q)' = At(q)
          /\ Pc(q)' = IF At(q) = g /\ Pc(q) \notin {"in", "out"} THEN "refused" ELSE Pc(q)
      BY DEF Restart, IInv, TypeOK, Token, At, Pc
<1>5. \A q \in Requests : Pc(q)' = Pc(q) \/ (Pc(q)' = "refused" /\ Pc(q) \notin {"in", "out"} /\ At(q) = g)
      BY <1>4
<1>6. TypeOK'
      BY <1>1, <1>2, <1>3, FaultIsTyped DEF IInv, TypeOK, moodleVars, dbVars
<1>7. PostsAreSound'
  <2> SUFFICES ASSUME NEW q \in Requests
               PROVE  /\ Pc(q)' = "new" => At(q)' = Nobody
                      /\ Pc(q)' # "new" => Token(q)' \in Tokens /\ At(q)' \in Gateways
                      /\ q \in Writing' => target'[q] \in Requests
                      /\ Pc(q)' \in {"find", "write", "link", "enrol"} => RoleOf[Token(q)'] # "other"
      BY DEF PostsAreSound, Writing
  <2>1. CASE Pc(q)' = Pc(q)
        BY <1>1, <1>4, <2>1 DEF IInv, PostsAreSound, Writing
  <2>2. CASE Pc(q)' = "refused" /\ At(q) = g
    <3>1. Pc(q) # "new"
          BY <2>2, LaunchAssumption DEF IInv, PostsAreSound
    <3> QED BY <1>4, <2>2, <3>1 DEF IInv, PostsAreSound, Writing
  <2>3. Pc(q)' = Pc(q) \/ (Pc(q)' = "refused" /\ At(q) = g)
        BY <1>5
  <2> QED BY ONLY <2>1, <2>2, <2>3
<1>8. Claimed' \subseteq Claimed
      BY <1>5 DEF Claimed
<1>9. TokensStayClosed' /\ ClaimedOnce'
  <2>1. ClaimedOnce'
        BY <1>4, <1>8 DEF IInv, ClaimedOnce, Claimed
  <2>2. TokensStayClosed'
    <3> SUFFICES ASSUME NEW q \in Claimed', Token(q)' \notin LongLived, Token(q)' \notin spent'
                 PROVE  /\ Token(q)' \in expired'
                        /\ \A s \in Requests : Token(s)' = Token(q)' => Pc(s)' # "claim"
        BY DEF TokensStayClosed
    <3>1. q \in Requests /\ q \in Claimed /\ Token(q)' = Token(q)
          BY <1>4, <1>8 DEF Claimed
    <3>2. /\ Token(q) \in expired
          /\ \A s \in Requests : Token(s) = Token(q) => Pc(s) # "claim"
          BY <1>1, <3>1 DEF IInv, TokensStayClosed
    <3> QED BY <1>1, <1>4, <1>5, <3>1, <3>2 DEF moodleVars
  <2> QED BY <2>1, <2>2
<1>10. \A q \in Requests : Through(q)' = Through(q)
      BY <1>5 DEF Through
<1>11. SessionsAreIssued' /\ TeachersWereEnrolled'
      BY <1>1, <1>10, RolesAreKept DEF IInv, SessionsAreIssued, dbVars
<1> QED BY <1>6, <1>7, <1>9, <1>11 DEF IInv

-----------------------------------------------------------------------------
(* The theorems.                                                           *)

LEMMA StepKeepsIInv == ASSUME IInv, [Next]_vars PROVE IInv'
<1>1. CASE Rotate
      BY <1>1, RotateKeeps
<1>2. ASSUME NEW t \in Tokens, Expire(t) \/ ForgetNonce(t) PROVE IInv'
      BY <1>2, ExpireKeeps, ForgetNonceKeeps
<1>3. ASSUME NEW q \in Requests, Post(q) \/ LaunchStep(q) \/ Rollback(q) \/ SignOut(q) PROVE IInv'
  <2>1. CASE LaunchStep(q)
        BY <2>1, VerifyKeeps, FetchKeeps, ClaimNonceKeeps, RolesKeeps, FindUserKeeps, WriteUserKeeps,
           LinkKeeps, CommitKeeps, IssueKeeps DEF LaunchStep
  <2> QED BY <1>3, <2>1, PostKeeps, RollbackKeeps, SignOutKeeps
<1>4. ASSUME NEW g \in Gateways, Restart(g) PROVE IInv'
      BY <1>4, RestartKeeps
<1>5. CASE UNCHANGED vars
      BY <1>5 DEF vars, IInv, TypeOK, PostsAreSound, TokensStayClosed, ClaimedOnce, SessionsAreIssued,
                  TeachersWereEnrolled, Through, Claimed, Writing, Pc, Token, At
<1> QED BY <1>1, <1>2, <1>3, <1>4, <1>5 DEF Next

\* The state of every launch has its type, the nonces close the tokens that were accepted,
\* and the roles in sessions are those of enrolments (VerifyLaunch and HandleLaunch).
THEOREM InvariantHolds == Spec => []IInv
<1>1. Init => IInv
      BY InitHolds
<1>2. IInv /\ [Next]_vars => IInv'
      BY StepKeepsIInv
<1> QED BY <1>1, <1>2, PTL DEF Spec

\* A token that its nonce outlives opens one session at most (claimNonce), for any number
\* of gateways, posts and restarts.
THEOREM TokenAlwaysOpensOnce == Spec => []TokenOpensOnce
<1>1. IInv => TokenOpensOnce
      BY DEF IInv, TokenOpensOnce, SessionsAreIssued, Through, ClaimedOnce, Claimed
<1> QED BY <1>1, InvariantHolds, PTL

\* A lab of somebody else is reached by those only who were enrolled as teachers of its
\* course (canActOnLab on the roles in the session).
THEOREM OthersAreTaught == Spec => []OnlyTeachersReachOthers
<1>1. IInv => OnlyTeachersReachOthers
  <2> SUFFICES ASSUME IInv, NEW q \in Requests, NEW owner \in Requests, NEW c \in Courses,
                      NEW a \in LabActions,
                      Reaches(q, a, [owner |-> owner, course |-> c]),
                      owner # ParsePrincipal(q).user
               PROVE  <<session[q].user, c>> \in taught
      BY DEF OnlyTeachersReachOthers
  <2>1. Through(q) /\ session[q] \in Sessions
        BY DEF Reaches, RequireAuth, Through, IInv, SessionsAreIssued
  <2>2. session[q].role # "admin"
        BY <2>1 DEF Sessions
  <2>3. c \in session[q].courses.teacher
        BY <2>2 DEF Reaches, CanLab, CanActOnLab, Teaches, ParsePrincipal
  <2> QED BY <2>1, <2>3 DEF IInv, TeachersWereEnrolled
<1> QED BY <1>1, InvariantHolds, PTL
-----------------------------------------------------------------------------
(* One account for one user: the launches that write users.                *)

\* The steps that write no user: posts move on, or are refused, and what they found stays.
Moves(r) ==
    \/ Pc(r)' = Pc(r)
    \/ Pc(r) \notin {"new", "in", "out"} /\ Pc(r)' \in {"verify", "fetch", "claim", "roles", "find", "refused"}
    \/ Pc(r) = "link" /\ Pc(r)' = "enrol"
    \/ Pc(r) = "in" /\ Pc(r)' = "out"

LEMMA AccountsInit == Init => AccountIInv
<1> SUFFICES ASSUME Init PROVE AccountIInv
    OBVIOUS
<1>1. \A q \in Requests : Pc(q) = "new" /\ users[q] = Nobody
      BY DEF Init, Pc
<1>2. \A s \in Subjects : links[s] = Nobody
      BY DEF Init
<1> QED BY <1>1, <1>2 DEF AccountIInv, UsersAreOwn, UsersAreStored, EmailsAreUnique, Targeting, Open, Through

\* What a post holds and what the users are is not disturbed by moves.
LEMMA MovesKeepAccounts ==
    ASSUME IInv, AccountIInv, UNCHANGED <<target, users, links, session>>,
           \A r \in Requests : Token(r)' = Token(r) /\ Moves(r)
    PROVE  AccountIInv'
<1>1. Targeting' \subseteq Targeting /\ Open' \subseteq Open
      BY DEF Targeting, Open, Moves
<1>2. \A r \in Requests : /\ Posted(r) => Posted(r)'
                          /\ Subject(r)' = Subject(r) /\ Email(r)' = Email(r)
      BY DEF Posted, Moves, Subject, Email
<1>3. \A r \in Requests : /\ Through(r)' = Through(r)
                          /\ Pc(r)' = "read" => Pc(r) = "read"
      BY DEF Through, Moves
<1>4. \A s \in Subjects : links[s] # Nobody => links[s] \in Requests
      BY DEF IInv, TypeOK
<1>5. UsersAreOwn'
  <2>1. \A s \in Subjects : links'[s] # Nobody => Posted(links[s])' /\ Subject(links[s])' = s
        BY <1>2, <1>4 DEF AccountIInv, UsersAreOwn
  <2>2. \A q \in Targeting' : /\ target'[q] \in Requests /\ Posted(target[q])'
                              /\ Subject(target[q])' = Subject(q)'
        BY <1>1, <1>2 DEF AccountIInv, UsersAreOwn, Targeting
  <2>3. \A u \in Requests : users'[u] # Nobody =>
           /\ Posted(u)'
           /\ \E t \in Tokens : SubjectOf[t] = Subject(u)' /\ EmailOf[t] = users'[u].email
        BY <1>2 DEF AccountIInv, UsersAreOwn
  <2> QED BY <2>1, <2>2, <2>3 DEF UsersAreOwn
<1>6. UsersAreStored'
      BY <1>3 DEF AccountIInv, UsersAreStored
<1>7. EmailsAreUnique'
  <2>1. \A q \in Open' : q \in Requests /\ IsTaken(q)' = IsTaken(q)
        BY <1>2 DEF Open, IsTaken
  <2> QED BY <1>1, <1>2, <2>1 DEF AccountIInv, EmailsAreUnique
<1> QED BY <1>5, <1>6, <1>7 DEF AccountIInv

LEMMA PostKeepsAccounts == ASSUME IInv, AccountIInv, NEW q \in Requests, Post(q) PROVE AccountIInv'
<1>1. PICK t \in Tokens, g \in Gateways :
          post' = [post EXCEPT ![q] = [pc |-> "verify", token |-> t, at |-> g]]
      BY DEF Post
<1>2. UNCHANGED <<target, users, links, session>> /\ Pc(q) = "new"
      BY DEF Post, dbVars
<1>3. /\ Pc(q)' = "verify"
      /\ \A r \in Requests \ {q} : Token(r)' = Token(r) /\ Pc(r)' = Pc(r)
      BY <1>1 DEF IInv, TypeOK, Token, Pc
<1>4. \A r \in Requests : Posted(r) => Posted(r)' /\ Subject(r)' = Subject(r) /\ Email(r)' = Email(r)
      BY <1>2, <1>3 DEF Posted, Subject, Email
<1>5. Targeting' = Targeting /\ Open' = Open /\ \A r \in Requests : Through(r)' = Through(r)
      BY <1>2, <1>3 DEF Targeting, Open, Through
<1>6. \A r \in Targeting : Posted(r) /\ r \in Requests
      BY DEF Targeting, Posted
<1>7. \A s \in Subjects : links[s] # Nobody => links[s] \in Requests
      BY DEF IInv, TypeOK
<1>8. UsersAreOwn'
  <2>1. \A s \in Subjects : links'[s] # Nobody => Posted(links[s])' /\ Subject(links[s])' = s
        BY <1>2, <1>4, <1>7 DEF AccountIInv, UsersAreOwn
  <2>2. \A r \in Targeting' : /\ target'[r] \in Requests /\ Posted(target[r])'
                              /\ Subject(target[r])' = Subject(r)'
        BY <1>2, <1>4, <1>5, <1>6 DEF AccountIInv, UsersAreOwn
  <2>3. \A u \in Requests : users'[u] # Nobody =>
           /\ Posted(u)'
           /\ \E s \in Tokens : SubjectOf[s] = Subject(u)' /\ EmailOf[s] = users'[u].email
        BY <1>2, <1>4 DEF AccountIInv, UsersAreOwn
  <2> QED BY <1>2, <2>1, <2>2, <2>3 DEF UsersAreOwn
<1>9. UsersAreStored'
      BY <1>2, <1>3, <1>5 DEF AccountIInv, UsersAreStored
<1>10. EmailsAreUnique'
  <2>1. \A r \in Open : r \in Targeting /\ IsTaken(r)' = IsTaken(r)
        BY <1>2, <1>4, <1>6 DEF Open, Targeting, IsTaken
  <2> QED BY <1>2, <1>4, <1>5, <1>6, <2>1 DEF AccountIInv, EmailsAreUnique
<1> QED BY <1>8, <1>9, <1>10 DEF AccountIInv

\* What GetUserByLTI finds is a user of the launch's own subject.
LEMMA FindUserKeepsAccounts ==
    ASSUME IInv, AccountIInv, NEW q \in Requests, FindUser(q) PROVE AccountIInv'
<1> DEFINE found == IF links[Subject(q)] = Nobody THEN q ELSE links[Subject(q)]
<1>1. Pc(q) = "find" /\ Goto(q, "write") /\ "write" \in Pcs /\ UNCHANGED <<users, links, session>>
      BY DEF FindUser, Pcs, dbVars
<1>2. \A r \in Requests : /\ Token(r)' = Token(r)
                          /\ Pc(r)' = IF r = q THEN "write" ELSE Pc(r)
      BY <1>1, GotoMoves DEF IInv
<1>3. /\ \A r \in Requests : Posted(r)' = Posted(r) /\ Subject(r)' = Subject(r) /\ Email(r)' = Email(r)
      /\ \A r \in Requests : Through(r)' = Through(r) /\ (Pc(r)' = "read" => Pc(r) = "read")
      BY <1>1, <1>2 DEF Posted, Subject, Email, Through
<1>4. Targeting' = Targeting \cup {q} /\ Open' = Open /\ q \notin Open
      BY <1>1, <1>2 DEF Targeting, Open
<1>5. Subject(q) \in Subjects
      BY <1>1, TokensAreDescribed DEF IInv, PostsAreSound, Subject
<1>6. \A s \in Subjects : links[s] # Nobody => links[s] \in Requests
      BY DEF IInv, TypeOK
<1>7. found \in Requests /\ Posted(found) /\ Subject(found) = Subject(q)
      BY <1>1, <1>5, <1>6 DEF AccountIInv, UsersAreOwn, Posted
<1>8. \A r \in Requests : target'[r] = IF r = q THEN found ELSE target[r]
      BY DEF FindUser, IInv, TypeOK
<1> HIDE DEF found
<1>9. UsersAreOwn'
  <2>1. \A s \in Subjects : links'[s] # Nobody => Posted(links[s])' /\ Subject(links[s])' = s
        BY <1>1, <1>3, <1>6 DEF AccountIInv, UsersAreOwn
  <2>2. ASSUME NEW r \in Targeting'
        PROVE  target'[r] \in Requests /\ Posted(target[r])' /\ Subject(target[r])' = Subject(r)'
    <3>1. CASE r = q
          BY <1>3, <1>7, <1>8, <3>1
    <3>2. CASE r # q
      <4>1. r \in Targeting /\ r \in Requests /\ target'[r] = target[r]
            BY <1>4, <1>8, <3>2 DEF Targeting
      <4> QED BY <1>3, <4>1 DEF AccountIInv, UsersAreOwn
    <3> QED BY <3>1, <3>2
  <2>3. \A u \in Requests : users'[u] # Nobody =>
           /\ Posted(u)'
           /\ \E t \in Tokens : SubjectOf[t] = Subject(u)' /\ EmailOf[t] = users'[u].email
        BY <1>1, <1>3 DEF AccountIInv, UsersAreOwn
  <2> QED BY <1>1, <2>1, <2>2, <2>3 DEF UsersAreOwn
<1>10. UsersAreStored'
      BY <1>1, <1>2, <1>3, <1>8 DEF AccountIInv, UsersAreStored, Through
<1>11. EmailsAreUnique'
  <2>1. \A r \in Open : r \in Requests /\ target'[r] = target[r] /\ IsTaken(r)' = IsTaken(r)
        BY <1>1, <1>3, <1>4, <1>8 DEF Open, IsTaken
  <2> QED BY <1>1, <1>3, <1>4, <2>1 DEF AccountIInv, EmailsAreUnique
<1> QED BY <1>9, <1>10, <1>11 DEF AccountIInv

\* The lock on the row and the index on e-mails: the statement goes through only when no
\* open transaction has the user or the e-mail, and no other user has it.
LEMMA WriteUserKeepsAccounts ==
    ASSUME IInv, AccountIInv, NEW q \in Requests, WriteUser(q) PROVE AccountIInv'
<1>1. PICK pc \in {"refused", "link", "enrol"} :
          Goto(q, pc) /\ (pc # "refused" => ~ IsTaken(q))
      BY DEF WriteUser
<1>2. /\ Pc(q) = "write" /\ pc \in Pcs /\ UNCHANGED <<target, users, links, session>>
      /\ \A r \in Open : ~ Holds(r, q)
      BY DEF WriteUser, Pcs, dbVars
<1>3. \A r \in Requests : /\ Token(r)' = Token(r)
                          /\ Pc(r)' = IF r = q THEN pc ELSE Pc(r)
      BY <1>1, <1>2, GotoMoves DEF IInv
<1>4. CASE pc = "refused"
      BY <1>2, <1>3, <1>4, MovesKeepAccounts DEF Moves
<1>5. CASE pc # "refused"
  <2>1. /\ \A r \in Requests : Posted(r)' = Posted(r) /\ Subject(r)' = Subject(r) /\ Email(r)' = Email(r)
        /\ \A r \in Requests : Through(r)' = Through(r) /\ (Pc(r)' = "read" => Pc(r) = "read")
        BY <1>1, <1>2, <1>3 DEF Posted, Subject, Email, Through
  <2>2. Targeting' = Targeting /\ Open' = Open \cup {q} /\ q \in Targeting /\ q \notin Open
        BY <1>2, <1>3, <1>5 DEF Targeting, Open
  <2>3. \A s \in Subjects : links[s] # Nobody => links[s] \in Requests
        BY DEF IInv, TypeOK
  <2>4. UsersAreOwn'
    <3>1. \A s \in Subjects : links'[s] # Nobody => Posted(links[s])' /\ Subject(links[s])' = s
          BY <1>2, <2>1, <2>3 DEF AccountIInv, UsersAreOwn
    <3>2. \A r \in Targeting' : /\ target'[r] \in Requests /\ Posted(target[r])'
                                /\ Subject(target[r])' = Subject(r)'
          BY <1>2, <2>1, <2>2 DEF AccountIInv, UsersAreOwn, Targeting
    <3>3. \A u \in Requests : users'[u] # Nobody =>
             /\ Posted(u)'
             /\ \E t \in Tokens : SubjectOf[t] = Subject(u)' /\ EmailOf[t] = users'[u].email
          BY <1>2, <2>1 DEF AccountIInv, UsersAreOwn
    <3> QED BY <1>2, <3>1, <3>2, <3>3 DEF UsersAreOwn
  <2>5. UsersAreStored'
        BY <1>2, <2>1 DEF AccountIInv, UsersAreStored
  <2>6. EmailsAreUnique'
    <3>1. \A r \in Open' : r \in Requests /\ IsTaken(r)' = IsTaken(r)
          BY <1>2, <2>1 DEF Open, IsTaken
    <3>2. \A r \in Open' : ~ IsTaken(r)'
          BY <1>1, <1>5, <2>2, <3>1 DEF AccountIInv, EmailsAreUnique
    <3>3. \A r \in Open : /\ target[r] # target[q]
                          /\ Email(q) # NoEmail => Email(r) # Email(q)
          BY <1>2 DEF Holds
    <3>4. \A r, s \in Open' : r # s => /\ target[r] # target[s]
                                       /\ Email(r) # NoEmail => Email(r) # Email(s)
          BY <2>2, <3>3 DEF AccountIInv, EmailsAreUnique
    <3> QED BY <1>2, <2>1, <3>1, <3>2, <3>4 DEF AccountIInv, EmailsAreUnique
  <2> QED BY <2>4, <2>5, <2>6 DEF AccountIInv
<1> QED BY <1>4, <1>5

\* The commit: the user that is written has the e-mail to himself, among the rows and
\* among the transactions that will commit.
LEMMA CommitKeepsAccounts ==
    ASSUME IInv, AccountIInv, NEW q \in Requests, Commit(q) PROVE AccountIInv'
<1> DEFINE u   == target[q]
           row == UserFromLaunch(q)
<1>1. Pc(q) = "enrol" /\ Goto(q, "read") /\ "read" \in Pcs /\ UNCHANGED <<target, session>>
      BY DEF Commit, Pcs
<1>2. \A r \in Requests : /\ Token(r)' = Token(r)
                          /\ Pc(r)' = IF r = q THEN "read" ELSE Pc(r)
      BY <1>1, GotoMoves DEF IInv
<1>3. /\ \A r \in Requests : Posted(r)' = Posted(r) /\ Subject(r)' = Subject(r) /\ Email(r)' = Email(r)
      /\ \A r \in Requests : Through(r)' = Through(r)
      BY <1>1, <1>2 DEF Posted, Subject, Email, Through
<1>4. Targeting' = Targeting /\ Open' = Open \ {q} /\ q \in Targeting /\ q \in Open
      BY <1>1, <1>2 DEF Targeting, Open
<1>5. /\ Token(q) \in Tokens /\ u \in Requests /\ Posted(u) /\ Subject(u) = Subject(q)
      /\ Posted(q) /\ Subject(q) \in Subjects /\ Email(q) \in Emails
      BY <1>1, <1>4, TokensAreDescribed
      DEF IInv, PostsAreSound, AccountIInv, UsersAreOwn, Posted, Subject, Email
<1>6. row.email = Email(q) /\ row \in UserRows /\ row # Nobody
      BY <1>5, LaunchAssumption DEF UserFromLaunch, UserRows, GlobalRole
<1>7. \A v \in Requests : users'[v] = IF v = u THEN row ELSE users[v]
      BY <1>5 DEF Commit, IInv, TypeOK
<1>8. \A s \in Subjects : \/ links'[s] = links[s]
                          \/ s = Subject(q) /\ links'[s] = q
      BY <1>5 DEF Commit, IInv, TypeOK
<1>9. \A s \in Subjects : links[s] # Nobody => links[s] \in Requests
      BY DEF IInv, TypeOK
<1> HIDE DEF u, row
<1>10. UsersAreOwn'
  <2>1. \A s \in Subjects : links'[s] # Nobody => Posted(links[s])' /\ Subject(links[s])' = s
        BY <1>3, <1>5, <1>8, <1>9 DEF AccountIInv, UsersAreOwn
  <2>2. \A r \in Targeting' : /\ target'[r] \in Requests /\ Posted(target[r])'
                              /\ Subject(target[r])' = Subject(r)'
        BY <1>1, <1>3, <1>4 DEF AccountIInv, UsersAreOwn, Targeting
  <2>3. ASSUME NEW v \in Requests, users'[v] # Nobody
        PROVE  /\ Posted(v)'
               /\ \E t \in Tokens : SubjectOf[t] = Subject(v)' /\ EmailOf[t] = users'[v].email
    <3>1. CASE v = u
      <4>1. SubjectOf[Token(q)] = Subject(v)' /\ EmailOf[Token(q)] = users'[v].email
            BY <1>3, <1>5, <1>6, <1>7, <3>1 DEF Subject, Email
      <4> QED BY <1>3, <1>5, <3>1, <4>1
    <3>2. CASE v # u
          BY <1>3, <1>7, <2>3, <3>2 DEF AccountIInv, UsersAreOwn
    <3> QED BY <3>1, <3>2
  <2> QED BY <2>1, <2>2, <2>3 DEF UsersAreOwn
<1>11. UsersAreStored'
  <2>1. ASSUME NEW r \in Requests, Pc(r)' = "read" \/ Through(r)'
        PROVE  users'[target'[r]] # Nobody
    <3>1. CASE r = q
          BY <1>1, <1>5, <1>6, <1>7, <3>1 DEF u
    <3>2. CASE r # q
      <4>1. (Pc(r) = "read" \/ Through(r)) /\ r \in Targeting
            BY <1>2, <1>3, <2>1, <3>2 DEF Targeting, Through
      <4>2. target[r] \in Requests /\ users[target[r]] # Nobody
            BY <4>1 DEF AccountIInv, UsersAreOwn, UsersAreStored
      <4> QED BY <1>1, <1>6, <1>7, <4>2
    <3> QED BY <3>1, <3>2
  <2> QED BY <1>1, <1>3, <2>1 DEF AccountIInv, UsersAreStored
<1>12. EmailsAreUnique'
  <2>1. \A v \in Requests : v # u /\ users[v] # Nobody => Email(q) = NoEmail \/ users[v].email # Email(q)
        BY <1>4 DEF AccountIInv, EmailsAreUnique, IsTaken, u
  <2>2. ASSUME NEW v \in Requests, NEW w \in Requests, users'[v] # Nobody, users'[w] # Nobody,
               users'[v].email = users'[w].email, users'[v].email # NoEmail
        PROVE  v = w
        BY <1>6, <1>7, <2>1, <2>2 DEF AccountIInv, EmailsAreUnique
  <2>3. ASSUME NEW r \in Open' PROVE ~ IsTaken(r)'
    <3>1. r \in Open /\ r # q /\ r \in Requests
          BY <1>4 DEF Open
    <3>2. Email(r) # NoEmail => Email(r) # Email(q)
          BY <1>4, <3>1 DEF AccountIInv, EmailsAreUnique
    <3>3. \A v \in Requests \ {target[r]} : users[v] # Nobody /\ Email(r) # NoEmail => users[v].email # Email(r)
          BY <3>1 DEF AccountIInv, EmailsAreUnique, IsTaken
    <3>4. \A v \in Requests \ {target[r]} : users'[v] # Nobody /\ Email(r) # NoEmail => users'[v].email # Email(r)
          BY <1>6, <1>7, <3>2, <3>3
    <3> QED BY <1>1, <1>3, <3>1, <3>4 DEF IsTaken
  <2>4. \A r, s \in Open' : r # s => /\ target'[r] # target'[s]
                                     /\ Email(r)' # NoEmail => Email(r)' # Email(s)'
        BY <1>1, <1>3, <1>4 DEF AccountIInv, EmailsAreUnique, Open
  <2> QED BY <2>2, <2>3, <2>4 DEF EmailsAreUnique
<1> QED BY <1>10, <1>11, <1>12 DEF AccountIInv

LEMMA IssueKeepsAccounts == ASSUME IInv, AccountIInv, NEW q \in Requests, Issue(q) PROVE AccountIInv'
<1>1. Pc(q) = "read" /\ UNCHANGED <<target, users, links>>
      BY DEF Issue, dbVars
<1>2. PICK pc \in {"in", "refused"} :
          /\ Goto(q, pc)
          /\ pc = "refused" => UNCHANGED session
          /\ pc = "in" => session' = [session EXCEPT ![q] = [user |-> target[q],
                 role |-> GlobalRole(RoleOf[Token(q)]), courses |-> RolesOf(target[q])]]
      BY DEF Issue
<1>3. \A r \in Requests : /\ Token(r)' = Token(r)
                          /\ Pc(r)' = IF r = q THEN pc ELSE Pc(r)
      BY <1>2, GotoMoves DEF IInv, Pcs
<1>4. CASE pc = "refused"
      BY <1>1, <1>2, <1>3, <1>4, MovesKeepAccounts DEF Moves
<1>5. CASE pc = "in"
  <2>1. \A r \in Requests : Posted(r)' = Posted(r) /\ Subject(r)' = Subject(r) /\ Email(r)' = Email(r)
        BY <1>1, <1>3, <1>5 DEF Posted, Subject, Email
  <2>2. Targeting' = Targeting /\ Open' = Open
        BY <1>1, <1>3, <1>5 DEF Targeting, Open
  <2>3. session'[q].user = target[q] /\ \A r \in Requests \ {q} : session'[r] = session[r]
        BY <1>2, <1>5 DEF IInv, TypeOK
  <2>4. \A s \in Subjects : links[s] # Nobody => links[s] \in Requests
        BY DEF IInv, TypeOK
  <2>5. UsersAreOwn'
    <3>1. \A s \in Subjects : links'[s] # Nobody => Posted(links[s])' /\ Subject(links[s])' = s
          BY <1>1, <2>1, <2>4 DEF AccountIInv, UsersAreOwn
    <3>2. \A r \in Targeting' : /\ target'[r] \in Requests /\ Posted(target[r])'
                                /\ Subject(target[r])' = Subject(r)'
          BY <1>1, <2>1, <2>2 DEF AccountIInv, UsersAreOwn, Targeting
    <3>3. \A u \in Requests : users'[u] # Nobody =>
             /\ Posted(u)'
             /\ \E t \in Tokens : SubjectOf[t] = Subject(u)' /\ EmailOf[t] = users'[u].email
          BY <1>1, <2>1 DEF AccountIInv, UsersAreOwn
    <3> QED BY <1>1, <3>1, <3>2, <3>3 DEF UsersAreOwn
  <2>6. UsersAreStored'
        BY <1>1, <1>3, <1>5, <2>3 DEF AccountIInv, UsersAreStored, Through
  <2>7. EmailsAreUnique'
    <3>1. \A r \in Open : r \in Requests /\ IsTaken(r)' = IsTaken(r)
          BY <1>1, <2>1 DEF Open, IsTaken
    <3> QED BY <1>1, <2>1, <2>2, <3>1 DEF AccountIInv, EmailsAreUnique
  <2> QED BY <2>5, <2>6, <2>7 DEF AccountIInv
<1> QED BY <1>4, <1>5

LEMMA StepKeepsAccounts == ASSUME IInv, AccountIInv, [Next]_vars PROVE AccountIInv'
<1>1. ASSUME UNCHANGED <<post, target, users, links, session>> PROVE AccountIInv'
      BY <1>1, MovesKeepAccounts DEF Moves, Token, Pc
<1>2. CASE Rotate \/ UNCHANGED vars \/ \E t \in Tokens : Expire(t) \/ ForgetNonce(t)
      BY <1>1, <1>2 DEF Rotate, Expire, ForgetNonce, vars, dbVars
<1>3. ASSUME NEW q \in Requests, Verify(q) \/ Fetch(q) \/ ClaimNonce(q) \/ Roles(q) \/ Link(q)
                                 \/ Rollback(q) \/ SignOut(q)
      PROVE  AccountIInv'
  <2>1. PICK pc \in {"verify", "fetch", "claim", "roles", "find", "refused", "enrol", "out"} :
           /\ Goto(q, pc) /\ Pc(q) # "new" /\ (Pc(q) \in {"in", "out"} => pc = "out")
           /\ pc = "enrol" => Pc(q) = "link"
           /\ pc = "out" => Pc(q) = "in"
        BY <1>3 DEF Verify, Fetch, ClaimNonce, Roles, Link, Rollback, SignOut
  <2>2. UNCHANGED <<target, users, links, session>>
        BY <1>3 DEF Verify, Fetch, ClaimNonce, Roles, Link, Rollback, SignOut, dbVars
  <2>3. \A r \in Requests : /\ Token(r)' = Token(r)
                            /\ Pc(r)' = IF r = q THEN pc ELSE Pc(r)
        BY <2>1, GotoMoves DEF IInv, Pcs
  <2>4. \A r \in Requests : Moves(r)
        BY <2>1, <2>3 DEF Moves
  <2> QED BY <2>2, <2>3, <2>4, MovesKeepAccounts
<1>4. ASSUME NEW g \in Gateways, Restart(g) PROVE AccountIInv'
  <2>1. UNCHANGED <<target, users, links, session>>
        BY <1>4 DEF Restart, dbVars
  <2>2. \A r \in Requests :
            /\ Token(r)' = Token(r)
            /\ Pc(r)' = IF At(r) = g /\ Pc(r) \notin {"in", "out"} THEN "refused" ELSE Pc(r)
        BY <1>4 DEF Restart, IInv, TypeOK, Token, At, Pc
  <2>3. \A r \in Requests : At(r) = g => Pc(r) # "new"
        BY LaunchAssumption DEF IInv, PostsAreSound
  <2>4. \A r \in Requests : Moves(r)
        BY <2>2, <2>3 DEF Moves
  <2> QED BY <2>1, <2>2, <2>4, MovesKeepAccounts
<1> QED BY <1>2, <1>3, <1>4, PostKeepsAccounts, FindUserKeepsAccounts, WriteUserKeepsAccounts,
           CommitKeepsAccounts, IssueKeepsAccounts DEF Next, LaunchStep

\* Every user is that of one subject, and no e-mail has two users, committed or about to be.
THEOREM AccountsInvariantHolds == Spec => []AccountIInv
<1>1. IInv /\ AccountIInv /\ [Next]_vars => AccountIInv'
      BY StepKeepsAccounts
<1> QED BY <1>1, AccountsInit, InvariantHolds, PTL DEF Spec

\* Launches of one user that carry one e-mail open one account, for any number of posts
\* that race to create it on any gateways (HandleLaunch and users_email_unique).
THEOREM AlwaysOneAccount == Spec => []OneAccount
<1>1. IInv /\ AccountIInv => OneAccount
  <2> SUFFICES ASSUME IInv, AccountIInv, NEW q \in Requests, NEW r \in Requests,
                      session[q] # Nobody, session[r] # Nobody, Subject(q) = Subject(r),
                      \A t \in Tokens : SubjectOf[t] = Subject(q) => EmailOf[t] = Email(q),
                      Email(q) # NoEmail
               PROVE  session[q].user = session[r].user
      BY DEF OneAccount
  <2>1. Through(q) /\ Through(r) /\ q \in Targeting /\ r \in Targeting
        BY DEF IInv, SessionsAreIssued, Targeting, Through
  <2>2. /\ session[q].user = target[q] /\ users[target[q]] # Nobody
        /\ session[r].user = target[r] /\ users[target[r]] # Nobody
        BY <2>1 DEF AccountIInv, UsersAreStored
  <2>3. /\ target[q] \in Requests /\ Subject(target[q]) = Subject(q)
        /\ target[r] \in Requests /\ Subject(target[r]) = Subject(q)
        BY <2>1 DEF AccountIInv, UsersAreOwn
  <2>4. users[target[q]].email = Email(q) /\ users[target[r]].email = Email(q)
        BY <2>2, <2>3 DEF AccountIInv, UsersAreOwn
  <2> QED BY <2>2, <2>3, <2>4 DEF AccountIInv, EmailsAreUnique
<1> QED BY <1>1, InvariantHolds, AccountsInvariantHolds, PTL
=============================================================================

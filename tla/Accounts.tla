------------------------------- MODULE Accounts -------------------------------
(***************************************************************************)
(* Accounts: registration, the roles a user holds, and the ways to set a   *)
(* new password (AuthManager, UserRoleManager, permissionController,       *)
(* AdminManager).                                                          *)
(*                                                                         *)
(* Roles themselves never change: no endpoint updates or deletes one.  A   *)
(* secret is a reset token, a change code or a verification token; it is   *)
(* known by the order in which it was issued, and dies when it expires.    *)
(* The code asks to clear secrets by writing undefined, which both data    *)
(* sources drop: a secret stays in its row until another one replaces it.  *)
(***************************************************************************)
EXTENDS Naturals, Sequences, FiniteSets

CONSTANTS
    Emails,
    Roles, DefaultRole,     \* the default is the role named "user"
    Desks,                  \* requests in progress at a time
    Engines,                \* databases DATABASE_TYPE may select
    NoEmail,
    MaxUsers,               \* bound on users ever created
    MaxRequests,            \* bound on requests
    MaxErrs                 \* bound on database errors and interrupted requests

ASSUME AccountAssumption ==
    /\ Engines \subseteq {"mongo", "postgres"}
    /\ DefaultRole \in Roles /\ NoEmail \notin Emails
    /\ MaxUsers \in Nat /\ MaxRequests \in Nat /\ MaxErrs \in Nat

UserIds == 1..MaxUsers
UserRows == [state : {"unused", "present", "deleted"}, email : Emails \union {NoEmail},
             reset : Nat, code : Nat, token : Nat,  \* secrets in the row; 0: none
             password : Nat]                        \* the secret it was set with last
Grants == [user : UserIds, role : Roles, active : BOOLEAN]
Registrations == {"register", "google"}
\* A registration creates its user, finds the role and grants it; an assignment only grants;
\* the others end by writing a password or a token.
Tasks == {t \in [kind : Registrations \union {"none", "assign", "reset", "verify", "confirm"},
                 pc : {"idle", "create", "role", "grant", "password", "token"},
                 email : Emails \union {NoEmail}, role : Roles, named : BOOLEAN,
                 user : UserIds \union {0}, secret : Nat] :
            /\ t.kind = "none" <=> t.pc = "idle"
            /\ t.user = 0 <=> t.pc \in {"idle", "create"}
            /\ t.pc \in {"create", "role"} => t.kind \in Registrations
            /\ t.pc = "grant" => t.kind \in Registrations \union {"assign"}
            /\ t.pc = "password" => t.kind \in {"reset", "confirm"}
            /\ t.pc = "token" => t.kind = "verify"}
Secrets == [kind : {"reset", "code", "token"}, user : UserIds, from : Nat]

VARIABLES
    engine,         \* the database of this deployment
    roleState,      \* roleState[r]: how the seeds left the role
    user,           \* user[i]: the row with id i
    grants,         \* rows of UserRole
    task,           \* task[d]: the request at desk d
    issued, alive,  \* secrets in the order they were issued; those not expired
    cut,            \* users whose registration ended in an error
    requests, errs

accountVars == <<engine, roleState, user, grants, task, issued, alive, cut, requests, errs>>

NoRow == [state |-> "unused", email |-> NoEmail, reset |-> 0, code |-> 0, token |-> 0,
          password |-> 0]
NoTask == [kind |-> "none", pc |-> "idle", email |-> NoEmail, role |-> DefaultRole,
           named |-> FALSE, user |-> 0, secret |-> 0]

\* The first n users registered in an earlier run of the program.
AccountsInit ==
    /\ engine \in Engines
    /\ roleState \in [Roles -> {"absent", "inactive", "active"}]
    /\ \E n \in {0, MaxUsers} : \E addr \in [1..n -> Emails] :
          /\ \A i, j \in 1..n : addr[i] = addr[j] => i = j
          /\ user = [i \in UserIds |-> IF i > n THEN NoRow
                                       ELSE [NoRow EXCEPT !.state = "present", !.email = addr[i]]]
          /\ grants = [user : 1..n, role : {DefaultRole}, active : {TRUE}]
    /\ task = [d \in Desks |-> NoTask]
    /\ issued = <<>> /\ alive = {}
    /\ cut = {}
    /\ requests = 0 /\ errs = 0

Present(i) == user[i].state = "present"
Free(d) == task[d].kind = "none"
Puts(d, t) == task' = [task EXCEPT ![d] = t]
Clears(d) == Puts(d, NoTask)
Counted == requests < MaxRequests /\ requests' = requests + 1
Err == errs < MaxErrs /\ errs' = errs + 1

-----------------------------------------------------------------------------
\* Registration.
EmailKnown(e) == \E i \in UserIds : Present(i) /\ user[i].email = e

\* findByEmail throws when there is no user; registerUser takes any error for that
\* answer, googleRegister only a 404.
StartRegistration(d, kind, e, r, named) ==
    /\ Free(d) /\ Counted
    /\ \/ ~EmailKnown(e) /\ UNCHANGED errs
       \/ kind = "register" /\ Err
    /\ kind = "google" => ~named
    /\ named \/ r = DefaultRole
    /\ Puts(d, [NoTask EXCEPT !.kind = kind, !.pc = "create", !.email = e, !.role = r,
                              !.named = named])
    /\ UNCHANGED <<engine, roleState, user, grants, issued, alive, cut>>

\* Mutant: no unique key on the e-mail.
MutantNoUniqueEmail(e) == FALSE
EmailRefused(e) == EmailKnown(e)

NextId(i) == user[i].state = "unused" /\ \A j \in UserIds : j < i => user[j].state # "unused"

CreateUser(d) ==
    /\ task[d].pc = "create"
    /\ \/ EmailRefused(task[d].email) /\ Clears(d) /\ UNCHANGED user
       \/ /\ ~EmailRefused(task[d].email)
          /\ \E i \in UserIds :
                /\ NextId(i)
                /\ user' = [user EXCEPT ![i] =
                               [NoRow EXCEPT !.state = "present", !.email = task[d].email]]
                /\ Puts(d, [task[d] EXCEPT !.pc = "role", !.user = i])
    /\ UNCHANGED <<engine, roleState, grants, issued, alive, cut, requests, errs>>

\* The rest of a registration fails: the request answers with an error, the user stays.
\* Mutant: the error is swallowed and the registration answers as if all were well.
MutantSwallows(d) == Clears(d) /\ UNCHANGED cut
GivesUp(d) ==
    /\ Clears(d)
    /\ cut' = IF task[d].kind \in Registrations THEN cut \union ({task[d].user} \ {0}) ELSE cut

\* A role named in the request must be active; of the default role only existence counts.
RoleFound(t) == IF t.named THEN roleState[t.role] = "active" ELSE roleState[t.role] # "absent"

FindRole(d) ==
    /\ task[d].pc = "role"
    /\ IF RoleFound(task[d]) THEN Puts(d, [task[d] EXCEPT !.pc = "grant"]) /\ UNCHANGED cut
       ELSE GivesUp(d)
    /\ UNCHANGED <<engine, roleState, user, grants, issued, alive, requests, errs>>

\* The row is refused by the unique key on (user, role) or, on PostgreSQL, because the
\* user was deleted meanwhile.
GrantRefused(t) ==
    \/ \E g \in grants : g.user = t.user /\ g.role = t.role
    \/ engine = "postgres" /\ ~Present(t.user)

GrantRole(d) ==
    /\ task[d].pc = "grant"
    /\ IF GrantRefused(task[d]) THEN GivesUp(d) /\ UNCHANGED grants
       ELSE /\ grants' = grants \union
                   {[user |-> task[d].user, role |-> task[d].role, active |-> TRUE]}
            /\ Clears(d) /\ UNCHANGED cut
    /\ UNCHANGED <<engine, roleState, user, issued, alive, requests, errs>>

-----------------------------------------------------------------------------
\* Administration.

\* A role a user ever held, even one taken back, cannot be assigned again.
StartAssign(d, i, r) ==
    /\ Free(d) /\ Counted
    /\ Present(i) /\ roleState[r] = "active"
    /\ \A g \in grants : ~(g.user = i /\ g.role = r)
    /\ Puts(d, [NoTask EXCEPT !.kind = "assign", !.pc = "grant", !.role = r, !.user = i])
    /\ UNCHANGED <<engine, roleState, user, grants, issued, alive, cut, errs>>

\* On Mongo the role's _id is an ObjectId, never === the row's string: always 404.
RemoveRole(i, r) ==
    /\ engine = "postgres" /\ Counted
    /\ Present(i) /\ roleState[r] # "absent"
    /\ \E g \in grants : g.user = i /\ g.role = r
    /\ grants' = {IF g.user = i /\ g.role = r THEN [g EXCEPT !.active = FALSE] ELSE g : g \in grants}
    /\ UNCHANGED <<engine, roleState, user, task, issued, alive, cut, errs>>

\* UserRole cascades on PostgreSQL; Mongo keeps the documents.
DeleteUser(i) ==
    /\ Present(i) /\ Counted
    /\ user' = [user EXCEPT ![i] = [NoRow EXCEPT !.state = "deleted"]]
    /\ grants' = IF engine = "postgres" THEN {g \in grants : g.user # i} ELSE grants
    /\ UNCHANGED <<engine, roleState, task, issued, alive, cut, errs>>

-----------------------------------------------------------------------------
\* Passwords.
Issue(kind, i, from) ==
    /\ issued' = Append(issued, [kind |-> kind, user |-> i, from |-> from])
    /\ alive' = alive \union {Len(issued) + 1}
NewSecret == Len(issued) + 1

\* A mail that fails to go out changes nothing: the clearing write is dropped.
ForgotPassword(i) ==
    /\ Present(i) /\ Counted
    /\ Issue("reset", i, 0)
    /\ user' = [user EXCEPT ![i].reset = NewSecret]
    /\ UNCHANGED <<engine, roleState, grants, task, cut, errs>>

RequestPasswordChange(i) ==
    /\ Present(i) /\ Counted
    /\ Issue("code", i, 0)
    /\ user' = [user EXCEPT ![i].code = NewSecret]
    /\ UNCHANGED <<engine, roleState, grants, task, cut, errs>>

StartTask(d, kind, pc, i, n) ==
    /\ Free(d) /\ Counted
    /\ Puts(d, [NoTask EXCEPT !.kind = kind, !.pc = pc, !.user = i, !.secret = n])
    /\ UNCHANGED <<engine, roleState, user, grants, issued, alive, cut, errs>>

\* The user is looked up by a reset token that has not expired; hashing follows.
StartReset(d) ==
    \E i \in UserIds :
        Present(i) /\ user[i].reset \in alive /\ StartTask(d, "reset", "password", i, user[i].reset)

\* Mutant: the code is looked for, but not compared with the user's.
MutantAnyCode(i, n) == n \in alive /\ issued[n].kind = "code"
CodeAccepted(i, n) == n \in alive /\ user[i].code = n

\* Verification reads the user, then stores a token; the code stays in the row.
StartVerify(d) ==
    \E i \in UserIds, n \in alive :
        Present(i) /\ CodeAccepted(i, n) /\ StartTask(d, "verify", "token", i, n)

WriteToken(d) ==
    LET i == task[d].user
    IN /\ task[d].pc = "token"
       /\ IF Present(i)
          THEN /\ Issue("token", i, task[d].secret)
               /\ user' = [user EXCEPT ![i].token = NewSecret]
          ELSE UNCHANGED <<issued, alive, user>>
       /\ Clears(d)
       /\ UNCHANGED <<engine, roleState, grants, cut, requests, errs>>

StartConfirm(d) ==
    \E i \in UserIds :
        Present(i) /\ user[i].token \in alive /\ StartTask(d, "confirm", "password", i, user[i].token)

WritePassword(d) ==
    LET i == task[d].user
    IN /\ task[d].pc = "password"
       /\ user' = IF Present(i) THEN [user EXCEPT ![i].password = task[d].secret] ELSE user
       /\ Clears(d)
       /\ UNCHANGED <<engine, roleState, grants, issued, alive, cut, requests, errs>>

Lapse(n) ==
    /\ n \in alive
    /\ alive' = alive \ {n}
    /\ UNCHANGED <<engine, roleState, user, grants, task, issued, cut, requests, errs>>

\* A database error or a crash ends a request where it is.
CutShort(d) ==
    /\ ~Free(d) /\ Err
    /\ GivesUp(d)
    /\ UNCHANGED <<engine, roleState, user, grants, issued, alive, requests>>

-----------------------------------------------------------------------------
AccountsNext ==
    \/ \E d \in Desks :
          \/ \E kind \in Registrations, e \in Emails, r \in Roles, named \in BOOLEAN :
                StartRegistration(d, kind, e, r, named)
          \/ \E i \in UserIds, r \in Roles : StartAssign(d, i, r)
          \/ StartReset(d) \/ StartVerify(d) \/ StartConfirm(d)
          \/ CreateUser(d) \/ FindRole(d) \/ GrantRole(d)
          \/ WriteToken(d) \/ WritePassword(d) \/ CutShort(d)
    \/ \E i \in UserIds :
          \/ \E r \in Roles : RemoveRole(i, r)
          \/ DeleteUser(i) \/ ForgotPassword(i) \/ RequestPasswordChange(i)
    \/ \E n \in alive : Lapse(n)

AccountsSpec == AccountsInit /\ [][AccountsNext]_accountVars

-----------------------------------------------------------------------------
AccountsTypeOK ==
    /\ engine \in Engines
    /\ roleState \in [Roles -> {"absent", "inactive", "active"}]
    /\ user \in [UserIds -> UserRows]
    /\ grants \subseteq Grants
    /\ task \in [Desks -> Tasks]
    /\ issued \in Seq(Secrets)
    /\ alive \subseteq 1..Len(issued)
    /\ cut \subseteq UserIds
    /\ requests \in Nat /\ errs \in Nat

\* Two registrations with one e-mail, by form or by Google, can both pass the check, and
\* a failed read passes it too: the second create is refused and the address stays unique.
EmailsUnique ==
    \A i, j \in UserIds : Present(i) /\ Present(j) /\ user[i].email = user[j].email => i = j

\* registerUser and googleRegister create the user before the role: a user without any
\* role is one whose registration still runs or ended in an error.
RegisteredHaveRole ==
    \A i \in UserIds :
        Present(i) /\ i \notin cut =>
            \/ \E g \in grants : g.user = i
            \/ \E d \in Desks : task[d].kind \in Registrations /\ task[d].user = i

\* A role is assigned to a user once, and on PostgreSQL only to users who exist, although
\* a user may be deleted between the checks of an assignment and its row.
GrantsAreSound ==
    /\ \A g, h \in grants : g.user = h.user /\ g.role = h.role => g = h
    /\ engine = "postgres" => \A g \in grants : Present(g.user)

\* What registrations, assignments and deletions leave behind is sound under every
\* interleaving, failure and crash: the three properties above.
RegistrationsSound == EmailsUnique /\ RegisteredHaveRole /\ GrantsAreSound

\* However requests, expiry and newer codes interleave, a password was set with a reset
\* token of the same account, or with a verification token that the same account got for
\* a code of its own.
ChangeFollowsACode ==
    \A i \in UserIds :
        LET n == user[i].password
        IN n # 0 => /\ issued[n].user = i
                    /\ \/ issued[n].kind = "reset"
                       \/ /\ issued[n].kind = "token"
                          /\ issued[issued[n].from].kind = "code"
                          /\ issued[issued[n].from].user = i
=============================================================================

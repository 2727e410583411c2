-------------------------------- MODULE Access --------------------------------
(***************************************************************************)
(* Roles and their permissions: the seeds that write them, the endpoints   *)
(* that change them, and the check that asks for one (database/seeds,      *)
(* permissionController, RoleManager, permissionMiddleware).               *)
(*                                                                         *)
(* The seeds run in a process of their own beside the server and may fail  *)
(* or die between any two writes.  The check reads the rows of a user,     *)
(* then the roles, then the permissions, while all of them may change.     *)
(***************************************************************************)
EXTENDS Naturals

CONSTANTS
    Visitors,
    RoleNames,          \* the seeded roles of this instance
    AccessStores,       \* which databases: "mongo", "postgres" or both
    MaxCommands,        \* bound on seeds and rollbacks
    MaxChores           \* bound on requests of administrators

\* What the seeds list.  One right stands for those that the same roles have.
Listed(r) == CASE r = "user"      -> {"content"}
               [] r = "moderator" -> {"content", "moderate"}
               [] r = "admin"     -> {"system:admin"}
Rights == UNION {Listed(r) : r \in RoleNames}

\* The seeds go through what they list in this order.
SeedRank(x) == CASE x \in {"user", "content"} -> 1
             [] x \in {"moderator", "moderate"} -> 2
             [] x \in {"admin", "system:admin"} -> 3

ASSUME AccessAssumption ==
    /\ "admin" \in RoleNames /\ RoleNames \subseteq {"user", "moderator", "admin"}
    /\ AccessStores \subseteq {"mongo", "postgres"}
    /\ MaxCommands \in Nat \ {0} /\ MaxChores \in Nat

(***************************************************************************)
(* A command creates a name at most once, so an id is a name with the      *)
(* number of the command that created it; 0 is no command and 1 the one    *)
(* before the behaviour starts.                                            *)
(***************************************************************************)
Numbers == 0..MaxCommands
RightIds == Rights \X (Numbers \ {0})
RoleIds == RoleNames \X (Numbers \ {0})

VARIABLES
    accessStore,
    right,      \* right[p]: the command that created the permission p, 0 without one
    role,       \* role[r]: the command that created it, and the ids it lists
    rows,       \* rows of UserRole
    cli,        \* the database command: what it does and what is left of that
    chore,      \* an administrator's request between its reads and its write
    guard,      \* a check between its reads
    watch,      \* history: what was so while the check ran
    commands, chores

accessVars == <<accessStore, right, role, rows, cli, chore, guard, watch, commands, chores>>

UserRoles == [person : Visitors, role : RoleIds, active : BOOLEAN]
RoleId(r) == <<r, role[r].made>>
RightId(p) == <<p, right[p]>>
RoleExists(i) == role[i[1]].made = i[2]
RightExists(j) == right[j[1]] = j[2]

NoCommand == [op |-> "none", pc |-> "idle", todo |-> {}, filling |-> FALSE, marred |-> FALSE]
NoChore == [kind |-> "none"]
NoGuard == [pc |-> "idle", person |-> {}, roles |-> {}, ids |-> {}, names |-> {},
            admits |-> FALSE]
NoSight == [carriers |-> {}, calm |-> TRUE, worn |-> {}, offers |-> {}]

\* A new database, or a seeded one whose users hold any of the roles.
AccessInit ==
    /\ accessStore \in AccessStores
    /\ commands = 1
    /\ \/ /\ right = [p \in Rights |-> 0] /\ role = [r \in RoleNames |-> [made |-> 0, lists |-> {}]]
          /\ rows = {}
       \/ /\ right = [p \in Rights |-> 1]
          /\ role = [r \in RoleNames |-> [made |-> 1, lists |-> {<<p, 1>> : p \in Listed(r)}]]
          /\ rows \in SUBSET [person : Visitors, role : RoleNames \X {1}, active : {TRUE}]
    /\ cli = NoCommand /\ chore = NoChore /\ guard = NoGuard /\ watch = NoSight
    /\ chores = 0

-----------------------------------------------------------------------------
\* Seeds and their rollback.
NewCommand(op, pc, todo) ==
    /\ cli.pc = "idle" /\ commands < MaxCommands
    /\ commands' = commands + 1
    /\ cli' = [NoCommand EXCEPT !.op = op, !.pc = pc, !.todo = todo]
    /\ UNCHANGED <<right, role, rows, chore, guard, chores>>

StartSeed == NewCommand("seed", "rights", Rights)
StartRollback == NewCommand("rollback", "drop roles", RoleNames)

IsNext(x) == x \in cli.todo /\ \A y \in cli.todo : SeedRank(x) <= SeedRank(y)
Did(x) == cli' = [cli EXCEPT !.todo = @ \ {x}]

\* PermissionSeed: a permission that is there stays.  insertMany stores one after the other.
SeedRight(p) ==
    /\ cli.pc = "rights" /\ IsNext(p)
    /\ Did(p)
    /\ right' = [right EXCEPT ![p] = IF @ = 0 THEN commands ELSE @]
    /\ UNCHANGED <<role, rows, chore, guard, commands, chores>>

NextSeed(pc, next, todo) ==
    /\ cli.pc = pc /\ cli.todo = {}
    /\ cli' = [cli EXCEPT !.pc = next, !.todo = todo]
    /\ UNCHANGED <<right, role, rows, chore, guard, commands, chores>>

RightsSeeded == NextSeed("rights", "roles", RoleNames)

\* Mutant: only permissions that this seed has created are found.
MutantOnlyCreated(r) == {RightId(p) : p \in {q \in Listed(r) : right[q] = commands}}
\* The ids RoleSeed finds for a role; the names that have no permission are left out.
Found(r) == {RightId(p) : p \in {q \in Listed(r) : right[q] # 0}}
MadeOr(r) == IF role[r].made = 0 THEN commands ELSE role[r].made

\* On Mongo one upsert replaces the list.
SyncRole(r) ==
    /\ cli.pc = "roles" /\ accessStore = "mongo" /\ IsNext(r)
    /\ Did(r)
    /\ role' = [role EXCEPT ![r] = [made |-> MadeOr(r), lists |-> Found(r)]]
    /\ UNCHANGED <<right, rows, chore, guard, commands, chores>>

\* On PostgreSQL a role is created, or its rows are deleted; its rows are created afterwards.
ClearRole(r) ==
    /\ cli.pc = "roles" /\ accessStore = "postgres" /\ ~cli.filling /\ IsNext(r)
    /\ cli' = [cli EXCEPT !.filling = TRUE]
    /\ role' = [role EXCEPT ![r] = [made |-> MadeOr(r), lists |-> {}]]
    /\ UNCHANGED <<right, rows, chore, guard, commands, chores>>

FillRole(r) ==
    /\ cli.pc = "roles" /\ cli.filling /\ IsNext(r)
    /\ cli' = [cli EXCEPT !.todo = @ \ {r}, !.filling = FALSE]
    /\ role' = [role EXCEPT ![r].lists = @ \union Found(r)]
    /\ UNCHANGED <<right, rows, chore, guard, commands, chores>>

\* Rollback: roles first, then permissions.  PostgreSQL cascades to the rows that name them.
DropRole(r) ==
    /\ cli.pc = "drop roles" /\ IsNext(r)
    /\ Did(r)
    /\ role' = [role EXCEPT ![r] = [made |-> 0, lists |-> {}]]
    /\ rows' = IF accessStore = "postgres" THEN {w \in rows : w.role[1] # r} ELSE rows
    /\ UNCHANGED <<right, chore, guard, commands, chores>>

RolesDropped == NextSeed("drop roles", "drop rights", Rights)

DropRight(p) ==
    /\ cli.pc = "drop rights" /\ IsNext(p)
    /\ Did(p)
    /\ right' = [right EXCEPT ![p] = 0]
    /\ role' = IF accessStore = "postgres"
               THEN [r \in RoleNames |-> [role[r] EXCEPT !.lists = {j \in @ : j[1] # p}]]
               ELSE role
    /\ UNCHANGED <<rows, chore, guard, commands, chores>>

\* Where the seeds of Mongo swallow an error and go on: a role or a permission is passed over.
PassOver(x) ==
    /\ accessStore = "mongo" /\ cli.pc \in {"roles", "drop roles", "drop rights"}
    /\ IsNext(x)
    /\ cli' = [cli EXCEPT !.todo = @ \ {x}, !.marred = TRUE]
    /\ UNCHANGED <<right, role, rows, chore, guard, commands, chores>>

EndCommand(pc) ==
    /\ cli.pc = pc /\ cli.todo = {}
    /\ cli' = [cli EXCEPT !.pc = "idle"]
    /\ UNCHANGED <<right, role, rows, chore, guard, commands, chores>>

SeedEnds == EndCommand("roles")
RollbackEnds == EndCommand("drop rights")

\* An error that is thrown, or the end of the process, stops the command where it is.
CommandStops ==
    /\ cli.pc # "idle"
    /\ cli' = NoCommand
    /\ UNCHANGED <<right, role, rows, chore, guard, commands, chores>>

-----------------------------------------------------------------------------
\* Administration.  Each request reads what it names before it writes.
NewChore == chore = NoChore /\ chores < MaxChores /\ chores' = chores + 1

StartGrant(x, r) ==
    /\ NewChore
    /\ role[r].made # 0 /\ \A w \in rows : ~(w.person = x /\ w.role = RoleId(r))
    /\ chore' = [kind |-> "grant", person |-> x, role |-> RoleId(r)]
    /\ UNCHANGED <<right, role, rows, cli, guard, commands>>

\* Mongo stores the row whether or not the role is still there.
WriteGrant ==
    /\ chore.kind = "grant"
    /\ chore' = NoChore
    /\ rows' = IF accessStore = "mongo" \/ RoleExists(chore.role)
               THEN rows \union {[person |-> chore.person, role |-> chore.role, active |-> TRUE]}
               ELSE rows
    /\ UNCHANGED <<right, role, cli, guard, commands, chores>>

\* On Mongo the row is never found: an ObjectId is compared with a string.
Revoke(x, r) ==
    /\ accessStore = "postgres" /\ NewChore
    /\ \E w \in rows :
          /\ w.person = x /\ w.role = RoleId(r)
          /\ rows' = (rows \ {w}) \union {[w EXCEPT !.active = FALSE]}
    /\ UNCHANGED <<right, role, cli, chore, guard, commands>>

StartAdd(r, p) ==
    /\ NewChore
    /\ role[r].made # 0 /\ right[p] # 0
    /\ chore' = [kind |-> "add", role |-> RoleId(r), right |-> RightId(p)]
    /\ UNCHANGED <<right, role, rows, cli, guard, commands>>

Mars == cli' = [cli EXCEPT !.marred = TRUE]

\* PostgreSQL refuses a row whose role or permission has gone; Mongo only misses the role.
WriteAdd ==
    LET r == chore.role[1]
        refused == \/ ~RoleExists(chore.role)
                   \/ accessStore = "postgres" /\ ~RightExists(chore.right)
    IN /\ chore.kind = "add"
       /\ chore' = NoChore
       /\ role' = IF refused THEN role ELSE [role EXCEPT ![r].lists = @ \union {chore.right}]
       /\ Mars
       /\ UNCHANGED <<right, rows, guard, commands, chores>>

TakeAway(r, j) ==
    /\ NewChore
    /\ role[r].made # 0 /\ j \in role[r].lists
    /\ role' = [role EXCEPT ![r].lists = @ \ {j}]
    /\ Mars
    /\ UNCHANGED <<right, rows, chore, guard, commands>>

-----------------------------------------------------------------------------
\* requirePermission and the endpoint checkAdminPermissions, which makes the same reads:
\* whatever is missing on the way makes the first refuse and the second fail.
NotCommand == UNCHANGED <<right, role, rows, cli, chore, commands, chores>>
Judged(verdict) == guard' = [NoGuard EXCEPT !.admits = verdict]

\* Every router that asks for a permission asks for this one (requireAdmin).
Wanted == "system:admin"

\* Whose check it is, is a set of one.
StartGuard(x) ==
    /\ guard.pc = "idle"
    /\ guard' = [NoGuard EXCEPT !.pc = "rows", !.person = {x}]
    /\ NotCommand

\* Mutant: rows that were taken back count.
MutantAllRows(x) == {w \in rows : w.person \in x}
ActiveRows(x) == {w \in rows : w.person \in x /\ w.active}

ReadRows ==
    LET ids == {w.role : w \in ActiveRows(guard.person)}
    IN /\ guard.pc = "rows"
       /\ IF ids = {} THEN Judged(FALSE) ELSE guard' = [guard EXCEPT !.pc = "roles", !.roles = ids]
       /\ NotCommand

\* The roles are read side by side.  Mongo's populate leaves out ids without a permission.
ReadRole(i) ==
    LET lists == {j \in role[i[1]].lists : accessStore = "mongo" => RightExists(j)}
    IN /\ guard.pc = "roles" /\ i \in guard.roles
       /\ IF ~RoleExists(i) THEN Judged(FALSE)
          ELSE guard' = [guard EXCEPT !.roles = @ \ {i}, !.ids = @ \union lists,
                                      !.pc = IF guard.roles = {i} THEN "rights" ELSE @]
       /\ NotCommand

ReadRight(j) ==
    /\ guard.pc = "rights" /\ j \in guard.ids
    /\ IF ~RightExists(j) THEN Judged(FALSE)
       ELSE guard' = [guard EXCEPT !.ids = @ \ {j}, !.names = @ \union {j[1]}]
    /\ NotCommand

Decide ==
    /\ guard.pc = "rights" /\ guard.ids = {}
    /\ Judged(Wanted \in guard.names)
    /\ NotCommand

-----------------------------------------------------------------------------
(***************************************************************************)
(* The history of a check: the roles through which the user had the        *)
(* permission all along, whether nothing was being rolled back and all his *)
(* roles existed, the roles he had at some moment, and those that listed   *)
(* the permission at some moment.                                          *)
(***************************************************************************)
Worn == {w.role : w \in {v \in rows : v.person \in guard.person /\ v.active}}
Offers == {RoleId(r) : r \in {q \in RoleNames :
              right[Wanted] # 0 /\ RightId(Wanted) \in role[q].lists}}

Sight == [carriers |-> Worn \intersect Offers,
          calm     |-> cli.op # "rollback" /\ \A i \in Worn : RoleExists(i),
          worn     |-> Worn, offers |-> Offers]

Along(old, new) == [carriers |-> old.carriers \intersect new.carriers, calm |-> old.calm /\ new.calm,
                    worn |-> old.worn \union new.worn, offers |-> old.offers \union new.offers]

Watches ==
    /\ accessStore' = accessStore
    /\ watch' = IF guard'.pc = "idle" THEN NoSight
                ELSE IF guard.pc = "idle" THEN Sight'
                ELSE Along(watch, Sight')

AccessStep ==
    \/ StartSeed \/ StartRollback \/ RightsSeeded \/ RolesDropped
    \/ SeedEnds \/ RollbackEnds \/ CommandStops
    \/ \E x \in RoleNames \union Rights : PassOver(x)
    \/ \E p \in Rights : SeedRight(p) \/ DropRight(p)
    \/ \E r \in RoleNames : SyncRole(r) \/ ClearRole(r) \/ FillRole(r) \/ DropRole(r)
    \/ \E x \in Visitors, r \in RoleNames : StartGrant(x, r) \/ Revoke(x, r)
    \/ \E r \in RoleNames, p \in Rights : StartAdd(r, p)
    \/ \E r \in RoleNames, j \in RightIds : TakeAway(r, j)
    \/ WriteGrant \/ WriteAdd
    \/ \E x \in Visitors : StartGuard(x)
    \/ ReadRows \/ Decide
    \/ \E i \in RoleIds : ReadRole(i)
    \/ \E j \in RightIds : ReadRight(j)

AccessNext == AccessStep /\ Watches

AccessSpec == AccessInit /\ [][AccessNext]_accessVars

-----------------------------------------------------------------------------
Commands == [op : {"none", "seed", "rollback"},
             pc : {"idle", "rights", "roles", "drop roles", "drop rights"},
             todo : SUBSET (RoleNames \union Rights), filling : BOOLEAN, marred : BOOLEAN]
Chores == {NoChore} \union [kind : {"grant"}, person : Visitors, role : RoleIds]
                    \union [kind : {"add"}, role : RoleIds, right : RightIds]
Guards == [pc : {"idle", "rows", "roles", "rights"}, person : SUBSET Visitors,
           roles : SUBSET RoleIds, ids : SUBSET RightIds, names : SUBSET Rights, admits : BOOLEAN]
Sights == [carriers : SUBSET RoleIds, calm : BOOLEAN, worn : SUBSET RoleIds, offers : SUBSET RoleIds]

AccessTypeOK ==
    /\ accessStore \in AccessStores
    /\ right \in [Rights -> Numbers]
    /\ role \in [RoleNames -> [made : Numbers, lists : SUBSET RightIds]]
    /\ rows \subseteq UserRoles
    /\ cli \in Commands /\ chore \in Chores /\ guard \in Guards /\ watch \in Sights
    /\ commands \in 1..MaxCommands /\ chores \in 0..MaxChores

(***************************************************************************)
(* Whatever earlier seeds and rollbacks left when they died half way, one  *)
(* seed that ends without an error, and beside which no administrator      *)
(* changes a role, gives every role exactly the permissions listed.        *)
(***************************************************************************)
SeedRestores ==
    cli.op = "seed" /\ cli.pc = "idle" /\ ~cli.marred =>
        \A r \in RoleNames :
            /\ role[r].made # 0
            /\ role[r].lists = {RightId(p) : p \in Listed(r)}
            /\ \A p \in Listed(r) : right[p] # 0

(***************************************************************************)
(* A user who had the permission through one role all along the check is   *)
(* admitted, also beside a seed, unless a rollback runs or ran over his    *)
(* roles: the check reads rows, roles and permissions one after the other. *)
(***************************************************************************)
Ends == guard.pc # "idle" /\ guard'.pc = "idle"
HoldersAreAdmitted == Ends /\ watch.calm /\ watch.carriers # {} => guard'.admits

\* Who is admitted had, while the check ran, a role that listed the permission then.
AdmittedHadRole == Ends /\ guard'.admits => watch.worn \intersect watch.offers # {}

\* A check decides by what was so while it ran: the two conditions above.
ChecksAreTimely == [][HoldersAreAdmitted /\ AdmittedHadRole]_accessVars
=============================================================================

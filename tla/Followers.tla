------------------------------ MODULE Followers ------------------------------
(***************************************************************************)
(* Who follows whom: UserRepository.followUser and unfollowUser on the two *)
(* databases, and the deletion of a user.                                  *)
(*                                                                         *)
(* On Mongo a user document holds two arrays, and a request reads both     *)
(* users, then writes the follower's array and then the other one.  On     *)
(* PostgreSQL each array is a view of one table of pairs, and writing an   *)
(* array deletes the user's pairs and inserts new ones.  Arrays are sets   *)
(* here: nothing depends on their order.                                   *)
(***************************************************************************)
EXTENDS Naturals, FiniteSets

CONSTANTS
    Members,            \* ids of users
    Slots,              \* requests in progress at a time
    FollowStores,       \* databases DATABASE_TYPE may select
    NoMember,
    MaxFollows,         \* bound on requests
    MaxMishaps          \* bound on requests a database error stops and users deleted

ASSUME FollowStoreAssumption == FollowStores \subseteq {"mongo", "postgres"}
ASSUME MemberAssumption == NoMember \notin Members /\ MaxFollows \in Nat /\ MaxMishaps \in Nat

Pairs == Members \X Members     \* <<follower, followed>>
JobPcs == {"idle", "follower", "insertFollowing", "followed", "insertFollowers"}
Jobs == [kind : {"none", "follow", "unfollow"}, pc : JobPcs,
         user : Members \union {NoMember},      \* the followed
         by : Members \union {NoMember},        \* the follower
         following : SUBSET Members,            \* the follower's array, edited
         followers : SUBSET Members]            \* the followed user's array, edited

VARIABLES
    store,              \* the database of this deployment
    members,            \* users that exist
    following, followers,   \* the arrays of the Mongo documents
    follows,            \* the table UserFollow
    job,                \* job[s]: the request in slot s
    asked,              \* pairs someone ever asked for
    graph,              \* pairs as the completed requests left them
    crossed,            \* two requests were ever in progress together
    started, aborts

followVars == <<store, members, following, followers, follows, job, asked, graph,
                crossed, started, aborts>>

NoJob == [kind |-> "none", pc |-> "idle", user |-> NoMember, by |-> NoMember,
          following |-> {}, followers |-> {}]

FollowersInit ==
    /\ store \in FollowStores
    /\ members = Members
    /\ following = [u \in Members |-> {}]
    /\ followers = [u \in Members |-> {}]
    /\ follows = {}
    /\ job = [s \in Slots |-> NoJob]
    /\ asked = {} /\ graph = {}
    /\ crossed = FALSE
    /\ started = 0 /\ aborts = 0

(***************************************************************************)
(* The entity a read returns.  In the Prisma schema User.following is the  *)
(* relation named "Following", whose key is followingId: the rows in which *)
(* the user IS FOLLOWED.  toEntity takes followingId from each, which is   *)
(* the user's own id; and the same for followers.                          *)
(***************************************************************************)
FollowingOf(u) ==
    IF store = "mongo" THEN following[u]
    ELSE {p[2] : p \in {q \in follows : q[2] = u}}
FollowersOf(u) ==
    IF store = "mongo" THEN followers[u]
    ELSE {p[1] : p \in {q \in follows : q[1] = u}}

Running(s) == job[s].kind # "none"
Set(s, j) == job' = [job EXCEPT ![s] = j]
Overlaps == crossed' = (crossed \/ \E s \in Slots : Running(s))

\* The check for oneself and for an existing follow, or for a missing one.
FollowRefused(kind, u, f) ==
    \/ kind = "follow" /\ (u = f \/ u \in FollowingOf(f))
    \/ kind = "unfollow" /\ u \notin FollowingOf(f)

\* Mutant: an unfollow edits only the follower's array.
MutantOneSided(s, kind, u, f) ==
    [kind |-> kind, pc |-> "follower", user |-> u, by |-> f,
     following |-> IF kind = "follow" THEN FollowingOf(f) \union {u} ELSE FollowingOf(f) \ {u},
     followers |-> IF kind = "follow" THEN FollowersOf(u) \union {f} ELSE FollowersOf(u)]
EditedJob(s, kind, u, f) ==
    [kind |-> kind, pc |-> "follower", user |-> u, by |-> f,
     following |-> IF kind = "follow" THEN FollowingOf(f) \union {u} ELSE FollowingOf(f) \ {u},
     followers |-> IF kind = "follow" THEN FollowersOf(u) \union {f} ELSE FollowersOf(u) \ {f}]

\* Both entities are read before anything is written; a missing user or a refused
\* request ends here and changes nothing.
StartFollow(s, kind, u, f) ==
    /\ ~Running(s) /\ started < MaxFollows
    /\ {u, f} \subseteq members
    /\ ~FollowRefused(kind, u, f)
    /\ Set(s, EditedJob(s, kind, u, f))
    /\ asked' = IF kind = "follow" THEN asked \union {<<f, u>>} ELSE asked
    /\ started' = started + 1
    /\ Overlaps
    /\ UNCHANGED <<store, members, following, followers, follows, graph, aborts>>

Later(s, pc) == Set(s, [job[s] EXCEPT !.pc = pc])

\* findByIdAndUpdate replaces the array; a user deleted meanwhile makes it throw.
MongoWriteFollowing(s) ==
    /\ store = "mongo" /\ job[s].pc = "follower" /\ job[s].by \in members
    /\ following' = [following EXCEPT ![job[s].by] = job[s].following]
    /\ Later(s, "followed")
    /\ UNCHANGED <<store, members, followers, follows, asked, graph, crossed, started, aborts>>

Completed(j) == IF j.kind = "follow" THEN graph \union {<<j.by, j.user>>}
                ELSE graph \ {<<j.by, j.user>>}

MongoWriteFollowers(s) ==
    /\ store = "mongo" /\ job[s].pc = "followed" /\ job[s].user \in members
    /\ followers' = [followers EXCEPT ![job[s].user] = job[s].followers]
    /\ graph' = Completed(job[s])
    /\ Set(s, NoJob)
    /\ UNCHANGED <<store, members, following, follows, asked, crossed, started, aborts>>

\* deleteMany, then createMany with skipDuplicates, then the row itself.
PostgresDeleteFollowing(s) ==
    /\ store = "postgres" /\ job[s].pc = "follower"
    /\ follows' = {p \in follows : p[1] # job[s].by}
    /\ Later(s, "insertFollowing")
    /\ UNCHANGED <<store, members, following, followers, asked, graph, crossed, started, aborts>>

\* Foreign keys: every id inserted must be a user, else the whole insert fails.
PostgresInsertFollowing(s) ==
    /\ job[s].pc = "insertFollowing"
    /\ job[s].following \union {job[s].by} \subseteq members
    /\ follows' = follows \union ({job[s].by} \X job[s].following)
    /\ Later(s, "followed")
    /\ UNCHANGED <<store, members, following, followers, asked, graph, crossed, started, aborts>>

PostgresDeleteFollowers(s) ==
    /\ store = "postgres" /\ job[s].pc = "followed"
    /\ follows' = {p \in follows : p[2] # job[s].user}
    /\ Later(s, "insertFollowers")
    /\ UNCHANGED <<store, members, following, followers, asked, graph, crossed, started, aborts>>

\* Mutant: the pair is written the wrong way round.
MutantSwapped(j) == {j.user} \X j.followers
FollowerPairs(j) == j.followers \X {j.user}
PostgresInsertFollowers(s) ==
    /\ job[s].pc = "insertFollowers"
    /\ job[s].followers \union {job[s].user} \subseteq members
    /\ follows' = follows \union FollowerPairs(job[s])
    /\ graph' = Completed(job[s])
    /\ Set(s, NoJob)
    /\ UNCHANGED <<store, members, following, followers, asked, crossed, started, aborts>>

MishapLeft == aborts + Cardinality(Members \ members) < MaxMishaps

\* A database error, or a user who is gone, ends a request where it is.
AbortFollow(s) ==
    /\ Running(s)
    /\ \/ MishapLeft
       \/ ~({job[s].user, job[s].by} \union job[s].following \union job[s].followers \subseteq members)
    /\ aborts' = aborts + 1
    /\ Set(s, NoJob)
    /\ UNCHANGED <<store, members, following, followers, follows, asked, graph, crossed,
                   started>>

\* AdminManager.deleteUser: the rows of UserFollow cascade, Mongo's arrays do not.
DeleteMember(u) ==
    /\ u \in members /\ MishapLeft
    /\ members' = members \ {u}
    /\ follows' = IF store = "postgres" THEN {p \in follows : u \notin {p[1], p[2]}} ELSE follows
    /\ following' = [following EXCEPT ![u] = {}]
    /\ followers' = [followers EXCEPT ![u] = {}]
    /\ graph' = {p \in graph : u \notin {p[1], p[2]}}
    /\ UNCHANGED <<store, job, asked, crossed, started, aborts>>

FollowersNext ==
    \/ \E s \in Slots :
          \/ \E u, f \in Members :
                StartFollow(s, "follow", u, f) \/ StartFollow(s, "unfollow", u, f)
          \/ MongoWriteFollowing(s) \/ MongoWriteFollowers(s)
          \/ PostgresDeleteFollowing(s) \/ PostgresInsertFollowing(s)
          \/ PostgresDeleteFollowers(s) \/ PostgresInsertFollowers(s)
          \/ AbortFollow(s)
    \/ \E u \in Members : DeleteMember(u)

FollowersSpec == FollowersInit /\ [][FollowersNext]_followVars

-----------------------------------------------------------------------------
FollowersTypeOK ==
    /\ store \in FollowStores
    /\ members \subseteq Members
    /\ following \in [Members -> SUBSET Members]
    /\ followers \in [Members -> SUBSET Members]
    /\ follows \subseteq Pairs
    /\ job \in [Slots -> Jobs]
    /\ \A s \in Slots : job[s].pc # "idle" => {job[s].user, job[s].by} \subseteq Members
    /\ asked \subseteq Pairs /\ graph \subseteq Pairs
    /\ crossed \in BOOLEAN
    /\ started \in Nat /\ aborts \in Nat

Undisturbed == ~crossed /\ aborts = 0 /\ \A s \in Slots : ~Running(s)

\* followUser and unfollowUser on Mongo keep the two arrays mirror images of each other
\* and equal to what was asked, as long as requests neither overlap nor stop half way.
FollowListsAgree ==
    store = "mongo" /\ Undisturbed =>
        \A u, f \in members :
            /\ u \in following[f] <=> f \in followers[u]
            /\ u \in following[f] <=> <<f, u>> \in graph

\* Whatever overlaps or fails, nobody is shown as a follower of somebody else without
\* having asked: stale arrays lose follows but never make one up.
FollowsWereAsked ==
    /\ \A u, f \in Members :
          u \in following[f] \/ f \in followers[u] => <<f, u>> \in asked
    /\ \A p \in follows : p[1] # p[2] => p \in asked

\* Lists of follows tell what users asked for: in full when requests are alone, and
\* never more than that.
FollowsSound == FollowListsAgree /\ FollowsWereAsked

\* followUser begins with "Kendi kendini follow etmeyi engelle" (prevent following
\* yourself): no pair of a user with itself is ever stored.
NobodyFollowsThemselves ==
    \A u \in Members : u \notin following[u] /\ <<u, u>> \notin follows
=============================================================================

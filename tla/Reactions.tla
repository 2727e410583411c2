------------------------------ MODULE Reactions ------------------------------
(***************************************************************************)
(* The votes on one question or answer: the endpoints like, undo_like,     *)
(* dislike and undo_dislike, and the deletion of the content they race     *)
(* with, over either database and the search index.                        *)
(*                                                                         *)
(* A request is an async handler: it yields at every await, so each        *)
(* database or Elasticsearch call is a step of its own and steps of        *)
(* different requests interleave.  The repository reads the whole entity,  *)
(* edits its two vote arrays in memory and writes arrays back; nothing     *)
(* ties the write to the read.                                             *)
(*                                                                         *)
(* AnswerRepository/AnswerManager repeat the code of the question side     *)
(* line by line; the map names the question side.                          *)
(***************************************************************************)
EXTENDS Naturals, FiniteSets

CONSTANTS
    Users,          \* users that vote
    Workers,        \* slots for requests in progress; one slot: no overlap
    Backends,       \* databases DATABASE_TYPE may select
    NoDoc,          \* the search index holds no document of the content
    NoUser,         \* an idle slot serves nobody
    MaxRequests     \* bound on the requests of a behaviour

ASSUME BackendAssumption == Backends \subseteq {"mongo", "postgres"}
ASSUME NoUserAssumption == NoUser \notin Users
ASSUME MaxRequestsAssumption == MaxRequests \in Nat

Lists == {"likes", "dislikes"}
VoteOps == {"like", "unlike", "dislike", "undoDislike"}

(***************************************************************************)
(* An array of user ids is a bag: how often each user occurs in it.  Both  *)
(* arrays of a content together are its votes.                             *)
(***************************************************************************)
Arrays == [Users -> Nat]
Votes == [Lists -> Arrays]
NoVotes == [l \in Lists |-> [u \in Users |-> 0]]

VARIABLES
    backend,        \* the database this deployment runs on
    stored,         \* the content's row or document exists
    votes,          \* its votes in the database
    indexed,        \* its votes in the search index, or NoDoc
    req,            \* req[w]: the request slot w is serving
    started,        \* requests started so far
    asked,          \* <<u, l>>: u ever passed the guard that puts u in l
    overlapped,     \* two requests were ever in progress together
    missed          \* kinds of index updates that were ever lost

vars == <<backend, stored, votes, indexed, req, started, asked, overlapped, missed>>

Pcs == {"idle", "write", "recreate", "reread", "sync"}
Requests == [op : VoteOps \union {"delete", "none"}, user : Users \union {NoUser},
             pc : Pcs, lists : Votes]
Idle == [op |-> "none", user |-> NoUser, pc |-> "idle", lists |-> NoVotes]

-----------------------------------------------------------------------------
(***************************************************************************)
(* The repository's in-memory edits.                                       *)
(***************************************************************************)
Cast(array, u) == [array EXCEPT ![u] = @ + 1]            \* array.push(userId)
\* Mutant: removal by counting down, with no look at whether the user is there.
MutantCountDown(array, u) == [array EXCEPT ![u] = @ - 1]
Uncast(array, u) == [array EXCEPT ![u] = 0]              \* array.filter(x => x !== userId)
Holds(array, u) == array[u] > 0                          \* array.includes(userId)

Target(op) == IF op \in {"like", "unlike"} THEN "likes" ELSE "dislikes"
Other(l) == IF l = "likes" THEN "dislikes" ELSE "likes"

\* Mutant: only the undo requests are guarded.
MutantRefusesUndoOnly(op, v, u) == op \in {"unlike", "undoDislike"} /\ ~Holds(v[Target(op)], u)
\* ALREADY_LIKED_ERROR and NOT_LIKED_ERROR
Refused(op, v, u) ==
    IF op \in {"like", "dislike"} THEN Holds(v[Target(op)], u) ELSE ~Holds(v[Target(op)], u)

\* Mutant: a like leaves the dislike in place.
MutantKeepsOther(op, v, u) ==
    LET t == Target(op) IN
    [v EXCEPT ![t] = IF op \in {"like", "dislike"} THEN Cast(@, u) ELSE Uncast(@, u)]
Edited(op, v, u) ==
    LET t == Target(op) IN
    IF op \in {"like", "dislike"}
    THEN [v EXCEPT ![t] = Cast(@, u), ![Other(t)] = Uncast(@, u)]
    ELSE [v EXCEPT ![t] = Uncast(@, u)]

\* The arrays the repository passes to updateById: an undo passes only one.
Passed(op) == IF op \in {"like", "dislike"} THEN Lists ELSE {Target(op)}

-----------------------------------------------------------------------------
(***************************************************************************)
(* The two data sources' updateById.                                       *)
(***************************************************************************)
\* Mongo: one findByIdAndUpdate replaces the arrays passed.
MongoUpdate(v, op, lists) == [l \in Lists |-> IF l \in Passed(op) THEN lists[l] ELSE v[l]]

\* PostgreSQL: createMany of a row per entry, likes first, an array that was
\* not passed counting as []; skipDuplicates on the unique (content, user).
HasRow(v, u) == \E l \in Lists : Holds(v[l], u)
\* Mutant: every row is inserted with type 'like'.
MutantOneType(op, lists, l, u) == l = "likes" /\ \E k \in Passed(op) : Holds(lists[k], u)
Inserts(op, lists, l, u) == l \in Passed(op) /\ Holds(lists[l], u)
\* Mutant: rows inserted without skipDuplicates and without the unique key.
MutantNoUniqueKey(v, op, lists) ==
    [l \in Lists |-> [u \in Users |-> IF Inserts(op, lists, l, u) THEN 1 ELSE v[l][u]]]
PostgresRecreate(v, op, lists) ==
    [l \in Lists |-> [u \in Users |->
        IF /\ ~HasRow(v, u)
           /\ Inserts(op, lists, l, u)
           /\ l = "dislikes" => ~Inserts(op, lists, "likes", u)
        THEN 1 ELSE v[l][u]]]

-----------------------------------------------------------------------------
Active(w) == req[w].pc # "idle"

Init ==
    /\ backend \in Backends
    /\ stored = TRUE
    /\ votes = NoVotes
    /\ indexed \in {NoVotes, NoDoc}        \* indexing on creation may have failed
    /\ req = [w \in Workers |-> Idle]
    /\ started = 0
    /\ asked = {}
    /\ overlapped = FALSE
    /\ missed = {}

Begin(w, r) ==
    /\ ~Active(w)
    /\ stored                               \* findById throws when there is no row
    /\ started < MaxRequests
    /\ started' = started + 1
    /\ req' = [req EXCEPT ![w] = r]
    /\ overlapped' = (overlapped \/ \E x \in Workers : Active(x))
    /\ UNCHANGED <<backend, stored, votes, indexed, missed>>

\* likeQuestion, unlikeQuestion, dislikeQuestion, undoDislikeQuestion: read
\* the entity, refuse or edit the arrays in memory.
StartVote(w, op, u) ==
    /\ ~Refused(op, votes, u)
    /\ Begin(w, [op |-> op, user |-> u, pc |-> "write", lists |-> Edited(op, votes, u)])
    /\ asked' = IF op \in {"like", "dislike"} THEN asked \union {<<u, Target(op)>>} ELSE asked

StartDelete(w, u) ==
    /\ Begin(w, [op |-> "delete", user |-> u, pc |-> "write", lists |-> NoVotes])
    /\ UNCHANGED asked

Goto(w, pc) == req' = [req EXCEPT ![w].pc = pc]
Finish(w) == req' = [req EXCEPT ![w] = Idle]
Keep == UNCHANGED <<backend, started, asked, overlapped>>

MongoWrite(w) ==
    /\ req[w].pc = "write" /\ req[w].op \in VoteOps /\ backend = "mongo"
    /\ IF stored
       THEN votes' = MongoUpdate(votes, req[w].op, req[w].lists) /\ Goto(w, "reread")
       ELSE UNCHANGED votes /\ Finish(w)                      \* not found: throws
    /\ Keep /\ UNCHANGED <<stored, indexed, missed>>

\* Mutant: the old rows are not deleted first.
MutantNoWipe(w) ==
    /\ req[w].pc = "write" /\ req[w].op \in VoteOps /\ backend = "postgres"
    /\ Goto(w, "recreate")
    /\ Keep /\ UNCHANGED <<stored, votes, indexed, missed>>

\* contentReaction.deleteMany; reaction rows have no foreign key to the content
PostgresWipe(w) ==
    /\ req[w].pc = "write" /\ req[w].op \in VoteOps /\ backend = "postgres"
    /\ votes' = NoVotes
    /\ Goto(w, "recreate")
    /\ Keep /\ UNCHANGED <<stored, indexed, missed>>

PostgresCreate(w) ==
    /\ req[w].pc = "recreate"
    /\ votes' = PostgresRecreate(votes, req[w].op, req[w].lists)
    /\ Goto(w, "reread")
    /\ Keep /\ UNCHANGED <<stored, indexed, missed>>

\* deleteById: a Mongo document takes its arrays with it, the reaction rows stay
DeleteRow(w) ==
    /\ req[w].pc = "write" /\ req[w].op = "delete"
    /\ IF stored THEN Goto(w, "sync") ELSE Finish(w)
    /\ stored' = FALSE
    /\ votes' = IF backend = "mongo" THEN NoVotes ELSE votes
    /\ Keep /\ UNCHANGED <<indexed, missed>>

\* Mutant: the arrays edited in memory are projected instead of the stored ones.
MutantNoReread(w) ==
    /\ req[w].pc = "reread"
    /\ IF stored THEN Goto(w, "sync") ELSE Finish(w)
    /\ Keep /\ UNCHANGED <<stored, votes, indexed, missed>>

\* the entity updateById returns is read again after the write
Reread(w) ==
    /\ req[w].pc = "reread"
    /\ IF stored
       THEN req' = [req EXCEPT ![w].pc = "sync", ![w].lists = votes]
       ELSE Finish(w)
    /\ Keep /\ UNCHANGED <<stored, votes, indexed, missed>>

\* Mutant: a vote is synchronised with 'index', which creates the document.
MutantUpsert(w) ==
    /\ req[w].pc = "sync"
    /\ indexed' = IF req[w].op = "delete" THEN NoDoc ELSE req[w].lists
    /\ Finish(w)
    /\ Keep /\ UNCHANGED <<stored, votes, missed>>

\* indexClient.sync: 'update' is a partial update of an existing document and
\* fails, logged, when there is none; 'delete' removes the document.
Sync(w) ==
    /\ req[w].pc = "sync"
    /\ indexed' = IF req[w].op = "delete" \/ indexed = NoDoc THEN NoDoc ELSE req[w].lists
    /\ Finish(w)
    /\ Keep /\ UNCHANGED <<stored, votes, missed>>

\* A call throws, or the process dies, before the request's next step; sync
\* swallows its error.  After the write the index then misses the update.
Fail(w) ==
    /\ Active(w)
    /\ Finish(w)
    /\ missed' = IF req[w].pc = "write" THEN missed
                 ELSE missed \union {IF req[w].op = "delete" THEN "delete" ELSE "update"}
    /\ Keep /\ UNCHANGED <<stored, votes, indexed>>

Step(w) ==
    \/ MongoWrite(w) \/ PostgresWipe(w) \/ PostgresCreate(w)
    \/ DeleteRow(w) \/ Reread(w) \/ Sync(w) \/ Fail(w)

Next ==
    \E w \in Workers :
        \/ \E u \in Users, op \in VoteOps : StartVote(w, op, u)
        \/ \E u \in Users : StartDelete(w, u)
        \/ Step(w)

Spec == Init /\ [][Next]_vars

-----------------------------------------------------------------------------
TypeOK ==
    /\ backend \in Backends
    /\ stored \in BOOLEAN
    /\ votes \in Votes
    /\ indexed \in Votes \union {NoDoc}
    /\ req \in [Workers -> Requests]
    /\ started \in Nat
    /\ asked \subseteq Users \X Lists
    /\ overlapped \in BOOLEAN
    /\ missed \subseteq {"update", "delete"}

(***************************************************************************)
(* No interleaving of requests counts a user twice in one array, although  *)
(* like pushes onto an array read earlier.                                 *)
(***************************************************************************)
NoDuplicateVotes == \A l \in Lists, u \in Users : votes[l][u] <= 1

\* u is in at most one of the two arrays.
OneStance(u) == \A l \in Lists : Holds(votes[l], u) => ~Holds(votes[Other(l)], u)

(***************************************************************************)
(* The unique key and skipDuplicates keep a user out of one of the two     *)
(* lists under every interleaving of deleteMany and createMany; the Mongo  *)
(* arrays have that only while requests do not overlap.                    *)
(***************************************************************************)
OneStancePerUser == (backend = "postgres" \/ ~overlapped) => \A u \in Users : OneStance(u)

(***************************************************************************)
(* However stale the arrays a request writes back, a user is only ever     *)
(* counted for a vote that user once asked for.                            *)
(***************************************************************************)
VotesWereAsked == \A l \in Lists, u \in Users : Holds(votes[l], u) => <<u, l>> \in asked

Goal(op) == CASE op = "like" -> "like" [] op = "dislike" -> "dislike" [] OTHER -> "none"
StanceOf(v, u) ==
    IF Holds(v["likes"], u) THEN "like" ELSE IF Holds(v["dislikes"], u) THEN "dislike" ELSE "none"

(***************************************************************************)
(* A request that was not disturbed by another has moved its own user      *)
(* where the endpoint says, in both databases, once its write is over.     *)
(***************************************************************************)
AcceptedVoteTakesEffect ==
    \A w \in Workers :
        req[w].op \in VoteOps /\ req[w].pc \in {"reread", "sync"} /\ ~overlapped
            => StanceOf(votes, req[w].user) = Goal(req[w].op)

(***************************************************************************)
(* When nothing is in progress, requests never overlapped and no update    *)
(* of the index was lost, the index shows the database's votes.            *)
(***************************************************************************)
IndexFresh ==
    ~overlapped /\ missed = {} /\ indexed # NoDoc /\ (\A w \in Workers : ~Active(w))
        => stored /\ indexed = votes

(***************************************************************************)
(* Once a deletion has removed the content from the index, a vote that     *)
(* was in progress does not bring it back.                                 *)
(***************************************************************************)
Removing(w) == req[w].op = "delete" /\ req[w].pc = "sync"
DeletedStaysUnsearchable ==
    ~stored /\ "delete" \notin missed /\ (\A w \in Workers : ~Removing(w))
        => indexed = NoDoc

(***************************************************************************)
(* What a search finds: the votes as stored, of contents that exist, up to *)
(* the updates still under way or lost.                                    *)
(***************************************************************************)
IndexFollows == IndexFresh /\ DeletedStaysUnsearchable

(***************************************************************************)
(* CHANGELOG.md: "Dislike and like are mutually exclusive".                *)
(***************************************************************************)
MutuallyExclusive == \A u \in Users : OneStance(u)

(***************************************************************************)
(* README.md: undo_like is "Unlike question".  Undisturbed, it takes back  *)
(* one like and leaves the dislikes it read as they were.                  *)
(***************************************************************************)
UndoLikeKeepsDislikes ==
    \A w \in Workers :
        req[w].op = "unlike" /\ req[w].pc = "reread" /\ ~overlapped
            => votes["dislikes"] = req[w].lists["dislikes"]

-----------------------------------------------------------------------------
(***************************************************************************)
(* The ledger of stances that the requests keep.  A request between its    *)
(* read and its write has its turn.                                        *)
(***************************************************************************)
Stance == [u \in Users |-> StanceOf(votes, u)]
MoveOf == [like |-> "like", unlike |-> "undoLike", dislike |-> "dislike",
           undoDislike |-> "undoDislike"]
Writing(w) == req[w].op \in VoteOps /\ req[w].pc = "write"
Turn == {[user |-> req[w].user, move |-> MoveOf[req[w].op]] : w \in {x \in Workers : Writing(x)}}
Ledger == INSTANCE VoteLedger WITH stance <- Stance, turn <- Turn

(***************************************************************************)
(* Served one at a time on Mongo, the endpoints implement the ledger: the  *)
(* write of the arrays moves the requester's stance alone, as the endpoint *)
(* says; no later step and no failure moves any.                           *)
(***************************************************************************)
ImplementsLedger == Ledger!Spec
=============================================================================

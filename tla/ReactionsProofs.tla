--------------------------- MODULE ReactionsProofs ---------------------------
(***************************************************************************)
(* Theorems about Reactions for any set of users and of request slots, any *)
(* choice of the databases and any bound on the requests: what survives    *)
(* every interleaving, what a request that was alone may rely on at each of *)
(* its awaits, and that such requests implement VoteLedger.                *)
(***************************************************************************)
EXTENDS Reactions, TLAPS

-----------------------------------------------------------------------------
(***************************************************************************)
(* What the in-memory edits and the two updateById return.                 *)
(***************************************************************************)
LEMMA TargetLists ==
    ASSUME NEW op \in VoteOps
    PROVE  /\ Target(op) \in Lists
           /\ Other(Target(op)) \in Lists
           /\ Other(Target(op)) # Target(op)
BY DEF Target, Other, Lists, VoteOps

\* The edits keep arrays of counts.
LEMMA EditedType ==
    ASSUME NEW v \in Votes, NEW u \in Users, NEW op \in VoteOps
    PROVE  Edited(op, v, u) \in Votes
BY TargetLists DEF Edited, Cast, Uncast, Votes, Arrays

LEMMA MongoUpdateType ==
    ASSUME NEW v \in Votes, NEW lists \in Votes, NEW op \in VoteOps
    PROVE  MongoUpdate(v, op, lists) \in Votes
BY DEF MongoUpdate, Votes, Arrays

LEMMA PostgresRecreateType ==
    ASSUME NEW v \in Votes, NEW lists \in Votes, NEW op \in VoteOps
    PROVE  PostgresRecreate(v, op, lists) \in Votes
BY DEF PostgresRecreate, Votes, Arrays

LEMMA NoVotesType == NoVotes \in Votes
BY DEF NoVotes, Votes, Arrays

-----------------------------------------------------------------------------
(***************************************************************************)
(* Typing.  A request past idle has a user and a lawful operation; the     *)
(* arrays it carries are arrays.                                           *)
(***************************************************************************)
LEMMA IdleType == Idle \in Requests
BY NoVotesType DEF Idle, Requests, Pcs

LEMMA TypingInit == Init => TypeOK
<1> SUFFICES ASSUME Init PROVE TypeOK
  OBVIOUS
<1>1. req \in [Workers -> Requests]
  BY IdleType DEF Init
<1>2. votes \in Votes /\ indexed \in Votes \union {NoDoc}
  BY NoVotesType DEF Init
<1>3. QED
  BY <1>1, <1>2 DEF Init, TypeOK

LEMMA TypingNext == TypeOK /\ [Next]_vars => TypeOK'
<1> SUFFICES ASSUME TypeOK, [Next]_vars PROVE TypeOK'
  OBVIOUS
<1> USE DEF TypeOK
<1>1. ASSUME NEW w \in Workers, NEW u \in Users, NEW op \in VoteOps, StartVote(w, op, u)
      PROVE  TypeOK'
  <2>1. Edited(op, votes, u) \in Votes
    BY EditedType
  <2>2. [op |-> op, user |-> u, pc |-> "write", lists |-> Edited(op, votes, u)] \in Requests
    BY <2>1 DEF Requests, Pcs
  <2>3. asked' \subseteq Users \X Lists
    BY <1>1, TargetLists DEF StartVote
  <2>4. QED
    BY <1>1, <2>2, <2>3 DEF StartVote, Begin
<1>2. ASSUME NEW w \in Workers, NEW u \in Users, StartDelete(w, u)
      PROVE  TypeOK'
  <2>1. [op |-> "delete", user |-> u, pc |-> "write", lists |-> NoVotes] \in Requests
    BY NoVotesType DEF Requests, Pcs
  <2>2. QED
    BY <1>2, <2>1 DEF StartDelete, Begin
<1>3. ASSUME NEW w \in Workers, NEW pc \in Pcs, Goto(w, pc)
      PROVE  req' \in [Workers -> Requests]
  BY <1>3 DEF Goto, Requests
<1>4. ASSUME NEW w \in Workers, Finish(w)
      PROVE  req' \in [Workers -> Requests]
  BY <1>4, IdleType DEF Finish
<1>5. ASSUME NEW w \in Workers, Step(w)
      PROVE  TypeOK'
  <2>0. /\ req[w] \in Requests
        /\ req[w].lists \in Votes
    BY DEF Requests
  <2>1. CASE MongoWrite(w)
    <3>1. req' \in [Workers -> Requests]
      BY <2>1, <1>3, <1>4 DEF MongoWrite, Pcs
    <3>2. votes' \in Votes
      BY <2>1, <2>0, MongoUpdateType DEF MongoWrite
    <3>3. QED
      BY <2>1, <3>1, <3>2 DEF MongoWrite, Keep
  <2>2. CASE PostgresWipe(w)
    BY <2>2, <1>3, NoVotesType DEF PostgresWipe, Keep, Pcs
  <2>3. CASE PostgresCreate(w)
    <3>1. req[w].op \in VoteOps \union {"delete", "none"}
      BY DEF Requests
    <3>2. votes' \in Votes
      BY <2>3, <2>0 DEF PostgresCreate, PostgresRecreate, Votes, Arrays
    <3>3. QED
      BY <2>3, <3>2, <1>3 DEF PostgresCreate, Keep, Pcs
  <2>4. CASE DeleteRow(w)
    <3>1. req' \in [Workers -> Requests]
      BY <2>4, <1>3, <1>4 DEF DeleteRow, Pcs
    <3>2. QED
      BY <2>4, <3>1, NoVotesType DEF DeleteRow, Keep
  <2>5. CASE Reread(w)
    <3>1. req' \in [Workers -> Requests]
      BY <2>5, <1>4 DEF Reread, Requests, Pcs
    <3>2. QED
      BY <2>5, <3>1 DEF Reread, Keep
  <2>6. CASE Sync(w)
    <3>1. indexed' \in Votes \union {NoDoc}
      BY <2>6, <2>0 DEF Sync
    <3>2. QED
      BY <2>6, <3>1, <1>4 DEF Sync, Keep
  <2>7. CASE Fail(w)
    BY <2>7, <1>4 DEF Fail, Keep
  <2>8. QED
    BY <1>5, <2>1, <2>2, <2>3, <2>4, <2>5, <2>6, <2>7 DEF Step
<1>6. CASE UNCHANGED vars
  BY <1>6 DEF vars
<1>7. QED
  BY <1>1, <1>2, <1>5, <1>6 DEF Next

(***************************************************************************)
(* Every state the system reaches is well typed.                           *)
(***************************************************************************)
THEOREM Typing == Spec => []TypeOK
BY TypingInit, TypingNext, PTL DEF Spec

-----------------------------------------------------------------------------
(***************************************************************************)
(* The first inductive invariant holds under every interleaving.  A write  *)
(* copies entries of the arrays a request carries, so what is claimed of   *)
(* the votes must be claimed of those arrays too.                          *)
(***************************************************************************)
CarriedCounts == \A w \in Workers : \A l \in Lists, u \in Users : req[w].lists[l][u] <= 1
CarriedAsked ==
    \A w \in Workers : \A l \in Lists, u \in Users :
        Holds(req[w].lists[l], u) => <<u, l>> \in asked
ActiveTyped ==
    \A w \in Workers :
        /\ req[w].op \in VoteOps => req[w].user \in Users
        /\ req[w].pc \in {"recreate", "reread"} => req[w].op \in VoteOps
        /\ req[w].pc = "recreate" => backend = "postgres"
        /\ Active(w) => req[w].op # "none"
PostgresOneStance == backend = "postgres" => \A u \in Users : OneStance(u)
RemovalCovered ==
    ~stored /\ "delete" \notin missed => indexed = NoDoc \/ \E w \in Workers : Removing(w)

RacingInv ==
    /\ TypeOK
    /\ ActiveTyped
    /\ NoDuplicateVotes
    /\ CarriedCounts
    /\ VotesWereAsked
    /\ CarriedAsked
    /\ PostgresOneStance
    /\ RemovalCovered

\* An accepted edit adds one entry, of the requester in the target list.
LEMMA EditedEntries ==
    ASSUME NEW v \in Votes, NEW u \in Users, NEW op \in VoteOps, ~Refused(op, v, u),
           NEW l \in Lists, NEW x \in Users
    PROVE  \/ Edited(op, v, u)[l][x] \in {v[l][x], 0}
           \/ Edited(op, v, u)[l][x] = 1 /\ x = u /\ l = Target(op) /\ op \in {"like", "dislike"}
<1>1. /\ v[l] \in [Users -> Nat]
      /\ v[l][x] \in Nat
  BY DEF Votes, Arrays
<1>2. CASE op \in {"like", "dislike"} /\ l = Target(op)
  <2>1. Edited(op, v, u)[l] = Cast(v[l], u)
    BY <1>2, TargetLists DEF Edited, Votes
  <2>2. CASE x = u
    <3>1. ~(v[l][u] > 0)
      BY <1>2 DEF Refused, Holds
    <3>2. v[l][u] = 0
      BY <1>1, <3>1, <2>2
    <3>3. Cast(v[l], u)[u] = 1
      BY <1>1, <3>2 DEF Cast
    <3>4. QED
      BY <1>2, <2>1, <2>2, <3>3
  <2>3. CASE x # u
    <3>1. Cast(v[l], u)[x] = v[l][x]
      BY <1>1, <2>3 DEF Cast
    <3>2. QED
      BY <2>1, <3>1
  <2>4. QED
    BY <2>2, <2>3
<1>3. CASE ~(op \in {"like", "dislike"} /\ l = Target(op))
  <2>1. Edited(op, v, u)[l] \in {v[l], Uncast(v[l], u)}
    BY <1>3, TargetLists DEF Edited, Votes
  <2>2. Uncast(v[l], u)[x] \in {v[l][x], 0}
    BY <1>1 DEF Uncast
  <2>3. QED
    BY <2>1, <2>2
<1>4. QED
  BY <1>2, <1>3

\* The two updates store nothing that was neither stored nor carried.
LEMMA MongoEntries ==
    ASSUME NEW v \in Votes, NEW lists \in Votes, NEW op \in VoteOps,
           NEW l \in Lists, NEW x \in Users
    PROVE  MongoUpdate(v, op, lists)[l][x] \in {v[l][x], lists[l][x]}
BY DEF MongoUpdate

LEMMA PostgresEntries ==
    ASSUME NEW v \in Votes, NEW lists \in Votes, NEW op \in VoteOps,
           NEW l \in Lists, NEW x \in Users
    PROVE  \/ PostgresRecreate(v, op, lists)[l][x] = v[l][x]
           \/ /\ PostgresRecreate(v, op, lists)[l][x] = 1
              /\ ~HasRow(v, x)
              /\ Inserts(op, lists, l, x)
              /\ l = "dislikes" => ~Inserts(op, lists, "likes", x)
BY DEF PostgresRecreate

\* skipDuplicates never gives a user a second row.
LEMMA PostgresExclusive ==
    ASSUME NEW v \in Votes, NEW lists \in Votes, NEW op \in VoteOps, NEW x \in Users,
           \A l \in Lists : Holds(v[l], x) => ~Holds(v[Other(l)], x),
           NEW l \in Lists, Holds(PostgresRecreate(v, op, lists)[l], x)
    PROVE  ~Holds(PostgresRecreate(v, op, lists)[Other(l)], x)
<1> DEFINE r == PostgresRecreate(v, op, lists)
<1>0. Other(l) \in Lists /\ Other(l) # l /\ Other(Other(l)) = l
  BY DEF Other, Lists
<1>1. CASE HasRow(v, x)
  <2>1. \A m \in Lists : r[m][x] = v[m][x]
    BY <1>1, PostgresEntries
  <2>2. QED
    BY <1>0, <2>1 DEF Holds
<1>2. CASE ~HasRow(v, x)
  <2>1. \A m \in Lists : v[m][x] \in Nat /\ ~(v[m][x] > 0)
    BY <1>2 DEF HasRow, Holds, Votes, Arrays
  <2>2. \A m \in Lists : v[m][x] = 0
    BY <2>1
  <2>3. \A m \in Lists : r[m][x] > 0 =>
            Inserts(op, lists, m, x) /\ (m = "dislikes" => ~Inserts(op, lists, "likes", x))
    BY <2>2, PostgresEntries
  <2>4. QED
    BY <1>0, <2>3 DEF Holds, Lists
<1>3. QED
  BY <1>1, <1>2
LEMMA RacingInit == Init => RacingInv
<1> SUFFICES ASSUME Init PROVE RacingInv
  OBVIOUS
<1>1. TypeOK
  BY TypingInit
<1>2. \A l \in Lists, u \in Users : NoVotes[l][u] = 0
  BY DEF NoVotes
<1>3. \A w \in Workers : req[w] = Idle
  BY DEF Init
<1>4. NoDuplicateVotes /\ VotesWereAsked /\ PostgresOneStance
  BY <1>2 DEF Init, NoDuplicateVotes, VotesWereAsked, PostgresOneStance, OneStance, Holds
<1>5. CarriedCounts /\ CarriedAsked /\ ActiveTyped
  BY <1>2, <1>3 DEF CarriedCounts, CarriedAsked, ActiveTyped, Active, Idle, Holds, VoteOps
<1>6. RemovalCovered
  BY DEF Init, RemovalCovered
<1>7. QED
  BY <1>1, <1>4, <1>5, <1>6 DEF RacingInv

LEMMA RacingNext == RacingInv /\ [Next]_vars => RacingInv'
<1> SUFFICES ASSUME RacingInv, [Next]_vars PROVE RacingInv'
  OBVIOUS
<1>0. TypeOK /\ TypeOK'
  BY TypingNext DEF RacingInv
<1>a. \A l \in Lists, u \in Users : NoVotes[l][u] = 0
  BY DEF NoVotes
<1>b. \A w \in Workers : req[w].lists \in Votes
  BY <1>0 DEF TypeOK, Requests
<1> USE DEF RacingInv
<1>1. ASSUME NEW w \in Workers, NEW u \in Users, NEW op \in VoteOps, StartVote(w, op, u)
      PROVE  RacingInv'
  <2> DEFINE e == Edited(op, votes, u)
  <2>0. votes \in Votes /\ ~Refused(op, votes, u)
    BY <1>0, <1>1 DEF TypeOK, StartVote
  <2>1. /\ req' = [req EXCEPT ![w] = [op |-> op, user |-> u, pc |-> "write", lists |-> e]]
        /\ UNCHANGED <<backend, stored, votes, indexed, missed>>
        /\ asked \subseteq asked'
        /\ op \in {"like", "dislike"} => <<u, Target(op)>> \in asked'
    BY <1>1 DEF StartVote, Begin
  <2>2. \A l \in Lists, x \in Users : e[l][x] <= 1 /\ (Holds(e[l], x) => <<x, l>> \in asked')
    <3> SUFFICES ASSUME NEW l \in Lists, NEW x \in Users
                 PROVE  e[l][x] <= 1 /\ (Holds(e[l], x) => <<x, l>> \in asked')
      OBVIOUS
    <3>1. votes[l][x] <= 1 /\ (votes[l][x] > 0 => <<x, l>> \in asked)
      BY DEF NoDuplicateVotes, VotesWereAsked, Holds
    <3>2. \/ e[l][x] \in {votes[l][x], 0}
          \/ e[l][x] = 1 /\ x = u /\ l = Target(op) /\ op \in {"like", "dislike"}
      BY <2>0, EditedEntries
    <3>3. QED
      BY <2>1, <3>1, <3>2 DEF Holds
  <2>3. \A x \in Workers : req'[x] = IF x = w
            THEN [op |-> op, user |-> u, pc |-> "write", lists |-> e] ELSE req[x]
    BY <1>0, <2>1 DEF TypeOK
  <2>4. CarriedCounts' /\ CarriedAsked'
    <3>1. req'[w].lists = e /\ \A x \in Workers \ {w} : req'[x] = req[x]
      BY <2>3
    <3>2. CarriedCounts'
      BY <2>2, <3>1 DEF CarriedCounts
    <3>3. ASSUME NEW x \in Workers, NEW l \in Lists, NEW y \in Users, Holds(req'[x].lists[l], y)
          PROVE  <<y, l>> \in asked'
      <4>1. CASE x = w
        BY <4>1, <2>2, <3>1, <3>3
      <4>2. CASE x # w
        BY <4>2, <2>1, <3>1, <3>3 DEF CarriedAsked
      <4>3. QED
        BY <4>1, <4>2
    <3>4. QED
      BY <3>2, <3>3 DEF CarriedAsked, Holds
  <2>5. ActiveTyped'
    BY <2>1, <2>3 DEF ActiveTyped, Active, VoteOps
  <2>6. NoDuplicateVotes' /\ VotesWereAsked' /\ PostgresOneStance'
    BY <2>1 DEF NoDuplicateVotes, VotesWereAsked, PostgresOneStance, OneStance
  <2>7. RemovalCovered'
    <3>1. ~Removing(w)
      BY <1>1 DEF StartVote, Begin, Active, Removing
    <3>2. \A x \in Workers : Removing(x) => Removing(x)'
      BY <2>3, <3>1 DEF Removing
    <3>3. QED
      BY <2>1, <3>2 DEF RemovalCovered
  <2>8. QED
    BY <1>0, <2>4, <2>5, <2>6, <2>7
<1>2. ASSUME NEW w \in Workers, NEW u \in Users, StartDelete(w, u)
      PROVE  RacingInv'
  <2>1. \A x \in Workers : req'[x] = IF x = w
            THEN [op |-> "delete", user |-> u, pc |-> "write", lists |-> NoVotes] ELSE req[x]
    BY <1>0, <1>2 DEF StartDelete, Begin, TypeOK
  <2>2. UNCHANGED <<backend, stored, votes, indexed, missed, asked>>
    BY <1>2 DEF StartDelete, Begin
  <2>3. CarriedCounts' /\ CarriedAsked'
    BY <1>a, <2>1, <2>2 DEF CarriedCounts, CarriedAsked, Holds
  <2>4. ActiveTyped'
    BY <2>1, <2>2 DEF ActiveTyped, Active, VoteOps
  <2>5. NoDuplicateVotes' /\ VotesWereAsked' /\ PostgresOneStance'
    BY <2>2 DEF NoDuplicateVotes, VotesWereAsked, PostgresOneStance, OneStance
  <2>6. ~Removing(w)
    BY <1>2 DEF StartDelete, Begin, Active, Removing
  <2>7. \A x \in Workers : Removing(x) => Removing(x)'
    BY <2>1, <2>6 DEF Removing
  <2>8. RemovalCovered'
    BY <2>2, <2>7 DEF RemovalCovered
  <2>9. QED
    BY <1>0, <2>3, <2>4, <2>5, <2>8
<1>3. ASSUME NEW w \in Workers, Step(w)
      PROVE  RacingInv'
  <2>0. /\ req[w] \in Requests
        /\ votes \in Votes
        /\ req[w].lists \in Votes
    BY <1>0, <1>b DEF TypeOK
  \* The slots of the others, and what a step may carry over in its own.
  <2>a. ASSUME NEW pc \in Pcs, Goto(w, pc)
        PROVE  /\ \A x \in Workers \ {w} : req'[x] = req[x]
               /\ req'[w].op = req[w].op /\ req'[w].user = req[w].user
               /\ req'[w].lists = req[w].lists /\ req'[w].pc = pc
    BY <1>0, <2>0, <2>a DEF Goto, TypeOK, Requests
  <2>b. ASSUME Finish(w)
        PROVE  /\ \A x \in Workers \ {w} : req'[x] = req[x]
               /\ req'[w] = Idle
    BY <1>0, <2>b DEF Finish, TypeOK
  <2>c. Idle.lists = NoVotes /\ Idle.op = "none" /\ Idle.pc = "idle"
    BY DEF Idle
  <2>d. ASSUME Finish(w), asked' = asked, backend' = backend
        PROVE  CarriedCounts' /\ CarriedAsked' /\ ActiveTyped'
    <3>1. \A l \in Lists, u \in Users : req'[w].lists[l][u] = 0
      BY <2>d, <2>b, <2>c, <1>a
    <3>2. CarriedCounts' /\ CarriedAsked'
      BY <3>1, <2>d, <2>b DEF CarriedCounts, CarriedAsked, Holds
    <3>3. ActiveTyped'
      BY <2>b, <2>c, <2>d DEF ActiveTyped, Active, VoteOps
    <3>4. QED
      BY <3>2, <3>3
  <2>e. ASSUME NEW pc \in Pcs, Goto(w, pc), asked' = asked
        PROVE  CarriedCounts' /\ CarriedAsked'
    BY <2>e, <2>a DEF CarriedCounts, CarriedAsked
  <2>1. CASE MongoWrite(w)
    <3>0. req[w].op \in VoteOps /\ req[w].pc = "write" /\ backend = "mongo"
      BY <2>1 DEF MongoWrite
    <3>1. UNCHANGED <<backend, stored, indexed, missed, asked>>
      BY <2>1 DEF MongoWrite, Keep
    <3>2. CASE ~stored
      <4>1. Finish(w) /\ votes' = votes
        BY <2>1, <3>2 DEF MongoWrite
      <4>2. \A x \in Workers : Removing(x) => Removing(x)'
        BY <4>1, <2>b, <3>0 DEF Removing
      <4>3. RemovalCovered'
        BY <4>2, <3>1 DEF RemovalCovered
      <4>4. NoDuplicateVotes' /\ VotesWereAsked' /\ PostgresOneStance'
        BY <4>1, <3>1 DEF NoDuplicateVotes, VotesWereAsked, PostgresOneStance, OneStance
      <4>5. QED
        BY <1>0, <2>d, <3>1, <4>1, <4>3, <4>4
    <3>3. CASE stored
      <4>1. Goto(w, "reread") /\ votes' = MongoUpdate(votes, req[w].op, req[w].lists)
        BY <2>1, <3>3 DEF MongoWrite
      <4>2. \A l \in Lists, u \in Users : votes'[l][u] \in {votes[l][u], req[w].lists[l][u]}
        BY <4>1, <3>0, <2>0, MongoEntries
      <4>3. NoDuplicateVotes' /\ VotesWereAsked'
        BY <4>2, <3>1 DEF NoDuplicateVotes, VotesWereAsked, CarriedCounts, CarriedAsked, Holds
      <4>4. ActiveTyped'
        BY <4>1, <3>0, <3>1, <2>a DEF ActiveTyped, Active, VoteOps, Pcs
      <4>5. PostgresOneStance' /\ RemovalCovered'
        BY <3>0, <3>1, <3>3 DEF PostgresOneStance, RemovalCovered
      <4>6. CarriedCounts' /\ CarriedAsked'
        BY <4>1, <3>1, <2>e DEF Pcs
      <4>7. QED
        BY <1>0, <4>3, <4>4, <4>5, <4>6
    <3>4. QED
      BY <3>2, <3>3
  <2>2. CASE PostgresWipe(w)
    <3>1. /\ UNCHANGED <<backend, stored, indexed, missed, asked>>
          /\ votes' = NoVotes /\ Goto(w, "recreate")
          /\ req[w].op \in VoteOps /\ backend = "postgres"
      BY <2>2 DEF PostgresWipe, Keep
    <3>2. NoDuplicateVotes' /\ VotesWereAsked' /\ PostgresOneStance'
      BY <3>1, <1>a DEF NoDuplicateVotes, VotesWereAsked, PostgresOneStance, OneStance, Holds
    <3>3. ActiveTyped'
      BY <3>1, <2>a DEF ActiveTyped, Active, VoteOps, Pcs
    <3>4. \A x \in Workers : Removing(x) => Removing(x)'
      BY <3>1, <2>a DEF Removing, VoteOps, Pcs
    <3>5. RemovalCovered'
      BY <3>1, <3>4 DEF RemovalCovered
    <3>6. QED
      BY <1>0, <2>e, <3>1, <3>2, <3>3, <3>5 DEF Pcs
  <2>3. CASE PostgresCreate(w)
    <3>1. /\ UNCHANGED <<backend, stored, indexed, missed, asked>>
          /\ votes' = PostgresRecreate(votes, req[w].op, req[w].lists) /\ Goto(w, "reread")
          /\ req[w].op \in VoteOps /\ backend = "postgres"
      BY <2>3 DEF PostgresCreate, Keep, ActiveTyped
    <3>2. \A l \in Lists, u \in Users :
            \/ votes'[l][u] = votes[l][u]
            \/ votes'[l][u] = 1 /\ Holds(req[w].lists[l], u)
      BY <3>1, <2>0, PostgresEntries DEF Inserts
    <3>3. NoDuplicateVotes' /\ VotesWereAsked'
      BY <3>1, <3>2 DEF NoDuplicateVotes, VotesWereAsked, CarriedAsked, Holds
    <3>4. PostgresOneStance'
      BY <3>1, <2>0, PostgresExclusive DEF PostgresOneStance, OneStance
    <3>5. ActiveTyped'
      BY <3>1, <2>a DEF ActiveTyped, Active, VoteOps, Pcs
    <3>6. \A x \in Workers : Removing(x) => Removing(x)'
      BY <3>1, <2>a DEF Removing, VoteOps, Pcs
    <3>7. RemovalCovered'
      BY <3>1, <3>6 DEF RemovalCovered
    <3>8. QED
      BY <1>0, <2>e, <3>1, <3>3, <3>4, <3>5, <3>7 DEF Pcs
  <2>4. CASE DeleteRow(w)
    <3>1. /\ UNCHANGED <<backend, indexed, missed, asked>>
          /\ ~stored' /\ votes' \in {votes, NoVotes}
          /\ req[w].op = "delete" /\ req[w].pc = "write"
      BY <2>4 DEF DeleteRow, Keep
    <3>2. NoDuplicateVotes' /\ VotesWereAsked' /\ PostgresOneStance'
      BY <3>1, <1>a DEF NoDuplicateVotes, VotesWereAsked, PostgresOneStance, OneStance, Holds
    <3>3. CASE stored
      <4>1. Goto(w, "sync")
        BY <2>4, <3>3 DEF DeleteRow
      <4>2. Removing(w)' /\ ActiveTyped'
        BY <4>1, <3>1, <2>a DEF Removing, ActiveTyped, Active, Pcs
      <4>3. RemovalCovered'
        BY <4>2 DEF RemovalCovered
      <4>4. QED
        BY <1>0, <2>e, <3>1, <3>2, <4>1, <4>2, <4>3 DEF Pcs
    <3>4. CASE ~stored
      <4>1. Finish(w)
        BY <2>4, <3>4 DEF DeleteRow
      <4>2. \A x \in Workers : Removing(x) => Removing(x)'
        BY <4>1, <3>1, <2>b DEF Removing
      <4>3. RemovalCovered'
        BY <4>2, <3>1, <3>4 DEF RemovalCovered
      <4>4. QED
        BY <1>0, <2>d, <3>1, <3>2, <4>1, <4>3
    <3>5. QED
      BY <3>3, <3>4
  <2>5. CASE Reread(w)
    <3>1. /\ UNCHANGED <<backend, stored, votes, indexed, missed, asked>>
          /\ req[w].pc = "reread" /\ req[w].op \in VoteOps
      BY <2>5 DEF Reread, Keep, ActiveTyped
    <3>2. NoDuplicateVotes' /\ VotesWereAsked' /\ PostgresOneStance'
      BY <3>1 DEF NoDuplicateVotes, VotesWereAsked, PostgresOneStance, OneStance
    <3>3. CASE stored
      <4>1. /\ \A x \in Workers \ {w} : req'[x] = req[x]
            /\ req'[w].op = req[w].op /\ req'[w].user = req[w].user
            /\ req'[w].lists = votes /\ req'[w].pc = "sync"
        BY <2>5, <3>3, <1>0, <2>0 DEF Reread, TypeOK, Requests
      <4>2. CarriedCounts' /\ CarriedAsked'
        BY <4>1, <3>1 DEF CarriedCounts, CarriedAsked, NoDuplicateVotes, VotesWereAsked
      <4>3. ActiveTyped'
        BY <4>1, <3>1 DEF ActiveTyped, Active
      <4>4. RemovalCovered'
        BY <3>1, <3>3 DEF RemovalCovered
      <4>5. QED
        BY <1>0, <3>2, <4>2, <4>3, <4>4
    <3>4. CASE ~stored
      <4>1. Finish(w)
        BY <2>5, <3>4 DEF Reread
      <4>2. \A x \in Workers : Removing(x) => Removing(x)'
        BY <4>1, <3>1, <2>b DEF Removing
      <4>3. RemovalCovered'
        BY <4>2, <3>1 DEF RemovalCovered
      <4>4. QED
        BY <1>0, <2>d, <3>1, <3>2, <4>1, <4>3
    <3>5. QED
      BY <3>3, <3>4
  <2>6. CASE Sync(w)
    <3>1. /\ UNCHANGED <<backend, stored, votes, missed, asked>>
          /\ Finish(w)
          /\ req[w].op = "delete" \/ indexed = NoDoc => indexed' = NoDoc
      BY <2>6 DEF Sync, Keep
    <3>2. NoDuplicateVotes' /\ VotesWereAsked' /\ PostgresOneStance'
      BY <3>1 DEF NoDuplicateVotes, VotesWereAsked, PostgresOneStance, OneStance
    <3>3. RemovalCovered'
      <4>1. CASE indexed' = NoDoc
        BY <4>1 DEF RemovalCovered
      <4>2. CASE indexed' # NoDoc
        <5>1. ~Removing(w)
          BY <4>2, <3>1 DEF Removing
        <5>2. \A x \in Workers : Removing(x) => Removing(x)'
          BY <5>1, <3>1, <2>b DEF Removing
        <5>3. QED
          BY <5>2, <4>2, <3>1 DEF RemovalCovered
      <4>3. QED
        BY <4>1, <4>2
    <3>4. QED
      BY <1>0, <2>d, <3>1, <3>2, <3>3
  <2>7. CASE Fail(w)
    <3>1. /\ UNCHANGED <<backend, stored, votes, indexed, asked>>
          /\ Finish(w)
          /\ missed \subseteq missed'
          /\ Removing(w) => "delete" \in missed'
      BY <2>7 DEF Fail, Keep, Removing
    <3>2. NoDuplicateVotes' /\ VotesWereAsked' /\ PostgresOneStance'
      BY <3>1 DEF NoDuplicateVotes, VotesWereAsked, PostgresOneStance, OneStance
    <3>3. RemovalCovered'
      <4>1. CASE Removing(w)
        BY <4>1, <3>1 DEF RemovalCovered
      <4>2. CASE ~Removing(w)
        <5>1. \A x \in Workers : Removing(x) => Removing(x)'
          BY <4>2, <3>1, <2>b DEF Removing
        <5>2. QED
          BY <5>1, <3>1 DEF RemovalCovered
      <4>3. QED
        BY <4>1, <4>2
    <3>4. QED
      BY <1>0, <2>d, <3>1, <3>2, <3>3
  <2>8. QED
    BY <1>3, <2>1, <2>2, <2>3, <2>4, <2>5, <2>6, <2>7 DEF Step
<1>4. CASE UNCHANGED vars
  BY <1>0, <1>4 DEF vars, ActiveTyped, Active, NoDuplicateVotes, CarriedCounts,
     VotesWereAsked, CarriedAsked, PostgresOneStance, OneStance, RemovalCovered, Removing
<1>5. QED
  BY <1>1, <1>2, <1>3, <1>4 DEF Next

(***************************************************************************)
(* However requests interleave or fail, no array counts a user twice.      *)
(***************************************************************************)
THEOREM VotesNeverDuplicated == Spec => []NoDuplicateVotes
BY RacingInit, RacingNext, PTL DEF Spec, RacingInv

(***************************************************************************)
(* However stale the arrays written back, a counted vote was asked for.    *)
(***************************************************************************)
THEOREM VotesNeverInvented == Spec => []VotesWereAsked
BY RacingInit, RacingNext, PTL DEF Spec, RacingInv

(***************************************************************************)
(* A deletion whose index removal was not lost leaves nothing to find.     *)
(***************************************************************************)
THEOREM DeletionReachesIndex == Spec => []DeletedStaysUnsearchable
<1>1. RacingInv => DeletedStaysUnsearchable
  BY DEF RacingInv, RemovalCovered, DeletedStaysUnsearchable
<1>2. QED
  BY <1>1, RacingInit, RacingNext, PTL DEF Spec

-----------------------------------------------------------------------------
(***************************************************************************)
(* The edits, for a user who starts out in at most one of the arrays.      *)
(***************************************************************************)
OneIn(v, u) == ~(Holds(v["likes"], u) /\ Holds(v["dislikes"], u))

LEMMA OneStanceIsOneIn ==
    ASSUME NEW u \in Users
    PROVE  OneStance(u) <=> OneIn(votes, u)
BY DEF OneStance, OneIn, Other, Lists

\* Where an edit leaves each of the two arrays.
LEMMA EditedLists ==
    ASSUME NEW v \in Votes, NEW u \in Users
    PROVE  /\ Edited("like", v, u)["likes"] = Cast(v["likes"], u)
           /\ Edited("like", v, u)["dislikes"] = Uncast(v["dislikes"], u)
           /\ Edited("dislike", v, u)["dislikes"] = Cast(v["dislikes"], u)
           /\ Edited("dislike", v, u)["likes"] = Uncast(v["likes"], u)
           /\ Edited("unlike", v, u)["likes"] = Uncast(v["likes"], u)
           /\ Edited("unlike", v, u)["dislikes"] = v["dislikes"]
           /\ Edited("undoDislike", v, u)["dislikes"] = Uncast(v["dislikes"], u)
           /\ Edited("undoDislike", v, u)["likes"] = v["likes"]
BY DEF Edited, Target, Other, Votes, Lists

LEMMA ArrayEdits ==
    ASSUME NEW a \in Arrays, NEW u \in Users, NEW x \in Users
    PROVE  /\ Holds(Cast(a, u), u)
           /\ ~Holds(Uncast(a, u), u)
           /\ x # u => /\ Holds(Cast(a, u), x) <=> Holds(a, x)
                       /\ Holds(Uncast(a, u), x) <=> Holds(a, x)
BY DEF Cast, Uncast, Holds, Arrays

\* An accepted edit takes its user where the endpoint says.
LEMMA EditedReachesGoal ==
    ASSUME NEW v \in Votes, NEW u \in Users, NEW op \in VoteOps,
           OneIn(v, u), ~Refused(op, v, u)
    PROVE  StanceOf(Edited(op, v, u), u) = Goal(op)
<1>0. v["likes"] \in Arrays /\ v["dislikes"] \in Arrays
  BY DEF Votes, Lists
<1>1. CASE op = "like"
  BY <1>0, <1>1, EditedLists, ArrayEdits DEF StanceOf, Goal
<1>2. CASE op = "dislike"
  BY <1>0, <1>2, EditedLists, ArrayEdits DEF StanceOf, Goal
<1>3. CASE op = "unlike"
  BY <1>0, <1>3, EditedLists, ArrayEdits DEF StanceOf, Goal, OneIn, Refused, Target
<1>4. CASE op = "undoDislike"
  BY <1>0, <1>4, EditedLists, ArrayEdits DEF StanceOf, Goal, OneIn, Refused, Target
<1>5. QED
  BY <1>1, <1>2, <1>3, <1>4 DEF VoteOps

\* It puts nobody in both arrays.
LEMMA EditedKeepsOneIn ==
    ASSUME NEW v \in Votes, NEW u \in Users, NEW op \in VoteOps, NEW x \in Users,
           OneIn(v, x)
    PROVE  OneIn(Edited(op, v, u), x)
<1>0. v["likes"] \in Arrays /\ v["dislikes"] \in Arrays
  BY DEF Votes, Lists
<1>1. CASE x = u
  BY <1>0, <1>1, EditedLists, ArrayEdits DEF OneIn, VoteOps
<1>2. CASE x # u
  BY <1>0, <1>2, EditedLists, ArrayEdits DEF OneIn, VoteOps
<1>3. QED
  BY <1>1, <1>2

\* On unchanged votes, replacing the arrays passed stores the whole edit.
LEMMA MongoStoresEdit ==
    ASSUME NEW v \in Votes, NEW u \in Users, NEW op \in VoteOps
    PROVE  MongoUpdate(v, op, Edited(op, v, u)) = Edited(op, v, u)
<1> DEFINE e == Edited(op, v, u)
<1>1. e \in Votes
  BY EditedType
<1>2. \A l \in Lists : l \notin Passed(op) => e[l] = v[l]
  BY EditedLists DEF Passed, Target, Lists, VoteOps
<1>3. MongoUpdate(v, op, e) = [l \in Lists |-> e[l]]
  BY <1>2 DEF MongoUpdate
<1>4. QED
  BY <1>1, <1>3 DEF Votes

\* Rows created from nothing give the requester the stance the arrays carry,
\* whatever an undo loses of the others.
LEMMA RecreateReachesGoal ==
    ASSUME NEW lists \in Votes, NEW u \in Users, NEW op \in VoteOps,
           StanceOf(lists, u) = Goal(op)
    PROVE  StanceOf(PostgresRecreate(NoVotes, op, lists), u) = Goal(op)
<1> DEFINE r == PostgresRecreate(NoVotes, op, lists)
<1>1. ~HasRow(NoVotes, u) /\ \A l \in Lists : NoVotes[l][u] = 0
  BY DEF HasRow, NoVotes, Holds
<1>2. \A l \in Lists :
        Holds(r[l], u) <=> /\ Inserts(op, lists, l, u)
                           /\ l = "dislikes" => ~Inserts(op, lists, "likes", u)
  BY <1>1 DEF PostgresRecreate, Holds
<1>3. CASE op = "like"
  BY <1>2, <1>3 DEF StanceOf, Goal, Inserts, Passed, Lists
<1>4. CASE op = "dislike"
  BY <1>2, <1>4 DEF StanceOf, Goal, Inserts, Passed, Lists
<1>5. CASE op \in {"unlike", "undoDislike"}
  BY <1>2, <1>5 DEF StanceOf, Goal, Inserts, Lists
<1>6. QED
  BY <1>3, <1>4, <1>5 DEF VoteOps

-----------------------------------------------------------------------------
(***************************************************************************)
(* The second inductive invariant: what holds until requests overlap.      *)
(***************************************************************************)
Lone == \A w, x \in Workers : Active(w) /\ Active(x) => w = x
StoredWhileServed == \A w \in Workers : Active(w) /\ ~Removing(w) => stored
Exclusive == \A u \in Users : OneIn(votes, u)
ReadStillCurrent ==
    \A w \in Workers :
        req[w].op \in VoteOps /\ req[w].pc = "write"
            => /\ ~Refused(req[w].op, votes, req[w].user)
               /\ req[w].lists = Edited(req[w].op, votes, req[w].user)
WipedForGoal ==
    \A w \in Workers :
        req[w].pc = "recreate"
            => votes = NoVotes /\ StanceOf(req[w].lists, req[w].user) = Goal(req[w].op)
TookEffect ==
    \A w \in Workers :
        req[w].op \in VoteOps /\ req[w].pc \in {"reread", "sync"}
            => StanceOf(votes, req[w].user) = Goal(req[w].op)
SyncCarriesVotes ==
    \A w \in Workers : req[w].op \in VoteOps /\ req[w].pc = "sync" => req[w].lists = votes
FreshAtRest ==
    missed = {} /\ indexed # NoDoc /\ (\A w \in Workers : req[w].pc \in {"idle", "write"})
        => stored /\ indexed = votes

SerialInv ==
    ~overlapped =>
        /\ Lone
        /\ StoredWhileServed
        /\ Exclusive
        /\ ReadStillCurrent
        /\ WipedForGoal
        /\ TookEffect
        /\ SyncCarriesVotes
        /\ FreshAtRest

LEMMA SerialInit == Init => SerialInv
<1> SUFFICES ASSUME Init PROVE SerialInv
  OBVIOUS
<1>1. \A w \in Workers : req[w].pc = "idle"
  BY DEF Init, Idle
<1>2. Exclusive
  BY DEF Init, Exclusive, OneIn, NoVotes, Holds, Lists
<1>3. FreshAtRest
  BY DEF Init, FreshAtRest
<1>4. QED
  BY <1>1, <1>2, <1>3 DEF SerialInv, Lone, StoredWhileServed, Active, ReadStillCurrent,
     WipedForGoal, TookEffect, SyncCarriesVotes

LEMMA SerialNext == RacingInv /\ SerialInv /\ [Next]_vars => SerialInv'
<1> SUFFICES ASSUME RacingInv, SerialInv, [Next]_vars, ~overlapped' PROVE SerialInv'
  BY DEF SerialInv
<1>0. TypeOK /\ ActiveTyped /\ PostgresOneStance
  BY DEF RacingInv
<1>a. votes \in Votes /\ \A w \in Workers : req[w] \in Requests /\ req[w].lists \in Votes
  BY <1>0 DEF TypeOK, Requests
\* A request that is alone after the step is the only one the invariant is about.
<1>b. ASSUME NEW w \in Workers, \A x \in Workers \ {w} : req'[x].pc = "idle",
             Exclusive',
             req'[w].pc # "idle" /\ ~(req'[w].op = "delete" /\ req'[w].pc = "sync") => stored',
             req'[w].op \in VoteOps /\ req'[w].pc = "write"
                => /\ ~Refused(req'[w].op, votes', req'[w].user)
                   /\ req'[w].lists = Edited(req'[w].op, votes', req'[w].user),
             req'[w].pc = "recreate"
                => /\ votes' = NoVotes
                   /\ StanceOf(req'[w].lists, req'[w].user) = Goal(req'[w].op),
             req'[w].op \in VoteOps /\ req'[w].pc \in {"reread", "sync"}
                => StanceOf(votes', req'[w].user) = Goal(req'[w].op),
             req'[w].op \in VoteOps /\ req'[w].pc = "sync" => req'[w].lists = votes',
             missed' = {} /\ indexed' # NoDoc /\ req'[w].pc \in {"idle", "write"}
                => stored' /\ indexed' = votes'
      PROVE  SerialInv'
  <2>1. Lone' /\ StoredWhileServed'
    BY <1>b DEF Lone, StoredWhileServed, Active, Removing
  <2>2. ReadStillCurrent'
    BY <1>b DEF ReadStillCurrent
  <2>3. WipedForGoal' /\ TookEffect' /\ SyncCarriesVotes'
    BY <1>b DEF WipedForGoal, TookEffect, SyncCarriesVotes
  <2>4. FreshAtRest'
    BY <1>b DEF FreshAtRest
  <2>5. QED
    BY <1>b, <2>1, <2>2, <2>3, <2>4 DEF SerialInv
<1>1. ASSUME NEW w \in Workers, NEW r \in Requests, Begin(w, r), r.pc = "write",
             r.op \in VoteOps => /\ ~Refused(r.op, votes, r.user)
                                 /\ r.lists = Edited(r.op, votes, r.user)
      PROVE  SerialInv'
  <2>1. /\ ~overlapped /\ \A x \in Workers : req[x].pc = "idle"
        /\ stored /\ UNCHANGED <<backend, stored, votes, indexed, missed>>
    BY <1>1 DEF Begin, Active
  <2>2. req'[w] = r /\ \A x \in Workers \ {w} : req'[x] = req[x]
    BY <1>0, <1>1 DEF Begin, TypeOK
  <2>3. Exclusive'
    BY <2>1 DEF SerialInv, Exclusive, OneIn
  <2>4. missed = {} /\ indexed # NoDoc => indexed = votes
    BY <2>1 DEF SerialInv, FreshAtRest
  <2>5. QED
    BY <1>1, <1>b, <2>1, <2>2, <2>3, <2>4
<1>2. ASSUME NEW w \in Workers, NEW u \in Users, NEW op \in VoteOps, StartVote(w, op, u)
      PROVE  SerialInv'
  <2> DEFINE r == [op |-> op, user |-> u, pc |-> "write", lists |-> Edited(op, votes, u)]
  <2>1. r \in Requests
    BY <1>a, EditedType DEF Requests, Pcs
  <2>2. QED
    BY <1>1, <1>2, <2>1 DEF StartVote
<1>3. ASSUME NEW w \in Workers, NEW u \in Users, StartDelete(w, u)
      PROVE  SerialInv'
  <2> DEFINE r == [op |-> "delete", user |-> u, pc |-> "write", lists |-> NoVotes]
  <2>1. r \in Requests /\ r.op \notin VoteOps
    BY NoVotesType DEF Requests, Pcs, VoteOps
  <2>2. QED
    BY <1>1, <1>3, <2>1 DEF StartDelete
<1>4. ASSUME NEW w \in Workers, Step(w)
      PROVE  SerialInv'
  <2>0. Active(w) /\ ~overlapped /\ UNCHANGED backend
    BY <1>4 DEF Step, MongoWrite, PostgresWipe, PostgresCreate, DeleteRow, Reread, Sync,
       Fail, Keep, Active
  <2>1. /\ Lone /\ StoredWhileServed /\ Exclusive /\ ReadStillCurrent /\ WipedForGoal
        /\ TookEffect /\ SyncCarriesVotes /\ FreshAtRest
    BY <2>0 DEF SerialInv
  <2>2. \A x \in Workers \ {w} : req[x].pc = "idle"
    BY <2>0, <2>1 DEF Lone, Active
  <2>3. req[w].op \in VoteOps => req[w].user \in Users
    BY <1>0 DEF ActiveTyped
  <2>a. ASSUME NEW pc \in Pcs, Goto(w, pc)
        PROVE  /\ \A x \in Workers \ {w} : req'[x].pc = "idle"
               /\ req'[w].op = req[w].op /\ req'[w].user = req[w].user
               /\ req'[w].lists = req[w].lists /\ req'[w].pc = pc
    BY <1>0, <1>a, <2>2, <2>a DEF Goto, TypeOK, Requests
  <2>b. ASSUME Finish(w)
        PROVE  /\ \A x \in Workers \ {w} : req'[x].pc = "idle"
               /\ req'[w].op = "none" /\ req'[w].pc = "idle"
    BY <1>0, <2>2, <2>b DEF Finish, TypeOK, Idle
  \* A request ends without touching the votes.
  <2>c. ASSUME Finish(w), UNCHANGED votes,
               missed' = {} /\ indexed' # NoDoc => stored' /\ indexed' = votes'
        PROVE  SerialInv'
    <3>1. Exclusive'
      BY <2>1, <2>c DEF Exclusive, OneIn
    <3>2. QED
      BY <1>b, <2>b, <2>c, <3>1 DEF VoteOps
  <2>4. CASE MongoWrite(w)
    <3> DEFINE op == req[w].op
               u == req[w].user
               e == Edited(op, votes, u)
    <3>1. op \in VoteOps /\ u \in Users /\ req[w].pc = "write"
      BY <2>3, <2>4 DEF MongoWrite
    <3>2. stored /\ UNCHANGED <<stored, indexed, missed>>
      BY <2>0, <2>1, <2>4, <3>1 DEF MongoWrite, StoredWhileServed, Removing
    <3>3. req[w].lists = e /\ ~Refused(op, votes, u)
      BY <2>1, <3>1 DEF ReadStillCurrent
    <3>4. Goto(w, "reread") /\ votes' = e
      BY <1>a, <2>4, <3>1, <3>2, <3>3, MongoStoresEdit DEF MongoWrite
    <3>5. Exclusive'
      BY <1>a, <2>1, <3>1, <3>4, EditedKeepsOneIn DEF Exclusive, OneIn
    <3>6. StanceOf(votes', u) = Goal(op)
      BY <1>a, <2>1, <3>1, <3>3, <3>4, EditedReachesGoal DEF Exclusive
    <3>7. QED
      BY <1>b, <2>a, <3>1, <3>2, <3>4, <3>5, <3>6 DEF Pcs
  <2>5. CASE PostgresWipe(w)
    <3>1. req[w].op \in VoteOps /\ req[w].user \in Users /\ req[w].pc = "write"
      BY <2>3, <2>5 DEF PostgresWipe
    <3>2. /\ votes' = NoVotes /\ Goto(w, "recreate")
          /\ stored /\ UNCHANGED <<stored, indexed, missed>>
      BY <2>0, <2>1, <2>5, <3>1 DEF PostgresWipe, StoredWhileServed, Removing
    <3>3. Exclusive'
      BY <3>2 DEF Exclusive, OneIn, NoVotes, Holds, Lists
    <3>4. StanceOf(req[w].lists, req[w].user) = Goal(req[w].op)
      BY <1>a, <2>1, <3>1, EditedReachesGoal DEF ReadStillCurrent, Exclusive
    <3>5. QED
      BY <1>b, <2>a, <3>1, <3>2, <3>3, <3>4 DEF Pcs
  <2>6. CASE PostgresCreate(w)
    <3>1. req[w].op \in VoteOps /\ req[w].user \in Users /\ req[w].pc = "recreate"
      BY <1>0, <2>3, <2>6 DEF PostgresCreate, ActiveTyped
    <3>2. /\ votes' = PostgresRecreate(NoVotes, req[w].op, req[w].lists)
          /\ Goto(w, "reread")
          /\ stored /\ UNCHANGED <<stored, indexed, missed>>
      BY <2>0, <2>1, <2>6, <3>1 DEF PostgresCreate, WipedForGoal, StoredWhileServed, Removing
    <3>3. StanceOf(votes', req[w].user) = Goal(req[w].op)
      BY <1>a, <2>1, <3>1, <3>2, RecreateReachesGoal DEF WipedForGoal
    <3>4. \A x \in Users : OneIn(votes', x)
      <4>1. backend = "postgres" /\ RacingInv'
        BY <1>0, <3>1, RacingNext DEF ActiveTyped
      <4>2. \A x \in Users : OneStance(x)'
        BY <2>0, <4>1 DEF RacingInv, PostgresOneStance
      <4>3. QED
        BY <4>2 DEF OneStance, OneIn, Other, Lists
    <3>5. QED
      BY <1>b, <2>a, <3>1, <3>2, <3>3, <3>4 DEF Pcs, Exclusive
  <2>7. CASE DeleteRow(w)
    <3>1. req[w].op = "delete" /\ req[w].pc = "write" /\ stored
      BY <2>0, <2>1, <2>7 DEF DeleteRow, StoredWhileServed, Removing
    <3>2. Goto(w, "sync") /\ votes' \in {votes, NoVotes}
      BY <2>7, <3>1 DEF DeleteRow
    <3>3. Exclusive'
      BY <2>1, <3>2 DEF Exclusive, OneIn, NoVotes, Holds, Lists
    <3>4. QED
      BY <1>b, <2>a, <3>1, <3>2, <3>3 DEF Pcs, VoteOps
  <2>8. CASE Reread(w)
    <3>1. req[w].op \in VoteOps /\ req[w].pc = "reread"
      BY <1>0, <2>8 DEF Reread, ActiveTyped
    <3>2. stored /\ UNCHANGED <<stored, votes, indexed, missed>>
      BY <2>0, <2>1, <2>8, <3>1 DEF Reread, StoredWhileServed, Removing
    <3>3. /\ \A x \in Workers \ {w} : req'[x].pc = "idle"
          /\ req'[w].op = req[w].op /\ req'[w].user = req[w].user
          /\ req'[w].lists = votes /\ req'[w].pc = "sync"
      BY <1>0, <1>a, <2>2, <2>8, <3>2 DEF Reread, TypeOK, Requests
    <3>4. Exclusive' /\ StanceOf(votes', req[w].user) = Goal(req[w].op)
      BY <2>1, <3>1, <3>2 DEF Exclusive, OneIn, TookEffect
    <3>5. QED
      BY <1>b, <3>1, <3>2, <3>3, <3>4
  <2>9. CASE Sync(w)
    <3>1. Finish(w) /\ UNCHANGED <<stored, votes, missed>> /\ req[w].pc = "sync"
      BY <2>9 DEF Sync
    <3>2. CASE indexed' = NoDoc
      BY <2>c, <3>1, <3>2
    <3>3. CASE indexed' # NoDoc
      <4>1. req[w].op # "delete" /\ indexed' = req[w].lists
        BY <2>9, <3>3 DEF Sync
      <4>2. req[w].op \in VoteOps /\ stored
        <5>1. req[w].op \in VoteOps \union {"delete", "none"}
          BY <1>a DEF Requests
        <5>2. QED
          BY <1>0, <2>0, <2>1, <4>1, <5>1 DEF StoredWhileServed, Removing, ActiveTyped
      <4>3. QED
        BY <2>1, <2>c, <3>1, <4>1, <4>2 DEF SyncCarriesVotes
    <3>4. QED
      BY <3>2, <3>3
  <2>10. CASE Fail(w)
    <3>1. Finish(w) /\ UNCHANGED <<stored, votes, indexed>>
      BY <2>10 DEF Fail
    <3>2. CASE req[w].pc = "write"
      BY <2>1, <2>2, <2>10, <2>c, <3>1, <3>2 DEF Fail, FreshAtRest
    <3>3. CASE req[w].pc # "write"
      BY <2>10, <2>c, <3>1, <3>3 DEF Fail
    <3>4. QED
      BY <3>2, <3>3
  <2>11. QED
    BY <1>4, <2>4, <2>5, <2>6, <2>7, <2>8, <2>9, <2>10 DEF Step
<1>5. CASE UNCHANGED vars
  BY <1>5 DEF vars, SerialInv, Lone, StoredWhileServed, Active, Removing, Exclusive, OneIn,
     ReadStillCurrent, WipedForGoal, TookEffect, SyncCarriesVotes, FreshAtRest
<1>6. QED
  BY <1>2, <1>3, <1>4, <1>5 DEF Next

LEMMA SerialAlways == Spec => [](RacingInv /\ SerialInv)
BY RacingInit, RacingNext, SerialInit, SerialNext, PTL DEF Spec

(***************************************************************************)
(* On PostgreSQL always, on Mongo until requests overlap, nobody both      *)
(* likes and dislikes a content.                                           *)
(***************************************************************************)
THEOREM StancesExclusive == Spec => []OneStancePerUser
<1>1. RacingInv /\ SerialInv => OneStancePerUser
  BY OneStanceIsOneIn
     DEF RacingInv, PostgresOneStance, SerialInv, Exclusive, OneStancePerUser
<1>2. QED
  BY <1>1, SerialAlways, PTL

(***************************************************************************)
(* An undisturbed request has moved its user where its endpoint says.      *)
(***************************************************************************)
THEOREM AcceptedVotesCount == Spec => []AcceptedVoteTakesEffect
<1>1. SerialInv => AcceptedVoteTakesEffect
  BY DEF SerialInv, TookEffect, AcceptedVoteTakesEffect
<1>2. QED
  BY <1>1, SerialAlways, PTL

(***************************************************************************)
(* With no overlap and no lost update the index shows the stored votes.    *)
(***************************************************************************)
THEOREM IndexFollowsVotes == Spec => []IndexFresh
<1>1. SerialInv => IndexFresh
  BY DEF SerialInv, FreshAtRest, IndexFresh, Active
<1>2. QED
  BY <1>1, SerialAlways, PTL

(***************************************************************************)
(* What a search finds is stored and has the stored votes.                 *)
(***************************************************************************)
THEOREM IndexAlwaysFollows == Spec => []IndexFollows
BY IndexFollowsVotes, DeletionReachesIndex, PTL DEF IndexFollows

-----------------------------------------------------------------------------
(***************************************************************************)
(* The refinement of VoteLedger.  First what the ledger sees of an edit.   *)
(***************************************************************************)
LEMMA MoveLeadsToGoal ==
    ASSUME NEW op \in VoteOps
    PROVE  MoveOf[op] \in Ledger!Moves /\ Ledger!To[MoveOf[op]] = Goal(op)
BY DEF VoteOps, MoveOf, Ledger!Moves, Ledger!To, Goal

\* A request that is not refused asks for a move its user's stance allows.
LEMMA AcceptedMoveIsAllowed ==
    ASSUME NEW v \in Votes, NEW u \in Users, NEW op \in VoteOps,
           OneIn(v, u), ~Refused(op, v, u)
    PROVE  StanceOf(v, u) \in Ledger!From[MoveOf[op]]
BY DEF VoteOps, MoveOf, Ledger!From, StanceOf, OneIn, Refused, Target

\* An edit leaves the stances of everybody else alone.
LEMMA EditedKeepsOthers ==
    ASSUME NEW v \in Votes, NEW u \in Users, NEW op \in VoteOps, NEW x \in Users \ {u}
    PROVE  StanceOf(Edited(op, v, u), x) = StanceOf(v, x)
<1>1. v["likes"] \in Arrays /\ v["dislikes"] \in Arrays
  BY DEF Votes, Lists
<1>2. QED
  BY <1>1, EditedLists, ArrayEdits DEF StanceOf, VoteOps

LEMMA NoVotesNoStances == \A u \in Users : StanceOf(NoVotes, u) = "none"
BY DEF StanceOf, NoVotes, Holds, Lists

LEMMA NobodysTurn ==
    ASSUME \A x \in Workers : ~Writing(x)
    PROVE  Turn = {}
BY DEF Turn

LEMMA TurnOfOne ==
    ASSUME NEW w \in Workers, Writing(w), \A x \in Workers \ {w} : ~Writing(x)
    PROVE  Turn = {[user |-> req[w].user, move |-> MoveOf[req[w].op]]}
<1>1. {x \in Workers : Writing(x)} = {w}
  OBVIOUS
<1>2. QED
  BY <1>1 DEF Turn

LEMMA LedgerInit == Init => Ledger!Init
<1> SUFFICES ASSUME Init PROVE Ledger!Init
  OBVIOUS
<1>1. \A w \in Workers : ~Writing(w)
  BY DEF Init, Writing, Idle
<1>2. Turn = {}
  BY <1>1, NobodysTurn
<1>3. Stance = [u \in Users |-> "none"]
  BY NoVotesNoStances DEF Init, Stance
<1>4. QED
  BY <1>2, <1>3 DEF Ledger!Init

(***************************************************************************)
(* Every step of requests that do not overlap is a move of the ledger or   *)
(* leaves it alone.                                                        *)
(***************************************************************************)
LEMMA LedgerNext ==
    /\ RacingInv /\ SerialInv /\ ~overlapped /\ backend = "mongo"
    /\ SerialInv' /\ ~overlapped'
    /\ [Next]_vars
    => [Ledger!Next]_<<Stance, Turn>>
<1> SUFFICES ASSUME RacingInv, SerialInv, ~overlapped, backend = "mongo",
                    SerialInv', ~overlapped', [Next]_vars
             PROVE  [Ledger!Next]_<<Stance, Turn>>
  OBVIOUS
<1>0. TypeOK /\ ActiveTyped
  BY DEF RacingInv
<1>1. /\ Lone /\ StoredWhileServed /\ Exclusive /\ ReadStillCurrent /\ Lone'
  BY DEF SerialInv
<1>2. votes \in Votes /\ \A w \in Workers : req[w] \in Requests
  BY <1>0 DEF TypeOK
\* What the ledger sees depends on the votes and on who is writing.
<1>a. ASSUME UNCHANGED votes PROVE Stance' = Stance
  BY <1>a DEF Stance
<1>b. ASSUME \A x \in Workers : ~Writing(x)' PROVE Turn' = {}
  BY <1>b DEF Turn
<1>3. ASSUME NEW w \in Workers, NEW u \in Users, NEW op \in VoteOps, StartVote(w, op, u)
      PROVE  [Ledger!Next]_<<Stance, Turn>>
  <2> DEFINE r == [op |-> op, user |-> u, pc |-> "write", lists |-> Edited(op, votes, u)]
  <2>1. Begin(w, r) /\ ~Refused(op, votes, u)
    BY <1>3 DEF StartVote
  <2>2. \A x \in Workers : ~Active(x)
    BY <2>1 DEF Begin
  <2>3. Turn = {}
    BY <2>2, NobodysTurn DEF Writing, Active
  <2>4. req'[w] = r /\ \A x \in Workers \ {w} : req'[x] = req[x]
    BY <1>0, <2>1 DEF Begin, TypeOK
  <2>5. {x \in Workers : Writing(x)'} = {w}
    BY <2>2, <2>4 DEF Writing, Active
  <2>6. Turn' = {[user |-> u, move |-> MoveOf[op]]}
    BY <2>4, <2>5 DEF Turn
  <2>7. UNCHANGED votes
    BY <2>1 DEF Begin
  <2>8. Stance[u] \in Ledger!From[MoveOf[op]]
    BY <1>1, <1>2, <2>1, AcceptedMoveIsAllowed DEF Stance, Exclusive
  <2>9. Ledger!Accept(u, MoveOf[op])
    BY <1>a, <2>3, <2>6, <2>7, <2>8 DEF Ledger!Accept
  <2>10. QED
    BY <2>9, MoveLeadsToGoal DEF Ledger!Next
<1>4. ASSUME NEW w \in Workers, NEW u \in Users, StartDelete(w, u)
      PROVE  [Ledger!Next]_<<Stance, Turn>>
  <2> DEFINE r == [op |-> "delete", user |-> u, pc |-> "write", lists |-> NoVotes]
  <2>1. Begin(w, r)
    BY <1>4 DEF StartDelete
  <2>2. req'[w] = r /\ \A x \in Workers \ {w} : req'[x] = req[x]
    BY <1>0, <2>1 DEF Begin, TypeOK
  <2>3. \A x \in Workers : ~Active(x)
    BY <2>1 DEF Begin
  <2>4. Turn = {} /\ Turn' = {}
    BY <1>b, <2>2, <2>3, NobodysTurn DEF Writing, Active, VoteOps
  <2>5. UNCHANGED votes
    BY <2>1 DEF Begin
  <2>6. QED
    BY <1>a, <2>4, <2>5
<1>5. ASSUME NEW w \in Workers, Step(w)
      PROVE  [Ledger!Next]_<<Stance, Turn>>
  <2>1. Active(w)
    BY <1>5 DEF Step, MongoWrite, PostgresWipe, PostgresCreate, DeleteRow, Reread, Sync,
       Fail, Active
  <2>2. \A x \in Workers \ {w} : req[x].pc = "idle" /\ ~Writing(x)
    BY <1>1, <2>1 DEF Lone, Active, Writing
  <2>3. req[w].op \in VoteOps => req[w].user \in Users
    BY <1>0 DEF ActiveTyped
  \* The request goes on to another await, or ends.
  <2>a. ASSUME \/ \E pc \in Pcs \ {"write"} : Goto(w, pc)
               \/ Finish(w)
               \/ req' = [req EXCEPT ![w].pc = "sync", ![w].lists = votes]
        PROVE  Turn' = {}
    <3>1. \A x \in Workers \ {w} : req'[x] = req[x]
      BY <1>0, <2>a DEF Goto, Finish, TypeOK
    <3>2. req'[w].pc # "write"
      BY <1>0, <1>2, <2>a DEF Goto, Finish, TypeOK, Requests, Idle
    <3>3. QED
      BY <1>b, <2>2, <3>1, <3>2 DEF Writing
  <2>b. ASSUME ~Writing(w) PROVE Turn = {}
    BY <2>b, <2>2, NobodysTurn
  <2>4. CASE MongoWrite(w)
    <3> DEFINE op == req[w].op
               u == req[w].user
               e == Edited(op, votes, u)
    <3>1. op \in VoteOps /\ u \in Users /\ Writing(w)
      BY <2>3, <2>4 DEF MongoWrite, Writing
    <3>2. stored
      BY <1>1, <2>1, <3>1 DEF StoredWhileServed, Removing, Writing
    <3>3. req[w].lists = e /\ ~Refused(op, votes, u) /\ OneIn(votes, u)
      BY <1>1, <3>1 DEF ReadStillCurrent, Writing, Exclusive
    <3>4. Goto(w, "reread") /\ votes' = e
      BY <1>2, <2>4, <3>1, <3>2, <3>3, MongoStoresEdit DEF MongoWrite
    <3>5. Turn = {[user |-> u, move |-> MoveOf[op]]}
      BY <2>2, <3>1, TurnOfOne
    <3>6. StanceOf(e, u) = Ledger!To[MoveOf[op]]
      BY <1>2, <3>1, <3>3, EditedReachesGoal, MoveLeadsToGoal
    <3>7. \A x \in Users \ {u} : StanceOf(e, x) = StanceOf(votes, x)
      BY <1>2, <3>1, EditedKeepsOthers
    <3>8. Stance' = [Stance EXCEPT ![u] = Ledger!To[MoveOf[op]]]
      BY <3>1, <3>4, <3>6, <3>7 DEF Stance
    <3>9. Turn' = {}
      BY <2>a, <3>4 DEF Pcs
    <3>10. Ledger!TakeEffect
      BY <3>5, <3>8, <3>9 DEF Ledger!TakeEffect
    <3>11. QED
      BY <3>10 DEF Ledger!Next
  \* The two PostgreSQL writes are not taken on Mongo.
  <2>5. CASE PostgresWipe(w) \/ PostgresCreate(w)
    BY <1>0, <2>5 DEF PostgresWipe, PostgresCreate, ActiveTyped
  <2>6. CASE DeleteRow(w)
    <3>1. req[w].op = "delete" /\ req[w].pc = "write" /\ stored
      BY <1>1, <2>1, <2>6 DEF DeleteRow, StoredWhileServed, Removing
    <3>2. Goto(w, "sync") /\ votes' = NoVotes
      BY <2>6, <3>1 DEF DeleteRow
    <3>3. Turn = {} /\ Turn' = {}
      BY <2>a, <2>b, <3>1, <3>2 DEF Writing, VoteOps, Pcs
    <3>4. Stance' = [x \in Users |-> "none"]
      BY <3>2, NoVotesNoStances DEF Stance
    <3>5. QED
      BY <3>3, <3>4 DEF Ledger!Forget, Ledger!Next
  <2>7. CASE Reread(w)
    <3>1. Turn = {} /\ Turn' = {}
      BY <2>a, <2>b, <2>7 DEF Reread, Writing
    <3>2. QED
      BY <1>a, <2>7, <3>1 DEF Reread
  <2>8. CASE Sync(w)
    <3>1. Turn = {} /\ Turn' = {}
      BY <2>a, <2>b, <2>8 DEF Sync, Writing
    <3>2. QED
      BY <1>a, <2>8, <3>1 DEF Sync
  <2>9. CASE Fail(w)
    <3>1. Stance' = Stance /\ Turn' = {}
      BY <1>a, <2>a, <2>9 DEF Fail
    <3>2. CASE Writing(w)
      BY <2>2, <3>1, <3>2, TurnOfOne DEF Ledger!Abandon, Ledger!Next
    <3>3. CASE ~Writing(w)
      BY <2>b, <3>1, <3>3
    <3>4. QED
      BY <3>2, <3>3
  <2>10. QED
    BY <1>5, <2>4, <2>5, <2>6, <2>7, <2>8, <2>9 DEF Step
<1>6. CASE UNCHANGED vars
  BY <1>6 DEF vars, Stance, Turn, Writing
<1>7. QED
  BY <1>3, <1>4, <1>5, <1>6 DEF Next

(***************************************************************************)
(* On Mongo, requests that do not overlap implement the ledger, however    *)
(* many slots could serve them.                                            *)
(***************************************************************************)
THEOREM LoneVotesKeepLedger ==
    Spec /\ [](~overlapped /\ backend = "mongo") => ImplementsLedger
BY SerialAlways, LedgerInit, LedgerNext, PTL DEF Spec, ImplementsLedger, Ledger!Spec

-----------------------------------------------------------------------------
(***************************************************************************)
(* A server that serves one request at a time never lets two overlap.      *)
(***************************************************************************)
OneAtATime == ~overlapped /\ backend = "mongo"

LEMMA OneSlotInvariant ==
    ASSUME \A w, x \in Workers : w = x, Backends = {"mongo"}
    PROVE  Spec => []OneAtATime
<1>1. Init => OneAtATime
  BY DEF Init, OneAtATime
<1>2. OneAtATime /\ [Next]_vars => OneAtATime'
  <2> SUFFICES ASSUME OneAtATime, [Next]_vars PROVE OneAtATime'
    OBVIOUS
  <2>1. ASSUME NEW w \in Workers, NEW r, Begin(w, r) PROVE OneAtATime'
    <3>1. ~ \E x \in Workers : Active(x)
      BY <2>1 DEF Begin
    <3>2. QED
      BY <2>1, <3>1 DEF Begin, OneAtATime
  <2>2. ASSUME NEW w \in Workers, Step(w) PROVE OneAtATime'
    BY <2>2 DEF OneAtATime, Step, MongoWrite, PostgresWipe, PostgresCreate, DeleteRow,
       Reread, Sync, Fail, Keep
  <2>3. CASE UNCHANGED vars
    BY <2>3 DEF OneAtATime, vars
  <2>4. QED
    BY <2>1, <2>2, <2>3 DEF Next, StartVote, StartDelete
<1>3. QED
  BY <1>1, <1>2, PTL DEF Spec

(***************************************************************************)
(* With one slot and Mongo, whoever votes and however often, the endpoints *)
(* implement the ledger.                                                   *)
(***************************************************************************)
THEOREM OneSlotKeepsLedger ==
    ASSUME \A w, x \in Workers : w = x, Backends = {"mongo"}
    PROVE  Spec => ImplementsLedger
BY OneSlotInvariant, LoneVotesKeepLedger, PTL DEF OneAtATime
=============================================================================

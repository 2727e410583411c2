---------------------------- MODULE PeopleProofs ----------------------------
(***************************************************************************)
(* Theorems about those who use the site, for any members, e-mails, roles, *)
(* desks, targets and requests, every database and any bounds: whom they   *)
(* follow (Followers), how they register, get roles and change passwords   *)
(* (Accounts), and what they keep and what the cache tells them of it      *)
(* (Bookmarks).                                                            *)
(***************************************************************************)
EXTENDS Followers, Accounts, Bookmarks, SequenceTheorems, TLAPS

-----------------------------------------------------------------------------
LEMMA NoJobType == NoJob \in Jobs
BY DEF NoJob, Jobs, JobPcs

LEMMA ReadType ==
    ASSUME FollowersTypeOK, NEW u \in Members
    PROVE  FollowingOf(u) \in SUBSET Members /\ FollowersOf(u) \in SUBSET Members
BY DEF FollowersTypeOK, FollowingOf, FollowersOf, Pairs

LEMMA EditedType ==
    ASSUME FollowersTypeOK, NEW s \in Slots, NEW u \in Members, NEW f \in Members,
           NEW kind \in {"follow", "unfollow"}
    PROVE  EditedJob(s, kind, u, f) \in Jobs
<1>1. /\ FollowingOf(f) \in SUBSET Members
      /\ FollowersOf(u) \in SUBSET Members
  BY ReadType
<1>2. QED
  BY <1>1 DEF EditedJob, Jobs, JobPcs

LEMMA TypingInit == FollowersInit => FollowersTypeOK
<1> SUFFICES ASSUME FollowersInit PROVE FollowersTypeOK
  OBVIOUS
<1>1. job \in [Slots -> Jobs] /\ \A s \in Slots : job[s].pc = "idle"
  BY NoJobType DEF FollowersInit, NoJob
<1>2. QED
  BY <1>1 DEF FollowersInit, FollowersTypeOK, Pairs

LEMMA TypingNext == FollowersTypeOK /\ [FollowersNext]_followVars => FollowersTypeOK'
<1> SUFFICES ASSUME FollowersTypeOK, [FollowersNext]_followVars PROVE FollowersTypeOK'
  OBVIOUS
<1> USE DEF FollowersTypeOK
<1> DEFINE JobsFit ==
       /\ job \in [Slots -> Jobs]
       /\ \A t \in Slots : job[t].pc # "idle" => {job[t].user, job[t].by} \subseteq Members
<1>1. ASSUME NEW s \in Slots, NEW kind \in {"follow", "unfollow"},
             NEW u \in Members, NEW f \in Members, StartFollow(s, kind, u, f)
      PROVE  FollowersTypeOK'
  <2>1. JobsFit'
    BY <1>1, EditedType DEF StartFollow, Set, EditedJob
  <2>2. asked' \subseteq Pairs
    BY <1>1 DEF StartFollow, Pairs
  <2>3. QED
    BY <1>1, <2>1, <2>2 DEF StartFollow, Overlaps
<1>2. ASSUME NEW s \in Slots, NEW pc \in JobPcs, Later(s, pc), job[s].pc # "idle"
      PROVE  JobsFit'
  BY <1>2 DEF Later, Set, Jobs
<1>3. ASSUME NEW s \in Slots, Set(s, NoJob)
      PROVE  JobsFit'
  BY <1>3, NoJobType DEF Set, NoJob
<1>5. ASSUME NEW s \in Slots, MongoWriteFollowing(s) PROVE FollowersTypeOK'
  <2>1. JobsFit'
    BY <1>2, <1>5 DEF MongoWriteFollowing, JobPcs
  <2>2. following' \in [Members -> SUBSET Members]
    BY <1>5 DEF MongoWriteFollowing, Jobs
  <2>3. QED
    BY <1>5, <2>1, <2>2 DEF MongoWriteFollowing
<1>6. ASSUME NEW s \in Slots, MongoWriteFollowers(s) PROVE FollowersTypeOK'
  <2>1. JobsFit'
    BY <1>3, <1>6 DEF MongoWriteFollowers
  <2>2. followers' \in [Members -> SUBSET Members]
    BY <1>6 DEF MongoWriteFollowers, Jobs
  <2>3. graph' \subseteq Pairs
    BY <1>6 DEF MongoWriteFollowers, Completed, Pairs
  <2>4. QED
    BY <1>6, <2>1, <2>2, <2>3 DEF MongoWriteFollowers
<1>7. ASSUME NEW s \in Slots, PostgresDeleteFollowing(s) PROVE FollowersTypeOK'
  <2>1. JobsFit'
    BY <1>2, <1>7 DEF PostgresDeleteFollowing, JobPcs
  <2>2. QED
    BY <1>7, <2>1 DEF PostgresDeleteFollowing
<1>8. ASSUME NEW s \in Slots, PostgresInsertFollowing(s) PROVE FollowersTypeOK'
  <2>1. JobsFit'
    BY <1>2, <1>8 DEF PostgresInsertFollowing, JobPcs
  <2>2. follows' \subseteq Pairs
    BY <1>8 DEF PostgresInsertFollowing, Pairs
  <2>3. QED
    BY <1>8, <2>1, <2>2 DEF PostgresInsertFollowing
<1>9. ASSUME NEW s \in Slots, PostgresDeleteFollowers(s) PROVE FollowersTypeOK'
  <2>1. JobsFit'
    BY <1>2, <1>9 DEF PostgresDeleteFollowers, JobPcs
  <2>2. QED
    BY <1>9, <2>1 DEF PostgresDeleteFollowers
<1>10. ASSUME NEW s \in Slots, PostgresInsertFollowers(s) PROVE FollowersTypeOK'
  <2>1. JobsFit'
    BY <1>3, <1>10 DEF PostgresInsertFollowers
  <2>2. follows' \subseteq Pairs
    BY <1>10 DEF PostgresInsertFollowers, FollowerPairs, Pairs
  <2>3. graph' \subseteq Pairs
    BY <1>10 DEF PostgresInsertFollowers, Completed, Pairs
  <2>4. QED
    BY <1>10, <2>1, <2>2, <2>3 DEF PostgresInsertFollowers
<1>11. ASSUME NEW s \in Slots, AbortFollow(s) PROVE FollowersTypeOK'
  BY <1>3, <1>11 DEF AbortFollow
<1>12. ASSUME NEW u \in Members, DeleteMember(u) PROVE FollowersTypeOK'
  BY <1>12 DEF DeleteMember, Pairs
<1>13. CASE UNCHANGED followVars
  BY <1>13 DEF followVars
<1>14. QED
  BY <1>1, <1>5, <1>6, <1>7, <1>8, <1>9, <1>10, <1>11, <1>12, <1>13 DEF FollowersNext

\* Every reachable state is well typed.
THEOREM Typing == FollowersSpec => []FollowersTypeOK
BY TypingInit, TypingNext, PTL DEF FollowersSpec

-----------------------------------------------------------------------------
(***************************************************************************)
(* Nobody is made a follower.  What a request is about to write was asked  *)
(* for too, except for the pairs of a user with itself that PostgreSQL's   *)
(* entity brings in.                                                       *)
(***************************************************************************)
AskedOrSelf(f, u) == <<f, u>> \in asked \/ (store = "postgres" /\ f = u)

JobsWereAsked == \A s \in Slots :
    /\ job[s].pc # "idle" => \A u \in job[s].following : AskedOrSelf(job[s].by, u)
    /\ job[s].pc # "idle" => \A f \in job[s].followers : AskedOrSelf(f, job[s].user)

AskedInv == FollowersTypeOK /\ FollowsWereAsked /\ JobsWereAsked

\* On both databases an edited array holds pairs asked for, this request's included.
LEMMA EditsWereAsked ==
    ASSUME AskedInv, NEW s \in Slots, NEW kind \in {"follow", "unfollow"},
           NEW u \in Members, NEW f \in Members, StartFollow(s, kind, u, f)
    PROVE  /\ \A v \in job'[s].following : AskedOrSelf(f, v)'
           /\ \A g \in job'[s].followers : AskedOrSelf(g, u)'
           /\ job'[s].by = f /\ job'[s].user = u
<1> USE DEF AskedInv, FollowersTypeOK
<1>1. \A v \in FollowingOf(f) : AskedOrSelf(f, v)
  BY FollowStoreAssumption DEF FollowsWereAsked, FollowingOf, AskedOrSelf, Pairs
<1>2. \A g \in FollowersOf(u) : AskedOrSelf(g, u)
  BY FollowStoreAssumption DEF FollowsWereAsked, FollowersOf, AskedOrSelf, Pairs
<1>3. asked \subseteq asked' /\ store' = store
  BY DEF StartFollow
<1>4. kind = "follow" => <<f, u>> \in asked'
  BY DEF StartFollow
<1>5. job'[s] = EditedJob(s, kind, u, f)
  BY DEF StartFollow, Set
<1>6. /\ job'[s].by = f /\ job'[s].user = u
      /\ job'[s].following \subseteq FollowingOf(f) \union (IF kind = "follow" THEN {u} ELSE {})
      /\ job'[s].followers \subseteq FollowersOf(u) \union (IF kind = "follow" THEN {f} ELSE {})
  BY <1>5 DEF EditedJob
<1>7. QED
  BY <1>1, <1>2, <1>3, <1>4, <1>6 DEF AskedOrSelf

LEMMA AskedInit == FollowersInit => AskedInv
<1> SUFFICES ASSUME FollowersInit PROVE AskedInv
  OBVIOUS
<1>1. FollowersTypeOK
  BY TypingInit
<1>2. JobsWereAsked
  BY DEF FollowersInit, JobsWereAsked, NoJob
<1>3. FollowsWereAsked
  BY DEF FollowersInit, FollowsWereAsked
<1>4. QED
  BY <1>1, <1>2, <1>3 DEF AskedInv

LEMMA AskedNext == AskedInv /\ [FollowersNext]_followVars => AskedInv'
<1> SUFFICES ASSUME AskedInv, [FollowersNext]_followVars PROVE AskedInv'
  OBVIOUS
<1> USE DEF AskedInv
<1>0. FollowersTypeOK'
  BY TypingNext
<1> USE DEF FollowersTypeOK
<1>1. ASSUME NEW s \in Slots, NEW kind \in {"follow", "unfollow"},
             NEW u \in Members, NEW f \in Members, StartFollow(s, kind, u, f)
      PROVE  FollowsWereAsked' /\ JobsWereAsked'
  <2>1. FollowsWereAsked'
    BY <1>1 DEF StartFollow, FollowsWereAsked
  <2>2. \A t \in Slots : t # s => job'[t] = job[t]
    BY <1>1 DEF StartFollow, Set
  <2>3. asked \subseteq asked' /\ store' = store
    BY <1>1 DEF StartFollow
  <2>4. JobsWereAsked'
    BY <1>1, <2>2, <2>3, EditsWereAsked DEF JobsWereAsked, AskedOrSelf
  <2>5. QED
    BY <2>1, <2>4
<1>2. ASSUME NEW s \in Slots, NEW pc \in JobPcs, Later(s, pc), job[s].pc # "idle",
             UNCHANGED <<store, asked>>
      PROVE  JobsWereAsked'
  BY <1>2 DEF Later, Set, Jobs, JobsWereAsked, AskedOrSelf
<1>3. ASSUME NEW s \in Slots, Set(s, NoJob), UNCHANGED <<store, asked>>
      PROVE  JobsWereAsked'
  BY <1>3 DEF Set, NoJob, JobsWereAsked, AskedOrSelf
<1>4. ASSUME NEW s \in Slots, MongoWriteFollowing(s) PROVE FollowsWereAsked' /\ JobsWereAsked'
  <2>1. JobsWereAsked'
    BY <1>2, <1>4 DEF MongoWriteFollowing, JobPcs
  <2>2. \A u \in job[s].following : <<job[s].by, u>> \in asked
    BY <1>4 DEF MongoWriteFollowing, JobsWereAsked, AskedOrSelf
  <2>3. FollowsWereAsked'
    BY <1>4, <2>2 DEF MongoWriteFollowing, FollowsWereAsked
  <2>4. QED
    BY <2>1, <2>3
<1>5. ASSUME NEW s \in Slots, MongoWriteFollowers(s) PROVE FollowsWereAsked' /\ JobsWereAsked'
  <2>1. JobsWereAsked'
    BY <1>3, <1>5 DEF MongoWriteFollowers
  <2>2. \A f \in job[s].followers : <<f, job[s].user>> \in asked
    BY <1>5 DEF MongoWriteFollowers, JobsWereAsked, AskedOrSelf
  <2>3. FollowsWereAsked'
    BY <1>5, <2>2 DEF MongoWriteFollowers, FollowsWereAsked
  <2>4. QED
    BY <2>1, <2>3
<1>6. ASSUME NEW s \in Slots, PostgresDeleteFollowing(s) PROVE FollowsWereAsked' /\ JobsWereAsked'
  <2>1. JobsWereAsked'
    BY <1>2, <1>6 DEF PostgresDeleteFollowing, JobPcs
  <2>2. FollowsWereAsked'
    BY <1>6 DEF PostgresDeleteFollowing, FollowsWereAsked
  <2>3. QED
    BY <2>1, <2>2
<1>7. ASSUME NEW s \in Slots, PostgresInsertFollowing(s) PROVE FollowsWereAsked' /\ JobsWereAsked'
  <2>1. JobsWereAsked'
    BY <1>2, <1>7 DEF PostgresInsertFollowing, JobPcs
  <2>2. \A p \in {job[s].by} \X job[s].following : p[1] # p[2] => p \in asked
    BY <1>7 DEF PostgresInsertFollowing, JobsWereAsked, AskedOrSelf
  <2>3. FollowsWereAsked'
    BY <1>7, <2>2 DEF PostgresInsertFollowing, FollowsWereAsked
  <2>4. QED
    BY <2>1, <2>3
<1>8. ASSUME NEW s \in Slots, PostgresDeleteFollowers(s) PROVE FollowsWereAsked' /\ JobsWereAsked'
  <2>1. JobsWereAsked'
    BY <1>2, <1>8 DEF PostgresDeleteFollowers, JobPcs
  <2>2. FollowsWereAsked'
    BY <1>8 DEF PostgresDeleteFollowers, FollowsWereAsked
  <2>3. QED
    BY <2>1, <2>2
<1>9. ASSUME NEW s \in Slots, PostgresInsertFollowers(s) PROVE FollowsWereAsked' /\ JobsWereAsked'
  <2>1. JobsWereAsked'
    BY <1>3, <1>9 DEF PostgresInsertFollowers
  <2>2. \A p \in FollowerPairs(job[s]) : p[1] # p[2] => p \in asked
    BY <1>9 DEF PostgresInsertFollowers, FollowerPairs, JobsWereAsked, AskedOrSelf
  <2>3. FollowsWereAsked'
    BY <1>9, <2>2 DEF PostgresInsertFollowers, FollowsWereAsked
  <2>4. QED
    BY <2>1, <2>3
<1>10. ASSUME NEW s \in Slots, AbortFollow(s) PROVE FollowsWereAsked' /\ JobsWereAsked'
  <2>1. JobsWereAsked'
    BY <1>3, <1>10 DEF AbortFollow
  <2>2. QED
    BY <1>10, <2>1 DEF AbortFollow, FollowsWereAsked
<1>11. ASSUME NEW u \in Members, DeleteMember(u) PROVE FollowsWereAsked' /\ JobsWereAsked'
  BY <1>11 DEF DeleteMember, FollowsWereAsked, JobsWereAsked, AskedOrSelf
<1>12. CASE UNCHANGED followVars
  BY <1>0, <1>12 DEF followVars, FollowsWereAsked, JobsWereAsked, AskedOrSelf
<1>13. QED
  BY <1>0, <1>1, <1>4, <1>5, <1>6, <1>7, <1>8, <1>9, <1>10, <1>11, <1>12 DEF FollowersNext

\* Whatever overlaps or fails, on both databases, nobody is shown as a follower of
\* somebody else without having asked.
THEOREM FollowsNeverMadeUp == FollowersSpec => []FollowsWereAsked
<1>1. AskedInv => FollowsWereAsked
  BY DEF AskedInv
<1>2. QED
  BY <1>1, AskedInit, AskedNext, PTL DEF FollowersSpec

-----------------------------------------------------------------------------
(***************************************************************************)
(* On Mongo the two arrays mirror each other.  While one request runs, the *)
(* followed user's array is still the old graph, the follower's array is   *)
(* the new one once it was written, and what the request carries is the    *)
(* new one restricted to users who exist.                                  *)
(***************************************************************************)
OneAtATime == \A s, t \in Slots : Running(s) /\ Running(t) => s = t
FollowingShows(g) == \A u, f \in members : u \in following[f] <=> <<f, u>> \in g
FollowersShow(g) == \A u, f \in members : f \in followers[u] <=> <<f, u>> \in g
WillShow(j, g) ==
    /\ j.by \in members => \A u \in members : u \in j.following <=> <<j.by, u>> \in g
    /\ j.user \in members => \A f \in members : f \in j.followers <=> <<f, j.user>> \in g

JobFits(s) ==
    /\ job[s].kind # "none" <=> job[s].pc # "idle"
    /\ Running(s) => /\ job[s].pc \in {"follower", "followed"}
                     /\ WillShow(job[s], Completed(job[s]))
    /\ job[s].pc = "follower" => FollowingShows(graph)
    /\ job[s].pc = "followed" => FollowingShows(Completed(job[s]))

MirrorInv ==
    /\ FollowersTypeOK
    /\ store = "mongo" /\ ~crossed /\ aborts = 0 =>
          /\ OneAtATime
          /\ FollowersShow(graph)
          /\ \A s \in Slots : JobFits(s)
          /\ (\A s \in Slots : ~Running(s)) => FollowingShows(graph)

LEMMA MirrorInit == FollowersInit => MirrorInv
<1> SUFFICES ASSUME FollowersInit PROVE MirrorInv
  OBVIOUS
<1>1. FollowersTypeOK
  BY TypingInit
<1>2. \A s \in Slots : job[s] = NoJob
  BY DEF FollowersInit
<1>3. FollowingShows(graph) /\ FollowersShow(graph)
  BY DEF FollowersInit, FollowingShows, FollowersShow
<1>4. QED
  BY <1>1, <1>2, <1>3 DEF MirrorInv, OneAtATime, JobFits, Running, NoJob

LEMMA MirrorNext == MirrorInv /\ [FollowersNext]_followVars => MirrorInv'
<1> SUFFICES ASSUME MirrorInv, [FollowersNext]_followVars PROVE MirrorInv'
  OBVIOUS
<1> SUFFICES ASSUME store' = "mongo", crossed' = FALSE, aborts' = 0
             PROVE  /\ OneAtATime'
                    /\ FollowersShow(graph)'
                    /\ \A s \in Slots : JobFits(s)'
                    /\ (\A s \in Slots : ~Running(s)') => FollowingShows(graph)'
  <2>1. FollowersTypeOK'
    BY TypingNext DEF MirrorInv
  <2>2. QED
    BY <2>1 DEF MirrorInv, FollowersTypeOK, Running
<1>a. FollowersTypeOK /\ FollowersTypeOK'
  BY TypingNext DEF MirrorInv
<1> USE DEF FollowersTypeOK
<1>b. store = "mongo"
  BY DEF FollowersNext, followVars, StartFollow, MongoWriteFollowing, MongoWriteFollowers,
         PostgresDeleteFollowing, PostgresInsertFollowing, PostgresDeleteFollowers,
         PostgresInsertFollowers, AbortFollow, DeleteMember
<1>c. crossed = FALSE
  BY <1>a DEF FollowersNext, followVars, StartFollow, Overlaps, MongoWriteFollowing,
         MongoWriteFollowers, PostgresDeleteFollowing, PostgresInsertFollowing,
         PostgresDeleteFollowers, PostgresInsertFollowers, AbortFollow, DeleteMember
<1>d. aborts = 0 /\ \A s \in Slots : ~AbortFollow(s)
  BY <1>a DEF FollowersNext, followVars, StartFollow, MongoWriteFollowing,
         MongoWriteFollowers, PostgresDeleteFollowing, PostgresInsertFollowing,
         PostgresDeleteFollowers, PostgresInsertFollowers, AbortFollow, DeleteMember
<1>e. /\ OneAtATime /\ FollowersShow(graph)
      /\ \A s \in Slots : JobFits(s)
      /\ (\A s \in Slots : ~Running(s)) => FollowingShows(graph)
  BY <1>b, <1>c, <1>d DEF MirrorInv
<1>1. ASSUME NEW s \in Slots, NEW kind \in {"follow", "unfollow"},
             NEW u \in Members, NEW f \in Members, StartFollow(s, kind, u, f)
      PROVE  /\ OneAtATime'
             /\ FollowersShow(graph)'
             /\ \A t \in Slots : JobFits(t)'
             /\ (\A t \in Slots : ~Running(t)') => FollowingShows(graph)'
  <2>1. \A t \in Slots : ~Running(t)
    BY <1>1 DEF StartFollow, Overlaps
  <2>2. FollowingShows(graph) /\ FollowersShow(graph)
    BY <1>e, <2>1
  <2>3. FollowingShows(graph)' /\ FollowersShow(graph)'
    BY <1>1, <2>2 DEF StartFollow, FollowingShows, FollowersShow
  <2>4. job' = [job EXCEPT ![s] = EditedJob(s, kind, u, f)]
    BY <1>1 DEF StartFollow, Set
  <2>5. /\ job'[s] = EditedJob(s, kind, u, f)
        /\ \A t \in Slots : t # s => job'[t] = job[t]
    BY <1>a, <2>4
  <2>6. /\ job'[s].kind = kind /\ job'[s].pc = "follower"
        /\ job'[s].user = u /\ job'[s].by = f
        /\ job'[s].following = IF kind = "follow" THEN following[f] \union {u} ELSE following[f] \ {u}
        /\ job'[s].followers = IF kind = "follow" THEN followers[u] \union {f} ELSE followers[u] \ {f}
    BY <1>b, <2>5 DEF EditedJob, FollowingOf, FollowersOf
  <2>7. OneAtATime'
    BY <2>1, <2>5 DEF OneAtATime, Running
  <2>8. WillShow(job[s], Completed(job[s]))'
    BY <1>1, <2>2, <2>6 DEF StartFollow, WillShow, Completed, FollowingShows, FollowersShow
  <2>9. \A t \in Slots : JobFits(t)'
    BY <1>e, <2>1, <2>3, <2>5, <2>6, <2>8 DEF JobFits, Running
  <2>10. Running(s)'
    BY <2>6 DEF Running
  <2>11. QED
    BY <2>3, <2>7, <2>9, <2>10
<1>2. ASSUME NEW s \in Slots, MongoWriteFollowing(s)
      PROVE  /\ OneAtATime'
             /\ FollowersShow(graph)'
             /\ \A t \in Slots : JobFits(t)'
             /\ (\A t \in Slots : ~Running(t)') => FollowingShows(graph)'
  <2>1. /\ Running(s) /\ FollowingShows(graph) /\ WillShow(job[s], Completed(job[s]))
        /\ \A t \in Slots : t # s => ~Running(t)
    BY <1>2, <1>e DEF MongoWriteFollowing, JobFits, OneAtATime, Running
  <2>2. job' = [job EXCEPT ![s] = [job[s] EXCEPT !.pc = "followed"]]
    BY <1>2 DEF MongoWriteFollowing, Later, Set
  <2>3. /\ job'[s].pc = "followed" /\ job'[s].kind = job[s].kind
        /\ job'[s].user = job[s].user /\ job'[s].by = job[s].by
        /\ job'[s].following = job[s].following /\ job'[s].followers = job[s].followers
        /\ \A t \in Slots : t # s => job'[t] = job[t]
    BY <1>a, <2>2 DEF Jobs
  <2>4. Completed(job[s])' = Completed(job[s]) /\ members' = members /\ graph' = graph
    BY <1>2, <2>3 DEF MongoWriteFollowing, Completed
  <2>5. WillShow(job[s], Completed(job[s]))'
    BY <2>1, <2>3, <2>4 DEF WillShow
  <2>6. FollowingShows(Completed(job[s]))'
    <3>1. \A f \in members : f # job[s].by => following'[f] = following[f]
      BY <1>a, <1>2 DEF MongoWriteFollowing
    <3>2. following'[job[s].by] = job[s].following /\ job[s].by \in members
      BY <1>a, <1>2 DEF MongoWriteFollowing
    <3>3. \A u, f \in members : f # job[s].by => (<<f, u>> \in graph <=> <<f, u>> \in Completed(job[s]))
      BY DEF Completed
    <3>4. QED
      BY <2>1, <2>4, <3>1, <3>2, <3>3 DEF FollowingShows, WillShow
  <2>7. FollowersShow(graph)'
    BY <1>2, <1>e DEF MongoWriteFollowing, FollowersShow
  <2>8. \A t \in Slots : JobFits(t)'
    BY <1>e, <2>1, <2>3, <2>5, <2>6 DEF JobFits, Running
  <2>9. OneAtATime' /\ Running(s)'
    BY <2>1, <2>3 DEF OneAtATime, Running
  <2>10. QED
    BY <2>7, <2>8, <2>9
<1>3. ASSUME NEW s \in Slots, MongoWriteFollowers(s)
      PROVE  /\ OneAtATime'
             /\ FollowersShow(graph)'
             /\ \A t \in Slots : JobFits(t)'
             /\ (\A t \in Slots : ~Running(t)') => FollowingShows(graph)'
  <2>1. /\ Running(s) /\ FollowingShows(Completed(job[s])) /\ WillShow(job[s], Completed(job[s]))
        /\ \A t \in Slots : t # s => ~Running(t)
    BY <1>3, <1>e DEF MongoWriteFollowers, JobFits, OneAtATime, Running
  <2>2. job'[s] = NoJob /\ \A t \in Slots : t # s => job'[t] = job[t]
    BY <1>a, <1>3 DEF MongoWriteFollowers, Set
  <2>3. \A t \in Slots : ~Running(t)'
    BY <2>1, <2>2 DEF Running, NoJob
  <2>4. graph' = Completed(job[s]) /\ members' = members /\ following' = following
    BY <1>3 DEF MongoWriteFollowers
  <2>5. FollowersShow(graph)'
    <3>1. \A u \in members : u # job[s].user => followers'[u] = followers[u]
      BY <1>a, <1>3 DEF MongoWriteFollowers
    <3>2. followers'[job[s].user] = job[s].followers /\ job[s].user \in members
      BY <1>a, <1>3 DEF MongoWriteFollowers
    <3>3. \A u, f \in members : u # job[s].user => (<<f, u>> \in graph <=> <<f, u>> \in Completed(job[s]))
      BY DEF Completed
    <3>4. QED
      BY <1>e, <2>1, <2>4, <3>1, <3>2, <3>3 DEF FollowersShow, WillShow
  <2>6. \A t \in Slots : JobFits(t)'
    BY <1>e, <2>1, <2>2, <2>3 DEF JobFits, Running, NoJob
  <2>7. QED
    BY <2>1, <2>3, <2>4, <2>5, <2>6 DEF OneAtATime, FollowingShows
<1>4. ASSUME NEW v \in Members, DeleteMember(v)
      PROVE  /\ OneAtATime'
             /\ FollowersShow(graph)'
             /\ \A t \in Slots : JobFits(t)'
             /\ (\A t \in Slots : ~Running(t)') => FollowingShows(graph)'
  <2>1. /\ job' = job /\ members' = members \ {v}
        /\ graph' = {p \in graph : v \notin {p[1], p[2]}}
        /\ \A u \in members' : following'[u] = following[u] /\ followers'[u] = followers[u]
    BY <1>4, <1>a DEF DeleteMember
  <2>2. \A u, f \in members' : <<f, u>> \in graph' <=> <<f, u>> \in graph
    BY <2>1
  <2>3. \A t \in Slots : \A u, f \in members' :
            <<f, u>> \in Completed(job[t])' <=> <<f, u>> \in Completed(job[t])
    BY <2>1, <2>2 DEF Completed
  <2>4. OneAtATime' /\ FollowersShow(graph)'
    BY <1>e, <2>1, <2>2 DEF OneAtATime, Running, FollowersShow
  <2>5. \A t \in Slots : JobFits(t)'
    BY <1>e, <2>1, <2>2, <2>3 DEF JobFits, Running, WillShow, FollowingShows
  <2>6. (\A t \in Slots : ~Running(t)') => FollowingShows(graph)'
    BY <1>e, <2>1, <2>2 DEF Running, FollowingShows
  <2>7. QED
    BY <2>4, <2>5, <2>6
<1>5. ASSUME NEW s \in Slots
      PROVE  ~(PostgresDeleteFollowing(s) \/ PostgresInsertFollowing(s)
               \/ PostgresDeleteFollowers(s) \/ PostgresInsertFollowers(s))
  BY <1>b, <1>e DEF PostgresDeleteFollowing, PostgresInsertFollowing, PostgresDeleteFollowers,
                    PostgresInsertFollowers, JobFits, Running
<1>6. CASE UNCHANGED followVars
  <2>1. /\ job' = job /\ members' = members /\ graph' = graph
        /\ following' = following /\ followers' = followers
    BY <1>6 DEF followVars
  <2>2. OneAtATime' /\ FollowersShow(graph)' /\ (FollowingShows(graph)' <=> FollowingShows(graph))
    BY <1>e, <2>1 DEF OneAtATime, Running, FollowersShow, FollowingShows
  <2>3. \A t \in Slots : JobFits(t)'
    BY <1>e, <2>1 DEF JobFits, Running, WillShow, Completed, FollowingShows
  <2>4. QED
    BY <1>e, <2>1, <2>2, <2>3 DEF Running
<1>7. QED
  BY <1>1, <1>2, <1>3, <1>4, <1>5, <1>6, <1>d DEF FollowersNext

\* On Mongo, for any number of users and requests, as long as requests neither overlap
\* nor stop half way: the two arrays mirror each other and show what was asked.
THEOREM FollowListsMirror == FollowersSpec => []FollowListsAgree
<1>1. MirrorInv => FollowListsAgree
  BY DEF MirrorInv, FollowListsAgree, Undisturbed, FollowingShows, FollowersShow
<1>2. QED
  BY <1>1, MirrorInit, MirrorNext, PTL DEF FollowersSpec

\* The lists tell what users asked for.
THEOREM FollowsAlwaysSound == FollowersSpec => []FollowsSound
BY FollowsNeverMadeUp, FollowListsMirror, PTL DEF FollowsSound

-----------------------------------------------------------------------------
(***************************************************************************)
(* Typing.                                                                 *)
(***************************************************************************)
LEMMA NoTaskType == NoTask \in Tasks
BY AccountAssumption DEF NoTask, Tasks, Registrations

LEMMA NoRowType == NoRow \in UserRows
BY DEF NoRow, UserRows

LEMMA AccountsTypingInit == AccountsInit => AccountsTypeOK
<1> SUFFICES ASSUME AccountsInit PROVE AccountsTypeOK
  OBVIOUS
<1>1. PICK n \in {0, MaxUsers} : \E addr \in [1..n -> Emails] :
          /\ user = [i \in UserIds |-> IF i > n THEN NoRow
                                       ELSE [NoRow EXCEPT !.state = "present", !.email = addr[i]]]
          /\ grants = [user : 1..n, role : {DefaultRole}, active : {TRUE}]
  BY DEF AccountsInit
<1>2. PICK addr \in [1..n -> Emails] :
          /\ user = [i \in UserIds |-> IF i > n THEN NoRow
                                       ELSE [NoRow EXCEPT !.state = "present", !.email = addr[i]]]
          /\ grants = [user : 1..n, role : {DefaultRole}, active : {TRUE}]
  BY <1>1
<1>3. n \in Nat /\ n <= MaxUsers
  BY AccountAssumption
<1>4. \A i \in UserIds : ~(i > n) => i \in 1..n
  BY <1>3 DEF UserIds
<1>5. \A e \in Emails : [NoRow EXCEPT !.state = "present", !.email = e] \in UserRows
  BY DEF NoRow, UserRows
<1>6. user \in [UserIds -> UserRows]
  BY <1>2, <1>4, <1>5, NoRowType
<1>7. grants \subseteq Grants
  <2>1. 1..n \subseteq UserIds
    BY <1>3, AccountAssumption DEF UserIds
  <2>2. {DefaultRole} \subseteq Roles /\ {TRUE} \subseteq BOOLEAN
    BY AccountAssumption
  <2>3. QED
    BY <1>2, <2>1, <2>2, Zenon DEF Grants
<1>8. task \in [Desks -> Tasks]
  BY NoTaskType DEF AccountsInit
<1>9. issued \in Seq(Secrets) /\ alive \subseteq 1..Len(issued)
  <2>1. issued = <<>> /\ alive = {}
    BY DEF AccountsInit
  <2>2. QED
    BY <2>1
<1>10. QED
  BY <1>6, <1>7, <1>8, <1>9 DEF AccountsInit, AccountsTypeOK

\* Every task a request may put on its desk is a task.
LEMMA TaskTypes ==
    /\ \A kind \in Registrations, e \in Emails, r \in Roles, named \in BOOLEAN :
          [NoTask EXCEPT !.kind = kind, !.pc = "create", !.email = e, !.role = r,
                         !.named = named] \in Tasks
    /\ \A i \in UserIds, r \in Roles :
          [NoTask EXCEPT !.kind = "assign", !.pc = "grant", !.role = r, !.user = i] \in Tasks
    /\ \A kind \in {"reset", "confirm"}, i \in UserIds, n \in Nat :
          [NoTask EXCEPT !.kind = kind, !.pc = "password", !.user = i, !.secret = n] \in Tasks
    /\ \A i \in UserIds, n \in Nat :
          [NoTask EXCEPT !.kind = "verify", !.pc = "token", !.user = i, !.secret = n] \in Tasks
    /\ \A t \in Tasks, i \in UserIds :
          t.pc = "create" => [t EXCEPT !.pc = "role", !.user = i] \in Tasks
    /\ \A t \in Tasks : t.pc = "role" => [t EXCEPT !.pc = "grant"] \in Tasks
<1>1. UserIds \subseteq Nat \ {0}
  BY AccountAssumption DEF UserIds
<1>2. ASSUME NEW kind \in Registrations, NEW e \in Emails, NEW r \in Roles, NEW named \in BOOLEAN
      PROVE  [NoTask EXCEPT !.kind = kind, !.pc = "create", !.email = e, !.role = r,
                            !.named = named] \in Tasks
  BY DEF NoTask, Tasks, Registrations
<1>3. ASSUME NEW i \in UserIds, NEW r \in Roles
      PROVE  [NoTask EXCEPT !.kind = "assign", !.pc = "grant", !.role = r, !.user = i] \in Tasks
  BY <1>1 DEF NoTask, Tasks, Registrations
<1>4. ASSUME NEW kind \in {"reset", "confirm"}, NEW i \in UserIds, NEW n \in Nat
      PROVE  [NoTask EXCEPT !.kind = kind, !.pc = "password", !.user = i, !.secret = n] \in Tasks
  BY <1>1, AccountAssumption DEF NoTask, Tasks, Registrations
<1>5. ASSUME NEW i \in UserIds, NEW n \in Nat
      PROVE  [NoTask EXCEPT !.kind = "verify", !.pc = "token", !.user = i, !.secret = n] \in Tasks
  BY <1>1, AccountAssumption DEF NoTask, Tasks, Registrations
<1>6. ASSUME NEW t \in Tasks, NEW i \in UserIds, t.pc = "create"
      PROVE  [t EXCEPT !.pc = "role", !.user = i] \in Tasks
  BY <1>1, <1>6 DEF Tasks, Registrations
<1>7. ASSUME NEW t \in Tasks, t.pc = "role"
      PROVE  [t EXCEPT !.pc = "grant"] \in Tasks
  BY <1>7 DEF Tasks, Registrations
<1>8. QED
  BY <1>2, <1>3, <1>4, <1>5, <1>6, <1>7

LEMMA AccountsTypingNext == AccountsTypeOK /\ [AccountsNext]_accountVars => AccountsTypeOK'
<1> SUFFICES ASSUME AccountsTypeOK, [AccountsNext]_accountVars PROVE AccountsTypeOK'
  OBVIOUS
<1> USE DEF AccountsTypeOK
<1>a. ASSUME NEW d \in Desks, NEW t \in Tasks, Puts(d, t) PROVE task' \in [Desks -> Tasks]
  BY <1>a DEF Puts
<1>b. ASSUME NEW d \in Desks, Clears(d) PROVE task' \in [Desks -> Tasks]
  BY <1>b, NoTaskType DEF Puts, Clears
<1>c. ASSUME NEW d \in Desks, GivesUp(d) PROVE task' \in [Desks -> Tasks] /\ cut' \subseteq UserIds
  BY <1>c, <1>b DEF GivesUp, Tasks
<1>d. ASSUME NEW kind \in {"reset", "code", "token"}, NEW i \in UserIds, NEW n \in Nat,
             Issue(kind, i, n)
      PROVE  issued' \in Seq(Secrets) /\ alive' \subseteq 1..Len(issued') /\ NewSecret \in Nat
  <2>1. [kind |-> kind, user |-> i, from |-> n] \in Secrets
    BY DEF Secrets
  <2>2. issued' = Append(issued, [kind |-> kind, user |-> i, from |-> n])
    BY <1>d DEF Issue
  <2>3. issued' \in Seq(Secrets) /\ Len(issued') = Len(issued) + 1 /\ Len(issued) \in Nat
    BY <2>1, <2>2
  <2>4. alive' = alive \union {Len(issued) + 1}
    BY <1>d DEF Issue
  <2>5. alive' \subseteq 1..Len(issued')
    <3>1. ASSUME NEW len \in Nat, NEW S, S \subseteq 1..len
          PROVE  S \union {len + 1} \subseteq 1..(len + 1)
      BY <3>1
    <3>2. QED
      BY <2>3, <2>4, <3>1
  <2>6. QED
    BY <2>3, <2>5 DEF NewSecret
<1>1. ASSUME NEW d \in Desks, NEW kind \in Registrations, NEW e \in Emails, NEW r \in Roles,
             NEW named \in BOOLEAN, StartRegistration(d, kind, e, r, named)
      PROVE  AccountsTypeOK'
  <2>1. task' \in [Desks -> Tasks]
    BY <1>a, <1>1, TaskTypes DEF StartRegistration
  <2>2. QED
    BY <1>1, <2>1 DEF StartRegistration, Counted, Err
<1>2. ASSUME NEW d \in Desks, NEW i \in UserIds, NEW r \in Roles, StartAssign(d, i, r)
      PROVE  AccountsTypeOK'
  <2>1. task' \in [Desks -> Tasks]
    BY <1>a, <1>2, TaskTypes DEF StartAssign
  <2>2. QED
    BY <1>2, <2>1 DEF StartAssign, Counted
<1>3. ASSUME NEW d \in Desks, NEW kind, NEW pc, NEW i \in UserIds, NEW n \in Nat,
             \/ kind \in {"reset", "confirm"} /\ pc = "password"
             \/ kind = "verify" /\ pc = "token",
             StartTask(d, kind, pc, i, n)
      PROVE  AccountsTypeOK'
  <2>1. task' \in [Desks -> Tasks]
    BY <1>a, <1>3, TaskTypes DEF StartTask
  <2>2. QED
    BY <1>3, <2>1 DEF StartTask, Counted
<1>4. ASSUME NEW d \in Desks, StartReset(d) \/ StartVerify(d) \/ StartConfirm(d)
      PROVE  AccountsTypeOK'
  <2>1. \A n \in alive : n \in Nat
    OBVIOUS
  <2>2. QED
    BY <1>3, <1>4, <2>1 DEF StartReset, StartVerify, StartConfirm
<1>5. ASSUME NEW d \in Desks, CreateUser(d) PROVE AccountsTypeOK'
  <2>1. CASE EmailRefused(task[d].email) /\ Clears(d) /\ UNCHANGED user
    BY <1>5, <1>b, <2>1 DEF CreateUser
  <2>2. CASE \E i \in UserIds :
               /\ user' = [user EXCEPT ![i] =
                             [NoRow EXCEPT !.state = "present", !.email = task[d].email]]
               /\ Puts(d, [task[d] EXCEPT !.pc = "role", !.user = i])
    <3>1. [NoRow EXCEPT !.state = "present", !.email = task[d].email] \in UserRows
      BY DEF NoRow, UserRows, Tasks
    <3>2. user' \in [UserIds -> UserRows]
      BY <2>2, <3>1
    <3>3. task' \in [Desks -> Tasks]
      BY <1>a, <1>5, <2>2, TaskTypes DEF CreateUser
    <3>4. QED
      BY <1>5, <3>2, <3>3 DEF CreateUser
  <2>3. QED
    BY <1>5, <2>1, <2>2 DEF CreateUser
<1>6. ASSUME NEW d \in Desks, FindRole(d) PROVE AccountsTypeOK'
  <2>1. task' \in [Desks -> Tasks] /\ cut' \subseteq UserIds
    BY <1>a, <1>c, <1>6, TaskTypes DEF FindRole
  <2>2. QED
    BY <1>6, <2>1 DEF FindRole
<1>7. ASSUME NEW d \in Desks, GrantRole(d) PROVE AccountsTypeOK'
  <2>1. task' \in [Desks -> Tasks] /\ cut' \subseteq UserIds
    BY <1>b, <1>c, <1>7 DEF GrantRole
  <2>2. task[d].user \in UserIds /\ task[d].role \in Roles
    BY <1>7 DEF GrantRole, Tasks
  <2>3. grants' \subseteq Grants
    <3>1. [user |-> task[d].user, role |-> task[d].role, active |-> TRUE] \in Grants
      BY <2>2, Zenon DEF Grants
    <3>2. QED
      BY <1>7, <3>1 DEF GrantRole
  <2>4. QED
    BY <1>7, <2>1, <2>3 DEF GrantRole
<1>8. ASSUME NEW i \in UserIds, NEW r \in Roles, RemoveRole(i, r) PROVE AccountsTypeOK'
  <2>1. grants' \subseteq Grants
    BY <1>8 DEF RemoveRole, Grants
  <2>2. QED
    BY <1>8, <2>1 DEF RemoveRole, Counted
<1>9. ASSUME NEW i \in UserIds, DeleteUser(i) PROVE AccountsTypeOK'
  <2>1. [NoRow EXCEPT !.state = "deleted"] \in UserRows
    BY DEF NoRow, UserRows
  <2>2. QED
    BY <1>9, <2>1 DEF DeleteUser, Counted
<1>10. ASSUME NEW i \in UserIds, ForgotPassword(i) PROVE AccountsTypeOK'
  <2>1. user' \in [UserIds -> UserRows]
    BY <1>10, <1>d DEF ForgotPassword, UserRows
  <2>2. QED
    BY <1>10, <1>d, <2>1 DEF ForgotPassword, Counted
<1>11. ASSUME NEW i \in UserIds, RequestPasswordChange(i) PROVE AccountsTypeOK'
  <2>1. user' \in [UserIds -> UserRows]
    BY <1>11, <1>d DEF RequestPasswordChange, UserRows
  <2>2. QED
    BY <1>11, <1>d, <2>1 DEF RequestPasswordChange, Counted
<1>12. ASSUME NEW d \in Desks, WriteToken(d) PROVE AccountsTypeOK'
  <2>1. task[d].user \in UserIds /\ task[d].secret \in Nat
    BY <1>12 DEF WriteToken, Tasks
  <2>2. task' \in [Desks -> Tasks]
    BY <1>b, <1>12 DEF WriteToken
  <2>3. CASE UNCHANGED <<issued, alive, user>>
    BY <1>12, <2>2, <2>3 DEF WriteToken
  <2>4. CASE /\ Issue("token", task[d].user, task[d].secret)
             /\ user' = [user EXCEPT ![task[d].user].token = NewSecret]
    <3>1. /\ issued' \in Seq(Secrets) /\ alive' \subseteq 1..Len(issued') /\ NewSecret \in Nat
      BY <1>d, <2>1, <2>4
    <3>2. user' \in [UserIds -> UserRows]
      BY <2>4, <3>1 DEF UserRows
    <3>3. QED
      BY <1>12, <2>2, <3>1, <3>2 DEF WriteToken
  <2>5. QED
    BY <1>12, <2>3, <2>4 DEF WriteToken
<1>13. ASSUME NEW d \in Desks, WritePassword(d) PROVE AccountsTypeOK'
  <2>1. task[d].user \in UserIds /\ task[d].secret \in Nat
    BY <1>13 DEF WritePassword, Tasks
  <2>2. task' \in [Desks -> Tasks]
    BY <1>b, <1>13 DEF WritePassword
  <2>3. user' \in [UserIds -> UserRows]
    BY <1>13, <2>1 DEF WritePassword, UserRows
  <2>4. QED
    BY <1>13, <2>2, <2>3 DEF WritePassword
<1>14. ASSUME NEW d \in Desks, CutShort(d) PROVE AccountsTypeOK'
  BY <1>14, <1>c DEF CutShort, Err
<1>15. ASSUME NEW n \in alive, Lapse(n) PROVE AccountsTypeOK'
  BY <1>15 DEF Lapse
<1>16. CASE UNCHANGED accountVars
  BY <1>16 DEF accountVars
<1>17. QED
  BY <1>1, <1>2, <1>4, <1>5, <1>6, <1>7, <1>8, <1>9, <1>10, <1>11, <1>12, <1>13, <1>14, <1>15,
     <1>16 DEF AccountsNext

\* Every reachable state is well typed.
THEOREM AccountsTyping == AccountsSpec => []AccountsTypeOK
BY AccountsTypingInit, AccountsTypingNext, PTL DEF AccountsSpec

-----------------------------------------------------------------------------
(***************************************************************************)
(* How a step changes the users: it leaves alone who exists under which    *)
(* e-mail, or deletes a user, or creates one under an address nobody has.  *)
(***************************************************************************)
SameUsers == \A i \in UserIds :
    Present(i)' => Present(i) /\ user'[i].email = user[i].email
Creates(d, i) ==
    /\ task[d].pc = "create" /\ ~EmailKnown(task[d].email)
    /\ user[i].state = "unused"
    /\ user' = [user EXCEPT ![i] = [NoRow EXCEPT !.state = "present", !.email = task[d].email]]
    /\ task' = [task EXCEPT ![d] = [task[d] EXCEPT !.pc = "role", !.user = i]]
    /\ UNCHANGED <<engine, roleState, grants, issued, alive, cut>>

\* Writing a secret or a password into a row changes neither.
LEMMA SecretEdit ==
    ASSUME AccountsTypeOK, NEW i \in UserIds, NEW v,
           \/ user' = [user EXCEPT ![i] = [user[i] EXCEPT !.reset = v]]
           \/ user' = [user EXCEPT ![i] = [user[i] EXCEPT !.code = v]]
           \/ user' = [user EXCEPT ![i] = [user[i] EXCEPT !.token = v]]
           \/ user' = [user EXCEPT ![i] = [user[i] EXCEPT !.password = v]]
    PROVE  \A j \in UserIds : user'[j].state = user[j].state /\ user'[j].email = user[j].email
<1> SUFFICES ASSUME NEW j \in UserIds
             PROVE  user'[j].state = user[j].state /\ user'[j].email = user[j].email
  OBVIOUS
<1>1. user[j] \in UserRows /\ user \in [UserIds -> UserRows]
  BY DEF AccountsTypeOK
<1>2. CASE j # i
  BY <1>1, <1>2
<1>3. CASE j = i
  <2>1. \/ user'[j] = [user[j] EXCEPT !.reset = v]
        \/ user'[j] = [user[j] EXCEPT !.code = v]
        \/ user'[j] = [user[j] EXCEPT !.token = v]
        \/ user'[j] = [user[j] EXCEPT !.password = v]
    BY <1>1, <1>3
  <2>2. QED
    BY <1>1, <2>1 DEF UserRows
<1>4. QED
  BY <1>2, <1>3

\* Only the administrator's deletion makes a user disappear.
LEMMA UsersStay ==
    ASSUME AccountsTypeOK, [AccountsNext]_accountVars, NEW i \in UserIds, Present(i), ~DeleteUser(i)
    PROVE  Present(i)'
<1>1. CASE UNCHANGED user
  BY <1>1 DEF Present
<1>2. ASSUME NEW d \in Desks, CreateUser(d) PROVE Present(i)'
  BY <1>1, <1>2 DEF CreateUser, NextId, Present, AccountsTypeOK
<1>3. ASSUME NEW j \in UserIds, DeleteUser(j) PROVE Present(i)'
  BY <1>3 DEF DeleteUser, Present, AccountsTypeOK
<1>4. ASSUME NEW j \in UserIds, ForgotPassword(j) \/ RequestPasswordChange(j) PROVE Present(i)'
  <2>1. \/ user' = [user EXCEPT ![j] = [user[j] EXCEPT !.reset = NewSecret]]
        \/ user' = [user EXCEPT ![j] = [user[j] EXCEPT !.code = NewSecret]]
    BY <1>4 DEF ForgotPassword, RequestPasswordChange
  <2>2. QED
    BY <2>1, SecretEdit DEF Present
<1>5. ASSUME NEW d \in Desks, WriteToken(d) PROVE Present(i)'
  <2>1. task[d].user \in UserIds
    BY <1>5 DEF WriteToken, Tasks, AccountsTypeOK
  <2>2. \/ UNCHANGED user
        \/ user' = [user EXCEPT ![task[d].user] = [user[task[d].user] EXCEPT !.token = NewSecret]]
    BY <1>5 DEF WriteToken
  <2>3. QED
    BY <1>1, <2>1, <2>2, SecretEdit DEF Present
<1>6. ASSUME NEW d \in Desks, WritePassword(d) PROVE Present(i)'
  <2>1. task[d].user \in UserIds
    BY <1>6 DEF WritePassword, Tasks, AccountsTypeOK
  <2>2. \/ UNCHANGED user
        \/ user' = [user EXCEPT ![task[d].user] =
                       [user[task[d].user] EXCEPT !.password = task[d].secret]]
    BY <1>6 DEF WritePassword
  <2>3. QED
    BY <1>1, <2>1, <2>2, SecretEdit DEF Present
<1>7. QED
  BY <1>1, <1>2, <1>3, <1>4, <1>5, <1>6 DEF AccountsNext, accountVars, StartRegistration,
     StartAssign, StartReset, StartVerify, StartConfirm, StartTask, FindRole, GrantRole,
     CutShort, RemoveRole, Lapse

LEMMA UserSteps ==
    ASSUME AccountsTypeOK, [AccountsNext]_accountVars
    PROVE  SameUsers \/ \E d \in Desks, i \in UserIds : Creates(d, i)
<1>1. CASE UNCHANGED user
  BY <1>1 DEF SameUsers, Present
<1>2. ASSUME NEW d \in Desks, CreateUser(d)
      PROVE  SameUsers \/ \E i \in UserIds : Creates(d, i)
  BY <1>1, <1>2 DEF CreateUser, EmailRefused, NextId, Puts, Creates, SameUsers, Present
<1>3. ASSUME NEW i \in UserIds, DeleteUser(i) PROVE SameUsers
  BY <1>3 DEF DeleteUser, NoRow, SameUsers, Present, AccountsTypeOK
<1>4. ASSUME NEW i \in UserIds, ForgotPassword(i) \/ RequestPasswordChange(i) PROVE SameUsers
  <2>1. \/ user' = [user EXCEPT ![i] = [user[i] EXCEPT !.reset = NewSecret]]
        \/ user' = [user EXCEPT ![i] = [user[i] EXCEPT !.code = NewSecret]]
    BY <1>4 DEF ForgotPassword, RequestPasswordChange
  <2>2. QED
    BY <2>1, SecretEdit DEF SameUsers, Present
<1>5. ASSUME NEW d \in Desks, WriteToken(d) PROVE SameUsers
  <2>1. task[d].user \in UserIds
    BY <1>5 DEF WriteToken, Tasks, AccountsTypeOK
  <2>2. \/ UNCHANGED user
        \/ user' = [user EXCEPT ![task[d].user] = [user[task[d].user] EXCEPT !.token = NewSecret]]
    BY <1>5 DEF WriteToken
  <2>3. QED
    BY <1>1, <2>1, <2>2, SecretEdit DEF SameUsers, Present
<1>6. ASSUME NEW d \in Desks, WritePassword(d) PROVE SameUsers
  <2>1. task[d].user \in UserIds
    BY <1>6 DEF WritePassword, Tasks, AccountsTypeOK
  <2>2. \/ UNCHANGED user
        \/ user' = [user EXCEPT ![task[d].user] =
                       [user[task[d].user] EXCEPT !.password = task[d].secret]]
    BY <1>6 DEF WritePassword
  <2>3. QED
    BY <1>1, <2>1, <2>2, SecretEdit DEF SameUsers, Present
<1>7. QED
  BY <1>1, <1>2, <1>3, <1>4, <1>5, <1>6 DEF AccountsNext, accountVars, StartRegistration,
     StartAssign, StartReset, StartVerify, StartConfirm, StartTask, FindRole, GrantRole,
     CutShort, RemoveRole, Lapse

\* At most one user has an e-mail, although the check precedes the insertion.
THEOREM EmailStaysUnique == AccountsSpec => []EmailsUnique
<1>1. AccountsInit => EmailsUnique
  <2> SUFFICES ASSUME AccountsInit PROVE EmailsUnique
    OBVIOUS
  <2>0. PICK n \in {0, MaxUsers} : \E addr \in [1..n -> Emails] :
            /\ \A i, j \in 1..n : addr[i] = addr[j] => i = j
            /\ user = [i \in UserIds |-> IF i > n THEN NoRow
                                         ELSE [NoRow EXCEPT !.state = "present", !.email = addr[i]]]
    BY DEF AccountsInit
  <2>1. PICK addr \in [1..n -> Emails] :
            /\ \A i, j \in 1..n : addr[i] = addr[j] => i = j
            /\ user = [i \in UserIds |-> IF i > n THEN NoRow
                                         ELSE [NoRow EXCEPT !.state = "present", !.email = addr[i]]]
    BY <2>0
  <2>2. n \in Nat
    BY AccountAssumption
  <2>3. ASSUME NEW i \in UserIds, Present(i) PROVE i \in 1..n /\ user[i].email = addr[i]
    <3>1. user[i] = IF i > n THEN NoRow
                    ELSE [NoRow EXCEPT !.state = "present", !.email = addr[i]]
      BY <2>1
    <3>2. ~(i > n)
      BY <2>3, <3>1 DEF Present, NoRow
    <3>3. i \in 1..n
      BY <2>2, <3>2 DEF UserIds
    <3>4. user[i].email = addr[i]
      BY <3>1, <3>2 DEF NoRow
    <3>5. QED
      BY <3>3, <3>4
  <2>4. \A i, j \in 1..n : addr[i] = addr[j] => i = j
    BY <2>1
  <2>5. QED
    BY <2>3, <2>4, Zenon DEF EmailsUnique
<1>2. EmailsUnique /\ AccountsTypeOK /\ [AccountsNext]_accountVars => EmailsUnique'
  <2> SUFFICES ASSUME EmailsUnique, AccountsTypeOK, [AccountsNext]_accountVars
               PROVE  EmailsUnique'
    OBVIOUS
  <2>1. CASE SameUsers
    BY <2>1 DEF SameUsers, EmailsUnique
  <2>2. ASSUME NEW d \in Desks, NEW i \in UserIds, Creates(d, i) PROVE EmailsUnique'
    <3>1. \A j \in UserIds : j # i => user'[j] = user[j]
      BY <2>2 DEF Creates, AccountsTypeOK
    <3>2. user'[i].email = task[d].email
      BY <2>2 DEF Creates, AccountsTypeOK, NoRow
    <3>3. \A j \in UserIds : j # i /\ Present(j)' => user'[j].email # task[d].email
      BY <2>2, <3>1 DEF Creates, EmailKnown, Present
    <3>4. QED
      BY <3>1, <3>2, <3>3 DEF EmailsUnique, Present
  <2>3. QED
    BY <2>1, <2>2, UserSteps
<1>3. QED
  BY <1>1, <1>2, AccountsTyping, PTL DEF AccountsSpec

-----------------------------------------------------------------------------
(***************************************************************************)
(* Roles.  A user stays without one only while a registration runs; what   *)
(* ends a registration before its grant puts the user into cut.            *)
(***************************************************************************)
HasRole(i) == \E g \in grants : g.user = i
Registering(i) == \E d \in Desks : task[d].kind \in Registrations /\ task[d].user = i

\* Puts only writes the desk it is called for, and Clears only that one.
LEMMA OtherDesks ==
    ASSUME AccountsTypeOK, NEW d \in Desks, NEW t, Puts(d, t)
    PROVE  task'[d] = t /\ \A e \in Desks : e # d => task'[e] = task[e]
BY DEF Puts, AccountsTypeOK

\* A request that ends without a grant ends no registration, or its user joins cut.
LEMMA GivingUp ==
    ASSUME AccountsTypeOK, NEW d \in Desks, GivesUp(d), NEW i \in UserIds, Registering(i)
    PROVE  Registering(i)' \/ i \in cut'
<1>1. PICK e \in Desks : task[e].kind \in Registrations /\ task[e].user = i
  BY DEF Registering
<1>2. CASE e = d
  BY <1>1, <1>2, AccountAssumption DEF GivesUp, UserIds
<1>3. CASE e # d
  BY <1>1, <1>3, OtherDesks DEF GivesUp, Clears, Registering
<1>4. QED
  BY <1>2, <1>3

\* A request that does not register leaves those that do alone.
LEMMA OthersRegister ==
    ASSUME AccountsTypeOK, NEW d \in Desks, task[d].kind \notin Registrations, NEW t, Puts(d, t),
           NEW i \in UserIds, Registering(i)
    PROVE  Registering(i)'
BY OtherDesks DEF Registering

LEMMA RoleStep ==
    ASSUME AccountsTypeOK, [AccountsNext]_accountVars, RegisteredHaveRole, NEW i \in UserIds,
           Present(i)', Present(i), i \notin cut'
    PROVE  HasRole(i)' \/ Registering(i)'
<1> USE DEF AccountsTypeOK
<1>a. \A d \in Desks : Free(d) => task[d].kind \notin Registrations
  BY DEF Free, Registrations
<1>1. ASSUME NEW d \in Desks, NEW kind \in Registrations, NEW e \in Emails, NEW r \in Roles,
             NEW named \in BOOLEAN, StartRegistration(d, kind, e, r, named)
      PROVE  HasRole(i)' \/ Registering(i)'
  BY <1>a, <1>1, OthersRegister DEF StartRegistration, RegisteredHaveRole, HasRole, Registering
<1>2. ASSUME NEW d \in Desks, NEW j \in UserIds, NEW r \in Roles, StartAssign(d, j, r)
      PROVE  HasRole(i)' \/ Registering(i)'
  BY <1>a, <1>2, OthersRegister DEF StartAssign, RegisteredHaveRole, HasRole, Registering
<1>3. ASSUME NEW d \in Desks, StartReset(d) \/ StartVerify(d) \/ StartConfirm(d)
      PROVE  HasRole(i)' \/ Registering(i)'
  BY <1>a, <1>3, OthersRegister DEF StartReset, StartVerify, StartConfirm, StartTask,
                                    RegisteredHaveRole, HasRole, Registering
<1>4. ASSUME NEW d \in Desks, CreateUser(d) PROVE HasRole(i)' \/ Registering(i)'
  <2>1. task[d].user = 0
    BY <1>4 DEF CreateUser, Tasks
  <2>2. task[d].user # i
    BY <2>1, AccountAssumption DEF UserIds
  <2>3. PICK t : Puts(d, t)
    BY <1>4 DEF CreateUser, Clears
  <2>4. Registering(i) => Registering(i)'
    BY <2>2, <2>3, OtherDesks DEF Registering
  <2>5. QED
    BY <1>4, <2>4 DEF CreateUser, RegisteredHaveRole, HasRole, Registering
<1>5. ASSUME NEW d \in Desks, FindRole(d) PROVE HasRole(i)' \/ Registering(i)'
  <2>1. CASE GivesUp(d)
    BY <1>5, <2>1, GivingUp DEF FindRole, RegisteredHaveRole, HasRole, Registering, GivesUp
  <2>2. CASE Puts(d, [task[d] EXCEPT !.pc = "grant"]) /\ UNCHANGED cut
    <3>1. /\ task'[d].kind = task[d].kind /\ task'[d].user = task[d].user
          /\ \A e \in Desks : e # d => task'[e] = task[e]
      BY <2>2, OtherDesks DEF Tasks
    <3>2. Registering(i) => Registering(i)'
      BY <3>1 DEF Registering
    <3>3. QED
      BY <1>5, <2>2, <3>2 DEF FindRole, RegisteredHaveRole, HasRole, Registering
  <2>3. QED
    BY <1>5, <2>1, <2>2 DEF FindRole
<1>6. ASSUME NEW d \in Desks, GrantRole(d) PROVE HasRole(i)' \/ Registering(i)'
  <2>1. CASE GivesUp(d) /\ UNCHANGED grants
    BY <1>6, <2>1, GivingUp DEF GrantRole, RegisteredHaveRole, HasRole, Registering, GivesUp
  <2>2. CASE /\ grants' = grants \union
                   {[user |-> task[d].user, role |-> task[d].role, active |-> TRUE]}
             /\ Clears(d) /\ UNCHANGED cut
    <3>1. task[d].user = i => HasRole(i)'
      <4>1. [user |-> task[d].user, role |-> task[d].role, active |-> TRUE] \in grants'
        BY <2>2
      <4>2. QED
        BY <4>1, Zenon DEF HasRole
    <3>2. Registering(i) /\ task[d].user # i => Registering(i)'
      BY <2>2, OtherDesks DEF Registering, Clears
    <3>3. QED
      BY <2>2, <3>1, <3>2 DEF RegisteredHaveRole, HasRole, Registering
  <2>3. QED
    BY <1>6, <2>1, <2>2 DEF GrantRole
<1>7. ASSUME NEW j \in UserIds, NEW r \in Roles, RemoveRole(j, r)
      PROVE  HasRole(i)' \/ Registering(i)'
  <2>1. \A g \in grants : [g EXCEPT !.active = FALSE].user = g.user
    BY DEF Grants
  <2>2. HasRole(i) => HasRole(i)'
    BY <1>7, <2>1 DEF RemoveRole, HasRole
  <2>3. QED
    BY <1>7, <2>2 DEF RemoveRole, RegisteredHaveRole, HasRole, Registering
<1>8. ASSUME NEW j \in UserIds, DeleteUser(j) PROVE HasRole(i)' \/ Registering(i)'
  <2>1. i # j
    BY <1>8 DEF DeleteUser, Present, NoRow
  <2>2. QED
    BY <1>8, <2>1 DEF DeleteUser, RegisteredHaveRole, HasRole, Registering
<1>9. ASSUME NEW d \in Desks, WriteToken(d) \/ WritePassword(d)
      PROVE  HasRole(i)' \/ Registering(i)'
  <2>1. task[d].kind \notin Registrations /\ Puts(d, NoTask)
    BY <1>9 DEF WriteToken, WritePassword, Clears, Tasks, Registrations
  <2>2. QED
    BY <1>9, <2>1, OthersRegister DEF WriteToken, WritePassword, RegisteredHaveRole, HasRole,
                                      Registering
<1>10. ASSUME NEW d \in Desks, CutShort(d) PROVE HasRole(i)' \/ Registering(i)'
  BY <1>10, GivingUp DEF CutShort, RegisteredHaveRole, HasRole, Registering, GivesUp
<1>11. CASE UNCHANGED <<grants, task, cut>>
  BY <1>11 DEF RegisteredHaveRole, HasRole, Registering
<1>12. QED
  BY <1>1, <1>2, <1>3, <1>4, <1>5, <1>6, <1>7, <1>8, <1>9, <1>10, <1>11
     DEF AccountsNext, accountVars, ForgotPassword, RequestPasswordChange, Lapse

\* A user without any role is one whose registration still runs or ended in an error.
THEOREM RegistrationGivesRole == AccountsSpec => []RegisteredHaveRole
<1>1. AccountsInit => RegisteredHaveRole
  <2> SUFFICES ASSUME AccountsInit, NEW i \in UserIds, Present(i) PROVE HasRole(i)
    BY DEF RegisteredHaveRole, HasRole
  <2>0. PICK n \in {0, MaxUsers} : \E addr \in [1..n -> Emails] :
            /\ user = [j \in UserIds |-> IF j > n THEN NoRow
                                         ELSE [NoRow EXCEPT !.state = "present", !.email = addr[j]]]
            /\ grants = [user : 1..n, role : {DefaultRole}, active : {TRUE}]
    BY DEF AccountsInit
  <2>1. PICK addr \in [1..n -> Emails] :
            /\ user = [j \in UserIds |-> IF j > n THEN NoRow
                                         ELSE [NoRow EXCEPT !.state = "present", !.email = addr[j]]]
            /\ grants = [user : 1..n, role : {DefaultRole}, active : {TRUE}]
    BY <2>0
  <2>2. i \in 1..n
    <3>1. user[i] = IF i > n THEN NoRow
                    ELSE [NoRow EXCEPT !.state = "present", !.email = addr[i]]
      BY <2>1
    <3>2. ~(i > n)
      BY <3>1 DEF Present, NoRow
    <3>3. QED
      BY <3>2, AccountAssumption DEF UserIds
  <2>3. [user |-> i, role |-> DefaultRole, active |-> TRUE] \in grants
    BY <2>1, <2>2, Zenon
  <2>4. QED
    BY <2>3 DEF HasRole
<1>2. RegisteredHaveRole /\ AccountsTypeOK /\ [AccountsNext]_accountVars => RegisteredHaveRole'
  <2> SUFFICES ASSUME RegisteredHaveRole, AccountsTypeOK, [AccountsNext]_accountVars,
                      NEW i \in UserIds, Present(i)', i \notin cut'
               PROVE  HasRole(i)' \/ Registering(i)'
    BY DEF RegisteredHaveRole, HasRole, Registering
  <2>1. CASE Present(i)
    BY <2>1, RoleStep
  <2>2. ASSUME NEW d \in Desks, NEW j \in UserIds, Creates(d, j), ~Present(i)
        PROVE  Registering(i)'
    <3>1. i = j
      BY <2>2 DEF Creates, AccountsTypeOK, Present
    <3>2. task[d].kind \in Registrations /\ task[d] \in Tasks
      BY <2>2 DEF Creates, AccountsTypeOK, Tasks
    <3>3. task'[d].kind = task[d].kind /\ task'[d].user = i
      BY <2>2, <3>1, <3>2 DEF Creates, AccountsTypeOK, Tasks
    <3>4. QED
      BY <3>2, <3>3 DEF Registering
  <2>3. QED
    BY <2>1, <2>2, UserSteps DEF SameUsers
<1>3. QED
  BY <1>1, <1>2, AccountsTyping, PTL DEF AccountsSpec
-----------------------------------------------------------------------------
(***************************************************************************)
(* Grants.                                                                 *)
(***************************************************************************)
\* A role is granted to a user once, and on PostgreSQL only to users who exist.
THEOREM GrantsStaySound == AccountsSpec => []GrantsAreSound
<1>1. AccountsInit => GrantsAreSound
  <2> SUFFICES ASSUME AccountsInit PROVE GrantsAreSound
    OBVIOUS
  <2>0. PICK n \in {0, MaxUsers} : \E addr \in [1..n -> Emails] :
            /\ user = [j \in UserIds |-> IF j > n THEN NoRow
                                         ELSE [NoRow EXCEPT !.state = "present", !.email = addr[j]]]
            /\ grants = [user : 1..n, role : {DefaultRole}, active : {TRUE}]
    BY DEF AccountsInit
  <2>1. PICK addr \in [1..n -> Emails] :
            /\ user = [j \in UserIds |-> IF j > n THEN NoRow
                                         ELSE [NoRow EXCEPT !.state = "present", !.email = addr[j]]]
            /\ grants = [user : 1..n, role : {DefaultRole}, active : {TRUE}]
    BY <2>0
  <2>2. ASSUME NEW i \in 1..n PROVE Present(i)
    <3>1. i \in UserIds /\ ~(i > n)
      BY AccountAssumption DEF UserIds
    <3>2. user[i] = [NoRow EXCEPT !.state = "present", !.email = addr[i]]
      BY <2>1, <3>1
    <3>3. QED
      BY <3>2 DEF Present, NoRow
  <2>3. \A g \in grants : g.user \in 1..n
    BY <2>1
  <2>4. ASSUME NEW g \in grants, NEW h \in grants, g.user = h.user PROVE g = h
    <3>1. g \in [user : 1..n, role : {DefaultRole}, active : {TRUE}]
      BY <2>1
    <3>2. h \in [user : 1..n, role : {DefaultRole}, active : {TRUE}]
      BY <2>1
    <3>3. g = [user |-> g.user, role |-> DefaultRole, active |-> TRUE]
      BY <3>1, Zenon
    <3>4. h = [user |-> h.user, role |-> DefaultRole, active |-> TRUE]
      BY <3>2, Zenon
    <3>5. QED
      BY <2>4, <3>3, <3>4, Zenon
  <2>5. QED
    BY <2>2, <2>3, <2>4 DEF GrantsAreSound
<1>2. GrantsAreSound /\ AccountsTypeOK /\ [AccountsNext]_accountVars => GrantsAreSound'
  <2> SUFFICES ASSUME GrantsAreSound, AccountsTypeOK, [AccountsNext]_accountVars
               PROVE  GrantsAreSound'
    OBVIOUS
  <2>a. UNCHANGED engine
    BY DEF AccountsNext, accountVars, StartRegistration, StartAssign, StartReset, StartVerify,
           StartConfirm, StartTask, CreateUser, FindRole, GrantRole, WriteToken, WritePassword,
           CutShort, RemoveRole, DeleteUser, ForgotPassword, RequestPasswordChange, Lapse
  <2>b. \A g \in grants : g.user \in UserIds
    BY DEF AccountsTypeOK, Grants
  <2>1. CASE UNCHANGED grants /\ \A i \in UserIds : ~DeleteUser(i)
    <3>1. \A i \in UserIds : Present(i) => Present(i)'
      BY <2>1, UsersStay
    <3>2. QED
      BY <2>1, <2>a, <2>b, <3>1 DEF GrantsAreSound
  <2>2. ASSUME NEW i \in UserIds, DeleteUser(i) PROVE GrantsAreSound'
    <3>1. \A j \in UserIds : j # i /\ Present(j) => Present(j)'
      BY <2>2 DEF DeleteUser, Present, AccountsTypeOK
    <3>2. QED
      BY <2>2, <2>a, <2>b, <3>1 DEF DeleteUser, GrantsAreSound
  <2>3. ASSUME NEW d \in Desks, GrantRole(d), ~(UNCHANGED grants) PROVE GrantsAreSound'
    <3> DEFINE new == [user |-> task[d].user, role |-> task[d].role, active |-> TRUE]
    <3>1. /\ grants' = grants \union {new} /\ ~GrantRefused(task[d]) /\ UNCHANGED user
      BY <2>3 DEF GrantRole
    <3>2. new.user = task[d].user /\ new.role = task[d].role
      OBVIOUS
    <3>3. \A g \in grants : ~(g.user = new.user /\ g.role = new.role)
      BY <3>1, <3>2 DEF GrantRefused
    <3>4. engine = "postgres" => Present(new.user)
      BY <3>1, <3>2 DEF GrantRefused
    <3> HIDE DEF new
    <3>5. QED
      BY <2>a, <3>1, <3>3, <3>4 DEF GrantsAreSound, Present
  <2>4. ASSUME NEW i \in UserIds, NEW r \in Roles, RemoveRole(i, r) PROVE GrantsAreSound'
    <3> DEFINE off(g) == IF g.user = i /\ g.role = r THEN [g EXCEPT !.active = FALSE] ELSE g
    <3>1. grants' = {off(g) : g \in grants} /\ UNCHANGED user
      BY <2>4 DEF RemoveRole
    <3>2. \A g \in grants : off(g).user = g.user /\ off(g).role = g.role
      BY DEF AccountsTypeOK, Grants
    <3> HIDE DEF off
    <3>3. ASSUME NEW g \in grants', NEW h \in grants', g.user = h.user, g.role = h.role
          PROVE  g = h
      <4>1. PICK g0 \in grants : g = off(g0)
        BY <3>1
      <4>2. PICK h0 \in grants : h = off(h0)
        BY <3>1
      <4>3. g0 = h0
        BY <3>2, <3>3, <4>1, <4>2 DEF GrantsAreSound
      <4>4. QED
        BY <4>1, <4>2, <4>3
    <3>4. ASSUME engine' = "postgres", NEW g \in grants' PROVE Present(g.user)'
      <4>1. PICK g0 \in grants : g = off(g0)
        BY <3>1
      <4>2. QED
        BY <2>a, <3>1, <3>2, <3>4, <4>1 DEF GrantsAreSound, Present
    <3>5. QED
      BY <3>3, <3>4 DEF GrantsAreSound
  <2>5. QED
    BY <2>1, <2>2, <2>3, <2>4 DEF AccountsNext, accountVars, StartRegistration, StartAssign,
       StartReset, StartVerify, StartConfirm, StartTask, CreateUser, FindRole, WriteToken,
       WritePassword, CutShort, ForgotPassword, RequestPasswordChange, Lapse
<1>3. QED
  BY <1>1, <1>2, AccountsTyping, PTL DEF AccountsSpec

\* All three hold together.
THEOREM RegistrationsStaySound == AccountsSpec => []RegistrationsSound
  BY EmailStaysUnique, RegistrationGivesRole, GrantsStaySound, PTL DEF RegistrationsSound
-----------------------------------------------------------------------------
(***************************************************************************)
(* Passwords.  Every secret in a row or carried by a request was issued    *)
(* for that account, and a token carries the code it was given for.        *)
(***************************************************************************)
SecretOf(kind, i, n) == n \in 1..Len(issued) /\ issued[n].kind = kind /\ issued[n].user = i
Vouches(i, n) ==
    \/ SecretOf("reset", i, n)
    \/ SecretOf("token", i, n) /\ SecretOf("code", i, issued[n].from)

RowFits(i) ==
    /\ user[i].reset # 0 => SecretOf("reset", i, user[i].reset)
    /\ user[i].code # 0 => SecretOf("code", i, user[i].code)
    /\ user[i].token # 0 => Vouches(i, user[i].token)
    /\ user[i].password # 0 => Vouches(i, user[i].password)
TaskFits(d) ==
    /\ task[d].pc = "password" => Vouches(task[d].user, task[d].secret)
    /\ task[d].pc = "token" => SecretOf("code", task[d].user, task[d].secret)
SecretsInv == (\A i \in UserIds : RowFits(i)) /\ (\A d \in Desks : TaskFits(d))

\* What is issued stays: a further secret changes nothing of the earlier ones.
LEMMA SecretsStay ==
    ASSUME AccountsTypeOK, NEW i, NEW n,
           UNCHANGED issued \/ \E x \in Secrets : issued' = Append(issued, x)
    PROVE  /\ \A kind : SecretOf(kind, i, n) => SecretOf(kind, i, n)'
           /\ Vouches(i, n) => Vouches(i, n)'
<1>1. CASE UNCHANGED issued
  BY <1>1 DEF SecretOf, Vouches
<1>2. ASSUME NEW x \in Secrets, issued' = Append(issued, x)
      PROVE  \A k \in 1..Len(issued) : k \in 1..Len(issued') /\ issued'[k] = issued[k]
  BY <1>2 DEF AccountsTypeOK
<1>3. QED
  BY <1>1, <1>2 DEF SecretOf, Vouches

LEMMA NewlyIssued ==
    ASSUME AccountsTypeOK, NEW kind \in {"reset", "code", "token"}, NEW i \in UserIds,
           NEW n \in Nat, Issue(kind, i, n)
    PROVE  /\ \E x \in Secrets : issued' = Append(issued, x)
           /\ \A m : m = NewSecret => SecretOf(kind, i, m)' /\ issued'[m].from = n
           /\ NewSecret # 0
<1>1. [kind |-> kind, user |-> i, from |-> n] \in Secrets
  BY DEF Secrets
<1>2. QED
  BY <1>1 DEF Issue, NewSecret, SecretOf, AccountsTypeOK

LEMMA SecretsInit == AccountsInit => SecretsInv
<1> SUFFICES ASSUME AccountsInit PROVE SecretsInv
  OBVIOUS
<1>1. \A d \in Desks : task[d].pc = "idle"
  BY DEF AccountsInit, NoTask
<1>2. PICK n \in {0, MaxUsers} : \E addr \in [1..n -> Emails] :
          user = [i \in UserIds |-> IF i > n THEN NoRow
                                    ELSE [NoRow EXCEPT !.state = "present", !.email = addr[i]]]
  BY DEF AccountsInit
<1>3. \A i \in UserIds : /\ user[i].reset = 0 /\ user[i].code = 0
                         /\ user[i].token = 0 /\ user[i].password = 0
  <2> SUFFICES ASSUME NEW i \in UserIds
               PROVE  /\ user[i].reset = 0 /\ user[i].code = 0
                      /\ user[i].token = 0 /\ user[i].password = 0
    OBVIOUS
  <2>1. PICK addr \in [1..n -> Emails] :
            user[i] = IF i > n THEN NoRow
                      ELSE [NoRow EXCEPT !.state = "present", !.email = addr[i]]
    BY <1>2
  <2>2. CASE i > n
    BY <2>1, <2>2 DEF NoRow
  <2>3. CASE ~(i > n)
    BY <2>1, <2>3 DEF NoRow
  <2>4. QED
    BY <2>2, <2>3
<1>4. QED
  BY <1>1, <1>3 DEF SecretsInv, RowFits, TaskFits

\* Rows and tasks that do not change keep fitting while secrets are issued.
LEMMA Frame ==
    ASSUME AccountsTypeOK, SecretsInv,
           UNCHANGED issued \/ \E x \in Secrets : issued' = Append(issued, x)
    PROVE  /\ \A i \in UserIds : user'[i] = user[i] => RowFits(i)'
           /\ \A d \in Desks : task'[d] = task[d] => TaskFits(d)'
<1>1. ASSUME NEW i \in UserIds, user'[i] = user[i] PROVE RowFits(i)'
  BY <1>1, SecretsStay DEF SecretsInv, RowFits
<1>2. ASSUME NEW d \in Desks, task'[d] = task[d] PROVE TaskFits(d)'
  BY <1>2, SecretsStay DEF SecretsInv, TaskFits
<1>3. QED
  BY <1>1, <1>2

LEMMA SecretsNext == AccountsTypeOK /\ SecretsInv /\ [AccountsNext]_accountVars => SecretsInv'
<1> SUFFICES ASSUME AccountsTypeOK, SecretsInv, [AccountsNext]_accountVars PROVE SecretsInv'
  OBVIOUS
<1>a. ASSUME UNCHANGED <<user, issued>>, NEW d \in Desks, NEW t, Puts(d, t), TaskFits(d)'
      PROVE  SecretsInv'
  BY <1>a, Frame, OtherDesks DEF SecretsInv
<1>b. ASSUME NEW d \in Desks, NEW t, Puts(d, t), t.pc \notin {"password", "token"}
      PROVE  TaskFits(d)'
  BY <1>b, OtherDesks DEF TaskFits
<1>c. NoTask.pc = "idle"
  BY DEF NoTask
<1>1. ASSUME NEW d \in Desks, NEW kind \in Registrations, NEW e \in Emails, NEW r \in Roles,
             NEW named \in BOOLEAN, StartRegistration(d, kind, e, r, named)
      PROVE  SecretsInv'
  BY <1>a, <1>b, <1>1 DEF StartRegistration, NoTask
<1>2. ASSUME NEW d \in Desks, NEW i \in UserIds, NEW r \in Roles, StartAssign(d, i, r)
      PROVE  SecretsInv'
  BY <1>a, <1>b, <1>2 DEF StartAssign, NoTask
<1>3. ASSUME NEW d \in Desks, NEW kind, NEW i \in UserIds, NEW n,
             StartTask(d, kind, "password", i, n), Vouches(i, n)
      PROVE  SecretsInv'
  <2>0. task'[d] = [NoTask EXCEPT !.kind = kind, !.pc = "password", !.user = i, !.secret = n]
    BY <1>3, OtherDesks DEF StartTask
  <2>1. task'[d].pc = "password" /\ task'[d].user = i /\ task'[d].secret = n
    BY <2>0 DEF NoTask
  <2>2. UNCHANGED <<user, issued>>
    BY <1>3 DEF StartTask
  <2>3. Vouches(i, n)'
    BY <1>3, <2>2, SecretsStay
  <2>4. TaskFits(d)'
    BY <2>1, <2>3 DEF TaskFits
  <2>5. QED
    BY <1>a, <1>3, <2>2, <2>4 DEF StartTask
<1>4. ASSUME NEW d \in Desks, StartReset(d) \/ StartConfirm(d) PROVE SecretsInv'
  <2>1. \A n \in alive : n # 0
    BY DEF AccountsTypeOK
  <2>2. \A i \in UserIds : user[i].reset \in alive => Vouches(i, user[i].reset)
    BY <2>1 DEF SecretsInv, RowFits, Vouches
  <2>3. \A i \in UserIds : user[i].token \in alive => Vouches(i, user[i].token)
    BY <2>1 DEF SecretsInv, RowFits
  <2>4. QED
    BY <1>3, <1>4, <2>2, <2>3 DEF StartReset, StartConfirm
<1>5. ASSUME NEW d \in Desks, StartVerify(d) PROVE SecretsInv'
  <2>1. PICK i \in UserIds, n \in alive : CodeAccepted(i, n) /\ StartTask(d, "verify", "token", i, n)
    BY <1>5 DEF StartVerify
  <2>2. SecretOf("code", i, n)
    BY <2>1 DEF CodeAccepted, SecretsInv, RowFits, AccountsTypeOK
  <2>0. task'[d] = [NoTask EXCEPT !.kind = "verify", !.pc = "token", !.user = i, !.secret = n]
    BY <2>1, OtherDesks DEF StartTask
  <2>3. task'[d].pc = "token" /\ task'[d].user = i /\ task'[d].secret = n
    BY <2>0 DEF NoTask
  <2>4. UNCHANGED <<user, issued>>
    BY <2>1 DEF StartTask
  <2>5. TaskFits(d)'
    BY <2>2, <2>3, <2>4, SecretsStay DEF TaskFits
  <2>6. QED
    BY <1>a, <2>1, <2>4, <2>5 DEF StartTask
<1>6. ASSUME NEW d \in Desks, CreateUser(d) PROVE SecretsInv'
  <2>1. CASE Clears(d) /\ UNCHANGED user
    BY <1>6, <1>a, <1>b, <1>c, <2>1 DEF CreateUser, Clears
  <2>2. ASSUME NEW i \in UserIds,
               user' = [user EXCEPT ![i] =
                          [NoRow EXCEPT !.state = "present", !.email = task[d].email]],
               Puts(d, [task[d] EXCEPT !.pc = "role", !.user = i])
        PROVE  SecretsInv'
    <3>1. UNCHANGED issued
      BY <1>6 DEF CreateUser
    <3>2. RowFits(i)' /\ \A j \in UserIds : j # i => user'[j] = user[j]
      BY <2>2 DEF AccountsTypeOK, RowFits, NoRow
    <3>0. [task[d] EXCEPT !.pc = "role", !.user = i].pc = "role"
      BY DEF AccountsTypeOK, Tasks
    <3>3. TaskFits(d)'
      BY <1>b, <2>2, <3>0
    <3>4. QED
      BY <2>2, <3>1, <3>2, <3>3, Frame, OtherDesks DEF SecretsInv
  <2>3. QED
    BY <1>6, <2>1, <2>2 DEF CreateUser
<1>7. ASSUME NEW d \in Desks, FindRole(d) PROVE SecretsInv'
  <2>1. [task[d] EXCEPT !.pc = "grant"].pc = "grant"
    BY DEF AccountsTypeOK, Tasks
  <2>2. QED
    BY <1>7, <1>a, <1>b, <1>c, <2>1 DEF FindRole, GivesUp, Clears
<1>8. ASSUME NEW d \in Desks, GrantRole(d) \/ CutShort(d) PROVE SecretsInv'
  BY <1>8, <1>a, <1>b, <1>c DEF GrantRole, CutShort, GivesUp, Clears
<1>9. ASSUME NEW i \in UserIds, DeleteUser(i) PROVE SecretsInv'
  <2>1. UNCHANGED <<issued, task>>
    BY <1>9 DEF DeleteUser
  <2>2. RowFits(i)' /\ \A j \in UserIds : j # i => user'[j] = user[j]
    BY <1>9 DEF DeleteUser, AccountsTypeOK, RowFits, NoRow
  <2>3. QED
    BY <2>1, <2>2, Frame DEF SecretsInv
<1>10. ASSUME NEW i \in UserIds, ForgotPassword(i) PROVE SecretsInv'
  <2>1. Issue("reset", i, 0) /\ user' = [user EXCEPT ![i].reset = NewSecret] /\ UNCHANGED task
    BY <1>10 DEF ForgotPassword
  <2>2. /\ \E x \in Secrets : issued' = Append(issued, x)
        /\ \A m : m = NewSecret => SecretOf("reset", i, m)'
    BY <2>1, NewlyIssued
  <2>3. /\ user'[i].reset = NewSecret /\ user'[i].code = user[i].code
        /\ user'[i].token = user[i].token /\ user'[i].password = user[i].password
        /\ \A j \in UserIds : j # i => user'[j] = user[j]
    BY <2>1 DEF AccountsTypeOK, UserRows
  <2>4. RowFits(i)'
    BY <2>2, <2>3, SecretsStay DEF SecretsInv, RowFits
  <2>5. QED
    BY <2>1, <2>2, <2>3, <2>4, Frame DEF SecretsInv
<1>11. ASSUME NEW i \in UserIds, RequestPasswordChange(i) PROVE SecretsInv'
  <2>1. Issue("code", i, 0) /\ user' = [user EXCEPT ![i].code = NewSecret] /\ UNCHANGED task
    BY <1>11 DEF RequestPasswordChange
  <2>2. /\ \E x \in Secrets : issued' = Append(issued, x)
        /\ \A m : m = NewSecret => SecretOf("code", i, m)'
    BY <2>1, NewlyIssued
  <2>3. /\ user'[i].code = NewSecret /\ user'[i].reset = user[i].reset
        /\ user'[i].token = user[i].token /\ user'[i].password = user[i].password
        /\ \A j \in UserIds : j # i => user'[j] = user[j]
    BY <2>1 DEF AccountsTypeOK, UserRows
  <2>4. RowFits(i)'
    BY <2>2, <2>3, SecretsStay DEF SecretsInv, RowFits
  <2>5. QED
    BY <2>1, <2>2, <2>3, <2>4, Frame DEF SecretsInv
<1>12. ASSUME NEW d \in Desks, WriteToken(d) PROVE SecretsInv'
  <2>0. task[d].user \in UserIds /\ task[d].secret \in Nat
    BY <1>12 DEF WriteToken, AccountsTypeOK, Tasks
  <2>a. PICK i \in UserIds : i = task[d].user
    BY <2>0
  <2>b. PICK code \in Nat : code = task[d].secret
    BY <2>0
  <2>1. i \in UserIds /\ code \in Nat /\ SecretOf("code", i, code)
    BY <1>12, <2>a, <2>b DEF WriteToken, SecretsInv, TaskFits
  <2>2. TaskFits(d)' /\ \A e \in Desks : e # d => task'[e] = task[e]
    BY <1>12, <1>b, <1>c, OtherDesks DEF WriteToken, Clears
  <2>3. CASE UNCHANGED <<issued, user>>
    BY <2>2, <2>3, Frame DEF SecretsInv
  <2>4. CASE Issue("token", i, code) /\ user' = [user EXCEPT ![i].token = NewSecret]
    <3>1. /\ \E x \in Secrets : issued' = Append(issued, x)
          /\ \A m : m = NewSecret => SecretOf("token", i, m)' /\ issued'[m].from = code
      BY <2>1, <2>4, NewlyIssued
    <3>2. /\ user'[i].token = NewSecret /\ user'[i].reset = user[i].reset
          /\ user'[i].code = user[i].code /\ user'[i].password = user[i].password
          /\ \A j \in UserIds : j # i => user'[j] = user[j]
      BY <2>1, <2>4 DEF AccountsTypeOK, UserRows
    <3>3. \A m : m = NewSecret => Vouches(i, m)'
      <4> SUFFICES ASSUME NEW m, m = NewSecret PROVE Vouches(i, m)'
        OBVIOUS
      <4>1. SecretOf("code", i, code)'
        BY <2>1, <3>1, SecretsStay
      <4>2. SecretOf("token", i, m)' /\ issued'[m].from = code
        BY <3>1
      <4>3. QED
        BY <4>1, <4>2 DEF Vouches
    <3>4. RowFits(i)'
      BY <3>1, <3>2, <3>3, SecretsStay DEF SecretsInv, RowFits
    <3>5. QED
      BY <2>2, <3>1, <3>2, <3>4, Frame DEF SecretsInv
  <2>5. QED
    BY <1>12, <2>a, <2>b, <2>3, <2>4 DEF WriteToken
<1>13. ASSUME NEW d \in Desks, WritePassword(d) PROVE SecretsInv'
  <2> DEFINE i == task[d].user
  <2>1. i \in UserIds /\ Vouches(i, task[d].secret) /\ UNCHANGED issued
    BY <1>13 DEF WritePassword, AccountsTypeOK, Tasks, SecretsInv, TaskFits
  <2>2. TaskFits(d)' /\ \A e \in Desks : e # d => task'[e] = task[e]
    BY <1>13, <1>b, <1>c, OtherDesks DEF WritePassword, Clears
  <2>3. CASE UNCHANGED user
    BY <2>1, <2>2, <2>3, Frame DEF SecretsInv
  <2>4. CASE user' = [user EXCEPT ![i].password = task[d].secret]
    <3>1. /\ user'[i].password = task[d].secret /\ user'[i].reset = user[i].reset
          /\ user'[i].code = user[i].code /\ user'[i].token = user[i].token
          /\ \A j \in UserIds : j # i => user'[j] = user[j]
      BY <2>1, <2>4 DEF AccountsTypeOK, UserRows
    <3>2. \A j \in UserIds : j = i => RowFits(j)'
      BY <2>1, <3>1, SecretsStay DEF SecretsInv, RowFits
    <3>3. QED
      BY <2>1, <2>2, <3>1, <3>2, Frame DEF SecretsInv
  <2>5. QED
    BY <1>13, <2>3, <2>4 DEF WritePassword
<1>14. CASE UNCHANGED <<user, task, issued>>
  BY <1>14, Frame DEF SecretsInv
<1>15. QED
  BY <1>1, <1>2, <1>4, <1>5, <1>6, <1>7, <1>8, <1>9, <1>10, <1>11, <1>12, <1>13, <1>14
     DEF AccountsNext, accountVars, RemoveRole, Lapse

\* A password was set with a reset token of its account, or with a verification token the
\* account got for a code of its own.
THEOREM PasswordFollowsACode == AccountsSpec => []ChangeFollowsACode
<1>1. SecretsInv => ChangeFollowsACode
  BY DEF SecretsInv, RowFits, Vouches, SecretOf, ChangeFollowsACode
<1>2. QED
  BY <1>1, SecretsInit, SecretsNext, AccountsTyping, PTL DEF AccountsSpec

-----------------------------------------------------------------------------
(***************************************************************************)
(* Typing.                                                                 *)
(***************************************************************************)
LEMMA EmptyList == {} \in Lists
BY DEF Lists

LEMMA NoWorkType == NoWork \in Works
<1>1. <<>> \in Seq(Kinds)
  OBVIOUS
<1>2. QED
  BY <1>1, EmptyList DEF NoWork, Works, Writes, BookmarkWrites, CollectionWrites, ItemWrites

LEMMA BookmarksTypingInit == BookmarksInit => BookmarksTypeOK
<1> SUFFICES ASSUME BookmarksInit PROVE BookmarksTypeOK
  OBVIOUS
<1>1. work \in [Keepers -> Works]
  BY NoWorkType DEF BookmarksInit
<1>2. cache \in [Kinds -> [Owners -> Entries]]
  BY EmptyList DEF BookmarksInit, NoEntry, Entries
<1>3. bookmarks \subseteq Bookmark /\ collections \subseteq Collection /\ items \subseteq Item
  BY DEF BookmarksInit, Bookmark, Collection, Item
<1>4. writes \in 0..MaxWrites /\ faults \in 0..MaxFaults
  BY BookmarkAssumption DEF BookmarksInit
<1>5. QED
  BY <1>1, <1>2, <1>3, <1>4 DEF BookmarksInit, BookmarksTypeOK

\* The works a request may become.
LEMMA JobTypes ==
    ASSUME NEW op \in Writes, NEW o \in Owners, NEW label \in Targets \union Titles \union {NoLabel},
           NEW b \in Nat, NEW c \in Nat,
           op = "add" => label \in Targets, op = "createCollection" => c = 0,
           op \in {"createCollection", "updateCollection"} => label \in Titles
    PROVE  Job(op, o, label, b, c) \in Works
<1>1. <<>> \in Seq(Kinds)
  OBVIOUS
<1>2. QED
  BY <1>1, EmptyList DEF Job, NoWork, Works, Writes, BookmarkWrites, CollectionWrites, ItemWrites

LEMMA DropTypes ==
    ASSUME NEW w \in Works, w.op \in Writes, NEW d \in Seq(Kinds), d # <<>>
    PROVE  [w EXCEPT !.pc = "drop", !.drop = d] \in Works
BY DEF Works, Writes, BookmarkWrites, CollectionWrites, ItemWrites

LEMMA ReadTypes ==
    ASSUME NEW k \in Kinds, NEW o \in Owners, NEW v \in Lists
    PROVE  /\ [NoWork EXCEPT !.op = "read", !.pc = "load", !.owner = o, !.label = k] \in Works
           /\ \A w \in Works : w.pc = "load" => [w EXCEPT !.pc = "fill", !.value = v] \in Works
<1>1. <<>> \in Seq(Kinds)
  OBVIOUS
<1>2. [NoWork EXCEPT !.op = "read", !.pc = "load", !.owner = o, !.label = k] \in Works
  BY <1>1, EmptyList DEF NoWork, Works, Writes, BookmarkWrites, CollectionWrites, ItemWrites
<1>3. ASSUME NEW w \in Works, w.pc = "load"
      PROVE  [w EXCEPT !.pc = "fill", !.value = v] \in Works
  BY <1>3 DEF Works
<1>4. QED
  BY <1>2, <1>3

LEMMA KindLists == /\ <<"bookmarks", "stats">> \in Seq(Kinds) /\ <<"collections">> \in Seq(Kinds)
                   /\ <<"bookmarks", "stats">> # <<>> /\ <<"collections">> # <<>>
BY DEF Kinds

LEMMA BookmarksTypingNext == BookmarksTypeOK /\ [BookmarksNext]_bookmarkVars => BookmarksTypeOK'
<1> SUFFICES ASSUME BookmarksTypeOK, [BookmarksNext]_bookmarkVars PROVE BookmarksTypeOK'
  OBVIOUS
<1> USE DEF BookmarksTypeOK
<1>a. ASSUME NEW s \in Keepers, NEW w \in Works, Goes(s, w) PROVE work' \in [Keepers -> Works]
  BY <1>a DEF Goes
<1>b. ASSUME NEW s \in Keepers, Ends(s) PROVE work' \in [Keepers -> Works]
  BY <1>a, <1>b, NoWorkType DEF Ends
<1>c. ASSUME NEW s \in Keepers, work[s].pc = "write", AfterBookmark(s) \/ AfterCollection(s) \/ Ends(s)
      PROVE  work' \in [Keepers -> Works]
  <2>1. work[s].op \in Writes /\ work[s] \in Works
    BY <1>c DEF Works
  <2>2. QED
    BY <1>a, <1>b, <1>c, <2>1, DropTypes, KindLists DEF AfterBookmark, AfterCollection
<1>d. ASSUME NEW o \in Owners, NEW ops, Mixes(o, ops) PROVE mixed' \subseteq Owners
  BY <1>d DEF Mixes
<1>e. ASSUME NEW s \in Keepers, NEW w \in Works, w.owner \in Owners, StartWrite(s, w)
      PROVE  BookmarksTypeOK'
  <2>1. work' \in [Keepers -> Works] /\ mixed' \subseteq Owners
    BY <1>a, <1>d, <1>e DEF StartWrite
  <2>2. writes' \in 0..MaxWrites
    BY <1>e, BookmarkAssumption DEF StartWrite
  <2>3. QED
    BY <1>e, <2>1, <2>2 DEF StartWrite
<1>f. ASSUME NEW op \in Writes, NEW o \in Owners, NEW label, NEW b, NEW c
      PROVE  Job(op, o, label, b, c).owner = o
  BY DEF Job, NoWork
<1>1. ASSUME NEW s \in Keepers, NEW o \in Owners, NEW t \in Targets, StartAdd(s, o, t)
      PROVE  BookmarksTypeOK'
  <2>1. Job("add", o, t, 0, 0) \in Works
    BY JobTypes DEF Writes, BookmarkWrites
  <2>2. QED
    BY <1>1, <1>e, <1>f, <2>1 DEF StartAdd, Writes, BookmarkWrites
<1>2. ASSUME NEW s \in Keepers, NEW op \in {"remove", "update"}, StartBookmarkWrite(s, op)
      PROVE  BookmarksTypeOK'
  <2>1. PICK b \in bookmarks : StartWrite(s, Job(op, b.owner, NoLabel, b.id, 0))
    BY <1>2 DEF StartBookmarkWrite
  <2>2. b.owner \in Owners /\ b.id \in Nat /\ op \in Writes
    BY DEF Bookmark, Writes, BookmarkWrites
  <2>3. Job(op, b.owner, NoLabel, b.id, 0) \in Works
    BY <2>2, JobTypes
  <2>4. QED
    BY <1>e, <1>f, <2>1, <2>2, <2>3
<1>3. ASSUME NEW s \in Keepers, NEW o \in Owners, NEW n \in Titles, StartCreateCollection(s, o, n)
      PROVE  BookmarksTypeOK'
  <2>1. Job("createCollection", o, n, 0, 0) \in Works /\ "createCollection" \in Writes
    BY JobTypes DEF Writes, CollectionWrites
  <2>2. QED
    BY <1>3, <1>e, <1>f, <2>1 DEF StartCreateCollection
<1>4. ASSUME NEW s \in Keepers, StartCollectionWrite(s) PROVE BookmarksTypeOK'
  <2>1. PICK c \in collections :
           \/ \E n \in Titles : StartWrite(s, Job("updateCollection", c.owner, n, 0, c.id))
           \/ StartWrite(s, Job("deleteCollection", c.owner, NoLabel, 0, c.id))
    BY <1>4 DEF StartCollectionWrite
  <2>2. c.owner \in Owners /\ c.id \in Nat /\ {"updateCollection", "deleteCollection"} \subseteq Writes
    BY DEF Collection, Writes, CollectionWrites
  <2>3. /\ \A n \in Titles : Job("updateCollection", c.owner, n, 0, c.id) \in Works
        /\ Job("deleteCollection", c.owner, NoLabel, 0, c.id) \in Works
    BY <2>2, JobTypes
  <2>4. QED
    BY <1>e, <1>f, <2>1, <2>2, <2>3
<1>5. ASSUME NEW s \in Keepers, NEW op \in ItemWrites, StartItemWrite(s, op) PROVE BookmarksTypeOK'
  <2>1. PICK b \in bookmarks, c \in collections :
           StartWrite(s, Job(op, b.owner, NoLabel, b.id, c.id))
    BY <1>5 DEF StartItemWrite
  <2>2. b.owner \in Owners /\ b.id \in Nat /\ c.id \in Nat /\ op \in Writes
    BY DEF Bookmark, Collection, Writes
  <2>3. Job(op, b.owner, NoLabel, b.id, c.id) \in Works
    BY <2>2, JobTypes DEF ItemWrites
  <2>4. QED
    BY <1>e, <1>f, <2>1, <2>2, <2>3
<1>6. ASSUME NEW s \in Keepers, NEW k \in Kinds, NEW o \in Owners, StartRead(s, k, o)
      PROVE  BookmarksTypeOK'
  <2>1. work' \in [Keepers -> Works] /\ mixed' \subseteq Owners
    BY <1>6, <1>a, <1>d, ReadTypes, EmptyList DEF StartRead
  <2>2. faults' \in 0..MaxFaults
    BY <1>6, BookmarkAssumption DEF StartRead, Fault
  <2>3. QED
    BY <1>6, <2>1, <2>2 DEF StartRead
<1>7. ASSUME NEW s \in Keepers, AddBookmark(s) PROVE BookmarksTypeOK'
  <2>1. work' \in [Keepers -> Works]
    BY <1>7, <1>c DEF AddBookmark, Writing
  <2>2. work[s].owner \in Owners /\ work[s].label \in Targets
    BY <1>7 DEF AddBookmark, Writing, Works
  <2>3. bookmarks' \subseteq Bookmark /\ ids' \in Nat
    BY <1>7, <2>2 DEF AddBookmark, Bookmark
  <2>4. QED
    BY <1>7, <2>1, <2>3 DEF AddBookmark
<1>8. ASSUME NEW s \in Keepers, RemoveBookmark(s) PROVE BookmarksTypeOK'
  <2>1. work' \in [Keepers -> Works]
    BY <1>8, <1>c DEF RemoveBookmark, Writing
  <2>2. QED
    BY <1>8, <2>1 DEF RemoveBookmark, Kept
<1>9. ASSUME NEW s \in Keepers, UpdateBookmark(s) PROVE BookmarksTypeOK'
  <2>1. work' \in [Keepers -> Works]
    BY <1>9, <1>c DEF UpdateBookmark, Writing
  <2>2. bookmarks' \subseteq Bookmark
    BY <1>9 DEF UpdateBookmark, Bookmark
  <2>3. QED
    BY <1>9, <2>1, <2>2 DEF UpdateBookmark
<1>10. ASSUME NEW s \in Keepers, CreateCollection(s) PROVE BookmarksTypeOK'
  <2>1. work' \in [Keepers -> Works]
    BY <1>10, <1>c DEF CreateCollection, Writing
  <2>2. work[s].owner \in Owners /\ work[s].label \in Titles
    BY <1>10 DEF CreateCollection, Writing, Works
  <2>3. collections' \subseteq Collection /\ ids' \in Nat
    BY <1>10, <2>2 DEF CreateCollection, Collection
  <2>4. QED
    BY <1>10, <2>1, <2>3 DEF CreateCollection
<1>11. ASSUME NEW s \in Keepers, UpdateCollection(s) PROVE BookmarksTypeOK'
  <2>1. work' \in [Keepers -> Works]
    BY <1>11, <1>c DEF UpdateCollection, Writing
  <2>2. work[s].label \in Titles
    BY <1>11 DEF UpdateCollection, Writing, Works
  <2>3. collections' \subseteq Collection
    BY <1>11, <2>2 DEF UpdateCollection, Collection
  <2>4. QED
    BY <1>11, <2>1, <2>3 DEF UpdateCollection
<1>12. ASSUME NEW s \in Keepers, DeleteCollection(s) PROVE BookmarksTypeOK'
  <2>1. work' \in [Keepers -> Works]
    BY <1>12, <1>c DEF DeleteCollection, Writing
  <2>2. QED
    BY <1>12, <2>1 DEF DeleteCollection, Kept
<1>13. ASSUME NEW s \in Keepers, AddToCollection(s) \/ RemoveFromCollection(s) PROVE BookmarksTypeOK'
  <2>1. work' \in [Keepers -> Works]
    BY <1>13, <1>b DEF AddToCollection, RemoveFromCollection
  <2>2. ItemOf(work[s]) \in Item
    BY DEF ItemOf, Item, Works
  <2>3. QED
    BY <1>13, <2>1, <2>2 DEF AddToCollection, RemoveFromCollection
<1>14. ASSUME NEW s \in Keepers, DropKey(s) PROVE BookmarksTypeOK'
  <2>1. /\ work[s] \in Works /\ work[s].op \in Writes /\ work[s].owner \in Owners
        /\ work[s].drop \in Seq(Kinds) /\ work[s].drop # <<>>
    BY <1>14 DEF DropKey, Works
  <2>2. Head(work[s].drop) \in Kinds /\ Tail(work[s].drop) \in Seq(Kinds)
    BY <2>1
  <2>3. work[s].pc = "drop" /\ \A d \in Seq(Kinds) : d # <<>> => [work[s] EXCEPT !.drop = d] \in Works
    BY <1>14, <2>1 DEF DropKey, Works
  <2>4. work' \in [Keepers -> Works]
    BY <1>14, <1>a, <1>b, <2>2, <2>3 DEF DropKey
  <2>5. NoEntry \in Entries
    BY EmptyList DEF NoEntry, Entries
  <2>6. cache' \in [Kinds -> [Owners -> Entries]] /\ faults' \in 0..MaxFaults
    <3>1. CASE cache' = [cache EXCEPT ![Head(work[s].drop)][work[s].owner] = NoEntry] /\ UNCHANGED faults
      BY <2>1, <2>2, <2>5, <3>1
    <3>2. CASE Fault /\ UNCHANGED cache
      BY <3>2, BookmarkAssumption DEF Fault
    <3>3. QED
      BY <1>14, <3>1, <3>2 DEF DropKey
  <2>7. QED
    BY <1>14, <2>4, <2>6 DEF DropKey
<1>15. ASSUME NEW s \in Keepers, Interrupt(s) \/ DropRead(s) PROVE BookmarksTypeOK'
  <2>1. faults' \in 0..MaxFaults
    BY <1>15, BookmarkAssumption DEF Interrupt, DropRead, Fault
  <2>2. QED
    BY <1>15, <1>b, <2>1 DEF Interrupt, DropRead
<1>16. ASSUME NEW s \in Keepers, LoadList(s) PROVE BookmarksTypeOK'
  <2>1. work[s] \in Works /\ work[s].label \in Kinds /\ work[s].owner \in Owners
    BY <1>16 DEF LoadList, Works
  <2>2. ListOf(work[s].label, work[s].owner) \in Lists
    BY DEF ListOf, Lists
  <2>3. [work[s] EXCEPT !.pc = "fill", !.value = ListOf(work[s].label, work[s].owner)] \in Works
    BY <1>16, <2>1, <2>2, ReadTypes DEF LoadList
  <2>4. QED
    BY <1>16, <1>a, <2>3 DEF LoadList
<1>17. ASSUME NEW s \in Keepers, FillCache(s) PROVE BookmarksTypeOK'
  <2>1. work[s].label \in Kinds /\ work[s].owner \in Owners /\ work[s].value \in Lists
    BY <1>17 DEF FillCache, Works
  <2>2. [hit |-> TRUE, value |-> work[s].value] \in Entries
    BY <2>1, Zenon DEF Entries
  <2>3. cache' \in [Kinds -> [Owners -> Entries]]
    BY <1>17, <2>1, <2>2 DEF FillCache
  <2>4. QED
    BY <1>17, <1>b, <2>3 DEF FillCache
<1>18. ASSUME NEW k \in Kinds, NEW o \in Owners, Expire(k, o) PROVE BookmarksTypeOK'
  <2>1. NoEntry \in Entries
    BY EmptyList DEF NoEntry, Entries
  <2>2. QED
    BY <1>18, <2>1 DEF Expire
<1>19. CASE UNCHANGED bookmarkVars
  BY <1>19 DEF bookmarkVars
<1>20. QED
  BY <1>1, <1>2, <1>3, <1>4, <1>5, <1>6, <1>7, <1>8, <1>9, <1>10, <1>11, <1>12, <1>13, <1>14,
     <1>15, <1>16, <1>17, <1>18, <1>19 DEF BookmarksNext, Begin, Proceed

\* Every reachable state is well typed.
THEOREM BookmarksTyping == BookmarksSpec => []BookmarksTypeOK
<1>1. QED
  BY BookmarksTypingInit, BookmarksTypingNext, PTL DEF BookmarksSpec
-----------------------------------------------------------------------------
(***************************************************************************)
(* Identity.  Ids are given out once, and what a request names still       *)
(* belongs to the user it works for, unless it is gone.                    *)
(***************************************************************************)
OneById ==
    /\ ids \in Nat
    /\ \A b \in bookmarks : b.id \in 1..ids
    /\ \A c \in collections : c.id \in 1..ids
    /\ \A b, c \in bookmarks : b.id = c.id => b = c
    /\ \A c, d \in collections : c.id = d.id => c = d
NamesOwn(w) ==
    /\ w.bookmark \in 0..ids /\ w.collection \in 0..ids
    /\ \A b \in bookmarks : b.id = w.bookmark => b.owner = w.owner
    /\ \A c \in collections : c.id = w.collection => c.owner = w.owner
OwnInv == OneById /\ \A s \in Keepers : NamesOwn(work[s])

LEMMA OwnInit == BookmarksInit => OwnInv
<1> SUFFICES ASSUME BookmarksInit PROVE OwnInv
  OBVIOUS
<1>1. OneById
  <2>1. CASE bookmarks = {} /\ collections = {}
    BY <2>1 DEF BookmarksInit, OneById
  <2>2. ASSUME NEW o \in Owners, NEW t \in Targets, NEW n \in Titles,
               bookmarks = {[id |-> 1, owner |-> o, target |-> t, rev |-> 0]},
               collections = {[id |-> 2, owner |-> o, name |-> n]}
        PROVE  OneById
    BY <2>2 DEF BookmarksInit, OneById
  <2>3. QED
    BY <2>1, <2>2 DEF BookmarksInit
<1>2. \A s \in Keepers : work[s].bookmark = 0 /\ work[s].collection = 0
  BY DEF BookmarksInit, NoWork
<1>3. QED
  BY <1>1, <1>2 DEF OwnInv, NamesOwn, OneById

\* A work names the same things as one before it, or none, or ones its owner has.
LEMMA OwnWorks ==
    ASSUME OwnInv, BookmarksTypeOK, NEW s \in Keepers, NEW w, Goes(s, w), NamesOwn(w),
           UNCHANGED <<bookmarks, collections, ids>>
    PROVE  OwnInv'
<1>1. work'[s] = w /\ \A t \in Keepers : t # s => work'[t] = work[t]
  BY DEF Goes, BookmarksTypeOK
<1>2. QED
  BY <1>1 DEF OwnInv, OneById, NamesOwn

\* Removing things, or changing them without their id and owner, is harmless.
LEMMA OwnKept ==
    ASSUME OwnInv, BookmarksTypeOK, UNCHANGED ids,
           \A b \in bookmarks' : \E c \in bookmarks : b.id = c.id /\ b.owner = c.owner,
           \A b \in collections' : \E c \in collections : b.id = c.id /\ b.owner = c.owner,
           \A b, c \in bookmarks' : b.id = c.id => b = c,
           \A b, c \in collections' : b.id = c.id => b = c,
           \A t \in Keepers : \/ work'[t].bookmark = 0 /\ work'[t].collection = 0
                              \/ /\ work'[t].bookmark = work[t].bookmark
                                 /\ work'[t].collection = work[t].collection
                                 /\ work'[t].owner = work[t].owner
    PROVE  OwnInv'
<1>1. OneById'
  BY DEF OwnInv, OneById
<1>2. ASSUME NEW t \in Keepers PROVE NamesOwn(work[t])'
  BY DEF OwnInv, OneById, NamesOwn
<1>3. QED
  BY <1>1, <1>2 DEF OwnInv

\* After a write its request ends, or keeps what it names and goes on to drop keys.
LEMMA WriteGoesOn ==
    ASSUME BookmarksTypeOK, NEW s \in Keepers,
           AfterBookmark(s) \/ AfterCollection(s) \/ Ends(s)
    PROVE  \A t \in Keepers : \/ work'[t].bookmark = 0 /\ work'[t].collection = 0
                              \/ /\ work'[t].bookmark = work[t].bookmark
                                 /\ work'[t].collection = work[t].collection
                                 /\ work'[t].owner = work[t].owner
<1>1. \A w : Goes(s, w) => work'[s] = w /\ \A t \in Keepers : t # s => work'[t] = work[t]
  BY DEF Goes, BookmarksTypeOK
<1>2. work[s] \in Works
  BY DEF BookmarksTypeOK
<1>3. CASE Ends(s)
  BY <1>1, <1>3 DEF Ends, NoWork
<1>4. \A d : /\ [work[s] EXCEPT !.pc = "drop", !.drop = d].bookmark = work[s].bookmark
             /\ [work[s] EXCEPT !.pc = "drop", !.drop = d].collection = work[s].collection
             /\ [work[s] EXCEPT !.pc = "drop", !.drop = d].owner = work[s].owner
  BY <1>2 DEF Works
<1>5. ASSUME NEW d, Goes(s, [work[s] EXCEPT !.pc = "drop", !.drop = d])
      PROVE  /\ work'[s].bookmark = work[s].bookmark
             /\ work'[s].collection = work[s].collection
             /\ work'[s].owner = work[s].owner
             /\ \A t \in Keepers : t # s => work'[t] = work[t]
  <2>1. work'[s] = [work[s] EXCEPT !.pc = "drop", !.drop = d]
    BY <1>5 DEF Goes, BookmarksTypeOK
  <2>2. QED
    BY <1>1, <1>4, <1>5, <2>1
<1>6. CASE AfterBookmark(s) \/ AfterCollection(s)
  <2>1. \E d : Goes(s, [work[s] EXCEPT !.pc = "drop", !.drop = d])
    BY <1>6, Zenon DEF AfterBookmark, AfterCollection
  <2>2. QED
    BY <2>1, <1>5
<1>7. QED
  BY <1>3, <1>6

LEMMA OwnNext == OwnInv /\ BookmarksTypeOK /\ [BookmarksNext]_bookmarkVars => OwnInv'
<1> SUFFICES ASSUME OwnInv, BookmarksTypeOK, [BookmarksNext]_bookmarkVars PROVE OwnInv'
  OBVIOUS
<1>a. \A s \in Keepers : work[s] \in Works /\ NamesOwn(work[s])
  BY DEF BookmarksTypeOK, OwnInv
<1>b. NamesOwn(NoWork)
  BY DEF OwnInv, OneById, NamesOwn, NoWork
<1>c. /\ \A b \in bookmarks : b \in Bookmark
      /\ \A c \in collections : c \in Collection
  BY DEF BookmarksTypeOK
<1>1. ASSUME NEW s \in Keepers, Begin(s) PROVE OwnInv'
  <2>1. ASSUME NEW op, NEW o, NEW label, NEW b, NEW c, StartWrite(s, Job(op, o, label, b, c)),
               NamesOwn([owner |-> o, bookmark |-> b, collection |-> c])
        PROVE  OwnInv'
    <3>1. /\ Job(op, o, label, b, c).owner = o /\ Job(op, o, label, b, c).bookmark = b
          /\ Job(op, o, label, b, c).collection = c
      BY DEF Job, NoWork
    <3>2. NamesOwn(Job(op, o, label, b, c))
      BY <2>1, <3>1 DEF NamesOwn
    <3>3. QED
      BY <2>1, <3>2, OwnWorks DEF StartWrite
  <2>2. ASSUME NEW o, NEW b, NEW c,
               b = 0 \/ \E x \in bookmarks : x.id = b /\ x.owner = o,
               c = 0 \/ \E x \in collections : x.id = c /\ x.owner = o
        PROVE  NamesOwn([owner |-> o, bookmark |-> b, collection |-> c])
    BY <2>2 DEF OwnInv, OneById, NamesOwn
  <2>3. ASSUME NEW k \in Kinds, NEW o \in Owners, StartRead(s, k, o) PROVE OwnInv'
    <3>1. NamesOwn([NoWork EXCEPT !.op = "read", !.pc = "load", !.owner = o, !.label = k])
      BY DEF OwnInv, OneById, NamesOwn, NoWork
    <3>2. QED
      BY <2>3, <3>1, OwnWorks DEF StartRead
  <2>4. ASSUME NEW o \in Owners, NEW t \in Targets, StartAdd(s, o, t) PROVE OwnInv'
    BY <2>1, <2>2, <2>4 DEF StartAdd
  <2>5. ASSUME NEW op \in {"remove", "update"}, StartBookmarkWrite(s, op) PROVE OwnInv'
    BY <2>1, <2>2, <2>5 DEF StartBookmarkWrite
  <2>6. ASSUME NEW o \in Owners, NEW n \in Titles, StartCreateCollection(s, o, n) PROVE OwnInv'
    BY <2>1, <2>2, <2>6 DEF StartCreateCollection
  <2>7. CASE StartCollectionWrite(s)
    BY <2>1, <2>2, <2>7 DEF StartCollectionWrite
  <2>8. ASSUME NEW op \in ItemWrites, StartItemWrite(s, op) PROVE OwnInv'
    BY <2>1, <2>2, <2>8 DEF StartItemWrite
  <2>9. QED
    BY <1>1, <2>3, <2>4, <2>5, <2>6, <2>7, <2>8 DEF Begin
<1>2. ASSUME NEW s \in Keepers, AddBookmark(s) \/ CreateCollection(s), ids' = ids + 1
      PROVE  OwnInv'
  <2>1. \A t \in Keepers : \/ work'[t].bookmark = 0 /\ work'[t].collection = 0
                           \/ /\ work'[t].bookmark = work[t].bookmark
                              /\ work'[t].collection = work[t].collection
                              /\ work'[t].owner = work[t].owner
    BY <1>2, WriteGoesOn DEF AddBookmark, CreateCollection
  <2>2. \/ /\ collections' = collections
           /\ \E o, t : bookmarks' = bookmarks \union
                          {[id |-> ids + 1, owner |-> o, target |-> t, rev |-> 0]}
        \/ /\ bookmarks' = bookmarks
           /\ \E o, n : collections' = collections \union {[id |-> ids + 1, owner |-> o, name |-> n]}
    <3>1. ids' # ids
      BY <1>2 DEF OwnInv, OneById
    <3>2. CASE AddBookmark(s)
      BY <3>1, <3>2 DEF AddBookmark
    <3>3. CASE CreateCollection(s)
      BY <3>1, <3>3 DEF CreateCollection
    <3>4. QED
      BY <1>2, <3>2, <3>3
  <2>3. OneById'
    BY <1>2, <2>2 DEF OwnInv, OneById
  <2>4. ASSUME NEW t \in Keepers PROVE NamesOwn(work[t])'
    BY <1>2, <1>a, <2>1, <2>2, <2>3 DEF NamesOwn, OneById, OwnInv
  <2>5. QED
    BY <2>3, <2>4 DEF OwnInv
<1>3. ASSUME NEW s \in Keepers, AddBookmark(s) \/ CreateCollection(s), ids' = ids PROVE OwnInv'
  <2>1. Ends(s) /\ UNCHANGED <<bookmarks, collections>>
    BY <1>3 DEF AddBookmark, CreateCollection, OwnInv, OneById
  <2>2. QED
    BY <1>3, <1>b, <2>1, OwnWorks DEF Ends
<1>4. ASSUME NEW s \in Keepers, RemoveBookmark(s) \/ DeleteCollection(s) PROVE OwnInv'
  <2>1. bookmarks' \subseteq bookmarks /\ collections' \subseteq collections /\ UNCHANGED ids
    BY <1>4 DEF RemoveBookmark, DeleteCollection
  <2>2. QED
    BY <1>4, <2>1, OwnKept, WriteGoesOn DEF RemoveBookmark, DeleteCollection, OwnInv, OneById
<1>5. ASSUME NEW s \in Keepers, UpdateBookmark(s) PROVE OwnInv'
  <2>1. PICK changes \in BOOLEAN :
          bookmarks' = {IF b.id = work[s].bookmark /\ changes
                        THEN [b EXCEPT !.rev = @ + 1] ELSE b : b \in bookmarks}
    BY <1>5 DEF UpdateBookmark
  <2>2. \A b \in bookmarks : /\ [b EXCEPT !.rev = @ + 1].id = b.id
                             /\ [b EXCEPT !.rev = @ + 1].owner = b.owner
    BY <1>c DEF Bookmark
  <2>3. \A b \in bookmarks' : \E c \in bookmarks : b.id = c.id /\ b.owner = c.owner
    BY <2>1, <2>2
  <2>4. ASSUME NEW b \in bookmarks', NEW c \in bookmarks', b.id = c.id PROVE b = c
    <3>1. PICK x \in bookmarks :
             b = IF x.id = work[s].bookmark /\ changes THEN [x EXCEPT !.rev = @ + 1] ELSE x
      BY <2>1
    <3>2. PICK y \in bookmarks :
             c = IF y.id = work[s].bookmark /\ changes THEN [y EXCEPT !.rev = @ + 1] ELSE y
      BY <2>1
    <3>3. x.id = b.id /\ y.id = c.id
      BY <2>2, <3>1, <3>2
    <3>4. QED
      BY <2>4, <3>1, <3>2, <3>3 DEF OwnInv, OneById
  <2>5. UNCHANGED <<collections, ids>>
    BY <1>5 DEF UpdateBookmark
  <2>6. QED
    BY <1>5, <2>3, <2>4, <2>5, OwnKept, WriteGoesOn DEF UpdateBookmark, OwnInv, OneById
<1>6. ASSUME NEW s \in Keepers, UpdateCollection(s) PROVE OwnInv'
  <2>1. \/ UNCHANGED collections
        \/ collections' = {IF c.id = work[s].collection THEN [c EXCEPT !.name = work[s].label]
                           ELSE c : c \in collections}
    BY <1>6 DEF UpdateCollection
  <2>2. \A c \in collections : /\ [c EXCEPT !.name = work[s].label].id = c.id
                               /\ [c EXCEPT !.name = work[s].label].owner = c.owner
    BY <1>c DEF Collection
  <2>3. ASSUME NEW b \in collections'
        PROVE  \E x \in collections : /\ b.id = x.id /\ b.owner = x.owner
                                      /\ \/ b = x /\ UNCHANGED collections
                                         \/ /\ ~UNCHANGED collections
                                            /\ b = IF x.id = work[s].collection
                                                   THEN [x EXCEPT !.name = work[s].label] ELSE x
    <3>1. CASE UNCHANGED collections
      BY <3>1
    <3>2. CASE ~UNCHANGED collections
      <4>1. PICK x \in collections :
               b = IF x.id = work[s].collection THEN [x EXCEPT !.name = work[s].label] ELSE x
        BY <2>1, <3>2
      <4>2. b.id = x.id /\ b.owner = x.owner
        BY <2>2, <4>1
      <4>3. QED
        BY <3>2, <4>1, <4>2
    <3>3. QED
      BY <3>1, <3>2
  <2>4. ASSUME NEW b \in collections', NEW c \in collections', b.id = c.id PROVE b = c
    BY <2>3, <2>4 DEF OwnInv, OneById
  <2>5. UNCHANGED <<bookmarks, ids>>
    BY <1>6 DEF UpdateCollection
  <2>6. QED
    BY <1>6, <2>3, <2>4, <2>5, OwnKept, WriteGoesOn DEF UpdateCollection, OwnInv, OneById
<1>7. ASSUME NEW s \in Keepers, Ends(s), UNCHANGED <<bookmarks, collections, ids>> PROVE OwnInv'
  BY <1>7, <1>b, OwnWorks DEF Ends
<1>8. ASSUME NEW s \in Keepers, DropKey(s) PROVE OwnInv'
  <2>1. NamesOwn([work[s] EXCEPT !.drop = Tail(work[s].drop)])
    BY <1>a DEF NamesOwn, Works
  <2>2. QED
    BY <1>7, <1>8, <2>1, OwnWorks DEF DropKey
<1>9. ASSUME NEW s \in Keepers, LoadList(s) PROVE OwnInv'
  <2>1. NamesOwn([work[s] EXCEPT !.pc = "fill", !.value = ListOf(work[s].label, work[s].owner)])
    BY <1>a DEF NamesOwn, Works
  <2>2. QED
    BY <1>9, <2>1, OwnWorks DEF LoadList
<1>10. CASE UNCHANGED <<bookmarks, collections, ids, work>>
  BY <1>10 DEF OwnInv, OneById, NamesOwn
<1>11. QED
  BY <1>1, <1>2, <1>3, <1>4, <1>5, <1>6, <1>7, <1>8, <1>9, <1>10
     DEF BookmarksNext, bookmarkVars, Proceed, AddBookmark, CreateCollection, AddToCollection,
         RemoveFromCollection, FillCache, DropRead, Interrupt, Expire

\* Ids stay unique and no request works on a thing of another user.
THEOREM RequestsNameTheirOwn == BookmarksSpec => []OwnInv
<1>1. QED
  BY BookmarksTyping, OwnInit, OwnNext, PTL DEF BookmarksSpec

-----------------------------------------------------------------------------
(***************************************************************************)
(* One bookmark per target, one collection per name.                       *)
(***************************************************************************)
\* What an update leaves alone.
LEMMA UpdatedBookmarks ==
    ASSUME BookmarksTypeOK, NEW s \in Keepers, UpdateBookmark(s), NEW b \in bookmarks'
    PROVE  \E x \in bookmarks : b.id = x.id /\ b.owner = x.owner /\ b.target = x.target
<1>1. PICK changes \in BOOLEAN :
        bookmarks' = {IF x.id = work[s].bookmark /\ changes
                      THEN [x EXCEPT !.rev = @ + 1] ELSE x : x \in bookmarks}
  BY DEF UpdateBookmark
<1>2. PICK x \in bookmarks :
         b = IF x.id = work[s].bookmark /\ changes THEN [x EXCEPT !.rev = @ + 1] ELSE x
  BY <1>1
<1>3. x \in Bookmark
  BY DEF BookmarksTypeOK
<1>4. QED
  BY <1>2, <1>3 DEF Bookmark

LEMMA RenamedCollections ==
    ASSUME BookmarksTypeOK, NEW s \in Keepers, UpdateCollection(s), NEW b \in collections',
           collections' # collections
    PROVE  /\ ~NameTaken(work[s])
           /\ \E x \in collections :
                 /\ b.id = x.id /\ b.owner = x.owner
                 /\ b.name = IF x.id = work[s].collection THEN work[s].label ELSE x.name
<1>1. /\ ~NameTaken(work[s])
      /\ collections' = {IF x.id = work[s].collection THEN [x EXCEPT !.name = work[s].label]
                         ELSE x : x \in collections}
  BY DEF UpdateCollection
<1>2. PICK x \in collections :
         b = IF x.id = work[s].collection THEN [x EXCEPT !.name = work[s].label] ELSE x
  BY <1>1
<1>3. x \in Collection
  BY DEF BookmarksTypeOK
<1>4. QED
  BY <1>1, <1>2, <1>3 DEF Collection

\* Which variables a step of a request may change.
LEMMA OtherSteps ==
    ASSUME NEW s \in Keepers,
           \/ Begin(s) \/ DropKey(s) \/ LoadList(s) \/ FillCache(s)
           \/ Interrupt(s) \/ DropRead(s)
    PROVE  UNCHANGED <<database, bookmarks, collections, items>>
BY DEF Begin, StartAdd, StartBookmarkWrite, StartCreateCollection, StartCollectionWrite,
       StartItemWrite, StartWrite, StartRead, DropKey, LoadList, FillCache, Interrupt, DropRead

LEMMA OnePerTargetNext ==
    OneBookmarkPerTarget /\ OwnInv /\ OwnInv' /\ BookmarksTypeOK /\ [BookmarksNext]_bookmarkVars
        => OneBookmarkPerTarget'
<1> SUFFICES ASSUME OneBookmarkPerTarget, OwnInv, OwnInv', BookmarksTypeOK,
                    [BookmarksNext]_bookmarkVars
             PROVE  OneBookmarkPerTarget'
  OBVIOUS
<1>1. ASSUME NEW s \in Keepers, AddBookmark(s) PROVE OneBookmarkPerTarget'
  <2>1. CASE DuplicateBookmark(work[s])
    BY <1>1, <2>1 DEF AddBookmark, OneBookmarkPerTarget
  <2>2. CASE ~DuplicateBookmark(work[s])
    BY <1>1, <2>2 DEF AddBookmark, OneBookmarkPerTarget, DuplicateBookmark
  <2>3. QED
    BY <2>1, <2>2
<1>2. ASSUME NEW s \in Keepers, CreateCollection(s) PROVE OneBookmarkPerTarget'
  <2>1. CASE NameTaken(work[s])
    BY <1>2, <2>1 DEF CreateCollection, OneBookmarkPerTarget
  <2>2. CASE ~NameTaken(work[s])
    <3>1. work[s].collection = 0
      BY <1>2 DEF CreateCollection, Writing, BookmarksTypeOK, Works
    <3>2. \A c \in collections : c.id # 0
      BY DEF OwnInv, OneById
    <3>3. QED
      BY <1>2, <2>2, <3>1, <3>2 DEF CreateCollection, OneBookmarkPerTarget, NameTaken
  <2>3. QED
    BY <2>1, <2>2
<1>3. ASSUME NEW s \in Keepers, UpdateBookmark(s) PROVE OneBookmarkPerTarget'
  <2>1. ASSUME NEW b \in bookmarks', NEW c \in bookmarks', b.owner = c.owner, b.target = c.target
        PROVE  b = c
    <3>1. b.id = c.id
      BY <1>3, <2>1, UpdatedBookmarks DEF OneBookmarkPerTarget
    <3>2. QED
      BY <3>1 DEF OwnInv, OneById
  <2>2. collections' = collections
    BY <1>3 DEF UpdateBookmark
  <2>3. QED
    BY <2>1, <2>2 DEF OneBookmarkPerTarget
<1>4. ASSUME NEW s \in Keepers, UpdateCollection(s), collections' # collections
      PROVE  OneBookmarkPerTarget'
  <2>1. ASSUME NEW b \in collections', NEW c \in collections', b.owner = c.owner, b.name = c.name
        PROVE  b = c
    <3>1. PICK x \in collections :
             /\ b.id = x.id /\ b.owner = x.owner
             /\ b.name = IF x.id = work[s].collection THEN work[s].label ELSE x.name
      BY <1>4, RenamedCollections
    <3>2. PICK y \in collections :
             /\ c.id = y.id /\ c.owner = y.owner
             /\ c.name = IF y.id = work[s].collection THEN work[s].label ELSE y.name
      BY <1>4, RenamedCollections
    <3>3. ~NameTaken(work[s])
      BY <1>4, RenamedCollections
    <3>4. NamesOwn(work[s])
      BY DEF OwnInv
    <3>5. b.id = c.id
      BY <2>1, <3>1, <3>2, <3>3, <3>4 DEF OneBookmarkPerTarget, NameTaken, NamesOwn
    <3>6. QED
      BY <3>5 DEF OwnInv, OneById
  <2>2. bookmarks' = bookmarks
    BY <1>4 DEF UpdateCollection
  <2>3. QED
    BY <2>1, <2>2 DEF OneBookmarkPerTarget
<1>5. CASE bookmarks' \subseteq bookmarks /\ collections' \subseteq collections
  BY <1>5 DEF OneBookmarkPerTarget
<1>6. ASSUME NEW s \in Keepers, UpdateCollection(s), collections' = collections
      PROVE  OneBookmarkPerTarget'
  BY <1>5, <1>6 DEF UpdateCollection
<1>7. ASSUME NEW s \in Keepers,
             \/ RemoveBookmark(s) \/ DeleteCollection(s)
             \/ AddToCollection(s) \/ RemoveFromCollection(s)
      PROVE  OneBookmarkPerTarget'
  BY <1>5, <1>7 DEF RemoveBookmark, DeleteCollection, AddToCollection, RemoveFromCollection
<1>8. QED
  BY <1>1, <1>2, <1>3, <1>4, <1>5, <1>6, <1>7, OtherSteps
     DEF BookmarksNext, Proceed, Expire, bookmarkVars

\* However requests race, a user has one bookmark per target and one collection per name.
THEOREM BookmarksStayUnique == BookmarksSpec => []OneBookmarkPerTarget
<1>1. BookmarksInit => OneBookmarkPerTarget
  <2> SUFFICES ASSUME BookmarksInit PROVE OneBookmarkPerTarget
    OBVIOUS
  <2>1. /\ \A b, c \in bookmarks : b = c
        /\ \A c, d \in collections : c = d
    BY DEF BookmarksInit
  <2>2. QED
    BY <2>1 DEF OneBookmarkPerTarget
<1>2. QED
  BY <1>1, BookmarksTyping, RequestsNameTheirOwn, OnePerTargetNext, PTL DEF BookmarksSpec

-----------------------------------------------------------------------------
(***************************************************************************)
(* Items.                                                                  *)
(***************************************************************************)
LEMMA ItemsNext ==
    ItemsPointSomewhere /\ BookmarksTypeOK /\ [BookmarksNext]_bookmarkVars => ItemsPointSomewhere'
<1> SUFFICES ASSUME ItemsPointSomewhere, BookmarksTypeOK, [BookmarksNext]_bookmarkVars
             PROVE  ItemsPointSomewhere'
  OBVIOUS
<1>1. database' = database
  BY OtherSteps DEF BookmarksNext, Proceed, Expire, bookmarkVars, AddBookmark, RemoveBookmark,
     UpdateBookmark, CreateCollection, UpdateCollection, DeleteCollection, AddToCollection,
     RemoveFromCollection
<1> SUFFICES ASSUME database = "postgres" PROVE ItemsPointSomewhere'
  BY <1>1 DEF ItemsPointSomewhere
<1>a. "postgres" # "mongo"
  OBVIOUS
<1>2. ASSUME items' \subseteq items,
             \A b \in bookmarks : \E c \in bookmarks' : c.id = b.id,
             \A b \in collections : \E c \in collections' : c.id = b.id
      PROVE  ItemsPointSomewhere'
  BY <1>1, <1>2 DEF ItemsPointSomewhere
<1>3. ASSUME NEW s \in Keepers, RemoveBookmark(s) PROVE ItemsPointSomewhere'
  <2>1. items' = items \ {i \in items : i.bookmark = work[s].bookmark}
    BY <1>3, <1>a DEF RemoveBookmark, Kept
  <2>2. /\ bookmarks' = {b \in bookmarks : b.id # work[s].bookmark}
        /\ collections' = collections
    BY <1>3 DEF RemoveBookmark
  <2>3. QED
    BY <1>1, <2>1, <2>2 DEF ItemsPointSomewhere
<1>4. ASSUME NEW s \in Keepers, DeleteCollection(s) PROVE ItemsPointSomewhere'
  <2>1. items' = items \ {i \in items : i.collection = work[s].collection}
    BY <1>4, <1>a DEF DeleteCollection, Kept
  <2>2. /\ collections' = {c \in collections : c.id # work[s].collection}
        /\ bookmarks' = bookmarks
    BY <1>4 DEF DeleteCollection
  <2>3. QED
    BY <1>1, <2>1, <2>2 DEF ItemsPointSomewhere
<1>5. ASSUME NEW s \in Keepers, UpdateBookmark(s) PROVE ItemsPointSomewhere'
  <2>1. PICK changes \in BOOLEAN :
          bookmarks' = {IF x.id = work[s].bookmark /\ changes
                        THEN [x EXCEPT !.rev = @ + 1] ELSE x : x \in bookmarks}
    BY <1>5 DEF UpdateBookmark
  <2>2. \A x \in bookmarks : [x EXCEPT !.rev = @ + 1].id = x.id
    BY DEF BookmarksTypeOK, Bookmark
  <2>3. ASSUME NEW x \in bookmarks PROVE \E c \in bookmarks' : c.id = x.id
    <3>1. (IF x.id = work[s].bookmark /\ changes THEN [x EXCEPT !.rev = @ + 1] ELSE x) \in bookmarks'
      BY <2>1
    <3>2. QED
      BY <2>2, <3>1
  <2>4. QED
    BY <1>2, <1>5, <2>3 DEF UpdateBookmark
<1>6. ASSUME NEW s \in Keepers, UpdateCollection(s) PROVE ItemsPointSomewhere'
  <2>1. \A x \in collections : [x EXCEPT !.name = work[s].label].id = x.id
    BY DEF BookmarksTypeOK, Collection
  <2>2. ASSUME NEW x \in collections PROVE \E c \in collections' : c.id = x.id
    <3>1. CASE collections' = collections
      BY <3>1
    <3>2. CASE collections' # collections
      <4>1. (IF x.id = work[s].collection THEN [x EXCEPT !.name = work[s].label] ELSE x) \in collections'
        BY <1>6, <3>2 DEF UpdateCollection
      <4>2. QED
        BY <2>1, <4>1
    <3>3. QED
      BY <3>1, <3>2
  <2>3. QED
    BY <1>2, <1>6, <2>2 DEF UpdateCollection
<1>7. ASSUME NEW s \in Keepers, AddToCollection(s) PROVE ItemsPointSomewhere'
  <2>1. CASE KeysExist(work[s])
    BY <1>1, <1>7, <1>a, <2>1 DEF AddToCollection, KeysExist, ItemOf, ItemsPointSomewhere
  <2>2. CASE ~KeysExist(work[s])
    BY <1>2, <1>7, <2>2 DEF AddToCollection
  <2>3. QED
    BY <2>1, <2>2
<1>8. ASSUME NEW s \in Keepers, AddBookmark(s) \/ CreateCollection(s) \/ RemoveFromCollection(s)
      PROVE  ItemsPointSomewhere'
  BY <1>2, <1>8 DEF AddBookmark, CreateCollection, RemoveFromCollection
<1>9. CASE UNCHANGED <<bookmarks, collections, items>>
  BY <1>2, <1>9
<1>10. QED
  BY <1>3, <1>4, <1>5, <1>6, <1>7, <1>8, <1>9, OtherSteps
     DEF BookmarksNext, Proceed, Expire, bookmarkVars

\* On PostgreSQL no item dangles.
THEOREM ItemsAlwaysPoint == BookmarksSpec => []ItemsPointSomewhere
<1>1. BookmarksInit => ItemsPointSomewhere
  BY DEF BookmarksInit, ItemsPointSomewhere
<1>2. QED
  BY <1>1, BookmarksTyping, ItemsNext, PTL DEF BookmarksSpec

-----------------------------------------------------------------------------
(***************************************************************************)
(* The cache.  For an owner whose reads never ran beside the owner's       *)
(* writes, as long as no call was lost: an entry that differs from the     *)
(* database is one some write is still about to delete, and what a read    *)
(* carries to the cache is what the database holds.                        *)
(***************************************************************************)
Calm(o) == o \notin mixed /\ faults = 0
Apart(o) == ~(Beside(o, {"read"}) /\ Beside(o, Writes))
WillDrop(k, o) ==
    \E s \in Keepers : /\ work[s].owner = o /\ work[s].pc = "drop"
                       /\ \E i \in 1..Len(work[s].drop) : work[s].drop[i] = k
Covered(o) == \A k \in Kinds : Fresh(k, o) \/ WillDrop(k, o)
Carries(o) == \A s \in Keepers : work[s].owner = o /\ work[s].pc = "fill"
                                    => work[s].value = ListOf(work[s].label, o)
CacheInv == \A o \in Owners : Calm(o) => Apart(o) /\ Covered(o) /\ Carries(o)

LEMMA CacheGives == BookmarksTypeOK /\ CacheInv => CacheFreshWhenQuiet
<1> SUFFICES ASSUME BookmarksTypeOK, CacheInv, NEW o \in Owners, Calm(o), ~Beside(o, Writes),
                    NEW k \in Kinds
             PROVE  Fresh(k, o)
  BY DEF CacheFreshWhenQuiet, Calm
<1>1. ~WillDrop(k, o)
  <2> SUFFICES ASSUME NEW s \in Keepers, work[s].owner = o, work[s].pc = "drop" PROVE FALSE
    BY DEF WillDrop
  <2>1. work[s].op \in Writes
    BY DEF BookmarksTypeOK, Works
  <2>2. QED
    BY <2>1 DEF Beside
<1>2. QED
  BY <1>1 DEF CacheInv, Covered

LEMMA CacheInit == BookmarksInit => CacheInv
<1> SUFFICES ASSUME BookmarksInit, NEW o \in Owners PROVE Apart(o) /\ Covered(o) /\ Carries(o)
  BY DEF CacheInv
<1>1. \A s \in Keepers : work[s].op = "none" /\ work[s].pc = "idle"
  BY DEF BookmarksInit, NoWork
<1>2. Apart(o)
  BY <1>1 DEF Apart, Beside
<1>3. Covered(o)
  BY DEF BookmarksInit, Covered, Fresh, NoEntry
<1>4. QED
  BY <1>1, <1>2, <1>3 DEF Carries

\* A request that only enters, or leaves with no key of this owner left to drop.
LEMMA Moves ==
    ASSUME BookmarksTypeOK, NEW s \in Keepers, NEW w, Goes(s, w)
    PROVE  work'[s] = w /\ \A t \in Keepers : t # s => work'[t] = work[t]
BY DEF Goes, BookmarksTypeOK

LEMMA EndsNotDrops ==
    ASSUME BookmarksTypeOK, NEW s \in Keepers, NEW d, Ends(s),
           Goes(s, [work[s] EXCEPT !.pc = "drop", !.drop = d])
    PROVE  FALSE
<1>1. work'[s] = NoWork /\ work'[s] = [work[s] EXCEPT !.pc = "drop", !.drop = d]
  BY Moves DEF Ends
<1>2. [work[s] EXCEPT !.pc = "drop", !.drop = d].pc = "drop"
  BY DEF BookmarksTypeOK, Works
<1>3. NoWork.pc = "idle"
  BY DEF NoWork
<1>4. QED
  BY <1>1, <1>2, <1>3

LEMMA SameLists ==
    ASSUME UNCHANGED <<bookmarks, collections>>
    PROVE  \A k, o : ListOf(k, o)' = ListOf(k, o)
BY DEF ListOf

LEMMA CacheEnter ==
    ASSUME BookmarksTypeOK, CacheInv, NEW s \in Keepers, ~Busy(s), NEW w, Goes(s, w),
           w.pc \notin {"drop", "fill"},
           \/ w.op \in Writes /\ Mixes(w.owner, {"read"})
           \/ w.op = "read" /\ Mixes(w.owner, Writes),
           UNCHANGED <<bookmarks, collections, cache>>,
           faults' = 0 => faults = 0
    PROVE  CacheInv'
<1> SUFFICES ASSUME NEW o \in Owners, Calm(o)' PROVE (Apart(o) /\ Covered(o) /\ Carries(o))'
  BY DEF CacheInv
<1>1. work'[s] = w /\ \A t \in Keepers : t # s => work'[t] = work[t]
  BY Moves
<1>2. Calm(o) /\ Apart(o) /\ Covered(o) /\ Carries(o)
  BY DEF Calm, Mixes, CacheInv
<1>3. "read" \notin Writes
  BY DEF Writes, BookmarkWrites, CollectionWrites, ItemWrites
<1>4. Apart(o)'
  <2>1. CASE w.owner # o
    BY <1>1, <1>2, <2>1 DEF Apart, Beside
  <2>2. CASE w.owner = o /\ w.op \in Writes
    <3>1. ~Beside(o, {"read"})
      BY <2>2, <1>3 DEF Mixes, Calm
    <3>2. QED
      BY <1>1, <1>3, <2>2, <3>1 DEF Apart, Beside
  <2>3. CASE w.owner = o /\ w.op = "read"
    <3>1. ~Beside(o, Writes)
      BY <2>3, <1>3 DEF Mixes, Calm
    <3>2. QED
      BY <1>1, <1>3, <2>3, <3>1 DEF Apart, Beside
  <2>4. QED
    BY <2>1, <2>2, <2>3
<1>5. ASSUME NEW k \in Kinds PROVE (Fresh(k, o) \/ WillDrop(k, o))'
  <2>1. CASE Fresh(k, o)
    BY <2>1, SameLists DEF Fresh
  <2>2. ASSUME WillDrop(k, o) PROVE WillDrop(k, o)'
    <3>1. PICK t \in Keepers : /\ work[t].owner = o /\ work[t].pc = "drop"
                               /\ \E i \in 1..Len(work[t].drop) : work[t].drop[i] = k
      BY <2>2 DEF WillDrop
    <3>2. t # s
      BY <3>1 DEF Busy, BookmarksTypeOK, Works
    <3>3. QED
      BY <1>1, <3>1, <3>2 DEF WillDrop
  <2>3. QED
    BY <1>2, <2>1, <2>2 DEF Covered
<1>6. Carries(o)'
  BY <1>1, <1>2, SameLists DEF Carries
<1>7. QED
  BY <1>4, <1>5, <1>6 DEF Covered

\* A write changes lists of its own user only, and goes on to drop the keys of all it changed.
LEMMA CacheWrite ==
    ASSUME BookmarksTypeOK, CacheInv, NEW s \in Keepers, work[s].pc = "write",
           NEW d \in Seq(Kinds), d # <<>>,
           Ends(s) \/ Goes(s, [work[s] EXCEPT !.pc = "drop", !.drop = d]),
           \A o \in Owners, k \in Kinds :
              \/ ListOf(k, o)' = ListOf(k, o)
              \/ /\ o = work[s].owner /\ ~Ends(s)
                 /\ \E i \in 1..Len(d) : d[i] = k,
           UNCHANGED <<cache, mixed, faults>>
    PROVE  CacheInv'
<1> SUFFICES ASSUME NEW o \in Owners, Calm(o)' PROVE (Apart(o) /\ Covered(o) /\ Carries(o))'
  BY DEF CacheInv
<1>1. Calm(o) /\ Apart(o) /\ Covered(o) /\ Carries(o)
  BY DEF Calm, CacheInv
<1>2. work[s] \in Works /\ work[s].op \in Writes
  BY DEF BookmarksTypeOK, Works
<1>3. \A t \in Keepers : t # s => work'[t] = work[t]
  BY Moves DEF Ends
<1>4. \/ Ends(s) /\ work'[s] = NoWork
      \/ /\ ~Ends(s) /\ work'[s].owner = work[s].owner /\ work'[s].op = work[s].op
         /\ work'[s].pc = "drop" /\ work'[s].drop = d
  <2>1. CASE Ends(s)
    BY <2>1, Moves DEF Ends
  <2>2. CASE ~Ends(s)
    <3>1. work'[s] = [work[s] EXCEPT !.pc = "drop", !.drop = d]
      BY <2>2, Moves
    <3>2. QED
      BY <1>2, <2>2, <3>1 DEF Works
  <2>3. QED
    BY <2>1, <2>2
<1>5. NoWork.op = "none" /\ "none" \notin Writes \union {"read"} /\ "read" \notin Writes
  BY DEF NoWork, Writes, BookmarkWrites, CollectionWrites, ItemWrites
<1>6. Apart(o)'
  BY <1>1, <1>2, <1>3, <1>4, <1>5 DEF Apart, Beside
<1>7. ASSUME NEW k \in Kinds PROVE (Fresh(k, o) \/ WillDrop(k, o))'
  <2>1. CASE ListOf(k, o)' # ListOf(k, o)
    BY <1>4, <2>1 DEF WillDrop
  <2>2. CASE ListOf(k, o)' = ListOf(k, o) /\ Fresh(k, o)
    BY <2>2 DEF Fresh
  <2>3. ASSUME WillDrop(k, o) PROVE WillDrop(k, o)'
    <3>1. PICK t \in Keepers : /\ work[t].owner = o /\ work[t].pc = "drop"
                               /\ \E i \in 1..Len(work[t].drop) : work[t].drop[i] = k
      BY <2>3 DEF WillDrop
    <3>2. work'[t] = work[t]
      BY <1>3, <3>1
    <3>3. QED
      BY <3>1, <3>2 DEF WillDrop
  <2>4. QED
    BY <1>1, <2>1, <2>2, <2>3 DEF Covered
<1>8. Carries(o)'
  <2> SUFFICES ASSUME NEW t \in Keepers, work'[t].owner = o, work'[t].pc = "fill"
               PROVE  (work[t].value = ListOf(work[t].label, o))'
    BY DEF Carries
  <2>1. t # s
    BY <1>4 DEF NoWork
  <2>2. work'[t] = work[t] /\ work[t].op = "read" /\ work[t].label \in Kinds
    BY <1>3, <2>1 DEF BookmarksTypeOK, Works
  <2>3. o # work[s].owner
    BY <1>1, <1>2, <2>2 DEF Apart, Beside
  <2>4. PICK k \in Kinds : k = work[t].label
    BY <2>2
  <2>5. ListOf(k, o)' = ListOf(k, o)
    BY <2>3
  <2>6. work[t].value = ListOf(k, o)
    BY <1>1, <2>2, <2>4 DEF Carries
  <2>7. QED
    BY <2>2, <2>4, <2>5, <2>6 DEF ListOf
<1>9. QED
  BY <1>6, <1>7, <1>8 DEF Covered

\* Which lists a write changes.
LEMMA BookmarkListsChange ==
    ASSUME NEW o, bookmarks' = bookmarks \/ \A b \in bookmarks \union bookmarks' :
                              b.owner = o => b \in bookmarks /\ b \in bookmarks',
           UNCHANGED collections
    PROVE  \A k : ListOf(k, o)' = ListOf(k, o)
BY DEF ListOf

LEMMA CollectionListsChange ==
    ASSUME NEW o, collections' = collections \/ \A c \in collections \union collections' :
                              c.owner = o => c \in collections /\ c \in collections',
           UNCHANGED bookmarks
    PROVE  \A k : ListOf(k, o)' = ListOf(k, o)
BY DEF ListOf

LEMMA CacheBookmarkWrite ==
    ASSUME BookmarksTypeOK, CacheInv, OwnInv, NEW s \in Keepers,
           AddBookmark(s) \/ RemoveBookmark(s) \/ UpdateBookmark(s)
    PROVE  CacheInv'
<1> DEFINE d == <<"bookmarks", "stats">>
<1>1. d \in Seq(Kinds) /\ d # <<>> /\ Len(d) = 2 /\ d[1] = "bookmarks" /\ d[2] = "stats"
  BY KindLists
<1>2. Ends(s) \/ Goes(s, [work[s] EXCEPT !.pc = "drop", !.drop = d])
  BY DEF AddBookmark, RemoveBookmark, UpdateBookmark, AfterBookmark
<1>3. /\ UNCHANGED <<collections, cache, mixed, faults>>
      /\ work[s].pc = "write" /\ NamesOwn(work[s])
  BY DEF AddBookmark, RemoveBookmark, UpdateBookmark, Writing, OwnInv
<1>4. Ends(s) => bookmarks' = bookmarks
  <2>0. ~(Ends(s) /\ AfterBookmark(s))
    BY EndsNotDrops DEF AfterBookmark
  <2>1. CASE AddBookmark(s)
    BY <2>0, <2>1 DEF AddBookmark
  <2>2. CASE RemoveBookmark(s)
    BY <2>0, <2>2 DEF RemoveBookmark
  <2>3. CASE UpdateBookmark(s)
    BY <2>0, <2>3 DEF UpdateBookmark
  <2>4. QED
    BY <2>1, <2>2, <2>3
<1>5. ASSUME NEW o, o # work[s].owner, NEW b \in bookmarks \union bookmarks', b.owner = o
      PROVE  b \in bookmarks /\ b \in bookmarks'
  <2>1. CASE AddBookmark(s)
    BY <1>5, <2>1 DEF AddBookmark
  <2>2. CASE RemoveBookmark(s)
    BY <1>3, <1>5, <2>2 DEF RemoveBookmark, NamesOwn
  <2>3. CASE UpdateBookmark(s)
    <3>1. PICK changes \in BOOLEAN :
            bookmarks' = {IF x.id = work[s].bookmark /\ changes
                          THEN [x EXCEPT !.rev = @ + 1] ELSE x : x \in bookmarks}
      BY <2>3 DEF UpdateBookmark
    <3>2. \A x \in bookmarks : [x EXCEPT !.rev = @ + 1].owner = x.owner
      BY DEF BookmarksTypeOK, Bookmark
    <3>3. QED
      BY <1>3, <1>5, <3>1, <3>2 DEF NamesOwn
  <2>4. QED
    BY <2>1, <2>2, <2>3
<1>6. ASSUME NEW o \in Owners, NEW k \in Kinds
      PROVE  \/ ListOf(k, o)' = ListOf(k, o)
             \/ /\ o = work[s].owner /\ ~Ends(s)
                /\ \E i \in 1..Len(d) : d[i] = k
  <2>1. CASE o # work[s].owner \/ Ends(s)
    BY <1>3, <1>4, <1>5, <2>1, BookmarkListsChange
  <2>2. CASE k = "collections"
    BY <1>3, <2>2 DEF ListOf
  <2>3. CASE o = work[s].owner /\ ~Ends(s) /\ k # "collections"
    BY <1>1, <2>3 DEF Kinds
  <2>4. QED
    BY <2>1, <2>2, <2>3
<1> HIDE DEF d
<1>7. QED
  BY <1>1, <1>2, <1>3, <1>6, CacheWrite

LEMMA CacheCollectionWrite ==
    ASSUME BookmarksTypeOK, CacheInv, OwnInv, NEW s \in Keepers,
           CreateCollection(s) \/ UpdateCollection(s) \/ DeleteCollection(s)
    PROVE  CacheInv'
<1> DEFINE d == <<"collections">>
<1>1. d \in Seq(Kinds) /\ d # <<>> /\ Len(d) = 1 /\ d[1] = "collections"
  BY KindLists
<1>2. Ends(s) \/ Goes(s, [work[s] EXCEPT !.pc = "drop", !.drop = d])
  BY DEF CreateCollection, UpdateCollection, DeleteCollection, AfterCollection
<1>3. /\ UNCHANGED <<bookmarks, cache, mixed, faults>>
      /\ work[s].pc = "write" /\ NamesOwn(work[s])
  BY DEF CreateCollection, UpdateCollection, DeleteCollection, Writing, OwnInv
<1>4. Ends(s) => collections' = collections
  <2>0. ~(Ends(s) /\ AfterCollection(s))
    BY EndsNotDrops DEF AfterCollection
  <2>1. CASE CreateCollection(s)
    BY <2>0, <2>1 DEF CreateCollection
  <2>2. CASE UpdateCollection(s)
    BY <2>0, <2>2 DEF UpdateCollection
  <2>3. CASE DeleteCollection(s)
    BY <2>0, <2>3 DEF DeleteCollection
  <2>4. QED
    BY <2>1, <2>2, <2>3
<1>5. ASSUME NEW o, o # work[s].owner, NEW c \in collections \union collections', c.owner = o
      PROVE  c \in collections /\ c \in collections'
  <2>1. CASE CreateCollection(s)
    BY <1>5, <2>1 DEF CreateCollection
  <2>2. CASE DeleteCollection(s)
    BY <1>3, <1>5, <2>2 DEF DeleteCollection, NamesOwn
  <2>3. CASE collections' = collections
    BY <1>5, <2>3
  <2>4. CASE UpdateCollection(s) /\ collections' # collections
    <3>1. collections' = {IF x.id = work[s].collection THEN [x EXCEPT !.name = work[s].label]
                          ELSE x : x \in collections}
      BY <2>4 DEF UpdateCollection
    <3>2. \A x \in collections : [x EXCEPT !.name = work[s].label].owner = x.owner
      BY DEF BookmarksTypeOK, Collection
    <3>3. QED
      BY <1>3, <1>5, <3>1, <3>2 DEF NamesOwn
  <2>5. QED
    BY <2>1, <2>2, <2>3, <2>4
<1>6. ASSUME NEW o \in Owners, NEW k \in Kinds
      PROVE  \/ ListOf(k, o)' = ListOf(k, o)
             \/ /\ o = work[s].owner /\ ~Ends(s)
                /\ \E i \in 1..Len(d) : d[i] = k
  <2>1. CASE o # work[s].owner \/ Ends(s)
    BY <1>3, <1>4, <1>5, <2>1, CollectionListsChange
  <2>2. CASE k # "collections"
    BY <1>3, <2>2 DEF ListOf
  <2>3. CASE o = work[s].owner /\ ~Ends(s) /\ k = "collections"
    BY <1>1, <2>3
  <2>4. QED
    BY <2>1, <2>2, <2>3
<1> HIDE DEF d
<1>7. QED
  BY <1>1, <1>2, <1>3, <1>6, CacheWrite

LEMMA CacheNext == CacheInv /\ OwnInv /\ BookmarksTypeOK /\ [BookmarksNext]_bookmarkVars => CacheInv'
<1> SUFFICES ASSUME CacheInv, OwnInv, BookmarksTypeOK, [BookmarksNext]_bookmarkVars PROVE CacheInv'
  OBVIOUS
<1>a. faults \in Nat /\ \A s \in Keepers : work[s] \in Works
  BY BookmarkAssumption DEF BookmarksTypeOK
<1>1. ASSUME NEW s \in Keepers, NEW op \in Writes, NEW o, NEW label, NEW b, NEW c,
             StartWrite(s, Job(op, o, label, b, c))
      PROVE  CacheInv'
  <2>1. Job(op, o, label, b, c).pc = "write" /\ Job(op, o, label, b, c).op = op
    BY DEF Job, NoWork
  <2>2. QED
    BY <1>1, <2>1, CacheEnter DEF StartWrite
<1>2. ASSUME NEW s \in Keepers, Begin(s) PROVE CacheInv'
  <2>1. ASSUME NEW k \in Kinds, NEW o \in Owners, StartRead(s, k, o) PROVE CacheInv'
    <3>1. faults' = 0 => faults = 0
      BY <1>a, <2>1 DEF StartRead, Fault
    <3>2. PICK w : w = [NoWork EXCEPT !.op = "read", !.pc = "load", !.owner = o, !.label = k]
      OBVIOUS
    <3>3. w.op = "read" /\ w.pc = "load" /\ w.owner = o
      BY <3>2 DEF NoWork
    <3>4. QED
      BY <2>1, <3>1, <3>2, <3>3, CacheEnter DEF StartRead
  <2>2. QED
    BY <1>1, <1>2, <2>1
       DEF Begin, StartAdd, StartBookmarkWrite, StartCreateCollection, StartCollectionWrite,
           StartItemWrite, Writes, BookmarkWrites, CollectionWrites, ItemWrites
<1>3. ASSUME NEW s \in Keepers, AddToCollection(s) \/ RemoveFromCollection(s) PROVE CacheInv'
  <2>1. /\ work[s].pc = "write" /\ Ends(s)
        /\ UNCHANGED <<bookmarks, collections, cache, mixed, faults>>
    BY <1>3 DEF AddToCollection, RemoveFromCollection, Writing
  <2>2. \A k, o : ListOf(k, o)' = ListOf(k, o)
    BY <2>1, SameLists
  <2>3. QED
    BY <2>1, <2>2, CacheWrite, KindLists
\* What does not touch the database keeps readers and writers apart.
<1>4. ASSUME NEW s \in Keepers, UNCHANGED <<bookmarks, collections, mixed>>, faults' = 0 => faults = 0,
             \A t \in Keepers : t # s => work'[t] = work[t],
             \/ work'[s] = NoWork
             \/ work'[s].op = work[s].op /\ work'[s].owner = work[s].owner,
             NEW o \in Owners, Calm(o)'
      PROVE  /\ Apart(o)' /\ Covered(o) /\ Carries(o)
             /\ \A k \in Kinds : ListOf(k, o)' = ListOf(k, o)
  <2>1. Apart(o) /\ Covered(o) /\ Carries(o)
    BY <1>4 DEF CacheInv, Calm
  <2>2. NoWork.op = "none" /\ "none" \notin Writes \union {"read"}
    BY DEF NoWork, Writes, BookmarkWrites, CollectionWrites, ItemWrites
  <2>3. Apart(o)'
    BY <1>4, <2>1, <2>2 DEF Apart, Beside
  <2>4. QED
    BY <1>4, <2>1, <2>3, SameLists
<1>5. ASSUME NEW s \in Keepers, DropKey(s) PROVE CacheInv'
  <2> SUFFICES ASSUME NEW o \in Owners, Calm(o)' PROVE (Apart(o) /\ Covered(o) /\ Carries(o))'
    BY DEF CacheInv
  <2>0. UNCHANGED <<bookmarks, collections, mixed>> /\ (faults' = 0 => faults = 0)
    BY <1>5, <1>a DEF DropKey, Fault
  <2>1. PICK q : q = work[s].drop /\ q \in Seq(Kinds) /\ q # <<>>
    BY <1>5, <1>a DEF DropKey, Works
  <2>2. cache' = [cache EXCEPT ![Head(q)][work[s].owner] = NoEntry]
    BY <1>5, <1>a, <2>1 DEF DropKey, Fault, Calm
  <2>3. /\ \A t \in Keepers : t # s => work'[t] = work[t]
        /\ \/ Tail(q) = <<>> /\ work'[s] = NoWork
           \/ Tail(q) # <<>> /\ work'[s] = [work[s] EXCEPT !.drop = Tail(q)]
    BY <1>5, <2>1, Moves DEF DropKey, Ends
  <2>4. [work[s] EXCEPT !.drop = Tail(q)].op = work[s].op
        /\ [work[s] EXCEPT !.drop = Tail(q)].owner = work[s].owner
        /\ [work[s] EXCEPT !.drop = Tail(q)].drop = Tail(q)
        /\ [work[s] EXCEPT !.drop = Tail(q)].pc = "drop"
    BY <1>5, <1>a DEF Works, DropKey
  <2>5. /\ Apart(o)' /\ Covered(o) /\ Carries(o)
        /\ \A k \in Kinds : ListOf(k, o)' = ListOf(k, o)
    BY <1>4, <2>0, <2>3, <2>4
  <2>6. Carries(o)'
    <3> SUFFICES ASSUME NEW t \in Keepers, work'[t].owner = o, work'[t].pc = "fill"
                 PROVE  (work[t].value = ListOf(work[t].label, o))'
      BY DEF Carries
    <3>0. NoWork.pc = "idle"
      BY DEF NoWork
    <3>1. t # s /\ work'[t] = work[t]
      BY <2>3, <2>4, <3>0
    <3>2. work[t].value = ListOf(work[t].label, o)
      BY <2>5, <3>1 DEF Carries
    <3>3. QED
      BY <2>0, <3>1, <3>2 DEF ListOf
  <2>7. ASSUME NEW k \in Kinds PROVE (Fresh(k, o) \/ WillDrop(k, o))'
    <3>1. Head(q) \in Kinds /\ work[s].owner \in Owners
      BY <1>5, <1>a, <2>1 DEF DropKey, Works
    <3>2. CASE k = Head(q) /\ o = work[s].owner
      BY <2>2, <3>1, <3>2 DEF Fresh, NoEntry, BookmarksTypeOK
    <3>3. CASE ~(k = Head(q) /\ o = work[s].owner) /\ Fresh(k, o)
      <4>1. cache'[k][o] = cache[k][o]
        BY <2>2, <3>1, <3>3 DEF BookmarksTypeOK
      <4>2. QED
        BY <2>5, <3>3, <4>1 DEF Fresh
    <3>4. ASSUME ~(k = Head(q) /\ o = work[s].owner), WillDrop(k, o) PROVE WillDrop(k, o)'
      <4>1. PICK t \in Keepers : /\ work[t].owner = o /\ work[t].pc = "drop"
                                 /\ \E i \in 1..Len(work[t].drop) : work[t].drop[i] = k
        BY <3>4 DEF WillDrop
      <4>2. CASE t # s
        BY <2>3, <4>1, <4>2 DEF WillDrop
      <4>3. CASE t = s
        <5>1. PICK i \in 1..Len(q) : q[i] = k
          BY <2>1, <4>1, <4>3
        <5>2. i # 1 /\ Len(q) > 1
          BY <2>1, <3>4, <4>1, <4>3, <5>1
        <5>3. Tail(q) # <<>> /\ Len(Tail(q)) = Len(q) - 1 /\ Tail(q)[i - 1] = k
          BY <2>1, <5>1, <5>2
        <5>4. i - 1 \in 1..Len(Tail(q))
          BY <2>1, <5>1, <5>2, <5>3
        <5>5. work'[s].owner = o /\ work'[s].pc = "drop" /\ work'[s].drop = Tail(q)
          BY <2>3, <2>4, <4>1, <4>3, <5>3
        <5>6. QED
          BY <5>3, <5>4, <5>5 DEF WillDrop
      <4>4. QED
        BY <4>2, <4>3
    <3>5. QED
      BY <2>5, <3>2, <3>3, <3>4 DEF Covered
  <2>8. QED
    BY <2>5, <2>6, <2>7 DEF Covered
<1>6. ASSUME NEW s \in Keepers, LoadList(s) PROVE CacheInv'
  <2> SUFFICES ASSUME NEW o \in Owners, Calm(o)' PROVE (Apart(o) /\ Covered(o) /\ Carries(o))'
    BY DEF CacheInv
  <2>1. /\ UNCHANGED <<bookmarks, collections, cache, mixed, faults>>
        /\ \A t \in Keepers : t # s => work'[t] = work[t]
        /\ work'[s] = [work[s] EXCEPT !.pc = "fill",
                                      !.value = ListOf(work[s].label, work[s].owner)]
    BY <1>6, Moves DEF LoadList
  <2>2. /\ work'[s].op = work[s].op /\ work'[s].owner = work[s].owner /\ work[s].pc = "load"
        /\ work'[s].label = work[s].label
        /\ work'[s].value = ListOf(work[s].label, work[s].owner)
    BY <1>6, <1>a, <2>1 DEF LoadList, Works
  <2>3. /\ Apart(o)' /\ Covered(o) /\ Carries(o)
        /\ \A k \in Kinds : ListOf(k, o)' = ListOf(k, o)
    BY <1>4, <2>1, <2>2
  <2>4. ASSUME NEW t \in Keepers, work'[t].owner = o, work'[t].pc = "fill"
        PROVE  (work[t].value = ListOf(work[t].label, o))'
    <3>1. work'[t].value = ListOf(work[t].label, o) /\ work'[t].label = work[t].label
      BY <2>1, <2>2, <2>3, <2>4 DEF Carries
    <3>2. QED
      BY <2>1, <3>1 DEF ListOf
  <2>5. ASSUME NEW k \in Kinds PROVE (Fresh(k, o) \/ WillDrop(k, o))'
    <3>1. CASE Fresh(k, o)
      BY <2>1, <2>3, <3>1 DEF Fresh
    <3>2. CASE WillDrop(k, o)
      BY <2>1, <2>2, <3>2 DEF WillDrop
    <3>3. QED
      BY <2>3, <3>1, <3>2 DEF Covered
  <2>6. QED
    BY <2>3, <2>4, <2>5 DEF Covered, Carries
<1>7. ASSUME NEW s \in Keepers, FillCache(s) PROVE CacheInv'
  <2> SUFFICES ASSUME NEW o \in Owners, Calm(o)' PROVE (Apart(o) /\ Covered(o) /\ Carries(o))'
    BY DEF CacheInv
  <2>1. /\ UNCHANGED <<bookmarks, collections, mixed, faults>>
        /\ cache' = [cache EXCEPT ![work[s].label][work[s].owner] =
                                      [hit |-> TRUE, value |-> work[s].value]]
        /\ work[s].pc = "fill"
        /\ work'[s] = NoWork
        /\ \A t \in Keepers : t # s => work'[t] = work[t]
    BY <1>7, Moves DEF FillCache, Ends
  <2>2. work[s].label \in Kinds /\ work[s].owner \in Owners
    BY <1>a, <2>1 DEF Works
  <2>3. /\ Apart(o)' /\ Covered(o) /\ Carries(o)
        /\ \A k \in Kinds : ListOf(k, o)' = ListOf(k, o)
    BY <1>4, <2>1
  <2>4. ASSUME NEW t \in Keepers, work'[t].owner = o, work'[t].pc = "fill"
        PROVE  (work[t].value = ListOf(work[t].label, o))'
    <3>1. work'[t] = work[t] /\ work[t].value = ListOf(work[t].label, o)
      BY <2>1, <2>3, <2>4 DEF Carries, NoWork
    <3>2. QED
      BY <2>1, <3>1 DEF ListOf
  <2>5. ASSUME NEW k \in Kinds PROVE (Fresh(k, o) \/ WillDrop(k, o))'
    <3>1. CASE k = work[s].label /\ o = work[s].owner
      <4>1. cache'[k][o] = [hit |-> TRUE, value |-> work[s].value]
        BY <2>1, <2>2, <3>1 DEF BookmarksTypeOK
      <4>2. work[s].value = ListOf(k, o)
        BY <2>1, <2>3, <3>1 DEF Carries
      <4>3. QED
        BY <2>3, <4>1, <4>2 DEF Fresh
    <3>2. CASE ~(k = work[s].label /\ o = work[s].owner)
      <4>1. cache'[k][o] = cache[k][o]
        BY <2>1, <2>2, <3>2 DEF BookmarksTypeOK
      <4>2. CASE Fresh(k, o)
        BY <2>3, <4>1, <4>2 DEF Fresh
      <4>3. CASE WillDrop(k, o)
        BY <2>1, <4>3 DEF WillDrop
      <4>4. QED
        BY <2>3, <4>2, <4>3 DEF Covered
    <3>3. QED
      BY <3>1, <3>2
  <2>6. QED
    BY <2>3, <2>4, <2>5 DEF Covered, Carries
<1>8. ASSUME NEW s \in Keepers, DropRead(s) PROVE CacheInv'
  <2> SUFFICES ASSUME NEW o \in Owners, Calm(o)' PROVE (Apart(o) /\ Covered(o) /\ Carries(o))'
    BY DEF CacheInv
  <2>1. /\ UNCHANGED <<bookmarks, collections, cache, mixed, faults>>
        /\ work'[s] = NoWork /\ work[s].pc # "drop"
        /\ \A t \in Keepers : t # s => work'[t] = work[t]
    BY <1>8, <1>a, Moves DEF DropRead, Ends, Works
  <2>2. /\ Apart(o)' /\ Covered(o) /\ Carries(o)
        /\ \A k \in Kinds : ListOf(k, o)' = ListOf(k, o)
    BY <1>4, <2>1
  <2>3. ASSUME NEW t \in Keepers, work'[t].owner = o, work'[t].pc = "fill"
        PROVE  (work[t].value = ListOf(work[t].label, o))'
    <3>1. work'[t] = work[t] /\ work[t].value = ListOf(work[t].label, o)
      BY <2>1, <2>2, <2>3 DEF Carries, NoWork
    <3>2. QED
      BY <2>1, <3>1 DEF ListOf
  <2>4. ASSUME NEW k \in Kinds PROVE (Fresh(k, o) \/ WillDrop(k, o))'
    <3>1. CASE Fresh(k, o)
      BY <2>1, <2>2, <3>1 DEF Fresh
    <3>2. CASE WillDrop(k, o)
      BY <2>1, <3>2 DEF WillDrop
    <3>3. QED
      BY <2>2, <3>1, <3>2 DEF Covered
  <2>5. QED
    BY <2>2, <2>3, <2>4 DEF Covered, Carries
<1>9. ASSUME NEW s \in Keepers, Interrupt(s) PROVE CacheInv'
  BY <1>9, <1>a DEF Interrupt, Fault, CacheInv, Calm
<1>10. ASSUME UNCHANGED <<bookmarks, collections, work, mixed, faults>>,
              \A k \in Kinds, o \in Owners : cache'[k][o] \in {cache[k][o], NoEntry}
       PROVE  CacheInv'
  <2> SUFFICES ASSUME NEW o \in Owners, Calm(o)' PROVE (Apart(o) /\ Covered(o) /\ Carries(o))'
    BY DEF CacheInv
  <2>1. Apart(o) /\ Covered(o) /\ Carries(o)
    BY <1>10 DEF CacheInv, Calm
  <2>2. Apart(o)' /\ Carries(o)'
    BY <1>10, <2>1 DEF Apart, Beside, Carries, ListOf
  <2>3. ASSUME NEW k \in Kinds PROVE (Fresh(k, o) \/ WillDrop(k, o))'
    <3>1. CASE cache'[k][o] = NoEntry
      BY <3>1 DEF Fresh, NoEntry
    <3>2. CASE cache'[k][o] = cache[k][o]
      BY <1>10, <2>1, <3>2, SameLists DEF Covered, Fresh, WillDrop
    <3>3. QED
      BY <1>10, <3>1, <3>2
  <2>4. QED
    BY <2>2, <2>3 DEF Covered
<1>11. ASSUME NEW k \in Kinds, NEW o \in Owners, Expire(k, o) PROVE CacheInv'
  BY <1>10, <1>11 DEF Expire, BookmarksTypeOK
<1>12. CASE UNCHANGED bookmarkVars
  BY <1>10, <1>12 DEF bookmarkVars
<1>13. QED
  BY <1>2, <1>3, <1>5, <1>6, <1>7, <1>8, <1>9, <1>11, <1>12, CacheBookmarkWrite,
     CacheCollectionWrite DEF BookmarksNext, Proceed

\* A quiet user's cached lists are the user's lists: every write drops every key it made
\* stale, whatever requests of other users run at the time.
THEOREM CacheStaysFresh == BookmarksSpec => []CacheFreshWhenQuiet
<1>1. QED
  BY BookmarksTyping, RequestsNameTheirOwn, CacheInit, CacheNext, CacheGives, PTL DEF BookmarksSpec

=============================================================================

# TLA+ verification of the QA API

This directory is a verification development for the question-and-answer API in
`src/` (TypeScript, Express; Mongoose or Prisma/PostgreSQL, Elasticsearch, Redis,
RabbitMQ, Cloudflare R2). Modules are checked with TLC on small instances (`*.cfg`) and
the theorems in `*Proofs.tla` are checked with TLAPS for every value of the constants.
Paths below are relative to `src/`.

- [1. The system](#1-the-system): components, state, what is hard
- [2. What is modelled](#2-what-is-modelled): modules, and how they correspond to the code
- [3. What the runs check](#3-what-the-runs-check): runs, bounds, fairness
- [4. What is proved](#4-what-is-proved)
- [5. What was found](#5-what-was-found): disagreements with the code's own documentation, and observations
- [6. Not modelled](#6-not-modelled), and what could come next

## 1. The system

| Component | State | Operations | Talks to | What is hard | What makes it correct |
|---|---|---|---|---|---|
| Reactions | two arrays of user ids per question/answer (Mongo), or rows of `ContentReaction` (PostgreSQL) | `like`, `undo_like`, `dislike`, `undo_dislike` | database, search index | read-edit-write of whole arrays with awaits between; `deleteMany` then `createMany`; partial writes by the undo requests | a user is counted once, in one array, only for what that user asked; the requester's stance moves and nobody else's |
| Content tree | `parent`, `ancestors` (with depths), `question` of each content, `answers` of each question | create / update / delete question and answer | database, hooks, search index | three redundant copies repaired by hand; hooks; cascades; a failure stops a loop half way | chains agree with parents and with each other, name nothing deleted, contain no cycle; lists and index mirror the rows |
| Search index synchronisation | one document per content | `sync` with `index`, `update`, `delete`; reindex script | called at the end of every writer | errors are swallowed; entities projected from earlier reads; a rebuild beside the running server | the index equals the projection of the database when nothing was lost; deleted contents stay out |
| Search queries | the ELSER model in the cluster | search in every mode, match type and tolerance, smart search, deployment of the model | Elasticsearch | clauses that differ by mode, match, tolerance and number of words; a model that comes and goes between the question and the query | what a mode means is what it finds; the answer says truly whether the model was used |
| Lists | none | pages from the index or the database, with a 2 s timeout; the page of an answer | Elasticsearch, database | contents come and go between pages; page and count are two queries; two sources | a reader who follows `hasNext` sees each item, once |
| Content assets | objects in R2 and the rows that name them | presign, name, replace, remove, erase | question and user updates | file and row are changed by separate calls | a row never names an erased file; a file no longer named is erased |
| Queue / direct / hybrid notifications | RabbitMQ queue, channel, unacknowledged messages; stored record | notify (four endpoints), consume, ack, requeue | e-mail, SMS, push, webhook | redelivery, poison messages, closed connection, swallowed channel failures, crash | what was accepted is sent at least once; an answer and a record tell the truth |
| Accounts and credentials | user rows, role rows, reset token, change code, verification token | register (form, Google), forgot/reset, request/verify/confirm | notifications, roles | check-then-create; user before role; secrets that are not cleared | one account per e-mail, each with a role; a password needs a secret of the same account |
| Sessions | signed tokens, time of the last password change | login, password change, the authentication middleware | users | time in seconds against milliseconds; the stamp is taken before it is stored | tokens last as long as the password they were issued for |
| Roles, permissions | roles with lists of permissions, user-role rows | seeds and rollbacks, assign, remove, add, the permission check | middlewares | seeds that die half way; three reads beside writers | a seed restores everything; a check decides by what was so while it ran |
| Followers | `following` and `followers` | follow, unfollow, delete user | users | two documents rewritten one after the other | `u` follows `v` iff `v` is followed by `u` |
| Bookmarks | bookmarks, collections, items, cached lists | add, remove, update, collections | Redis | cache-aside reads race invalidations; lost cache calls | one bookmark per target; a stale list goes away |
| Connection monitoring, health | status per service, alert history, breaker, sockets | periodic check, monitoring sessions, health endpoint | database, dashboards | overlapping pings; monitoring switched by connections; sockets to itself | alerts alternate and tell the status; who is connected is watched for |
| Start and shutdown | stage of the start, HTTP server | `startServer`, `gracefulShutdown` | everything | signals beside the start and beside each other; timeouts | a request accepted is answered; start and shutdown end |
| Scripts | chains and indexes they rebuild | backfill of ancestors, reindex, seeds | databases, index | broken links and cycles; interruption; a live server | the script ends with everything right, run again or not |
| Log shipper, HTTP layer, errors, logging, audit, i18n | none that others read | | | | |

Requests are handled by one Node process (or several replicas, `k8s/`): a handler
runs to its next `await` without interruption, so the unit of interleaving is one
awaited database, index, cache, broker or storage call. No transaction, version check or
lock ties two of them together anywhere in the code modelled here.

`PROJECT.json` lists every component with its status, and under `hazards` the places
in the code where the difficulty bites, with the properties that cover each, what these leave
out, and why three have none.

## 2. What is modelled

Every module is one component, with its state as variables and one action for each
awaited call; what the code does between two awaits is one step. Identifiers keep the
names of the source where they exist there. Comments beside `Mutant...` definitions name
a plausible bug of the definition that follows (section 3, vacuity).

### Contents

**`VoteLedger.tla`: what the reaction endpoints promise.** One stance per user (`none`,
`like`, `dislike`); a request is accepted from the stances its endpoint allows, then takes
effect on the stance of its own user or is abandoned; `Forget` is the deletion of the
content. It is written independently of arrays, rows or interleaving; `Reactions.tla` ends with the
mapping of its own state to stances and turns (`Ledger`).

**`Reactions.tla`: the reaction endpoints of one content**

| Model | Code |
|---|---|
| `votes` | `likes`/`dislikes` of the document, or its `ContentReaction` rows; an array is a bag of user ids, so duplicates can be told apart |
| `stored`, `indexed` | the content's row and its votes in the search document |
| `req[w]` | handler in progress in slot `w`: endpoint, user, next awaited call, the arrays it carries in memory |
| `StartVote` | `findById`, the `ALREADY_LIKED`/`NOT_LIKED` guards and the in-memory edit (`QuestionRepository.ts:66-158`) |
| `MongoWrite` | `findByIdAndUpdate` of the arrays that were passed |
| `PostgresWipe`, `PostgresCreate` | `contentReaction.deleteMany`, then `createMany` with `skipDuplicates` under `@@unique([contentType, contentId, userId])` |
| `Reread`, `Sync` | the entity read again after the write; its projection sent to the index |
| `StartDelete`, `DeleteRow` | the deletion of the content, as far as votes see it: row, then index document |
| `Fail` | a call throws, or the process dies, before the next step; also `sync` swallowing its error |

`AnswerRepository`/`AnswerManager` repeat this code; the map points at the question
side and, where they differ in nothing but names, at the answer side.
`asked`, `overlapped` and `missed` are history variables.

**`ContentTree.tla`: questions, answers, chains of ancestors, lists, index**

| Model | Code |
|---|---|
| `db[x]` | row of content `x`: `parent`, `ancestors` (a set of `[id, depth]`), `answers`, `question` |
| `index[x]` | search document: parent, ids of ancestors, root, answers |
| `StartCreateQuestion`, `StartCreateAnswer`, `ReadParent`, `ReadParentQuestion` | the three ways a chain is computed (`computeAncestors`, `computeAncestorsForAnswer`, an answer inheriting its question's parent) |
| `HookAnswer`, `MongoInsertAnswer`, `PostgresInsertAnswer`, `InsertQuestion` | `pre('save')` hook and insert; insert under the foreign key |
| `IndexNew`, `Reread`, `SyncDoc` | index with `index`; re-read; index again |
| `StartUpdate` | `updateQuestion`/`updateAnswer`: fields outside the tree, then `Reread`, `SyncDoc` |
| `StartDeleteAnswer`, `RemoveAnswer`, `Unindex`, `ReadList`, `WriteList` | `deleteAnswer` and the rewrite of the question's list |
| `StartDeleteQuestion`, `ListAnswers`, `UnindexAnswer`, `ListChildren`, `Strip`, `ScanQuestions`, `ScanAnswers`, `PrepareDelete`, `RemoveQuestion`, `Unindex` | `deleteQuestion`, call by call |
| `Fail`, `Publish` | a handler that stops half way; an index update that is swallowed |

`age` is a history variable: the order in which ids were given.

**`Listings.tla`: one list, read page by page.** `posts` is what the database holds,
`searchable` what the index holds, `due` the index updates on their way. `Publish`,
`Withdraw`, `UpdateIndex` and `LoseUpdate` change them while a reader (`walk`) asks for
page after page: `AskIndex` and `IndexGivesUp` (the 2 s timeout or an error of
`getQuestionsByUser`, `getQuestionsPaginated`, `searchQuestions`, ...), `ReadWhole` (all
read, sliced in memory), `ReadCount` and `ReadPage` (the two queries of `findPaginated`,
in either order), `ReadNothing` (`searchAnswers` without an index), `NextPage` while
`HasNext`. `LookUp` is `findAnswerPageNumber`. The six `ListKinds` are the list endpoints, up
to which source they ask first and how the database answers.

**`Assets.tla`: files and the rows that name them.** `Upload` (a presigned upload under a
fresh key), `StartCreate`, `StartUpdateThumbnail`, `StartRemoveThumbnail`, `StartDeleteThread`,
`StartImage`, `SetBackground`, then call by call `EraseOld` (errors logged and swallowed),
`WriteRow` (what `null` does on either database), `SyncThread`, `DeleteThreadRow`, `UnindexThread`;
`DeleteAsset` is the endpoint that erases a key; `BreakOff` a handler that fails.
`hurt`, `crowded`, `again` and `cleared` remember which places had a failed call, two
requests at once, one file named twice, or a thumbnail removed.

**`Reindex.tla`: the reindex script beside the server.** The server writes, deletes and
syncs (`WriteContent`, `DeleteContent`, `SyncContent`, `LoseSync`) and creates indexes it
misses with a guessed mapping; the script drops, creates, reads everything
(`ReadContents`) and puts what it read (`IndexContent`), index by index.

**`Backfill.tla`: the script that fills in ancestors.** Old links are arbitrary: missing,
circular, too deep. `Climb` is the recursion `computeAncestors` as a recursive function of the place it has
reached (`Rungs`: the content, its `visited` set, the depth, cut at `MAX_DEPTH`); `WriteQuestion`, `ReadAgain`, `WriteAnswer` are its batches;
the script may stop at any of them and `RunAgain`.

### Search

**`SearchQueries.tla`: which clauses a query becomes and what they match.** A word is its
number of letters, a token a word with so many letters changed, the first at some
position. `QueryClauses`, `NgramClauses`, `Fuzziness`, `PrefixLength`, `MinimumShouldMatch`,
`MinScore` are the branches of `ElasticsearchIndexService.search`; `Accepts`, `Has`,
`HasPhrase`, `HasAll` are what such clauses mean to the engine (analysed words, edit distance after a fixed prefix,
slop 0). `WriteWord` and `TypeWord` build every document and query up to the bounds.

**`Searches.tla`: searches beside the ELSER model.** `EnsureIndex`, `FindRegistered`,
`FindDeployed`, `Query` are the calls of one search; `TicketRegistered`, `TicketDeployed`,
`LookAgain`, `StartModel`, `AwaitModel`, `FetchModel`, `CheckDownload` those of the administrator's
status, deploy and download requests; `Progresses`, `FallsBack`, `Recovers` are the cluster.

### People

**`Accounts.tla`: registration, roles, secrets.** `StartRegistration` (the check),
`CreateUser` (under the unique e-mail), `FindRole`, `GrantRole`, `GivesUp`; `StartAssign`,
`RemoveRole`, `DeleteUser`; `ForgotPassword`, `RequestPasswordChange` (a secret issued, or issued and
cleared again), `StartReset`, `StartVerify`, `WriteToken`, `StartConfirm`, `WritePassword`; `Lapse`
is expiry, `CutShort` a request that dies. Clearing a secret writes `undefined`, which both
data sources drop, so a secret stays until it lapses or is replaced.

**`Sessions.tla`: tokens against password changes.** Time in half seconds, tokens in whole
ones. `StartLogin`, `Compare`, `Sign`; `StampChange`, `WriteChange`; `StartUse`, `Verify`,
`LookUpChange` (the middlewares, strict and optional); `DeleteUser`; `Tick`.

**`Access.tla`: seeds and permission checks.** `SeedRight`, `SyncRole` (Mongo, one write)
or `ClearRole` and `FillRole` (PostgreSQL, two), `DropRole`, `DropRight`, `CommandStops`;
`StartGrant`/`WriteGrant`, `Revoke`, `StartAdd`/`WriteAdd`, `TakeAway` of the administrator;
`ReadRows`, `ReadRole`, `ReadRight`, `Decide` of `requirePermission` and of the endpoint
`checkAdminPermissions`, which makes the same reads. `watch` records what was so while
a check ran.

**`Followers.tla`.** `following`, `followers` are the arrays of Mongo documents, `follows`
the table of PostgreSQL, read through the relations as `schema.prisma` names them.
`StartFollow`, then `MongoWriteFollowing`, `MongoWriteFollowers`, or the delete and insert of either
side on PostgreSQL; `DeleteMember`, `AbortFollow`.

**`Bookmarks.tla`.** The rows, their unique keys on either database, and `cache`: one
entry per list kind and user. A write is checked (`Start...`), done (`AddBookmark`, ...) and then
deletes its keys one by one (`DropKey`); a read is `StartRead`, `LoadList`, `FillCache`; `Expire`
is the TTL; lost `get`s and `del`s and interrupted writes are counted as `faults`.

### Operations

**`Delivery.tla`: what the notification service promises of a message.** Independent of managers, of the broker and of
the record: a message is new, in the caller's hands, on its way to the queue, queued, worked on, or over; one attempt at a time
works on it and goes to each channel once (`Try`); what is queued leaves the queue only by an attempt that tried (`Finish`); an attempt
is repeated only if it sent nothing, or if a connection (`Disconnect`) or the process (`Collapse`) was lost under it.
`Notifications.tla` ends with the mapping of its state to it: `Stage` is where a message is, `Attempt` what is left of the attempt.

**`Notifications.tla`: from the request to the channel, under the three values of
`NOTIFICATION_TECHNOLOGY`.**

| Model | Code |
|---|---|
| `BootDirect`, `BootQueue`, `BootHybrid` | `BootstrapService`: which manager, connect, declare, register the consumer |
| `Ask`, `Route`, `SendDirect`, `SettleDirect`, `Mark` | a request in the direct, queue-based and hybrid managers: publish or send, `Promise.all` over channels, the stored record |
| `Accept`, `Deliver` | the broker: FIFO, prefetch window |
| `Handle`, `Ack`, `Nack`, `AckThrows` | the consumer: single and multi-channel messages, requeue, ack on a channel that is gone |
| `ConnectionLost`, `Crash` | the close handler; the process dies and boots again |

As the program is wired, only `AuthManager` asks the container for the manager that the bootstrap chose, and it sends
nothing but templates (`notifyUserWithTemplate`), which the queue-based manager refuses. `notificationRouter.ts:8-10` and
`monitoringController.ts:7` resolve their service when they are imported, before `initializeContainer`, and keep the
container's default, the direct manager. `AskDirect` therefore takes every other request under each technology;
`AskQueue` and `AskHybrid` take them too, so that these managers, the broker and the consumer are examined for all they are written
for, should their callers come to resolve them later.

**`DatabaseCheck.tla`, `MonitorSockets.tla`: `WebSocketMonitorService`.** The first is the check
with its overlapping pings (`TickPing`, `Answer`, `HandleAnswer`), circuit breaker and alert
history; the second who is connected, the sockets the process opens to itself
(`InternalWebSocketClient`), reconnection and `Close`. They meet in `watching`/`monitoring`: the
check may be switched at any time, as the sockets switch it.

**`Lifecycle.tla`: start, signals, requests, health.** `Bootstrap` to `StartListening` with the
timeouts and tolerated failures of each stage, the steps of `gracefulShutdown` per signal,
requests that are open while both run, outages of the database.

### Sums for TLC

`MCReactions`, `MCContentTree`, `MCNotifications` instantiate one module (symmetry sets). `MCContents`, `MCSearch` and `MCServices`
put several components into one run: they have no state in common, so the variable `part` says
which one a behaviour explores and the others keep their first state. The numbers of states
are added, not multiplied, and every property is about its own part. That a part behaves in the sum as it does alone is proved (section 4). Where components do share
state, they are one module: votes and deletion, tree and index, list and index,
file and row and document, script and server, role and check, bookmark and cache, process and broker.

### Abstractions

- Texts, tags, categories and profile fields are left out: no modelled guard reads them.
  Authorisation has passed before a handler starts, except in `Access` and `Sessions`.
- A read of one entity on PostgreSQL (row, reactions, answers: separate queries) is one
  step. The read that `create` does of the row it has just inserted is part of the
  insert: no other request knows the id yet.
- The `pre('save')` hook's read of the question and its `$push` are one step; losing
  the question between them makes the hook throw, which is `Fail`.
- The scans of all contents in the repair loops take questions and answers as two reads, as
  the code does, and each read sees one state; among contents of one kind the order is free.
- Elasticsearch is enabled except where `enabled` says otherwise (`Searches`).
- Scores are the engine's: a match is a hit if it reaches a threshold, and only the
  thresholds are modelled. Analysis (stems, stop words) is behind the notion of a word.
- `Searches.EnsureIndex` asks for the pipeline and for the index in one step, and `Reindex.CreateIndexes` makes both indexes
  in one: no property relates the state between. That an update in an index that is not there makes the index, without its document,
  is what the engine does by default.
- A request to several channels names at least one: the direct manager refuses an empty list, the queue would carry a message
  with nothing to send.
- The e-mail channel is the one that can fail; SMS, push and webhook are stubs in the code,
  and one of them stands for the three.
- Ids are fresh and never reused (ObjectId, uuid), except names of roles and permissions.

## 3. What the runs check

| Run | Instance | Result |
|---|---|---|
| `reactions_overlap` | 2 users, 2 slots, 5 requests, both databases, failures | passes: under every interleaving no user is counted twice (`NoDuplicateVotes`) nor for a vote never asked for (`VotesWereAsked`), PostgreSQL keeps a user out of one list and, without overlap, so does Mongo (`OneStancePerUser`); without overlap a request moves its user where the endpoint says (`AcceptedVoteTakesEffect`) and a document shows the stored votes; a vote never brings back a deleted document (`IndexFollows`) |
| `contents` | seven parts, see bounds | passes: the handlers served one at a time implement `VoteLedger` (`ImplementsLedger`); a reader sees each item of a list once (`PagesMakeTheList`); files follow rows (`FilesFollowRows`); a finished reindex repaired what it was asked for (`ReindexRepairs`); a finished backfill has every chain (`BackfillBuildsChains`); a finished seed restores roles and permissions (`SeedRestores`); a permission check decides by what was so while it ran (`ChecksAreTimely`); tokens last as long as their password (`TokensFollowPassword`). 1.17 million states, about 3 minutes |
| `content_serial` | 3 questions, 2 answers, 1 slot, no failure, both databases; queries of up to 3 words on documents of up to 3; 2 searches, 2 administrator's requests, 2 turns of the cluster | passes: chains headed by the parent and consistent with the parent's own (`ChainsFollowParents`), index equal to the rows (`IndexMirrorsDatabase`); what a mode means is found, more tolerance loses nothing, fuzzy stays within its edits (`SearchFindsWhatIsMeant`); searches and the administration tell the truth about the model (`SmartSearchHolds`). 1.2 million states, about 2 minutes |
| `content_overlap` | 2 questions, 1 answer, 2 slots, 1 failure, both databases | passes: chains are well formed and without cycles under every interleaving (`ChainsAreSound`); answers keep their question and lists contain every answer (`AnswersStayLinked`), within what each property says of overlap |
| `notifications` | 2 messages, one of them undeliverable, each technology, prefetch 2, 1 loss or crash, 2 errors | passes: acknowledgements are earned (`AcksAreEarned`), duplicates cost a loss (`DuplicatesNeedALoss`), answers and records are true (`AnswersAreTrue`), queued messages and requests come to an end (`WorkEnds`), and every step is one that `Delivery` allows (`ImplementsDelivery`). 311 thousand states, about 2 minutes |
| `services` | six parts, see bounds | passes: `FollowsSound`, `RegistrationsSound`, `ChangeFollowsACode`, `OneBookmarkPerTarget`, `CacheFreshWhenQuiet`, `AlertsTellStatus`, `WatchedMeansMonitoring`, `LifecycleSound`, and the liveness `StaleListsGoAway`, `StatusRecovers`, `LifecycleEnds`. 265 thousand states, about 3 minutes |
| `reactions_exclusive` | 2 users, 2 slots, Mongo | violated, as found in the code (section 5) |
| `reactions_undo` | 2 users, PostgreSQL | violated, as found in the code |
| `content_parent`, `content_depth` | 3 questions, 1 answer, 1 slot | violated, as found in the code |
| `follow_self` | 2 users, 1 slot, 2 requests | violated, as found in the code, on PostgreSQL |
| `shutdown_ends` | 1 dashboard, 2 sockets | violated, as found in the code, under the fairness below |

Each property is stated, with the code behaviour it is about and the exceptions it makes,
in the comment above its definition. An exception is always something the code does: it
is named by a history variable (`overlapped`, `crossed`, `mixed`, `torn`, `hurt`, `stirred`,
`beside`, ...) that the run also makes true.

Deadlock checking is off: when every id is used up or the bounded requests have been
served, a behaviour may stop.

**Bounds.**

- *Slots.* Two slots (`Workers`, `Desks`, `Keepers`, `Slots`, `Clerks`, `Renewals`) give every pair of
  overlapping handlers; each hazard listed is between two requests. One slot means that
  handlers do not overlap.
- *Reactions.* Two users distinguish the requester from the others; five requests are
  enough for a vote, a vote of the other, two undos that overlap and a deletion. The
  ledger is checked with three users and six requests.
- *Tree.* Three questions give a grandparent, a parent and a child, the shortest chain that
  deletions can shorten twice; two answers let a list lose one and keep one. One failure lets
  a deletion stop anywhere and be tried again.
- *Lists.* Three posts, pages of one and of two, two changes: a page boundary with something on
  either side, a creation and a deletion between two pages.
- *Assets.* A question, an image, a background; two files, two clerks, three requests,
  one failing call: a replacement, its overlap with another one, and the repair afterwards.
- *Scripts.* One question and one answer with two writes of the server beside the reindex (contents are
  independent but for the index they share); three old questions and an answer with links in every
  combination, with depth 3 the bound and the whole circle; three runs of a seed or
  rollback, so that one can die after another that died.
- *Access.* Two roles, one visitor, one administrator's request beside the three commands.
- *Sessions.* Two changes of the password, one login and one use within five half seconds: a change in the
  second of the login, before it and after it.
- *Search.* Words of 3, 4 and 7 letters lie on either side of the length below which no edit is
  allowed and of those at which the fixed prefix shrinks; edits of one and two letters; three words are what `any_word` starts
  to ask half of.
- *Notifications.* Two messages let one overtake or block the other; the window of two is where a message
  that fails for ever stops being harmless at one more.
- *Followers.* Three members, two follows, one deletion or abort. *Accounts.* Two e-mails,
  two users, three requests, one error. *Bookmarks.* One owner, target and title, two writes, one fault.
  *Check.* Three pings on their way, a breaker at its real limit of three failures, history cut to two
  (100 in the code), two outages. *Sockets.* Two dashboards, three sockets, two attempts. *Lifecycle.* Two signals, one request, one outage.

Ids and users are permuted by symmetry only where a run has invariants and nothing else.

**Fairness.** Each is weak fairness of what the event loop, a timer or the other side of a
connection must do by itself; nobody is obliged to send a request, a connection to drop, a
process to crash.

- `Notifications`: requests and handlers that can go on do, and the broker takes what arrives. Delivery is strongly
  fair: RabbitMQ refills the prefetch window in order, so a message that is first in line again and again is
  delivered, although a failing one is requeued before it each time.
- `Bookmarks`: a request in progress goes on; Redis drops an entry whose time to live is over.
- `DatabaseCheck`: the 30 s timer fires, a ping is answered or fails, the breaker's pause ends.
- `Lifecycle`: promises of the start settle (each has a timeout), the steps of a signal's handler run, an accepted request
  is answered. That the monitor's close ends is assumed here; `shutdown_ends` shows when it does not.
- `MonitorSockets` (only for `ShutdownEnds`): closing handshakes end, dashboards leave, a server without
  clients closes. The violation does not come from a missing assumption: the socket that stays open is the
  process's own, and nothing in the code closes it.

**Vacuity.** Every property of a passing run has a mutant of the code beside the definition it changes
(`Mutant...`), a plausible bug (a dropped guard, a swapped order, an off-by-one) that makes TLC
find the property violated under the same configuration; `PROJECT.json` pairs them.

## 4. What is proved

The theorems hold for any sets of users, slots, messages, contents, files..., either database and any
bounds. The assumptions are the named `ASSUME`s of the modules (sets are disjoint, bounds are
numbers, databases are the two there are, a marker for "nothing" is not a value), which TLC evaluates in
every run. Each inductive invariant was model-checked before it was proved. Every invariant and action
property of a passing run is stated by a theorem, and so are the two refinements; what is left to TLC is at the end of this section.

| Module | Proves about | Theorems that state a run's property |
|---|---|---|
| `ReactionsProofs` | `Reactions`, `VoteLedger` | `Typing`, `VotesNeverDuplicated`, `VotesNeverInvented`, `StancesExclusive`, `AcceptedVotesCount`, `IndexAlwaysFollows`, `LoneVotesKeepLedger`, `OneSlotKeepsLedger` |
| `ContentTreeProofs` | `ContentTree` | `TreeTyping`, `ChainsStaySound`, `LinksHold` |
| `ContentCopiesProofs` | `ContentTree` | `IndexMirrors`, `ChainsFollow` |
| `SearchProofs` | `Searches`, `SearchQueries`, `MCSearch` | `SmartSearchesHold`, `SearchesFindWhatIsMeant`, `SearchingTyping` |
| `ContentsProofs` | `Reindex`, `Listings`, `Backfill`, `Access`, `Sessions`, `Assets`, `MCContents` | `ReindexLeavesIndexRight`, `PagesAlwaysMakeTheList`, `BackfillAlwaysBuilds`, `SeedsRestore`, `ChecksDecideInTime`, `SessionsFollowPassword`, `FilesFollow`, `ContentsTyping` |
| `PeopleProofs` | `Followers`, `Accounts`, `Bookmarks` | `FollowsAlwaysSound`, `RegistrationsStaySound`, `PasswordFollowsACode`, `BookmarksStayUnique`, `CacheStaysFresh` |
| `ServerProofs` | `Lifecycle`, `DatabaseCheck`, `MonitorSockets`, `MCServices` | `LifecycleIsSound`, `AlertsAreRight`, `ClientsAreWatched`, `ServicesTyping` |
| `NotificationsProofs` | `Notifications`, `Delivery` | `NotificationsTyping`, `AcksAlwaysEarned`, `AnswersAlwaysTrue`, `DuplicatesAreBounded`, `DeliveryKept` |

Each module also has the type invariant of every component it is about. The properties are seldom inductive
by themselves: what they need is what the requests in progress hold in memory. The arguments, component by component:

**Reactions.** For every interleaving, `RacingInv` says that the arrays a request carries count nobody twice
(`CarriedCounts`) and only what was asked (`CarriedAsked`), since a stale array may be written at any time;
that PostgreSQL never holds both rows of a user; and that after the row is gone either the document
is, or a deletion is still on its way to remove it, or that deletion was lost (`RemovalCovered`). For requests that do not
overlap, `SerialInv` says what the one in progress may rely on at each await: before the write its arrays still come from what is
stored (`ReadStillCurrent`); between `deleteMany` and `createMany` nothing is stored and it carries its user's
goal (`WipedForGoal`); after the write the goal is reached (`TookEffect`) and what will be indexed is what is
stored (`SyncCarriesVotes`, `FreshAtRest`). The refinement rests on the same invariant: on Mongo the step that reads accepts a
turn of the ledger, the write takes it, a failure before it abandons it, and all other steps stutter. `LoneVotesKeepLedger` says so of every
behaviour without overlap, however many slots there are; `OneSlotKeepsLedger` of every
behaviour of a server with one slot, where nothing can overlap.

**Content tree.** `ContentTreeProofs` first shows what building, filtering and renumbering a chain preserves:
no id and no depth twice, depths bounded, hence finite. Under every interleaving and failure, `TreeInv` says that each
chain, stored or remembered by a request, is well formed and names older contents only: a cycle would need an id older than itself
(`ChainsStayWellFormed`, `AncestorsStayOlder`). For requests that do not overlap, `SerialInv` says that what the one request
read is still so when it uses it (`StillSo`), and which parts are out of order because it is half way (`InOrder`): answers listed but not
yet inserted, or removed and not yet unlisted. Hence no chain names a deleted question, also after deletions that failed and were
tried again, and answers and lists stay linked. `ContentCopiesProofs` adds, when nothing failed, the documents of the index: `MirrorInv` lists for each awaited call which
fields of which document still lag behind the rows; and the parts that chains repeat: by `ChainInv` chains agree below each of
their entries, and start with the parent, but for the one question that is being taken out of them.

**Scripts.** `RepairInv` (`Reindex`): what the script has read and not yet put is what the row holds, unless the
server touched it since (`ReadAreRight`), and a mapping is proper once its index was made by the script, unless the server brought it back
(`MappingsHold`). `BackfillInv`: a row the script has written holds the chain that a climb of the links gives,
questions before answers, whatever run wrote it. That `Climb` exists and its chains are fine is shown by induction on the depth that is left.

**Search.** `SearchesInv`: what a search has decided about the model is what the cluster was, as long as it stayed calm
(`CalmCluster`), and a deployment that reports success saw it (`AskedKnows`). `SearchQueries`: that a clause accepts what its mode means, that an
accepted document stays accepted as the tolerance grows (`SlackGrows`), and that a fuzzy match stays within its edits;
the sum over a word's changes is shown to be a number by induction.

**Lists.** `ListInv`: what a reader has seen stands before the end of the pages shown (`NoneTwice`), everything
that stands there was seen (`SeenSoFar`), and a page together with its later count covers what is left (`CountCovers`, `LastIsLast`).

**Assets.** `AssetInv` holds of every place that can name a file: a request alone on its place knows the row
(`ErrandsFit`, `Alone`), a key is named by one place (`FreshKeys`, `SoleKeys`), a named file is kept and one that was left is gone or
about to be erased (`NamesKept`, `LeftGone`), and the document follows the row (`DocFollows`).

**Access.** `SeedInv`: what a seed has passed is restored (`RightsSoFar`, `RolesSoFar`), even when it started on the remains of a
command that died. `CheckInv` relates a check half way to what `watch` saw: what it read was so at some time since it began (`WatchesNow`,
`ReadSoFar`, `Earned`), and whoever carried the permission all along has it at one of the three stages of the way to the verdict (`OnTheWay`).

**Followers and accounts.** `AskedInv`: stale arrays in memory, too, hold only follows that were asked for; `MirrorInv`: alone on
Mongo, between the two writes the one list is ahead of the other by exactly the pair of the request. A row without a role is named by a running registration or marked as cut (`RegistrationGivesRole`).
`SecretsInv`: every secret in a row or in a request in progress was issued to that account, and a token carries the code it came from.

**Sessions.** `SessionsInv` carries, of every token, that the change which made its password came no later than its
second, and, if no change ran beside its login, that every later change, in progress or stored, is not stamped before it
(`TokenHolds`); of a login in progress, that it holds the stored password or that a change ran beside it (`LoginHolds`).
The stamp is taken before it is stored and two changes may be stored in the other order: that is why the stamps in progress
belong to the invariant.

**Start, shutdown, monitoring.** `LifecycleInv` says where a server is during start and shutdown (`ServerFollowsStart`), and that without an early signal the
connection is there from the moment it was made until some signal has seen the server closed, when no request is
open (`NoSignalWasEarly`). `AlertsAreRight` holds for any number of overlapping pings, and the history never exceeds its length.

**Bookmarks.** `OwnInv`: ids are given once, and requests in progress name rows of their owner. `CacheInv`, for an owner
without mixing and without faults (`Calm`): reads and writes are apart (`Apart`), a key that is stale is still to
be deleted by a write in progress (`Covered`), and a list a read carries is the one stored (`Carries`).

**Notifications.** `Places` relates rank, wire, queue, window and handler: a message is in one place between publisher
and consumer. `AckInv` adds what a running handler has already sent; `TalkInv` what a request may still
answer and what its record shows meanwhile; `DupInv` bounds the sends by the losses plus the sends that are
still to come, so that a crash buys exactly one more.

`DeliveryKept` is the refinement: under every technology each step of the service is one step of `Delivery` on one message, a step
of `Disconnect` or `Collapse`, or leaves what `Delivery` sees alone (`PromiseNext`, with a lemma for each kind of step). It needs more than
`Places`: `FitInv` says that an acknowledged message is nowhere else and no handler has it, that what may be queued asks for some channel, and that
a handler works on a message that is kept, on channels it was asked for, and fails only at its end. Without the last part a handler
could give a message back that it had already sent, which `Delivery` allows only after a loss.

**The sums.** A step of `MCSearch`, `MCServices` or `MCContents` is a step of one part and leaves the variables of the others, so a
behaviour of the sum is a behaviour of each part (`SearchingKeepsItsParts`, `ServicesKeepTheirParts`, `ContentsKeepTheirParts`): what
is proved of a component under its own specification holds in the run that checks it. The process and the sockets of `MCServices` are
not among those conjuncts. In a behaviour of another service the process starts as ended, which is no initial state of `Lifecycle`,
and the run does not assume the fairness of the sockets. Their types
and properties are carried over by their inductive lemmas instead (`ServicesTyping`, `ServicesKeepTheRest`).

**Induction.** The library's induction theorems take an operator as a parameter, which the installed provers cannot
instantiate. `SetInduction` (`SearchProofs`, `ContentsProofs`) takes a set of numbers instead: one that holds 0 and with each number the next
holds all. It is proved by counting: if `n` were missing, the predecessor would map the missing numbers up
to `n` one-to-one onto fewer of them. Finiteness and least elements elsewhere (the deepest entry of a chain) come from the library's theorems on
finite sets and well-founded orders.

Only model-checked:

- liveness (`WorkEnds`, `StaleListsGoAway`, `StatusRecovers`, `LifecycleEnds`): fairness and `ENABLED` are beyond the prover;
- the six violations of section 5, which are counterexamples.


## 5. What was found

Disagreements between the code and what its documentation or comments say, each shown by a run and
described under `findings` in `PROJECT.json`:

- `reactions_exclusive`: on Mongo overlapping requests leave a user both liking and disliking
  (`CHANGELOG.md:270` says the two are mutually exclusive).
- `reactions_undo`: on PostgreSQL taking back a like deletes everybody's dislikes.
- `content_parent`, `content_depth`: deleting a question leaves its children pointing at it as their parent,
  with chains that start at depth 1, although the comments of `deleteQuestion` say otherwise.
- `follow_self`: on PostgreSQL a second follow stores a user as following himself, because the
  relations are read the wrong way round.
- `shutdown_ends`: once monitoring was stopped and started again, by its endpoints or by the connections of
  clients (the run's trace), the shutdown waits for a socket
  that the process itself holds open.

Observed while modelling, and in the models as the code has it:

- *Accounts.* `confirmPasswordChange` clears the used secrets with `undefined`, which neither database
  stores; a user whose registration failed after the first write cannot register again;
  removing a role always answers 404 on Mongo; a role once removed cannot be assigned again;
  `updateProfile` can never change an e-mail.
- *Sessions.* A token issued later in the same second as a change of the password is refused; a login that overlaps a
  change keeps its token; when the lookup fails the token is accepted.
- *Access.* Rolling back and seeding again on Mongo gives roles new ids: the old assignments dangle, and the check of
  such a user fails on the first of them. `populate` leaves out ids without a permission.
- *Notifications.* With the hybrid manager the stored status `sent` means published. After a lost connection nothing
  consumes until a restart. A message that always fails is requeued for ever, the dead letter queue is not reached.
- *Bookmarks.* `updateBookmark` drops a change of `isPublic`.
- *Lists.* A creation between count and page can hide the last item; switching between index and database from page to page can repeat or miss
  items; `popularity` sorts by the array of ids; the fallback of `searchAnswers` is always empty and that of `searchQuestions` ignores `excludeQuestionIds`.
- *Assets.* On PostgreSQL removing a thumbnail erases the file and leaves the row naming it; the same key
  sent again while it is being replaced leaves a row that names an erased file.
- *Scripts.* The backfill's chain of an answer holds the answer itself, and leaves out its question when that has ancestors.
  A server beside a `--recreate` brings the index back with a guessed mapping. `reindex:questions --recreate` also
  empties the index of answers, and the script's error counters never count.
- *Search.* "At least half of the words" can be met by one word in two fields. For a single word the modes do not all give the
  same result, and a fuzzy phrase does not keep the order. An exact phrase that repeats one word is taken for the
  word. A model that is only starting counts as deployed, so that the whole search falls back to the database.
- *Lifecycle.* The adapter's retries cannot happen within the start's own timeout; a signal before the server
  listens lets it come up and then cuts the requests accepted meanwhile; the cache is always reported as connected.

## 6. Not modelled

- **Log shipper**: `shipLog` is never called in the program, so its buffer stays empty.
- **`ConnectionMonitorService`**: registered and never started.
- **HTTP layer, errors, logging, audit, metrics, i18n**: no state that others read. The authentication and permission middlewares are in
  `Sessions` and `Access`; the error wrapper is each module's failing step.
- **Templates and stored preferences of notifications**: inputs of a request; their texts are not the subject of any property.
- **Enrichment of answers and pages with their parents and questions**: reads whose results only decorate.
- **Ingest pipeline for ELSER tokens, engine scores, synonyms**: the first two are the engine's, the third is empty in the code.
- **Migrations, copying between databases, the command that creates an administrator, performance tests, deployment files**: run by hand
  before anything else, or outside the program.
- **Logout and `blocked`**: a cookie that nothing reads, and a flag that neither login nor the middlewares ask for.

What could come next: the refinement of `VoteLedger` with overlap on PostgreSQL, for the users whose requests did not meet; and an
abstract specification of a content's chain, against which the repairs of `ContentTree` can be read.

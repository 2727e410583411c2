------------------------- MODULE NotificationsProofs -------------------------
(***************************************************************************)
(* Theorems about Notifications for any set of messages, any technology    *)
(* and any bounds: what an acknowledgement, an answer and a record mean,   *)
(* under crashes, lost connections and redelivery; and that the service    *)
(* keeps the promise that the module Delivery states.                      *)
(***************************************************************************)
EXTENDS Notifications, FiniteSetTheorems, TLAPS

-----------------------------------------------------------------------------
(***************************************************************************)
(* Typing of requests and handlers.                                        *)
(***************************************************************************)
LEMMA NoRequestType == NoRequest \in Requests
BY DEF NoRequest, Requests, Ops, UserOps, Pcs

LEMMA NoHandlerType == NoHandler \in Handlers
BY DEF NoHandler, Handlers

LEMMA AnsweredType ==
    ASSUME NEW r \in Requests, NEW ok \in BOOLEAN
    PROVE  /\ Answered(r, ok) \in Requests
           /\ Answered(r, ok).op = r.op /\ Answered(r, ok).channels = r.channels
           /\ Answered(r, ok).pc = "done" /\ Answered(r, ok).todo = {}
           /\ Answered(r, ok).told = IF ok THEN "ok" ELSE "error"
<1>1. CASE ok = TRUE
  <2>1. Answered(r, ok) = [r EXCEPT !.pc = "done", !.todo = {}, !.failed = FALSE, !.told = "ok"]
    BY <1>1 DEF Answered
  <2>2. QED
    BY <1>1, <2>1 DEF Requests, Pcs
<1>2. CASE ok = FALSE
  <2>1. Answered(r, ok) = [r EXCEPT !.pc = "done", !.todo = {}, !.failed = TRUE, !.told = "error"]
    BY <1>2 DEF Answered
  <2>2. QED
    BY <1>2, <2>1 DEF Requests, Pcs
<1>3. QED
  BY <1>1, <1>2

\* A request that moves on keeps what was asked.
LEMMA MovedType ==
    ASSUME NEW r \in Requests
    PROVE  /\ \A p \in Pcs : [r EXCEPT !.pc = p] \in Requests
           /\ \A p \in Pcs, t \in SUBSET Channels : [r EXCEPT !.pc = p, !.todo = t] \in Requests
           /\ \A p \in Pcs, t \in SUBSET Channels, f \in BOOLEAN :
                 [r EXCEPT !.pc = p, !.todo = t, !.failed = f] \in Requests
           /\ \A t \in SUBSET Channels :
                 /\ [r EXCEPT !.todo = t] \in Requests
                 /\ [r EXCEPT !.todo = t, !.failed = TRUE] \in Requests
                 /\ [r EXCEPT !.channels = t] \in Requests
           /\ [r EXCEPT !.failed = TRUE] \in Requests
<1>1. ASSUME NEW p \in Pcs PROVE [r EXCEPT !.pc = p] \in Requests
  BY DEF Requests
<1>2. ASSUME NEW p \in Pcs, NEW t \in SUBSET Channels
      PROVE  [r EXCEPT !.pc = p, !.todo = t] \in Requests
  BY DEF Requests
<1>3. ASSUME NEW p \in Pcs, NEW t \in SUBSET Channels, NEW f \in BOOLEAN
      PROVE  [r EXCEPT !.pc = p, !.todo = t, !.failed = f] \in Requests
  BY DEF Requests
<1>4. ASSUME NEW t \in SUBSET Channels PROVE [r EXCEPT !.todo = t] \in Requests
  BY DEF Requests
<1>5. ASSUME NEW t \in SUBSET Channels PROVE [r EXCEPT !.todo = t, !.failed = TRUE] \in Requests
  BY DEF Requests
<1>6. ASSUME NEW t \in SUBSET Channels PROVE [r EXCEPT !.channels = t] \in Requests
  BY DEF Requests
<1>7. [r EXCEPT !.failed = TRUE] \in Requests
  BY DEF Requests
<1>8. QED
  BY <1>1, <1>2, <1>3, <1>4, <1>5, <1>6, <1>7

LEMMA MovedFields ==
    ASSUME NEW r \in Requests
    PROVE  /\ \A p : /\ [r EXCEPT !.pc = p].pc = p
                     /\ [r EXCEPT !.pc = p].op = r.op
                     /\ [r EXCEPT !.pc = p].channels = r.channels
                     /\ [r EXCEPT !.pc = p].told = r.told
           /\ \A p, t : /\ [r EXCEPT !.pc = p, !.todo = t].pc = p
                        /\ [r EXCEPT !.pc = p, !.todo = t].todo = t
                        /\ [r EXCEPT !.pc = p, !.todo = t].op = r.op
                        /\ [r EXCEPT !.pc = p, !.todo = t].channels = r.channels
                        /\ [r EXCEPT !.pc = p, !.todo = t].told = r.told
           /\ \A t : /\ [r EXCEPT !.todo = t].todo = t
                     /\ [r EXCEPT !.todo = t].pc = r.pc
                     /\ [r EXCEPT !.todo = t].op = r.op
                     /\ [r EXCEPT !.todo = t].channels = r.channels
                     /\ [r EXCEPT !.todo = t].told = r.told
                     /\ [r EXCEPT !.todo = t].failed = r.failed
           /\ \A t : /\ [r EXCEPT !.todo = t, !.failed = TRUE].pc = r.pc
                     /\ [r EXCEPT !.todo = t, !.failed = TRUE].todo = t
                     /\ [r EXCEPT !.todo = t, !.failed = TRUE].op = r.op
                     /\ [r EXCEPT !.todo = t, !.failed = TRUE].channels = r.channels
                     /\ [r EXCEPT !.todo = t, !.failed = TRUE].told = r.told
                     /\ [r EXCEPT !.todo = t, !.failed = TRUE].failed
           /\ [r EXCEPT !.failed = TRUE].pc = r.pc
           /\ [r EXCEPT !.failed = TRUE].op = r.op
           /\ [r EXCEPT !.failed = TRUE].channels = r.channels
           /\ [r EXCEPT !.failed = TRUE].told = r.told
           /\ [r EXCEPT !.failed = TRUE].failed
BY DEF Requests

\* A new request: nothing done yet.
LEMMA AskedType ==
    ASSUME NEW op \in Ops, NEW cs \in SUBSET Channels
    PROVE  /\ Asked(op, cs) \in Requests
           /\ Asked(op, cs).op = op /\ Asked(op, cs).channels = cs
           /\ Asked(op, cs).pc = "new" /\ Asked(op, cs).todo = {}
           /\ ~Asked(op, cs).failed /\ Asked(op, cs).told = "nothing"
<1>1. Asked(op, cs) \in Requests
  BY NoRequestType DEF Asked, Requests
<1>2. QED
  BY <1>1 DEF Asked, NoRequest

LEMMA HandlerType ==
    ASSUME NEW h \in Handlers, NEW t \in SUBSET Channels
    PROVE  /\ [h EXCEPT !.todo = t] \in Handlers
           /\ [h EXCEPT !.todo = t, !.failed = TRUE] \in Handlers
           /\ [busy |-> TRUE, todo |-> t, failed |-> FALSE] \in Handlers
<1>1. [h EXCEPT !.todo = t] \in Handlers
  BY DEF Handlers
<1>2. [h EXCEPT !.todo = t, !.failed = TRUE] \in Handlers
  BY DEF Handlers
<1>3. [busy |-> TRUE, todo |-> t, failed |-> FALSE] \in Handlers
  BY DEF Handlers
<1>4. QED
  BY <1>1, <1>2, <1>3

-----------------------------------------------------------------------------
(***************************************************************************)
(* Where a message is.  The type invariant says the places of the broker   *)
(* are disjoint; that a published message is never published again, and    *)
(* that a handler runs for each unacknowledged message, makes it so.       *)
(***************************************************************************)
Numbered == IsFiniteSet({n \in Messages : rank[n] # 0})
Alive ==
    /\ ~up => /\ ~connected
              /\ \A m \in Messages : ~handler[m].busy /\ req[m].pc \in {"new", "done"}
    /\ ~connected => wire = {} /\ unacked = {}
Placed(m) ==
    /\ m \in wire \union ready \union unacked \union acked \/ handler[m].busy => rank[m] # 0
    /\ rank[m] # 0 => req[m].pc \in {"mark", "done"}
    /\ m \in unacked => handler[m].busy
    /\ connected /\ handler[m].busy => m \in unacked
Places == Numbered /\ Alive /\ \A m \in Messages : Placed(m)

LEMMA ErrorsCount ==
    ASSUME errors \in Nat, Error \/ NoError \/ \E ok \in BOOLEAN : Succeeds(ok)
    PROVE  errors' \in Nat /\ errors' >= errors
BY DEF Error, NoError, Succeeds

LEMMA Published ==
    ASSUME TypeOK, Numbered, NEW m \in Messages, PublishToQueue(m)
    PROVE  /\ rank' \in [Messages -> Nat] /\ Numbered' /\ rank'[m] # 0 /\ wire' = wire \union {m}
           /\ \A n \in Messages : n # m => rank'[n] = rank[n]
<1> DEFINE R == {n \in Messages : rank[n] # 0}
<1>1. IsFiniteSet(R) /\ Cardinality(R) \in Nat
  BY FS_CardinalityType DEF Numbered
<1>2. rank' = [rank EXCEPT ![m] = 1 + Cardinality(R)] /\ wire' = wire \union {m}
  BY DEF PublishToQueue
<1> HIDE DEF R
<1>3. rank' \in [Messages -> Nat] /\ rank'[m] # 0 /\ \A n \in Messages : n # m => rank'[n] = rank[n]
  BY <1>1, <1>2 DEF TypeOK
<1>4. {n \in Messages : rank'[n] # 0} = R \union {m}
  BY <1>3 DEF R
<1>5. IsFiniteSet(R \union {m})
  BY <1>1, FS_AddElement
<1>6. QED
  BY <1>2, <1>3, <1>4, <1>5 DEF Numbered

\* What a step of a request does to the rest.
LEMMA AskSteps ==
    ASSUME TypeOK, NEW m \in Messages, Ask(m)
    PROVE  \E r \in Requests, op \in Ops, cs \in SUBSET Channels :
              /\ r.op = op /\ r.channels = cs /\ r.pc = "new" /\ r.todo = {}
              /\ ~r.failed /\ r.told = "nothing" /\ MayAsk(op, cs) /\ Take(m, r)
<1>1. PICK op \in Ops, cs \in SUBSET Channels : MayAsk(op, cs) /\ Take(m, Asked(op, cs))
  BY DEF Ask
<1>2. /\ Asked(op, cs) \in Requests
      /\ Asked(op, cs).op = op /\ Asked(op, cs).channels = cs
      /\ Asked(op, cs).pc = "new" /\ Asked(op, cs).todo = {}
      /\ ~Asked(op, cs).failed /\ Asked(op, cs).told = "nothing"
  BY AskedType
<1>3. QED
  BY <1>1, <1>2, Zenon

LEMMA PlacesInit == Init => TypeOK /\ Places
<1> SUFFICES ASSUME Init PROVE TypeOK /\ Places
  OBVIOUS
<1>1. /\ \A m \in Messages : req[m] = NoRequest /\ handler[m] = NoHandler /\ rank[m] = 0
      /\ req \in [Messages -> Requests] /\ handler \in [Messages -> Handlers]
  BY NoRequestType, NoHandlerType DEF Init
<1>2. TypeOK
  BY <1>1 DEF Init, TypeOK
<1>3. {n \in Messages : rank[n] # 0} = {}
  BY <1>1
<1>4. Numbered
  BY <1>3, FS_EmptySet DEF Numbered
<1>5. QED
  BY <1>1, <1>2, <1>4 DEF Places, Alive, Placed, Init, NoHandler, NoRequest

\* Only one request changes: to r, of the same or another publication.
LEMMA RequestMoves ==
    ASSUME TypeOK, NEW m \in Messages, NEW r \in Requests, Become(m, r)
    PROVE  /\ req' \in [Messages -> Requests] /\ req'[m] = r
           /\ \A n \in Messages : n # m => req'[n] = req[n]
BY DEF TypeOK, Become

LEMMA PlacesKept ==
    ASSUME TypeOK, Places, NEW m \in Messages, NEW r \in Requests, Become(m, r), up,
           UNCHANGED <<link, declared, ready, unacked, acked, handler>>,
           \/ UNCHANGED <<rank, wire>> /\ (rank[m] # 0 => r.pc \in {"mark", "done"})
           \/ PublishToQueue(m) /\ rank[m] = 0 /\ r.pc \in {"mark", "done"}
    PROVE  /\ Places' /\ rank' \in [Messages -> Nat] /\ wire' \subseteq Messages
           /\ wire' \intersect (ready' \union unacked') = {}
           /\ req' \in [Messages -> Requests]
<1>1. /\ req' \in [Messages -> Requests] /\ req'[m] = r
      /\ \A n \in Messages : n # m => req'[n] = req[n]
  BY RequestMoves
<1>2. CASE UNCHANGED <<rank, wire>> /\ (rank[m] # 0 => r.pc \in {"mark", "done"})
  <2>1. Numbered'
    BY <1>2 DEF Places, Numbered
  <2>2. Alive'
    BY <1>2 DEF Places, Alive, link
  <2>3. ASSUME NEW n \in Messages PROVE Placed(n)'
    BY <1>1, <1>2 DEF Places, Placed, link
  <2>4. QED
    BY <1>1, <1>2, <2>1, <2>2, <2>3 DEF Places, TypeOK
<1>3. CASE PublishToQueue(m) /\ rank[m] = 0 /\ r.pc \in {"mark", "done"}
  <2>1. /\ rank' \in [Messages -> Nat] /\ Numbered' /\ rank'[m] # 0 /\ wire' = wire \union {m}
        /\ \A n \in Messages : n # m => rank'[n] = rank[n]
    BY <1>3, Published DEF Places
  <2>2. connected /\ m \notin wire \union ready \union unacked \union acked /\ ~handler[m].busy
    BY <1>3 DEF PublishToQueue, Places, Placed
  <2>3. Alive'
    BY <2>2 DEF Alive, link
  <2>4. ASSUME NEW n \in Messages PROVE Placed(n)'
    BY <1>1, <1>3, <2>1, <2>2 DEF Places, Placed, link
  <2>5. QED
    BY <1>1, <2>1, <2>2, <2>3, <2>4 DEF Places, TypeOK
<1>4. QED
  BY <1>2, <1>3

LEMMA PlacesAsk ==
    ASSUME TypeOK, Places, NEW m \in Messages, Ask(m) PROVE TypeOK' /\ Places'
<1>1. PICK r \in Requests : r.pc = "new" /\ Take(m, r)
  BY AskSteps
<1>2. /\ up /\ req[m].pc = "new" /\ rank[m] = 0
      /\ UNCHANGED <<link, declared, ready, unacked, handler, sent, acked>>
  BY DEF Ask, Places, Placed
<1>a. \A ok \in BOOLEAN : Answered(r, ok) \in Requests /\ Answered(r, ok).pc = "done"
  BY AnsweredType
<1>b. /\ [r EXCEPT !.pc = "direct", !.todo = r.channels] \in Requests
      /\ [r EXCEPT !.pc = "recorded"] \in Requests
  <2>1. "direct" \in Pcs /\ "recorded" \in Pcs /\ r.channels \in SUBSET Channels
    BY DEF Requests, Pcs
  <2>2. QED
    BY <2>1, MovedType
<1>c. QueuePayload(r) \in Requests
  BY MovedType DEF QueuePayload, Requests, Channels
<1>d. \A ok \in BOOLEAN : /\ Answered(QueuePayload(r), ok) \in Requests
                          /\ Answered(QueuePayload(r), ok).pc = "done"
  BY <1>c, AnsweredType
<1>3. \E q \in Requests :
         /\ Become(m, q)
         /\ UNCHANGED <<rank, wire>> \/ (PublishToQueue(m) /\ q.pc = "done")
  <2>1. CASE AskRefused(m, r)
    BY <1>a, <2>1 DEF AskRefused
  <2>2. CASE AskDirect(m, r)
    BY <1>a, <1>b, <2>2 DEF AskDirect
  <2>3. CASE AskQueue(m, r)
    BY <1>d, <2>3 DEF AskQueue, RefusePublish
  <2>4. CASE AskHybrid(m, r)
    BY <1>a, <1>b, <2>4 DEF AskHybrid
  <2>5. QED
    BY <1>1, <2>1, <2>2, <2>3, <2>4 DEF Take
<1>4. /\ Places' /\ rank' \in [Messages -> Nat] /\ wire' \subseteq Messages
      /\ wire' \intersect (ready' \union unacked') = {}
      /\ req' \in [Messages -> Requests]
  BY <1>2, <1>3, PlacesKept
<1>5. errors' \in Nat
  BY <1>1, ErrorsCount DEF Take, AskRefused, AskDirect, AskQueue, AskHybrid, TypeOK
<1>6. status' \in [Messages -> {"none", "pending", "sent", "failed"}]
  BY <1>1 DEF Take, AskRefused, AskDirect, AskQueue, AskHybrid, CreateNotification, TypeOK
<1>7. QED
  BY <1>2, <1>4, <1>5, <1>6 DEF TypeOK, link

LEMMA HandoverType ==
    ASSUME NEW r \in Requests, NEW ok \in BOOLEAN
    PROVE  /\ AfterHandover(r, ok) \in Requests /\ AfterHandover(r, ok).pc \in {"mark", "done"}
           /\ AfterHandover(r, ok).op = r.op /\ AfterHandover(r, ok).channels = r.channels
           /\ Recorded(r) => /\ AfterHandover(r, ok).pc = "mark"
                             /\ AfterHandover(r, ok).told = r.told
                             /\ AfterHandover(r, ok).failed <=> ~ok
           /\ ~Recorded(r) => /\ AfterHandover(r, ok).pc = "done"
                              /\ AfterHandover(r, ok).told = IF ok THEN "ok" ELSE "error"
           /\ QueuePayload(r) \in Requests /\ QueuePayload(r).op = r.op
           /\ QueuePayload(r).told = r.told /\ QueuePayload(r).failed = r.failed
<1>1. {} \in SUBSET Channels /\ {"email"} \in SUBSET Channels /\ "mark" \in Pcs
      /\ r.channels \in SUBSET Channels
  BY DEF Channels, Pcs, Requests
<1>2. QueuePayload(r) \in Requests
  <2>1. [r EXCEPT !.channels = IF r.op \in UserOps THEN {"email"} ELSE r.channels] \in Requests
    BY <1>1, MovedType
  <2>2. QED
    BY <2>1 DEF QueuePayload
<1>3. QueuePayload(r).op = r.op /\ QueuePayload(r).told = r.told /\ QueuePayload(r).failed = r.failed
  BY DEF QueuePayload, Requests
<1>4. CASE Recorded(r)
  <2>1. (~ok) \in BOOLEAN
    OBVIOUS
  <2>2. [r EXCEPT !.pc = "mark", !.todo = {}, !.failed = ~ok] \in Requests
    BY <1>1, <2>1, MovedType
  <2>3. AfterHandover(r, ok) = [r EXCEPT !.pc = "mark", !.todo = {}, !.failed = ~ok]
    BY <1>4 DEF AfterHandover
  <2>4. AfterHandover(r, ok).pc = "mark"
        /\ AfterHandover(r, ok).op = r.op /\ AfterHandover(r, ok).channels = r.channels
        /\ AfterHandover(r, ok).told = r.told
    BY <2>3 DEF Requests
  <2>5. AfterHandover(r, ok).failed <=> ~ok
    BY <2>3 DEF Requests
  <2>6. QED
    BY <1>2, <1>3, <1>4, <2>2, <2>3, <2>4, <2>5
<1>5. CASE ~Recorded(r)
  <2>1. AfterHandover(r, ok) = Answered(r, ok)
    BY <1>5 DEF AfterHandover
  <2>2. QED
    BY <1>2, <1>3, <1>5, <2>1, AnsweredType
<1>6. QED
  BY <1>4, <1>5

\* Steps of a request that publish nothing.
LEMMA PlacesRoute ==
    ASSUME TypeOK, Places, NEW m \in Messages, Route(m) PROVE TypeOK' /\ Places'
<1>1. /\ up /\ req[m].pc = "recorded" /\ rank[m] = 0 /\ req[m] \in Requests
      /\ UNCHANGED <<link, declared, ready, unacked, acked, handler, sent, status, errors>>
  BY DEF Route, Places, Placed, TypeOK
<1>2. \E q \in Requests :
         /\ Become(m, q)
         /\ UNCHANGED <<rank, wire>> \/ (PublishToQueue(m) /\ q.pc \in {"mark", "done"})
  <2>1. QueuePayload(req[m]) \in Requests
    BY <1>1, HandoverType
  <2>2. \A ok \in BOOLEAN : /\ AfterHandover(QueuePayload(req[m]), ok) \in Requests
                            /\ AfterHandover(QueuePayload(req[m]), ok).pc \in {"mark", "done"}
                            /\ AfterHandover(req[m], ok) \in Requests
    BY <1>1, <2>1, HandoverType
  <2>3. [req[m] EXCEPT !.pc = "direct", !.todo = req[m].channels] \in Requests
    <3>1. "direct" \in Pcs /\ req[m].channels \in SUBSET Channels
      BY <1>1 DEF Requests, Pcs
    <3>2. QED
      BY <1>1, <3>1, MovedType
  <2>4. QED
    BY <2>2, <2>3 DEF Route, RefusePublish
<1>3. /\ Places' /\ rank' \in [Messages -> Nat] /\ wire' \subseteq Messages
      /\ wire' \intersect (ready' \union unacked') = {}
      /\ req' \in [Messages -> Requests]
  BY <1>1, <1>2, PlacesKept
<1>4. QED
  BY <1>1, <1>3 DEF TypeOK, link

\* Sends count; a step of a direct request or a handler changes one count at most.
LEMMA SentCounts ==
    ASSUME TypeOK, NEW m \in Messages, NEW c \in Channels, Goes(m, c)
    PROVE  /\ sent' \in [Messages -> [Channels -> Nat]]
           /\ sent'[m][c] = sent[m][c] + 1
           /\ \A n \in Messages, d \in Channels : <<n, d>> # <<m, c>> => sent'[n][d] = sent[n][d]
BY DEF TypeOK, Goes

LEMMA SendErrors ==
    ASSUME errors \in Nat, NEW m, NEW c, CanSend(m, c) \/ EmailFails(m, c)
    PROVE  errors' \in Nat /\ errors' >= errors
BY DEF CanSend, EmailFails, NoError, Error

LEMMA PlacesDirect ==
    ASSUME TypeOK, Places, NEW m \in Messages, SendDirect(m) \/ SettleDirect(m) \/ Mark(m)
    PROVE  TypeOK' /\ Places'
<1>1. up /\ req[m] \in Requests /\ UNCHANGED <<link, broker, handler>>
  BY DEF SendDirect, SettleDirect, Mark, TypeOK
<1>2. CASE SendDirect(m)
  <2>1. PICK c \in req[m].todo :
          \/ CanSend(m, c) /\ Goes(m, c) /\ Become(m, [req[m] EXCEPT !.todo = @ \ {c}])
          \/ EmailFails(m, c) /\ sent' = sent
             /\ Become(m, [req[m] EXCEPT !.todo = @ \ {c}, !.failed = TRUE])
    BY <1>2 DEF SendDirect
  <2>2. req[m].pc = "direct" /\ c \in Channels /\ req[m].todo \ {c} \in SUBSET Channels
    BY <1>1, <1>2 DEF SendDirect, Requests
  <2>3. PICK q \in Requests : Become(m, q)
    <3>1. /\ [req[m] EXCEPT !.todo = req[m].todo \ {c}] \in Requests
          /\ [req[m] EXCEPT !.todo = req[m].todo \ {c}, !.failed = TRUE] \in Requests
      BY <1>1, <2>2, MovedType
    <3>2. QED
      BY <2>1, <3>1
  <2>4. rank[m] = 0
    BY <2>2 DEF Places, Placed
  <2>5. Places' /\ req' \in [Messages -> Requests]
    BY <1>1, <2>3, <2>4, PlacesKept DEF broker
  <2>6. sent' \in [Messages -> [Channels -> Nat]] /\ errors' \in Nat
    BY <2>1, <2>2, SentCounts, SendErrors DEF TypeOK
  <2>7. QED
    BY <1>1, <1>2, <2>5, <2>6 DEF TypeOK, SendDirect, link, broker
<1>3. CASE SettleDirect(m)
  <2>1. PICK q \in Requests : Become(m, q)
    <3>1. (~req[m].failed) \in BOOLEAN
      OBVIOUS
    <3>2. QED
      BY <1>1, <1>3, <3>1, HandoverType, AnsweredType DEF SettleDirect
  <2>2. rank[m] = 0
    BY <1>3 DEF SettleDirect, Places, Placed
  <2>3. Places' /\ req' \in [Messages -> Requests]
    BY <1>1, <2>1, <2>2, PlacesKept DEF broker
  <2>4. QED
    BY <1>1, <1>3, <2>3 DEF TypeOK, SettleDirect, link, broker
<1>4. CASE Mark(m)
  <2>1. PICK q \in Requests : Become(m, q) /\ q.pc \in {"mark", "done"}
    <3>1. [req[m] EXCEPT !.failed = TRUE] \in Requests
          /\ [req[m] EXCEPT !.failed = TRUE].pc = "mark"
      <4>1. [req[m] EXCEPT !.failed = TRUE] \in Requests
        BY <1>1, MovedType
      <4>2. QED
        BY <1>1, <1>4, <4>1 DEF Requests, Mark
    <3>2. \A ok \in BOOLEAN : Answered(req[m], ok) \in Requests /\ Answered(req[m], ok).pc = "done"
      BY <1>1, AnsweredType
    <3>3. QED
      BY <1>4, <3>1, <3>2 DEF Mark
  <2>2. Places' /\ req' \in [Messages -> Requests]
    BY <1>1, <2>1, PlacesKept DEF broker
  <2>3. errors' \in Nat
    BY <1>4, ErrorsCount DEF Mark, TypeOK
  <2>4. status' \in [Messages -> {"none", "pending", "sent", "failed"}] /\ sent' = sent
    BY <1>4 DEF Mark, UpdateNotificationStatus, TypeOK
  <2>5. QED
    BY <1>1, <2>2, <2>3, <2>4 DEF TypeOK, link, broker
<1>5. QED
  BY <1>2, <1>3, <1>4

LEMMA PlacesBroker ==
    ASSUME TypeOK, Places, NEW m \in Messages, Accept(m) \/ Deliver(m)
    PROVE  TypeOK' /\ Places'
<1>1. CASE Accept(m)
  <2>1. /\ UNCHANGED <<link, declared, req, status, rank, unacked, handler, sent, acked, errors>>
        /\ m \in wire /\ wire' = wire \ {m} /\ ready' \subseteq ready \union {m}
        /\ connected
    BY <1>1 DEF Accept, First
  <2>2. Numbered' /\ Alive'
    BY <2>1 DEF Places, Numbered, Alive, link
  <2>3. ASSUME NEW n \in Messages PROVE Placed(n)'
    BY <2>1 DEF Places, Placed, link
  <2>4. QED
    BY <2>1, <2>2, <2>3 DEF Places, TypeOK, link
<1>2. CASE Deliver(m)
  <2>1. /\ UNCHANGED <<link, declared, req, status, rank, wire, sent, acked, errors>>
        /\ m \in ready /\ ready' = ready \ {m} /\ unacked' = unacked \union {m}
        /\ up /\ connected
    BY <1>2 DEF Deliver, First
  <2>2. handler' = [handler EXCEPT ![m] = [busy |-> TRUE, todo |-> req[m].channels,
                                           failed |-> FALSE]]
    BY <1>2 DEF Deliver
  <2>3. req[m].channels \in SUBSET Channels /\ NoHandler \in Handlers
    BY NoHandlerType DEF TypeOK, Requests
  <2>4. handler' \in [Messages -> Handlers]
    BY <2>2, <2>3, HandlerType DEF TypeOK
  <2>5. handler'[m].busy /\ \A n \in Messages : n # m => handler'[n] = handler[n]
    BY <2>2 DEF TypeOK
  <2>6. Numbered' /\ Alive'
    BY <2>1 DEF Places, Numbered, Alive, link
  <2>7. ASSUME NEW n \in Messages PROVE Placed(n)'
    BY <2>1, <2>5 DEF Places, Placed, link
  <2>8. QED
    BY <2>1, <2>4, <2>6, <2>7 DEF Places, TypeOK, link
<1>3. QED
  BY <1>1, <1>2

\* A step of a handler: it goes on, or it ends with its message.
LEMMA HandleSteps ==
    ASSUME TypeOK, NEW m \in Messages, Handle(m)
    PROVE  /\ handler' \in [Messages -> Handlers]
           /\ sent' \in [Messages -> [Channels -> Nat]]
           /\ handler'[m].busy = handler[m].busy
           /\ \A n \in Messages : n # m => handler'[n] = handler[n]
           /\ errors' \in Nat /\ errors' >= errors
<1>1. PICK c \in handler[m].todo : SendSingle(m, c) \/ SendMulti(m, c)
  BY DEF Handle
<1>2. handler[m] \in Handlers /\ c \in Channels /\ handler[m].todo \ {c} \in SUBSET Channels
      /\ {} \in SUBSET Channels
  BY DEF TypeOK, Handlers
<1>3. /\ \A t \in SUBSET Channels : /\ [handler[m] EXCEPT !.todo = t] \in Handlers
                                    /\ [handler[m] EXCEPT !.todo = t, !.failed = TRUE] \in Handlers
  BY <1>2, HandlerType
<1>4. \E h \in Handlers : h.busy = handler[m].busy /\ handler' = [handler EXCEPT ![m] = h]
  <2>1. \A t : [handler[m] EXCEPT !.todo = t].busy = handler[m].busy
    BY <1>2 DEF Handlers
  <2>2. \A t : [handler[m] EXCEPT !.todo = t, !.failed = TRUE].busy = handler[m].busy
    BY <1>2 DEF Handlers
  <2>3. \/ handler' = [handler EXCEPT ![m].todo = {}]
        \/ handler' = [handler EXCEPT ![m].todo = {}, ![m].failed = TRUE]
        \/ handler' = [handler EXCEPT ![m].todo = @ \ {c}]
    BY <1>1 DEF SendSingle, SendMulti
  <2>4. \/ handler' = [handler EXCEPT ![m] = [handler[m] EXCEPT !.todo = {}]]
        \/ handler' = [handler EXCEPT ![m] = [handler[m] EXCEPT !.todo = {}, !.failed = TRUE]]
        \/ handler' = [handler EXCEPT ![m] = [handler[m] EXCEPT !.todo = handler[m].todo \ {c}]]
    BY <1>2, <2>3 DEF TypeOK, Handlers
  <2>5. QED
    BY <1>2, <1>3, <2>1, <2>2, <2>4
<1>5. sent' \in [Messages -> [Channels -> Nat]]
  BY <1>1, <1>2, SentCounts DEF SendSingle, SendMulti, TypeOK
<1>6. errors' \in Nat /\ errors' >= errors
  BY <1>1, <1>2, SendErrors DEF SendSingle, SendMulti, TypeOK, NoError
<1>7. QED
  BY <1>4, <1>5, <1>6 DEF TypeOK

LEMMA PlacesHandler ==
    ASSUME TypeOK, Places, NEW m \in Messages, Handle(m) \/ Ack(m) \/ Nack(m)
    PROVE  TypeOK' /\ Places'
<1>1. CASE Handle(m)
  <2>1. UNCHANGED <<link, broker, req, status>>
    BY <1>1 DEF Handle
  <2>2. Numbered' /\ Alive'
    BY <1>1, <2>1, HandleSteps DEF Places, Numbered, Alive, link, broker, Handle
  <2>3. ASSUME NEW n \in Messages PROVE Placed(n)'
    BY <1>1, <2>1, HandleSteps DEF Places, Placed, link, broker
  <2>4. QED
    BY <1>1, <2>1, <2>2, <2>3, HandleSteps DEF Places, TypeOK, link, broker
<1>2. CASE Ack(m) \/ Nack(m)
  <2>1. /\ UNCHANGED <<link, declared, req, status, rank, wire, sent, errors>>
        /\ unacked' = unacked \ {m} /\ handler' = [handler EXCEPT ![m] = NoHandler]
        /\ \/ ready' = ready /\ acked' = acked \union {m}
           \/ ready' = ready \union {m} /\ acked' = acked
        /\ handler[m].busy /\ connected
    BY <1>2 DEF Ack, Nack, Handled
  <2>2. /\ handler' \in [Messages -> Handlers] /\ ~handler'[m].busy
        /\ \A n \in Messages : n # m => handler'[n] = handler[n]
    <3>1. ~NoHandler.busy
      BY DEF NoHandler
    <3>2. QED
      BY <2>1, <3>1, NoHandlerType DEF TypeOK
  <2>3. m \in unacked /\ rank[m] # 0
    BY <2>1 DEF Places, Placed
  <2>4. Numbered' /\ Alive'
    BY <2>1, <2>2 DEF Places, Numbered, Alive, link
  <2>5. ASSUME NEW n \in Messages PROVE Placed(n)'
    BY <2>1, <2>2, <2>3 DEF Places, Placed, link
  <2>6. QED
    BY <2>1, <2>2, <2>3, <2>4, <2>5 DEF Places, TypeOK, link
<1>3. QED
  BY <1>1, <1>2

LEMMA PlacesBoot ==
    ASSUME TypeOK, Places, Boot
    PROVE  TypeOK' /\ Places'
<1>1. /\ ~up /\ up' = TRUE
      /\ UNCHANGED <<technology, req, status, rank, wire, ready, unacked, handler, sent,
                     acked, losses>>
  BY DEF Boot, BootDirect, BootQueue, BootHybrid, Start
<1>2. /\ manager' \in {"direct", "queue", "hybrid"} /\ errors' \in Nat
      /\ connected' \in BOOLEAN /\ consuming' \in BOOLEAN /\ declared' \in BOOLEAN
  <2>1. errors' \in Nat
    <3>1. Error \/ NoError
      BY DEF Boot, BootDirect, BootQueue, BootHybrid
    <3>2. QED
      BY <3>1, ErrorsCount DEF TypeOK
  <2>2. declared \in BOOLEAN
    BY DEF TypeOK
  <2>3. \E mgr \in {"direct", "queue", "hybrid"}, a \in BOOLEAN, b \in BOOLEAN, d \in BOOLEAN :
           Start(mgr, a, b, d)
    <3>1. CASE BootDirect
      BY <2>2, <3>1 DEF BootDirect
    <3>2. CASE BootQueue
      BY <2>2, <3>2 DEF BootQueue
    <3>3. CASE BootHybrid
      BY <2>2, <3>3 DEF BootHybrid
    <3>4. QED
      BY <3>1, <3>2, <3>3 DEF Boot
  <2>4. QED
    BY <2>1, <2>3, Zenon DEF Start
<1>3. wire = {} /\ unacked = {} /\ \A m \in Messages : ~handler[m].busy
  BY <1>1 DEF Places, Alive
<1>4. Numbered' /\ Alive'
  BY <1>1, <1>3 DEF Places, Numbered, Alive
<1>5. ASSUME NEW n \in Messages PROVE Placed(n)'
  BY <1>1, <1>3 DEF Places, Placed
<1>6. QED
  BY <1>1, <1>2, <1>4, <1>5 DEF Places, TypeOK

LEMMA PlacesLost == ASSUME TypeOK, Places, ConnectionLost PROVE TypeOK' /\ Places'
<1>1. /\ up /\ losses' = losses + 1 /\ connected' = FALSE /\ consuming' = FALSE
      /\ wire' = {} /\ ready' = ready \union unacked /\ unacked' = {}
      /\ UNCHANGED <<technology, up, manager, declared, req, status, rank, handler, sent,
                     acked, errors>>
  BY DEF ConnectionLost, Disconnected
<1>2. Numbered' /\ Alive'
  BY <1>1 DEF Places, Numbered, Alive
<1>3. ASSUME NEW n \in Messages PROVE Placed(n)'
  BY <1>1 DEF Places, Placed
<1>4. losses' \in Nat /\ wire' \intersect (ready' \union unacked') = {}
      /\ ready' \intersect unacked' = {} /\ ready' \subseteq Messages
  BY <1>1 DEF TypeOK
<1>5. <<up, connected, consuming, declared>>' \in BOOLEAN \X BOOLEAN \X BOOLEAN \X BOOLEAN
  BY <1>1 DEF TypeOK
<1>6. QED
  BY <1>1, <1>2, <1>3, <1>4, <1>5 DEF Places, TypeOK

\* What is left of a process that dies.
LEMMA Death ==
    ASSUME TypeOK, Dies
    PROVE  /\ up' = FALSE /\ connected' = FALSE /\ consuming' = FALSE /\ manager' = "direct"
           /\ wire' = {} /\ ready' = ready \union unacked /\ unacked' = {}
           /\ UNCHANGED <<technology, declared, status, rank, sent, acked>>
           /\ handler' \in [Messages -> Handlers] /\ \A m \in Messages : ~handler'[m].busy
           /\ req' \in [Messages -> Requests]
           /\ \A m \in Messages :
                 \/ req[m].pc \in {"new", "done"} /\ req'[m] = req[m]
                 \/ /\ req[m].pc \notin {"new", "done"}
                    /\ req'[m].pc = "done" /\ req'[m].told = req[m].told
                    /\ req'[m].op = req[m].op /\ req'[m].channels = req[m].channels
<1>1. handler' \in [Messages -> Handlers] /\ \A m \in Messages : ~handler'[m].busy
  <2>1. ~NoHandler.busy
    BY DEF NoHandler
  <2>2. handler' = [m \in Messages |-> NoHandler]
    BY DEF Dies
  <2>3. QED
    BY <2>1, <2>2, NoHandlerType
<1>2. ASSUME NEW m \in Messages
      PROVE  LET r == [req[m] EXCEPT !.pc = "done", !.todo = {}]
             IN /\ r \in Requests /\ r.pc = "done" /\ r.told = req[m].told
                /\ r.op = req[m].op /\ r.channels = req[m].channels
  <2>1. req[m] \in Requests /\ "done" \in Pcs /\ {} \in SUBSET Channels
    BY DEF TypeOK, Pcs
  <2>2. [req[m] EXCEPT !.pc = "done", !.todo = {}] \in Requests
    BY <2>1, MovedType
  <2>3. QED
    BY <2>1, <2>2 DEF Requests
<1>3. req' = [m \in Messages |->
                 IF req[m].pc \in {"new", "done"} THEN req[m]
                 ELSE [req[m] EXCEPT !.pc = "done", !.todo = {}]]
  BY DEF Dies
<1>4. /\ req' \in [Messages -> Requests]
      /\ \A m \in Messages :
                 \/ req[m].pc \in {"new", "done"} /\ req'[m] = req[m]
                 \/ /\ req[m].pc \notin {"new", "done"}
                    /\ req'[m].pc = "done" /\ req'[m].told = req[m].told
                    /\ req'[m].op = req[m].op /\ req'[m].channels = req[m].channels
  BY <1>2, <1>3 DEF TypeOK
<1>5. QED
  BY <1>1, <1>4 DEF Dies, Disconnected

LEMMA PlacesDeath ==
    ASSUME TypeOK, Places, Dies, losses' \in Nat, errors' \in Nat PROVE TypeOK' /\ Places'
<1>1. TypeOK'
  BY Death DEF TypeOK
<1>2. Numbered' /\ Alive'
  BY Death DEF Places, Numbered, Alive
<1>3. ASSUME NEW n \in Messages PROVE Placed(n)'
  BY Death DEF Places, Placed
<1>4. QED
  BY <1>1, <1>2, <1>3 DEF Places

LEMMA PlacesNext == TypeOK /\ Places /\ [Next]_vars => TypeOK' /\ Places'
<1> SUFFICES ASSUME TypeOK, Places, [Next]_vars PROVE TypeOK' /\ Places'
  OBVIOUS
<1>1. CASE Crash
  BY <1>1, PlacesDeath DEF Crash, NoError, TypeOK
<1>2. ASSUME NEW m \in Messages, AckThrows(m) PROVE TypeOK' /\ Places'
  BY <1>2, PlacesDeath DEF AckThrows, TypeOK
<1>3. CASE UNCHANGED vars
  <2>1. Numbered' /\ Alive' /\ \A m \in Messages : Placed(m)'
    BY <1>3 DEF vars, Places, Numbered, Alive, Placed
  <2>2. QED
    BY <1>3, <2>1 DEF vars, Places, TypeOK
<1>4. QED
  BY <1>1, <1>2, <1>3, PlacesAsk, PlacesRoute, PlacesDirect, PlacesBroker, PlacesHandler,
     PlacesBoot, PlacesLost DEF Next, RequestStep, HandlerStep

\* Every reachable state is well typed and the broker holds a message in one place.
THEOREM NotificationsTyping == Spec => []TypeOK
<1>1. QED
  BY PlacesInit, PlacesNext, PTL DEF Spec

\* The inductive invariant about the broker: what is queued, delivered or acknowledged was
\* published; only a running process holds handlers and open requests; and without a
\* connection nothing is on the wire or unacknowledged.
THEOREM NotificationsPlaces == Spec => []Places
<1>1. QED
  BY PlacesInit, PlacesNext, PTL DEF Spec

\* What was published keeps what it asks for, and sends, errors and losses are never undone.
LEMMA NothingUndone ==
    ASSUME TypeOK, Places, [Next]_vars
    PROVE  /\ \A m \in Messages : rank[m] # 0 => /\ rank'[m] # 0
                                                /\ req'[m].op = req[m].op
                                                /\ req'[m].channels = req[m].channels
           /\ \A m \in Messages, c \in Channels : sent'[m][c] >= sent[m][c]
           /\ errors' >= errors /\ losses' >= losses
<1>a. /\ errors \in Nat /\ losses \in Nat
      /\ \A m \in Messages : req[m] \in Requests
      /\ \A m \in Messages, c \in Channels : sent[m][c] \in Nat
  BY DEF TypeOK
<1>1. ASSUME NEW m \in Messages, Ask(m) \/ Route(m)
      PROVE  /\ rank[m] = 0 /\ UNCHANGED <<sent, losses>> /\ errors' >= errors
             /\ \A n \in Messages : n # m => req'[n] = req[n] /\ rank'[n] = rank[n]
  <2>1. rank[m] = 0 /\ UNCHANGED <<sent, losses>>
    BY <1>1 DEF Ask, Route, Places, Placed, link
  <2>2. /\ \E q : Become(m, q)
        /\ UNCHANGED rank \/ PublishToQueue(m)
        /\ UNCHANGED errors \/ NoError \/ \E ok \in BOOLEAN : Succeeds(ok)
    BY <1>1 DEF Ask, Route, Take, AskRefused, AskDirect, AskQueue, AskHybrid, RefusePublish
  <2>3. errors' >= errors
    BY <1>a, <2>2, ErrorsCount
  <2>4. QED
    BY <2>1, <2>2, <2>3, Published DEF Become, TypeOK, Places
<1>2. ASSUME NEW m \in Messages, SendDirect(m)
      PROVE  /\ UNCHANGED <<rank, losses>> /\ errors' >= errors
             /\ \A n \in Messages : req'[n].op = req[n].op /\ req'[n].channels = req[n].channels
             /\ \A n \in Messages, c \in Channels : sent'[n][c] >= sent[n][c]
  <2>1. PICK c \in req[m].todo :
          \/ CanSend(m, c) /\ Goes(m, c) /\ Become(m, [req[m] EXCEPT !.todo = @ \ {c}])
          \/ EmailFails(m, c) /\ sent' = sent
             /\ Become(m, [req[m] EXCEPT !.todo = @ \ {c}, !.failed = TRUE])
    BY <1>2 DEF SendDirect
  <2>2. c \in Channels
    BY <1>a DEF Requests
  <2>3. \A n \in Messages : req'[n].op = req[n].op /\ req'[n].channels = req[n].channels
    <3>1. PICK t : t = req[m].todo \ {c}
      OBVIOUS
    <3>2. /\ [req[m] EXCEPT !.todo = t].op = req[m].op
          /\ [req[m] EXCEPT !.todo = t].channels = req[m].channels
          /\ [req[m] EXCEPT !.todo = t, !.failed = TRUE].op = req[m].op
          /\ [req[m] EXCEPT !.todo = t, !.failed = TRUE].channels = req[m].channels
      BY <1>a, MovedFields
    <3>3. \E q : Become(m, q) /\ q.op = req[m].op /\ q.channels = req[m].channels
      BY <2>1, <3>1, <3>2
    <3>4. QED
      BY <3>3 DEF Become, TypeOK
  <2>4. \A n \in Messages, d \in Channels : sent'[n][d] >= sent[n][d]
    BY <1>a, <2>1, <2>2, SentCounts
  <2>5. QED
    BY <1>2, <1>a, <2>1, <2>3, <2>4, SendErrors DEF SendDirect, link, broker
<1>3. ASSUME NEW m \in Messages, SettleDirect(m) \/ Mark(m)
      PROVE  /\ UNCHANGED <<rank, losses, sent>> /\ errors' >= errors
             /\ \A n \in Messages : req'[n].op = req[n].op /\ req'[n].channels = req[n].channels
  <2>1. ASSUME NEW ok \in BOOLEAN
        PROVE  /\ Answered(req[m], ok).op = req[m].op
               /\ Answered(req[m], ok).channels = req[m].channels
               /\ AfterHandover(req[m], ok).op = req[m].op
               /\ AfterHandover(req[m], ok).channels = req[m].channels
    <3>1. req[m] \in Requests
      BY <1>a
    <3>2. Answered(req[m], ok).op = req[m].op /\ Answered(req[m], ok).channels = req[m].channels
      BY <3>1, AnsweredType
    <3>3. /\ AfterHandover(req[m], ok).op = req[m].op
          /\ AfterHandover(req[m], ok).channels = req[m].channels
      BY <3>1, HandoverType
    <3>4. QED
      BY <3>2, <3>3
  <2>2. (~req[m].failed) \in BOOLEAN
    OBVIOUS
  <2>3. \E q : Become(m, q) /\ q.op = req[m].op /\ q.channels = req[m].channels
    BY <1>3, <1>a, <2>1, <2>2, MovedFields DEF SettleDirect, Mark
  <2>4. errors' >= errors
    <3>1. UNCHANGED errors \/ NoError \/ Error \/ \E ok \in BOOLEAN : Succeeds(ok)
      BY <1>3 DEF SettleDirect, Mark
    <3>2. QED
      BY <1>a, <3>1, ErrorsCount
  <2>5. QED
    BY <1>3, <2>3, <2>4 DEF SettleDirect, Mark, Become, TypeOK, link, broker
<1>4. ASSUME NEW m \in Messages, Handle(m)
      PROVE  /\ UNCHANGED <<rank, losses, req>> /\ errors' >= errors
             /\ \A n \in Messages, c \in Channels : sent'[n][c] >= sent[n][c]
  <2>1. PICK c \in handler[m].todo : SendSingle(m, c) \/ SendMulti(m, c)
    BY <1>4 DEF Handle
  <2>2. c \in Channels
    BY DEF TypeOK, Handlers
  <2>3. \A n \in Messages, d \in Channels : sent'[n][d] >= sent[n][d]
    BY <1>a, <2>1, <2>2, SentCounts DEF SendSingle, SendMulti
  <2>4. QED
    BY <1>4, <2>3, HandleSteps DEF Handle, link, broker
<1>5. ASSUME NEW m \in Messages, Accept(m) \/ Deliver(m) \/ Ack(m) \/ Nack(m)
      PROVE  UNCHANGED <<rank, losses, req, sent, errors>>
  BY <1>5 DEF Accept, Deliver, Ack, Nack, link
<1>6. CASE Boot
  <2>1. UNCHANGED <<rank, losses, req, sent>> /\ (Error \/ NoError)
    BY <1>6 DEF Boot, BootDirect, BootQueue, BootHybrid
  <2>2. QED
    BY <1>a, <2>1, ErrorsCount
<1>7. CASE ConnectionLost
  BY <1>7, <1>a DEF ConnectionLost
<1>8. ASSUME Dies, losses' >= losses, errors' >= errors
      PROVE  /\ rank' = rank /\ sent' = sent /\ losses' >= losses /\ errors' >= errors
             /\ \A n \in Messages : req'[n].op = req[n].op /\ req'[n].channels = req[n].channels
  BY <1>8, Death
<1>9. ASSUME Crash \/ \E m \in Messages : AckThrows(m)
      PROVE  Dies /\ losses' >= losses /\ errors' >= errors
  BY <1>9, <1>a DEF Crash, AckThrows, NoError
<1>10. CASE UNCHANGED vars
  BY <1>10, <1>a DEF vars
<1>11. QED
  BY <1>a, <1>1, <1>2, <1>3, <1>4, <1>5, <1>6, <1>7, <1>8, <1>9, <1>10
     DEF Next, RequestStep, HandlerStep

-----------------------------------------------------------------------------
(***************************************************************************)
(* What an acknowledgement means.  A handler that still runs has sent, or  *)
(* tried, everything it no longer has to do.                               *)
(***************************************************************************)
RunsWell(m) == handler[m].busy =>
    /\ handler[m].todo \subseteq req[m].channels
    /\ ~Multi(m) /\ req[m].channels = {"email"} /\ ~handler[m].failed /\ "email" \notin handler[m].todo
          => sent[m]["email"] > 0
    /\ Multi(m) => /\ ~handler[m].failed
                   /\ \A c \in req[m].channels \ {"email"} :
                         c \notin handler[m].todo => sent[m][c] > 0
AckInv == AckedMeansSent /\ AckedTriedEveryChannel /\ \A m \in Messages : RunsWell(m)

\* How a handler goes on.
LEMMA HandlerFields ==
    ASSUME TypeOK, NEW m \in Messages, NEW c
    PROVE  /\ handler' = [handler EXCEPT ![m].todo = {}]
                 => handler'[m].todo = {} /\ (handler'[m].failed <=> handler[m].failed)
           /\ handler' = [handler EXCEPT ![m].todo = {}, ![m].failed = TRUE]
                 => handler'[m].todo = {} /\ handler'[m].failed
           /\ handler' = [handler EXCEPT ![m].todo = @ \ {c}]
                 => /\ handler'[m].todo = handler[m].todo \ {c}
                    /\ handler'[m].failed <=> handler[m].failed
<1>1. handler[m] \in Handlers
  BY DEF TypeOK
<1>2. ASSUME handler' = [handler EXCEPT ![m].todo = {}]
      PROVE  handler'[m].todo = {} /\ (handler'[m].failed <=> handler[m].failed)
  <2>1. handler'[m] = [handler[m] EXCEPT !.todo = {}]
    BY <1>2 DEF TypeOK
  <2>2. QED
    BY <1>1, <2>1 DEF Handlers
<1>3. ASSUME handler' = [handler EXCEPT ![m].todo = {}, ![m].failed = TRUE]
      PROVE  handler'[m].todo = {} /\ handler'[m].failed
  BY <1>1, <1>3 DEF Handlers, TypeOK
<1>4. ASSUME handler' = [handler EXCEPT ![m].todo = @ \ {c}]
      PROVE  /\ handler'[m].todo = handler[m].todo \ {c}
             /\ handler'[m].failed <=> handler[m].failed
  <2>1. handler'[m] = [handler[m] EXCEPT !.todo = handler[m].todo \ {c}]
    BY <1>4 DEF TypeOK
  <2>2. QED
    BY <1>1, <2>1 DEF Handlers
<1>5. QED
  BY <1>2, <1>3, <1>4

LEMMA RunsOn ==
    ASSUME TypeOK, Places, [Next]_vars, NEW m \in Messages, RunsWell(m),
           handler'[m] = handler[m] \/ ~handler'[m].busy
    PROVE  RunsWell(m)'
<1>1. CASE ~handler'[m].busy
  BY <1>1 DEF RunsWell
<1>2. CASE handler[m].busy /\ handler'[m] = handler[m]
  <2>1. rank[m] # 0
    BY <1>2 DEF Places, Placed
  <2>2. req'[m].op = req[m].op /\ req'[m].channels = req[m].channels
    BY <2>1, NothingUndone
  <2>3. \A c \in Channels : sent'[m][c] >= sent[m][c] /\ sent[m][c] \in Nat
    BY NothingUndone DEF TypeOK
  <2>4. req[m].channels \subseteq Channels /\ "email" \in Channels
    BY DEF TypeOK, Requests, Channels
  <2>5. TypeOK'
    BY PlacesNext
  <2>6. \A c \in Channels : sent'[m][c] \in Nat
    BY <2>5 DEF TypeOK
  <2>7. QED
    BY <1>2, <2>2, <2>3, <2>4, <2>6 DEF RunsWell, Multi
<1>3. QED
  BY <1>1, <1>2

LEMMA RunsHandle ==
    ASSUME TypeOK, NEW m \in Messages, RunsWell(m), Handle(m) PROVE RunsWell(m)'
<1>1. PICK c \in handler[m].todo : SendSingle(m, c) \/ SendMulti(m, c)
  BY DEF Handle
<1>2. /\ handler[m].busy /\ req'[m] = req[m] /\ c \in Channels
      /\ handler[m].todo \subseteq req[m].channels /\ req[m].channels \subseteq Channels
      /\ \A d \in Channels : sent[m][d] \in Nat /\ "email" \in Channels
  BY DEF Handle, RunsWell, TypeOK, Handlers, Requests, Channels
<1>3. sent' = sent \/ Goes(m, c)
  BY <1>1 DEF SendSingle, SendMulti
<1>4. \A d \in Channels : sent[m][d] > 0 => sent'[m][d] > 0
  BY <1>2, <1>3, SentCounts
<1>5. Goes(m, c) => sent'[m][c] > 0
  BY <1>2, SentCounts
<1>6. CASE SendSingle(m, c)
  <2>1. ~Multi(m) /\ ~Multi(m)' /\ handler'[m].todo = {}
    BY <1>2, <1>6, HandlerFields DEF SendSingle, Multi
  <2>2. req[m].channels = {"email"} => c = "email"
    BY <1>2
  <2>3. c = "email" => Goes(m, c) \/ handler'[m].failed
    BY <1>6, HandlerFields DEF SendSingle
  <2>4. QED
    BY <1>2, <1>5, <2>1, <2>2, <2>3 DEF RunsWell
<1>7. CASE SendMulti(m, c)
  <2>1. Multi(m) /\ Multi(m)'
    BY <1>2, <1>7 DEF SendMulti, Multi
  <2>2. handler'[m].todo = handler[m].todo \ {c} /\ (handler'[m].failed <=> handler[m].failed)
    BY <1>7, HandlerFields DEF SendMulti
  <2>3. c # "email" => Goes(m, c)
    BY <1>7 DEF SendMulti, EmailFails
  <2>4. ~handler'[m].failed
    BY <1>2, <2>1, <2>2 DEF RunsWell
  <2>5. ASSUME NEW d \in req[m].channels \ {"email"}, d \notin handler'[m].todo
        PROVE  sent'[m][d] > 0
    BY <1>2, <1>4, <1>5, <2>1, <2>2, <2>3, <2>5 DEF RunsWell
  <2>6. QED
    BY <1>2, <2>1, <2>2, <2>4, <2>5 DEF RunsWell
<1>8. QED
  BY <1>1, <1>6, <1>7

\* Which steps touch a handler.
LEMMA HandlersChange ==
    ASSUME TypeOK, [Next]_vars, NEW m \in Messages
    PROVE  \/ handler'[m] = handler[m] \/ ~handler'[m].busy
           \/ Handle(m) \/ Deliver(m)
<1>1. ASSUME NEW n \in Messages, Ask(n) \/ Accept(n) \/ RequestStep(n)
      PROVE  handler' = handler
  BY <1>1 DEF Ask, Accept, RequestStep, Route, SendDirect, SettleDirect, Mark
<1>2. ASSUME NEW n \in Messages, Deliver(n) \/ Ack(n) \/ Nack(n)
      PROVE  n # m => handler'[m] = handler[m]
  BY <1>2 DEF Deliver, Ack, Nack, TypeOK
<1>3. ASSUME Ack(m) \/ Nack(m) PROVE ~handler'[m].busy
  <2>1. handler' = [handler EXCEPT ![m] = NoHandler]
    BY <1>3 DEF Ack, Nack
  <2>2. handler'[m] = NoHandler
    BY <2>1 DEF TypeOK
  <2>3. QED
    BY <2>2 DEF NoHandler
<1>4. ASSUME NEW n \in Messages, Handle(n) PROVE n # m => handler'[m] = handler[m]
  BY <1>4, HandleSteps
<1>5. ASSUME Crash \/ \E n \in Messages : AckThrows(n) PROVE ~handler'[m].busy
  BY <1>5, Death DEF Crash, AckThrows
<1>6. ASSUME Boot \/ ConnectionLost \/ UNCHANGED vars PROVE handler' = handler
  BY <1>6 DEF Boot, ConnectionLost, vars
<1>7. QED
  BY <1>1, <1>2, <1>3, <1>4, <1>5, <1>6 DEF Next, HandlerStep

LEMMA AckNext == TypeOK /\ Places /\ AckInv /\ [Next]_vars => AckInv'
<1> SUFFICES ASSUME TypeOK, Places, AckInv, [Next]_vars PROVE AckInv'
  OBVIOUS
<1>1. ASSUME NEW m \in Messages PROVE RunsWell(m)'
  <2>1. CASE Deliver(m)
    <3>1. handler'[m] = [busy |-> TRUE, todo |-> req[m].channels, failed |-> FALSE]
      BY <2>1 DEF Deliver, TypeOK
    <3>2. handler'[m].todo = req[m].channels /\ ~handler'[m].failed /\ req' = req
      BY <2>1, <3>1 DEF Deliver
    <3>3. QED
      BY <3>2 DEF RunsWell
  <2>2. QED
    BY <2>1, HandlersChange, RunsOn, RunsHandle DEF AckInv
<1>2. TypeOK'
  BY PlacesNext
<1>3. acked' = acked \/ \E m \in Messages : Ack(m) /\ acked' = acked \union {m}
  <2>1. ASSUME NEW m \in Messages,
               \/ Ask(m) \/ Accept(m) \/ Deliver(m) \/ RequestStep(m)
               \/ Handle(m) \/ Nack(m) \/ AckThrows(m)
        PROVE  acked' = acked
    BY <2>1 DEF Ask, Accept, Deliver, RequestStep, Route, SendDirect, SettleDirect, Mark, Handle,
       Nack, AckThrows, Dies, broker
  <2>2. ASSUME NEW m \in Messages, Ack(m) PROVE acked' = acked \union {m}
    BY <2>2 DEF Ack
  <2>3. ASSUME Boot \/ ConnectionLost \/ Crash \/ UNCHANGED vars PROVE acked' = acked
    BY <2>3 DEF Boot, ConnectionLost, Crash, Dies, vars
  <2>4. QED
    BY <2>1, <2>2, <2>3 DEF Next, HandlerStep
<1>4. ASSUME NEW m \in acked'
      PROVE  /\ req'[m].op = req[m].op /\ req'[m].channels = req[m].channels
             /\ req[m].channels \subseteq Channels /\ "email" \in Channels
             /\ \A c \in Channels : /\ sent[m][c] \in Nat /\ sent'[m][c] \in Nat
                                    /\ sent'[m][c] >= sent[m][c]
  <2>1. m \in Messages
    BY <1>2 DEF TypeOK
  <2>2. rank[m] # 0
    BY <1>3, <2>1 DEF Places, Placed, TypeOK, Ack, Handled
  <2>3. QED
    BY <1>2, <2>1, <2>2, NothingUndone DEF TypeOK, Requests, Channels
<1>5. AckedMeansSent'
  <2> SUFFICES ASSUME NEW m \in acked', ~Multi(m)', req'[m].channels = {"email"}
               PROVE  sent'[m]["email"] > 0
    BY DEF AckedMeansSent
  <2>1. ~Multi(m) /\ req[m].channels = {"email"}
    BY <1>4 DEF Multi
  <2>2. CASE m \in acked
    <3>1. sent[m]["email"] > 0
      BY <2>1, <2>2 DEF AckInv, AckedMeansSent
    <3>2. QED
      BY <1>4, <3>1
  <2>3. CASE m \notin acked
    <3>1. Ack(m) /\ m \in Messages
      BY <1>3, <2>3
    <3>2. handler[m].busy /\ handler[m].todo = {} /\ ~handler[m].failed
      BY <3>1 DEF Ack, Handled
    <3>3. sent[m]["email"] > 0
      BY <2>1, <3>1, <3>2 DEF AckInv, RunsWell
    <3>4. QED
      BY <1>4, <3>3
  <2>4. QED
    BY <2>2, <2>3
<1>6. AckedTriedEveryChannel'
  <2> SUFFICES ASSUME NEW m \in acked', Multi(m)', NEW c \in req'[m].channels \ {"email"}
               PROVE  sent'[m][c] > 0
    BY DEF AckedTriedEveryChannel
  <2>1. Multi(m) /\ c \in req[m].channels \ {"email"} /\ c \in Channels
    BY <1>4 DEF Multi
  <2>2. CASE m \in acked
    <3>1. sent[m][c] > 0
      BY <2>1, <2>2 DEF AckInv, AckedTriedEveryChannel
    <3>2. QED
      BY <1>4, <2>1, <3>1
  <2>3. CASE m \notin acked
    <3>1. Ack(m) /\ m \in Messages
      BY <1>3, <2>3
    <3>2. handler[m].busy /\ handler[m].todo = {}
      BY <3>1 DEF Ack, Handled
    <3>3. sent[m][c] > 0
      BY <2>1, <3>1, <3>2 DEF AckInv, RunsWell
    <3>4. QED
      BY <1>4, <2>1, <3>3
  <2>4. QED
    BY <2>2, <2>3
<1>7. QED
  BY <1>1, <1>5, <1>6 DEF AckInv

LEMMA AckInit == Init => AckInv
BY DEF Init, AckInv, AckedMeansSent, AckedTriedEveryChannel, RunsWell, NoHandler

\* A lone e-mail is acknowledged only once it went out, through every retry and loss.
THEOREM AckMeansSent == Spec => []AckedMeansSent
<1>1. AckInv => AckedMeansSent
  BY DEF AckInv
<1>2. QED
  BY <1>1, NotificationsTyping, NotificationsPlaces, AckInit, AckNext, PTL DEF Spec

\* A message for several channels is acknowledged only once each was tried.
THEOREM AckMeansTried == Spec => []AckedTriedEveryChannel
<1>1. AckInv => AckedTriedEveryChannel
  BY DEF AckInv
<1>2. QED
  BY <1>1, NotificationsTyping, NotificationsPlaces, AckInit, AckNext, PTL DEF Spec

\* Whatever is acknowledged had been handled as its kind of message asks.
THEOREM AcksAlwaysEarned == Spec => []AcksAreEarned
BY AckMeansSent, AckMeansTried, PTL DEF AcksAreEarned

-----------------------------------------------------------------------------
(***************************************************************************)
(* What an answer and a record mean.                                       *)
(***************************************************************************)
HandedOver(m) == rank[m] # 0 \/ \A c \in req[m].channels : sent[m][c] > 0
AnswerInv(m) ==
    /\ req[m].pc # "done" => req[m].told = "nothing"
    /\ req[m].told = "ok" => HandedOver(m)
    /\ req[m].pc = "direct" /\ ~req[m].failed =>
          \A c \in req[m].channels : c \in req[m].todo \/ sent[m][c] > 0
    /\ req[m].pc = "mark" /\ ~req[m].failed => HandedOver(m)
Agrees(m) ==
    /\ status[m] = "sent" => req[m].told # "error"
    /\ status[m] = "failed" => req[m].told # "ok"
    /\ status[m] = "pending" => errors > 0 \/ losses > 0
RecordInv(m) ==
    /\ req[m].pc = "new" => status[m] = "none"
    /\ req[m].pc \in {"recorded", "direct"} =>
          /\ status[m] \in {"none", "pending"}
          /\ status[m] = "pending" => Recorded(req[m])
    /\ req[m].pc = "mark" => status[m] \in {"none", "pending"}
    /\ req[m].pc = "done" => Agrees(m)
    /\ handler[m].busy /\ ~connected => losses > 0
TalkInv == \A m \in Messages : AnswerInv(m) /\ RecordInv(m)

\* Nothing is said about a message whose request stands still.
LEMMA TalkKept ==
    ASSUME TypeOK, Places, TypeOK', [Next]_vars, NEW m \in Messages, AnswerInv(m), RecordInv(m),
           req'[m] = req[m], status'[m] = status[m],
           handler'[m].busy /\ ~connected' => losses' > 0
    PROVE  AnswerInv(m)' /\ RecordInv(m)'
<1>1. \A c \in Channels : sent[m][c] \in Nat /\ sent'[m][c] \in Nat /\ sent'[m][c] >= sent[m][c]
  BY NothingUndone DEF TypeOK
<1>2. req[m].channels \subseteq Channels
  BY DEF TypeOK, Requests
<1>3. rank[m] # 0 => rank'[m] # 0
  BY NothingUndone
<1>4. HandedOver(m) => HandedOver(m)'
  BY <1>1, <1>2, <1>3 DEF HandedOver
<1>5. AnswerInv(m)'
  BY <1>1, <1>2, <1>4 DEF AnswerInv
<1>6. /\ errors \in Nat /\ errors' \in Nat /\ losses \in Nat /\ losses' \in Nat
      /\ errors' >= errors /\ losses' >= losses
  BY NothingUndone DEF TypeOK
<1>7. Agrees(m) => Agrees(m)'
  BY <1>6 DEF Agrees
<1>8. RecordInv(m)'
  BY <1>6, <1>7 DEF RecordInv
<1>9. QED
  BY <1>5, <1>8

\* A request that is refused or over: what it may say.
LEMMA TalkAnswered ==
    ASSUME TypeOK, NEW m \in Messages, NEW r \in Requests, NEW ok \in BOOLEAN,
           Become(m, Answered(r, ok)), ok => HandedOver(m)', Agrees(m)',
           handler'[m].busy /\ ~connected' => losses' > 0
    PROVE  AnswerInv(m)' /\ RecordInv(m)'
<1>1. Answered(r, ok) \in Requests /\ Answered(r, ok).pc = "done"
      /\ Answered(r, ok).told = IF ok THEN "ok" ELSE "error"
  BY AnsweredType
<1>2. req'[m] = Answered(r, ok)
  BY <1>1, RequestMoves
<1>3. req'[m].pc = "done" /\ (req'[m].told = "ok" => ok)
  BY <1>1, <1>2
<1>4. QED
  BY <1>3 DEF AnswerInv, RecordInv

LEMMA TalkAsk ==
    ASSUME TypeOK, Places, TypeOK', NEW m \in Messages, AnswerInv(m), RecordInv(m), Ask(m)
    PROVE  AnswerInv(m)' /\ RecordInv(m)'
<1>1. PICK r \in Requests : /\ r.pc = "new" /\ r.todo = {} /\ ~r.failed /\ r.told = "nothing"
                            /\ Take(m, r)
  BY AskSteps
<1>2. /\ req[m].pc = "new" /\ status[m] = "none"
      /\ UNCHANGED <<link, declared, ready, unacked, handler, sent, acked>>
  BY DEF Ask, RecordInv
<1>3. handler'[m].busy /\ ~connected' => losses' > 0
  BY <1>2 DEF RecordInv, link
<1>4. ASSUME status'[m] = "none" PROVE Agrees(m)'
  BY <1>4 DEF Agrees
<1>5. CASE AskRefused(m, r)
  BY <1>2, <1>3, <1>4, <1>5, TalkAnswered DEF AskRefused
<1>6. CASE AskDirect(m, r)
  <2>1. status'[m] = "none"
    BY <1>2, <1>6 DEF AskDirect
  <2>2. CASE r.channels = {}
    BY <1>3, <1>4, <1>6, <2>1, <2>2, TalkAnswered DEF AskDirect
  <2>3. CASE r.channels # {}
    <3>1. "direct" \in Pcs /\ r.channels \in SUBSET Channels
      BY DEF Pcs, Requests
    <3>2. PICK q : q = [r EXCEPT !.pc = "direct", !.todo = r.channels]
      OBVIOUS
    <3>3. /\ q \in Requests /\ q.pc = "direct" /\ q.todo = q.channels /\ q.told = "nothing"
      <4>1. [r EXCEPT !.pc = "direct", !.todo = r.channels] \in Requests
        BY <3>1, MovedType
      <4>2. /\ [r EXCEPT !.pc = "direct", !.todo = r.channels].pc = "direct"
            /\ [r EXCEPT !.pc = "direct", !.todo = r.channels].todo = r.channels
            /\ [r EXCEPT !.pc = "direct", !.todo = r.channels].channels = r.channels
            /\ [r EXCEPT !.pc = "direct", !.todo = r.channels].told = r.told
        BY MovedFields
      <4>3. QED
        BY <1>1, <3>2, <4>1, <4>2
    <3>4. req'[m] = q
      BY <1>6, <2>3, <3>2, <3>3, RequestMoves DEF AskDirect
    <3>5. QED
      BY <1>3, <2>1, <3>3, <3>4 DEF AnswerInv, RecordInv
  <2>4. QED
    BY <2>2, <2>3
<1>7. CASE AskQueue(m, r)
  <2>1. QueuePayload(r) \in Requests /\ status'[m] = "none"
    BY <1>2, <1>7, HandoverType DEF AskQueue
  <2>2. CASE PublishToQueue(m) /\ Become(m, Answered(QueuePayload(r), TRUE))
    <3>1. HandedOver(m)'
      BY <2>2, Published DEF HandedOver, Places
    <3>2. QED
      BY <1>3, <1>4, <2>1, <2>2, <3>1, TalkAnswered
  <2>3. CASE Become(m, Answered(QueuePayload(r), FALSE))
    BY <1>3, <1>4, <2>1, <2>3, TalkAnswered
  <2>4. QED
    BY <1>7, <2>2, <2>3 DEF AskQueue
<1>8. CASE AskHybrid(m, r)
  <2>1. PICK q : q = [r EXCEPT !.pc = "recorded"]
    OBVIOUS
  <2>2. /\ q \in Requests /\ q.pc = "recorded" /\ q.told = "nothing" /\ q.op = r.op
    <3>1. "recorded" \in Pcs
      BY DEF Pcs
    <3>2. QED
      BY <1>1, <2>1, <3>1, MovedType, MovedFields
  <2>3. Recorded(q) <=> Recorded(r)
    BY <2>2 DEF Recorded
  <2>4. CASE ~Recorded(r) /\ Become(m, q) /\ UNCHANGED status
    <3>1. req'[m] = q /\ status'[m] = "none"
      BY <1>2, <2>2, <2>4, RequestMoves
    <3>2. QED
      BY <1>3, <2>2, <3>1 DEF AnswerInv, RecordInv
  <2>5. CASE Recorded(r) /\ Become(m, q) /\ CreateNotification(m, TRUE)
    <3>1. req'[m] = q /\ status'[m] = "pending"
      BY <2>2, <2>5, RequestMoves DEF CreateNotification, TypeOK
    <3>2. QED
      BY <1>3, <2>2, <2>3, <2>5, <3>1 DEF AnswerInv, RecordInv
  <2>6. CASE Become(m, Answered(r, FALSE)) /\ CreateNotification(m, FALSE)
    <3>1. status'[m] = "none"
      BY <1>2, <2>6 DEF CreateNotification, TypeOK
    <3>2. QED
      BY <1>3, <1>4, <2>6, <3>1, TalkAnswered
  <2>7. QED
    BY <1>8, <2>1, <2>4, <2>5, <2>6 DEF AskHybrid
<1>9. QED
  BY <1>1, <1>5, <1>6, <1>7, <1>8 DEF Take

\* The handover to the queue, or the end of a direct send, of a hybrid or direct request.
LEMMA TalkHandover ==
    ASSUME TypeOK, NEW m \in Messages, NEW r \in Requests, NEW ok \in BOOLEAN,
           Become(m, AfterHandover(r, ok)), r.told = "nothing", r.op = req[m].op,
           ok => HandedOver(m)', status'[m] \in {"none", "pending"},
           status'[m] = "pending" => Recorded(req[m]),
           handler'[m].busy /\ ~connected' => losses' > 0
    PROVE  AnswerInv(m)' /\ RecordInv(m)'
<1>1. PICK q : q = AfterHandover(r, ok)
  OBVIOUS
<1>2. q \in Requests
  BY <1>1, HandoverType
<1>3. req'[m] = q
  BY <1>1, <1>2, RequestMoves
<1>4. Recorded(r) <=> Recorded(req[m])
  BY DEF Recorded
<1>5. CASE Recorded(r)
  <2>1. q.pc = "mark" /\ q.told = "nothing" /\ (q.failed <=> ~ok)
    BY <1>1, <1>5, HandoverType
  <2>2. QED
    BY <1>3, <2>1 DEF AnswerInv, RecordInv
<1>6. CASE ~Recorded(r)
  <2>1. q.pc = "done" /\ (q.told = "ok" => ok)
    BY <1>1, <1>6, HandoverType
  <2>2. status'[m] = "none"
    BY <1>4, <1>6
  <2>3. QED
    BY <1>3, <2>1, <2>2 DEF AnswerInv, RecordInv, Agrees
<1>7. QED
  BY <1>5, <1>6

LEMMA TalkRoute ==
    ASSUME TypeOK, Places, TypeOK', NEW m \in Messages, AnswerInv(m), RecordInv(m), Route(m)
    PROVE  AnswerInv(m)' /\ RecordInv(m)'
<1>1. /\ req[m].pc = "recorded" /\ req[m].told = "nothing" /\ req[m] \in Requests
      /\ UNCHANGED <<link, declared, ready, unacked, acked, handler, sent, status, errors>>
  BY DEF Route, AnswerInv, TypeOK
<1>2. /\ status'[m] \in {"none", "pending"}
      /\ status'[m] = "pending" => Recorded(req[m])
      /\ handler'[m].busy /\ ~connected' => losses' > 0
  BY <1>1 DEF RecordInv, link
<1>3. QueuePayload(req[m]) \in Requests /\ QueuePayload(req[m]).op = req[m].op
      /\ QueuePayload(req[m]).told = "nothing"
  BY <1>1, HandoverType
<1>4. CASE PublishToQueue(m) /\ Become(m, AfterHandover(QueuePayload(req[m]), TRUE))
  <2>1. HandedOver(m)'
    BY <1>4, Published DEF HandedOver, Places
  <2>2. QED
    BY <1>2, <1>3, <1>4, <2>1, TalkHandover
<1>5. CASE Become(m, AfterHandover(QueuePayload(req[m]), FALSE))
  BY <1>2, <1>3, <1>5, TalkHandover
<1>6. CASE Become(m, AfterHandover(req[m], FALSE))
  BY <1>1, <1>2, <1>6, TalkHandover
<1>7. CASE Become(m, [req[m] EXCEPT !.pc = "direct", !.todo = req[m].channels])
  <2>1. PICK q : q = [req[m] EXCEPT !.pc = "direct", !.todo = req[m].channels]
    OBVIOUS
  <2>2. q \in Requests
    <3>1. "direct" \in Pcs /\ req[m].channels \in SUBSET Channels
      BY <1>1 DEF Pcs, Requests
    <3>2. QED
      BY <1>1, <2>1, <3>1, MovedType
  <2>3. /\ q.pc = "direct" /\ q.todo = req[m].channels /\ q.channels = req[m].channels
        /\ q.told = req[m].told /\ q.op = req[m].op
    <3>1. /\ [req[m] EXCEPT !.pc = "direct", !.todo = req[m].channels].pc = "direct"
          /\ [req[m] EXCEPT !.pc = "direct", !.todo = req[m].channels].todo = req[m].channels
          /\ [req[m] EXCEPT !.pc = "direct", !.todo = req[m].channels].channels = req[m].channels
          /\ [req[m] EXCEPT !.pc = "direct", !.todo = req[m].channels].told = req[m].told
          /\ [req[m] EXCEPT !.pc = "direct", !.todo = req[m].channels].op = req[m].op
      BY <1>1, MovedFields
    <3>2. QED
      BY <2>1, <3>1
  <2>4. req'[m] = q
    BY <1>7, <2>1, <2>2, RequestMoves
  <2>5. QED
    BY <1>1, <1>2, <2>3, <2>4 DEF AnswerInv, RecordInv, Recorded
<1>8. QED
  BY <1>4, <1>5, <1>6, <1>7 DEF Route

LEMMA TalkSend ==
    ASSUME TypeOK, Places, TypeOK', NEW m \in Messages, AnswerInv(m), RecordInv(m), SendDirect(m)
    PROVE  AnswerInv(m)' /\ RecordInv(m)'
<1>1. /\ req[m].pc = "direct" /\ req[m].told = "nothing" /\ req[m] \in Requests
      /\ UNCHANGED <<link, broker, handler, status>>
  BY DEF SendDirect, AnswerInv, TypeOK
<1>2. PICK c \in req[m].todo :
        \/ CanSend(m, c) /\ Goes(m, c) /\ Become(m, [req[m] EXCEPT !.todo = @ \ {c}])
        \/ EmailFails(m, c) /\ sent' = sent
           /\ Become(m, [req[m] EXCEPT !.todo = @ \ {c}, !.failed = TRUE])
  BY DEF SendDirect
<1>3. PICK t : t = req[m].todo \ {c} /\ t \in SUBSET Channels
  BY <1>1 DEF Requests
<1>4. PICK q : /\ q \in Requests /\ req'[m] = q
               /\ q.pc = "direct" /\ q.todo = t /\ q.channels = req[m].channels
               /\ q.told = req[m].told /\ q.op = req[m].op
               /\ q.failed \/ (Goes(m, c) /\ q.failed = req[m].failed)
  <2>1. CASE Goes(m, c) /\ Become(m, [req[m] EXCEPT !.todo = t])
    <3>1. PICK q : q = [req[m] EXCEPT !.todo = t]
      OBVIOUS
    <3>2. q \in Requests
      BY <1>1, <1>3, <3>1, MovedType
    <3>3. /\ q.pc = req[m].pc /\ q.todo = t /\ q.channels = req[m].channels
          /\ q.told = req[m].told /\ q.op = req[m].op /\ q.failed = req[m].failed
      BY <1>1, <3>1, MovedFields
    <3>4. QED
      BY <1>1, <2>1, <3>1, <3>2, <3>3, RequestMoves
  <2>2. CASE Become(m, [req[m] EXCEPT !.todo = t, !.failed = TRUE])
    <3>1. PICK q : q = [req[m] EXCEPT !.todo = t, !.failed = TRUE]
      OBVIOUS
    <3>2. q \in Requests
      BY <1>1, <1>3, <3>1, MovedType
    <3>3. /\ q.pc = req[m].pc /\ q.todo = t /\ q.channels = req[m].channels
          /\ q.told = req[m].told /\ q.op = req[m].op /\ q.failed
      BY <1>1, <3>1, MovedFields
    <3>4. QED
      BY <1>1, <2>2, <3>1, <3>2, <3>3, RequestMoves
  <2>3. QED
    BY <1>2, <1>3, <2>1, <2>2
<1>5. RecordInv(m)'
  BY <1>1, <1>4 DEF RecordInv, Recorded, link, broker
<1>6. ASSUME ~q.failed, NEW d \in q.channels PROVE d \in q.todo \/ sent'[m][d] > 0
  <2>1. Goes(m, c) /\ ~req[m].failed /\ c \in Channels /\ d \in Channels
    BY <1>1, <1>4, <1>6 DEF Requests
  <2>2. d \in req[m].todo \/ sent[m][d] > 0
    BY <1>1, <1>4, <2>1 DEF AnswerInv
  <2>3. sent[m][d] \in Nat /\ sent[m][c] \in Nat
    BY <2>1 DEF TypeOK
  <2>4. QED
    BY <1>3, <1>4, <2>1, <2>2, <2>3, SentCounts
<1>7. AnswerInv(m)'
  BY <1>1, <1>4, <1>6 DEF AnswerInv
<1>8. QED
  BY <1>5, <1>7

LEMMA TalkSettle ==
    ASSUME TypeOK, Places, TypeOK', NEW m \in Messages, AnswerInv(m), RecordInv(m), SettleDirect(m)
    PROVE  AnswerInv(m)' /\ RecordInv(m)'
<1>1. /\ req[m].pc = "direct" /\ req[m].todo = {} /\ req[m].told = "nothing"
      /\ req[m] \in Requests /\ UNCHANGED <<link, broker, handler, status, sent, errors>>
  BY DEF SettleDirect, AnswerInv, TypeOK
<1>2. /\ status'[m] \in {"none", "pending"}
      /\ status'[m] = "pending" => Recorded(req[m])
      /\ handler'[m].busy /\ ~connected' => losses' > 0
  BY <1>1 DEF RecordInv, link
<1>3. PICK ok \in BOOLEAN : ok <=> ~req[m].failed
  OBVIOUS
<1>4. Become(m, IF ByHybrid(m) THEN AfterHandover(req[m], ok) ELSE Answered(req[m], ok))
  <2>1. CASE ok
    BY <1>3, <2>1, Zenon DEF SettleDirect
  <2>2. CASE ~ok
    BY <1>3, <2>2, Zenon DEF SettleDirect
  <2>3. QED
    BY <2>1, <2>2
<1>5. ok => HandedOver(m)'
  <2>1. ASSUME ok PROVE \A c \in req[m].channels : sent[m][c] > 0
    BY <1>1, <1>3, <2>1 DEF AnswerInv
  <2>2. ASSUME ok PROVE req'[m].channels = req[m].channels
    <3>1. AfterHandover(req[m], ok) \in Requests /\ AfterHandover(req[m], ok).channels = req[m].channels
      BY <1>1, HandoverType
    <3>2. Answered(req[m], ok) \in Requests /\ Answered(req[m], ok).channels = req[m].channels
      BY <1>1, AnsweredType
    <3>3. QED
      BY <1>4, <3>1, <3>2, RequestMoves
  <2>3. QED
    BY <1>1, <2>1, <2>2 DEF HandedOver
<1>6. CASE ByHybrid(m)
  BY <1>1, <1>2, <1>4, <1>5, <1>6, TalkHandover
<1>7. CASE ~ByHybrid(m)
  <2>1. Agrees(m)'
    BY <1>1, <1>2, <1>7 DEF Agrees, ByHybrid
  <2>2. QED
    BY <1>1, <1>2, <1>4, <1>5, <1>7, <2>1, TalkAnswered
<1>8. QED
  BY <1>6, <1>7

LEMMA TalkMark ==
    ASSUME TypeOK, Places, TypeOK', NEW m \in Messages, AnswerInv(m), RecordInv(m), Mark(m)
    PROVE  AnswerInv(m)' /\ RecordInv(m)'
<1>1. /\ req[m].pc = "mark" /\ req[m].told = "nothing" /\ req[m] \in Requests
      /\ UNCHANGED <<link, broker, handler, sent>> /\ status[m] \in {"none", "pending"}
      /\ handler'[m].busy /\ ~connected' => losses' > 0
  BY DEF Mark, AnswerInv, RecordInv, TypeOK, link, broker
<1>2. CASE ~req[m].failed /\ UpdateNotificationStatus(m, "sent") /\ Become(m, Answered(req[m], TRUE))
  <2>1. Answered(req[m], TRUE) \in Requests /\ Answered(req[m], TRUE).channels = req[m].channels
        /\ Answered(req[m], TRUE).told = "ok"
    BY <1>1, AnsweredType
  <2>2. req'[m].channels = req[m].channels /\ req'[m].told = "ok"
    BY <1>2, <2>1, RequestMoves
  <2>3. HandedOver(m)'
    BY <1>1, <1>2, <2>2 DEF AnswerInv, HandedOver, broker
  <2>4. status'[m] = "sent"
    BY <1>2 DEF UpdateNotificationStatus, TypeOK
  <2>5. Agrees(m)'
    BY <2>2, <2>4 DEF Agrees
  <2>6. QED
    BY <1>1, <1>2, <2>3, <2>5, TalkAnswered
<1>3. CASE UNCHANGED status /\ Become(m, [req[m] EXCEPT !.failed = TRUE])
  <2>1. PICK q : q = [req[m] EXCEPT !.failed = TRUE]
    OBVIOUS
  <2>2. q \in Requests
    BY <1>1, <2>1, MovedType
  <2>3. q.pc = "mark" /\ q.told = "nothing" /\ q.failed
    BY <1>1, <2>1, MovedFields
  <2>4. req'[m] = q
    BY <1>3, <2>1, <2>2, RequestMoves
  <2>5. QED
    BY <1>1, <1>3, <2>3, <2>4 DEF AnswerInv, RecordInv
<1>4. ASSUME Become(m, Answered(req[m], FALSE)), NEW ok \in BOOLEAN, Succeeds(ok),
             IF ok THEN UpdateNotificationStatus(m, "failed") ELSE UNCHANGED status
      PROVE  AnswerInv(m)' /\ RecordInv(m)'
  <2>1. Answered(req[m], FALSE) \in Requests /\ Answered(req[m], FALSE).told = "error"
    BY <1>1, AnsweredType
  <2>2. req'[m].told = "error"
    BY <1>4, <2>1, RequestMoves
  <2>3. CASE ok
    <3>1. status'[m] = "failed"
      BY <1>4, <2>3 DEF UpdateNotificationStatus, TypeOK
    <3>2. QED
      BY <1>1, <1>4, <2>2, <3>1, TalkAnswered DEF Agrees
  <2>4. CASE ~ok
    <3>1. errors' > 0
      BY <1>4, <2>4 DEF Succeeds, Error, TypeOK
    <3>2. Agrees(m)'
      BY <1>1, <1>4, <2>2, <2>4, <3>1 DEF Agrees
    <3>3. QED
      BY <1>1, <1>4, <3>2, TalkAnswered
  <2>5. QED
    BY <2>3, <2>4
<1>5. QED
  BY <1>2, <1>3, <1>4 DEF Mark

LEMMA TalkDeath ==
    ASSUME TypeOK, Places, TypeOK', [Next]_vars, NEW m \in Messages, AnswerInv(m), RecordInv(m),
           Dies, losses' > 0
    PROVE  AnswerInv(m)' /\ RecordInv(m)'
<1>1. /\ ~handler'[m].busy /\ status' = status
      /\ \/ req[m].pc \in {"new", "done"} /\ req'[m] = req[m]
         \/ /\ req[m].pc \notin {"new", "done"}
            /\ req'[m].pc = "done" /\ req'[m].told = req[m].told
  BY Death
<1>2. CASE req[m].pc \in {"new", "done"} /\ req'[m] = req[m]
  BY <1>1, <1>2, TalkKept
<1>3. CASE /\ req[m].pc \notin {"new", "done"}
           /\ req'[m].pc = "done" /\ req'[m].told = req[m].told
  <2>1. req'[m].told = "nothing"
    BY <1>3 DEF AnswerInv
  <2>2. status'[m] \in {"none", "pending"}
    BY <1>1, <1>3 DEF RecordInv, TypeOK, Requests, Pcs
  <2>3. QED
    BY <1>1, <1>3, <2>1, <2>2 DEF AnswerInv, RecordInv, Agrees
<1>4. QED
  BY <1>1, <1>2, <1>3

LEMMA TalkNext == TypeOK /\ Places /\ TalkInv /\ [Next]_vars => TalkInv'
<1> SUFFICES ASSUME TypeOK, Places, TalkInv, [Next]_vars, NEW m \in Messages
             PROVE  AnswerInv(m)' /\ RecordInv(m)'
  BY DEF TalkInv
<1>a. TypeOK' /\ AnswerInv(m) /\ RecordInv(m) /\ losses \in Nat
  BY PlacesNext DEF TalkInv, TypeOK
<1>b. handler[m].busy /\ ~connected => losses > 0
  BY <1>a DEF RecordInv
<1>1. ASSUME NEW n \in Messages, n # m, Ask(n) \/ RequestStep(n)
      PROVE  AnswerInv(m)' /\ RecordInv(m)'
  <2>1. UNCHANGED <<link, handler>> /\ \E q : Become(n, q)
    BY <1>1 DEF Ask, Take, AskRefused, AskDirect, AskQueue, AskHybrid, RequestStep, Route,
       SendDirect, SettleDirect, Mark
  <2>2. req'[m] = req[m]
    BY <1>1, <2>1 DEF Become, TypeOK
  <2>3. status'[m] = status[m]
    BY <1>1 DEF Ask, Take, AskRefused, AskDirect, AskQueue, AskHybrid, RequestStep, Route,
       SendDirect, SettleDirect, Mark, CreateNotification, UpdateNotificationStatus, TypeOK
  <2>4. QED
    BY <1>a, <1>b, <2>1, <2>2, <2>3, TalkKept DEF link
<1>2. ASSUME Ask(m) \/ RequestStep(m) PROVE AnswerInv(m)' /\ RecordInv(m)'
  BY <1>2, <1>a, TalkAsk, TalkRoute, TalkSend, TalkSettle, TalkMark DEF RequestStep
<1>3. ASSUME NEW n \in Messages, Accept(n) \/ Deliver(n) \/ Handle(n) \/ Ack(n) \/ Nack(n)
      PROVE  AnswerInv(m)' /\ RecordInv(m)'
  <2>1. UNCHANGED <<link, req, status>>
    BY <1>3 DEF Accept, Deliver, Handle, Ack, Nack
  <2>2. connected \/ handler'[m].busy => connected \/ handler[m].busy
    BY <1>3, HandleSteps DEF Accept, Deliver, Ack, Nack
  <2>3. handler'[m].busy => connected \/ handler[m].busy
    BY <2>2
  <2>4. QED
    BY <1>a, <1>b, <2>1, <2>3, TalkKept DEF link
<1>4. CASE Boot
  <2>1. ~up /\ UNCHANGED <<req, status, handler>>
    BY <1>4 DEF Boot
  <2>2. req[m].pc \in {"new", "done"} /\ ~handler[m].busy
    BY <2>1 DEF Places, Alive
  <2>3. QED
    BY <1>a, <2>1, <2>2, TalkKept
<1>5. CASE ConnectionLost
  <2>1. losses' > 0 /\ UNCHANGED <<req, status>>
    BY <1>5, <1>a DEF ConnectionLost
  <2>2. QED
    BY <1>a, <2>1, TalkKept
<1>6. CASE Crash
  BY <1>6, <1>a, TalkDeath DEF Crash
<1>7. ASSUME NEW n \in Messages, AckThrows(n) PROVE AnswerInv(m)' /\ RecordInv(m)'
  <2>1. handler[n].busy /\ ~connected /\ Dies /\ losses' = losses
    BY <1>7 DEF AckThrows, Handled
  <2>2. losses > 0
    BY <2>1 DEF TalkInv, RecordInv
  <2>3. QED
    BY <1>a, <2>1, <2>2, TalkDeath
<1>8. CASE UNCHANGED vars
  <2>1. UNCHANGED <<req, status, handler, connected, losses>>
    BY <1>8 DEF vars
  <2>2. QED
    BY <1>a, <1>b, <2>1, TalkKept
<1>9. QED
  BY <1>1, <1>2, <1>3, <1>4, <1>5, <1>6, <1>7, <1>8 DEF Next, HandlerStep

LEMMA TalkInit == Init => TalkInv
<1> SUFFICES ASSUME Init, NEW m \in Messages PROVE AnswerInv(m) /\ RecordInv(m)
  BY DEF TalkInv
<1>1. /\ req[m].pc = "new" /\ req[m].told = "nothing" /\ status[m] = "none"
      /\ ~handler[m].busy
  BY DEF Init, NoRequest, NoHandler
<1>2. QED
  BY <1>1 DEF AnswerInv, RecordInv

\* A caller that hears "ok" can rely on the handover or on every send.
THEOREM OkIsTrue == Spec => []OkMeansHandedOver
<1>1. TalkInv => OkMeansHandedOver
  BY DEF TalkInv, AnswerInv, OkMeansHandedOver, HandedOver
<1>2. QED
  BY <1>1, NotificationsTyping, NotificationsPlaces, TalkInit, TalkNext, PTL DEF Spec

\* The stored record of a finished request agrees with its answer, but for faults.
THEOREM RecordIsTrue == Spec => []RecordAgrees
<1>1. TalkInv => RecordAgrees
  BY DEF TalkInv, RecordInv, Agrees, RecordAgrees
<1>2. QED
  BY <1>1, NotificationsTyping, NotificationsPlaces, TalkInit, TalkNext, PTL DEF Spec

\* Neither caller nor record is told what did not happen.
THEOREM AnswersAlwaysTrue == Spec => []AnswersAreTrue
BY OkIsTrue, RecordIsTrue, PTL DEF AnswersAreTrue

-----------------------------------------------------------------------------
(***************************************************************************)
(* Duplicates.  A message that waits, or a channel its handler still has   *)
(* to do, has one send less than the losses allow.                         *)
(***************************************************************************)
Retries(m) == ~Multi(m) /\ (handler[m].todo # {} \/ handler[m].failed)
SendsLeft(m) ==
    /\ \A c \in Channels : sent[m][c] <= 1 + losses
    /\ m \in wire \union ready => \A c \in Channels : sent[m][c] <= losses
    /\ handler[m].busy /\ connected =>
          \A c \in Channels : c \in handler[m].todo \/ Retries(m) => sent[m][c] <= losses
    /\ handler[m].busy /\ ~connected =>
          \A c \in Channels : c \in handler[m].todo => sent[m][c] < losses
    /\ handler[m].busy /\ (Multi(m) \/ handler[m].todo # {}) => ~handler[m].failed
    /\ req[m].pc \in {"new", "recorded"} => \A c \in Channels : sent[m][c] = 0
    /\ req[m].pc = "direct" => \A c \in Channels : c \in req[m].todo => sent[m][c] = 0
DupInv == \A m \in Messages : SendsLeft(m)

\* Steps that neither send nor touch this message's handler, place or kind.
LEMMA SendsKept ==
    ASSUME TypeOK, NEW m \in Messages, SendsLeft(m),
           \A c \in Channels : sent'[m][c] = sent[m][c],
           UNCHANGED <<connected, losses>>, handler'[m] = handler[m],
           m \in wire' \union ready' => m \in wire \union ready,
           handler[m].busy => req'[m].op = req[m].op,
           req'[m].pc \in {"new", "recorded"} => req[m].pc \in {"new", "recorded"},
           req'[m].pc = "direct" =>
              \/ req[m].pc \in {"new", "recorded"}
              \/ req[m].pc = "direct" /\ req'[m].todo \subseteq req[m].todo
    PROVE  SendsLeft(m)'
<1>1. handler[m].busy => (Multi(m)' <=> Multi(m)) /\ (Retries(m)' <=> Retries(m))
  BY DEF Multi, Retries
<1>2. QED
  BY <1>1 DEF SendsLeft

LEMMA SendsRequest ==
    ASSUME TypeOK, Places, [Next]_vars, NEW m \in Messages, SendsLeft(m),
           Ask(m) \/ Route(m) \/ SettleDirect(m) \/ Mark(m)
    PROVE  SendsLeft(m)'
<1>1. /\ \A c \in Channels : sent'[m][c] = sent[m][c]
      /\ UNCHANGED <<link, handler, ready>>
  BY DEF Ask, Route, SettleDirect, Mark, broker
<1>2. handler[m].busy => req'[m].op = req[m].op
  BY NothingUndone DEF Places, Placed
<1>3. losses \in Nat /\ \A c \in Channels : sent[m][c] \in Nat
  BY DEF TypeOK
<1>4. CASE Ask(m) \/ Route(m)
  <2>1. req[m].pc \in {"new", "recorded"} /\ \A c \in Channels : sent[m][c] = 0
    BY <1>4 DEF Ask, Route, SendsLeft
  <2>2. rank[m] = 0 /\ ~handler[m].busy
    BY <2>1 DEF Places, Placed
  <2>3. QED
    BY <1>1, <1>3, <2>1, <2>2 DEF SendsLeft, link
<1>5. CASE SettleDirect(m) \/ Mark(m)
  <2>1. wire' = wire
    BY <1>5 DEF SettleDirect, Mark, broker
  <2>2. req'[m].pc \in {"mark", "done"}
    <3>1. ASSUME NEW ok \in BOOLEAN PROVE Answered(req[m], ok).pc = "done"
      <4>1. req[m] \in Requests
        BY DEF TypeOK
      <4>2. QED
        BY <4>1, AnsweredType
    <3>2. ASSUME NEW ok \in BOOLEAN PROVE AfterHandover(req[m], ok).pc \in {"mark", "done"}
      <4>1. req[m] \in Requests
        BY DEF TypeOK
      <4>2. QED
        BY <4>1, HandoverType
    <3>3. Mark(m) => [req[m] EXCEPT !.failed = TRUE].pc = "mark"
      BY MovedFields DEF Mark, TypeOK
    <3>4. (~req[m].failed) \in BOOLEAN
      OBVIOUS
    <3>5. \E q : Become(m, q) /\ q.pc \in {"mark", "done"}
      BY <1>5, <3>1, <3>2, <3>3, <3>4 DEF SettleDirect, Mark
    <3>6. QED
      BY <3>5 DEF Become, TypeOK
  <2>3. QED
    BY <1>1, <1>2, <2>1, <2>2, SendsKept DEF link
<1>6. QED
  BY <1>4, <1>5

LEMMA SendsDirect ==
    ASSUME TypeOK, Places, NEW m \in Messages, SendsLeft(m), SendDirect(m)
    PROVE  SendsLeft(m)'
<1>1. /\ req[m].pc = "direct" /\ req[m] \in Requests /\ UNCHANGED <<link, broker, handler>>
  BY DEF SendDirect, TypeOK
<1>2. rank[m] = 0 /\ ~handler[m].busy /\ m \notin wire \union ready
  BY <1>1 DEF Places, Placed
<1>3. PICK c \in req[m].todo :
        /\ Goes(m, c) \/ sent' = sent
        /\ \/ Become(m, [req[m] EXCEPT !.todo = @ \ {c}])
           \/ Become(m, [req[m] EXCEPT !.todo = @ \ {c}, !.failed = TRUE])
  BY DEF SendDirect
<1>4. req'[m].pc = "direct" /\ req'[m].todo = req[m].todo \ {c}
  <2>1. PICK t : t = req[m].todo \ {c}
    OBVIOUS
  <2>2. /\ [req[m] EXCEPT !.todo = t].pc = "direct" /\ [req[m] EXCEPT !.todo = t].todo = t
        /\ [req[m] EXCEPT !.todo = t, !.failed = TRUE].pc = "direct"
        /\ [req[m] EXCEPT !.todo = t, !.failed = TRUE].todo = t
    BY <1>1, MovedFields
  <2>3. \E q : Become(m, q) /\ q.pc = "direct" /\ q.todo = t
    BY <1>3, <2>1, <2>2
  <2>4. QED
    BY <2>1, <2>3 DEF Become, TypeOK
<1>5. c \in Channels /\ sent[m][c] = 0 /\ losses \in Nat
  BY <1>1 DEF Requests, SendsLeft, TypeOK
<1>6. \A d \in Channels : sent'[m][d] \in Nat /\ (d # c => sent'[m][d] = sent[m][d]) /\ sent'[m][c] <= 1
  BY <1>3, <1>5, SentCounts DEF TypeOK
<1>7. \A d \in Channels : sent'[m][d] <= 1 + losses
  BY <1>5, <1>6 DEF SendsLeft
<1>8. QED
  BY <1>1, <1>2, <1>4, <1>6, <1>7 DEF SendsLeft, link, broker

LEMMA SendsHandle ==
    ASSUME TypeOK, Places, NEW m \in Messages, SendsLeft(m), Handle(m) PROVE SendsLeft(m)'
<1>1. PICK c \in handler[m].todo : SendSingle(m, c) \/ SendMulti(m, c)
  BY DEF Handle
<1>2. /\ handler[m].busy /\ UNCHANGED <<link, broker, req>> /\ c \in Channels
      /\ losses \in Nat /\ \A d \in Channels : sent[m][d] \in Nat
      /\ ~handler[m].failed /\ handler'[m].busy = handler[m].busy
  <2>1. handler[m].busy /\ UNCHANGED <<link, broker, req>>
    BY DEF Handle
  <2>2. c \in Channels /\ losses \in Nat /\ \A d \in Channels : sent[m][d] \in Nat
    BY DEF TypeOK, Handlers
  <2>3. ~handler[m].failed
    BY <2>1 DEF SendsLeft
  <2>4. handler'[m].busy = handler[m].busy
    BY HandleSteps
  <2>5. QED
    BY <2>1, <2>2, <2>3, <2>4
<1>3. Goes(m, c) \/ sent' = sent
  BY <1>1 DEF SendSingle, SendMulti
<1>4. \A d \in Channels : d # c => sent'[m][d] = sent[m][d]
  BY <1>2, <1>3, SentCounts
<1>5. sent'[m][c] \in {sent[m][c], sent[m][c] + 1} /\ (sent' = sent \/ Goes(m, c))
  BY <1>2, <1>3, SentCounts
<1>6. /\ connected => sent[m][c] <= losses
      /\ ~connected => sent[m][c] < losses
  BY <1>2 DEF SendsLeft
<1>7. \A d \in Channels : sent'[m][d] <= 1 + losses
  BY <1>2, <1>4, <1>5, <1>6 DEF SendsLeft
<1>8. rank[m] # 0 /\ req[m].pc \in {"mark", "done"} /\ (connected => m \in unacked)
  BY <1>2 DEF Places, Placed
<1>9. m \in wire \union ready => \A d \in Channels : sent'[m][d] <= losses
  <2>1. m \in wire \union ready => ~connected
    BY <1>8 DEF TypeOK
  <2>2. QED
    BY <1>2, <1>4, <1>5, <1>6, <2>1 DEF SendsLeft
<1>10. CASE SendSingle(m, c)
  <2>1. ~Multi(m) /\ ~Multi(m)' /\ handler'[m].todo = {}
    BY <1>2, <1>10, HandlerFields DEF SendSingle, Multi
  <2>2. Retries(m)
    BY <2>1 DEF Retries
  <2>3. handler'[m].failed => sent' = sent
    BY <1>2, <1>10, HandlerFields DEF SendSingle
  <2>4. connected /\ handler'[m].failed => \A d \in Channels : sent'[m][d] <= losses
    BY <1>2, <2>2, <2>3 DEF SendsLeft
  <2>5. QED
    BY <1>2, <1>7, <1>8, <1>9, <2>1, <2>4 DEF SendsLeft, Retries, link, broker
<1>11. CASE SendMulti(m, c)
  <2>1. Multi(m) /\ Multi(m)' /\ handler'[m].todo = handler[m].todo \ {c} /\ ~handler'[m].failed
    BY <1>2, <1>11, HandlerFields DEF SendMulti, Multi
  <2>2. ASSUME NEW d \in Channels, d \in handler'[m].todo
        PROVE  sent'[m][d] = sent[m][d] /\ d \in handler[m].todo
    BY <1>4, <2>1, <2>2
  <2>3. QED
    BY <1>2, <1>7, <1>8, <1>9, <2>1, <2>2 DEF SendsLeft, Retries, link, broker
<1>12. QED
  BY <1>1, <1>10, <1>11

LEMMA SendsBroker ==
    ASSUME TypeOK, Places, NEW m \in Messages, SendsLeft(m),
           Accept(m) \/ Deliver(m) \/ Ack(m) \/ Nack(m)
    PROVE  SendsLeft(m)'
<1>1. UNCHANGED <<link, req, sent>>
  BY DEF Accept, Deliver, Ack, Nack
<1>2. CASE Accept(m)
  BY <1>1, <1>2, SendsKept DEF Accept, First, link
<1>3. CASE Deliver(m)
  <2>1. \A c \in Channels : sent[m][c] <= losses
    BY <1>3 DEF Deliver, First, SendsLeft
  <2>2. handler'[m] = [busy |-> TRUE, todo |-> req[m].channels, failed |-> FALSE]
    BY <1>3 DEF Deliver, TypeOK
  <2>3. ~handler'[m].failed /\ connected
    BY <1>3, <2>2 DEF Deliver
  <2>4. wire' \union ready' \subseteq wire \union ready
    BY <1>3 DEF Deliver
  <2>5. QED
    BY <1>1, <2>1, <2>3, <2>4 DEF SendsLeft, link
<1>4. CASE Ack(m) \/ Nack(m)
  <2>1. ~handler'[m].busy
    <3>1. handler'[m] = NoHandler
      BY <1>4 DEF Ack, Nack, TypeOK
    <3>2. QED
      BY <3>1 DEF NoHandler
  <2>2. CASE Ack(m)
    BY <1>1, <2>1, <2>2 DEF Ack, SendsLeft, link
  <2>3. CASE Nack(m)
    <3>1. handler[m].busy /\ handler[m].failed /\ connected
      BY <2>3 DEF Nack, Handled
    <3>2. ~Multi(m)
      BY <3>1 DEF SendsLeft
    <3>3. \A c \in Channels : sent[m][c] <= losses
      BY <3>1, <3>2 DEF SendsLeft, Retries
    <3>4. QED
      BY <1>1, <2>1, <3>3 DEF SendsLeft, link
  <2>4. QED
    BY <1>4, <2>2, <2>3
<1>5. QED
  BY <1>2, <1>3, <1>4

LEMMA SendsDeath ==
    ASSUME TypeOK, Places, NEW m \in Messages, SendsLeft(m), Dies,
           \/ losses' = losses + 1
           \/ losses' = losses /\ ~connected
    PROVE  SendsLeft(m)'
<1>1. /\ sent' = sent /\ ~handler'[m].busy /\ wire' = {} /\ ready' = ready \union unacked
      /\ req'[m].pc = "new" => req[m].pc = "new"
      /\ req'[m].pc \in {"new", "done"}
  BY Death
<1>2. losses \in Nat /\ \A c \in Channels : sent[m][c] \in Nat
  BY DEF TypeOK
<1>3. m \in unacked => losses' = losses + 1
  BY DEF Places, Alive
<1>4. \A c \in Channels : sent'[m][c] <= 1 + losses'
  BY <1>1, <1>2 DEF SendsLeft
<1>5. m \in ready' => \A c \in Channels : sent'[m][c] <= losses'
  BY <1>1, <1>2, <1>3 DEF SendsLeft
<1>6. QED
  BY <1>1, <1>4, <1>5 DEF SendsLeft

LEMMA DupNext == TypeOK /\ Places /\ DupInv /\ [Next]_vars => DupInv'
<1> SUFFICES ASSUME TypeOK, Places, DupInv, [Next]_vars, NEW m \in Messages PROVE SendsLeft(m)'
  BY DEF DupInv
<1>a. SendsLeft(m) /\ losses \in Nat /\ \A c \in Channels : sent[m][c] \in Nat
  BY DEF DupInv, TypeOK
<1>1. ASSUME NEW n \in Messages, n # m,
             \/ Ask(n) \/ RequestStep(n) \/ Accept(n) \/ Deliver(n)
             \/ Handle(n) \/ Ack(n) \/ Nack(n)
      PROVE  SendsLeft(m)'
  <2>1. UNCHANGED link /\ (req' = req \/ \E q : Become(n, q))
    BY <1>1 DEF Ask, Take, AskRefused, AskDirect, AskQueue, AskHybrid, RequestStep, Route,
       SendDirect, SettleDirect, Mark, Accept, Deliver, Handle, Ack, Nack
  <2>2. req'[m] = req[m]
    BY <1>1, <2>1 DEF Become, TypeOK
  <2>3. handler'[m] = handler[m]
    <3>1. ASSUME Ask(n) \/ RequestStep(n) \/ Accept(n) PROVE handler' = handler
      BY <3>1 DEF Ask, RequestStep, Route, SendDirect, SettleDirect, Mark, Accept
    <3>2. ASSUME Deliver(n) \/ Ack(n) \/ Nack(n) PROVE handler'[m] = handler[m]
      BY <1>1, <3>2 DEF Deliver, Ack, Nack, TypeOK
    <3>3. QED
      BY <1>1, <3>1, <3>2, HandleSteps
  <2>4. \A c \in Channels : sent'[m][c] = sent[m][c]
    <3>1. sent' = sent \/ \E c : Goes(n, c)
      BY <1>1 DEF Ask, RequestStep, Route, SendDirect, SettleDirect, Mark, Accept, Deliver,
         Handle, SendSingle, SendMulti, Ack, Nack
    <3>2. QED
      BY <1>1, <3>1 DEF Goes, TypeOK
  <2>5. m \in wire' \union ready' => m \in wire \union ready
    BY <1>1 DEF Ask, Take, AskRefused, AskDirect, AskQueue, AskHybrid, RequestStep, Route,
       PublishToQueue, RefusePublish,
       SendDirect, SettleDirect, Mark, Accept, Deliver, Handle, Ack, Nack, broker, First
  <2>6. QED
    BY <1>a, <2>1, <2>2, <2>3, <2>4, <2>5, SendsKept DEF link
<1>2. ASSUME \/ Ask(m) \/ RequestStep(m) \/ Accept(m) \/ Deliver(m)
             \/ Handle(m) \/ Ack(m) \/ Nack(m)
      PROVE  SendsLeft(m)'
  BY <1>2, <1>a, SendsRequest, SendsDirect, SendsHandle, SendsBroker DEF RequestStep
<1>3. CASE Boot
  <2>1. UNCHANGED <<req, wire, ready, handler, sent, losses>> /\ ~handler[m].busy
    BY <1>3 DEF Boot, Places, Alive
  <2>2. QED
    BY <1>a, <2>1 DEF SendsLeft
<1>4. CASE ConnectionLost
  <2>1. /\ UNCHANGED <<req, handler, sent>> /\ losses' = losses + 1
        /\ wire' = {} /\ connected' = FALSE /\ connected
    BY <1>4 DEF ConnectionLost, Disconnected
  <2>2. (Multi(m)' <=> Multi(m))
    BY <2>1 DEF Multi
  <2>3. \A c \in Channels : sent[m][c] <= losses => sent[m][c] < losses + 1
    BY <1>a
  <2>4. QED
    BY <1>a, <2>1, <2>2, <2>3 DEF SendsLeft
<1>5. CASE Crash
  BY <1>5, <1>a, SendsDeath DEF Crash
<1>6. ASSUME NEW n \in Messages, AckThrows(n) PROVE SendsLeft(m)'
  BY <1>6, <1>a, SendsDeath DEF AckThrows
<1>7. CASE UNCHANGED vars
  <2>1. UNCHANGED <<req, wire, ready, handler, sent, losses, connected>>
    BY <1>7 DEF vars
  <2>2. QED
    BY <1>a, <2>1, SendsKept
<1>8. QED
  BY <1>1, <1>2, <1>3, <1>4, <1>5, <1>6, <1>7 DEF Next, HandlerStep

LEMMA DupInit == Init => DupInv
<1> SUFFICES ASSUME Init, NEW m \in Messages PROVE SendsLeft(m)
  BY DEF DupInv
<1>1. /\ ~handler[m].busy /\ m \notin wire \union ready /\ losses = 0 /\ req[m].pc = "new"
      /\ \A c \in Channels : sent[m][c] = 0
  BY DEF Init, NoRequest, NoHandler
<1>2. QED
  BY <1>1 DEF SendsLeft

\* No channel gets a message more often than once and once more per lost connection or
\* crash: a retry never repeats a send that succeeded.
THEOREM DuplicatesAreBounded == Spec => []DuplicatesNeedALoss
<1>1. DupInv => DuplicatesNeedALoss
  BY DEF DupInv, SendsLeft, DuplicatesNeedALoss
<1>2. QED
  BY <1>1, NotificationsTyping, NotificationsPlaces, DupInit, DupNext, PTL DEF Spec

-----------------------------------------------------------------------------
(***************************************************************************)
(* The promise of Delivery.  First what it needs to know of messages and   *)
(* handlers: a message acknowledged is nowhere else; one that may be       *)
(* queued asks for some channel; a handler works on a message that is kept,*)
(* on channels it was asked for, and fails only at its end.                *)
(***************************************************************************)
AsksFor(op, cs) == cs # {} /\ (op = "notify" => \E c \in Channels : cs = {c})
Fits(m) ==
    /\ m \in acked => m \notin wire \union ready \union unacked /\ ~handler[m].busy
    /\ req[m].pc = "recorded" => MayAsk(req[m].op, req[m].channels)
    /\ req[m].pc = "direct" => req[m].channels # {} /\ req[m].todo \subseteq req[m].channels
    /\ rank[m] # 0 => AsksFor(req[m].op, req[m].channels)
    /\ handler[m].busy =>
          /\ m \in ready \union unacked
          /\ handler[m].todo \subseteq req[m].channels
          /\ ~Multi(m) => handler[m].todo \in {{}, req[m].channels}
          /\ handler[m].failed => ~Multi(m) /\ handler[m].todo = {}
FitInv == \A m \in Messages : Fits(m)

LEMMA FitInit == Init => FitInv
BY DEF Init, FitInv, Fits, NoRequest, NoHandler

\* What becomes of a request that is taken up, or routed: it is over, sent by the manager
\* itself, recorded, or handed to the queue.
Ends(q) == UNCHANGED <<rank, wire>> /\ q.pc \in {"mark", "done"}
SendsItself(q) ==
    UNCHANGED <<rank, wire>> /\ q.pc = "direct" /\ q.channels # {} /\ q.todo = q.channels
Records(q) == UNCHANGED <<rank, wire>> /\ q.pc = "recorded" /\ MayAsk(q.op, q.channels)
Hands(m, q) == PublishToQueue(m) /\ q.pc \in {"mark", "done"} /\ AsksFor(q.op, q.channels)
Outcome(m, q) == Ends(q) \/ SendsItself(q) \/ Records(q) \/ Hands(m, q)

\* What is queued asks for a channel: what was listed, or e-mail.
LEMMA PayloadAsks ==
    ASSUME NEW r \in Requests, MayAsk(r.op, r.channels)
    PROVE  AsksFor(QueuePayload(r).op, QueuePayload(r).channels)
<1>1. QueuePayload(r).op = r.op
  BY HandoverType
<1>2. QueuePayload(r).channels = IF r.op \in UserOps THEN {"email"} ELSE r.channels
  BY DEF QueuePayload, Requests
<1>3. r.op \in Ops
  BY DEF Requests
<1>4. QED
  BY <1>1, <1>2, <1>3 DEF MayAsk, AsksFor, Ops, UserOps, Channels

LEMMA AskOutcome ==
    ASSUME TypeOK, NEW m \in Messages, Ask(m)
    PROVE  \E q \in Requests : Become(m, q) /\ Outcome(m, q)
<1>1. PICK r \in Requests, op \in Ops, cs \in SUBSET Channels :
         r.op = op /\ r.channels = cs /\ r.pc = "new" /\ MayAsk(op, cs) /\ Take(m, r)
  BY AskSteps
<1>2. MayAsk(r.op, r.channels)
  BY <1>1
<1>3. \A ok \in BOOLEAN : Answered(r, ok) \in Requests /\ Answered(r, ok).pc = "done"
  BY AnsweredType
<1>4. QueuePayload(r) \in Requests
  BY HandoverType
<1>5. \A ok \in BOOLEAN : LET q == Answered(QueuePayload(r), ok)
                          IN  /\ q \in Requests /\ q.pc = "done"
                              /\ q.op = QueuePayload(r).op /\ q.channels = QueuePayload(r).channels
  BY <1>4, AnsweredType
<1>6. CASE AskRefused(m, r)
  BY <1>3, <1>6 DEF AskRefused, Outcome, Ends
<1>7. CASE AskDirect(m, r)
  <2>1. CASE r.channels = {}
    BY <1>3, <1>7, <2>1 DEF AskDirect, Outcome, Ends
  <2>2. CASE r.channels # {}
    <3>1. "direct" \in Pcs /\ r.channels \in SUBSET Channels
      BY DEF Pcs, Requests
    <3>2. [r EXCEPT !.pc = "direct", !.todo = r.channels] \in Requests
      BY <3>1, MovedType
    <3>3. SendsItself([r EXCEPT !.pc = "direct", !.todo = r.channels])
      BY <1>7, <2>2, MovedFields DEF AskDirect, SendsItself
    <3>4. QED
      BY <1>7, <2>2, <3>2, <3>3 DEF AskDirect, Outcome
  <2>3. QED
    BY <2>1, <2>2
<1>8. CASE AskQueue(m, r)
  <2>1. CASE PublishToQueue(m) /\ Become(m, Answered(QueuePayload(r), TRUE))
    <3>1. Hands(m, Answered(QueuePayload(r), TRUE))
      BY <1>2, <1>5, <2>1, PayloadAsks DEF Hands
    <3>2. QED
      BY <1>5, <2>1, <3>1 DEF Outcome
  <2>2. CASE RefusePublish /\ Become(m, Answered(QueuePayload(r), FALSE))
    <3>1. Ends(Answered(QueuePayload(r), FALSE))
      BY <1>5, <2>2 DEF Ends, RefusePublish
    <3>2. QED
      BY <1>5, <2>2, <3>1 DEF Outcome
  <2>3. QED
    BY <1>8, <2>1, <2>2 DEF AskQueue
<1>9. CASE AskHybrid(m, r)
  <2>1. PICK q : q = [r EXCEPT !.pc = "recorded"]
    OBVIOUS
  <2>2. q \in Requests /\ q.pc = "recorded" /\ q.op = r.op /\ q.channels = r.channels
    <3>1. "recorded" \in Pcs
      BY DEF Pcs
    <3>2. QED
      BY <2>1, <3>1, MovedType, MovedFields
  <2>3. CASE Become(m, q)
    BY <1>2, <1>9, <2>2, <2>3 DEF AskHybrid, Outcome, Records
  <2>4. CASE Become(m, Answered(r, FALSE))
    BY <1>3, <1>9, <2>4 DEF AskHybrid, Outcome, Ends
  <2>5. QED
    BY <1>9, <2>1, <2>3, <2>4 DEF AskHybrid
<1>10. QED
  BY <1>1, <1>6, <1>7, <1>8, <1>9 DEF Take

LEMMA RouteOutcome ==
    ASSUME TypeOK, NEW m \in Messages, Fits(m), Route(m)
    PROVE  \E q \in Requests : Become(m, q) /\ Outcome(m, q) /\ ~Records(q)
<1>1. PICK r : r = req[m] /\ r \in Requests /\ r.pc = "recorded"
  BY DEF Route, TypeOK
<1>2. MayAsk(r.op, r.channels)
  BY <1>1 DEF Fits
<1>3. QueuePayload(r) \in Requests
  BY <1>1, HandoverType
<1>4. \A ok \in BOOLEAN :
         /\ LET q == AfterHandover(QueuePayload(r), ok)
            IN  /\ q \in Requests /\ q.pc \in {"mark", "done"}
                /\ q.op = QueuePayload(r).op /\ q.channels = QueuePayload(r).channels
         /\ AfterHandover(r, ok) \in Requests /\ AfterHandover(r, ok).pc \in {"mark", "done"}
  BY <1>1, <1>3, HandoverType
<1>5. CASE PublishToQueue(m) /\ Become(m, AfterHandover(QueuePayload(r), TRUE))
  <2>1. Hands(m, AfterHandover(QueuePayload(r), TRUE))
    BY <1>1, <1>2, <1>4, <1>5, PayloadAsks DEF Hands
  <2>2. QED
    BY <1>4, <1>5, <2>1 DEF Outcome, Records
<1>6. CASE RefusePublish /\ Become(m, AfterHandover(QueuePayload(r), FALSE))
  <2>1. Ends(AfterHandover(QueuePayload(r), FALSE))
    BY <1>4, <1>6 DEF Ends, RefusePublish
  <2>2. QED
    BY <1>4, <1>6, <2>1 DEF Outcome, Records
<1>7. CASE UNCHANGED <<rank, wire>> /\ r.channels = {} /\ Become(m, AfterHandover(r, FALSE))
  BY <1>4, <1>7 DEF Outcome, Records, Ends
<1>8. CASE /\ UNCHANGED <<rank, wire>> /\ r.channels # {}
           /\ Become(m, [r EXCEPT !.pc = "direct", !.todo = r.channels])
  <2>1. "direct" \in Pcs /\ r.channels \in SUBSET Channels
    BY <1>1 DEF Pcs, Requests
  <2>2. [r EXCEPT !.pc = "direct", !.todo = r.channels] \in Requests
    BY <1>1, <2>1, MovedType
  <2>3. /\ SendsItself([r EXCEPT !.pc = "direct", !.todo = r.channels])
        /\ [r EXCEPT !.pc = "direct", !.todo = r.channels].pc # "recorded"
    BY <1>1, <1>8, MovedFields DEF SendsItself
  <2>4. QED
    BY <1>8, <2>2, <2>3 DEF Outcome, Records
<1>9. QED
  BY <1>1, <1>5, <1>6, <1>7, <1>8 DEF Route

\* What a step leaves alone: m's request, handler and places.
LEMMA FitKept ==
    ASSUME NEW m \in Messages, Fits(m), rank'[m] # 0 => rank[m] # 0,
           req'[m].op = req[m].op, req'[m].channels = req[m].channels,
           \/ req'[m].pc \in {"mark", "done"}
           \/ req'[m].pc = req[m].pc /\ req'[m].todo \subseteq req[m].todo,
           handler'[m] = handler[m] \/ ~handler'[m].busy,
           m \in acked' => m \in acked,
           m \in wire' \union ready' \union unacked' => m \in wire \union ready \union unacked,
           m \in ready \union unacked => m \in ready' \union unacked' \/ ~handler'[m].busy
    PROVE  Fits(m)'
<1>1. Multi(m)' = Multi(m)
  BY DEF Multi
<1>2. QED
  BY <1>1 DEF Fits

LEMMA FitRequest ==
    ASSUME TypeOK, Places, NEW m \in Messages, Fits(m), NEW q \in Requests,
           Become(m, q), Outcome(m, q), req[m].pc \in {"new", "recorded"},
           UNCHANGED <<ready, unacked, acked, handler>>
    PROVE  Fits(m)'
<1>1. req'[m] = q
  BY RequestMoves
<1>2. /\ rank[m] = 0 /\ ~handler[m].busy /\ ~handler'[m].busy
      /\ m \notin wire \union ready \union unacked \union acked
      /\ m \notin ready' \union unacked' \union acked'
  BY DEF Places, Placed
<1>3. rank'[m] # 0 => AsksFor(q.op, q.channels)
  BY <1>2 DEF Outcome, Ends, SendsItself, Records, Hands
<1>4. /\ q.pc = "recorded" => MayAsk(q.op, q.channels)
      /\ q.pc = "direct" => q.channels # {} /\ q.todo = q.channels
  BY DEF Outcome, Ends, SendsItself, Records, Hands
<1>5. QED
  BY <1>1, <1>2, <1>3, <1>4 DEF Fits

LEMMA FitHandler ==
    ASSUME TypeOK, Places, NEW m \in Messages, Fits(m), Handle(m)
    PROVE  Fits(m)'
<1>1. PICK c \in handler[m].todo : SendSingle(m, c) \/ SendMulti(m, c)
  BY DEF Handle
<1>2. /\ handler[m].busy /\ UNCHANGED <<link, broker, req>>
      /\ handler'[m].busy
  BY HandleSteps DEF Handle
<1>3. Multi(m)' = Multi(m)
  BY <1>2 DEF Multi
<1>4. CASE SendSingle(m, c)
  <2>1. ~Multi(m) /\ handler'[m].todo = {}
    BY <1>4, HandlerFields DEF SendSingle
  <2>2. QED
    BY <1>2, <1>3, <2>1 DEF Fits, broker
<1>5. CASE SendMulti(m, c)
  <2>1. Multi(m) /\ handler'[m].todo = handler[m].todo \ {c}
        /\ (handler'[m].failed <=> handler[m].failed)
    BY <1>5, HandlerFields DEF SendMulti
  <2>2. QED
    BY <1>2, <1>3, <2>1 DEF Fits, broker
<1>6. QED
  BY <1>1, <1>4, <1>5

LEMMA FitNext == TypeOK /\ Places /\ FitInv /\ [Next]_vars => FitInv'
<1> SUFFICES ASSUME TypeOK, Places, FitInv, [Next]_vars, NEW n \in Messages PROVE Fits(n)'
  BY DEF FitInv
<1>a. Fits(n) /\ Placed(n) /\ req[n] \in Requests
  BY DEF FitInv, Places, TypeOK
<1>1. ASSUME NEW m \in Messages, Ask(m) \/ Route(m) PROVE Fits(n)'
  <2>1. PICK q \in Requests : Become(m, q) /\ Outcome(m, q)
    BY <1>1, AskOutcome, RouteOutcome DEF FitInv
  <2>2. /\ UNCHANGED <<ready, unacked, acked, handler>>
        /\ req[m].pc \in {"new", "recorded"} /\ rank[m] = 0
    BY <1>1 DEF Ask, Route, Places, Placed
  <2>3. CASE n = m
    BY <1>a, <2>1, <2>2, <2>3, FitRequest
  <2>4. CASE n # m
    <3>1. req'[n] = req[n]
      BY <2>1, <2>4, RequestMoves
    <3>2. UNCHANGED <<rank, wire>> \/ PublishToQueue(m)
      BY <2>1 DEF Outcome, Ends, SendsItself, Records, Hands
    <3>3. rank'[n] = rank[n] /\ (n \in wire' => n \in wire)
      BY <2>4, <3>2, Published DEF Places
    <3>4. QED
      BY <1>a, <2>2, <3>1, <3>3, FitKept
  <2>5. QED
    BY <2>3, <2>4
<1>2. ASSUME NEW m \in Messages, SendDirect(m) PROVE Fits(n)'
  <2>1. PICK c \in req[m].todo :
          \/ Become(m, [req[m] EXCEPT !.todo = @ \ {c}])
          \/ Become(m, [req[m] EXCEPT !.todo = @ \ {c}, !.failed = TRUE])
    BY <1>2 DEF SendDirect
  <2>2. req[m] \in Requests
    BY DEF TypeOK
  <2>3. req[m].todo \in SUBSET Channels
    BY <2>2 DEF Requests
  <2>4. req[m].todo \ {c} \in SUBSET Channels
    BY <2>3
  <2>5. \E q \in Requests :
           /\ Become(m, q) /\ q.op = req[m].op /\ q.channels = req[m].channels
           /\ q.pc = req[m].pc /\ q.todo = req[m].todo \ {c}
    <3>1. CASE Become(m, [req[m] EXCEPT !.todo = @ \ {c}])
      <4>1. [req[m] EXCEPT !.todo = req[m].todo \ {c}] \in Requests
        BY <2>2, <2>4, MovedType
      <4>2. LET q == [req[m] EXCEPT !.todo = req[m].todo \ {c}]
            IN  /\ q.op = req[m].op /\ q.channels = req[m].channels
                /\ q.pc = req[m].pc /\ q.todo = req[m].todo \ {c}
        BY <2>2, MovedFields
      <4>3. QED
        BY <3>1, <4>1, <4>2
    <3>2. CASE Become(m, [req[m] EXCEPT !.todo = @ \ {c}, !.failed = TRUE])
      <4>1. [req[m] EXCEPT !.todo = req[m].todo \ {c}, !.failed = TRUE] \in Requests
        BY <2>2, <2>4, MovedType
      <4>2. LET q == [req[m] EXCEPT !.todo = req[m].todo \ {c}, !.failed = TRUE]
            IN  /\ q.op = req[m].op /\ q.channels = req[m].channels
                /\ q.pc = req[m].pc /\ q.todo = req[m].todo \ {c}
        BY <2>2, MovedFields
      <4>3. QED
        BY <3>2, <4>1, <4>2
    <3>3. QED
      BY <2>1, <3>1, <3>2
  <2>6. PICK q \in Requests :
           /\ Become(m, q) /\ q.op = req[m].op /\ q.channels = req[m].channels
           /\ q.pc = req[m].pc /\ q.todo = req[m].todo \ {c}
    BY <2>5
  <2>7. req'[n] = IF n = m THEN q ELSE req[n]
    BY <2>6, RequestMoves
  <2>8. UNCHANGED <<rank, wire, ready, unacked, acked, handler>>
    BY <1>2 DEF SendDirect, broker
  <2>9. QED
    BY <1>a, <2>6, <2>7, <2>8, FitKept
<1>3. ASSUME NEW m \in Messages, SettleDirect(m) \/ Mark(m) PROVE Fits(n)'
  <2>1. req[m] \in Requests
    BY DEF TypeOK
  <2>2. (~req[m].failed) \in BOOLEAN
    OBVIOUS
  <2>3. \E q \in Requests : /\ Become(m, q) /\ q.pc \in {"mark", "done"}
                            /\ q.op = req[m].op /\ q.channels = req[m].channels
    <3>1. CASE SettleDirect(m)
      <4>1. PICK ok \in BOOLEAN :
               Become(m, AfterHandover(req[m], ok)) \/ Become(m, Answered(req[m], ok))
        BY <2>2, <3>1 DEF SettleDirect
      <4>2. CASE Become(m, AfterHandover(req[m], ok))
        BY <2>1, <4>2, HandoverType
      <4>3. CASE Become(m, Answered(req[m], ok))
        BY <2>1, <4>3, AnsweredType
      <4>4. QED
        BY <4>1, <4>2, <4>3
    <3>2. CASE Mark(m)
      <4>1. req[m].pc = "mark"
        BY <3>2 DEF Mark
      <4>2. CASE Become(m, [req[m] EXCEPT !.failed = TRUE])
        <5>1. [req[m] EXCEPT !.failed = TRUE] \in Requests
          BY <2>1, MovedType
        <5>2. LET q == [req[m] EXCEPT !.failed = TRUE]
              IN  q.pc = req[m].pc /\ q.op = req[m].op /\ q.channels = req[m].channels
          BY <2>1, MovedFields
        <5>3. QED
          BY <4>1, <4>2, <5>1, <5>2
      <4>3. CASE \E ok \in BOOLEAN : Become(m, Answered(req[m], ok))
        BY <2>1, <4>3, AnsweredType
      <4>4. QED
        BY <3>2, <4>2, <4>3 DEF Mark
    <3>3. QED
      BY <1>3, <3>1, <3>2
  <2>4. PICK q \in Requests : /\ Become(m, q) /\ q.pc \in {"mark", "done"}
                              /\ q.op = req[m].op /\ q.channels = req[m].channels
    BY <2>3
  <2>5. req'[n] = IF n = m THEN q ELSE req[n]
    BY <2>4, RequestMoves
  <2>6. UNCHANGED <<rank, wire, ready, unacked, acked, handler>>
    BY <1>3 DEF SettleDirect, Mark, broker
  <2>7. QED
    BY <1>a, <2>4, <2>5, <2>6, FitKept
<1>4. ASSUME NEW m \in Messages, Accept(m) PROVE Fits(n)'
  <2>1. /\ UNCHANGED <<req, rank, unacked, acked, handler>>
        /\ m \in wire /\ wire' = wire \ {m} /\ ready' \subseteq ready \union {m}
        /\ ready \subseteq ready'
    BY <1>4 DEF Accept, First
  <2>2. QED
    BY <1>a, <2>1, FitKept
<1>5. ASSUME NEW m \in Messages, Deliver(m) PROVE Fits(n)'
  <2>1. /\ UNCHANGED <<req, rank, wire, acked>> /\ m \in ready
        /\ ready' = ready \ {m} /\ unacked' = unacked \union {m}
        /\ handler'[n] = IF n = m THEN [busy |-> TRUE, todo |-> req[m].channels, failed |-> FALSE]
                         ELSE handler[n]
    BY <1>5 DEF Deliver, First, TypeOK
  <2>2. CASE n = m
    <3>1. Multi(n)' = Multi(n)
      BY <2>1 DEF Multi
    <3>2. QED
      BY <1>a, <2>1, <2>2, <3>1 DEF Fits
  <2>3. CASE n # m
    BY <1>a, <2>1, <2>3, FitKept
  <2>4. QED
    BY <2>2, <2>3
<1>6. ASSUME NEW m \in Messages, Handle(m) PROVE Fits(n)'
  <2>1. UNCHANGED <<req, rank, wire, ready, unacked, acked>>
    BY <1>6 DEF Handle, broker
  <2>2. n # m => handler'[n] = handler[n]
    BY <1>6, HandleSteps
  <2>3. QED
    BY <1>6, <1>a, <2>1, <2>2, FitHandler, FitKept
<1>7. ASSUME NEW m \in Messages, Ack(m) \/ Nack(m) PROVE Fits(n)'
  <2>a. handler' = [handler EXCEPT ![m] = NoHandler]
    BY <1>7 DEF Ack, Nack
  <2>b. handler'[n] = IF n = m THEN NoHandler ELSE handler[n]
    BY <2>a DEF TypeOK
  <2>c. /\ UNCHANGED <<req, rank, wire>> /\ unacked' = unacked \ {m}
        /\ ready' \subseteq ready \union {m} /\ ready \subseteq ready'
        /\ m \in acked' \ acked => ready' = ready
        /\ acked' \subseteq acked \union {m}
        /\ handler[m].busy /\ connected
    BY <1>7 DEF Ack, Nack, Handled
  <2>1. /\ UNCHANGED <<req, rank, wire>> /\ unacked' = unacked \ {m}
        /\ ready' \subseteq ready \union {m} /\ ready \subseteq ready'
        /\ m \in acked' \ acked => m \notin ready'
        /\ acked' \subseteq acked \union {m}
        /\ handler'[n] = IF n = m THEN NoHandler ELSE handler[n]
        /\ handler[m].busy /\ connected
    BY <2>b, <2>c DEF Places, Placed, TypeOK
  <2>2. m \in unacked /\ m \notin ready /\ m \notin wire /\ ~NoHandler.busy
    BY <2>1 DEF Places, Placed, TypeOK, NoHandler
  <2>3. CASE n # m
    BY <1>a, <2>1, <2>3, FitKept
  <2>4. CASE n = m
    <3>1. m \notin acked
      BY <1>a, <2>2, <2>4 DEF Fits
    <3>2. m \in acked' => m \notin wire' \union ready' \union unacked'
      BY <2>1, <2>2, <3>1
    <3>3. QED
      BY <1>a, <2>1, <2>2, <2>4, <3>2 DEF Fits
  <2>5. QED
    BY <2>3, <2>4
<1>8. CASE ConnectionLost
  <2>1. /\ UNCHANGED <<req, rank, acked, handler>>
        /\ wire' = {} /\ ready' = ready \union unacked /\ unacked' = {}
    BY <1>8 DEF ConnectionLost, Disconnected
  <2>2. QED
    BY <1>a, <2>1, FitKept
<1>9. CASE Crash \/ \E m \in Messages : AckThrows(m)
  <2>1. Dies
    BY <1>9 DEF Crash, AckThrows
  <2>2. /\ wire' = {} /\ ready' = ready \union unacked /\ unacked' = {}
        /\ UNCHANGED <<rank, acked>> /\ ~handler'[n].busy
    BY <2>1, Death
  <2>3. /\ req'[n].op = req[n].op /\ req'[n].channels = req[n].channels
        /\ req'[n] = req[n] \/ req'[n].pc = "done"
    BY <2>1, Death
  <2>4. QED
    BY <1>a, <2>2, <2>3, FitKept
<1>10. CASE Boot \/ UNCHANGED vars
  <2>1. UNCHANGED <<req, rank, wire, ready, unacked, acked, handler>>
    BY <1>10 DEF Boot, vars
  <2>2. QED
    BY <1>a, <2>1, FitKept
<1>11. QED
  BY <1>1, <1>2, <1>3, <1>4, <1>5, <1>6, <1>7, <1>8, <1>9, <1>10
     DEF Next, RequestStep, HandlerStep

LEMMA FitAlways == Spec => []FitInv
BY FitInit, FitNext, NotificationsTyping, NotificationsPlaces, PTL DEF Spec

\* What the stages say of a message.
LEMMA LifeIs ==
    ASSUME NEW m \in Messages
    PROVE  /\ Lives[m] = Life(Stage(m), req[m], handler[m])
           /\ Lives'[m] = Life(Stage(m)', req'[m], handler'[m])
BY DEF Lives

LEMMA LivesBefore ==
    ASSUME NEW m \in Messages
    PROVE  /\ Stage(m) = "over" => Lives[m] = Promise!Over
           /\ Stage(m) = "new" => Lives[m] = Promise!Resting("new", {})
           /\ Stage(m) \in {"posted", "queued", "settled"}
                 => Lives[m] = Promise!Resting(Stage(m), req[m].channels)
           /\ Stage(m) \in {"worked", "orphaned"}
                 => Lives[m] = Attempt(Stage(m), req[m].channels, handler[m].todo,
                                       handler[m].failed)
           /\ Stage(m) = "direct"
                 => Lives[m] = Attempt("direct", req[m].channels, req[m].todo, FALSE)
<1>1. Lives[m] = Life(Stage(m), req[m], handler[m])
  BY LifeIs
<1>2. QED
  BY <1>1 DEF Life, Attempt, Promise!Over, Promise!Resting

LEMMA LivesAfter ==
    ASSUME NEW m \in Messages
    PROVE  /\ Stage(m)' = "over" => Lives'[m] = Promise!Over
           /\ Stage(m)' = "new" => Lives'[m] = Promise!Resting("new", {})
           /\ Stage(m)' \in {"posted", "queued", "settled"}
                 => Lives'[m] = Promise!Resting(Stage(m)', req'[m].channels)
           /\ Stage(m)' \in {"worked", "orphaned"}
                 => Lives'[m] = Attempt(Stage(m)', req'[m].channels, handler'[m].todo,
                                        handler'[m].failed)
           /\ Stage(m)' = "direct"
                 => Lives'[m] = Attempt("direct", req'[m].channels, req'[m].todo, FALSE)
<1>1. Lives'[m] = Life(Stage(m)', req'[m], handler'[m])
  BY LifeIs
<1>2. QED
  BY <1>1 DEF Life, Attempt, Promise!Over, Promise!Resting

LEMMA AtIs == ASSUME NEW m \in Messages PROVE Lives[m].at = Stage(m)
<1>1. Lives[m] = Life(Stage(m), req[m], handler[m])
  BY LifeIs
<1>2. QED
  BY <1>1 DEF Life, Attempt

\* Where a message is, read off the places of the broker.
LEMMA StageIs ==
    ASSUME NEW m \in Messages
    PROVE  /\ m \in acked => Stage(m) = "settled"
           /\ m \notin acked =>
                 /\ m \in unacked => Stage(m) = "worked"
                 /\ m \notin unacked =>
                       /\ m \in ready => Stage(m) = IF handler[m].busy THEN "orphaned" ELSE "queued"
                       /\ m \notin ready =>
                             /\ m \in wire => Stage(m) = "posted"
                             /\ m \notin wire =>
                                   /\ rank[m] # 0 => Stage(m) = "over"
                                   /\ rank[m] = 0 =>
                                        Stage(m) = IF req[m].pc \in {"new", "recorded"} THEN "new"
                                                   ELSE IF req[m].pc = "direct" THEN "direct"
                                                   ELSE "over"
BY DEF Stage

LEMMA StageBecomes ==
    ASSUME NEW m \in Messages
    PROVE  /\ m \in acked' => Stage(m)' = "settled"
           /\ m \notin acked' =>
                 /\ m \in unacked' => Stage(m)' = "worked"
                 /\ m \notin unacked' =>
                       /\ m \in ready' => Stage(m)' = IF handler'[m].busy THEN "orphaned" ELSE "queued"
                       /\ m \notin ready' =>
                             /\ m \in wire' => Stage(m)' = "posted"
                             /\ m \notin wire' =>
                                   /\ rank'[m] # 0 => Stage(m)' = "over"
                                   /\ rank'[m] = 0 =>
                                        Stage(m)' = IF req'[m].pc \in {"new", "recorded"} THEN "new"
                                                    ELSE IF req'[m].pc = "direct" THEN "direct"
                                                    ELSE "over"
BY DEF Stage

\* A step that does not concern a message leaves its life alone.
Untouched(m) ==
    /\ handler'[m] = handler[m] /\ req'[m].channels = req[m].channels
    /\ \/ req'[m].pc = req[m].pc /\ req'[m].todo = req[m].todo
       \/ {req[m].pc, req'[m].pc} \subseteq {"mark", "done"}
    /\ rank'[m] # 0 <=> rank[m] # 0
    /\ m \in acked' <=> m \in acked
    /\ m \in unacked' <=> m \in unacked
    /\ m \in ready' <=> m \in ready
    /\ m \in wire' <=> m \in wire

LEMMA LifeKept ==
    ASSUME NEW m \in Messages, Untouched(m) PROVE Lives'[m] = Lives[m]
<1>1. Stage(m)' = Stage(m)
  BY DEF Untouched, Stage
<1>2. Stage(m) = "direct" => req'[m].todo = req[m].todo
  BY DEF Untouched, Stage
<1>3. handler'[m] = handler[m] /\ req'[m].channels = req[m].channels
  BY DEF Untouched
<1>4. Life(Stage(m), req'[m], handler'[m]) = Life(Stage(m), req[m], handler[m])
  BY <1>2, <1>3 DEF Life
<1>5. QED
  BY <1>1, <1>4, LifeIs

LEMMA OneMoves ==
    ASSUME NEW m \in Messages, NEW S, Lives'[m] \in S,
           \A n \in Messages \ {m} : Untouched(n)
    PROVE  Promise!Becomes(m, S)
<1>1. \A n \in Messages : n # m => Lives'[n] = Lives[n]
  BY LifeKept
<1>2. Lives = [n \in Messages |-> Lives[n]] /\ Lives' = [n \in Messages |-> Lives'[n]]
  BY DEF Lives
<1>3. Lives' = [Lives EXCEPT ![m] = Lives'[m]]
  BY <1>1, <1>2
<1>4. QED
  BY <1>3 DEF Promise!Becomes

LEMMA NoneMoves ==
    ASSUME \A n \in Messages : Lives'[n] = Lives[n] PROVE Lives' = Lives
<1>1. Lives = [n \in Messages |-> Lives[n]] /\ Lives' = [n \in Messages |-> Lives'[n]]
  BY DEF Lives
<1>2. QED
  BY <1>1

Stutters == UNCHANGED <<Lives, sent, losses>>

\* A request taken up or routed is an offer, unless it is only recorded.
LEMMA PromiseRequest ==
    ASSUME TypeOK, Places, FitInv, NEW m \in Messages, Ask(m) \/ Route(m)
    PROVE  Promise!Offer(m) \/ Stutters
<1>1. PICK q \in Requests : Become(m, q) /\ Outcome(m, q)
  BY AskOutcome, RouteOutcome DEF FitInv
<1>2. /\ UNCHANGED <<ready, unacked, acked, handler, sent, losses>>
      /\ req[m].pc \in {"new", "recorded"} /\ rank[m] = 0
      /\ m \notin wire \union ready \union unacked \union acked
  BY DEF Ask, Route, Places, Placed, link
<1>3. req'[m] = q /\ q.channels \in SUBSET Channels
  BY <1>1, RequestMoves DEF Requests
<1>4. ASSUME NEW n \in Messages \ {m} PROVE Untouched(n)
  <2>1. req'[n] = req[n]
    BY <1>1, RequestMoves
  <2>2. UNCHANGED <<rank, wire>> \/ PublishToQueue(m)
    BY <1>1 DEF Outcome, Ends, SendsItself, Records, Hands
  <2>3. rank'[n] = rank[n] /\ (n \in wire' <=> n \in wire)
    BY <2>2, Published DEF Places
  <2>4. QED
    BY <1>2, <2>1, <2>3 DEF Untouched
<1>5. Lives[m] = Promise!Resting("new", {})
  <2>1. Stage(m) = "new"
    BY <1>2, StageIs
  <2>2. QED
    BY <2>1, LivesBefore
<1>6. Lives[m].at = "new"
  BY <1>5 DEF Promise!Resting
<1>7. CASE Ends(q)
  <2>1. Stage(m)' = "over"
    BY <1>2, <1>3, <1>7, StageBecomes DEF Ends
  <2>2. Lives'[m] = Promise!Over
    BY <2>1, LivesAfter
  <2>3. Promise!Becomes(m, {Promise!Over, Promise!Trying("direct", Channels),
                            Promise!Resting("posted", Channels)})
    BY <1>4, <2>2, OneMoves
  <2>4. Channels \in (SUBSET Channels) \ {{}}
    BY DEF Channels
  <2>5. QED
    BY <1>2, <1>6, <2>3, <2>4 DEF Promise!Offer
<1>8. CASE SendsItself(q)
  <2>1. Stage(m)' = "direct"
    BY <1>2, <1>3, <1>8, StageBecomes DEF SendsItself
  <2>2. Lives'[m] = Attempt("direct", q.channels, q.channels, FALSE)
    BY <1>3, <1>8, <2>1, LivesAfter DEF SendsItself
  <2>3. Lives'[m] = Promise!Trying("direct", q.channels)
    BY <2>2 DEF Attempt, Promise!Trying
  <2>4. Promise!Becomes(m, {Promise!Over, Promise!Trying("direct", q.channels),
                            Promise!Resting("posted", q.channels)})
    BY <1>4, <2>3, OneMoves
  <2>5. q.channels \in (SUBSET Channels) \ {{}}
    BY <1>3, <1>8 DEF SendsItself
  <2>6. QED
    BY <1>2, <1>6, <2>4, <2>5 DEF Promise!Offer
<1>9. CASE Records(q)
  <2>1. Stage(m)' = "new"
    BY <1>2, <1>3, <1>9, StageBecomes DEF Records
  <2>2. Lives'[m] = Lives[m]
    BY <1>5, <2>1, LivesAfter
  <2>3. Lives' = Lives
    BY <1>4, <2>2, LifeKept, NoneMoves
  <2>4. QED
    BY <1>2, <2>3 DEF Stutters
<1>10. CASE Hands(m, q)
  <2>1. m \in wire' /\ q.channels # {}
    BY <1>10, Published DEF Hands, AsksFor, Places
  <2>2. Stage(m)' = "posted"
    BY <1>2, <2>1, StageBecomes
  <2>3. Lives'[m] = Promise!Resting("posted", q.channels)
    BY <1>3, <2>2, LivesAfter
  <2>4. Promise!Becomes(m, {Promise!Over, Promise!Trying("direct", q.channels),
                            Promise!Resting("posted", q.channels)})
    BY <1>4, <2>3, OneMoves
  <2>5. q.channels \in (SUBSET Channels) \ {{}}
    BY <1>3, <2>1
  <2>6. QED
    BY <1>2, <1>6, <2>4, <2>5 DEF Promise!Offer
<1>11. QED
  BY <1>1, <1>7, <1>8, <1>9, <1>10 DEF Outcome

\* One channel of an attempt: it goes out, is refused and counts, or is refused and does not.
LEMMA PromiseTry ==
    ASSUME NEW m \in Messages, \A n \in Messages \ {m} : Untouched(n),
           NEW s, NEW cs \in SUBSET Channels, NEW todo \in SUBSET cs, NEW gaveUp,
           NEW c \in todo, UNCHANGED losses,
           Lives[m] = Attempt(s, cs, todo, FALSE),
           Lives'[m] = Attempt(s, cs, todo \ {c}, gaveUp),
           gaveUp \in BOOLEAN, gaveUp => todo = cs,
           (~gaveUp /\ Goes(m, c)) \/ sent' = sent
    PROVE  c \in Channels /\ Promise!Try(m, c)
<1> DEFINE l(counts) == [Lives[m] EXCEPT !.trying = @ \ {c}, !.tried = @ \/ counts]
<1>1. c \in Lives[m].trying
  BY DEF Attempt
<1>2. Lives'[m] = l(~gaveUp)
  <2>1. PICK b \in BOOLEAN : b <=> todo # cs
    OBVIOUS
  <2>2. Lives[m] = [at |-> s, asked |-> cs, trying |-> todo, tried |-> b]
    <3>1. CASE b = TRUE
      BY <2>1, <3>1 DEF Attempt
    <3>2. CASE b = FALSE
      BY <2>1, <3>2 DEF Attempt
    <3>3. QED
      BY <3>1, <3>2
  <2>3. ASSUME NEW x \in BOOLEAN
        PROVE  l(x) = [at |-> s, asked |-> cs, trying |-> todo \ {c}, tried |-> b \/ x]
    <3>1. PICK e : e = Lives[m]
      OBVIOUS
    <3>2. e = [at |-> s, asked |-> cs, trying |-> todo, tried |-> b]
      BY <2>2, <3>1, Zenon
    <3>3. PICK k : k = [e EXCEPT !.trying = e.trying \ {c}]
      OBVIOUS
    <3>4. k = [at |-> s, asked |-> cs, trying |-> todo \ {c}, tried |-> b]
      BY <3>2, <3>3
    <3>5. PICK y \in BOOLEAN : y = (b \/ x)
      OBVIOUS
    <3>6. (e.tried \/ x) = y
      BY <3>2, <3>5
    <3>7. [k EXCEPT !.tried = y] = [at |-> s, asked |-> cs, trying |-> todo \ {c}, tried |-> y]
      BY <3>4
    <3>8. [k EXCEPT !.tried = e.tried \/ x]
             = [at |-> s, asked |-> cs, trying |-> todo \ {c}, tried |-> b \/ x]
      BY <3>5, <3>6, <3>7, Zenon
    <3>9. QED
      BY <3>1, <3>3, <3>8, Zenon
  <2>4. todo \ {c} # cs
    OBVIOUS
  <2>5. CASE gaveUp = TRUE
    <3>1. b = FALSE
      BY <2>1, <2>5
    <3>2. Lives'[m] = [at |-> s, asked |-> cs, trying |-> todo \ {c}, tried |-> FALSE]
      BY <2>5 DEF Attempt
    <3>3. l(~gaveUp) = [at |-> s, asked |-> cs, trying |-> todo \ {c}, tried |-> FALSE]
      BY <2>3, <2>5, <3>1
    <3>4. QED
      BY <3>2, <3>3
  <2>6. CASE gaveUp = FALSE
    <3>1. Lives'[m] = [at |-> s, asked |-> cs, trying |-> todo \ {c}, tried |-> TRUE]
      BY <2>4, <2>6 DEF Attempt
    <3>2. l(~gaveUp) = [at |-> s, asked |-> cs, trying |-> todo \ {c}, tried |-> TRUE]
      BY <2>3, <2>6
    <3>3. QED
      BY <3>1, <3>2
  <2>7. QED
    BY <2>5, <2>6
<1>3. Promise!Becomes(m, {l(~gaveUp)})
  BY <1>2, OneMoves
<1> HIDE DEF l
<1>4. CASE ~gaveUp /\ Goes(m, c)
  <2>1. sent' = [sent EXCEPT ![m][c] = @ + 1]
    BY <1>4 DEF Goes
  <2>2. Promise!Becomes(m, {l(TRUE)})
    BY <1>3, <1>4
  <2>3. QED
    BY <1>1, <2>1, <2>2 DEF Promise!Try, l
<1>5. CASE sent' = sent
  <2>1. \E counts \in BOOLEAN : Promise!Becomes(m, {l(counts)})
    BY <1>3
  <2>2. QED
    BY <1>1, <1>5, <2>1 DEF Promise!Try, l
<1>6. QED
  BY <1>4, <1>5

\* A request in the caller's hands: its channels one by one, then its end.
LEMMA PromiseDirect ==
    ASSUME TypeOK, Places, FitInv, NEW m \in Messages, SendDirect(m)
    PROVE  \E c \in Channels : Promise!Try(m, c)
<1>1. PICK c \in req[m].todo :
         \/ CanSend(m, c) /\ Goes(m, c) /\ Become(m, [req[m] EXCEPT !.todo = @ \ {c}])
         \/ sent' = sent /\ Become(m, [req[m] EXCEPT !.todo = @ \ {c}, !.failed = TRUE])
  BY DEF SendDirect
<1>2. req[m] \in Requests /\ req[m].pc = "direct"
  BY DEF SendDirect, TypeOK
<1>3. req[m].channels \in SUBSET Channels /\ req[m].todo \in SUBSET req[m].channels
  BY <1>2 DEF Requests, FitInv, Fits
<1>4. req[m].todo \ {c} \in SUBSET Channels
  BY <1>3
<1>5. /\ [req[m] EXCEPT !.todo = req[m].todo \ {c}] \in Requests
      /\ [req[m] EXCEPT !.todo = req[m].todo \ {c}, !.failed = TRUE] \in Requests
  BY <1>2, <1>4, MovedType
<1>6. PICK q \in Requests : Become(m, q) /\ q.pc = "direct" /\ q.channels = req[m].channels
                            /\ q.todo = req[m].todo \ {c}
  <2>1. CASE Become(m, [req[m] EXCEPT !.todo = @ \ {c}])
    <3>1. LET q == [req[m] EXCEPT !.todo = req[m].todo \ {c}]
          IN  q.pc = req[m].pc /\ q.channels = req[m].channels /\ q.todo = req[m].todo \ {c}
      BY <1>2, MovedFields
    <3>2. QED
      BY <1>2, <1>5, <2>1, <3>1
  <2>2. CASE Become(m, [req[m] EXCEPT !.todo = @ \ {c}, !.failed = TRUE])
    <3>1. LET q == [req[m] EXCEPT !.todo = req[m].todo \ {c}, !.failed = TRUE]
          IN  q.pc = req[m].pc /\ q.channels = req[m].channels /\ q.todo = req[m].todo \ {c}
      BY <1>2, MovedFields
    <3>2. QED
      BY <1>2, <1>5, <2>2, <3>1
  <2>3. QED
    BY <1>1, <2>1, <2>2
<1>7. /\ req'[m] = q /\ UNCHANGED <<rank, wire, ready, unacked, acked, handler, losses>>
      /\ \A n \in Messages \ {m} : req'[n] = req[n]
  BY <1>6, RequestMoves DEF SendDirect, broker, link
<1>8. \A n \in Messages \ {m} : Untouched(n)
  BY <1>7 DEF Untouched
<1>9. rank[m] = 0 /\ m \notin wire \union ready \union unacked \union acked
  BY <1>2 DEF Places, Placed
<1>10. Stage(m) = "direct" /\ Stage(m)' = "direct"
  BY <1>2, <1>6, <1>7, <1>9, StageIs, StageBecomes
<1>11. /\ Lives[m] = Attempt("direct", req[m].channels, req[m].todo, FALSE)
       /\ Lives'[m] = Attempt("direct", req[m].channels, req[m].todo \ {c}, FALSE)
  BY <1>6, <1>7, <1>10, LivesBefore, LivesAfter
<1>12. Goes(m, c) \/ sent' = sent
  BY <1>1
<1>13. c \in Channels /\ Promise!Try(m, c)
  <2>1. PICK cs, todo, gaveUp :
           cs = req[m].channels /\ todo = req[m].todo /\ gaveUp = FALSE
    OBVIOUS
  <2>2. /\ Lives[m] = Attempt("direct", cs, todo, FALSE)
        /\ Lives'[m] = Attempt("direct", cs, todo \ {c}, gaveUp)
    BY <1>11, <2>1
  <2>3. /\ cs \in SUBSET Channels /\ todo \in SUBSET cs /\ c \in todo
        /\ gaveUp \in BOOLEAN /\ ~gaveUp
    BY <1>3, <2>1
  <2>4. QED
    BY <1>7, <1>8, <1>12, <2>2, <2>3, PromiseTry
<1>14. QED
  BY <1>13

LEMMA PromiseSettle ==
    ASSUME TypeOK, Places, NEW m \in Messages, SettleDirect(m)
    PROVE  Promise!Finish(m)
<1>1. /\ req[m] \in Requests /\ req[m].pc = "direct" /\ req[m].todo = {}
      /\ UNCHANGED <<rank, wire, ready, unacked, acked, handler, sent, losses>>
  BY DEF SettleDirect, TypeOK, broker, link
<1>2. (~req[m].failed) \in BOOLEAN
  OBVIOUS
<1>3. PICK q \in Requests : Become(m, q) /\ q.pc \in {"mark", "done"}
  <2>1. PICK ok \in BOOLEAN :
           Become(m, AfterHandover(req[m], ok)) \/ Become(m, Answered(req[m], ok))
    BY <1>2 DEF SettleDirect
  <2>2. CASE Become(m, AfterHandover(req[m], ok))
    BY <1>1, <2>2, HandoverType
  <2>3. CASE Become(m, Answered(req[m], ok))
    BY <1>1, <2>3, AnsweredType
  <2>4. QED
    BY <2>1, <2>2, <2>3
<1>4. req'[m] = q /\ \A n \in Messages \ {m} : req'[n] = req[n]
  BY <1>3, RequestMoves
<1>5. \A n \in Messages \ {m} : Untouched(n)
  BY <1>1, <1>4 DEF Untouched
<1>6. rank[m] = 0 /\ m \notin wire \union ready \union unacked \union acked
  BY <1>1 DEF Places, Placed
<1>7. Stage(m) = "direct" /\ Stage(m)' = "over"
  BY <1>1, <1>3, <1>4, <1>6, StageIs, StageBecomes
<1>8. Lives[m].trying = {} /\ Lives[m].at = "direct" /\ Lives'[m] = Promise!Over
  <2>1. Lives[m] = Attempt("direct", req[m].channels, {}, FALSE)
    BY <1>1, <1>7, LivesBefore
  <2>2. Lives[m].trying = {} /\ Lives[m].at = "direct"
    BY <2>1 DEF Attempt
  <2>3. QED
    BY <1>7, <2>2, LivesAfter
<1>9. Promise!Becomes(m, {Promise!Over})
  BY <1>5, <1>8, OneMoves
<1>10. QED
  BY <1>1, <1>8, <1>9 DEF Promise!Finish

\* Marking the record, and a process that starts, change nothing for a message.
LEMMA PromiseQuiet ==
    ASSUME TypeOK, Boot \/ UNCHANGED vars \/ \E m \in Messages : Mark(m)
    PROVE  Stutters
<1>1. UNCHANGED <<rank, wire, ready, unacked, acked, handler, sent, losses>>
  BY DEF Boot, vars, Mark, broker, link
<1>2. ASSUME NEW n \in Messages PROVE Untouched(n)
  <2>1. CASE Boot \/ UNCHANGED vars
    BY <1>1, <2>1 DEF Boot, vars, Untouched
  <2>2. ASSUME NEW m \in Messages, Mark(m) PROVE Untouched(n)
    <3>1. req[m] \in Requests /\ req[m].pc = "mark"
      BY <2>2 DEF Mark, TypeOK
    <3>2. PICK q \in Requests : /\ Become(m, q) /\ q.pc \in {"mark", "done"}
                                /\ q.channels = req[m].channels
      <4>1. CASE Become(m, [req[m] EXCEPT !.failed = TRUE])
        <5>1. [req[m] EXCEPT !.failed = TRUE] \in Requests
          BY <3>1, MovedType
        <5>2. LET q == [req[m] EXCEPT !.failed = TRUE]
              IN  q.pc = req[m].pc /\ q.channels = req[m].channels
          BY <3>1, MovedFields
        <5>3. QED
          BY <3>1, <4>1, <5>1, <5>2
      <4>2. CASE \E ok \in BOOLEAN : Become(m, Answered(req[m], ok))
        BY <3>1, <4>2, AnsweredType
      <4>3. QED
        BY <2>2, <4>1, <4>2 DEF Mark
    <3>3. req'[n] = IF n = m THEN q ELSE req[n]
      BY <3>2, RequestMoves
    <3>4. QED
      BY <1>1, <3>1, <3>2, <3>3 DEF Untouched
  <2>3. QED
    BY <2>1, <2>2
<1>3. Lives' = Lives
  BY <1>2, LifeKept, NoneMoves
<1>4. QED
  BY <1>1, <1>3 DEF Stutters

LEMMA PromiseAccept ==
    ASSUME TypeOK, Places, FitInv, NEW m \in Messages, Accept(m)
    PROVE  Promise!Arrive(m)
<1>1. /\ UNCHANGED <<req, rank, unacked, acked, handler, sent, losses>>
      /\ connected /\ m \in wire /\ wire' = wire \ {m}
      /\ ready' = IF declared THEN ready \union {m} ELSE ready
  BY DEF Accept, First, link
<1>2. /\ m \notin acked \union ready \union unacked
      /\ ~handler[m].busy /\ rank[m] # 0
  BY <1>1 DEF Places, Placed, FitInv, Fits, TypeOK
<1>3. \A n \in Messages \ {m} : Untouched(n)
  BY <1>1 DEF Untouched
<1>4. Stage(m) = "posted" /\ Stage(m)' \in {"queued", "over"}
  BY <1>1, <1>2, StageIs, StageBecomes
<1>5. Lives[m] = Promise!Resting("posted", req[m].channels)
  BY <1>4, LivesBefore
<1>6. Lives[m].at = "posted" /\ Lives[m].asked = req[m].channels
  BY <1>5 DEF Promise!Resting
<1>7. Lives'[m] \in {Promise!Resting("queued", Lives[m].asked), Promise!Over}
  <2>1. CASE Stage(m)' = "queued"
    BY <1>1, <1>6, <2>1, LivesAfter
  <2>2. CASE Stage(m)' = "over"
    BY <2>2, LivesAfter
  <2>3. QED
    BY <1>4, <2>1, <2>2
<1>8. Promise!Becomes(m, {Promise!Resting("queued", Lives[m].asked), Promise!Over})
  BY <1>3, <1>7, OneMoves
<1>9. QED
  BY <1>1, <1>6, <1>8 DEF Promise!Arrive

LEMMA PromiseDeliver ==
    ASSUME TypeOK, Places, FitInv, NEW m \in Messages, Deliver(m)
    PROVE  Promise!Take(m)
<1>1. /\ UNCHANGED <<req, rank, wire, acked, sent, losses>>
      /\ connected /\ m \in ready /\ ready' = ready \ {m} /\ unacked' = unacked \union {m}
      /\ \A n \in Messages \ {m} : handler'[n] = handler[n]
      /\ handler'[m] = [busy |-> TRUE, todo |-> req[m].channels, failed |-> FALSE]
  BY DEF Deliver, First, link, TypeOK
<1>2. m \notin acked \union unacked /\ ~handler[m].busy
  BY <1>1 DEF Places, Placed, FitInv, Fits, TypeOK
<1>3. \A n \in Messages \ {m} : Untouched(n)
  BY <1>1 DEF Untouched
<1>4. Stage(m) = "queued" /\ Stage(m)' = "worked"
  BY <1>1, <1>2, StageIs, StageBecomes
<1>5. Lives[m] = Promise!Resting("queued", req[m].channels)
  BY <1>4, LivesBefore
<1>6. Lives[m].at = "queued" /\ Lives[m].asked = req[m].channels
  BY <1>5 DEF Promise!Resting
<1>7. Lives'[m] = Attempt("worked", req[m].channels, req[m].channels, FALSE)
  <2>1. handler'[m].todo = req[m].channels /\ handler'[m].failed = FALSE /\ req'[m] = req[m]
    BY <1>1
  <2>2. QED
    BY <1>4, <2>1, LivesAfter
<1>8. Lives'[m] = Promise!Trying("worked", Lives[m].asked)
  BY <1>6, <1>7 DEF Attempt, Promise!Trying
<1>9. Promise!Becomes(m, {Promise!Trying("worked", Lives[m].asked)})
  BY <1>3, <1>8, OneMoves
<1>10. QED
  BY <1>1, <1>6, <1>9 DEF Promise!Take

\* The consumer's handler.  A lone channel that refuses does not count as a try; any other
\* does.
LEMMA PromiseHandle ==
    ASSUME TypeOK, Places, FitInv, NEW m \in Messages, Handle(m)
    PROVE  \E c \in Channels : Promise!Try(m, c)
<1>1. PICK c \in handler[m].todo : SendSingle(m, c) \/ SendMulti(m, c)
  BY DEF Handle
<1>2. /\ handler[m].busy /\ handler'[m].busy
      /\ UNCHANGED <<req, rank, wire, ready, unacked, acked, losses>>
      /\ \A n \in Messages \ {m} : handler'[n] = handler[n]
  BY HandleSteps DEF Handle, broker, link
<1>3. \A n \in Messages \ {m} : Untouched(n)
  BY <1>2 DEF Untouched
<1>4. /\ m \in ready \union unacked /\ m \notin acked /\ rank[m] # 0
      /\ handler[m].todo \in SUBSET req[m].channels
      /\ ~Multi(m) => handler[m].todo = req[m].channels
      /\ ~handler[m].failed
  BY <1>1, <1>2 DEF FitInv, Fits, Places, Placed
<1>5. req[m].channels \in SUBSET Channels
  BY DEF TypeOK, Requests
<1>6. Stage(m) \in {"worked", "orphaned"} /\ Stage(m)' = Stage(m)
  BY <1>2, <1>4, StageIs, StageBecomes
<1>7. ~Multi(m) => handler[m].todo = {c}
  BY <1>1, <1>4 DEF FitInv, Fits, AsksFor, Multi
<1>8. handler'[m].todo = handler[m].todo \ {c} /\ handler'[m].failed \in BOOLEAN
  <2>1. handler'[m] \in Handlers
    BY HandleSteps
  <2>2. CASE SendSingle(m, c)
    BY <1>7, <2>1, <2>2, HandlerFields DEF SendSingle, Handlers
  <2>3. CASE SendMulti(m, c)
    BY <2>1, <2>3, HandlerFields DEF SendMulti, Handlers
  <2>4. QED
    BY <1>1, <2>2, <2>3
<1>9. /\ handler'[m].failed => handler[m].todo = req[m].channels
      /\ (~handler'[m].failed /\ Goes(m, c)) \/ sent' = sent
  <2>1. CASE SendSingle(m, c)
    BY <1>4, <2>1, HandlerFields DEF SendSingle
  <2>2. CASE SendMulti(m, c)
    BY <1>4, <2>2, HandlerFields DEF SendMulti
  <2>3. QED
    BY <1>1, <2>1, <2>2
<1>10. Lives[m] = Attempt(Stage(m), req[m].channels, handler[m].todo, FALSE)
  <2>1. handler[m].failed = FALSE
    BY <1>4 DEF TypeOK, Handlers
  <2>2. QED
    BY <1>6, <2>1, LivesBefore
<1>11. Lives'[m] = Attempt(Stage(m), req[m].channels, handler[m].todo \ {c}, handler'[m].failed)
  BY <1>2, <1>6, <1>8, LivesAfter
<1>12. c \in Channels /\ Promise!Try(m, c)
  BY <1>2, <1>3, <1>4, <1>5, <1>8, <1>9, <1>10, <1>11, PromiseTry
<1>13. QED
  BY <1>12

\* A handler that ends: the message is settled if it was tried, or queued again.
LEMMA PromiseAck ==
    ASSUME TypeOK, Places, FitInv, NEW m \in Messages, Ack(m) \/ Nack(m)
    PROVE  Promise!Finish(m)
<1>1. /\ UNCHANGED <<req, rank, wire, sent, losses>> /\ connected
      /\ unacked' = unacked \ {m} /\ handler' = [handler EXCEPT ![m] = NoHandler]
      /\ handler[m].busy /\ handler[m].todo = {}
      /\ \/ ~handler[m].failed /\ acked' = acked \union {m} /\ ready' = ready
         \/ handler[m].failed /\ acked' = acked /\ ready' = ready \union {m}
  BY DEF Ack, Nack, Handled, link
<1>2. /\ m \in unacked /\ m \notin ready \union wire \union acked
      /\ rank[m] # 0 /\ req[m].channels # {}
  BY <1>1 DEF Places, Placed, FitInv, Fits, AsksFor, TypeOK
<1>3. ~handler'[m].busy /\ \A n \in Messages \ {m} : handler'[n] = handler[n]
  <2>1. handler'[m] = NoHandler /\ \A n \in Messages \ {m} : handler'[n] = handler[n]
    BY <1>1 DEF TypeOK
  <2>2. QED
    BY <2>1 DEF NoHandler
<1>4. ASSUME NEW n \in Messages \ {m} PROVE Untouched(n)
  BY <1>1, <1>3 DEF Untouched
<1>5. Stage(m) = "worked"
  BY <1>2, StageIs
<1>6. Lives[m] = Attempt("worked", req[m].channels, {}, handler[m].failed)
  BY <1>1, <1>5, LivesBefore
<1>7. /\ Lives[m].at = "worked" /\ Lives[m].trying = {} /\ Lives[m].asked = req[m].channels
      /\ Lives[m].tried <=> ~handler[m].failed
  <2>1. PICK failed : failed = handler[m].failed /\ failed \in BOOLEAN
    BY DEF TypeOK, Handlers
  <2>2. CASE failed = TRUE
    <3>1. Lives[m] = Attempt("worked", req[m].channels, {}, TRUE)
      BY <1>6, <2>1, <2>2
    <3>2. Lives[m] = [at |-> "worked", asked |-> req[m].channels, trying |-> {}, tried |-> FALSE]
      BY <3>1 DEF Attempt
    <3>3. QED
      BY <2>1, <2>2, <3>2
  <2>3. CASE failed = FALSE
    <3>1. Lives[m] = Attempt("worked", req[m].channels, {}, FALSE)
      BY <1>6, <2>1, <2>3
    <3>2. Lives[m] = [at |-> "worked", asked |-> req[m].channels, trying |-> {}, tried |-> TRUE]
      BY <1>2, <3>1 DEF Attempt
    <3>3. QED
      BY <2>1, <2>3, <3>2
  <2>4. QED
    BY <2>1, <2>2, <2>3
<1>8. Stage(m)' = IF handler[m].failed THEN "queued" ELSE "settled"
  BY <1>1, <1>2, <1>3, StageBecomes
<1>9. Lives'[m] = Promise!Resting(IF Lives[m].tried THEN "settled" ELSE "queued", Lives[m].asked)
  <2>1. Stage(m)' = IF Lives[m].tried THEN "settled" ELSE "queued"
    BY <1>7, <1>8
  <2>2. QED
    BY <1>1, <1>7, <2>1, LivesAfter
<1>10. Promise!Becomes(m, {Promise!Resting(IF Lives[m].tried THEN "settled" ELSE "queued",
                                           Lives[m].asked)})
  BY <1>4, <1>9, OneMoves
<1>11. QED
  BY <1>1, <1>7, <1>10 DEF Promise!Finish

\* A connection that is lost.
LEMMA PromiseLost ==
    ASSUME TypeOK, Places, FitInv, ConnectionLost PROVE Promise!Disconnect
<1>1. /\ UNCHANGED <<req, rank, acked, handler, sent>> /\ connected /\ losses' = losses + 1
      /\ wire' = {} /\ ready' = ready \union unacked /\ unacked' = {}
  BY DEF ConnectionLost, Disconnected
<1>2. ASSUME NEW n \in Messages PROVE Lives'[n] = Promise!Orphan(Lives[n])
  <2>1. /\ n \in acked => n \notin wire \union ready \union unacked
        /\ n \in unacked => handler[n].busy /\ n \notin ready \union wire
        /\ n \in ready => ~handler[n].busy
        /\ n \in wire => rank[n] # 0 /\ n \notin ready
    BY <1>1 DEF FitInv, Fits, Places, Placed, TypeOK
  <2>2. CASE n \in unacked
    <3>1. Stage(n) = "worked" /\ Stage(n)' = "orphaned"
      BY <1>1, <2>1, <2>2, StageIs, StageBecomes
    <3>2. /\ Lives[n] = Attempt("worked", req[n].channels, handler[n].todo, handler[n].failed)
          /\ Lives'[n] = Attempt("orphaned", req[n].channels, handler[n].todo, handler[n].failed)
      BY <1>1, <3>1, LivesBefore, LivesAfter
    <3>3. Lives'[n] = [Lives[n] EXCEPT !.at = "orphaned"] /\ Lives[n].at = "worked"
      BY <3>2 DEF Attempt
    <3>4. QED
      BY <3>3 DEF Promise!Orphan
  <2>3. CASE n \in wire
    <3>1. Stage(n) = "posted" /\ Stage(n)' = "over"
      BY <1>1, <2>1, <2>3, StageIs, StageBecomes
    <3>2. Lives[n] = Promise!Resting("posted", req[n].channels) /\ Lives'[n] = Promise!Over
      BY <3>1, LivesBefore, LivesAfter
    <3>3. Lives[n].at = "posted"
      BY <3>2 DEF Promise!Resting
    <3>4. QED
      BY <3>2, <3>3 DEF Promise!Orphan
  <2>4. CASE n \notin unacked \union wire
    <3>1. Lives'[n] = Lives[n]
      BY <1>1, <2>4, LifeKept DEF Untouched
    <3>2. Stage(n) \in {"settled", "queued", "over", "new", "direct"}
      BY <2>1, <2>4, StageIs
    <3>3. Lives[n].at \in {"settled", "queued", "over", "new", "direct"}
      BY <3>2, AtIs
    <3>4. QED
      BY <3>1, <3>3 DEF Promise!Orphan
  <2>5. QED
    BY <2>2, <2>3, <2>4
<1>3. Lives' = [n \in Messages |-> Promise!Orphan(Lives[n])]
  <2>1. Lives' = [n \in Messages |-> Lives'[n]]
    BY DEF Lives
  <2>2. QED
    BY <1>2, <2>1
<1>4. QED
  BY <1>1, <1>3 DEF Promise!Disconnect

\* A process that ends, and what it leaves of each message.
LEMMA PromiseDeath ==
    ASSUME TypeOK, Places, FitInv, Dies,
           \/ losses' = losses + 1
           \/ losses' = losses /\ \E m \in Messages : AckThrows(m)
    PROVE  Promise!Collapse
<1> DEFINE dropped == {n \in Messages : Stage(n) = "new" /\ req[n].pc = "recorded"}
<1>1. /\ UNCHANGED <<rank, acked, sent>>
      /\ wire' = {} /\ ready' = ready \union unacked /\ unacked' = {}
      /\ \A n \in Messages :
            /\ ~handler'[n].busy /\ req'[n].channels = req[n].channels
            /\ req'[n].pc = IF req[n].pc = "new" THEN "new" ELSE "done"
  <2>1. \A n \in Messages : /\ req[n].pc \in {"new", "done"} => req'[n] = req[n]
                            /\ req[n].pc \notin {"new", "done"} => req'[n].pc = "done"
                            /\ req'[n].channels = req[n].channels
    BY Death
  <2>2. QED
    BY <2>1, Death
<1>2. ASSUME NEW n \in Messages
      PROVE  Lives'[n] = IF n \in dropped THEN Promise!Over ELSE Promise!Rescue(Lives[n])
  <2>1. /\ n \in acked => n \notin wire \union ready \union unacked
        /\ n \in unacked => n \notin ready \union wire
        /\ n \in wire => rank[n] # 0 /\ n \notin ready
        /\ rank[n] # 0 => req[n].pc # "new"
    BY DEF FitInv, Fits, Places, Placed, TypeOK
  <2>2. CASE n \in acked
    <3>1. Stage(n) = "settled" /\ Stage(n)' = "settled"
      BY <1>1, <2>2, StageIs, StageBecomes
    <3>2. /\ Lives[n] = Promise!Resting("settled", req[n].channels)
          /\ Lives'[n] = Promise!Resting("settled", req[n].channels)
      BY <1>1, <3>1, LivesBefore, LivesAfter
    <3>3. Lives[n].at = "settled"
      BY <3>2 DEF Promise!Resting
    <3>4. QED
      BY <3>1, <3>2, <3>3 DEF Promise!Rescue
  <2>3. CASE n \notin acked /\ n \in ready \union unacked
    <3>1. Stage(n) \in {"worked", "orphaned", "queued"} /\ Stage(n)' = "queued"
      BY <1>1, <2>3, StageIs, StageBecomes
    <3>2. Lives'[n] = Promise!Resting("queued", req[n].channels)
      BY <1>1, <3>1, LivesAfter
    <3>3. CASE Stage(n) = "queued"
      <4>1. Lives[n] = Promise!Resting("queued", req[n].channels)
        BY <3>3, LivesBefore
      <4>2. Lives[n].at = "queued"
        BY <4>1 DEF Promise!Resting
      <4>3. QED
        BY <3>2, <3>3, <4>1, <4>2 DEF Promise!Rescue
    <3>4. CASE Stage(n) \in {"worked", "orphaned"}
      <4>1. Lives[n] = Attempt(Stage(n), req[n].channels, handler[n].todo, handler[n].failed)
        BY <3>4, LivesBefore
      <4>2. Lives[n].at = Stage(n) /\ Lives[n].asked = req[n].channels
        BY <4>1 DEF Attempt
      <4>3. QED
        BY <3>2, <3>4, <4>2 DEF Promise!Rescue
    <3>5. QED
      BY <3>1, <3>3, <3>4
  <2>4. CASE n \notin acked \union ready \union unacked
    <3>1. Stage(n) \in {"posted", "over", "new", "direct"}
      BY <2>4, StageIs
    <3>2. Stage(n)' = IF Stage(n) = "new" /\ req[n].pc = "new" THEN "new" ELSE "over"
      BY <1>1, <2>1, <2>4, StageIs, StageBecomes
    <3>3. Stage(n) = "new" => req[n].pc \in {"new", "recorded"}
      BY <2>1, <2>4, StageIs
    <3>4. CASE Stage(n) = "new"
      <4>1. Lives[n] = Promise!Resting("new", {})
        BY <3>4, LivesBefore
      <4>2. Lives[n].at = "new"
        BY <4>1 DEF Promise!Resting
      <4>3. Lives'[n] = IF req[n].pc = "new" THEN Promise!Resting("new", {}) ELSE Promise!Over
        BY <3>2, <3>4, LivesAfter
      <4>4. QED
        BY <3>3, <3>4, <4>1, <4>2, <4>3 DEF Promise!Rescue
    <3>5. CASE Stage(n) # "new"
      <4>1. Lives'[n] = Promise!Over
        BY <3>2, <3>5, LivesAfter
      <4>2. Stage(n) = "over" => Lives[n] = Promise!Over
        BY LivesBefore
      <4>3. Lives[n].at = Stage(n)
        BY AtIs
      <4>4. QED
        BY <3>1, <3>5, <4>1, <4>2, <4>3 DEF Promise!Rescue
    <3>6. QED
      BY <3>4, <3>5
  <2>5. QED
    BY <2>2, <2>3, <2>4
<1>3. Lives' = [n \in Messages |-> IF n \in dropped THEN Promise!Over
                                   ELSE Promise!Rescue(Lives[n])]
  <2>1. Lives' = [n \in Messages |-> Lives'[n]]
    BY DEF Lives
  <2>2. QED
    BY <1>2, <2>1
<1>4. dropped \in SUBSET {n \in Messages : Lives[n].at = "new"}
  <2>1. ASSUME NEW n \in dropped PROVE Lives[n].at = "new"
    BY AtIs
  <2>2. QED
    BY <2>1
<1>5. ASSUME NEW m \in Messages, AckThrows(m) PROVE Lives[m].at = "orphaned" /\ Lives[m].trying = {}
  <2>1. handler[m].busy /\ handler[m].todo = {} /\ ~connected
    BY <1>5 DEF AckThrows, Handled
  <2>2. m \in ready /\ m \notin unacked /\ m \notin acked
    BY <2>1 DEF FitInv, Fits, Places, Alive
  <2>3. Stage(m) = "orphaned"
    BY <2>1, <2>2, StageIs
  <2>4. Lives[m] = Attempt("orphaned", req[m].channels, {}, handler[m].failed)
    BY <2>1, <2>3, LivesBefore
  <2>5. QED
    BY <2>4 DEF Attempt
<1> HIDE DEF dropped
<1>6. QED
  BY <1>1, <1>3, <1>4, <1>5 DEF Promise!Collapse

LEMMA PromiseInit == Init => Promise!Init
<1> SUFFICES ASSUME Init PROVE Promise!Init
  OBVIOUS
<1>1. ASSUME NEW m \in Messages PROVE Lives[m] = Promise!Resting("new", {})
  <2>1. rank[m] = 0 /\ m \notin wire \union ready \union unacked \union acked /\ req[m].pc = "new"
    BY DEF Init, NoRequest
  <2>2. Stage(m) = "new"
    BY <2>1, StageIs
  <2>3. QED
    BY <2>2, LivesBefore
<1>2. Lives = [m \in Messages |-> Lives[m]]
  BY DEF Lives
<1>3. Lives = [m \in Messages |-> Promise!Resting("new", {})]
  BY <1>1, <1>2
<1>4. QED
  BY <1>3 DEF Init, Promise!Init

LEMMA PromiseNext ==
    TypeOK /\ Places /\ FitInv /\ [Next]_vars => [Promise!Next]_<<Lives, sent, losses>>
<1> SUFFICES ASSUME TypeOK, Places, FitInv, [Next]_vars PROVE Promise!Next \/ Stutters
  BY DEF Stutters
<1>1. ASSUME NEW m \in Messages, Ask(m) \/ Route(m) PROVE Promise!Next \/ Stutters
  BY <1>1, PromiseRequest DEF Promise!Next
<1>2. ASSUME NEW m \in Messages, SendDirect(m) \/ Handle(m) PROVE Promise!Next
  BY <1>2, PromiseDirect, PromiseHandle DEF Promise!Next
<1>3. ASSUME NEW m \in Messages, SettleDirect(m) \/ Ack(m) \/ Nack(m) PROVE Promise!Next
  BY <1>3, PromiseSettle, PromiseAck DEF Promise!Next
<1>4. ASSUME NEW m \in Messages, Accept(m) PROVE Promise!Next
  BY <1>4, PromiseAccept DEF Promise!Next
<1>5. ASSUME NEW m \in Messages, Deliver(m) PROVE Promise!Next
  BY <1>5, PromiseDeliver DEF Promise!Next
<1>6. CASE ConnectionLost
  BY <1>6, PromiseLost DEF Promise!Next
<1>7. CASE Crash
  BY <1>7, PromiseDeath DEF Crash, Promise!Next
<1>8. ASSUME NEW m \in Messages, AckThrows(m) PROVE Promise!Next
  <2>1. Dies /\ losses' = losses
    BY <1>8 DEF AckThrows
  <2>2. QED
    BY <1>8, <2>1, PromiseDeath DEF Promise!Next
<1>9. ASSUME Boot \/ UNCHANGED vars \/ \E m \in Messages : Mark(m) PROVE Stutters
  BY <1>9, PromiseQuiet
<1>10. QED
  BY <1>1, <1>2, <1>3, <1>4, <1>5, <1>6, <1>7, <1>8, <1>9 DEF Next, RequestStep, HandlerStep

\* The notification service keeps the promise of Delivery, for any messages, technology and
\* losses: each step of the managers, the broker, the consumer and the process is a step a
\* message's life allows, or none.
THEOREM DeliveryKept == Spec => ImplementsDelivery
<1>1. QED
  BY PromiseInit, PromiseNext, NotificationsTyping, NotificationsPlaces, FitAlways, PTL
     DEF Spec, ImplementsDelivery, Promise!Spec
=============================================================================

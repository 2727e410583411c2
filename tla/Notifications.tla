---------------------------- MODULE Notifications ----------------------------
(***************************************************************************)
(* Notifications from the request that asks for one to the channel that    *)
(* sends it.  BootstrapService picks a notification manager at start: the  *)
(* direct one sends while the request waits; the queue-based one publishes *)
(* to RabbitMQ, whose messages a consumer in the same process handles; the *)
(* hybrid one keeps a record of each notification and publishes or sends.  *)
(*                                                                         *)
(* A message is delivered at least once: what the consumer does not ack    *)
(* comes back.  The connection may drop at any moment and the process may  *)
(* crash and start again; nobody reconnects within a process's life.       *)
(***************************************************************************)
EXTENDS Naturals, FiniteSets

CONSTANTS
    Messages,       \* one per request for a notification
    Poison,         \* messages whose address no mail server ever accepts
    Technologies,   \* values of NOTIFICATION_TECHNOLOGY
    Prefetch,       \* unacknowledged messages the broker allows a consumer
    MaxLosses,      \* bound on lost connections and crashes
    MaxErrors       \* bound on failed sends, database calls and connects

ASSUME PoisonAssumption == Poison \subseteq Messages
ASSUME TechnologyAssumption == Technologies \subseteq {"direct", "queue", "hybrid"}
ASSUME BoundAssumption == Prefetch \in Nat \ {0} /\ MaxLosses \in Nat /\ MaxErrors \in Nat

(***************************************************************************)
(* E-mail is the channel that can fail; sms, push and webhook are stubs in *)
(* the code that always succeed, and "webhook" stands for them.            *)
(***************************************************************************)
Channels == {"email", "webhook"}
UserOps == {"notifyUser", "notifyUserWithTemplate"}
Ops == {"notify", "notifyToMultipleChannels"} \union UserOps
Pcs == {"new", "recorded", "direct", "mark", "done"}
Requests == [op : Ops, channels : SUBSET Channels, pc : Pcs,
             todo : SUBSET Channels,    \* channels the direct manager still sends to
             failed : BOOLEAN,          \* a send or the publish was refused
             told : {"nothing", "ok", "error"}]

\* What the handler of a delivered message is doing.
Handlers == [busy : BOOLEAN, todo : SUBSET Channels, failed : BOOLEAN]

VARIABLES
    technology,     \* NOTIFICATION_TECHNOLOGY of this deployment
    up,             \* the process runs
    manager,        \* INotificationService in the container
    connected,      \* RabbitMQProvider has a connection and a channel
    consuming,      \* the consumer is registered on that channel
    declared,       \* the broker has the queue 'notifications'
    req,            \* req[m]: the request for m
    status,         \* status[m]: its row in the notifications table
    rank,           \* rank[m]: position in the order of publication; 0: not published
    wire, ready, unacked,   \* where m is between publisher and consumer
    handler,        \* handler[m]: the consumer's callback for m
    sent,           \* sent[m][c]: times m went out on c
    acked,          \* messages the consumer acknowledged
    losses, errors

vars == <<technology, up, manager, connected, consuming, declared, req, status,
          rank, wire, ready, unacked, handler, sent, acked, losses, errors>>
broker == <<declared, rank, wire, ready, unacked, acked>>
link == <<technology, up, manager, connected, consuming, losses>>

NoRequest == [op |-> "notify", channels |-> {}, pc |-> "new", todo |-> {},
              failed |-> FALSE, told |-> "nothing"]
NoHandler == [busy |-> FALSE, todo |-> {}, failed |-> FALSE]

Init ==
    /\ technology \in Technologies
    /\ up = FALSE
    /\ manager = "direct"
    /\ connected = FALSE
    /\ consuming = FALSE
    /\ declared = FALSE
    /\ req = [m \in Messages |-> NoRequest]
    /\ status = [m \in Messages |-> "none"]
    /\ rank = [m \in Messages |-> 0]
    /\ wire = {} /\ ready = {} /\ unacked = {}
    /\ handler = [m \in Messages |-> NoHandler]
    /\ sent = [m \in Messages |-> [c \in Channels |-> 0]]
    /\ acked = {}
    /\ losses = 0 /\ errors = 0

Error == errors < MaxErrors /\ errors' = errors + 1
NoError == errors' = errors
\* Of a choice: it goes well, or it is one of the errors allowed.
Succeeds(ok) == IF ok THEN NoError ELSE Error

-----------------------------------------------------------------------------
(***************************************************************************)
(* BootstrapService.initializeQueueServices.  An error is logged and the   *)
(* application starts all the same, with the container's default manager,  *)
(* the direct one.                                                         *)
(***************************************************************************)
Start(mgr, conn, cons, decl) ==
    /\ up' = TRUE
    /\ manager' = mgr
    /\ connected' = conn
    /\ consuming' = cons
    /\ declared' = decl

BootDirect ==
    /\ technology = "direct"
    /\ Start("direct", FALSE, FALSE, declared)
    /\ NoError

\* connect, declare exchanges and queues, register the consumer: all, or an error on the way
BootQueue ==
    /\ technology = "queue"
    /\ \/ Start("queue", TRUE, TRUE, TRUE) /\ NoError
       \/ Start("direct", FALSE, FALSE, declared) /\ Error
       \/ \E decl \in {declared, TRUE} : Start("direct", TRUE, FALSE, decl) /\ Error

\* connect only: no queue is declared and no consumer registered
BootHybrid ==
    /\ technology = "hybrid"
    /\ \/ Start("hybrid", TRUE, FALSE, declared) /\ NoError
       \/ Start("direct", FALSE, FALSE, declared) /\ Error

Boot ==
    /\ ~up
    /\ BootDirect \/ BootQueue \/ BootHybrid
    /\ UNCHANGED <<technology, req, status, rank, wire, ready, unacked, handler, sent,
                   acked, losses>>

-----------------------------------------------------------------------------
(***************************************************************************)
(* RabbitMQProvider.  publishToQueue throws without a channel; otherwise   *)
(* the message is in the socket's buffer and nobody waits for a confirm.   *)
(***************************************************************************)
PublishToQueue(m) ==
    /\ connected
    /\ rank' = [rank EXCEPT ![m] = 1 + Cardinality({n \in Messages : rank[n] # 0})]
    /\ wire' = wire \union {m}
RefusePublish == ~connected /\ UNCHANGED <<rank, wire>>

First(m, waiting) == m \in waiting /\ \A n \in waiting : rank[m] <= rank[n]

\* The broker routes to the queue by name, or drops the message if there is none.
Accept(m) ==
    /\ connected
    /\ First(m, wire)
    /\ wire' = wire \ {m}
    /\ ready' = IF declared THEN ready \union {m} ELSE ready
    /\ UNCHANGED <<link, declared, req, status, rank, unacked, handler, sent, acked, errors>>

Multi(m) == req[m].op # "notify"

Deliver(m) ==
    /\ up /\ connected /\ consuming
    /\ First(m, ready)
    /\ Cardinality(unacked) < Prefetch
    /\ ready' = ready \ {m}
    /\ unacked' = unacked \union {m}
    /\ handler' = [handler EXCEPT ![m] = [busy |-> TRUE, todo |-> req[m].channels,
                                          failed |-> FALSE]]
    /\ UNCHANGED <<link, declared, req, status, rank, wire, sent, acked, errors>>

\* On 'close' the provider forgets connection and channel; the broker takes back what
\* was not acknowledged, and what had not left the socket is gone.
Disconnected ==
    /\ connected' = FALSE
    /\ consuming' = FALSE
    /\ wire' = {}
    /\ ready' = ready \union unacked
    /\ unacked' = {}

ConnectionLost ==
    /\ up /\ connected /\ losses < MaxLosses
    /\ losses' = losses + 1
    /\ Disconnected
    /\ UNCHANGED <<technology, up, manager, declared, req, status, rank, handler, sent,
                   acked, errors>>

\* Requests and handlers end where they are; what a request had sent stays sent.
Dies ==
    /\ up' = FALSE
    /\ manager' = "direct"
    /\ Disconnected
    /\ handler' = [m \in Messages |-> NoHandler]
    /\ req' = [m \in Messages |->
                 IF req[m].pc \in {"new", "done"} THEN req[m]
                 ELSE [req[m] EXCEPT !.pc = "done", !.todo = {}]]
    /\ UNCHANGED <<technology, declared, status, rank, sent, acked>>

Crash == up /\ losses < MaxLosses /\ losses' = losses + 1 /\ Dies /\ NoError

-----------------------------------------------------------------------------
(***************************************************************************)
(* The consumer's handler: QueueBasedNotificationManager.                  *)
(***************************************************************************)
Goes(m, c) == sent' = [sent EXCEPT ![m][c] = @ + 1]

\* EmailChannel.send may throw; the other channels only log.
EmailFails(m, c) == c = "email" /\ IF m \in Poison THEN NoError ELSE Error
CanSend(m, c) == ~(c = "email" /\ m \in Poison) /\ NoError

\* processSingleChannelNotification knows no 'webhook': it warns and returns.
SendSingle(m, c) ==
    /\ ~Multi(m)
    /\ \/ c # "webhook" /\ CanSend(m, c) /\ Goes(m, c)
          /\ handler' = [handler EXCEPT ![m].todo = {}]
       \/ c = "webhook" /\ NoError /\ sent' = sent
          /\ handler' = [handler EXCEPT ![m].todo = {}]
       \/ EmailFails(m, c) /\ sent' = sent
          /\ handler' = [handler EXCEPT ![m].todo = {}, ![m].failed = TRUE]

\* processMultiChannelNotification swallows a channel's error and goes on with the next.
\* Mutants: it stops at the first error and returns; it ends by rethrowing an error.
MutantStopsEarly(m, c) ==
    /\ Multi(m)
    /\ \/ CanSend(m, c) /\ Goes(m, c) /\ handler' = [handler EXCEPT ![m].todo = @ \ {c}]
       \/ EmailFails(m, c) /\ sent' = sent /\ handler' = [handler EXCEPT ![m].todo = {}]
MutantRethrows(m, c) ==
    /\ Multi(m)
    /\ \/ CanSend(m, c) /\ Goes(m, c) /\ handler' = [handler EXCEPT ![m].todo = @ \ {c}]
       \/ EmailFails(m, c) /\ sent' = sent
          /\ handler' = [handler EXCEPT ![m].todo = @ \ {c}, ![m].failed = TRUE]
SendMulti(m, c) ==
    /\ Multi(m)
    /\ \/ CanSend(m, c) /\ Goes(m, c)
       \/ EmailFails(m, c) /\ sent' = sent
    /\ handler' = [handler EXCEPT ![m].todo = @ \ {c}]

Handle(m) ==
    /\ up /\ handler[m].busy
    /\ \E c \in handler[m].todo : SendSingle(m, c) \/ SendMulti(m, c)
    /\ UNCHANGED <<link, broker, req, status>>

Handled(m) == up /\ handler[m].busy /\ handler[m].todo = {}

Ack(m) ==
    /\ Handled(m) /\ connected /\ ~handler[m].failed
    /\ unacked' = unacked \ {m}
    /\ acked' = acked \union {m}
    /\ handler' = [handler EXCEPT ![m] = NoHandler]
    /\ UNCHANGED <<link, declared, req, status, rank, wire, ready, sent, errors>>

\* nack(msg, false, true): back to its place in the queue, again and again.
\* Mutants: requeue = false, which the broker turns into a discard, since nothing is
\* bound to the dead letter exchange; the failed message acknowledged; a copy queued
\* while the original stays unacknowledged.
MutantDiscards(m) ==
    /\ Handled(m) /\ connected /\ handler[m].failed
    /\ unacked' = unacked \ {m}
    /\ handler' = [handler EXCEPT ![m] = NoHandler]
    /\ UNCHANGED <<link, declared, req, status, rank, wire, ready, sent, acked, errors>>
MutantAcksFailure(m) ==
    /\ Handled(m) /\ connected /\ handler[m].failed
    /\ unacked' = unacked \ {m}
    /\ acked' = acked \union {m}
    /\ handler' = [handler EXCEPT ![m] = NoHandler]
    /\ UNCHANGED <<link, declared, req, status, rank, wire, ready, sent, errors>>
MutantCopies(m) ==
    /\ Handled(m) /\ connected /\ handler[m].failed
    /\ ready' = ready \union {m}
    /\ handler' = [handler EXCEPT ![m] = NoHandler]
    /\ UNCHANGED <<link, declared, req, status, rank, wire, unacked, sent, acked, errors>>
Nack(m) ==
    /\ Handled(m) /\ connected /\ handler[m].failed
    /\ unacked' = unacked \ {m}
    /\ ready' = ready \union {m}
    /\ handler' = [handler EXCEPT ![m] = NoHandler]
    /\ UNCHANGED <<link, declared, req, status, rank, wire, sent, acked, errors>>

\* Without a channel both ack and the nack in its catch throw: the rejection is
\* unhandled and Node ends the process.
AckThrows(m) == Handled(m) /\ ~connected /\ Dies /\ UNCHANGED <<losses, errors>>

-----------------------------------------------------------------------------
(***************************************************************************)
(* Requests.                                                               *)
(***************************************************************************)
Become(m, r) == req' = [req EXCEPT ![m] = r]
Answered(r, ok) ==
    [r EXCEPT !.pc = "done", !.todo = {}, !.failed = ~ok, !.told = IF ok THEN "ok" ELSE "error"]

\* Channels of a request: one; any list that names some; those the user's preferences turn on.
MayAsk(op, cs) ==
    /\ op = "notify" => \E c \in Channels : cs = {c}
    /\ op = "notifyToMultipleChannels" => cs # {}
Asked(op, cs) == [NoRequest EXCEPT !.op = op, !.channels = cs]

\* An unknown user, a missing or inactive template: refused before anything is done.
AskRefused(m, r) ==
    /\ r.op \in UserOps
    /\ Become(m, Answered(r, FALSE))
    /\ NoError
    /\ UNCHANGED <<rank, wire, status>>

\* The queue manager's own preferences are constant: e-mail only.
QueuePayload(r) == [r EXCEPT !.channels = IF r.op \in UserOps THEN {"email"} ELSE @]

\* The container's default manager.  The notification router and the monitoring controller
\* resolved it when they were imported, before the bootstrap chose, and keep it; only
\* AuthManager, which sends templates, always asks the container for the chosen one.
AskDirect(m, r) ==
    /\ manager = "direct" \/ r.op # "notifyUserWithTemplate"
    /\ Become(m, IF r.channels = {} THEN Answered(r, FALSE)
                 ELSE [r EXCEPT !.pc = "direct", !.todo = r.channels])
    /\ NoError
    /\ UNCHANGED <<rank, wire, status>>

\* Templates are beyond it: notifyUserWithTemplate always throws.
AskQueue(m, r) ==
    /\ manager = "queue" /\ r.op # "notifyUserWithTemplate"
    /\ \/ PublishToQueue(m) /\ Become(m, Answered(QueuePayload(r), TRUE))
       \/ RefusePublish /\ Become(m, Answered(QueuePayload(r), FALSE))
    /\ NoError
    /\ UNCHANGED status

\* The hybrid manager stores a 'pending' record first, except for several channels.
Recorded(r) == r.op # "notifyToMultipleChannels"
CreateNotification(m, ok) == status' = [status EXCEPT ![m] = IF ok THEN "pending" ELSE @]
AskHybrid(m, r) ==
    /\ manager = "hybrid"
    /\ \/ /\ ~Recorded(r) /\ Become(m, [r EXCEPT !.pc = "recorded"])
          /\ NoError /\ UNCHANGED status
       \/ /\ Recorded(r)
          /\ \E ok \in BOOLEAN :
                /\ Succeeds(ok) /\ CreateNotification(m, ok)
                /\ Become(m, IF ok THEN [r EXCEPT !.pc = "recorded"] ELSE Answered(r, FALSE))
    /\ UNCHANGED <<rank, wire>>

Take(m, r) == AskRefused(m, r) \/ AskDirect(m, r) \/ AskQueue(m, r) \/ AskHybrid(m, r)
Ask(m) ==
    /\ up /\ req[m].pc = "new"
    /\ \E op \in Ops, cs \in SUBSET Channels : MayAsk(op, cs) /\ Take(m, Asked(op, cs))
    /\ UNCHANGED <<link, declared, ready, unacked, handler, sent, acked>>

\* Only a critical notification, or an urgent one of a premium user, goes direct; notify
\* and notifyToMultipleChannels have no user in their context and never do.
MayGoDirect(r) == r.op \in UserOps
AfterHandover(r, ok) ==
    IF Recorded(r) THEN [r EXCEPT !.pc = "mark", !.todo = {}, !.failed = ~ok]
    ELSE Answered(r, ok)

Route(m) ==
    /\ up /\ req[m].pc = "recorded"
    /\ \/ PublishToQueue(m) /\ Become(m, AfterHandover(QueuePayload(req[m]), TRUE))
       \/ RefusePublish /\ Become(m, AfterHandover(QueuePayload(req[m]), FALSE))
       \/ /\ MayGoDirect(req[m])
          /\ Become(m, IF req[m].channels = {} THEN AfterHandover(req[m], FALSE)
                       ELSE [req[m] EXCEPT !.pc = "direct", !.todo = req[m].channels])
          /\ UNCHANGED <<rank, wire>>
    /\ UNCHANGED <<link, declared, ready, unacked, acked, handler, sent, status, errors>>

\* All channels at once, each settles on its own.
SendDirect(m) ==
    /\ up /\ req[m].pc = "direct"
    /\ \E c \in req[m].todo :
          \/ CanSend(m, c) /\ Goes(m, c) /\ Become(m, [req[m] EXCEPT !.todo = @ \ {c}])
          \/ EmailFails(m, c) /\ sent' = sent
             /\ Become(m, [req[m] EXCEPT !.todo = @ \ {c}, !.failed = TRUE])
    /\ UNCHANGED <<link, broker, handler, status>>

\* A send that the hybrid manager routed goes back to it for the record.
ByHybrid(m) == status[m] = "pending"

\* Mutants: the errors collected by allSettled are only logged; it waits for all to succeed.
MutantAllFine(m) ==
    /\ up /\ req[m].pc = "direct" /\ req[m].todo = {}
    /\ Become(m, IF ByHybrid(m) THEN AfterHandover(req[m], TRUE)
                 ELSE Answered(req[m], TRUE))
    /\ UNCHANGED <<link, broker, handler, status, sent, errors>>
MutantWaitsForSuccess(m) ==
    /\ up /\ req[m].pc = "direct" /\ req[m].todo = {} /\ ~req[m].failed
    /\ Become(m, IF ByHybrid(m) THEN AfterHandover(req[m], TRUE)
                 ELSE Answered(req[m], TRUE))
    /\ UNCHANGED <<link, broker, handler, status, sent, errors>>
SettleDirect(m) ==
    /\ up /\ req[m].pc = "direct" /\ req[m].todo = {}
    /\ Become(m, IF ByHybrid(m) THEN AfterHandover(req[m], ~req[m].failed)
                 ELSE Answered(req[m], ~req[m].failed))
    /\ UNCHANGED <<link, broker, handler, status, sent, errors>>

\* 'sent' after the handover, or 'failed'; when storing 'sent' fails the catch stores
\* 'failed' instead; when that fails too the record stays 'pending'.
UpdateNotificationStatus(m, s) == status' = [status EXCEPT ![m] = s]
\* Mutant: a failed handover is marked like any other.
MutantMarksSent(m) ==
    /\ up /\ req[m].pc = "mark"
    /\ UpdateNotificationStatus(m, "sent") /\ NoError
    /\ Become(m, Answered(req[m], ~req[m].failed))
    /\ UNCHANGED <<link, broker, handler, sent>>
Mark(m) ==
    /\ up /\ req[m].pc = "mark"
    /\ \/ /\ ~req[m].failed /\ UpdateNotificationStatus(m, "sent") /\ NoError
          /\ Become(m, Answered(req[m], TRUE))
       \/ /\ ~req[m].failed /\ Error /\ UNCHANGED status
          /\ Become(m, [req[m] EXCEPT !.failed = TRUE])
       \/ /\ req[m].failed /\ Become(m, Answered(req[m], FALSE))
          /\ \E ok \in BOOLEAN :
                /\ Succeeds(ok)
                /\ IF ok THEN UpdateNotificationStatus(m, "failed") ELSE UNCHANGED status
    /\ UNCHANGED <<link, broker, handler, sent>>

-----------------------------------------------------------------------------
RequestStep(m) == Route(m) \/ SendDirect(m) \/ SettleDirect(m) \/ Mark(m)
HandlerStep(m) == Handle(m) \/ Ack(m) \/ Nack(m) \/ AckThrows(m)

Next ==
    \/ Boot \/ ConnectionLost \/ Crash
    \/ \E m \in Messages :
          Ask(m) \/ Accept(m) \/ Deliver(m) \/ RequestStep(m) \/ HandlerStep(m)

(***************************************************************************)
(* The event loop runs every request and handler that can go on, and the   *)
(* broker takes what arrives.  It fills the prefetch window at once, so a  *)
(* message that is first in line again and again is delivered (strong      *)
(* fairness).  Nothing makes requests come, connections drop or a dead     *)
(* process start.                                                          *)
(***************************************************************************)
Fairness == \A m \in Messages :
    /\ WF_vars(RequestStep(m))
    /\ WF_vars(HandlerStep(m))
    /\ WF_vars(Accept(m))
    /\ SF_vars(Deliver(m))

Spec == Init /\ [][Next]_vars
FairSpec == Spec /\ Fairness

-----------------------------------------------------------------------------
(***************************************************************************)
(* Properties.                                                             *)
(***************************************************************************)
\* Every variable keeps its type; a message is in one place of the broker at a time.
TypeOK ==
    /\ technology \in Technologies
    /\ <<up, connected, consuming, declared>> \in BOOLEAN \X BOOLEAN \X BOOLEAN \X BOOLEAN
    /\ manager \in {"direct", "queue", "hybrid"}
    /\ req \in [Messages -> Requests]
    /\ status \in [Messages -> {"none", "pending", "sent", "failed"}]
    /\ rank \in [Messages -> Nat]
    /\ wire \subseteq Messages /\ ready \subseteq Messages /\ unacked \subseteq Messages
    /\ wire \intersect (ready \union unacked) = {} /\ ready \intersect unacked = {}
    /\ handler \in [Messages -> Handlers]
    /\ sent \in [Messages -> [Channels -> Nat]]
    /\ acked \subseteq Messages
    /\ losses \in Nat /\ errors \in Nat

\* An e-mail queued on its own (notify) is acknowledged only once it went out: failures,
\* redeliveries and lost connections included.
AckedMeansSent == \A m \in acked :
    ~Multi(m) /\ req[m].channels = {"email"} => sent[m]["email"] > 0

\* A message for several channels is acknowledged once every channel was tried: only
\* e-mail, the channel that can fail, may not have gone out.
AckedTriedEveryChannel == \A m \in acked :
    Multi(m) => \A c \in req[m].channels \ {"email"} : sent[m][c] > 0

\* An acknowledgement, after which the broker forgets the message, was earned.
AcksAreEarned == AckedMeansSent /\ AckedTriedEveryChannel

\* A channel receives a message again only for a connection or a process that was lost
\* since: a retry never repeats a send that succeeded.
DuplicatesNeedALoss == \A m \in Messages, c \in Channels : sent[m][c] <= 1 + losses

\* What a caller hears is true.  After an "ok" the message was handed to the broker
\* connection, or every channel asked for has it.
OkMeansHandedOver == \A m \in Messages :
    req[m].told = "ok" =>
        rank[m] # 0 \/ (\A c \in req[m].channels : sent[m][c] > 0)

\* The record of a notification agrees with its answer once the request is over:
\* 'sent' goes with an ok, 'failed' with an error, and 'pending' stays only if the
\* database or the process failed.
RecordAgrees == \A m \in Messages :
    req[m].pc = "done" =>
        /\ status[m] = "sent" => req[m].told # "error"
        /\ status[m] = "failed" => req[m].told # "ok"
        /\ status[m] = "pending" => errors > 0 \/ losses > 0

\* Neither the caller nor the notification's record is told what did not happen.
AnswersAreTrue == OkMeansHandedOver /\ RecordAgrees

\* While the consumer stays registered a queued message is handled in the end, also
\* behind messages that fail for ever, as long as those do not fill the window.
QueuedIsHandled == \A m \in Messages \ Poison :
    (m \in wire \union ready /\ declared /\ consuming)
        ~> (m \in acked \/ ~consuming)

\* Every request is answered, unless the process dies under it.
RequestsAnswered == \A m \in Messages :
    req[m].pc \notin {"new", "done"} ~> (req[m].told # "nothing" \/ ~up)

\* Nothing is left waiting: neither a caller nor a queued message.
WorkEnds == QueuedIsHandled /\ RequestsAnswered

-----------------------------------------------------------------------------
(***************************************************************************)
(* The promise that the managers, the broker and the consumer keep: where  *)
(* a message is, and what is left of the attempt that works on it.         *)
(***************************************************************************)
Stage(m) ==
    IF m \in acked THEN "settled"
    ELSE IF m \in unacked THEN "worked"
    ELSE IF m \in ready THEN IF handler[m].busy THEN "orphaned" ELSE "queued"
    ELSE IF m \in wire THEN "posted"
    ELSE IF rank[m] # 0 THEN "over"
    ELSE IF req[m].pc \in {"new", "recorded"} THEN "new"
    ELSE IF req[m].pc = "direct" THEN "direct" ELSE "over"

Attempt(stage, cs, todo, gaveUp) ==
    [at |-> stage, asked |-> cs, trying |-> todo, tried |-> todo # cs /\ ~gaveUp]
Life(stage, r, h) ==
    IF stage \in {"worked", "orphaned"} THEN Attempt(stage, r.channels, h.todo, h.failed)
    ELSE IF stage = "direct" THEN Attempt(stage, r.channels, r.todo, FALSE)
    ELSE Attempt(stage, IF stage \in {"new", "over"} THEN {} ELSE r.channels, {}, TRUE)
Lives == [m \in Messages |-> Life(Stage(m), req[m], handler[m])]
Promise == INSTANCE Delivery WITH life <- Lives

(***************************************************************************)
(* Whatever the technology, and whatever is lost, each message is treated  *)
(* as Delivery promises: it is worked on by one attempt at a time, stays   *)
(* in the queue until an attempt settles it, and is tried again only after *)
(* an attempt that sent nothing or was cut off.                            *)
(***************************************************************************)
ImplementsDelivery == Promise!Spec
=============================================================================

------------------------------ MODULE Delivery ------------------------------
(***************************************************************************)
(* What the notification service promises of each message, whatever the    *)
(* manager, the broker and the process do: one attempt at a time works on  *)
(* it and goes to each channel once; what reached the queue leaves it only *)
(* by an attempt that came to its end; an attempt is repeated only if it   *)
(* sent nothing, or if a connection or the process was lost under it.      *)
(***************************************************************************)
EXTENDS Naturals

CONSTANTS Messages, Channels

VARIABLES
    life,       \* life[m]: where m is, and the attempt that works on it
    sent,       \* sent[m][c]: times m went out on c
    losses      \* connections and processes lost

Stages == {"new",       \* nobody asked for it yet
           "direct",    \* sent while the caller waits
           "posted",    \* given to a connection that may be lost with it
           "queued", "worked",  \* kept for a consumer; a consumer has it
           "orphaned",  \* kept, while an attempt that lost its connection goes on
           "settled", "over"}

Resting(stage, cs) == [at |-> stage, asked |-> cs, trying |-> {}, tried |-> FALSE]
Trying(stage, cs) == [at |-> stage, asked |-> cs, trying |-> cs, tried |-> FALSE]
Over == Resting("over", {})

Init ==
    /\ life = [m \in Messages |-> Resting("new", {})]
    /\ sent = [m \in Messages |-> [c \in Channels |-> 0]]
    /\ losses = 0

Becomes(m, lives) == \E l \in lives : life' = [life EXCEPT ![m] = l]

\* A caller's message is refused, sent or given to the queue's connection.
Offer(m) ==
    /\ life[m].at = "new"
    /\ \E cs \in (SUBSET Channels) \ {{}} :
          Becomes(m, {Over, Trying("direct", cs), Resting("posted", cs)})
    /\ UNCHANGED <<sent, losses>>

\* The broker keeps it, or knows no such queue.
Arrive(m) ==
    /\ life[m].at = "posted"
    /\ Becomes(m, {Resting("queued", life[m].asked), Over})
    /\ UNCHANGED <<sent, losses>>

Take(m) ==
    /\ life[m].at = "queued"
    /\ Becomes(m, {Trying("worked", life[m].asked)})
    /\ UNCHANGED <<sent, losses>>

\* The channel takes it, or refuses; a refusal may count as a try.
Try(m, c) ==
    /\ c \in life[m].trying
    /\ \E went, counts \in BOOLEAN :
          /\ went => counts
          /\ sent' = IF went THEN [sent EXCEPT ![m][c] = @ + 1] ELSE sent
          /\ Becomes(m, {[life[m] EXCEPT !.trying = @ \ {c}, !.tried = @ \/ counts]})
    /\ UNCHANGED losses

\* An attempt that tried settles the message; one that did not gives it back.
Finish(m) ==
    /\ life[m].trying = {}
    /\ \/ life[m].at = "direct" /\ Becomes(m, {Over})
       \/ /\ life[m].at = "worked"
          /\ Becomes(m, {Resting(IF life[m].tried THEN "settled" ELSE "queued", life[m].asked)})
    /\ UNCHANGED <<sent, losses>>

\* The attempts go on without their connection.
Orphan(l) ==
    IF l.at = "posted" THEN Over
    ELSE IF l.at = "worked" THEN [l EXCEPT !.at = "orphaned"] ELSE l
Disconnect ==
    /\ losses' = losses + 1
    /\ life' = [m \in Messages |-> Orphan(life[m])]
    /\ UNCHANGED sent

\* The process ends, on its own or because an orphan cannot settle its message: what is
\* kept is kept, everything else is over.  A message in the caller's hands may be, too.
Rescue(l) ==
    IF l.at \in {"worked", "orphaned"} THEN Resting("queued", l.asked)
    ELSE IF l.at \in {"posted", "direct"} THEN Over ELSE l
Collapse ==
    /\ \/ losses' = losses + 1
       \/ losses' = losses /\ \E m \in Messages : life[m].at = "orphaned" /\ life[m].trying = {}
    /\ \E dropped \in SUBSET {m \in Messages : life[m].at = "new"} :
          life' = [m \in Messages |-> IF m \in dropped THEN Over ELSE Rescue(life[m])]
    /\ UNCHANGED sent

Next ==
    \/ \E m \in Messages :
          \/ Offer(m) \/ Arrive(m) \/ Take(m) \/ Finish(m)
          \/ \E c \in Channels : Try(m, c)
    \/ Disconnect \/ Collapse

Spec == Init /\ [][Next]_<<life, sent, losses>>
=============================================================================

---------------------------- MODULE DatabaseCheck ----------------------------
(***************************************************************************)
(* WebSocketMonitorService.checkDatabaseConnection: a timer pings the      *)
(* database every 30 s without waiting for the ping before, and a circuit  *)
(* breaker skips pings for 30 s after too many failures.  Only the ping is *)
(* asynchronous; what follows its answer runs in one go.  The queue and    *)
(* e-mail checks answer from constants and never change their status.      *)
(***************************************************************************)
EXTENDS Naturals, Sequences

CONSTANTS
    Pings,              \* pings that may be on their way at a time
    MaxFailures,        \* MAX_FAILURES of the circuit breaker
    KeepAlerts,         \* length the alert history is cut to, 100 in the code
    MaxFlips            \* bound on outages and recoveries of the database

ASSUME CheckAssumption ==
    /\ MaxFailures \in Nat \ {0} /\ KeepAlerts \in Nat \ {0} /\ MaxFlips \in Nat

VARIABLES
    dbUp,               \* the database answers
    flips,
    watching,           \* monitoring is on: see MonitorSockets
    ping,               \* ping[p]: where the ping is
    shown,              \* connectionStatus.get('database').status
    history,            \* alertHistory
    failures,           \* failures the breaker counted, at most MaxFailures
    skipping            \* skipUntil lies in the future

checkVars == <<dbUp, flips, watching, ping, shown, history, failures, skipping>>

CheckInit ==
    /\ dbUp = TRUE /\ flips = 0
    /\ watching \in BOOLEAN
    /\ ping = [p \in Pings |-> "idle"]
    /\ shown = "connected"
    /\ history = <<>>
    /\ failures = 0 /\ skipping = FALSE

-----------------------------------------------------------------------------
DatabaseFlips ==
    /\ flips < MaxFlips
    /\ flips' = flips + 1
    /\ dbUp' = ~dbUp
    /\ UNCHANGED <<watching, ping, shown, history, failures, skipping>>

\* Somebody starts or stops monitoring; pings on their way go on.
ToggleWatching ==
    /\ watching' = ~watching
    /\ UNCHANGED <<dbUp, flips, ping, shown, history, failures, skipping>>

TickPing(p) ==
    /\ watching /\ ~skipping
    /\ ping[p] = "idle"
    /\ ping' = [ping EXCEPT ![p] = "sent"]
    /\ UNCHANGED <<dbUp, flips, watching, shown, history, failures, skipping>>

\* The answer is what the database was when it was asked; an error counts as none.
Answer(p) ==
    /\ ping[p] = "sent"
    /\ ping' = [ping EXCEPT ![p] = IF dbUp THEN "alive" ELSE "dead"]
    /\ UNCHANGED <<dbUp, flips, watching, shown, history, failures, skipping>>

StatusFor(answer) == IF answer = "alive" THEN "connected" ELSE "disconnected"

\* Mutant: every failed ping raises an alert.
MutantEveryFailure(answer) ==
    IF answer = "dead" THEN <<"lost">> ELSE IF shown = "disconnected" THEN <<"restored">> ELSE <<>>
\* Only a change of the status as it is now, after the ping, raises one.
Raised(answer) ==
    IF StatusFor(answer) = shown THEN <<>>
    ELSE IF answer = "dead" THEN <<"lost">> ELSE <<"restored">>

\* Mutant: the history is never cut.
MutantKeepsAll(alerts) == alerts
\* slice(-KeepAlerts)
Recent(alerts) ==
    IF Len(alerts) <= KeepAlerts THEN alerts
    ELSE SubSeq(alerts, Len(alerts) - KeepAlerts + 1, Len(alerts))

\* The failure count is not reset when the pause ends: one more failure opens it again.
CountFailure ==
    /\ failures' = IF failures < MaxFailures THEN failures + 1 ELSE failures
    /\ skipping' = (skipping \/ failures' = MaxFailures)

HandleAnswer(p) ==
    /\ ping[p] \in {"alive", "dead"}
    /\ shown' = StatusFor(ping[p])
    /\ history' = Recent(history \o Raised(ping[p]))
    /\ IF ping[p] = "dead" THEN CountFailure
       ELSE failures' = 0 /\ skipping' = FALSE
    /\ ping' = [ping EXCEPT ![p] = "idle"]
    /\ UNCHANGED <<dbUp, flips, watching>>

\* Mutant: the time until which to skip is never over.
MutantNeverOver == FALSE
PauseOver == skipping

Resume ==
    /\ PauseOver
    /\ skipping' = FALSE
    /\ UNCHANGED <<dbUp, flips, watching, ping, shown, history, failures>>

CheckNext ==
    \/ DatabaseFlips \/ ToggleWatching \/ Resume
    \/ \E p \in Pings : TickPing(p) \/ Answer(p) \/ HandleAnswer(p)

\* The timer keeps firing, a ping is answered or fails, its handler runs, the pause ends.
CheckFairness ==
    /\ WF_checkVars(\E p \in Pings : TickPing(p))
    /\ \A p \in Pings : WF_checkVars(Answer(p) \/ HandleAnswer(p))
    /\ WF_checkVars(Resume)

CheckSpec == CheckInit /\ [][CheckNext]_checkVars /\ CheckFairness

-----------------------------------------------------------------------------
CheckTypeOK ==
    /\ dbUp \in BOOLEAN /\ watching \in BOOLEAN /\ skipping \in BOOLEAN
    /\ flips \in 0..MaxFlips
    /\ ping \in [Pings -> {"idle", "sent", "alive", "dead"}]
    /\ shown \in {"connected", "disconnected"}
    /\ history \in Seq({"lost", "restored"}) /\ Len(history) <= KeepAlerts
    /\ failures \in 0..MaxFailures

\* Although pings overlap and answers come out of order, the alerts kept alternate between
\* lost and restored, and the last one tells the status shown.
AlertsTellStatus ==
    /\ \A i \in 1 .. Len(history) - 1 : history[i] # history[i + 1]
    /\ IF history = <<>> THEN shown = "connected"
       ELSE shown = IF history[Len(history)] = "lost" THEN "disconnected" ELSE "connected"

\* Once the database stays up and is watched, it is shown as connected from some moment
\* on: late answers and the breaker's pauses only delay that.
StatusRecovers == <>[](dbUp /\ watching) => <>[](shown = "connected")
=============================================================================

---------------------------- MODULE ServerProofs ----------------------------
(***************************************************************************)
(* Theorems about what the server runs, for any signals, requests, pings and*)
(* sockets, and any bounds: the life of its process (Lifecycle), what its  *)
(* database check tells (DatabaseCheck) and whom that runs for             *)
(* (MonitorSockets); and that what is proved of these, and of the services *)
(* in PeopleProofs, holds of them side by side, as MCServices runs them.   *)
(***************************************************************************)
EXTENDS MCServices, PeopleProofs, FiniteSetTheorems

-----------------------------------------------------------------------------
(***************************************************************************)
(* The server process.                                                     *)
(***************************************************************************)
LEMMA LifecycleTypingInit == LifecycleInit => LifecycleTypeOK
<1> SUFFICES ASSUME LifecycleInit PROVE LifecycleTypeOK
  OBVIOUS
<1>1. tries \in 0 .. 3 /\ outages \in Nat
  BY DEF LifecycleInit
<1>2. /\ halt \in [Signals -> {"none", "sockets", "server", "drain", "database", "exit", "done"}]
      /\ call \in [Calls -> {"none", "open", "served", "failed", "healthy", "unhealthy", "cut"}]
  BY DEF LifecycleInit
<1>3. QED
  BY <1>1, <1>2 DEF LifecycleInit, LifecycleTypeOK, Stages

LEMMA LifecycleTypingNext == LifecycleTypeOK /\ [LifecycleNext]_lifeVars => LifecycleTypeOK'
<1> SUFFICES ASSUME LifecycleTypeOK, [LifecycleNext]_lifeVars PROVE LifecycleTypeOK'
  OBVIOUS
<1> USE DEF LifecycleTypeOK, Stages
<1>1. CASE Bootstrap
  BY <1>1 DEF Bootstrap, StageGoes
<1>2. CASE ConnectDatabase
  BY <1>2 DEF ConnectDatabase
<1>3. CASE ConnectFails
  BY <1>3 DEF ConnectFails, StageGoes, Attempts
<1>4. CASE ConnectTimesOut \/ CheckStorage \/ CheckIndex
  BY <1>4 DEF ConnectTimesOut, CheckStorage, CheckIndex, StageGoes
<1>5. CASE StartListening
  BY <1>5 DEF StartListening
<1>6. CASE Leave
  BY <1>6 DEF Leave, Exit
<1>7. ASSUME NEW g \in Signals, Signal(g) PROVE LifecycleTypeOK'
  BY <1>7 DEF Signal, At
<1>8. ASSUME NEW g \in Signals, ShutDown(g) PROVE LifecycleTypeOK'
  <2>1. CASE CloseSockets(g) \/ CloseServer(g)
    BY <2>1 DEF CloseSockets, CloseServer, At
  <2>2. CASE ServerClosed(g) \/ Disconnect(g)
    BY <2>2 DEF ServerClosed, Disconnect, At
  <2>3. CASE ExitBySignal(g)
    BY <2>3 DEF ExitBySignal, At, Exit
  <2>4. QED
    BY <1>8, <2>1, <2>2, <2>3 DEF ShutDown
<1>9. ASSUME NEW c \in Calls, Arrive(c) \/ Serve(c) \/ CheckHealth(c) PROVE LifecycleTypeOK'
  BY <1>9 DEF Arrive, Serve, CheckHealth, Answered
<1>10. CASE Outage \/ Return
  <2>1. outages' \in Nat
    BY <1>10 DEF Outage, Return
  <2>2. QED
    BY <1>10, <2>1 DEF Outage, Return
<1>11. CASE UNCHANGED lifeVars
  BY <1>11 DEF lifeVars
<1>12. QED
  BY <1>1, <1>2, <1>3, <1>4, <1>5, <1>6, <1>7, <1>8, <1>9, <1>10, <1>11
     DEF LifecycleNext, Start

\* The server process stays in its states: stages of the start, of the shutdown for every
\* signal and of every request.
THEOREM LifecycleTypeCorrect == LifecycleSpec => []LifecycleTypeOK
BY LifecycleTypingInit, LifecycleTypingNext, PTL DEF LifecycleSpec

\* Where a server is: there is one from the end of the start on, and it takes and finishes
\* requests only while the process serves; a signal waits only for a server that is there.
ServerFollowsStart ==
    /\ \A g \in Signals : halt[g] = "drain" => server # "none"
    /\ (stage = "serving" => server # "none") /\ (server # "none" => stage \in {"serving", "exited"})
    /\ server \in {"listening", "closing"} => stage = "serving"

\* What holds for as long as no signal came before the server listened: the start has made
\* the connection, a signal takes it away only once the server is closed, and then no
\* request is open.
NoSignalWasEarly ==
    ~early =>
        /\ server = "none" => \A g \in Signals : halt[g] = "none"
        /\ stage \in {"storage", "index", "listen"} => adapter
        /\ server \in {"listening", "closing"} => adapter
        /\ \A g \in Signals : halt[g] \in {"database", "exit"} => server = "closed"
        /\ \A c \in Calls : call[c] = "open" => server \in {"listening", "closing"}

LifecycleInv ==
    /\ LifecycleTypeOK
    /\ ServerFollowsStart
    /\ NoSignalWasEarly
    /\ ~link => outages > 0
    /\ RequestsSurvive

LEMMA LifecycleInvInit == LifecycleInit => LifecycleInv
BY LifecycleTypingInit
   DEF LifecycleInit, LifecycleInv, ServerFollowsStart, NoSignalWasEarly, RequestsSurvive

LEMMA LifecycleInvNext == LifecycleInv /\ [LifecycleNext]_lifeVars => LifecycleInv'
<1> SUFFICES ASSUME LifecycleInv, [LifecycleNext]_lifeVars PROVE LifecycleInv'
  OBVIOUS
<1>t. LifecycleTypeOK /\ LifecycleTypeOK'
  BY LifecycleTypingNext DEF LifecycleInv
<1> USE DEF LifecycleInv, LifecycleTypeOK, ServerFollowsStart, NoSignalWasEarly, RequestsSurvive
<1>1. CASE Bootstrap
  BY <1>t, <1>1 DEF Bootstrap, StageGoes
<1>2. CASE ConnectDatabase
  BY <1>t, <1>2 DEF ConnectDatabase
<1>3. CASE ConnectFails
  BY <1>t, <1>3 DEF ConnectFails, StageGoes
<1>4. CASE ConnectTimesOut \/ CheckStorage \/ CheckIndex
  BY <1>t, <1>4 DEF ConnectTimesOut, CheckStorage, CheckIndex, StageGoes
<1>5. CASE StartListening
  BY <1>t, <1>5 DEF StartListening
<1>6. CASE Leave
  BY <1>t, <1>6 DEF Leave, Exit
<1>7. ASSUME NEW g \in Signals, Signal(g) PROVE LifecycleInv'
  BY <1>t, <1>7 DEF Signal, At, Alive
<1>8. ASSUME NEW g \in Signals, ShutDown(g) PROVE LifecycleInv'
  <2>1. CASE CloseSockets(g)
    BY <1>t, <2>1 DEF CloseSockets, At, Alive
  <2>2. CASE CloseServer(g)
    BY <1>t, <2>2 DEF CloseServer, At, Alive
  <2>3. CASE ServerClosed(g)
    BY <1>t, <2>3 DEF ServerClosed, At, Alive, Waited
  <2>4. CASE Disconnect(g)
    BY <1>t, <2>4 DEF Disconnect, At, Alive
  <2>5. CASE ExitBySignal(g)
    BY <1>t, <2>5 DEF ExitBySignal, At, Alive, Exit
  <2>6. QED
    BY <1>8, <2>1, <2>2, <2>3, <2>4, <2>5 DEF ShutDown
<1>9. ASSUME NEW c \in Calls, Arrive(c) PROVE LifecycleInv'
  BY <1>t, <1>9 DEF Arrive, Alive
<1>10. ASSUME NEW c \in Calls, Serve(c) PROVE LifecycleInv'
  BY <1>t, <1>10 DEF Serve, Answered, Usable
<1>11. ASSUME NEW c \in Calls, CheckHealth(c) PROVE LifecycleInv'
  BY <1>t, <1>11 DEF CheckHealth, Answered, Connected
<1>12. CASE Outage
  BY <1>t, <1>12 DEF Outage
<1>13. CASE Return
  BY <1>t, <1>13 DEF Return
<1>14. CASE UNCHANGED lifeVars
  BY <1>t, <1>14 DEF lifeVars
<1>15. QED
  BY <1>1, <1>2, <1>3, <1>4, <1>5, <1>6, <1>7, <1>8, <1>9, <1>10, <1>11, <1>12, <1>13, <1>14
     DEF LifecycleNext, Start

\* However many signals come and in whatever step of the start and of one another, a
\* request that was accepted is answered with its database, unless a signal came before the
\* server listened or the database went away; and no server listens without a connection.
THEOREM LifecycleIsSound == LifecycleSpec => []LifecycleSound
<1>1. LifecycleInv => LifecycleSound
  BY DEF LifecycleInv, NoSignalWasEarly, LifecycleSound, ServesWithDatabase
<1>2. QED
  BY <1>1, LifecycleInvInit, LifecycleInvNext, PTL DEF LifecycleSpec

-----------------------------------------------------------------------------
(***************************************************************************)
(* The alert history.                                                      *)
(***************************************************************************)
Alerts == {"lost", "restored"}

\* Cutting the history after one more alert keeps its newest entries, that alert included.
LEMMA RecentAlerts ==
    ASSUME NEW h \in Seq(Alerts), Len(h) <= KeepAlerts, NEW a \in Alerts
    PROVE  LET r == Recent(h \o <<a>>)
           IN /\ r \in Seq(Alerts) /\ Len(r) \in 1..KeepAlerts /\ r[Len(r)] = a
              /\ Len(r) > 1 => Len(h) > 0 /\ r[Len(r) - 1] = h[Len(h)]
              /\ (\A i \in 1 .. Len(h) - 1 : h[i] # h[i + 1])
                 => (\A i \in 1 .. Len(r) - 2 : r[i] # r[i + 1])
<1>1. PICK g : g = h \o <<a>>
  OBVIOUS
<1>2. PICK n : n = Len(h)
  OBVIOUS
<1>3. /\ g \in Seq(Alerts) /\ Len(g) = n + 1 /\ g[n + 1] = a /\ n \in Nat
      /\ \A i \in 1..n : g[i] = h[i]
  BY <1>1, <1>2
<1>4. PICK r : r = Recent(g)
  OBVIOUS
<1>5. /\ r \in Seq(Alerts) /\ Len(r) \in 1..KeepAlerts /\ r[Len(r)] = a
      /\ Len(r) > 1 => n > 0 /\ r[Len(r) - 1] = h[n]
      /\ (\A i \in 1 .. n - 1 : h[i] # h[i + 1])
         => (\A i \in 1 .. Len(r) - 2 : r[i] # r[i + 1])
  <2>1. CASE n + 1 <= KeepAlerts
    <3>1. r = g
      BY <1>3, <1>4, <2>1 DEF Recent
    <3>2. QED
      BY <1>3, <2>1, <3>1
  <2>2. CASE ~(n + 1 <= KeepAlerts)
    <3>1. n = KeepAlerts /\ n >= 1
      BY <1>2, <1>3, <2>2, CheckAssumption
    <3>2. r = SubSeq(g, 2, n + 1)
      <4>1. Len(g) - KeepAlerts + 1 = 2 /\ ~(Len(g) <= KeepAlerts)
        BY <1>3, <3>1
      <4>2. QED
        BY <1>3, <1>4, <4>1 DEF Recent
    <3>3. r \in Seq(Alerts) /\ Len(r) = n
      BY <1>3, <3>1, <3>2, SubSeqProperties
    <3>4. \A i \in 1..n : r[i] = g[i + 1]
      BY <1>3, <3>1, <3>2, SubSeqProperties
    <3>5. QED
      BY <1>3, <3>1, <3>3, <3>4
  <2>3. QED
    BY <2>1, <2>2
<1>6. QED
  BY <1>1, <1>2, <1>4, <1>5

LEMMA CheckTypingInit == CheckInit => CheckTypeOK
<1> SUFFICES ASSUME CheckInit PROVE CheckTypeOK
  OBVIOUS
<1>1. history = <<>> /\ failures = 0 /\ flips = 0 /\ ping = [p \in Pings |-> "idle"]
  BY DEF CheckInit
<1>2. history \in Seq(Alerts) /\ Len(history) <= KeepAlerts
  BY <1>1, CheckAssumption
<1>3. failures \in 0..MaxFailures /\ flips \in 0..MaxFlips
  BY <1>1, CheckAssumption
<1>4. ping \in [Pings -> {"idle", "sent", "alive", "dead"}]
  BY <1>1
<1>5. QED
  BY <1>2, <1>3, <1>4 DEF CheckInit, CheckTypeOK, Alerts

LEMMA HandledAlerts ==
    ASSUME CheckTypeOK, NEW p \in Pings, HandleAnswer(p)
    PROVE  \/ Raised(ping[p]) = <<>> /\ history' = history /\ shown' = shown
           \/ \E a \in Alerts :
                /\ history' = Recent(history \o <<a>>)
                /\ shown' # shown
                /\ shown' = IF a = "lost" THEN "disconnected" ELSE "connected"
<1>1. CASE StatusFor(ping[p]) = shown
  <2>1. Raised(ping[p]) = <<>> /\ shown' = shown
    BY <1>1 DEF Raised, HandleAnswer
  <2>2. history \o <<>> = history
    BY DEF CheckTypeOK
  <2>3. QED
    BY <2>1, <2>2 DEF HandleAnswer, Recent, CheckTypeOK
<1>2. CASE StatusFor(ping[p]) # shown
  BY <1>2 DEF Raised, HandleAnswer, StatusFor, Alerts
<1>3. QED
  BY <1>1, <1>2

LEMMA CheckTypingNext == CheckTypeOK /\ [CheckNext]_checkVars => CheckTypeOK'
<1> SUFFICES ASSUME CheckTypeOK, [CheckNext]_checkVars PROVE CheckTypeOK'
  OBVIOUS
<1> USE CheckAssumption DEF CheckTypeOK
<1>1. CASE DatabaseFlips
  BY <1>1 DEF DatabaseFlips
<1>2. CASE ToggleWatching \/ Resume
  BY <1>2 DEF ToggleWatching, Resume
<1>3. ASSUME NEW p \in Pings, TickPing(p) \/ Answer(p) PROVE CheckTypeOK'
  BY <1>3 DEF TickPing, Answer
<1>4. ASSUME NEW p \in Pings, HandleAnswer(p) PROVE CheckTypeOK'
  <2>0. history \in Seq(Alerts) /\ Len(history) <= KeepAlerts
    BY DEF Alerts
  <2>1. history' \in Seq(Alerts) /\ Len(history') <= KeepAlerts
    <3>1. CASE history' = history
      BY <2>0, <3>1
    <3>2. ASSUME NEW a \in Alerts, history' = Recent(history \o <<a>>)
          PROVE  history' \in Seq(Alerts) /\ Len(history') <= KeepAlerts
      BY <2>0, <3>2, RecentAlerts
    <3>3. QED
      BY <1>4, <3>1, <3>2, HandledAlerts
  <2>2. failures' \in 0..MaxFailures /\ skipping' \in BOOLEAN
    <3>1. CASE CountFailure
      BY <3>1 DEF CountFailure
    <3>2. CASE failures' = 0 /\ skipping' = FALSE
      <4>1. failures' \in 0..MaxFailures
        BY <3>2
      <4>2. skipping' \in BOOLEAN
        BY <3>2
      <4>3. QED
        BY <4>1, <4>2
    <3>3. QED
      BY <1>4, <3>1, <3>2 DEF HandleAnswer
  <2>3. shown' \in {"connected", "disconnected"} /\ ping' \in [Pings -> {"idle", "sent", "alive", "dead"}]
    BY <1>4 DEF HandleAnswer, StatusFor
  <2>4. QED
    BY <1>4, <2>1, <2>2, <2>3 DEF HandleAnswer, Alerts
<1>5. CASE UNCHANGED checkVars
  BY <1>5 DEF checkVars
<1>6. QED
  BY <1>1, <1>2, <1>3, <1>4, <1>5 DEF CheckNext

\* Every reachable state is well typed: the history never outgrows its limit, the breaker
\* never counts past its threshold.
THEOREM CheckTyping == CheckSpec => []CheckTypeOK
<1>1. QED
  BY CheckTypingInit, CheckTypingNext, PTL DEF CheckSpec

\* Although pings overlap and answers come out of order, the alerts kept alternate and the
\* last one tells the status shown, for any number of pings and any length of the history.
THEOREM AlertsAreRight == CheckSpec => []AlertsTellStatus
<1>1. CheckInit => AlertsTellStatus
  BY DEF CheckInit, AlertsTellStatus
<1>2. AlertsTellStatus /\ CheckTypeOK /\ [CheckNext]_checkVars => AlertsTellStatus'
  <2> SUFFICES ASSUME AlertsTellStatus, CheckTypeOK, [CheckNext]_checkVars
               PROVE  AlertsTellStatus'
    OBVIOUS
  <2>1. CASE UNCHANGED <<history, shown>>
    BY <2>1 DEF AlertsTellStatus
  <2>2. ASSUME NEW a \in Alerts, history' = Recent(history \o <<a>>), shown' # shown,
               shown' = IF a = "lost" THEN "disconnected" ELSE "connected"
        PROVE  AlertsTellStatus'
    <3>1. history \in Seq(Alerts) /\ Len(history) <= KeepAlerts
      BY DEF CheckTypeOK, Alerts
    <3>2. /\ history' \in Seq(Alerts) /\ Len(history') \in 1..KeepAlerts
          /\ history'[Len(history')] = a
          /\ Len(history') > 1 =>
                Len(history) > 0 /\ history'[Len(history') - 1] = history[Len(history)]
          /\ \A i \in 1 .. Len(history') - 2 : history'[i] # history'[i + 1]
      BY <2>2, <3>1, RecentAlerts DEF AlertsTellStatus
    <3>3. Len(history) > 0 => history[Len(history)] # a
      BY <2>2, <3>1 DEF AlertsTellStatus, Alerts
    <3>4. \A i \in 1 .. Len(history') - 1 : history'[i] # history'[i + 1]
      BY <3>1, <3>2, <3>3
    <3>5. QED
      BY <2>2, <3>2, <3>4 DEF AlertsTellStatus
  <2>3. ASSUME NEW p \in Pings, HandleAnswer(p) PROVE AlertsTellStatus'
    BY <2>1, <2>2, <2>3, HandledAlerts
  <2>4. QED
    BY <2>1, <2>3 DEF CheckNext, checkVars, DatabaseFlips, ToggleWatching, Resume, TickPing, Answer
<1>3. QED
  BY <1>1, <1>2, CheckTyping, PTL DEF CheckSpec

-----------------------------------------------------------------------------
(***************************************************************************)
(* Whoever is connected is watched for.                                    *)
(***************************************************************************)
LEMMA SocketsTypingInit == SocketsInit => SocketsTypeOK
<1> SUFFICES ASSUME SocketsInit PROVE SocketsTypeOK
  OBVIOUS
<1>1. attempts \in 0..MaxAttempts /\ timers \in Nat
  BY SocketAssumption DEF SocketsInit
<1>2. socket \in [Sockets -> {"unused", "opening", "accepted", "open", "closing", "closed"}]
  BY DEF SocketsInit
<1>3. QED
  BY <1>1, <1>2 DEF SocketsInit, SocketsTypeOK

LEMMA SocketsTypingNext == SocketsTypeOK /\ [SocketsNext]_socketVars => SocketsTypeOK'
<1> SUFFICES ASSUME SocketsTypeOK, [SocketsNext]_socketVars PROVE SocketsTypeOK'
  OBVIOUS
<1> USE SocketAssumption DEF SocketsTypeOK
<1> DEFINE States == {"unused", "opening", "accepted", "open", "closing", "closed"}
<1>a. ASSUME NEW old \in [Sockets -> States], Connect(old)
      PROVE  socket' \in [Sockets -> States] /\ current' \in Sockets
  BY <1>a DEF Connect
<1>b. ASSUME NEW c \in Dashboards \union Sockets, NEW old \in [Sockets -> States], Welcome(c, old)
      PROVE  /\ socket' \in [Sockets -> States] /\ current' \in Sockets \union {NoSocket}
             /\ monitoring' \in BOOLEAN /\ byHand' \in BOOLEAN
             /\ clients' \subseteq Dashboards \union Sockets
  BY <1>a, <1>b DEF Welcome, StartMonitoring
<1>c. ASSUME NEW c, Farewell(c)
      PROVE  /\ monitoring' \in BOOLEAN /\ byHand' \in BOOLEAN
             /\ clients' \subseteq Dashboards \union Sockets
  BY <1>c DEF Farewell
<1>1. CASE Listen \/ StartByHand
  BY <1>1, <1>a DEF Listen, StartByHand, StartMonitoring
<1>2. CASE StopByHand \/ IdleTick \/ Closed
  BY <1>2 DEF StopByHand, IdleTick, Closed, internal
<1>3. CASE Reconnect
  <2>1. timers' \in Nat
    BY <1>3 DEF Reconnect
  <2>2. QED
    BY <1>3, <1>a, <2>1 DEF Reconnect
<1>4. CASE Close
  <2>1. timers' \in Nat /\ socket' \in [Sockets -> States]
    BY <1>4 DEF Close
  <2>2. QED
    BY <1>4, <2>1 DEF Close
<1>5. ASSUME NEW d \in Dashboards, DashboardConnects(d) PROVE SocketsTypeOK'
  BY <1>5, <1>b DEF DashboardConnects
<1>6. ASSUME NEW d \in Dashboards, DashboardLeaves(d) PROVE SocketsTypeOK'
  BY <1>6, <1>c DEF DashboardLeaves, internal
<1>7. ASSUME NEW k \in Sockets, AcceptSocket(k) PROVE SocketsTypeOK'
  <2>1. [socket EXCEPT ![k] = "accepted"] \in [Sockets -> States]
    OBVIOUS
  <2>2. QED
    BY <1>7, <1>b, <2>1 DEF AcceptSocket
<1>8. ASSUME NEW k \in Sockets, SocketOpens(k) PROVE SocketsTypeOK'
  BY <1>8 DEF SocketOpens
<1>9. ASSUME NEW k \in Sockets, SocketCloses(k) PROVE SocketsTypeOK'
  <2>1. /\ monitoring' \in BOOLEAN /\ byHand' \in BOOLEAN
        /\ clients' \subseteq Dashboards \union Sockets
    BY <1>9, <1>c DEF SocketCloses
  <2>2. attempts' \in 0..MaxAttempts /\ timers' \in Nat
    BY <1>9 DEF SocketCloses
  <2>3. QED
    BY <1>9, <2>1, <2>2 DEF SocketCloses
<1>10. CASE UNCHANGED socketVars
  BY <1>10 DEF socketVars
<1>11. QED
  BY <1>1, <1>2, <1>3, <1>4, <1>5, <1>6, <1>7, <1>8, <1>9, <1>10 DEF SocketsNext

\* Every reachable state is well typed; reconnections never exceed their limit.
THEOREM SocketsTyping == SocketsSpec => []SocketsTypeOK
<1>1. QED
  BY SocketsTypingInit, SocketsTypingNext, PTL DEF SocketsSpec

LEMMA WatchedNext ==
    WatchedMeansMonitoring /\ SocketsTypeOK /\ [SocketsNext]_socketVars => WatchedMeansMonitoring'
<1> SUFFICES ASSUME WatchedMeansMonitoring, SocketsTypeOK, [SocketsNext]_socketVars
             PROVE  WatchedMeansMonitoring'
  OBVIOUS
<1> USE DEF WatchedMeansMonitoring
<1>1. CASE Listen \/ StartByHand
  BY <1>1 DEF Listen, StartByHand, StartMonitoring
<1>2. CASE StopByHand \/ Close \/ Closed
  BY <1>2 DEF StopByHand, Close, Closed
<1>3. CASE Reconnect \/ IdleTick
  BY <1>3 DEF Reconnect, IdleTick
<1>4. ASSUME NEW c, NEW old, Welcome(c, old), phase = "running", UNCHANGED phase
      PROVE  WatchedMeansMonitoring'
  <2>1. clients # {} \/ clients' = {c}
    BY <1>4 DEF Welcome
  <2>2. QED
    BY <1>4, <2>1 DEF Welcome, StartMonitoring
<1>5. ASSUME NEW c \in clients, Farewell(c), UNCHANGED phase PROVE WatchedMeansMonitoring'
  BY <1>5 DEF Farewell, NobodyLeft
<1>6. ASSUME NEW d \in Dashboards, DashboardConnects(d) \/ DashboardLeaves(d)
      PROVE  WatchedMeansMonitoring'
  BY <1>4, <1>5, <1>6 DEF DashboardConnects, DashboardLeaves
<1>7. ASSUME NEW k \in Sockets, AcceptSocket(k) \/ SocketOpens(k) \/ SocketCloses(k)
      PROVE  WatchedMeansMonitoring'
  BY <1>4, <1>5, <1>7 DEF AcceptSocket, SocketOpens, SocketCloses
<1>8. CASE UNCHANGED socketVars
  BY <1>8 DEF socketVars
<1>9. QED
  BY <1>1, <1>2, <1>3, <1>6, <1>7, <1>8 DEF SocketsNext

\* No order of connections, reconnections and ticks leaves a client unwatched while the
\* server runs and nobody stopped monitoring by hand.
THEOREM ClientsAreWatched == SocketsSpec => []WatchedMeansMonitoring
<1>1. SocketsInit => WatchedMeansMonitoring
  BY DEF SocketsInit, WatchedMeansMonitoring
<1>2. QED
  BY <1>1, WatchedNext, SocketsTyping, PTL DEF SocketsSpec

-----------------------------------------------------------------------------
(***************************************************************************)
(* Side by side, as MCServices runs them.  A step of the run is a step of  *)
(* one service and leaves the variables of the others, so each behaves as  *)
(* its own specification says.  Only the process starts differently in a   *)
(* behaviour of another service: it has ended already.                     *)
(***************************************************************************)
LEMMA ServicesStep ==
    [ServicesNext]_servicesVars =>
        /\ [FollowersNext]_followVars /\ [AccountsNext]_accountVars
        /\ [BookmarksNext]_bookmarkVars /\ [CheckNext]_checkVars
        /\ [SocketsNext]_socketVars /\ [LifecycleNext]_lifeVars
<1> SUFFICES ASSUME [ServicesNext]_servicesVars
             PROVE  /\ [FollowersNext]_followVars /\ [AccountsNext]_accountVars
                    /\ [BookmarksNext]_bookmarkVars /\ [CheckNext]_checkVars
                    /\ [SocketsNext]_socketVars /\ [LifecycleNext]_lifeVars
  OBVIOUS
<1>1. CASE StepOf("followers", FollowersNext,
                  <<accountVars, bookmarkVars, checkVars, socketVars, lifeVars>>)
  BY <1>1 DEF StepOf
<1>2. CASE StepOf("accounts", AccountsNext,
                  <<followVars, bookmarkVars, checkVars, socketVars, lifeVars>>)
  BY <1>2 DEF StepOf
<1>3. CASE StepOf("bookmarks", BookmarksNext,
                  <<followVars, accountVars, checkVars, socketVars, lifeVars>>)
  BY <1>3 DEF StepOf
<1>4. CASE StepOf("checks", CheckNext,
                  <<followVars, accountVars, bookmarkVars, socketVars, lifeVars>>)
  BY <1>4 DEF StepOf
<1>5. CASE StepOf("sockets", SocketsNext,
                  <<followVars, accountVars, bookmarkVars, checkVars, lifeVars>>)
  BY <1>5 DEF StepOf
<1>6. CASE StepOf("lifecycle", LifecycleNext,
                  <<followVars, accountVars, bookmarkVars, checkVars, socketVars>>)
  BY <1>6 DEF StepOf
<1>7. CASE UNCHANGED servicesVars
  BY <1>7 DEF servicesVars
<1>8. QED
  BY <1>1, <1>2, <1>3, <1>4, <1>5, <1>6, <1>7 DEF ServicesNext

\* A process that has ended is one the start may lead to.
LEMMA EndedTyping == ProcessEnded => LifecycleTypeOK
<1> SUFFICES ASSUME ProcessEnded PROVE LifecycleTypeOK
  OBVIOUS
<1>1. tries \in 0 .. 3 /\ outages \in Nat
  BY DEF ProcessEnded
<1>2. /\ halt \in [Signals -> {"none", "sockets", "server", "drain", "database", "exit", "done"}]
      /\ call \in [Calls -> {"none", "open", "served", "failed", "healthy", "unhealthy", "cut"}]
  BY DEF ProcessEnded
<1>3. QED
  BY <1>1, <1>2, MongoIsAStore DEF ProcessEnded, LifecycleTypeOK, Stages

LEMMA ServicesStart ==
    ServicesInit => /\ FollowersInit /\ AccountsInit /\ BookmarksInit /\ CheckInit
                    /\ SocketsInit /\ (LifecycleInit \/ ProcessEnded)
BY DEF ServicesInit

\* A behaviour of the run that checks the services is one of the followers, of the accounts,
\* of the bookmarks and of the database check, each, with the fairness the last two assume:
\* every theorem about one of these is one about that run.
THEOREM ServicesKeepTheirParts ==
    ServicesSpec => FollowersSpec /\ AccountsSpec /\ BookmarksSpec /\ CheckSpec
BY ServicesStart, ServicesStep, PTL
   DEF ServicesSpec, FollowersSpec, AccountsSpec, BookmarksSpec, CheckSpec

\* Users, rows, alerts, sockets and the process are always what they may be.
THEOREM ServicesTyping == ServicesSpec => []ServicesTypesOK
<1>1. ServicesSpec => []SocketsTypeOK
  BY ServicesStart, ServicesStep, SocketsTypingInit, SocketsTypingNext, PTL DEF ServicesSpec
<1>2. ServicesSpec => []LifecycleTypeOK
  BY ServicesStart, ServicesStep, LifecycleTypingInit, EndedTyping, LifecycleTypingNext, PTL
     DEF ServicesSpec
<1>3. QED
  BY ServicesKeepTheirParts, Typing, AccountsTyping, BookmarksTyping, CheckTyping, <1>1, <1>2,
     PTL DEF ServicesTypesOK

\* What is proved of the process and of the sockets holds in that run, too.
THEOREM ServicesKeepTheRest == ServicesSpec => [](LifecycleSound /\ WatchedMeansMonitoring)
<1>1. ProcessEnded => LifecycleInv
  BY EndedTyping DEF ProcessEnded, LifecycleInv, ServerFollowsStart, NoSignalWasEarly, RequestsSurvive
<1>2. LifecycleInv => LifecycleSound
  BY DEF LifecycleInv, NoSignalWasEarly, LifecycleSound, ServesWithDatabase
<1>3. ServicesSpec => []LifecycleSound
  BY ServicesStart, ServicesStep, LifecycleInvInit, <1>1, LifecycleInvNext, <1>2, PTL DEF ServicesSpec
<1>4. SocketsInit => WatchedMeansMonitoring
  BY DEF SocketsInit, WatchedMeansMonitoring
<1>5. ServicesSpec => []WatchedMeansMonitoring
  BY ServicesStart, ServicesStep, <1>4, WatchedNext, ServicesTyping, PTL DEF ServicesSpec, ServicesTypesOK
<1>6. QED
  BY <1>3, <1>5, PTL
=============================================================================

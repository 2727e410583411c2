---------------------------- MODULE MonitorSockets ----------------------------
(***************************************************************************)
(* Who watches the connections, and the shutdown that waits for them.      *)
(*                                                                         *)
(* Monitoring runs while the WebSocket server has a client.  Clients are   *)
(* dashboards and sockets the process opens to itself through              *)
(* InternalWebSocketClient: each start of monitoring opens another one,    *)
(* and the client object remembers only the last.  Shutdown closes that    *)
(* one and waits until the server has no client left.                      *)
(***************************************************************************)
EXTENDS Naturals, FiniteSets

CONSTANTS
    Dashboards,
    Sockets,            \* sockets the process ever opens to itself, a bound
    NoSocket,
    MaxAttempts         \* maxReconnectAttempts

ASSUME SocketAssumption == NoSocket \notin Sockets /\ MaxAttempts \in Nat

VARIABLES
    phase,              \* of the server
    monitoring,         \* isMonitoring
    byHand,             \* the stop endpoint stopped monitoring last
    clients,            \* the server's side: connected dashboards and sockets
    socket,             \* socket[k]: the process's side of an internal socket
    current,            \* InternalWebSocketClient.client
    linked,             \* isConnected
    shutting,           \* isShuttingDown
    attempts,           \* reconnectAttempts
    timers              \* reconnections scheduled

socketVars == <<phase, monitoring, byHand, clients, socket, current, linked, shutting,
                attempts, timers>>
internal == <<socket, current, linked, shutting, attempts, timers>>

SocketsInit ==
    /\ phase = "starting"
    /\ monitoring = FALSE /\ byHand = FALSE
    /\ clients = {}
    /\ socket = [k \in Sockets |-> "unused"]
    /\ current = NoSocket
    /\ linked = FALSE /\ shutting = FALSE
    /\ attempts = 0 /\ timers = 0

-----------------------------------------------------------------------------
\* connect: a new socket replaces the remembered one; the old one is not closed.
Connect(sockets) ==
    \E k \in Sockets :
        /\ sockets[k] = "unused"
        /\ socket' = [sockets EXCEPT ![k] = "opening"]
        /\ current' = k

StartMonitoring(sockets) ==
    /\ monitoring' = TRUE /\ byHand' = FALSE
    /\ Connect(sockets)

\* startServer listens, then starts monitoring.
Listen ==
    /\ phase = "starting"
    /\ phase' = "running"
    /\ StartMonitoring(socket)
    /\ UNCHANGED <<clients, linked, shutting, attempts, timers>>

\* The endpoints of monitoringController, served until the process exits; starting twice
\* only warns.
StartByHand ==
    /\ phase \in {"running", "closing"} /\ ~monitoring
    /\ StartMonitoring(socket)
    /\ UNCHANGED <<phase, clients, linked, shutting, attempts, timers>>

StopByHand ==
    /\ phase \in {"running", "closing"}
    /\ monitoring' = FALSE
    /\ byHand' = TRUE
    /\ UNCHANGED <<phase, clients, socket, current, linked, shutting, attempts, timers>>

\* handleConnection: the first client starts monitoring unless it runs.
Welcome(c, sockets) ==
    /\ clients' = clients \union {c}
    /\ IF clients' = {c} /\ ~monitoring THEN StartMonitoring(sockets)
       ELSE socket' = sockets /\ UNCHANGED <<monitoring, byHand, current>>

\* Mutant: any client that leaves stops monitoring.
MutantStopsAlways(left) == TRUE
NobodyLeft(left) == left = {}

\* The 'close' handler: the last client stops monitoring.
Farewell(c) ==
    /\ clients' = clients \ {c}
    /\ monitoring' = (monitoring /\ ~NobodyLeft(clients'))
    /\ UNCHANGED byHand

DashboardConnects(d) ==
    /\ phase = "running" /\ d \notin clients
    /\ Welcome(d, socket)
    /\ UNCHANGED <<phase, linked, shutting, attempts, timers>>

DashboardLeaves(d) ==
    /\ d \in clients
    /\ Farewell(d)
    /\ UNCHANGED <<phase, internal>>

\* The server sees an internal socket first, then the process's side opens.
AcceptSocket(k) ==
    /\ phase = "running" /\ socket[k] = "opening"
    /\ Welcome(k, [socket EXCEPT ![k] = "accepted"])
    /\ UNCHANGED <<phase, linked, shutting, attempts, timers>>

SocketOpens(k) ==
    /\ socket[k] = "accepted"
    /\ socket' = [socket EXCEPT ![k] = "open"]
    /\ linked' = TRUE
    /\ attempts' = 0
    /\ UNCHANGED <<phase, monitoring, byHand, clients, current, shutting, timers>>

\* A socket that fails, is refused, or is closed by either side; the client object does
\* not ask whether it was the one it remembers.
SocketCloses(k) ==
    /\ socket[k] \in {"opening", "accepted", "open", "closing"}
    /\ socket' = [socket EXCEPT ![k] = "closed"]
    /\ linked' = FALSE
    /\ IF ~shutting /\ attempts < MaxAttempts
       THEN attempts' = attempts + 1 /\ timers' = timers + 1
       ELSE UNCHANGED <<attempts, timers>>
    /\ IF k \in clients THEN Farewell(k) ELSE UNCHANGED <<clients, monitoring, byHand>>
    /\ UNCHANGED <<phase, current, shutting>>

Reconnect ==
    /\ timers > 0
    /\ timers' = timers - 1
    /\ Connect(socket)
    /\ UNCHANGED <<phase, monitoring, byHand, clients, linked, shutting, attempts>>

\* The timer of the monitoring stops it when there is nobody to watch for.
IdleTick ==
    /\ monitoring /\ clients = {}
    /\ ~(linked /\ current # NoSocket /\ socket[current] = "open")
    /\ monitoring' = FALSE
    /\ UNCHANGED <<phase, byHand, clients, internal>>

-----------------------------------------------------------------------------
\* SIGTERM: monitoring stops, the remembered socket is closed, the last timer is cleared,
\* and the server takes no more connections.
Close ==
    /\ phase = "running"
    /\ phase' = "closing"
    /\ monitoring' = FALSE /\ byHand' = FALSE
    /\ shutting' = TRUE /\ linked' = FALSE
    /\ timers' = IF timers > 0 THEN timers - 1 ELSE 0
    /\ socket' = IF current # NoSocket /\ socket[current] \in {"opening", "accepted", "open"}
                 THEN [socket EXCEPT ![current] = "closing"] ELSE socket
    /\ current' = NoSocket
    /\ UNCHANGED <<clients, attempts>>

\* wss.close calls back when the last client is gone; then the HTTP server and the
\* database are closed and the process exits.
Closed ==
    /\ phase = "closing" /\ clients = {}
    /\ phase' = "closed"
    /\ UNCHANGED <<monitoring, byHand, clients, internal>>

SocketsNext ==
    \/ Listen \/ StartByHand \/ StopByHand \/ Reconnect \/ IdleTick \/ Close \/ Closed
    \/ \E d \in Dashboards : DashboardConnects(d) \/ DashboardLeaves(d)
    \/ \E k \in Sockets : AcceptSocket(k) \/ SocketOpens(k) \/ SocketCloses(k)

\* Nobody need connect or stop anything and no socket need fail; a closing handshake
\* ends, every dashboard leaves sooner or later, and a server without clients closes.
SocketsFairness ==
    /\ WF_socketVars(Closed)
    /\ \A d \in Dashboards : WF_socketVars(DashboardLeaves(d))
    /\ \A k \in Sockets : WF_socketVars(socket[k] \in {"opening", "closing"} /\ SocketCloses(k))

SocketsSpec == SocketsInit /\ [][SocketsNext]_socketVars /\ SocketsFairness

-----------------------------------------------------------------------------
SocketsTypeOK ==
    /\ phase \in {"starting", "running", "closing", "closed"}
    /\ monitoring \in BOOLEAN /\ byHand \in BOOLEAN
    /\ linked \in BOOLEAN /\ shutting \in BOOLEAN
    /\ clients \subseteq Dashboards \union Sockets
    /\ socket \in [Sockets -> {"unused", "opening", "accepted", "open", "closing", "closed"}]
    /\ current \in Sockets \union {NoSocket}
    /\ attempts \in 0..MaxAttempts /\ timers \in Nat

\* As long as the server runs and nobody stopped monitoring by hand, whoever is connected
\* is watched for: no order of connections, reconnections and ticks leaves a client
\* looking at statuses that no longer change.
WatchedMeansMonitoring ==
    phase = "running" /\ clients # {} /\ ~byHand => monitoring

\* close is documented as "Graceful shutdown: closes WebSocket server, disconnects
\* internal client, stops monitoring": once begun it is completed.
ShutdownEnds == phase = "closing" ~> phase = "closed"
=============================================================================

----------------------------- MODULE Lifecycle -----------------------------
(***************************************************************************)
(* The life of the server process: APP.ts starts it step by step, and a    *)
(* SIGTERM or SIGINT stops it.  Each signal runs a handler of its own,     *)
(* beside the start and beside one another, and ends the process at its    *)
(* last step, whatever else is under way.  The database is needed to       *)
(* start; storage, cache and search index are not.                         *)
(*                                                                         *)
(* Closing the monitoring sockets is a step that ends: MonitorSockets is   *)
(* about when it does.                                                     *)
(***************************************************************************)
EXTENDS Integers

CONSTANTS
    Signals,     \* signals that may come
    Calls,       \* requests that clients may send
    Stores,      \* databases the process may be configured for
    MaxOutages   \* how often the database goes away

ASSUME LifecycleAssumption == Stores \subseteq {"mongo", "postgres"} /\ MaxOutages \in Nat

VARIABLES
    base,     \* the database configured
    stage,    \* of startServer
    tries,    \* attempts to connect
    adapter,  \* the adapter holds a connection
    link,     \* the database answers
    outages,  \* how often it went away
    server,   \* the HTTP server
    halt,     \* where each signal's handler is
    call,     \* where each request is
    early     \* a signal came before the server listened

lifeVars == <<base, stage, tries, adapter, link, outages, server, halt, call, early>>

Stages == {"config", "connect", "storage", "index", "listen", "serving", "leaving", "exited"}

LifecycleInit ==
    /\ base \in Stores /\ stage = "config" /\ tries = 0
    /\ adapter = FALSE /\ link = TRUE /\ outages = 0
    /\ server = "none"
    /\ halt = [g \in Signals |-> "none"]
    /\ call = [c \in Calls |-> "none"]
    /\ early = FALSE

Alive == stage # "exited"

\* process.exit: requests in progress are cut off.
Exit ==
    /\ stage' = "exited"
    /\ server' = IF server = "none" THEN "none" ELSE "closed"
    /\ call' = [c \in Calls |-> IF call[c] = "open" THEN "cut" ELSE call[c]]

-----------------------------------------------------------------------------
(***************************************************************************)
(* The start.                                                              *)
(***************************************************************************)
StageGoes(next) ==
    stage' = next /\ UNCHANGED <<base, adapter, link, outages, server, halt, call, early>>

\* initializeContainer: no configuration, no start.  Without queue or tracker it goes on.
Bootstrap ==
    /\ stage = "config"
    /\ \/ StageGoes("connect") /\ tries' = 1
       \/ StageGoes("leaving") /\ UNCHANGED tries

\* The connection is made in the time the start allows it.
ConnectDatabase ==
    /\ stage = "connect" /\ link
    /\ stage' = "storage" /\ adapter' = TRUE
    /\ UNCHANGED <<base, tries, link, outages, server, halt, call, early>>

Attempts == IF base = "mongo" THEN 3 ELSE 1

\* An attempt fails at once: MongoDBAdapter has three.
ConnectFails ==
    /\ stage = "connect"
    /\ IF tries < Attempts THEN tries' = tries + 1 /\ StageGoes("connect")
       ELSE UNCHANGED tries /\ StageGoes("leaving")

\* The start's own fifteen seconds are over, with whatever attempts are left.
ConnectTimesOut == stage = "connect" /\ UNCHANGED tries /\ StageGoes("leaving")

\* Storage and index are looked for, each with a limit of its own; that they are missing
\* is only logged.
CheckStorage == stage = "storage" /\ UNCHANGED tries /\ StageGoes("index")
CheckIndex == stage = "index" /\ UNCHANGED tries /\ StageGoes("listen")

\* Mutant: the server listens while the connection is still being made.
MutantListensEarly ==
    /\ stage \in {"connect", "listen"} /\ stage' = "serving" /\ server' = "listening"
    /\ UNCHANGED <<base, tries, adapter, link, outages, halt, call, early>>

StartListening ==
    /\ stage = "listen" /\ stage' = "serving" /\ server' = "listening"
    /\ UNCHANGED <<base, tries, adapter, link, outages, halt, call, early>>

\* Mutant: a start that failed disconnects and stays.
MutantStays ==
    /\ stage = "leaving" /\ adapter' = FALSE
    /\ UNCHANGED <<base, stage, tries, link, outages, server, halt, call, early>>

\* A start that failed disconnects what was connected and exits.
Leave ==
    /\ stage = "leaving"
    /\ Exit /\ adapter' = FALSE
    /\ UNCHANGED <<base, tries, link, outages, halt, early>>

-----------------------------------------------------------------------------
(***************************************************************************)
(* gracefulShutdown.                                                       *)
(***************************************************************************)
At(g, from, to) == halt[g] = from /\ Alive /\ halt' = [halt EXCEPT ![g] = to]

\* Before the configuration is there, there is no application to shut down.
Signal(g) ==
    /\ At(g, "none", IF stage = "config" THEN "database" ELSE "sockets")
    /\ early' = (early \/ server = "none")
    /\ UNCHANGED <<base, stage, tries, adapter, link, outages, server, call>>

CloseSockets(g) ==
    /\ At(g, "sockets", "server")
    /\ UNCHANGED <<base, stage, tries, adapter, link, outages, server, call, early>>

\* server.close: no new requests; without a server there is nothing to wait for.
CloseServer(g) ==
    /\ At(g, "server", IF server = "none" THEN "database" ELSE "drain")
    /\ server' = IF server = "listening" THEN "closing" ELSE server
    /\ UNCHANGED <<base, stage, tries, adapter, link, outages, call, early>>

\* Mutant: the shutdown does not wait for the requests in progress.
MutantDoesNotWait(c) == TRUE

Waited(c) == call[c] # "open"

ServerClosed(g) ==
    /\ At(g, "drain", "database") /\ \A c \in Calls : Waited(c)
    /\ server' = "closed"
    /\ UNCHANGED <<base, stage, tries, adapter, link, outages, call, early>>

\* Errors of the disconnection are swallowed.
Disconnect(g) ==
    /\ At(g, "database", "exit")
    /\ adapter' = FALSE
    /\ UNCHANGED <<base, stage, tries, link, outages, server, call, early>>

ExitBySignal(g) ==
    /\ At(g, "exit", "done") /\ Exit
    /\ UNCHANGED <<base, tries, adapter, link, outages, early>>

-----------------------------------------------------------------------------
(***************************************************************************)
(* Requests and the database.                                              *)
(***************************************************************************)
\* MongoDBAdapter's connection is the requests' own; on PostgreSQL they use Prisma's pool.
Usable == link /\ (base = "mongo" => adapter)

Arrive(c) ==
    /\ Alive /\ server = "listening" /\ call[c] = "none"
    /\ call' = [call EXCEPT ![c] = "open"]
    /\ UNCHANGED <<base, stage, tries, adapter, link, outages, server, halt, early>>

Answered(c, how) ==
    /\ Alive /\ call[c] = "open"
    /\ call' = [call EXCEPT ![c] = how]
    /\ UNCHANGED <<base, stage, tries, adapter, link, outages, server, halt, early>>

Serve(c) == Answered(c, IF Usable THEN "served" ELSE "failed")

\* The health check asks the adapter whether it is connected: on Mongo the driver knows, on
\* PostgreSQL a flag that an outage leaves alone.
Connected == adapter /\ (base = "mongo" => link)
CheckHealth(c) == Answered(c, IF Connected THEN "healthy" ELSE "unhealthy")

Outage ==
    /\ Alive /\ link /\ outages < MaxOutages
    /\ link' = FALSE /\ outages' = outages + 1
    /\ UNCHANGED <<base, stage, tries, adapter, server, halt, call, early>>

Return ==
    /\ Alive /\ ~link /\ link' = TRUE
    /\ UNCHANGED <<base, stage, tries, adapter, outages, server, halt, call, early>>

Start ==
    \/ Bootstrap \/ ConnectDatabase \/ ConnectFails \/ ConnectTimesOut
    \/ CheckStorage \/ CheckIndex \/ StartListening \/ Leave

ShutDown(g) ==
    \/ CloseSockets(g) \/ CloseServer(g) \/ ServerClosed(g) \/ Disconnect(g) \/ ExitBySignal(g)

LifecycleNext ==
    \/ Start
    \/ \E g \in Signals : Signal(g) \/ ShutDown(g)
    \/ \E c \in Calls : Arrive(c) \/ Serve(c) \/ CheckHealth(c)
    \/ Outage \/ Return

\* Every step of start and shutdown is a promise that settles; handlers answer.
LifecycleFairness ==
    /\ WF_lifeVars(Start)
    /\ \A g \in Signals : WF_lifeVars(ShutDown(g))
    /\ \A c \in Calls : WF_lifeVars(Serve(c) \/ CheckHealth(c))

LifecycleSpec == LifecycleInit /\ [][LifecycleNext]_lifeVars /\ LifecycleFairness

LifecycleTypeOK ==
    /\ base \in Stores /\ stage \in Stages /\ tries \in 0 .. 3
    /\ adapter \in BOOLEAN /\ link \in BOOLEAN /\ outages \in Nat
    /\ server \in {"none", "listening", "closing", "closed"}
    /\ halt \in [Signals -> {"none", "sockets", "server", "drain", "database", "exit", "done"}]
    /\ call \in [Calls -> {"none", "open", "served", "failed", "healthy", "unhealthy", "cut"}]
    /\ early \in BOOLEAN

-----------------------------------------------------------------------------
\* A request that was accepted is answered, and answered with its database, however many
\* signals come ("Shutting down gracefully"): only a signal that came before the server
\* listened, or an outage, can take them away.
RequestsSurvive ==
    \A c \in Calls :
        /\ call[c] = "cut" => early
        /\ call[c] = "failed" => early \/ outages > 0
        /\ call[c] = "unhealthy" => early \/ (base = "mongo" /\ outages > 0)

\* No server listens without a database connection having been made.
ServesWithDatabase == server \in {"listening", "closing"} /\ ~early => adapter

LifecycleSound == RequestsSurvive /\ ServesWithDatabase

\* A start ends, in a server that listens or in the end of the process, and a signal that
\* came before that or later ends the process.
LifecycleEnds ==
    /\ <>(stage \in {"serving", "exited"})
    /\ (\E g \in Signals : halt[g] # "none") ~> stage = "exited"
=============================================================================

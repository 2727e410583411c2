------------------------------ MODULE Searches ------------------------------
(***************************************************************************)
(* Searches beside the model they may use.  A smart search asks            *)
(* Elasticsearch whether the ELSER model is deployed and adds semantic     *)
(* clauses if it is; administrators download and deploy the model; the     *)
(* cluster loads it, stops it and fails in its own time.  Whatever goes    *)
(* wrong with the index, questions are searched in the database and no     *)
(* answers are found.  Every call to the cluster is a step.                *)
(***************************************************************************)
EXTENDS Integers

CONSTANTS
    MaxSearches,  \* how many searches are made
    MaxTickets,     \* how many requests the administrators make
    MaxTurns      \* how often the cluster fails or gives the model up

ASSUME SearchesAssumption == MaxSearches \in Nat /\ MaxTickets \in Nat /\ MaxTurns \in Nat

VARIABLES
    enabled,    \* Elasticsearch is switched on in the configuration
    reachable,  \* the cluster answers
    model,      \* the model in the cluster
    find,       \* the search in progress or the last one
    ticket,       \* the administrator's request in progress or the last
    searches, tickets, turns  \* counters

serviceVars == <<enabled, reachable, model, find, ticket, searches, tickets, turns>>

ModelStates == {"absent", "downloading", "downloaded", "starting", "started"}

\* Mutant: being there is taken for being deployed.
MutantRegistered(m) == m # "absent"

\* What getTrainedModelsStats calls deployed: 'starting' counts.
Allocated(m) == m \in {"starting", "started"}

NoFind == [pc |-> "done", of |-> "questions", smart |-> FALSE, long |-> FALSE,
           semantic |-> FALSE, warned |-> FALSE, from |-> "nobody",
           calm |-> TRUE, before |-> "absent"]
NoTicket == [pc |-> "done", of |-> "status", told |-> "nothing", seen |-> FALSE]

SearchesInit ==
    /\ enabled \in BOOLEAN /\ reachable = TRUE
    /\ model \in {"absent", "downloaded", "started"}
    /\ find = NoFind /\ ticket = NoTicket
    /\ searches = 0 /\ tickets = 0 /\ turns = 0

cluster == <<enabled, reachable, model, turns>>

-----------------------------------------------------------------------------
(***************************************************************************)
(* A search.                                                               *)
(***************************************************************************)
\* calm: nothing changed in the cluster since the search began (before: the model then).
Begun(of, smart, long) ==
    [NoFind EXCEPT !.pc = "ensure", !.of = of, !.smart = smart, !.long = long,
                   !.calm = reachable, !.before = model]

StartSearch(of, smart, long) ==
    /\ find.pc = "done" /\ searches < MaxSearches
    /\ find' = Begun(of, smart, long)
    /\ searches' = searches + 1
    /\ UNCHANGED <<cluster, ticket, tickets>>

FindGoes(f) == find' = f /\ UNCHANGED <<cluster, ticket, searches, tickets>>

\* An error of the index: questions are looked up by title, answers are given up.
FellBack(f) ==
    [f EXCEPT !.pc = "done", !.warned = FALSE,
              !.from = IF f.of = "questions" THEN "database" ELSE "nowhere"]

EnsureIndex ==
    /\ find.pc = "ensure"
    /\ FindGoes(IF ~enabled \/ ~reachable \/ find.long THEN FellBack(find)
                ELSE [find EXCEPT !.pc = IF find.smart THEN "registered" ELSE "query"])

\* Not deployed, or not known to be: search without semantic clauses and say so.
Unaided(f) == [f EXCEPT !.pc = "query", !.warned = TRUE]

\* isModelDeployed: first whether the model is there, then whether it is deployed.
FindRegistered ==
    /\ find.pc = "registered"
    /\ FindGoes(IF reachable /\ model # "absent" THEN [find EXCEPT !.pc = "deployed"]
                ELSE Unaided(find))

FindDeployed ==
    /\ find.pc = "deployed"
    /\ FindGoes(IF reachable /\ Allocated(model)
                THEN [find EXCEPT !.pc = "query", !.semantic = TRUE]
                ELSE Unaided(find))

\* The cluster refuses a semantic clause unless the model has started.
Query ==
    /\ find.pc = "query"
    /\ FindGoes(IF ~reachable \/ (find.semantic /\ model # "started") THEN FellBack(find)
                ELSE [find EXCEPT !.pc = "done", !.from = "index"])

Stirred == [find EXCEPT !.calm = find.pc = "done" /\ find.calm]

-----------------------------------------------------------------------------
(***************************************************************************)
(* The administrators.                                                     *)
(***************************************************************************)
StartTicket(of) ==
    /\ ticket.pc = "done" /\ tickets < MaxTickets
    /\ ticket' = [NoTicket EXCEPT !.pc = "registered", !.of = of, !.seen = Allocated(model)]
    /\ tickets' = tickets + 1
    /\ UNCHANGED <<cluster, find, searches>>

TicketGoes(t) == ticket' = t /\ UNCHANGED <<enabled, reachable, turns, searches, tickets>>
ModelIs(m) == model' = m /\ find' = Stirred
Told(what) == [ticket EXCEPT !.pc = "done", !.told = what]

\* After isModelDeployed: the status is told; a deployment looks again or starts.
Assessed(deployed) ==
    IF ticket.of = "status" THEN Told(IF deployed THEN "deployed" ELSE "not deployed")
    ELSE [ticket EXCEPT !.pc = IF deployed THEN "again" ELSE "start"]

TicketRegistered ==
    /\ ticket.pc = "registered" /\ ticket.of # "download"
    /\ TicketGoes(IF reachable /\ model # "absent" THEN [ticket EXCEPT !.pc = "deployed"]
                ELSE Assessed(FALSE))
    /\ UNCHANGED <<model, find>>

TicketDeployed ==
    /\ ticket.pc = "deployed"
    /\ TicketGoes(Assessed(reachable /\ Allocated(model)))
    /\ UNCHANGED <<model, find>>

\* deployModel reads the state once more; any state at all will do.
LookAgain ==
    /\ ticket.pc = "again"
    /\ TicketGoes(IF reachable /\ Allocated(model) THEN Told("deployed")
                ELSE [ticket EXCEPT !.pc = "start"])
    /\ UNCHANGED <<model, find>>

\* startTrainedModelDeployment waits until the model has started, five minutes at most.
\* Of a deployment that exists already the cluster may say so in words the code knows.
StartModel ==
    /\ ticket.pc = "start"
    /\ \/ /\ reachable /\ model = "downloaded"
          /\ ModelIs("starting")
          /\ TicketGoes([ticket EXCEPT !.pc = "wait", !.seen = TRUE])
       \/ /\ reachable /\ Allocated(model)
          /\ \E answer \in {"deployed", "error"} : TicketGoes(Told(answer))
          /\ UNCHANGED <<model, find>>
       \/ /\ ~reachable \/ model \in {"absent", "downloading"}
          /\ TicketGoes(Told("error"))
          /\ UNCHANGED <<model, find>>

AwaitModel ==
    /\ ticket.pc = "wait"
    /\ \/ reachable /\ model = "started" /\ TicketGoes(Told("deployed"))
       \/ TicketGoes(Told("error"))
    /\ UNCHANGED <<model, find>>

\* downloadModel: nothing to do if the model is there; otherwise a request that may fail.
CheckDownload ==
    /\ ticket.pc = "registered" /\ ticket.of = "download"
    /\ TicketGoes(IF ~reachable THEN Told("error")
                ELSE IF model # "absent" THEN Told("downloading")
                ELSE [ticket EXCEPT !.pc = "fetch"])
    /\ UNCHANGED <<model, find>>

FetchModel ==
    /\ ticket.pc = "fetch"
    /\ \/ /\ reachable
          /\ ModelIs(IF model = "absent" THEN "downloading" ELSE model)
          /\ TicketGoes(Told("downloading"))
       \/ TicketGoes(Told("error")) /\ UNCHANGED <<model, find>>

-----------------------------------------------------------------------------
(***************************************************************************)
(* The cluster.                                                            *)
(***************************************************************************)
Stirs(up, m) ==
    /\ reachable' = up /\ model' = m
    /\ find' = Stirred
    /\ ticket' = [ticket EXCEPT !.seen = ticket.seen \/ (ticket.pc # "done" /\ Allocated(m))]
    /\ UNCHANGED <<enabled, searches, tickets>>

Progresses ==
    /\ reachable /\ turns' = turns
    /\ \/ model = "downloading" /\ Stirs(TRUE, "downloaded")
       \/ model = "starting" /\ Stirs(TRUE, "started")

FallsBack ==
    /\ reachable /\ turns < MaxTurns /\ turns' = turns + 1
    /\ \/ Allocated(model) /\ Stirs(TRUE, "downloaded")
       \/ model = "downloaded" /\ Stirs(TRUE, "absent")
       \/ Stirs(FALSE, model)

Recovers == ~reachable /\ turns' = turns /\ Stirs(TRUE, model)

SearchesNext ==
    \/ \E of \in {"questions", "answers"}, smart, long \in BOOLEAN : StartSearch(of, smart, long)
    \/ EnsureIndex \/ FindRegistered \/ FindDeployed \/ Query
    \/ \E of \in {"status", "deploy", "download"} : StartTicket(of)
    \/ TicketRegistered \/ TicketDeployed \/ LookAgain \/ StartModel \/ AwaitModel
    \/ CheckDownload \/ FetchModel
    \/ Progresses \/ FallsBack \/ Recovers

SearchesSpec == SearchesInit /\ [][SearchesNext]_serviceVars

SearchesTypeOK ==
    /\ enabled \in BOOLEAN /\ reachable \in BOOLEAN /\ model \in ModelStates
    /\ find \in [pc : {"ensure", "registered", "deployed", "query", "done"},
                 of : {"questions", "answers"}, smart : BOOLEAN, long : BOOLEAN,
                 semantic : BOOLEAN, warned : BOOLEAN,
                 from : {"nobody", "index", "database", "nowhere"},
                 calm : BOOLEAN, before : ModelStates]
    /\ ticket \in [pc : {"registered", "deployed", "again", "start", "wait", "fetch", "done"},
                 of : {"status", "deploy", "download"},
                 told : {"nothing", "deployed", "not deployed", "downloading", "error"},
                 seen : BOOLEAN]
    /\ searches \in Nat /\ tickets \in Nat /\ turns \in Nat

-----------------------------------------------------------------------------
\* A search of the index that meets no fault is answered by the index, smart or not, and
\* a smart one says that it went without the model exactly when it did.  A model that is
\* only just starting is the exception: it counts as deployed and cannot be used.
UndisturbedSearches ==
    find.pc = "done" /\ find.from # "nobody" /\ find.calm /\ enabled /\ ~find.long =>
        \/ find.smart /\ find.before = "starting"
        \/ /\ find.from = "index"
           /\ find.warned <=> find.smart /\ find.before # "started"

\* Whatever happens meanwhile: a search is answered by one source; only the index's answer
\* carries the warning, and then no semantic clause was used; an answer of the index to a
\* smart search without the warning did use the model.
WarningsAreTrue ==
    find.pc = "done" /\ find.from # "nobody" =>
        /\ find.warned => find.from = "index" /\ ~find.semantic
        /\ find.from = "index" /\ find.smart /\ ~find.warned => find.semantic

\* Who is told that the model is deployed asked when it was, or it came to be meanwhile.
DeployedIsTrue == ticket.told = "deployed" => ticket.seen

\* The answers of the search and of the administration agree with the cluster.
SmartSearchHolds == UndisturbedSearches /\ WarningsAreTrue /\ DeployedIsTrue
=============================================================================

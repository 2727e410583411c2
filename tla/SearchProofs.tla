---------------------------- MODULE SearchProofs ----------------------------
(***************************************************************************)
(* Theorems about searching, for any contents and any bounds: what a search*)
(* tells beside the model it may use (Searches), and what the clauses of a *)
(* query find (SearchQueries); and that what is proved of these two and of *)
(* the content tree holds of them side by side, as MCSearch runs them.     *)
(***************************************************************************)
EXTENDS MCSearch, ContentTreeProofs, SequenceTheorems

-----------------------------------------------------------------------------
(***************************************************************************)
(* Searches: typing.                                                       *)
(***************************************************************************)
Finds == [pc : {"ensure", "registered", "deployed", "query", "done"},
          of : {"questions", "answers"}, smart : BOOLEAN, long : BOOLEAN,
          semantic : BOOLEAN, warned : BOOLEAN,
          from : {"nobody", "index", "database", "nowhere"},
          calm : BOOLEAN, before : ModelStates]
Tickets == [pc : {"registered", "deployed", "again", "start", "wait", "fetch", "done"},
            of : {"status", "deploy", "download"},
            told : {"nothing", "deployed", "not deployed", "downloading", "error"},
            seen : BOOLEAN]

LEMMA SearchesTypingInit == SearchesInit => SearchesTypeOK
BY DEF SearchesInit, SearchesTypeOK, NoFind, NoTicket, ModelStates

LEMMA StirredType == SearchesTypeOK => Stirred \in Finds
BY DEF SearchesTypeOK, Stirred, Finds

LEMMA SearchesTypingNext == SearchesTypeOK /\ [SearchesNext]_serviceVars => SearchesTypeOK'
<1> SUFFICES ASSUME SearchesTypeOK, [SearchesNext]_serviceVars PROVE SearchesTypeOK'
  OBVIOUS
<1>0. /\ enabled \in BOOLEAN /\ reachable \in BOOLEAN /\ model \in ModelStates
      /\ find \in Finds /\ ticket \in Tickets
      /\ searches \in Nat /\ tickets \in Nat /\ turns \in Nat
  BY DEF SearchesTypeOK, Finds, Tickets
<1>c. ASSUME enabled' \in BOOLEAN, reachable' \in BOOLEAN, model' \in ModelStates,
             find' \in Finds, ticket' \in Tickets,
             searches' \in Nat, tickets' \in Nat, turns' \in Nat
      PROVE  SearchesTypeOK'
  BY <1>c DEF SearchesTypeOK, Finds, Tickets
<1>a. ASSUME UNCHANGED <<cluster, ticket, tickets>>, find' \in Finds, searches' \in Nat
      PROVE  SearchesTypeOK'
  BY <1>0, <1>a DEF SearchesTypeOK, cluster, Finds, Tickets
<1>b. ASSUME UNCHANGED <<enabled, reachable, turns, searches, tickets>>,
             model' \in ModelStates, find' \in Finds, ticket' \in Tickets
      PROVE  SearchesTypeOK'
  BY <1>0, <1>b DEF SearchesTypeOK, Finds, Tickets
<1>1. ASSUME NEW of \in {"questions", "answers"}, NEW smart \in BOOLEAN, NEW long \in BOOLEAN,
             StartSearch(of, smart, long)
      PROVE  SearchesTypeOK'
  <2>1. find' = [NoFind EXCEPT !.pc = "ensure", !.of = of, !.smart = smart, !.long = long,
                               !.calm = reachable, !.before = model]
    BY <1>1 DEF StartSearch, Begun
  <2>2. find' \in Finds
    <3>1. find' = [pc |-> "ensure", of |-> of, smart |-> smart, long |-> long,
                   semantic |-> FALSE, warned |-> FALSE, from |-> "nobody",
                   calm |-> reachable, before |-> model]
      BY <2>1 DEF NoFind
    <3>2. QED
      BY <1>0, <3>1 DEF Finds
  <2>3. searches' \in Nat
    BY <1>0, <1>1 DEF StartSearch
  <2>4. QED
    BY <1>1, <1>a, <2>2, <2>3 DEF StartSearch
<1>2. CASE EnsureIndex
  BY <1>0, <1>2, <1>a DEF EnsureIndex, FindGoes, FellBack, Finds
<1>3. CASE FindRegistered
  BY <1>0, <1>3, <1>a DEF FindRegistered, FindGoes, Unaided, Finds
<1>4. CASE FindDeployed
  BY <1>0, <1>4, <1>a DEF FindDeployed, FindGoes, Unaided, Finds
<1>5. CASE Query
  BY <1>0, <1>5, <1>a DEF Query, FindGoes, FellBack, Finds
<1>6. ASSUME NEW of \in {"status", "deploy", "download"}, StartTicket(of)
      PROVE  SearchesTypeOK'
  <2> DEFINE seen == Allocated(model)
  <2>1. seen \in BOOLEAN
    BY DEF Allocated
  <2>2. ticket' = [NoTicket EXCEPT !.pc = "registered", !.of = of, !.seen = seen]
    BY <1>6 DEF StartTicket
  <2> HIDE DEF seen
  <2>3. ticket' \in Tickets
    BY <2>1, <2>2 DEF NoTicket, Tickets
  <2>4. tickets' \in Nat
    BY <1>0, <1>6 DEF StartTicket
  <2>5. QED
    BY <1>0, <1>6, <1>c, <2>3, <2>4 DEF StartTicket, cluster
<1>7. CASE TicketRegistered
  <2>1. ticket' \in Tickets
    BY <1>0, <1>7 DEF TicketRegistered, TicketGoes, Assessed, Told, Tickets
  <2>2. QED
    BY <1>0, <1>7, <1>b, <2>1 DEF TicketRegistered, TicketGoes
<1>8. CASE TicketDeployed
  <2>1. ticket' \in Tickets
    BY <1>0, <1>8 DEF TicketDeployed, TicketGoes, Assessed, Told, Tickets
  <2>2. QED
    BY <1>0, <1>8, <1>b, <2>1 DEF TicketDeployed, TicketGoes
<1>9. CASE LookAgain
  BY <1>0, <1>9, <1>b DEF LookAgain, TicketGoes, Told, Tickets
<1>10. CASE StartModel
  <2>1. ticket' \in Tickets
    BY <1>0, <1>10 DEF StartModel, TicketGoes, Told, Tickets
  <2>2. model' \in ModelStates /\ find' \in Finds
    BY <1>0, <1>10, StirredType DEF StartModel, ModelIs, ModelStates
  <2>3. QED
    BY <1>10, <1>b, <2>1, <2>2 DEF StartModel, TicketGoes
<1>11. CASE AwaitModel
  BY <1>0, <1>11, <1>b DEF AwaitModel, TicketGoes, Told, Tickets
<1>12. CASE CheckDownload
  BY <1>0, <1>12, <1>b DEF CheckDownload, TicketGoes, Told, Tickets
<1>13. CASE FetchModel
  <2>1. ticket' \in Tickets
    BY <1>0, <1>13 DEF FetchModel, TicketGoes, Told, Tickets
  <2>2. model' \in ModelStates /\ find' \in Finds
    BY <1>0, <1>13, StirredType DEF FetchModel, ModelIs, ModelStates
  <2>3. QED
    BY <1>13, <1>b, <2>1, <2>2 DEF FetchModel, TicketGoes
<1>14. ASSUME NEW up \in BOOLEAN, NEW m \in ModelStates, Stirs(up, m), turns' \in Nat
       PROVE  SearchesTypeOK'
  <2>1. find' \in Finds /\ reachable' \in BOOLEAN /\ model' \in ModelStates
    BY <1>14, StirredType DEF Stirs
  <2>2. ticket' \in Tickets
    BY <1>0, <1>14 DEF Stirs, Tickets, Allocated
  <2>3. QED
    BY <1>0, <1>14, <2>1, <2>2 DEF Stirs, SearchesTypeOK, Finds, Tickets
<1>15. CASE Progresses
  BY <1>0, <1>14, <1>15 DEF Progresses, ModelStates
<1>16. CASE FallsBack
  <2>1. turns' \in Nat
    BY <1>0, <1>16 DEF FallsBack
  <2>2. QED
    BY <1>0, <1>14, <1>16, <2>1 DEF FallsBack, ModelStates
<1>17. CASE Recovers
  <2>1. Stirs(TRUE, model) /\ turns' \in Nat
    BY <1>0, <1>17 DEF Recovers
  <2>2. QED
    BY <1>0, <1>14, <2>1
<1>18. CASE UNCHANGED serviceVars
  BY <1>0, <1>18, <1>c DEF serviceVars
<1>19. QED
  BY <1>1, <1>2, <1>3, <1>4, <1>5, <1>6, <1>7, <1>8, <1>9, <1>10, <1>11, <1>12, <1>13,
     <1>15, <1>16, <1>17, <1>18 DEF SearchesNext

(***************************************************************************)
(* Every reachable state of Searches is well typed.                        *)
(***************************************************************************)
THEOREM SearchesTyping == SearchesSpec => []SearchesTypeOK
BY SearchesTypingInit, SearchesTypingNext, PTL DEF SearchesSpec

-----------------------------------------------------------------------------
(***************************************************************************)
(* The inductive invariant.  At each await, what the search has decided,   *)
(* and what it may rely on if nothing has changed in the cluster since it  *)
(* began.                                                                  *)
(***************************************************************************)
Undecided ==
    find.pc \in {"ensure", "registered", "deployed"} =>
        find.from = "nobody" /\ ~find.semantic /\ ~find.warned
Asking == find.pc \in {"registered", "deployed", "query"} => enabled /\ ~find.long
SmartAsks == find.pc \in {"registered", "deployed"} => find.smart
Decided ==
    find.pc = "query" =>
        /\ find.from = "nobody"
        /\ find.semantic => find.smart /\ ~find.warned
        /\ find.warned => find.smart
        /\ find.smart => find.semantic \/ find.warned
CalmCluster ==
    find.pc # "done" /\ find.calm =>
        /\ reachable /\ model = find.before
        /\ find.pc = "query" /\ find.smart => (find.semantic <=> Allocated(model))
AskedKnows ==
    /\ ticket.pc # "done" /\ Allocated(model) => ticket.seen
    /\ ticket.pc = "wait" => ticket.seen
    /\ DeployedIsTrue

SearchesInv ==
    /\ SearchesTypeOK
    /\ Undecided /\ Asking /\ SmartAsks /\ Decided /\ CalmCluster
    /\ UndisturbedSearches /\ WarningsAreTrue
    /\ AskedKnows

FindInv ==
    /\ Undecided /\ Asking /\ SmartAsks /\ Decided /\ CalmCluster
    /\ UndisturbedSearches /\ WarningsAreTrue

LEMMA SearchesInvInit == SearchesInit => SearchesInv
<1> SUFFICES ASSUME SearchesInit PROVE SearchesInv
  OBVIOUS
<1>1. find = NoFind /\ ticket = NoTicket
  BY DEF SearchesInit
<1>2. AskedKnows
  BY <1>1 DEF AskedKnows, DeployedIsTrue, NoTicket
<1>3. FindInv
  BY <1>1 DEF FindInv, Undecided, Asking, SmartAsks, Decided, CalmCluster,
     UndisturbedSearches, WarningsAreTrue, NoFind
<1>4. QED
  BY <1>2, <1>3, SearchesTypingInit DEF SearchesInv, FindInv

\* Once something changed in the cluster, a search under way is not calm any more.
LEMMA StirringKeepsFind ==
    ASSUME SearchesTypeOK, FindInv, find' = Stirred, UNCHANGED enabled
    PROVE  FindInv'
<1>1. find \in Finds
  BY DEF SearchesTypeOK, Finds
<1>2. /\ find'.pc = find.pc /\ find'.smart = find.smart /\ find'.long = find.long
      /\ find'.semantic = find.semantic /\ find'.warned = find.warned
      /\ find'.from = find.from /\ find'.before = find.before
      /\ find'.calm <=> find.pc = "done" /\ find.calm
  BY <1>1 DEF Stirred, Finds
<1>3. Undecided' /\ Asking' /\ SmartAsks' /\ Decided' /\ CalmCluster'
  BY <1>2 DEF FindInv, Undecided, Asking, SmartAsks, Decided, CalmCluster
<1>4. UndisturbedSearches' /\ WarningsAreTrue'
  BY <1>2 DEF FindInv, UndisturbedSearches, WarningsAreTrue
<1>5. QED
  BY <1>3, <1>4 DEF FindInv

\* A search that nothing stirs and that takes no step stays as it is.
LEMMA FindStays ==
    ASSUME FindInv, UNCHANGED <<find, enabled, reachable, model>>
    PROVE  FindInv'
BY DEF FindInv, Undecided, Asking, SmartAsks, Decided, CalmCluster, UndisturbedSearches,
   WarningsAreTrue

LEMMA FindSteps ==
    ASSUME SearchesTypeOK, FindInv, UNCHANGED cluster,
           \/ \E of \in {"questions", "answers"}, smart, long \in BOOLEAN :
                 StartSearch(of, smart, long)
           \/ EnsureIndex \/ FindRegistered \/ FindDeployed \/ Query
    PROVE  FindInv'
<1>0. find \in Finds /\ UNCHANGED <<enabled, reachable, model>>
  BY DEF SearchesTypeOK, Finds, cluster
<1>1. ASSUME NEW of \in {"questions", "answers"}, NEW smart \in BOOLEAN, NEW long \in BOOLEAN,
             StartSearch(of, smart, long)
      PROVE  FindInv'
  <2>1. /\ find'.pc = "ensure" /\ find'.from = "nobody" /\ ~find'.semantic /\ ~find'.warned
        /\ find'.calm = reachable /\ find'.before = model
    BY <1>1 DEF StartSearch, Begun, NoFind
  <2>2. QED
    BY <1>0, <2>1 DEF FindInv, Undecided, Asking, SmartAsks, Decided, CalmCluster,
       UndisturbedSearches, WarningsAreTrue
<1>2. CASE EnsureIndex
  <2>0. find.pc = "ensure"
    BY <1>2 DEF EnsureIndex
  <2>1. CASE ~enabled \/ ~reachable \/ find.long
    <3>1. find' = FellBack(find)
      BY <1>2, <2>1 DEF EnsureIndex, FindGoes
    <3>2. /\ find'.pc = "done" /\ ~find'.warned /\ find'.from \in {"database", "nowhere"}
          /\ find'.calm = find.calm /\ find'.long = find.long
      BY <1>0, <3>1 DEF FellBack, Finds
    <3>3. QED
      BY <1>0, <2>0, <2>1, <3>2 DEF FindInv, Undecided, Asking, SmartAsks, Decided, CalmCluster,
         UndisturbedSearches, WarningsAreTrue
  <2>2. CASE ~(~enabled \/ ~reachable \/ find.long)
    <3>1. find' = [find EXCEPT !.pc = IF find.smart THEN "registered" ELSE "query"]
      BY <1>2, <2>2 DEF EnsureIndex, FindGoes
    <3>2. /\ find'.pc = IF find.smart THEN "registered" ELSE "query"
          /\ find'.warned = find.warned /\ find'.from = find.from
          /\ find'.semantic = find.semantic /\ find'.smart = find.smart
          /\ find'.calm = find.calm /\ find'.long = find.long /\ find'.before = find.before
      BY <1>0, <3>1 DEF Finds
    <3>3. QED
      BY <1>0, <2>0, <2>2, <3>2 DEF FindInv, Undecided, Asking, SmartAsks, Decided, CalmCluster,
         UndisturbedSearches, WarningsAreTrue
  <2>3. QED
    BY <2>1, <2>2
<1>3. CASE FindRegistered
  <2>0. find.pc = "registered"
    BY <1>3 DEF FindRegistered
  <2>1. find' = IF reachable /\ model # "absent" THEN [find EXCEPT !.pc = "deployed"]
                ELSE Unaided(find)
    BY <1>3 DEF FindRegistered, FindGoes
  <2>2. /\ find'.from = find.from /\ find'.semantic = find.semantic
        /\ find'.smart = find.smart
        /\ find'.calm = find.calm /\ find'.long = find.long /\ find'.before = find.before
        /\ \/ find'.pc = "deployed" /\ find'.warned = find.warned
           \/ find'.pc = "query" /\ find'.warned /\ ~(reachable /\ model # "absent")
    BY <1>0, <2>1 DEF Finds, Unaided
  <2>3. QED
    BY <1>0, <2>0, <2>2 DEF FindInv, Undecided, Asking, SmartAsks, Decided, CalmCluster,
       UndisturbedSearches, WarningsAreTrue, Allocated
<1>4. CASE FindDeployed
  <2>0. find.pc = "deployed"
    BY <1>4 DEF FindDeployed
  <2>1. find' = IF reachable /\ Allocated(model)
                THEN [find EXCEPT !.pc = "query", !.semantic = TRUE]
                ELSE Unaided(find)
    BY <1>4 DEF FindDeployed, FindGoes
  <2>2. /\ find'.from = find.from /\ find'.smart = find.smart /\ find'.pc = "query"
        /\ find'.calm = find.calm /\ find'.long = find.long /\ find'.before = find.before
        /\ \/ find'.semantic /\ find'.warned = find.warned /\ reachable /\ Allocated(model)
           \/ /\ find'.warned /\ find'.semantic = find.semantic
              /\ ~(reachable /\ Allocated(model))
    BY <1>0, <2>1 DEF Finds, Unaided
  <2>3. QED
    BY <1>0, <2>0, <2>2 DEF FindInv, Undecided, Asking, SmartAsks, Decided, CalmCluster,
       UndisturbedSearches, WarningsAreTrue
<1>5. CASE Query
  <2>0. find.pc = "query"
    BY <1>5 DEF Query
  <2>1. CASE ~reachable \/ (find.semantic /\ model # "started")
    <3>1. find' = FellBack(find)
      BY <1>5, <2>1 DEF Query, FindGoes
    <3>2. /\ find'.pc = "done" /\ ~find'.warned /\ find'.from \in {"database", "nowhere"}
          /\ find'.calm = find.calm /\ find'.smart = find.smart
          /\ find'.before = find.before
      BY <1>0, <3>1 DEF FellBack, Finds
    <3>3. QED
      BY <1>0, <2>0, <2>1, <3>2 DEF FindInv, Undecided, Asking, SmartAsks, Decided, CalmCluster,
         UndisturbedSearches, WarningsAreTrue, Allocated
  <2>2. CASE ~(~reachable \/ (find.semantic /\ model # "started"))
    <3>1. find' = [find EXCEPT !.pc = "done", !.from = "index"]
      BY <1>5, <2>2 DEF Query, FindGoes
    <3>2. /\ find'.pc = "done" /\ find'.from = "index"
          /\ find'.semantic = find.semantic /\ find'.warned = find.warned
          /\ find'.calm = find.calm /\ find'.smart = find.smart
          /\ find'.before = find.before
      BY <1>0, <3>1 DEF Finds
    <3>3. UndisturbedSearches'
      BY <1>0, <2>0, <2>2, <3>2 DEF FindInv, Decided, CalmCluster, UndisturbedSearches, Allocated
    <3>4. QED
      BY <1>0, <2>0, <3>2, <3>3 DEF FindInv, Undecided, Asking, SmartAsks, Decided, CalmCluster,
         WarningsAreTrue
  <2>3. QED
    BY <2>1, <2>2
<1>6. QED
  BY <1>1, <1>2, <1>3, <1>4, <1>5

LEMMA SearchesInvNext == SearchesInv /\ [SearchesNext]_serviceVars => SearchesInv'
<1> SUFFICES ASSUME SearchesInv, [SearchesNext]_serviceVars PROVE SearchesInv'
  OBVIOUS
<1>0. SearchesTypeOK /\ FindInv /\ AskedKnows /\ ticket \in Tickets
  BY DEF SearchesInv, FindInv, SearchesTypeOK, Tickets
<1>a. ASSUME FindInv', AskedKnows' PROVE SearchesInv'
  BY <1>0, <1>a, SearchesTypingNext DEF SearchesInv, FindInv
<1>1. CASE \/ \E of \in {"questions", "answers"}, smart, long \in BOOLEAN :
                 StartSearch(of, smart, long)
           \/ EnsureIndex \/ FindRegistered \/ FindDeployed \/ Query
  <2>1. UNCHANGED <<cluster, ticket>>
    BY <1>1 DEF StartSearch, EnsureIndex, FindRegistered, FindDeployed, Query, FindGoes
  <2>2. AskedKnows'
    BY <1>0, <2>1 DEF AskedKnows, DeployedIsTrue, cluster
  <2>3. FindInv'
    BY <1>0, <1>1, <2>1, FindSteps
  <2>4. QED
    BY <1>a, <2>2, <2>3
\* A request of an administrator that leaves the model alone.
<1>b. ASSUME UNCHANGED <<find, enabled, reachable, model>>,
             ticket'.pc # "done" /\ Allocated(model) => ticket'.seen,
             ticket'.pc = "wait" \/ ticket'.told = "deployed" => ticket'.seen
      PROVE  SearchesInv'
  <2>1. AskedKnows'
    BY <1>b DEF AskedKnows, DeployedIsTrue
  <2>2. QED
    BY <1>0, <1>a, <1>b, <2>1, FindStays
<1>2. ASSUME NEW of \in {"status", "deploy", "download"}, StartTicket(of)
      PROVE  SearchesInv'
  <2>1. /\ ticket'.pc = "registered" /\ ticket'.told = "nothing"
        /\ ticket'.seen = Allocated(model)
    BY <1>2 DEF StartTicket, NoTicket
  <2>2. QED
    BY <1>2, <1>b, <2>1 DEF StartTicket, cluster
<1>3. CASE TicketRegistered
  <2>1. /\ ticket'.seen = ticket.seen /\ ticket'.pc # "wait" /\ ticket.pc # "done"
        /\ ticket'.told # "deployed" \/ ticket'.told = ticket.told
    BY <1>0, <1>3 DEF TicketRegistered, TicketGoes, Assessed, Told, Tickets
  <2>2. QED
    BY <1>0, <1>3, <1>b, <2>1 DEF TicketRegistered, TicketGoes, AskedKnows, DeployedIsTrue
<1>4. CASE TicketDeployed
  <2>1. /\ ticket'.seen = ticket.seen /\ ticket'.pc # "wait" /\ ticket.pc # "done"
        /\ \/ ticket'.told \in {"not deployed", ticket.told}
           \/ Allocated(model)
    BY <1>0, <1>4 DEF TicketDeployed, TicketGoes, Assessed, Told, Tickets
  <2>2. QED
    BY <1>0, <1>4, <1>b, <2>1 DEF TicketDeployed, TicketGoes, AskedKnows, DeployedIsTrue
<1>5. CASE LookAgain
  <2>1. /\ ticket'.seen = ticket.seen /\ ticket'.pc # "wait" /\ ticket.pc # "done"
        /\ ticket'.told = ticket.told \/ Allocated(model)
    BY <1>0, <1>5 DEF LookAgain, TicketGoes, Told, Tickets
  <2>2. QED
    BY <1>0, <1>5, <1>b, <2>1 DEF LookAgain, TicketGoes, AskedKnows, DeployedIsTrue
<1>6. CASE StartModel
  <2>1. CASE ModelIs("starting")
    <3>1. ticket' = [ticket EXCEPT !.pc = "wait", !.seen = TRUE] \/ ticket'.pc = "done"
      BY <1>0, <1>6, <2>1 DEF StartModel, TicketGoes, Told, Tickets
    <3>2. FindInv'
      BY <1>0, <1>6, <2>1, StirringKeepsFind DEF StartModel, TicketGoes, ModelIs
    <3>3. AskedKnows'
      BY <1>0, <1>6, <2>1 DEF StartModel, TicketGoes, Told, Tickets, AskedKnows, DeployedIsTrue,
         ModelIs
    <3>4. QED
      BY <1>a, <3>2, <3>3
  <2>2. CASE UNCHANGED <<model, find>>
    <3>1. \/ /\ ticket'.seen = ticket.seen /\ ticket'.pc = "done" /\ ticket.pc = "start"
             /\ ticket'.told = "deployed" => Allocated(model)
          \/ ticket'.seen
      BY <1>0, <1>6, <2>2 DEF StartModel, TicketGoes, Told, Tickets
    <3>2. QED
      BY <1>0, <1>6, <1>b, <2>2, <3>1 DEF StartModel, TicketGoes, AskedKnows
  <2>3. QED
    BY <1>6, <2>1, <2>2 DEF StartModel
<1>7. CASE AwaitModel
  <2>1. /\ ticket'.seen = ticket.seen /\ ticket'.pc = "done" /\ ticket.pc = "wait"
    BY <1>0, <1>7 DEF AwaitModel, TicketGoes, Told, Tickets
  <2>2. QED
    BY <1>0, <1>7, <1>b, <2>1 DEF AwaitModel, TicketGoes, AskedKnows
<1>8. CASE CheckDownload
  <2>1. /\ ticket'.seen = ticket.seen /\ ticket'.pc # "wait" /\ ticket.pc # "done"
        /\ ticket'.told # "deployed" \/ ticket'.told = ticket.told
    BY <1>0, <1>8 DEF CheckDownload, TicketGoes, Told, Tickets
  <2>2. QED
    BY <1>0, <1>8, <1>b, <2>1 DEF CheckDownload, TicketGoes, AskedKnows, DeployedIsTrue
<1>9. CASE FetchModel
  <2>1. /\ ticket'.seen = ticket.seen /\ ticket'.pc = "done" /\ ticket'.told # "deployed"
    BY <1>0, <1>9 DEF FetchModel, TicketGoes, Told, Tickets
  <2>2. UNCHANGED <<enabled, reachable>>
    BY <1>9 DEF FetchModel, TicketGoes
  <2>3. FindInv'
    BY <1>0, <1>9, <2>2, StirringKeepsFind, FindStays DEF FetchModel, ModelIs
  <2>4. AskedKnows'
    BY <2>1 DEF AskedKnows, DeployedIsTrue
  <2>5. QED
    BY <1>a, <2>3, <2>4
<1>10. ASSUME NEW up, NEW m, Stirs(up, m) PROVE SearchesInv'
  <2>1. /\ ticket'.pc = ticket.pc /\ ticket'.told = ticket.told
        /\ ticket'.seen <=> ticket.seen \/ (ticket.pc # "done" /\ Allocated(m))
        /\ model' = m
    BY <1>0, <1>10 DEF Stirs, Tickets
  <2>2. AskedKnows'
    BY <1>0, <2>1 DEF AskedKnows, DeployedIsTrue
  <2>3. FindInv'
    BY <1>0, <1>10, StirringKeepsFind DEF Stirs
  <2>4. QED
    BY <1>a, <2>2, <2>3
<1>11. CASE Progresses \/ FallsBack \/ Recovers
  BY <1>10, <1>11 DEF Progresses, FallsBack, Recovers
<1>12. CASE UNCHANGED serviceVars
  BY <1>0, <1>12, <1>b DEF serviceVars, AskedKnows, DeployedIsTrue
<1>13. QED
  BY <1>1, <1>2, <1>3, <1>4, <1>5, <1>6, <1>7, <1>8, <1>9, <1>11, <1>12 DEF SearchesNext

(***************************************************************************)
(* However the cluster loads, stops and loses the model, and whenever the  *)
(* administrators ask: an undisturbed search is answered by the index, a   *)
(* smart one says truly whether it went without the model, and who is told *)
(* that the model is deployed asked when it was.                           *)
(***************************************************************************)
THEOREM SmartSearchesHold == SearchesSpec => []SmartSearchHolds
<1>1. SearchesInv => SmartSearchHolds
  BY DEF SearchesInv, AskedKnows, SmartSearchHolds
<1>2. QED
  BY <1>1, SearchesInvInit, SearchesInvNext, PTL DEF SearchesSpec

-----------------------------------------------------------------------------
(***************************************************************************)
(* Induction over numbers, for a set: one that holds 0 and with each number *)
(* the next holds them all.  If it missed n, adding 1 would map its numbers *)
(* below n one-to-one to the same numbers without 0, which are fewer.      *)
(***************************************************************************)
\* A set that holds 0, and with each number the next, holds every number.
LEMMA SetInduction ==
  ASSUME NEW P, 0 \in P, \A k \in Nat : k \in P => k + 1 \in P
  PROVE  Nat \subseteq P
<1> SUFFICES ASSUME NEW n \in Nat, n \notin P PROVE FALSE
  OBVIOUS
<1> DEFINE Q == {k \in 0..n : k \in P}
<1> DEFINE R == Q \ {0}
<1> DEFINE f == [k \in Q |-> k + 1]
<1>1. /\ IsFiniteSet(Q) /\ IsFiniteSet(R)
      /\ Cardinality(Q) \in Nat /\ Cardinality(R) = Cardinality(Q) - 1
  <2>1. IsFiniteSet(0..n)
    BY FS_Interval
  <2>2. IsFiniteSet(Q)
    BY <2>1, FS_Subset
  <2>3. 0 \in Q
    BY SMT
  <2> HIDE DEF Q
  <2>4. QED
    BY <2>2, <2>3, FS_RemoveElement, FS_CardinalityType
<1>2. f \in Injection(Q, R)
  BY DEF Injection, IsInjective
<1> HIDE DEF Q, R, f
<1>3. Cardinality(Q) <= Cardinality(R)
  BY <1>1, <1>2, FS_Injection
<1>4. QED
  BY <1>1, <1>3

-----------------------------------------------------------------------------
(***************************************************************************)
(* Search queries: the number of letters is a number; what a clause accepts *)
(* grows with the tolerance, and so does what a query matches.             *)
(***************************************************************************)
\* One step of a sum over a set, g being the sums of smaller sets.
OneSum(g, s) == IF s = {} THEN 0 ELSE LET x == CHOOSE x \in s : TRUE IN x + g[s \ {x}]
Sums(g, D) == g = [s \in D |-> OneSum(g, s)]
\* The subsets of S with at most n elements.
Small(S, n) == {s \in SUBSET S : Cardinality(s) <= n}

\* A set of at most no element is empty.
LEMMA SmallestSet == ASSUME NEW S, IsFiniteSet(S), NEW s \in Small(S, 0) PROVE s = {}
<1>1. IsFiniteSet(s) /\ Cardinality(s) <= 0
  BY FS_Subset DEF Small
<1>2. Cardinality(s) = 0
  BY <1>1, FS_CardinalityType
<1> QED BY <1>1, <1>2, FS_EmptySet

\* Without one of its elements a set is smaller.
LEMMA SmallerSets ==
  ASSUME NEW S, IsFiniteSet(S), NEW n \in Nat, NEW s \in Small(S, n + 1), s # {}
  PROVE  LET x == CHOOSE x \in s : TRUE IN x \in s /\ s \ {x} \in Small(S, n)
<1> DEFINE x == CHOOSE x \in s : TRUE
<1>1. x \in s
  OBVIOUS
<1>2. IsFiniteSet(s) /\ s \in SUBSET S /\ Cardinality(s) <= n + 1
  BY FS_Subset DEF Small
<1> HIDE DEF x
<1>3. Cardinality(s) \in Nat /\ Cardinality(s \ {x}) = Cardinality(s) - 1
  BY <1>1, <1>2, FS_RemoveElement, FS_CardinalityType
<1>4. Cardinality(s \ {x}) <= n
  BY <1>2, <1>3
<1> QED BY <1>1, <1>2, <1>4 DEF Small, x

\* There is a function that adds up the subsets of a finite set: by induction on their size.
LEMMA AdderExists == ASSUME NEW S, IsFiniteSet(S) PROVE \E g : Sums(g, SUBSET S)
<1> DEFINE P == {n \in Nat : \E g : Sums(g, Small(S, n))}
<1>1. 0 \in P
  <2> DEFINE g == [s \in Small(S, 0) |-> 0]
  <2>1. \A s \in Small(S, 0) : s = {}
    BY SmallestSet
  <2>2. Sums(g, Small(S, 0))
    BY <2>1 DEF Sums, OneSum
  <2> QED BY <2>2
<1>2. ASSUME NEW n \in Nat, n \in P PROVE n + 1 \in P
  <2>1. PICK g : Sums(g, Small(S, n))
    BY <1>2
  <2> DEFINE h == [s \in Small(S, n + 1) |-> IF s \in Small(S, n) THEN g[s] ELSE OneSum(g, s)]
  <2>2. ASSUME NEW s \in Small(S, n + 1) PROVE h[s] = OneSum(h, s)
    <3>1. CASE s = {}
      BY <3>1, <2>1, <2>2 DEF Sums, OneSum
    <3>2. CASE s # {}
      <4> DEFINE x == CHOOSE x \in s : TRUE
      <4>1. s \ {x} \in Small(S, n)
        BY <3>2, SmallerSets
      <4>2. s \ {x} \in Small(S, n + 1)
        BY <4>1, FS_Subset, FS_CardinalityType DEF Small
      <4>3. h[s] = OneSum(g, s)
        BY <2>1 DEF Sums
      <4>4. h[s \ {x}] = g[s \ {x}]
        BY <4>1, <4>2
      <4> HIDE DEF h
      <4> QED BY <3>2, <4>3, <4>4 DEF OneSum
    <3> QED BY <3>1, <3>2
  <2>3. Sums(h, Small(S, n + 1))
    <3> DEFINE k == [s \in Small(S, n + 1) |-> OneSum(h, s)]
    <3>1. \A s \in Small(S, n + 1) : h[s] = k[s]
      BY <2>2
    <3>2. h = k
      BY <3>1
    <3> QED BY <3>2 DEF Sums
  <2> QED BY <2>3
<1>3. Cardinality(S) \in P
  <2>1. \A n \in Nat : n \in P => n + 1 \in P
    BY <1>2
  <2> HIDE DEF P
  <2>2. Nat \subseteq P
    BY <1>1, <2>1, SetInduction
  <2> QED BY <2>2, FS_CardinalityType
<1>4. Small(S, Cardinality(S)) = SUBSET S
  BY FS_Subset DEF Small
<1> QED BY <1>3, <1>4

\* Such a function gives numbers.
LEMMA AdderAdds ==
  ASSUME NEW S, IsFiniteSet(S), S \subseteq Nat, NEW g, Sums(g, SUBSET S)
  PROVE  g[S] \in Nat
<1> DEFINE P == {n \in Nat : \A s \in Small(S, n) : g[s] \in Nat}
<1>1. 0 \in P
  <2>1. \A s \in Small(S, 0) : s = {}
    BY SmallestSet
  <2> QED BY <2>1 DEF Sums, OneSum
<1>2. ASSUME NEW n \in Nat, n \in P PROVE n + 1 \in P
  <2> SUFFICES ASSUME NEW s \in Small(S, n + 1) PROVE g[s] \in Nat
    OBVIOUS
  <2>1. s \in SUBSET S /\ g[s] = OneSum(g, s)
    BY DEF Small, Sums
  <2>2. CASE s = {}
    BY <2>1, <2>2 DEF OneSum
  <2>3. CASE s # {}
    <3> DEFINE x == CHOOSE x \in s : TRUE
    <3>1. x \in s /\ s \ {x} \in Small(S, n)
      BY <2>3, SmallerSets
    <3>2. g[s] = x + g[s \ {x}]
      BY <2>1, <2>3 DEF OneSum
    <3> HIDE DEF x
    <3>3. x \in Nat /\ g[s \ {x}] \in Nat
      BY <1>2, <2>1, <3>1
    <3> QED BY <3>2, <3>3
  <2> QED BY <2>2, <2>3
<1>3. Cardinality(S) \in P
  <2>1. \A n \in Nat : n \in P => n + 1 \in P
    BY <1>2
  <2> HIDE DEF P
  <2>2. Nat \subseteq P
    BY <1>1, <2>1, SetInduction
  <2> QED BY <2>2, FS_CardinalityType
<1>4. S \in Small(S, Cardinality(S))
  BY FS_CardinalityType DEF Small
<1> QED BY <1>3, <1>4

\* The sum of a finite set of numbers is a number.
LEMMA SumIsNumber == ASSUME NEW S, IsFiniteSet(S), S \subseteq Nat PROVE SumSet(S) \in Nat
<1>1. SumSet(S) = (CHOOSE g : Sums(g, SUBSET S))[S]
  BY DEF SumSet, FoldSet, MapThenFoldSet, Sums, OneSum
<1>2. Sums(CHOOSE g : Sums(g, SUBSET S), SUBSET S)
  BY AdderExists
<1> QED BY <1>1, <1>2, AdderAdds

\* The words of a query: finitely many, at least one, each typed somewhere.
LEMMA WordsCounted ==
  ASSUME NEW q \in Seq(Words), q # <<>>
  PROVE  /\ IsFiniteSet(UniqueWords(q))
         /\ UniqueWords(q) \subseteq Words /\ UniqueWords(q) \subseteq Nat \ {0}
         /\ WordCount(q) \in Nat \ {0}
         /\ WordCount(q) = 1 => \E w : UniqueWords(q) = {w}
         /\ \A i \in 1..Len(q) : q[i] \in UniqueWords(q)
         /\ \A w \in UniqueWords(q) : \E i \in 1..Len(q) : w = q[i]
         /\ Letters(q) \in Nat
<1>1. Len(q) \in Nat /\ Len(q) # 0 /\ DOMAIN q = 1..Len(q) /\ \A i \in 1..Len(q) : q[i] \in Words
  OBVIOUS
<1>2. UniqueWords(q) = {q[i] : i \in 1..Len(q)}
  BY <1>1 DEF UniqueWords, ToSet
<1>3. UniqueWords(q) \subseteq Words /\ UniqueWords(q) \subseteq Nat \ {0} /\ UniqueWords(q) # {}
  <2>1. 1 \in 1..Len(q)
    BY <1>1
  <2> QED BY <1>1, <1>2, <2>1, SearchWordsAssumption
<1>4. q \in Surjection(1..Len(q), UniqueWords(q))
  <2>1. q \in [1..Len(q) -> UniqueWords(q)]
    BY <1>1, <1>2
  <2> QED BY <1>2, <2>1 DEF Surjection
<1>5. IsFiniteSet(UniqueWords(q))
  <2>1. IsFiniteSet(1..Len(q))
    BY <1>1, FS_Interval
  <2> QED BY <2>1, <1>4, FS_Surjection
<1>6. WordCount(q) \in Nat \ {0} /\ (WordCount(q) = 1 => \E w : UniqueWords(q) = {w})
  BY <1>3, <1>5, FS_CardinalityType, FS_EmptySet, FS_Singleton DEF WordCount
<1>7. Letters(q) \in Nat
  BY <1>3, <1>5, SumIsNumber DEF Letters
<1> QED BY <1>1, <1>2, <1>3, <1>5, <1>6, <1>7

\* The words of a field.
LEMMA TextTokens ==
  ASSUME SearchQueriesTypeOK, NEW f \in Fields
  PROVE  /\ Len(text[f]) \in Nat /\ DOMAIN text[f] = 1..Len(text[f])
         /\ \A i \in DOMAIN text[f] :
               /\ text[f][i] \in Tokens /\ text[f][i].word \in Words
               /\ text[f][i].edits \in Nat /\ text[f][i].at \in Nat
<1>1. text[f] \in Seq(Tokens)
  BY DEF SearchQueriesTypeOK
<1>2. ASSUME NEW t \in Tokens PROVE t.word \in Words /\ t.edits \in Nat /\ t.at \in Nat
  <2>1. CASE t \in [word : Words, edits : {0}, at : {0}]
    BY <2>1
  <2>2. CASE t \in [word : Words, edits : Edits, at : Typos]
    BY <2>2, SearchWordsAssumption
  <2> QED BY <2>1, <2>2 DEF Tokens
<1>3. /\ Len(text[f]) \in Nat /\ DOMAIN text[f] = 1..Len(text[f])
      /\ \A i \in DOMAIN text[f] : text[f][i] \in Tokens
  BY <1>1
<1> QED BY <1>2, <1>3

\* Options, and what their tolerance stands for: few edits go with a long fixed prefix.
LEMMA OptionKinds ==
  ASSUME NEW o \in Options
  PROVE  /\ o.mode \in Modes /\ o.match \in {"exact", "fuzzy"} /\ o.tolerance \in Tolerances
         /\ Fuzziness(o) \in {1, 2} /\ PrefixLength(o) \in {1, 2, 3}
         /\ Fuzziness(o) = 1 <=> PrefixLength(o) = 3
<1>1. /\ o.mode \in Modes /\ o.match \in {"exact", "fuzzy"} /\ o.tolerance \in Tolerances
  BY DEF Options, Tolerances
<1> QED BY <1>1 DEF Tolerances, Fuzziness, PrefixLength

\* Exact clauses allow no edits, fuzzy ones those of the tolerance at most.
LEMMA SlackBounds ==
  ASSUME NEW o \in Options, NEW letters, NEW n
  PROVE  /\ Slack(o, letters, n).edits \in 0..Fuzziness(o)
         /\ o.match = "exact" => Slack(o, letters, n).edits = 0
BY OptionKinds DEF Slack

\* A word that a clause accepts is accepted with more tolerance.
LEMMA SlackGrows ==
  ASSUME NEW o \in Options, NEW p \in Options, NEW letters \in Nat, NEW n \in Nat \ {0},
         \/ o.match = "exact"
         \/ o.match = "fuzzy" /\ p.match = "fuzzy" /\ PrefixLength(p) <= PrefixLength(o),
         NEW t, t.edits \in Nat, t.at \in Nat, NEW w, Accepts(Slack(o, letters, n), t, w)
  PROVE  Accepts(Slack(p, letters, n), t, w)
<1>1. CASE o.match = "exact"
  BY <1>1, SlackBounds, OptionKinds DEF Accepts
<1>2. CASE o.match = "fuzzy" /\ p.match = "fuzzy" /\ PrefixLength(p) <= PrefixLength(o)
  <2> DEFINE half == letters \div (2 * n)
  <2>1. 2 * n \in Nat \ {0} /\ half \in Int
    OBVIOUS
  <2> HIDE DEF half
  <2>2. Fuzziness(o) <= Fuzziness(p)
    BY <1>2, OptionKinds
  <2>3. CASE letters < 4 * n
    BY <2>3 DEF Accepts, Slack
  <2>4. CASE ~ (letters < 4 * n)
    <3>1. /\ Slack(o, letters, n).edits = Fuzziness(o)
          /\ Slack(p, letters, n).edits = Fuzziness(p)
          /\ Slack(o, letters, n).prefix = IF PrefixLength(o) < half THEN PrefixLength(o) ELSE half
          /\ Slack(p, letters, n).prefix = IF PrefixLength(p) < half THEN PrefixLength(p) ELSE half
      BY <1>2, <2>4 DEF Slack, half
    <3>2. /\ Slack(p, letters, n).prefix <= Slack(o, letters, n).prefix
          /\ Slack(p, letters, n).prefix \in Int /\ Slack(o, letters, n).prefix \in Int
      BY <3>1, <2>1, <1>2, OptionKinds
    <3> QED BY <3>1, <3>2, <2>2, OptionKinds DEF Accepts
  <2> QED BY <2>3, <2>4
<1> QED BY <1>1, <1>2

\* A clause that is met counts; how many there are is a number.
LEMMA ClausesCounted ==
  ASSUME NEW q \in Seq(Words), q # <<>>, NEW o \in Options
  PROVE  /\ IsFiniteSet(QueryClauses(o, q)) /\ IsFiniteSet(NgramClauses(o, q))
         /\ Cardinality(QueryClauses(o, q)) \in Nat /\ Cardinality(NgramClauses(o, q)) \in Nat
         /\ Cardinality(QueryClauses(o, q)) >= 1 <=> QueryClauses(o, q) # {}
         /\ Cardinality(NgramClauses(o, q)) >= 1 <=> NgramClauses(o, q) # {}
<1>1. IsFiniteSet(Fields)
  <2>1. IsFiniteSet({"title"}) /\ IsFiniteSet({"content"})
    BY FS_Singleton
  <2>2. Fields = {"title"} \union {"content"}
    BY DEF Fields
  <2> QED BY <2>1, <2>2, FS_Union
<1>2. IsFiniteSet(Fields \X UniqueWords(q))
  BY <1>1, WordsCounted, FS_Product
<1>3. QueryClauses(o, q) \subseteq Fields \/ QueryClauses(o, q) \subseteq Fields \X UniqueWords(q)
  BY DEF QueryClauses
<1>4. NgramClauses(o, q) \subseteq Fields
  BY DEF NgramClauses
<1>5. IsFiniteSet(QueryClauses(o, q)) /\ IsFiniteSet(NgramClauses(o, q))
  BY <1>1, <1>2, <1>3, <1>4, FS_Subset
<1>6. ASSUME NEW S, IsFiniteSet(S) PROVE Cardinality(S) \in Nat /\ (Cardinality(S) >= 1 <=> S # {})
  BY <1>6, FS_CardinalityType, FS_EmptySet
<1> QED BY <1>5, <1>6

\* A document without semantic clauses matches when it meets enough of the others.
LEMMA MatchesOf ==
  ASSUME NEW q \in Seq(Words), q # <<>>, NEW o \in Options
  PROVE  /\ Matches(o, q, {}) <=>
               Cardinality(QueryClauses(o, q)) + Cardinality(NgramClauses(o, q))
                   >= MinimumShouldMatch(o, q)
         /\ MinimumShouldMatch(o, q) \in Nat \ {0}
<1>1. Cardinality({}) = 0
  BY FS_EmptySet
<1>2. WordCount(q) \in Nat
  BY WordsCounted
<1>3. WordCount(q) > 2 => (WordCount(q) + 1) \div 2 \in Nat \ {0}
  BY <1>2
<1>4. MinimumShouldMatch(o, q) \in Nat \ {0}
  BY <1>3 DEF MinimumShouldMatch
<1> HIDE DEF MinimumShouldMatch
<1> QED BY <1>1, <1>4, ClausesCounted DEF Matches

\* With exact match a clause says what was typed.
LEMMA HasExact ==
  ASSUME SearchQueriesTypeOK, NEW o \in Options, o.match = "exact", NEW f \in Fields,
         NEW w, NEW letters, NEW n
  PROVE  Has(f, w, Slack(o, letters, n)) <=> w \in Correct(f)
<1>1. Slack(o, letters, n).edits = 0
  BY SlackBounds
<1>2. \A i \in DOMAIN text[f] : text[f][i].edits \in Nat
  BY TextTokens
<1>3. \A i \in DOMAIN text[f] :
        Accepts(Slack(o, letters, n), text[f][i], w) <=> text[f][i].word = w /\ text[f][i].edits = 0
  BY <1>1, <1>2 DEF Accepts
<1> QED BY <1>3 DEF Has, Correct

\* The phrase clause is met where the words stand side by side as they were typed.
LEMMA PhraseExact ==
  ASSUME SearchQueriesTypeOK, query \in Seq(Words), query # <<>>, NEW f \in Fields
  PROVE  /\ HasPhrase(f, query) <=> \E i, j \in DOMAIN text[f] : SubSeq(Spelled(f), i, j) = query
         /\ HasPhrase(f, query) => UniqueWords(query) \subseteq Correct(f)
<1> DEFINE n == Len(text[f])
<1> DEFINE m == Len(query)
<1> DEFINE zero == [edits |-> 0, prefix |-> 0]
<1>1. /\ n \in Nat /\ DOMAIN text[f] = 1..n /\ m \in Nat \ {0} /\ DOMAIN query = 1..m
      /\ \A i \in 1..n : text[f][i].edits \in Nat
      /\ \A j \in 1..m : query[j] \in Nat \ {0}
  <2>1. n \in Nat /\ DOMAIN text[f] = 1..n /\ \A i \in 1..n : text[f][i].edits \in Nat
    BY TextTokens
  <2>2. m \in Nat \ {0} /\ DOMAIN query = 1..m /\ \A j \in 1..m : query[j] \in Words
    OBVIOUS
  <2> QED BY <2>1, <2>2, SearchWordsAssumption
<1>2. \A i \in 1..n : \A w :
        Accepts(zero, text[f][i], w) <=> text[f][i].word = w /\ text[f][i].edits = 0
  BY <1>1 DEF Accepts
<1>3. /\ DOMAIN Spelled(f) = 1..n
      /\ \A i \in 1..n : \A j \in 1..m :
           Spelled(f)[i] = query[j] <=> Accepts(zero, text[f][i], query[j])
  BY <1>1, <1>2 DEF Spelled
<1> HIDE DEF n, m, zero
<1>4. ASSUME HasPhrase(f, query)
      PROVE  /\ \E i, j \in 1..n : SubSeq(Spelled(f), i, j) = query
             /\ UniqueWords(query) \subseteq Correct(f)
  <2>1. PICK i \in 0..n - m : \A j \in 1..m : Accepts(zero, text[f][i + j], query[j])
    BY <1>1, <1>4 DEF HasPhrase, n, m, zero
  <2>2. /\ i + 1 \in 1..n /\ i + m \in 1..n /\ (i + m) - (i + 1) + 1 = m
        /\ \A j \in 1..m : i + j \in 1..n /\ (i + 1) + j - 1 = i + j
    BY <1>1, <2>1
  <2>3. SubSeq(Spelled(f), i + 1, i + m) = [j \in 1..m |-> Spelled(f)[i + j]]
    BY <2>2
  <2>4. \A j \in 1..m : Spelled(f)[i + j] = query[j]
    BY <1>3, <2>1, <2>2
  <2>5. SubSeq(Spelled(f), i + 1, i + m) = query
    BY <2>3, <2>4, <1>1
  <2>6. ASSUME NEW j \in 1..m PROVE query[j] \in Correct(f)
    <3>1. i + j \in DOMAIN text[f] /\ text[f][i + j].word = query[j] /\ text[f][i + j].edits = 0
      BY <1>1, <1>2, <2>1, <2>2
    <3> QED BY <3>1 DEF Correct
  <2>7. UniqueWords(query) \subseteq Correct(f)
    BY <2>6, <1>1 DEF UniqueWords, ToSet
  <2> QED BY <2>2, <2>5, <2>7
<1>5. ASSUME NEW i \in 1..n, NEW j \in 1..n, SubSeq(Spelled(f), i, j) = query
      PROVE  HasPhrase(f, query)
  <2>1. /\ DOMAIN SubSeq(Spelled(f), i, j) = 1..(j - i + 1)
        /\ \A k \in 1..(j - i + 1) : SubSeq(Spelled(f), i, j)[k] = Spelled(f)[i + k - 1]
    OBVIOUS
  <2>2. j - i + 1 = m
    <3>1. 1..(j - i + 1) = 1..m /\ j - i + 1 \in Int /\ 1 \in 1..m /\ m \in 1..m
      BY <2>1, <1>5, <1>1
    <3>2. m \in 1..(j - i + 1) /\ j - i + 1 \in 1..(j - i + 1)
      BY <3>1
    <3>3. m <= j - i + 1 /\ j - i + 1 <= m
      BY <3>1, <3>2
    <3> QED BY <3>1, <3>3, <1>1
  <2>3. /\ i - 1 \in 0..n - m
        /\ \A k \in 1..m : i + k - 1 \in 1..n /\ (i - 1) + k = i + k - 1
    BY <2>2, <1>1
  <2>4. \A k \in 1..m : Accepts(zero, text[f][(i - 1) + k], query[k])
    BY <2>1, <2>2, <2>3, <1>3, <1>5
  <2> QED BY <2>3, <2>4, <1>1 DEF HasPhrase, n, m, zero
<1> QED BY <1>1, <1>4, <1>5

\* Exact modes: with a single word every mode asks for that word, in whichever field.
LEMMA ExactHolds == SearchQueriesTypeOK /\ query # <<>> => ExactIsExact
<1> SUFFICES ASSUME SearchQueriesTypeOK, query # <<>>, NEW o \in Options, o.match = "exact"
             PROVE  Matches(o, query, {}) <=> Meant(IF o.mode = "phrase" /\ WordCount(query) = 1
                                                    THEN "any_word" ELSE o.mode)
  BY DEF ExactIsExact
<1>1. query \in Seq(Words) /\ o.mode \in Modes
  BY OptionKinds DEF SearchQueriesTypeOK
<1>2. Matches(o, query, {}) <=> QueryClauses(o, query) # {}
  <2>1. NgramClauses(o, query) = {} /\ MinimumShouldMatch(o, query) = 1
    BY DEF NgramClauses, MinimumShouldMatch
  <2>2. Cardinality(NgramClauses(o, query)) = 0
    BY <2>1, FS_EmptySet
  <2> QED BY <1>1, <2>1, <2>2, MatchesOf, ClausesCounted
<1>3. ASSUME NormalizedMode(o, query) = "any_word"
      PROVE  QueryClauses(o, query) # {} <=> Meant("any_word")
  <2>1. QueryClauses(o, query)
            = {c \in Fields \X UniqueWords(query) : Has(c[1], c[2], Slack(o, c[2], 1))}
    BY <1>3 DEF QueryClauses
  <2>2. QueryClauses(o, query) # {}
            <=> \E f \in Fields, w \in UniqueWords(query) : Has(f, w, Slack(o, w, 1))
    <3>1. ASSUME NEW f \in Fields, NEW w \in UniqueWords(query), Has(f, w, Slack(o, w, 1))
          PROVE  QueryClauses(o, query) # {}
      <4>1. <<f, w>> \in QueryClauses(o, query)
        BY <2>1, <3>1
      <4> QED BY <4>1
    <3>2. ASSUME QueryClauses(o, query) # {}
          PROVE  \E f \in Fields, w \in UniqueWords(query) : Has(f, w, Slack(o, w, 1))
      <4>1. PICK c \in Fields \X UniqueWords(query) : Has(c[1], c[2], Slack(o, c[2], 1))
        BY <2>1, <3>2
      <4>2. c[1] \in Fields /\ c[2] \in UniqueWords(query)
        OBVIOUS
      <4> QED BY <4>1, <4>2
    <3> QED BY <3>1, <3>2
  <2>3. \A f \in Fields, w \in UniqueWords(query) : Has(f, w, Slack(o, w, 1)) <=> w \in Correct(f)
    BY HasExact
  <2>4. Meant("any_word") <=> \E f \in Fields : Correct(f) \intersect UniqueWords(query) # {}
    BY DEF Meant
  <2> QED BY <2>2, <2>3, <2>4
<1>4. ASSUME NEW f \in Fields PROVE HasAll(f, o, query) <=> UniqueWords(query) \subseteq Correct(f)
  <2>1. \A w \in UniqueWords(query) :
          Has(f, w, Slack(o, Letters(query), WordCount(query))) <=> w \in Correct(f)
    BY HasExact
  <2> QED BY <2>1 DEF HasAll
<1>5. CASE NormalizedMode(o, query) = "any_word"
  <2>1. CASE o.mode = "any_word" \/ (o.mode = "phrase" /\ WordCount(query) = 1)
    BY <2>1, <1>2, <1>3, <1>5
  <2>2. CASE o.mode = "all_words" /\ WordCount(query) = 1
    <3>1. PICK w : UniqueWords(query) = {w}
      BY <2>2, <1>1, WordsCounted
    <3>2. Meant("all_words") <=> \E f \in Fields : UniqueWords(query) \subseteq Correct(f)
      BY DEF Meant
    <3>3. Meant("any_word") <=> \E f \in Fields : Correct(f) \intersect UniqueWords(query) # {}
      BY DEF Meant
    <3>4. Meant("any_word") <=> Meant("all_words")
      BY <3>1, <3>2, <3>3
    <3> QED BY <2>2, <3>4, <1>2, <1>3, <1>5
  <2>3. o.mode = "any_word" \/ WordCount(query) = 1
    BY <1>5 DEF NormalizedMode
  <2>4. o.mode \in {"any_word", "phrase", "all_words"}
    BY <1>1 DEF Modes
  <2>5. \/ o.mode = "any_word"
        \/ o.mode = "phrase" /\ WordCount(query) = 1
        \/ o.mode = "all_words" /\ WordCount(query) = 1
    BY <2>3, <2>4
  <2> QED BY <2>1, <2>2, <2>5
<1>6. CASE NormalizedMode(o, query) = "phrase"
  <2>1. QueryClauses(o, query) = {f \in Fields : HasPhrase(f, query)}
    BY <1>6 DEF QueryClauses
  <2>2. Meant("phrase")
            <=> \E f \in Fields : \E i, j \in DOMAIN text[f] : SubSeq(Spelled(f), i, j) = query
    BY DEF Meant
  <2>3. o.mode = "phrase" /\ WordCount(query) # 1
    BY <1>6 DEF NormalizedMode
  <2>4. Meant("phrase") <=> \E f \in Fields : HasPhrase(f, query)
    BY <1>1, <2>2, PhraseExact
  <2> QED BY <2>1, <2>3, <2>4, <1>2
<1>7. CASE NormalizedMode(o, query) = "all_words"
  <2>1. QueryClauses(o, query) = {f \in Fields : HasAll(f, o, query)}
    BY <1>7 DEF QueryClauses
  <2>2. Meant("all_words") <=> \E f \in Fields : UniqueWords(query) \subseteq Correct(f)
    BY DEF Meant
  <2>3. o.mode = "all_words" /\ WordCount(query) # 1
    BY <1>7 DEF NormalizedMode
  <2> QED BY <2>1, <2>2, <2>3, <1>2, <1>4
<1> QED BY <1>1, <1>5, <1>6, <1>7 DEF NormalizedMode, Modes

\* What an option finds, one that is as tolerant finds.
LEMMA HasGrows ==
  ASSUME SearchQueriesTypeOK, NEW o \in Options, NEW p \in Options,
         NEW letters \in Nat, NEW n \in Nat \ {0},
         \/ o.match = "exact"
         \/ o.match = "fuzzy" /\ p.match = "fuzzy" /\ PrefixLength(p) <= PrefixLength(o),
         NEW f \in Fields, NEW w, Has(f, w, Slack(o, letters, n))
  PROVE  Has(f, w, Slack(p, letters, n))
<1>1. PICK i \in DOMAIN text[f] : Accepts(Slack(o, letters, n), text[f][i], w)
  BY DEF Has
<1>2. text[f][i].edits \in Nat /\ text[f][i].at \in Nat
  BY TextTokens
<1>3. Accepts(Slack(p, letters, n), text[f][i], w)
  BY <1>1, <1>2, SlackGrows
<1> QED BY <1>3 DEF Has

\* More tolerance asks for no higher score.
LEMMA MinScoreFalls ==
  ASSUME NEW q \in Seq(Words), q # <<>>, NEW o \in Options, NEW p \in Options,
         o.match = "fuzzy", p.match = "fuzzy", PrefixLength(p) <= PrefixLength(o)
  PROVE  MinScore(p, q) <= MinScore(o, q)
<1> DEFINE few == Min({WordCount(q), 3})
<1>1. few \in Int
  <2>1. WordCount(q) \in Nat
    BY WordsCounted
  <2>2. \E x \in {WordCount(q), 3} : \A y \in {WordCount(q), 3} : x =< y
    BY <2>1
  <2>3. few \in {WordCount(q), 3}
    BY <2>2 DEF Min
  <2> QED BY <2>1, <2>3
<1> HIDE DEF few
<1> DEFINE Base(x) == CASE x.tolerance = "low" -> 30 [] x.tolerance = "medium" -> 25 [] OTHER -> 20
<1>2. Base(p) \in Int /\ Base(o) \in Int /\ Base(p) <= Base(o)
  BY OptionKinds DEF PrefixLength, Tolerances
<1>3. MinScore(p, q) = Base(p) - 5 * (few - 1) /\ MinScore(o, q) = Base(o) - 5 * (few - 1)
  BY DEF MinScore, few
<1> HIDE DEF Base
<1> QED BY <1>1, <1>2, <1>3

\* The same mode with more tolerance meets the clauses that were met, and needs no more.
LEMMA ToleranceHolds == SearchQueriesTypeOK /\ query # <<>> => ToleranceKeepsHits
<1> SUFFICES ASSUME SearchQueriesTypeOK, query # <<>>, NEW o \in Options, Matches(o, query, {}),
                    NEW p \in Options, Weaker(o, p)
             PROVE  /\ Matches(p, query, {})
                    /\ o.match = "fuzzy" => MinScore(p, query) <= MinScore(o, query)
  BY DEF ToleranceKeepsHits
<1>0. query \in Seq(Words)
  BY DEF SearchQueriesTypeOK
<1>1. /\ o.mode = p.mode
      /\ \/ o.match = "exact" /\ (o.mode = "any_word" => WordCount(query) < 3)
         \/ o.match = "fuzzy" /\ p.match = "fuzzy" /\ PrefixLength(p) <= PrefixLength(o)
  BY DEF Weaker
<1>2. o.match = "fuzzy" => MinScore(p, query) <= MinScore(o, query)
  BY <1>0, <1>1, MinScoreFalls
<1>3. /\ WordCount(query) \in Nat \ {0} /\ Letters(query) \in Nat /\ UniqueWords(query) \subseteq Nat
  BY <1>0, WordsCounted
<1>4. ASSUME NEW f \in Fields, HasAll(f, o, query) PROVE HasAll(f, p, query)
  BY <1>1, <1>3, <1>4, HasGrows DEF HasAll
<1>5. NormalizedMode(o, query) = NormalizedMode(p, query)
  BY <1>1 DEF NormalizedMode
<1>6. QueryClauses(o, query) \subseteq QueryClauses(p, query)
  <2>1. CASE NormalizedMode(o, query) = "any_word"
    <3>1. /\ QueryClauses(o, query)
                = {c \in Fields \X UniqueWords(query) : Has(c[1], c[2], Slack(o, c[2], 1))}
          /\ QueryClauses(p, query)
                = {c \in Fields \X UniqueWords(query) : Has(c[1], c[2], Slack(p, c[2], 1))}
      BY <2>1, <1>5 DEF QueryClauses
    <3>2. ASSUME NEW c \in Fields \X UniqueWords(query), Has(c[1], c[2], Slack(o, c[2], 1))
          PROVE  Has(c[1], c[2], Slack(p, c[2], 1))
      <4>1. c[1] \in Fields /\ c[2] \in Nat
        BY <1>3
      <4> QED BY <4>1, <3>2, <1>1, HasGrows
    <3> QED BY <3>1, <3>2
  <2>2. CASE NormalizedMode(o, query) = "phrase" /\ o.match = "exact"
    <3>1. QueryClauses(o, query) = {f \in Fields : HasPhrase(f, query)}
      BY <2>2 DEF QueryClauses
    <3>2. CASE p.match = "exact"
      BY <3>1, <3>2, <2>2, <1>5 DEF QueryClauses
    <3>3. CASE p.match # "exact"
      <4>1. QueryClauses(p, query) = {f \in Fields : HasAll(f, p, query)}
        BY <3>3, <2>2, <1>5 DEF QueryClauses
      <4>2. ASSUME NEW f \in Fields, HasPhrase(f, query) PROVE HasAll(f, p, query)
        <5>1. UniqueWords(query) \subseteq Correct(f)
          BY <1>0, <4>2, PhraseExact
        <5>2. \A w \in UniqueWords(query) : Has(f, w, Slack(o, Letters(query), WordCount(query)))
          BY <5>1, <2>2, HasExact
        <5>3. HasAll(f, o, query)
          BY <5>2 DEF HasAll
        <5> QED BY <5>3, <1>4
      <4> QED BY <3>1, <4>1, <4>2
    <3> QED BY <3>2, <3>3
  <2>3. CASE /\ NormalizedMode(o, query) # "any_word"
             /\ ~ (NormalizedMode(o, query) = "phrase" /\ o.match = "exact")
    <3>1. QueryClauses(o, query) = {f \in Fields : HasAll(f, o, query)}
      BY <2>3 DEF QueryClauses
    <3>2. QueryClauses(p, query) = {f \in Fields : HasAll(f, p, query)}
      <4>1. ~ (NormalizedMode(p, query) = "phrase" /\ p.match = "exact")
        BY <2>3, <1>1, <1>5
      <4> QED BY <4>1, <2>3, <1>5 DEF QueryClauses
    <3> QED BY <3>1, <3>2, <1>4
  <2> QED BY <2>1, <2>2, <2>3
<1>7. NgramClauses(o, query) \subseteq NgramClauses(p, query)
  BY <1>1 DEF NgramClauses
<1>8. MinimumShouldMatch(p, query) <= MinimumShouldMatch(o, query)
  <2>1. CASE o.match = "exact"
    <3>1. MinimumShouldMatch(p, query) = 1
      BY <2>1, <1>1, <1>3 DEF MinimumShouldMatch
    <3> QED BY <3>1, <1>0, MatchesOf
  <2>2. CASE o.match # "exact"
    <3>1. MinimumShouldMatch(p, query) = MinimumShouldMatch(o, query)
      BY <2>2, <1>1 DEF MinimumShouldMatch
    <3> QED BY <3>1, <1>0, MatchesOf
  <2> QED BY <2>1, <2>2
<1>9. Matches(p, query, {})
  <2>1. /\ Cardinality(QueryClauses(o, query)) <= Cardinality(QueryClauses(p, query))
        /\ Cardinality(NgramClauses(o, query)) <= Cardinality(NgramClauses(p, query))
    BY <1>0, <1>6, <1>7, ClausesCounted, FS_Subset
  <2>2. /\ Cardinality(QueryClauses(o, query)) \in Nat /\ Cardinality(QueryClauses(p, query)) \in Nat
        /\ Cardinality(NgramClauses(o, query)) \in Nat /\ Cardinality(NgramClauses(p, query)) \in Nat
    BY <1>0, ClausesCounted
  <2>3. /\ Cardinality(QueryClauses(o, query)) + Cardinality(NgramClauses(o, query))
             >= MinimumShouldMatch(o, query)
        /\ MinimumShouldMatch(o, query) \in Nat
        /\ MinimumShouldMatch(p, query) \in Nat
    BY <1>0, MatchesOf
  <2>4. Cardinality(QueryClauses(p, query)) + Cardinality(NgramClauses(p, query))
            >= MinimumShouldMatch(p, query)
    BY <2>1, <2>2, <2>3, <1>8
  <2> QED BY <1>0, <2>4, MatchesOf
<1> QED BY <1>2, <1>9

\* With several words n-grams add nothing, and a clause is met within its edits.
LEMMA FuzzyHolds == SearchQueriesTypeOK /\ query # <<>> => FuzzyStaysNear
<1> SUFFICES ASSUME SearchQueriesTypeOK, query # <<>>,
                    NEW o \in Options, o.match = "fuzzy", WordCount(query) > 1, Matches(o, query, {})
             PROVE  \E f \in Fields :
                        IF o.mode = "any_word" THEN \E w \in UniqueWords(query) : Nearly(o, f, w)
                        ELSE \A w \in UniqueWords(query) : Nearly(o, f, w)
  BY DEF FuzzyStaysNear
<1>0. query \in Seq(Words) /\ WordCount(query) \in Nat
  BY WordsCounted DEF SearchQueriesTypeOK
<1>1. NgramClauses(o, query) = {} /\ NormalizedMode(o, query) = o.mode
  BY <1>0 DEF NgramClauses, NormalizedMode
<1>2. QueryClauses(o, query) # {}
  <2>1. Cardinality(NgramClauses(o, query)) = 0
    BY <1>1, FS_EmptySet
  <2>2. MinimumShouldMatch(o, query) >= 1 /\ MinimumShouldMatch(o, query) \in Nat
    BY <1>0, MatchesOf
  <2>3. Cardinality(QueryClauses(o, query)) + Cardinality(NgramClauses(o, query))
            >= MinimumShouldMatch(o, query)
    BY <1>0, MatchesOf
  <2>4. Cardinality(QueryClauses(o, query)) \in Nat
    BY <1>0, ClausesCounted
  <2>5. Cardinality(QueryClauses(o, query)) >= 1
    BY <2>1, <2>2, <2>3, <2>4
  <2> QED BY <1>0, <2>5, ClausesCounted
<1>3. ASSUME NEW f \in Fields, NEW w, NEW letters, NEW n, Has(f, w, Slack(o, letters, n))
      PROVE  Nearly(o, f, w)
  <2>1. PICK i \in DOMAIN text[f] : Accepts(Slack(o, letters, n), text[f][i], w)
    BY <1>3 DEF Has
  <2>2. /\ text[f][i].edits \in Nat
        /\ Slack(o, letters, n).edits \in 0..Fuzziness(o) /\ Fuzziness(o) \in {1, 2}
    BY TextTokens, SlackBounds, OptionKinds
  <2>3. text[f][i].word = w /\ text[f][i].edits <= Fuzziness(o)
    BY <2>1, <2>2 DEF Accepts
  <2> QED BY <2>3 DEF Nearly
<1>4. CASE o.mode = "any_word"
  <2>1. PICK c \in Fields \X UniqueWords(query) : Has(c[1], c[2], Slack(o, c[2], 1))
    BY <1>1, <1>2, <1>4 DEF QueryClauses
  <2>2. c[1] \in Fields /\ c[2] \in UniqueWords(query) /\ Nearly(o, c[1], c[2])
    BY <2>1, <1>3
  <2> QED BY <2>2, <1>4
<1>5. CASE o.mode # "any_word"
  <2>1. PICK f \in Fields : HasAll(f, o, query)
    BY <1>1, <1>2, <1>5 DEF QueryClauses
  <2>2. \A w \in UniqueWords(query) : Nearly(o, f, w)
    BY <2>1, <1>3 DEF HasAll
  <2> QED BY <2>2, <1>5
<1> QED BY <1>4, <1>5

\* Documents and queries are built word by word.
LEMMA SearchTypingInit == SearchInit => SearchQueriesTypeOK
BY DEF SearchInit, SearchQueriesTypeOK

\* A word more is still a text, or a query.
LEMMA SearchTypingNext == SearchQueriesTypeOK /\ [SearchNext]_searchVars => SearchQueriesTypeOK'
<1> SUFFICES ASSUME SearchQueriesTypeOK, [SearchNext]_searchVars PROVE SearchQueriesTypeOK'
  OBVIOUS
<1>1. ASSUME NEW f \in Fields, NEW t \in Tokens, WriteWord(f, t) PROVE SearchQueriesTypeOK'
  <2>1. Append(text[f], t) \in Seq(Tokens)
    BY DEF SearchQueriesTypeOK
  <2> QED BY <1>1, <2>1 DEF WriteWord, SearchQueriesTypeOK
<1>2. ASSUME NEW w \in Words, TypeWord(w) PROVE SearchQueriesTypeOK'
  BY <1>2 DEF TypeWord, SearchQueriesTypeOK
<1>3. CASE UNCHANGED searchVars
  BY <1>3 DEF searchVars, SearchQueriesTypeOK
<1> QED BY <1>1, <1>2, <1>3 DEF SearchNext

\* Every document and every query that is built is one of words.
THEOREM SearchQueriesTyping == SearchQueriesSpec => []SearchQueriesTypeOK
BY SearchTypingInit, SearchTypingNext, PTL DEF SearchQueriesSpec

\* For any words, lengths and edits, every document and every query: an exact search matches
\* what its mode says and nothing else, more tolerance loses no match and asks for no higher
\* score, and a fuzzy search of several words stays within the edits of its tolerance (the
\* branches of ElasticsearchIndexService.search).
THEOREM SearchesFindWhatIsMeant == SearchQueriesSpec => []SearchFindsWhatIsMeant
<1>1. SearchQueriesTypeOK => SearchFindsWhatIsMeant
  BY ExactHolds, ToleranceHolds, FuzzyHolds DEF SearchFindsWhatIsMeant
<1> QED BY <1>1, SearchTypingInit, SearchTypingNext, PTL DEF SearchQueriesSpec

-----------------------------------------------------------------------------
(***************************************************************************)
(* Side by side, as MCSearch runs them.  A step of the run is a step of    *)
(* one part and leaves the variables of the others, so each part behaves   *)
(* as its own specification says, and what is proved of it holds here too. *)
(***************************************************************************)
LEMMA SearchingStep ==
    [SearchingNext]_searchingVars =>
        [Next]_vars /\ [SearchNext]_searchVars /\ [SearchesNext]_serviceVars
<1> SUFFICES ASSUME [SearchingNext]_searchingVars
             PROVE  [Next]_vars /\ [SearchNext]_searchVars /\ [SearchesNext]_serviceVars
  OBVIOUS
<1>1. CASE StepOf("contents", Next, <<searchVars, serviceVars>>)
  BY <1>1 DEF StepOf
<1>2. CASE StepOf("queries", SearchNext, <<vars, serviceVars>>)
  BY <1>2 DEF StepOf
<1>3. CASE StepOf("searches", SearchesNext, <<vars, searchVars>>)
  BY <1>3 DEF StepOf
<1>4. CASE UNCHANGED searchingVars
  BY <1>4 DEF searchingVars
<1>5. QED
  BY <1>1, <1>2, <1>3, <1>4 DEF SearchingNext

\* A behaviour of the run that checks what is indexed and what is found is one of the content
\* tree, of the clauses of a query and of a search, each: every theorem about one of these is
\* one about that run.
THEOREM SearchingKeepsItsParts ==
    SearchingSpec => Spec /\ SearchQueriesSpec /\ SearchesSpec
<1>1. SearchingInit => Init /\ SearchInit /\ SearchesInit
  BY DEF SearchingInit
<1>2. QED
  BY <1>1, SearchingStep, PTL DEF SearchingSpec, Spec, SearchQueriesSpec, SearchesSpec

\* Rows, documents, queries and searches are always what they may be.
THEOREM SearchingTyping == SearchingSpec => []SearchingTypesOK
BY SearchingKeepsItsParts, TreeTyping, SearchQueriesTyping, SearchesTyping, PTL
   DEF SearchingTypesOK
=============================================================================

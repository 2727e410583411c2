------------------------------- MODULE MCSearch -------------------------------
(***************************************************************************)
(* What is indexed and what is found, for TLC: the content tree with its   *)
(* documents, what a query finds among documents, and searches beside the  *)
(* model they may use.  The first is about which documents there are, the  *)
(* others ask of any document; no property relates them, so a behaviour of *)
(* the run is one of one of them: part says of which, and the others stay  *)
(* as they start.                                                          *)
(***************************************************************************)
EXTENDS MCContentTree, SearchQueries, Searches

VARIABLE part

Parts == {"contents", "queries", "searches"}

\* A part that does not run starts in one way only.
SearchingInit ==
    /\ part \in Parts
    /\ Init /\ (part # "contents" => backend = "mongo")
    /\ SearchInit
    /\ SearchesInit /\ (part # "searches" => ~enabled /\ model = "absent")

StepOf(name, Action, others) == part = name /\ Action /\ UNCHANGED <<part, others>>

SearchingNext ==
    \/ StepOf("contents", Next, <<searchVars, serviceVars>>)
    \/ StepOf("queries", SearchNext, <<vars, serviceVars>>)
    \/ StepOf("searches", SearchesNext, <<vars, searchVars>>)

searchingVars == <<part, vars, searchVars, serviceVars>>

SearchingSpec == SearchingInit /\ [][SearchingNext]_searchingVars

SearchingTypesOK == TypeOK /\ SearchQueriesTypeOK /\ SearchesTypeOK
=============================================================================

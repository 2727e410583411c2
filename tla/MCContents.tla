------------------------------ MODULE MCContents ------------------------------
(***************************************************************************)
(* Around the contents, for TLC: reactions served one at a time, lists     *)
(* page by page, files, the scripts for the index and for ancestors, and   *)
(* the permissions and the tokens of those who change them.  No property   *)
(* relates two of them, so a behaviour of the run is one of one of them:   *)
(* part says of which, and the others stay as they start.                  *)
(***************************************************************************)
EXTENDS MCReactions, Listings, Assets, Reindex, Backfill, Access, Sessions

VARIABLE part

Parts == {"reactions", "listings", "assets", "reindex", "backfill", "access", "sessions"}

\* A part that does not run starts in one way only.
ContentsInit ==
    /\ part \in Parts
    /\ Init /\ (part # "reactions" => indexed = NoVotes)
    /\ ListingsInit /\ (part # "listings" => posts = {})
    /\ AssetsInit /\ (part # "assets" => assetStore = "mongo")
    /\ ReindexInit
    /\ part # "reindex" => /\ \A x \in Papers : version[x] = 0 /\ sheet[x] = 0
                           /\ mapping["questions"] = "proper"
    /\ BackfillInit
    /\ part # "backfill" =>
          \A c \in OldContents : link[c] = IF c \in OldQuestions THEN NoLink ELSE Missing
    /\ AccessInit /\ (part # "access" => accessStore = "mongo" /\ \A r \in RoleNames : role[r].made = 0)
    /\ SessionsInit

StepOf(name, Action, others) == part = name /\ Action /\ UNCHANGED <<part, others>>

ContentsNext ==
    \/ StepOf("reactions", Next, <<listVars, assetVars, reindexVars, backfillVars, accessVars, sessionVars>>)
    \/ StepOf("listings", ListingsNext, <<vars, assetVars, reindexVars, backfillVars, accessVars, sessionVars>>)
    \/ StepOf("assets", AssetsNext, <<vars, listVars, reindexVars, backfillVars, accessVars, sessionVars>>)
    \/ StepOf("reindex", ReindexNext, <<vars, listVars, assetVars, backfillVars, accessVars, sessionVars>>)
    \/ StepOf("backfill", BackfillNext, <<vars, listVars, assetVars, reindexVars, accessVars, sessionVars>>)
    \/ StepOf("access", AccessNext, <<vars, listVars, assetVars, reindexVars, backfillVars, sessionVars>>)
    \/ StepOf("sessions", SessionsNext, <<vars, listVars, assetVars, reindexVars, backfillVars, accessVars>>)

contentsVars == <<part, vars, listVars, assetVars, reindexVars, backfillVars, accessVars, sessionVars>>

ContentsSpec == ContentsInit /\ [][ContentsNext]_contentsVars

ContentsTypesOK ==
    /\ TypeOK /\ ListingsTypeOK /\ AssetsTypeOK /\ ReindexTypeOK /\ BackfillTypeOK
    /\ AccessTypeOK /\ SessionsTypeOK
=============================================================================

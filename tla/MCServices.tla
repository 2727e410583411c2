------------------------------ MODULE MCServices ------------------------------
(***************************************************************************)
(* The smaller services for TLC.  They share no state that their models    *)
(* have, so a behaviour of the run is one of one of them: part says of     *)
(* which, and the others stay as they start.  The states add up instead of *)
(* multiplying.  No symmetry: liveness is checked.                         *)
(***************************************************************************)
EXTENDS Followers, Accounts, Bookmarks, DatabaseCheck, MonitorSockets, Lifecycle,
        TLC

VARIABLE part

Parts == {"followers", "accounts", "bookmarks", "checks", "sockets", "lifecycle"}

\* The parts that do not run have MongoDB for their database.
ASSUME MongoIsAStore == "mongo" \in Stores

\* A process that is gone does nothing.
ProcessEnded ==
    /\ base = "mongo" /\ stage = "exited" /\ tries = 0
    /\ adapter = FALSE /\ link = TRUE /\ outages = 0 /\ server = "none"
    /\ halt = [g \in Signals |-> "none"] /\ call = [c \in Calls |-> "none"]
    /\ early = FALSE

\* A part that does not run starts in one way only.
ServicesInit ==
    /\ part \in Parts
    /\ FollowersInit /\ (part # "followers" => store = "mongo")
    /\ AccountsInit
    /\ part # "accounts" =>
          /\ engine = "mongo" /\ grants = {}
          /\ \A r \in Roles : roleState[r] = "active"
          /\ \A i \in UserIds : user[i] = NoRow
    /\ BookmarksInit /\ (part # "bookmarks" => bookmarks = {})
    /\ CheckInit /\ (part # "checks" => ~watching)
    /\ SocketsInit
    /\ IF part = "lifecycle" THEN LifecycleInit ELSE ProcessEnded

StepOf(name, Action, others) == part = name /\ Action /\ UNCHANGED <<part, others>>

ServicesNext ==
    \/ StepOf("followers", FollowersNext,
              <<accountVars, bookmarkVars, checkVars, socketVars, lifeVars>>)
    \/ StepOf("accounts", AccountsNext,
              <<followVars, bookmarkVars, checkVars, socketVars, lifeVars>>)
    \/ StepOf("bookmarks", BookmarksNext,
              <<followVars, accountVars, checkVars, socketVars, lifeVars>>)
    \/ StepOf("checks", CheckNext,
              <<followVars, accountVars, bookmarkVars, socketVars, lifeVars>>)
    \/ StepOf("sockets", SocketsNext,
              <<followVars, accountVars, bookmarkVars, checkVars, lifeVars>>)
    \/ StepOf("lifecycle", LifecycleNext,
              <<followVars, accountVars, bookmarkVars, checkVars, socketVars>>)

servicesVars ==
    <<part, followVars, accountVars, bookmarkVars, checkVars, socketVars, lifeVars>>

\* The parts whose liveness is checked; one that does not run has nothing enabled.
ServicesSpec ==
    /\ ServicesInit /\ [][ServicesNext]_servicesVars
    /\ BookmarksFairness /\ CheckFairness /\ LifecycleFairness

ServicesTypesOK ==
    /\ FollowersTypeOK /\ AccountsTypeOK /\ BookmarksTypeOK /\ CheckTypeOK /\ SocketsTypeOK
    /\ LifecycleTypeOK
=============================================================================

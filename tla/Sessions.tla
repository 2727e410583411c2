------------------------------ MODULE Sessions ------------------------------
(***************************************************************************)
(* The tokens of one user: a login reads the user's row, compares the      *)
(* password and signs a token; a change of the password is stamped when it *)
(* is computed and stored by a later call; the middleware verifies a token *)
(* and then looks up when the password was last changed.  Requests         *)
(* interleave at every call.  How a change is allowed is in Accounts.      *)
(*                                                                         *)
(* Time counts half seconds: a token carries whole seconds, a change does  *)
(* not.  A password is known by how many the user had before it.           *)
(***************************************************************************)
EXTENDS Integers

CONSTANTS
    Terms,      \* for how many seconds tokens are signed
    Renewals,   \* changes of the password that may be in progress at a time
    MaxTime, MaxLogins, MaxRenewals, MaxUses  \* bounds

ASSUME SessionsAssumption ==
    /\ Terms \subseteq Nat
    /\ MaxTime \in Nat /\ MaxLogins \in Nat /\ MaxRenewals \in Nat /\ MaxUses \in Nat

VARIABLES
    now,
    account,  \* the user's row
    login,    \* the login in progress
    tokens,   \* those signed
    renewal,  \* renewal[r]: a change of the password
    use,      \* the request that carries a token
    logins, renewals, uses  \* counters

sessionVars == <<now, account, login, tokens, renewal, use, logins, renewals, uses>>

Never == -1
Times == 0 .. MaxTime
Passwords == 0 .. MaxRenewals
UserRow == [present : BOOLEAN, password : Passwords, changed : Times \union {Never}]
TokenSet == [iat : Times, until : Nat, password : Passwords, beside : BOOLEAN]
NoToken == [iat |-> 0, until |-> 0, password |-> 0, beside |-> FALSE]
NoLogin == [pc |-> "idle", entered |-> 0, password |-> 0, beside |-> FALSE]
NoRenewal == [pc |-> "idle", stamp |-> 0]
NoUse == [pc |-> "idle", token |-> NoToken, answer |-> "none", by |-> "nothing",
          row |-> [present |-> TRUE, password |-> 0, changed |-> Never]]

SessionsInit ==
    /\ now = 0
    /\ account = [present |-> TRUE, password |-> 0, changed |-> Never]
    /\ login = NoLogin /\ tokens = {}
    /\ renewal = [r \in Renewals |-> NoRenewal]
    /\ use = NoUse
    /\ logins = 0 /\ renewals = 0 /\ uses = 0

Second == now \div 2

-----------------------------------------------------------------------------
(***************************************************************************)
(* Logins.  Whether a change of the password is in progress at some time   *)
(* between the login's read and its signature is noted (beside).           *)
(***************************************************************************)
Renewing == \E r \in Renewals : renewal[r].pc # "idle"
LoginBeside == [login EXCEPT !.beside = login.pc # "idle"]

\* loginUser reads the row with its password; googleLogin reads it and compares nothing.
StartLogin(how, entered) ==
    /\ login.pc = "idle" /\ account.present /\ logins < MaxLogins
    /\ entered <= account.password /\ (how = "google" => entered = 0)
    /\ login' = [pc |-> IF how = "google" THEN "sign" ELSE "compare", entered |-> entered,
                 password |-> account.password, beside |-> Renewing]
    /\ logins' = logins + 1
    /\ UNCHANGED <<now, account, tokens, renewal, use, renewals, uses>>

Compare ==
    /\ login.pc = "compare"
    /\ login' = IF login.entered = login.password THEN [login EXCEPT !.pc = "sign"] ELSE NoLogin
    /\ UNCHANGED <<now, account, tokens, renewal, use, logins, renewals, uses>>

\* createJwtForUser: 'remember me' decides the term.
Sign(term) ==
    /\ login.pc = "sign"
    /\ tokens' = tokens \union {[iat |-> Second, until |-> Second + term,
                                 password |-> login.password, beside |-> login.beside]}
    /\ login' = NoLogin
    /\ UNCHANGED <<now, account, renewal, use, logins, renewals, uses>>

-----------------------------------------------------------------------------
(***************************************************************************)
(* Changes of the password, and the end of the user.                       *)
(***************************************************************************)
\* resetPassword and confirmPasswordChange take the time as they call the database.
StampChange(r) ==
    /\ renewal[r].pc = "idle" /\ renewals < MaxRenewals
    /\ renewal' = [renewal EXCEPT ![r] = [pc |-> "write", stamp |-> now]]
    /\ renewals' = renewals + 1
    /\ login' = LoginBeside
    /\ UNCHANGED <<now, account, tokens, use, logins, uses>>

\* The update of a row that is gone, or that fails, changes nothing.
WriteChange(r) ==
    /\ renewal[r].pc = "write"
    /\ renewal' = [renewal EXCEPT ![r] = NoRenewal]
    /\ \/ /\ account.present
          /\ account' = [account EXCEPT !.password = @ + 1, !.changed = renewal[r].stamp]
       \/ UNCHANGED account
    /\ login' = LoginBeside
    /\ UNCHANGED <<now, tokens, use, logins, renewals, uses>>

DeleteUser ==
    /\ account.present
    /\ account' = [account EXCEPT !.present = FALSE]
    /\ UNCHANGED <<now, login, tokens, renewal, use, logins, renewals, uses>>

-----------------------------------------------------------------------------
(***************************************************************************)
(* The middleware.                                                         *)
(***************************************************************************)
Concludes(answer, by) ==
    use' = [use EXCEPT !.pc = "done", !.answer = answer, !.by = by, !.row = account]

StartUse(t) ==
    /\ use.pc \in {"idle", "done"} /\ uses < MaxUses
    /\ use' = [NoUse EXCEPT !.pc = "verify", !.token = t]
    /\ uses' = uses + 1
    /\ UNCHANGED <<now, account, login, tokens, renewal, logins, renewals>>

\* getOptionalAccess is content with a valid token; getAccessToRoute looks the user up.
Verify(optional) ==
    /\ use.pc = "verify"
    /\ IF Second >= use.token.until
       THEN Concludes(IF optional THEN "anonymous" ELSE "refused", "clock")
       ELSE IF optional THEN Concludes("accepted", "clock")
       ELSE use' = [use EXCEPT !.pc = "lookup"]
    /\ UNCHANGED <<now, account, login, tokens, renewal, logins, renewals, uses>>

\* Mutant: both times are compared in whole seconds.
MutantWholeSeconds(t) == account.changed # Never /\ t.iat < account.changed \div 2

ChangedSince(t) == account.changed # Never /\ 2 * t.iat < account.changed

\* When the user is not found, or the database fails, the token will do.
LookUpChange ==
    /\ use.pc = "lookup"
    /\ \/ /\ account.present
          /\ Concludes(IF ChangedSince(use.token) THEN "refused" ELSE "accepted", "row")
       \/ Concludes("accepted", "error")
    /\ UNCHANGED <<now, account, login, tokens, renewal, logins, renewals, uses>>

Tick ==
    /\ now < MaxTime /\ now' = now + 1
    /\ UNCHANGED <<account, login, tokens, renewal, use, logins, renewals, uses>>

SessionsNext ==
    \/ \E how \in {"password", "google"}, entered \in Passwords : StartLogin(how, entered)
    \/ Compare
    \/ \E term \in Terms : Sign(term)
    \/ \E r \in Renewals : StampChange(r) \/ WriteChange(r)
    \/ DeleteUser
    \/ \E t \in tokens : StartUse(t)
    \/ \E optional \in BOOLEAN : Verify(optional)
    \/ LookUpChange
    \/ Tick

SessionsSpec == SessionsInit /\ [][SessionsNext]_sessionVars

SessionsTypeOK ==
    /\ now \in Times /\ account \in UserRow
    /\ login \in [pc : {"idle", "compare", "sign"}, entered : Passwords,
                  password : Passwords, beside : BOOLEAN]
    /\ tokens \subseteq TokenSet
    /\ renewal \in [Renewals -> [pc : {"idle", "write"}, stamp : Times]]
    /\ use \in [pc : {"idle", "verify", "lookup", "done"}, token : TokenSet,
                answer : {"none", "accepted", "refused", "anonymous"},
                by : {"nothing", "clock", "row", "error"}, row : UserRow]
    /\ logins \in Nat /\ renewals \in Nat /\ uses \in Nat

-----------------------------------------------------------------------------
Looked == use.pc = "done" /\ use.by = "row"

\* The lookup admits those who logged in with the password that is stored then.  Who else
\* is admitted logged in beside a change of the password, or at its very instant.
OldTokensGo ==
    Looked /\ use.answer = "accepted" =>
        \/ use.token.password = use.row.password
        \/ use.token.beside \/ 2 * use.token.iat = use.row.changed

\* Who logged in with the password that is stored is turned away, before the token ends,
\* only if the login came in the second of the change.
NewTokensStay ==
    Looked /\ use.answer = "refused" =>
        \/ use.token.password # use.row.password
        \/ use.token.iat = use.row.changed \div 2

\* Tokens last exactly as long as the password they were issued for.
TokensFollowPassword == OldTokensGo /\ NewTokensStay
=============================================================================

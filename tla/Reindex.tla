------------------------------- MODULE Reindex -------------------------------
(***************************************************************************)
(* The script that rebuilds the search indexes from the database, beside   *)
(* the server that goes on writing to both.                                *)
(*                                                                         *)
(* With --recreate the indexes are deleted first and created again with    *)
(* their mapping.  Every content is read, then indexed as it was read.     *)
(* The server, too, creates an index that it does not find, with whatever  *)
(* mapping Elasticsearch guesses.  Updates that fail are swallowed.        *)
(***************************************************************************)
EXTENDS Naturals

CONSTANTS
    Topics, Replies,    \* ids of questions and of answers
    MaxEdits            \* bound on writes of the server

Papers == Topics \union Replies
Indexes == {"questions", "answers"}
Home(x) == IF x \in Topics THEN "questions" ELSE "answers"
Of(i) == {x \in Papers : Home(x) = i}

ASSUME ReindexAssumption == Topics \intersect Replies = {} /\ MaxEdits \in Nat

Versions == 0..MaxEdits + 1     \* 0: there is none

VARIABLES
    version,    \* version[x]: what the database holds of x
    sheet,      \* sheet[x]: the version that the search document shows
    mapping,    \* mapping[i]: no index, one made for its fields, or one guessed from them
    pending,    \* updates of the server on their way to the index
    edits,
    script,     \* the script
    stirred,    \* contents the server wrote or indexed too late for the script
    revived     \* indexes the server brought back while the script ran

reindexVars == <<version, sheet, mapping, pending, edits, script, stirred, revived>>

Pendings == [x : Papers, op : {"index", "update", "delete"}, v : Versions]
Scripts == [pc : {"off", "drop", "create", "read", "put", "done"},
            recreate : BOOLEAN,
            plan : SUBSET Indexes,          \* what the command asks for
            dropped : SUBSET Indexes,
            current : Indexes,              \* the index that is filled now
            filled : SUBSET Indexes,
            copy : [Papers -> Versions],    \* what was read
            left : SUBSET Papers]           \* still to index
NoScript == [pc |-> "off", recreate |-> FALSE, plan |-> {}, dropped |-> {},
             current |-> "questions", filled |-> {}, copy |-> [x \in Papers |-> 0], left |-> {}]

\* Updates may have been lost before: documents are missing, old or left over.
ReindexInit ==
    /\ version \in [Papers -> {0, 1}]
    /\ sheet \in [Papers -> {0, 1}]
    /\ mapping \in {[i \in Indexes |-> m] : m \in {"proper", "guessed"}}
    /\ pending = {} /\ edits = 0
    /\ script = NoScript
    /\ stirred = {} /\ revived = {}

-----------------------------------------------------------------------------
\* The server.
Started == script.pc # "off"
WasRead(x) == Home(x) \in script.filled \/ (script.pc = "put" /\ script.current = Home(x))
StirsIf(late, x) == stirred' = IF Started /\ late THEN stirred \union {x} ELSE stirred

WriteContent(x) ==
    LET v == version[x] + 1
    IN /\ edits < MaxEdits /\ edits' = edits + 1
       /\ version' = [version EXCEPT ![x] = v]
       /\ pending' = pending \union
              {[x |-> x, op |-> IF v = 1 THEN "index" ELSE "update", v |-> v]}
       /\ StirsIf(WasRead(x), x)
       /\ UNCHANGED <<sheet, mapping, script, revived>>

DeleteContent(x) ==
    /\ version[x] # 0
    /\ edits < MaxEdits /\ edits' = edits + 1
    /\ version' = [version EXCEPT ![x] = 0]
    /\ pending' = pending \union {[x |-> x, op |-> "delete", v |-> 0]}
    /\ StirsIf(WasRead(x), x)
    /\ UNCHANGED <<sheet, mapping, script, revived>>

\* The server's way to an index: createIndexIfNotExists before a whole document is indexed,
\* and the engine itself for an update, which finds no document in it.
Guessed(i) == [mapping EXCEPT ![i] = IF @ = "absent" THEN "guessed" ELSE @]
\* initializeRegisteredIndexes, and every search.
MutantNeverCreates(I) == mapping
Made(I) == [i \in Indexes |-> IF i \in I /\ mapping[i] = "absent" THEN "proper" ELSE mapping[i]]

SyncContent(u) ==
    /\ pending' = pending \ {u}
    /\ IF u.op = "delete" THEN UNCHANGED mapping ELSE mapping' = Guessed(Home(u.x))
    /\ revived' = IF Started /\ mapping' # mapping THEN revived \union {Home(u.x)} ELSE revived
    /\ sheet' = IF u.op = "update" /\ sheet[u.x] = 0 THEN sheet
                ELSE [sheet EXCEPT ![u.x] = u.v]
    /\ StirsIf(version[u.x] = 0 /\ u.op # "delete", u.x)
    /\ UNCHANGED <<version, edits, script>>

LoseSync(u) ==
    /\ pending' = pending \ {u}
    /\ StirsIf(u.op = "delete", u.x)
    /\ UNCHANGED <<version, sheet, mapping, edits, script, revived>>

SearchIndex(i) ==
    /\ mapping' = Made({i}) /\ mapping' # mapping
    /\ UNCHANGED <<version, sheet, pending, edits, script, stirred, revived>>

-----------------------------------------------------------------------------
\* The script.
StartReindex(plan, recreate) ==
    /\ script.pc \in {"off", "done"}
    /\ script' = [NoScript EXCEPT !.plan = plan, !.recreate = recreate,
                                  !.pc = IF recreate THEN "drop" ELSE "create"]
    /\ stirred' = {} /\ revived' = {}
    /\ UNCHANGED <<version, sheet, mapping, pending, edits>>

\* Both indexes go, whichever the command asks for; each is looked at again and deleted
\* again while the server brings it back.
DropIndex(i) ==
    /\ script.pc = "drop" /\ (i = "answers" => "questions" \in script.dropped)
    /\ IF mapping[i] = "absent"
       THEN /\ script' = [script EXCEPT !.dropped = @ \union {i},
                                        !.pc = IF i = "answers" THEN "create" ELSE @]
            /\ UNCHANGED <<mapping, sheet>>
       ELSE /\ i \notin script.dropped
            /\ mapping' = [mapping EXCEPT ![i] = "absent"]
            /\ sheet' = [x \in Papers |-> IF Home(x) = i THEN 0 ELSE sheet[x]]
            /\ UNCHANGED script
    /\ UNCHANGED <<version, pending, edits, stirred, revived>>

CreateIndexes ==
    /\ script.pc = "create"
    /\ mapping' = Made(Indexes)
    /\ script' = [script EXCEPT !.pc = "read", !.dropped = {}]
    /\ UNCHANGED <<version, sheet, pending, edits, stirred, revived>>

ReadContents(i) ==
    /\ script.pc = "read" /\ i \in script.plan \ script.filled
    /\ i = "answers" => script.plan \subseteq script.filled \union {i}
    /\ script' = [script EXCEPT !.pc = "put", !.current = i,
                                !.copy = [x \in Papers |-> IF Home(x) = i THEN version[x] ELSE 0],
                                !.left = {x \in Of(i) : version[x] # 0}]
    /\ stirred' = stirred \union {u.x : u \in {v \in pending : Home(v.x) = i}}
    /\ UNCHANGED <<version, sheet, mapping, pending, edits, revived>>

\* Mutant: documents are updated instead of indexed.
MutantUpdates(x) == [sheet EXCEPT ![x] = IF @ = 0 THEN 0 ELSE script.copy[x]]
Put(x) == [sheet EXCEPT ![x] = script.copy[x]]

\* bulkSync sends a batch at once, and swallows what fails.
IndexContent(x) ==
    /\ script.pc = "put" /\ x \in script.left
    /\ script' = [script EXCEPT !.left = @ \ {x}]
    /\ \/ sheet' = Put(x) /\ mapping' = Guessed(Home(x)) /\ UNCHANGED stirred
       \/ stirred' = stirred \union {x} /\ UNCHANGED <<sheet, mapping>>
    /\ UNCHANGED <<version, pending, edits, revived>>

EndIndex ==
    /\ script.pc = "put" /\ script.left = {}
    /\ LET filled == script.filled \union {script.current}
       IN script' = [script EXCEPT !.filled = filled, !.copy = NoScript.copy,
                                   !.pc = IF script.plan \subseteq filled THEN "done" ELSE "read"]
    /\ UNCHANGED <<version, sheet, mapping, pending, edits, stirred, revived>>

\* An error, or an index that would not go away: the process ends.  It may be run again.
ScriptFails ==
    /\ script.pc \notin {"off", "done"}
    /\ script' = NoScript /\ stirred' = {} /\ revived' = {}
    /\ UNCHANGED <<version, sheet, mapping, pending, edits>>

ReindexNext ==
    \/ \E x \in Papers : WriteContent(x) \/ DeleteContent(x) \/ IndexContent(x)
    \/ \E u \in pending : SyncContent(u) \/ LoseSync(u)
    \/ \E i \in Indexes : SearchIndex(i) \/ DropIndex(i) \/ ReadContents(i)
    \/ \E plan \in (SUBSET Indexes) \ {{}}, recreate \in BOOLEAN : StartReindex(plan, recreate)
    \/ CreateIndexes \/ EndIndex \/ ScriptFails

ReindexSpec == ReindexInit /\ [][ReindexNext]_reindexVars

-----------------------------------------------------------------------------
ReindexTypeOK ==
    /\ version \in [Papers -> Versions] /\ sheet \in [Papers -> Versions]
    /\ mapping \in [Indexes -> {"absent", "proper", "guessed"}]
    /\ pending \subseteq Pendings
    /\ edits \in 0..MaxEdits
    /\ script \in Scripts
    /\ stirred \subseteq Papers /\ revived \subseteq Indexes

\* Whatever had been lost before, once the script is done each content it was asked for is
\* found as the database has it.  With --recreate nothing else is found, and the index has
\* its own mapping unless the server brought it back meanwhile.  Excepted are contents that
\* the server wrote after the script had read them or whose update was still on its way
\* then, deleted contents of which an older update came in or the removal was lost, and contents
\* that the script failed to index.
ReindexRepairs ==
    script.pc = "done" =>
        \A x \in Papers : Home(x) \in script.plan =>
            /\ x \notin stirred /\ version[x] # 0 => sheet[x] = version[x]
            /\ x \notin stirred /\ script.recreate => sheet[x] = version[x]
            /\ script.recreate /\ Home(x) \notin revived => mapping[Home(x)] = "proper"
=============================================================================

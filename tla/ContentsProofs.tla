--------------------------- MODULE ContentsProofs ---------------------------
(***************************************************************************)
(* Theorems about what is around the contents, for any contents, files,    *)
(* roles and bounds: what the script that rebuilds the indexes leaves beside*)
(* the server (Reindex), what a reader sees page by page (Listings), which *)
(* chains the script that adds ancestors leaves (Backfill), what roles and *)
(* permissions are worth when they are checked (Access), the tokens the    *)
(* server signs (Sessions) and the files in object storage (Assets); and   *)
(* that what is proved of these and of the reactions holds of them side by *)
(* side, as MCContents runs them.                                          *)
(***************************************************************************)
EXTENDS MCContents, ReactionsProofs, FiniteSetTheorems, SequenceTheorems

-----------------------------------------------------------------------------
(***************************************************************************)
(* Reindex: typing.  A version is at most one more than the writes so far, *)
(* which keeps the versions within their bound.                            *)
(***************************************************************************)
LEMMA HomeType == \A x \in Papers : Home(x) \in Indexes
BY DEF Home, Indexes

VersionsBounded == \A x \in Papers : version[x] <= edits + 1
ReindexTyped == ReindexTypeOK /\ VersionsBounded

LEMMA ScriptFields ==
    ASSUME NEW s \in Scripts
    PROVE  /\ s.pc \in {"off", "drop", "create", "read", "put", "done"}
           /\ s.recreate \in BOOLEAN /\ s.plan \in SUBSET Indexes
           /\ s.dropped \in SUBSET Indexes /\ s.current \in Indexes
           /\ s.filled \in SUBSET Indexes
           /\ s.copy \in [Papers -> Versions] /\ s.left \in SUBSET Papers
BY DEF Scripts

LEMMA NoScriptType == NoScript \in Scripts
BY ReindexAssumption DEF NoScript, Scripts, Indexes, Versions

LEMMA MadeType ==
    ASSUME mapping \in [Indexes -> {"absent", "proper", "guessed"}], NEW I
    PROVE  /\ Made(I) \in [Indexes -> {"absent", "proper", "guessed"}]
           /\ \A i \in Indexes : Guessed(i) \in [Indexes -> {"absent", "proper", "guessed"}]
BY DEF Made, Guessed

LEMMA ReindexTypingInit == ReindexInit => ReindexTyped
<1> SUFFICES ASSUME ReindexInit PROVE ReindexTyped
  OBVIOUS
<1>1. \A x \in Papers : version[x] \in {0, 1}
  BY DEF ReindexInit
<1>2. {0, 1} \subseteq Versions /\ edits \in 0..MaxEdits
  BY ReindexAssumption DEF Versions, ReindexInit
<1>3. version \in [Papers -> Versions] /\ sheet \in [Papers -> Versions]
  BY <1>2 DEF ReindexInit
<1>4. mapping \in [Indexes -> {"absent", "proper", "guessed"}]
  BY DEF ReindexInit
<1>5. VersionsBounded
  BY <1>1 DEF VersionsBounded, ReindexInit
<1>6. QED
  BY <1>2, <1>3, <1>4, <1>5, NoScriptType DEF ReindexInit, ReindexTyped, ReindexTypeOK

LEMMA ReindexTypingNext == ReindexTyped /\ [ReindexNext]_reindexVars => ReindexTyped'
<1> SUFFICES ASSUME ReindexTyped, [ReindexNext]_reindexVars PROVE ReindexTyped'
  OBVIOUS
<1>0. /\ version \in [Papers -> Versions] /\ sheet \in [Papers -> Versions]
      /\ mapping \in [Indexes -> {"absent", "proper", "guessed"}]
      /\ pending \subseteq Pendings
      /\ edits \in 0..MaxEdits
      /\ script \in Scripts
      /\ stirred \subseteq Papers /\ revived \subseteq Indexes
      /\ \A x \in Papers : version[x] <= edits + 1
  BY DEF ReindexTyped, ReindexTypeOK, VersionsBounded
<1>v. \A v : v \in Versions <=> v \in Nat /\ v <= MaxEdits + 1
  BY ReindexAssumption DEF Versions
<1>u. \A u \in pending : u.x \in Papers /\ u.v \in Versions
  BY <1>0 DEF Pendings
<1>a. ASSUME sheet' \in [Papers -> Versions],
             mapping' \in [Indexes -> {"absent", "proper", "guessed"}],
             pending' \subseteq pending, UNCHANGED <<version, edits>>,
             script' \in Scripts, stirred' \subseteq Papers, revived' \subseteq Indexes
      PROVE  ReindexTyped'
  BY <1>0, <1>a DEF ReindexTyped, ReindexTypeOK, VersionsBounded
\* A write of the server.
<1>b. ASSUME NEW x \in Papers, NEW v \in Nat, v <= version[x] + 1,
             NEW op \in {"index", "update", "delete"},
             edits < MaxEdits, edits' = edits + 1, version' = [version EXCEPT ![x] = v],
             pending' = pending \union {[x |-> x, op |-> op, v |-> v]},
             stirred' \subseteq Papers, UNCHANGED <<sheet, mapping, script, revived>>
      PROVE  ReindexTyped'
  <2>1. edits' \in 0..MaxEdits /\ v <= edits' + 1 /\ v \in Versions
    BY <1>0, <1>b, <1>v, ReindexAssumption
  <2>2. \A y \in Papers : version'[y] <= edits' + 1
    BY <1>0, <1>b, <1>v, <2>1
  <2>3. version' \in [Papers -> Versions]
    BY <1>0, <1>b, <2>1
  <2>4. pending' \subseteq Pendings
    BY <1>0, <1>b, <2>1 DEF Pendings
  <2>5. QED
    BY <1>0, <1>b, <2>1, <2>2, <2>3, <2>4 DEF ReindexTyped, ReindexTypeOK, VersionsBounded
<1>1. ASSUME NEW x \in Papers, WriteContent(x)
      PROVE  ReindexTyped'
  <2> DEFINE v == version[x] + 1
             op == IF v = 1 THEN "index" ELSE "update"
  <2>1. v \in Nat
    BY <1>0, <1>v
  <2>2. stirred' \subseteq Papers
    BY <1>0, <1>1 DEF WriteContent, StirsIf
  <2>3. op \in {"index", "update", "delete"}
    OBVIOUS
  <2>4. /\ edits < MaxEdits /\ edits' = edits + 1 /\ version' = [version EXCEPT ![x] = v]
        /\ pending' = pending \union {[x |-> x, op |-> op, v |-> v]}
        /\ UNCHANGED <<sheet, mapping, script, revived>>
    BY <1>1 DEF WriteContent
  <2> HIDE DEF op
  <2>5. v <= version[x] + 1
    BY <2>1
  <2> HIDE DEF v
  <2>6. QED
    BY <1>b, <2>1, <2>2, <2>3, <2>4, <2>5
<1>2. ASSUME NEW x \in Papers, DeleteContent(x)
      PROVE  ReindexTyped'
  <2>1. stirred' \subseteq Papers
    BY <1>0, <1>2 DEF DeleteContent, StirsIf
  <2>2. 0 <= version[x] + 1
    BY <1>0, <1>v
  <2>3. QED
    BY <1>2, <1>b, <2>1, <2>2 DEF DeleteContent
<1>3. ASSUME NEW u \in pending, SyncContent(u)
      PROVE  ReindexTyped'
  <2>1. Home(u.x) \in Indexes
    BY <1>u, HomeType
  <2>2. mapping' \in [Indexes -> {"absent", "proper", "guessed"}]
    BY <1>0, <1>3, <2>1, MadeType DEF SyncContent
  <2>3. sheet' \in [Papers -> Versions]
    BY <1>0, <1>3, <1>u DEF SyncContent
  <2>4. stirred' \subseteq Papers /\ revived' \subseteq Indexes
    BY <1>0, <1>3, <1>u, <2>1 DEF SyncContent, StirsIf
  <2>5. QED
    BY <1>0, <1>3, <1>a, <2>2, <2>3, <2>4 DEF SyncContent
<1>4. ASSUME NEW u \in pending, LoseSync(u)
      PROVE  ReindexTyped'
  <2>1. stirred' \subseteq Papers
    BY <1>0, <1>4, <1>u DEF LoseSync, StirsIf
  <2>2. QED
    BY <1>0, <1>4, <1>a, <2>1 DEF LoseSync
<1>5. ASSUME NEW i \in Indexes, SearchIndex(i)
      PROVE  ReindexTyped'
  BY <1>0, <1>5, <1>a, MadeType DEF SearchIndex
<1>6. ASSUME NEW plan \in (SUBSET Indexes) \ {{}}, NEW recreate \in BOOLEAN,
             StartReindex(plan, recreate)
      PROVE  ReindexTyped'
  <2>1. script' \in Scripts
    BY <1>6, NoScriptType DEF StartReindex, Scripts
  <2>2. QED
    BY <1>0, <1>6, <1>a, <2>1 DEF StartReindex
<1>7. ASSUME NEW i \in Indexes, DropIndex(i)
      PROVE  ReindexTyped'
  <2>1. script' \in Scripts
    <3> DEFINE dropped == script.dropped \union {i}
               pc == IF i = "answers" THEN "create" ELSE script.pc
    <3>1. \/ script' = script
          \/ script' = [script EXCEPT !.dropped = dropped, !.pc = pc]
      BY <1>7 DEF DropIndex
    <3>2. /\ dropped \in SUBSET Indexes
          /\ pc \in {"off", "drop", "create", "read", "put", "done"}
      BY <1>0, ScriptFields
    <3> HIDE DEF dropped, pc
    <3>3. QED
      BY <1>0, <3>1, <3>2 DEF Scripts
  <2>2. mapping' \in [Indexes -> {"absent", "proper", "guessed"}]
    BY <1>0, <1>7 DEF DropIndex
  <2>3. sheet' \in [Papers -> Versions]
    <3>1. 0 \in Versions
      BY <1>v, ReindexAssumption
    <3>2. QED
      BY <1>0, <1>7, <3>1 DEF DropIndex
  <2>4. QED
    BY <1>0, <1>7, <1>a, <2>1, <2>2, <2>3 DEF DropIndex
<1>8. CASE CreateIndexes
  <2>1. script' \in Scripts
    BY <1>0, <1>8 DEF CreateIndexes, Scripts
  <2>2. QED
    BY <1>0, <1>8, <1>a, <2>1, MadeType DEF CreateIndexes
<1>9. ASSUME NEW i \in Indexes, ReadContents(i)
      PROVE  ReindexTyped'
  <2> DEFINE copy == [x \in Papers |-> IF Home(x) = i THEN version[x] ELSE 0]
             left == {x \in Of(i) : version[x] # 0}
  <2>1. copy \in [Papers -> Versions] /\ left \in SUBSET Papers
    BY <1>0, <1>v, ReindexAssumption DEF Of
  <2>2. script' = [script EXCEPT !.pc = "put", !.current = i, !.copy = copy, !.left = left]
    BY <1>9 DEF ReadContents
  <2> HIDE DEF copy, left
  <2>3. script' \in Scripts
    BY <1>0, <2>1, <2>2 DEF Scripts
  <2>4. stirred' \subseteq Papers
    BY <1>0, <1>9, <1>u DEF ReadContents
  <2>5. QED
    BY <1>0, <1>9, <1>a, <2>3, <2>4 DEF ReadContents
<1>10. ASSUME NEW x \in Papers, IndexContent(x)
       PROVE  ReindexTyped'
  <2>1. script' \in Scripts
    BY <1>0, <1>10 DEF IndexContent, Scripts
  <2>2. script.copy \in [Papers -> Versions]
    BY <1>0, ScriptFields
  <2>3. sheet' \in [Papers -> Versions]
    BY <1>0, <1>10, <2>2 DEF IndexContent, Put
  <2>4. mapping' \in [Indexes -> {"absent", "proper", "guessed"}]
    BY <1>0, <1>10, HomeType, MadeType DEF IndexContent
  <2>5. stirred' \subseteq Papers
    BY <1>0, <1>10 DEF IndexContent
  <2>6. QED
    BY <1>0, <1>10, <1>a, <2>1, <2>3, <2>4, <2>5 DEF IndexContent
<1>11. CASE EndIndex
  <2> DEFINE filled == script.filled \union {script.current}
  <2>1. filled \in SUBSET Indexes /\ NoScript.copy \in [Papers -> Versions]
    BY <1>0, ScriptFields, NoScriptType
  <2>2. script' = [script EXCEPT !.filled = filled, !.copy = NoScript.copy,
                                 !.pc = IF script.plan \subseteq filled THEN "done" ELSE "read"]
    BY <1>11 DEF EndIndex
  <2> HIDE DEF filled
  <2>3. script' \in Scripts
    BY <1>0, <2>1, <2>2 DEF Scripts
  <2>4. QED
    BY <1>0, <1>11, <1>a, <2>3 DEF EndIndex
<1>12. CASE ScriptFails
  BY <1>0, <1>12, <1>a, NoScriptType DEF ScriptFails
<1>13. CASE UNCHANGED reindexVars
  BY <1>0, <1>13, <1>a DEF reindexVars
<1>14. QED
  BY <1>1, <1>2, <1>3, <1>4, <1>5, <1>6, <1>7, <1>8, <1>9, <1>10, <1>11, <1>12, <1>13
     DEF ReindexNext

(***************************************************************************)
(* Every reachable state of Reindex is well typed; versions keep their     *)
(* bound.                                                                  *)
(***************************************************************************)
THEOREM ReindexTyping == ReindexSpec => []ReindexTypeOK
<1>1. ReindexTyped => ReindexTypeOK
  BY DEF ReindexTyped
<1>2. QED
  BY <1>1, ReindexTypingInit, ReindexTypingNext, PTL DEF ReindexSpec

-----------------------------------------------------------------------------
(***************************************************************************)
(* The inductive invariant.  Until the script has read an index, what it   *)
(* deleted does not come back but for contents with a removal under way;   *)
(* once it has read it, whatever else is under way for a content counts    *)
(* that content among the stirred.                                         *)
(***************************************************************************)
ScriptInOrder ==
    /\ script.pc \in {"off", "drop", "create"} => script.filled = {}
    /\ script.pc \notin {"drop", "create"} => script.dropped = {}
    /\ script.left \subseteq Of(script.current)
    /\ script.pc # "put" => script.left = {}
    /\ script.pc = "done" => script.plan \subseteq script.filled
AbsentIsEmpty == \A x \in Papers : mapping[Home(x)] = "absent" => sheet[x] = 0
RemovalsAreEmpty == \A u \in pending : u.op = "delete" => u.v = 0
LateAreStirred == \A u \in pending : WasRead(u.x) => u.x \in stirred

\* The script has deleted the index i, or need not.
Cleared(i) == script.recreate /\ (i \in script.dropped \/ script.pc \in {"create", "read", "put", "done"})
RemovalPending(x) == \E u \in pending : u.x = x /\ u.op = "delete"
LeftoversGo ==
    \A x \in Papers :
        Cleared(Home(x)) /\ ~WasRead(x) /\ x \notin stirred /\ version[x] = 0 /\ sheet[x] # 0
            => RemovalPending(x)
CopiesCurrent ==
    \A x \in Papers :
        script.pc = "put" /\ Home(x) = script.current /\ x \notin stirred
            => script.copy[x] = version[x]
ReadAreRight ==
    \A x \in Papers :
        WasRead(x) /\ x \notin stirred =>
            /\ version[x] # 0 /\ x \notin script.left => sheet[x] = version[x]
            /\ version[x] = 0 /\ script.recreate => sheet[x] = 0
MappingsHold ==
    \A i \in Indexes :
        Cleared(i) /\ i \notin revived =>
            /\ mapping[i] # "guessed"
            /\ script.pc \in {"read", "put", "done"} => mapping[i] = "proper"

RepairParts ==
    /\ ScriptInOrder /\ AbsentIsEmpty /\ RemovalsAreEmpty /\ LateAreStirred /\ LeftoversGo
    /\ CopiesCurrent /\ ReadAreRight /\ MappingsHold
RepairInv == ReindexTyped /\ RepairParts

LEMMA RepairInit == ReindexInit => RepairInv
<1> SUFFICES ASSUME ReindexInit PROVE RepairInv
  OBVIOUS
<1>1. /\ script.pc = "off" /\ script.filled = {} /\ script.left = {} /\ ~script.recreate
      /\ pending = {}
  BY DEF ReindexInit, NoScript
<1>2. \A x \in Papers : mapping[Home(x)] # "absent" /\ ~WasRead(x)
  BY <1>1, HomeType DEF ReindexInit, WasRead
<1>3. script.dropped = {}
  BY DEF ReindexInit, NoScript
<1>4. QED
  BY <1>1, <1>2, <1>3, ReindexTypingInit DEF RepairInv, RepairParts, ScriptInOrder, AbsentIsEmpty, RemovalsAreEmpty,
     LateAreStirred, LeftoversGo, CopiesCurrent, ReadAreRight, MappingsHold, Cleared

\* A write or an update of the server: what may change is said of one content.
LEMMA ServerKeepsRepair ==
    ASSUME ReindexTyped, RepairParts,
           NEW x \in Papers, UNCHANGED script,
           stirred \subseteq stirred',
           \A y \in Papers \ {x} : version'[y] = version[y] /\ sheet'[y] = sheet[y],
           mapping' = mapping \/ (mapping' = Guessed(Home(x)) /\ (Started /\ mapping' # mapping
                                    => Home(x) \in revived')),
           revived \subseteq revived',
           mapping'[Home(x)] = "absent" => sheet'[x] = 0,
           \A u \in pending' \ pending : u.x = x /\ (u.op = "delete" => u.v = 0),
           \A u \in pending \ pending' : u.x = x,
           WasRead(x) => x \in stirred',
           ~WasRead(x) /\ Started /\ x \notin stirred' /\ version'[x] = 0 /\ sheet'[x] # 0 =>
               RemovalPending(x)' \/ (version[x] = 0 /\ sheet[x] # 0 /\ ~RemovalPending(x))
    PROVE  RepairParts'
<1>1. ScriptInOrder' /\ \A y \in Papers : WasRead(y)' = WasRead(y)
  BY DEF RepairParts, ScriptInOrder, WasRead
<1>2. AbsentIsEmpty'
  <2> SUFFICES ASSUME NEW y \in Papers, mapping'[Home(y)] = "absent" PROVE sheet'[y] = 0
    BY DEF AbsentIsEmpty
  <2>1. mapping[Home(y)] = "absent"
    BY HomeType DEF Guessed, ReindexTyped, ReindexTypeOK
  <2>2. QED
    BY <2>1 DEF RepairParts, AbsentIsEmpty
<1>3. RemovalsAreEmpty' /\ LateAreStirred'
  BY <1>1 DEF RemovalsAreEmpty, RepairParts, LateAreStirred, ReindexTyped, ReindexTypeOK, Pendings, WasRead
<1>4. LeftoversGo'
  <2> SUFFICES ASSUME NEW y \in Papers,
                      Cleared(Home(y))', ~WasRead(y)', y \notin stirred',
                      version'[y] = 0, sheet'[y] # 0
               PROVE  RemovalPending(y)'
    BY DEF LeftoversGo
  <2>1. Cleared(Home(y)) /\ ~WasRead(y) /\ y \notin stirred
    BY <1>1 DEF Cleared
  <2>2. Started
    BY <2>1 DEF RepairParts, ScriptInOrder, Cleared, Started
  <2>3. CASE y = x
    BY <1>1, <2>1, <2>2, <2>3 DEF RepairParts, LeftoversGo
  <2>4. CASE y # x
    <3>1. RemovalPending(y)
      BY <2>1, <2>4 DEF RepairParts, LeftoversGo
    <3>2. QED
      BY <2>4, <3>1 DEF RemovalPending
  <2>5. QED
    BY <2>3, <2>4
<1>5. CopiesCurrent' /\ ReadAreRight'
  BY <1>1 DEF RepairParts, CopiesCurrent, ReadAreRight, WasRead
<1>6. MappingsHold'
  <2> SUFFICES ASSUME NEW i \in Indexes, Cleared(i)', i \notin revived'
               PROVE  /\ mapping'[i] # "guessed"
                      /\ script.pc \in {"read", "put", "done"} => mapping'[i] = "proper"
    BY DEF MappingsHold
  <2>1. Cleared(i) /\ i \notin revived
    BY DEF Cleared
  <2>2. /\ mapping[i] # "guessed"
        /\ script.pc \in {"read", "put", "done"} => mapping[i] = "proper"
    BY <2>1 DEF RepairParts, MappingsHold
  <2>3. Started
    BY <2>1 DEF RepairParts, ScriptInOrder, Cleared, Started
  <2>4. Home(x) # i => Guessed(Home(x))[i] = mapping[i]
    BY HomeType DEF Guessed, ReindexTyped, ReindexTypeOK
  <2>5. mapping'[i] = mapping[i]
    BY <2>1, <2>3, <2>4, HomeType DEF Guessed, ReindexTyped, ReindexTypeOK
  <2>6. QED
    BY <2>2, <2>5
<1>7. QED
  BY <1>1, <1>2, <1>3, <1>4, <1>5, <1>6 DEF RepairParts

LEMMA RepairNext == RepairInv /\ [ReindexNext]_reindexVars => RepairInv'
<1> SUFFICES ASSUME RepairInv, [ReindexNext]_reindexVars PROVE RepairParts'
  BY ReindexTypingNext DEF RepairInv
<1>0. /\ ReindexTyped /\ RepairParts
      /\ version \in [Papers -> Versions] /\ sheet \in [Papers -> Versions]
      /\ mapping \in [Indexes -> {"absent", "proper", "guessed"}]
      /\ pending \subseteq Pendings
      /\ script \in Scripts
      /\ stirred \subseteq Papers /\ revived \subseteq Indexes
  BY DEF RepairInv, ReindexTyped, ReindexTypeOK
<1>p. /\ ScriptInOrder /\ AbsentIsEmpty /\ RemovalsAreEmpty /\ LateAreStirred /\ LeftoversGo
      /\ CopiesCurrent /\ ReadAreRight /\ MappingsHold
  BY <1>0 DEF RepairParts
<1>r. \A x \in Papers : WasRead(x) => Started
  BY <1>p DEF ScriptInOrder, WasRead, Started
<1>u. \A u \in pending : u.x \in Papers
  BY <1>0 DEF Pendings
<1>1. ASSUME NEW x \in Papers, WriteContent(x)
      PROVE  RepairParts'
  <2>1. /\ \A y \in Papers \ {x} : version'[y] = version[y]
        /\ version'[x] = version[x] + 1 /\ version[x] + 1 # 0
    BY <1>0, <1>1 DEF WriteContent, Versions
  <2>2. /\ UNCHANGED <<script, sheet, mapping, revived>>
        /\ stirred \subseteq stirred' /\ (WasRead(x) => x \in stirred')
    BY <1>1, <1>r DEF WriteContent, StirsIf
  <2>3. /\ pending \subseteq pending'
        /\ \A u \in pending' \ pending : u.x = x /\ (u.op = "delete" => u.v = 0)
    BY <1>1 DEF WriteContent
  <2>4. mapping'[Home(x)] = "absent" => sheet'[x] = 0
    BY <1>p, <2>2 DEF AbsentIsEmpty
  <2>5. QED
    BY <1>0, <2>1, <2>2, <2>3, <2>4, ServerKeepsRepair
<1>2. ASSUME NEW x \in Papers, DeleteContent(x)
      PROVE  RepairParts'
  <2>1. \A y \in Papers \ {x} : version'[y] = version[y]
    BY <1>0, <1>2 DEF DeleteContent
  <2>2. /\ UNCHANGED <<script, sheet, mapping, revived>>
        /\ stirred \subseteq stirred' /\ (WasRead(x) => x \in stirred')
    BY <1>2, <1>r DEF DeleteContent, StirsIf
  <2>3. /\ pending \subseteq pending' /\ RemovalPending(x)'
        /\ \A u \in pending' \ pending : u.x = x /\ (u.op = "delete" => u.v = 0)
    <3> DEFINE d == [x |-> x, op |-> "delete", v |-> 0]
    <3>1. pending' = pending \union {d}
      BY <1>2 DEF DeleteContent
    <3>2. d.x = x /\ d.op = "delete" /\ d.v = 0 /\ d \in pending'
      BY <3>1
    <3> HIDE DEF d
    <3>3. QED
      BY <3>1, <3>2 DEF RemovalPending
  <2>4. mapping'[Home(x)] = "absent" => sheet'[x] = 0
    BY <1>p, <2>2 DEF AbsentIsEmpty
  <2>5. QED
    BY <1>0, <2>1, <2>2, <2>3, <2>4, ServerKeepsRepair
<1>3. ASSUME NEW u \in pending, SyncContent(u)
      PROVE  RepairParts'
  <2> DEFINE x == u.x
  <2>1. x \in Papers /\ Home(x) \in Indexes
    BY <1>u, HomeType
  <2>2. /\ UNCHANGED <<version, script>>
        /\ stirred \subseteq stirred' /\ (WasRead(x) => x \in stirred')
        /\ Started /\ version[x] = 0 /\ u.op # "delete" => x \in stirred'
        /\ revived \subseteq revived'
        /\ pending' \subseteq pending /\ \A w \in pending \ pending' : w.x = x
    BY <1>3, <1>p DEF SyncContent, StirsIf, LateAreStirred
  <2>3. /\ \A y \in Papers \ {x} : sheet'[y] = sheet[y]
        /\ u.op = "delete" => sheet'[x] = 0
        /\ u.op = "update" /\ sheet[x] = 0 => sheet'[x] = 0
    BY <1>0, <1>3, <1>p, <2>1 DEF SyncContent, RemovalsAreEmpty
  <2>4. /\ u.op # "delete" => mapping' = Guessed(Home(x))
        /\ u.op = "delete" => mapping' = mapping
        /\ Started /\ mapping' # mapping => Home(x) \in revived'
    BY <1>3 DEF SyncContent
  <2>5. mapping'[Home(x)] = "absent" => sheet'[x] = 0
    <3>1. CASE u.op # "delete"
      BY <1>0, <2>1, <2>4, <3>1 DEF Guessed
    <3>2. CASE u.op = "delete"
      BY <2>3, <3>2
    <3>3. QED
      BY <3>1, <3>2
  <2>6. Started /\ x \notin stirred' /\ version'[x] = 0 => sheet'[x] = 0
    BY <2>2, <2>3
  <2> HIDE DEF x
  <2>7. QED
    BY <1>0, <2>1, <2>2, <2>3, <2>4, <2>5, <2>6, ServerKeepsRepair
<1>4. ASSUME NEW u \in pending, LoseSync(u)
      PROVE  RepairParts'
  <2> DEFINE x == u.x
  <2>1. x \in Papers
    BY <1>u
  <2>2. /\ UNCHANGED <<version, script, sheet, mapping, revived>>
        /\ stirred \subseteq stirred' /\ (WasRead(x) => x \in stirred')
        /\ Started /\ u.op = "delete" => x \in stirred'
        /\ pending' = pending \ {u}
    BY <1>4, <1>p DEF LoseSync, StirsIf, LateAreStirred
  <2>3. u.op # "delete" /\ RemovalPending(x) => RemovalPending(x)'
    BY <2>2 DEF RemovalPending
  <2>4. mapping'[Home(x)] = "absent" => sheet'[x] = 0
    BY <1>p, <2>1, <2>2 DEF AbsentIsEmpty
  <2>5. \A w \in pending \ pending' : w.x = x
    BY <2>2
  <2> HIDE DEF x
  <2>6. QED
    BY <1>0, <2>1, <2>2, <2>3, <2>4, <2>5, ServerKeepsRepair
<1>5. ASSUME NEW i \in Indexes, SearchIndex(i)
      PROVE  RepairParts'
  <2>1. UNCHANGED <<version, sheet, pending, edits, script, stirred, revived>>
    BY <1>5 DEF SearchIndex
  <2>2. \A j \in Indexes : mapping'[j] \in {mapping[j], "proper"} /\
                           (mapping[j] = "proper" => mapping'[j] = "proper")
    BY <1>5 DEF SearchIndex, Made
  <2>3. AbsentIsEmpty' /\ MappingsHold'
    BY <1>p, <2>1, <2>2, HomeType DEF AbsentIsEmpty, MappingsHold, Cleared
  <2>4. QED
    BY <1>p, <2>1, <2>3 DEF RepairParts, ScriptInOrder, RemovalsAreEmpty, LateAreStirred,
       LeftoversGo, CopiesCurrent, ReadAreRight, WasRead, Cleared, RemovalPending
\* A script that has done nothing yet.
<1>6. ASSUME script'.pc \in {"off", "drop", "create"}, script'.filled = {}, script'.left = {},
             script'.dropped = {}, script'.recreate => script'.pc = "drop",
             UNCHANGED <<version, sheet, mapping, pending>>
      PROVE  RepairParts'
  <2>1. /\ \A x \in Papers : ~WasRead(x)'
        /\ \A i \in Indexes : ~Cleared(i)'
    BY <1>6 DEF WasRead, Cleared
  <2>2. ScriptInOrder' /\ AbsentIsEmpty' /\ RemovalsAreEmpty'
    BY <1>6, <1>p DEF ScriptInOrder, AbsentIsEmpty, RemovalsAreEmpty
  <2>3. LateAreStirred' /\ CopiesCurrent' /\ ReadAreRight'
    BY <1>6, <1>u, <2>1 DEF LateAreStirred, CopiesCurrent, ReadAreRight, WasRead
  <2>4. LeftoversGo' /\ MappingsHold'
    BY <2>1, HomeType DEF LeftoversGo, MappingsHold
  <2>5. QED
    BY <2>2, <2>3, <2>4 DEF RepairParts
<1>7. ASSUME NEW plan \in (SUBSET Indexes) \ {{}}, NEW recreate \in BOOLEAN,
             StartReindex(plan, recreate)
      PROVE  RepairParts'
  <2>1. /\ script'.pc = IF recreate THEN "drop" ELSE "create"
        /\ script'.filled = {} /\ script'.left = {} /\ script'.dropped = {}
        /\ script'.recreate = recreate
    BY <1>7 DEF StartReindex, NoScript
  <2>2. QED
    BY <1>6, <1>7, <2>1 DEF StartReindex
<1>8. ASSUME NEW i \in Indexes, DropIndex(i)
      PROVE  RepairParts'
  <2>0. /\ script.pc = "drop" /\ script.filled = {} /\ script.left = {}
        /\ UNCHANGED <<version, pending, edits, stirred, revived>>
    BY <1>8, <1>p DEF DropIndex, ScriptInOrder
  <2>1. CASE mapping[i] = "absent"
    <3>1. /\ script' = [script EXCEPT !.dropped = @ \union {i},
                                      !.pc = IF i = "answers" THEN "create" ELSE @]
          /\ UNCHANGED <<mapping, sheet>>
          /\ i = "answers" => "questions" \in script.dropped
      BY <1>8, <2>1 DEF DropIndex
    <3>2. /\ script'.pc = IF i = "answers" THEN "create" ELSE "drop"
          /\ script'.dropped = script.dropped \union {i}
          /\ script'.filled = {} /\ script'.left = {} /\ script'.recreate = script.recreate
          /\ script'.plan = script.plan /\ script'.current = script.current
      BY <1>0, <2>0, <3>1 DEF Scripts
    <3>3. \A j \in Indexes : Cleared(j)' => Cleared(j) \/ j = i
      BY <2>0, <3>1, <3>2 DEF Cleared, Indexes
    <3>4. \A x \in Papers : ~WasRead(x)' /\ ~WasRead(x)
      BY <2>0, <3>2 DEF WasRead
    <3>5. ScriptInOrder' /\ AbsentIsEmpty' /\ RemovalsAreEmpty'
      BY <1>p, <2>0, <3>1, <3>2 DEF ScriptInOrder, AbsentIsEmpty, RemovalsAreEmpty
    <3>6. LateAreStirred' /\ CopiesCurrent' /\ ReadAreRight'
      BY <1>u, <2>0, <3>2, <3>4 DEF LateAreStirred, CopiesCurrent, ReadAreRight
    <3>7. LeftoversGo'
      BY <1>p, <2>0, <2>1, <3>1, <3>3, <3>4, HomeType
         DEF LeftoversGo, AbsentIsEmpty, RemovalPending
    <3>8. MappingsHold'
      BY <1>p, <2>0, <2>1, <3>1, <3>2, <3>3 DEF MappingsHold
    <3>9. QED
      BY <3>5, <3>6, <3>7, <3>8 DEF RepairParts
  <2>2. CASE mapping[i] # "absent"
    <3>1. /\ i \notin script.dropped /\ UNCHANGED script
          /\ mapping' = [mapping EXCEPT ![i] = "absent"]
          /\ sheet' = [x \in Papers |-> IF Home(x) = i THEN 0 ELSE sheet[x]]
      BY <1>8, <2>2 DEF DropIndex
    <3>2. \A j \in Indexes : Cleared(j)' <=> Cleared(j) /\ j # i
      BY <2>0, <3>1 DEF Cleared
    <3>3. \A x \in Papers : ~WasRead(x)' /\ ~WasRead(x)
      BY <2>0, <3>1 DEF WasRead
    <3>4. ScriptInOrder' /\ RemovalsAreEmpty'
      BY <1>p, <2>0, <3>1 DEF ScriptInOrder, RemovalsAreEmpty
    <3>5. AbsentIsEmpty'
      BY <1>0, <1>p, <3>1, HomeType DEF AbsentIsEmpty
    <3>6. LateAreStirred' /\ CopiesCurrent' /\ ReadAreRight'
      BY <1>u, <2>0, <3>1, <3>3 DEF LateAreStirred, CopiesCurrent, ReadAreRight
    <3>7. LeftoversGo'
      BY <1>p, <2>0, <3>1, <3>2, <3>3, HomeType DEF LeftoversGo, RemovalPending
    <3>8. MappingsHold'
      BY <1>0, <1>p, <2>0, <3>1, <3>2 DEF MappingsHold
    <3>9. QED
      BY <3>4, <3>5, <3>6, <3>7, <3>8 DEF RepairParts
  <2>3. QED
    BY <2>1, <2>2
<1>9. CASE CreateIndexes
  <2>1. /\ script.pc = "create" /\ mapping' = Made(Indexes)
        /\ UNCHANGED <<version, sheet, pending, edits, stirred, revived>>
    BY <1>9 DEF CreateIndexes
  <2>2. /\ script'.pc = "read" /\ script'.dropped = {} /\ script'.filled = {}
        /\ script'.left = {} /\ script'.recreate = script.recreate
        /\ script'.plan = script.plan /\ script'.current = script.current
    BY <1>0, <1>9, <1>p DEF CreateIndexes, Scripts, ScriptInOrder
  <2>3. \A j \in Indexes : (Cleared(j)' <=> Cleared(j))
    BY <2>1, <2>2 DEF Cleared
  <2>4. \A j \in Indexes : mapping'[j] = IF mapping[j] = "absent" THEN "proper" ELSE mapping[j]
    BY <2>1 DEF Made
  <2>5. \A x \in Papers : ~WasRead(x)' /\ ~WasRead(x)
    BY <1>p, <2>1, <2>2 DEF WasRead, ScriptInOrder
  <2>6. ScriptInOrder' /\ AbsentIsEmpty' /\ RemovalsAreEmpty'
    BY <1>p, <2>1, <2>2, <2>4, HomeType DEF ScriptInOrder, AbsentIsEmpty, RemovalsAreEmpty
  <2>7. LateAreStirred' /\ CopiesCurrent' /\ ReadAreRight'
    BY <1>u, <2>1, <2>2, <2>5 DEF LateAreStirred, CopiesCurrent, ReadAreRight
  <2>8. LeftoversGo'
    BY <1>p, <2>1, <2>3, <2>5, HomeType DEF LeftoversGo, RemovalPending
  <2>9. MappingsHold'
    BY <1>0, <1>p, <2>1, <2>3, <2>4 DEF MappingsHold
  <2>10. QED
    BY <2>6, <2>7, <2>8, <2>9 DEF RepairParts
<1>10. ASSUME NEW i \in Indexes, ReadContents(i)
       PROVE  RepairParts'
  <2> DEFINE copy == [x \in Papers |-> IF Home(x) = i THEN version[x] ELSE 0]
             left == {x \in Of(i) : version[x] # 0}
  <2>1. /\ script.pc = "read" /\ i \in script.plan \ script.filled
        /\ script' = [script EXCEPT !.pc = "put", !.current = i, !.copy = copy, !.left = left]
        /\ stirred' = stirred \union {u.x : u \in {v \in pending : Home(v.x) = i}}
        /\ UNCHANGED <<version, sheet, mapping, pending, edits, revived>>
    BY <1>10 DEF ReadContents
  <2>2. /\ script'.pc = "put" /\ script'.current = i /\ script'.copy = copy
        /\ script'.left = left /\ script'.filled = script.filled
        /\ script'.recreate = script.recreate /\ script'.plan = script.plan
        /\ script'.dropped = script.dropped
    BY <1>0, <2>1 DEF Scripts
  <2>3. \A x \in Papers : /\ WasRead(x)' <=> WasRead(x) \/ Home(x) = i
                          /\ WasRead(x) => Home(x) # i
    BY <2>1, <2>2 DEF WasRead
  <2>4. \A u \in pending : Home(u.x) = i => u.x \in stirred'
    BY <2>1
  <2>5. \A j \in Indexes : (Cleared(j)' <=> Cleared(j)) /\ (Cleared(j) <=> script.recreate)
    BY <2>1, <2>2 DEF Cleared
  <2>6. ScriptInOrder' /\ AbsentIsEmpty' /\ RemovalsAreEmpty'
    BY <1>p, <2>1, <2>2 DEF ScriptInOrder, AbsentIsEmpty, RemovalsAreEmpty
  <2>7. LateAreStirred'
    BY <1>p, <1>u, <2>1, <2>3, <2>4 DEF LateAreStirred
  <2>8. LeftoversGo'
    BY <1>p, <2>1, <2>3, <2>5, HomeType DEF LeftoversGo, RemovalPending
  <2>9. CopiesCurrent'
    BY <2>1, <2>2 DEF CopiesCurrent
  <2>10. ReadAreRight'
    <3> SUFFICES ASSUME NEW x \in Papers, WasRead(x)', x \notin stirred'
                 PROVE  /\ version[x] # 0 /\ x \notin left => sheet[x] = version[x]
                        /\ version[x] = 0 /\ script.recreate => sheet[x] = 0
      BY <2>1, <2>2 DEF ReadAreRight
    <3>1. CASE Home(x) = i
      <4>1. version[x] # 0 => x \in left
        BY <3>1 DEF Of
      <4>2. ~RemovalPending(x)
        BY <2>4, <3>1 DEF RemovalPending
      <4>3. version[x] = 0 /\ script.recreate => sheet[x] = 0
        BY <1>p, <2>1, <2>3, <2>5, <3>1, <4>2 DEF LeftoversGo
      <4>4. QED
        BY <4>1, <4>3
    <3>2. CASE Home(x) # i
      <4>1. x \notin script.left /\ WasRead(x) /\ x \notin stirred
        BY <1>p, <2>1, <2>3, <3>2 DEF ScriptInOrder
      <4>2. QED
        BY <1>p, <4>1 DEF ReadAreRight
    <3>3. QED
      BY <3>1, <3>2
  <2>11. MappingsHold'
    BY <1>p, <2>1, <2>2, <2>5 DEF MappingsHold
  <2>12. QED
    BY <2>6, <2>7, <2>8, <2>9, <2>10, <2>11 DEF RepairParts
<1>11. ASSUME NEW x \in Papers, IndexContent(x)
       PROVE  RepairParts'
  <2>1. /\ script.pc = "put" /\ x \in script.left /\ Home(x) = script.current /\ WasRead(x)
        /\ UNCHANGED <<version, pending, edits, revived>>
        /\ stirred \subseteq stirred'
    BY <1>11, <1>p DEF IndexContent, ScriptInOrder, Of, WasRead
  <2>2. /\ script'.pc = script.pc /\ script'.current = script.current
        /\ script'.copy = script.copy /\ script'.left = script.left \ {x}
        /\ script'.filled = script.filled
        /\ script'.recreate = script.recreate /\ script'.plan = script.plan
        /\ script'.dropped = script.dropped
    BY <1>0, <1>11 DEF IndexContent, Scripts
  <2>3. /\ \A y \in Papers : WasRead(y)' <=> WasRead(y)
        /\ \A j \in Indexes : Cleared(j)' <=> Cleared(j)
    BY <2>2 DEF WasRead, Cleared
  <2>4. /\ \A y \in Papers \ {x} : sheet'[y] = sheet[y]
        /\ x \in stirred' \/ sheet'[x] = script.copy[x]
        /\ \/ mapping' = Guessed(Home(x))
           \/ mapping' = mapping /\ sheet' = sheet
    BY <1>0, <1>11 DEF IndexContent, Put
  <2>5. /\ \A j \in Indexes : mapping[j] # "absent" => mapping'[j] = mapping[j]
        /\ \A j \in Indexes : mapping'[j] = "absent" => mapping[j] = "absent"
        /\ mapping'[Home(x)] = "absent" => sheet' = sheet
    BY <1>0, <2>4, HomeType DEF Guessed
  <2>6. ScriptInOrder' /\ RemovalsAreEmpty' /\ LateAreStirred'
    BY <1>p, <1>u, <2>1, <2>2, <2>3 DEF ScriptInOrder, RemovalsAreEmpty, LateAreStirred
  <2>7. AbsentIsEmpty'
    BY <1>p, <2>4, <2>5, HomeType DEF AbsentIsEmpty
  <2>8. LeftoversGo'
    BY <1>p, <2>1, <2>3, <2>4, HomeType DEF LeftoversGo, RemovalPending
  <2>9. CopiesCurrent'
    BY <1>p, <2>1, <2>2 DEF CopiesCurrent
  <2>10. ReadAreRight'
    <3> SUFFICES ASSUME NEW y \in Papers, WasRead(y), y \notin stirred'
                 PROVE  /\ version[y] # 0 /\ y \notin script.left \ {x} => sheet'[y] = version[y]
                        /\ version[y] = 0 /\ script.recreate => sheet'[y] = 0
      BY <2>1, <2>2, <2>3 DEF ReadAreRight
    <3>1. CASE y = x
      BY <1>p, <2>1, <2>4, <3>1 DEF CopiesCurrent
    <3>2. CASE y # x
      BY <1>p, <2>1, <2>4, <3>2 DEF ReadAreRight
    <3>3. QED
      BY <3>1, <3>2
  <2>11. MappingsHold'
    BY <1>p, <2>1, <2>2, <2>3, <2>5 DEF MappingsHold
  <2>12. QED
    BY <2>6, <2>7, <2>8, <2>9, <2>10, <2>11 DEF RepairParts
<1>12. CASE EndIndex
  <2> DEFINE filled == script.filled \union {script.current}
  <2>1. /\ script.pc = "put" /\ script.left = {}
        /\ script' = [script EXCEPT !.filled = filled, !.copy = NoScript.copy,
                                    !.pc = IF script.plan \subseteq filled THEN "done" ELSE "read"]
        /\ UNCHANGED <<version, sheet, mapping, pending, edits, stirred, revived>>
    BY <1>12 DEF EndIndex
  <2>2. /\ script'.pc \in {"done", "read"}
        /\ script'.pc = "done" => script.plan \subseteq filled
        /\ script'.filled = filled /\ script'.left = {}
        /\ script'.current = script.current
        /\ script'.recreate = script.recreate /\ script'.plan = script.plan
        /\ script'.dropped = script.dropped
    BY <1>0, <2>1 DEF Scripts
  <2>3. /\ \A y \in Papers : WasRead(y)' <=> WasRead(y)
        /\ \A j \in Indexes : Cleared(j)' <=> Cleared(j)
    BY <2>1, <2>2 DEF WasRead, Cleared
  <2>4. ScriptInOrder' /\ AbsentIsEmpty' /\ RemovalsAreEmpty' /\ LateAreStirred'
    BY <1>p, <1>u, <2>1, <2>2, <2>3
       DEF ScriptInOrder, AbsentIsEmpty, RemovalsAreEmpty, LateAreStirred
  <2>5. LeftoversGo' /\ CopiesCurrent' /\ ReadAreRight'
    BY <1>p, <2>1, <2>2, <2>3, HomeType DEF LeftoversGo, RemovalPending, CopiesCurrent,
       ReadAreRight
  <2>6. MappingsHold'
    BY <1>p, <2>1, <2>2, <2>3 DEF MappingsHold
  <2>7. QED
    BY <2>4, <2>5, <2>6 DEF RepairParts
<1>13. CASE ScriptFails
  <2>1. /\ script'.pc = "off" /\ script'.filled = {} /\ script'.left = {}
        /\ script'.dropped = {} /\ ~script'.recreate
    BY <1>13 DEF ScriptFails, NoScript
  <2>2. QED
    BY <1>6, <1>13, <2>1 DEF ScriptFails
<1>14. CASE UNCHANGED reindexVars
  BY <1>p, <1>14 DEF reindexVars, RepairParts, ScriptInOrder, AbsentIsEmpty, RemovalsAreEmpty,
     LateAreStirred, LeftoversGo, CopiesCurrent, ReadAreRight, MappingsHold, WasRead, Cleared,
     RemovalPending
<1>15. QED
  BY <1>1, <1>2, <1>3, <1>4, <1>5, <1>7, <1>8, <1>9, <1>10, <1>11, <1>12, <1>13, <1>14
     DEF ReindexNext

(***************************************************************************)
(* Whatever was lost before and whatever the server writes meanwhile, the  *)
(* script leaves every content it was asked for as the database has it,    *)
(* but for those that were stirred; with --recreate it leaves nothing else *)
(* and the proper mapping, unless the server brought the index back.       *)
(***************************************************************************)
THEOREM ReindexLeavesIndexRight == ReindexSpec => []ReindexRepairs
<1>1. RepairInv => ReindexRepairs
  <2> SUFFICES ASSUME RepairInv, script.pc = "done", NEW x \in Papers, Home(x) \in script.plan
               PROVE  /\ x \notin stirred /\ version[x] # 0 => sheet[x] = version[x]
                      /\ x \notin stirred /\ script.recreate => sheet[x] = version[x]
                      /\ script.recreate /\ Home(x) \notin revived => mapping[Home(x)] = "proper"
    BY DEF ReindexRepairs
  <2>1. WasRead(x) /\ x \notin script.left
    BY DEF RepairInv, RepairParts, ScriptInOrder, WasRead
  <2>2. script.recreate => Cleared(Home(x))
    BY DEF Cleared
  <2>3. QED
    BY <2>1, <2>2, HomeType DEF RepairInv, RepairParts, ReadAreRight, MappingsHold
<1>2. QED
  BY <1>1, RepairInit, RepairNext, PTL DEF ReindexSpec

-----------------------------------------------------------------------------
(***************************************************************************)
(* Listings.  Where an item stands changes under the reader: it moves up   *)
(* when a smaller one goes away and down when one comes in before it.      *)
(* PagesMakeTheList speaks of what has been seen only; ListInv adds where, *)
(* in the source that answers, the seen and the expected items stand now,  *)
(* also between the two queries of one page.                               *)
(***************************************************************************)
SourcesOf(kind) == {"stored"} \union (IF AsksIndex(kind) THEN {"index"} ELSE {})
Held(src) == IF src = "index" THEN searchable ELSE posts
Standing(i, src) == Rank(i, Held(src), walk.order)
PageEnd == walk.page * walk.limit
Turned == IF walk.ask \in {"shown", "over"} THEN PageEnd ELSE (walk.page - 1) * walk.limit
OnlyFrom(src) == walk.order # "any" /\ walk.sources \subseteq {<<walk.order, src>>}
Intact == ~walk.shrunk /\ (walk.torn => walk.order = "oldest")

\* Ids are given out in order, and the reader asks where its kind of list is.
IdsGivenOut ==
    /\ posts \subseteq 1..made /\ searchable \subseteq 1..made
    /\ \A u \in due : u.id \in 1..made
WalkFits ==
    /\ walk.seen \union walk.part \union walk.expected \subseteq 1..made
    /\ walk.page >= 1
    /\ walk.order = "any" <=> walk.kind \in {"titles", "answerSearch"}
    /\ walk.kind \in {"answers", "ofUser"} => walk.order = "newest"
    /\ walk.sources \subseteq {walk.order, "any"} \X SourcesOf(walk.kind)
    /\ walk.ask = "index" => AsksIndex(walk.kind)

\* What stands before the pages that were shown has been seen.
SeenSoFar(src) ==
    OnlyFrom(src) /\ ~walk.shrunk =>
        /\ walk.expected \subseteq Held(src)
        /\ \A i \in walk.expected : Standing(i, src) < Turned => i \in walk.seen
\* The page that came before its count has the rest of what stands before its end.
PartHasRest ==
    walk.ask = "count" /\ OnlyFrom("stored") /\ ~walk.shrunk =>
        \A i \in walk.expected : Standing(i, "stored") < PageEnd => i \in walk.seen \union walk.part
\* The count that came before its page reaches to all that is expected.
CountCovers ==
    walk.ask = "data" /\ OnlyFrom("stored") /\ Intact =>
        \A i \in walk.expected : Standing(i, "stored") < walk.total
\* A page with no next one is the last.
LastIsLast ==
    /\ walk.ask \in {"shown", "over"} /\ Intact /\ walk.total <= PageEnd
          /\ (\E src \in SourcesOf(walk.kind) : OnlyFrom(src))
          => walk.expected \subseteq walk.seen
    /\ walk.ask = "over" => walk.total <= PageEnd
\* What has been seen stands before the end of the pages that were shown.
NoneTwice(src) ==
    OnlyFrom(src) /\ ~walk.grown =>
        /\ ~walk.repeats
        /\ \A i \in walk.seen \intersect Held(src) : Standing(i, src) < Turned
PartIsNew ==
    walk.ask = "count" /\ OnlyFrom("stored") /\ ~walk.grown =>
        /\ walk.part \intersect walk.seen = {}
        /\ \A i \in walk.part \intersect posts : Standing(i, "stored") < PageEnd

WalkInv ==
    /\ WalkFits /\ PartHasRest /\ CountCovers /\ LastIsLast /\ PartIsNew
    /\ \A src \in SourcesOf(walk.kind) : SeenSoFar(src) /\ NoneTwice(src)
ListInv == ListingsTypeOK /\ IdsGivenOut /\ (Walking => WalkInv)

\* Ranks only count: more items, higher ranks; an item in the list stands below its length.
LEMMA RankFacts ==
    ASSUME NEW n \in Nat, NEW S, S \subseteq 1..n, NEW i, NEW o
    PROVE  /\ Rank(i, S, o) \in Nat /\ Cardinality(S) \in Nat
           /\ \A T : T \subseteq S => Rank(i, T, o) <= Rank(i, S, o)
           /\ i \in S => Rank(i, S, o) < Cardinality(S)
<1> DEFINE R(T) == {j \in T : Before(j, i, o)}
<1>1. IsFiniteSet(S)
  <2>1. IsFiniteSet(1..n)
    BY FS_Interval
  <2>2. QED
    BY <2>1, FS_Subset
<1>2. IsFiniteSet(R(S)) /\ Cardinality(R(S)) \in Nat /\ Cardinality(S) \in Nat
  <2>1. R(S) \subseteq S
    OBVIOUS
  <2>2. IsFiniteSet(R(S))
    BY <1>1, <2>1, FS_Subset
  <2>3. QED
    BY <1>1, <2>2, FS_CardinalityType
<1>3. ASSUME NEW T, T \subseteq S PROVE Cardinality(R(T)) <= Cardinality(R(S))
  <2>1. R(T) \subseteq R(S)
    BY <1>3
  <2>2. QED
    BY <1>2, <2>1, FS_Subset
<1>4. ASSUME i \in S PROVE Cardinality(R(S)) < Cardinality(S)
  <2>1. R(S) \subseteq S
    OBVIOUS
  <2>2. i \notin R(S)
    BY <1>4 DEF Before
  <2>3. R(S) # S
    BY <1>4, <2>2
  <2> HIDE DEF R
  <2>4. Cardinality(R(S)) <= Cardinality(S) /\ Cardinality(R(S)) # Cardinality(S)
    BY <1>1, <2>1, <2>3, FS_Subset
  <2>5. QED
    BY <1>2, <2>4
<1>5. QED
  BY <1>2, <1>3, <1>4 DEF Rank

\* Pages of one size lie side by side, and the last one reaches to the end.
LEMMA PageArithmetic ==
    ASSUME NEW page \in Nat, page >= 1, NEW limit \in Nat \ {0}
    PROVE  /\ page * limit \in Nat /\ (page - 1) * limit \in Nat
           /\ (page - 1) * limit <= page * limit
           /\ (page + 1) - 1 = page
           /\ \A total \in Nat : ~(page < TotalPages(total, limit)) => total <= page * limit
<1>1. page * limit \in Nat /\ (page - 1) * limit \in Nat /\ (page - 1) * limit <= page * limit
  <2>1. (page - 1) * limit = page * limit - limit
    OBVIOUS
  <2>2. page - 1 \in Nat
    OBVIOUS
  <2>3. page * limit \in Nat
    OBVIOUS
  <2>4. (page - 1) * limit \in Nat
    BY <2>2
  <2>5. QED
    BY <2>1, <2>3, <2>4
<1>2. ASSUME NEW total \in Nat, ~(page < TotalPages(total, limit)) PROVE total <= page * limit
  <2>1. PICK a \in Nat : a = total + limit - 1
    OBVIOUS
  <2>2. PICK q \in Int : q = a \div limit
    OBVIOUS
  <2>3. a < (q + 1) * limit
    BY <2>1, <2>2
  <2>4. q <= page
    BY <1>2, <2>1, <2>2 DEF TotalPages
  <2>5. (q + 1) * limit <= (page + 1) * limit
    BY <2>4
  <2>6. (page + 1) * limit = page * limit + limit
    OBVIOUS
  <2>7. a < page * limit + limit
    BY <1>1, <2>3, <2>5, <2>6
  <2>8. QED
    BY <1>1, <2>1, <2>7
<1>3. QED
  BY <1>1, <1>2

\* The page that PageNumber names begins no later than the item.
LEMMA PageNumberIs ==
    ASSUME NEW r \in Nat, NEW limit \in Nat \ {0}
    PROVE  r \div limit + 1 \in Nat /\ r \div limit + 1 >= 1 /\ ((r \div limit + 1) - 1) * limit <= r
<1>1. PICK q \in Int : q = r \div limit
  OBVIOUS
<1>2. q >= 0 /\ q * limit <= r
  BY <1>1
<1>3. QED
  BY <1>1, <1>2

WalkFields ==
    /\ walk.kind \in ListKinds /\ walk.order \in Orders /\ walk.limit \in Nat \ {0} /\ walk.page \in Nat
    /\ walk.total \in Nat
    /\ walk.ask \in {"index", "stored", "count", "data", "shown", "over"}

LEMMA WalkFacts ==
    ASSUME ListInv, walk # NoWalk
    PROVE  walk \in Walks /\ WalkFields /\ WalkInv /\ walk.page >= 1 /\ made \in Nat
<1>1. walk \in Walks /\ WalkInv /\ made \in Nat
  BY ListingAssumption DEF ListInv, Walking, ListingsTypeOK
<1>2. QED
  BY <1>1, ListingAssumption DEF Walks, WalkFields, WalkInv, WalkFits

\* Who is asking something has a list open.
LEMMA AskingWalks ==
    ASSUME walk.ask \in {"index", "stored", "count", "data", "shown", "over"} PROVE walk # NoWalk
BY DEF NoWalk

LEMMA HeldFacts ==
    ASSUME ListInv, NEW src
    PROVE  Held(src) \subseteq 1..made /\ made \in Nat
BY DEF ListInv, IdsGivenOut, ListingsTypeOK, Held

\* A step of others while a list is open: the reader's own fields stay, flags rise.
WorldMoves ==
    /\ \E shrunk, grown, torn \in BOOLEAN :
          walk' = [walk EXCEPT !.shrunk = shrunk, !.grown = grown, !.torn = torn]
    /\ walk.shrunk => walk'.shrunk
    /\ walk.grown => walk'.grown
    /\ walk.torn => walk'.torn
    /\ made <= made'

LEMMA WorldKeeps ==
    ASSUME ListInv, walk # NoWalk, WorldMoves, ListingsTypeOK', IdsGivenOut',
           \A src \in SourcesOf(walk.kind) : ~walk'.shrunk => Held(src) \subseteq Held(src)',
           \A src \in SourcesOf(walk.kind) : walk.order # "any" /\ ~walk'.grown =>
               \A i \in Held(src)' : i \in 1..made =>
                   i \in Held(src) /\ Rank(i, Held(src)', walk.order) <= Rank(i, Held(src), walk.order),
           walk.ask = "data" /\ walk.order # "any" /\ ~walk'.shrunk /\ (walk'.torn => walk.order = "oldest") =>
               \A i \in 1..made : Rank(i, posts', walk.order) <= Rank(i, posts, walk.order)
    PROVE  ListInv'
<1>1. /\ walk \in Walks /\ WalkFields /\ WalkInv /\ walk.page >= 1 /\ made \in Nat /\ made' \in Nat
      /\ made <= made'
  BY WalkFacts DEF WorldMoves, ListingsTypeOK
<1>2. /\ walk'.kind = walk.kind /\ walk'.order = walk.order /\ walk'.limit = walk.limit
      /\ walk'.page = walk.page /\ walk'.ask = walk.ask /\ walk'.total = walk.total
      /\ walk'.part = walk.part /\ walk'.seen = walk.seen /\ walk'.expected = walk.expected
      /\ walk'.sources = walk.sources /\ walk'.repeats = walk.repeats
      /\ walk.shrunk => walk'.shrunk
      /\ walk.grown => walk'.grown
      /\ walk.torn => walk'.torn
  BY <1>1 DEF WorldMoves, Walks
<1>3. /\ PageEnd' = PageEnd /\ Turned' = Turned /\ \A src : OnlyFrom(src)' <=> OnlyFrom(src)
      /\ Intact' => Intact
      /\ PageEnd \in Nat /\ Turned \in Nat
  <2>1. /\ PageEnd' = PageEnd /\ Turned' = Turned /\ \A src : OnlyFrom(src)' <=> OnlyFrom(src)
        /\ Intact' => Intact
    BY <1>2 DEF PageEnd, Turned, OnlyFrom, Intact
  <2>2. PageEnd \in Nat /\ Turned \in Nat
    BY <1>1, PageArithmetic DEF PageEnd, Turned, WalkFields
  <2>3. QED
    BY <2>1, <2>2
<1>4. WalkFits'
  <2>1. 1..made \subseteq 1..made'
    BY <1>1
  <2>2. QED
    BY <1>1, <1>2, <2>1 DEF WalkInv, WalkFits
<1>5. \A i : /\ Standing(i, "stored") = Rank(i, posts, walk.order)
             /\ Standing(i, "stored")' = Rank(i, posts', walk.order)
  BY <1>2 DEF Standing, Held
<1>6. \A src : \A i : Standing(i, src)' = Rank(i, Held(src)', walk.order)
  BY <1>2 DEF Standing
<1>7. ASSUME NEW src \in SourcesOf(walk.kind), ~walk'.shrunk
      PROVE  \A i : Standing(i, src) <= Standing(i, src)' /\ Standing(i, src) \in Nat /\ Standing(i, src)' \in Nat
  <2>1. Held(src) \subseteq Held(src)' /\ Held(src)' \subseteq 1..made'
    BY <1>7 DEF IdsGivenOut, Held
  <2>2. PICK new, old : new = Held(src)' /\ old = Held(src)
    OBVIOUS
  <2>3. \A i : Rank(i, old, walk.order) <= Rank(i, new, walk.order) /\ Rank(i, new, walk.order) \in Nat
    BY <1>1, <2>1, <2>2, RankFacts
  <2>4. \A i : Rank(i, old, walk.order) \in Nat
    BY <1>1, <2>2, HeldFacts, RankFacts
  <2>5. QED
    BY <1>6, <2>2, <2>3, <2>4 DEF Standing
<1>8. \A src \in SourcesOf(walk.kind) : SeenSoFar(src)'
  <2> SUFFICES ASSUME NEW src \in SourcesOf(walk.kind), OnlyFrom(src), ~walk'.shrunk
               PROVE  /\ walk.expected \subseteq Held(src)'
                      /\ \A i \in walk.expected : Standing(i, src)' < Turned => i \in walk.seen
    BY <1>2, <1>3 DEF SeenSoFar
  <2>1. /\ walk.expected \subseteq Held(src)
        /\ \A i \in walk.expected : Standing(i, src) < Turned => i \in walk.seen
    BY <1>1, <1>2 DEF WalkInv, SeenSoFar
  <2>2. QED
    BY <1>3, <1>7, <2>1
<1>9. "stored" \in SourcesOf(walk.kind)
  BY DEF SourcesOf
<1>10. PartHasRest'
  BY <1>1, <1>2, <1>3, <1>7, <1>9 DEF WalkInv, PartHasRest
<1>11. CountCovers'
  <2> SUFFICES ASSUME walk.ask = "data", OnlyFrom("stored"), Intact', NEW i \in walk.expected
               PROVE  Standing(i, "stored")' < walk.total
    BY <1>2, <1>3 DEF CountCovers
  <2>1. i \in 1..made
    BY <1>1 DEF WalkInv, WalkFits
  <2>2. Rank(i, posts', walk.order) <= Rank(i, posts, walk.order)
    BY <1>2, <2>1 DEF Intact, OnlyFrom
  <2>3. Standing(i, "stored") < walk.total
    BY <1>1, <1>3 DEF WalkInv, CountCovers
  <2>4. Standing(i, "stored") \in Nat /\ Standing(i, "stored")' \in Nat /\ walk.total \in Nat
    BY <1>1, <1>7, <1>9 DEF Intact, WalkFields
  <2>5. QED
    BY <1>5, <2>2, <2>3, <2>4
<1>12. LastIsLast'
  BY <1>1, <1>2, <1>3 DEF WalkInv, LastIsLast
<1>13. ASSUME NEW src \in SourcesOf(walk.kind), walk.order # "any", ~walk'.grown, NEW i \in Held(src)', i \in 1..made
       PROVE  /\ i \in Held(src) /\ Standing(i, src)' <= Standing(i, src)
              /\ Standing(i, src) \in Nat /\ Standing(i, src)' \in Nat
  <2>1. i \in Held(src) /\ Rank(i, Held(src)', walk.order) <= Rank(i, Held(src), walk.order)
    BY <1>13
  <2>2. Held(src)' \subseteq 1..made'
    BY DEF IdsGivenOut, Held
  <2>3. PICK new, old : new = Held(src)' /\ old = Held(src)
    OBVIOUS
  <2>4. Rank(i, old, walk.order) \in Nat /\ Rank(i, new, walk.order) \in Nat
    BY <1>1, <2>2, <2>3, HeldFacts, RankFacts
  <2>5. QED
    BY <1>6, <2>1, <2>3, <2>4 DEF Standing
<1>14. \A src \in SourcesOf(walk.kind) : NoneTwice(src)'
  <2> SUFFICES ASSUME NEW src \in SourcesOf(walk.kind), OnlyFrom(src), ~walk'.grown
               PROVE  /\ ~walk.repeats
                      /\ \A i \in walk.seen \intersect Held(src)' : Standing(i, src)' < Turned
    BY <1>2, <1>3 DEF NoneTwice
  <2>1. /\ ~walk.repeats
        /\ \A i \in walk.seen \intersect Held(src) : Standing(i, src) < Turned
    BY <1>1, <1>2 DEF WalkInv, NoneTwice
  <2>2. walk.seen \subseteq 1..made /\ walk.order # "any"
    BY <1>1 DEF WalkInv, WalkFits, OnlyFrom
  <2>3. QED
    BY <1>3, <1>13, <2>1, <2>2
<1>15. PartIsNew'
  <2> SUFFICES ASSUME walk.ask = "count", OnlyFrom("stored"), ~walk'.grown
               PROVE  /\ walk.part \intersect walk.seen = {}
                      /\ \A i \in walk.part \intersect posts' : Standing(i, "stored")' < PageEnd
    BY <1>2, <1>3 DEF PartIsNew
  <2>1. /\ walk.part \intersect walk.seen = {}
        /\ \A i \in walk.part \intersect posts : Standing(i, "stored") < PageEnd
    BY <1>1, <1>2 DEF WalkInv, PartIsNew
  <2>2. walk.part \subseteq 1..made /\ walk.order # "any"
    BY <1>1 DEF WalkInv, WalkFits, OnlyFrom
  <2>3. Held("stored") = posts /\ Held("stored")' = posts'
    BY DEF Held
  <2>4. QED
    BY <1>3, <1>9, <1>13, <2>1, <2>2, <2>3
<1>16. WalkInv'
  BY <1>2, <1>4, <1>8, <1>10, <1>11, <1>12, <1>14, <1>15 DEF WalkInv
<1>17. QED
  BY <1>16 DEF ListInv

\* Flags that only rise keep the reader a reader.
LEMMA FlagsTyped ==
    ASSUME walk \in Walks, NEW shrunk \in BOOLEAN, NEW grown \in BOOLEAN, NEW torn \in BOOLEAN,
           walk' = [walk EXCEPT !.shrunk = shrunk, !.grown = grown, !.torn = torn]
    PROVE  walk' \in Walks /\ walk'.shrunk = shrunk /\ walk'.grown = grown /\ walk'.torn = torn
BY DEF Walks

\* A new item comes after all ids given out: only a list that begins with the newest moves.
LEMMA NewestMoves ==
    ASSUME NEW i \in 1..made, made \in Nat, NEW S, NEW o, o # "newest"
    PROVE  Rank(i, S \union {made + 1}, o) = Rank(i, S, o)
<1>1. ~Before(made + 1, i, o)
  BY DEF Before
<1>2. {j \in S \union {made + 1} : Before(j, i, o)} = {j \in S : Before(j, i, o)}
  BY <1>1
<1>3. QED
  BY <1>2 DEF Rank

LEMMA PublishHolds == ASSUME ListInv, Publish PROVE ListInv'
<1>0. /\ made' = made + 1 /\ changes' = changes + 1 /\ changes < MaxChanges /\ made < MaxPosts
      /\ posts' = posts \union {made + 1} /\ UNCHANGED searchable
      /\ due' = due \union {[op |-> "add", id |-> made + 1]}
  BY DEF Publish
<1>1. ListingsTypeOK /\ IdsGivenOut /\ made \in Nat
  BY DEF ListInv, ListingsTypeOK
<1>2. IdsGivenOut'
  <2>1. 1..made \subseteq 1..made' /\ made + 1 \in 1..made'
    BY <1>0, <1>1
  <2>2. QED
    BY <1>0, <1>1, <2>1 DEF IdsGivenOut
<1>3. walk' = NoWalk \/ walk' \in Walks => ListingsTypeOK'
  <2>1. made + 1 \in Posts
    BY <1>0, <1>1, ListingAssumption DEF Posts
  <2>2. due' \subseteq Updates
    BY <1>0, <1>1, <2>1 DEF ListingsTypeOK, Updates
  <2>3. made' \in 0..MaxPosts /\ changes' \in 0..MaxChanges
    BY <1>0, <1>1, ListingAssumption DEF ListingsTypeOK
  <2>4. QED
    BY <1>0, <1>1, <2>1, <2>2, <2>3 DEF ListingsTypeOK
<1>4. CASE walk = NoWalk
  <2>1. walk' = NoWalk
    BY <1>4 DEF Publish, Walking
  <2>2. QED
    BY <1>2, <1>3, <2>1 DEF ListInv, Walking
<1>5. CASE walk # NoWalk
  <2>1. walk \in Walks /\ WalkFields
    BY <1>5, WalkFacts
  <2>2. PICK shrunk, grown, torn \in BOOLEAN :
          /\ shrunk = walk.shrunk /\ grown = (walk.grown \/ walk.order = "newest")
          /\ torn = (walk.torn \/ walk.ask \in {"count", "data"})
    BY <2>1 DEF Walks
  <2>3. walk' = [walk EXCEPT !.shrunk = shrunk, !.grown = grown, !.torn = torn]
    <3>1. walk' = [walk EXCEPT !.grown = walk.grown \/ walk.order = "newest",
                               !.torn = walk.torn \/ walk.ask \in {"count", "data"}]
      BY <1>5 DEF Publish, Walking
    <3>2. QED
      BY <2>1, <2>2, <3>1 DEF Walks
  <2>4. walk' \in Walks /\ walk'.shrunk = shrunk /\ walk'.grown = grown /\ walk'.torn = torn
    BY <2>1, <2>3, FlagsTyped
  <2>5. WorldMoves
    <3>1. \E sh, gr, tn \in BOOLEAN : walk' = [walk EXCEPT !.shrunk = sh, !.grown = gr, !.torn = tn]
      BY <2>3
    <3>2. (walk.shrunk => walk'.shrunk) /\ (walk.grown => walk'.grown) /\ (walk.torn => walk'.torn)
      BY <2>2, <2>4, Zenon
    <3>3. made <= made'
      BY <1>0, <1>1
    <3>4. QED
      BY <3>1, <3>2, <3>3 DEF WorldMoves
  <2>6. \A src : Held(src) \subseteq Held(src)'
    BY <1>0 DEF Held
  <2>7. \A i \in 1..made : walk.order # "newest" => Rank(i, posts', walk.order) = Rank(i, posts, walk.order)
    BY <1>0, <1>1, NewestMoves
  <2>8. ASSUME NEW src \in SourcesOf(walk.kind), ~walk'.grown, NEW i \in Held(src)', i \in 1..made
        PROVE  i \in Held(src) /\ Rank(i, Held(src)', walk.order) <= Rank(i, Held(src), walk.order)
    <3>0. walk.order # "newest"
      BY <2>2, <2>4, <2>8, Zenon
    <3>1. walk.order # "newest" /\ i # made + 1
      BY <1>1, <2>8, <3>0
    <3>2. i \in Held(src)
      BY <1>0, <2>8, <3>1 DEF Held
    <3>3. Rank(i, Held(src)', walk.order) = Rank(i, Held(src), walk.order)
      BY <1>0, <2>7, <2>8, <3>1 DEF Held
    <3>4. Rank(i, Held(src), walk.order) \in Nat
      BY HeldFacts, RankFacts
    <3>5. QED
      BY <3>2, <3>3, <3>4
  <2>9. ASSUME walk.ask = "data", walk'.torn => walk.order = "oldest", NEW i \in 1..made
        PROVE  Rank(i, posts', walk.order) <= Rank(i, posts, walk.order)
    <3>1. walk.order = "oldest"
      BY <2>2, <2>4, <2>9
    <3>2. Rank(i, posts, walk.order) \in Nat
      BY <1>1, RankFacts DEF IdsGivenOut
    <3>3. QED
      BY <2>7, <3>1, <3>2
  <2>10. ListingsTypeOK'
    BY <1>3, <2>4
  <2>11. QED
    BY <1>2, <1>5, <2>5, <2>6, <2>8, <2>9, <2>10, WorldKeeps
<1>6. QED
  BY <1>4, <1>5

LEMMA WithdrawHolds == ASSUME ListInv, NEW w \in posts, Withdraw(w) PROVE ListInv'
<1>0. /\ changes' = changes + 1 /\ changes < MaxChanges /\ posts' = posts \ {w}
      /\ due' = due \union {[op |-> "drop", id |-> w]} /\ UNCHANGED <<searchable, made>>
  BY DEF Withdraw
<1>1. ListingsTypeOK /\ IdsGivenOut /\ made \in Nat
  BY DEF ListInv, ListingsTypeOK
<1>2. IdsGivenOut'
  BY <1>0, <1>1 DEF IdsGivenOut
<1>3. walk' = NoWalk \/ walk' \in Walks => ListingsTypeOK'
  <2>1. due' \subseteq Updates
    BY <1>0, <1>1 DEF ListingsTypeOK, Updates
  <2>2. changes' \in 0..MaxChanges
    BY <1>0, <1>1, ListingAssumption DEF ListingsTypeOK
  <2>3. QED
    BY <1>0, <1>1, <2>1, <2>2 DEF ListingsTypeOK
<1>4. CASE walk = NoWalk
  <2>1. walk' = NoWalk
    BY <1>4 DEF Withdraw, Walking
  <2>2. QED
    BY <1>2, <1>3, <2>1 DEF ListInv, Walking
<1>5. CASE walk # NoWalk
  <2>1. walk \in Walks
    BY <1>5, WalkFacts
  <2>2. PICK grown, torn \in BOOLEAN : grown = walk.grown /\ torn = walk.torn
    BY <2>1 DEF Walks
  <2>3. walk' = [walk EXCEPT !.shrunk = TRUE, !.grown = grown, !.torn = torn]
    <3>1. walk' = [walk EXCEPT !.shrunk = TRUE]
      BY <1>5 DEF Withdraw, Walking
    <3>2. QED
      BY <2>1, <2>2, <3>1 DEF Walks
  <2>4. walk' \in Walks /\ walk'.shrunk = TRUE /\ walk'.grown = grown /\ walk'.torn = torn
    BY <2>1, <2>3, FlagsTyped
  <2>5. WorldMoves
    <3>1. \E sh, gr, tn \in BOOLEAN : walk' = [walk EXCEPT !.shrunk = sh, !.grown = gr, !.torn = tn]
      BY <2>3
    <3>2. (walk.shrunk => walk'.shrunk) /\ (walk.grown => walk'.grown) /\ (walk.torn => walk'.torn)
      BY <2>2, <2>4, Zenon
    <3>3. made <= made'
      BY <1>0, <1>1
    <3>4. QED
      BY <3>1, <3>2, <3>3 DEF WorldMoves
  <2>6. ASSUME NEW src, NEW i \in Held(src)'
        PROVE  i \in Held(src) /\ Rank(i, Held(src)', walk.order) <= Rank(i, Held(src), walk.order)
    <3>1. PICK new, old : new = Held(src)' /\ old = Held(src)
      OBVIOUS
    <3>2. new \subseteq old
      BY <1>0, <3>1 DEF Held
    <3>3. Rank(i, new, walk.order) <= Rank(i, old, walk.order)
      BY <3>1, <3>2, HeldFacts, RankFacts
    <3>4. QED
      BY <2>6, <3>1, <3>2, <3>3
  <2>7. ListingsTypeOK'
    BY <1>3, <2>4
  <2>8. QED
    BY <1>2, <1>5, <2>4, <2>5, <2>6, <2>7, WorldKeeps
<1>6. QED
  BY <1>4, <1>5

LEMMA UpdateIndexHolds == ASSUME ListInv, NEW u \in due, UpdateIndex(u) PROVE ListInv'
<1>0. /\ due' = due \ {u} /\ UNCHANGED <<posts, made, changes>>
      /\ searchable' = IF u.op = "add" THEN searchable \union {u.id} ELSE searchable \ {u.id}
  BY DEF UpdateIndex
<1>1. ListingsTypeOK /\ IdsGivenOut /\ made \in Nat /\ u \in Updates
  BY DEF ListInv, ListingsTypeOK
<1>2. IdsGivenOut'
  BY <1>0, <1>1 DEF IdsGivenOut
<1>3. walk' = NoWalk \/ walk' \in Walks => ListingsTypeOK'
  <2>1. searchable' \subseteq Posts
    BY <1>0, <1>1 DEF ListingsTypeOK, Updates
  <2>2. QED
    BY <1>0, <1>1, <2>1 DEF ListingsTypeOK
<1>4. CASE walk = NoWalk
  <2>1. walk' = NoWalk
    BY <1>4 DEF UpdateIndex, Walking
  <2>2. QED
    BY <1>2, <1>3, <2>1 DEF ListInv, Walking
<1>5. CASE walk # NoWalk
  <2>1. walk \in Walks
    BY <1>5, WalkFacts
  <2>2. PICK shrunk, grown, torn \in BOOLEAN :
          /\ torn = walk.torn
          /\ shrunk = (walk.shrunk \/ (AsksIndex(walk.kind) /\ u.op # "add"))
          /\ grown = (walk.grown \/ (AsksIndex(walk.kind) /\ u.op = "add"))
    BY <2>1 DEF Walks
  <2>3. walk' = [walk EXCEPT !.shrunk = shrunk, !.grown = grown, !.torn = torn]
    <3>1. walk' = IF ~AsksIndex(walk.kind) THEN walk
                  ELSE IF u.op = "add" THEN [walk EXCEPT !.grown = TRUE]
                  ELSE [walk EXCEPT !.shrunk = TRUE]
      BY <1>5 DEF UpdateIndex, Walking
    <3>2. /\ walk.shrunk \in BOOLEAN /\ walk.grown \in BOOLEAN
          /\ walk = [walk EXCEPT !.shrunk = walk.shrunk, !.grown = walk.grown, !.torn = walk.torn]
          /\ [walk EXCEPT !.grown = TRUE]
                = [walk EXCEPT !.shrunk = walk.shrunk, !.grown = TRUE, !.torn = walk.torn]
          /\ [walk EXCEPT !.shrunk = TRUE]
                = [walk EXCEPT !.shrunk = TRUE, !.grown = walk.grown, !.torn = walk.torn]
      BY <2>1 DEF Walks
    <3>3. CASE ~AsksIndex(walk.kind)
      BY <2>2, <3>1, <3>2, <3>3
    <3>4. CASE AsksIndex(walk.kind) /\ u.op = "add"
      BY <2>2, <3>1, <3>2, <3>4
    <3>5. CASE AsksIndex(walk.kind) /\ u.op # "add"
      BY <2>2, <3>1, <3>2, <3>5
    <3>6. QED
      BY <3>3, <3>4, <3>5
  <2>4. walk' \in Walks /\ walk'.shrunk = shrunk /\ walk'.grown = grown /\ walk'.torn = torn
    BY <2>1, <2>3, FlagsTyped
  <2>5. WorldMoves
    <3>1. \E sh, gr, tn \in BOOLEAN : walk' = [walk EXCEPT !.shrunk = sh, !.grown = gr, !.torn = tn]
      BY <2>3
    <3>2. (walk.shrunk => walk'.shrunk) /\ (walk.grown => walk'.grown) /\ (walk.torn => walk'.torn)
      BY <2>2, <2>4, Zenon
    <3>3. made <= made'
      BY <1>0, <1>1
    <3>4. QED
      BY <3>1, <3>2, <3>3 DEF WorldMoves
  <2>6. ASSUME NEW src \in SourcesOf(walk.kind), ~walk'.shrunk PROVE Held(src) \subseteq Held(src)'
    BY <1>0, <2>2, <2>4, <2>6 DEF Held, SourcesOf
  <2>7. ASSUME NEW src \in SourcesOf(walk.kind), ~walk'.grown, NEW i \in Held(src)'
        PROVE  i \in Held(src) /\ Rank(i, Held(src)', walk.order) <= Rank(i, Held(src), walk.order)
    <3>1. PICK new, old : new = Held(src)' /\ old = Held(src)
      OBVIOUS
    <3>2. new \subseteq old
      BY <1>0, <2>2, <2>4, <2>7, <3>1 DEF Held, SourcesOf
    <3>3. Rank(i, new, walk.order) <= Rank(i, old, walk.order)
      BY <3>1, <3>2, HeldFacts, RankFacts
    <3>4. QED
      BY <2>7, <3>1, <3>2, <3>3
  <2>8. \A i \in 1..made : Rank(i, posts', walk.order) <= Rank(i, posts, walk.order)
    <3>1. \A i : Rank(i, posts, walk.order) \in Nat
      BY <1>1, RankFacts DEF IdsGivenOut
    <3>2. QED
      BY <1>0, <3>1
  <2>9. ListingsTypeOK'
    BY <1>3, <2>4
  <2>10. QED
    BY <1>2, <1>5, <2>5, <2>6, <2>7, <2>8, <2>9, WorldKeeps
<1>6. QED
  BY <1>4, <1>5

LEMMA SameHolds ==
    ASSUME ListInv, UNCHANGED <<posts, searchable, made, changes, walk>>, due' \subseteq due PROVE ListInv'
<1>1. ListingsTypeOK' /\ IdsGivenOut'
  BY DEF ListInv, ListingsTypeOK, IdsGivenOut
<1>2. WalkInv' <=> WalkInv
  BY DEF WalkInv, WalkFits, PartHasRest, CountCovers, LastIsLast, PartIsNew, SeenSoFar, NoneTwice,
         PageEnd, Turned, OnlyFrom, Intact, Standing, Held
<1>3. QED
  BY <1>1, <1>2 DEF ListInv, Walking

\* The reader's fields that stay from the first page to the last but for what is shown.
WalkStays ==
    /\ walk'.kind = walk.kind /\ walk'.order = walk.order /\ walk'.limit = walk.limit
    /\ walk'.seen = walk.seen /\ walk'.expected = walk.expected /\ walk'.sources = walk.sources
    /\ walk'.shrunk = walk.shrunk /\ walk'.grown = walk.grown /\ walk'.torn = walk.torn
    /\ walk'.repeats = walk.repeats

LEMMA ReaderKeeps ==
    ASSUME ListInv, walk # NoWalk, UNCHANGED <<posts, searchable, due, made, changes>>, walk' \in Walks,
           WalkStays, Turned' = Turned,
           WalkFits', PartHasRest', CountCovers', LastIsLast', PartIsNew'
    PROVE  ListInv'
<1>1. WalkInv
  BY WalkFacts
<1>2. \A src \in SourcesOf(walk.kind) : SeenSoFar(src)' /\ NoneTwice(src)'
  BY <1>1 DEF WalkInv, SeenSoFar, NoneTwice, WalkStays, OnlyFrom, Standing, Held
<1>3. WalkInv'
  BY <1>2 DEF WalkInv, WalkStays
<1>4. QED
  BY <1>3 DEF ListInv, ListingsTypeOK, IdsGivenOut

LEMMA FreshWalkHolds ==
    ASSUME ListInv, NEW kind \in ListKinds, NEW order \in Orders, NEW limit \in Limits, NEW page \in Nat,
           page >= 1, NEW expected \in SUBSET (1..made),
           UNCHANGED <<posts, searchable, due, made, changes>>,
           walk' = NewWalk(kind, order, limit, page, expected),
           order = "any" <=> kind \in {"titles", "answerSearch"},
           kind \in {"answers", "ofUser"} => order = "newest",
           expected \subseteq posts, AsksIndex(kind) => expected \subseteq searchable,
           \A i \in expected : \A src \in SourcesOf(kind) : ~(Rank(i, Held(src), order) < (page - 1) * limit)
    PROVE  ListInv'
<1>1. ListingsTypeOK /\ IdsGivenOut /\ 1..made \subseteq Posts
  BY ListingAssumption DEF ListInv, ListingsTypeOK, Posts
<1>2. PICK w : w = walk'
  OBVIOUS
<1>3. /\ w \in Walks
      /\ w.kind = kind /\ w.order = order /\ w.limit = limit /\ w.page = page
      /\ w.ask = FirstAsk(kind)
      /\ w.seen = {} /\ w.part = {} /\ w.expected = expected /\ w.sources = {}
      /\ w.repeats = FALSE
  <2>1. expected \in SUBSET Posts
    BY <1>1
  <2>2. PICK ask \in {"index", "stored"} : ask = FirstAsk(kind)
    BY DEF FirstAsk
  <2>3. w = [kind |-> kind, order |-> order, limit |-> limit, page |-> page, ask |-> ask,
             total |-> 0, part |-> {}, seen |-> {}, expected |-> expected, sources |-> {},
             shrunk |-> FALSE, grown |-> FALSE, torn |-> FALSE, repeats |-> FALSE]
    BY <1>2, <2>2 DEF NewWalk
  <2>4. QED
    BY <2>1, <2>2, <2>3 DEF Walks
<1>4. w.ask \in {"index", "stored"}
  BY <1>3 DEF FirstAsk
<1>5. WalkFits'
  BY <1>1, <1>2, <1>3 DEF WalkFits, FirstAsk
<1>6. PartHasRest' /\ CountCovers' /\ LastIsLast' /\ PartIsNew'
  BY <1>2, <1>4 DEF PartHasRest, CountCovers, LastIsLast, PartIsNew
<1>7. ASSUME NEW src \in SourcesOf(kind) PROVE SeenSoFar(src)' /\ NoneTwice(src)'
  <2>1. expected \subseteq Held(src) /\ Held(src)' = Held(src)
    BY <1>7 DEF SourcesOf, Held
  <2>2. Turned' = (page - 1) * limit
    BY <1>2, <1>3, <1>4 DEF Turned
  <2>3. \A i : Standing(i, src)' = Rank(i, Held(src), order)
    BY <1>2, <1>3, <2>1 DEF Standing
  <2>4. SeenSoFar(src)'
    <3>1. \A i \in expected : ~(Rank(i, Held(src), order) < (page - 1) * limit)
      BY <1>7
    <3>2. \A i \in expected : ~(Standing(i, src)' < Turned')
      BY <2>2, <2>3, <3>1
    <3>3. walk'.expected = expected /\ expected \subseteq Held(src)'
      BY <1>2, <1>3, <2>1
    <3>4. QED
      BY <3>2, <3>3 DEF SeenSoFar
  <2>5. NoneTwice(src)'
    BY <1>2, <1>3 DEF NoneTwice
  <2>6. QED
    BY <2>4, <2>5
<1>8. WalkInv'
  BY <1>2, <1>3, <1>5, <1>6, <1>7 DEF WalkInv
<1>9. QED
  BY <1>1, <1>2, <1>3, <1>8 DEF ListInv, ListingsTypeOK, IdsGivenOut

LEMMA RanksAreNat == ASSUME ListInv PROVE \A i, src, o : Rank(i, Held(src), o) \in Nat
BY HeldFacts, RankFacts

LEMMA StartWalkHolds ==
    ASSUME ListInv, NEW kind \in ListKinds, NEW order \in Orders, NEW limit \in Limits,
           StartWalk(kind, order, limit)
    PROVE  ListInv'
<1>1. PICK expected : expected = IF AsksIndex(kind) THEN posts \intersect searchable ELSE posts
  OBVIOUS
<1>2. expected \in SUBSET (1..made) /\ expected \subseteq posts /\ (AsksIndex(kind) => expected \subseteq searchable)
  BY <1>1 DEF ListInv, IdsGivenOut
<1>3. /\ walk' = NewWalk(kind, order, limit, 1, expected)
      /\ UNCHANGED <<posts, searchable, due, made, changes>>
      /\ order = "any" <=> kind \in {"titles", "answerSearch"}
      /\ kind \in {"answers", "ofUser"} => order = "newest"
  BY <1>1 DEF StartWalk
<1>4. \A i, src : ~(Rank(i, Held(src), order) < (1 - 1) * limit)
  <2>1. (1 - 1) * limit = 0
    BY ListingAssumption
  <2>2. QED
    BY <2>1, RanksAreNat
<1>5. QED
  BY <1>2, <1>3, <1>4, FreshWalkHolds

LEMMA LookUpHolds ==
    ASSUME ListInv, NEW a \in posts, NEW limit \in Limits, LookUp(a, limit) PROVE ListInv'
<1>1. PICK r \in Nat : r = Rank(a, posts, "newest")
  <2>1. Held("stored") = posts
    BY DEF Held
  <2>2. QED
    BY <2>1, RanksAreNat
<1>2. PICK page \in Nat : page = PageNumber(a, posts, limit) /\ page >= 1 /\ (page - 1) * limit <= r
  BY <1>1, PageNumberIs, ListingAssumption DEF PageNumber
<1>3. /\ walk' = NewWalk("answers", "newest", limit, page, {a})
      /\ UNCHANGED <<posts, searchable, due, made, changes>>
  BY <1>2 DEF LookUp
<1>4. SourcesOf("answers") = {"stored"} /\ ~AsksIndex("answers") /\ "answers" \in ListKinds /\ "newest" \in Orders
  BY DEF SourcesOf, AsksIndex, ListKinds, Orders
<1>5. {a} \in SUBSET (1..made)
  BY DEF ListInv, IdsGivenOut
<1>6. \A i \in {a} : \A src \in SourcesOf("answers") : ~(Rank(i, Held(src), "newest") < (page - 1) * limit)
  <2>1. limit \in Nat \ {0}
    BY ListingAssumption
  <2>2. (page - 1) * limit \in Nat
    BY <1>2, <2>1, PageArithmetic
  <2>3. ~(r < (page - 1) * limit)
    BY <1>2, <2>2
  <2>4. QED
    BY <1>1, <1>4, <2>3 DEF Held
<1>7. QED
  BY <1>2, <1>3, <1>4, <1>5, <1>6, FreshWalkHolds

\* A page is shown.
LEMMA ShowsHolds ==
    ASSUME ListInv, walk # NoWalk, walk.ask \in {"index", "stored", "count", "data"},
           NEW src \in SourcesOf(walk.kind), NEW o \in {walk.order, "any"}, NEW total \in Nat,
           NEW slice \in SUBSET (1..made), Shows(total, slice, o, src),
           UNCHANGED <<posts, searchable, due, made, changes>>,
           o = walk.order /\ OnlyFrom(src) /\ ~walk.shrunk =>
               \A i \in walk.expected : Standing(i, src) < PageEnd => i \in walk.seen \union slice,
           o = walk.order /\ OnlyFrom(src) /\ Intact /\ total <= PageEnd =>
               \A i \in walk.expected : Standing(i, src) < PageEnd,
           o = walk.order /\ OnlyFrom(src) /\ ~walk.grown =>
               /\ slice \intersect walk.seen = {}
               /\ \A i \in slice \intersect Held(src) : Standing(i, src) < PageEnd
    PROVE  ListInv'
<1>1. /\ walk \in Walks /\ WalkFields /\ WalkInv /\ ListingsTypeOK /\ IdsGivenOut
      /\ 1..made \subseteq Posts
  BY WalkFacts, ListingAssumption DEF ListInv, ListingsTypeOK, Posts
<1>2. PICK sources, seen : sources = walk.sources \union {<<o, src>>} /\ seen = walk.seen \union slice
  OBVIOUS
<1>3. PICK repeats \in BOOLEAN : repeats = (walk.repeats \/ slice \intersect walk.seen # {})
  OBVIOUS
<1>4. walk' = [walk EXCEPT !.ask = "shown", !.total = total, !.part = slice, !.sources = sources,
                           !.repeats = repeats, !.seen = seen]
  <2>1. walk' = [walk EXCEPT !.ask = "shown", !.total = total, !.part = slice,
                             !.sources = walk.sources \union {<<o, src>>},
                             !.repeats = walk.repeats \/ slice \intersect walk.seen # {},
                             !.seen = walk.seen \union slice]
    BY <1>1 DEF Shows, Walks
  <2>2. QED
    BY <1>1, <1>2, <1>3, <2>1 DEF Walks
<1>5. src \in {"index", "stored"} /\ o \in Orders
  BY <1>1 DEF SourcesOf, WalkFields, Orders
<1>6. sources \in SUBSET (Orders \X {"index", "stored"}) /\ seen \in SUBSET Posts /\ slice \in SUBSET Posts
  <2>1. walk.sources \in SUBSET (Orders \X {"index", "stored"}) /\ walk.seen \in SUBSET Posts
    BY <1>1 DEF Walks
  <2>2. <<o, src>> \in Orders \X {"index", "stored"}
    BY <1>5
  <2>3. sources \in SUBSET (Orders \X {"index", "stored"})
    BY <1>2, <2>1, <2>2
  <2>4. QED
    BY <1>1, <1>2, <2>1, <2>3
<1>7. walk' \in Walks
  BY <1>1, <1>3, <1>4, <1>6 DEF Walks
<1>8. /\ walk'.ask = "shown" /\ walk'.total = total /\ walk'.part = slice /\ walk'.sources = sources
      /\ walk'.repeats = repeats /\ walk'.seen = seen
      /\ walk'.kind = walk.kind /\ walk'.order = walk.order /\ walk'.limit = walk.limit
      /\ walk'.page = walk.page /\ walk'.expected = walk.expected
      /\ walk'.shrunk = walk.shrunk /\ walk'.grown = walk.grown /\ walk'.torn = walk.torn
  BY <1>1, <1>4 DEF Walks
<1>9. /\ PageEnd' = PageEnd /\ Turned' = PageEnd /\ Turned <= PageEnd /\ Turned \in Nat /\ PageEnd \in Nat
      /\ Intact' <=> Intact
  <2>1. Turned = (walk.page - 1) * walk.limit
    BY DEF Turned
  <2>2. PageEnd \in Nat /\ Turned \in Nat /\ Turned <= PageEnd
    BY <1>1, <2>1, WalkFacts, PageArithmetic DEF PageEnd, WalkFields
  <2>3. QED
    BY <1>8, <2>2 DEF PageEnd, Turned, Intact
<1>10. \A r : OnlyFrom(r)' => r = src /\ o = walk.order /\ OnlyFrom(r) /\ walk.order # "any"
  <2> SUFFICES ASSUME NEW r, OnlyFrom(r)'
               PROVE  r = src /\ o = walk.order /\ OnlyFrom(r) /\ walk.order # "any"
    OBVIOUS
  <2>1. walk.order # "any" /\ sources \subseteq {<<walk.order, r>>}
    BY <1>8 DEF OnlyFrom
  <2>2. <<o, src>> = <<walk.order, r>> /\ walk.sources \subseteq {<<walk.order, r>>}
    BY <1>2, <2>1
  <2>3. o = walk.order /\ src = r
    BY <2>2
  <2>4. QED
    BY <2>1, <2>2, <2>3 DEF OnlyFrom
<1>11. /\ \A r : Held(r)' = Held(r)
       /\ \A i, r : Standing(i, r)' = Standing(i, r) /\ Standing(i, r) \in Nat
  BY <1>8, RanksAreNat DEF Held, Standing
<1>12. WalkFits'
  <2>1. sources \subseteq {walk.order, "any"} \X SourcesOf(walk.kind)
    BY <1>1, <1>2 DEF WalkInv, WalkFits
  <2>2. seen \subseteq 1..made
    BY <1>1, <1>2 DEF WalkInv, WalkFits
  <2>3. QED
    BY <1>1, <1>8, <2>1, <2>2 DEF WalkInv, WalkFits
<1>13. PartHasRest' /\ CountCovers' /\ PartIsNew'
  BY <1>8 DEF PartHasRest, CountCovers, PartIsNew
<1>14. ASSUME o = walk.order, OnlyFrom(src), ~walk.shrunk
       PROVE  /\ walk.expected \subseteq Held(src)
              /\ \A i \in walk.expected : Standing(i, src) < PageEnd => i \in seen
  BY <1>1, <1>2, <1>14 DEF WalkInv, SeenSoFar
<1>15. LastIsLast'
  <2> SUFFICES ASSUME Intact, total <= PageEnd, NEW r \in SourcesOf(walk.kind), OnlyFrom(r)',
                      NEW i \in walk.expected
               PROVE  i \in seen
    BY <1>8, <1>9 DEF LastIsLast
  <2>1. o = walk.order /\ OnlyFrom(src) /\ ~walk.shrunk
    BY <1>10 DEF Intact
  <2>2. QED
    BY <1>14, <2>1
<1>16. ASSUME NEW r \in SourcesOf(walk.kind) PROVE SeenSoFar(r)'
  <2> SUFFICES ASSUME OnlyFrom(r)', ~walk.shrunk
               PROVE  /\ walk.expected \subseteq Held(r)
                      /\ \A i \in walk.expected : Standing(i, r) < PageEnd => i \in seen
    BY <1>8, <1>9, <1>11 DEF SeenSoFar
  <2>1. QED
    BY <1>10, <1>14
<1>17. ASSUME NEW r \in SourcesOf(walk.kind) PROVE NoneTwice(r)'
  <2> SUFFICES ASSUME OnlyFrom(r)', ~walk.grown
               PROVE  /\ ~repeats
                      /\ \A i \in seen \intersect Held(r) : Standing(i, r) < PageEnd
    BY <1>8, <1>9, <1>11 DEF NoneTwice
  <2>1. r = src /\ o = walk.order /\ OnlyFrom(src)
    BY <1>10
  <2>2. ~walk.repeats /\ \A i \in walk.seen \intersect Held(src) : Standing(i, src) < Turned
    BY <1>1, <2>1 DEF WalkInv, NoneTwice
  <2>3. slice \intersect walk.seen = {} /\ \A i \in slice \intersect Held(src) : Standing(i, src) < PageEnd
    BY <2>1
  <2>4. \A i \in walk.seen \intersect Held(src) : Standing(i, src) < PageEnd
    BY <1>9, <1>11, <2>2
  <2>5. QED
    BY <1>2, <1>3, <2>1, <2>2, <2>3, <2>4
<1>18. WalkInv'
  BY <1>8, <1>12, <1>13, <1>15, <1>16, <1>17 DEF WalkInv
<1>19. QED
  BY <1>1, <1>7, <1>18 DEF ListInv, ListingsTypeOK, IdsGivenOut

\* What a slice of the list as it is now adds to what was seen.
LEMMA SliceFills ==
    ASSUME ListInv, walk # NoWalk, walk.ask \in {"index", "stored", "count", "data"},
           NEW src \in SourcesOf(walk.kind), OnlyFrom(src),
           NEW slice, slice = Slice(Held(src), walk.order, walk.page, walk.limit)
    PROVE  /\ ~walk.shrunk =>
                  \A i \in walk.expected : Standing(i, src) < PageEnd => i \in walk.seen \union slice
           /\ ~walk.grown =>
                  /\ slice \intersect walk.seen = {}
                  /\ \A i \in slice \intersect Held(src) : Standing(i, src) < PageEnd
           /\ ~walk.shrunk => \A i \in walk.expected : Standing(i, src) < Cardinality(Held(src))
<1>1. WalkInv /\ Turned = (walk.page - 1) * walk.limit /\ PageEnd = walk.page * walk.limit
  BY WalkFacts DEF Turned, PageEnd
<1>2. \A i : i \in slice <=> i \in Held(src) /\ Turned <= Standing(i, src) /\ Standing(i, src) < PageEnd
  BY <1>1 DEF Slice, Standing
<1>3. Turned \in Nat /\ PageEnd \in Nat /\ \A i : Standing(i, src) \in Nat
  BY <1>1, WalkFacts, PageArithmetic, RanksAreNat DEF WalkFields, Standing
<1>4. ~walk.shrunk => /\ walk.expected \subseteq Held(src)
                      /\ \A i \in walk.expected : Standing(i, src) < Turned => i \in walk.seen
  BY <1>1 DEF WalkInv, SeenSoFar
<1>5. ~walk.grown => \A i \in walk.seen \intersect Held(src) : Standing(i, src) < Turned
  BY <1>1 DEF WalkInv, NoneTwice
<1>6. \A i \in Held(src) : Standing(i, src) < Cardinality(Held(src))
  BY HeldFacts, RankFacts DEF Standing
<1>7. QED
  BY <1>2, <1>3, <1>4, <1>5, <1>6

LEMMA SliceInHeld ==
    ASSUME ListInv, NEW src, NEW o \in Orders, NEW page, NEW limit, NEW slice \in Pages(Held(src), o, page, limit)
    PROVE  slice \in SUBSET (1..made) /\ Cardinality(Held(src)) \in Nat
           /\ (o # "any" => slice = Slice(Held(src), o, page, limit))
<1>1. Held(src) \subseteq 1..made /\ Cardinality(Held(src)) \in Nat
  BY HeldFacts, RankFacts
<1>2. slice \subseteq Held(src)
  BY DEF Pages, Slice
<1>3. QED
  BY <1>1, <1>2 DEF Pages

\* One answer with the page and the length of one source.
LEMMA WholeAnswerHolds ==
    ASSUME ListInv, walk # NoWalk, walk.ask \in {"index", "stored"},
           NEW src \in SourcesOf(walk.kind), NEW o \in {walk.order, "any"},
           NEW slice \in Pages(Held(src), o, walk.page, walk.limit),
           Shows(Cardinality(Held(src)), slice, o, src),
           UNCHANGED <<posts, searchable, due, made, changes>>
    PROVE  ListInv'
<1>1. o \in Orders
  BY WalkFacts DEF WalkFields, Orders
<1>2. slice \in SUBSET (1..made) /\ Cardinality(Held(src)) \in Nat
      /\ (o # "any" => slice = Slice(Held(src), o, walk.page, walk.limit))
  BY <1>1, SliceInHeld
<1>3. PageEnd \in Nat /\ \A i : Standing(i, src) \in Nat
  BY WalkFacts, PageArithmetic, RanksAreNat DEF PageEnd, WalkFields, Standing
<1>4. ASSUME o = walk.order, OnlyFrom(src)
      PROVE  /\ ~walk.shrunk =>
                   \A i \in walk.expected : Standing(i, src) < PageEnd => i \in walk.seen \union slice
             /\ ~walk.grown =>
                   /\ slice \intersect walk.seen = {}
                   /\ \A i \in slice \intersect Held(src) : Standing(i, src) < PageEnd
             /\ ~walk.shrunk => \A i \in walk.expected : Standing(i, src) < Cardinality(Held(src))
  BY <1>2, <1>4, SliceFills DEF OnlyFrom
<1>5. ASSUME o = walk.order, OnlyFrom(src), Intact, Cardinality(Held(src)) <= PageEnd
      PROVE  \A i \in walk.expected : Standing(i, src) < PageEnd
  BY <1>2, <1>3, <1>4, <1>5 DEF Intact
<1>6. QED
  BY <1>2, <1>4, <1>5, ShowsHolds

LEMMA AskIndexHolds == ASSUME ListInv, AskIndex PROVE ListInv'
<1>1. walk.ask = "index" /\ UNCHANGED <<posts, searchable, due, made, changes>>
  BY DEF AskIndex
<1>2. walk # NoWalk /\ WalkFields
  BY <1>1, AskingWalks, WalkFacts
<1>3. "index" \in SourcesOf(walk.kind) /\ Held("index") = searchable
  BY <1>1, <1>2, WalkFacts DEF WalkInv, WalkFits, SourcesOf, Held
<1>4. PICK slice \in Pages(searchable, walk.order, walk.page, walk.limit) :
          Shows(Cardinality(searchable), slice, walk.order, "index")
  BY DEF AskIndex
<1>5. QED
  BY <1>1, <1>2, <1>3, <1>4, WholeAnswerHolds

LEMMA StoredIs ==
    "stored" \in SourcesOf(walk.kind) /\ Held("stored") = posts /\ Held("stored")' = posts'
BY DEF SourcesOf, Held

LEMMA ReadWholeHolds == ASSUME ListInv, ReadWhole PROVE ListInv'
<1>1. walk.ask = "stored" /\ UNCHANGED <<posts, searchable, due, made, changes>>
  BY DEF ReadWhole
<1>2. walk # NoWalk /\ WalkInv
  BY <1>1, AskingWalks, WalkFacts
<1>3. PICK o \in StoredOrders : \E slice \in Pages(posts, o, walk.page, walk.limit) :
          Shows(Cardinality(posts), slice, o, "stored")
  BY DEF ReadWhole
<1>4. o \in {walk.order, "any"}
  BY <1>2, <1>3 DEF StoredOrders, WalkInv, WalkFits
<1>5. QED
  BY <1>1, <1>2, <1>3, <1>4, StoredIs, WholeAnswerHolds

LEMMA ReadNothingHolds == ASSUME ListInv, ReadNothing PROVE ListInv'
<1>1. /\ walk.ask = "stored" /\ Stored(walk.kind) = "nothing"
      /\ UNCHANGED <<posts, searchable, due, made, changes>> /\ Shows(0, {}, walk.order, "stored")
  BY DEF ReadNothing
<1>2. walk # NoWalk /\ WalkInv /\ WalkFields
  BY <1>1, AskingWalks, WalkFacts
<1>3. walk.kind = "answerSearch"
  BY <1>1, <1>2 DEF WalkFields, ListKinds, Stored
<1>4. walk.order = "any"
  BY <1>2, <1>3 DEF WalkInv, WalkFits
<1>5. ~OnlyFrom("stored") /\ {} \in SUBSET (1..made) /\ 0 \in Nat /\ walk.order \in {walk.order, "any"}
  BY <1>4 DEF OnlyFrom
<1>6. QED
  BY <1>1, <1>2, <1>5, StoredIs, ShowsHolds

\* Nobody stands behind the end of the list.
LEMMA StandsInList ==
    ASSUME ListInv, walk # NoWalk, OnlyFrom("stored"), ~walk.shrunk, NEW i \in walk.expected
    PROVE  Standing(i, "stored") < Cardinality(posts)
<1>1. i \in Held("stored")
  BY WalkFacts, StoredIs DEF WalkInv, SeenSoFar
<1>2. QED
  BY <1>1, StoredIs, HeldFacts, RankFacts DEF Standing

LEMMA ReadCountHolds == ASSUME ListInv, ReadCount PROVE ListInv'
<1>1. walk # NoWalk /\ UNCHANGED <<posts, searchable, due, made, changes>>
  BY DEF ReadCount, Walking
<1>2. walk \in Walks /\ WalkInv /\ WalkFields
  BY <1>1, WalkFacts
<1>3. PICK total \in Nat : total = Cardinality(posts)
  BY StoredIs, HeldFacts, RankFacts
<1>4. PageEnd \in Nat /\ \A i : Standing(i, "stored") \in Nat
  BY <1>1, WalkFacts, PageArithmetic, RanksAreNat DEF PageEnd, WalkFields, Standing
<1>5. CASE walk.ask = "stored" /\ walk' = [walk EXCEPT !.ask = "data", !.total = Cardinality(posts)]
  <2>1. walk' = [walk EXCEPT !.ask = "data", !.total = total]
    BY <1>3, <1>5
  <2>2. /\ walk' \in Walks /\ WalkStays /\ walk'.ask = "data" /\ walk'.total = total
        /\ walk'.page = walk.page /\ walk'.part = walk.part
    BY <1>2, <2>1 DEF Walks, WalkStays
  <2>3. Turned' = Turned
    BY <1>5, <2>2 DEF Turned, PageEnd, WalkStays
  <2>4. WalkFits'
    BY <1>1, <1>2, <2>2 DEF WalkInv, WalkFits, WalkStays
  <2>5. PartHasRest' /\ LastIsLast' /\ PartIsNew'
    BY <2>2 DEF PartHasRest, LastIsLast, PartIsNew
  <2>6. CountCovers'
    <3> SUFFICES ASSUME OnlyFrom("stored"), ~walk.shrunk, NEW i \in walk.expected
                 PROVE  Standing(i, "stored") < total
      BY <1>1, <2>2 DEF CountCovers, OnlyFrom, Intact, WalkStays, Standing, Held
    <3>1. QED
      BY <1>1, <1>3, StandsInList
  <2>7. QED
    BY <1>1, <2>2, <2>3, <2>4, <2>5, <2>6, ReaderKeeps
<1>6. CASE walk.ask = "count" /\ Shows(Cardinality(posts), walk.part, walk.order, "stored")
  <2>1. walk.part \in SUBSET (1..made) /\ walk.order \in {walk.order, "any"}
    BY <1>2 DEF WalkInv, WalkFits
  <2>2. /\ OnlyFrom("stored") /\ ~walk.shrunk =>
              \A i \in walk.expected : Standing(i, "stored") < PageEnd => i \in walk.seen \union walk.part
        /\ OnlyFrom("stored") /\ ~walk.grown =>
              /\ walk.part \intersect walk.seen = {}
              /\ \A i \in walk.part \intersect Held("stored") : Standing(i, "stored") < PageEnd
    BY <1>2, <1>6, StoredIs DEF WalkInv, PartHasRest, PartIsNew
  <2>3. OnlyFrom("stored") /\ Intact /\ total <= PageEnd =>
              \A i \in walk.expected : Standing(i, "stored") < PageEnd
    BY <1>1, <1>3, <1>4, StandsInList DEF Intact
  <2>4. QED
    BY <1>1, <1>3, <1>6, <2>1, <2>2, <2>3, StoredIs, ShowsHolds
<1>7. QED
  BY <1>5, <1>6 DEF ReadCount

LEMMA ReadPageHolds == ASSUME ListInv, ReadPage PROVE ListInv'
<1>1. walk # NoWalk /\ UNCHANGED <<posts, searchable, due, made, changes>>
  BY DEF ReadPage, Walking
<1>2. walk \in Walks /\ WalkInv /\ WalkFields /\ made \in Nat
  BY <1>1, WalkFacts
<1>3. PICK slice : slice = Slice(posts, walk.order, walk.page, walk.limit)
  OBVIOUS
<1>4. slice \in SUBSET (1..made) /\ slice \in SUBSET Posts /\ slice \subseteq posts
  BY <1>3 DEF Slice, ListInv, IdsGivenOut, ListingsTypeOK
<1>5. ASSUME walk.ask \in {"stored", "data"}, OnlyFrom("stored")
      PROVE  /\ ~walk.shrunk =>
                  \A i \in walk.expected : Standing(i, "stored") < PageEnd => i \in walk.seen \union slice
             /\ ~walk.grown =>
                  /\ slice \intersect walk.seen = {}
                  /\ \A i \in slice \intersect posts : Standing(i, "stored") < PageEnd
  BY <1>1, <1>3, <1>5, StoredIs, SliceFills
<1>6. CASE walk.ask = "stored" /\ walk' = [walk EXCEPT !.ask = "count", !.part = slice]
  <2>1. /\ walk' \in Walks /\ WalkStays /\ walk'.ask = "count" /\ walk'.part = slice
        /\ walk'.page = walk.page
    BY <1>2, <1>4, <1>6 DEF Walks, WalkStays
  <2>2. Turned' = Turned /\ PageEnd' = PageEnd
    BY <1>6, <2>1 DEF Turned, PageEnd, WalkStays
  <2>3. WalkFits'
    BY <1>1, <1>2, <1>4, <2>1 DEF WalkInv, WalkFits, WalkStays
  <2>4. CountCovers' /\ LastIsLast'
    BY <2>1 DEF CountCovers, LastIsLast
  <2>5. \A i : Standing(i, "stored")' = Standing(i, "stored")
    BY <1>1, <2>1 DEF Standing, Held, WalkStays
  <2>6. PartHasRest'
    BY <1>5, <1>6, <2>1, <2>2, <2>5 DEF PartHasRest, OnlyFrom, WalkStays
  <2>7. PartIsNew'
    BY <1>1, <1>5, <1>6, <2>1, <2>2, <2>5 DEF PartIsNew, OnlyFrom, WalkStays
  <2>8. QED
    BY <1>1, <2>1, <2>2, <2>3, <2>4, <2>6, <2>7, ReaderKeeps
<1>7. CASE walk.ask = "data" /\ Shows(walk.total, slice, walk.order, "stored")
  <2>1. walk.total \in Nat /\ walk.order \in {walk.order, "any"} /\ PageEnd \in Nat
    BY <1>1, <1>2, WalkFacts, PageArithmetic DEF PageEnd, WalkFields
  <2>2. OnlyFrom("stored") /\ Intact /\ walk.total <= PageEnd =>
              \A i \in walk.expected : Standing(i, "stored") < PageEnd
    <3>1. OnlyFrom("stored") /\ Intact => \A i \in walk.expected : Standing(i, "stored") < walk.total
      BY <1>2, <1>7 DEF WalkInv, CountCovers
    <3>2. \A i : Standing(i, "stored") \in Nat
      BY RanksAreNat DEF Standing
    <3>3. QED
      BY <2>1, <3>1, <3>2
  <2>3. QED
    BY <1>1, <1>4, <1>5, <1>7, <2>1, <2>2, StoredIs, ShowsHolds
<1>8. QED
  BY <1>3, <1>6, <1>7 DEF ReadPage

LEMMA GivesUpHolds == ASSUME ListInv, IndexGivesUp PROVE ListInv'
<1>1. /\ walk.ask = "index" /\ walk' = [walk EXCEPT !.ask = "stored"]
      /\ UNCHANGED <<posts, searchable, due, made, changes>>
  BY DEF IndexGivesUp
<1>2. walk # NoWalk /\ walk \in Walks /\ WalkInv
  BY <1>1, AskingWalks, WalkFacts
<1>3. /\ walk' \in Walks /\ WalkStays /\ walk'.ask = "stored"
      /\ walk'.page = walk.page /\ walk'.part = walk.part
  BY <1>1, <1>2 DEF Walks, WalkStays
<1>4. Turned' = Turned
  BY <1>1, <1>3 DEF Turned, PageEnd, WalkStays
<1>5. WalkFits'
  BY <1>1, <1>2, <1>3 DEF WalkInv, WalkFits, WalkStays
<1>6. PartHasRest' /\ CountCovers' /\ LastIsLast' /\ PartIsNew'
  BY <1>3 DEF PartHasRest, CountCovers, LastIsLast, PartIsNew
<1>7. QED
  BY <1>1, <1>2, <1>3, <1>4, <1>5, <1>6, ReaderKeeps

LEMMA NextPageHolds == ASSUME ListInv, NextPage PROVE ListInv'
<1>1. /\ walk.ask = "shown" /\ UNCHANGED <<posts, searchable, due, made, changes>>
  BY DEF NextPage
<1>2. walk # NoWalk /\ walk \in Walks /\ WalkInv /\ WalkFields /\ walk.page >= 1
  BY <1>1, AskingWalks, WalkFacts
<1>3. PICK ask \in {"index", "stored"} : ask = FirstAsk(walk.kind)
  BY DEF FirstAsk
<1>4. walk' = [walk EXCEPT !.page = walk.page + 1, !.ask = ask, !.total = 0, !.part = {}]
  BY <1>2, <1>3 DEF NextPage, Walks
<1>5. /\ walk' \in Walks /\ WalkStays /\ walk'.ask = ask
      /\ walk'.page = walk.page + 1 /\ walk'.part = {}
  <2>1. PICK page \in Nat : page = walk.page + 1
    BY <1>2 DEF WalkFields
  <2>2. walk' = [walk EXCEPT !.page = page, !.ask = ask, !.total = 0, !.part = {}]
    BY <1>4, <2>1
  <2>3. /\ walk' \in Walks /\ WalkStays /\ walk'.ask = ask
        /\ walk'.page = page /\ walk'.part = {}
    BY <1>2, <2>2 DEF Walks, WalkStays
  <2>4. QED
    BY <2>1, <2>3
<1>6. Turned' = Turned
  <2>1. Turned' = ((walk.page + 1) - 1) * walk.limit /\ Turned = walk.page * walk.limit
    BY <1>1, <1>5 DEF Turned, PageEnd, WalkStays
  <2>2. (walk.page + 1) - 1 = walk.page
    BY <1>2 DEF WalkFields
  <2>3. QED
    BY <2>1, <2>2
<1>7. WalkFits'
  BY <1>1, <1>2, <1>3, <1>5 DEF WalkInv, WalkFits, WalkStays, WalkFields, FirstAsk
<1>8. PartHasRest' /\ CountCovers' /\ LastIsLast' /\ PartIsNew'
  BY <1>5 DEF PartHasRest, CountCovers, LastIsLast, PartIsNew
<1>9. QED
  BY <1>1, <1>2, <1>5, <1>6, <1>7, <1>8, ReaderKeeps

LEMMA LastPageHolds == ASSUME ListInv, LastPage PROVE ListInv'
<1>1. /\ walk.ask = "shown" /\ ~HasNext /\ walk' = [walk EXCEPT !.ask = "over"]
      /\ UNCHANGED <<posts, searchable, due, made, changes>>
  BY DEF LastPage
<1>2. walk # NoWalk /\ walk \in Walks /\ WalkInv /\ WalkFields /\ walk.page >= 1
  BY <1>1, AskingWalks, WalkFacts
<1>3. /\ walk' \in Walks /\ WalkStays /\ walk'.ask = "over"
      /\ walk'.page = walk.page /\ walk'.part = walk.part /\ walk'.total = walk.total
  BY <1>1, <1>2 DEF Walks, WalkStays
<1>4. Turned' = Turned /\ PageEnd' = PageEnd
  BY <1>1, <1>3 DEF Turned, PageEnd, WalkStays
<1>5. WalkFits'
  BY <1>1, <1>2, <1>3 DEF WalkInv, WalkFits, WalkStays
<1>6. walk.total <= PageEnd
  BY <1>1, <1>2, PageArithmetic DEF HasNext, PageEnd, WalkFields
<1>7. LastIsLast'
  BY <1>1, <1>2, <1>3, <1>4, <1>6 DEF WalkInv, LastIsLast, WalkStays, Intact, OnlyFrom
<1>8. PartHasRest' /\ CountCovers' /\ PartIsNew'
  BY <1>3 DEF PartHasRest, CountCovers, PartIsNew
<1>9. QED
  BY <1>1, <1>2, <1>3, <1>4, <1>5, <1>7, <1>8, ReaderKeeps

LEMMA LeaveHolds == ASSUME ListInv, Leave PROVE ListInv'
BY DEF Leave, ListInv, ListingsTypeOK, IdsGivenOut, Walking

LEMMA ListInvInit == ListingsInit => ListInv
<1> SUFFICES ASSUME ListingsInit PROVE ListInv
  OBVIOUS
<1>1. PICK n \in 0..MaxPosts : posts = 1..n /\ made = n
  BY DEF ListingsInit
<1>2. searchable = posts /\ due = {} /\ changes = 0 /\ walk = NoWalk
  BY DEF ListingsInit
<1>3. 1..n \subseteq Posts
  BY ListingAssumption DEF Posts
<1>4. QED
  BY <1>1, <1>2, <1>3, ListingAssumption DEF ListInv, ListingsTypeOK, IdsGivenOut, Walking

LEMMA ListInvNext == ListInv /\ [ListingsNext]_listVars => ListInv'
<1> SUFFICES ASSUME ListInv, [ListingsNext]_listVars PROVE ListInv'
  OBVIOUS
<1>1. CASE Publish
  BY <1>1, PublishHolds
<1>2. CASE \E i \in posts : Withdraw(i)
  BY <1>2, WithdrawHolds
<1>3. CASE \E u \in due : UpdateIndex(u)
  BY <1>3, UpdateIndexHolds
<1>4. CASE \E u \in due : LoseUpdate(u)
  BY <1>4, SameHolds DEF LoseUpdate
<1>5. CASE \E kind \in ListKinds, order \in Orders, limit \in Limits : StartWalk(kind, order, limit)
  BY <1>5, StartWalkHolds
<1>6. CASE \E a \in posts, limit \in Limits : LookUp(a, limit)
  BY <1>6, LookUpHolds
<1>7. CASE AskIndex \/ IndexGivesUp \/ ReadWhole \/ ReadCount \/ ReadPage \/ ReadNothing
  BY <1>7, AskIndexHolds, GivesUpHolds, ReadWholeHolds, ReadCountHolds, ReadPageHolds, ReadNothingHolds
<1>8. CASE NextPage \/ LastPage \/ Leave
  BY <1>8, NextPageHolds, LastPageHolds, LeaveHolds
<1>9. CASE UNCHANGED listVars
  BY <1>9, SameHolds DEF listVars
<1>10. QED
  BY <1>1, <1>2, <1>3, <1>4, <1>5, <1>6, <1>7, <1>8, <1>9 DEF ListingsNext

\* Every reachable state of Listings is well typed.
THEOREM ListingsTyping == ListingsSpec => []ListingsTypeOK
<1>1. ListInv => ListingsTypeOK
  BY DEF ListInv
<1>2. QED
  BY <1>1, ListInvInit, ListInvNext, PTL DEF ListingsSpec

\* One sorted source that answered every page: the reader's own order.
LEMMA OneOrderIs ==
    ASSUME ListInv, walk # NoWalk, OneOrder
    PROVE  \E src \in SourcesOf(walk.kind) : OnlyFrom(src)
<1>1. Cardinality(walk.sources) = 1 /\ \A s \in walk.sources : s[1] # "any"
  BY DEF OneOrder
<1>2. walk.sources \subseteq {walk.order, "any"} \X SourcesOf(walk.kind)
  BY WalkFacts DEF WalkInv, WalkFits
<1>3. IsFiniteSet(walk.sources)
  <2>1. SourcesOf(walk.kind) \subseteq {"stored", "index"}
    BY DEF SourcesOf
  <2>2. walk.sources \subseteq {walk.order, "any"} \X {"stored", "index"}
    BY <1>2, <2>1
  <2>3. IsFiniteSet({walk.order, "any"}) /\ IsFiniteSet({"stored", "index"})
    <3>1. /\ IsFiniteSet({walk.order}) /\ {walk.order} \union {"any"} = {walk.order, "any"}
          /\ IsFiniteSet({"stored"}) /\ {"stored"} \union {"index"} = {"stored", "index"}
      BY FS_Singleton
    <3>2. IsFiniteSet({walk.order} \union {"any"}) /\ IsFiniteSet({"stored"} \union {"index"})
      BY <3>1, FS_AddElement
    <3>3. QED
      BY <3>1, <3>2
  <2>4. IsFiniteSet({walk.order, "any"} \X {"stored", "index"})
    BY <2>3, FS_Product
  <2>5. QED
    BY <2>2, <2>4, FS_Subset
<1>4. PICK s : walk.sources = {s}
  BY <1>1, <1>3, FS_Singleton
<1>5. s \in {walk.order, "any"} \X SourcesOf(walk.kind) /\ s[1] # "any"
  BY <1>1, <1>2, <1>4
<1>6. s = <<walk.order, s[2]>> /\ s[2] \in SourcesOf(walk.kind) /\ walk.order # "any"
  BY <1>5
<1>7. OnlyFrom(s[2])
  BY <1>4, <1>6 DEF OnlyFrom
<1>8. QED
  BY <1>6, <1>7

\* However contents come and go, a reader of one sorted source misses nothing that was
\* there when he began, and meets nothing twice, but for what he is told of in the list.
THEOREM PagesAlwaysMakeTheList == ListingsSpec => []PagesMakeTheList
<1>1. ListInv => PagesMakeTheList
  <2> SUFFICES ASSUME ListInv PROVE WalkMissesNothing /\ PagesDoNotRepeat
    BY DEF PagesMakeTheList
  <2>1. WalkMissesNothing
    <3> SUFFICES ASSUME walk.ask = "over", OneOrder, Intact PROVE walk.expected \subseteq walk.seen
      BY DEF WalkMissesNothing, Intact
    <3>1. walk # NoWalk
      BY AskingWalks
    <3>2. QED
      BY <3>1, WalkFacts, OneOrderIs DEF WalkInv, LastIsLast
  <2>2. PagesDoNotRepeat
    <3> SUFFICES ASSUME Walking, walk.repeats, OneOrder, ~walk.grown PROVE FALSE
      BY DEF PagesDoNotRepeat
    <3>1. PICK src \in SourcesOf(walk.kind) : OnlyFrom(src)
      BY OneOrderIs DEF Walking
    <3>2. QED
      BY <3>1, WalkFacts DEF Walking, WalkInv, NoneTwice
  <2>3. QED
    BY <2>1, <2>2
<1>2. QED
  BY <1>1, ListInvInit, ListInvNext, PTL DEF ListingsSpec

-----------------------------------------------------------------------------
(***************************************************************************)
(* Induction over numbers, for a set: one that holds 0 and with each number *)
(* the next holds them all.  If it missed n, adding 1 would map its numbers *)
(* below n one-to-one to the same numbers without 0, which are fewer.      *)
(***************************************************************************)
\* A set that holds 0, and with each number the next, holds every number.
LEMMA SetInduction ==
  ASSUME NEW P, 0 \in P, \A k \in Nat : k \in P => k + 1 \in P
  PROVE  Nat \subseteq P
<1> SUFFICES ASSUME NEW n \in Nat, n \notin P PROVE FALSE
  OBVIOUS
<1> DEFINE Q == {k \in 0..n : k \in P}
<1> DEFINE R == Q \ {0}
<1> DEFINE f == [k \in Q |-> k + 1]
<1>1. /\ IsFiniteSet(Q) /\ IsFiniteSet(R)
      /\ Cardinality(Q) \in Nat /\ Cardinality(R) = Cardinality(Q) - 1
  <2>1. IsFiniteSet(0..n)
    BY FS_Interval
  <2>2. IsFiniteSet(Q)
    BY <2>1, FS_Subset
  <2>3. 0 \in Q
    BY SMT
  <2> HIDE DEF Q
  <2>4. QED
    BY <2>2, <2>3, FS_RemoveElement, FS_CardinalityType
<1>2. f \in Injection(Q, R)
  BY DEF Injection, IsInjective
<1> HIDE DEF Q, R, f
<1>3. Cardinality(Q) <= Cardinality(R)
  BY <1>1, <1>2, FS_Injection
<1>4. QED
  BY <1>1, <1>3

-----------------------------------------------------------------------------
(***************************************************************************)
(* Backfill: computeAncestors exists as a function, since each call is one *)
(* link higher and the depth is bounded; what it returns is a whole path.  *)
(* The script then only has to write what it returns.                      *)
(***************************************************************************)
\* The place one link higher; where a climb ends; one step of the climb, g being the rest.
Above(at) == [content |-> NextParent(at.content), visited |-> Visit(at.content, at.visited),
              depth |-> at.depth + 1]
ClimbEnds(at) == at.content = NoLink \/ at.depth >= MaxDepth \/ at.content \in at.visited
OneClimb(g, at) == IF ClimbEnds(at) THEN <<>> ELSE <<at.content>> \o g[Above(at)]
\* The places from which a climb has at most n links to go.
Higher(n) == {at \in Rungs : at.depth + n >= MaxDepth}
Climbs(g, S) == g = [at \in S |-> OneClimb(g, at)]

\* The next place is a place.
LEMMA AboveIsPlace ==
  ASSUME NEW at \in Rungs, ~ ClimbEnds(at), \A c \in OldContents : link[c] \in Links[c]
  PROVE  Above(at) \in Rungs
<1>1. /\ at.content \in LinkEnds /\ at.visited \in SUBSET LinkEnds
      /\ at.depth \in 0..MaxDepth /\ at.depth + 1 \in 0..MaxDepth
  BY BackfillAssumption DEF Rungs, ClimbEnds
<1>2. NextParent(at.content) \in LinkEnds
  BY <1>1 DEF NextParent, LinkEnds, OldContents, Links
<1>3. Visit(at.content, at.visited) \in SUBSET LinkEnds
  BY <1>1 DEF Visit
<1>4. QED
  BY <1>1, <1>2, <1>3 DEF Above, Rungs

\* A climb of at most n links gives one of at most n + 1: a step refers to higher places only.
LEMMA ClimbExtends ==
  ASSUME NEW n \in Nat, NEW g, Climbs(g, Higher(n)), \A c \in OldContents : link[c] \in Links[c]
  PROVE \E h : Climbs(h, Higher(n + 1))
<1> DEFINE h == [at \in Higher(n + 1) |-> IF at \in Higher(n) THEN g[at] ELSE OneClimb(g, at)]
<1>1. ASSUME NEW at \in Higher(n + 1) PROVE h[at] = OneClimb(h, at)
  <2>1. CASE ClimbEnds(at)
    BY <2>1, <1>1 DEF Climbs, OneClimb
  <2>2. CASE ~ ClimbEnds(at)
    <3>1. Above(at) \in Rungs
      BY <2>2, AboveIsPlace DEF Higher
    <3>2. Above(at) \in Higher(n)
      BY <3>1, BackfillAssumption DEF Higher, Above, Rungs
    <3>3. Above(at) \in Higher(n + 1)
      BY <3>1, BackfillAssumption DEF Higher, Above, Rungs
    <3>4. h[Above(at)] = g[Above(at)]
      BY <3>2, <3>3
    <3>5. h[at] = OneClimb(g, at)
      BY DEF Climbs
    <3> QED BY <3>5, <3>4 DEF OneClimb
  <2> QED BY <2>1, <2>2
<1>2. h = [at \in Higher(n + 1) |-> OneClimb(h, at)]
  <2> DEFINE k == [at \in Higher(n + 1) |-> OneClimb(h, at)]
  <2>1. \A at \in Higher(n + 1) : h[at] = k[at]
    BY <1>1
  <2> QED BY <2>1
<1>3. QED
  BY <1>2 DEF Climbs

\* So there is a function that climbs from every place: the depth is bounded.
LEMMA ClimbExists == ASSUME \A c \in OldContents : link[c] \in Links[c]
                     PROVE  \E g : Climbs(g, Rungs)
<1> DEFINE P == {n \in Nat : \E g : Climbs(g, Higher(n))}
<1>1. 0 \in P
  <2> DEFINE g == [at \in Higher(0) |-> <<>>]
  <2>1. \A at \in Higher(0) : OneClimb(g, at) = <<>>
    BY BackfillAssumption DEF OneClimb, ClimbEnds, Higher, Rungs
  <2>2. Climbs(g, Higher(0))
    BY <2>1 DEF Climbs
  <2> QED BY <2>2
<1>2. \A n \in Nat : n \in P => n + 1 \in P
  BY ClimbExtends
<1> HIDE DEF P
<1>3. Nat \subseteq P
  BY <1>1, <1>2, SetInduction
<1>4. MaxDepth \in P
  BY <1>3, BackfillAssumption
<1>5. Higher(MaxDepth) = Rungs
  <2>1. \A at \in Rungs : at.depth \in Nat /\ MaxDepth \in Nat
    BY BackfillAssumption DEF Rungs
  <2>2. \A at \in Rungs : at.depth + MaxDepth >= MaxDepth
    BY <2>1
  <2> QED BY <2>2 DEF Higher
<1> QED BY <1>4, <1>5 DEF P

\* computeAncestors is such a function.
LEMMA ClimbSolves == ASSUME \A c \in OldContents : link[c] \in Links[c]
                     PROVE Climbs(Climb, Rungs)
<1>1. Climb = CHOOSE g : Climbs(g, Rungs)
  BY DEF Climb, Climbs, OneClimb, ClimbEnds, Above
<1> QED BY <1>1, ClimbExists

\* What the recursion of computeAncestors does at one place.
LEMMA ClimbStep == ASSUME \A c \in OldContents : link[c] \in Links[c], NEW at \in Rungs
                   PROVE Climb[at] = OneClimb(Climb, at)
BY ClimbSolves DEF Climbs
\* What a chain may name.
Named == OldContents \union {Missing}
\* Each entry is the parent of the one before it, and none occurs twice.
UpwardPath(s) ==
    /\ \A k \in 1..Len(s) - 1 : s[k] \in OldContents /\ s[k + 1] = link[s[k]]
    /\ \A k, l \in 1..Len(s) : s[k] = s[l] => k = l
\* The climb cannot go on from its last entry.
TopReached(s, at) ==
    \/ NextParent(s[Len(s)]) \in {NoLink} \union at.visited \union {s[k] : k \in 1..Len(s)}
    \/ Len(s) + at.depth = MaxDepth
\* What computeAncestors promises for the place it is called with.
ClimbFine(s, at) ==
    /\ s \in Seq(Named) /\ Len(s) + at.depth <= MaxDepth
    /\ UpwardPath(s)
    /\ \A k \in 1..Len(s) : s[k] \notin at.visited
    /\ IF s = <<>> THEN ClimbEnds(at) ELSE s[1] = at.content /\ TopReached(s, at)

\* What is so of the rest of a climb is so with the content it went on from in front.
LEMMA ClimbFineGrows ==
  ASSUME \A c \in OldContents : link[c] \in Links[c],
         NEW at \in Rungs, ~ ClimbEnds(at), NEW t, ClimbFine(t, Above(at))
  PROVE  ClimbFine(<<at.content>> \o t, at)
<1> DEFINE c == at.content
<1> DEFINE s == <<c>> \o t
<1>1. /\ c \in Named /\ c \notin at.visited /\ at.visited \subseteq LinkEnds
      /\ at.depth \in Nat /\ at.depth < MaxDepth /\ MaxDepth \in Nat
  BY BackfillAssumption DEF ClimbEnds, Rungs, LinkEnds, Named
<1>2. /\ t \in Seq(Named) /\ Len(t) \in Nat /\ Len(t) + at.depth + 1 <= MaxDepth
      /\ \A k \in 1..Len(t) : t[k] \notin at.visited /\ t[k] # c
  BY <1>1 DEF ClimbFine, Above, Visit
<1>3. /\ s \in Seq(Named) /\ Len(s) = Len(t) + 1 /\ s[1] = c /\ s # <<>>
      /\ \A k \in 1..Len(t) : s[k + 1] = t[k]
      /\ \A k \in 2..Len(s) : s[k] = t[k - 1] /\ k - 1 \in 1..Len(t)
  BY <1>1, <1>2
<1>4. t # <<>> => c \in OldContents /\ t[1] = link[c]
  <2> SUFFICES ASSUME t # <<>> PROVE c \in OldContents /\ t[1] = link[c]
    OBVIOUS
  <2>1. t[1] = NextParent(c) /\ 1 \in 1..Len(t)
    BY <1>2 DEF ClimbFine, Above
  <2>2. t[1] \in Named
    BY <2>1, <1>2
  <2>3. NextParent(c) # NoLink
    BY <2>1, <2>2, BackfillAssumption DEF Named
  <2> QED BY <2>1, <2>3, <1>1, BackfillAssumption DEF NextParent, Named, OldContents
<1> HIDE DEF s
<1>5. /\ \A k \in 1..Len(s) : k = 1 \/ k \in 2..Len(s)
      /\ \A k \in 2..Len(s) : s[k] # c /\ s[k] \notin at.visited
  <2>1. \A k \in 1..Len(s) : k = 1 \/ k \in 2..Len(s)
    BY <1>2, <1>3
  <2>2. \A k \in 2..Len(s) : s[k] # c /\ s[k] \notin at.visited
    BY <1>2, <1>3
  <2> QED BY <2>1, <2>2
<1>6. \A k \in 1..Len(s) - 1 : s[k] \in OldContents /\ s[k + 1] = link[s[k]]
  <2> SUFFICES ASSUME NEW k \in 1..Len(s) - 1 PROVE s[k] \in OldContents /\ s[k + 1] = link[s[k]]
    OBVIOUS
  <2>1. CASE k = 1
    BY <2>1, <1>2, <1>3, <1>4
  <2>2. CASE k # 1
    <3>1. k - 1 \in 1..Len(t) - 1 /\ s[k] = t[k - 1] /\ s[k + 1] = t[k] /\ k = (k - 1) + 1
      BY <2>2, <1>2, <1>3
    <3> QED BY <3>1 DEF ClimbFine, UpwardPath
  <2> QED BY <2>1, <2>2
<1>7. \A k, l \in 1..Len(s) : s[k] = s[l] => k = l
  <2> SUFFICES ASSUME NEW k \in 1..Len(s), NEW l \in 1..Len(s), s[k] = s[l] PROVE k = l
    OBVIOUS
  <2>1. CASE k = 1 \/ l = 1
    BY <2>1, <1>3, <1>5
  <2>2. CASE k # 1 /\ l # 1
    <3>1. k - 1 \in 1..Len(t) /\ l - 1 \in 1..Len(t) /\ t[k - 1] = t[l - 1]
      BY <2>2, <1>2, <1>3
    <3>2. k - 1 = l - 1
      BY <3>1 DEF ClimbFine, UpwardPath
    <3> QED BY <3>2, <1>2, <1>3
  <2> QED BY <2>1, <2>2
<1>8. \A k \in 1..Len(s) : s[k] \notin at.visited
  BY <1>1, <1>3, <1>5
<1>9. TopReached(s, at)
  <2>1. CASE t = <<>>
    <3>1. Len(s) = 1 /\ s[Len(s)] = c /\ c \in {s[k] : k \in 1..Len(s)}
      BY <2>1, <1>2, <1>3
    <3>2. ClimbEnds(Above(at))
      BY <2>1 DEF ClimbFine
    <3>3. NextParent(c) \in {NoLink} \union at.visited \union {c} \/ at.depth + 1 >= MaxDepth
      BY <3>2 DEF ClimbEnds, Above, Visit
    <3> QED BY <3>1, <3>3, <1>1, <1>2, <1>3 DEF TopReached
  <2>2. CASE t # <<>>
    <3>1. Len(t) \in 1..Len(t) /\ s[Len(s)] = t[Len(t)]
      BY <2>2, <1>2, <1>3
    <3>2. {t[k] : k \in 1..Len(t)} \union {c} \subseteq {s[k] : k \in 1..Len(s)}
      <4>1. 1 \in 1..Len(s) /\ c = s[1]
        BY <1>2, <1>3
      <4>2. \A k \in 1..Len(t) : k + 1 \in 1..Len(s) /\ t[k] = s[k + 1]
        BY <1>2, <1>3
      <4> QED BY <4>1, <4>2
    <3>3. TopReached(t, Above(at))
      BY <2>2 DEF ClimbFine
    <3>4. \/ NextParent(t[Len(t)])
                \in {NoLink} \union at.visited \union {c} \union {t[k] : k \in 1..Len(t)}
          \/ Len(t) + (at.depth + 1) = MaxDepth
      BY <3>3 DEF TopReached, Above, Visit
    <3>5. CASE Len(t) + (at.depth + 1) = MaxDepth
      BY <3>5, <1>1, <1>2, <1>3 DEF TopReached
    <3>6. CASE NextParent(t[Len(t)])
                  \in {NoLink} \union at.visited \union {c} \union {t[k] : k \in 1..Len(t)}
      <4>1. NextParent(s[Len(s)]) \in {NoLink} \union at.visited \union {s[k] : k \in 1..Len(s)}
        BY <3>6, <3>1, <3>2
      <4> QED BY <4>1 DEF TopReached
    <3> QED BY <3>4, <3>5, <3>6
  <2> QED BY <2>1, <2>2
<1> QED BY <1>1, <1>2, <1>3, <1>6, <1>7, <1>8, <1>9 DEF ClimbFine, UpwardPath, s

\* computeAncestors keeps its promise, whatever the old links are: by induction on the
\* links that are left to go.
LEMMA ClimbIsFine ==
  ASSUME \A c \in OldContents : link[c] \in Links[c], NEW at \in Rungs
  PROVE  ClimbFine(Climb[at], at)
<1> DEFINE P == {n \in Nat : \A x \in Rungs : x.depth + n = MaxDepth => ClimbFine(Climb[x], x)}
<1>0. \A x \in Rungs : x.depth \in Nat /\ x.depth <= MaxDepth /\ MaxDepth \in Nat
  BY BackfillAssumption DEF Rungs
<1>1. ASSUME NEW x \in Rungs, ClimbEnds(x) PROVE ClimbFine(Climb[x], x)
  <2>1. Climb[x] = <<>>
    BY <1>1, ClimbStep DEF OneClimb
  <2> QED BY <2>1, <1>1, <1>0 DEF ClimbFine, UpwardPath
<1>2. 0 \in P
  BY <1>0, <1>1 DEF ClimbEnds
<1>3. ASSUME NEW n \in Nat, n \in P PROVE n + 1 \in P
  <2> SUFFICES ASSUME NEW x \in Rungs, x.depth + (n + 1) = MaxDepth, ~ ClimbEnds(x) PROVE ClimbFine(Climb[x], x)
    BY <1>1
  <2>1. Above(x) \in Rungs
    BY AboveIsPlace
  <2>2. Above(x).depth + n = MaxDepth
    BY <1>0 DEF Above
  <2>3. ClimbFine(Climb[Above(x)], Above(x))
    BY <1>3, <2>1, <2>2
  <2>4. Climb[x] = <<x.content>> \o Climb[Above(x)]
    BY ClimbStep DEF OneClimb
  <2> QED BY <2>3, <2>4, ClimbFineGrows
<1>4. MaxDepth - at.depth \in Nat /\ at.depth + (MaxDepth - at.depth) = MaxDepth
  BY <1>0
<1>5. MaxDepth - at.depth \in P
  <2> HIDE DEF P
  <2>1. \A n \in Nat : n \in P => n + 1 \in P
    BY <1>3
  <2>2. Nat \subseteq P
    BY <1>2, <2>1, SetInduction
  <2> QED BY <2>2, <1>4
<1> QED BY <1>4, <1>5

\* The old links lead to contents of the right kind, or nowhere.
LinksFit == \A c \in OldContents : link[c] \in Links[c]

\* For a question it is called with the question's parent, and the question as visited: its
\* chain is a path from the parent, and whole.
LEMMA AncestorsFine ==
  ASSUME LinksFit, NEW q \in OldQuestions
  PROVE  /\ ComputeAncestors(q) \in Seq(Named) /\ Len(ComputeAncestors(q)) <= MaxDepth
         /\ IsPath(ComputeAncestors(q), q) /\ IsWhole(ComputeAncestors(q), q)
         /\ link[q] = NoLink => ComputeAncestors(q) = <<>>
         /\ ComputeAncestors(q) # <<>> => ComputeAncestors(q)[1] \in LinkEnds
<1> DEFINE at == [content |-> link[q], visited |-> {q}, depth |-> 0]
<1> DEFINE s == ComputeAncestors(q)
<1>1. at \in Rungs /\ link[q] \in LinkEnds
  <2>1. q \in OldContents /\ link[q] \in LinkEnds
    BY DEF LinkEnds, OldContents, LinksFit, Links
  <2>2. {q} \in SUBSET LinkEnds /\ 0 \in 0..MaxDepth
    BY <2>1, BackfillAssumption DEF LinkEnds
  <2> QED BY <2>1, <2>2 DEF Rungs
<1>2. ClimbFine(s, at)
  BY <1>1, ClimbIsFine DEF ComputeAncestors, LinksFit
<1>3. link[q] = NoLink => s = <<>>
  BY <1>1, ClimbStep DEF ComputeAncestors, LinksFit, OneClimb, ClimbEnds
<1> HIDE DEF s
<1>4. s \in Seq(Named) /\ Len(s) <= MaxDepth /\ Len(s) \in Nat
  BY <1>2, BackfillAssumption DEF ClimbFine
<1>5. IsPath(s, q)
  BY <1>2 DEF ClimbFine, UpwardPath, IsPath
<1>6. IsWhole(s, q)
  <2>1. CASE s = <<>>
    BY <2>1, <1>2, BackfillAssumption DEF ClimbFine, ClimbEnds, IsWhole
  <2>2. CASE s # <<>>
    <3> DEFINE last == s[Len(s)]
    <3>1. Len(s) \in 1..Len(s) /\ last \in Named /\ last # q
      BY <2>2, <1>4, <1>2 DEF ClimbFine
    <3>2. CASE Len(s) = MaxDepth
      BY <3>2 DEF IsWhole
    <3>3. CASE NextParent(last) \in {q} \union {s[k] : k \in 1..Len(s)}
      <4>1. NextParent(last) # NoLink
        <5>1. \A k \in 1..Len(s) : s[k] \in Named
          BY <1>4
        <5> QED BY <3>3, <5>1, BackfillAssumption DEF Named, OldContents
      <4>2. NextParent(last) = link[last]
        BY <4>1 DEF NextParent
      <4> QED BY <3>3, <4>2, <2>2 DEF IsWhole
    <3>4. CASE NextParent(last) = NoLink
      <4>1. CASE last = Missing
        BY <4>1, <2>2 DEF IsWhole
      <4>2. CASE last # Missing
        <5>1. last \in OldContents
          BY <4>2, <3>1 DEF Named
        <5>2. link[last] \in LinkEnds /\ (last \in OldAnswers => link[last] # NoLink)
          BY <5>1, BackfillAssumption DEF LinksFit, Links, OldContents, LinkEnds
        <5>3. last \in OldQuestions /\ link[last] \in {NoLink, Missing}
          BY <5>1, <5>2, <3>4, BackfillAssumption DEF NextParent, OldContents, LinkEnds
        <5> QED BY <5>3, <3>1, <2>2 DEF IsWhole
      <4> QED BY <4>1, <4>2
    <3>5. \/ NextParent(last) \in {NoLink} \union {q} \union {s[k] : k \in 1..Len(s)}
          \/ Len(s) = MaxDepth
      BY <1>2, <1>4, <2>2 DEF ClimbFine, TopReached
    <3> QED BY <3>2, <3>3, <3>4, <3>5
  <2> QED BY <2>1, <2>2
<1>7. s # <<>> => s[1] \in LinkEnds
  BY <1>1, <1>2 DEF ClimbFine
<1> QED BY <1>3, <1>4, <1>5, <1>6, <1>7 DEF s

\* A question whose chain is written and right.
ChainDone(q) ==
    /\ IsPath(chain[q], q) /\ IsWhole(chain[q], q)
    /\ chain[q] # <<>> => head[q] = chain[q][1]
\* A chain that is not empty is right, whichever run wrote it, also when that run died.
WrittenOnce == \A q \in OldQuestions :
    /\ Len(chain[q]) <= MaxDepth
    /\ chain[q] # <<>> => link[q] # NoLink /\ ChainDone(q)
\* The script is done with what is no longer to do: with a question when its chain is right,
QuestionsFirst == stage = "questions" =>
    todo \subseteq OldQuestions /\ \A q \in OldQuestions \ todo : ChainDone(q)
\* and with an answer when its chain is made from the one just read of its question.
AnswersThen == stage \in {"answers", "done"} =>
    /\ \A q \in OldQuestions : ChainDone(q) /\ cached[q] = chain[q]
    /\ todo \subseteq OldAnswers /\ (stage = "done" => todo = {})
    /\ \A a \in OldAnswers \ todo : chain[a] = AnswerChain(a)
BackfillInv == BackfillTypeOK /\ WrittenOnce /\ QuestionsFirst /\ AnswersThen

\* The chains of the type invariant are the sequences of bounded length.
LEMMA ChainsAreSequences ==
  /\ \A s \in Chains : s \in Seq(Named) /\ Len(s) \in Nat /\ Len(s) <= MaxDepth + 1
  /\ \A s \in Seq(Named) : Len(s) <= MaxDepth + 1 => s \in Chains
<1>0. MaxDepth \in Nat /\ MaxDepth + 1 \in Nat
  BY BackfillAssumption
<1>1. ASSUME NEW s \in Chains PROVE s \in Seq(Named) /\ Len(s) \in Nat /\ Len(s) <= MaxDepth + 1
  <2>1. PICK n \in 0..MaxDepth + 1 : s \in [1..n -> Named]
    BY DEF Chains, Named
  <2> QED BY <2>1, <1>0
<1>2. ASSUME NEW s \in Seq(Named), Len(s) <= MaxDepth + 1 PROVE s \in Chains
  <2>1. Len(s) \in 0..MaxDepth + 1 /\ s \in [1..Len(s) -> Named]
    BY <1>2, <1>0
  <2> QED BY <2>1 DEF Chains, Named
<1> QED BY <1>1, <1>2

\* The chain of an answer is at most one entry longer than one of a question; it repeats
\* that of its own.
LEMMA AnswerChainFits ==
  ASSUME BackfillInv, stage \in {"answers", "done"}, NEW a \in OldAnswers
  PROVE  /\ AnswerChain(a) \in Chains
         /\ link[a] \in OldQuestions =>
               \A k \in 1..Len(cached[link[a]]) : AnswerChain(a)[k + 1] = cached[link[a]][k]
<1>0. MaxDepth \in Nat /\ MaxDepth >= 1 /\ a \in Named
  BY BackfillAssumption DEF Named, OldContents
<1>1. ASSUME NEW t \in Seq(Named), Len(t) <= MaxDepth
      PROVE  <<a>> \o t \in Chains /\ \A k \in 1..Len(t) : (<<a>> \o t)[k + 1] = t[k]
  <2>1. <<a>> \o t \in Seq(Named) /\ Len(<<a>> \o t) <= MaxDepth + 1
    BY <1>0, <1>1
  <2>2. \A k \in 1..Len(t) : (<<a>> \o t)[k + 1] = t[k]
    BY <1>0
  <2>3. <<a>> \o t \in Chains
    BY <2>1, ChainsAreSequences
  <2> QED BY <2>2, <2>3
<1>2. CASE link[a] \notin OldQuestions
  <2>1. AnswerChain(a) = <<a>> \o <<>>
    BY <1>2 DEF AnswerChain
  <2>2. <<>> \in Seq(Named) /\ Len(<<>>) <= MaxDepth
    BY <1>0
  <2> HIDE DEF AnswerChain
  <2> QED BY <2>1, <2>2, <1>1, <1>2
<1>3. CASE link[a] \in OldQuestions
  <2>1. cached[link[a]] \in Seq(Named) /\ Len(cached[link[a]]) <= MaxDepth
    BY <1>3, ChainsAreSequences DEF BackfillInv, BackfillTypeOK, AnswersThen, WrittenOnce, OldContents
  <2>2. <<link[a]>> \in Seq(Named) /\ Len(<<link[a]>>) <= MaxDepth
    BY <1>0, <1>3 DEF Named, OldContents
  <2> DEFINE t == IF cached[link[a]] # <<>> THEN cached[link[a]] ELSE <<link[a]>>
  <2>3. AnswerChain(a) = <<a>> \o t /\ t \in Seq(Named) /\ Len(t) <= MaxDepth
    BY <1>3, <2>1, <2>2 DEF AnswerChain
  <2>4. \A k \in 1..Len(cached[link[a]]) : t = cached[link[a]]
    BY <2>1
  <2> HIDE DEF t
  <2> QED BY <2>3, <2>4, <1>1
<1> QED BY <1>2, <1>3

\* At first there are no chains.
LEMMA BackfillInvInit == BackfillInit => BackfillInv
<1> SUFFICES ASSUME BackfillInit PROVE BackfillInv
  OBVIOUS
<1>1. <<>> \in Chains
  <2>1. <<>> \in Seq(Named) /\ Len(<<>>) <= MaxDepth + 1
    BY BackfillAssumption
  <2> QED BY <2>1, ChainsAreSequences
<1>2. link \in [OldContents -> LinkEnds] /\ \A c \in OldContents : link[c] \in Links[c]
  BY DEF BackfillInit
<1>3. BackfillTypeOK
  BY <1>1, <1>2 DEF BackfillInit, BackfillTypeOK, LinkEnds
<1>4. WrittenOnce
  BY BackfillAssumption DEF BackfillInit, WrittenOnce, OldContents
<1> QED BY <1>3, <1>4 DEF BackfillInv, QuestionsFirst, AnswersThen, BackfillInit

\* What does not touch the chains of questions keeps what is said of them.
LEMMA ChainDoneSame ==
  ASSUME BackfillInv, NEW q \in OldQuestions, link' = link, chain'[q] = chain[q], head'[q] = head[q]
  PROVE  ChainDone(q)' = ChainDone(q)
BY DEF ChainDone, IsPath, IsWhole

\* A chain written for a question is right, and touches no other.
LEMMA WriteQuestionKeeps ==
  ASSUME BackfillInv, NEW q \in OldQuestions, WriteQuestion(q)
  PROVE  BackfillInv'
<1> DEFINE s == ComputeAncestors(q)
<1>1. LinksFit /\ q \in OldContents
  BY DEF BackfillInv, BackfillTypeOK, LinksFit, OldContents
<1>2. /\ s \in Seq(Named) /\ Len(s) <= MaxDepth /\ IsPath(s, q) /\ IsWhole(s, q)
      /\ link[q] = NoLink => s = <<>>
      /\ s # <<>> => s[1] \in LinkEnds
  BY <1>1, AncestorsFine
<1>3. /\ stage = "questions" /\ q \in todo /\ todo' = todo \ {q}
      /\ chain' = [chain EXCEPT ![q] = s]
      /\ head' = [head EXCEPT ![q] = IF s = <<>> THEN @ ELSE s[1]]
      /\ UNCHANGED <<link, stage, cached, runs>>
  BY DEF WriteQuestion
<1> HIDE DEF s
<1>4. s \in Chains
  BY <1>2, ChainsAreSequences, BackfillAssumption
<1>5. BackfillTypeOK'
  BY <1>1, <1>2, <1>3, <1>4 DEF BackfillInv, BackfillTypeOK
<1>6. chain'[q] = s /\ (s # <<>> => head'[q] = s[1])
  BY <1>1, <1>3 DEF BackfillInv, BackfillTypeOK
<1>7. ChainDone(q)'
  BY <1>2, <1>3, <1>6 DEF ChainDone, IsPath, IsWhole
<1>8. ASSUME NEW p \in OldQuestions, p # q
      PROVE  chain'[p] = chain[p] /\ head'[p] = head[p] /\ ChainDone(p)' = ChainDone(p)
  <2>1. chain'[p] = chain[p] /\ head'[p] = head[p]
    BY <1>1, <1>3, <1>8 DEF BackfillInv, BackfillTypeOK, OldContents
  <2> QED BY <2>1, <1>3, ChainDoneSame
<1>9. WrittenOnce'
  BY <1>2, <1>3, <1>6, <1>7, <1>8 DEF BackfillInv, WrittenOnce
<1>10. QuestionsFirst'
  BY <1>3, <1>7, <1>8 DEF BackfillInv, QuestionsFirst
<1>11. AnswersThen'
  BY <1>3 DEF AnswersThen
<1> QED BY <1>5, <1>9, <1>10, <1>11 DEF BackfillInv

\* A chain written for an answer touches no question's.
LEMMA WriteAnswerKeeps ==
  ASSUME BackfillInv, NEW a \in OldAnswers, WriteAnswer(a)
  PROVE  BackfillInv'
<1>1. /\ stage = "answers" /\ a \in todo /\ todo' = todo \ {a}
      /\ chain' = [chain EXCEPT ![a] = AnswerChain(a)]
      /\ UNCHANGED <<link, head, stage, cached, runs>>
  BY DEF WriteAnswer
<1>2. AnswerChain(a) \in Chains /\ a \in OldContents
  BY <1>1, AnswerChainFits DEF OldContents
<1>3. BackfillTypeOK'
  BY <1>1, <1>2 DEF BackfillInv, BackfillTypeOK
<1>4. \A c \in OldContents : c # a => chain'[c] = chain[c]
  BY <1>1 DEF BackfillInv, BackfillTypeOK
<1>5. ASSUME NEW p \in OldQuestions
      PROVE  chain'[p] = chain[p] /\ head'[p] = head[p] /\ ChainDone(p)' = ChainDone(p)
  <2>1. chain'[p] = chain[p]
    BY <1>4, BackfillAssumption DEF OldContents
  <2> QED BY <2>1, <1>1, ChainDoneSame
<1>6. WrittenOnce'
  BY <1>1, <1>5 DEF BackfillInv, WrittenOnce
<1>7. QuestionsFirst'
  BY <1>1 DEF QuestionsFirst
<1>8. \A b \in OldAnswers : AnswerChain(b)' = AnswerChain(b)
  BY <1>1 DEF AnswerChain
<1>9. chain'[a] = AnswerChain(a)
  BY <1>1, <1>2 DEF BackfillInv, BackfillTypeOK
<1>10. AnswersThen'
  <2>1. \A p \in OldQuestions : ChainDone(p)' /\ cached'[p] = chain'[p]
    BY <1>1, <1>5 DEF BackfillInv, AnswersThen
  <2>2. \A b \in OldAnswers \ todo' : chain'[b] = AnswerChain(b)'
    BY <1>1, <1>4, <1>8, <1>9 DEF BackfillInv, AnswersThen, OldContents
  <2> QED BY <2>1, <2>2, <1>1 DEF BackfillInv, AnswersThen
<1> QED BY <1>3, <1>6, <1>7, <1>10 DEF BackfillInv

\* Every other step leaves the chains as they are.
LEMMA BackfillInvNext == BackfillInv /\ [BackfillNext]_backfillVars => BackfillInv'
<1> SUFFICES ASSUME BackfillInv, [BackfillNext]_backfillVars PROVE BackfillInv'
  OBVIOUS
<1> DEFINE Same == UNCHANGED <<link, chain, head>>
<1>0. ASSUME Same PROVE WrittenOnce' /\ \A p \in OldQuestions : ChainDone(p)' = ChainDone(p)
  <2>1. \A p \in OldQuestions : ChainDone(p)' = ChainDone(p)
    BY <1>0, ChainDoneSame
  <2> QED BY <1>0, <2>1 DEF BackfillInv, WrittenOnce
<1>1. CASE StartBackfill
  <2>1. Same /\ WrittenOnce' /\ \A p \in OldQuestions : ChainDone(p)' = ChainDone(p)
    BY <1>0, <1>1 DEF StartBackfill
  <2>2. BackfillTypeOK'
    BY <1>1 DEF StartBackfill, BackfillInv, BackfillTypeOK, OldContents
  <2>3. QuestionsFirst' /\ AnswersThen'
    BY <1>1, <2>1 DEF StartBackfill, BackfillInv, WrittenOnce, QuestionsFirst, AnswersThen
  <2> QED BY <2>1, <2>2, <2>3 DEF BackfillInv
<1>2. CASE ReadAgain
  <2>1. Same /\ WrittenOnce' /\ \A p \in OldQuestions : ChainDone(p)' = ChainDone(p)
    BY <1>0, <1>2 DEF ReadAgain
  <2>2. BackfillTypeOK'
    BY <1>2 DEF ReadAgain, BackfillInv, BackfillTypeOK, OldContents
  <2>3. QuestionsFirst' /\ AnswersThen'
    BY <1>2, <2>1 DEF ReadAgain, BackfillInv, QuestionsFirst, AnswersThen
  <2> QED BY <2>1, <2>2, <2>3 DEF BackfillInv
<1>3. CASE EndBackfill \/ UNCHANGED backfillVars
  <2>1. Same /\ WrittenOnce' /\ \A p \in OldQuestions : ChainDone(p)' = ChainDone(p)
    BY <1>0, <1>3 DEF EndBackfill, backfillVars
  <2>2. BackfillTypeOK'
    BY <1>3 DEF EndBackfill, backfillVars, BackfillInv, BackfillTypeOK
  <2>3. QuestionsFirst' /\ AnswersThen'
    <3>1. \A a \in OldAnswers : AnswerChain(a)' = AnswerChain(a)
      BY <1>3 DEF EndBackfill, backfillVars, AnswerChain
    <3> QED
      BY <1>3, <2>1, <3>1 DEF EndBackfill, backfillVars, BackfillInv, QuestionsFirst, AnswersThen
  <2> QED BY <2>1, <2>2, <2>3 DEF BackfillInv
<1>4. CASE RunAgain
  <2>1. WrittenOnce'
    BY <1>0, <1>4 DEF RunAgain
  <2> QED BY <1>4, <2>1 DEF RunAgain, BackfillInv, BackfillTypeOK, QuestionsFirst, AnswersThen
<1>5. CASE \E q \in OldQuestions : WriteQuestion(q)
  BY <1>5, WriteQuestionKeeps
<1>6. CASE \E a \in OldAnswers : WriteAnswer(a)
  BY <1>6, WriteAnswerKeeps
<1> QED BY <1>1, <1>2, <1>3, <1>4, <1>5, <1>6 DEF BackfillNext

\* Every reachable state of the backfill is well typed; no chain is longer than MAX_DEPTH
\* allows (migrate-add-ancestors).
THEOREM BackfillTyping == BackfillSpec => []BackfillTypeOK
<1>1. BackfillInv => BackfillTypeOK
  BY DEF BackfillInv
<1> QED BY <1>1, BackfillInvInit, BackfillInvNext, PTL DEF BackfillSpec

\* At the end nothing is to do, and the invariant is the property.
LEMMA BackfillInvMeansChains == BackfillInv => BackfillBuildsChains
<1> SUFFICES ASSUME BackfillInv, stage = "done" PROVE BackfillBuildsChains
  BY DEF BackfillBuildsChains
<1>1. \A q \in OldQuestions : ChainDone(q) /\ cached[q] = chain[q]
  BY DEF BackfillInv, AnswersThen
<1>2. ASSUME NEW a \in OldAnswers, link[a] \in OldQuestions, NEW k \in 1..Len(chain[link[a]])
      PROVE  chain[a][k + 1] = chain[link[a]][k]
  <2>1. chain[a] = AnswerChain(a)
    BY DEF BackfillInv, AnswersThen
  <2>2. cached[link[a]] = chain[link[a]]
    BY <1>1, <1>2
  <2> QED BY <2>1, <2>2, AnswerChainFits, <1>2
<1> QED BY <1>1, <1>2 DEF BackfillBuildsChains, ChainDone

\* However links are broken or go in circles, and wherever an earlier run died, a backfill
\* that ends leaves every question its whole chain and head, and every answer its question's.
THEOREM BackfillAlwaysBuilds == BackfillSpec => []BackfillBuildsChains
BY BackfillInvInit, BackfillInvNext, BackfillInvMeansChains, PTL DEF BackfillSpec

-----------------------------------------------------------------------------
(***************************************************************************)
(* Access: typing.                                                         *)
(***************************************************************************)
LEMMA WantedIsARight == Wanted \in Rights /\ "admin" \in RoleNames
BY AccessAssumption DEF Wanted, Rights, Listed

LEMMA ListedAreRights == ASSUME NEW r \in RoleNames PROVE Listed(r) \subseteq Rights
BY DEF Rights

LEMMA NumbersAre ==
    /\ 0 \in Numbers /\ 1 \in Numbers \ {0}
    /\ 1..MaxCommands = Numbers \ {0} /\ \A n \in 1..MaxCommands : n < MaxCommands => n + 1 \in 1..MaxCommands
BY AccessAssumption DEF Numbers

LEMMA IdTypes ==
    ASSUME AccessTypeOK
    PROVE  /\ \A r \in RoleNames : role[r].made # 0 => RoleId(r) \in RoleIds
           /\ \A p \in Rights : right[p] # 0 => RightId(p) \in RightIds
           /\ \A r \in RoleNames : Found(r) \in SUBSET RightIds
           /\ \A r \in RoleNames : MadeOr(r) \in Numbers \ {0}
<1>1. commands \in Numbers \ {0}
  BY NumbersAre DEF AccessTypeOK
<1>2. \A r \in RoleNames : MadeOr(r) \in Numbers \ {0}
  BY <1>1 DEF AccessTypeOK, MadeOr
<1>3. \A p \in Rights : right[p] # 0 => RightId(p) \in RightIds
  BY DEF AccessTypeOK, RightId, RightIds
<1>4. \A r \in RoleNames : Found(r) \in SUBSET RightIds
  BY <1>3, ListedAreRights DEF Found
<1>5. \A r \in RoleNames : role[r].made # 0 => RoleId(r) \in RoleIds
  BY DEF AccessTypeOK, RoleId, RoleIds
<1>6. QED
  BY <1>2, <1>3, <1>4, <1>5

RoleType == [made : Numbers, lists : SUBSET RightIds]

LEMMA NoRequestTypes == NoCommand \in Commands /\ NoChore \in Chores /\ NoGuard \in Guards /\ NoSight \in Sights
BY DEF NoCommand, Commands, NoChore, Chores, NoGuard, Guards, NoSight, Sights

LEMMA AccessTypingInit == AccessInit => AccessTypeOK
<1> SUFFICES ASSUME AccessInit PROVE AccessTypeOK
  OBVIOUS
<1>1. right \in [Rights -> Numbers]
  BY NumbersAre DEF AccessInit
<1>2. role \in [RoleNames -> RoleType]
  <2>1. \A r \in RoleNames : {<<p, 1>> : p \in Listed(r)} \in SUBSET RightIds
    BY ListedAreRights, NumbersAre DEF RightIds
  <2>2. \A r \in RoleNames : /\ [made |-> 0, lists |-> {}] \in RoleType
                            /\ [made |-> 1, lists |-> {<<p, 1>> : p \in Listed(r)}] \in RoleType
    BY <2>1, NumbersAre DEF RoleType
  <2>3. \/ role = [r \in RoleNames |-> [made |-> 0, lists |-> {}]]
        \/ role = [r \in RoleNames |-> [made |-> 1, lists |-> {<<p, 1>> : p \in Listed(r)}]]
    BY DEF AccessInit
  <2>4. QED
    BY <2>2, <2>3
<1>3. rows \subseteq UserRoles
  BY NumbersAre DEF AccessInit, UserRoles, RoleIds
<1>4. commands \in 1..MaxCommands /\ chores \in 0..MaxChores
  BY AccessAssumption DEF AccessInit
<1>5. QED
  BY <1>1, <1>2, <1>3, <1>4, NoRequestTypes DEF AccessInit, AccessTypeOK, RoleType

\* The history of a check is made of roles that users have and lists name.
LEMMA SightType ==
    ASSUME rows' \subseteq UserRoles, guard' \in Guards, right' \in [Rights -> Numbers],
           role' \in [RoleNames -> RoleType],
           \A r \in RoleNames : role'[r].lists # {} => role'[r].made # 0
    PROVE  Sight' \in Sights
<1>1. Worn' \in SUBSET RoleIds
  BY DEF Worn, UserRoles
<1>2. Offers' \in SUBSET RoleIds
  BY DEF Offers, RoleId, RoleIds, RoleType
<1>3. QED
  BY <1>1, <1>2 DEF Sight, Sights

\* The command does what its place says; a role that lists a permission was made.
AccessFits ==
    /\ cli.pc \in {"rights", "roles"} => cli.op = "seed"
    /\ cli.pc \in {"drop roles", "drop rights"} => cli.op = "rollback"
    /\ cli.filling =>
          /\ cli.pc = "roles" /\ accessStore = "postgres" /\ cli.todo # {}
          /\ \A r \in RoleNames : IsNext(r) => role[r].made # 0
    /\ \A r \in RoleNames : role[r].lists # {} => role[r].made # 0

Typed == AccessTypeOK /\ AccessFits

LEMMA AccessFacts ==
    ASSUME AccessTypeOK
    PROVE  /\ right \in [Rights -> Numbers] /\ role \in [RoleNames -> RoleType]
           /\ \A r \in RoleNames : role[r].made \in Numbers /\ role[r].lists \in SUBSET RightIds
           /\ rows \in SUBSET UserRoles /\ cli \in Commands /\ guard \in Guards
           /\ cli.todo \in SUBSET (RoleNames \union Rights)
           /\ commands \in Numbers \ {0} /\ commands \in 1..MaxCommands
           /\ chore.kind = "grant" => chore.person \in Visitors /\ chore.role \in RoleIds
           /\ chore.kind = "add" => chore.role \in RoleIds /\ chore.right \in RightIds
<1>1. /\ right \in [Rights -> Numbers] /\ role \in [RoleNames -> RoleType]
      /\ rows \in SUBSET UserRoles /\ cli \in Commands /\ guard \in Guards
      /\ commands \in 1..MaxCommands
  BY DEF AccessTypeOK, RoleType
<1>2. \A r \in RoleNames : role[r].made \in Numbers /\ role[r].lists \in SUBSET RightIds
  BY <1>1 DEF RoleType
<1>3. cli.todo \in SUBSET (RoleNames \union Rights)
  BY <1>1 DEF Commands
<1>4. commands \in Numbers \ {0}
  BY <1>1, NumbersAre
<1>5. /\ chore.kind = "grant" => chore.person \in Visitors /\ chore.role \in RoleIds
      /\ chore.kind = "add" => chore.role \in RoleIds /\ chore.right \in RightIds
  <2>1. chore \in Chores
    BY DEF AccessTypeOK
  <2>2. CASE chore = NoChore
    BY <2>2 DEF NoChore
  <2>3. CASE chore \in [kind : {"grant"}, person : Visitors, role : RoleIds]
    BY <2>3
  <2>4. CASE chore \in [kind : {"add"}, role : RoleIds, right : RightIds]
    BY <2>4
  <2>5. QED
    BY <2>1, <2>2, <2>3, <2>4 DEF Chores
<1>6. QED
  BY <1>1, <1>2, <1>3, <1>4, <1>5

\* Those whose turn it is: one at a time.
LEMMA OneIsNext ==
    ASSUME NEW r \in RoleNames, NEW q \in RoleNames, IsNext(r), IsNext(q)
    PROVE  r = q
<1>1. SeedRank(r) <= SeedRank(q) /\ SeedRank(q) <= SeedRank(r)
  BY DEF IsNext
<1>2. r \in {"user", "moderator", "admin"} /\ q \in {"user", "moderator", "admin"}
  BY AccessAssumption
<1>3. QED
  BY <1>1, <1>2 DEF SeedRank

\* Commands leave the requests alone.
LEMMA CommandTypes ==
    ASSUME Typed,
           \/ StartSeed \/ StartRollback \/ RightsSeeded \/ RolesDropped
           \/ SeedEnds \/ RollbackEnds \/ CommandStops
           \/ \E x \in RoleNames \union Rights : PassOver(x)
    PROVE  /\ UNCHANGED <<right, role, rows, chore, guard, chores>>
           /\ cli' \in Commands /\ commands' \in 1..MaxCommands /\ ~cli'.filling
           /\ cli'.pc \in {"rights", "roles"} => cli'.op = "seed"
           /\ cli'.pc \in {"drop roles", "drop rights"} => cli'.op = "rollback"
<1>0. cli \in Commands /\ commands \in 1..MaxCommands
  BY AccessFacts DEF Typed
<1>1. ASSUME StartSeed \/ StartRollback
      PROVE  /\ cli' \in Commands /\ commands' \in 1..MaxCommands /\ ~cli'.filling
             /\ cli'.pc \in {"rights", "roles"} => cli'.op = "seed"
             /\ cli'.pc \in {"drop roles", "drop rights"} => cli'.op = "rollback"
             /\ UNCHANGED <<right, role, rows, chore, guard, chores>>
  <2>1. commands' \in 1..MaxCommands
    BY <1>1, NumbersAre, <1>0 DEF StartSeed, StartRollback, NewCommand
  <2>2. QED
    BY <1>1, <2>1 DEF StartSeed, StartRollback, NewCommand, NoCommand, Commands
<1>2. ASSUME RightsSeeded \/ RolesDropped
      PROVE  /\ cli' \in Commands /\ ~cli'.filling /\ commands' = commands
             /\ cli'.pc \in {"rights", "roles"} => cli'.op = "seed"
             /\ cli'.pc \in {"drop roles", "drop rights"} => cli'.op = "rollback"
             /\ UNCHANGED <<right, role, rows, chore, guard, chores>>
  <2>1. PICK pc \in {"roles", "drop rights"}, rest \in {RoleNames, Rights} :
          /\ cli' = [cli EXCEPT !.pc = pc, !.todo = rest] /\ cli.todo = {}
          /\ cli.pc = IF pc = "roles" THEN "rights" ELSE "drop roles"
          /\ UNCHANGED <<right, role, rows, chore, guard, chores, commands>>
    BY <1>2 DEF RightsSeeded, RolesDropped, NextSeed
  <2>2. ~cli.filling
    BY <2>1 DEF Typed, AccessFits
  <2>3. cli' \in Commands /\ cli'.pc = pc /\ cli'.op = cli.op /\ cli'.filling = cli.filling
    BY <1>0, <2>1 DEF Commands
  <2>4. QED
    BY <2>1, <2>2, <2>3 DEF Typed, AccessFits
<1>3. ASSUME SeedEnds \/ RollbackEnds
      PROVE  /\ cli' \in Commands /\ ~cli'.filling /\ cli'.pc = "idle" /\ commands' = commands
             /\ UNCHANGED <<right, role, rows, chore, guard, chores>>
  <2>1. /\ cli' = [cli EXCEPT !.pc = "idle"] /\ cli.todo = {}
        /\ UNCHANGED <<right, role, rows, chore, guard, chores, commands>>
    BY <1>3 DEF SeedEnds, RollbackEnds, EndCommand
  <2>2. ~cli.filling
    BY <2>1 DEF Typed, AccessFits
  <2>3. cli' \in Commands /\ cli'.pc = "idle" /\ cli'.filling = cli.filling
    BY <1>0, <2>1 DEF Commands
  <2>4. QED
    BY <2>1, <2>2, <2>3
<1>4. ASSUME CommandStops
      PROVE  /\ cli' \in Commands /\ ~cli'.filling /\ cli'.pc = "idle" /\ commands' = commands
             /\ UNCHANGED <<right, role, rows, chore, guard, chores>>
  BY <1>4, NoRequestTypes DEF CommandStops, NoCommand
<1>5. ASSUME NEW x \in RoleNames \union Rights, PassOver(x)
      PROVE  /\ cli' \in Commands /\ ~cli'.filling /\ cli'.pc = cli.pc /\ cli'.op = cli.op
             /\ UNCHANGED <<right, role, rows, chore, guard, chores, commands>>
  <2>1. cli' = [cli EXCEPT !.todo = @ \ {x}, !.marred = TRUE] /\ accessStore = "mongo"
    BY <1>5 DEF PassOver
  <2>2. ~cli.filling
    BY <2>1 DEF Typed, AccessFits
  <2>3. cli' \in Commands /\ cli'.pc = cli.pc /\ cli'.op = cli.op /\ cli'.filling = cli.filling
    BY <1>0, <2>1 DEF Commands
  <2>4. QED
    BY <1>5, <2>2, <2>3 DEF PassOver
<1>6. QED
  BY <1>0, <1>1, <1>2, <1>3, <1>4, <1>5 DEF Typed, AccessFits

\* One write of a command.
LEMMA DidTypes ==
    ASSUME AccessTypeOK, NEW x, Did(x)
    PROVE  /\ cli' \in Commands /\ cli'.op = cli.op /\ cli'.pc = cli.pc
           /\ cli'.filling = cli.filling /\ cli'.marred = cli.marred /\ cli'.todo = cli.todo \ {x}
<1>1. cli \in Commands
  BY AccessFacts
<1>2. QED
  BY <1>1 DEF Did, Commands

LEMMA SeedTypes ==
    ASSUME Typed,
           \/ \E p \in Rights : SeedRight(p) \/ DropRight(p)
           \/ \E r \in RoleNames : SyncRole(r) \/ ClearRole(r) \/ FillRole(r) \/ DropRole(r)
    PROVE  /\ right' \in [Rights -> Numbers] /\ role' \in [RoleNames -> RoleType]
           /\ rows' \in SUBSET UserRoles /\ cli' \in Commands
           /\ UNCHANGED <<chore, guard, commands, chores>>
           /\ cli'.op = cli.op /\ cli'.pc = cli.pc /\ cli'.marred = cli.marred
           /\ cli'.filling =>
                 /\ cli'.pc = "roles" /\ accessStore = "postgres" /\ cli'.todo # {}
                 /\ \A r \in RoleNames : IsNext(r)' => role'[r].made # 0
           /\ \A r \in RoleNames : role'[r].lists # {} => role'[r].made # 0
<1>0. /\ right \in [Rights -> Numbers] /\ role \in [RoleNames -> RoleType]
      /\ rows \in SUBSET UserRoles /\ cli \in Commands /\ commands \in Numbers \ {0}
      /\ \A r \in RoleNames : Found(r) \in SUBSET RightIds /\ MadeOr(r) \in Numbers \ {0}
      /\ 0 \in Numbers /\ AccessTypeOK /\ AccessFits
  BY AccessFacts, IdTypes, NumbersAre DEF Typed
<1>1. ASSUME NEW p \in Rights, SeedRight(p) PROVE right' \in [Rights -> Numbers]
  BY <1>0, <1>1 DEF SeedRight
<1>2. ASSUME NEW p \in Rights, DropRight(p)
      PROVE  /\ right' \in [Rights -> Numbers] /\ role' \in [RoleNames -> RoleType]
             /\ \A r \in RoleNames : role'[r].made = role[r].made
                                     /\ (role'[r].lists # {} => role[r].lists # {})
  <2>1. right' \in [Rights -> Numbers]
    BY <1>0, <1>2 DEF DropRight
  <2>2. CASE accessStore = "postgres"
    <3> DEFINE n(r) == [role[r] EXCEPT !.lists = {j \in @ : j[1] # p}]
    <3>1. role' = [r \in RoleNames |-> n(r)]
      BY <1>2, <2>2 DEF DropRight
    <3>2. ASSUME NEW r \in RoleNames
          PROVE  n(r) \in RoleType /\ n(r).made = role[r].made /\ n(r).lists \subseteq role[r].lists
      BY <1>0 DEF RoleType
    <3> HIDE DEF n
    <3>3. QED
      BY <2>1, <3>1, <3>2
  <2>3. CASE accessStore # "postgres"
    BY <1>0, <1>2, <2>1, <2>3 DEF DropRight
  <2>4. QED
    BY <2>2, <2>3
<1>3. ASSUME NEW r \in RoleNames, NEW c \in RoleType, role' = [role EXCEPT ![r] = c],
             c.lists # {} => c.made # 0
      PROVE  /\ role' \in [RoleNames -> RoleType]
             /\ \A q \in RoleNames : role'[q].lists # {} => role'[q].made # 0
  BY <1>0, <1>3 DEF AccessFits
<1>4. CASE \E p \in Rights : SeedRight(p)
  <2>1. PICK p \in Rights : SeedRight(p)
    BY <1>4
  <2>2. cli.pc = "rights" /\ ~cli.filling
    BY <1>0, <2>1 DEF SeedRight, AccessFits
  <2>3. QED
    BY <1>0, <1>1, <2>1, <2>2, DidTypes DEF SeedRight, AccessFits
<1>5. CASE \E p \in Rights : DropRight(p)
  <2>1. PICK p \in Rights : DropRight(p)
    BY <1>5
  <2>2. cli.pc = "drop rights" /\ ~cli.filling
    BY <1>0, <2>1 DEF DropRight, AccessFits
  <2>3. QED
    BY <1>0, <1>2, <2>1, <2>2, DidTypes DEF DropRight, AccessFits
<1>6. CASE \E r \in RoleNames : SyncRole(r)
  <2>1. PICK r \in RoleNames : SyncRole(r)
    BY <1>6
  <2> DEFINE c == [made |-> MadeOr(r), lists |-> Found(r)]
  <2>2. c \in RoleType /\ c.made # 0 /\ role' = [role EXCEPT ![r] = c]
    BY <1>0, <2>1 DEF SyncRole, RoleType
  <2>3. ~cli.filling
    BY <1>0, <2>1 DEF SyncRole, AccessFits
  <2> HIDE DEF c
  <2>4. QED
    BY <1>0, <1>3, <2>1, <2>2, <2>3, DidTypes DEF SyncRole
<1>7. CASE \E r \in RoleNames : ClearRole(r)
  <2>1. PICK r \in RoleNames : ClearRole(r)
    BY <1>7
  <2> DEFINE c == [made |-> MadeOr(r), lists |-> {}]
  <2>2. c \in RoleType /\ c.made # 0 /\ c.lists = {} /\ role' = [role EXCEPT ![r] = c]
    BY <1>0, <2>1 DEF ClearRole, RoleType
  <2> HIDE DEF c
  <2>3. /\ cli' \in Commands /\ cli'.op = cli.op /\ cli'.pc = cli.pc /\ cli'.marred = cli.marred
        /\ cli'.todo = cli.todo
    BY <1>0, <2>1 DEF ClearRole, Commands
  <2>4. r \in cli.todo /\ cli.pc = "roles" /\ accessStore = "postgres" /\ IsNext(r)
    BY <2>1 DEF ClearRole, IsNext
  <2>5. \A q \in RoleNames : IsNext(q)' => q = r
    BY <2>3, <2>4, OneIsNext DEF IsNext
  <2>6. role'[r].made # 0
    BY <1>0, <2>2
  <2>7. QED
    BY <1>0, <1>3, <2>1, <2>2, <2>3, <2>4, <2>5, <2>6 DEF ClearRole
<1>8. CASE \E r \in RoleNames : FillRole(r)
  <2>1. PICK r \in RoleNames : FillRole(r)
    BY <1>8
  <2> DEFINE c == [role[r] EXCEPT !.lists = @ \union Found(r)]
  <2>2. role[r].made # 0
    BY <1>0, <2>1 DEF FillRole, AccessFits
  <2>3. c \in RoleType /\ c.made = role[r].made
    BY <1>0 DEF RoleType
  <2>4. role' = [role EXCEPT ![r] = c]
    BY <2>1 DEF FillRole
  <2> HIDE DEF c
  <2>5. /\ cli' \in Commands /\ cli'.op = cli.op /\ cli'.pc = cli.pc /\ cli'.marred = cli.marred
        /\ ~cli'.filling
    BY <1>0, <2>1 DEF FillRole, Commands
  <2>6. QED
    BY <1>0, <1>3, <2>1, <2>2, <2>3, <2>4, <2>5 DEF FillRole
<1>9. CASE \E r \in RoleNames : DropRole(r)
  <2>1. PICK r \in RoleNames : DropRole(r)
    BY <1>9
  <2> DEFINE c == [made |-> 0, lists |-> {}]
  <2>2. c \in RoleType /\ c.lists = {} /\ role' = [role EXCEPT ![r] = c]
    BY <1>0, <2>1 DEF DropRole, RoleType
  <2>3. ~cli.filling
    BY <1>0, <2>1 DEF DropRole, AccessFits
  <2>4. rows' \in SUBSET UserRoles
    BY <1>0, <2>1 DEF DropRole
  <2> HIDE DEF c
  <2>5. QED
    BY <1>0, <1>3, <2>1, <2>2, <2>3, <2>4, DidTypes DEF DropRole
<1>10. QED
  BY <1>4, <1>5, <1>6, <1>7, <1>8, <1>9

\* The requests of administrators.
AdminChore ==
    \/ \E x \in Visitors, r \in RoleNames : StartGrant(x, r) \/ Revoke(x, r)
    \/ \E r \in RoleNames, p \in Rights : StartAdd(r, p)
    \/ \E r \in RoleNames, j \in RightIds : TakeAway(r, j)
    \/ WriteGrant \/ WriteAdd

LEMMA NewChoreFits == ASSUME AccessTypeOK, NewChore PROVE chores' \in 0..MaxChores
BY AccessAssumption DEF AccessTypeOK, NewChore

LEMMA MarsTypes ==
    ASSUME AccessTypeOK, Mars
    PROVE  /\ cli' \in Commands /\ cli'.op = cli.op /\ cli'.pc = cli.pc
           /\ cli'.filling = cli.filling /\ cli'.marred /\ cli'.todo = cli.todo
<1>1. cli \in Commands
  BY AccessFacts
<1>2. QED
  BY <1>1 DEF Mars, Commands

\* An administrator changes the lists and rows, never the names that exist.
LEMMA ChoreTypes ==
    ASSUME Typed, AdminChore
    PROVE  /\ role' \in [RoleNames -> RoleType] /\ rows' \in SUBSET UserRoles
           /\ chore' \in Chores /\ chores' \in 0..MaxChores /\ cli' \in Commands
           /\ UNCHANGED <<right, guard, commands>>
           /\ cli'.op = cli.op /\ cli'.pc = cli.pc /\ cli'.filling = cli.filling /\ cli'.todo = cli.todo
           /\ role' # role => cli'.marred
           /\ cli.marred => cli'.marred
           /\ \A r \in RoleNames : /\ role'[r].made = role[r].made
                                   /\ role'[r].lists # {} => role'[r].made # 0
<1>0. /\ role \in [RoleNames -> RoleType] /\ rows \in SUBSET UserRoles /\ cli \in Commands
      /\ AccessTypeOK /\ AccessFits /\ chores \in 0..MaxChores /\ chore \in Chores /\ NoChore \in Chores
  BY AccessFacts, NoRequestTypes DEF Typed, AccessTypeOK
<1>1. CASE \E x \in Visitors, r \in RoleNames : StartGrant(x, r)
  <2>1. PICK x \in Visitors, r \in RoleNames : StartGrant(x, r)
    BY <1>1
  <2>2. RoleId(r) \in RoleIds
    BY <1>0, <2>1, IdTypes DEF StartGrant
  <2>3. chore' \in Chores
    BY <2>1, <2>2 DEF StartGrant, Chores
  <2>4. QED
    BY <1>0, <2>1, <2>3, NewChoreFits DEF StartGrant, AccessFits
<1>2. CASE \E x \in Visitors, r \in RoleNames : Revoke(x, r)
  <2>1. PICK x \in Visitors, r \in RoleNames : Revoke(x, r)
    BY <1>2
  <2>2. PICK w \in rows : rows' = (rows \ {w}) \union {[w EXCEPT !.active = FALSE]}
    BY <2>1 DEF Revoke
  <2>3. [w EXCEPT !.active = FALSE] \in UserRoles
    BY <1>0, <2>2 DEF UserRoles
  <2>4. rows' \in SUBSET UserRoles
    BY <1>0, <2>2, <2>3
  <2>5. QED
    BY <1>0, <2>1, <2>4, NewChoreFits DEF Revoke, AccessFits
<1>3. CASE \E r \in RoleNames, p \in Rights : StartAdd(r, p)
  <2>1. PICK r \in RoleNames, p \in Rights : StartAdd(r, p)
    BY <1>3
  <2>2. RoleId(r) \in RoleIds /\ RightId(p) \in RightIds
    BY <1>0, <2>1, IdTypes DEF StartAdd
  <2>3. chore' \in Chores
    BY <2>1, <2>2 DEF StartAdd, Chores
  <2>4. QED
    BY <1>0, <2>1, <2>3, NewChoreFits DEF StartAdd, AccessFits
<1>4. CASE \E r \in RoleNames, j \in RightIds : TakeAway(r, j)
  <2>1. PICK r \in RoleNames, j \in RightIds : TakeAway(r, j)
    BY <1>4
  <2> DEFINE c == [role[r] EXCEPT !.lists = @ \ {j}]
  <2>2. c \in RoleType /\ c.made = role[r].made /\ role[r].made # 0
    BY <1>0, <2>1 DEF TakeAway, RoleType
  <2>3. role' = [role EXCEPT ![r] = c]
    BY <2>1 DEF TakeAway
  <2> HIDE DEF c
  <2>4. /\ role' \in [RoleNames -> RoleType]
        /\ \A q \in RoleNames : /\ role'[q].made = role[q].made
                                /\ role'[q].lists # {} => role'[q].made # 0
    BY <1>0, <2>2, <2>3 DEF AccessFits
  <2>5. Mars
    BY <2>1 DEF TakeAway
  <2>6. QED
    BY <1>0, <2>1, <2>4, <2>5, MarsTypes, NewChoreFits DEF TakeAway
<1>5. CASE WriteGrant
  <2>1. chore.person \in Visitors /\ chore.role \in RoleIds
    BY <1>0, <1>5, AccessFacts DEF WriteGrant
  <2>2. [person |-> chore.person, role |-> chore.role, active |-> TRUE] \in UserRoles
    BY <2>1 DEF UserRoles
  <2>3. rows' \in SUBSET UserRoles
    BY <1>0, <1>5, <2>2 DEF WriteGrant
  <2>4. QED
    BY <1>0, <1>5, <2>3 DEF WriteGrant, AccessFits
<1>6. CASE WriteAdd
  <2> DEFINE r == chore.role[1]
             c == [role[r] EXCEPT !.lists = @ \union {chore.right}]
  <2>1. chore.role \in RoleIds /\ chore.right \in RightIds
    BY <1>0, <1>6, AccessFacts DEF WriteAdd
  <2>2. r \in RoleNames /\ chore.role[2] # 0
    BY <2>1 DEF RoleIds
  <2>3. c \in RoleType /\ c.made = role[r].made
    BY <1>0, <2>1, <2>2 DEF RoleType
  <2>4. \/ role' = role
        \/ role' = [role EXCEPT ![r] = c] /\ role[r].made # 0
    BY <1>6, <2>2 DEF WriteAdd, RoleExists
  <2>5. Mars
    BY <1>6 DEF WriteAdd
  <2> HIDE DEF c, r
  <2>6. /\ role' \in [RoleNames -> RoleType]
        /\ \A q \in RoleNames : /\ role'[q].made = role[q].made
                                /\ role'[q].lists # {} => role'[q].made # 0
    BY <1>0, <2>2, <2>3, <2>4 DEF AccessFits
  <2>7. QED
    BY <1>0, <1>6, <2>5, <2>6, MarsTypes DEF WriteAdd
<1>7. QED
  BY <1>1, <1>2, <1>3, <1>4, <1>5, <1>6 DEF AdminChore

\* A check.
Check ==
    \/ \E x \in Visitors : StartGuard(x)
    \/ ReadRows \/ Decide
    \/ \E i \in RoleIds : ReadRole(i)
    \/ \E j \in RightIds : ReadRight(j)

LEMMA GuardFacts ==
    ASSUME AccessTypeOK
    PROVE  /\ guard \in Guards /\ guard.person \in SUBSET Visitors /\ guard.roles \in SUBSET RoleIds
           /\ guard.ids \in SUBSET RightIds /\ guard.names \in SUBSET Rights
           /\ guard.pc \in {"idle", "rows", "roles", "rights"}
<1>1. guard \in Guards
  BY AccessFacts
<1>2. QED
  BY <1>1 DEF Guards

LEMMA JudgedTypes ==
    ASSUME NEW v \in BOOLEAN, Judged(v)
    PROVE  guard' \in Guards /\ guard'.pc = "idle" /\ guard'.admits = v
BY DEF Judged, NoGuard, Guards

LEMMA RefusedTypes == Judged(FALSE) => guard' \in Guards /\ guard'.pc = "idle" /\ ~guard'.admits
BY DEF Judged, NoGuard, Guards

LEMMA CheckTypes ==
    ASSUME Typed, Check
    PROVE  guard' \in Guards /\ NotCommand
<1>0. guard \in Guards /\ AccessTypeOK
  BY AccessFacts DEF Typed
<1>1. CASE \E x \in Visitors : StartGuard(x)
  <2>1. PICK x \in Visitors : StartGuard(x)
    BY <1>1
  <2>2. /\ guard' = [pc |-> "rows", person |-> {x}, roles |-> {}, ids |-> {}, names |-> {},
                     admits |-> FALSE]
        /\ NotCommand
    BY <2>1 DEF StartGuard, NoGuard
  <2>3. QED
    BY <2>2 DEF Guards
<1>2. CASE ReadRows
  <2> DEFINE ids == {w.role : w \in ActiveRows(guard.person)}
  <2>1. ids \in SUBSET RoleIds
    BY <1>0, AccessFacts DEF ActiveRows, UserRoles
  <2>2. NotCommand /\ (Judged(FALSE) \/ guard' = [guard EXCEPT !.pc = "roles", !.roles = ids])
    BY <1>2 DEF ReadRows
  <2> HIDE DEF ids
  <2>3. QED
    BY <1>0, <2>1, <2>2, RefusedTypes DEF Guards
<1>3. CASE Decide
  <2>1. Judged(Wanted \in guard.names) /\ NotCommand /\ (Wanted \in guard.names) \in BOOLEAN
    BY <1>3 DEF Decide
  <2>2. QED
    BY <2>1, JudgedTypes
<1>4. CASE \E i \in RoleIds : ReadRole(i)
  <2>1. PICK i \in RoleIds : ReadRole(i)
    BY <1>4
  <2> DEFINE lists == {j \in role[i[1]].lists : accessStore = "mongo" => RightExists(j)}
  <2>2. lists \in SUBSET RightIds
    <3>1. i[1] \in RoleNames
      BY DEF RoleIds
    <3>2. QED
      BY <1>0, <3>1, AccessFacts
  <2>3. /\ NotCommand
        /\ \/ Judged(FALSE)
           \/ guard' = [guard EXCEPT !.roles = @ \ {i}, !.ids = @ \union lists,
                                     !.pc = IF guard.roles = {i} THEN "rights" ELSE @]
    BY <2>1 DEF ReadRole
  <2> HIDE DEF lists
  <2>4. QED
    <3>1. CASE Judged(FALSE)
      BY <2>3, <3>1, RefusedTypes
    <3>2. ASSUME NEW pc \in {guard.pc, "rights"},
                 guard' = [guard EXCEPT !.roles = @ \ {i}, !.ids = @ \union lists, !.pc = pc]
          PROVE  guard' \in Guards
      BY <1>0, <2>2, <3>2 DEF Guards
    <3>3. QED
      BY <2>3, <3>1, <3>2
<1>5. CASE \E j \in RightIds : ReadRight(j)
  <2>1. PICK j \in RightIds : ReadRight(j)
    BY <1>5
  <2>2. j[1] \in Rights
    BY DEF RightIds
  <2>3. /\ NotCommand
        /\ \/ Judged(FALSE)
           \/ guard' = [guard EXCEPT !.ids = @ \ {j}, !.names = @ \union {j[1]}]
    BY <2>1 DEF ReadRight
  <2>4. CASE guard' = [guard EXCEPT !.ids = @ \ {j}, !.names = @ \union {j[1]}]
    BY <1>0, <2>2, <2>3, <2>4 DEF Guards
  <2>5. QED
    BY <2>3, <2>4, RefusedTypes
<1>6. QED
  BY <1>1, <1>2, <1>3, <1>4, <1>5 DEF Check

Commanded ==
    \/ StartSeed \/ StartRollback \/ RightsSeeded \/ RolesDropped
    \/ SeedEnds \/ RollbackEnds \/ CommandStops
    \/ \E x \in RoleNames \union Rights : PassOver(x)
Applied ==
    \/ \E p \in Rights : SeedRight(p) \/ DropRight(p)
    \/ \E r \in RoleNames : SyncRole(r) \/ ClearRole(r) \/ FillRole(r) \/ DropRole(r)

LEMMA AccessStepIs == AccessStep => Commanded \/ Applied \/ AdminChore \/ Check
BY DEF AccessStep, Commanded, Applied, AdminChore, Check

LEMMA TypedNext == Typed /\ [AccessNext]_accessVars => Typed'
<1> SUFFICES ASSUME Typed, [AccessNext]_accessVars PROVE Typed'
  OBVIOUS
<1>0. AccessTypeOK /\ AccessFits
  BY DEF Typed
<1>1. CASE UNCHANGED accessVars
  BY <1>0, <1>1 DEF accessVars, Typed, AccessTypeOK, AccessFits, IsNext
<1>2. CASE AccessNext
  <2>1. accessStore' = accessStore /\ accessStore \in AccessStores
    BY <1>0, <1>2 DEF AccessNext, Watches, AccessTypeOK
  <2>2. /\ right' \in [Rights -> Numbers] /\ role' \in [RoleNames -> RoleType]
        /\ rows' \in SUBSET UserRoles /\ cli' \in Commands /\ chore' \in Chores /\ guard' \in Guards
        /\ commands' \in 1..MaxCommands /\ chores' \in 0..MaxChores
        /\ cli'.pc \in {"rights", "roles"} => cli'.op = "seed"
        /\ cli'.pc \in {"drop roles", "drop rights"} => cli'.op = "rollback"
        /\ cli'.filling =>
              /\ cli'.pc = "roles" /\ accessStore = "postgres" /\ cli'.todo # {}
              /\ \A r \in RoleNames : IsNext(r)' => role'[r].made # 0
        /\ \A r \in RoleNames : role'[r].lists # {} => role'[r].made # 0
    <3>0. /\ right \in [Rights -> Numbers] /\ role \in [RoleNames -> RoleType]
          /\ rows \in SUBSET UserRoles /\ cli \in Commands /\ chore \in Chores /\ guard \in Guards
          /\ commands \in 1..MaxCommands /\ chores \in 0..MaxChores
      BY <1>0, AccessFacts DEF AccessTypeOK
    <3>1. CASE Commanded
      <4>1. /\ UNCHANGED <<right, role, rows, chore, guard, chores>>
            /\ cli' \in Commands /\ commands' \in 1..MaxCommands /\ ~cli'.filling
            /\ cli'.pc \in {"rights", "roles"} => cli'.op = "seed"
            /\ cli'.pc \in {"drop roles", "drop rights"} => cli'.op = "rollback"
        BY <3>1, CommandTypes DEF Commanded
      <4>2. QED
        BY <1>0, <3>0, <4>1 DEF AccessFits
    <3>2. CASE Applied
      <4>1. /\ right' \in [Rights -> Numbers] /\ role' \in [RoleNames -> RoleType]
            /\ rows' \in SUBSET UserRoles /\ cli' \in Commands
            /\ UNCHANGED <<chore, guard, commands, chores>>
            /\ cli'.op = cli.op /\ cli'.pc = cli.pc
            /\ cli'.filling =>
                  /\ cli'.pc = "roles" /\ accessStore = "postgres" /\ cli'.todo # {}
                  /\ \A r \in RoleNames : IsNext(r)' => role'[r].made # 0
            /\ \A r \in RoleNames : role'[r].lists # {} => role'[r].made # 0
        BY <3>2, SeedTypes DEF Applied
      <4>2. QED
        BY <1>0, <3>0, <4>1 DEF AccessFits
    <3>3. CASE AdminChore
      <4>1. \A r \in RoleNames : IsNext(r)' <=> IsNext(r)
        BY <3>3, ChoreTypes DEF IsNext
      <4>2. QED
        BY <1>0, <3>0, <3>3, <4>1, ChoreTypes DEF AccessFits
    <3>4. CASE Check
      <4>1. guard' \in Guards /\ UNCHANGED <<right, role, rows, cli, chore, commands, chores>>
        BY <3>4, CheckTypes DEF NotCommand
      <4>2. \A r \in RoleNames : IsNext(r)' <=> IsNext(r)
        BY <4>1 DEF IsNext
      <4>3. QED
        BY <1>0, <3>0, <4>1, <4>2 DEF AccessFits
    <3>5. QED
      BY <1>2, <3>1, <3>2, <3>3, <3>4, AccessStepIs DEF AccessNext
  <2>3. watch' \in Sights
    <3>1. Sight' \in Sights
      BY <2>2, SightType
    <3>2. watch \in Sights
      BY <1>0 DEF AccessTypeOK
    <3>3. \A s \in Sights : Along(watch, s) \in Sights
      BY <3>2 DEF Along, Sights
    <3>4. Along(watch, Sight') \in Sights
      BY <3>1, <3>3
    <3>5. watch' = NoSight \/ watch' = Sight' \/ watch' = Along(watch, Sight')
      BY <1>2 DEF AccessNext, Watches
    <3>6. QED
      BY <3>1, <3>4, <3>5, NoRequestTypes
  <2>4. QED
    BY <2>1, <2>2, <2>3 DEF Typed, AccessTypeOK, AccessFits, RoleType
<1>3. QED
  BY <1>1, <1>2

LEMMA TypedInit == AccessInit => Typed
<1> SUFFICES ASSUME AccessInit PROVE Typed
  OBVIOUS
<1>1. \A r \in RoleNames : role[r].lists # {} => role[r].made # 0
  <2>1. CASE role = [r \in RoleNames |-> [made |-> 0, lists |-> {}]]
    BY <2>1
  <2>2. CASE role = [r \in RoleNames |-> [made |-> 1, lists |-> {<<p, 1>> : p \in Listed(r)}]]
    BY <2>2
  <2>3. QED
    BY <2>1, <2>2 DEF AccessInit
<1>2. cli.pc = "idle" /\ ~cli.filling
  BY DEF AccessInit, NoCommand
<1>3. QED
  BY <1>1, <1>2, AccessTypingInit DEF Typed, AccessFits

\* Every reachable state of Access is well typed: rows, lists, requests and the history name
\* ids that some command has made.
THEOREM AccessTyping == AccessSpec => []AccessTypeOK
<1>1. AccessSpec => []Typed
  BY TypedInit, TypedNext, PTL DEF AccessSpec
<1>2. Typed => AccessTypeOK
  BY DEF Typed
<1>3. QED
  BY <1>1, <1>2, PTL

-----------------------------------------------------------------------------
(***************************************************************************)
(* Access: what a seed that nothing disturbed has done so far.  It never   *)
(* takes a permission away, so those it has passed are there to stay, and  *)
(* the roles it has passed list exactly theirs.                            *)
(***************************************************************************)
Granted(r) == {RightId(p) : p \in Listed(r)}
AllRights == \A p \in Rights : right[p] # 0
Given(r) == role[r].made # 0 /\ role[r].lists = Granted(r)

RightsSoFar == cli.pc = "rights" => \A p \in Rights \ cli.todo : right[p] # 0
RolesSoFar == cli.pc = "roles" => AllRights /\ \A r \in RoleNames \ cli.todo : Given(r)
RoleInHand == cli.filling => \A r \in RoleNames : IsNext(r) => role[r].lists = {}
Seeded == cli.pc = "idle" => AllRights /\ \A r \in RoleNames : Given(r)

SeedSoFar == RightsSoFar /\ RolesSoFar /\ RoleInHand /\ Seeded

Seeding == cli.op = "seed" /\ ~cli.marred
SeedInv == Typed /\ (Seeding => SeedSoFar)

\* Once every permission is there a role finds all it lists.
LEMMA FindsAll ==
    ASSUME AllRights, NEW r \in RoleNames PROVE Found(r) = Granted(r)
<1>1. \A q \in Listed(r) : right[q] # 0
  BY ListedAreRights DEF AllRights
<1>2. {q \in Listed(r) : right[q] # 0} = Listed(r)
  BY <1>1
<1>3. QED
  BY <1>2 DEF Found, Granted

\* Where permissions and roles stay, what was given stays given.
LEMMA GivenStays ==
    ASSUME UNCHANGED right, NEW r \in RoleNames, role'[r] = role[r]
    PROVE  Given(r)' <=> Given(r)
BY DEF Given, Granted, RightId

\* A step of the database command.
LEMMA CommandKeepsSeed ==
    ASSUME SeedInv, Commanded, Seeding' PROVE SeedSoFar'
<1>0. Typed /\ (Seeding => SeedSoFar) /\ cli \in Commands /\ UNCHANGED <<right, role>> /\ ~cli'.filling
  <2>1. Typed /\ (Seeding => SeedSoFar)
    BY DEF SeedInv
  <2>2. UNCHANGED <<right, role>> /\ ~cli'.filling
    BY <2>1, CommandTypes DEF Commanded
  <2>3. QED
    BY <2>1, <2>2, AccessFacts DEF Typed
<1>1. AllRights' <=> AllRights
  BY <1>0 DEF AllRights
<1>2. \A r \in RoleNames : Given(r)' <=> Given(r)
  BY <1>0, GivenStays
<1>3. CASE StartSeed
  <2>1. cli'.pc = "rights" /\ cli'.todo = Rights
    BY <1>3 DEF StartSeed, NewCommand, NoCommand
  <2>2. QED
    BY <1>0, <2>1 DEF SeedSoFar, RightsSoFar, RolesSoFar, RoleInHand, Seeded
<1>4. CASE StartRollback
  BY <1>4 DEF StartRollback, NewCommand, NoCommand, Seeding
<1>5. CASE RightsSeeded
  <2>1. cli' = [cli EXCEPT !.pc = "roles", !.todo = RoleNames] /\ cli.pc = "rights" /\ cli.todo = {}
    BY <1>5 DEF RightsSeeded, NextSeed
  <2>2. cli'.pc = "roles" /\ cli'.todo = RoleNames /\ Seeding
    BY <1>0, <2>1 DEF Commands, Seeding
  <2>3. AllRights
    BY <1>0, <2>1, <2>2 DEF SeedSoFar, RightsSoFar, AllRights
  <2>4. QED
    BY <1>0, <1>1, <2>2, <2>3 DEF SeedSoFar, RightsSoFar, RolesSoFar, RoleInHand, Seeded
<1>6. CASE RolesDropped
  <2>1. cli' = [cli EXCEPT !.pc = "drop rights", !.todo = Rights] /\ cli.pc = "drop roles"
    BY <1>6 DEF RolesDropped, NextSeed
  <2>2. cli'.op = "rollback"
    BY <1>0, <2>1 DEF Commands, Typed, AccessFits
  <2>3. QED
    BY <2>2 DEF Seeding
<1>7. CASE SeedEnds
  <2>1. cli' = [cli EXCEPT !.pc = "idle"] /\ cli.pc = "roles" /\ cli.todo = {}
    BY <1>7 DEF SeedEnds, EndCommand
  <2>2. cli'.pc = "idle" /\ Seeding
    BY <1>0, <2>1 DEF Commands, Seeding
  <2>3. AllRights /\ \A r \in RoleNames : Given(r)
    BY <1>0, <2>1, <2>2 DEF SeedSoFar, RolesSoFar
  <2>4. QED
    BY <1>0, <1>1, <1>2, <2>2, <2>3 DEF SeedSoFar, RightsSoFar, RolesSoFar, RoleInHand, Seeded
<1>8. CASE RollbackEnds
  <2>1. cli' = [cli EXCEPT !.pc = "idle"] /\ cli.pc = "drop rights"
    BY <1>8 DEF RollbackEnds, EndCommand
  <2>2. cli'.op = "rollback"
    BY <1>0, <2>1 DEF Commands, Typed, AccessFits
  <2>3. QED
    BY <2>2 DEF Seeding
<1>9. CASE CommandStops
  BY <1>9 DEF CommandStops, NoCommand, Seeding
<1>10. CASE \E x \in RoleNames \union Rights : PassOver(x)
  <2>1. PICK x \in RoleNames \union Rights : PassOver(x)
    BY <1>10
  <2>2. cli'.marred
    BY <1>0, <2>1 DEF PassOver, Commands
  <2>3. QED
    BY <2>2 DEF Seeding
<1>11. QED
  BY <1>3, <1>4, <1>5, <1>6, <1>7, <1>8, <1>9, <1>10 DEF Commanded

\* A write of the database command.
LEMMA WriteKeepsSeed ==
    ASSUME SeedInv, Applied, Seeding' PROVE SeedSoFar'
<1>0. /\ Typed /\ AccessTypeOK /\ AccessFits /\ cli \in Commands
      /\ right \in [Rights -> Numbers] /\ role \in [RoleNames -> RoleType] /\ commands \in Numbers \ {0}
      /\ cli'.op = cli.op /\ cli'.pc = cli.pc /\ cli'.marred = cli.marred
  <2>1. Typed /\ AccessTypeOK /\ AccessFits
    BY DEF SeedInv, Typed
  <2>2. cli'.op = cli.op /\ cli'.pc = cli.pc /\ cli'.marred = cli.marred
    BY <2>1, SeedTypes DEF Applied
  <2>3. QED
    BY <2>1, <2>2, AccessFacts
<1>1. Seeding /\ SeedSoFar
  BY <1>0 DEF Seeding, SeedInv
<1>2. CASE \E p \in Rights : SeedRight(p)
  <2>1. PICK p \in Rights : SeedRight(p)
    BY <1>2
  <2>2. cli.pc = "rights" /\ cli'.todo = cli.todo \ {p} /\ ~cli'.filling
    BY <1>0, <2>1, DidTypes DEF SeedRight, AccessFits
  <2>3. right'[p] # 0 /\ \A q \in Rights : right[q] # 0 => right'[q] # 0
    BY <1>0, <2>1 DEF SeedRight
  <2>4. \A q \in Rights \ cli'.todo : right'[q] # 0
    BY <1>1, <2>2, <2>3 DEF SeedSoFar, RightsSoFar
  <2>5. QED
    BY <1>0, <2>2, <2>4 DEF SeedSoFar, RightsSoFar, RolesSoFar, RoleInHand, Seeded
<1>3. CASE \E p \in Rights : DropRight(p)
  <2>1. cli.op = "rollback"
    BY <1>0, <1>3 DEF DropRight, AccessFits
  <2>2. QED
    BY <1>1, <2>1 DEF Seeding
<1>4. CASE \E r \in RoleNames : DropRole(r)
  <2>1. cli.op = "rollback"
    BY <1>0, <1>4 DEF DropRole, AccessFits
  <2>2. QED
    BY <1>1, <2>1 DEF Seeding
<1>5. ASSUME NEW r \in RoleNames, cli.pc = "roles", UNCHANGED right,
             \A q \in RoleNames : q # r => role'[q] = role[q]
      PROVE  AllRights /\ AllRights' /\ \A q \in RoleNames \ cli.todo : q # r => Given(q)'
  <2>1. AllRights /\ \A q \in RoleNames \ cli.todo : Given(q)
    BY <1>1, <1>5 DEF SeedSoFar, RolesSoFar
  <2>2. AllRights'
    BY <1>5, <2>1 DEF AllRights
  <2>3. \A q \in RoleNames : q # r => (Given(q)' <=> Given(q))
    BY <1>5, GivenStays
  <2>4. QED
    BY <2>1, <2>2, <2>3
<1>6. CASE \E r \in RoleNames : SyncRole(r)
  <2>1. PICK r \in RoleNames : SyncRole(r)
    BY <1>6
  <2>2. cli.pc = "roles" /\ cli'.todo = cli.todo \ {r} /\ ~cli'.filling /\ UNCHANGED right
    BY <1>0, <2>1, DidTypes DEF SyncRole, AccessFits
  <2>3. /\ \A q \in RoleNames : q # r => role'[q] = role[q]
        /\ role'[r] = [made |-> MadeOr(r), lists |-> Found(r)]
    BY <1>0, <2>1 DEF SyncRole
  <2>4. AllRights /\ AllRights' /\ \A q \in RoleNames \ cli.todo : q # r => Given(q)'
    BY <1>5, <2>2, <2>3
  <2>5. Given(r)'
    <3>1. Found(r) = Granted(r) /\ MadeOr(r) # 0
      BY <1>0, <2>4, FindsAll, IdTypes
    <3>2. Granted(r)' = Granted(r)
      BY <2>2 DEF Granted, RightId
    <3>3. QED
      BY <2>3, <3>1, <3>2 DEF Given
  <2>6. \A q \in RoleNames \ cli'.todo : Given(q)'
    BY <2>2, <2>4, <2>5
  <2>7. QED
    BY <1>0, <2>2, <2>4, <2>6 DEF SeedSoFar, RightsSoFar, RolesSoFar, RoleInHand, Seeded
<1>7. CASE \E r \in RoleNames : ClearRole(r)
  <2>1. PICK r \in RoleNames : ClearRole(r)
    BY <1>7
  <2>2. cli.pc = "roles" /\ cli'.todo = cli.todo /\ IsNext(r) /\ UNCHANGED right
    BY <1>0, <2>1 DEF ClearRole, Commands
  <2>3. /\ \A q \in RoleNames : q # r => role'[q] = role[q]
        /\ role'[r] = [made |-> MadeOr(r), lists |-> {}]
    BY <1>0, <2>1 DEF ClearRole
  <2>4. AllRights' /\ \A q \in RoleNames \ cli.todo : q # r => Given(q)'
    BY <1>5, <2>2, <2>3
  <2>5. r \in cli.todo /\ \A q \in RoleNames : IsNext(q)' => q = r
    BY <2>2, OneIsNext DEF IsNext
  <2>6. \A q \in RoleNames : IsNext(q)' => role'[q].lists = {}
    BY <2>3, <2>5
  <2>7. \A q \in RoleNames \ cli'.todo : Given(q)'
    BY <2>2, <2>4, <2>5
  <2>8. QED
    BY <1>0, <2>2, <2>4, <2>6, <2>7 DEF SeedSoFar, RightsSoFar, RolesSoFar, RoleInHand, Seeded
<1>8. CASE \E r \in RoleNames : FillRole(r)
  <2>1. PICK r \in RoleNames : FillRole(r)
    BY <1>8
  <2>2. /\ cli.pc = "roles" /\ cli.filling /\ cli'.todo = cli.todo \ {r} /\ ~cli'.filling
        /\ IsNext(r) /\ UNCHANGED right
    BY <1>0, <2>1 DEF FillRole, Commands
  <2>3. \A q \in RoleNames : q # r => role'[q] = role[q]
    BY <1>0, <2>1 DEF FillRole
  <2>4. AllRights /\ AllRights' /\ \A q \in RoleNames \ cli.todo : q # r => Given(q)'
    BY <1>5, <2>2, <2>3
  <2>5. Given(r)'
    <3>1. role[r].made # 0 /\ role[r].lists = {}
      BY <1>0, <1>1, <2>2 DEF AccessFits, SeedSoFar, RoleInHand
    <3>2. role'[r] = [role[r] EXCEPT !.lists = role[r].lists \union Found(r)] /\ role[r] \in RoleType
      BY <1>0, <2>1 DEF FillRole
    <3>3. role'[r].made = role[r].made /\ role'[r].lists = Found(r)
      BY <3>1, <3>2 DEF RoleType
    <3>4. Found(r) = Granted(r) /\ Granted(r)' = Granted(r)
      BY <2>2, <2>4, FindsAll DEF Granted, RightId
    <3>5. QED
      BY <3>1, <3>3, <3>4 DEF Given
  <2>6. \A q \in RoleNames \ cli'.todo : Given(q)'
    BY <2>2, <2>4, <2>5
  <2>7. QED
    BY <1>0, <2>2, <2>4, <2>6 DEF SeedSoFar, RightsSoFar, RolesSoFar, RoleInHand, Seeded
<1>9. QED
  BY <1>2, <1>3, <1>4, <1>6, <1>7, <1>8 DEF Applied

\* Whoever leaves permissions, roles and the command alone leaves the seed's work alone.
LEMMA SeedUntouched ==
    ASSUME UNCHANGED <<right, role>>, cli'.op = cli.op, cli'.pc = cli.pc, cli'.todo = cli.todo,
           cli'.filling = cli.filling, SeedSoFar
    PROVE  SeedSoFar'
<1>1. AllRights' <=> AllRights
  BY DEF AllRights
<1>2. \A r \in RoleNames : Given(r)' <=> Given(r)
  BY GivenStays
<1>3. \A r \in RoleNames : IsNext(r)' <=> IsNext(r)
  BY DEF IsNext
<1>4. QED
  BY <1>1, <1>2, <1>3 DEF SeedSoFar, RightsSoFar, RolesSoFar, RoleInHand, Seeded

LEMMA SeedInvNext == SeedInv /\ [AccessNext]_accessVars => SeedInv'
<1> SUFFICES ASSUME SeedInv, [AccessNext]_accessVars PROVE SeedInv'
  OBVIOUS
<1>1. Typed /\ Typed'
  BY TypedNext DEF SeedInv
<1>2. ASSUME Seeding' PROVE SeedSoFar'
  <2>1. CASE Commanded
    BY <1>2, <2>1, CommandKeepsSeed
  <2>2. CASE Applied
    BY <1>2, <2>2, WriteKeepsSeed
  <2>3. CASE AdminChore
    <3>1. /\ UNCHANGED right /\ cli'.op = cli.op /\ cli'.pc = cli.pc
          /\ cli'.filling = cli.filling /\ cli'.todo = cli.todo
          /\ role' # role => cli'.marred
          /\ cli.marred => cli'.marred
      BY <1>1, <2>3, ChoreTypes
    <3>2. Seeding /\ role' = role /\ SeedSoFar
      BY <1>2, <3>1 DEF Seeding, SeedInv
    <3>3. QED
      BY <3>1, <3>2, SeedUntouched
  <2>4. CASE Check
    <3>1. UNCHANGED <<right, role, cli>>
      BY <1>1, <2>4, CheckTypes DEF NotCommand
    <3>2. SeedSoFar
      BY <1>2, <3>1 DEF Seeding, SeedInv
    <3>3. QED
      BY <3>1, <3>2, SeedUntouched
  <2>5. CASE UNCHANGED accessVars
    <3>1. UNCHANGED <<right, role, cli>>
      BY <2>5 DEF accessVars
    <3>2. SeedSoFar
      BY <1>2, <3>1 DEF Seeding, SeedInv
    <3>3. QED
      BY <3>1, <3>2, SeedUntouched
  <2>6. QED
    BY <2>1, <2>2, <2>3, <2>4, <2>5, AccessStepIs DEF AccessNext
<1>3. QED
  BY <1>1, <1>2 DEF SeedInv

\* SeedRestores (database/seeds: PermissionSeed, RoleSeed): whatever earlier seeds and rollbacks
\* left half done, a seed that ends unharmed gives every role exactly the permissions listed.
THEOREM SeedsRestore == AccessSpec => []SeedRestores
<1>1. AccessInit => SeedInv
  <2>1. AccessInit => ~Seeding
    BY DEF AccessInit, NoCommand, Seeding
  <2>2. QED
    BY <2>1, TypedInit DEF SeedInv
<1>2. AccessSpec => []SeedInv
  BY <1>1, SeedInvNext, PTL DEF AccessSpec
<1>3. SeedInv => SeedRestores
  <2> SUFFICES ASSUME SeedInv, cli.op = "seed", cli.pc = "idle", ~cli.marred, NEW r \in RoleNames
               PROVE  /\ role[r].made # 0
                      /\ role[r].lists = {RightId(p) : p \in Listed(r)}
                      /\ \A p \in Listed(r) : right[p] # 0
    BY DEF SeedRestores
  <2>1. AllRights /\ Given(r)
    BY DEF SeedInv, Seeding, SeedSoFar, Seeded
  <2>2. QED
    BY <2>1, ListedAreRights DEF AllRights, Given, Granted
<1>4. QED
  BY <1>2, <1>3, PTL

-----------------------------------------------------------------------------
(***************************************************************************)
(* Access: a check beside everything else.  What the history knows, what   *)
(* the check has read and what is still there fit together at every step.  *)
(***************************************************************************)
\* PostgreSQL's foreign keys: what a role lists exists.
ForeignKeys ==
    accessStore = "postgres" => \A r \in RoleNames : \A j \in role[r].lists : RightExists(j)

\* The history knows what is so now.
WatchesNow ==
    /\ watch.carriers \subseteq Worn \intersect Offers
    /\ watch.calm => cli.op # "rollback" /\ \A i \in Worn : RoleExists(i)
    /\ Worn \subseteq watch.worn /\ Offers \subseteq watch.offers

\* What a check has read at each place, and that the user had the roles still to be read.
ReadSoFar ==
    /\ guard.pc = "rows" => guard.roles = {} /\ guard.ids = {} /\ guard.names = {}
    /\ guard.pc = "rights" => guard.roles = {}
    /\ guard.roles \subseteq watch.worn

\* The permission is only found through a role of the user that listed it.
Earned ==
    Wanted \in guard.names \/ (\E j \in guard.ids : j[1] = Wanted)
        => watch.worn \intersect watch.offers # {}

\* While nothing is rolled back, what is still to be read is there.
StillThere ==
    watch.calm => /\ \A i \in guard.roles : RoleExists(i)
                  /\ \A j \in guard.ids : RightExists(j)

\* Whoever had the permission all along has it on the way to the verdict.
OnTheWay ==
    watch.calm /\ guard.pc # "rows" =>
        \A c \in watch.carriers :
            c \in guard.roles \/ RightId(Wanted) \in guard.ids \/ Wanted \in guard.names

Asked == WatchesNow /\ ReadSoFar /\ Earned /\ StillThere /\ OnTheWay

CheckInv == Typed /\ ForeignKeys /\ (guard.pc # "idle" => Asked)

LEMMA RightIdFacts ==
    ASSUME NEW j \in RightIds PROVE j[1] \in Rights /\ j[2] # 0 /\ j = <<j[1], j[2]>>
BY DEF RightIds

LEMMA RoleIdFacts ==
    ASSUME NEW i \in RoleIds PROVE i[1] \in RoleNames /\ i[2] # 0 /\ i = <<i[1], i[2]>>
BY DEF RoleIds

\* What the roles list now existed before, and still does.
LEMMA ForeignKeysNext == Typed /\ ForeignKeys /\ [AccessNext]_accessVars => ForeignKeys'
<1> SUFFICES ASSUME Typed, ForeignKeys, [AccessNext]_accessVars, accessStore' = "postgres"
             PROVE  \A r \in RoleNames : \A j \in role'[r].lists : right'[j[1]] = j[2]
  BY DEF ForeignKeys, RightExists
<1>0. /\ AccessTypeOK /\ AccessFits /\ accessStore = "postgres"
      /\ right \in [Rights -> Numbers] /\ role \in [RoleNames -> RoleType]
      /\ \A r \in RoleNames : role[r].lists \in SUBSET RightIds
      /\ \A r \in RoleNames : \A j \in role[r].lists : right[j[1]] = j[2]
  <2>1. AccessTypeOK /\ AccessFits
    BY DEF Typed
  <2>2. accessStore = "postgres"
    BY DEF AccessNext, Watches, accessVars
  <2>3. QED
    BY <2>1, <2>2, AccessFacts DEF ForeignKeys, RightExists
<1>1. ASSUME UNCHANGED <<right, role>>
      PROVE  \A r \in RoleNames : \A j \in role'[r].lists : right'[j[1]] = j[2]
  BY <1>0, <1>1
<1>2. ASSUME UNCHANGED right, \A q \in RoleNames : \A j \in role'[q].lists : j \in role[q].lists \/ RightExists(j)
      PROVE  \A r \in RoleNames : \A j \in role'[r].lists : right'[j[1]] = j[2]
  BY <1>0, <1>2 DEF RightExists
<1>3. \A r \in RoleNames : \A j \in Found(r) : RightExists(j)
  BY DEF Found, RightExists, RightId
<1>4. CASE UNCHANGED accessVars
  BY <1>1, <1>4 DEF accessVars
<1>5. CASE Commanded
  BY <1>1, <1>5, CommandTypes DEF Commanded
<1>6. CASE Check
  BY <1>1, <1>6, CheckTypes DEF NotCommand
<1>7. CASE Applied
  <2>1. ASSUME NEW p \in Rights, SeedRight(p)
        PROVE  \A r \in RoleNames : \A j \in role'[r].lists : right'[j[1]] = j[2]
    <3> SUFFICES ASSUME NEW r \in RoleNames, NEW j \in role'[r].lists PROVE right'[j[1]] = j[2]
      OBVIOUS
    <3>1. j \in role[r].lists /\ j \in RightIds /\ right[j[1]] = j[2]
      BY <1>0, <2>1 DEF SeedRight
    <3>2. j[1] \in Rights /\ j[2] # 0
      BY <3>1, RightIdFacts
    <3>3. QED
      BY <1>0, <2>1, <3>1, <3>2 DEF SeedRight
  <2>2. ASSUME NEW p \in Rights, DropRight(p)
        PROVE  \A r \in RoleNames : \A j \in role'[r].lists : right'[j[1]] = j[2]
    <3> SUFFICES ASSUME NEW r \in RoleNames, NEW j \in role'[r].lists PROVE right'[j[1]] = j[2]
      OBVIOUS
    <3>1. role' = [q \in RoleNames |-> [role[q] EXCEPT !.lists = {k \in @ : k[1] # p}]]
      BY <1>0, <2>2 DEF DropRight
    <3>2. role[r] \in RoleType /\ role'[r] = [role[r] EXCEPT !.lists = {k \in role[r].lists : k[1] # p}]
      BY <1>0, <3>1
    <3>3. role'[r].lists = {k \in role[r].lists : k[1] # p}
      BY <3>2 DEF RoleType
    <3>4. j \in role[r].lists /\ j[1] # p /\ j[1] \in Rights /\ right[j[1]] = j[2]
      BY <1>0, <3>3, RightIdFacts
    <3>5. QED
      BY <1>0, <2>2, <3>4 DEF DropRight
  <2>3. ASSUME NEW r \in RoleNames, SyncRole(r) PROVE FALSE
    BY <1>0, <2>3 DEF SyncRole
  <2>4. ASSUME NEW r \in RoleNames, NEW c \in RoleType, role' = [role EXCEPT ![r] = c],
               c.lists \subseteq role[r].lists \union Found(r)
        PROVE  \A q \in RoleNames : \A j \in role'[q].lists : j \in role[q].lists \/ RightExists(j)
    BY <1>0, <1>3, <2>4
  <2>5. ASSUME NEW r \in RoleNames, ClearRole(r)
        PROVE  \A q \in RoleNames : \A j \in role'[q].lists : right'[j[1]] = j[2]
    <3> DEFINE c == [made |-> MadeOr(r), lists |-> {}]
    <3>1. c \in RoleType /\ c.lists = {} /\ role' = [role EXCEPT ![r] = c] /\ UNCHANGED right
      BY <1>0, <2>5, IdTypes DEF ClearRole, RoleType
    <3> HIDE DEF c
    <3>2. QED
      BY <1>2, <2>4, <3>1
  <2>6. ASSUME NEW r \in RoleNames, DropRole(r)
        PROVE  \A q \in RoleNames : \A j \in role'[q].lists : right'[j[1]] = j[2]
    <3> DEFINE c == [made |-> 0, lists |-> {}]
    <3>1. c \in RoleType /\ c.lists = {} /\ role' = [role EXCEPT ![r] = c] /\ UNCHANGED right
      BY <1>0, <2>6, NumbersAre DEF DropRole, RoleType
    <3> HIDE DEF c
    <3>2. QED
      BY <1>2, <2>4, <3>1
  <2>7. ASSUME NEW r \in RoleNames, FillRole(r)
        PROVE  \A q \in RoleNames : \A j \in role'[q].lists : right'[j[1]] = j[2]
    <3> DEFINE c == [role[r] EXCEPT !.lists = @ \union Found(r)]
    <3>1. role[r] \in RoleType /\ Found(r) \in SUBSET RightIds
      BY <1>0, IdTypes
    <3>2. c \in RoleType /\ c.lists = role[r].lists \union Found(r)
      BY <3>1 DEF RoleType
    <3>3. role' = [role EXCEPT ![r] = c] /\ UNCHANGED right
      BY <2>7 DEF FillRole
    <3> HIDE DEF c
    <3>4. QED
      BY <1>2, <2>4, <3>2, <3>3
  <2>8. QED
    BY <1>7, <2>1, <2>2, <2>3, <2>5, <2>6, <2>7 DEF Applied
<1>8. CASE AdminChore
  <2>1. CASE UNCHANGED role
    BY <1>1, <1>8, <2>1, ChoreTypes
  <2>2. ASSUME NEW r \in RoleNames, NEW j \in RightIds, TakeAway(r, j)
        PROVE  \A q \in RoleNames : \A k \in role'[q].lists : right'[k[1]] = k[2]
    <3> DEFINE c == [role[r] EXCEPT !.lists = @ \ {j}]
    <3>1. role[r] \in RoleType
      BY <1>0
    <3>2. c \in RoleType /\ c.lists \subseteq role[r].lists
      BY <3>1 DEF RoleType
    <3>3. role' = [role EXCEPT ![r] = c] /\ UNCHANGED right
      BY <2>2 DEF TakeAway
    <3> HIDE DEF c
    <3>4. \A q \in RoleNames : \A k \in role'[q].lists : k \in role[q].lists
      BY <1>0, <3>2, <3>3
    <3>5. QED
      BY <1>2, <3>3, <3>4
  <2>3. CASE WriteAdd
    <3> DEFINE r == chore.role[1]
               c == [role[r] EXCEPT !.lists = @ \union {chore.right}]
    <3>1. chore.role \in RoleIds /\ chore.right \in RightIds /\ r \in RoleNames
      <4>1. chore.role \in RoleIds /\ chore.right \in RightIds
        BY <1>0, <2>3, AccessFacts DEF WriteAdd
      <4>2. QED
        BY <4>1, RoleIdFacts
    <3>2. role[r] \in RoleType
      BY <1>0, <3>1
    <3>3. c \in RoleType /\ c.lists = role[r].lists \union {chore.right}
      BY <3>1, <3>2 DEF RoleType
    <3>4. UNCHANGED right /\ (role' = role \/ (role' = [role EXCEPT ![r] = c] /\ RightExists(chore.right)))
      BY <1>0, <2>3 DEF WriteAdd
    <3> HIDE DEF c, r
    <3>5. \A q \in RoleNames : \A k \in role'[q].lists : k \in role[q].lists \/ RightExists(k)
      BY <1>0, <3>1, <3>3, <3>4
    <3>6. QED
      BY <1>2, <3>4, <3>5
  <2>4. QED
    BY <1>8, <2>1, <2>2, <2>3 DEF AdminChore, StartGrant, Revoke, StartAdd, WriteGrant
<1>9. QED
  BY <1>4, <1>5, <1>6, <1>7, <1>8, AccessStepIs DEF AccessNext

\* Everybody but the check leaves the check alone.
LEMMA OthersLeaveGuard ==
    ASSUME Typed, AccessNext, ~Check PROVE UNCHANGED guard
<1>1. AccessStep
  BY DEF AccessNext
<1>2. QED
  BY <1>1, AccessStepIs, CommandTypes, SeedTypes, ChoreTypes DEF Commanded, Applied

\* A step of somebody else that is no rollback drops neither a role nor a permission.
LEMMA NothingDropped ==
    ASSUME Typed, AccessNext, cli.op # "rollback"
    PROVE  /\ \A i \in RoleIds : RoleExists(i) => RoleExists(i)'
           /\ \A j \in RightIds : RightExists(j) => RightExists(j)'
           /\ right[Wanted] # 0 => right'[Wanted] = right[Wanted]
<1>0. /\ AccessTypeOK /\ AccessFits /\ AccessStep
      /\ right \in [Rights -> Numbers] /\ role \in [RoleNames -> RoleType]
  BY AccessFacts DEF Typed, AccessNext
<1>1. /\ \A r \in RoleNames : role[r].made # 0 => role'[r].made = role[r].made
      /\ \A p \in Rights : right[p] # 0 => right'[p] = right[p]
  <2>1. CASE Commanded
    BY <2>1, CommandTypes DEF Commanded
  <2>2. CASE Check
    BY <2>2, CheckTypes DEF NotCommand
  <2>3. CASE AdminChore
    BY <2>3, ChoreTypes
  <2>4. ASSUME NEW p \in Rights, SeedRight(p)
        PROVE  /\ \A r \in RoleNames : role[r].made # 0 => role'[r].made = role[r].made
               /\ \A q \in Rights : right[q] # 0 => right'[q] = right[q]
    BY <1>0, <2>4 DEF SeedRight
  <2>5. ASSUME NEW r \in RoleNames, SyncRole(r) \/ ClearRole(r)
        PROVE  /\ \A q \in RoleNames : role[q].made # 0 => role'[q].made = role[q].made
               /\ \A q \in Rights : right[q] # 0 => right'[q] = right[q]
    <3>1. PICK f \in {Found(r), {}} : role' = [role EXCEPT ![r] = [made |-> MadeOr(r), lists |-> f]]
      BY <2>5 DEF SyncRole, ClearRole
    <3>2. UNCHANGED right
      BY <2>5 DEF SyncRole, ClearRole
    <3>3. QED
      BY <1>0, <3>1, <3>2 DEF MadeOr
  <2>6. ASSUME NEW r \in RoleNames, FillRole(r)
        PROVE  /\ \A q \in RoleNames : role[q].made # 0 => role'[q].made = role[q].made
               /\ \A q \in Rights : right[q] # 0 => right'[q] = right[q]
    <3>1. role' = [role EXCEPT ![r] = [role[r] EXCEPT !.lists = @ \union Found(r)]] /\ UNCHANGED right
      BY <2>6 DEF FillRole
    <3>2. role[r] \in RoleType
      BY <1>0
    <3>3. [role[r] EXCEPT !.lists = @ \union Found(r)].made = role[r].made
      BY <3>2 DEF RoleType
    <3>4. QED
      BY <1>0, <3>1, <3>3
  <2>7. \A p \in Rights : ~DropRight(p)
    BY <1>0 DEF DropRight, AccessFits
  <2>8. \A r \in RoleNames : ~DropRole(r)
    BY <1>0 DEF DropRole, AccessFits
  <2>9. QED
    BY <1>0, <2>1, <2>2, <2>3, <2>4, <2>5, <2>6, <2>7, <2>8, AccessStepIs DEF Applied
<1>2. \A i \in RoleIds : RoleExists(i) => RoleExists(i)'
  BY <1>1, RoleIdFacts DEF RoleExists
<1>3. \A j \in RightIds : RightExists(j) => RightExists(j)'
  BY <1>1, RightIdFacts DEF RightExists
<1>4. QED
  BY <1>1, <1>2, <1>3, WantedIsARight

\* The history after a step knows what is so then, and remembers.
LEMMA HistoryNext ==
    ASSUME AccessNext, guard'.pc # "idle"
    PROVE  /\ WatchesNow'
           /\ guard.pc # "idle" =>
                 /\ watch'.carriers \subseteq watch.carriers /\ (watch'.calm => watch.calm)
                 /\ watch.worn \subseteq watch'.worn /\ watch.offers \subseteq watch'.offers
<1>1. watch' = IF guard.pc = "idle" THEN Sight' ELSE Along(watch, Sight')
  BY DEF AccessNext, Watches
<1>2. Sight' = [carriers |-> Worn' \intersect Offers',
                calm     |-> cli'.op # "rollback" /\ \A i \in Worn' : RoleExists(i)',
                worn     |-> Worn', offers |-> Offers']
  BY DEF Sight
<1> DEFINE s == Sight'
<1>3. /\ s.carriers = Worn' \intersect Offers' /\ s.worn = Worn' /\ s.offers = Offers'
      /\ s.calm <=> (cli'.op # "rollback" /\ \A i \in Worn' : RoleExists(i)')
  BY <1>2
<1> HIDE DEF s
<1>4. CASE guard.pc = "idle"
  <2>1. watch' = s
    BY <1>1, <1>4 DEF s
  <2>2. QED
    BY <1>3, <1>4, <2>1 DEF WatchesNow
<1>5. CASE guard.pc # "idle"
  <2>1. watch' = [carriers |-> watch.carriers \intersect s.carriers, calm |-> watch.calm /\ s.calm,
                  worn |-> watch.worn \union s.worn, offers |-> watch.offers \union s.offers]
    BY <1>1, <1>5 DEF s, Along
  <2>2. /\ watch'.carriers = watch.carriers \intersect s.carriers
        /\ watch'.worn = watch.worn \union s.worn /\ watch'.offers = watch.offers \union s.offers
        /\ watch'.calm <=> (watch.calm /\ s.calm)
    BY <2>1
  <2>3. QED
    BY <1>3, <2>2 DEF WatchesNow
<1>6. QED
  BY <1>4, <1>5

\* A role that offers the permission now exists and lists it.
LEMMA OfferFacts ==
    ASSUME Typed, NEW c \in Offers
    PROVE  /\ c \in RoleIds /\ RoleExists(c) /\ right[Wanted] # 0
           /\ RightId(Wanted) \in role[c[1]].lists /\ RightId(Wanted) \in RightIds
           /\ RightExists(RightId(Wanted)) /\ RightId(Wanted)[1] = Wanted
<1>1. PICK q \in RoleNames : c = RoleId(q) /\ right[Wanted] # 0 /\ RightId(Wanted) \in role[q].lists
  BY DEF Offers
<1>2. c[1] = q /\ c[2] = role[q].made
  BY <1>1 DEF RoleId
<1>3. role[q].made # 0 /\ AccessTypeOK
  BY <1>1 DEF Typed, AccessFits
<1>4. c \in RoleIds /\ RightId(Wanted) \in RightIds
  BY <1>1, <1>3, IdTypes, WantedIsARight
<1>5. RightExists(RightId(Wanted)) /\ RightId(Wanted)[1] = Wanted
  BY DEF RightExists, RightId
<1>6. QED
  BY <1>1, <1>2, <1>4, <1>5 DEF RoleExists

\* Who lists an existing right of the wanted name offers it.
LEMMA ListingOffers ==
    ASSUME Typed, NEW i \in RoleIds, RoleExists(i), NEW j \in role[i[1]].lists, j \in RightIds,
           RightExists(j), j[1] = Wanted
    PROVE  i \in Offers
<1>1. i[1] \in RoleNames /\ i = RoleId(i[1])
  BY RoleIdFacts DEF RoleExists, RoleId
<1>2. j = <<j[1], j[2]>> /\ j[2] # 0
  BY RightIdFacts
<1>3. j = RightId(Wanted) /\ right[Wanted] # 0
  BY <1>2 DEF RightExists, RightId
<1>4. QED
  BY <1>1, <1>3 DEF Offers

\* What a check keeps while others act.
LEMMA OthersKeepAsked ==
    ASSUME CheckInv, AccessNext, UNCHANGED guard, guard.pc # "idle" PROVE Asked'
<1>0. Typed /\ Asked /\ guard'.pc # "idle" /\ AccessTypeOK
  BY DEF CheckInv, Typed
<1>1. /\ WatchesNow'
      /\ watch'.carriers \subseteq watch.carriers /\ (watch'.calm => watch.calm)
      /\ watch.worn \subseteq watch'.worn /\ watch.offers \subseteq watch'.offers
  BY <1>0, HistoryNext
<1>2. ReadSoFar'
  BY <1>0, <1>1 DEF Asked, ReadSoFar
<1>3. Earned'
  BY <1>0, <1>1 DEF Asked, Earned
<1>4. watch'.calm =>
        /\ \A i \in RoleIds : RoleExists(i) => RoleExists(i)'
        /\ \A j \in RightIds : RightExists(j) => RightExists(j)'
        /\ right[Wanted] # 0 => right'[Wanted] = right[Wanted]
  <2>1. watch'.calm => cli.op # "rollback"
    BY <1>0, <1>1 DEF Asked, WatchesNow
  <2>2. QED
    BY <1>0, <2>1, NothingDropped
<1>5. guard.roles \in SUBSET RoleIds /\ guard.ids \in SUBSET RightIds
  BY <1>0, GuardFacts
<1>6. StillThere'
  <2> SUFFICES ASSUME watch'.calm
               PROVE  /\ \A i \in guard.roles : RoleExists(i)'
                      /\ \A j \in guard.ids : RightExists(j)'
    BY DEF StillThere
  <2>1. (\A i \in guard.roles : RoleExists(i)) /\ \A j \in guard.ids : RightExists(j)
    BY <1>0, <1>1 DEF Asked, StillThere
  <2>2. QED
    BY <1>4, <1>5, <2>1
<1>7. OnTheWay'
  <2> SUFFICES ASSUME watch'.calm, guard.pc # "rows", NEW c \in watch'.carriers
               PROVE  c \in guard.roles \/ RightId(Wanted)' \in guard.ids \/ Wanted \in guard.names
    BY DEF OnTheWay
  <2>1. c \in watch.carriers /\ c \in Offers
    BY <1>0, <1>1 DEF Asked, WatchesNow
  <2>2. right[Wanted] # 0
    BY <1>0, <2>1, OfferFacts
  <2>3. RightId(Wanted)' = RightId(Wanted)
    BY <1>4, <2>2 DEF RightId
  <2>4. QED
    BY <1>0, <1>1, <2>1, <2>3 DEF Asked, OnTheWay
<1>8. QED
  BY <1>1, <1>2, <1>3, <1>6, <1>7 DEF Asked

\* The check's own reads.
LEMMA CheckKeepsAsked ==
    ASSUME CheckInv, AccessNext, Check, guard'.pc # "idle" PROVE Asked'
<1>0. /\ Typed /\ ForeignKeys /\ AccessTypeOK /\ (guard.pc # "idle" => Asked) /\ guard \in Guards
      /\ UNCHANGED <<right, role, rows, cli>> /\ WatchesNow'
  <2>1. Typed /\ ForeignKeys /\ AccessTypeOK /\ (guard.pc # "idle" => Asked)
    BY DEF CheckInv, Typed
  <2>2. UNCHANGED <<right, role, rows, cli>>
    BY <2>1, CheckTypes DEF NotCommand
  <2>3. QED
    BY <2>1, <2>2, HistoryNext, GuardFacts
<1>1. guard.pc # "idle" =>
        /\ watch'.carriers \subseteq watch.carriers /\ (watch'.calm => watch.calm)
        /\ watch.worn \subseteq watch'.worn /\ watch.offers \subseteq watch'.offers
  BY HistoryNext
<1>2. /\ \A i : RoleExists(i)' <=> RoleExists(i)
      /\ \A j : RightExists(j)' <=> RightExists(j)
      /\ RightId(Wanted)' = RightId(Wanted)
  BY <1>0 DEF RoleExists, RightExists, RightId
<1>3. CASE \E x \in Visitors : StartGuard(x)
  <2>1. PICK x \in Visitors : guard' = [NoGuard EXCEPT !.pc = "rows", !.person = {x}]
    BY <1>3 DEF StartGuard
  <2>2. guard'.pc = "rows" /\ guard'.roles = {} /\ guard'.ids = {} /\ guard'.names = {}
    BY <2>1 DEF NoGuard
  <2>3. QED
    BY <1>0, <2>2 DEF Asked, ReadSoFar, Earned, StillThere, OnTheWay
<1>4. CASE ReadRows
  <2> DEFINE ids == {w.role : w \in ActiveRows(guard.person)}
  <2>1. guard' = [guard EXCEPT !.pc = "roles", !.roles = ids] /\ guard.pc = "rows"
    <3>1. ~Judged(FALSE)
      BY RefusedTypes
    <3>2. QED
      BY <1>4, <3>1 DEF ReadRows
  <2>2. ids = Worn
    BY DEF ActiveRows, Worn
  <2> HIDE DEF ids
  <2>3. /\ guard'.pc = "roles" /\ guard'.roles = Worn /\ guard'.person = guard.person
        /\ guard'.ids = guard.ids /\ guard'.names = guard.names
    BY <1>0, <2>1, <2>2 DEF Guards
  <2>4. Worn' = Worn
    BY <1>0, <2>3 DEF Worn
  <2>5. Asked /\ guard.ids = {} /\ guard.names = {}
    BY <1>0, <2>1 DEF Asked, ReadSoFar
  <2>6. ReadSoFar'
    BY <1>0, <2>3, <2>4 DEF ReadSoFar, WatchesNow
  <2>7. Earned'
    BY <2>3, <2>5 DEF Earned
  <2>8. StillThere'
    BY <1>0, <1>2, <2>3, <2>4, <2>5 DEF StillThere, WatchesNow
  <2>9. OnTheWay'
    BY <1>0, <2>3, <2>4 DEF OnTheWay, WatchesNow
  <2>10. QED
    BY <1>0, <2>6, <2>7, <2>8, <2>9 DEF Asked
<1>5. CASE \E i \in RoleIds : ReadRole(i)
  <2>1. PICK i \in RoleIds : ReadRole(i)
    BY <1>5
  <2> DEFINE lists == {j \in role[i[1]].lists : accessStore = "mongo" => RightExists(j)}
  <2>2. /\ RoleExists(i) /\ guard.pc = "roles" /\ i \in guard.roles
        /\ guard' = [guard EXCEPT !.roles = @ \ {i}, !.ids = @ \union lists,
                                  !.pc = IF guard.roles = {i} THEN "rights" ELSE @]
    <3>1. ~Judged(FALSE)
      BY RefusedTypes
    <3>2. QED
      BY <2>1, <3>1 DEF ReadRole
  <2>3. \A j \in lists : j \in role[i[1]].lists /\ j \in RightIds /\ RightExists(j)
    <3>1. i[1] \in RoleNames
      BY RoleIdFacts
    <3>2. role[i[1]].lists \in SUBSET RightIds /\ accessStore \in {"mongo", "postgres"}
      BY <1>0, <3>1, AccessFacts, AccessAssumption DEF AccessTypeOK
    <3>3. QED
      BY <1>0, <3>1, <3>2 DEF ForeignKeys
  <2>4. RightExists(RightId(Wanted)) /\ RightId(Wanted) \in role[i[1]].lists => RightId(Wanted) \in lists
    OBVIOUS
  <2> HIDE DEF lists
  <2>5. /\ guard'.roles = guard.roles \ {i} /\ guard'.ids = guard.ids \union lists
        /\ guard'.names = guard.names /\ guard'.person = guard.person
        /\ guard'.pc = IF guard.roles = {i} THEN "rights" ELSE guard.pc
    BY <1>0, <2>2 DEF Guards
  <2>6. Asked /\ i \in watch.worn
    BY <1>0, <2>2 DEF Asked, ReadSoFar
  <2>7. ReadSoFar'
    BY <1>1, <2>2, <2>5, <2>6 DEF Asked, ReadSoFar
  <2>8. Earned'
    <3>1. ASSUME NEW j \in lists, j[1] = Wanted PROVE i \in watch.worn \intersect watch.offers
      <4>1. i \in Offers
        BY <1>0, <2>2, <2>3, <3>1, ListingOffers
      <4>2. QED
        BY <2>6, <4>1 DEF Asked, WatchesNow
    <3>2. Earned
      BY <2>6 DEF Asked
    <3>3. QED
      BY <1>1, <2>2, <2>5, <3>1, <3>2 DEF Earned
  <2>9. StillThere'
    BY <1>1, <1>2, <2>2, <2>3, <2>5, <2>6 DEF Asked, StillThere
  <2>10. OnTheWay'
    <3> SUFFICES ASSUME watch'.calm, NEW c \in watch'.carriers
                 PROVE  c \in guard'.roles \/ RightId(Wanted) \in guard'.ids \/ Wanted \in guard'.names
      BY <1>2 DEF OnTheWay
    <3>1. c \in watch.carriers /\ watch.calm /\ c \in Offers
      BY <1>1, <2>2, <2>6 DEF Asked, WatchesNow
    <3>2. c \in guard.roles \/ RightId(Wanted) \in guard.ids \/ Wanted \in guard.names
      BY <2>2, <2>6, <3>1 DEF Asked, OnTheWay
    <3>3. CASE c = i
      <4>1. RightId(Wanted) \in role[i[1]].lists /\ RightExists(RightId(Wanted))
        BY <1>0, <3>1, <3>3, OfferFacts
      <4>2. QED
        BY <2>4, <2>5, <4>1
    <3>4. CASE c # i
      BY <2>5, <3>2, <3>4
    <3>5. QED
      BY <3>3, <3>4
  <2>11. QED
    BY <1>0, <2>7, <2>8, <2>9, <2>10 DEF Asked
<1>6. CASE \E j \in RightIds : ReadRight(j)
  <2>1. PICK j \in RightIds : ReadRight(j)
    BY <1>6
  <2>2. /\ guard.pc = "rights" /\ j \in guard.ids
        /\ guard' = [guard EXCEPT !.ids = @ \ {j}, !.names = @ \union {j[1]}]
    <3>1. ~Judged(FALSE)
      BY RefusedTypes
    <3>2. QED
      BY <2>1, <3>1 DEF ReadRight
  <2>3. /\ guard'.roles = guard.roles /\ guard'.ids = guard.ids \ {j} /\ guard'.pc = guard.pc
        /\ guard'.names = guard.names \union {j[1]} /\ guard'.person = guard.person
    BY <1>0, <2>2 DEF Guards
  <2>4. Asked
    BY <1>0, <2>2
  <2>5. ReadSoFar'
    BY <1>1, <2>2, <2>3, <2>4 DEF Asked, ReadSoFar
  <2>6. Earned'
    <3>1. Earned
      BY <2>4 DEF Asked
    <3>2. QED
      BY <1>1, <2>2, <2>3, <3>1 DEF Earned
  <2>7. StillThere'
    BY <1>1, <1>2, <2>2, <2>3, <2>4 DEF Asked, StillThere
  <2>8. OnTheWay'
    <3>1. RightId(Wanted) = j => j[1] = Wanted
      BY DEF RightId
    <3>2. QED
      BY <1>1, <1>2, <2>2, <2>3, <2>4, <3>1 DEF Asked, OnTheWay
  <2>9. QED
    BY <1>0, <2>5, <2>6, <2>7, <2>8 DEF Asked
<1>7. CASE Decide
  BY <1>7 DEF Decide, Judged, NoGuard
<1>8. QED
  BY <1>3, <1>4, <1>5, <1>6, <1>7 DEF Check

LEMMA CheckInvNext == CheckInv /\ [AccessNext]_accessVars => CheckInv'
<1> SUFFICES ASSUME CheckInv, [AccessNext]_accessVars PROVE CheckInv'
  OBVIOUS
<1>1. Typed' /\ ForeignKeys'
  BY TypedNext, ForeignKeysNext DEF CheckInv
<1>2. ASSUME guard'.pc # "idle" PROVE Asked'
  <2>1. CASE UNCHANGED accessVars
    <3>1. UNCHANGED <<right, role, rows, cli, guard, watch>> /\ Asked
      BY <1>2, <2>1 DEF accessVars, CheckInv
    <3>2. /\ Worn' = Worn /\ Offers' = Offers /\ RightId(Wanted)' = RightId(Wanted)
          /\ \A i : RoleExists(i)' <=> RoleExists(i)
          /\ \A j : RightExists(j)' <=> RightExists(j)
      BY <3>1 DEF Worn, Offers, RoleExists, RightExists, RightId, RoleId
    <3>3. QED
      BY <3>1, <3>2 DEF Asked, WatchesNow, ReadSoFar, Earned, StillThere, OnTheWay
  <2>2. CASE AccessNext /\ Check
    BY <1>2, <2>2, CheckKeepsAsked
  <2>3. CASE AccessNext /\ ~Check
    <3>1. UNCHANGED guard
      BY <2>3, OthersLeaveGuard DEF CheckInv
    <3>2. QED
      BY <1>2, <2>3, <3>1, OthersKeepAsked
  <2>4. QED
    BY <2>1, <2>2, <2>3
<1>3. QED
  BY <1>1, <1>2 DEF CheckInv

\* What a verdict rests on.
LEMMA VerdictsAreTimely ==
    ASSUME CheckInv, AccessNext PROVE HoldersAreAdmitted /\ AdmittedHadRole
<1> SUFFICES ASSUME guard.pc # "idle", guard'.pc = "idle"
             PROVE  /\ watch.calm /\ watch.carriers # {} => guard'.admits
                    /\ guard'.admits => watch.worn \intersect watch.offers # {}
  BY DEF HoldersAreAdmitted, AdmittedHadRole, Ends
<1>0. Typed /\ AccessTypeOK /\ Asked /\ guard \in Guards
  <2>1. Typed /\ AccessTypeOK /\ Asked
    BY DEF CheckInv, Typed
  <2>2. QED
    BY <2>1, GuardFacts
<1>1. Check
  <2>1. UNCHANGED guard => FALSE
    OBVIOUS
  <2>2. QED
    BY <1>0, <2>1, OthersLeaveGuard
<1>2. CASE \E x \in Visitors : StartGuard(x)
  BY <1>2 DEF StartGuard
<1>3. CASE ReadRows
  <2> DEFINE ids == {w.role : w \in ActiveRows(guard.person)}
  <2>1. \/ ids = {} /\ Judged(FALSE)
        \/ guard' = [guard EXCEPT !.pc = "roles", !.roles = ids]
    BY <1>3 DEF ReadRows
  <2>2. ids = Worn
    BY DEF ActiveRows, Worn
  <2> HIDE DEF ids
  <2>3. ids = {} /\ ~guard'.admits
    BY <1>0, <2>1, RefusedTypes DEF Guards
  <2>4. watch.carriers = {}
    BY <1>0, <2>2, <2>3 DEF Asked, WatchesNow
  <2>5. QED
    BY <2>3, <2>4
<1>4. CASE \E i \in RoleIds : ReadRole(i)
  <2>1. PICK i \in RoleIds : ReadRole(i)
    BY <1>4
  <2>2. guard.pc = "roles" /\ i \in guard.roles
    BY <2>1 DEF ReadRole
  <2>3. ~RoleExists(i) /\ ~guard'.admits
    <3> DEFINE lists == {j \in role[i[1]].lists : accessStore = "mongo" => RightExists(j)}
    <3>1. \/ ~RoleExists(i) /\ Judged(FALSE)
          \/ guard' = [guard EXCEPT !.roles = @ \ {i}, !.ids = @ \union lists,
                                    !.pc = IF guard.roles = {i} THEN "rights" ELSE @]
      BY <2>1 DEF ReadRole
    <3> HIDE DEF lists
    <3>2. QED
      BY <1>0, <2>2, <3>1, RefusedTypes DEF Guards
  <2>4. ~watch.calm
    BY <1>0, <2>2, <2>3 DEF Asked, StillThere
  <2>5. QED
    BY <2>3, <2>4
<1>5. CASE \E j \in RightIds : ReadRight(j)
  <2>1. PICK j \in RightIds : ReadRight(j)
    BY <1>5
  <2>2. guard.pc = "rights" /\ j \in guard.ids
    BY <2>1 DEF ReadRight
  <2>3. ~RightExists(j) /\ ~guard'.admits
    <3>1. \/ ~RightExists(j) /\ Judged(FALSE)
          \/ guard' = [guard EXCEPT !.ids = @ \ {j}, !.names = @ \union {j[1]}]
      BY <2>1 DEF ReadRight
    <3>2. QED
      BY <1>0, <2>2, <3>1, RefusedTypes DEF Guards
  <2>4. ~watch.calm
    BY <1>0, <2>2, <2>3 DEF Asked, StillThere
  <2>5. QED
    BY <2>3, <2>4
<1>6. CASE Decide
  <2>1. guard.pc = "rights" /\ guard.ids = {} /\ Judged(Wanted \in guard.names)
    BY <1>6 DEF Decide
  <2>2. guard'.admits <=> Wanted \in guard.names
    BY <2>1 DEF Judged, NoGuard
  <2>3. guard.roles = {}
    BY <1>0, <2>1 DEF Asked, ReadSoFar
  <2>4. watch.calm /\ watch.carriers # {} => Wanted \in guard.names
    BY <1>0, <2>1, <2>3 DEF Asked, OnTheWay
  <2>5. Wanted \in guard.names => watch.worn \intersect watch.offers # {}
    BY <1>0 DEF Asked, Earned
  <2>6. QED
    BY <2>2, <2>4, <2>5
<1>7. QED
  BY <1>1, <1>2, <1>3, <1>4, <1>5, <1>6 DEF Check

\* ChecksAreTimely (requirePermission, checkAdminPermissions): a check that reads rows, roles and
\* permissions one after the other beside seeds, rollbacks and administrators admits whoever had
\* the permission all along, unless roles are rolled back, and nobody who never had it.
THEOREM ChecksDecideInTime == AccessSpec => ChecksAreTimely
<1>1. AccessInit => CheckInv
  <2> SUFFICES ASSUME AccessInit PROVE CheckInv
    OBVIOUS
  <2>1. guard.pc = "idle"
    BY DEF AccessInit, NoGuard
  <2>2. ForeignKeys
    <3>1. CASE role = [r \in RoleNames |-> [made |-> 0, lists |-> {}]]
      BY <3>1 DEF ForeignKeys
    <3>2. CASE /\ right = [p \in Rights |-> 1]
               /\ role = [r \in RoleNames |-> [made |-> 1, lists |-> {<<p, 1>> : p \in Listed(r)}]]
      BY <3>2, ListedAreRights DEF ForeignKeys, RightExists
    <3>3. QED
      BY <3>1, <3>2 DEF AccessInit
  <2>3. QED
    BY <2>1, <2>2, TypedInit DEF CheckInv
<1>2. AccessSpec => []CheckInv
  BY <1>1, CheckInvNext, PTL DEF AccessSpec
<1>3. CheckInv /\ [AccessNext]_accessVars => [HoldersAreAdmitted /\ AdmittedHadRole]_accessVars
  BY VerdictsAreTimely
<1>4. QED
  BY <1>2, <1>3, PTL DEF AccessSpec, ChecksAreTimely

-----------------------------------------------------------------------------
(***************************************************************************)
(* The tokens.                                                             *)
(***************************************************************************)
\* The changes of the password in progress.  Each has been counted and will raise the
\* number of the password at most by one.
Stamped == {r \in Renewals : renewal[r].pc = "write"}
Numbered == IsFiniteSet(Stamped) /\ account.password + Cardinality(Stamped) <= renewals
            /\ renewals <= MaxRenewals

LEMMA Seconds == ASSUME NEW n \in Nat
                 PROVE  n \div 2 \in 0..n /\ 2 * (n \div 2) <= n /\ n < 2 * (n \div 2) + 2
OBVIOUS

LEMMA SessionsTypingInit == SessionsInit => SessionsTypeOK /\ Numbered
<1> SUFFICES ASSUME SessionsInit PROVE SessionsTypeOK /\ Numbered
  OBVIOUS
<1>1. 0 \in Times /\ 0 \in Passwords
  BY SessionsAssumption DEF Times, Passwords
<1>2. account \in UserRow /\ use.row \in UserRow
  BY <1>1 DEF SessionsInit, UserRow, NoUse
<1>3. NoToken \in TokenSet
  BY <1>1 DEF NoToken, TokenSet
<1>4. use \in [pc : {"idle", "verify", "lookup", "done"}, token : TokenSet,
                answer : {"none", "accepted", "refused", "anonymous"},
                by : {"nothing", "clock", "row", "error"}, row : UserRow]
  BY <1>2, <1>3 DEF SessionsInit, NoUse
<1>5. renewal \in [Renewals -> [pc : {"idle", "write"}, stamp : Times]]
  BY <1>1 DEF SessionsInit, NoRenewal
<1>6. login \in [pc : {"idle", "compare", "sign"}, entered : Passwords,
                  password : Passwords, beside : BOOLEAN]
  BY <1>1 DEF SessionsInit, NoLogin
<1>7. Stamped = {}
  BY DEF Stamped, SessionsInit, NoRenewal
<1>8. Numbered
  <2>1. account.password = 0 /\ renewals = 0
    BY DEF SessionsInit
  <2>2. QED
    BY <1>7, <2>1, FS_EmptySet, SessionsAssumption DEF Numbered
<1>9. QED
  BY <1>1, <1>2, <1>4, <1>5, <1>6, <1>8 DEF SessionsInit, SessionsTypeOK

LEMMA SessionsTypingNext ==
    SessionsTypeOK /\ Numbered /\ [SessionsNext]_sessionVars => SessionsTypeOK' /\ Numbered'
<1> SUFFICES ASSUME SessionsTypeOK, Numbered, [SessionsNext]_sessionVars
             PROVE  SessionsTypeOK' /\ Numbered'
  OBVIOUS
<1> USE DEF SessionsTypeOK
<1>a. /\ IsFiniteSet(Stamped) /\ Cardinality(Stamped) \in Nat
      /\ account.password + Cardinality(Stamped) <= renewals /\ renewals <= MaxRenewals
      /\ account.password \in Nat /\ MaxRenewals \in Nat /\ MaxTime \in Nat
  BY FS_CardinalityType, SessionsAssumption DEF Numbered, UserRow, Passwords
<1>b. Second \in Times /\ 0 \in Times /\ 0 \in Passwords
  BY <1>a, Seconds DEF Second, Times, Passwords
<1>c. NoToken \in TokenSet
  BY <1>b DEF NoToken, TokenSet
<1>d. renewal' = renewal => Stamped' = Stamped
  BY DEF Stamped
<1>e. ASSUME UNCHANGED <<renewal, renewals>>, account'.password = account.password
      PROVE  Numbered'
  BY <1>d, <1>e DEF Numbered
<1>f. NoLogin \in [pc : {"idle", "compare", "sign"}, entered : Passwords,
                   password : Passwords, beside : BOOLEAN]
  BY <1>b DEF NoLogin
<1>1. ASSUME NEW how \in {"password", "google"}, NEW entered \in Passwords,
             StartLogin(how, entered)
      PROVE  SessionsTypeOK' /\ Numbered'
  BY <1>1, <1>e DEF StartLogin, UserRow, Renewing
<1>2. CASE Compare
  BY <1>2, <1>e, <1>f DEF Compare
<1>3. ASSUME NEW term \in Terms, Sign(term) PROVE SessionsTypeOK' /\ Numbered'
  <2>1. Second + term \in Nat
    BY <1>b, SessionsAssumption DEF Times
  <2>2. tokens' \subseteq TokenSet
    BY <1>3, <1>b, <2>1 DEF Sign, TokenSet
  <2>3. QED
    BY <1>3, <1>e, <1>f, <2>2 DEF Sign
<1>4. ASSUME NEW r \in Renewals, StampChange(r) PROVE SessionsTypeOK' /\ Numbered'
  <2>1. Stamped' = Stamped \union {r} /\ r \notin Stamped
    BY <1>4 DEF StampChange, Stamped
  <2>2. IsFiniteSet(Stamped') /\ Cardinality(Stamped') = Cardinality(Stamped) + 1
    BY <1>a, <2>1, FS_AddElement
  <2>3. Numbered'
    BY <1>4, <1>a, <2>2 DEF StampChange, Numbered
  <2>4. login' \in [pc : {"idle", "compare", "sign"}, entered : Passwords,
                    password : Passwords, beside : BOOLEAN]
    BY <1>4 DEF StampChange, LoginBeside
  <2>5. renewal' \in [Renewals -> [pc : {"idle", "write"}, stamp : Times]] /\ renewals' \in Nat
    BY <1>4 DEF StampChange
  <2>6. QED
    BY <1>4, <2>3, <2>4, <2>5 DEF StampChange
<1>5. ASSUME NEW r \in Renewals, WriteChange(r) PROVE SessionsTypeOK' /\ Numbered'
  <2>1. Stamped' = Stamped \ {r} /\ r \in Stamped
    BY <1>5 DEF WriteChange, Stamped, NoRenewal
  <2>2. IsFiniteSet(Stamped') /\ Cardinality(Stamped') = Cardinality(Stamped) - 1
    BY <1>a, <2>1, FS_RemoveElement
  <2>3. Cardinality(Stamped') \in Nat
    BY <2>2, FS_CardinalityType
  <2>4. account'.password \in {account.password, account.password + 1}
    BY <1>5 DEF WriteChange, UserRow
  <2>5. Numbered'
    BY <1>5, <1>a, <2>2, <2>4 DEF WriteChange, Numbered
  <2>6. account' \in UserRow
    <3>1. account.password + 1 \in Passwords
      BY <1>a, <2>2, <2>3 DEF Passwords
    <3>2. renewal[r].stamp \in Times
      OBVIOUS
    <3>3. QED
      BY <1>5, <3>1, <3>2 DEF WriteChange, UserRow
  <2>7. login' \in [pc : {"idle", "compare", "sign"}, entered : Passwords,
                    password : Passwords, beside : BOOLEAN]
    BY <1>5 DEF WriteChange, LoginBeside
  <2>8. renewal' \in [Renewals -> [pc : {"idle", "write"}, stamp : Times]]
    BY <1>5, <1>b DEF WriteChange, NoRenewal
  <2>9. QED
    BY <1>5, <2>5, <2>6, <2>7, <2>8 DEF WriteChange
<1>6. CASE DeleteUser
  BY <1>6, <1>e DEF DeleteUser, UserRow
<1>7. ASSUME NEW t \in tokens, StartUse(t) PROVE SessionsTypeOK' /\ Numbered'
  <2>1. NoUse.row \in UserRow
    BY <1>b DEF NoUse, UserRow
  <2>2. use' = [pc |-> "verify", token |-> t, answer |-> "none", by |-> "nothing", row |-> NoUse.row]
    BY <1>7 DEF StartUse, NoUse
  <2>3. QED
    BY <1>7, <1>e, <2>1, <2>2 DEF StartUse
<1>8. ASSUME NEW optional \in BOOLEAN, Verify(optional) PROVE SessionsTypeOK' /\ Numbered'
  BY <1>8, <1>e DEF Verify, Concludes
<1>9. CASE LookUpChange
  BY <1>9, <1>e DEF LookUpChange, Concludes
<1>10. CASE Tick
  BY <1>10, <1>a, <1>e DEF Tick, Times
<1>11. CASE UNCHANGED sessionVars
  BY <1>11, <1>e DEF sessionVars
<1>12. QED
  BY <1>1, <1>2, <1>3, <1>4, <1>5, <1>6, <1>7, <1>8, <1>9, <1>10, <1>11 DEF SessionsNext

\* Tokens, the row, changes and requests keep their form; in particular the number of the
\* password stays within the number of changes that were begun.
THEOREM SessionsTypeCorrect == SessionsSpec => []SessionsTypeOK
BY SessionsTypingInit, SessionsTypingNext, PTL DEF SessionsSpec

\* What is known of a token: it is not newer than the row's password; with the password
\* that is stored it was signed no earlier than in the second of the last change; and when
\* no change ran beside its login, any change after it is stamped after it.
TokenHolds(t) ==
    /\ t.password <= account.password /\ 2 * t.iat <= now
    /\ t.password = account.password => account.changed < 2 * t.iat + 2
    /\ ~t.beside =>
          /\ t.password # account.password => 2 * t.iat <= account.changed
          /\ \A r \in Stamped : 2 * t.iat <= renewal[r].stamp

\* What is known of a login: without a change beside it, it has the password that is stored.
LoginHolds ==
    login.pc # "idle" =>
        /\ login.password <= account.password
        /\ ~login.beside => Stamped = {} /\ login.password = account.password

StampsArePast == account.changed <= now /\ \A r \in Stamped : renewal[r].stamp <= now

SessionsInv ==
    /\ SessionsTypeOK /\ Numbered
    /\ StampsArePast /\ LoginHolds
    /\ \A t \in tokens : TokenHolds(t)
    /\ use.pc \in {"verify", "lookup"} => use.token \in tokens
    /\ TokensFollowPassword

LEMMA SessionsInvInit == SessionsInit => SessionsInv
<1> SUFFICES ASSUME SessionsInit PROVE SessionsInv
  OBVIOUS
<1>1. StampsArePast
  BY DEF SessionsInit, StampsArePast, Stamped, NoRenewal, Never
<1>2. LoginHolds /\ tokens = {} /\ use.pc = "idle"
  BY DEF SessionsInit, LoginHolds, NoLogin, NoUse
<1>3. TokensFollowPassword
  BY <1>2 DEF TokensFollowPassword, OldTokensGo, NewTokensStay, Looked
<1>4. QED
  BY <1>1, <1>2, <1>3, SessionsTypingInit DEF SessionsInv

\* A step after which the row, the time and the changes are as before keeps what is known
\* of a token.
LEMMA TokensKept ==
    ASSUME SessionsInv, UNCHANGED <<account, now, renewal>>
    PROVE  StampsArePast' /\ \A t \in tokens : TokenHolds(t)'
<1>1. Stamped' = Stamped
  BY DEF Stamped
<1>2. QED
  BY <1>1 DEF SessionsInv, StampsArePast, TokenHolds

\* A step that leaves the request as it is keeps what has been answered.
LEMMA AnswersKept ==
    ASSUME SessionsInv, UNCHANGED use, tokens \subseteq tokens'
    PROVE  TokensFollowPassword' /\ (use.pc \in {"verify", "lookup"} => use.token \in tokens)'
BY DEF SessionsInv, TokensFollowPassword, OldTokensGo, NewTokensStay, Looked

LEMMA LoginKept ==
    ASSUME SessionsInv, UNCHANGED <<login, renewal>>, account'.password = account.password
    PROVE  LoginHolds'
<1>1. Stamped' = Stamped
  BY DEF Stamped
<1>2. QED
  BY <1>1 DEF SessionsInv, LoginHolds

LEMMA SessionsInvNext == SessionsInv /\ [SessionsNext]_sessionVars => SessionsInv'
<1> SUFFICES ASSUME SessionsInv, [SessionsNext]_sessionVars PROVE SessionsInv'
  OBVIOUS
<1>t. SessionsTypeOK /\ SessionsTypeOK' /\ Numbered'
  BY SessionsTypingNext DEF SessionsInv
<1>n. /\ now \in Nat /\ account.password \in Nat /\ account.changed \in Int
      /\ \A r \in Renewals : renewal[r].stamp \in Nat
      /\ \A t \in tokens : t.iat \in Nat /\ t.password \in Nat /\ t.beside \in BOOLEAN
  BY <1>t, SessionsAssumption
     DEF SessionsTypeOK, Times, Passwords, UserRow, TokenSet, Never
<1>s. Second \in Nat /\ 2 * Second <= now /\ now < 2 * Second + 2
  BY <1>n, Seconds DEF Second
<1>r. (Stamped = {}) = ~Renewing
  BY <1>t DEF SessionsTypeOK, Stamped, Renewing
<1>1. ASSUME NEW how \in {"password", "google"}, NEW entered \in Passwords,
             StartLogin(how, entered)
      PROVE  SessionsInv'
  <2>1. Stamped' = Stamped
    BY <1>1 DEF StartLogin, Stamped
  <2>2. LoginHolds'
    BY <1>1, <1>n, <1>r, <2>1 DEF StartLogin, LoginHolds
  <2>3. QED
    BY <1>1, <1>t, <2>2, TokensKept, AnswersKept DEF StartLogin, SessionsInv
<1>2. CASE Compare
  <2>1. Stamped' = Stamped
    BY <1>2 DEF Compare, Stamped
  <2>2. LoginHolds'
    BY <1>2, <1>t, <2>1 DEF Compare, LoginHolds, SessionsInv, NoLogin, SessionsTypeOK
  <2>3. QED
    BY <1>2, <1>t, <2>2, TokensKept, AnswersKept DEF Compare, SessionsInv
<1>3. ASSUME NEW term \in Terms, Sign(term) PROVE SessionsInv'
  <2>0. PICK new : new = [iat |-> Second, until |-> Second + term,
                          password |-> login.password, beside |-> login.beside]
    OBVIOUS
  <2>1. tokens' = tokens \union {new} /\ UNCHANGED <<account, now, renewal, use>>
    BY <1>3, <2>0 DEF Sign
  <2>2. Stamped' = Stamped
    BY <2>1 DEF Stamped
  <2>3. TokenHolds(new)
    BY <1>3, <2>0, <1>n, <1>s DEF Sign, TokenHolds, SessionsInv, LoginHolds, StampsArePast
  <2>4. TokenHolds(new)'
    BY <2>1, <2>2, <2>3 DEF TokenHolds
  <2>5. LoginHolds'
    BY <1>3 DEF Sign, LoginHolds, NoLogin
  <2>6. (\A t \in tokens : TokenHolds(t))' /\ StampsArePast'
    BY <2>1, <2>4, TokensKept
  <2>7. QED
    BY <1>t, <2>1, <2>5, <2>6, AnswersKept DEF SessionsInv
<1>4. ASSUME NEW r \in Renewals, StampChange(r) PROVE SessionsInv'
  <2>1. Stamped' = Stamped \union {r} /\ r \notin Stamped
    BY <1>4, <1>t DEF StampChange, Stamped, SessionsTypeOK
  <2>2. /\ UNCHANGED <<now, account, tokens, use>>
        /\ renewal'[r].stamp = now /\ \A q \in Stamped : renewal'[q] = renewal[q]
    BY <1>4, <1>t, <2>1 DEF StampChange, SessionsTypeOK, Stamped
  <2>3. StampsArePast'
    BY <1>n, <2>1, <2>2 DEF StampsArePast, SessionsInv
  <2>4. (\A t \in tokens : TokenHolds(t))'
    BY <2>1, <2>2 DEF TokenHolds, SessionsInv
  <2>5. LoginHolds'
    BY <1>4, <1>t, <2>2 DEF StampChange, LoginBeside, LoginHolds, SessionsInv, SessionsTypeOK
  <2>6. QED
    BY <1>t, <2>2, <2>3, <2>4, <2>5, AnswersKept DEF SessionsInv
<1>5. ASSUME NEW r \in Renewals, WriteChange(r) PROVE SessionsInv'
  <2>1. Stamped' = Stamped \ {r} /\ r \in Stamped
    BY <1>5, <1>t DEF WriteChange, Stamped, NoRenewal, SessionsTypeOK
  <2>2. UNCHANGED <<now, tokens, use>> /\ \A q \in Stamped' : renewal'[q] = renewal[q]
    BY <1>5, <1>t, <2>1 DEF WriteChange, SessionsTypeOK
  <2>3. \/ /\ account'.password = account.password + 1
           /\ account'.changed = renewal[r].stamp
        \/ UNCHANGED account
    BY <1>5, <1>t DEF WriteChange, SessionsTypeOK, UserRow
  <2>4. StampsArePast'
    BY <1>n, <2>1, <2>2, <2>3 DEF StampsArePast, SessionsInv
  <2>5. ASSUME NEW t \in tokens PROVE TokenHolds(t)'
    BY <1>n, <2>1, <2>2, <2>3, <2>5 DEF TokenHolds, SessionsInv
  <2>6. LoginHolds'
    BY <1>5, <1>t, <1>n, <2>3 DEF WriteChange, LoginBeside, LoginHolds, SessionsInv,
                                  SessionsTypeOK, Passwords
  <2>7. QED
    BY <1>t, <2>2, <2>4, <2>5, <2>6, AnswersKept DEF SessionsInv
<1>6. CASE DeleteUser
  <2>1. /\ UNCHANGED <<now, login, tokens, renewal, use>>
        /\ account'.password = account.password /\ account'.changed = account.changed
    BY <1>6, <1>t DEF DeleteUser, SessionsTypeOK, UserRow
  <2>2. Stamped' = Stamped
    BY <2>1 DEF Stamped
  <2>3. StampsArePast' /\ (\A t \in tokens : TokenHolds(t))'
    BY <2>1, <2>2 DEF SessionsInv, StampsArePast, TokenHolds
  <2>4. QED
    BY <1>t, <2>1, <2>3, LoginKept, AnswersKept DEF SessionsInv
<1>7. ASSUME NEW t \in tokens, StartUse(t) PROVE SessionsInv'
  <2>1. use'.pc = "verify" /\ use'.token = t
    BY <1>7 DEF StartUse, NoUse
  <2>2. TokensFollowPassword'
    BY <2>1 DEF TokensFollowPassword, OldTokensGo, NewTokensStay, Looked
  <2>3. QED
    BY <1>7, <1>t, <2>1, <2>2, TokensKept, LoginKept DEF StartUse, SessionsInv
<1>8. ASSUME NEW optional \in BOOLEAN, Verify(optional) PROVE SessionsInv'
  <2>1. use'.token = use.token /\ use.token \in tokens
    BY <1>8, <1>t DEF Verify, Concludes, SessionsInv, SessionsTypeOK
  <2>2. use'.pc = "lookup" \/ use'.by = "clock"
    BY <1>8, <1>t DEF Verify, Concludes, SessionsTypeOK
  <2>3. TokensFollowPassword'
    BY <2>2 DEF TokensFollowPassword, OldTokensGo, NewTokensStay, Looked
  <2>4. QED
    BY <1>8, <1>t, <2>1, <2>3, TokensKept, LoginKept DEF Verify, SessionsInv
<1>9. CASE LookUpChange
  <2>1. use.token \in tokens /\ TokenHolds(use.token)
    BY <1>9 DEF LookUpChange, SessionsInv
  <2>2. use'.pc = "done" /\ use'.token = use.token /\ use'.row = account
    BY <1>9, <1>t DEF LookUpChange, Concludes, SessionsTypeOK
  <2>3. \/ /\ use'.by = "row"
           /\ use'.answer = IF ChangedSince(use.token) THEN "refused" ELSE "accepted"
        \/ use'.by = "error"
    BY <1>9, <1>t DEF LookUpChange, Concludes, SessionsTypeOK
  <2>4. ASSUME use'.by = "row", ChangedSince(use.token) PROVE TokensFollowPassword'
    <3>1. use'.answer = "refused"
      BY <2>3, <2>4
    <3>2. account.changed \in Nat /\ 2 * use.token.iat < account.changed
      BY <1>t, <2>4, SessionsAssumption DEF ChangedSince, SessionsTypeOK, UserRow, Times, Never
    <3>3. account.changed = 2 * use.token.iat + 1
          \/ use.token.password # account.password
      BY <1>n, <2>1, <3>2 DEF TokenHolds
    <3>4. \A n \in Nat : (2 * n + 1) \div 2 = n
      OBVIOUS
    <3>5. use.token.iat = account.changed \div 2 \/ use.token.password # account.password
      BY <1>n, <2>1, <3>3, <3>4
    <3>6. QED
      BY <2>2, <3>1, <3>5 DEF TokensFollowPassword, OldTokensGo, NewTokensStay, Looked
  <2>5. ASSUME use'.by = "row", ~ChangedSince(use.token) PROVE TokensFollowPassword'
    <3>1. use'.answer = "accepted"
      BY <2>3, <2>5
    <3>2. account.changed = Never \/ account.changed <= 2 * use.token.iat
      BY <1>n, <2>1, <2>5 DEF ChangedSince
    <3>3. \/ use.token.password = account.password
          \/ use.token.beside \/ 2 * use.token.iat = account.changed
      BY <1>n, <2>1, <3>2 DEF TokenHolds, Never
    <3>4. QED
      BY <2>2, <3>1, <3>3 DEF TokensFollowPassword, OldTokensGo, NewTokensStay, Looked
  <2>6. ASSUME use'.by = "error" PROVE TokensFollowPassword'
    BY <2>6 DEF TokensFollowPassword, OldTokensGo, NewTokensStay, Looked
  <2>7. TokensFollowPassword'
    BY <2>3, <2>4, <2>5, <2>6
  <2>8. QED
    BY <1>9, <1>t, <2>2, <2>7, TokensKept, LoginKept DEF LookUpChange, SessionsInv
<1>10. CASE Tick
  <2>1. UNCHANGED <<account, login, tokens, renewal, use>> /\ now' = now + 1
    BY <1>10 DEF Tick
  <2>2. Stamped' = Stamped
    BY <2>1 DEF Stamped
  <2>3. StampsArePast' /\ (\A t \in tokens : TokenHolds(t))'
    <3>1. StampsArePast'
      BY <1>n, <2>1, <2>2 DEF SessionsInv, StampsArePast, Stamped
    <3>2. ASSUME NEW t \in tokens PROVE TokenHolds(t)'
      BY <1>n, <2>1, <2>2 DEF SessionsInv, TokenHolds
    <3>3. QED
      BY <2>1, <3>1, <3>2
  <2>4. QED
    BY <1>t, <2>1, <2>3, LoginKept, AnswersKept DEF SessionsInv
<1>11. CASE UNCHANGED sessionVars
  BY <1>11, <1>t, TokensKept, LoginKept, AnswersKept DEF sessionVars, SessionsInv
<1>12. QED
  BY <1>1, <1>2, <1>3, <1>4, <1>5, <1>6, <1>7, <1>8, <1>9, <1>10, <1>11 DEF SessionsNext

\* Whatever logins, changes of the password and requests interleave: a request that is
\* looked up is admitted when its token was issued for the password stored then, except in
\* the second of a change; and a token of an older password is turned away, except when its
\* login ran beside a change, or came at its very instant.
THEOREM SessionsFollowPassword == SessionsSpec => []TokensFollowPassword
<1>1. SessionsInv => TokensFollowPassword
  BY DEF SessionsInv
<1>2. QED
  BY <1>1, SessionsInvInit, SessionsInvNext, PTL DEF SessionsSpec

-----------------------------------------------------------------------------
(***************************************************************************)
(* Assets.  FilesFollowRows speaks only of places nobody is busy with, so  *)
(* it says nothing about the step that ends a request.  AssetInv adds, for *)
(* each place, what each request there still carries: the key it is about  *)
(* to write is stored and nobody else's, the file it is about to erase is  *)
(* the only one left behind, and the document it has yet to write.  A step *)
(* changes one place; Same and Local say that all others keep theirs.      *)
(***************************************************************************)
On(s, p) == errand[s].place = p
Unhurt(p) == p \notin hurt
Uncrowded(p) == p \notin crowded

\* Which requests a place gets.
Kinds(p, op) ==
    \/ p \in Threads /\ op \in {"create", "update", "remove", "delete"}
    \/ p \in Avatars /\ op = "image"

\* The awaited calls of each request.
Steps ==
    {"create"} \X {"write", "sync"} \union {"update", "remove"} \X {"erase", "write", "sync"}
    \union {"delete"} \X {"delete", "erase", "unindex"} \union {"image"} \X {"erase", "write"}

\* A row names a file of its own place; a row that is not there names none.
RowFits(p) ==
    LET f == row[p].names
    IN f # NoFile => row[p].state = "live" /\ f \in named /\ file[f].place = p

\* What a request at p carries.
Carries(p, j) ==
    /\ Kinds(p, j.op) /\ <<j.op, j.pc>> \in Steps
    /\ j.new # NoFile => file[j.new].place = p
    /\ j.old # NoFile => j.old \in named /\ file[j.old].place = p
    /\ j.op \in {"remove", "delete"} => j.new = NoFile
    /\ j.op = "remove" => p \in cleared
    /\ j.op = "image" => j.new # NoFile
    /\ j.pc = "erase" => j.old # NoFile /\ (j.op = "update" => j.new # NoFile)
    /\ j.op = "delete" /\ j.pc # "delete" => row[p].state = "gone"

ErrandsFit(p) == \A s \in Clerks : On(s, p) => Carries(p, errand[s])

Alone(p) == Uncrowded(p) => \A s, t \in Clerks : On(s, p) /\ On(t, p) => s = t

ToWrite(j) == j.pc \in {"erase", "write"} /\ j.new # NoFile

\* A key that no other request named is not in a row before its own request writes it.
FreshKeys(p) ==
    Unhurt(p) /\ p \notin again =>
        \A s \in Clerks : On(s, p) /\ ToWrite(errand[s]) =>
            /\ errand[s].new \notin named /\ file[errand[s].new].state = "stored"
            /\ \A t \in Clerks : On(t, p) /\ t # s => errand[t].new # errand[s].new

\* A request that is alone erases what the row names, unless it is what it will write.
SoleKeys(p) ==
    Unhurt(p) /\ Uncrowded(p) =>
        \A s \in Clerks : On(s, p) /\ ToWrite(errand[s]) =>
            LET j == errand[s]  f == row[p].names
            IN /\ file[j.new].state = "stored"
               /\ j.pc = "erase" => j.old = f /\ j.old # j.new
               /\ j.pc = "write" => f \in {NoFile, j.new} \/ file[f].state = "erased"

\* A file that a row names is there, or a request is about to write another.
Overwrites(j) == j.pc = "write" /\ (j.new # NoFile \/ j.op = "remove")
Spared(p) == Unhurt(p) /\ p \notin crowded \intersect again /\ (assetStore = "postgres" => p \notin cleared)
NamesKept(p) ==
    Spared(p) /\ ~NamedIsStored(p) => \E s \in Clerks : On(s, p) /\ Overwrites(errand[s])

\* A file that a row named is erased, or a request is about to.
LeftGone(p) ==
    Unhurt(p) /\ p \notin Backdrops \union crowded \union cleared =>
        \A f \in named : file[f].place = p /\ row[p].names # f /\ file[f].state # "erased" =>
            \E s \in Clerks : /\ On(s, p) /\ errand[s].op = "delete"
                              /\ errand[s].pc = "erase" /\ errand[s].old = f

\* How far the search document follows beside a request.
Follows(p, j) ==
    LET f == row[p].names
    IN /\ j.op = "create" => j.pc = "write" \/ j.shown = f
       /\ j.op = "update" => \/ j.pc # "sync" /\ doc[p] = f
                             \/ /\ j.pc = "sync" /\ j.shown = f
                                /\ doc[p] # Unindexed /\ (f = NoFile => doc[p] = NoFile)
       /\ j.op = "delete" => doc[p] = f
DocFollows(p) ==
    p \in Threads /\ p \notin crowded \union cleared \union hurt /\ row[p].state = "live" =>
        /\ ~Busied(p) => doc[p] = row[p].names
        /\ \A s \in Clerks : On(s, p) => Follows(p, errand[s])

PlaceInv(p) ==
    /\ RowFits(p) /\ ErrandsFit(p) /\ Alone(p) /\ FreshKeys(p) /\ SoleKeys(p)
    /\ NamesKept(p) /\ LeftGone(p) /\ DocFollows(p)

\* A slot without a request carries nothing; who has one has a place.
SlotsFit == \A s \in Clerks : (errand[s].op = "none" \/ errand[s].place = NoPlace)
                                  => errand[s] = NoErrand
FilesFit == \A f \in Files : f \in named \/ file[f].state # "unused" => file[f].place \in Places
AssetInv == AssetsTypeOK /\ SlotsFit /\ FilesFit /\ \A p \in Places : PlaceInv(p)

LEMMA FileNumbers ==
    /\ NoFile \notin Files /\ Unindexed \notin Files \union {NoFile}
    /\ NoPlace \notin Places
BY AssetAssumption DEF NoFile, Files, Unindexed

LEMMA PlacesApart ==
    /\ Threads \intersect Avatars = {} /\ Threads \intersect Backdrops = {}
    /\ Avatars \intersect Backdrops = {}
    /\ Threads \subseteq Places /\ Avatars \subseteq Places /\ Backdrops \subseteq Places
BY AssetAssumption DEF Places

RowType == [state : {"none", "live", "gone"}, names : Files \union {NoFile}]
FileType == [place : Places \union {NoPlace}, state : {"unused", "stored", "erased"}]

LEMMA AssetFacts ==
    ASSUME AssetsTypeOK
    PROVE  /\ file \in [Files -> FileType] /\ row \in [Places -> RowType]
           /\ doc \in [Threads -> Files \union {NoFile, Unindexed}] /\ errand \in [Clerks -> Errands]
           /\ \A p \in Places : row[p].names \in Files \union {NoFile}
           /\ named \in SUBSET Files
BY DEF AssetsTypeOK, RowType, FileType

LEMMA ErrandFacts ==
    ASSUME AssetsTypeOK, NEW s \in Clerks
    PROVE  /\ errand[s] \in Errands /\ errand[s].place \in Places \union {NoPlace}
           /\ errand[s].new \in Files \union {NoFile} /\ errand[s].old \in Files \union {NoFile}
           /\ errand[s].shown \in Files \union {NoFile}
<1>1. errand[s] \in Errands
  BY AssetFacts
<1>2. QED
  BY <1>1 DEF Errands

LEMMA NoErrandIs ==
    /\ NoErrand \in Errands /\ NoErrand.op = "none" /\ NoErrand.place = NoPlace /\ NoErrand.new = NoFile
    /\ NoErrand.pc = "idle" /\ NoErrand.old = NoFile /\ NoErrand.shown = NoFile
BY DEF NoErrand, Errands

LEMMA ServesIs ==
    ASSUME AssetsTypeOK, NEW s \in Clerks, NEW j, Serves(s, j)
    PROVE  errand'[s] = j /\ \A t \in Clerks : t # s => errand'[t] = errand[t]
BY AssetFacts DEF Serves

LEMMA ServesType ==
    ASSUME AssetsTypeOK, NEW s \in Clerks, NEW j \in Errands, Serves(s, j)
    PROVE  errand' \in [Clerks -> Errands]
BY AssetFacts DEF Serves

LEMMA SetsIs ==
    ASSUME AssetsTypeOK, NEW p \in Places, NEW f \in Files \union {NoFile},
           NEW state \in {"none", "live", "gone"}, Sets(p, state, f)
    PROVE  /\ row' \in [Places -> RowType] /\ row'[p].state = state /\ row'[p].names = f
           /\ \A q \in Places : q # p => row'[q] = row[q]
BY AssetFacts DEF Sets, RowType

\* What a place is told of a step that takes place elsewhere.
Same(p) ==
    /\ row'[p] = row[p] /\ (p \in Threads => doc'[p] = doc[p])
    /\ \A s \in Clerks : On(s, p) \/ On(s, p)' => errand'[s] = errand[s]
    /\ \A f \in Files : file[f].place = p => file'[f] = file[f]
    /\ \A f \in named' : file'[f].place = p => f \in named /\ file[f].place = p
    /\ named \subseteq named' /\ hurt \subseteq hurt' /\ crowded \subseteq crowded'
    /\ again \subseteq again' /\ cleared \subseteq cleared' /\ assetStore' = assetStore

LEMMA Elsewhere ==
    ASSUME AssetInv, NEW p \in Places, Same(p) PROVE PlaceInv(p)'
<1>0. PlaceInv(p) /\ AssetsTypeOK /\ named \in SUBSET Files /\ row[p].names \in Files \union {NoFile}
  <2>1. PlaceInv(p) /\ AssetsTypeOK
    BY DEF AssetInv
  <2>2. QED
    BY <2>1, AssetFacts
<1>1. row'[p] = row[p] /\ \A f \in named : file[f].place = p => file'[f] = file[f]
  BY <1>0 DEF Same
<1>2. \A s \in Clerks : /\ On(s, p)' <=> On(s, p)
                        /\ On(s, p) => errand'[s] = errand[s]
  BY DEF Same, On
<1>3. \A s \in Clerks : On(s, p) => /\ Carries(p, errand[s])
                                    /\ errand[s].new # NoFile => file'[errand[s].new] = file[errand[s].new]
                                    /\ errand[s].old # NoFile => file'[errand[s].old] = file[errand[s].old]
  <2> SUFFICES ASSUME NEW s \in Clerks, On(s, p)
               PROVE  /\ Carries(p, errand[s])
                      /\ errand[s].new # NoFile => file'[errand[s].new] = file[errand[s].new]
                      /\ errand[s].old # NoFile => file'[errand[s].old] = file[errand[s].old]
    OBVIOUS
  <2>1. Carries(p, errand[s])
    BY <1>0 DEF PlaceInv, ErrandsFit
  <2>2. errand[s].new \in Files \union {NoFile} /\ errand[s].old \in Files \union {NoFile}
    BY <1>0, ErrandFacts
  <2>3. QED
    BY <2>1, <2>2 DEF Carries, Same
<1>4. RowFits(p)'
  BY <1>0, <1>1 DEF PlaceInv, RowFits, Same
<1>5. ErrandsFit(p)'
  <2> SUFFICES ASSUME NEW s \in Clerks, On(s, p) PROVE Carries(p, errand[s])'
    BY <1>2 DEF ErrandsFit
  <2>1. errand'[s] = errand[s]
    BY <1>2
  <2>2. QED
    BY <1>1, <1>3, <2>1 DEF Carries, Same
<1>6. Alone(p)'
  BY <1>0, <1>2 DEF PlaceInv, Alone, Uncrowded, Same
<1>7. FreshKeys(p)'
  <2> SUFFICES ASSUME p \notin hurt', p \notin again', NEW s \in Clerks, On(s, p), ToWrite(errand[s])
               PROVE  /\ errand[s].new \notin named' /\ file'[errand[s].new].state = "stored"
                      /\ \A t \in Clerks : On(t, p) /\ t # s => errand[t].new # errand[s].new
    BY <1>2 DEF FreshKeys, Unhurt, ToWrite
  <2>1. /\ errand[s].new \notin named /\ file[errand[s].new].state = "stored"
        /\ \A t \in Clerks : On(t, p) /\ t # s => errand[t].new # errand[s].new
    BY <1>0 DEF PlaceInv, FreshKeys, Unhurt, Same
  <2>2. file'[errand[s].new] = file[errand[s].new] /\ file[errand[s].new].place = p
    BY <1>3 DEF Carries, ToWrite
  <2>3. QED
    BY <2>1, <2>2 DEF Same
<1>8. SoleKeys(p)'
  <2> SUFFICES ASSUME p \notin hurt', p \notin crowded', NEW s \in Clerks, On(s, p), ToWrite(errand[s])
               PROVE  /\ file'[errand[s].new].state = "stored"
                      /\ errand[s].pc = "erase" => errand[s].old = row[p].names /\ errand[s].old # errand[s].new
                      /\ errand[s].pc = "write" => \/ row[p].names \in {NoFile, errand[s].new}
                                                   \/ file'[row[p].names].state = "erased"
    BY <1>1, <1>2 DEF SoleKeys, Unhurt, Uncrowded, ToWrite
  <2>1. /\ file[errand[s].new].state = "stored"
        /\ errand[s].pc = "erase" => errand[s].old = row[p].names /\ errand[s].old # errand[s].new
        /\ errand[s].pc = "write" => \/ row[p].names \in {NoFile, errand[s].new}
                                     \/ file[row[p].names].state = "erased"
    BY <1>0 DEF PlaceInv, SoleKeys, Unhurt, Uncrowded, Same
  <2>2. file'[errand[s].new] = file[errand[s].new]
    BY <1>3 DEF ToWrite
  <2>3. row[p].names # NoFile => file'[row[p].names] = file[row[p].names]
    BY <1>0, <1>1 DEF PlaceInv, RowFits
  <2>4. QED
    BY <2>1, <2>2, <2>3
<1>9. NamesKept(p)'
  <2> SUFFICES ASSUME Spared(p)', ~NamedIsStored(p)' PROVE \E s \in Clerks : On(s, p) /\ Overwrites(errand[s])
    BY <1>2 DEF NamesKept, Overwrites
  <2>1. row[p].names # NoFile => file'[row[p].names] = file[row[p].names]
    BY <1>0, <1>1 DEF PlaceInv, RowFits
  <2>2. ~NamedIsStored(p)
    BY <1>1, <2>1 DEF NamedIsStored
  <2>3. Spared(p)
    BY DEF Spared, Unhurt, Same
  <2>4. QED
    BY <1>0, <2>2, <2>3 DEF PlaceInv, NamesKept
<1>10. LeftGone(p)'
  <2> SUFFICES ASSUME p \notin hurt', p \notin Backdrops \union crowded' \union cleared',
                      NEW f \in named', file'[f].place = p, row[p].names # f, file'[f].state # "erased"
               PROVE  \E s \in Clerks : /\ On(s, p) /\ errand[s].op = "delete"
                                        /\ errand[s].pc = "erase" /\ errand[s].old = f
    BY <1>1, <1>2 DEF LeftGone, Unhurt
  <2>1. f \in named /\ file[f].place = p /\ file'[f] = file[f]
    BY <1>0 DEF Same
  <2>2. QED
    BY <1>0, <2>1 DEF PlaceInv, LeftGone, Unhurt, Same
<1>11. DocFollows(p)'
  <2> SUFFICES ASSUME p \in Threads, p \notin crowded' \union cleared' \union hurt', row[p].state = "live"
               PROVE  /\ ~Busied(p)' => doc'[p] = row[p].names
                      /\ \A s \in Clerks : On(s, p)' => Follows(p, errand[s])'
    BY <1>1 DEF DocFollows
  <2>1. doc'[p] = doc[p] /\ p \notin crowded \union cleared \union hurt
    BY DEF Same
  <2>2. /\ ~Busied(p) => doc[p] = row[p].names
        /\ \A s \in Clerks : On(s, p) => Follows(p, errand[s])
    BY <1>0, <2>1 DEF PlaceInv, DocFollows
  <2>3. Busied(p)' <=> Busied(p)
    BY <1>2 DEF Busied, On
  <2>4. \A s \in Clerks : On(s, p) => (Follows(p, errand[s])' <=> Follows(p, errand[s]))
    BY <1>1, <1>2, <2>1 DEF Follows
  <2>5. QED
    BY <1>2, <2>1, <2>2, <2>3, <2>4
<1>12. QED
  BY <1>4, <1>5, <1>6, <1>7, <1>8, <1>9, <1>10, <1>11 DEF PlaceInv

\* A step of one request, as all other places see it.
Local(q) ==
    /\ \A p \in Places : p # q => row'[p] = row[p] /\ (p \in Threads => doc'[p] = doc[p])
    /\ \A s \in Clerks : \/ errand'[s] = errand[s]
                         \/ errand[s].place \in {q, NoPlace} /\ errand'[s].place \in {q, NoPlace}
    /\ \A f \in Files : file'[f].place = file[f].place /\ (file[f].place # q => file'[f] = file[f])
    /\ \A f \in named' : f \in named \/ file[f].place = q
    /\ named \subseteq named' /\ named' \subseteq Files /\ hurt \subseteq hurt' /\ crowded \subseteq crowded'
    /\ again \subseteq again' /\ cleared \subseteq cleared' /\ assetStore' = assetStore

LEMMA LocalIsSame ==
    ASSUME NEW q \in Places, Local(q), NEW p \in Places, p # q PROVE Same(p)
BY FileNumbers DEF Local, Same, On

LEMMA OtherPlaces ==
    ASSUME AssetInv, NEW q \in Places, Local(q), PlaceInv(q)'
    PROVE  \A p \in Places : PlaceInv(p)'
<1>1. ASSUME NEW p \in Places, p # q PROVE PlaceInv(p)'
  BY <1>1, LocalIsSame, Elsewhere
<1>2. QED
  BY <1>1

-----------------------------------------------------------------------------
\* The place at which a request takes a step.
LEMMA ErrandHere ==
    ASSUME AssetInv, NEW s \in Clerks, errand[s] # NoErrand
    PROVE  /\ errand[s].place \in Places /\ errand[s].op # "none"
           /\ PlaceInv(errand[s].place) /\ Carries(errand[s].place, errand[s])
<1>1. errand[s].op # "none" /\ errand[s].place # NoPlace
  BY DEF AssetInv, SlotsFit
<1>2. errand[s].place \in Places
  BY <1>1, ErrandFacts DEF AssetInv
<1>3. PlaceInv(errand[s].place)
  BY <1>2 DEF AssetInv
<1>4. QED
  BY <1>1, <1>2, <1>3 DEF PlaceInv, ErrandsFit, On

\* Nothing more is said of a place where a call failed.
LEMMA HurtHere ==
    ASSUME NEW q, q \in hurt', RowFits(q)', ErrandsFit(q)', Alone(q)' PROVE PlaceInv(q)'
BY DEF PlaceInv, FreshKeys, SoleKeys, NamesKept, Spared, LeftGone, DocFollows, Unhurt

\* A request takes a slot.
LEMMA TakesHere ==
    ASSUME AssetInv, NEW s \in Clerks, NEW q \in Places, NEW j \in Errands, j.place = q, Takes(s, j),
           Carries(q, j)', cleared \subseteq cleared', cleared' \subseteq cleared \union {q},
           j.op # "remove" => UNCHANGED cleared,
           \A p \in Places : p # q => row'[p] = row[p],
           \/ row'[q] = row[q]
           \/ row[q].state = "none" /\ row'[q].state = "live" /\ row'[q].names = NoFile,
           j.new # NoFile => file[j.new].state = "stored",
           j.pc = "erase" /\ ToWrite(j) => j.old = row[q].names /\ j.old # j.new,
           j.pc = "write" /\ ToWrite(j) => row[q].names \in {NoFile, j.new},
           row'[q].state = "live" /\ j.op # "remove" /\ q \notin crowded' /\ DocFollows(q) /\ ~Busied(q)
              /\ q \in Threads /\ q \notin crowded \union cleared \union hurt
              => Follows(q, j)'
    PROVE  PlaceInv(q)' /\ Local(q)
<1>0. /\ PlaceInv(q) /\ AssetsTypeOK /\ named \in SUBSET Files /\ row[q].names \in Files \union {NoFile}
      /\ errand[s] = NoErrand /\ UNCHANGED <<assetStore, file, doc, named, hurt, mishaps>>
      /\ crowded \subseteq crowded' /\ again \subseteq again'
  <2>1. errand[s] = NoErrand
    BY DEF Takes, AssetInv, SlotsFit
  <2>2. PlaceInv(q) /\ AssetsTypeOK
    BY DEF AssetInv
  <2>3. QED
    BY <2>1, <2>2, AssetFacts DEF Takes
<1>1. errand'[s] = j /\ \A t \in Clerks : t # s => errand'[t] = errand[t]
  BY <1>0, ServesIs DEF Takes
<1>2. errand[s].place = NoPlace /\ NoPlace # q /\ q # errand[s].place
  BY <1>0, NoErrandIs, FileNumbers
<1>3. On(s, q)' /\ ~On(s, q) /\ \A t \in Clerks : t # s => (On(t, q)' <=> On(t, q))
  BY <1>1, <1>2 DEF On
<1>4. q \notin crowded' => ~Busied(q) /\ q \notin crowded
  BY <1>0 DEF Takes
<1>5. q \notin crowded' => \A t \in Clerks : On(t, q)' => t = s
  BY <1>3, <1>4 DEF Busied, On
<1>6. q \notin again' /\ j.new # NoFile => /\ q \notin again /\ j.new \notin named
                                          /\ \A t \in Clerks : errand[t].new # j.new
  BY <1>0 DEF Takes, Sent
<1>7. row'[q].names = row[q].names /\ (row[q].state = "live" => row'[q] = row[q])
      /\ (row[q].state = "gone" => row'[q] = row[q])
  BY <1>0 DEF PlaceInv, RowFits
<1>8. Local(q)
  BY <1>0, <1>1, <1>2 DEF Local, PlaceInv
<1>9. RowFits(q)'
  BY <1>0, <1>7 DEF PlaceInv, RowFits
<1>10. ErrandsFit(q)'
  <2> SUFFICES ASSUME NEW t \in Clerks, t # s, On(t, q) PROVE Carries(q, errand[t])'
    BY <1>1, <1>3 DEF ErrandsFit
  <2>1. Carries(q, errand[t]) /\ errand'[t] = errand[t]
    BY <1>0, <1>1 DEF PlaceInv, ErrandsFit
  <2>2. QED
    BY <1>0, <1>7, <2>1 DEF Carries
<1>11. Alone(q)'
  BY <1>5 DEF Alone, Uncrowded
<1>12. FreshKeys(q)'
  <2> SUFFICES ASSUME q \notin hurt', q \notin again', NEW t \in Clerks, On(t, q)', ToWrite(errand[t])'
               PROVE  /\ errand'[t].new \notin named /\ file[errand'[t].new].state = "stored"
                      /\ \A u \in Clerks : On(u, q)' /\ u # t => errand'[u].new # errand'[t].new
    BY <1>0 DEF FreshKeys, Unhurt
  <2>1. CASE t = s
    <3>1. j.new # NoFile
      BY <1>1, <2>1 DEF ToWrite
    <3>2. QED
      BY <1>1, <1>6, <2>1, <3>1
  <2>2. CASE t # s
    <3>1. errand'[t] = errand[t] /\ On(t, q) /\ ToWrite(errand[t])
      BY <1>1, <1>3, <2>2 DEF ToWrite
    <3>2. /\ errand[t].new \notin named /\ file[errand[t].new].state = "stored"
          /\ \A u \in Clerks : On(u, q) /\ u # t => errand[u].new # errand[t].new
      BY <1>0, <3>1 DEF PlaceInv, FreshKeys, Unhurt
    <3>3. j.new # errand[t].new
      BY <1>6, <3>1 DEF ToWrite
    <3>4. QED
      BY <1>1, <1>3, <3>1, <3>2, <3>3
  <2>3. QED
    BY <2>1, <2>2
<1>13. SoleKeys(q)'
  <2> SUFFICES ASSUME q \notin hurt', q \notin crowded', ToWrite(j)
               PROVE  /\ file[j.new].state = "stored"
                      /\ j.pc = "erase" => j.old = row[q].names /\ j.old # j.new
                      /\ j.pc = "write" => row[q].names \in {NoFile, j.new}
    BY <1>0, <1>1, <1>5, <1>7 DEF SoleKeys, Unhurt, Uncrowded, ToWrite
  <2>1. QED
    BY DEF ToWrite
<1>14. NamesKept(q)'
  <2> SUFFICES ASSUME Spared(q)', ~NamedIsStored(q)' PROVE \E t \in Clerks : On(t, q)' /\ Overwrites(errand[t])'
    BY DEF NamesKept
  <2>1. Spared(q) /\ ~NamedIsStored(q)
    BY <1>0, <1>7 DEF Spared, NamedIsStored, Unhurt
  <2>2. PICK t \in Clerks : On(t, q) /\ Overwrites(errand[t])
    BY <1>0, <2>1 DEF PlaceInv, NamesKept
  <2>3. t # s
    BY <1>3, <2>2
  <2>4. QED
    BY <1>1, <1>3, <2>2, <2>3 DEF Overwrites
<1>15. LeftGone(q)'
  <2> SUFFICES ASSUME q \notin hurt', q \notin Backdrops \union crowded' \union cleared',
                      NEW f \in named, file[f].place = q, row[q].names # f, file[f].state # "erased"
               PROVE  \E t \in Clerks : /\ On(t, q)' /\ errand'[t].op = "delete"
                                        /\ errand'[t].pc = "erase" /\ errand'[t].old = f
    BY <1>0, <1>7 DEF LeftGone, Unhurt
  <2>1. q \notin crowded \union cleared
    BY <1>4
  <2>2. PICK t \in Clerks : /\ On(t, q) /\ errand[t].op = "delete"
                            /\ errand[t].pc = "erase" /\ errand[t].old = f
    BY <1>0, <2>1 DEF PlaceInv, LeftGone, Unhurt
  <2>3. t # s
    BY <1>3, <2>2
  <2>4. QED
    BY <1>1, <1>3, <2>2, <2>3
<1>16. DocFollows(q)'
  <2> SUFFICES ASSUME q \in Threads, q \notin crowded' \union cleared' \union hurt', row'[q].state = "live"
               PROVE  /\ Busied(q)'
                      /\ \A t \in Clerks : On(t, q)' => Follows(q, errand[t])'
    BY DEF DocFollows
  <2>1. Busied(q)'
    BY <1>3 DEF Busied, On
  <2>2. j.op # "remove"
    BY DEF Carries
  <2>3. Follows(q, j)'
    BY <1>0, <1>4, <2>2 DEF PlaceInv
  <2>4. ASSUME NEW t \in Clerks, On(t, q)' PROVE Follows(q, errand[t])'
    <3>1. t = s
      BY <1>5, <2>4
    <3>2. QED
      BY <1>1, <2>3, <3>1 DEF Follows
  <2>5. QED
    BY <2>1, <2>4
<1>17. QED
  BY <1>8, <1>9, <1>10, <1>11, <1>12, <1>13, <1>14, <1>15, <1>16 DEF PlaceInv

\* A request leaves its slot and changed no row and no file in this step.
LEMMA LeavesHere ==
    ASSUME AssetInv, NEW s \in Clerks, NEW q \in Places, On(s, q), Done(s),
           UNCHANGED <<assetStore, row, file, named, crowded, again, cleared>>, hurt \subseteq hurt',
           \A p \in Places : p # q /\ p \in Threads => doc'[p] = doc[p]
    PROVE  /\ RowFits(q)' /\ ErrandsFit(q)' /\ Alone(q)' /\ FreshKeys(q)' /\ SoleKeys(q)' /\ Local(q)
           /\ ~Overwrites(errand[s]) \/ row[q].names = NoFile => NamesKept(q)'
           /\ ~(errand[s].op = "delete" /\ errand[s].pc = "erase") => LeftGone(q)'
           /\ Alone(q) /\ q \notin crowded => ~Busied(q)'
<1>0. PlaceInv(q) /\ AssetsTypeOK /\ named \in SUBSET Files
  BY AssetFacts DEF AssetInv
<1>1. errand'[s] = NoErrand /\ \A t \in Clerks : t # s => errand'[t] = errand[t]
  BY <1>0, ServesIs DEF Done
<1>2. ~On(s, q)' /\ \A t \in Clerks : t # s => (On(t, q)' <=> On(t, q))
  BY <1>1, NoErrandIs, FileNumbers DEF On
<1>3. \A t \in Clerks : On(t, q)' => On(t, q) /\ errand'[t] = errand[t] /\ t # s
  BY <1>1, <1>2
<1>4. Local(q)
  BY <1>0, <1>1, NoErrandIs DEF Local, On
<1>5. RowFits(q)'
  BY <1>0 DEF PlaceInv, RowFits
<1>6. ErrandsFit(q)'
  <2> SUFFICES ASSUME NEW t \in Clerks, On(t, q)' PROVE Carries(q, errand[t])'
    BY DEF ErrandsFit
  <2>1. Carries(q, errand[t]) /\ errand'[t] = errand[t]
    BY <1>0, <1>3 DEF PlaceInv, ErrandsFit
  <2>2. QED
    BY <2>1 DEF Carries
<1>7. Alone(q)'
  BY <1>0, <1>3 DEF PlaceInv, Alone, Uncrowded
<1>8. FreshKeys(q)'
  <2> SUFFICES ASSUME q \notin hurt, q \notin again, NEW t \in Clerks, On(t, q)', ToWrite(errand[t])'
               PROVE  /\ errand'[t].new \notin named /\ file[errand'[t].new].state = "stored"
                      /\ \A u \in Clerks : On(u, q)' /\ u # t => errand'[u].new # errand'[t].new
    BY DEF FreshKeys, Unhurt
  <2>1. errand'[t] = errand[t] /\ On(t, q) /\ ToWrite(errand[t])
    BY <1>3 DEF ToWrite
  <2>2. /\ errand[t].new \notin named /\ file[errand[t].new].state = "stored"
        /\ \A u \in Clerks : On(u, q) /\ u # t => errand[u].new # errand[t].new
    BY <1>0, <2>1 DEF PlaceInv, FreshKeys, Unhurt
  <2>3. QED
    BY <1>3, <2>1, <2>2
<1>9. SoleKeys(q)'
  <2> SUFFICES ASSUME q \notin hurt, q \notin crowded, NEW t \in Clerks, On(t, q)', ToWrite(errand[t])'
               PROVE  /\ file[errand'[t].new].state = "stored"
                      /\ errand'[t].pc = "erase" => errand'[t].old = row[q].names /\ errand'[t].old # errand'[t].new
                      /\ errand'[t].pc = "write" => \/ row[q].names \in {NoFile, errand'[t].new}
                                                    \/ file[row[q].names].state = "erased"
    BY DEF SoleKeys, Unhurt, Uncrowded
  <2>1. errand'[t] = errand[t] /\ On(t, q) /\ ToWrite(errand[t])
    BY <1>3 DEF ToWrite
  <2>2. QED
    BY <1>0, <2>1 DEF PlaceInv, SoleKeys, Unhurt, Uncrowded
<1>10. ASSUME ~Overwrites(errand[s]) \/ row[q].names = NoFile PROVE NamesKept(q)'
  <2> SUFFICES ASSUME Spared(q)', ~NamedIsStored(q)' PROVE \E t \in Clerks : On(t, q)' /\ Overwrites(errand[t])'
    BY DEF NamesKept
  <2>1. Spared(q) /\ ~NamedIsStored(q) /\ row[q].names # NoFile
    BY DEF Spared, NamedIsStored, Unhurt
  <2>2. PICK t \in Clerks : On(t, q) /\ Overwrites(errand[t])
    BY <1>0, <2>1 DEF PlaceInv, NamesKept
  <2>3. t # s
    BY <1>10, <2>1, <2>2
  <2>4. QED
    BY <1>1, <1>2, <2>2, <2>3 DEF Overwrites
<1>11. ASSUME ~(errand[s].op = "delete" /\ errand[s].pc = "erase") PROVE LeftGone(q)'
  <2> SUFFICES ASSUME q \notin hurt, q \notin Backdrops \union crowded \union cleared,
                      NEW f \in named, file[f].place = q, row[q].names # f, file[f].state # "erased"
               PROVE  \E t \in Clerks : /\ On(t, q)' /\ errand'[t].op = "delete"
                                        /\ errand'[t].pc = "erase" /\ errand'[t].old = f
    BY DEF LeftGone, Unhurt
  <2>1. PICK t \in Clerks : /\ On(t, q) /\ errand[t].op = "delete"
                            /\ errand[t].pc = "erase" /\ errand[t].old = f
    BY <1>0 DEF PlaceInv, LeftGone, Unhurt
  <2>2. t # s
    BY <1>11, <2>1
  <2>3. QED
    BY <1>1, <1>2, <2>1, <2>2
<1>12. Alone(q) /\ q \notin crowded => ~Busied(q)'
  BY <1>3 DEF Alone, Uncrowded, Busied, On
<1>13. QED
  BY <1>4, <1>5, <1>6, <1>7, <1>8, <1>9, <1>10, <1>11, <1>12

LEMMA CallsAre ==
    /\ \A pc \in {"write", "sync"} : <<"create", pc>> \in Steps
    /\ \A pc \in {"erase", "write", "sync"} : <<"update", pc>> \in Steps /\ <<"remove", pc>> \in Steps
    /\ \A pc \in {"delete", "erase", "unindex"} : <<"delete", pc>> \in Steps
    /\ \A pc \in {"erase", "write"} : <<"image", pc>> \in Steps
BY DEF Steps

LEMMA TakesTyped ==
    ASSUME AssetInv, NEW s \in Clerks, NEW j \in Errands, Takes(s, j), j.place \in Places, j.op # "none",
           row' \in [Places -> RowType], cleared' \subseteq Threads
    PROVE  AssetsTypeOK' /\ SlotsFit' /\ FilesFit'
<1>0. /\ AssetsTypeOK /\ SlotsFit /\ FilesFit /\ UNCHANGED <<assetStore, file, doc, named, hurt, mishaps>>
      /\ Serves(s, j)
  BY DEF AssetInv, Takes
<1>1. errand' \in [Clerks -> Errands]
  BY <1>0, ServesType
<1>2. jobs' \in 0..MaxJobs
  BY <1>0, AssetAssumption DEF Takes, AssetsTypeOK
<1>3. crowded' \subseteq Places /\ again' \subseteq Places
  BY <1>0 DEF Takes, AssetsTypeOK
<1>4. AssetsTypeOK'
  BY <1>0, <1>1, <1>2, <1>3 DEF AssetsTypeOK, RowType
<1>5. SlotsFit'
  <2>1. errand'[s] = j /\ \A t \in Clerks : t # s => errand'[t] = errand[t]
    BY <1>0, ServesIs
  <2>2. j.place # NoPlace
    BY FileNumbers
  <2>3. QED
    BY <1>0, <2>1, <2>2 DEF SlotsFit
<1>6. FilesFit'
  BY <1>0 DEF FilesFit
<1>7. QED
  BY <1>4, <1>5, <1>6

LEMMA StepHolds ==
    ASSUME AssetInv, NEW q \in Places, Local(q), PlaceInv(q)', AssetsTypeOK', SlotsFit', FilesFit'
    PROVE  AssetInv'
BY OtherPlaces DEF AssetInv

LEMMA OfferedIs ==
    ASSUME AssetInv, NEW p, NEW f \in Offered(p)
    PROVE  f \in Files /\ f # NoFile /\ file[f].place = p /\ file[f].state = "stored"
BY FileNumbers DEF Offered

LEMMA StartCreateHolds ==
    ASSUME AssetInv, NEW s \in Clerks, NEW q \in Threads, NEW f \in Offered(q) \union {NoFile},
           StartCreate(s, q, f)
    PROVE  AssetInv'
<1> DEFINE j == [NoErrand EXCEPT !.op = "create", !.place = q, !.new = f,
                                 !.pc = IF f = NoFile THEN "sync" ELSE "write"]
<1>0. q \in Places /\ f \in Files \union {NoFile} /\ AssetsTypeOK /\ PlaceInv(q) /\ (f # NoFile => file[f].place = q /\ file[f].state = "stored")
  BY PlacesApart, OfferedIs DEF AssetInv
<1>1. Takes(s, j) /\ Sets(q, "live", NoFile) /\ row[q].state = "none" /\ UNCHANGED cleared
  BY DEF StartCreate
<1>2. /\ j.op = "create" /\ j.place = q /\ j.new = f /\ j.old = NoFile /\ j.shown = NoFile
      /\ j.pc = IF f = NoFile THEN "sync" ELSE "write"
      /\ j \in Errands
  <2>1. PICK pc \in {"sync", "write"} : pc = IF f = NoFile THEN "sync" ELSE "write"
    OBVIOUS
  <2>2. j = [NoErrand EXCEPT !.op = "create", !.place = q, !.new = f, !.pc = pc]
    BY <2>1
  <2> HIDE DEF j
  <2>3. QED
    BY <1>0, <2>1, <2>2, NoErrandIs DEF Errands
<1> HIDE DEF j
<1>3. /\ row' \in [Places -> RowType] /\ row'[q].state = "live" /\ row'[q].names = NoFile
      /\ \A p \in Places : p # q => row'[p] = row[p]
  BY <1>0, <1>1, SetsIs
<1>4. row[q].names = NoFile
  BY <1>0, <1>1 DEF PlaceInv, RowFits
<1>5. Carries(q, j)'
  BY <1>0, <1>1, <1>2 DEF Takes, Carries, Kinds, Steps
<1>6. cleared' \subseteq Threads
  BY <1>0, <1>1 DEF AssetsTypeOK
<1>7. Follows(q, j)'
  BY <1>2, <1>3 DEF Follows
<1>8. PlaceInv(q)' /\ Local(q)
  BY <1>0, <1>1, <1>2, <1>3, <1>4, <1>5, <1>7, TakesHere
<1>9. AssetsTypeOK' /\ SlotsFit' /\ FilesFit'
  BY <1>0, <1>1, <1>2, <1>3, <1>6, TakesTyped
<1>10. QED
  BY <1>0, <1>8, <1>9, StepHolds

LEMMA StartUpdateHolds ==
    ASSUME AssetInv, NEW s \in Clerks, NEW q \in Threads, NEW f \in Offered(q) \union {NoFile},
           StartUpdateThumbnail(s, q, f)
    PROVE  AssetInv'
<1>0. /\ q \in Places /\ f \in Files \union {NoFile} /\ AssetsTypeOK /\ PlaceInv(q)
      /\ f # NoFile => file[f].place = q /\ file[f].state = "stored"
      /\ row[q].names \in Files \union {NoFile} /\ row \in [Places -> RowType]
  <2>1. AssetsTypeOK /\ q \in Places
    BY PlacesApart DEF AssetInv
  <2>2. QED
    BY <2>1, OfferedIs, AssetFacts DEF AssetInv
<1>1. PICK pc \in IF f = NoFile THEN {"write", "sync"}
                  ELSE IF Outdated(row[q].names, f) THEN {"erase"} ELSE {"write"} :
         Takes(s, [NoErrand EXCEPT !.op = "update", !.place = q, !.new = f, !.pc = pc,
                                   !.old = row[q].names, !.shown = row[q].names])
  BY DEF StartUpdateThumbnail
<1> DEFINE k == [NoErrand EXCEPT !.op = "update", !.place = q, !.new = f, !.pc = pc,
                                 !.old = row[q].names, !.shown = row[q].names]
<1>2. row[q].state = "live" /\ UNCHANGED <<row, cleared>> /\ Takes(s, k)
  BY <1>1 DEF StartUpdateThumbnail
<1>3. /\ k.op = "update" /\ k.place = q /\ k.new = f /\ k.old = row[q].names /\ k.shown = row[q].names
      /\ k.pc = pc /\ k \in Errands /\ pc \in {"write", "sync", "erase"}
  <2>1. pc \in {"write", "sync", "erase"}
    BY <1>1
  <2>2. QED
    BY <1>0, <2>1, NoErrandIs DEF Errands
<1> HIDE DEF k
<1>j. PICK j \in Errands :
        /\ Takes(s, j) /\ j.op = "update" /\ j.place = q /\ j.new = f /\ j.old = row[q].names
        /\ j.shown = row[q].names /\ j.pc = pc /\ pc \in {"write", "sync", "erase"}
  BY <1>2, <1>3
<1>4. /\ pc = "erase" => f # NoFile /\ row[q].names # NoFile /\ row[q].names # f
      /\ pc = "write" /\ f # NoFile => row[q].names \in {NoFile, f}
      /\ pc = "sync" => f = NoFile
  BY <1>1 DEF Outdated
<1>5. Carries(q, j)'
  <2>1. /\ UNCHANGED file /\ UNCHANGED named
        /\ row[q].names # NoFile => row[q].names \in named /\ file[row[q].names].place = q
    BY <1>0, <1>2 DEF Takes, PlaceInv, RowFits
  <2>2. <<j.op, j.pc>> \in Steps
    BY <1>j, CallsAre
  <2>3. QED
    BY <1>0, <1>2, <1>j, <1>4, <2>1, <2>2 DEF Carries, Kinds
<1>6. cleared' \subseteq Threads
  BY <1>0, <1>2 DEF AssetsTypeOK
<1>7. DocFollows(q) /\ ~Busied(q) /\ q \in Threads /\ q \notin crowded \union cleared \union hurt
        => Follows(q, j)'
  <2>1. UNCHANGED doc /\ row[q].names # Unindexed
    BY <1>0, <1>2, FileNumbers DEF Takes
  <2>2. DocFollows(q) /\ ~Busied(q) /\ q \in Threads /\ q \notin crowded \union cleared \union hurt
            => doc[q] = row[q].names
    BY <1>2 DEF DocFollows
  <2>3. QED
    BY <1>2, <1>j, <2>1, <2>2 DEF Follows
<1>8. PlaceInv(q)' /\ Local(q)
  <2>1. /\ j.pc = "erase" /\ ToWrite(j) => j.old = row[q].names /\ j.old # j.new
        /\ j.pc = "write" /\ ToWrite(j) => row[q].names \in {NoFile, j.new}
        /\ j.new # NoFile => file[j.new].state = "stored"
    BY <1>0, <1>j, <1>4 DEF ToWrite
  <2>2. QED
    BY <1>0, <1>2, <1>j, <1>5, <1>7, <2>1, TakesHere
<1>9. AssetsTypeOK' /\ SlotsFit' /\ FilesFit'
  BY <1>0, <1>2, <1>j, <1>6, TakesTyped
<1>10. QED
  BY <1>0, <1>8, <1>9, StepHolds

LEMMA StartRemoveHolds ==
    ASSUME AssetInv, NEW s \in Clerks, NEW q \in Threads, StartRemoveThumbnail(s, q)
    PROVE  AssetInv'
<1> DEFINE pc == IF row[q].names # NoFile THEN "erase" ELSE "write"
           k == [NoErrand EXCEPT !.op = "remove", !.place = q, !.old = row[q].names, !.pc = pc]
<1>0. /\ q \in Places /\ AssetsTypeOK /\ PlaceInv(q)
      /\ row[q].names \in Files \union {NoFile} /\ row \in [Places -> RowType]
  <2>1. AssetsTypeOK /\ q \in Places
    BY PlacesApart DEF AssetInv
  <2>2. QED
    BY <2>1, AssetFacts DEF AssetInv
<1>1. row[q].state = "live" /\ UNCHANGED row /\ Takes(s, k) /\ cleared' = cleared \union {q}
  BY DEF StartRemoveThumbnail
<1>2. /\ k.op = "remove" /\ k.place = q /\ k.new = NoFile /\ k.old = row[q].names
      /\ k.pc = pc /\ k \in Errands /\ pc \in {"write", "erase"}
      /\ pc = "erase" => row[q].names # NoFile
  <2>1. pc \in {"write", "erase"} /\ (pc = "erase" => row[q].names # NoFile)
    OBVIOUS
  <2> HIDE DEF pc
  <2>2. QED
    BY <1>0, <2>1, NoErrandIs DEF Errands
<1> HIDE DEF k, pc
<1>j. PICK j \in Errands :
        /\ Takes(s, j) /\ j.op = "remove" /\ j.place = q /\ j.new = NoFile /\ j.old = row[q].names
        /\ j.pc \in {"write", "erase"} /\ (j.pc = "erase" => row[q].names # NoFile)
  BY <1>1, <1>2
<1>3. Carries(q, j)'
  <2>1. /\ UNCHANGED file /\ UNCHANGED named
        /\ row[q].names # NoFile => row[q].names \in named /\ file[row[q].names].place = q
    BY <1>0, <1>1 DEF Takes, PlaceInv, RowFits
  <2>2. <<j.op, j.pc>> \in Steps
    BY <1>j, CallsAre
  <2>3. QED
    BY <1>0, <1>1, <1>j, <2>1, <2>2 DEF Carries, Kinds
<1>4. cleared' \subseteq Threads
  BY <1>0, <1>1 DEF AssetsTypeOK
<1>5. PlaceInv(q)' /\ Local(q)
  <2>1. ~ToWrite(j) /\ j.new = NoFile
    BY <1>j DEF ToWrite
  <2>2. cleared \subseteq cleared' /\ cleared' \subseteq cleared \union {q} /\ j.op = "remove"
    BY <1>1, <1>j
  <2>3. QED
    BY <1>0, <1>1, <1>j, <1>3, <2>1, <2>2, TakesHere
<1>6. AssetsTypeOK' /\ SlotsFit' /\ FilesFit'
  BY <1>0, <1>1, <1>j, <1>4, TakesTyped
<1>7. QED
  BY <1>0, <1>5, <1>6, StepHolds

LEMMA StartDeleteHolds ==
    ASSUME AssetInv, NEW s \in Clerks, NEW q \in Threads, StartDeleteThread(s, q)
    PROVE  AssetInv'
<1> DEFINE j == [NoErrand EXCEPT !.op = "delete", !.place = q, !.pc = "delete"]
<1>0. q \in Places /\ AssetsTypeOK /\ PlaceInv(q) /\ row \in [Places -> RowType]
  <2>1. AssetsTypeOK /\ q \in Places
    BY PlacesApart DEF AssetInv
  <2>2. QED
    BY <2>1, AssetFacts DEF AssetInv
<1>1. row[q].state = "live" /\ UNCHANGED <<row, cleared>> /\ Takes(s, j)
  BY DEF StartDeleteThread
<1>2. /\ j.op = "delete" /\ j.place = q /\ j.new = NoFile /\ j.old = NoFile
      /\ j.pc = "delete" /\ j \in Errands
  BY <1>0, NoErrandIs DEF Errands
<1> HIDE DEF j
<1>3. Carries(q, j)'
  BY <1>0, <1>1, <1>2 DEF Takes, Carries, Kinds, Steps
<1>4. cleared' \subseteq Threads
  BY <1>0, <1>1 DEF AssetsTypeOK
<1>5. DocFollows(q) /\ ~Busied(q) /\ q \in Threads /\ q \notin crowded \union cleared \union hurt
        => Follows(q, j)'
  BY <1>1, <1>2 DEF Takes, DocFollows, Follows
<1>6. PlaceInv(q)' /\ Local(q)
  BY <1>0, <1>1, <1>2, <1>3, <1>5, TakesHere DEF ToWrite
<1>7. AssetsTypeOK' /\ SlotsFit' /\ FilesFit'
  BY <1>0, <1>1, <1>2, <1>4, TakesTyped
<1>8. QED
  BY <1>0, <1>6, <1>7, StepHolds

LEMMA StartImageHolds ==
    ASSUME AssetInv, NEW s \in Clerks, NEW q \in Avatars, NEW f \in Offered(q), StartImage(s, q, f)
    PROVE  AssetInv'
<1> DEFINE pc == IF Outdated(row[q].names, f) THEN "erase" ELSE "write"
           k == [NoErrand EXCEPT !.op = "image", !.place = q, !.new = f, !.old = row[q].names, !.pc = pc]
<1>0. /\ q \in Places /\ f \in Files /\ f # NoFile /\ AssetsTypeOK /\ PlaceInv(q)
      /\ file[f].place = q /\ file[f].state = "stored"
      /\ row[q].names \in Files \union {NoFile} /\ row \in [Places -> RowType]
  <2>1. AssetsTypeOK /\ q \in Places
    BY PlacesApart DEF AssetInv
  <2>2. QED
    BY <2>1, OfferedIs, AssetFacts DEF AssetInv
<1>1. UNCHANGED <<row, cleared>> /\ Takes(s, k)
  BY DEF StartImage
<1>2. /\ k.op = "image" /\ k.place = q /\ k.new = f /\ k.old = row[q].names
      /\ k.pc = pc /\ k \in Errands /\ pc \in {"write", "erase"}
      /\ pc = "erase" => row[q].names # NoFile /\ row[q].names # f
      /\ pc = "write" => row[q].names \in {NoFile, f}
  <2>1. /\ pc \in {"write", "erase"} /\ (pc = "erase" => row[q].names # NoFile /\ row[q].names # f)
        /\ pc = "write" => row[q].names \in {NoFile, f}
    BY DEF Outdated
  <2> HIDE DEF pc
  <2>2. QED
    BY <1>0, <2>1, NoErrandIs DEF Errands
<1> HIDE DEF k, pc
<1>j. PICK j \in Errands :
        /\ Takes(s, j) /\ j.op = "image" /\ j.place = q /\ j.new = f /\ j.old = row[q].names
        /\ j.pc \in {"write", "erase"} /\ (j.pc = "erase" => row[q].names # NoFile /\ row[q].names # f)
        /\ j.pc = "write" => row[q].names \in {NoFile, f}
  BY <1>1, <1>2
<1>3. Carries(q, j)'
  <2>1. /\ UNCHANGED file /\ UNCHANGED named
        /\ row[q].names # NoFile => row[q].names \in named /\ file[row[q].names].place = q
    BY <1>0, <1>1 DEF Takes, PlaceInv, RowFits
  <2>2. <<j.op, j.pc>> \in Steps
    BY <1>j, CallsAre
  <2>3. QED
    BY <1>0, <1>1, <1>j, <2>1, <2>2 DEF Carries, Kinds
<1>4. cleared' \subseteq Threads /\ q \notin Threads
  BY <1>0, <1>1, PlacesApart DEF AssetsTypeOK
<1>5. PlaceInv(q)' /\ Local(q)
  <2>1. /\ j.pc = "erase" /\ ToWrite(j) => j.old = row[q].names /\ j.old # j.new
        /\ j.pc = "write" /\ ToWrite(j) => row[q].names \in {NoFile, j.new}
        /\ j.new # NoFile => file[j.new].state = "stored"
    BY <1>0, <1>j DEF ToWrite
  <2>2. QED
    BY <1>0, <1>1, <1>j, <1>3, <1>4, <2>1, TakesHere
<1>6. AssetsTypeOK' /\ SlotsFit' /\ FilesFit'
  BY <1>0, <1>1, <1>j, <1>4, TakesTyped
<1>7. QED
  BY <1>0, <1>5, <1>6, StepHolds

\* A request in progress: its slot, its place and what it carries.
LEMMA BusyFacts ==
    ASSUME AssetInv, NEW s \in Clerks, errand[s].pc # "idle" \/ errand[s].op # "none"
    PROVE  /\ errand[s] # NoErrand /\ errand[s].place \in Places /\ On(s, errand[s].place)
           /\ PlaceInv(errand[s].place) /\ Carries(errand[s].place, errand[s])
           /\ AssetsTypeOK /\ SlotsFit /\ FilesFit /\ errand[s] \in Errands
<1>1. errand[s] # NoErrand
  BY NoErrandIs
<1>2. QED
  BY <1>1, ErrandHere, ErrandFacts DEF AssetInv, On

LEMMA OpOfCall ==
    /\ \A op : <<op, "sync">> \in Steps => op \in {"create", "update", "remove"}
    /\ \A op : <<op, "unindex">> \in Steps => op = "delete"
    /\ \A op : <<op, "delete">> \in Steps => op = "delete"
    /\ \A op : <<op, "erase">> \in Steps => op \in {"update", "remove", "image", "delete"}
    /\ \A op : <<op, "write">> \in Steps => op \in {"create", "update", "remove", "image"}
    /\ \A op, pc : <<op, pc>> \in Steps =>
          /\ op \in {"create", "update", "remove", "delete", "image"}
          /\ pc \in {"erase", "write", "sync", "delete", "unindex"}
BY DEF Steps

LEMMA MishapTypes ==
    ASSUME AssetInv, NEW p \in Places, Mishap(p)
    PROVE  hurt' = hurt \union {p} /\ hurt' \subseteq Places /\ mishaps' \in 0..MaxAssetMishaps
BY AssetAssumption DEF AssetInv, AssetsTypeOK, Mishap

LEMMA ServesTyped ==
    ASSUME AssetInv, NEW s \in Clerks, NEW j \in Errands, Serves(s, j),
           j = NoErrand \/ (j.op # "none" /\ j.place # NoPlace)
    PROVE  errand' \in [Clerks -> Errands] /\ SlotsFit'
<1>1. AssetsTypeOK /\ SlotsFit
  BY DEF AssetInv
<1>2. errand'[s] = j /\ \A t \in Clerks : t # s => errand'[t] = errand[t]
  BY <1>1, ServesIs
<1>3. errand' \in [Clerks -> Errands]
  BY <1>1, ServesType
<1>4. QED
  BY <1>1, <1>2, <1>3 DEF SlotsFit

LEMMA DoneTyped ==
    ASSUME AssetInv, NEW s \in Clerks, Done(s)
    PROVE  errand' \in [Clerks -> Errands] /\ SlotsFit'
BY ServesTyped, NoErrandIs DEF Done

LEMMA SyncHolds ==
    ASSUME AssetInv, NEW s \in Clerks, SyncThread(s) PROVE AssetInv'
<1>0. /\ errand[s].pc = "sync" /\ Done(s)
      /\ UNCHANGED <<assetStore, file, row, named, crowded, again, cleared, jobs>>
  BY DEF SyncThread
<1> DEFINE q == errand[s].place
<1>1. /\ q \in Places /\ On(s, q) /\ PlaceInv(q) /\ Carries(q, errand[s])
      /\ AssetsTypeOK /\ SlotsFit /\ FilesFit /\ errand[s] \in Errands
  BY <1>0, BusyFacts
<1>2. PICK p \in Places : p = q
  BY <1>1
<1>3. errand[s].op \in {"create", "update", "remove"} /\ p \in Threads
  BY <1>0, <1>1, <1>2, OpOfCall DEF Carries, Kinds
<1>4. \/ UNCHANGED <<hurt, mishaps>> /\ doc' = [doc EXCEPT ![p] = Synced(errand[s])]
      \/ Mishap(p) /\ UNCHANGED doc
  BY <1>2 DEF SyncThread
<1> HIDE DEF q
<1>5. /\ hurt \subseteq hurt' /\ hurt' \subseteq Places /\ mishaps' \in 0..MaxAssetMishaps
      /\ \A r \in Places : r # p /\ r \in Threads => doc'[r] = doc[r]
  BY <1>1, <1>4, AssetFacts, MishapTypes DEF AssetsTypeOK
<1>6. Synced(errand[s]) \in Files \union {NoFile, Unindexed}
  BY <1>1, <1>2, <1>3, AssetFacts, ErrandFacts DEF Synced, q
<1>7. AssetsTypeOK' /\ SlotsFit' /\ FilesFit'
  <2>1. errand' \in [Clerks -> Errands] /\ SlotsFit'
    BY <1>0, DoneTyped
  <2>2. doc' \in [Threads -> Files \union {NoFile, Unindexed}]
    BY <1>1, <1>3, <1>4, <1>6, AssetFacts
  <2>3. QED
    BY <1>0, <1>1, <1>5, <2>1, <2>2 DEF AssetsTypeOK, FilesFit
<1>8. /\ RowFits(p)' /\ ErrandsFit(p)' /\ Alone(p)' /\ FreshKeys(p)' /\ SoleKeys(p)' /\ Local(p)
      /\ ~Overwrites(errand[s]) => NamesKept(p)'
      /\ ~(errand[s].op = "delete" /\ errand[s].pc = "erase") => LeftGone(p)'
      /\ Alone(p) /\ p \notin crowded => ~Busied(p)'
  BY <1>0, <1>1, <1>2, <1>5, LeavesHere
<1>9. NamesKept(p)' /\ LeftGone(p)'
  BY <1>0, <1>8 DEF Overwrites
<1>10. PlaceInv(p)'
  <2>1. CASE Mishap(p)
    BY <1>8, <2>1, HurtHere DEF Mishap
  <2>2. CASE UNCHANGED <<hurt, mishaps>> /\ doc' = [doc EXCEPT ![p] = Synced(errand[s])]
    <3>1. doc'[p] = Synced(errand[s])
      BY <1>1, <1>3, <2>2, AssetFacts
    <3>2. DocFollows(p)'
      <4> SUFFICES ASSUME p \notin crowded \union cleared \union hurt, row[p].state = "live"
                   PROVE  ~Busied(p)' /\ doc'[p] = row[p].names
        BY <1>0, <2>2 DEF DocFollows, Busied, On
      <4>1. ~Busied(p)' /\ Follows(p, errand[s])
        BY <1>1, <1>2, <1>3, <1>8 DEF PlaceInv, DocFollows
      <4>2. errand[s].op # "remove"
        BY <1>1, <1>2 DEF Carries
      <4>3. Synced(errand[s]) = row[p].names
        BY <1>0, <1>2, <1>3, <4>1, <4>2 DEF Follows, Synced, q
      <4>4. QED
        BY <3>1, <4>1, <4>3
    <3>3. QED
      BY <1>8, <1>9, <3>2 DEF PlaceInv
  <2>3. QED
    BY <1>4, <2>1, <2>2
<1>11. QED
  BY <1>7, <1>8, <1>10, StepHolds

\* A request that leaves a place whose row is gone.
LEMMA GoneHere ==
    ASSUME AssetInv, NEW s \in Clerks, NEW p \in Places, On(s, p), Done(s), row[p].state # "live",
           UNCHANGED <<assetStore, file, row, named, crowded, again, cleared>>, hurt \subseteq hurt',
           \A r \in Places : r # p /\ r \in Threads => doc'[r] = doc[r],
           ~(errand[s].op = "delete" /\ errand[s].pc = "erase")
    PROVE  PlaceInv(p)' /\ Local(p)
<1>1. row[p].names = NoFile
  BY DEF AssetInv, PlaceInv, RowFits
<1>2. /\ RowFits(p)' /\ ErrandsFit(p)' /\ Alone(p)' /\ FreshKeys(p)' /\ SoleKeys(p)' /\ Local(p)
      /\ NamesKept(p)' /\ LeftGone(p)'
  BY <1>1, LeavesHere
<1>3. DocFollows(p)'
  BY DEF DocFollows
<1>4. QED
  BY <1>2, <1>3 DEF PlaceInv

LEMMA UnindexHolds ==
    ASSUME AssetInv, NEW s \in Clerks, UnindexThread(s) PROVE AssetInv'
<1>0. /\ errand[s].pc = "unindex" /\ Done(s)
      /\ UNCHANGED <<assetStore, file, row, named, crowded, again, cleared, jobs>>
  BY DEF UnindexThread
<1> DEFINE q == errand[s].place
<1>1. /\ q \in Places /\ On(s, q) /\ PlaceInv(q) /\ Carries(q, errand[s])
      /\ AssetsTypeOK /\ SlotsFit /\ FilesFit /\ errand[s] \in Errands
  BY <1>0, BusyFacts
<1>2. PICK p \in Places : p = q
  BY <1>1
<1>3. errand[s].op = "delete" /\ p \in Threads /\ row[p].state = "gone"
  BY <1>0, <1>1, <1>2, OpOfCall DEF Carries, Kinds
<1>4. \/ UNCHANGED <<hurt, mishaps>> /\ doc' = [doc EXCEPT ![p] = Unindexed]
      \/ Mishap(p) /\ UNCHANGED doc
  BY <1>2 DEF UnindexThread
<1> HIDE DEF q
<1>5. /\ hurt \subseteq hurt' /\ hurt' \subseteq Places /\ mishaps' \in 0..MaxAssetMishaps
      /\ \A r \in Places : r # p /\ r \in Threads => doc'[r] = doc[r]
      /\ doc' \in [Threads -> Files \union {NoFile, Unindexed}]
  BY <1>1, <1>3, <1>4, AssetFacts, MishapTypes DEF AssetsTypeOK
<1>6. AssetsTypeOK' /\ SlotsFit' /\ FilesFit'
  <2>1. errand' \in [Clerks -> Errands] /\ SlotsFit'
    BY <1>0, DoneTyped
  <2>2. QED
    BY <1>0, <1>1, <1>5, <2>1 DEF AssetsTypeOK, FilesFit
<1>7. PlaceInv(p)' /\ Local(p)
  BY <1>0, <1>1, <1>2, <1>3, <1>5, GoneHere
<1>8. QED
  BY <1>6, <1>7, StepHolds

LEMMA BreakOffHolds ==
    ASSUME AssetInv, NEW s \in Clerks, BreakOff(s) PROVE AssetInv'
<1>0. /\ errand[s].op # "none" /\ Done(s) /\ Mishap(errand[s].place)
      /\ UNCHANGED <<assetStore, file, row, doc, named, crowded, again, cleared, jobs>>
  BY DEF BreakOff
<1>1. /\ errand[s].place \in Places /\ On(s, errand[s].place)
      /\ AssetsTypeOK /\ SlotsFit /\ FilesFit
  BY <1>0, BusyFacts
<1>2. PICK p \in Places : p = errand[s].place
  BY <1>1
<1>3. hurt' = hurt \union {p} /\ hurt' \subseteq Places /\ mishaps' \in 0..MaxAssetMishaps
  BY <1>0, <1>2, MishapTypes
<1>4. AssetsTypeOK' /\ SlotsFit' /\ FilesFit'
  <2>1. errand' \in [Clerks -> Errands] /\ SlotsFit'
    BY <1>0, DoneTyped
  <2>2. QED
    BY <1>0, <1>1, <1>3, <2>1 DEF AssetsTypeOK, FilesFit
<1>5. RowFits(p)' /\ ErrandsFit(p)' /\ Alone(p)' /\ Local(p)
  BY <1>0, <1>1, <1>2, <1>3, LeavesHere
<1>6. PlaceInv(p)'
  BY <1>3, <1>5, HurtHere
<1>7. QED
  BY <1>4, <1>5, <1>6, StepHolds

\* The row goes: what it named is left to this request to erase.
LEMMA DeleteRowHolds ==
    ASSUME AssetInv, NEW s \in Clerks, DeleteThreadRow(s) PROVE AssetInv'
<1>0. errand[s].pc = "delete" /\ UNCHANGED <<assetStore, file, doc, named, hurt, crowded, again, cleared, jobs, mishaps>>
  BY DEF DeleteThreadRow, History
<1>1. /\ errand[s].place \in Places /\ On(s, errand[s].place) /\ PlaceInv(errand[s].place)
      /\ Carries(errand[s].place, errand[s])
      /\ AssetsTypeOK /\ SlotsFit /\ FilesFit /\ errand[s] \in Errands
  BY <1>0, BusyFacts
<1>2. PICK p \in Places : p = errand[s].place
  BY <1>1
<1>3. errand[s].op = "delete" /\ p \in Threads /\ errand[s].new = NoFile
  BY <1>0, <1>1, <1>2, OpOfCall DEF Carries, Kinds
<1>4. row \in [Places -> RowType] /\ row[p].names \in Files \union {NoFile} /\ named \in SUBSET Files
  BY <1>1, AssetFacts
<1>5. CASE row[p].state # "live"
  <2>1. Done(s) /\ UNCHANGED row
    BY <1>2, <1>5 DEF DeleteThreadRow
  <2>2. PlaceInv(p)' /\ Local(p)
    BY <1>0, <1>1, <1>2, <1>5, <2>1, GoneHere
  <2>3. AssetsTypeOK' /\ SlotsFit' /\ FilesFit'
    <3>1. errand' \in [Clerks -> Errands] /\ SlotsFit'
      BY <2>1, DoneTyped
    <3>2. QED
      BY <1>0, <1>1, <2>1, <3>1 DEF AssetsTypeOK, FilesFit
  <2>4. QED
    BY <2>2, <2>3, StepHolds
<1>6. CASE row[p].state = "live"
  <2>1. PICK old \in Files \union {NoFile} : old = row[p].names
    BY <1>4
  <2>2. PICK pc \in {"unindex", "erase"} : pc = IF old = NoFile THEN "unindex" ELSE "erase"
    OBVIOUS
  <2>3. Sets(p, "gone", NoFile) /\ Serves(s, [errand[s] EXCEPT !.old = old, !.pc = pc])
    BY <1>2, <1>6, <2>1, <2>2 DEF DeleteThreadRow
  <2>4. PICK j : j = [errand[s] EXCEPT !.old = old, !.pc = pc]
    OBVIOUS
  <2>5. /\ j \in Errands /\ j.op = "delete" /\ j.place = p /\ j.new = NoFile /\ j.old = old /\ j.pc = pc
    BY <1>1, <1>2, <1>3, <2>4 DEF Errands
  <2>6. errand'[s] = j /\ \A t \in Clerks : t # s => errand'[t] = errand[t]
    BY <1>1, <2>3, <2>4, ServesIs
  <2>7. /\ row' \in [Places -> RowType] /\ row'[p].state = "gone" /\ row'[p].names = NoFile
        /\ \A r \in Places : r # p => row'[r] = row[r]
    BY <1>1, <2>3, SetsIs
  <2>8. \A t \in Clerks : On(t, p)' <=> On(t, p)
    BY <1>2, <2>5, <2>6 DEF On
  <2>9. Local(p)
    BY <1>0, <1>2, <1>4, <2>5, <2>6, <2>7 DEF Local
  <2>10. RowFits(p)'
    BY <2>7 DEF RowFits
  <2>11. ErrandsFit(p)'
    <3>1. old # NoFile => old \in named /\ file[old].place = p
      BY <1>1, <1>2, <2>1 DEF PlaceInv, RowFits
    <3>2. <<"delete", pc>> \in Steps
      BY CallsAre
    <3>3. Carries(p, j)'
      BY <1>0, <1>3, <2>2, <2>5, <2>7, <3>1, <3>2 DEF Carries, Kinds
    <3>4. ASSUME NEW t \in Clerks, t # s, On(t, p) PROVE Carries(p, errand[t])'
      <4>1. Carries(p, errand[t]) /\ errand'[t] = errand[t]
        BY <1>1, <1>2, <2>6, <3>4 DEF PlaceInv, ErrandsFit
      <4>2. QED
        BY <1>0, <2>7, <4>1 DEF Carries
    <3>5. QED
      BY <2>6, <2>8, <3>3, <3>4 DEF ErrandsFit, Carries
  <2>12. Alone(p)'
    BY <1>0, <1>1, <1>2, <2>8 DEF PlaceInv, Alone, Uncrowded
  <2>13. \A t \in Clerks : On(t, p)' /\ ToWrite(errand[t])' => /\ t # s /\ On(t, p) /\ ToWrite(errand[t])
                                                           /\ errand'[t] = errand[t]
    BY <2>5, <2>6, <2>8 DEF ToWrite
  <2>14. FreshKeys(p)'
    <3> SUFFICES ASSUME p \notin hurt, p \notin again, NEW t \in Clerks, On(t, p)', ToWrite(errand[t])'
                 PROVE  /\ errand'[t].new \notin named /\ file[errand'[t].new].state = "stored"
                        /\ \A u \in Clerks : On(u, p)' /\ u # t => errand'[u].new # errand'[t].new
      BY <1>0 DEF FreshKeys, Unhurt
    <3>1. errand'[t] = errand[t] /\ On(t, p) /\ ToWrite(errand[t]) /\ t # s
      BY <2>13
    <3>2. /\ errand[t].new \notin named /\ file[errand[t].new].state = "stored"
          /\ \A u \in Clerks : On(u, p) /\ u # t => errand[u].new # errand[t].new
      BY <1>1, <1>2, <3>1 DEF PlaceInv, FreshKeys, Unhurt
    <3>3. errand'[s].new # errand[t].new
      BY <2>5, <2>6, <3>1 DEF ToWrite
    <3>4. QED
      BY <2>6, <2>8, <3>1, <3>2, <3>3
  <2>15. SoleKeys(p)'
    <3>1. p \notin crowded => \A t \in Clerks : ~(On(t, p)' /\ ToWrite(errand[t])')
      BY <1>1, <1>2, <2>13 DEF PlaceInv, Alone, Uncrowded
    <3>2. QED
      BY <1>0, <3>1 DEF SoleKeys, Uncrowded
  <2>16. NamesKept(p)'
    BY <2>7 DEF NamesKept, NamedIsStored
  <2>17. LeftGone(p)'
    <3> SUFFICES ASSUME p \notin hurt, p \notin Backdrops \union crowded \union cleared,
                        NEW f \in named, file[f].place = p, file[f].state # "erased"
                 PROVE  \E t \in Clerks : /\ On(t, p)' /\ errand'[t].op = "delete"
                                          /\ errand'[t].pc = "erase" /\ errand'[t].old = f
      BY <1>0 DEF LeftGone, Unhurt
    <3>1. CASE f = old
      <4>1. f # NoFile
        BY <1>4, FileNumbers
      <4>2. pc = "erase"
        BY <2>2, <3>1, <4>1
      <4>3. QED
        BY <1>1, <1>2, <2>5, <2>6, <2>8, <3>1, <4>2
    <3>2. CASE f # old
      <4>1. PICK t \in Clerks : /\ On(t, p) /\ errand[t].op = "delete"
                                /\ errand[t].pc = "erase" /\ errand[t].old = f
        BY <1>1, <1>2, <2>1, <3>2 DEF PlaceInv, LeftGone, Unhurt
      <4>2. t # s
        BY <1>0, <4>1
      <4>3. QED
        BY <2>6, <2>8, <4>1, <4>2
    <3>3. QED
      BY <3>1, <3>2
  <2>18. DocFollows(p)'
    BY <2>7 DEF DocFollows
  <2>19. PlaceInv(p)'
    BY <2>10, <2>11, <2>12, <2>14, <2>15, <2>16, <2>17, <2>18 DEF PlaceInv
  <2>20. AssetsTypeOK' /\ SlotsFit' /\ FilesFit'
    <3>1. errand' \in [Clerks -> Errands] /\ SlotsFit'
      BY <2>3, <2>4, <2>5, ServesTyped, FileNumbers
    <3>2. QED
      BY <1>0, <1>1, <2>7, <3>1 DEF AssetsTypeOK, FilesFit, RowType
  <2>21. QED
    BY <2>9, <2>19, <2>20, StepHolds
<1>7. QED
  BY <1>5, <1>6

LEMMA EraseHolds ==
    ASSUME AssetInv, NEW s \in Clerks, EraseOld(s) PROVE AssetInv'
<1>0. errand[s].pc = "erase" /\ UNCHANGED <<assetStore, row, doc, named, crowded, again, cleared, jobs>>
  BY DEF EraseOld
<1>1. /\ errand[s].place \in Places /\ On(s, errand[s].place) /\ PlaceInv(errand[s].place)
      /\ Carries(errand[s].place, errand[s])
      /\ AssetsTypeOK /\ SlotsFit /\ FilesFit /\ errand[s] \in Errands
  BY <1>0, BusyFacts
<1>2. PICK p \in Places : p = errand[s].place
  BY <1>1
<1>3. PICK old \in Files : old = errand[s].old /\ old \in named /\ file[old].place = p
  BY <1>0, <1>1, <1>2, ErrandFacts DEF Carries
<1>4. /\ row[p].names \in Files \union {NoFile} /\ named \in SUBSET Files
      /\ file \in [Files -> FileType]
  BY <1>1, AssetFacts
<1>5. PICK pc \in {"unindex", "write"} : pc = IF errand[s].op = "delete" THEN "unindex" ELSE "write"
  OBVIOUS
<1>6. PICK j : j = [errand[s] EXCEPT !.old = NoFile, !.pc = pc]
  OBVIOUS
<1>7. /\ j \in Errands /\ j.op = errand[s].op /\ j.place = p /\ j.new = errand[s].new
      /\ j.old = NoFile /\ j.pc = pc
  BY <1>1, <1>2, <1>6 DEF Errands
<1>8. Serves(s, j)
  BY <1>5, <1>6 DEF EraseOld
<1>9. errand'[s] = j /\ \A t \in Clerks : t # s => errand'[t] = errand[t]
  BY <1>1, <1>8, ServesIs
<1>10. \A t \in Clerks : On(t, p)' <=> On(t, p)
  BY <1>2, <1>7, <1>9 DEF On
<1>11. \/ Mishap(p) /\ UNCHANGED file
       \/ file' = [file EXCEPT ![old].state = "erased"] /\ UNCHANGED <<hurt, mishaps>>
  BY <1>2, <1>3 DEF EraseOld
<1>12. /\ hurt \subseteq hurt' /\ hurt' \subseteq Places /\ mishaps' \in 0..MaxAssetMishaps
       /\ file' \in [Files -> FileType]
       /\ \A f \in Files : file'[f].place = file[f].place /\ (f # old => file'[f] = file[f])
       /\ p \notin hurt' => file'[old].state = "erased"
       /\ \A f \in Files : file'[f].state # "unused" => file[f].state # "unused" \/ f \in named
  <2>1. CASE Mishap(p) /\ UNCHANGED file
    BY <1>4, <2>1, MishapTypes
  <2>2. CASE file' = [file EXCEPT ![old].state = "erased"] /\ UNCHANGED <<hurt, mishaps>>
    <3>1. file[old] \in FileType
      BY <1>4
    <3>2. file'[old] = [file[old] EXCEPT !.state = "erased"] /\ \A f \in Files : f # old => file'[f] = file[f]
      BY <1>4, <2>2
    <3>3. file'[old] \in FileType /\ file'[old].place = file[old].place /\ file'[old].state = "erased"
      BY <3>1, <3>2 DEF FileType
    <3>4. file' \in [Files -> FileType]
      BY <1>4, <2>2, <3>2, <3>3
    <3>5. QED
      BY <1>1, <1>3, <2>2, <3>2, <3>3, <3>4 DEF AssetsTypeOK
  <2>3. QED
    BY <1>11, <2>1, <2>2
<1>13. AssetsTypeOK' /\ SlotsFit' /\ FilesFit'
  <2>1. j.op # "none" /\ j.place # NoPlace
    BY <1>1, <1>2, <1>7, OpOfCall, FileNumbers DEF Carries
  <2>2. errand' \in [Clerks -> Errands] /\ SlotsFit'
    BY <1>7, <1>8, <2>1, ServesTyped
  <2>3. FilesFit'
    BY <1>0, <1>1, <1>12 DEF FilesFit
  <2>4. QED
    BY <1>0, <1>1, <1>12, <2>2, <2>3 DEF AssetsTypeOK, FileType
<1>14. Local(p)
  BY <1>0, <1>2, <1>3, <1>4, <1>7, <1>9, <1>12 DEF Local
<1>15. RowFits(p)'
  BY <1>0, <1>1, <1>2, <1>4, <1>12 DEF PlaceInv, RowFits
<1>16. ErrandsFit(p)'
  <2>1. <<j.op, pc>> \in Steps
    <3>1. errand[s].op \in {"update", "remove", "image", "delete"}
      BY <1>0, <1>1, OpOfCall DEF Carries
    <3>2. QED
      BY <1>5, <1>7, <3>1, CallsAre
  <2>2. errand[s].new # NoFile => file'[errand[s].new].place = p
    BY <1>1, <1>2, <1>12, ErrandFacts DEF Carries
  <2>3. Carries(p, j)'
    BY <1>0, <1>1, <1>2, <1>7, <2>1, <2>2 DEF Carries
  <2>4. ASSUME NEW t \in Clerks, t # s, On(t, p) PROVE Carries(p, errand[t])'
    <3>1. Carries(p, errand[t]) /\ errand'[t] = errand[t]
      BY <1>1, <1>2, <1>9, <2>4 DEF PlaceInv, ErrandsFit
    <3>2. /\ errand[t].new # NoFile => file'[errand[t].new].place = file[errand[t].new].place
          /\ errand[t].old # NoFile => file'[errand[t].old].place = file[errand[t].old].place
      BY <1>1, <1>12, ErrandFacts
    <3>3. QED
      BY <1>0, <3>1, <3>2 DEF Carries
  <2>5. QED
    BY <1>9, <1>10, <2>3, <2>4 DEF ErrandsFit, Carries
<1>17. Alone(p)'
  BY <1>0, <1>1, <1>2, <1>10 DEF PlaceInv, Alone, Uncrowded
<1>18. CASE p \in hurt'
  <2>1. PlaceInv(p)'
    BY <1>15, <1>16, <1>17, <1>18, HurtHere
  <2>2. QED
    BY <1>13, <1>14, <2>1, StepHolds
<1>19. CASE p \notin hurt'
  <2>0. p \notin hurt /\ file'[old].state = "erased"
    BY <1>12, <1>19
  <2>1. \A t \in Clerks : /\ errand'[t].new = errand[t].new
                          /\ ToWrite(errand[t])' => ToWrite(errand[t])
    BY <1>0, <1>7, <1>9 DEF ToWrite
  <2>2. FreshKeys(p)'
    <3> SUFFICES ASSUME p \notin again, NEW t \in Clerks, On(t, p)', ToWrite(errand[t])'
                 PROVE  /\ errand[t].new \notin named /\ file'[errand[t].new].state = "stored"
                        /\ \A u \in Clerks : On(u, p)' /\ u # t => errand[u].new # errand[t].new
      BY <1>0, <2>1 DEF FreshKeys, Unhurt
    <3>1. /\ errand[t].new \notin named /\ file[errand[t].new].state = "stored"
          /\ \A u \in Clerks : On(u, p) /\ u # t => errand[u].new # errand[t].new
      BY <1>1, <1>2, <1>10, <2>0, <2>1 DEF PlaceInv, FreshKeys, Unhurt
    <3>2. errand[t].new \in Files /\ errand[t].new # old
      BY <1>1, <1>3, <2>1, <3>1, ErrandFacts DEF ToWrite
    <3>3. QED
      BY <1>10, <1>12, <3>1, <3>2
  <2>3. SoleKeys(p)'
    <3> SUFFICES ASSUME p \notin crowded, NEW t \in Clerks, On(t, p)', ToWrite(errand[t])'
                 PROVE  LET f == row[p].names
                        IN /\ file'[errand'[t].new].state = "stored"
                           /\ errand'[t].pc = "erase" => errand'[t].old = f /\ errand'[t].old # errand'[t].new
                           /\ errand'[t].pc = "write" => f \in {NoFile, errand'[t].new} \/ file'[f].state = "erased"
      BY <1>0 DEF SoleKeys, Unhurt, Uncrowded
    <3>1. t = s
      BY <1>1, <1>2, <1>10 DEF PlaceInv, Alone, Uncrowded
    <3>2. pc = "write" /\ errand[s].new # NoFile
      BY <1>7, <1>9, <3>1 DEF ToWrite
    <3>3. /\ file[errand[s].new].state = "stored" /\ old = row[p].names /\ old # errand[s].new
      BY <1>0, <1>1, <1>2, <1>3, <2>0, <2>1, <3>1 DEF PlaceInv, SoleKeys, Unhurt, Uncrowded
    <3>4. file'[errand[s].new] = file[errand[s].new]
      BY <1>1, <1>12, <3>2, <3>3, ErrandFacts
    <3>5. QED
      BY <1>7, <1>9, <2>0, <3>1, <3>2, <3>3, <3>4
  <2>4. NamesKept(p)'
    <3>1. CASE errand[s].op = "delete"
      <4>1. row[p].names = NoFile
        BY <1>0, <1>1, <1>2, <3>1 DEF Carries, PlaceInv, RowFits
      <4>2. QED
        BY <1>0, <4>1 DEF NamesKept, NamedIsStored
    <3>2. CASE errand[s].op # "delete"
      <4>1. errand[s].op \in {"update", "remove", "image"}
        BY <1>0, <1>1, <3>2, OpOfCall DEF Carries
      <4>2. errand[s].new # NoFile \/ errand[s].op = "remove"
        BY <1>0, <1>1, <4>1 DEF Carries
      <4>3. On(s, p)' /\ Overwrites(errand[s])'
        BY <1>1, <1>2, <1>5, <1>7, <1>9, <1>10, <3>2, <4>2 DEF Overwrites
      <4>4. QED
        BY <4>3 DEF NamesKept
    <3>3. QED
      BY <3>1, <3>2
  <2>5. LeftGone(p)'
    <3> SUFFICES ASSUME p \notin Backdrops \union crowded \union cleared,
                        NEW f \in named, file'[f].place = p, row[p].names # f, file'[f].state # "erased"
                 PROVE  \E t \in Clerks : /\ On(t, p)' /\ errand'[t].op = "delete"
                                          /\ errand'[t].pc = "erase" /\ errand'[t].old = f
      BY <1>0 DEF LeftGone, Unhurt
    <3>1. f # old /\ file'[f] = file[f]
      BY <1>4, <1>12, <2>0
    <3>2. PICK t \in Clerks : /\ On(t, p) /\ errand[t].op = "delete"
                              /\ errand[t].pc = "erase" /\ errand[t].old = f
      BY <1>1, <1>2, <2>0, <3>1 DEF PlaceInv, LeftGone, Unhurt
    <3>3. t # s
      BY <1>3, <3>1, <3>2
    <3>4. QED
      BY <1>9, <1>10, <3>2, <3>3
  <2>6. DocFollows(p)'
    <3> SUFFICES ASSUME p \in Threads, p \notin crowded \union cleared \union hurt, row[p].state = "live"
                 PROVE  /\ Busied(p)'
                        /\ \A t \in Clerks : On(t, p)' => Follows(p, errand[t])'
      BY <1>0, <2>0 DEF DocFollows
    <3>1. Busied(p)'
      BY <1>1, <1>2, <1>10 DEF Busied, On
    <3>2. \A t \in Clerks : On(t, p)' => t = s
      BY <1>1, <1>2, <1>10 DEF PlaceInv, Alone, Uncrowded
    <3>3. Follows(p, errand[s])
      BY <1>1, <1>2 DEF PlaceInv, DocFollows
    <3>4. errand[s].op = "update"
      <4>1. errand[s].op \in {"update", "remove", "image", "delete"}
        BY <1>0, <1>1, OpOfCall DEF Carries
      <4>2. errand[s].op # "remove" /\ errand[s].op # "delete"
        BY <1>0, <1>1, <1>2 DEF Carries
      <4>3. errand[s].op # "image"
        BY <1>1, <1>2, PlacesApart DEF Carries, Kinds
      <4>4. QED
        BY <4>1, <4>2, <4>3
    <3>5. Follows(p, errand[s])'
      BY <1>0, <1>5, <1>7, <1>9, <3>3, <3>4 DEF Follows
    <3>6. QED
      BY <3>1, <3>2, <3>5
  <2>7. PlaceInv(p)'
    BY <1>15, <1>16, <1>17, <2>2, <2>3, <2>4, <2>5, <2>6 DEF PlaceInv
  <2>8. QED
    BY <1>13, <1>14, <2>7, StepHolds
<1>20. QED
  BY <1>18, <1>19

LEMMA WriteRowHolds ==
    ASSUME AssetInv, NEW s \in Clerks, WriteRow(s) PROVE AssetInv'
<1>0. errand[s].pc = "write" /\ UNCHANGED <<assetStore, file, doc, hurt, crowded, again, cleared, jobs, mishaps>>
  BY DEF WriteRow
<1>1. /\ errand[s].place \in Places /\ On(s, errand[s].place) /\ PlaceInv(errand[s].place)
      /\ Carries(errand[s].place, errand[s])
      /\ AssetsTypeOK /\ SlotsFit /\ FilesFit /\ errand[s] \in Errands
  BY <1>0, BusyFacts
<1>2. PICK p \in Places : p = errand[s].place
  BY <1>1
<1>3. /\ errand[s].op \in {"create", "update", "remove", "image"}
      /\ errand[s].op # "image" => p \in Threads
  BY <1>0, <1>1, <1>2, OpOfCall DEF Carries, Kinds
<1>4. row \in [Places -> RowType] /\ row[p].names \in Files \union {NoFile} /\ named \in SUBSET Files
  BY <1>1, AssetFacts
<1>5. CASE row[p].state # "live"
  <2>1. Done(s) /\ UNCHANGED <<row, named>>
    BY <1>2, <1>5 DEF WriteRow
  <2>2. PlaceInv(p)' /\ Local(p)
    BY <1>0, <1>1, <1>2, <1>5, <2>1, GoneHere
  <2>3. AssetsTypeOK' /\ SlotsFit' /\ FilesFit'
    <3>1. errand' \in [Clerks -> Errands] /\ SlotsFit'
      BY <2>1, DoneTyped
    <3>2. QED
      BY <1>0, <1>1, <2>1, <3>1 DEF AssetsTypeOK, FilesFit
  <2>4. QED
    BY <2>2, <2>3, StepHolds
<1>6. CASE row[p].state = "live"
  <2>1. PICK w : w = Written(errand[s])
    OBVIOUS
  <2>2. /\ errand[s].op = "remove" => w = NoFile \/ (w = row[p].names /\ assetStore = "postgres")
        /\ errand[s].op # "remove" /\ errand[s].new = NoFile => w = row[p].names
        /\ errand[s].op # "remove" /\ errand[s].new # NoFile => w = errand[s].new
    BY <1>2, <2>1 DEF Written
  <2>3. w \in Files \union {NoFile} /\ (w # NoFile => file[w].place = p)
    <3>1. errand[s].new \in Files \union {NoFile}
      BY <1>1, ErrandFacts
    <3>2. row[p].names # NoFile => file[row[p].names].place = p
      BY <1>1, <1>2 DEF PlaceInv, RowFits
    <3>3. errand[s].new # NoFile => file[errand[s].new].place = p
      BY <1>1, <1>2 DEF Carries
    <3>4. QED
      BY <1>4, <2>2, <3>1, <3>2, <3>3
  <2>4. Sets(p, "live", w) /\ named' = named \union ({w} \ {NoFile})
    BY <1>2, <1>6, <2>1 DEF WriteRow
  <2>5. /\ row' \in [Places -> RowType] /\ row'[p].state = "live" /\ row'[p].names = w
        /\ \A r \in Places : r # p => row'[r] = row[r]
    BY <1>1, <2>3, <2>4, SetsIs
  <2>6. PICK k \in Errands :
          /\ Serves(s, k)
          /\ \/ errand[s].op = "image" /\ k = NoErrand
             \/ /\ errand[s].op # "image" /\ k.op = errand[s].op /\ k.place = p /\ k.pc = "sync"
                /\ k.new = errand[s].new /\ k.old = errand[s].old /\ k.shown = w
    <3>1. CASE errand[s].op = "image"
      <4>1. Done(s)
        BY <1>2, <1>6, <3>1 DEF WriteRow
      <4>2. QED
        BY <3>1, <4>1, NoErrandIs DEF Done
    <3>2. CASE errand[s].op # "image"
      <4>1. Serves(s, [errand[s] EXCEPT !.pc = "sync", !.shown = w])
        BY <1>2, <1>6, <2>1, <3>2 DEF WriteRow
      <4>2. PICK k : k = [errand[s] EXCEPT !.pc = "sync", !.shown = w]
        OBVIOUS
      <4>3. /\ k \in Errands /\ k.op = errand[s].op /\ k.place = p /\ k.pc = "sync"
            /\ k.new = errand[s].new /\ k.old = errand[s].old /\ k.shown = w
        BY <1>1, <1>2, <2>3, <4>2 DEF Errands
      <4>4. QED
        BY <3>2, <4>1, <4>2, <4>3
    <3>3. QED
      BY <3>1, <3>2
  <2>7. errand'[s] = k /\ \A t \in Clerks : t # s => errand'[t] = errand[t]
    BY <1>1, <2>6, ServesIs
  <2>8. /\ ~ToWrite(k) /\ (On(s, p)' => k.new = errand[s].new /\ errand[s].op # "image")
        /\ errand[s].op # "image" => On(s, p)'
        /\ \A t \in Clerks : On(t, p)' => On(t, p)
        /\ \A t \in Clerks : t # s /\ On(t, p) => On(t, p)'
    BY <1>2, <2>6, <2>7, NoErrandIs, FileNumbers DEF On, ToWrite
  <2>9. named' \subseteq Files /\ named \subseteq named' /\ (w # NoFile => w \in named')
        /\ \A f \in named' : f \in named \/ f = w
    BY <1>4, <2>3, <2>4
  <2>10. Local(p)
    <3>1. k.place \in {p, NoPlace}
      BY <2>6, NoErrandIs
    <3>2. \A f \in named' : f \in named \/ file[f].place = p
      BY <2>3, <2>4
    <3>3. QED
      BY <1>0, <1>2, <2>5, <2>7, <2>9, <3>1, <3>2 DEF Local
  <2>11. RowFits(p)'
    BY <1>0, <2>3, <2>5, <2>9 DEF RowFits
  <2>12. ErrandsFit(p)'
    <3>1. ASSUME errand[s].op # "image" PROVE Carries(p, k)'
      <4>1. <<k.op, "sync">> \in Steps /\ k.op \in {"create", "update", "remove"}
        BY <1>3, <2>6, <3>1, CallsAre
      <4>2. /\ Carries(p, errand[s]) /\ p \in Threads /\ k.op = errand[s].op /\ k.pc = "sync"
            /\ k.new = errand[s].new /\ k.old = errand[s].old
        BY <1>1, <1>2, <1>3, <2>6, <3>1
      <4>3. k.old # NoFile => k.old \in named' /\ file[k.old].place = p
        BY <2>9, <4>2 DEF Carries
      <4>4. QED
        BY <1>0, <4>1, <4>2, <4>3 DEF Carries, Kinds
    <3>2. ASSUME NEW t \in Clerks, t # s, On(t, p) PROVE Carries(p, errand[t])'
      <4>1. Carries(p, errand[t]) /\ errand'[t] = errand[t]
        BY <1>1, <1>2, <2>7, <3>2 DEF PlaceInv, ErrandsFit
      <4>2. ~(errand[t].op = "delete" /\ errand[t].pc # "delete")
        BY <1>6, <4>1 DEF Carries
      <4>3. QED
        BY <1>0, <2>9, <4>1, <4>2 DEF Carries
    <3>3. QED
      BY <2>7, <2>8, <3>1, <3>2 DEF ErrandsFit, Carries
  <2>13. Alone(p)'
    BY <1>0, <1>1, <1>2, <2>8 DEF PlaceInv, Alone, Uncrowded
  <2>14. \A t \in Clerks : On(t, p)' /\ ToWrite(errand[t])' => /\ t # s /\ On(t, p) /\ ToWrite(errand[t])
                                                           /\ errand'[t] = errand[t]
    BY <2>7, <2>8 DEF ToWrite
  <2>15. errand[s].op # "remove" /\ errand[s].new # NoFile => ToWrite(errand[s])
    BY <1>0 DEF ToWrite
  <2>16. FreshKeys(p)'
    <3> SUFFICES ASSUME p \notin hurt, p \notin again, NEW t \in Clerks, On(t, p)', ToWrite(errand[t])'
                 PROVE  /\ errand'[t].new \notin named' /\ file[errand'[t].new].state = "stored"
                        /\ \A u \in Clerks : On(u, p)' /\ u # t => errand'[u].new # errand'[t].new
      BY <1>0 DEF FreshKeys, Unhurt
    <3>1. errand'[t] = errand[t] /\ On(t, p) /\ ToWrite(errand[t]) /\ t # s
      BY <2>14
    <3>2. /\ errand[t].new \notin named /\ file[errand[t].new].state = "stored"
          /\ \A u \in Clerks : On(u, p) /\ u # t => errand[u].new # errand[t].new
      BY <1>1, <1>2, <3>1 DEF PlaceInv, FreshKeys, Unhurt
    <3>3. errand[t].new # errand[s].new /\ errand[t].new # NoFile
      BY <1>1, <1>2, <3>1, <3>2 DEF ToWrite
    <3>4. row[p].names # NoFile => row[p].names \in named
      BY <1>1, <1>2 DEF PlaceInv, RowFits
    <3>5. errand[t].new # w
      BY <2>2, <3>2, <3>3, <3>4
    <3>6. errand[t].new \notin named'
      BY <2>9, <3>2, <3>5
    <3>7. ASSUME NEW u \in Clerks, On(u, p)', u # t PROVE errand'[u].new # errand[t].new
      BY <2>7, <2>8, <3>2, <3>3, <3>7
    <3>8. QED
      BY <3>1, <3>2, <3>6, <3>7
  <2>17. SoleKeys(p)'
    <3>1. p \notin crowded => \A t \in Clerks : ~(On(t, p)' /\ ToWrite(errand[t])')
      BY <1>1, <1>2, <2>14 DEF PlaceInv, Alone, Uncrowded
    <3>2. QED
      BY <1>0, <3>1 DEF SoleKeys, Uncrowded
  <2>18. NamesKept(p)'
    <3> SUFFICES ASSUME Spared(p), w # NoFile, file[w].state # "stored"
                 PROVE  \E t \in Clerks : On(t, p)' /\ Overwrites(errand[t])'
      BY <1>0, <2>5 DEF NamesKept, NamedIsStored, Spared, Unhurt
    <3>1. errand[s].op # "remove"
      BY <1>1, <1>2, <2>2 DEF Carries, Spared
    <3>2. errand[s].new = NoFile
      <4> SUFFICES ASSUME errand[s].new # NoFile PROVE FALSE
        OBVIOUS
      <4>1. ToWrite(errand[s]) /\ w = errand[s].new
        BY <2>2, <2>15, <3>1
      <4>2. CASE p \notin again
        BY <1>1, <1>2, <4>1, <4>2 DEF PlaceInv, FreshKeys, Spared
      <4>3. CASE p \notin crowded
        BY <1>1, <1>2, <4>1, <4>3 DEF PlaceInv, SoleKeys, Spared, Uncrowded
      <4>4. QED
        BY <4>2, <4>3 DEF Spared
    <3>3. w = row[p].names /\ ~NamedIsStored(p)
      BY <2>2, <3>1, <3>2 DEF NamedIsStored
    <3>4. PICK t \in Clerks : On(t, p) /\ Overwrites(errand[t])
      BY <1>1, <1>2, <3>3 DEF PlaceInv, NamesKept
    <3>5. t # s
      BY <3>1, <3>2, <3>4 DEF Overwrites
    <3>6. QED
      BY <2>7, <2>8, <3>4, <3>5 DEF Overwrites
  <2>19. LeftGone(p)'
    <3> SUFFICES ASSUME p \notin hurt, p \notin Backdrops \union crowded \union cleared,
                        NEW f \in named', file[f].place = p, w # f, file[f].state # "erased"
                 PROVE  FALSE
      BY <1>0, <2>5 DEF LeftGone, Unhurt
    <3>1. f \in named /\ f # NoFile /\ errand[s].op # "remove"
      BY <1>1, <1>2, <1>4, <2>9, FileNumbers DEF Carries
    <3>2. CASE row[p].names = f
      <4>1. ToWrite(errand[s]) /\ w = errand[s].new
        BY <2>2, <2>15, <3>1, <3>2
      <4>2. row[p].names \in {NoFile, errand[s].new} \/ file[row[p].names].state = "erased"
        BY <1>0, <1>1, <1>2, <4>1 DEF PlaceInv, SoleKeys, Unhurt, Uncrowded
      <4>3. QED
        BY <3>1, <3>2, <4>1, <4>2
    <3>3. CASE row[p].names # f
      <4>1. PICK t \in Clerks : On(t, p) /\ errand[t].op = "delete" /\ errand[t].pc = "erase"
        BY <1>1, <1>2, <3>1, <3>3 DEF PlaceInv, LeftGone, Unhurt
      <4>2. t = s
        BY <1>1, <1>2, <4>1 DEF PlaceInv, Alone, Uncrowded
      <4>3. QED
        BY <1>0, <4>1, <4>2
    <3>4. QED
      BY <3>2, <3>3
  <2>20. DocFollows(p)'
    <3> SUFFICES ASSUME p \in Threads, p \notin crowded \union cleared \union hurt
                 PROVE  /\ Busied(p)'
                        /\ \A t \in Clerks : On(t, p)' => Follows(p, errand[t])'
      BY <1>0 DEF DocFollows
    <3>1. errand[s].op # "image" /\ errand[s].op # "remove"
      BY <1>1, <1>2, PlacesApart DEF Carries, Kinds
    <3>2. Busied(p)'
      BY <2>8, <3>1 DEF Busied, On
    <3>3. \A t \in Clerks : On(t, p)' => t = s
      BY <1>1, <1>2, <2>8 DEF PlaceInv, Alone, Uncrowded
    <3>4. Follows(p, errand[s])
      BY <1>1, <1>2, <1>6 DEF PlaceInv, DocFollows
    <3>5. /\ k.op = errand[s].op /\ k.pc = "sync" /\ k.shown = w
          /\ k.op \in {"create", "update"}
      BY <1>3, <2>6, <3>1
    <3>6. k.op = "update" => doc[p] = row[p].names /\ row[p].names # Unindexed
      BY <1>0, <1>4, <3>4, <3>5, FileNumbers DEF Follows
    <3>7. w = NoFile => w = row[p].names
      BY <2>2, <3>1
    <3>8. Follows(p, k)'
      BY <1>0, <2>5, <3>5, <3>6, <3>7 DEF Follows
    <3>9. QED
      BY <2>7, <3>2, <3>3, <3>8 DEF Follows
  <2>21. PlaceInv(p)'
    BY <2>11, <2>12, <2>13, <2>16, <2>17, <2>18, <2>19, <2>20 DEF PlaceInv
  <2>22. AssetsTypeOK' /\ SlotsFit' /\ FilesFit'
    <3>1. k = NoErrand \/ (k.op # "none" /\ k.place # NoPlace)
      BY <1>3, <2>6, FileNumbers
    <3>2. errand' \in [Clerks -> Errands] /\ SlotsFit'
      BY <2>6, <3>1, ServesTyped
    <3>3. FilesFit'
      BY <1>0, <1>1, <2>3, <2>9, FileNumbers DEF FilesFit
    <3>4. QED
      BY <1>0, <1>1, <2>5, <2>9, <3>2, <3>3 DEF AssetsTypeOK, RowType
  <2>23. QED
    BY <2>10, <2>21, <2>22, StepHolds
<1>7. QED
  BY <1>5, <1>6

LEMMA UploadHolds ==
    ASSUME AssetInv, NEW p \in Places, NEW f \in Files, Upload(p, f) PROVE AssetInv'
<1>0. /\ file[f] = Unused /\ file' = [file EXCEPT ![f] = [place |-> p, state |-> "stored"]]
      /\ UNCHANGED <<assetStore, row, doc, errand, named, hurt, crowded, again, cleared, jobs, mishaps>>
  BY DEF Upload, History
<1>1. /\ AssetsTypeOK /\ SlotsFit /\ FilesFit /\ \A q \in Places : PlaceInv(q)
      /\ file \in [Files -> FileType]
  BY AssetFacts DEF AssetInv
<1>2. file[f].place = NoPlace /\ file[f].state = "unused" /\ NoPlace \notin Places
  BY <1>0, FileNumbers DEF Unused
<1>3. f \notin named
  BY <1>1, <1>2 DEF FilesFit
<1>4. /\ file' \in [Files -> FileType] /\ file'[f].place = p /\ file'[f].state = "stored"
      /\ \A g \in Files : g # f => file'[g] = file[g]
  BY <1>0, <1>1 DEF FileType
<1>5. AssetsTypeOK'
  BY <1>0, <1>1, <1>4 DEF AssetsTypeOK, FileType
<1>6. SlotsFit'
  BY <1>0, <1>1 DEF SlotsFit
<1>7. FilesFit'
  BY <1>0, <1>1, <1>4 DEF FilesFit
<1>8. ASSUME NEW q \in Places PROVE PlaceInv(q)'
  <2>1. \A g \in Files : file[g].place = q => file'[g] = file[g]
    BY <1>2, <1>4
  <2>2. \A g \in named' : g \in named /\ file'[g] = file[g]
    BY <1>0, <1>1, <1>3, <1>4 DEF AssetsTypeOK
  <2>3. Same(q)
    BY <1>0, <2>1, <2>2 DEF Same
  <2>4. QED
    BY <2>3, Elsewhere
<1>9. QED
  BY <1>5, <1>6, <1>7, <1>8 DEF AssetInv

LEMMA DeleteAssetHolds ==
    ASSUME AssetInv, NEW f \in Files, DeleteAsset(f) PROVE AssetInv'
<1>0. /\ file[f].state = "stored" /\ file' = [file EXCEPT ![f].state = "erased"]
      /\ mishaps < MaxAssetMishaps /\ mishaps' = mishaps + 1 /\ hurt' = hurt \union {file[f].place}
      /\ UNCHANGED <<assetStore, row, doc, errand, named, crowded, again, cleared, jobs>>
  BY DEF DeleteAsset
<1>1. /\ AssetsTypeOK /\ SlotsFit /\ FilesFit
      /\ file \in [Files -> FileType] /\ named \in SUBSET Files
  BY AssetFacts DEF AssetInv
<1>2. PICK p \in Places : p = file[f].place
  BY <1>0, <1>1 DEF FilesFit
<1>3. PlaceInv(p)
  BY DEF AssetInv
<1>4. /\ file' \in [Files -> FileType] /\ file'[f].place = p /\ file'[f].state = "erased"
      /\ \A g \in Files : g # f => file'[g] = file[g]
  <2>1. file[f] \in FileType /\ file'[f] = [file[f] EXCEPT !.state = "erased"]
    BY <1>0, <1>1
  <2>2. file'[f] \in FileType /\ file'[f].place = p /\ file'[f].state = "erased"
    BY <1>2, <2>1 DEF FileType
  <2>3. QED
    BY <1>0, <1>1, <2>2
<1>5. \A g \in Files : file'[g].place = file[g].place
  BY <1>2, <1>4
<1>6. hurt' = hurt \union {p} /\ hurt' \subseteq Places /\ mishaps' \in 0..MaxAssetMishaps
  BY <1>0, <1>1, <1>2, AssetAssumption DEF AssetsTypeOK
<1>7. AssetsTypeOK' /\ SlotsFit' /\ FilesFit'
  <2>1. AssetsTypeOK'
    BY <1>0, <1>1, <1>4, <1>6 DEF AssetsTypeOK, FileType
  <2>2. SlotsFit'
    BY <1>0, <1>1 DEF SlotsFit
  <2>3. FilesFit'
    BY <1>0, <1>1, <1>2, <1>4 DEF FilesFit
  <2>4. QED
    BY <2>1, <2>2, <2>3
<1>8. Local(p)
  <2>1. \A g \in Files : file[g].place # p => file'[g] = file[g]
    BY <1>2, <1>4
  <2>2. QED
    BY <1>0, <1>1, <1>5, <1>6, <2>1 DEF Local
<1>9. RowFits(p)'
  BY <1>0, <1>1, <1>3, <1>5 DEF PlaceInv, RowFits
<1>10. ErrandsFit(p)'
  <2> SUFFICES ASSUME NEW t \in Clerks, On(t, p) PROVE Carries(p, errand[t])'
    BY <1>0 DEF ErrandsFit, On
  <2>1. Carries(p, errand[t])
    BY <1>3 DEF PlaceInv, ErrandsFit
  <2>2. /\ errand[t].new # NoFile => file'[errand[t].new].place = file[errand[t].new].place
        /\ errand[t].old # NoFile => file'[errand[t].old].place = file[errand[t].old].place
    BY <1>1, <1>5, ErrandFacts
  <2>3. QED
    BY <1>0, <2>1, <2>2 DEF Carries
<1>11. Alone(p)'
  BY <1>0, <1>3 DEF PlaceInv, Alone, Uncrowded, On
<1>12. PlaceInv(p)'
  BY <1>6, <1>9, <1>10, <1>11, HurtHere
<1>13. QED
  BY <1>7, <1>8, <1>12, StepHolds

LEMMA SetBackgroundHolds ==
    ASSUME AssetInv, NEW p \in Backdrops, NEW f \in Offered(p) \union {NoFile}, SetBackground(p, f)
    PROVE  AssetInv'
<1>0. /\ jobs < MaxJobs /\ jobs' = jobs + 1 /\ named' = named \union ({f} \ {NoFile})
      /\ UNCHANGED <<assetStore, file, doc, errand, hurt, crowded, again, cleared, mishaps>>
      /\ IF f = NoFile THEN UNCHANGED row ELSE Sets(p, "live", f)
  BY DEF SetBackground
<1>1. /\ AssetsTypeOK /\ SlotsFit /\ FilesFit /\ p \in Places /\ PlaceInv(p)
      /\ named \in SUBSET Files /\ row \in [Places -> RowType]
  BY PlacesApart, AssetFacts DEF AssetInv
<1>2. f \in Files \union {NoFile} /\ (f # NoFile => file[f].place = p /\ file[f].state = "stored")
  BY <1>1, OfferedIs
<1>3. /\ row' \in [Places -> RowType] /\ \A q \in Places : q # p => row'[q] = row[q]
      /\ f # NoFile => row'[p].state = "live" /\ row'[p].names = f
      /\ f = NoFile => row'[p] = row[p]
  <2>1. CASE f = NoFile
    BY <1>0, <1>1, <2>1
  <2>2. CASE f # NoFile
    BY <1>0, <1>1, <1>2, <2>2, SetsIs
  <2>3. QED
    BY <2>1, <2>2
<1>4. /\ named' \subseteq Files /\ named \subseteq named' /\ (f # NoFile => f \in named')
      /\ \A g \in named' : g \in named \/ file[g].place = p
  BY <1>0, <1>1, <1>2
<1>5. p \notin Threads /\ p \notin Avatars
  BY PlacesApart
<1>6. \A t \in Clerks : ~On(t, p) /\ ~On(t, p)'
  <2>1. \A t \in Clerks : ~On(t, p)
    BY <1>1, <1>5 DEF PlaceInv, ErrandsFit, Carries, Kinds
  <2>2. QED
    BY <1>0, <2>1 DEF On
<1>7. AssetsTypeOK' /\ SlotsFit' /\ FilesFit'
  <2>1. jobs' \in 0..MaxJobs
    BY <1>0, <1>1, AssetAssumption DEF AssetsTypeOK
  <2>2. AssetsTypeOK'
    BY <1>0, <1>1, <1>3, <1>4, <2>1 DEF AssetsTypeOK, RowType
  <2>3. SlotsFit' /\ FilesFit'
    BY <1>0, <1>1, <1>4 DEF SlotsFit, FilesFit
  <2>4. QED
    BY <2>2, <2>3
<1>8. Local(p)
  BY <1>0, <1>3, <1>4 DEF Local
<1>9. RowFits(p)'
  BY <1>0, <1>1, <1>2, <1>3, <1>4 DEF PlaceInv, RowFits
<1>10. ErrandsFit(p)' /\ Alone(p)' /\ FreshKeys(p)' /\ SoleKeys(p)'
  BY <1>6 DEF ErrandsFit, Alone, FreshKeys, SoleKeys
<1>11. NamesKept(p)'
  <2>1. CASE f = NoFile
    <3>1. Spared(p)' => NamedIsStored(p)
      BY <1>0, <1>1, <1>6 DEF PlaceInv, NamesKept, Spared, Unhurt
    <3>2. QED
      BY <1>0, <1>3, <2>1, <3>1 DEF NamesKept, NamedIsStored
  <2>2. CASE f # NoFile
    BY <1>0, <1>2, <1>3, <2>2 DEF NamesKept, NamedIsStored
  <2>3. QED
    BY <2>1, <2>2
<1>12. LeftGone(p)' /\ DocFollows(p)'
  BY <1>5 DEF LeftGone, DocFollows
<1>13. PlaceInv(p)'
  BY <1>9, <1>10, <1>11, <1>12 DEF PlaceInv
<1>14. QED
  BY <1>1, <1>7, <1>8, <1>13, StepHolds

LEMMA AssetInvInit == AssetsInit => AssetInv
<1> SUFFICES ASSUME AssetsInit PROVE AssetInv
  OBVIOUS
<1>0. /\ assetStore \in AssetStores /\ file = [f \in Files |-> Unused]
      /\ doc = [q \in Threads |-> Unindexed] /\ errand = [s \in Clerks |-> NoErrand]
      /\ named = {} /\ hurt = {} /\ crowded = {} /\ again = {} /\ cleared = {} /\ jobs = 0 /\ mishaps = 0
  BY DEF AssetsInit
<1>1. row \in [Places -> RowType] /\ \A p \in Places : row[p].names = NoFile /\ (p \in Threads => row[p].state = "none")
  BY DEF AssetsInit, RowType
<1>2. Unused \in FileType /\ Unused.place = NoPlace /\ Unused.state = "unused"
  BY DEF Unused, FileType
<1>3. AssetsTypeOK
  BY <1>0, <1>1, <1>2, NoErrandIs, AssetAssumption DEF AssetsTypeOK, RowType, FileType
<1>4. SlotsFit /\ FilesFit
  BY <1>0, <1>2 DEF SlotsFit, FilesFit
<1>5. ASSUME NEW p \in Places PROVE PlaceInv(p)
  <2>1. \A s \in Clerks : ~On(s, p)
    BY <1>0, NoErrandIs, FileNumbers DEF On
  <2>2. RowFits(p) /\ NamesKept(p)
    BY <1>1 DEF RowFits, NamesKept, NamedIsStored
  <2>3. ErrandsFit(p) /\ Alone(p) /\ FreshKeys(p) /\ SoleKeys(p)
    BY <2>1 DEF ErrandsFit, Alone, FreshKeys, SoleKeys
  <2>4. LeftGone(p)
    BY <1>0 DEF LeftGone
  <2>5. DocFollows(p)
    BY <1>1 DEF DocFollows
  <2>6. QED
    BY <2>2, <2>3, <2>4, <2>5 DEF PlaceInv
<1>6. QED
  BY <1>3, <1>4, <1>5 DEF AssetInv

LEMMA AssetInvNext == AssetInv /\ [AssetsNext]_assetVars => AssetInv'
<1> SUFFICES ASSUME AssetInv, [AssetsNext]_assetVars PROVE AssetInv'
  OBVIOUS
<1>1. CASE \E p \in Places, f \in Files : Upload(p, f)
  BY <1>1, UploadHolds
<1>2. CASE \E f \in Files : DeleteAsset(f)
  BY <1>2, DeleteAssetHolds
<1>3. CASE \E b \in Backdrops : \E f \in Offered(b) \union {NoFile} : SetBackground(b, f)
  BY <1>3, SetBackgroundHolds
<1>4. ASSUME NEW s \in Clerks, Asks(s) PROVE AssetInv'
  <2>1. CASE \E q \in Threads : \E f \in Offered(q) \union {NoFile} : StartCreate(s, q, f)
    BY <2>1, StartCreateHolds
  <2>2. CASE \E q \in Threads : \E f \in Offered(q) \union {NoFile} : StartUpdateThumbnail(s, q, f)
    BY <2>2, StartUpdateHolds
  <2>3. CASE \E q \in Threads : StartRemoveThumbnail(s, q)
    BY <2>3, StartRemoveHolds
  <2>4. CASE \E q \in Threads : StartDeleteThread(s, q)
    BY <2>4, StartDeleteHolds
  <2>5. CASE \E a \in Avatars : \E f \in Offered(a) : StartImage(s, a, f)
    BY <2>5, StartImageHolds
  <2>6. QED
    BY <1>4, <2>1, <2>2, <2>3, <2>4, <2>5 DEF Asks
<1>5. ASSUME NEW s \in Clerks,
             EraseOld(s) \/ WriteRow(s) \/ SyncThread(s) \/ DeleteThreadRow(s) \/ UnindexThread(s) \/ BreakOff(s)
      PROVE  AssetInv'
  BY <1>5, EraseHolds, WriteRowHolds, SyncHolds, DeleteRowHolds, UnindexHolds, BreakOffHolds
<1>6. CASE UNCHANGED assetVars
  <2>1. UNCHANGED <<assetStore, file, row, doc, errand, named, hurt, crowded, again, cleared, jobs, mishaps>>
    BY <1>6 DEF assetVars, History
  <2>2. AssetsTypeOK' /\ SlotsFit' /\ FilesFit'
    BY <2>1 DEF AssetInv, AssetsTypeOK, SlotsFit, FilesFit
  <2>3. ASSUME NEW p \in Places PROVE PlaceInv(p)'
    <3>1. Same(p)
      BY <2>1 DEF Same
    <3>2. QED
      BY <3>1, Elsewhere
  <2>4. QED
    BY <2>2, <2>3 DEF AssetInv
<1>7. QED
  BY <1>1, <1>2, <1>3, <1>4, <1>5, <1>6 DEF AssetsNext

\* Every reachable state of Assets is well typed.
THEOREM AssetTyping == AssetsSpec => []AssetsTypeOK
<1>1. AssetInv => AssetsTypeOK
  BY DEF AssetInv
<1>2. QED
  BY <1>1, AssetInvInit, AssetInvNext, PTL DEF AssetsSpec

\* Once nobody is busy with a place where nothing failed, the file its row names is in the
\* storage and those it named before are not, and the search document shows the same.
THEOREM FilesFollow == AssetsSpec => []FilesFollowRows
<1>1. AssetInv => FilesFollowRows
  <2> SUFFICES ASSUME AssetInv, NEW p \in Places, Settled(p)
               PROVE  /\ p \notin crowded \intersect again /\ (assetStore = "postgres" => p \notin cleared)
                            => NamedIsStored(p)
                      /\ p \notin Backdrops \union crowded \union cleared => LeftAreErased(p)
                      /\ p \in Threads \ (crowded \union cleared) /\ row[p].state = "live"
                            => doc[p] = row[p].names
    BY DEF FilesFollowRows
  <2>1. PlaceInv(p) /\ p \notin hurt /\ ~Busied(p)
    BY DEF AssetInv, Settled
  <2>2. \A s \in Clerks : ~On(s, p)
    BY <2>1 DEF Busied, On
  <2>3. p \notin crowded \intersect again /\ (assetStore = "postgres" => p \notin cleared)
           => NamedIsStored(p)
    BY <2>1, <2>2 DEF PlaceInv, NamesKept, Spared, Unhurt
  <2>4. p \notin Backdrops \union crowded \union cleared => LeftAreErased(p)
    BY <2>1, <2>2 DEF PlaceInv, LeftGone, LeftAreErased, Unhurt
  <2>5. p \in Threads \ (crowded \union cleared) /\ row[p].state = "live" => doc[p] = row[p].names
    BY <2>1 DEF PlaceInv, DocFollows
  <2>6. QED
    BY <2>3, <2>4, <2>5
<1>2. QED
  BY <1>1, AssetInvInit, AssetInvNext, PTL DEF AssetsSpec

-----------------------------------------------------------------------------
(***************************************************************************)
(* Side by side, as MCContents runs them.  A step of the run is a step of  *)
(* one part and leaves the variables of the others, so each part behaves   *)
(* as its own specification says, and what is proved of it holds here too. *)
(***************************************************************************)
LEMMA ContentsStep ==
    [ContentsNext]_contentsVars =>
        /\ [Next]_vars /\ [ListingsNext]_listVars /\ [AssetsNext]_assetVars
        /\ [ReindexNext]_reindexVars /\ [BackfillNext]_backfillVars
        /\ [AccessNext]_accessVars /\ [SessionsNext]_sessionVars
<1> SUFFICES ASSUME [ContentsNext]_contentsVars
             PROVE  /\ [Next]_vars /\ [ListingsNext]_listVars /\ [AssetsNext]_assetVars
                    /\ [ReindexNext]_reindexVars /\ [BackfillNext]_backfillVars
                    /\ [AccessNext]_accessVars /\ [SessionsNext]_sessionVars
  OBVIOUS
<1>1. CASE StepOf("reactions", Next,
                  <<listVars, assetVars, reindexVars, backfillVars, accessVars, sessionVars>>)
  BY <1>1 DEF StepOf
<1>2. CASE StepOf("listings", ListingsNext,
                  <<vars, assetVars, reindexVars, backfillVars, accessVars, sessionVars>>)
  BY <1>2 DEF StepOf
<1>3. CASE StepOf("assets", AssetsNext,
                  <<vars, listVars, reindexVars, backfillVars, accessVars, sessionVars>>)
  BY <1>3 DEF StepOf
<1>4. CASE StepOf("reindex", ReindexNext,
                  <<vars, listVars, assetVars, backfillVars, accessVars, sessionVars>>)
  BY <1>4 DEF StepOf
<1>5. CASE StepOf("backfill", BackfillNext,
                  <<vars, listVars, assetVars, reindexVars, accessVars, sessionVars>>)
  BY <1>5 DEF StepOf
<1>6. CASE StepOf("access", AccessNext,
                  <<vars, listVars, assetVars, reindexVars, backfillVars, sessionVars>>)
  BY <1>6 DEF StepOf
<1>7. CASE StepOf("sessions", SessionsNext,
                  <<vars, listVars, assetVars, reindexVars, backfillVars, accessVars>>)
  BY <1>7 DEF StepOf
<1>8. CASE UNCHANGED contentsVars
  BY <1>8 DEF contentsVars
<1>9. QED
  BY <1>1, <1>2, <1>3, <1>4, <1>5, <1>6, <1>7, <1>8 DEF ContentsNext

\* A behaviour of the run around the contents is one of the reactions, of the lists, of the
\* files, of the two scripts, of the permissions and of the tokens, each: every theorem about
\* one of these is one about that run.
THEOREM ContentsKeepTheirParts ==
    ContentsSpec => /\ Spec /\ ListingsSpec /\ AssetsSpec /\ ReindexSpec /\ BackfillSpec
                    /\ AccessSpec /\ SessionsSpec
<1>1. ContentsInit => /\ Init /\ ListingsInit /\ AssetsInit /\ ReindexInit /\ BackfillInit
                      /\ AccessInit /\ SessionsInit
  BY DEF ContentsInit
<1>2. QED
  BY <1>1, ContentsStep, PTL
     DEF ContentsSpec, Spec, ListingsSpec, AssetsSpec, ReindexSpec, BackfillSpec, AccessSpec,
         SessionsSpec

\* Votes, lists, files, documents, links, permissions and tokens are always what they may be.
THEOREM ContentsTyping == ContentsSpec => []ContentsTypesOK
BY ContentsKeepTheirParts, Typing, ListingsTyping, AssetTyping, ReindexTyping, BackfillTyping,
   AccessTyping, SessionsTypeCorrect, PTL DEF ContentsTypesOK
=============================================================================

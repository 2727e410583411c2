------------------------ MODULE ContentCopiesProofs ------------------------
(***************************************************************************)
(* Theorems about the copies that question and answer handlers repair by   *)
(* hand: the documents of the search index, and the parts of a chain that  *)
(* other chains repeat.  For any contents and either database, as long as  *)
(* requests do not overlap and nothing fails.                              *)
(***************************************************************************)
EXTENDS ContentTreeProofs

-----------------------------------------------------------------------------
(***************************************************************************)
(* Part one: the search index.  Each document is as the rows have it but   *)
(* for what the request in progress still has to publish.  r: a request;   *)
(* i, d: documents and rows, now or after a step.                          *)
(***************************************************************************)
\* PostgreSQL derives a question's list of answers.
AnswersShown(d, x) ==
    IF backend = "postgres" /\ x \in Questions THEN AnswersIn(d, x) ELSE d[x].answers

\* x comes into the index, or out of it, with a later step of r.
LagsEntry(r, d, x) ==
    \/ r.pc \in {"index", "unindex"} /\ x = r.id
    \/ /\ r.op = "deleteQuestion" /\ x \in AnswersIn(d, r.id)
       /\ r.pc \in {"unindexAnswers", "strip", "scanAnswers", "reread", "sync", "remove"}
LagsAncestors(r, x) == r.op = "deleteQuestion" /\ r.pc \in {"reread", "sync"} /\ x = r.cur
LagsAnswers(r, x) ==
    /\ x = r.target
    /\ \/ r.op = "createAnswer" /\ r.pc \in {"insert", "index", "reread", "sync"}
       \/ r.op = "deleteAnswer" /\ r.pc \in {"unindex", "readList", "writeList", "reread", "sync"}

MirrorsAt(r, i, d, x) ==
    /\ (i[x] # NoRow <=> HasRow(d, x)) \/ LagsEntry(r, d, x)
    /\ HasRow(d, x) /\ i[x] # NoRow =>
          /\ i[x].parent = d[x].parent
          /\ i[x].ancestors = IdsOf(d[x].anc) \/ LagsAncestors(r, x)
          /\ i[x].answers = AnswersShown(d, x) \/ LagsAnswers(r, x)

Shows(doc, d, x) ==
    /\ doc.parent = d[x].parent /\ doc.ancestors = IdsOf(d[x].anc)
    /\ doc.answers = AnswersShown(d, x)

\* What r carries is what the rows are, and what it works on is there.
CarriesRows(r, i, d) ==
    /\ r.pc = "index" => HasRow(d, r.id) /\ Shows(r.doc, d, r.id)
    /\ r.pc \in {"reread", "sync"} => HasRow(d, r.cur)
    /\ r.pc = "sync" => Shows(r.doc, d, r.cur)
    /\ r.op = "createAnswer" \/ (r.op = "deleteAnswer" /\ r.pc # "remove") => HasRow(d, r.target)
    /\ r.op \in {"createAnswer", "deleteAnswer"} /\ r.pc \in {"reread", "sync"} =>
          r.cur = r.target
    /\ r.op = "deleteQuestion" => (HasRow(d, r.id) <=> r.pc # "unindex")
    /\ r.pc = "unindexAnswers" => r.todo \subseteq AnswersIn(d, r.id)
    /\ r.op = "deleteQuestion" /\ r.pc \notin {"listAnswers", "unindex"} =>
          \A a \in AnswersIn(d, r.id) :
              i[a] = NoRow \/ (r.pc = "unindexAnswers" /\ a \in r.todo)

Mirrored(r, i, d) == (\A x \in Ids : MirrorsAt(r, i, d, x)) /\ CarriesRows(r, i, d)

MirrorInv == ~overlapped /\ failures = 0 => \A r \in Current : Mirrored(r, index, db)

(***************************************************************************)
(* Part two: chains.  What a chain names below an entry is what the chain  *)
(* of that entry's content names, but for a question being deleted.        *)
(***************************************************************************)
Below(anc, e) == IdsOf({f \in anc : e.depth < f.depth})
AgreesWith(anc, d, gone) ==
    \A e \in anc : e.id \in Questions /\ HasRow(d, e.id) =>
        Below(anc, e) \ gone = IdsOf(d[e.id].anc) \ gone
Heads(p, anc) == \E e \in anc : e.id = p /\ \A f \in anc : e.depth <= f.depth

Gone(r) == IF r.op = "deleteQuestion" /\ r.pc # "unindex" THEN {r.id} ELSE {}

Agree(d, gone) ==
    /\ \A x \in Ids : HasRow(d, x) => AgreesWith(d[x].anc, d, gone)
    /\ \A q \in Questions :
          HasRow(d, q) /\ d[q].parent \in Ids \ gone /\ HasRow(d, d[q].parent) =>
              Heads(d[q].parent, d[q].anc)

\* What r computed still agrees with the rows when it is inserted; a content
\* whose chain r rewrote is still there.
CarriesChain(r, d) ==
    /\ r.pc \in {"save", "insert"} => AgreesWith(r.anc, d, {})
    /\ r.pc = "save" /\ r.op = "createQuestion" /\ r.parent # None => Heads(r.parent, r.anc)
    /\ r.pc = "insert" => \A q \in Questions : HasRow(d, q) => d[q].parent # r.id
    /\ r.op = "deleteQuestion" /\ r.pc = "reread" => HasRow(d, r.cur)

Chained(r, d) == Agree(d, Gone(r)) /\ CarriesChain(r, d)

ChainInv == ~overlapped /\ failures = 0 => \A r \in Current : Chained(r, db)

-----------------------------------------------------------------------------
(***************************************************************************)
(* The one request in progress, before a step of its own and after.        *)
(***************************************************************************)
LEMMA LoneStep ==
    ASSUME TreeInv, SerialInv, NEW w \in Workers, Active(w), NEW r,
           req' = [req EXCEPT ![w] = r], ~overlapped, r.pc = "idle" => r = Idle
    PROVE  Current = {req[w]} /\ Facts(req[w], db, failures) /\ Current' = {r}
<1>0. req \in [Workers -> Requests] /\ req'[w] = r /\ \A v \in Workers : v # w => req'[v] = req[v]
  BY TreeFacts
<1>1. /\ \A v \in Workers : v # w => ~Active(v)
      /\ Current = {req[w]} /\ Facts(req[w], db, failures)
  BY DEF SerialInv, Current, Quiet
<1>2. /\ \A v \in Workers : v # w => ~Active(v)'
      /\ Active(w)' <=> r.pc # "idle"
  BY <1>0, <1>1 DEF Active
<1>3. CASE r.pc = "idle"
  <2>1. Quiet'
    BY <1>2, <1>3 DEF Quiet
  <2>2. Idle' = r
    BY <1>3 DEF Idle
  <2>3. QED
    BY <1>1, <2>1, <2>2 DEF Current
<1>4. CASE r.pc # "idle"
  BY <1>0, <1>1, <1>2, <1>4 DEF Current, Quiet
<1>5. QED
  BY <1>3, <1>4

\* A request that begins while nobody is active.
LEMMA LoneBegin ==
    ASSUME TreeInv, NEW w \in Workers, NEW r, Begin(w, r), r.pc # "idle", ~overlapped'
    PROVE  /\ ~overlapped /\ Current = {Idle} /\ Current' = {r}
           /\ UNCHANGED <<backend, db, index, failures>>
<1>0. /\ req \in [Workers -> Requests] /\ req' = [req EXCEPT ![w] = r]
      /\ UNCHANGED <<backend, db, index, failures>>
      /\ overlapped' = (overlapped \/ \E v \in Workers : Active(v))
  BY TreeFacts DEF Begin, Become, Store
<1>1. req'[w] = r /\ \A v \in Workers : v # w => req'[v] = req[v]
  BY <1>0
<1>2. Quiet /\ ~overlapped
  BY <1>0 DEF Quiet
<1>3. (\A v \in Workers : v # w => ~Active(v)') /\ Active(w)'
  BY <1>1, <1>2 DEF Active, Quiet
<1>4. Current' = {r}
  BY <1>1, <1>3 DEF Current, Quiet
<1>5. QED
  BY <1>0, <1>2, <1>4 DEF Current

LEMMA MirrorInvNext ==
    ASSUME backend' = backend,
           ~overlapped' /\ failures' = 0 => \A r \in Current' : Mirrored(r, index', db')
    PROVE  MirrorInv'
<1>1. ASSUME NEW r PROVE CarriesRows(r, index, db)' <=> CarriesRows(r, index', db')
  BY DEF CarriesRows, Shows, AnswersShown, AnswersIn, HasRow
<1>2. ASSUME NEW r, NEW x PROVE MirrorsAt(r, index, db, x)' <=> MirrorsAt(r, index', db', x)
  BY DEF MirrorsAt, AnswersShown, LagsEntry, LagsAncestors, LagsAnswers, AnswersIn, HasRow
<1>3. QED
  BY <1>1, <1>2 DEF MirrorInv, Mirrored

LEMMA MirrorStep ==
    ASSUME TreeInv, SerialInv, MirrorInv, NEW w \in Workers, Active(w), NEW r,
           req' = [req EXCEPT ![w] = r], backend' = backend, overlapped' = overlapped,
           failures' \in {failures, failures + 1}, r.pc = "idle" => r = Idle,
           failures' = failures /\ Facts(req[w], db, failures) /\ Mirrored(req[w], index, db) =>
               Mirrored(r, index', db')
    PROVE  MirrorInv'
<1>1. ASSUME ~overlapped', failures' = 0 PROVE \A x \in Current' : Mirrored(x, index', db')
  <2>1. failures = 0 /\ failures' = failures
    BY <1>1, TreeFacts, MaxFailuresAssumption
  <2>2. Current = {req[w]} /\ Facts(req[w], db, failures) /\ Current' = {r}
    BY <1>1, LoneStep
  <2>3. Mirrored(req[w], index, db)
    BY <1>1, <2>1, <2>2 DEF MirrorInv
  <2>4. QED
    BY <2>1, <2>2, <2>3
<1>2. QED
  BY <1>1, MirrorInvNext

\* A document stays right when it, its row and the answers do, and r still owes what it owed.
LEMMA MirrorsAtStays ==
    ASSUME NEW r, NEW i, NEW d, NEW r1, NEW i1, NEW d1, NEW x, MirrorsAt(r, i, d, x),
           i1[x] = i[x], d1[x] = d[x], AnswersShown(d1, x) = AnswersShown(d, x) \/ LagsAnswers(r1, x),
           LagsEntry(r, d, x) => LagsEntry(r1, d1, x),
           LagsAncestors(r, x) => LagsAncestors(r1, x), LagsAnswers(r, x) => LagsAnswers(r1, x)
    PROVE  MirrorsAt(r1, i1, d1, x)
BY DEF MirrorsAt, HasRow

LEMMA MirrorBegin ==
    ASSUME TreeInv, MirrorInv, NEW w \in Workers, NEW r, Begin(w, r), r.pc # "idle",
           CarriesRows(r, index, db)
    PROVE  MirrorInv'
<1>1. ASSUME ~overlapped', failures' = 0 PROVE \A x \in Current' : Mirrored(x, index', db')
  <2>1. /\ ~overlapped /\ Current = {Idle} /\ Current' = {r}
        /\ UNCHANGED <<backend, db, index, failures>>
    BY <1>1, LoneBegin
  <2>2. Mirrored(Idle, index, db)
    BY <1>1, <2>1 DEF MirrorInv
  <2>3. \A x : ~LagsEntry(Idle, db, x) /\ ~LagsAncestors(Idle, x) /\ ~LagsAnswers(Idle, x)
    BY DEF LagsEntry, LagsAncestors, LagsAnswers, Idle
  <2>4. \A x \in Ids : MirrorsAt(r, index, db, x)
    BY <2>2, <2>3, MirrorsAtStays DEF Mirrored
  <2>5. QED
    BY <2>1, <2>4 DEF Mirrored
<1>2. backend' = backend
  BY DEF Begin, Store
<1>3. QED
  BY <1>1, <1>2, MirrorInvNext

\* A step that leaves the rows and the documents alone.
LEMMA MirrorReading ==
    ASSUME TreeInv, SerialInv, MirrorInv, NEW w \in Workers, Active(w), NEW r, Become(w, r),
           UNCHANGED <<Store, index, overlapped, failures>>, r.pc = "idle" => r = Idle,
           Facts(req[w], db, failures) /\ Mirrored(req[w], index, db) =>
               /\ CarriesRows(r, index, db)
               /\ \A x \in Ids : /\ LagsEntry(req[w], db, x) => LagsEntry(r, db, x)
                                 /\ LagsAncestors(req[w], x) => LagsAncestors(r, x)
                                 /\ LagsAnswers(req[w], x) => LagsAnswers(r, x)
    PROVE  MirrorInv'
<1>0. UNCHANGED <<backend, db, index, overlapped, failures>> /\ req' = [req EXCEPT ![w] = r]
  BY DEF Store, Become
<1>1. ASSUME Facts(req[w], db, failures), Mirrored(req[w], index, db)
      PROVE  Mirrored(r, index, db)
  BY <1>1, MirrorsAtStays DEF Mirrored
<1>2. QED
  BY <1>0, <1>1, MirrorStep

LEMMA IdleOwesNothing == ASSUME NEW i, NEW d PROVE CarriesRows(Idle, i, d)
BY DEF CarriesRows, Idle

LEMMA MirrorReads ==
    ASSUME TreeInv, SerialInv, MirrorInv, NEW w \in Workers, Active(w), NEW ok, NEW r,
           Reads(w, ok, r), ok \in BOOLEAN,
           ok => r.pc # "idle",
           Facts(req[w], db, failures) /\ Mirrored(req[w], index, db) =>
               IF ok
               THEN /\ CarriesRows(r, index, db)
                    /\ \A x \in Ids : /\ LagsEntry(req[w], db, x) => LagsEntry(r, db, x)
                                      /\ LagsAncestors(req[w], x) => LagsAncestors(r, x)
                                      /\ LagsAnswers(req[w], x) => LagsAnswers(r, x)
               ELSE \A x \in Ids : /\ ~LagsEntry(req[w], db, x) /\ ~LagsAncestors(req[w], x)
                                   /\ ~LagsAnswers(req[w], x)
    PROVE  MirrorInv'
<1>1. UNCHANGED <<Store, index, overlapped, failures>>
  BY DEF Reads
<1>2. CASE ok
  BY <1>1, <1>2, MirrorReading DEF Reads
<1>3. CASE ~ok
  BY <1>1, <1>3, IdleOwesNothing, MirrorReading DEF Reads, Finish
<1>4. QED
  BY <1>2, <1>3

LEMMA MirrorWriting ==
    ASSUME TreeInv, SerialInv, MirrorInv, NEW w \in Workers, Active(w), NEW d, NEW r,
           Writes(w, d, r), r.pc # "idle",
           Facts(req[w], db, failures) /\ Mirrored(req[w], index, db) => Mirrored(r, index, d)
    PROVE  MirrorInv'
BY MirrorStep DEF Writes, Become

LEMMA MirrorPublishing ==
    ASSUME TreeInv, SerialInv, MirrorInv, NEW w \in Workers, Active(w), NEW y, NEW doc,
           Publish(y, doc), UNCHANGED <<Store, overlapped>>, NEW r, Become(w, r),
           r.pc = "idle" => r = Idle,
           Facts(req[w], db, failures) /\ Mirrored(req[w], index, db) =>
               Mirrored(r, [index EXCEPT ![y] = doc], db)
    PROVE  MirrorInv'
<1>0. UNCHANGED <<backend, db, overlapped>> /\ req' = [req EXCEPT ![w] = r]
  BY DEF Store, Become
<1>1. failures \in Nat
  BY TreeFacts, MaxFailuresAssumption
<1>2. failures' \in {failures, failures + 1}
  BY DEF Publish, Failure
<1>3. failures' = failures => index' = [index EXCEPT ![y] = doc]
  BY <1>1 DEF Publish, Failure
<1>4. QED
  BY <1>0, <1>2, <1>3, MirrorStep

\* The document of y is new, the others are as they were.
LEMMA MirroredButOne ==
    ASSUME TreeInv, NEW r, Mirrored(r, index, db), NEW r1, NEW y \in Ids, NEW doc,
           MirrorsAt(r1, [index EXCEPT ![y] = doc], db, y),
           \A x \in Ids \ {y} : /\ LagsEntry(r, db, x) => LagsEntry(r1, db, x)
                                /\ LagsAncestors(r, x) => LagsAncestors(r1, x)
                                /\ LagsAnswers(r, x) => LagsAnswers(r1, x)
    PROVE  \A x \in Ids : MirrorsAt(r1, [index EXCEPT ![y] = doc], db, x)
<1> DEFINE i == [index EXCEPT ![y] = doc]
<1>1. \A x \in Ids \ {y} : i[x] = index[x]
  BY TreeFacts
<1> HIDE DEF i
<1>2. \A x \in Ids \ {y} : MirrorsAt(r1, i, db, x)
  BY <1>1, MirrorsAtStays DEF Mirrored
<1>3. QED
  BY <1>2 DEF i

-----------------------------------------------------------------------------
LEMMA StartCreateQuestionMirrors ==
    ASSUME TreeInv, MirrorInv, NEW w \in Workers, NEW q \in Questions,
           NEW p \in Ids \union {None}, StartCreateQuestion(w, q, p)
    PROVE  MirrorInv'
<1> DEFINE r == [Idle EXCEPT !.op = "createQuestion", !.id = q, !.parent = p,
                             !.pc = IF p = None THEN "save" ELSE "parent"]
<1>1. Begin(w, r)
  BY DEF StartCreateQuestion
<1>2. r.op = "createQuestion" /\ r.pc \in {"save", "parent"}
  BY DEF Idle
<1> HIDE DEF r
<1>3. CarriesRows(r, index, db)
  BY <1>2 DEF CarriesRows
<1>4. QED
  BY <1>1, <1>2, <1>3, MirrorBegin

LEMMA StartCreateAnswerMirrors ==
    ASSUME TreeInv, MirrorInv, NEW w \in Workers, NEW a \in Answers, NEW q \in Questions,
           NEW p \in Ids \union {None}, StartCreateAnswer(w, a, q, p)
    PROVE  MirrorInv'
<1>1. PICK r : /\ Begin(w, r) /\ r.op = "createAnswer" /\ r.target = q
               /\ r.pc \in {"parent", "save"}
  <2> DEFINE r1 == [Idle EXCEPT !.op = "createAnswer", !.id = a, !.target = q,
                                !.parent = p, !.pc = "parent"]
             r2 == [Idle EXCEPT !.op = "createAnswer", !.id = a, !.target = q,
                                !.parent = db[q].parent, !.pc = "save",
                                !.anc = IF db[q].parent = None THEN {}
                                        ELSE ComputeAncestors(q, db[q].anc)]
  <2>1. r1.op = "createAnswer" /\ r1.target = q /\ r1.pc = "parent"
    BY DEF Idle
  <2>2. r2.op = "createAnswer" /\ r2.target = q /\ r2.pc = "save"
    BY DEF Idle
  <2>3. Begin(w, r1) \/ Begin(w, r2)
    BY DEF StartCreateAnswer
  <2> HIDE DEF r1, r2
  <2>4. QED
    BY <2>1, <2>2, <2>3
<1>2. HasRow(db, q)
  BY DEF StartCreateAnswer, Stored, HasRow
<1>3. CarriesRows(r, index, db)
  BY <1>1, <1>2 DEF CarriesRows
<1>4. QED
  BY <1>1, <1>3, MirrorBegin

LEMMA StartUpdateMirrors ==
    ASSUME TreeInv, MirrorInv, NEW w \in Workers, NEW y \in Ids, StartUpdate(w, y)
    PROVE  MirrorInv'
<1> DEFINE r == [Idle EXCEPT !.op = "update", !.cur = y, !.pc = "reread"]
<1>1. Begin(w, r) /\ HasRow(db, y)
  BY DEF StartUpdate, Stored, HasRow
<1>2. r.op = "update" /\ r.pc = "reread" /\ r.cur = y
  BY DEF Idle
<1> HIDE DEF r
<1>3. CarriesRows(r, index, db)
  BY <1>1, <1>2 DEF CarriesRows
<1>4. QED
  BY <1>1, <1>2, <1>3, MirrorBegin

LEMMA StartDeleteAnswerMirrors ==
    ASSUME TreeInv, MirrorInv, NEW w \in Workers, NEW a \in Answers, StartDeleteAnswer(w, a)
    PROVE  MirrorInv'
<1> DEFINE r == [Idle EXCEPT !.op = "deleteAnswer", !.id = a, !.target = db[a].question,
                             !.pc = "remove"]
<1>1. Begin(w, r)
  BY DEF StartDeleteAnswer
<1>2. r.op = "deleteAnswer" /\ r.pc = "remove"
  BY DEF Idle
<1> HIDE DEF r
<1>3. CarriesRows(r, index, db)
  BY <1>2 DEF CarriesRows
<1>4. QED
  BY <1>1, <1>2, <1>3, MirrorBegin

LEMMA StartDeleteQuestionMirrors ==
    ASSUME TreeInv, MirrorInv, NEW w \in Workers, NEW q \in Questions, StartDeleteQuestion(w, q)
    PROVE  MirrorInv'
<1> DEFINE r == [Idle EXCEPT !.op = "deleteQuestion", !.id = q, !.pc = "listAnswers"]
<1>1. Begin(w, r) /\ HasRow(db, q)
  BY DEF StartDeleteQuestion, Stored, HasRow
<1>2. r.op = "deleteQuestion" /\ r.pc = "listAnswers" /\ r.id = q
  BY DEF Idle
<1> HIDE DEF r
<1>3. CarriesRows(r, index, db)
  BY <1>1, <1>2 DEF CarriesRows
<1>4. QED
  BY <1>1, <1>2, <1>3, MirrorBegin

LEMMA ReadParentMirrors ==
    ASSUME TreeInv, SerialInv, MirrorInv, NEW w \in Workers, ReadParent(w) \/ ReadParentQuestion(w)
    PROVE  MirrorInv'
<1> DEFINE r == req[w]
<1>1. /\ r \in Requests /\ r.pc \in {"parent", "parentQuestion"} /\ Active(w)
      /\ r.op \in {"createQuestion", "createAnswer"}
  BY TreeFacts, OpOfPc DEF ReadParent, ReadParentQuestion, At, RequestFine, Active
<1>2. \A x : ~LagsEntry(r, db, x) /\ ~LagsAncestors(r, x) /\ ~LagsAnswers(r, x)
  BY <1>1 DEF LagsEntry, LagsAncestors, LagsAnswers
<1>3. PICK ok, r1 : /\ ok \in BOOLEAN /\ Reads(w, ok, r1)
                    /\ r1.op = r.op /\ r1.target = r.target
                    /\ r1.pc \in {"save", "parentQuestion"}
  <2>1. CASE ReadParent(w)
    <3> DEFINE p == r.parent
               r1 == IF p \in Questions
                     THEN [r EXCEPT !.anc = ComputeAncestors(p, db[p].anc), !.pc = "save"]
                     ELSE [r EXCEPT !.via = db[p].question, !.pc = "parentQuestion"]
    <3>1. Reads(w, Stored(p), r1)
      BY <2>1 DEF ReadParent
    <3>2. r1.op = r.op /\ r1.target = r.target /\ r1.pc \in {"save", "parentQuestion"}
      BY <1>1 DEF Requests
    <3>3. Stored(p) \in BOOLEAN
      BY DEF Stored
    <3> HIDE DEF r1, p
    <3>4. QED
      BY <3>1, <3>2, <3>3
  <2>2. CASE ReadParentQuestion(w)
    <3> DEFINE v == r.via
               r1 == [r EXCEPT !.anc = ComputeAncestorsForAnswer(r.parent, v, db[v].anc),
                               !.pc = "save"]
    <3>1. Reads(w, Stored(v), r1)
      BY <2>2 DEF ReadParentQuestion
    <3>2. r1.op = r.op /\ r1.target = r.target /\ r1.pc = "save"
      BY <1>1 DEF Requests
    <3>3. Stored(v) \in BOOLEAN
      BY DEF Stored
    <3> HIDE DEF r1, v
    <3>4. QED
      BY <3>1, <3>2, <3>3
  <2>3. QED
    BY <2>1, <2>2
<1>4. ASSUME Mirrored(r, index, db) PROVE CarriesRows(r1, index, db)
  <2>1. r.op = "createAnswer" => HasRow(db, r.target)
    BY <1>4 DEF Mirrored, CarriesRows
  <2>2. QED
    BY <1>1, <1>3, <2>1 DEF CarriesRows
<1>5. QED
  BY <1>1, <1>2, <1>3, <1>4, MirrorReads

-----------------------------------------------------------------------------
\* The row that createQuestion or createAnswer adds has no document yet.
LEMMA InsertedMirrors ==
    ASSUME TreeInv, NEW r \in Requests, NEW r1, r.id \in Ids, ~HasRow(db, r.id),
           Mirrored(r, index, db), r.pc \notin {"index", "unindex", "reread", "sync"},
           r.op \in {"createQuestion", "createAnswer"},
           r1.op = r.op, r1.id = r.id, r1.target = r.target, r1.pc = "index",
           r1.doc = Project(Made(r)),
           r.op = "createQuestion" =>
               r.id \in Questions /\ \A a \in Answers : HasRow(db, a) => db[a].question # r.id,
           r.op = "createAnswer" => r.id \in Answers /\ r.target \in Questions
    PROVE  Mirrored(r1, index, [db EXCEPT ![r.id] = Made(r)])
<1> DEFINE d == [db EXCEPT ![r.id] = Made(r)]
<1>1. /\ Made(r) # NoRow /\ Made(r).answers = {} /\ Made(r).question = r.target
      /\ Made(r).parent = r.parent /\ Made(r).anc = r.anc
  BY MadeIsARow DEF Made
<1>2. d[r.id] = Made(r) /\ \A x \in Ids : x # r.id => d[x] = db[x]
  BY TreeFacts
<1>3. index[r.id] = NoRow
  <2>1. ~LagsEntry(r, db, r.id)
    BY DEF LagsEntry
  <2>2. QED
    BY <2>1 DEF Mirrored, MirrorsAt
<1>4. /\ r1.doc.parent = Made(r).parent /\ r1.doc.ancestors = IdsOf(Made(r).anc)
      /\ r1.doc.answers = {}
  BY <1>1 DEF Project
<1> HIDE DEF d
<1>5. AnswersShown(d, r.id) = {}
  <2>1. r.op = "createAnswer" => r.id \notin Questions
    BY IdAssumption
  <2>2. r.op = "createQuestion" => AnswersIn(d, r.id) = {}
    <3>1. r.op = "createQuestion" => \A a \in Answers : a # r.id /\ d[a] = db[a]
      BY <1>2, IdAssumption DEF Ids
    <3>2. QED
      BY <3>1 DEF AnswersIn, HasRow
  <2>3. QED
    BY <1>1, <1>2, <2>1, <2>2 DEF AnswersShown
<1>6. \A x \in Ids \ {r.id} : AnswersShown(d, x) = AnswersShown(db, x) \/ LagsAnswers(r1, x)
  <2> SUFFICES ASSUME NEW x \in Ids, x # r.id, ~LagsAnswers(r1, x), x \in Questions
               PROVE  AnswersIn(d, x) = AnswersIn(db, x)
    BY <1>2 DEF AnswersShown
  <2>1. r.op = "createAnswer" => x # r.target
    BY DEF LagsAnswers
  <2>2. \A a \in Answers : a # r.id => d[a] = db[a]
    BY <1>2 DEF Ids
  <2>3. r.id \in Answers => r.id \notin AnswersIn(d, x) /\ r.id \notin AnswersIn(db, x)
    BY <1>1, <1>2, <2>1, IdAssumption DEF AnswersIn
  <2>4. QED
    BY <2>2, <2>3 DEF AnswersIn, HasRow
<1>7. ASSUME NEW x \in Ids PROVE MirrorsAt(r1, index, d, x)
  <2>1. CASE x = r.id
    BY <1>3, <2>1 DEF MirrorsAt, LagsEntry
  <2>2. CASE x # r.id
    <3>1. ~LagsEntry(r, db, x) /\ ~LagsAncestors(r, x)
      BY <2>2 DEF LagsEntry, LagsAncestors
    <3>2. LagsAnswers(r, x) => LagsAnswers(r1, x)
      BY DEF LagsAnswers
    <3>3. MirrorsAt(r, index, db, x)
      BY DEF Mirrored
    <3>4. QED
      BY <1>2, <1>6, <2>2, <3>1, <3>2, <3>3, MirrorsAtStays
  <2>3. QED
    BY <2>1, <2>2
<1>8. CarriesRows(r1, index, d)
  <2>1. HasRow(d, r.id)
    BY <1>1, <1>2 DEF HasRow
  <2>2. Shows(r1.doc, d, r.id)
    BY <1>2, <1>4, <1>5 DEF Shows
  <2>3. r.op = "createAnswer" => HasRow(d, r.target)
    <3>1. r.op = "createAnswer" => HasRow(db, r.target) /\ r.target \in Ids
      BY DEF Mirrored, CarriesRows, Ids
    <3>2. QED
      BY <1>2, <2>1, <3>1 DEF HasRow
  <2>4. QED
    BY <2>1, <2>2, <2>3 DEF CarriesRows
<1>9. QED
  BY <1>7, <1>8 DEF Mirrored, d

LEMMA InsertQuestionMirrors ==
    ASSUME TreeInv, SerialInv, MirrorInv, NEW w \in Workers, InsertQuestion(w) PROVE MirrorInv'
<1> DEFINE r == req[w]
           c == Made(r)
           d == [db EXCEPT ![r.id] = c]
           r1 == [r EXCEPT !.doc = Project(c), !.pc = "index"]
<1>1. /\ RequestFine(r, age) /\ r \in Requests /\ r.pc = "save" /\ r.op = "createQuestion"
      /\ Writes(w, d, r1) /\ Active(w)
  BY TreeFacts DEF InsertQuestion, At, RequestFine, Active
<1>2. r.id \in Questions /\ r.id \in Ids /\ age[r.id] = 0
  BY <1>1 DEF RequestFine, Early, Ids
<1>3. ~HasRow(db, r.id) /\ \A a \in Answers : HasRow(db, a) => db[a].question # r.id
  BY <1>2, RowFacts
<1>4. r1.op = r.op /\ r1.id = r.id /\ r1.target = r.target /\ r1.pc = "index" /\ r1.doc = Project(c)
  BY <1>1 DEF Requests
<1> HIDE DEF r1, r
<1>5. Mirrored(r, index, db) => Mirrored(r1, index, d)
  BY <1>1, <1>2, <1>3, <1>4, InsertedMirrors
<1> HIDE DEF d
<1>6. QED
  BY <1>1, <1>4, <1>5, MirrorWriting DEF r

LEMMA InsertAnswerMirrors ==
    ASSUME TreeInv, SerialInv, MirrorInv, NEW w \in Workers,
           MongoInsertAnswer(w) \/ PostgresInsertAnswer(w)
    PROVE  MirrorInv'
<1> DEFINE r == req[w]
           c == Made(r)
           d == [db EXCEPT ![r.id] = c]
           r1 == [r EXCEPT !.doc = Project(c), !.pc = "index"]
<1>1. /\ RequestFine(r, age) /\ r \in Requests /\ r.pc \in {"insert", "save"}
      /\ r.op = "createAnswer" /\ Active(w)
  BY TreeFacts, OpOfPc
     DEF MongoInsertAnswer, PostgresInsertAnswer, At, RequestFine, Active
<1>2. r.id \in Answers /\ r.id \in Ids /\ r.target \in Questions
  BY <1>1 DEF RequestFine, Ids
<1>3. Facts(r, db, failures) => ~HasRow(db, r.id)
  <2>1. r.pc = "save" => ~HasRow(db, r.id)
    BY <1>1, <1>2, RowFacts DEF RequestFine, Early
  <2>2. QED
    BY <1>1, <2>1 DEF Facts, StillSo
<1>4. r1.op = r.op /\ r1.id = r.id /\ r1.target = r.target /\ r1.pc = "index" /\ r1.doc = Project(c)
  BY <1>1 DEF Requests
<1>5. Writes(w, d, r1) \/ (Reads(w, FALSE, Idle) /\ r.pc = "save")
  BY DEF MongoInsertAnswer, PostgresInsertAnswer, At
<1> HIDE DEF r1, r
<1>6. Facts(r, db, failures) /\ Mirrored(r, index, db) => Mirrored(r1, index, d)
  BY <1>1, <1>2, <1>3, <1>4, InsertedMirrors
<1> HIDE DEF d
<1>7. CASE Writes(w, d, r1)
  BY <1>1, <1>4, <1>6, <1>7, MirrorWriting DEF r
<1>8. CASE Reads(w, FALSE, Idle) /\ r.pc = "save"
  <2>1. \A x : ~LagsEntry(r, db, x) /\ ~LagsAncestors(r, x) /\ ~LagsAnswers(r, x)
    BY <1>1, <1>8 DEF LagsEntry, LagsAncestors, LagsAnswers
  <2>2. QED
    BY <1>1, <1>8, <2>1, MirrorReads DEF r
<1>9. QED
  BY <1>5, <1>7, <1>8

LEMMA HookAnswerMirrors ==
    ASSUME TreeInv, SerialInv, MirrorInv, NEW w \in Workers, HookAnswer(w) PROVE MirrorInv'
<1> DEFINE r == req[w]
           q == r.target
           d == IF Stored(q) THEN [db EXCEPT ![q].answers = @ \union {r.id}] ELSE db
           r1 == [r EXCEPT !.pc = "insert"]
<1>1. /\ RequestFine(r, age) /\ r \in Requests /\ r.pc = "save" /\ r.op = "createAnswer"
      /\ Writes(w, d, r1) /\ Active(w)
  BY TreeFacts DEF HookAnswer, At, RequestFine, Active
<1>2. q \in Questions /\ q \in Ids /\ r.id \in Answers /\ q \notin Answers
  BY <1>1, IdAssumption DEF RequestFine, Ids
<1>3. r1.op = r.op /\ r1.pc = "insert" /\ r1.target = q /\ r1.id = r.id
  BY <1>1 DEF Requests
<1> HIDE DEF r1
<1>4. ASSUME Mirrored(r, index, db) PROVE Mirrored(r1, index, d)
  <2>1. HasRow(db, q) /\ db[q] \in Contents
    BY <1>1, <1>2, <1>4, RowFacts DEF Mirrored, CarriesRows
  <2> DEFINE c == [db[q] EXCEPT !.answers = @ \union {r.id}]
  <2>2. c \in Contents /\ c.anc = db[q].anc /\ c.parent = db[q].parent
    BY <1>2, <2>1 DEF Contents
  <2>3. d = [db EXCEPT ![q] = c]
    BY <2>1 DEF HasRow, Stored
  <2> HIDE DEF c, d
  <2>4. c # NoRow
    BY <2>2, NoRowAssumption
  <2>5. d[q] = c /\ \A y \in Ids : y # q => d[y] = db[y]
    BY <1>2, <2>3, TreeFacts
  <2>6. \A y : AnswersIn(d, y) = AnswersIn(db, y)
    BY <1>2, <2>5 DEF AnswersIn, HasRow, Ids
  <2>7. \A y : /\ ~LagsEntry(r, db, y) /\ ~LagsAncestors(r, y) /\ ~LagsAnswers(r, y)
               /\ y = q => LagsAnswers(r1, y)
    BY <1>1, <1>3 DEF LagsEntry, LagsAncestors, LagsAnswers
  <2>8. ASSUME NEW y \in Ids PROVE MirrorsAt(r1, index, d, y)
    <3>0. MirrorsAt(r, index, db, y)
      BY <1>4 DEF Mirrored
    <3>1. CASE y = q
      BY <2>1, <2>2, <2>4, <2>5, <2>7, <3>0, <3>1 DEF MirrorsAt, HasRow
    <3>2. CASE y # q
      <4>1. AnswersShown(d, y) = AnswersShown(db, y)
        BY <2>5, <2>6, <3>2 DEF AnswersShown
      <4>2. QED
        BY <2>5, <2>7, <3>0, <3>2, <4>1, MirrorsAtStays
    <3>3. QED
      BY <3>1, <3>2
  <2>9. CarriesRows(r1, index, d)
    BY <1>1, <1>3, <2>4, <2>5 DEF CarriesRows, HasRow
  <2>10. QED
    BY <2>8, <2>9 DEF Mirrored
<1> HIDE DEF d
<1>5. QED
  BY <1>1, <1>3, <1>4, MirrorWriting

-----------------------------------------------------------------------------
LEMMA ShownMirrors ==
    ASSUME TreeInv, NEW r, NEW y \in Ids, NEW doc, doc # NoRow, HasRow(db, y), Shows(doc, db, y)
    PROVE  MirrorsAt(r, [index EXCEPT ![y] = doc], db, y)
<1> DEFINE i == [index EXCEPT ![y] = doc]
<1>1. i[y] = doc
  BY TreeFacts
<1> HIDE DEF i
<1>2. MirrorsAt(r, i, db, y)
  BY <1>1 DEF MirrorsAt, Shows
<1>3. QED
  BY <1>2 DEF i

LEMMA IndexNewMirrors ==
    ASSUME TreeInv, SerialInv, MirrorInv, NEW w \in Workers, IndexNew(w) PROVE MirrorInv'
<1> DEFINE r == req[w]
           r1 == IF r.op = "createQuestion" THEN Idle
                 ELSE [r EXCEPT !.cur = r.target, !.pc = "reread"]
<1>1. /\ RequestFine(r, age) /\ r \in Requests /\ r.pc = "index" /\ Active(w)
      /\ r.op \in {"createQuestion", "createAnswer"}
      /\ Publish(r.id, r.doc) /\ UNCHANGED <<Store, overlapped>> /\ Become(w, r1)
  BY TreeFacts, OpOfPc DEF IndexNew, At, RequestFine, Active, Finish
<1>2. r.id \in Ids /\ r.doc # NoRow
  BY <1>1, NoRowAssumption DEF RequestFine, Requests, Ids
<1>3. /\ r.op = "createQuestion" => r1 = Idle
      /\ r.op = "createAnswer" => /\ r1.op = r.op /\ r1.pc = "reread" /\ r1.cur = r.target
                                  /\ r1.target = r.target
  BY <1>1 DEF Requests
<1> HIDE DEF r1
<1>4. ASSUME Mirrored(r, index, db) PROVE Mirrored(r1, [index EXCEPT ![r.id] = r.doc], db)
  <2>1. /\ HasRow(db, r.id) /\ Shows(r.doc, db, r.id)
        /\ r.op = "createAnswer" => HasRow(db, r.target)
    BY <1>1, <1>4 DEF Mirrored, CarriesRows
  <2>2. \A y : y # r.id => ~LagsEntry(r, db, y)
    BY <1>1 DEF LagsEntry
  <2>3. \A y : ~LagsAncestors(r, y) /\ (LagsAnswers(r, y) => LagsAnswers(r1, y))
    BY <1>1, <1>3 DEF LagsAncestors, LagsAnswers
  <2>4. \A i : CarriesRows(r1, i, db)
    BY <1>1, <1>3, <2>1, IdleOwesNothing DEF CarriesRows
  <2>5. MirrorsAt(r1, [index EXCEPT ![r.id] = r.doc], db, r.id)
    BY <1>2, <2>1, ShownMirrors
  <2> HIDE DEF r
  <2>6. \A y \in Ids : MirrorsAt(r1, [index EXCEPT ![r.id] = r.doc], db, y)
    BY <1>2, <1>4, <2>2, <2>3, <2>5, MirroredButOne
  <2>7. QED
    BY <2>4, <2>6 DEF Mirrored
<1>5. r1.pc = "idle" => r1 = Idle
  BY <1>1, <1>3
<1>6. QED
  BY <1>1, <1>4, <1>5, MirrorPublishing

LEMMA EntityShows ==
    ASSUME NEW x, TreeInv, x \in Ids, Stored(x) PROVE Shows(Project(Entity(x)), db, x)
<1>1. db[x] \in Contents
  BY TreeFacts DEF ContentFine
<1>2. /\ Entity(x).parent = db[x].parent /\ Entity(x).anc = db[x].anc
      /\ Entity(x).answers = AnswersShown(db, x)
  BY <1>1, AnswersOfIn DEF Entity, Contents, AnswersShown
<1>3. QED
  BY <1>2 DEF Shows, Project

LEMMA RereadMirrors ==
    ASSUME TreeInv, SerialInv, MirrorInv, NEW w \in Workers, Reread(w) PROVE MirrorInv'
<1> DEFINE r == req[w]
           doc == Project(Entity(r.cur))
           r1 == [r EXCEPT !.doc = doc, !.pc = "sync"]
<1>1. /\ RequestFine(r, age) /\ r \in Requests /\ r.pc = "reread" /\ Active(w)
      /\ r.op \in {"createAnswer", "update", "deleteAnswer", "deleteQuestion"}
      /\ Reads(w, Stored(r.cur), r1)
  BY TreeFacts, OpOfPc DEF Reread, At, Active, RequestFine
<1>2. r.cur \in Ids
  BY <1>1 DEF RequestFine
<1>3. Stored(r.cur) => Shows(doc, db, r.cur)
  BY <1>2, EntityShows
<1> HIDE DEF doc
<1>4. /\ r1.op = r.op /\ r1.pc = "sync" /\ r1.id = r.id /\ r1.cur = r.cur /\ r1.target = r.target
      /\ r1.doc = doc
  BY <1>1 DEF Requests
<1> HIDE DEF r1
<1>5. Mirrored(r, index, db) => Stored(r.cur)
  BY <1>1 DEF Mirrored, CarriesRows, HasRow, Stored
<1>6. ASSUME Mirrored(r, index, db) PROVE CarriesRows(r1, index, db)
  BY <1>1, <1>3, <1>4, <1>5, <1>6 DEF Mirrored, CarriesRows
<1>7. \A x : /\ LagsEntry(r, db, x) => LagsEntry(r1, db, x)
             /\ LagsAncestors(r, x) => LagsAncestors(r1, x)
             /\ LagsAnswers(r, x) => LagsAnswers(r1, x)
  BY <1>1, <1>4 DEF LagsEntry, LagsAncestors, LagsAnswers
<1>8. Stored(r.cur) \in BOOLEAN
  BY DEF Stored
<1>9. QED
  BY <1>1, <1>4, <1>5, <1>6, <1>7, <1>8, MirrorReads

LEMMA SyncDocMirrors ==
    ASSUME TreeInv, SerialInv, MirrorInv, NEW w \in Workers, SyncDoc(w) PROVE MirrorInv'
<1> DEFINE r == req[w]
           y == r.cur
           doc == IF r.op = "createAnswer" THEN r.doc ELSE Merge(index[y], r.doc)
           r1 == IF r.op = "deleteQuestion"
                 THEN [r EXCEPT !.cur = None, !.doc = NoDoc, !.pc = "strip"] ELSE Idle
<1>1. /\ RequestFine(r, age) /\ r \in Requests /\ r.pc = "sync" /\ Active(w)
      /\ r.op \in {"createAnswer", "update", "deleteAnswer", "deleteQuestion"}
      /\ Publish(y, doc) /\ UNCHANGED <<Store, overlapped>> /\ Become(w, r1)
  BY TreeFacts, OpOfPc DEF SyncDoc, At, Active, RequestFine, Finish
<1>2. y \in Ids /\ r.doc \in Docs /\ r.doc # NoRow
  BY <1>1, NoRowAssumption DEF RequestFine, Requests
<1>3. /\ r.op # "deleteQuestion" => r1 = Idle
      /\ r.op = "deleteQuestion" => r1.op = r.op /\ r1.pc = "strip" /\ r1.id = r.id
  BY <1>1 DEF Requests
<1> HIDE DEF r1
<1>4. ASSUME Mirrored(r, index, db) PROVE Mirrored(r1, [index EXCEPT ![y] = doc], db)
  <2>1. /\ HasRow(db, y) /\ Shows(r.doc, db, y) /\ MirrorsAt(r, index, db, y)
        /\ r.op \in {"createAnswer", "deleteAnswer"} => y = r.target
        /\ r.op = "deleteQuestion" => /\ HasRow(db, r.id)
                                      /\ \A a \in AnswersIn(db, r.id) : index[a] = NoRow
    BY <1>1, <1>2, <1>4 DEF Mirrored, CarriesRows
  <2>2. \A x : /\ LagsEntry(r, db, x) => LagsEntry(r1, db, x)
               /\ x # y => ~LagsAncestors(r, x) /\ ~LagsAnswers(r, x)
    BY <1>1, <1>3, <2>1 DEF LagsEntry, LagsAncestors, LagsAnswers
  <2>3. doc # NoRow => Shows(doc, db, y)
    <3>1. CASE r.op = "createAnswer"
      BY <2>1, <3>1
    <3>2. CASE r.op # "createAnswer" /\ index[y] # NoRow
      <4>1. index[y].parent = r.doc.parent
        BY <2>1, <3>2 DEF MirrorsAt, Shows
      <4>2. doc = [r.doc EXCEPT !.parent = IF @ = None THEN index[y].parent ELSE @,
                                !.root = IF @ = None THEN index[y].root ELSE @]
        BY <3>2 DEF Merge
      <4>3. doc.parent = r.doc.parent /\ doc.ancestors = r.doc.ancestors /\ doc.answers = r.doc.answers
        BY <1>2, <4>1, <4>2 DEF Docs
      <4> HIDE DEF doc
      <4>4. QED
        BY <2>1, <4>3 DEF Shows
    <3>3. CASE r.op # "createAnswer" /\ index[y] = NoRow
      BY <3>3 DEF Merge
    <3>4. QED
      BY <3>1, <3>2, <3>3
  <2>4. doc = NoRow => index[y] = NoRow
    <3>1. ASSUME index[y] # NoRow, r.op # "createAnswer" PROVE doc \in Docs
      <4>1. index[y] \in Docs
        BY <1>2, <3>1, TreeFacts
      <4>2. QED
        BY <1>2, <3>1, <4>1 DEF Merge, Docs
    <3>2. QED
      BY <1>2, <3>1, NoRowAssumption
  <2> DEFINE i == [index EXCEPT ![y] = doc]
  <2>5. MirrorsAt(r1, i, db, y)
    <3>1. CASE doc # NoRow
      <4> HIDE DEF doc
      <4>1. QED
        BY <1>2, <2>1, <2>3, <3>1, ShownMirrors
    <3>2. CASE doc = NoRow
      <4>1. i[y] = NoRow /\ index[y] = NoRow
        BY <1>2, <2>4, <3>2, TreeFacts
      <4>2. LagsEntry(r, db, y)
        BY <2>1, <4>1 DEF MirrorsAt
      <4> HIDE DEF i
      <4>3. QED
        BY <2>2, <4>1, <4>2 DEF MirrorsAt
    <3>3. QED
      BY <3>1, <3>2
  <2>6. \A a \in Ids : index[a] = NoRow => i[a] = NoRow
    <3>1. ASSUME index[y] = NoRow, r.op # "createAnswer" PROVE doc = NoRow
      BY <3>1 DEF Merge
    <3>2. r.op = "createAnswer" => index[y] # NoRow
      <4>1. r.op = "createAnswer" => ~LagsEntry(r, db, y)
        BY <1>1 DEF LagsEntry
      <4>2. QED
        BY <2>1, <4>1 DEF MirrorsAt
    <3> HIDE DEF doc
    <3>3. QED
      BY <1>2, <3>1, <3>2, TreeFacts
  <2> HIDE DEF i, doc
  <2>7. CarriesRows(r1, i, db)
    <3>1. r.op = "deleteQuestion" => \A a \in AnswersIn(db, r.id) : i[a] = NoRow
      BY <2>1, <2>6 DEF AnswersIn, Ids
    <3>2. QED
      BY <1>1, <1>3, <2>1, <3>1, IdleOwesNothing DEF CarriesRows
  <2> HIDE DEF r, y
  <2>8. \A x \in Ids : MirrorsAt(r1, i, db, x)
    BY <1>2, <1>4, <2>2, <2>5, MirroredButOne DEF i
  <2>9. QED
    BY <2>7, <2>8 DEF Mirrored, i
<1>5. r1.pc = "idle" => r1 = Idle
  BY <1>1, <1>3
<1> HIDE DEF doc
<1>6. QED
  BY <1>1, <1>4, <1>5, MirrorPublishing

-----------------------------------------------------------------------------
LEMMA RemoveAnswerMirrors ==
    ASSUME TreeInv, SerialInv, MirrorInv, NEW w \in Workers, RemoveAnswer(w) PROVE MirrorInv'
<1> DEFINE r == req[w]
           d == [db EXCEPT ![r.id] = NoRow]
           r1 == [r EXCEPT !.pc = "unindex"]
<1>1. /\ RequestFine(r, age) /\ r \in Requests /\ r.pc = "remove" /\ r.op = "deleteAnswer"
      /\ Active(w)
  BY TreeFacts DEF RemoveAnswer, At, RequestFine, Active
<1>2. r.id \in Answers /\ r.id \in Ids /\ r.id # r.target /\ r.target \in Questions /\ r.target \in Ids
  BY <1>1, IdAssumption DEF RequestFine, Ids
<1>3. r1.op = r.op /\ r1.pc = "unindex" /\ r1.id = r.id /\ r1.target = r.target
  BY <1>1 DEF Requests
<1>4. \A y : ~LagsEntry(r, db, y) /\ ~LagsAncestors(r, y) /\ ~LagsAnswers(r, y)
  BY <1>1 DEF LagsEntry, LagsAncestors, LagsAnswers
<1>5. d[r.id] = NoRow /\ \A y \in Ids : y # r.id => d[y] = db[y]
  BY <1>2, TreeFacts
<1> HIDE DEF d, r1
<1>6. ASSUME Facts(r, db, failures), Mirrored(r, index, db) PROVE Mirrored(r1, index, d)
  <2>1. HasRow(db, r.id) /\ db[r.id].question = r.target
    BY <1>1, <1>6 DEF Facts, StillSo
  <2>2. HasRow(db, r.target)
    BY <1>2, <1>6, <2>1 DEF Facts, InOrder, KeysHold
  <2>3. \A q : q # r.target => AnswersIn(d, q) = AnswersIn(db, q)
    BY <1>5, <2>1 DEF AnswersIn, HasRow, Ids
  <2>4. ASSUME NEW y \in Ids PROVE MirrorsAt(r1, index, d, y)
    <3>1. CASE y = r.id
      BY <1>3, <1>5, <3>1 DEF MirrorsAt, LagsEntry, HasRow
    <3>2. CASE y # r.id
      <4>1. AnswersShown(d, y) = AnswersShown(db, y) \/ LagsAnswers(r1, y)
        BY <1>1, <1>3, <1>5, <2>3, <3>2 DEF AnswersShown, LagsAnswers
      <4>2. MirrorsAt(r, index, db, y)
        BY <1>6 DEF Mirrored
      <4>3. QED
        BY <1>4, <1>5, <3>2, <4>1, <4>2, MirrorsAtStays
    <3>3. QED
      BY <3>1, <3>2
  <2>5. CarriesRows(r1, index, d)
    BY <1>1, <1>2, <1>3, <1>5, <2>2 DEF CarriesRows, HasRow
  <2>6. QED
    BY <2>4, <2>5 DEF Mirrored
<1>7. CASE ~Stored(r.id)
  BY <1>1, <1>4, <1>7, MirrorReads DEF RemoveAnswer
<1>8. CASE Stored(r.id)
  <2>1. Writes(w, d, r1)
    BY <1>8 DEF RemoveAnswer, d, r1
  <2>2. QED
    BY <1>1, <1>3, <1>6, <2>1, MirrorWriting
<1>9. QED
  BY <1>7, <1>8

LEMMA UnindexMirrors ==
    ASSUME TreeInv, SerialInv, MirrorInv, NEW w \in Workers, Unindex(w) PROVE MirrorInv'
<1> DEFINE r == req[w]
           y == r.id
           r1 == IF r.op = "deleteAnswer" THEN [r EXCEPT !.pc = "readList"] ELSE Idle
<1>1. /\ RequestFine(r, age) /\ r \in Requests /\ r.pc = "unindex" /\ Active(w)
      /\ r.op \in {"deleteAnswer", "deleteQuestion"}
      /\ Publish(y, NoRow) /\ UNCHANGED <<Store, overlapped>> /\ Become(w, r1)
  BY TreeFacts, OpOfPc DEF Unindex, At, RequestFine, Active, Finish
<1>2. y \in Ids
  BY <1>1 DEF RequestFine, Ids
<1>3. /\ r.op = "deleteAnswer" => /\ r1.op = r.op /\ r1.pc = "readList" /\ r1.id = r.id
                                  /\ r1.target = r.target
      /\ r.op = "deleteQuestion" => r1 = Idle
  BY <1>1 DEF Requests
<1> HIDE DEF r1
<1>4. ASSUME Facts(r, db, failures), Mirrored(r, index, db)
      PROVE  Mirrored(r1, [index EXCEPT ![y] = NoRow], db)
  <2>1. ~HasRow(db, y) /\ (r.op = "deleteAnswer" => HasRow(db, r.target))
    BY <1>1, <1>4 DEF Facts, StillSo, Mirrored, CarriesRows
  <2>2. \A x : /\ x # y => ~LagsEntry(r, db, x)
               /\ ~LagsAncestors(r, x) /\ (LagsAnswers(r, x) => LagsAnswers(r1, x))
    BY <1>1, <1>3 DEF LagsEntry, LagsAncestors, LagsAnswers
  <2>3. \A i : CarriesRows(r1, i, db)
    BY <1>1, <1>3, <2>1, IdleOwesNothing DEF CarriesRows
  <2>4. MirrorsAt(r1, [index EXCEPT ![y] = NoRow], db, y)
    <3> DEFINE i == [index EXCEPT ![y] = NoRow]
    <3>1. i[y] = NoRow
      BY <1>2, TreeFacts
    <3> HIDE DEF i
    <3>2. MirrorsAt(r1, i, db, y)
      BY <2>1, <3>1 DEF MirrorsAt
    <3>3. QED
      BY <3>2 DEF i
  <2> HIDE DEF r, y
  <2>5. \A x \in Ids : MirrorsAt(r1, [index EXCEPT ![y] = NoRow], db, x)
    BY <1>2, <1>4, <2>2, <2>4, MirroredButOne
  <2>6. QED
    BY <2>3, <2>5 DEF Mirrored
<1>5. r1.pc = "idle" => r1 = Idle
  BY <1>1, <1>3
<1>6. QED
  BY <1>1, <1>4, <1>5, MirrorPublishing

LEMMA ReadListMirrors ==
    ASSUME TreeInv, SerialInv, MirrorInv, NEW w \in Workers, ReadList(w) PROVE MirrorInv'
<1> DEFINE r == req[w]
           r1 == [r EXCEPT !.list = Entity(r.target).answers \ {r.id}, !.pc = "writeList"]
<1>1. /\ RequestFine(r, age) /\ r \in Requests /\ r.pc = "readList" /\ r.op = "deleteAnswer"
      /\ Active(w) /\ Reads(w, Stored(r.target), r1)
  BY TreeFacts, OpOfPc DEF ReadList, At, RequestFine, Active
<1>2. r1.op = r.op /\ r1.pc = "writeList" /\ r1.id = r.id /\ r1.target = r.target
  BY <1>1 DEF Requests
<1> HIDE DEF r1
<1>3. Mirrored(r, index, db) => Stored(r.target) /\ CarriesRows(r1, index, db)
  BY <1>1, <1>2 DEF Mirrored, CarriesRows, HasRow, Stored
<1>4. \A x : /\ LagsEntry(r, db, x) => LagsEntry(r1, db, x)
             /\ LagsAncestors(r, x) => LagsAncestors(r1, x)
             /\ LagsAnswers(r, x) => LagsAnswers(r1, x)
  BY <1>1, <1>2 DEF LagsEntry, LagsAncestors, LagsAnswers
<1>5. Stored(r.target) \in BOOLEAN
  BY DEF Stored
<1>6. QED
  BY <1>1, <1>2, <1>3, <1>4, <1>5, MirrorReads

LEMMA WriteListMirrors ==
    ASSUME TreeInv, SerialInv, MirrorInv, NEW w \in Workers, WriteList(w) PROVE MirrorInv'
<1> DEFINE r == req[w]
           q == r.target
           d == IF backend = "mongo" THEN [db EXCEPT ![q].answers = r.list] ELSE db
           r1 == [r EXCEPT !.cur = q, !.list = {}, !.pc = "reread"]
<1>1. /\ RequestFine(r, age) /\ r \in Requests /\ r.pc = "writeList" /\ r.op = "deleteAnswer"
      /\ Active(w)
  BY TreeFacts, OpOfPc DEF WriteList, At, RequestFine, Active
<1>2. q \in Questions /\ q \in Ids /\ q \notin Answers
  BY <1>1, IdAssumption DEF RequestFine, Ids
<1>3. r1.op = r.op /\ r1.pc = "reread" /\ r1.id = r.id /\ r1.target = q /\ r1.cur = q
  BY <1>1 DEF Requests
<1>4. \A x : /\ ~LagsEntry(r, db, x) /\ ~LagsAncestors(r, x)
             /\ LagsAnswers(r, x) => LagsAnswers(r1, x)
             /\ x = q => LagsAnswers(r1, x)
  BY <1>1, <1>3 DEF LagsEntry, LagsAncestors, LagsAnswers
<1> HIDE DEF r1
<1>5. Mirrored(r, index, db) => HasRow(db, q)
  BY <1>1 DEF Mirrored, CarriesRows
<1>6. ASSUME Mirrored(r, index, db) PROVE Mirrored(r1, index, d)
  <2> DEFINE c == [db[q] EXCEPT !.answers = r.list]
  <2>1. c # NoRow /\ c.anc = db[q].anc /\ c.parent = db[q].parent
    <3>1. db[q] \in Contents /\ r.list \in SUBSET Answers
      BY <1>1, <1>2, <1>5, <1>6, RowFacts DEF Requests
    <3>2. c \in Contents /\ c.anc = db[q].anc /\ c.parent = db[q].parent
      BY <3>1 DEF Contents
    <3>3. QED
      BY <3>2, NoRowAssumption
  <2>2. d = IF backend = "mongo" THEN [db EXCEPT ![q] = c] ELSE db
    OBVIOUS
  <2> HIDE DEF c, d
  <2>3. d[q] \in {c, db[q]} /\ \A y \in Ids : y # q => d[y] = db[y]
    BY <1>2, <2>2, TreeFacts
  <2>4. \A y : AnswersIn(d, y) = AnswersIn(db, y)
    BY <1>2, <2>3 DEF AnswersIn, HasRow, Ids
  <2>5. ASSUME NEW y \in Ids PROVE MirrorsAt(r1, index, d, y)
    <3>0. MirrorsAt(r, index, db, y)
      BY <1>6 DEF Mirrored
    <3>1. CASE y = q
      BY <1>4, <1>5, <1>6, <2>1, <2>3, <3>0, <3>1 DEF MirrorsAt, HasRow
    <3>2. CASE y # q
      <4>1. AnswersShown(d, y) = AnswersShown(db, y)
        BY <2>3, <2>4, <3>2 DEF AnswersShown
      <4>2. QED
        BY <1>4, <2>3, <3>0, <3>2, <4>1, MirrorsAtStays
    <3>3. QED
      BY <3>1, <3>2
  <2>6. CarriesRows(r1, index, d)
    BY <1>1, <1>3, <1>5, <1>6, <2>1, <2>3 DEF CarriesRows, HasRow
  <2>7. QED
    BY <2>5, <2>6 DEF Mirrored
<1>7. CASE ~Stored(q)
  BY <1>1, <1>5, <1>7, MirrorReads DEF WriteList, HasRow, Stored
<1>8. CASE Stored(q)
  <2>1. Writes(w, d, r1)
    BY <1>8 DEF WriteList, r1
  <2> HIDE DEF d
  <2>2. QED
    BY <1>1, <1>3, <1>6, <2>1, MirrorWriting
<1>9. QED
  BY <1>7, <1>8

-----------------------------------------------------------------------------
LEMMA ListAnswersMirrors ==
    ASSUME TreeInv, SerialInv, MirrorInv, NEW w \in Workers, ListAnswers(w) PROVE MirrorInv'
<1> DEFINE r == req[w]
           r1 == [r EXCEPT !.todo = AnswersOf(r.id), !.pc = "unindexAnswers"]
<1>1. /\ r \in Requests /\ r.pc = "listAnswers" /\ r.op = "deleteQuestion" /\ Active(w)
      /\ Reads(w, TRUE, r1)
  BY TreeFacts, OpOfPc DEF ListAnswers, At, Active
<1>2. AnswersOf(r.id) = AnswersIn(db, r.id)
  BY AnswersOfIn
<1>3. r1.op = r.op /\ r1.pc = "unindexAnswers" /\ r1.id = r.id /\ r1.todo = AnswersIn(db, r.id)
  BY <1>1, <1>2 DEF Requests
<1> HIDE DEF r1
<1>4. Mirrored(r, index, db) => CarriesRows(r1, index, db)
  BY <1>1, <1>3 DEF Mirrored, CarriesRows
<1>5. \A x : ~LagsEntry(r, db, x) /\ ~LagsAncestors(r, x) /\ ~LagsAnswers(r, x)
  BY <1>1 DEF LagsEntry, LagsAncestors, LagsAnswers
<1>6. QED
  BY <1>1, <1>3, <1>4, <1>5, MirrorReads

LEMMA UnindexAnswerMirrors ==
    ASSUME TreeInv, SerialInv, MirrorInv, NEW w \in Workers, UnindexAnswer(w) PROVE MirrorInv'
<1> DEFINE r == req[w]
<1>1. /\ r \in Requests /\ r.pc = "unindexAnswers" /\ r.op = "deleteQuestion" /\ Active(w)
      /\ UNCHANGED <<Store, overlapped>>
  BY TreeFacts, OpOfPc DEF UnindexAnswer, At, Active
<1>2. PICK b \in r.todo : Publish(b, NoRow) /\ Become(w, [r EXCEPT !.todo = @ \ {b}])
  BY DEF UnindexAnswer
<1> DEFINE r1 == [r EXCEPT !.todo = @ \ {b}]
<1>3. r1.op = r.op /\ r1.pc = r.pc /\ r1.id = r.id /\ r1.todo = r.todo \ {b} /\ b \in Ids
  BY <1>1 DEF Requests
<1>4. Become(w, r1)
  BY <1>2
<1> HIDE DEF r1
<1>5. ASSUME Mirrored(r, index, db) PROVE Mirrored(r1, [index EXCEPT ![b] = NoRow], db)
  <2> DEFINE i == [index EXCEPT ![b] = NoRow]
  <2>1. i[b] = NoRow /\ \A x \in Ids : x # b => i[x] = index[x]
    BY <1>3, TreeFacts
  <2> HIDE DEF i
  <2>2. /\ HasRow(db, r.id) /\ r.todo \subseteq AnswersIn(db, r.id)
        /\ \A a \in AnswersIn(db, r.id) : index[a] = NoRow \/ a \in r.todo
    BY <1>1, <1>5 DEF Mirrored, CarriesRows
  <2>3. \A x : /\ LagsEntry(r, db, x) => LagsEntry(r1, db, x)
               /\ ~LagsAncestors(r, x) /\ ~LagsAnswers(r, x)
    BY <1>1, <1>3 DEF LagsEntry, LagsAncestors, LagsAnswers
  <2>4. LagsEntry(r1, db, b)
    BY <1>1, <1>2, <1>3, <2>2 DEF LagsEntry
  <2>5. MirrorsAt(r1, i, db, b)
    BY <2>1, <2>4 DEF MirrorsAt
  <2>6. CarriesRows(r1, i, db)
    <3>1. \A a \in AnswersIn(db, r.id) : i[a] = NoRow \/ a \in r1.todo
      BY <1>3, <2>1, <2>2 DEF AnswersIn, Ids
    <3>2. QED
      BY <1>1, <1>3, <2>2, <3>1 DEF CarriesRows
  <2> HIDE DEF r
  <2>7. \A x \in Ids : MirrorsAt(r1, i, db, x)
    BY <1>3, <1>5, <2>3, <2>5, MirroredButOne DEF i
  <2>8. QED
    BY <2>6, <2>7 DEF Mirrored, i
<1>6. r1.pc = "idle" => r1 = Idle
  BY <1>1, <1>3
<1>7. QED
  BY <1>1, <1>2, <1>4, <1>5, <1>6, MirrorPublishing

\* Each scan of the contents remembers them and goes on, for the same question.
LEMMA ScanGoesOn ==
    ASSUME TreeInv, NEW w \in Workers, ListChildren(w) \/ ScanQuestions(w) \/ ScanAnswers(w)
    PROVE  \E r1 : /\ Reads(w, TRUE, r1) /\ r1.op = req[w].op /\ r1.id = req[w].id
                   /\ r1.pc \in {"strip", "scanAnswers"}
<1> DEFINE r == req[w]
<1>0. RequestFine(r, age) /\ r \in Requests
  BY TreeFacts DEF RequestFine
<1>1. ASSUME NEW X \in SUBSET Ids, \A x \in X : Stored(x)
      PROVE  /\ Scan(r, X) \in Requests /\ Scan(r, X).op = r.op /\ Scan(r, X).id = r.id
  BY <1>0, <1>1, ScanFine
<1>2. CASE ListChildren(w)
  <2> DEFINE X == {x \in Questions : Stored(x) /\ db[x].parent = r.id}
             s == Scan(r, X)
             r2 == [s EXCEPT !.pc = "strip"]
  <2>1. Reads(w, TRUE, r2)
    BY <1>2 DEF ListChildren
  <2>2. s \in Requests /\ s.op = r.op /\ s.id = r.id
    BY <1>1 DEF Ids
  <2> HIDE DEF s
  <2>3. r2.op = r.op /\ r2.id = r.id /\ r2.pc = "strip"
    BY <2>2 DEF Requests
  <2>4. QED
    BY <2>1, <2>3
<1>3. CASE ScanQuestions(w)
  <2> DEFINE s == Scan(r, Naming(r.id, Questions))
             r2 == [s EXCEPT !.pc = "scanAnswers"]
  <2>1. Reads(w, TRUE, r2)
    BY <1>3 DEF ScanQuestions
  <2>2. s \in Requests /\ s.op = r.op /\ s.id = r.id
    BY <1>1 DEF Ids, Naming
  <2> HIDE DEF s
  <2>3. r2.op = r.op /\ r2.id = r.id /\ r2.pc = "scanAnswers"
    BY <2>2 DEF Requests
  <2>4. QED
    BY <2>1, <2>3
<1>4. CASE ScanAnswers(w)
  <2> DEFINE s == Scan(r, Naming(r.id, Answers))
             r2 == [s EXCEPT !.pc = "strip", !.phase = "all"]
  <2>1. Reads(w, TRUE, r2)
    BY <1>4 DEF ScanAnswers
  <2>2. s \in Requests /\ s.op = r.op /\ s.id = r.id
    BY <1>1 DEF Ids, Naming
  <2> HIDE DEF s
  <2>3. r2.op = r.op /\ r2.id = r.id /\ r2.pc = "strip"
    BY <2>2 DEF Requests
  <2>4. QED
    BY <2>1, <2>3
<1>5. QED
  BY <1>2, <1>3, <1>4

LEMMA ScansMirror ==
    ASSUME TreeInv, SerialInv, MirrorInv, NEW w \in Workers,
           ListChildren(w) \/ ScanQuestions(w) \/ ScanAnswers(w)
    PROVE  MirrorInv'
<1> DEFINE r == req[w]
<1>1. /\ RequestFine(r, age) /\ r \in Requests /\ r.op = "deleteQuestion" /\ Active(w)
      /\ r.pc \in {"unindexAnswers", "strip", "scanAnswers"}
      /\ r.pc = "unindexAnswers" => r.todo = {}
  BY TreeFacts, OpOfPc
     DEF ListChildren, ScanQuestions, ScanAnswers, At, RequestFine, Active
<1>2. PICK r1 : /\ Reads(w, TRUE, r1) /\ r1.op = r.op /\ r1.id = r.id
                /\ r1.pc \in {"strip", "scanAnswers"}
  BY ScanGoesOn
<1>3. Mirrored(r, index, db) => CarriesRows(r1, index, db)
  BY <1>1, <1>2 DEF Mirrored, CarriesRows
<1>4. \A x : /\ LagsEntry(r, db, x) => LagsEntry(r1, db, x)
             /\ ~LagsAncestors(r, x) /\ ~LagsAnswers(r, x)
  BY <1>1, <1>2 DEF LagsEntry, LagsAncestors, LagsAnswers
<1>5. QED
  BY <1>1, <1>2, <1>3, <1>4, MirrorReads

LEMMA StripMirrors ==
    ASSUME TreeInv, SerialInv, MirrorInv, NEW w \in Workers, Strip(w) PROVE MirrorInv'
<1> DEFINE r == req[w]
<1>1. /\ RequestFine(r, age) /\ r \in Requests /\ r.pc = "strip" /\ r.op = "deleteQuestion"
      /\ Active(w)
  BY TreeFacts, OpOfPc DEF Strip, At, RequestFine, Active
<1>2. PICK y \in r.todo :
        IF Stored(y)
        THEN Writes(w, [db EXCEPT ![y].anc = Stripped(r, y)],
                    [r EXCEPT !.todo = @ \ {y}, !.snap[y] = {}, !.cur = y, !.pc = "reread"])
        ELSE Reads(w, FALSE, Idle)
  BY DEF Strip
<1>3. y \in Ids
  BY <1>1 DEF Requests
<1>4. Facts(r, db, failures) => Stored(y)
  BY <1>1 DEF Facts, StillSo, HasRow, Stored
<1>5. CASE ~Stored(y)
  BY <1>1, <1>2, <1>4, <1>5, MirrorReads
<1>6. CASE Stored(y)
  <2> DEFINE anc == Stripped(r, y)
             c == [db[y] EXCEPT !.anc = anc]
             d == [db EXCEPT ![y].anc = anc]
             r1 == [r EXCEPT !.todo = @ \ {y}, !.snap[y] = {}, !.cur = y, !.pc = "reread"]
  <2>1. Writes(w, d, r1) /\ HasRow(db, y)
    BY <1>2, <1>6 DEF HasRow, Stored
  <2>2. anc \in Chains
    BY <1>1, <1>3, StrippedFine DEF RequestFine, Grown, ChainFine
  <2> HIDE DEF anc
  <2>3. /\ c # NoRow /\ c.parent = db[y].parent /\ c.answers = db[y].answers
        /\ c.question = db[y].question
    <3>1. db[y] \in Contents
      BY <1>3, <2>1, RowFacts
    <3>2. /\ c \in Contents /\ c.parent = db[y].parent /\ c.answers = db[y].answers
          /\ c.question = db[y].question
      BY <2>2, <3>1 DEF Contents
    <3>3. QED
      BY <3>2, NoRowAssumption
  <2>4. d[y] = c /\ \A x \in Ids : x # y => d[x] = db[x]
    BY <1>3, TreeFacts
  <2>5. r1.op = r.op /\ r1.pc = "reread" /\ r1.id = r.id /\ r1.cur = y
    BY <1>1 DEF Requests
  <2> HIDE DEF c, d, r1
  <2>6. \A x \in Ids : HasRow(d, x) <=> HasRow(db, x)
    BY <2>1, <2>3, <2>4 DEF HasRow
  <2>7. \A x \in Ids : d[x].question = db[x].question /\ d[x].answers = db[x].answers
    BY <2>3, <2>4
  <2>8. \A x : AnswersIn(d, x) = AnswersIn(db, x)
    BY <2>6, <2>7 DEF AnswersIn, Ids
  <2>9. \A x \in Ids : AnswersShown(d, x) = AnswersShown(db, x)
    BY <2>7, <2>8 DEF AnswersShown
  <2>10. \A x : /\ LagsEntry(r, db, x) => LagsEntry(r1, d, x)
                /\ ~LagsAncestors(r, x) /\ ~LagsAnswers(r, x)
    BY <1>1, <2>5, <2>8 DEF LagsEntry, LagsAncestors, LagsAnswers
  <2>11. ASSUME Mirrored(r, index, db) PROVE Mirrored(r1, index, d)
    <3>1. ASSUME NEW x \in Ids PROVE MirrorsAt(r1, index, d, x)
      <4>0. MirrorsAt(r, index, db, x)
        BY <2>11 DEF Mirrored
      <4>1. CASE x = y
        <5>1. LagsAncestors(r1, x)
          BY <1>1, <2>5, <4>1 DEF LagsAncestors
        <5>2. QED
          BY <2>3, <2>4, <2>6, <2>9, <2>10, <4>0, <4>1, <5>1 DEF MirrorsAt
      <4>2. CASE x # y
        BY <2>4, <2>9, <2>10, <4>0, <4>2, MirrorsAtStays
      <4>3. QED
        BY <4>1, <4>2
    <3>2. CarriesRows(r1, index, d)
      <4>1. HasRow(db, r.id) /\ r.id \in Ids /\ \A a \in AnswersIn(db, r.id) : index[a] = NoRow
        BY <1>1, <2>11 DEF Mirrored, CarriesRows, RequestFine, Ids
      <4>2. QED
        BY <1>1, <1>3, <2>1, <2>5, <2>6, <2>8, <4>1 DEF CarriesRows
    <3>3. QED
      BY <3>1, <3>2 DEF Mirrored
  <2>12. QED
    BY <1>1, <2>1, <2>5, <2>11, MirrorWriting
<1>7. QED
  BY <1>5, <1>6

LEMMA PrepareDeleteMirrors ==
    ASSUME TreeInv, SerialInv, MirrorInv, NEW w \in Workers, PrepareDelete(w) PROVE MirrorInv'
<1> DEFINE r == req[w]
           d == IF backend = "mongo" THEN Drop(AnswersOf(r.id)) ELSE db
           r1 == [r EXCEPT !.pc = "remove"]
<1>1. /\ RequestFine(r, age) /\ r \in Requests /\ r.pc = "strip" /\ r.op = "deleteQuestion"
      /\ Writes(w, d, r1) /\ Active(w)
  BY TreeFacts, OpOfPc DEF PrepareDelete, At, RequestFine, Active
<1>2. r1.op = r.op /\ r1.pc = "remove" /\ r1.id = r.id
  BY <1>1 DEF Requests
<1>3. r.id \in Questions /\ r.id \in Ids /\ r.id \notin Answers
  BY <1>1, IdAssumption DEF RequestFine, Ids
<1>4. \A x \in Ids : d[x] = IF backend = "mongo" /\ x \in AnswersIn(db, r.id)
                            THEN NoRow ELSE db[x]
  BY AnswersOfIn DEF Drop
<1> HIDE DEF d, r1
<1>5. backend = "postgres" => \A q : AnswersIn(d, q) = AnswersIn(db, q)
  BY <1>4 DEF AnswersIn, HasRow, Ids
<1>6. AnswersIn(d, r.id) \subseteq AnswersIn(db, r.id)
  BY <1>4 DEF AnswersIn, HasRow, Ids
<1>7. \A x : ~LagsAncestors(r, x) /\ ~LagsAnswers(r, x)
  BY <1>1 DEF LagsAncestors, LagsAnswers
<1>8. ASSUME Mirrored(r, index, db) PROVE Mirrored(r1, index, d)
  <2>1. HasRow(db, r.id) /\ \A a \in AnswersIn(db, r.id) : index[a] = NoRow
    BY <1>1, <1>8 DEF Mirrored, CarriesRows
  <2>2. ASSUME NEW x \in Ids PROVE MirrorsAt(r1, index, d, x)
    <3>0. MirrorsAt(r, index, db, x)
      BY <1>8 DEF Mirrored
    <3>1. CASE backend = "mongo" /\ x \in AnswersIn(db, r.id)
      <4>1. ~HasRow(d, x) /\ index[x] = NoRow
        BY <1>4, <2>1, <3>1 DEF HasRow
      <4>2. QED
        BY <4>1 DEF MirrorsAt
    <3>2. CASE ~(backend = "mongo" /\ x \in AnswersIn(db, r.id))
      <4>1. d[x] = db[x]
        BY <1>4, <3>2
      <4>2. AnswersShown(d, x) = AnswersShown(db, x)
        BY <1>5, <4>1 DEF AnswersShown
      <4>3. LagsEntry(r, db, x) => LagsEntry(r1, d, x)
        BY <1>1, <1>2, <1>5, <3>2, TreeFacts DEF LagsEntry
      <4>4. QED
        BY <1>7, <3>0, <4>1, <4>2, <4>3, MirrorsAtStays
    <3>3. QED
      BY <3>1, <3>2
  <2>3. HasRow(d, r.id)
    BY <1>3, <1>4, <2>1 DEF AnswersIn, HasRow
  <2>4. CarriesRows(r1, index, d)
    BY <1>1, <1>2, <1>6, <2>1, <2>3 DEF CarriesRows
  <2>5. QED
    BY <2>2, <2>4 DEF Mirrored
<1>9. QED
  BY <1>1, <1>2, <1>8, MirrorWriting

LEMMA RemoveQuestionMirrors ==
    ASSUME TreeInv, SerialInv, MirrorInv, NEW w \in Workers, RemoveQuestion(w) PROVE MirrorInv'
<1> DEFINE r == req[w]
           d == Drop({r.id} \union IF backend = "postgres" THEN AnswersOf(r.id) ELSE {})
           r1 == [r EXCEPT !.pc = "unindex"]
<1>1. /\ RequestFine(r, age) /\ r \in Requests /\ r.pc = "remove" /\ r.op = "deleteQuestion"
      /\ Active(w)
  BY TreeFacts DEF RemoveQuestion, At, RequestFine, Active
<1>2. r.id \in Questions /\ r.id \in Ids /\ r.id \notin Answers
  BY <1>1, IdAssumption DEF RequestFine, Ids
<1>3. r1.op = r.op /\ r1.pc = "unindex" /\ r1.id = r.id
  BY <1>1 DEF Requests
<1>4. \A x \in Ids : d[x] = IF x = r.id \/ (backend = "postgres" /\ x \in AnswersIn(db, r.id))
                            THEN NoRow ELSE db[x]
  BY AnswersOfIn DEF Drop
<1>5. Mirrored(r, index, db) => Stored(r.id)
  BY <1>1 DEF Mirrored, CarriesRows, HasRow, Stored
<1>6. CASE ~Stored(r.id)
  BY <1>1, <1>5, <1>6, MirrorReads DEF RemoveQuestion
<1>7. CASE Stored(r.id)
  <2>1. Writes(w, d, r1)
    BY <1>7 DEF RemoveQuestion
  <2> HIDE DEF d, r1
  <2>2. \A q : q # r.id => AnswersIn(d, q) = AnswersIn(db, q)
    BY <1>2, <1>4 DEF AnswersIn, HasRow, Ids
  <2>3. \A x : ~LagsAncestors(r, x) /\ ~LagsAnswers(r, x)
    BY <1>1 DEF LagsAncestors, LagsAnswers
  <2>4. ASSUME Facts(r, db, failures), Mirrored(r, index, db) PROVE Mirrored(r1, index, d)
    <3>1. /\ \A a \in AnswersIn(db, r.id) : index[a] = NoRow
          /\ backend = "mongo" => AnswersIn(db, r.id) = {}
      BY <1>1, <2>4 DEF Mirrored, CarriesRows, Facts, StillSo
    <3>2. ASSUME NEW x \in Ids PROVE MirrorsAt(r1, index, d, x)
      <4>0. MirrorsAt(r, index, db, x)
        BY <2>4 DEF Mirrored
      <4>1. CASE x = r.id
        BY <1>3, <1>4, <4>1 DEF MirrorsAt, LagsEntry, HasRow
      <4>2. CASE x # r.id /\ x \in AnswersIn(db, r.id)
        <5>1. ~HasRow(d, x) /\ index[x] = NoRow
          BY <1>4, <3>1, <4>2, TreeFacts DEF HasRow
        <5>2. QED
          BY <5>1 DEF MirrorsAt
      <4>3. CASE x # r.id /\ x \notin AnswersIn(db, r.id)
        <5>1. d[x] = db[x]
          BY <1>4, <4>3
        <5>2. AnswersShown(d, x) = AnswersShown(db, x)
          BY <2>2, <4>3, <5>1 DEF AnswersShown
        <5>3. ~LagsEntry(r, db, x)
          BY <1>1, <4>3 DEF LagsEntry
        <5>4. QED
          BY <2>3, <4>0, <5>1, <5>2, <5>3, MirrorsAtStays
      <4>4. QED
        BY <4>1, <4>2, <4>3
    <3>3. CarriesRows(r1, index, d)
      BY <1>1, <1>2, <1>3, <1>4 DEF CarriesRows, HasRow
    <3>4. QED
      BY <3>2, <3>3 DEF Mirrored
  <2>5. QED
    BY <1>1, <1>3, <2>1, <2>4, MirrorWriting
<1>8. QED
  BY <1>6, <1>7

LEMMA FailMirrors ==
    ASSUME TreeInv, MirrorInv, NEW w \in Workers, Fail(w) PROVE MirrorInv'
<1>1. failures' # 0
  BY TreeFacts, MaxFailuresAssumption DEF Fail, Failure
<1>2. QED
  BY <1>1 DEF MirrorInv

-----------------------------------------------------------------------------
LEMMA MirrorInit == Init => MirrorInv
<1> SUFFICES ASSUME Init PROVE MirrorInv
  OBVIOUS
<1>1. Current = {Idle}
  BY DEF Init, Idle, Active, Current, Quiet
<1>2. \A x \in Ids : ~HasRow(db, x) /\ index[x] = NoRow
  BY DEF Init, HasRow
<1>3. \A x \in Ids : MirrorsAt(Idle, index, db, x)
  BY <1>2 DEF MirrorsAt
<1>4. QED
  BY <1>1, <1>3, IdleOwesNothing DEF MirrorInv, Mirrored

LEMMA MirrorStutter == ASSUME MirrorInv, UNCHANGED vars PROVE MirrorInv'
<1>1. Idle' = Idle
  BY DEF Idle
<1>2. Current' = Current
  BY <1>1 DEF Current, Quiet, Active, vars
<1>3. UNCHANGED <<backend, index, db, overlapped, failures>>
  BY DEF vars
<1>4. QED
  BY <1>2, <1>3, MirrorInvNext DEF MirrorInv

LEMMA MirrorNext == TreeInv /\ SerialInv /\ MirrorInv /\ [Next]_vars => MirrorInv'
<1> SUFFICES ASSUME TreeInv, SerialInv, MirrorInv, [Next]_vars PROVE MirrorInv'
  OBVIOUS
<1>1. CASE UNCHANGED vars
  BY <1>1, MirrorStutter
<1>2. ASSUME NEW w \in Workers, Start(w) PROVE MirrorInv'
  BY <1>2, StartCreateQuestionMirrors, StartCreateAnswerMirrors, StartUpdateMirrors,
     StartDeleteAnswerMirrors, StartDeleteQuestionMirrors DEF Start
<1>3. ASSUME NEW w \in Workers, Step(w) PROVE MirrorInv'
  <2>1. CASE \/ ReadParent(w) \/ ReadParentQuestion(w) \/ InsertQuestion(w)
             \/ HookAnswer(w) \/ MongoInsertAnswer(w) \/ PostgresInsertAnswer(w) \/ IndexNew(w)
    BY <2>1, ReadParentMirrors, InsertQuestionMirrors, HookAnswerMirrors, InsertAnswerMirrors,
       IndexNewMirrors
  <2>2. CASE \/ Reread(w) \/ SyncDoc(w)
             \/ RemoveAnswer(w) \/ Unindex(w) \/ ReadList(w) \/ WriteList(w) \/ Fail(w)
    BY <2>2, RereadMirrors, SyncDocMirrors, RemoveAnswerMirrors, UnindexMirrors,
       ReadListMirrors, WriteListMirrors, FailMirrors
  <2>3. CASE \/ ListAnswers(w) \/ UnindexAnswer(w) \/ ListChildren(w) \/ Strip(w)
             \/ ScanQuestions(w) \/ ScanAnswers(w) \/ PrepareDelete(w) \/ RemoveQuestion(w)
    BY <2>3, ListAnswersMirrors, UnindexAnswerMirrors, ScansMirror, StripMirrors,
       PrepareDeleteMirrors, RemoveQuestionMirrors
  <2>4. QED
    BY <1>3, <2>1, <2>2, <2>3 DEF Step
<1>4. QED
  BY <1>1, <1>2, <1>3 DEF Next

(***************************************************************************)
(* When no request is in progress, none ever overlapped another and        *)
(* nothing failed, the search index holds exactly the contents of the      *)
(* database, each under its parent, ancestors and answers: whatever        *)
(* questions and answers were created, updated and deleted, every document *)
(* that went stale on the way was re-indexed or removed by the handler     *)
(* that made it so.                                                        *)
(***************************************************************************)
THEOREM IndexMirrors == Spec => []IndexMirrorsDatabase
<1>1. TreeInv /\ MirrorInv => IndexMirrorsDatabase
  <2> SUFFICES ASSUME TreeInv, MirrorInv, Steady, NEW x \in Ids
               PROVE  IF Stored(x)
                      THEN /\ index[x] # NoRow
                           /\ index[x].parent = db[x].parent
                           /\ index[x].ancestors = IdsOf(db[x].anc)
                           /\ index[x].answers = Entity(x).answers
                      ELSE index[x] = NoRow
    BY DEF IndexMirrorsDatabase
  <2>1. MirrorsAt(Idle, index, db, x)
    BY DEF Steady, Undisturbed, MirrorInv, Current, Mirrored
  <2>2. ~LagsEntry(Idle, db, x) /\ ~LagsAncestors(Idle, x) /\ ~LagsAnswers(Idle, x)
    BY DEF LagsEntry, LagsAncestors, LagsAnswers, Idle
  <2>3. Stored(x) => Entity(x).answers = AnswersShown(db, x)
    <3>1. Stored(x) => db[x] \in Contents
      BY TreeFacts DEF ContentFine
    <3>2. QED
      BY <3>1, AnswersOfIn DEF Entity, Contents, AnswersShown
  <2>4. QED
    BY <2>1, <2>2, <2>3 DEF MirrorsAt, HasRow, Stored
<1>2. TreeInv /\ SerialInv /\ MirrorInv /\ [Next]_vars => MirrorInv'
  BY MirrorNext
<1>3. QED
  BY <1>1, <1>2, MirrorInit, SerialInvariant, PTL DEF Spec

-----------------------------------------------------------------------------
(***************************************************************************)
(* What a chain names below its entries, and who heads it, when it is      *)
(* built, filtered or renumbered.                                          *)
(***************************************************************************)
LEMMA ShallowestExists ==
    ASSUME NEW anc, ChainFine(anc), anc # {}
    PROVE  \E e \in anc : \A f \in anc : e.depth <= f.depth
<1> DEFINE B == {e.depth : e \in anc}
           R == OpToRel(<, Nat)
<1>1. \A e \in anc : e.depth \in Nat
  BY DEF ChainFine, Chains, Entry
<1>2. B # {} /\ B \subseteq Nat
  BY <1>1
<1>3. PICK n \in B : \A m \in B : ~(<<m, n>> \in R)
  <2>1. IsWellFoundedOn(R, Nat)
    BY NatLessThanWellFounded
  <2> HIDE DEF B, R
  <2>2. QED
    BY <1>2, <2>1, WFMin
<1>4. \A m \in B : ~(m < n)
  BY <1>2, <1>3 DEF OpToRel
<1>5. PICK e \in anc : e.depth = n
  BY <1>3
<1>6. \A f \in anc : ~(f.depth < e.depth)
  BY <1>4, <1>5
<1>7. QED
  BY <1>1, <1>6

\* A head is the one ChainHead chooses.
LEMMA HeadIsUnique ==
    ASSUME NEW anc, ChainFine(anc), NEW p, Heads(p, anc)
    PROVE  anc # {} /\ ChainHead(anc) = p
<1>1. \A e \in anc : e.depth \in Nat
  BY DEF ChainFine, Chains, Entry
<1>2. PICK e \in anc : e.id = p /\ \A f \in anc : e.depth <= f.depth
  BY DEF Heads
<1>3. ASSUME NEW g \in anc, \A f \in anc : g.depth <= f.depth PROVE g = e
  <2>1. g.depth = e.depth
    BY <1>1, <1>2, <1>3
  <2>2. QED
    BY <2>1 DEF ChainFine
<1>4. e = CHOOSE g \in anc : \A f \in anc : g.depth <= f.depth
  BY <1>2, <1>3
<1>5. QED
  BY <1>2, <1>4 DEF ChainHead

LEMMA BelowShift ==
    ASSUME NEW c, ChainFine(c), NEW e \in c, NEW h,
           h = [id |-> e.id, depth |-> e.depth + 1]
    PROVE  Below(Shift(c), h) = Below(c, e)
<1>1. \A f \in c : f.depth \in Nat
  BY DEF ChainFine, Chains, Entry
<1>2. ASSUME NEW g \in Shift(c), h.depth < g.depth
      PROVE  \E f \in c : e.depth < f.depth /\ f.id = g.id
  BY <1>1, <1>2 DEF Shift
<1>3. ASSUME NEW f \in c, e.depth < f.depth
      PROVE  \E g \in Shift(c) : h.depth < g.depth /\ g.id = f.id
  <2>1. [id |-> f.id, depth |-> f.depth + 1] \in Shift(c)
    BY DEF Shift
  <2>2. h.depth < f.depth + 1
    BY <1>1, <1>3
  <2>3. QED
    BY <2>1, <2>2
<1>4. QED
  BY <1>2, <1>3 DEF Below, IdsOf

\* An entry put before a chain: the rest is as it was, and all of it below the new one.
LEMMA BelowHead ==
    ASSUME NEW x, NEW c, \A f \in c : f.depth > 0 /\ f.depth \in Nat, NEW h,
           h = [id |-> x, depth |-> 0]
    PROVE  /\ Below({h} \union c, h) = IdsOf(c)
           /\ \A e \in c : Below({h} \union c, e) = Below(c, e)
           /\ Heads(x, {h} \union c)
<1>1. h.depth = 0 /\ h.id = x
  OBVIOUS
<1>2. {f \in {h} \union c : h.depth < f.depth} = c
  BY <1>1
<1>3. \A e \in c : {f \in {h} \union c : e.depth < f.depth} = {f \in c : e.depth < f.depth}
  BY <1>1
<1>4. Heads(x, {h} \union c)
  BY <1>1 DEF Heads
<1>5. QED
  BY <1>2, <1>3, <1>4 DEF Below

LEMMA ComputedAgrees ==
    ASSUME NEW d, NEW x \in Ids, ChainFine(d[x].anc), AgreesWith(d[x].anc, d, {})
    PROVE  /\ AgreesWith(ComputeAncestors(x, d[x].anc), d, {})
           /\ Heads(x, ComputeAncestors(x, d[x].anc))
<1> DEFINE c == d[x].anc
           h == [id |-> x, depth |-> 0]
           s == Shift(c)
<1>1. \A f \in s : f.depth > 0 /\ f.depth \in Nat
  BY ShiftFine DEF ChainFine, Chains, Entry
<1>2. IdsOf(s) = IdsOf(c)
  BY ShiftFine
<1>3. \A g \in s : \E e \in c : g.id = e.id /\ Below(s, g) = Below(c, e)
  <2> TAKE g \in s
  <2>1. PICK e \in c : g = [id |-> e.id, depth |-> e.depth + 1]
    BY DEF Shift
  <2>2. QED
    BY <2>1, BelowShift
<1>4. ComputeAncestors(x, c) = {h} \union s
  BY DEF ComputeAncestors
<1>5. h.id = x
  OBVIOUS
<1> HIDE DEF h, s
<1>6. /\ Below({h} \union s, h) = IdsOf(s) /\ Heads(x, {h} \union s)
      /\ \A e \in s : Below({h} \union s, e) = Below(s, e)
  BY <1>1, BelowHead DEF h
<1>7. AgreesWith({h} \union s, d, {})
  <2> SUFFICES ASSUME NEW e \in {h} \union s, e.id \in Questions, HasRow(d, e.id)
               PROVE  Below({h} \union s, e) = IdsOf(d[e.id].anc)
    BY DEF AgreesWith
  <2>1. CASE e = h
    BY <1>2, <1>5, <1>6, <2>1
  <2>2. CASE e \in s
    <3>1. PICK g \in c : e.id = g.id /\ Below(s, e) = Below(c, g)
      BY <1>3, <2>2
    <3>2. Below(c, g) = IdsOf(d[g.id].anc)
      BY <3>1 DEF AgreesWith
    <3>3. QED
      BY <1>6, <2>2, <3>1, <3>2
  <2>3. QED
    BY <2>1, <2>2
<1>8. QED
  BY <1>4, <1>6, <1>7

LEMMA ComputedForAnswerAgrees ==
    ASSUME NEW d, NEW a \in Answers, NEW q \in Questions, ChainFine(d[q].anc),
           AgreesWith(d[q].anc, d, {})
    PROVE  /\ AgreesWith(ComputeAncestorsForAnswer(a, q, d[q].anc), d, {})
           /\ Heads(a, ComputeAncestorsForAnswer(a, q, d[q].anc))
<1> DEFINE c == d[q].anc
           h == [id |-> a, depth |-> 0]
<1>0. h = [id |-> a, depth |-> 0] /\ h.id = a /\ a \notin Questions
  BY IdAssumption
<1>1. CASE c = {}
  <2> DEFINE e == [id |-> q, depth |-> 1]
             one == {e}
  <2>1. \A f \in one : f.depth > 0 /\ f.depth \in Nat /\ f.id = q /\ f.depth = 1
    OBVIOUS
  <2>2. ComputeAncestorsForAnswer(a, q, c) = {h} \union one
    BY <1>1 DEF ComputeAncestorsForAnswer
  <2> HIDE DEF h, e, one
  <2>3. Heads(a, {h} \union one) /\ \A f \in one : Below({h} \union one, f) = Below(one, f)
    <3>1. h = [id |-> a, depth |-> 0]
      BY <1>0
    <3>2. \A f \in one : f.depth > 0 /\ f.depth \in Nat
      BY <2>1
    <3>3. Heads(a, {h} \union one)
      BY <3>1, <3>2, BelowHead
    <3>4. \A f \in one : Below({h} \union one, f) = Below(one, f)
      <4>1. {f \in {h} \union one : 1 < f.depth} = {f \in one : 1 < f.depth}
        BY <3>1
      <4>2. QED
        BY <2>1, <4>1 DEF Below
    <3>5. QED
      BY <3>3, <3>4
  <2>4. \A f \in one : Below(one, f) = {}
    BY <2>1 DEF Below, IdsOf
  <2>5. AgreesWith({h} \union one, d, {})
    BY <1>0, <1>1, <2>1, <2>3, <2>4 DEF AgreesWith, IdsOf
  <2>6. QED
    BY <2>2, <2>3, <2>5
<1>2. CASE c # {}
  <2> DEFINE s == Shift(c)
  <2>1. \A f \in s : f.depth > 0 /\ f.depth \in Nat
    BY ShiftFine DEF ChainFine, Chains, Entry
  <2>2. \A g \in s : \E e \in c : g.id = e.id /\ Below(s, g) = Below(c, e)
    <3> TAKE g \in s
    <3>1. PICK e \in c : g = [id |-> e.id, depth |-> e.depth + 1]
      BY DEF Shift
    <3>2. QED
      BY <3>1, BelowShift
  <2>3. ComputeAncestorsForAnswer(a, q, c) = {h} \union s
    BY <1>2 DEF ComputeAncestorsForAnswer
  <2> HIDE DEF h, s
  <2>4. Heads(a, {h} \union s) /\ \A f \in s : Below({h} \union s, f) = Below(s, f)
    BY <1>0, <2>1, BelowHead
  <2>5. ASSUME NEW g \in s, g.id \in Questions, HasRow(d, g.id)
        PROVE  Below(s, g) = IdsOf(d[g.id].anc)
    BY <2>2, <2>5 DEF AgreesWith
  <2>6. AgreesWith({h} \union s, d, {})
    BY <1>0, <2>4, <2>5 DEF AgreesWith
  <2>7. QED
    BY <2>3, <2>4, <2>6
<1>3. QED
  BY <1>1, <1>2

(***************************************************************************)
(* c after the deletion of q rewrote it: the entry of q is gone.           *)
(***************************************************************************)
Thinned(c, new, q) ==
    /\ IdsOf(new) = IdsOf(c) \ {q}
    /\ \A g \in new : \E e \in c : g.id = e.id /\ Below(new, g) = Below(c, e) \ {q}
    /\ \A p : p # q /\ Heads(p, c) => Heads(p, new)

LEMMA WithoutThins == ASSUME NEW c, ChainFine(c), NEW q PROVE Thinned(c, Without(c, q), q)
<1>1. \A g \in Without(c, q) : g \in c /\ Below(Without(c, q), g) = Below(c, g) \ {q}
  BY DEF Without, Below, IdsOf
<1>2. ASSUME NEW p, p # q, Heads(p, c) PROVE Heads(p, Without(c, q))
  BY <1>2 DEF Heads, Without
<1>3. QED
  BY <1>1, <1>2, WithoutFine DEF Thinned

LEMMA ReindexedKeepsBelow ==
    ASSUME NEW c, ChainFine(c)
    PROVE  /\ \A g \in Reindexed(c) : \E e \in c :
                  g.id = e.id /\ Below(Reindexed(c), g) = Below(c, e)
           /\ \A p : Heads(p, c) => Heads(p, Reindexed(c))
<1>0. \A e \in c : e.depth \in Nat /\ Rank(e, c) \in Nat
  <2> TAKE e \in c
  <2>1. {f \in c : f.depth < e.depth} \in SUBSET c
    OBVIOUS
  <2>2. Rank(e, c) \in Nat
    BY <2>1, ChainIsFinite, FS_Subset, FS_CardinalityType DEF Rank
  <2>3. QED
    BY <2>2 DEF ChainFine, Chains, Entry
<1>1. \A e, f \in c : e.depth < f.depth <=> Rank(e, c) < Rank(f, c)
  <2> SUFFICES ASSUME NEW e \in c, NEW f \in c
               PROVE  e.depth < f.depth <=> Rank(e, c) < Rank(f, c)
    OBVIOUS
  <2>1. CASE e.depth < f.depth
    BY <2>1, RankIncreases
  <2>2. CASE f.depth < e.depth
    <3>1. Rank(f, c) < Rank(e, c)
      BY <2>2, RankIncreases
    <3>2. QED
      BY <1>0, <2>2, <3>1
  <2>3. CASE e.depth = f.depth
    BY <1>0, <2>3 DEF ChainFine
  <2>4. QED
    BY <1>0, <2>1, <2>2, <2>3
<1> DEFINE n == Reindexed(c)
           at(e) == [id |-> e.id, depth |-> Rank(e, c)]
<1>2. n = {at(e) : e \in c}
  BY DEF Reindexed
<1>3. \A e : at(e).id = e.id /\ at(e).depth = Rank(e, c)
  OBVIOUS
<1> HIDE DEF n, at
<1>4. ASSUME NEW e \in c PROVE Below(n, at(e)) = Below(c, e)
  <2>1. ASSUME NEW g \in n, at(e).depth < g.depth
        PROVE  \E f \in c : e.depth < f.depth /\ f.id = g.id
    BY <1>1, <1>2, <1>3, <2>1
  <2>2. ASSUME NEW f \in c, e.depth < f.depth
        PROVE  \E g \in n : at(e).depth < g.depth /\ g.id = f.id
    <3>1. at(f) \in n
      BY <1>2
    <3>2. QED
      BY <1>1, <1>3, <2>2, <3>1
  <2>3. QED
    BY <2>1, <2>2 DEF Below, IdsOf
<1>5. ASSUME NEW p, Heads(p, c) PROVE Heads(p, n)
  <2>1. PICK e \in c : e.id = p /\ \A f \in c : e.depth <= f.depth
    BY <1>5 DEF Heads
  <2>2. \A f \in c : Rank(e, c) <= Rank(f, c)
    BY <1>0, <1>1, <2>1
  <2>3. at(e) \in n /\ at(e).id = p
    BY <1>2, <1>3, <2>1
  <2>4. \A g \in n : at(e).depth <= g.depth
    BY <1>2, <1>3, <2>2
  <2>5. QED
    BY <2>3, <2>4 DEF Heads
<1>6. QED
  BY <1>2, <1>3, <1>4, <1>5 DEF n

LEMMA StrippedThins ==
    ASSUME NEW r, NEW x, ChainFine(r.snap[x]) PROVE Thinned(r.snap[x], Stripped(r, x), r.id)
<1> DEFINE c == r.snap[x]
           q == r.id
           t == Without(c, q)
<1>1. Thinned(c, t, q) /\ ChainFine(t)
  BY WithoutThins, WithoutFine
<1>2. CASE r.phase = "children"
  BY <1>1, <1>2 DEF Stripped
<1>3. CASE r.phase # "children"
  <2>1. Stripped(r, x) = Reindexed(t)
    BY <1>3 DEF Stripped
  <2> HIDE DEF c, q, t
  <2>2. Thinned(c, Reindexed(t), q)
    <3>1. IdsOf(Reindexed(t)) = IdsOf(t)
      BY <1>1, ReindexedFine
    <3>2. ASSUME NEW g \in Reindexed(t)
          PROVE  \E e \in c : g.id = e.id /\ Below(Reindexed(t), g) = Below(c, e) \ {q}
      <4>1. PICK f \in t : g.id = f.id /\ Below(Reindexed(t), g) = Below(t, f)
        BY <1>1, ReindexedKeepsBelow
      <4>2. QED
        BY <1>1, <4>1 DEF Thinned
    <3>3. \A p : Heads(p, t) => Heads(p, Reindexed(t))
      BY <1>1, ReindexedKeepsBelow
    <3>4. QED
      BY <1>1, <3>1, <3>2, <3>3 DEF Thinned
  <2>3. QED
    BY <2>1, <2>2 DEF c, q
<1>4. QED
  BY <1>2, <1>3

-----------------------------------------------------------------------------
(***************************************************************************)
(* The one request in progress, again: what a step has to show.            *)
(***************************************************************************)
\* Rows may go, and fields outside chain and parent may change.
LEMMA AgreeStays ==
    ASSUME NEW d, NEW d1, NEW gone, NEW gone1, Agree(d, gone), gone \subseteq gone1,
           \A x \in Ids : HasRow(d1, x) =>
               HasRow(d, x) /\ d1[x].anc = d[x].anc /\ d1[x].parent = d[x].parent
    PROVE  Agree(d1, gone1)
<1>0. Questions \subseteq Ids
  BY DEF Ids
<1>1. ASSUME NEW x \in Ids, HasRow(d1, x) PROVE AgreesWith(d1[x].anc, d1, gone1)
  <2>1. AgreesWith(d[x].anc, d, gone) /\ d1[x].anc = d[x].anc
    BY <1>1 DEF Agree
  <2> SUFFICES ASSUME NEW e \in d1[x].anc, e.id \in Questions, HasRow(d1, e.id)
               PROVE  Below(d1[x].anc, e) \ gone1 = IdsOf(d1[e.id].anc) \ gone1
    BY DEF AgreesWith
  <2>2. HasRow(d, e.id) /\ d1[e.id].anc = d[e.id].anc
    BY <1>0
  <2>3. Below(d[x].anc, e) \ gone = IdsOf(d[e.id].anc) \ gone
    BY <2>1, <2>2 DEF AgreesWith
  <2>4. QED
    BY <2>1, <2>2, <2>3
<1>2. ASSUME NEW q \in Questions, HasRow(d1, q), d1[q].parent \in Ids \ gone1, HasRow(d1, d1[q].parent)
      PROVE  Heads(d1[q].parent, d1[q].anc)
  BY <1>0, <1>2 DEF Agree
<1>3. QED
  BY <1>1, <1>2 DEF Agree

LEMMA ChainInvNext ==
    ASSUME ~overlapped' /\ failures' = 0 => \A r \in Current' : Chained(r, db')
    PROVE  ChainInv'
BY DEF ChainInv, Chained, Agree, AgreesWith, CarriesChain, Gone, HasRow

LEMMA ChainStep ==
    ASSUME TreeInv, SerialInv, ChainInv, NEW w \in Workers, Active(w), NEW r,
           req' = [req EXCEPT ![w] = r], overlapped' = overlapped,
           failures' \in {failures, failures + 1}, r.pc = "idle" => r = Idle,
           failures' = failures /\ Facts(req[w], db, failures) /\ Chained(req[w], db) =>
               Chained(r, db')
    PROVE  ChainInv'
<1>1. ASSUME ~overlapped', failures' = 0 PROVE \A x \in Current' : Chained(x, db')
  <2>1. failures = 0 /\ failures' = failures
    BY <1>1, TreeFacts, MaxFailuresAssumption
  <2>2. Current = {req[w]} /\ Facts(req[w], db, failures) /\ Current' = {r}
    BY <1>1, LoneStep
  <2>3. Chained(req[w], db)
    BY <1>1, <2>1, <2>2 DEF ChainInv
  <2>4. QED
    BY <2>1, <2>2, <2>3
<1>2. QED
  BY <1>1, ChainInvNext

LEMMA IdleCarriesNothing == ASSUME NEW d PROVE CarriesChain(Idle, d) /\ Gone(Idle) = {}
BY DEF CarriesChain, Gone, Idle

LEMMA ChainBegin ==
    ASSUME TreeInv, ChainInv, NEW w \in Workers, NEW r, Begin(w, r), r.pc # "idle",
           Agree(db, {}) => CarriesChain(r, db)
    PROVE  ChainInv'
<1>1. ASSUME ~overlapped', failures' = 0 PROVE \A x \in Current' : Chained(x, db')
  <2>1. /\ ~overlapped /\ Current = {Idle} /\ Current' = {r}
        /\ UNCHANGED <<db, failures>>
    BY <1>1, LoneBegin
  <2>2. Agree(db, {})
    BY <1>1, <2>1, IdleCarriesNothing DEF ChainInv, Chained
  <2>3. Agree(db, Gone(r))
    BY <2>2, AgreeStays
  <2>4. QED
    BY <2>1, <2>2, <2>3 DEF Chained
<1>2. QED
  BY <1>1, ChainInvNext

\* A step that leaves the rows alone.
LEMMA ChainReading ==
    ASSUME TreeInv, SerialInv, ChainInv, NEW w \in Workers, Active(w), NEW r, Become(w, r),
           UNCHANGED <<Store, overlapped>>, failures' \in {failures, failures + 1},
           r.pc = "idle" => r = Idle,
           Facts(req[w], db, failures) /\ Chained(req[w], db) =>
               CarriesChain(r, db) /\ Gone(req[w]) \subseteq Gone(r)
    PROVE  ChainInv'
<1>0. UNCHANGED <<db, overlapped>> /\ req' = [req EXCEPT ![w] = r]
  BY DEF Store, Become
<1>1. ASSUME Facts(req[w], db, failures), Chained(req[w], db) PROVE Chained(r, db)
  BY <1>1, AgreeStays DEF Chained
<1>2. QED
  BY <1>0, <1>1, ChainStep

LEMMA ChainReads ==
    ASSUME TreeInv, SerialInv, ChainInv, NEW w \in Workers, Active(w), NEW ok, NEW r,
           Reads(w, ok, r), ok \in BOOLEAN, ok => r.pc # "idle",
           Facts(req[w], db, failures) /\ Chained(req[w], db) =>
               IF ok THEN CarriesChain(r, db) /\ Gone(req[w]) \subseteq Gone(r)
               ELSE Gone(req[w]) = {}
    PROVE  ChainInv'
<1>1. UNCHANGED <<Store, overlapped, failures>>
  BY DEF Reads
<1>2. CASE ok
  BY <1>1, <1>2, ChainReading DEF Reads
<1>3. CASE ~ok
  BY <1>1, <1>3, IdleCarriesNothing, ChainReading DEF Reads, Finish
<1>4. QED
  BY <1>2, <1>3

LEMMA ChainPublishing ==
    ASSUME TreeInv, SerialInv, ChainInv, NEW w \in Workers, Active(w), NEW y, NEW doc,
           Publish(y, doc), UNCHANGED <<Store, overlapped>>, NEW r, Become(w, r),
           r.pc = "idle" => r = Idle, CarriesChain(r, db), Gone(req[w]) \subseteq Gone(r)
    PROVE  ChainInv'
<1>1. failures' \in {failures, failures + 1}
  BY DEF Publish, Failure
<1>2. QED
  BY <1>1, ChainReading

LEMMA ChainWriting ==
    ASSUME TreeInv, SerialInv, ChainInv, NEW w \in Workers, Active(w), NEW d, NEW r,
           Writes(w, d, r), r.pc # "idle",
           Facts(req[w], db, failures) /\ Chained(req[w], db) => Chained(r, d)
    PROVE  ChainInv'
BY ChainStep DEF Writes, Become

\* A request that carries no chain.
LEMMA CarriesNone ==
    ASSUME NEW r, NEW d, r.pc \notin {"save", "insert"},
           r.op # "deleteQuestion" \/ r.pc # "reread"
    PROVE  CarriesChain(r, d)
BY DEF CarriesChain

LEMMA RowChains ==
    ASSUME TreeInv, NEW x \in Ids, HasRow(db, x)
    PROVE  /\ ChainFine(db[x].anc)
           /\ db[x].parent # None => db[x].parent \in Ids /\ age[db[x].parent] > 0
           /\ \A y \in IdsOf(db[x].anc) : y \in Ids /\ age[y] > 0
<1>1. ContentFine(x, db[x], age)
  BY TreeFacts DEF HasRow, Stored
<1>2. db[x] \in Contents /\ ChainFine(db[x].anc)
  BY <1>1 DEF ContentFine, Grown
<1>3. QED
  BY <1>1, <1>2, IdsAreIds DEF ContentFine, Grown, ParentOlder, Older, Contents

-----------------------------------------------------------------------------
LEMMA StartCreateQuestionChained ==
    ASSUME TreeInv, ChainInv, NEW w \in Workers, NEW q \in Questions,
           NEW p \in Ids \union {None}, StartCreateQuestion(w, q, p)
    PROVE  ChainInv'
<1> DEFINE r == [Idle EXCEPT !.op = "createQuestion", !.id = q, !.parent = p,
                             !.pc = IF p = None THEN "save" ELSE "parent"]
<1>1. Begin(w, r)
  BY DEF StartCreateQuestion
<1>2. /\ r.op = "createQuestion" /\ r.anc = {} /\ r.parent = p
      /\ r.pc = IF p = None THEN "save" ELSE "parent"
  BY DEF Idle
<1> HIDE DEF r
<1>3. CarriesChain(r, db)
  BY <1>2 DEF CarriesChain, AgreesWith
<1>4. QED
  BY <1>1, <1>2, <1>3, ChainBegin

LEMMA StartCreateAnswerChained ==
    ASSUME TreeInv, ChainInv, NEW w \in Workers, NEW a \in Answers, NEW q \in Questions,
           NEW p \in Ids \union {None}, StartCreateAnswer(w, a, q, p)
    PROVE  ChainInv'
<1>0. HasRow(db, q) /\ q \in Ids
  BY DEF StartCreateAnswer, Stored, HasRow, Ids
<1>1. CASE p # None
  <2> DEFINE r == [Idle EXCEPT !.op = "createAnswer", !.id = a, !.target = q,
                               !.parent = p, !.pc = "parent"]
  <2>1. Begin(w, r)
    BY <1>1 DEF StartCreateAnswer
  <2>2. r.op = "createAnswer" /\ r.pc = "parent"
    BY DEF Idle
  <2> HIDE DEF r
  <2>3. QED
    BY <2>1, <2>2, CarriesNone, ChainBegin
<1>2. CASE p = None
  <2> DEFINE anc == IF db[q].parent = None THEN {} ELSE ComputeAncestors(q, db[q].anc)
             r == [Idle EXCEPT !.op = "createAnswer", !.id = a, !.target = q,
                               !.parent = db[q].parent, !.pc = "save", !.anc = anc]
  <2>1. Begin(w, r)
    BY <1>2 DEF StartCreateAnswer
  <2>2. ASSUME Agree(db, {}) PROVE AgreesWith(anc, db, {})
    <3>1. AgreesWith({}, db, {})
      BY DEF AgreesWith
    <3>2. AgreesWith(db[q].anc, db, {})
      BY <1>0, <2>2 DEF Agree
    <3>3. AgreesWith(ComputeAncestors(q, db[q].anc), db, {})
      BY <1>0, <3>2, RowChains, ComputedAgrees
    <3>4. QED
      BY <3>1, <3>3
  <2>3. r.op = "createAnswer" /\ r.pc = "save" /\ r.anc = anc
    BY DEF Idle
  <2> HIDE DEF r, anc
  <2>4. Agree(db, {}) => CarriesChain(r, db)
    BY <2>2, <2>3 DEF CarriesChain
  <2>5. QED
    BY <2>1, <2>3, <2>4, ChainBegin
<1>3. QED
  BY <1>1, <1>2

LEMMA StartUpdateChained ==
    ASSUME TreeInv, ChainInv, NEW w \in Workers, NEW y \in Ids, StartUpdate(w, y)
    PROVE  ChainInv'
<1> DEFINE r == [Idle EXCEPT !.op = "update", !.cur = y, !.pc = "reread"]
<1>1. Begin(w, r)
  BY DEF StartUpdate
<1>2. r.op = "update" /\ r.pc = "reread"
  BY DEF Idle
<1> HIDE DEF r
<1>3. QED
  BY <1>1, <1>2, CarriesNone, ChainBegin

LEMMA StartDeleteAnswerChained ==
    ASSUME TreeInv, ChainInv, NEW w \in Workers, NEW a \in Answers, StartDeleteAnswer(w, a)
    PROVE  ChainInv'
<1> DEFINE r == [Idle EXCEPT !.op = "deleteAnswer", !.id = a, !.target = db[a].question,
                             !.pc = "remove"]
<1>1. Begin(w, r)
  BY DEF StartDeleteAnswer
<1>2. r.op = "deleteAnswer" /\ r.pc = "remove"
  BY DEF Idle
<1> HIDE DEF r
<1>3. QED
  BY <1>1, <1>2, CarriesNone, ChainBegin

LEMMA StartDeleteQuestionChained ==
    ASSUME TreeInv, ChainInv, NEW w \in Workers, NEW q \in Questions, StartDeleteQuestion(w, q)
    PROVE  ChainInv'
<1> DEFINE r == [Idle EXCEPT !.op = "deleteQuestion", !.id = q, !.pc = "listAnswers"]
<1>1. Begin(w, r)
  BY DEF StartDeleteQuestion
<1>2. r.op = "deleteQuestion" /\ r.pc = "listAnswers"
  BY DEF Idle
<1> HIDE DEF r
<1>3. QED
  BY <1>1, <1>2, CarriesNone, ChainBegin

LEMMA ReadParentChained ==
    ASSUME TreeInv, SerialInv, ChainInv, NEW w \in Workers, ReadParent(w) PROVE ChainInv'
<1> DEFINE r == req[w]
           p == r.parent
<1>1. /\ RequestFine(r, age) /\ r \in Requests /\ r.pc = "parent" /\ p \in Ids /\ Active(w)
      /\ r.op \in {"createQuestion", "createAnswer"}
  BY TreeFacts, OpOfPc DEF ReadParent, At, RequestFine, Active
<1>2. Gone(r) = {}
  BY <1>1 DEF Gone
<1>3. CASE ~Stored(p)
  <2>1. Reads(w, FALSE, Idle)
    BY <1>3 DEF ReadParent, Reads
  <2>2. QED
    BY <1>1, <1>2, <2>1, ChainReads
<1>4. CASE Stored(p) /\ p \in Questions
  <2> DEFINE anc == ComputeAncestors(p, db[p].anc)
             r1 == [r EXCEPT !.anc = anc, !.pc = "save"]
  <2>1. ASSUME Chained(r, db) PROVE AgreesWith(anc, db, {}) /\ Heads(p, anc)
    <3>1. HasRow(db, p) /\ AgreesWith(db[p].anc, db, {})
      BY <1>1, <1>2, <1>4, <2>1 DEF Chained, Agree, HasRow, Stored
    <3>2. QED
      BY <1>1, <3>1, RowChains, ComputedAgrees
  <2>2. Reads(w, TRUE, r1)
    BY <1>4 DEF ReadParent
  <2> HIDE DEF anc
  <2>3. r1.op = r.op /\ r1.parent = p /\ r1.anc = anc /\ r1.pc = "save"
    BY <1>1 DEF Requests
  <2> HIDE DEF r1
  <2>4. Chained(r, db) => CarriesChain(r1, db)
    BY <2>1, <2>3 DEF CarriesChain
  <2>5. QED
    BY <1>1, <1>2, <2>2, <2>3, <2>4, ChainReads
<1>5. CASE Stored(p) /\ p \notin Questions
  <2> DEFINE r1 == [r EXCEPT !.via = db[p].question, !.pc = "parentQuestion"]
  <2>1. Reads(w, TRUE, r1)
    BY <1>5 DEF ReadParent
  <2>2. r1.pc = "parentQuestion"
    BY <1>1 DEF Requests
  <2> HIDE DEF r1
  <2>3. QED
    BY <1>1, <1>2, <2>1, <2>2, CarriesNone, ChainReads
<1>6. QED
  BY <1>3, <1>4, <1>5

LEMMA ReadParentQuestionChained ==
    ASSUME TreeInv, SerialInv, ChainInv, NEW w \in Workers, ReadParentQuestion(w)
    PROVE  ChainInv'
<1> DEFINE r == req[w]
           p == r.parent
           q == r.via
<1>1. /\ RequestFine(r, age) /\ r \in Requests /\ r.pc = "parentQuestion" /\ Active(w)
      /\ p \in Answers /\ q \in Questions /\ q \in Ids
      /\ r.op \in {"createQuestion", "createAnswer"}
  BY TreeFacts, OpOfPc DEF ReadParentQuestion, At, RequestFine, Ids, Active
<1>2. Gone(r) = {}
  BY <1>1 DEF Gone
<1>3. CASE ~Stored(q)
  <2>1. Reads(w, FALSE, Idle)
    BY <1>3 DEF ReadParentQuestion, Reads
  <2>2. QED
    BY <1>1, <1>2, <2>1, ChainReads
<1>4. CASE Stored(q)
  <2> DEFINE anc == ComputeAncestorsForAnswer(p, q, db[q].anc)
             r1 == [r EXCEPT !.anc = anc, !.pc = "save"]
  <2>1. ASSUME Chained(r, db) PROVE AgreesWith(anc, db, {}) /\ Heads(p, anc)
    <3>1. HasRow(db, q) /\ AgreesWith(db[q].anc, db, {})
      BY <1>1, <1>2, <1>4, <2>1 DEF Chained, Agree, HasRow, Stored
    <3>2. QED
      BY <1>1, <3>1, RowChains, ComputedForAnswerAgrees
  <2>2. Reads(w, TRUE, r1)
    BY <1>4 DEF ReadParentQuestion
  <2> HIDE DEF anc
  <2>3. r1.op = r.op /\ r1.parent = p /\ r1.anc = anc /\ r1.pc = "save"
    BY <1>1 DEF Requests
  <2> HIDE DEF r1
  <2>4. Chained(r, db) => CarriesChain(r1, db)
    BY <2>1, <2>3 DEF CarriesChain
  <2>5. QED
    BY <1>1, <1>2, <2>2, <2>3, <2>4, ChainReads
<1>5. QED
  BY <1>3, <1>4

-----------------------------------------------------------------------------
\* The row that createQuestion or createAnswer adds is named by no other yet.
LEMMA InsertedChained ==
    ASSUME TreeInv, NEW r \in Requests, NEW r1, r.id \in Ids, ~HasRow(db, r.id),
           Chained(r, db), r.pc \in {"save", "insert"},
           r.op \in {"createQuestion", "createAnswer"}, r1.op = r.op, r1.pc = "index",
           r.id \notin IdsOf(r.anc), ChainFine(r.anc),
           r.op = "createQuestion" => r.pc = "save" /\ r.id \in Questions /\ age[r.id] = 0,
           r.op = "createAnswer" => r.id \in Answers,
           r.pc = "save" => age[r.id] = 0
    PROVE  Chained(r1, [db EXCEPT ![r.id] = Made(r)])
<1> DEFINE d == [db EXCEPT ![r.id] = Made(r)]
           n == r.id
<1>1. Made(r) # NoRow /\ Made(r).parent = r.parent /\ Made(r).anc = r.anc
  BY MadeIsARow DEF Made
<1>2. d[n] = Made(r) /\ \A x \in Ids : x # n => d[x] = db[x]
  BY TreeFacts
<1>3. Gone(r) = {} /\ Gone(r1) = {}
  BY DEF Gone
<1>4. Agree(db, {}) /\ AgreesWith(r.anc, db, {})
  BY <1>3 DEF Chained, CarriesChain
<1> HIDE DEF d
<1>5. \A x \in Ids : HasRow(d, x) => x = n \/ (HasRow(db, x) /\ d[x] = db[x])
  BY <1>2 DEF HasRow
<1>6. Questions \subseteq Ids /\ (n \in Questions => age[n] = 0)
  BY IdAssumption DEF Ids
\* a question named in a chain is an older one
<1>7. ASSUME NEW anc, AgreesWith(anc, db, {}), n \notin IdsOf(anc) \/ n \notin Questions
      PROVE  AgreesWith(anc, d, {})
  <2> SUFFICES ASSUME NEW e \in anc, e.id \in Questions, HasRow(d, e.id)
               PROVE  Below(anc, e) \ {} = IdsOf(d[e.id].anc) \ {}
    BY DEF AgreesWith
  <2>1. e.id \in IdsOf(anc)
    BY DEF IdsOf
  <2>2. HasRow(db, e.id) /\ d[e.id] = db[e.id]
    BY <1>5, <1>6, <1>7, <2>1
  <2>3. QED
    BY <1>7, <2>2 DEF AgreesWith
<1>8. ASSUME NEW x \in Ids, HasRow(d, x) PROVE AgreesWith(d[x].anc, d, {})
  <2>1. CASE x = n
    BY <1>1, <1>2, <1>4, <1>7, <2>1
  <2>2. CASE x # n
    <3>1. HasRow(db, x) /\ d[x] = db[x]
      BY <1>5, <1>8, <2>2
    <3>2. n \in Questions => n \notin IdsOf(db[x].anc)
      BY <1>6, <3>1, RowChains
    <3>3. AgreesWith(db[x].anc, db, {})
      BY <1>4, <3>1 DEF Agree
    <3>4. QED
      BY <1>7, <3>1, <3>2, <3>3
  <2>3. QED
    BY <2>1, <2>2
<1>9. ASSUME NEW q \in Questions, HasRow(d, q), d[q].parent \in Ids \ {}, HasRow(d, d[q].parent)
      PROVE  Heads(d[q].parent, d[q].anc)
  <2>1. CASE q = n
    <3>1. r.op = "createQuestion" /\ r.pc = "save" /\ r.parent # None
      BY <1>1, <1>2, <1>9, <2>1, IdAssumption
    <3>2. Heads(r.parent, r.anc)
      BY <3>1 DEF Chained, CarriesChain
    <3>3. QED
      BY <1>1, <1>2, <2>1, <3>2
  <2>2. CASE q # n
    <3>1. HasRow(db, q) /\ d[q] = db[q] /\ q \in Ids
      BY <1>5, <1>6, <1>9, <2>2
    <3>2. db[q].parent # n
      <4>1. r.pc = "save" => age[db[q].parent] > 0
        BY <1>9, <3>1, RowChains, IdAssumption
      <4>2. r.pc = "insert" => db[q].parent # n
        BY <3>1 DEF Chained, CarriesChain
      <4>3. QED
        BY <4>1, <4>2
    <3>3. HasRow(db, db[q].parent)
      BY <1>5, <1>9, <3>1, <3>2
    <3>4. QED
      BY <1>4, <1>9, <3>1, <3>3 DEF Agree
  <2>3. QED
    BY <2>1, <2>2
<1>10. CarriesChain(r1, d)
  BY CarriesNone
<1>11. QED
  BY <1>3, <1>8, <1>9, <1>10 DEF Chained, Agree, d

LEMMA InsertQuestionChained ==
    ASSUME TreeInv, SerialInv, ChainInv, NEW w \in Workers, InsertQuestion(w) PROVE ChainInv'
<1> DEFINE r == req[w]
           c == Made(r)
           d == [db EXCEPT ![r.id] = c]
           r1 == [r EXCEPT !.doc = Project(c), !.pc = "index"]
<1>1. /\ RequestFine(r, age) /\ r \in Requests /\ r.pc = "save" /\ r.op = "createQuestion"
      /\ Writes(w, d, r1) /\ Active(w)
  BY TreeFacts DEF InsertQuestion, At, RequestFine, Active
<1>2. /\ r.id \in Questions /\ r.id \in Ids /\ age[r.id] = 0 /\ ChainFine(r.anc)
      /\ \A y \in IdsOf(r.anc) : age[y] > 0
  BY <1>1 DEF RequestFine, Early, Ids
<1>3. ~HasRow(db, r.id) /\ r.id \notin IdsOf(r.anc)
  BY <1>2, RowFacts
<1>4. r1.op = r.op /\ r1.pc = "index"
  BY <1>1 DEF Requests
<1> HIDE DEF r1, r
<1>5. Chained(r, db) => Chained(r1, d)
  BY <1>1, <1>2, <1>3, <1>4, InsertedChained
<1> HIDE DEF d
<1>6. QED
  BY <1>1, <1>4, <1>5, ChainWriting DEF r

LEMMA InsertAnswerChained ==
    ASSUME TreeInv, SerialInv, ChainInv, NEW w \in Workers,
           MongoInsertAnswer(w) \/ PostgresInsertAnswer(w)
    PROVE  ChainInv'
<1> DEFINE r == req[w]
           c == Made(r)
           d == [db EXCEPT ![r.id] = c]
           r1 == [r EXCEPT !.doc = Project(c), !.pc = "index"]
<1>1. /\ RequestFine(r, age) /\ r \in Requests /\ r.pc \in {"insert", "save"}
      /\ r.op = "createAnswer" /\ Active(w)
  BY TreeFacts, OpOfPc
     DEF MongoInsertAnswer, PostgresInsertAnswer, At, RequestFine, Active
<1>2. /\ r.id \in Answers /\ r.id \in Ids /\ ChainFine(r.anc)
      /\ r.pc = "save" => age[r.id] = 0 /\ \A y \in IdsOf(r.anc) : age[y] > 0
      /\ r.pc = "insert" => \A y \in IdsOf(r.anc) : Older(y, r.id, age)
  BY <1>1 DEF RequestFine, Early, Grown, Ids
<1>3. r.id \notin IdsOf(r.anc)
  BY <1>1, <1>2, TreeFacts DEF Older
<1>4. Facts(r, db, failures) => ~HasRow(db, r.id)
  <2>1. r.pc = "save" => ~HasRow(db, r.id)
    BY <1>2, RowFacts
  <2>2. QED
    BY <1>1, <2>1 DEF Facts, StillSo
<1>5. r1.op = r.op /\ r1.pc = "index"
  BY <1>1 DEF Requests
<1>6. Writes(w, d, r1) \/ Reads(w, FALSE, Idle)
  BY DEF MongoInsertAnswer, PostgresInsertAnswer, At
<1> HIDE DEF r1, r
<1>7. Facts(r, db, failures) /\ Chained(r, db) => Chained(r1, d)
  BY <1>1, <1>2, <1>3, <1>4, <1>5, InsertedChained
<1> HIDE DEF d
<1>8. CASE Writes(w, d, r1)
  BY <1>1, <1>5, <1>7, <1>8, ChainWriting DEF r
<1>9. CASE Reads(w, FALSE, Idle)
  <2>1. Gone(r) = {}
    BY <1>1 DEF Gone
  <2>2. QED
    BY <1>1, <1>9, <2>1, ChainReads DEF r
<1>10. QED
  BY <1>6, <1>8, <1>9

LEMMA HookAnswerChained ==
    ASSUME TreeInv, SerialInv, ChainInv, NEW w \in Workers, HookAnswer(w) PROVE ChainInv'
<1> DEFINE r == req[w]
           q == r.target
           d == IF Stored(q) THEN [db EXCEPT ![q].answers = @ \union {r.id}] ELSE db
           r1 == [r EXCEPT !.pc = "insert"]
<1>1. /\ RequestFine(r, age) /\ r \in Requests /\ r.pc = "save" /\ r.op = "createAnswer"
      /\ Writes(w, d, r1) /\ Active(w)
  BY TreeFacts DEF HookAnswer, At, RequestFine, Active
<1>2. q \in Ids /\ r.id \in Ids /\ age[r.id] = 0
  BY <1>1 DEF RequestFine, Early, Ids
<1>3. r1.op = r.op /\ r1.pc = "insert" /\ r1.id = r.id /\ r1.anc = r.anc
  BY <1>1 DEF Requests
<1>4. \A x \in Ids : HasRow(d, x) =>
        HasRow(db, x) /\ d[x].anc = db[x].anc /\ d[x].parent = db[x].parent
  <2>1. CASE ~Stored(q)
    BY <2>1
  <2>2. CASE Stored(q)
    <3> DEFINE c == [db[q] EXCEPT !.answers = @ \union {r.id}]
    <3>1. HasRow(db, q) /\ db[q] \in Contents
      BY <1>2, <2>2, RowFacts DEF HasRow, Stored
    <3>2. c.anc = db[q].anc /\ c.parent = db[q].parent
      BY <3>1 DEF Contents
    <3>3. d = [db EXCEPT ![q] = c]
      BY <2>2
    <3> HIDE DEF c, d
    <3>4. d[q] = c /\ \A x \in Ids : x # q => d[x] = db[x]
      BY <1>2, <3>3, TreeFacts
    <3>5. QED
      BY <3>1, <3>2, <3>4 DEF HasRow
  <2>3. QED
    BY <2>1, <2>2
<1> HIDE DEF r1, d
<1>5. ASSUME Chained(r, db) PROVE Chained(r1, d)
  <2>1. Gone(r) = {} /\ Gone(r1) = {}
    BY <1>1, <1>3 DEF Gone
  <2>2. Agree(db, {}) /\ AgreesWith(r.anc, db, {})
    BY <1>1, <1>5, <2>1 DEF Chained, CarriesChain
  <2>3. Agree(d, {})
    BY <1>4, <2>2, AgreeStays
  <2>4. AgreesWith(r.anc, d, {})
    BY <1>4, <2>2 DEF AgreesWith, Ids
  <2>5. ASSUME NEW x \in Questions, HasRow(d, x) PROVE d[x].parent # r.id
    <3>1. x \in Ids /\ HasRow(db, x) /\ d[x].parent = db[x].parent
      BY <1>4, <2>5 DEF Ids
    <3>2. QED
      BY <1>2, <3>1, RowChains, IdAssumption
  <2>6. CarriesChain(r1, d)
    BY <1>1, <1>3, <2>4, <2>5 DEF CarriesChain
  <2>7. QED
    BY <2>1, <2>3, <2>6 DEF Chained
<1>6. QED
  BY <1>1, <1>3, <1>5, ChainWriting

-----------------------------------------------------------------------------
LEMMA IndexNewChained ==
    ASSUME TreeInv, SerialInv, ChainInv, NEW w \in Workers, IndexNew(w) PROVE ChainInv'
<1> DEFINE r == req[w]
           r1 == IF r.op = "createQuestion" THEN Idle
                 ELSE [r EXCEPT !.cur = r.target, !.pc = "reread"]
<1>1. /\ RequestFine(r, age) /\ r \in Requests /\ r.pc = "index" /\ Active(w)
      /\ r.op \in {"createQuestion", "createAnswer"}
      /\ Publish(r.id, r.doc) /\ UNCHANGED <<Store, overlapped>> /\ Become(w, r1)
  BY TreeFacts, OpOfPc DEF IndexNew, At, RequestFine, Active, Finish
<1>2. /\ r.op = "createAnswer" => r1.op = r.op /\ r1.pc = "reread"
      /\ r.op = "createQuestion" => r1 = Idle
  BY <1>1 DEF Requests
<1> HIDE DEF r1
<1>3. CarriesChain(r1, db) /\ Gone(r) = {} /\ (r1.pc = "idle" => r1 = Idle)
  BY <1>1, <1>2, CarriesNone, IdleCarriesNothing DEF Gone
<1>4. QED
  BY <1>1, <1>3, ChainPublishing

LEMMA RereadChained ==
    ASSUME TreeInv, SerialInv, ChainInv, NEW w \in Workers, Reread(w) PROVE ChainInv'
<1> DEFINE r == req[w]
           r1 == [r EXCEPT !.doc = Project(Entity(r.cur)), !.pc = "sync"]
<1>1. /\ r \in Requests /\ r.pc = "reread" /\ Active(w) /\ Reads(w, Stored(r.cur), r1)
  BY TreeFacts DEF Reread, At, Active
<1>2. r1.op = r.op /\ r1.id = r.id /\ r1.pc = "sync"
  BY <1>1 DEF Requests
<1> HIDE DEF r1
<1>3. CarriesChain(r1, db) /\ Gone(r) = Gone(r1)
  BY <1>1, <1>2, CarriesNone DEF Gone
<1>4. Chained(r, db) /\ ~Stored(r.cur) => Gone(r) = {}
  BY <1>1 DEF Chained, CarriesChain, Gone, HasRow, Stored
<1>5. Stored(r.cur) \in BOOLEAN
  BY DEF Stored
<1>6. QED
  BY <1>1, <1>2, <1>3, <1>4, <1>5, ChainReads

LEMMA SyncDocChained ==
    ASSUME TreeInv, SerialInv, ChainInv, NEW w \in Workers, SyncDoc(w) PROVE ChainInv'
<1> DEFINE r == req[w]
           doc == IF r.op = "createAnswer" THEN r.doc ELSE Merge(index[r.cur], r.doc)
           r1 == IF r.op = "deleteQuestion"
                 THEN [r EXCEPT !.cur = None, !.doc = NoDoc, !.pc = "strip"] ELSE Idle
<1>1. /\ r \in Requests /\ r.pc = "sync" /\ Active(w)
      /\ Publish(r.cur, doc) /\ UNCHANGED <<Store, overlapped>> /\ Become(w, r1)
  BY TreeFacts DEF SyncDoc, At, Active, Finish
<1>2. /\ r.op = "deleteQuestion" => r1.op = r.op /\ r1.id = r.id /\ r1.pc = "strip"
      /\ r.op # "deleteQuestion" => r1 = Idle
  BY <1>1 DEF Requests
<1> HIDE DEF r1, doc
<1>3. /\ CarriesChain(r1, db) /\ Gone(r) \subseteq Gone(r1) /\ (r1.pc = "idle" => r1 = Idle)
  BY <1>1, <1>2, CarriesNone, IdleCarriesNothing DEF Gone
<1>4. QED
  BY <1>1, <1>3, ChainPublishing

-----------------------------------------------------------------------------
LEMMA RemoveAnswerChained ==
    ASSUME TreeInv, SerialInv, ChainInv, NEW w \in Workers, RemoveAnswer(w) PROVE ChainInv'
<1> DEFINE r == req[w]
           d == [db EXCEPT ![r.id] = NoRow]
           r1 == [r EXCEPT !.pc = "unindex"]
<1>1. /\ RequestFine(r, age) /\ r \in Requests /\ r.op = "deleteAnswer" /\ r.id \in Ids
      /\ Active(w) /\ Gone(r) = {}
  BY TreeFacts DEF RemoveAnswer, At, RequestFine, Active, Gone, Ids
<1>2. r1.op = r.op /\ r1.pc = "unindex"
  BY <1>1 DEF Requests
<1>3. d[r.id] = NoRow /\ \A x \in Ids : x # r.id => d[x] = db[x]
  BY <1>1, TreeFacts
<1>4. CASE ~Stored(r.id)
  BY <1>1, <1>4, ChainReads DEF RemoveAnswer
<1>5. CASE Stored(r.id)
  <2>1. Writes(w, d, r1)
    BY <1>5 DEF RemoveAnswer
  <2> HIDE DEF d, r1
  <2>2. Gone(r1) = {} /\ CarriesChain(r1, d)
    BY <1>1, <1>2, CarriesNone DEF Gone
  <2>3. Agree(db, {}) => Agree(d, {})
    BY <1>3, AgreeStays DEF HasRow
  <2>4. Chained(r, db) => Chained(r1, d)
    BY <1>1, <2>2, <2>3 DEF Chained
  <2>5. QED
    BY <1>1, <1>2, <2>1, <2>4, ChainWriting
<1>6. QED
  BY <1>4, <1>5

LEMMA UnindexChained ==
    ASSUME TreeInv, SerialInv, ChainInv, NEW w \in Workers, Unindex(w) PROVE ChainInv'
<1> DEFINE r == req[w]
           r1 == IF r.op = "deleteAnswer" THEN [r EXCEPT !.pc = "readList"] ELSE Idle
<1>1. /\ r \in Requests /\ r.pc = "unindex" /\ Active(w) /\ Gone(r) = {}
      /\ Publish(r.id, NoRow) /\ UNCHANGED <<Store, overlapped>> /\ Become(w, r1)
  BY TreeFacts DEF Unindex, At, Active, Finish, Gone
<1>2. /\ r.op = "deleteAnswer" => r1.op = r.op /\ r1.pc = "readList"
      /\ r.op # "deleteAnswer" => r1 = Idle
  BY <1>1 DEF Requests
<1> HIDE DEF r1
<1>3. CarriesChain(r1, db) /\ (r1.pc = "idle" => r1 = Idle)
  BY <1>2, CarriesNone, IdleCarriesNothing
<1>4. QED
  BY <1>1, <1>3, ChainPublishing

LEMMA ReadListChained ==
    ASSUME TreeInv, SerialInv, ChainInv, NEW w \in Workers, ReadList(w) PROVE ChainInv'
<1> DEFINE r == req[w]
           r1 == [r EXCEPT !.list = Entity(r.target).answers \ {r.id}, !.pc = "writeList"]
<1>1. /\ RequestFine(r, age) /\ r \in Requests /\ r.pc = "readList" /\ Active(w)
      /\ Reads(w, Stored(r.target), r1) /\ Stored(r.target) \in BOOLEAN
  BY TreeFacts DEF ReadList, At, RequestFine, Active, Stored
<1>2. r1.pc = "writeList" /\ Gone(r) = {}
  BY <1>1, OpOfPc DEF Requests, Gone
<1> HIDE DEF r1
<1>3. QED
  BY <1>1, <1>2, CarriesNone, ChainReads

LEMMA WriteListChained ==
    ASSUME TreeInv, SerialInv, ChainInv, NEW w \in Workers, WriteList(w) PROVE ChainInv'
<1> DEFINE r == req[w]
           q == r.target
           d == IF backend = "mongo" THEN [db EXCEPT ![q].answers = r.list] ELSE db
           r1 == [r EXCEPT !.cur = q, !.list = {}, !.pc = "reread"]
<1>1. /\ RequestFine(r, age) /\ r \in Requests /\ r.op = "deleteAnswer" /\ Active(w)
      /\ q \in Ids /\ Gone(r) = {}
  BY TreeFacts, OpOfPc DEF WriteList, At, RequestFine, Active, Gone, Ids
<1>2. r1.op = r.op /\ r1.pc = "reread"
  BY <1>1 DEF Requests
<1>3. CASE ~Stored(q)
  BY <1>1, <1>3, ChainReads DEF WriteList
<1>4. CASE Stored(q)
  <2>1. Writes(w, d, r1)
    BY <1>4 DEF WriteList
  <2>2. \A x \in Ids : HasRow(d, x) =>
          HasRow(db, x) /\ d[x].anc = db[x].anc /\ d[x].parent = db[x].parent
    <3>1. CASE backend # "mongo"
      BY <3>1
    <3>2. CASE backend = "mongo"
      <4> DEFINE c == [db[q] EXCEPT !.answers = r.list]
      <4>1. HasRow(db, q) /\ db[q] \in Contents
        BY <1>1, <1>4, RowFacts DEF HasRow, Stored
      <4>2. c.anc = db[q].anc /\ c.parent = db[q].parent
        BY <4>1 DEF Contents
      <4>3. d = [db EXCEPT ![q] = c]
        BY <3>2
      <4> HIDE DEF c, d
      <4>4. d[q] = c /\ \A x \in Ids : x # q => d[x] = db[x]
        BY <1>1, <4>3, TreeFacts
      <4>5. QED
        BY <4>1, <4>2, <4>4 DEF HasRow
    <3>3. QED
      BY <3>1, <3>2
  <2> HIDE DEF d, r1
  <2>3. Gone(r1) = {} /\ CarriesChain(r1, d)
    BY <1>1, <1>2, CarriesNone DEF Gone
  <2>4. Agree(db, {}) => Agree(d, {})
    BY <2>2, AgreeStays
  <2>5. Chained(r, db) => Chained(r1, d)
    BY <1>1, <2>3, <2>4 DEF Chained
  <2>6. QED
    BY <1>1, <1>2, <2>1, <2>5, ChainWriting
<1>5. QED
  BY <1>3, <1>4

-----------------------------------------------------------------------------
LEMMA ListAnswersChained ==
    ASSUME TreeInv, SerialInv, ChainInv, NEW w \in Workers, ListAnswers(w) PROVE ChainInv'
<1> DEFINE r == req[w]
           r1 == [r EXCEPT !.todo = AnswersOf(r.id), !.pc = "unindexAnswers"]
<1>1. r \in Requests /\ r.pc = "listAnswers" /\ Active(w) /\ Reads(w, TRUE, r1)
  BY TreeFacts DEF ListAnswers, At, Active
<1>2. r1.op = r.op /\ r1.id = r.id /\ r1.pc = "unindexAnswers"
  BY <1>1 DEF Requests
<1> HIDE DEF r1
<1>3. Gone(r) \subseteq Gone(r1)
  BY <1>2 DEF Gone
<1>4. QED
  BY <1>1, <1>2, <1>3, CarriesNone, ChainReads

LEMMA UnindexAnswerChained ==
    ASSUME TreeInv, SerialInv, ChainInv, NEW w \in Workers, UnindexAnswer(w) PROVE ChainInv'
<1> DEFINE r == req[w]
           r1(a) == [r EXCEPT !.todo = @ \ {a}]
<1>1. r \in Requests /\ r.pc = "unindexAnswers" /\ Active(w) /\ UNCHANGED <<Store, overlapped>>
  BY TreeFacts DEF UnindexAnswer, At, Active
<1>2. PICK a \in r.todo : Publish(a, NoRow) /\ Become(w, r1(a))
  BY DEF UnindexAnswer
<1>3. r1(a).op = r.op /\ r1(a).id = r.id /\ r1(a).pc = "unindexAnswers"
  BY <1>1 DEF Requests
<1> HIDE DEF r1
<1>4. CarriesChain(r1(a), db) /\ Gone(r) \subseteq Gone(r1(a)) /\ r1(a).pc # "idle"
  BY <1>3, CarriesNone DEF Gone
<1>5. QED
  BY <1>1, <1>2, <1>4, ChainPublishing

LEMMA ScansChained ==
    ASSUME TreeInv, SerialInv, ChainInv, NEW w \in Workers,
           ListChildren(w) \/ ScanQuestions(w) \/ ScanAnswers(w)
    PROVE  ChainInv'
<1> DEFINE r == req[w]
<1>1. Active(w)
  BY DEF ListChildren, ScanQuestions, ScanAnswers, At, Active
<1>2. PICK r1 : /\ Reads(w, TRUE, r1) /\ r1.op = r.op /\ r1.id = r.id
                /\ r1.pc \in {"strip", "scanAnswers"}
  BY ScanGoesOn
<1>3. CarriesChain(r1, db) /\ Gone(r) \subseteq Gone(r1) /\ r1.pc # "idle"
  BY <1>2, CarriesNone DEF Gone
<1>4. QED
  BY <1>1, <1>2, <1>3, ChainReads

\* The chain of x is thinned: every chain still agrees with the others but for q.
LEMMA ThinnedAgrees ==
    ASSUME NEW d, NEW d1, NEW q, NEW x \in Ids, HasRow(d, x), Agree(d, {q}),
           \A y \in Ids : HasRow(d1, y) <=> HasRow(d, y),
           \A y \in Ids : HasRow(d, y) => d1[y].parent = d[y].parent,
           \A y \in Ids : y # x => d1[y].anc = d[y].anc,
           Thinned(d[x].anc, d1[x].anc, q)
    PROVE  Agree(d1, {q})
<1>0. Questions \subseteq Ids
  BY DEF Ids
<1>1. \A y \in Ids : HasRow(d, y) => IdsOf(d1[y].anc) \ {q} = IdsOf(d[y].anc) \ {q}
  BY DEF Thinned
<1>2. ASSUME NEW y \in Ids, HasRow(d1, y) PROVE AgreesWith(d1[y].anc, d1, {q})
  <2> SUFFICES ASSUME NEW e \in d1[y].anc, e.id \in Questions, HasRow(d1, e.id)
               PROVE  Below(d1[y].anc, e) \ {q} = IdsOf(d1[e.id].anc) \ {q}
    BY DEF AgreesWith
  <2>1. HasRow(d, y) /\ HasRow(d, e.id) /\ e.id \in Ids
    BY <1>0, <1>2
  <2>2. PICK f \in d[y].anc : f.id = e.id /\ Below(d1[y].anc, e) \ {q} = Below(d[y].anc, f) \ {q}
    <3>1. CASE y = x
      BY <3>1 DEF Thinned
    <3>2. CASE y # x
      BY <3>2
    <3>3. QED
      BY <3>1, <3>2
  <2>3. Below(d[y].anc, f) \ {q} = IdsOf(d[e.id].anc) \ {q}
    BY <2>1, <2>2 DEF Agree, AgreesWith
  <2>4. QED
    BY <1>1, <2>1, <2>2, <2>3
<1>3. ASSUME NEW p \in Questions, HasRow(d1, p), d1[p].parent \in Ids \ {q}, HasRow(d1, d1[p].parent)
      PROVE  Heads(d1[p].parent, d1[p].anc)
  <2>1. HasRow(d, p) /\ p \in Ids /\ d1[p].parent = d[p].parent /\ HasRow(d, d[p].parent)
    BY <1>0, <1>3
  <2>2. Heads(d[p].parent, d[p].anc)
    BY <1>3, <2>1 DEF Agree
  <2>3. CASE p = x
    BY <1>3, <2>1, <2>2, <2>3 DEF Thinned
  <2>4. CASE p # x
    BY <2>1, <2>2, <2>4
  <2>5. QED
    BY <2>3, <2>4
<1>4. QED
  BY <1>2, <1>3 DEF Agree

LEMMA StripChained ==
    ASSUME TreeInv, SerialInv, ChainInv, NEW w \in Workers, Strip(w) PROVE ChainInv'
<1> DEFINE r == req[w]
<1>1. /\ RequestFine(r, age) /\ r \in Requests /\ r.pc = "strip" /\ r.op = "deleteQuestion"
      /\ Active(w) /\ Gone(r) = {r.id}
  BY TreeFacts, OpOfPc DEF Strip, At, RequestFine, Active, Gone
<1>2. PICK y \in r.todo :
        IF Stored(y)
        THEN Writes(w, [db EXCEPT ![y].anc = Stripped(r, y)],
                    [r EXCEPT !.todo = @ \ {y}, !.snap[y] = {}, !.cur = y, !.pc = "reread"])
        ELSE Reads(w, FALSE, Idle)
  BY DEF Strip
<1>3. y \in Ids
  BY <1>1 DEF Requests
<1>4. Facts(r, db, failures) => Stored(y) /\ r.snap[y] = db[y].anc
  BY <1>1 DEF Facts, StillSo, HasRow, Stored
<1>5. CASE ~Stored(y)
  BY <1>1, <1>2, <1>4, <1>5, ChainReads
<1>6. CASE Stored(y)
  <2> DEFINE anc == Stripped(r, y)
             c == [db[y] EXCEPT !.anc = anc]
             d == [db EXCEPT ![y].anc = anc]
             r1 == [r EXCEPT !.todo = @ \ {y}, !.snap[y] = {}, !.cur = y, !.pc = "reread"]
  <2>1. Writes(w, d, r1) /\ HasRow(db, y)
    BY <1>2, <1>6 DEF HasRow, Stored
  <2>2. anc \in Chains /\ Thinned(r.snap[y], anc, r.id)
    BY <1>1, <1>3, StrippedFine, StrippedThins DEF RequestFine, Grown, ChainFine
  <2> HIDE DEF anc
  <2>3. c # NoRow /\ c.parent = db[y].parent /\ c.anc = anc
    <3>1. db[y] \in Contents
      BY <1>3, <2>1, RowFacts
    <3>2. c \in Contents /\ c.parent = db[y].parent /\ c.anc = anc
      BY <2>2, <3>1 DEF Contents
    <3>3. QED
      BY <3>2, NoRowAssumption
  <2>4. d[y] = c /\ \A x \in Ids : x # y => d[x] = db[x]
    BY <1>3, TreeFacts
  <2>5. r1.op = r.op /\ r1.pc = "reread" /\ r1.id = r.id /\ r1.cur = y
    BY <1>1 DEF Requests
  <2> HIDE DEF c, d, r1
  <2>6. \A x \in Ids : HasRow(d, x) <=> HasRow(db, x)
    BY <2>1, <2>3, <2>4 DEF HasRow
  <2>7. ASSUME Facts(r, db, failures), Chained(r, db) PROVE Chained(r1, d)
    <3>1. Agree(db, {r.id})
      BY <1>1, <2>7 DEF Chained
    <3>2. Thinned(db[y].anc, d[y].anc, r.id)
      BY <1>4, <2>2, <2>3, <2>4, <2>7
    <3>3. Agree(d, {r.id})
      BY <1>3, <2>1, <2>3, <2>4, <2>6, <3>1, <3>2, ThinnedAgrees
    <3>4. Gone(r1) = {r.id}
      BY <1>1, <2>5 DEF Gone
    <3>5. CarriesChain(r1, d)
      BY <1>3, <2>1, <2>5, <2>6 DEF CarriesChain
    <3>6. QED
      BY <3>3, <3>4, <3>5 DEF Chained
  <2>8. QED
    BY <1>1, <2>1, <2>5, <2>7, ChainWriting
<1>7. QED
  BY <1>5, <1>6

LEMMA PrepareDeleteChained ==
    ASSUME TreeInv, SerialInv, ChainInv, NEW w \in Workers, PrepareDelete(w) PROVE ChainInv'
<1> DEFINE r == req[w]
           d == IF backend = "mongo" THEN Drop(AnswersOf(r.id)) ELSE db
           r1 == [r EXCEPT !.pc = "remove"]
<1>1. r \in Requests /\ r.pc = "strip" /\ Writes(w, d, r1) /\ Active(w)
  BY TreeFacts DEF PrepareDelete, At, Active
<1>2. r1.op = r.op /\ r1.pc = "remove" /\ r1.id = r.id
  BY <1>1 DEF Requests
<1>3. \A x \in Ids : HasRow(d, x) => HasRow(db, x) /\ d[x] = db[x]
  BY DEF Drop, HasRow
<1> HIDE DEF d, r1
<1>4. Gone(r) \subseteq Gone(r1) /\ CarriesChain(r1, d)
  BY <1>2, CarriesNone DEF Gone
<1>5. Chained(r, db) => Chained(r1, d)
  BY <1>3, <1>4, AgreeStays DEF Chained
<1>6. QED
  BY <1>1, <1>2, <1>5, ChainWriting

LEMMA RemoveQuestionChained ==
    ASSUME TreeInv, SerialInv, ChainInv, NEW w \in Workers, RemoveQuestion(w) PROVE ChainInv'
<1> DEFINE r == req[w]
           d == Drop({r.id} \union IF backend = "postgres" THEN AnswersOf(r.id) ELSE {})
           r1 == [r EXCEPT !.pc = "unindex"]
<1>1. /\ RequestFine(r, age) /\ r \in Requests /\ r.pc = "remove" /\ r.op = "deleteQuestion"
      /\ Active(w) /\ r.id \in Ids /\ Gone(r) = {r.id}
  BY TreeFacts DEF RemoveQuestion, At, RequestFine, Active, Gone, Ids
<1>2. r1.op = r.op /\ r1.pc = "unindex"
  BY <1>1 DEF Requests
\* nobody names the question any more: the chains agree without an exception
<1>3. ASSUME NEW d1, Facts(r, db, failures), Chained(r, db), ~HasRow(d1, r.id),
             \A x \in Ids : HasRow(d1, x) => HasRow(db, x) /\ d1[x] = db[x]
      PROVE  Agree(d1, {})
  <2>1. Agree(db, {r.id}) /\ \A x \in Ids : ~Names(db, x, r.id)
    BY <1>1, <1>3 DEF Facts, StillSo, Chained
  <2>2. Agree(d1, {r.id})
    BY <1>3, <2>1, AgreeStays
  <2>3. \A x \in Ids : HasRow(d1, x) => r.id \notin IdsOf(d1[x].anc)
    BY <1>3, <2>1 DEF Names
  <2>4. ASSUME NEW x \in Ids, HasRow(d1, x) PROVE AgreesWith(d1[x].anc, d1, {})
    <3> SUFFICES ASSUME NEW e \in d1[x].anc, e.id \in Questions, HasRow(d1, e.id)
                 PROVE  Below(d1[x].anc, e) = IdsOf(d1[e.id].anc)
      BY DEF AgreesWith
    <3>1. Below(d1[x].anc, e) \ {r.id} = IdsOf(d1[e.id].anc) \ {r.id}
      BY <2>2, <2>4 DEF Agree, AgreesWith
    <3>2. r.id \notin Below(d1[x].anc, e)
      BY <2>3, <2>4 DEF Below, IdsOf
    <3>3. r.id \notin IdsOf(d1[e.id].anc)
      BY <2>3 DEF Ids
    <3>4. QED
      BY <3>1, <3>2, <3>3
  <2>5. ASSUME NEW q \in Questions, HasRow(d1, q), d1[q].parent \in Ids, HasRow(d1, d1[q].parent)
        PROVE  Heads(d1[q].parent, d1[q].anc)
    BY <1>3, <2>2, <2>5 DEF Agree
  <2>6. QED
    BY <2>4, <2>5 DEF Agree
<1>4. CASE ~Stored(r.id)
  <2>1. Reads(w, FALSE, Idle)
    BY <1>4 DEF RemoveQuestion
  <2>2. ASSUME Facts(r, db, failures), Chained(r, db) PROVE Chained(Idle, db)
    BY <1>3, <1>4, <2>2, IdleCarriesNothing DEF Chained, HasRow, Stored
  <2>3. /\ req' = [req EXCEPT ![w] = Idle] /\ UNCHANGED <<db, overlapped, failures>>
    BY <2>1 DEF Reads, Finish, Become, Store
  <2>4. QED
    BY <1>1, <2>2, <2>3, ChainStep
<1>5. CASE Stored(r.id)
  <2>1. Writes(w, d, r1)
    BY <1>5 DEF RemoveQuestion
  <2>2. ~HasRow(d, r.id) /\ \A x \in Ids : HasRow(d, x) => HasRow(db, x) /\ d[x] = db[x]
    BY <1>1 DEF Drop, HasRow
  <2> HIDE DEF d, r1
  <2>3. Gone(r1) = {} /\ CarriesChain(r1, d)
    BY <1>2, CarriesNone DEF Gone
  <2>4. Facts(r, db, failures) /\ Chained(r, db) => Chained(r1, d)
    BY <1>3, <2>2, <2>3 DEF Chained
  <2>5. QED
    BY <1>1, <1>2, <2>1, <2>4, ChainWriting
<1>6. QED
  BY <1>4, <1>5

LEMMA FailChained ==
    ASSUME TreeInv, SerialInv, ChainInv, NEW w \in Workers, Fail(w) PROVE ChainInv'
<1>1. Active(w) /\ UNCHANGED <<db, overlapped>> /\ req' = [req EXCEPT ![w] = Idle]
  BY DEF Fail, Finish, Become, Store
<1>2. failures' = failures + 1 /\ failures \in Nat
  BY TreeFacts, MaxFailuresAssumption DEF Fail, Failure
<1>3. failures' # failures
  BY <1>2
<1>4. QED
  BY <1>1, <1>2, <1>3, ChainStep

-----------------------------------------------------------------------------
LEMMA ChainInit == Init => ChainInv
<1> SUFFICES ASSUME Init PROVE ChainInv
  OBVIOUS
<1>1. Current = {Idle}
  BY DEF Init, Idle, Active, Current, Quiet
<1>2. \A x \in Ids : ~HasRow(db, x)
  BY DEF Init, HasRow
<1>3. Agree(db, {})
  BY <1>2 DEF Agree, Ids
<1>4. QED
  BY <1>1, <1>3, IdleCarriesNothing DEF ChainInv, Chained

LEMMA ChainStutter == ASSUME ChainInv, UNCHANGED vars PROVE ChainInv'
<1>1. Idle' = Idle
  BY DEF Idle
<1>2. Current' = Current
  BY <1>1 DEF Current, Quiet, Active, vars
<1>3. UNCHANGED <<db, overlapped, failures>>
  BY DEF vars
<1>4. QED
  BY <1>2, <1>3, ChainInvNext DEF ChainInv

LEMMA ChainNext == TreeInv /\ SerialInv /\ ChainInv /\ [Next]_vars => ChainInv'
<1> SUFFICES ASSUME TreeInv, SerialInv, ChainInv, [Next]_vars PROVE ChainInv'
  OBVIOUS
<1>1. CASE UNCHANGED vars
  BY <1>1, ChainStutter
<1>2. ASSUME NEW w \in Workers, Start(w) PROVE ChainInv'
  BY <1>2, StartCreateQuestionChained, StartCreateAnswerChained, StartUpdateChained,
     StartDeleteAnswerChained, StartDeleteQuestionChained DEF Start
<1>3. ASSUME NEW w \in Workers, Step(w) PROVE ChainInv'
  <2>1. CASE \/ ReadParent(w) \/ ReadParentQuestion(w) \/ InsertQuestion(w)
             \/ HookAnswer(w) \/ MongoInsertAnswer(w) \/ PostgresInsertAnswer(w) \/ IndexNew(w)
    BY <2>1, ReadParentChained, ReadParentQuestionChained, InsertQuestionChained,
       HookAnswerChained, InsertAnswerChained, IndexNewChained
  <2>2. CASE \/ Reread(w) \/ SyncDoc(w)
             \/ RemoveAnswer(w) \/ Unindex(w) \/ ReadList(w) \/ WriteList(w) \/ Fail(w)
    BY <2>2, RereadChained, SyncDocChained, RemoveAnswerChained, UnindexChained,
       ReadListChained, WriteListChained, FailChained
  <2>3. CASE \/ ListAnswers(w) \/ UnindexAnswer(w) \/ ListChildren(w) \/ Strip(w)
             \/ ScanQuestions(w) \/ ScanAnswers(w) \/ PrepareDelete(w) \/ RemoveQuestion(w)
    BY <2>3, ListAnswersChained, UnindexAnswerChained, ScansChained, StripChained,
       PrepareDeleteChained, RemoveQuestionChained
  <2>4. QED
    BY <1>3, <2>1, <2>2, <2>3 DEF Step
<1>4. QED
  BY <1>1, <1>2, <1>3 DEF Next

(***************************************************************************)
(* When no request is in progress, none ever overlapped another and        *)
(* nothing failed, a question whose parent still exists has that parent at *)
(* the head of its chain, and below a question that exists every chain     *)
(* goes on as that question's own chain does: however many deletions       *)
(* filtered and renumbered the chains, each of them in loops of its own.   *)
(***************************************************************************)
THEOREM ChainsFollow == Spec => []ChainsFollowParents
<1>1. TreeInv /\ ChainInv => ChainsFollowParents
  <2> SUFFICES ASSUME TreeInv, ChainInv, Steady PROVE ChainsFollowParents
    BY DEF ChainsFollowParents, ParentHeadsChain, ChainsAgree
  <2>1. Agree(db, {})
    BY IdleCarriesNothing DEF Steady, Undisturbed, ChainInv, Current, Chained
  <2>2. ASSUME NEW q \in Questions, HasRow(db, q), db[q].parent # None, HasRow(db, db[q].parent)
        PROVE  db[q].anc # {} /\ ChainHead(db[q].anc) = db[q].parent
    <3>1. q \in Ids /\ ChainFine(db[q].anc) /\ db[q].parent \in Ids
      BY <2>2, RowChains DEF Ids
    <3>2. Heads(db[q].parent, db[q].anc)
      BY <2>1, <2>2, <3>1 DEF Agree
    <3>3. QED
      BY <3>1, <3>2, HeadIsUnique
  <2>3. ASSUME NEW x \in Ids, HasRow(db, x), db[x].anc # {},
               ChainHead(db[x].anc) \in Questions, HasRow(db, ChainHead(db[x].anc))
        PROVE  IdsOf(db[x].anc) = {ChainHead(db[x].anc)} \union IdsOf(db[ChainHead(db[x].anc)].anc)
    <3> DEFINE c == db[x].anc
               h == ChainHead(c)
    <3>1. ChainFine(c) /\ AgreesWith(c, db, {})
      BY <2>1, <2>3, RowChains DEF Agree
    <3>2. PICK e \in c : \A f \in c : e.depth <= f.depth
      BY <2>3, <3>1, ShallowestExists
    <3>3. e.id = h
      BY <3>1, <3>2, HeadIsUnique DEF Heads
    <3>4. \A f \in c : f = e \/ e.depth < f.depth
      <4>1. \A f \in c : f.depth \in Nat /\ (f # e => f.depth # e.depth)
        BY <3>1, <3>2 DEF ChainFine, Chains, Entry
      <4>2. QED
        BY <3>2, <4>1
    <3>5. Below(c, e) = IdsOf(db[h].anc)
      BY <2>3, <3>1, <3>2, <3>3 DEF AgreesWith
    <3>6. IdsOf(c) = {e.id} \union Below(c, e)
      BY <3>2, <3>4 DEF Below, IdsOf
    <3>7. QED
      BY <3>3, <3>5, <3>6
  <2>4. QED
    BY <2>2, <2>3 DEF ChainsFollowParents, ParentHeadsChain, ChainsAgree, HasRow, Stored
<1>2. TreeInv /\ SerialInv /\ ChainInv /\ [Next]_vars => ChainInv'
  BY ChainNext
<1>3. QED
  BY <1>1, <1>2, ChainInit, SerialInvariant, PTL DEF Spec
=============================================================================

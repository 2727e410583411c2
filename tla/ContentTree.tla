----------------------------- MODULE ContentTree -----------------------------
(***************************************************************************)
(* Questions and answers as a tree: who descends from whom, kept in three  *)
(* places at once.  Each content stores its parent and its whole chain of  *)
(* ancestors; a question also lists its answers; the search index holds a  *)
(* projection of every content.  QuestionManager and AnswerManager create, *)
(* update and delete contents, and repair the other places by hand.        *)
(*                                                                         *)
(* A request is an async handler that yields at every await, so each       *)
(* database or Elasticsearch call is a step, and a request that fails      *)
(* stops where it is: nothing is rolled back.                              *)
(***************************************************************************)
EXTENDS Naturals, FiniteSets

CONSTANTS
    Questions, Answers,     \* ids; an id is given to one content and never again
    Workers,                \* slots for requests in progress; one slot: no overlap
    Backends,               \* databases DATABASE_TYPE may select
    None,                   \* no parent, no content
    NoRow,                  \* nothing is stored under an id
    MaxFailures             \* bound on the failures of a behaviour

Ids == Questions \union Answers

ASSUME BackendAssumption == Backends \subseteq {"mongo", "postgres"}
ASSUME IdAssumption == Questions \intersect Answers = {} /\ None \notin Ids
ASSUME MaxFailuresAssumption == MaxFailures \in Nat

(***************************************************************************)
(* A chain of ancestors is an array of entries in order of depth, the      *)
(* parent first.  ChainsWellFormed (below) says that depths are distinct,  *)
(* so the set of entries is the array.                                     *)
(***************************************************************************)
Entry == [id : Ids, depth : Nat]
Chains == SUBSET Entry
Contents == [parent : Ids \union {None}, anc : Chains,
             answers : SUBSET Answers, question : Questions \union {None}]
Docs == [parent : Ids \union {None}, ancestors : SUBSET Ids,
         root : Ids \union {None}, answers : SUBSET Answers]

ASSUME NoRowAssumption == NoRow \notin Contents /\ NoRow \notin Docs

VARIABLES
    backend,        \* the database this deployment runs on
    db,             \* db[x]: the row or document of x, or NoRow
    index,          \* index[x]: the search document of x, or NoRow
    age,            \* age[x]: rank of the moment x got its id; 0: not yet
    clock,          \* ids given so far
    req,            \* req[w]: the request slot w is serving
    overlapped,     \* two requests were ever in progress together
    failures        \* requests that stopped half way, index updates lost

vars == <<backend, db, index, age, clock, req, overlapped, failures>>

Ops == {"none", "createQuestion", "createAnswer", "update", "deleteAnswer", "deleteQuestion"}
Pcs == {"idle", "parent", "parentQuestion", "save", "insert", "index", "reread", "sync",
        "remove", "unindex", "readList", "writeList",
        "listAnswers", "unindexAnswers", "strip", "scanAnswers"}
Requests ==
    [op : Ops, pc : Pcs,
     id : Ids \union {None},            \* the content created or deleted
     target : Questions \union {None},  \* the question an answer belongs to
     parent : Ids \union {None}, via : Questions \union {None}, anc : Chains,
     cur : Ids \union {None}, doc : Docs,
     list : SUBSET Answers,
     todo : SUBSET Ids, snap : [Ids -> Chains], phase : {"children", "all"}]

NoDoc == [parent |-> None, ancestors |-> {}, root |-> None, answers |-> {}]
Idle == [op |-> "none", pc |-> "idle", id |-> None, target |-> None, parent |-> None,
         via |-> None, anc |-> {}, cur |-> None, doc |-> NoDoc, list |-> {},
         todo |-> {}, snap |-> [x \in Ids |-> {}], phase |-> "children"]

-----------------------------------------------------------------------------
(***************************************************************************)
(* Chains.                                                                 *)
(***************************************************************************)
IdsOf(anc) == {e.id : e \in anc}
\* Mutants: depths of the parent's chain kept, or shifted the wrong way.
MutantUnshifted(anc) == anc
MutantShiftedUp(anc) == {[id |-> e.id, depth |-> e.depth - 1] : e \in anc}
Shift(anc) == {[id |-> e.id, depth |-> e.depth + 1] : e \in anc}

\* Mutants: the chain listed from the root; the chain cut after the parent.
MutantRootFirst(x, anc) == anc \union {[id |-> x, depth |-> Cardinality(anc)]}
MutantParentOnly(x, anc) == {[id |-> x, depth |-> 0]}
ComputeAncestors(x, anc) == {[id |-> x, depth |-> 0]} \union Shift(anc)

\* Under an answer a: the chain of a's question, or that question when it has none.
ComputeAncestorsForAnswer(a, q, anc) ==
    {[id |-> a, depth |-> 0]}
        \union (IF anc = {} THEN {[id |-> q, depth |-> 1]} ELSE Shift(anc))

\* Mutant: the head of the chain removed, whoever it is.
MutantBeheaded(anc, x) == {e \in anc : e.depth # 0}
Without(anc, x) == {e \in anc : e.id # x}
Rank(e, anc) == Cardinality({f \in anc : f.depth < e.depth})
Reindexed(anc) == {[id |-> e.id, depth |-> Rank(e, anc)] : e \in anc}

RootOf(anc) ==
    IF anc = {} THEN None
    ELSE (CHOOSE e \in anc : \A f \in anc : f.depth <= e.depth).id

-----------------------------------------------------------------------------
(***************************************************************************)
(* The stores.                                                             *)
(***************************************************************************)
Stored(x) == db[x] # NoRow
AnswersOf(q) == {a \in Answers : Stored(a) /\ db[a].question = q}

\* The entity a read returns: PostgreSQL derives the list of answers.
Entity(x) == IF backend = "postgres" /\ x \in Questions
             THEN [db[x] EXCEPT !.answers = AnswersOf(x)] ELSE db[x]

Project(c) == [parent |-> c.parent, ancestors |-> IdsOf(c.anc),
               root |-> RootOf(c.anc), answers |-> c.answers]

\* 'update' sends the fields that are not undefined, to an existing document
Merge(old, doc) ==
    IF old = NoRow THEN NoRow
    ELSE [doc EXCEPT !.parent = IF @ = None THEN old.parent ELSE @,
                     !.root = IF @ = None THEN old.root ELSE @]

Failure == failures < MaxFailures /\ failures' = failures + 1

\* sync swallows errors: the new document lands, or the old one stays
Publish(x, doc) ==
    \/ index' = [index EXCEPT ![x] = doc] /\ failures' = failures
    \/ index' = index /\ Failure

-----------------------------------------------------------------------------
Active(w) == req[w].pc # "idle"
At(w, pc) == req[w].pc = pc

Init ==
    /\ backend \in Backends
    /\ db = [x \in Ids |-> NoRow]
    /\ index = [x \in Ids |-> NoRow]
    /\ age = [x \in Ids |-> 0]
    /\ clock = 0
    /\ req = [w \in Workers |-> Idle]
    /\ overlapped = FALSE
    /\ failures = 0

Store == <<backend, db, age, clock>>
Become(w, r) == req' = [req EXCEPT ![w] = r]
Finish(w) == Become(w, Idle)

Begin(w, r) ==
    /\ ~Active(w)
    /\ Become(w, r)
    /\ overlapped' = (overlapped \/ \E v \in Workers : Active(v))
    /\ UNCHANGED <<Store, index, failures>>

\* A step that only reads: it goes on with r, or throws when ok is false.
Reads(w, ok, r) ==
    /\ IF ok THEN Become(w, r) ELSE Finish(w)
    /\ UNCHANGED <<Store, index, overlapped, failures>>

\* A step that writes d to the database.
Writes(w, d, r) ==
    /\ db' = d
    /\ Become(w, r)
    /\ UNCHANGED <<backend, index, overlapped, failures>>

Fresh(x) == age[x] = 0 /\ \A v \in Workers : req[v].id # x
Dates(x) == age' = [age EXCEPT ![x] = clock + 1] /\ clock' = clock + 1

-----------------------------------------------------------------------------
(***************************************************************************)
(* createQuestion and createAnswer.                                        *)
(***************************************************************************)
StartCreateQuestion(w, q, p) ==
    /\ Fresh(q)
    /\ Begin(w, [Idle EXCEPT !.op = "createQuestion", !.id = q, !.parent = p,
                             !.pc = IF p = None THEN "save" ELSE "parent"])

\* Without an explicit parent the answer takes its question's parent, and a
\* chain that starts at the question.
StartCreateAnswer(w, a, q, p) ==
    /\ Fresh(a) /\ Stored(q)
    /\ LET r == [Idle EXCEPT !.op = "createAnswer", !.id = a, !.target = q] IN
       IF p # None THEN Begin(w, [r EXCEPT !.parent = p, !.pc = "parent"])
       ELSE Begin(w, [r EXCEPT !.parent = db[q].parent, !.pc = "save",
                               !.anc = IF db[q].parent = None THEN {}
                                       ELSE ComputeAncestors(q, db[q].anc)])

ReadParent(w) ==
    LET r == req[w] IN
    /\ At(w, "parent")
    /\ Reads(w, Stored(r.parent),
             IF r.parent \in Questions
             THEN [r EXCEPT !.anc = ComputeAncestors(r.parent, db[r.parent].anc), !.pc = "save"]
             ELSE [r EXCEPT !.via = db[r.parent].question, !.pc = "parentQuestion"])

ReadParentQuestion(w) ==
    LET r == req[w] IN
    /\ At(w, "parentQuestion")
    /\ Reads(w, Stored(r.via),
             [r EXCEPT !.anc = ComputeAncestorsForAnswer(r.parent, r.via, db[r.via].anc),
                       !.pc = "save"])

\* Mutant: the new content put at the end of its own chain.
MutantOwnAncestor(r) ==
    [parent |-> r.parent, answers |-> {}, question |-> r.target,
     anc |-> r.anc \union {[id |-> r.id, depth |-> Cardinality(r.anc)]}]
Made(r) == [parent |-> r.parent, anc |-> r.anc, answers |-> {}, question |-> r.target]

\* create reads the new row back; nobody else knows its id yet
InsertQuestion(w) ==
    LET r == req[w] IN
    /\ At(w, "save") /\ r.op = "createQuestion"
    /\ Writes(w, [db EXCEPT ![r.id] = Made(r)],
              [r EXCEPT !.doc = Project(Made(r)), !.pc = "index"])
    /\ Dates(r.id)

\* Mutant: the hook does not list the answer.
MutantUnlisted(w) ==
    LET r == req[w] IN
    /\ At(w, "save") /\ r.op = "createAnswer" /\ backend = "mongo"
    /\ Writes(w, db, [r EXCEPT !.pc = "insert"])
    /\ Dates(r.id)

\* Mongo: the pre('save') hook lists the answer before it is inserted
HookAnswer(w) ==
    LET r == req[w] IN
    /\ At(w, "save") /\ r.op = "createAnswer" /\ backend = "mongo"
    /\ Writes(w, IF Stored(r.target)
                 THEN [db EXCEPT ![r.target].answers = @ \union {r.id}] ELSE db,
              [r EXCEPT !.pc = "insert"])
    /\ Dates(r.id)

MongoInsertAnswer(w) ==
    LET r == req[w] IN
    /\ At(w, "insert")
    /\ Writes(w, [db EXCEPT ![r.id] = Made(r)],
              [r EXCEPT !.doc = Project(Made(r)), !.pc = "index"])
    /\ UNCHANGED <<age, clock>>

\* PostgreSQL: the foreign key to the question must hold
PostgresInsertAnswer(w) ==
    LET r == req[w] IN
    /\ At(w, "save") /\ r.op = "createAnswer" /\ backend = "postgres"
    /\ IF Stored(r.target)
       THEN /\ Writes(w, [db EXCEPT ![r.id] = Made(r)],
                      [r EXCEPT !.doc = Project(Made(r)), !.pc = "index"])
            /\ Dates(r.id)
       ELSE Reads(w, FALSE, Idle)

\* 'index' replaces the document; createAnswer then re-indexes its question
IndexNew(w) ==
    LET r == req[w] IN
    /\ At(w, "index")
    /\ Publish(r.id, r.doc)
    /\ IF r.op = "createQuestion" THEN Finish(w)
       ELSE Become(w, [r EXCEPT !.cur = r.target, !.pc = "reread"])
    /\ UNCHANGED <<Store, overlapped>>

-----------------------------------------------------------------------------
(***************************************************************************)
(* updateQuestion and updateAnswer: fields outside the tree change, and    *)
(* the whole entity is read again and projected.  Every handler that       *)
(* updates one content ends in these two steps.                            *)
(***************************************************************************)
StartUpdate(w, x) ==
    /\ Stored(x)
    /\ Begin(w, [Idle EXCEPT !.op = "update", !.cur = x, !.pc = "reread"])

Reread(w) ==
    LET r == req[w] IN
    /\ At(w, "reread")
    /\ Reads(w, Stored(r.cur), [r EXCEPT !.doc = Project(Entity(r.cur)), !.pc = "sync"])

SyncDoc(w) ==
    LET r == req[w] IN
    /\ At(w, "sync")
    /\ Publish(r.cur, IF r.op = "createAnswer" THEN r.doc ELSE Merge(index[r.cur], r.doc))
    /\ IF r.op = "deleteQuestion"
       THEN Become(w, [r EXCEPT !.cur = None, !.doc = NoDoc, !.pc = "strip"])
       ELSE Finish(w)
    /\ UNCHANGED <<Store, overlapped>>

-----------------------------------------------------------------------------
(***************************************************************************)
(* deleteAnswer: the row goes first, then its question's list is rewritten *)
(* from a copy read before.                                                *)
(***************************************************************************)
StartDeleteAnswer(w, a) ==
    /\ Stored(a)
    /\ Begin(w, [Idle EXCEPT !.op = "deleteAnswer", !.id = a, !.target = db[a].question,
                             !.pc = "remove"])

RemoveAnswer(w) ==
    LET r == req[w] IN
    /\ At(w, "remove") /\ r.op = "deleteAnswer"
    /\ IF Stored(r.id)
       THEN Writes(w, [db EXCEPT ![r.id] = NoRow], [r EXCEPT !.pc = "unindex"])
            /\ UNCHANGED <<age, clock>>
       ELSE Reads(w, FALSE, Idle)

Unindex(w) ==
    LET r == req[w] IN
    /\ At(w, "unindex")
    /\ Publish(r.id, NoRow)
    /\ IF r.op = "deleteAnswer" THEN Become(w, [r EXCEPT !.pc = "readList"]) ELSE Finish(w)
    /\ UNCHANGED <<Store, overlapped>>

\* Mutant: the deleted answer stays in the list written back.
MutantKeepsListed(w) ==
    LET r == req[w] IN
    /\ At(w, "readList")
    /\ Reads(w, Stored(r.target),
             [r EXCEPT !.list = Entity(r.target).answers, !.pc = "writeList"])

ReadList(w) ==
    LET r == req[w] IN
    /\ At(w, "readList")
    /\ Reads(w, Stored(r.target),
             [r EXCEPT !.list = Entity(r.target).answers \ {r.id}, !.pc = "writeList"])

\* PostgreSQL ignores the list: there it is derived from the answers
WriteList(w) ==
    LET r == req[w] IN
    /\ At(w, "writeList")
    /\ IF Stored(r.target)
       THEN Writes(w, IF backend = "mongo" THEN [db EXCEPT ![r.target].answers = r.list] ELSE db,
                   [r EXCEPT !.cur = r.target, !.list = {}, !.pc = "reread"])
            /\ UNCHANGED <<age, clock>>
       ELSE Reads(w, FALSE, Idle)

-----------------------------------------------------------------------------
(***************************************************************************)
(* deleteQuestion: unindex the answers; rewrite the chains of the child    *)
(* questions; then of every question and answer that still names the       *)
(* question; delete the row, its answers with it; unindex it.              *)
(***************************************************************************)
StartDeleteQuestion(w, q) ==
    /\ Stored(q)
    /\ Begin(w, [Idle EXCEPT !.op = "deleteQuestion", !.id = q, !.pc = "listAnswers"])

\* Mutant: the answers of the question stay in the index.
MutantAnswersStayIndexed(w) ==
    /\ At(w, "listAnswers")
    /\ Reads(w, TRUE, [req[w] EXCEPT !.pc = "unindexAnswers"])

ListAnswers(w) ==
    /\ At(w, "listAnswers")
    /\ Reads(w, TRUE, [req[w] EXCEPT !.todo = AnswersOf(req[w].id), !.pc = "unindexAnswers"])

UnindexAnswer(w) ==
    /\ At(w, "unindexAnswers")
    /\ \E a \in req[w].todo :
        /\ Publish(a, NoRow)
        /\ Become(w, [req[w] EXCEPT !.todo = @ \ {a}])
    /\ UNCHANGED <<Store, overlapped>>

\* What a scan of the contents in X remembers: the chains, and whom to rewrite.
Scan(r, X) == [r EXCEPT !.todo = @ \union X,
                        !.snap = [x \in Ids |-> IF x \in X THEN db[x].anc ELSE @[x]]]
Naming(q, X) == {x \in X : Stored(x) /\ q \in IdsOf(db[x].anc)}

ListChildren(w) ==
    LET r == req[w] IN
    /\ At(w, "unindexAnswers") /\ r.todo = {}
    /\ Reads(w, TRUE, [Scan(r, {x \in Questions : Stored(x) /\ db[x].parent = r.id})
                          EXCEPT !.pc = "strip"])

\* The children's loop filters the chain; the second loop also renumbers it.
\* parent: undefined is not written by either data source.
Stripped(r, x) == IF r.phase = "children" THEN Without(r.snap[x], r.id)
                  ELSE Reindexed(Without(r.snap[x], r.id))

Strip(w) ==
    LET r == req[w] IN
    /\ At(w, "strip")
    /\ \E x \in r.todo :
        /\ x \in Answers => r.todo \subseteq Answers        \* questions first
        /\ IF Stored(x)
           THEN Writes(w, [db EXCEPT ![x].anc = Stripped(r, x)],
                       [r EXCEPT !.todo = @ \ {x}, !.snap[x] = {}, !.cur = x, !.pc = "reread"])
                /\ UNCHANGED <<age, clock>>
           ELSE Reads(w, FALSE, Idle)                       \* updateById throws

ScanQuestions(w) ==
    LET r == req[w] IN
    /\ At(w, "strip") /\ r.todo = {} /\ r.phase = "children"
    /\ Reads(w, TRUE, [Scan(r, Naming(r.id, Questions)) EXCEPT !.pc = "scanAnswers"])

ScanAnswers(w) ==
    LET r == req[w] IN
    /\ At(w, "scanAnswers")
    /\ Reads(w, TRUE, [Scan(r, Naming(r.id, Answers)) EXCEPT !.pc = "strip", !.phase = "all"])

Drop(X) == [x \in Ids |-> IF x \in X THEN NoRow ELSE db[x]]

\* Mutant: the answers are left to the pre('deleteOne') hook, which does not run here.
MutantNoCascade(w) ==
    LET r == req[w] IN
    /\ At(w, "strip") /\ r.todo = {} /\ r.phase = "all"
    /\ Reads(w, TRUE, [r EXCEPT !.pc = "remove"])

\* Mongo: the pre('findOneAndDelete') hook deletes the answers; PostgreSQL's
\* deleteById reads the row first
PrepareDelete(w) ==
    LET r == req[w] IN
    /\ At(w, "strip") /\ r.todo = {} /\ r.phase = "all"
    /\ Writes(w, IF backend = "mongo" THEN Drop(AnswersOf(r.id)) ELSE db,
              [r EXCEPT !.pc = "remove"])
    /\ UNCHANGED <<age, clock>>

\* PostgreSQL: ON DELETE CASCADE takes the answers along
RemoveQuestion(w) ==
    LET r == req[w] IN
    /\ At(w, "remove") /\ r.op = "deleteQuestion"
    /\ IF Stored(r.id)
       THEN Writes(w, Drop({r.id} \union IF backend = "postgres" THEN AnswersOf(r.id) ELSE {}),
                   [r EXCEPT !.pc = "unindex"])
            /\ UNCHANGED <<age, clock>>
       ELSE Reads(w, FALSE, Idle)

-----------------------------------------------------------------------------
\* A call throws, or the process dies: the request stops where it is.
Fail(w) ==
    /\ Active(w)
    /\ Finish(w)
    /\ Failure
    /\ UNCHANGED <<Store, index, overlapped>>

Start(w) ==
    \/ \E q \in Questions, p \in Ids \union {None} : StartCreateQuestion(w, q, p)
    \/ \E a \in Answers, q \in Questions, p \in Ids \union {None} : StartCreateAnswer(w, a, q, p)
    \/ \E x \in Ids : StartUpdate(w, x)
    \/ \E a \in Answers : StartDeleteAnswer(w, a)
    \/ \E q \in Questions : StartDeleteQuestion(w, q)

Step(w) ==
    \/ ReadParent(w) \/ ReadParentQuestion(w) \/ InsertQuestion(w)
    \/ HookAnswer(w) \/ MongoInsertAnswer(w) \/ PostgresInsertAnswer(w) \/ IndexNew(w)
    \/ Reread(w) \/ SyncDoc(w)
    \/ RemoveAnswer(w) \/ Unindex(w) \/ ReadList(w) \/ WriteList(w)
    \/ ListAnswers(w) \/ UnindexAnswer(w) \/ ListChildren(w) \/ Strip(w)
    \/ ScanQuestions(w) \/ ScanAnswers(w) \/ PrepareDelete(w) \/ RemoveQuestion(w)
    \/ Fail(w)

Next == \E w \in Workers : Start(w) \/ Step(w)

Spec == Init /\ [][Next]_vars
-----------------------------------------------------------------------------
TypeOK ==
    /\ backend \in Backends
    /\ db \in [Ids -> Contents \union {NoRow}]
    /\ index \in [Ids -> Docs \union {NoRow}]
    /\ age \in [Ids -> Nat] /\ clock \in Nat
    /\ req \in [Workers -> Requests]
    /\ overlapped \in BOOLEAN /\ failures \in 0..MaxFailures

Quiet == \A w \in Workers : ~Active(w)
Undisturbed == ~overlapped /\ failures = 0
Steady == Undisturbed /\ Quiet

(***************************************************************************)
(* No chain names a content twice or gives two entries one depth, whatever *)
(* copies of chains concurrent deletions write back.                       *)
(***************************************************************************)
ChainsWellFormed ==
    \A x \in Ids : Stored(x) =>
        \A e, f \in db[x].anc : e # f => e.id # f.id /\ e.depth # f.depth

(***************************************************************************)
(* createQuestion skips its cycle check.  None is needed: parent and       *)
(* ancestors always got their ids before the content did, under every      *)
(* interleaving and failure, so nobody descends from himself.              *)
(***************************************************************************)
AncestorsAreOlder ==
    \A x \in Ids : Stored(x) =>
        \A y \in IdsOf(db[x].anc) \union ({db[x].parent} \ {None}) :
            0 < age[y] /\ age[y] < age[x]

(***************************************************************************)
(* An answer never outlives its question: by the foreign key in            *)
(* PostgreSQL, by the order of hook and deletion in Mongo (where it needs  *)
(* requests that do not overlap).                                          *)
(***************************************************************************)
AnswersHaveQuestion ==
    (backend = "postgres" \/ ~overlapped) =>
        \A a \in Answers : Stored(a) => Stored(db[a].question)

(***************************************************************************)
(* The repair loops of deleteQuestion leave no chain naming the question,  *)
(* even when earlier deletions stopped half way and were tried again.      *)
(***************************************************************************)
NoDeletedQuestionInAncestors ==
    ~overlapped =>
        \A x \in Ids : Stored(x) =>
            \A y \in IdsOf(db[x].anc) \intersect Questions : Stored(y)

(***************************************************************************)
(* What a walk along a chain relies on, under every interleaving and       *)
(* failure: it meets nobody twice, in one order, and comes to an end; and  *)
(* that it meets no deleted question, as long as requests do not overlap.  *)
(***************************************************************************)
ChainsAreSound == ChainsWellFormed /\ AncestorsAreOlder /\ NoDeletedQuestionInAncestors

ChainHead(anc) == (CHOOSE e \in anc : \A f \in anc : e.depth <= f.depth).id

(***************************************************************************)
(* A question whose parent still exists has that parent at the head of its *)
(* chain, however many deletions have rewritten the chain.                 *)
(***************************************************************************)
ParentHeadsChain ==
    Steady => \A q \in Questions :
        Stored(q) /\ db[q].parent # None =>
            (Stored(db[q].parent) => db[q].anc # {} /\ ChainHead(db[q].anc) = db[q].parent)

(***************************************************************************)
(* Chains agree: below a question that exists, a chain goes on as that     *)
(* question's own chain does.                                              *)
(***************************************************************************)
ChainsAgree ==
    Steady => \A x \in Ids :
        Stored(x) /\ db[x].anc # {} =>
            LET h == ChainHead(db[x].anc) IN
            h \in Questions /\ Stored(h) => IdsOf(db[x].anc) = {h} \union IdsOf(db[h].anc)

(***************************************************************************)
(* Chains follow the parents: both of the above.                           *)
(***************************************************************************)
ChainsFollowParents == ParentHeadsChain /\ ChainsAgree

(***************************************************************************)
(* A question lists every answer it has, even after failures (the hook     *)
(* lists before the insert, the deletion unlists after the delete); when   *)
(* nothing failed it lists no other.                                       *)
(***************************************************************************)
ListsItsAnswers ==
    \A q \in Questions : Stored(q) =>
        /\ ~overlapped => AnswersOf(q) \subseteq Entity(q).answers
        /\ Steady => Entity(q).answers = AnswersOf(q)

(***************************************************************************)
(* Answers stay linked, in both directions: AnswersHaveQuestion and        *)
(* ListsItsAnswers.                                                        *)
(***************************************************************************)
AnswersStayLinked == AnswersHaveQuestion /\ ListsItsAnswers

(***************************************************************************)
(* The search index holds exactly the contents of the database, each under *)
(* its parent, ancestors and answers.                                      *)
(***************************************************************************)
IndexMirrorsDatabase ==
    Steady => \A x \in Ids :
        IF Stored(x)
        THEN /\ index[x] # NoRow
             /\ index[x].parent = db[x].parent
             /\ index[x].ancestors = IdsOf(db[x].anc)
             /\ index[x].answers = Entity(x).answers
        ELSE index[x] = NoRow

(***************************************************************************)
(* QuestionManager.ts: "Parent'i null yap ve ancestors'lari guncelle" (set *)
(* the parent to null and update the ancestors) of the child questions.    *)
(***************************************************************************)
ParentClearedOnDelete ==
    Steady => \A q \in Questions :
        Stored(q) /\ db[q].parent \in Questions => Stored(db[q].parent)

(***************************************************************************)
(* QuestionManager.ts: "Depth'leri yeniden hesapla" (recompute the depths) *)
(* of everything that named the question: depths count up from the parent. *)
(***************************************************************************)
DepthsRecomputed ==
    Steady => \A x \in Ids : Stored(x) => db[x].anc = Reindexed(db[x].anc)
=============================================================================

-------------------------- MODULE ContentTreeProofs --------------------------
(***************************************************************************)
(* Theorems about the content tree, for any contents, any number of        *)
(* overlapping requests and any number of failures.                        *)
(*                                                                         *)
(* First the chains by themselves: what building, filtering and            *)
(* renumbering one preserves.  Then an invariant that holds under every    *)
(* interleaving (TreeInv): each chain, stored or remembered by a request,  *)
(* is well formed and names older contents only.  Then one for requests    *)
(* that do not overlap (SerialInv): what the one request in progress knows *)
(* still holds when it uses it.                                            *)
(***************************************************************************)
EXTENDS ContentTree, FiniteSetTheorems, WellFoundedInduction, TLAPS

-----------------------------------------------------------------------------
(***************************************************************************)
(* Chains: well formed, and of bounded depth.                              *)
(***************************************************************************)
Bounded(anc) == \E n \in Nat : \A e \in anc : e.depth <= n
ChainFine(anc) ==
    /\ anc \in Chains
    /\ Bounded(anc)
    /\ \A e, f \in anc : e # f => e.id # f.id /\ e.depth # f.depth

\* No two entries have one depth, so a bound on the depths is one on the entries.
LEMMA ChainIsFinite == ASSUME NEW anc, ChainFine(anc) PROVE IsFiniteSet(anc)
<1>1. PICK n \in Nat : \A e \in anc : e.depth <= n
  BY DEF ChainFine, Bounded
<1> DEFINE d == [e \in anc |-> e.depth]
<1>2. d \in [anc -> 0..n]
  BY <1>1 DEF ChainFine, Chains, Entry
<1>3. d \in Injection(anc, 0..n)
  BY <1>2 DEF Injection, IsInjective, ChainFine
<1>4. IsFiniteSet(0..n)
  BY FS_Interval
<1>5. QED
  BY <1>3, <1>4, FS_Injection

\* A chain that is not empty has a deepest entry: the least bound is a depth.
LEMMA DeepestExists ==
    ASSUME NEW anc, ChainFine(anc), anc # {}
    PROVE  \E e \in anc : \A f \in anc : f.depth <= e.depth
<1> DEFINE B == {n \in Nat : \A e \in anc : e.depth <= n}
           R == OpToRel(<, Nat)
<1>1. B # {} /\ B \subseteq Nat
  BY DEF ChainFine, Bounded
<1>2. PICK n \in B : \A m \in B : ~(<<m, n>> \in R)
  <2>1. IsWellFoundedOn(R, Nat)
    BY NatLessThanWellFounded
  <2> HIDE DEF B, R
  <2>2. QED
    BY <1>1, <2>1, WFMin
<1>3. \A m \in B : ~(m < n)
  BY <1>1, <1>2 DEF OpToRel
<1>4. \A e \in anc : e.depth \in Nat /\ e.depth <= n
  BY DEF ChainFine, Chains, Entry
<1>5. \E e \in anc : e.depth = n
  <2> SUFFICES ASSUME \A e \in anc : e.depth # n PROVE FALSE
    OBVIOUS
  <2>1. \A e \in anc : e.depth < n
    BY <1>4
  <2>2. n # 0
    BY <1>4, <2>1
  <2>3. n - 1 \in B
    BY <1>4, <2>1, <2>2
  <2>4. QED
    BY <1>3, <2>3
<1>6. QED
  BY <1>4, <1>5

LEMMA RootIsAnId == ASSUME NEW anc, ChainFine(anc) PROVE RootOf(anc) \in Ids \union {None}
<1>1. CASE anc = {}
  BY <1>1 DEF RootOf
<1>2. CASE anc # {}
  <2> DEFINE e == CHOOSE e \in anc : \A f \in anc : f.depth <= e.depth
  <2>1. e \in anc
    BY <1>2, DeepestExists
  <2>2. RootOf(anc) = e.id
    BY <1>2 DEF RootOf
  <2> HIDE DEF e
  <2>3. QED
    BY <2>1, <2>2 DEF ChainFine, Chains, Entry
<1>3. QED
  BY <1>1, <1>2

LEMMA EmptyChainFine == ChainFine({}) /\ IdsOf({}) = {}
BY DEF ChainFine, Bounded, Chains, IdsOf

LEMMA SubchainFine ==
    ASSUME NEW anc, ChainFine(anc), NEW part \in SUBSET anc
    PROVE  ChainFine(part) /\ IdsOf(part) \subseteq IdsOf(anc)
BY DEF ChainFine, Bounded, Chains, IdsOf

LEMMA IdsAreIds == ASSUME NEW anc, ChainFine(anc) PROVE IdsOf(anc) \subseteq Ids
BY DEF ChainFine, Chains, Entry, IdsOf

(***************************************************************************)
(* The operators of the managers keep chains fine, and put exactly the ids *)
(* they should in them.                                                    *)
(***************************************************************************)
LEMMA ShiftFine ==
    ASSUME NEW anc, ChainFine(anc)
    PROVE  /\ ChainFine(Shift(anc)) /\ IdsOf(Shift(anc)) = IdsOf(anc)
           /\ \A e \in Shift(anc) : e.depth > 0
<1>1. \A e \in anc : e.id \in Ids /\ e.depth \in Nat
  BY DEF ChainFine, Chains, Entry
<1>2. Shift(anc) \in Chains /\ \A e \in Shift(anc) : e.depth > 0
  BY <1>1 DEF Shift, Chains, Entry
<1>3. PICK n \in Nat : \A e \in anc : e.depth <= n
  BY DEF ChainFine, Bounded
<1>4. n + 1 \in Nat /\ \A e \in Shift(anc) : e.depth <= n + 1
  BY <1>1, <1>3 DEF Shift
<1>5. ASSUME NEW g \in Shift(anc), NEW h \in Shift(anc), g # h
      PROVE  g.id # h.id /\ g.depth # h.depth
  <2>1. PICK e \in anc : g = [id |-> e.id, depth |-> e.depth + 1]
    BY DEF Shift
  <2>2. PICK f \in anc : h = [id |-> f.id, depth |-> f.depth + 1]
    BY DEF Shift
  <2>3. e # f
    BY <1>5, <2>1, <2>2
  <2>4. e.id # f.id /\ e.depth # f.depth
    BY <2>3 DEF ChainFine
  <2>5. QED
    BY <1>1, <2>1, <2>2, <2>4
<1>6. IdsOf(Shift(anc)) = IdsOf(anc)
  <2>1. \A g \in Shift(anc) : \E e \in anc : g.id = e.id
    BY DEF Shift
  <2>2. \A e \in anc : \E g \in Shift(anc) : g.id = e.id
    <3> TAKE e \in anc
    <3>1. [id |-> e.id, depth |-> e.depth + 1] \in Shift(anc)
      BY DEF Shift
    <3>2. QED
      BY <3>1
  <2>3. QED
    BY <2>1, <2>2 DEF IdsOf
<1>7. QED
  BY <1>2, <1>4, <1>5, <1>6 DEF ChainFine, Bounded

\* An entry of depth 0 before a chain whose depths are positive.
LEMMA HeadFine ==
    ASSUME NEW x \in Ids, NEW anc, ChainFine(anc), x \notin IdsOf(anc),
           \A e \in anc : e.depth > 0
    PROVE  /\ ChainFine({[id |-> x, depth |-> 0]} \union anc)
           /\ IdsOf({[id |-> x, depth |-> 0]} \union anc) = {x} \union IdsOf(anc)
<1> DEFINE h == [id |-> x, depth |-> 0]
<1>1. h \in Entry /\ h.id = x /\ h.depth = 0
  BY DEF Entry
<1> HIDE DEF h
<1>2. \A e \in anc : e.id # x /\ e.depth # 0 /\ e.depth \in Nat
  BY DEF IdsOf, ChainFine, Chains, Entry
<1>3. {h} \union anc \in Chains
  BY <1>1 DEF ChainFine, Chains
<1>4. Bounded({h} \union anc)
  BY <1>1 DEF ChainFine, Bounded
<1>5. \A e, f \in {h} \union anc : e # f => e.id # f.id /\ e.depth # f.depth
  BY <1>1, <1>2 DEF ChainFine
<1>6. IdsOf({h} \union anc) = {x} \union IdsOf(anc)
  BY <1>1 DEF IdsOf
<1>7. QED
  BY <1>3, <1>4, <1>5, <1>6 DEF ChainFine, h

LEMMA ComputedFine ==
    ASSUME NEW x \in Ids, NEW anc, ChainFine(anc), x \notin IdsOf(anc)
    PROVE  /\ ChainFine(ComputeAncestors(x, anc))
           /\ IdsOf(ComputeAncestors(x, anc)) = {x} \union IdsOf(anc)
BY ShiftFine, HeadFine DEF ComputeAncestors

LEMMA ComputedForAnswerFine ==
    ASSUME NEW a \in Answers, NEW q \in Questions, NEW anc, ChainFine(anc), a \notin IdsOf(anc)
    PROVE  /\ ChainFine(ComputeAncestorsForAnswer(a, q, anc))
           /\ IdsOf(ComputeAncestorsForAnswer(a, q, anc)) \subseteq {a, q} \union IdsOf(anc)
<1>0. a \in Ids /\ q \in Ids /\ a # q
  BY IdAssumption DEF Ids
<1>1. CASE anc = {}
  <2> DEFINE e == [id |-> q, depth |-> 1]
  <2>1. e \in Entry /\ e.id = q /\ e.depth = 1
    BY <1>0 DEF Entry
  <2>2. ComputeAncestorsForAnswer(a, q, anc) = {[id |-> a, depth |-> 0]} \union {e}
    BY <1>1 DEF ComputeAncestorsForAnswer
  <2> HIDE DEF e
  <2>3. ChainFine({e}) /\ IdsOf({e}) = {q}
    BY <2>1 DEF ChainFine, Chains, Bounded, IdsOf
  <2>4. a \notin IdsOf({e}) /\ \A f \in {e} : f.depth > 0
    BY <1>0, <2>1, <2>3
  <2>5. /\ ChainFine({[id |-> a, depth |-> 0]} \union {e})
        /\ IdsOf({[id |-> a, depth |-> 0]} \union {e}) = {a} \union IdsOf({e})
    <3> DEFINE one == {e}
    <3>1. ChainFine(one) /\ a \notin IdsOf(one) /\ \A f \in one : f.depth > 0
      BY <2>3, <2>4
    <3> HIDE DEF one
    <3>2. /\ ChainFine({[id |-> a, depth |-> 0]} \union one)
          /\ IdsOf({[id |-> a, depth |-> 0]} \union one) = {a} \union IdsOf(one)
      BY <1>0, <3>1, HeadFine
    <3>3. QED
      BY <3>2 DEF one
  <2>6. QED
    BY <2>2, <2>3, <2>5
<1>2. CASE anc # {}
  <2>1. ComputeAncestorsForAnswer(a, q, anc) = {[id |-> a, depth |-> 0]} \union Shift(anc)
    BY <1>2 DEF ComputeAncestorsForAnswer
  <2>2. QED
    BY <1>0, <2>1, ShiftFine, HeadFine
<1>3. QED
  BY <1>1, <1>2

LEMMA WithoutFine ==
    ASSUME NEW anc, ChainFine(anc), NEW x
    PROVE  ChainFine(Without(anc, x)) /\ IdsOf(Without(anc, x)) = IdsOf(anc) \ {x}
<1>1. Without(anc, x) \subseteq anc
  BY DEF Without
<1>2. ChainFine(Without(anc, x))
  BY <1>1, SubchainFine
<1>3. QED
  BY <1>2 DEF Without, IdsOf

\* Of two entries the deeper one has more entries above it.
LEMMA RankIncreases ==
    ASSUME NEW anc, ChainFine(anc), NEW e \in anc, NEW f \in anc, e.depth < f.depth
    PROVE  Rank(e, anc) \in Nat /\ Rank(f, anc) \in Nat /\ Rank(e, anc) < Rank(f, anc)
<1> DEFINE E == {g \in anc : g.depth < e.depth}
           F == {g \in anc : g.depth < f.depth}
<1>0. \A g \in anc : g.depth \in Nat
  BY DEF ChainFine, Chains, Entry
<1>1. E \subseteq F /\ e \in F /\ e \notin E
  BY <1>0
<1>2. IsFiniteSet(F) /\ IsFiniteSet(E)
  BY ChainIsFinite, FS_Subset
<1>3. Cardinality(E) <= Cardinality(F) /\ (Cardinality(E) = Cardinality(F) => E = F)
  BY <1>1, <1>2, FS_Subset
<1>4. Cardinality(E) \in Nat /\ Cardinality(F) \in Nat
  BY <1>2, FS_CardinalityType
<1>5. Rank(e, anc) = Cardinality(E) /\ Rank(f, anc) = Cardinality(F)
  BY DEF Rank
<1> HIDE DEF E, F
<1>6. QED
  BY <1>1, <1>3, <1>4, <1>5

LEMMA ReindexedFine ==
    ASSUME NEW anc, ChainFine(anc)
    PROVE  ChainFine(Reindexed(anc)) /\ IdsOf(Reindexed(anc)) = IdsOf(anc)
<1>0. \A e \in anc : e.id \in Ids /\ e.depth \in Nat
  BY DEF ChainFine, Chains, Entry
<1>1. \A e \in anc : Rank(e, anc) \in Nat /\ Rank(e, anc) <= Cardinality(anc)
  <2> TAKE e \in anc
  <2> DEFINE E == {g \in anc : g.depth < e.depth}
  <2>1. IsFiniteSet(anc) /\ E \in SUBSET anc
    BY ChainIsFinite
  <2>2. IsFiniteSet(E) /\ Cardinality(E) <= Cardinality(anc)
    BY <2>1, FS_Subset
  <2>3. Cardinality(E) \in Nat
    BY <2>2, FS_CardinalityType
  <2>4. QED
    BY <2>2, <2>3 DEF Rank
<1>2. Cardinality(anc) \in Nat
  BY ChainIsFinite, FS_CardinalityType
<1>3. Reindexed(anc) \in Chains
  BY <1>0, <1>1 DEF Reindexed, Chains, Entry
<1>4. Bounded(Reindexed(anc))
  <2>1. \A g \in Reindexed(anc) : g.depth <= Cardinality(anc)
    BY <1>1 DEF Reindexed
  <2>2. QED
    BY <1>2, <2>1 DEF Bounded
<1>5. ASSUME NEW g \in Reindexed(anc), NEW h \in Reindexed(anc), g # h
      PROVE  g.id # h.id /\ g.depth # h.depth
  <2>1. PICK e \in anc : g = [id |-> e.id, depth |-> Rank(e, anc)]
    BY DEF Reindexed
  <2>2. PICK f \in anc : h = [id |-> f.id, depth |-> Rank(f, anc)]
    BY DEF Reindexed
  <2>3. e # f
    BY <1>5, <2>1, <2>2
  <2>4. e.id # f.id /\ e.depth # f.depth
    BY <2>3 DEF ChainFine
  <2>5. e.depth < f.depth \/ f.depth < e.depth
    BY <1>0, <2>4
  <2>6. Rank(e, anc) # Rank(f, anc)
    <3>1. CASE e.depth < f.depth
      BY <3>1, RankIncreases
    <3>2. CASE f.depth < e.depth
      BY <3>2, RankIncreases
    <3>3. QED
      BY <2>5, <3>1, <3>2
  <2>7. QED
    BY <2>1, <2>2, <2>4, <2>6
<1>6. IdsOf(Reindexed(anc)) = IdsOf(anc)
  <2>1. \A g \in Reindexed(anc) : \E e \in anc : g.id = e.id
    BY DEF Reindexed
  <2>2. \A e \in anc : \E g \in Reindexed(anc) : g.id = e.id
    <3> TAKE e \in anc
    <3>1. [id |-> e.id, depth |-> Rank(e, anc)] \in Reindexed(anc)
      BY DEF Reindexed
    <3>2. QED
      BY <3>1
  <2>3. QED
    BY <2>1, <2>2 DEF IdsOf
<1>7. QED
  BY <1>3, <1>4, <1>5, <1>6 DEF ChainFine

-----------------------------------------------------------------------------
(***************************************************************************)
(* What holds under every interleaving.  An id is given to one request     *)
(* only, and dated when its content is first written; whatever a chain or  *)
(* a parent names was dated before.                                        *)
(***************************************************************************)
Early == {"parent", "parentQuestion", "save"}

PcsOf ==
    [none |-> {"idle"},
     createQuestion |-> {"parent", "parentQuestion", "save", "index"},
     createAnswer |-> {"parent", "parentQuestion", "save", "insert", "index", "reread", "sync"},
     update |-> {"reread", "sync"},
     deleteAnswer |-> {"remove", "unindex", "readList", "writeList", "reread", "sync"},
     deleteQuestion |-> {"listAnswers", "unindexAnswers", "strip", "scanAnswers", "reread",
                         "sync", "remove", "unindex"}]

\* a: the ages, now or after a step
Older(y, x, a) == 0 < a[y] /\ a[y] < a[x]
Grown(x, anc, a) == ChainFine(anc) /\ \A y \in IdsOf(anc) : Older(y, x, a)
ParentOlder(x, p, a) == p # None => Older(p, x, a)

ContentFine(x, c, a) ==
    /\ c \in Contents /\ a[x] > 0
    /\ Grown(x, c.anc, a) /\ ParentOlder(x, c.parent, a)
    /\ x \in Answers => c.question \in Questions /\ Older(c.question, x, a)

RequestFine(r, a) ==
    /\ r \in Requests /\ r.pc \in PcsOf[r.op]
    /\ \A x \in Ids : Grown(x, r.snap[x], a)
    /\ r.op \in {"createQuestion", "deleteQuestion"} => r.id \in Questions
    /\ r.op \in {"createAnswer", "deleteAnswer"} => r.id \in Answers /\ r.target \in Questions
    /\ r.pc \in {"reread", "sync"} => r.cur \in Ids
    /\ r.pc \in Early => /\ a[r.id] = 0
                         /\ r.op = "createAnswer" => a[r.target] > 0
    /\ r.pc = "parent" => r.parent \in Ids
    /\ r.pc = "parentQuestion" => /\ r.parent \in Answers /\ r.via \in Questions
                                  /\ Older(r.via, r.parent, a)
    /\ r.pc = "save" => /\ ChainFine(r.anc)
                        /\ \A y \in IdsOf(r.anc) : a[y] > 0
                        /\ r.parent # None => a[r.parent] > 0
    /\ r.pc = "insert" => /\ Grown(r.id, r.anc, a) /\ ParentOlder(r.id, r.parent, a)
                          /\ Older(r.target, r.id, a)

\* Nobody shares an id that is not dated yet.
IdsApart ==
    \A v, w \in Workers : v # w /\ req[v].pc \in Early => req[w].id # req[v].id

TreeInv ==
    /\ TypeOK
    /\ \A x \in Ids : age[x] <= clock
    /\ \A x \in Ids : Stored(x) => ContentFine(x, db[x], age)
    /\ \A w \in Workers : RequestFine(req[w], age)
    /\ IdsApart

(***************************************************************************)
(* Ages only ever change from 0, so what they said goes on being true.     *)
(***************************************************************************)
LEMMA GrownStays ==
    ASSUME NEW x \in Ids, NEW anc, NEW a \in [Ids -> Nat], NEW b \in [Ids -> Nat],
           \A y \in Ids : a[y] > 0 => b[y] = a[y], Grown(x, anc, a)
    PROVE  Grown(x, anc, b)
<1>1. IdsOf(anc) \subseteq Ids
  BY IdsAreIds DEF Grown
<1>2. QED
  BY <1>1 DEF Grown, Older

LEMMA OlderStays ==
    ASSUME NEW x \in Ids, NEW y \in Ids, NEW a \in [Ids -> Nat], NEW b \in [Ids -> Nat],
           \A z \in Ids : a[z] > 0 => b[z] = a[z], Older(y, x, a)
    PROVE  Older(y, x, b)
BY DEF Older

LEMMA ContentStays ==
    ASSUME NEW x \in Ids, NEW c, NEW a \in [Ids -> Nat], NEW b \in [Ids -> Nat],
           \A y \in Ids : a[y] > 0 => b[y] = a[y], ContentFine(x, c, a)
    PROVE  ContentFine(x, c, b)
<1>1. Grown(x, c.anc, b)
  BY GrownStays DEF ContentFine
<1>2. c.parent \in Ids \union {None} /\ b[x] > 0
  BY DEF ContentFine, Contents
<1>3. ParentOlder(x, c.parent, b)
  BY <1>2, OlderStays DEF ContentFine, ParentOlder
<1>4. x \in Answers => Older(c.question, x, b)
  BY OlderStays DEF ContentFine, Ids
<1>5. QED
  BY <1>1, <1>2, <1>3, <1>4 DEF ContentFine

LEMMA RequestStays ==
    ASSUME NEW r, NEW a \in [Ids -> Nat], NEW b \in [Ids -> Nat],
           \A y \in Ids : a[y] > 0 => b[y] = a[y], RequestFine(r, a),
           r.pc \in Early => b[r.id] = 0
    PROVE  RequestFine(r, b)
<1>0. r \in Requests /\ r.pc \in PcsOf[r.op]
  BY DEF RequestFine
<1>1. \A x \in Ids : Grown(x, r.snap[x], b)
  BY GrownStays DEF RequestFine
<1>2. ASSUME r.pc = "parentQuestion" PROVE Older(r.via, r.parent, b)
  BY <1>2, OlderStays DEF RequestFine, Ids
<1>3. ASSUME r.pc = "save"
      PROVE  (\A y \in IdsOf(r.anc) : b[y] > 0) /\ (r.parent # None => b[r.parent] > 0)
  <2>1. IdsOf(r.anc) \subseteq Ids
    BY <1>3, IdsAreIds DEF RequestFine
  <2>2. r.parent \in Ids \union {None}
    BY <1>0 DEF Requests
  <2>3. QED
    BY <1>3, <2>1, <2>2 DEF RequestFine
<1>4. ASSUME r.pc = "insert"
      PROVE  Grown(r.id, r.anc, b) /\ ParentOlder(r.id, r.parent, b) /\ Older(r.target, r.id, b)
  <2>1. r.op = "createAnswer"
    BY <1>0, <1>4 DEF PcsOf, Requests, Ops
  <2>2. r.id \in Ids /\ r.target \in Ids
    BY <2>1 DEF RequestFine, Ids
  <2>3. r.parent \in Ids \union {None}
    BY <1>0 DEF Requests
  <2>4. Grown(r.id, r.anc, b)
    BY <1>4, <2>2, GrownStays DEF RequestFine
  <2>5. QED
    BY <1>4, <2>2, <2>3, <2>4, OlderStays DEF RequestFine, ParentOlder
<1>5. ASSUME r.pc \in Early, r.op = "createAnswer" PROVE b[r.target] > 0
  BY <1>5 DEF RequestFine, Ids
<1>6. QED
  BY <1>0, <1>1, <1>2, <1>3, <1>4, <1>5 DEF RequestFine

LEMMA IdleFine == ASSUME NEW a PROVE RequestFine(Idle, a)
<1>1. Idle \in Requests
  BY DEF Idle, Requests, Ops, Pcs, Docs, NoDoc, Chains
<1>2. Idle.pc = "idle" /\ Idle.op = "none" /\ Idle.snap = [x \in Ids |-> {}]
  BY DEF Idle
<1>3. \A x \in Ids : Grown(x, Idle.snap[x], a)
  BY <1>2, EmptyChainFine DEF Grown
<1>4. QED
  BY <1>1, <1>2, <1>3 DEF RequestFine, PcsOf, Early

\* An early request creates a content, so its id is one.
LEMMA EarlyHasId ==
    ASSUME NEW r, NEW a, RequestFine(r, a), r.pc \in Early
    PROVE  r.op \in {"createQuestion", "createAnswer"} /\ r.id \in Ids
<1>1. r.op \in Ops /\ r.pc \in PcsOf[r.op]
  BY DEF RequestFine, Requests
<1>2. r.op \in {"createQuestion", "createAnswer"}
  BY <1>1 DEF PcsOf, Ops, Early
<1>3. QED
  BY <1>2 DEF RequestFine, Ids

-----------------------------------------------------------------------------
(***************************************************************************)
(* What a step has to show: the request it leaves is fine, and so is every *)
(* content it changes.                                                     *)
(***************************************************************************)
LEMMA TreeStep ==
    ASSUME TreeInv, NEW w \in Workers, NEW r, req' = [req EXCEPT ![w] = r], backend' = backend,
           age' \in [Ids -> Nat], clock' \in Nat, \A x \in Ids : age'[x] <= clock',
           \A x \in Ids : age[x] > 0 => age'[x] = age[x],
           \A v \in Workers : v # w /\ req[v].pc \in Early =>
                age'[req[v].id] = 0 /\ r.id # req[v].id,
           r.pc \in Early => \A v \in Workers : v # w => req[v].id # r.id,
           RequestFine(r, age'),
           db' \in [Ids -> Contents \union {NoRow}],
           \A x \in Ids : db'[x] = db[x] \/ db'[x] = NoRow \/ ContentFine(x, db'[x], age'),
           index' \in [Ids -> Docs \union {NoRow}],
           overlapped' \in BOOLEAN, failures' \in 0..MaxFailures
    PROVE  TreeInv'
<1>0. TypeOK /\ age \in [Ids -> Nat] /\ req \in [Workers -> Requests] /\ r \in Requests
  BY DEF TreeInv, TypeOK, RequestFine
<1>1. req'[w] = r /\ \A v \in Workers : v # w => req'[v] = req[v]
  BY <1>0
<1>2. TypeOK'
  BY <1>0 DEF TypeOK
<1>3. \A x \in Ids : Stored(x)' => ContentFine(x, db[x], age)'
  <2> SUFFICES ASSUME NEW x \in Ids, db'[x] # NoRow PROVE ContentFine(x, db'[x], age')
    BY DEF Stored, ContentFine, Grown, Older, ParentOlder
  <2>1. CASE db'[x] = db[x]
    <3>1. ContentFine(x, db[x], age)
      BY <2>1 DEF TreeInv, Stored
    <3>2. QED
      BY <1>0, <2>1, <3>1, ContentStays
  <2>2. QED
    BY <2>1
<1>4. \A v \in Workers : RequestFine(req[v], age)'
  <2> SUFFICES ASSUME NEW v \in Workers PROVE RequestFine(req'[v], age')
    BY DEF RequestFine, Grown, Older, ParentOlder
  <2>1. CASE v = w
    BY <1>1, <2>1
  <2>2. CASE v # w
    <3>1. RequestFine(req[v], age) /\ (req[v].pc \in Early => age'[req[v].id] = 0)
      BY <2>2 DEF TreeInv
    <3>2. QED
      BY <1>0, <1>1, <2>2, <3>1, RequestStays
  <2>3. QED
    BY <2>1, <2>2
<1>5. IdsApart'
  BY <1>1 DEF TreeInv, IdsApart, Early
<1>6. QED
  BY <1>2, <1>3, <1>4, <1>5 DEF TreeInv

LEMMA TreeFacts ==
    ASSUME TreeInv
    PROVE  /\ TypeOK /\ backend \in {"mongo", "postgres"}
           /\ db \in [Ids -> Contents \union {NoRow}] /\ index \in [Ids -> Docs \union {NoRow}]
           /\ age \in [Ids -> Nat] /\ clock \in Nat
           /\ req \in [Workers -> Requests]
           /\ overlapped \in BOOLEAN /\ failures \in 0..MaxFailures
           /\ \A x \in Ids : age[x] <= clock
           /\ \A x \in Ids : Stored(x) => ContentFine(x, db[x], age)
           /\ \A w \in Workers : RequestFine(req[w], age)
BY BackendAssumption DEF TreeInv, TypeOK

\* A request after its early steps: only its place and what it works on changed.
LEMMA LaterFine ==
    ASSUME NEW r, NEW r0, NEW a, RequestFine(r0, a), r \in Requests,
           r.op = r0.op, r.id = r0.id, r.target = r0.target,
           \A x \in Ids : r.snap[x] = r0.snap[x] \/ Grown(x, r.snap[x], a),
           r.pc \in PcsOf[r.op], r.pc \notin Early \union {"insert"},
           r.pc \in {"reread", "sync"} => r.cur \in Ids
    PROVE  RequestFine(r, a)
BY DEF RequestFine, Early

\* A step that leaves contents and ages alone.
LEMMA ReadingKeeps ==
    ASSUME TreeInv, NEW w \in Workers, NEW r, req' = [req EXCEPT ![w] = r], UNCHANGED Store,
           RequestFine(r, age), r.id \in {req[w].id, None},
           r.pc \in Early => req[w].pc \in Early /\ r.id = req[w].id,
           index' \in [Ids -> Docs \union {NoRow}],
           overlapped' \in BOOLEAN, failures' \in 0..MaxFailures
    PROVE  TreeInv'
<1>0. \A v \in Workers : RequestFine(req[v], age)
  BY DEF TreeInv
<1>1. UNCHANGED <<backend, db, age, clock>>
  BY DEF Store
<1>2. ASSUME NEW v \in Workers, v # w, req[v].pc \in Early
      PROVE  age'[req[v].id] = 0 /\ r.id # req[v].id
  <2>1. req[v].id \in Ids /\ age[req[v].id] = 0
    BY <1>0, <1>2, EarlyHasId DEF RequestFine
  <2>2. req[w].id # req[v].id
    BY <1>2 DEF TreeInv, IdsApart
  <2>3. QED
    BY <1>1, <2>1, <2>2, IdAssumption
<1>3. r.pc \in Early => \A v \in Workers : v # w => req[v].id # r.id
  BY DEF TreeInv, IdsApart
<1>4. QED
  BY <1>1, <1>2, <1>3, TreeFacts, TreeStep

LEMMA FinishKeeps ==
    ASSUME TreeInv, NEW w \in Workers, Finish(w), UNCHANGED Store,
           index' \in [Ids -> Docs \union {NoRow}],
           overlapped' \in BOOLEAN, failures' \in 0..MaxFailures
    PROVE  TreeInv'
<1>1. Idle.id = None /\ Idle.pc \notin Early
  BY DEF Idle, Early
<1>2. RequestFine(Idle, age)
  BY IdleFine
<1>3. QED
  BY <1>1, <1>2, ReadingKeeps DEF Finish, Become

LEMMA ReadsKeeps ==
    ASSUME TreeInv, NEW w \in Workers, NEW ok, NEW r, Reads(w, ok, r),
           ok => /\ RequestFine(r, age) /\ r.id = req[w].id
                 /\ r.pc \in Early => req[w].pc \in Early
    PROVE  TreeInv'
<1>1. /\ index' \in [Ids -> Docs \union {NoRow}]
      /\ overlapped' \in BOOLEAN /\ failures' \in 0..MaxFailures
      /\ UNCHANGED Store
  BY TreeFacts DEF Reads
<1>2. CASE ok
  BY <1>1, <1>2, ReadingKeeps DEF Reads, Become
<1>3. CASE ~ok
  BY <1>1, <1>3, FinishKeeps DEF Reads
<1>4. QED
  BY <1>2, <1>3

LEMMA PublishTypes ==
    ASSUME TreeInv, NEW x \in Ids, NEW doc \in Docs \union {NoRow}, Publish(x, doc)
    PROVE  index' \in [Ids -> Docs \union {NoRow}] /\ failures' \in 0..MaxFailures
BY TreeFacts, MaxFailuresAssumption DEF Publish, Failure

LEMMA WritingKeeps ==
    ASSUME TreeInv, NEW w \in Workers, NEW r, NEW d, Writes(w, d, r), UNCHANGED <<age, clock>>,
           d \in [Ids -> Contents \union {NoRow}],
           \A x \in Ids : d[x] = db[x] \/ d[x] = NoRow \/ ContentFine(x, d[x], age),
           RequestFine(r, age), r.id = req[w].id, r.pc \notin Early
    PROVE  TreeInv'
<1>0. \A v \in Workers : RequestFine(req[v], age)
  BY DEF TreeInv
<1>1. ASSUME NEW v \in Workers, v # w, req[v].pc \in Early
      PROVE  age'[req[v].id] = 0 /\ r.id # req[v].id
  <2>1. age[req[v].id] = 0
    BY <1>0, <1>1 DEF RequestFine
  <2>2. req[w].id # req[v].id
    BY <1>1 DEF TreeInv, IdsApart
  <2>3. QED
    BY <2>1, <2>2
<1>2. QED
  BY <1>1, TreeFacts, TreeStep DEF Writes, Become

\* The content that gets its age is younger than all that have one.
LEMMA DatedIsYoungest ==
    ASSUME TreeInv, NEW x \in Ids, age[x] = 0, Dates(x)
    PROVE  /\ age' \in [Ids -> Nat] /\ clock' \in Nat /\ age'[x] > 0
           /\ \A y \in Ids : age[y] > 0 => Older(y, x, age') /\ age'[y] = age[y]
           /\ \A y \in Ids : age'[y] <= clock'
           /\ \A y \in Ids : y # x => age'[y] = age[y]
BY TreeFacts DEF Dates, Older

LEMMA DatingKeeps ==
    ASSUME TreeInv, NEW w \in Workers, NEW r, NEW d, Writes(w, d, r),
           req[w].pc \in Early, Dates(req[w].id),
           d \in [Ids -> Contents \union {NoRow}],
           \A x \in Ids : d[x] = db[x] \/ d[x] = NoRow \/ ContentFine(x, d[x], age'),
           RequestFine(r, age'), r.id = req[w].id, r.pc \notin Early
    PROVE  TreeInv'
<1>0. \A v \in Workers : RequestFine(req[v], age)
  BY DEF TreeInv
<1>1. req[w].id \in Ids /\ age[req[w].id] = 0
  BY <1>0, EarlyHasId DEF RequestFine
<1>2. ASSUME NEW v \in Workers, v # w, req[v].pc \in Early
      PROVE  age'[req[v].id] = 0 /\ r.id # req[v].id
  <2>1. req[v].id \in Ids /\ age[req[v].id] = 0
    BY <1>0, <1>2, EarlyHasId DEF RequestFine
  <2>2. req[w].id # req[v].id
    BY <1>2 DEF TreeInv, IdsApart
  <2>3. QED
    BY <1>1, <2>1, <2>2, DatedIsYoungest
<1>3. /\ age' \in [Ids -> Nat] /\ clock' \in Nat
      /\ \A y \in Ids : age'[y] <= clock'
      /\ \A y \in Ids : age[y] > 0 => age'[y] = age[y]
  BY <1>1, DatedIsYoungest
<1>4. QED
  BY <1>2, <1>3, TreeFacts, TreeStep DEF Writes, Become

-----------------------------------------------------------------------------
(***************************************************************************)
(* A request begins: its id is new, or none, or that of a stored content.  *)
(***************************************************************************)
LEMMA BeginKeeps ==
    ASSUME TreeInv, NEW w \in Workers, NEW r, Begin(w, r), RequestFine(r, age),
           Fresh(r.id) \/ (r.pc \notin Early /\ (r.id = None \/ age[r.id] > 0))
    PROVE  TreeInv'
<1>0. \A v \in Workers : RequestFine(req[v], age)
  BY DEF TreeInv
<1>1. /\ UNCHANGED <<backend, db, age, clock, index, failures>>
      /\ req' = [req EXCEPT ![w] = r]
      /\ overlapped' \in BOOLEAN
  <2>1. UNCHANGED <<backend, db, age, clock, index, failures>>
    BY DEF Begin, Store
  <2>2. (\E v \in Workers : Active(v)) \in BOOLEAN
    BY Zenon
  <2>3. QED
    BY <2>1, <2>2, TreeFacts DEF Begin, Become
<1>2. ASSUME NEW v \in Workers, v # w, req[v].pc \in Early
      PROVE  age'[req[v].id] = 0 /\ r.id # req[v].id
  <2>1. req[v].id \in Ids /\ age[req[v].id] = 0
    BY <1>0, <1>2, EarlyHasId DEF RequestFine
  <2>2. QED
    BY <1>1, <2>1, IdAssumption DEF Fresh
<1>3. r.pc \in Early => \A v \in Workers : v # w => req[v].id # r.id
  BY DEF Fresh
<1>4. QED
  BY <1>1, <1>2, <1>3, TreeFacts, TreeStep

LEMMA IdleTyped == Idle \in Requests
BY IdleFine DEF RequestFine

LEMMA NoSnapFine ==
    ASSUME NEW r, NEW a, r.snap = Idle.snap PROVE \A x \in Ids : Grown(x, r.snap[x], a)
BY EmptyChainFine DEF Idle, Grown

LEMMA StartCreateQuestionKeeps ==
    ASSUME TreeInv, NEW w \in Workers, NEW q \in Questions, NEW p \in Ids \union {None},
           StartCreateQuestion(w, q, p)
    PROVE  TreeInv'
<1> DEFINE r == [Idle EXCEPT !.op = "createQuestion", !.id = q, !.parent = p,
                             !.pc = IF p = None THEN "save" ELSE "parent"]
<1>1. Fresh(q) /\ Begin(w, r)
  BY DEF StartCreateQuestion
<1>2. r \in Requests
  <2>1. q \in Ids /\ r.pc \in Pcs
    BY DEF Ids, Pcs, Idle
  <2>2. r = [Idle EXCEPT !.op = "createQuestion", !.id = q, !.parent = p, !.pc = r.pc]
    BY DEF Idle
  <2> HIDE DEF r
  <2>3. QED
    BY <2>1, <2>2, IdleTyped DEF Requests, Ops
<1>3. /\ r.op = "createQuestion" /\ r.id = q /\ r.parent = p /\ r.anc = {}
      /\ r.snap = Idle.snap
      /\ r.pc = IF p = None THEN "save" ELSE "parent"
  BY DEF Idle
<1> HIDE DEF r
<1>4. RequestFine(r, age)
  BY <1>1, <1>2, <1>3, NoSnapFine, EmptyChainFine DEF RequestFine, PcsOf, Early, Fresh, Ids
<1>5. QED
  BY <1>1, <1>3, <1>4, BeginKeeps

LEMMA StartCreateAnswerKeeps ==
    ASSUME TreeInv, NEW w \in Workers, NEW a \in Answers, NEW q \in Questions,
           NEW p \in Ids \union {None}, StartCreateAnswer(w, a, q, p)
    PROVE  TreeInv'
<1>0. Fresh(a) /\ Stored(q) /\ age[a] = 0
  BY DEF StartCreateAnswer, Fresh
<1>1. ContentFine(q, db[q], age) /\ a \in Ids /\ q \in Ids
  BY <1>0, TreeFacts DEF Ids
<1>2. CASE p # None
  <2> DEFINE r == [Idle EXCEPT !.op = "createAnswer", !.id = a, !.target = q,
                               !.parent = p, !.pc = "parent"]
  <2>1. Begin(w, r)
    BY <1>2 DEF StartCreateAnswer
  <2>2. r \in Requests
    BY <1>1, IdleTyped DEF Requests, Ops, Pcs
  <2>3. /\ r.op = "createAnswer" /\ r.id = a /\ r.target = q /\ r.parent = p
        /\ r.snap = Idle.snap /\ r.pc = "parent"
    BY DEF Idle
  <2> HIDE DEF r
  <2>4. RequestFine(r, age)
    BY <1>0, <1>1, <1>2, <2>2, <2>3, NoSnapFine DEF RequestFine, PcsOf, Early, ContentFine
  <2>5. QED
    BY <1>0, <2>1, <2>3, <2>4, BeginKeeps
<1>3. CASE p = None
  <2> DEFINE above == db[q].parent
             anc == IF above = None THEN {} ELSE ComputeAncestors(q, db[q].anc)
             r == [Idle EXCEPT !.op = "createAnswer", !.id = a, !.target = q,
                               !.parent = above, !.pc = "save", !.anc = anc]
  <2>1. Begin(w, r)
    BY <1>3 DEF StartCreateAnswer
  <2>2. ChainFine(anc) /\ IdsOf(anc) \subseteq {q} \union IdsOf(db[q].anc)
    <3>1. ChainFine(db[q].anc) /\ q \notin IdsOf(db[q].anc)
      BY <1>1, TreeFacts DEF ContentFine, Grown, Older
    <3>2. QED
      BY <1>1, <3>1, ComputedFine, EmptyChainFine
  <2>3. \A y \in IdsOf(anc) : age[y] > 0
    BY <1>1, <2>2 DEF ContentFine, Grown, Older
  <2>4. above \in Ids \union {None} /\ (above # None => age[above] > 0)
    BY <1>1 DEF ContentFine, Contents, ParentOlder, Older
  <2> HIDE DEF anc, above
  <2>5. r \in Requests
    BY <1>1, <2>2, <2>4, IdleTyped DEF Requests, Ops, Pcs, ChainFine
  <2>6. /\ r.op = "createAnswer" /\ r.id = a /\ r.target = q /\ r.parent = above
        /\ r.snap = Idle.snap /\ r.pc = "save" /\ r.anc = anc
    BY DEF Idle
  <2> HIDE DEF r
  <2>7. RequestFine(r, age)
    BY <1>0, <1>1, <2>2, <2>3, <2>4, <2>5, <2>6, NoSnapFine
       DEF RequestFine, PcsOf, Early, ContentFine
  <2>8. QED
    BY <1>0, <2>1, <2>6, <2>7, BeginKeeps
<1>4. QED
  BY <1>2, <1>3

LEMMA StartUpdateKeeps ==
    ASSUME TreeInv, NEW w \in Workers, NEW y \in Ids, StartUpdate(w, y) PROVE TreeInv'
<1> DEFINE r == [Idle EXCEPT !.op = "update", !.cur = y, !.pc = "reread"]
<1>1. Begin(w, r)
  BY DEF StartUpdate
<1>2. r \in Requests
  <2>1. "update" \in Ops /\ "reread" \in Pcs
    BY DEF Ops, Pcs
  <2>2. QED
    BY <2>1, IdleTyped DEF Requests
<1>3. r.op = "update" /\ r.id = None /\ r.cur = y /\ r.snap = Idle.snap /\ r.pc = "reread"
  BY DEF Idle
<1> HIDE DEF r
<1>4. RequestFine(r, age)
  BY <1>2, <1>3, NoSnapFine DEF RequestFine, PcsOf, Early
<1>5. QED
  BY <1>1, <1>3, <1>4, BeginKeeps DEF Early

LEMMA StartDeleteAnswerKeeps ==
    ASSUME TreeInv, NEW w \in Workers, NEW a \in Answers, StartDeleteAnswer(w, a) PROVE TreeInv'
<1> DEFINE q == db[a].question
           r == [Idle EXCEPT !.op = "deleteAnswer", !.id = a, !.target = q, !.pc = "remove"]
<1>1. Begin(w, r) /\ Stored(a)
  BY DEF StartDeleteAnswer
<1>2. q \in Questions /\ age[a] > 0 /\ a \in Ids
  BY <1>1, TreeFacts DEF ContentFine, Ids
<1> HIDE DEF q
<1>3. r \in Requests
  BY <1>2, IdleTyped DEF Requests, Ops, Pcs
<1>4. /\ r.op = "deleteAnswer" /\ r.id = a /\ r.target = q
      /\ r.snap = Idle.snap /\ r.pc = "remove"
  BY DEF Idle
<1> HIDE DEF r
<1>5. RequestFine(r, age)
  BY <1>2, <1>3, <1>4, NoSnapFine DEF RequestFine, PcsOf, Early
<1>6. QED
  BY <1>1, <1>2, <1>4, <1>5, BeginKeeps DEF Early

LEMMA StartDeleteQuestionKeeps ==
    ASSUME TreeInv, NEW w \in Workers, NEW q \in Questions, StartDeleteQuestion(w, q)
    PROVE  TreeInv'
<1> DEFINE r == [Idle EXCEPT !.op = "deleteQuestion", !.id = q, !.pc = "listAnswers"]
<1>1. Begin(w, r) /\ Stored(q)
  BY DEF StartDeleteQuestion
<1>2. age[q] > 0 /\ q \in Ids
  BY <1>1, TreeFacts DEF ContentFine, Ids
<1>3. r \in Requests
  BY <1>2, IdleTyped DEF Requests, Ops, Pcs
<1>4. /\ r.op = "deleteQuestion" /\ r.id = q /\ r.snap = Idle.snap /\ r.pc = "listAnswers"
  BY DEF Idle
<1> HIDE DEF r
<1>5. RequestFine(r, age)
  BY <1>2, <1>3, <1>4, NoSnapFine DEF RequestFine, PcsOf, Early
<1>6. QED
  BY <1>1, <1>2, <1>4, <1>5, BeginKeeps DEF Early

-----------------------------------------------------------------------------
(***************************************************************************)
(* The steps of createQuestion and createAnswer.                           *)
(***************************************************************************)
LEMMA OpOfPc ==
    ASSUME NEW r, NEW a, RequestFine(r, a)
    PROVE  /\ r.pc \in {"parent", "parentQuestion", "save", "index"} =>
                  r.op \in {"createQuestion", "createAnswer"}
           /\ r.pc = "insert" => r.op = "createAnswer"
           /\ r.pc \in {"remove", "unindex"} => r.op \in {"deleteAnswer", "deleteQuestion"}
           /\ r.pc \in {"readList", "writeList"} => r.op = "deleteAnswer"
           /\ r.pc \in {"listAnswers", "unindexAnswers", "strip", "scanAnswers"} =>
                  r.op = "deleteQuestion"
           /\ r.pc \in {"reread", "sync"} =>
                  r.op \in {"createAnswer", "update", "deleteAnswer", "deleteQuestion"}
<1>1. r.op \in Ops /\ r.pc \in PcsOf[r.op]
  BY DEF RequestFine, Requests
<1>2. QED
  BY <1>1 DEF PcsOf, Ops

LEMMA EntityFine ==
    ASSUME TreeInv, NEW x \in Ids, Stored(x)
    PROVE  Entity(x) \in Contents /\ ChainFine(Entity(x).anc) /\ Entity(x).anc = db[x].anc
<1>1. db[x] \in Contents /\ ChainFine(db[x].anc)
  BY TreeFacts DEF ContentFine, Grown
<1>2. AnswersOf(x) \in SUBSET Answers
  BY DEF AnswersOf
<1>3. QED
  BY <1>1, <1>2 DEF Entity, Contents

LEMMA ProjectTyped ==
    ASSUME NEW c \in Contents, ChainFine(c.anc) PROVE Project(c) \in Docs
BY RootIsAnId, IdsAreIds DEF Contents, Project, Docs

LEMMA MergeTyped ==
    ASSUME NEW old \in Docs \union {NoRow}, NEW doc \in Docs
    PROVE  Merge(old, doc) \in Docs \union {NoRow}
BY DEF Merge, Docs

LEMMA ReadParentKeeps == ASSUME TreeInv, NEW w \in Workers, ReadParent(w) PROVE TreeInv'
<1> DEFINE r == req[w]
           p == r.parent
<1>1. RequestFine(r, age) /\ r \in Requests /\ r.pc = "parent" /\ p \in Ids
  BY TreeFacts DEF ReadParent, At, RequestFine
<1>2. CASE ~Stored(p)
  BY <1>2, ReadsKeeps DEF ReadParent
<1>3. CASE Stored(p) /\ p \in Questions
  <2> DEFINE anc == ComputeAncestors(p, db[p].anc)
             r1 == [r EXCEPT !.anc = anc, !.pc = "save"]
  <2>1. ContentFine(p, db[p], age)
    BY <1>1, <1>3, TreeFacts
  <2>2. ChainFine(anc) /\ IdsOf(anc) = {p} \union IdsOf(db[p].anc)
    <3>1. ChainFine(db[p].anc) /\ p \notin IdsOf(db[p].anc)
      BY <1>1, <2>1, TreeFacts DEF ContentFine, Grown, Older
    <3>2. QED
      BY <1>1, <3>1, ComputedFine
  <2>3. \A y \in IdsOf(anc) : age[y] > 0
    BY <2>1, <2>2 DEF ContentFine, Grown, Older
  <2>4. age[p] > 0
    BY <2>1 DEF ContentFine
  <2>5. Reads(w, TRUE, r1)
    BY <1>3 DEF ReadParent
  <2> HIDE DEF anc
  <2>6. /\ r1 \in Requests /\ r1.op = r.op /\ r1.id = r.id /\ r1.target = r.target
        /\ r1.snap = r.snap /\ r1.parent = p /\ r1.anc = anc /\ r1.pc = "save"
    BY <1>1, <2>2 DEF Requests, Pcs, ChainFine
  <2> HIDE DEF r1, r, p
  <2>7. RequestFine(r1, age)
    BY <1>1, <2>2, <2>3, <2>4, <2>6, OpOfPc DEF RequestFine, PcsOf, Early
  <2>8. QED
    BY <1>1, <2>5, <2>6, <2>7, ReadsKeeps DEF Early, r
<1>4. CASE Stored(p) /\ p \notin Questions
  <2> DEFINE q == db[p].question
             r1 == [r EXCEPT !.via = q, !.pc = "parentQuestion"]
  <2>1. p \in Answers /\ ContentFine(p, db[p], age)
    BY <1>1, <1>4, TreeFacts DEF Ids
  <2>2. q \in Questions /\ Older(q, p, age)
    BY <2>1 DEF ContentFine
  <2>3. Reads(w, TRUE, r1)
    BY <1>4 DEF ReadParent
  <2> HIDE DEF q
  <2>4. /\ r1 \in Requests /\ r1.op = r.op /\ r1.id = r.id /\ r1.target = r.target
        /\ r1.snap = r.snap /\ r1.parent = p /\ r1.via = q /\ r1.pc = "parentQuestion"
    BY <1>1, <2>2 DEF Requests, Pcs
  <2> HIDE DEF r1, r, p
  <2>5. RequestFine(r1, age)
    BY <1>1, <2>1, <2>2, <2>4, OpOfPc DEF RequestFine, PcsOf, Early
  <2>6. QED
    BY <1>1, <2>3, <2>4, <2>5, ReadsKeeps DEF Early, r
<1>5. QED
  BY <1>2, <1>3, <1>4

LEMMA ReadParentQuestionKeeps ==
    ASSUME TreeInv, NEW w \in Workers, ReadParentQuestion(w) PROVE TreeInv'
<1> DEFINE r == req[w]
           p == r.parent
           q == r.via
<1>1. /\ RequestFine(r, age) /\ r \in Requests /\ r.pc = "parentQuestion"
      /\ p \in Answers /\ q \in Questions /\ Older(q, p, age) /\ p \in Ids /\ q \in Ids
  BY TreeFacts DEF ReadParentQuestion, At, RequestFine, Ids
<1>2. CASE ~Stored(q)
  BY <1>2, ReadsKeeps DEF ReadParentQuestion
<1>3. CASE Stored(q)
  <2> DEFINE anc == ComputeAncestorsForAnswer(p, q, db[q].anc)
             r1 == [r EXCEPT !.anc = anc, !.pc = "save"]
  <2>1. ContentFine(q, db[q], age)
    BY <1>1, <1>3, TreeFacts
  <2>2. ChainFine(anc) /\ IdsOf(anc) \subseteq {p, q} \union IdsOf(db[q].anc)
    <3>1. ChainFine(db[q].anc) /\ IdsOf(db[q].anc) \subseteq Ids
      BY <2>1, IdsAreIds DEF ContentFine, Grown
    <3>2. p \notin IdsOf(db[q].anc)
      BY <1>1, <2>1, <3>1, TreeFacts DEF ContentFine, Grown, Older
    <3>3. QED
      BY <1>1, <3>1, <3>2, ComputedForAnswerFine
  <2>3. age[p] > 0
    BY <1>1, TreeFacts DEF Older
  <2>4. \A y \in IdsOf(anc) : age[y] > 0
    BY <2>1, <2>2, <2>3 DEF ContentFine, Grown, Older
  <2>5. Reads(w, TRUE, r1)
    BY <1>3 DEF ReadParentQuestion
  <2> HIDE DEF anc
  <2>6. /\ r1 \in Requests /\ r1.op = r.op /\ r1.id = r.id /\ r1.target = r.target
        /\ r1.snap = r.snap /\ r1.parent = p /\ r1.anc = anc /\ r1.pc = "save"
    BY <1>1, <2>2 DEF Requests, Pcs, ChainFine
  <2> HIDE DEF r1, r, p, q
  <2>7. RequestFine(r1, age)
    BY <1>1, <2>2, <2>3, <2>4, <2>6, OpOfPc DEF RequestFine, PcsOf, Early
  <2>8. QED
    BY <1>1, <2>5, <2>6, <2>7, ReadsKeeps DEF Early, r
<1>4. QED
  BY <1>2, <1>3

\* The content a request is about to insert: its ancestors have their ages, it gets its own.
LEMMA MadeFine ==
    ASSUME TreeInv, NEW w \in Workers, req[w].pc = "save", Dates(req[w].id)
    PROVE  /\ ContentFine(req[w].id, Made(req[w]), age')
           /\ Grown(req[w].id, req[w].anc, age')
           /\ ParentOlder(req[w].id, req[w].parent, age')
           /\ req[w].op = "createAnswer" => Older(req[w].target, req[w].id, age')
<1> DEFINE r == req[w]
           x == r.id
<1>1. RequestFine(r, age) /\ r \in Requests
  BY TreeFacts DEF RequestFine
<1>2. /\ x \in Ids /\ age[x] = 0 /\ r.op \in {"createQuestion", "createAnswer"}
  BY <1>1, EarlyHasId DEF RequestFine, Early
<1>3. age'[x] > 0 /\ \A y \in Ids : age[y] > 0 => Older(y, x, age')
  BY <1>2, DatedIsYoungest
<1>4. Grown(x, r.anc, age')
  <2>1. ChainFine(r.anc) /\ \A y \in IdsOf(r.anc) : age[y] > 0
    BY <1>1 DEF RequestFine
  <2>2. IdsOf(r.anc) \subseteq Ids
    BY <2>1, IdsAreIds
  <2>3. QED
    BY <1>3, <2>1, <2>2 DEF Grown
<1>5. ParentOlder(x, r.parent, age')
  <2>1. r.parent \in Ids \union {None} /\ (r.parent # None => age[r.parent] > 0)
    BY <1>1 DEF RequestFine, Requests
  <2>2. QED
    BY <1>3, <2>1 DEF ParentOlder
<1>6. r.op = "createAnswer" => r.target \in Questions /\ Older(r.target, x, age')
  <2>1. r.op = "createAnswer" => r.target \in Questions /\ age[r.target] > 0
    BY <1>1 DEF RequestFine, Early
  <2>2. QED
    BY <1>3, <2>1 DEF Ids
<1>7. /\ Made(r) \in Contents
      /\ Made(r).anc = r.anc /\ Made(r).parent = r.parent /\ Made(r).question = r.target
  BY <1>1 DEF Made, Contents, Requests
<1>8. x \in Answers => r.op = "createAnswer"
  BY <1>1, <1>2, IdAssumption DEF RequestFine
<1> HIDE DEF r, x
<1>9. ContentFine(x, Made(r), age')
  BY <1>3, <1>4, <1>5, <1>6, <1>7, <1>8 DEF ContentFine
<1>10. QED
  BY <1>4, <1>5, <1>6, <1>9 DEF r, x

\* The row is in; what is left is to index its projection.
LEMMA InsertedFine ==
    ASSUME NEW r, NEW a, RequestFine(r, a), r.op \in {"createQuestion", "createAnswer"},
           Made(r) \in Contents, ChainFine(r.anc)
    PROVE  LET r1 == [r EXCEPT !.doc = Project(Made(r)), !.pc = "index"]
           IN  RequestFine(r1, a) /\ r1.id = r.id /\ r1.pc = "index"
<1> DEFINE doc == Project(Made(r))
           r1 == [r EXCEPT !.doc = doc, !.pc = "index"]
<1>1. doc \in Docs
  <2>1. Made(r).anc = r.anc
    BY DEF Made
  <2>2. QED
    BY <2>1, ProjectTyped
<1>2. r \in Requests /\ "index" \in Pcs
  BY DEF RequestFine, Pcs
<1> HIDE DEF doc
<1>3. /\ r1 \in Requests /\ r1.op = r.op /\ r1.id = r.id /\ r1.target = r.target
      /\ r1.snap = r.snap /\ r1.pc = "index"
  BY <1>1, <1>2 DEF Requests
<1>4. RequestFine(r1, a)
  <2> HIDE DEF r1
  <2>1. QED
    BY <1>3, LaterFine DEF PcsOf, Early
<1>5. QED
  BY <1>3, <1>4 DEF doc

LEMMA InsertQuestionKeeps ==
    ASSUME TreeInv, NEW w \in Workers, InsertQuestion(w) PROVE TreeInv'
<1> DEFINE r == req[w]
           d == [db EXCEPT ![r.id] = Made(r)]
           r1 == [r EXCEPT !.doc = Project(Made(r)), !.pc = "index"]
<1>1. /\ RequestFine(r, age) /\ r.pc = "save" /\ r.op = "createQuestion"
      /\ Writes(w, d, r1) /\ Dates(r.id)
  BY TreeFacts DEF InsertQuestion, At
<1>2. ContentFine(r.id, Made(r), age')
  BY <1>1, MadeFine
<1>3. Made(r) \in Contents /\ ChainFine(r.anc) /\ r.id \in Ids /\ age[r.id] = 0
  BY <1>1, <1>2, EarlyHasId DEF ContentFine, RequestFine, Early
<1>4. RequestFine(r1, age) /\ r1.id = r.id /\ r1.pc = "index"
  BY <1>1, <1>3, InsertedFine
<1>5. /\ d \in [Ids -> Contents \union {NoRow}]
      /\ \A x \in Ids : d[x] = db[x] \/ d[x] = NoRow \/ ContentFine(x, d[x], age')
  BY <1>2, <1>3, TreeFacts
<1> HIDE DEF r1, d
<1>6. RequestFine(r1, age')
  BY <1>1, <1>3, <1>4, DatedIsYoungest, RequestStays, TreeFacts DEF Early
<1>7. QED
  BY <1>1, <1>4, <1>5, <1>6, DatingKeeps DEF Early

LEMMA HookAnswerKeeps == ASSUME TreeInv, NEW w \in Workers, HookAnswer(w) PROVE TreeInv'
<1> DEFINE r == req[w]
           q == r.target
           d == IF Stored(q) THEN [db EXCEPT ![q].answers = @ \union {r.id}] ELSE db
           r1 == [r EXCEPT !.pc = "insert"]
<1>1. /\ RequestFine(r, age) /\ r \in Requests /\ r.pc = "save" /\ r.op = "createAnswer"
      /\ Writes(w, d, r1) /\ Dates(r.id)
  BY TreeFacts DEF HookAnswer, At, RequestFine
<1>2. /\ r.id \in Answers /\ q \in Questions /\ r.id \in Ids /\ q \in Ids /\ age[r.id] = 0
  BY <1>1 DEF RequestFine, Ids, Early
<1>3. /\ Grown(r.id, r.anc, age') /\ ParentOlder(r.id, r.parent, age')
      /\ Older(q, r.id, age')
  BY <1>1, MadeFine
<1>4. /\ age' \in [Ids -> Nat] /\ \A y \in Ids : age[y] > 0 => age'[y] = age[y]
  BY <1>1, <1>2, DatedIsYoungest
<1>5. RequestFine(r1, age')
  <2>1. /\ r1 \in Requests /\ r1.op = r.op /\ r1.id = r.id /\ r1.target = q
        /\ r1.snap = r.snap /\ r1.parent = r.parent /\ r1.anc = r.anc /\ r1.pc = "insert"
    BY <1>1 DEF Requests, Pcs
  <2>2. \A x \in Ids : Grown(x, r1.snap[x], age')
    BY <1>1, <1>4, <2>1, GrownStays, TreeFacts DEF RequestFine
  <2> HIDE DEF r1, r
  <2>3. QED
    BY <1>1, <1>2, <1>3, <2>1, <2>2 DEF RequestFine, PcsOf, Early
<1>6. /\ d \in [Ids -> Contents \union {NoRow}]
      /\ \A x \in Ids : d[x] = db[x] \/ d[x] = NoRow \/ ContentFine(x, d[x], age')
  <2>1. CASE ~Stored(q)
    BY <2>1, TreeFacts
  <2>2. CASE Stored(q)
    <3> DEFINE c == [db[q] EXCEPT !.answers = @ \union {r.id}]
    <3>1. ContentFine(q, db[q], age')
      BY <1>2, <1>4, <2>2, ContentStays, TreeFacts
    <3>2. /\ c \in Contents
          /\ c.anc = db[q].anc /\ c.parent = db[q].parent /\ c.question = db[q].question
      BY <1>2, <3>1 DEF ContentFine, Contents
    <3>3. d = [db EXCEPT ![q] = c]
      BY <2>2
    <3> HIDE DEF c, d
    <3>4. ContentFine(q, c, age')
      BY <3>1, <3>2 DEF ContentFine
    <3>5. QED
      BY <1>2, <3>2, <3>3, <3>4, TreeFacts
  <2>3. QED
    BY <2>1, <2>2
<1>7. r1.id = r.id /\ r1.pc = "insert"
  BY <1>1 DEF Requests
<1> HIDE DEF r1, d
<1>8. QED
  BY <1>1, <1>5, <1>6, <1>7, DatingKeeps DEF Early

LEMMA MongoInsertAnswerKeeps ==
    ASSUME TreeInv, NEW w \in Workers, MongoInsertAnswer(w) PROVE TreeInv'
<1> DEFINE r == req[w]
           d == [db EXCEPT ![r.id] = Made(r)]
           r1 == [r EXCEPT !.doc = Project(Made(r)), !.pc = "index"]
<1>1. /\ RequestFine(r, age) /\ r \in Requests /\ r.pc = "insert" /\ r.op = "createAnswer"
      /\ Writes(w, d, r1) /\ UNCHANGED <<age, clock>>
  BY TreeFacts, OpOfPc DEF MongoInsertAnswer, At, RequestFine
<1>2. /\ r.id \in Ids /\ r.target \in Questions
      /\ Grown(r.id, r.anc, age) /\ ParentOlder(r.id, r.parent, age)
      /\ Older(r.target, r.id, age)
  BY <1>1 DEF RequestFine, Ids
<1>3. /\ Made(r) \in Contents
      /\ Made(r).anc = r.anc /\ Made(r).parent = r.parent /\ Made(r).question = r.target
  BY <1>1 DEF Made, Contents, Requests
<1>4. ContentFine(r.id, Made(r), age)
  <2>1. age[r.id] > 0
    BY <1>2, TreeFacts DEF Older, Ids
  <2>2. QED
    BY <1>2, <1>3, <2>1 DEF ContentFine
<1>5. RequestFine(r1, age) /\ r1.id = r.id /\ r1.pc = "index"
  BY <1>1, <1>2, <1>3, InsertedFine DEF Grown
<1>6. /\ d \in [Ids -> Contents \union {NoRow}]
      /\ \A x \in Ids : d[x] = db[x] \/ d[x] = NoRow \/ ContentFine(x, d[x], age)
  BY <1>2, <1>3, <1>4, TreeFacts
<1> HIDE DEF r1, d
<1>7. QED
  BY <1>1, <1>5, <1>6, WritingKeeps DEF Early

LEMMA PostgresInsertAnswerKeeps ==
    ASSUME TreeInv, NEW w \in Workers, PostgresInsertAnswer(w) PROVE TreeInv'
<1> DEFINE r == req[w]
           d == [db EXCEPT ![r.id] = Made(r)]
           r1 == [r EXCEPT !.doc = Project(Made(r)), !.pc = "index"]
<1>1. CASE ~Stored(r.target)
  BY <1>1, ReadsKeeps DEF PostgresInsertAnswer
<1>2. CASE Stored(r.target)
  <2>1. /\ RequestFine(r, age) /\ r.pc = "save" /\ r.op = "createAnswer"
        /\ Writes(w, d, r1) /\ Dates(r.id)
    BY <1>2, TreeFacts DEF PostgresInsertAnswer, At
  <2>2. ContentFine(r.id, Made(r), age')
    BY <2>1, MadeFine
  <2>3. Made(r) \in Contents /\ ChainFine(r.anc) /\ r.id \in Ids /\ age[r.id] = 0
    BY <2>1, <2>2, EarlyHasId DEF ContentFine, RequestFine, Early
  <2>4. RequestFine(r1, age) /\ r1.id = r.id /\ r1.pc = "index"
    BY <2>1, <2>3, InsertedFine
  <2>5. /\ d \in [Ids -> Contents \union {NoRow}]
        /\ \A x \in Ids : d[x] = db[x] \/ d[x] = NoRow \/ ContentFine(x, d[x], age')
    BY <2>2, <2>3, TreeFacts
  <2> HIDE DEF r1, d
  <2>6. RequestFine(r1, age')
    BY <2>1, <2>3, <2>4, DatedIsYoungest, RequestStays, TreeFacts DEF Early
  <2>7. QED
    BY <2>1, <2>4, <2>5, <2>6, DatingKeeps DEF Early
<1>3. QED
  BY <1>1, <1>2

-----------------------------------------------------------------------------
(***************************************************************************)
(* The steps that index and sync.                                          *)
(***************************************************************************)
LEMMA PublishingKeeps ==
    ASSUME TreeInv, NEW w \in Workers, NEW x \in Ids, NEW doc \in Docs \union {NoRow},
           Publish(x, doc), UNCHANGED <<Store, overlapped>>, NEW r, Become(w, r),
           RequestFine(r, age), r.id \in {req[w].id, None}, r.pc \notin Early
    PROVE  TreeInv'
<1>1. index' \in [Ids -> Docs \union {NoRow}] /\ failures' \in 0..MaxFailures
  BY PublishTypes
<1>2. QED
  BY <1>1, ReadingKeeps, TreeFacts DEF Become

LEMMA IndexNewKeeps == ASSUME TreeInv, NEW w \in Workers, IndexNew(w) PROVE TreeInv'
<1> DEFINE r == req[w]
           r1 == [r EXCEPT !.cur = r.target, !.pc = "reread"]
<1>1. /\ RequestFine(r, age) /\ r \in Requests /\ r.pc = "index"
      /\ r.op \in {"createQuestion", "createAnswer"}
      /\ Publish(r.id, r.doc) /\ UNCHANGED <<Store, overlapped>>
  BY TreeFacts, OpOfPc DEF IndexNew, At, RequestFine
<1>2. r.id \in Ids /\ r.doc \in Docs
  BY <1>1 DEF RequestFine, Requests, Ids
<1>3. CASE r.op = "createQuestion"
  <2>1. Become(w, Idle)
    BY <1>3 DEF IndexNew, Finish
  <2>2. Idle.id = None /\ Idle.pc \notin Early
    BY DEF Idle, Early
  <2>3. QED
    BY <1>1, <1>2, <2>1, <2>2, IdleFine, PublishingKeeps
<1>4. CASE r.op = "createAnswer"
  <2>1. Become(w, r1)
    BY <1>4 DEF IndexNew
  <2>2. r.target \in Questions /\ r.target \in Ids
    BY <1>1, <1>4 DEF RequestFine, Ids
  <2>3. /\ r1 \in Requests /\ r1.op = r.op /\ r1.id = r.id /\ r1.target = r.target
        /\ r1.snap = r.snap /\ r1.pc = "reread" /\ r1.cur = r.target
    BY <1>1, <2>2 DEF Requests, Pcs
  <2> HIDE DEF r1
  <2>4. RequestFine(r1, age)
    BY <1>1, <1>4, <2>2, <2>3, LaterFine DEF PcsOf, Early
  <2>5. QED
    BY <1>1, <1>2, <2>1, <2>3, <2>4, PublishingKeeps DEF Early
<1>5. QED
  BY <1>1, <1>3, <1>4

LEMMA RereadKeeps == ASSUME TreeInv, NEW w \in Workers, Reread(w) PROVE TreeInv'
<1> DEFINE r == req[w]
           doc == Project(Entity(r.cur))
           r1 == [r EXCEPT !.doc = doc, !.pc = "sync"]
<1>1. /\ RequestFine(r, age) /\ r \in Requests /\ r.pc = "reread" /\ r.cur \in Ids
      /\ Reads(w, Stored(r.cur), r1)
  BY TreeFacts DEF Reread, At, RequestFine
<1>2. CASE ~Stored(r.cur)
  BY <1>1, <1>2, ReadsKeeps
<1>3. CASE Stored(r.cur)
  <2>1. doc \in Docs
    BY <1>1, <1>3, EntityFine, ProjectTyped
  <2>2. r.op \in {"createAnswer", "update", "deleteAnswer", "deleteQuestion"}
    BY <1>1, OpOfPc
  <2> HIDE DEF doc
  <2>3. /\ r1 \in Requests /\ r1.op = r.op /\ r1.id = r.id /\ r1.target = r.target
        /\ r1.snap = r.snap /\ r1.pc = "sync" /\ r1.cur = r.cur
    BY <1>1, <2>1 DEF Requests, Pcs
  <2> HIDE DEF r1
  <2>4. RequestFine(r1, age)
    BY <1>1, <2>2, <2>3, LaterFine DEF PcsOf, Early
  <2>5. QED
    BY <1>1, <2>3, <2>4, ReadsKeeps DEF Early
<1>4. QED
  BY <1>2, <1>3

LEMMA SyncDocKeeps == ASSUME TreeInv, NEW w \in Workers, SyncDoc(w) PROVE TreeInv'
<1> DEFINE r == req[w]
           new == IF r.op = "createAnswer" THEN r.doc ELSE Merge(index[r.cur], r.doc)
           r1 == [r EXCEPT !.cur = None, !.doc = NoDoc, !.pc = "strip"]
<1>1. /\ RequestFine(r, age) /\ r \in Requests /\ r.pc = "sync" /\ r.cur \in Ids
      /\ Publish(r.cur, new) /\ UNCHANGED <<Store, overlapped>>
  BY TreeFacts DEF SyncDoc, At, RequestFine
<1>2. new \in Docs \union {NoRow}
  <2>1. r.doc \in Docs /\ index[r.cur] \in Docs \union {NoRow}
    BY <1>1, TreeFacts DEF Requests
  <2>2. QED
    BY <2>1, MergeTyped
<1> HIDE DEF new
<1>3. CASE r.op # "deleteQuestion"
  <2>1. Become(w, Idle)
    BY <1>3 DEF SyncDoc, Finish
  <2>2. Idle.id = None /\ Idle.pc \notin Early
    BY DEF Idle, Early
  <2>3. QED
    BY <1>1, <1>2, <2>1, <2>2, IdleFine, PublishingKeeps
<1>4. CASE r.op = "deleteQuestion"
  <2>1. Become(w, r1)
    BY <1>4 DEF SyncDoc
  <2>2. NoDoc \in Docs /\ "strip" \in Pcs
    BY DEF NoDoc, Docs, Pcs
  <2>3. /\ r1 \in Requests /\ r1.op = r.op /\ r1.id = r.id /\ r1.target = r.target
        /\ r1.snap = r.snap /\ r1.pc = "strip"
    BY <1>1, <2>2 DEF Requests
  <2> HIDE DEF r1
  <2>4. RequestFine(r1, age)
    BY <1>1, <1>4, <2>3, LaterFine DEF PcsOf, Early
  <2>5. QED
    BY <1>1, <1>2, <2>1, <2>3, <2>4, PublishingKeeps DEF Early
<1>5. QED
  BY <1>3, <1>4

LEMMA UnindexKeeps == ASSUME TreeInv, NEW w \in Workers, Unindex(w) PROVE TreeInv'
<1> DEFINE r == req[w]
           r1 == [r EXCEPT !.pc = "readList"]
<1>1. /\ RequestFine(r, age) /\ r \in Requests /\ r.pc = "unindex"
      /\ r.op \in {"deleteAnswer", "deleteQuestion"}
      /\ Publish(r.id, NoRow) /\ UNCHANGED <<Store, overlapped>>
  BY TreeFacts, OpOfPc DEF Unindex, At, RequestFine
<1>2. r.id \in Ids
  BY <1>1 DEF RequestFine, Ids
<1>3. CASE r.op = "deleteQuestion"
  <2>1. Become(w, Idle)
    BY <1>3 DEF Unindex, Finish
  <2>2. Idle.id = None /\ Idle.pc \notin Early
    BY DEF Idle, Early
  <2>3. QED
    BY <1>1, <1>2, <2>1, <2>2, IdleFine, PublishingKeeps
<1>4. CASE r.op = "deleteAnswer"
  <2>1. Become(w, r1)
    BY <1>4 DEF Unindex
  <2>2. /\ r1 \in Requests /\ r1.op = r.op /\ r1.id = r.id /\ r1.target = r.target
        /\ r1.snap = r.snap /\ r1.pc = "readList"
    BY <1>1 DEF Requests, Pcs
  <2> HIDE DEF r1
  <2>3. RequestFine(r1, age)
    BY <1>1, <1>4, <2>2, LaterFine DEF PcsOf, Early
  <2>4. QED
    BY <1>1, <1>2, <2>1, <2>2, <2>3, PublishingKeeps DEF Early
<1>5. QED
  BY <1>1, <1>3, <1>4

LEMMA UnindexAnswerKeeps == ASSUME TreeInv, NEW w \in Workers, UnindexAnswer(w) PROVE TreeInv'
<1> DEFINE r == req[w]
<1>1. RequestFine(r, age) /\ r \in Requests /\ r.pc = "unindexAnswers" /\ r.op = "deleteQuestion"
  BY TreeFacts, OpOfPc DEF UnindexAnswer, At, RequestFine
<1>2. PICK b \in r.todo : Publish(b, NoRow) /\ Become(w, [r EXCEPT !.todo = @ \ {b}])
  BY DEF UnindexAnswer
<1> DEFINE r1 == [r EXCEPT !.todo = @ \ {b}]
<1>3. b \in Ids
  BY <1>1 DEF Requests
<1>4. /\ r1 \in Requests /\ r1.op = r.op /\ r1.id = r.id /\ r1.target = r.target
      /\ r1.snap = r.snap /\ r1.pc = r.pc
  BY <1>1 DEF Requests
<1> HIDE DEF r1
<1>5. RequestFine(r1, age)
  BY <1>1, <1>4, LaterFine DEF PcsOf, Early
<1>6. UNCHANGED <<Store, overlapped>> /\ Become(w, r1)
  BY <1>2 DEF UnindexAnswer, r1
<1>7. QED
  BY <1>1, <1>2, <1>3, <1>4, <1>5, <1>6, PublishingKeeps DEF Early

-----------------------------------------------------------------------------
(***************************************************************************)
(* The steps of deleteAnswer.                                              *)
(***************************************************************************)
LEMMA RemoveAnswerKeeps == ASSUME TreeInv, NEW w \in Workers, RemoveAnswer(w) PROVE TreeInv'
<1> DEFINE r == req[w]
           d == [db EXCEPT ![r.id] = NoRow]
           r1 == [r EXCEPT !.pc = "unindex"]
<1>1. RequestFine(r, age) /\ r \in Requests /\ r.pc = "remove" /\ r.op = "deleteAnswer"
  BY TreeFacts DEF RemoveAnswer, At, RequestFine
<1>2. CASE ~Stored(r.id)
  BY <1>2, ReadsKeeps DEF RemoveAnswer
<1>3. CASE Stored(r.id)
  <2>1. Writes(w, d, r1) /\ UNCHANGED <<age, clock>>
    BY <1>3 DEF RemoveAnswer
  <2>2. /\ r1 \in Requests /\ r1.op = r.op /\ r1.id = r.id /\ r1.target = r.target
        /\ r1.snap = r.snap /\ r1.pc = "unindex"
    BY <1>1 DEF Requests, Pcs
  <2>3. /\ d \in [Ids -> Contents \union {NoRow}]
        /\ \A x \in Ids : d[x] = db[x] \/ d[x] = NoRow
    BY TreeFacts
  <2> HIDE DEF r1, d
  <2>4. RequestFine(r1, age)
    BY <1>1, <2>2, LaterFine DEF PcsOf, Early
  <2>5. QED
    BY <2>1, <2>2, <2>3, <2>4, WritingKeeps DEF Early
<1>4. QED
  BY <1>2, <1>3

LEMMA ReadListKeeps == ASSUME TreeInv, NEW w \in Workers, ReadList(w) PROVE TreeInv'
<1> DEFINE r == req[w]
           list == Entity(r.target).answers \ {r.id}
           r1 == [r EXCEPT !.list = list, !.pc = "writeList"]
<1>1. /\ RequestFine(r, age) /\ r \in Requests /\ r.pc = "readList" /\ r.op = "deleteAnswer"
      /\ Reads(w, Stored(r.target), r1)
  BY TreeFacts, OpOfPc DEF ReadList, At, RequestFine
<1>2. CASE ~Stored(r.target)
  BY <1>1, <1>2, ReadsKeeps
<1>3. CASE Stored(r.target)
  <2>1. list \in SUBSET Answers
    <3>1. r.target \in Ids
      BY <1>1 DEF RequestFine, Ids
    <3>2. Entity(r.target) \in Contents
      BY <1>3, <3>1, EntityFine
    <3>3. QED
      BY <3>2 DEF Contents
  <2> HIDE DEF list
  <2>2. /\ r1 \in Requests /\ r1.op = r.op /\ r1.id = r.id /\ r1.target = r.target
        /\ r1.snap = r.snap /\ r1.pc = "writeList"
    BY <1>1, <2>1 DEF Requests, Pcs
  <2> HIDE DEF r1
  <2>3. RequestFine(r1, age)
    BY <1>1, <2>2, LaterFine DEF PcsOf, Early
  <2>4. QED
    BY <1>1, <2>2, <2>3, ReadsKeeps DEF Early
<1>4. QED
  BY <1>2, <1>3

LEMMA WriteListKeeps == ASSUME TreeInv, NEW w \in Workers, WriteList(w) PROVE TreeInv'
<1> DEFINE r == req[w]
           q == r.target
           d == IF backend = "mongo" THEN [db EXCEPT ![q].answers = r.list] ELSE db
           r1 == [r EXCEPT !.cur = q, !.list = {}, !.pc = "reread"]
<1>1. RequestFine(r, age) /\ r \in Requests /\ r.pc = "writeList" /\ r.op = "deleteAnswer"
  BY TreeFacts, OpOfPc DEF WriteList, At, RequestFine
<1>2. CASE ~Stored(q)
  BY <1>2, ReadsKeeps DEF WriteList
<1>3. CASE Stored(q)
  <2>1. Writes(w, d, r1) /\ UNCHANGED <<age, clock>>
    BY <1>3 DEF WriteList
  <2>2. q \in Ids /\ r.list \in SUBSET Answers /\ r.target \in Questions
    BY <1>1 DEF RequestFine, Requests, Ids
  <2>3. /\ r1 \in Requests /\ r1.op = r.op /\ r1.id = r.id /\ r1.target = r.target
        /\ r1.snap = r.snap /\ r1.pc = "reread" /\ r1.cur = q
    BY <1>1, <2>2 DEF Requests, Pcs
  <2>4. /\ d \in [Ids -> Contents \union {NoRow}]
        /\ \A x \in Ids : d[x] = db[x] \/ d[x] = NoRow \/ ContentFine(x, d[x], age)
    <3> DEFINE c == [db[q] EXCEPT !.answers = r.list]
    <3>1. ContentFine(q, db[q], age)
      BY <1>3, <2>2, TreeFacts
    <3>2. /\ c \in Contents
          /\ c.anc = db[q].anc /\ c.parent = db[q].parent /\ c.question = db[q].question
      BY <2>2, <3>1 DEF ContentFine, Contents
    <3>3. d = IF backend = "mongo" THEN [db EXCEPT ![q] = c] ELSE db
      OBVIOUS
    <3> HIDE DEF c, d
    <3>4. ContentFine(q, c, age)
      BY <3>1, <3>2 DEF ContentFine
    <3>5. QED
      BY <2>2, <3>2, <3>3, <3>4, TreeFacts
  <2> HIDE DEF r1, d
  <2>5. RequestFine(r1, age)
    BY <1>1, <2>2, <2>3, LaterFine DEF PcsOf, Early
  <2>6. QED
    BY <2>1, <2>3, <2>4, <2>5, WritingKeeps DEF Early
<1>4. QED
  BY <1>2, <1>3

-----------------------------------------------------------------------------
(***************************************************************************)
(* The steps of deleteQuestion.  What a scan remembers of a chain names    *)
(* older contents only, so that it may be written back at any later time.  *)
(***************************************************************************)
LEMMA ListAnswersKeeps == ASSUME TreeInv, NEW w \in Workers, ListAnswers(w) PROVE TreeInv'
<1> DEFINE r == req[w]
           todo == AnswersOf(r.id)
           r1 == [r EXCEPT !.todo = todo, !.pc = "unindexAnswers"]
<1>1. /\ RequestFine(r, age) /\ r \in Requests /\ r.pc = "listAnswers"
      /\ r.op = "deleteQuestion" /\ Reads(w, TRUE, r1)
  BY TreeFacts, OpOfPc DEF ListAnswers, At, RequestFine
<1>2. todo \in SUBSET Ids
  BY DEF AnswersOf, Ids
<1> HIDE DEF todo
<1>3. /\ r1 \in Requests /\ r1.op = r.op /\ r1.id = r.id /\ r1.target = r.target
      /\ r1.snap = r.snap /\ r1.pc = "unindexAnswers"
  BY <1>1, <1>2 DEF Requests, Pcs
<1> HIDE DEF r1
<1>4. RequestFine(r1, age)
  BY <1>1, <1>3, LaterFine DEF PcsOf, Early
<1>5. QED
  BY <1>1, <1>3, <1>4, ReadsKeeps DEF Early

LEMMA ScanFine ==
    ASSUME TreeInv, NEW r, RequestFine(r, age), NEW X \in SUBSET Ids,
           \A x \in X : Stored(x)
    PROVE  /\ Scan(r, X) \in Requests
           /\ Scan(r, X).op = r.op /\ Scan(r, X).id = r.id /\ Scan(r, X).target = r.target
           /\ Scan(r, X).todo = r.todo \union X /\ Scan(r, X).pc = r.pc
           /\ Scan(r, X).phase = r.phase
           /\ \A x \in Ids : /\ Scan(r, X).snap[x] = IF x \in X THEN db[x].anc ELSE r.snap[x]
                             /\ Grown(x, Scan(r, X).snap[x], age)
<1> DEFINE todo == r.todo \union X
           snap == [x \in Ids |-> IF x \in X THEN db[x].anc ELSE r.snap[x]]
           r1 == [r EXCEPT !.todo = todo, !.snap = snap]
<1>0. r \in Requests
  BY DEF RequestFine
<1>1. Scan(r, X) = r1
  BY DEF Scan
<1>2. \A x \in Ids : Grown(x, snap[x], age)
  BY TreeFacts DEF ContentFine, RequestFine
<1>3. snap \in [Ids -> Chains] /\ todo \in SUBSET Ids
  BY <1>0, <1>2 DEF Grown, ChainFine, Requests
<1>4. \A x \in Ids : snap[x] = IF x \in X THEN db[x].anc ELSE r.snap[x]
  OBVIOUS
<1>5. todo = r.todo \union X
  OBVIOUS
<1> HIDE DEF snap, todo
<1>6. /\ r1 \in Requests /\ r1.op = r.op /\ r1.id = r.id /\ r1.target = r.target
      /\ r1.todo = todo /\ r1.snap = snap /\ r1.pc = r.pc /\ r1.phase = r.phase
  BY <1>0, <1>3 DEF Requests
<1> HIDE DEF r1
<1>7. QED
  BY <1>1, <1>2, <1>4, <1>5, <1>6

LEMMA ListChildrenKeeps == ASSUME TreeInv, NEW w \in Workers, ListChildren(w) PROVE TreeInv'
<1> DEFINE r == req[w]
           X == {x \in Questions : Stored(x) /\ db[x].parent = r.id}
           s == Scan(r, X)
           r1 == [s EXCEPT !.pc = "strip"]
<1>1. /\ RequestFine(r, age) /\ r.pc = "unindexAnswers" /\ r.op = "deleteQuestion"
      /\ Reads(w, TRUE, r1)
  BY TreeFacts, OpOfPc DEF ListChildren, At
<1>2. X \in SUBSET Ids /\ \A x \in X : Stored(x)
  BY DEF Ids
<1> HIDE DEF X
<1>3. /\ s \in Requests /\ s.op = r.op /\ s.id = r.id /\ s.target = r.target
      /\ \A x \in Ids : Grown(x, s.snap[x], age)
  BY <1>1, <1>2, ScanFine
<1> HIDE DEF s
<1>4. /\ r1 \in Requests /\ r1.op = r.op /\ r1.id = r.id /\ r1.target = r.target
      /\ r1.snap = s.snap /\ r1.pc = "strip"
  BY <1>3 DEF Requests, Pcs
<1> HIDE DEF r1
<1>5. RequestFine(r1, age)
  BY <1>1, <1>3, <1>4, LaterFine DEF PcsOf, Early
<1>6. QED
  BY <1>1, <1>4, <1>5, ReadsKeeps DEF Early

LEMMA ScanQuestionsKeeps == ASSUME TreeInv, NEW w \in Workers, ScanQuestions(w) PROVE TreeInv'
<1> DEFINE r == req[w]
           X == Naming(r.id, Questions)
           s == Scan(r, X)
           r1 == [s EXCEPT !.pc = "scanAnswers"]
<1>1. /\ RequestFine(r, age) /\ r.pc = "strip" /\ r.op = "deleteQuestion"
      /\ Reads(w, TRUE, r1)
  BY TreeFacts, OpOfPc DEF ScanQuestions, At
<1>2. X \in SUBSET Ids /\ \A x \in X : Stored(x)
  BY DEF Naming, Ids
<1> HIDE DEF X
<1>3. /\ s \in Requests /\ s.op = r.op /\ s.id = r.id /\ s.target = r.target
      /\ \A x \in Ids : Grown(x, s.snap[x], age)
  BY <1>1, <1>2, ScanFine
<1> HIDE DEF s
<1>4. /\ r1 \in Requests /\ r1.op = r.op /\ r1.id = r.id /\ r1.target = r.target
      /\ r1.snap = s.snap /\ r1.pc = "scanAnswers"
  BY <1>3 DEF Requests, Pcs
<1> HIDE DEF r1
<1>5. RequestFine(r1, age)
  BY <1>1, <1>3, <1>4, LaterFine DEF PcsOf, Early
<1>6. QED
  BY <1>1, <1>4, <1>5, ReadsKeeps DEF Early

LEMMA ScanAnswersKeeps == ASSUME TreeInv, NEW w \in Workers, ScanAnswers(w) PROVE TreeInv'
<1> DEFINE r == req[w]
           X == Naming(r.id, Answers)
           s == Scan(r, X)
           r1 == [s EXCEPT !.pc = "strip", !.phase = "all"]
<1>1. /\ RequestFine(r, age) /\ r.pc = "scanAnswers" /\ r.op = "deleteQuestion"
      /\ Reads(w, TRUE, r1)
  BY TreeFacts, OpOfPc DEF ScanAnswers, At
<1>2. X \in SUBSET Ids /\ \A x \in X : Stored(x)
  BY DEF Naming, Ids
<1> HIDE DEF X
<1>3. /\ s \in Requests /\ s.op = r.op /\ s.id = r.id /\ s.target = r.target
      /\ \A x \in Ids : Grown(x, s.snap[x], age)
  BY <1>1, <1>2, ScanFine
<1> HIDE DEF s
<1>4. /\ r1 \in Requests /\ r1.op = r.op /\ r1.id = r.id /\ r1.target = r.target
      /\ r1.snap = s.snap /\ r1.pc = "strip"
  <2>1. "strip" \in Pcs
    BY DEF Pcs
  <2>2. QED
    BY <1>3, <2>1 DEF Requests
<1> HIDE DEF r1
<1>5. RequestFine(r1, age)
  BY <1>1, <1>3, <1>4, LaterFine DEF PcsOf, Early
<1>6. QED
  BY <1>1, <1>4, <1>5, ReadsKeeps DEF Early

LEMMA StrippedFine ==
    ASSUME NEW r, NEW x \in Ids, NEW a, Grown(x, r.snap[x], a)
    PROVE  /\ Grown(x, Stripped(r, x), a)
           /\ IdsOf(Stripped(r, x)) = IdsOf(r.snap[x]) \ {r.id}
<1>1. /\ ChainFine(Without(r.snap[x], r.id))
      /\ IdsOf(Without(r.snap[x], r.id)) = IdsOf(r.snap[x]) \ {r.id}
  BY WithoutFine DEF Grown
<1>2. /\ ChainFine(Stripped(r, x))
      /\ IdsOf(Stripped(r, x)) = IdsOf(r.snap[x]) \ {r.id}
  BY <1>1, ReindexedFine DEF Stripped
<1>3. QED
  BY <1>2 DEF Grown

LEMMA StripKeeps == ASSUME TreeInv, NEW w \in Workers, Strip(w) PROVE TreeInv'
<1> DEFINE r == req[w]
<1>1. RequestFine(r, age) /\ r \in Requests /\ r.pc = "strip" /\ r.op = "deleteQuestion"
  BY TreeFacts, OpOfPc DEF Strip, At, RequestFine
<1>2. PICK y \in r.todo :
        IF Stored(y)
        THEN Writes(w, [db EXCEPT ![y].anc = Stripped(r, y)],
                    [r EXCEPT !.todo = @ \ {y}, !.snap[y] = {}, !.cur = y, !.pc = "reread"])
             /\ UNCHANGED <<age, clock>>
        ELSE Reads(w, FALSE, Idle)
  BY DEF Strip
<1>3. y \in Ids
  BY <1>1 DEF Requests
<1>4. CASE ~Stored(y)
  BY <1>2, <1>4, ReadsKeeps
<1>5. CASE Stored(y)
  <2> DEFINE anc == Stripped(r, y)
             d == [db EXCEPT ![y].anc = anc]
             todo == r.todo \ {y}
             snap == [r.snap EXCEPT ![y] = {}]
             r1 == [r EXCEPT !.todo = todo, !.snap = snap, !.cur = y, !.pc = "reread"]
  <2>1. Writes(w, d, r1) /\ UNCHANGED <<age, clock>>
    <3>1. r1 = [r EXCEPT !.todo = @ \ {y}, !.snap[y] = {}, !.cur = y, !.pc = "reread"]
      BY <1>1 DEF Requests
    <3> HIDE DEF r1
    <3>2. QED
      BY <1>2, <1>5, <3>1
  <2>2. /\ snap \in [Ids -> Chains] /\ todo \in SUBSET Ids
        /\ \A x \in Ids : snap[x] = IF x = y THEN {} ELSE r.snap[x]
    BY <1>1 DEF Requests, Chains
  <2>3. Grown(y, anc, age)
    BY <1>1, <1>3, StrippedFine DEF RequestFine
  <2> HIDE DEF snap, todo, anc
  <2>4. /\ r1 \in Requests /\ r1.op = r.op /\ r1.id = r.id /\ r1.target = r.target
        /\ r1.snap = snap /\ r1.pc = "reread" /\ r1.cur = y
    <3>1. "reread" \in Pcs
      BY DEF Pcs
    <3>2. QED
      BY <1>1, <1>3, <2>2, <3>1 DEF Requests
  <2>5. \A x \in Ids : r1.snap[x] = r.snap[x] \/ Grown(x, r1.snap[x], age)
    BY <2>2, <2>4, EmptyChainFine DEF Grown
  <2>6. /\ d \in [Ids -> Contents \union {NoRow}]
        /\ \A x \in Ids : d[x] = db[x] \/ d[x] = NoRow \/ ContentFine(x, d[x], age)
    <3> DEFINE c == [db[y] EXCEPT !.anc = anc]
    <3>1. ContentFine(y, db[y], age)
      BY <1>3, <1>5, TreeFacts
    <3>2. /\ c \in Contents
          /\ c.anc = anc /\ c.parent = db[y].parent /\ c.question = db[y].question
      BY <2>3, <3>1 DEF ContentFine, Contents, Grown, ChainFine
    <3>3. d = [db EXCEPT ![y] = c]
      OBVIOUS
    <3> HIDE DEF c, d
    <3>4. ContentFine(y, c, age)
      BY <2>3, <3>1, <3>2 DEF ContentFine
    <3>5. QED
      BY <1>3, <3>2, <3>3, <3>4, TreeFacts
  <2> HIDE DEF r1, d
  <2>7. RequestFine(r1, age)
    BY <1>1, <1>3, <2>4, <2>5, LaterFine DEF PcsOf, Early
  <2>8. QED
    BY <2>1, <2>4, <2>6, <2>7, WritingKeeps DEF Early
<1>6. QED
  BY <1>4, <1>5

LEMMA DropFine ==
    ASSUME TreeInv, NEW X
    PROVE  /\ Drop(X) \in [Ids -> Contents \union {NoRow}]
           /\ \A x \in Ids : Drop(X)[x] = db[x] \/ Drop(X)[x] = NoRow
BY TreeFacts DEF Drop

LEMMA PrepareDeleteKeeps == ASSUME TreeInv, NEW w \in Workers, PrepareDelete(w) PROVE TreeInv'
<1> DEFINE r == req[w]
           d == IF backend = "mongo" THEN Drop(AnswersOf(r.id)) ELSE db
           r1 == [r EXCEPT !.pc = "remove"]
<1>1. /\ RequestFine(r, age) /\ r \in Requests /\ r.pc = "strip" /\ r.op = "deleteQuestion"
      /\ Writes(w, d, r1) /\ UNCHANGED <<age, clock>>
  BY TreeFacts, OpOfPc DEF PrepareDelete, At, RequestFine
<1>2. /\ r1 \in Requests /\ r1.op = r.op /\ r1.id = r.id /\ r1.target = r.target
      /\ r1.snap = r.snap /\ r1.pc = "remove"
  BY <1>1 DEF Requests, Pcs
<1>3. /\ d \in [Ids -> Contents \union {NoRow}]
      /\ \A x \in Ids : d[x] = db[x] \/ d[x] = NoRow
  BY DropFine, TreeFacts
<1> HIDE DEF r1, d
<1>4. RequestFine(r1, age)
  BY <1>1, <1>2, LaterFine DEF PcsOf, Early
<1>5. QED
  BY <1>1, <1>2, <1>3, <1>4, WritingKeeps DEF Early

LEMMA RemoveQuestionKeeps == ASSUME TreeInv, NEW w \in Workers, RemoveQuestion(w) PROVE TreeInv'
<1> DEFINE r == req[w]
           d == Drop({r.id} \union IF backend = "postgres" THEN AnswersOf(r.id) ELSE {})
           r1 == [r EXCEPT !.pc = "unindex"]
<1>1. RequestFine(r, age) /\ r \in Requests /\ r.pc = "remove" /\ r.op = "deleteQuestion"
  BY TreeFacts DEF RemoveQuestion, At, RequestFine
<1>2. CASE ~Stored(r.id)
  BY <1>2, ReadsKeeps DEF RemoveQuestion
<1>3. CASE Stored(r.id)
  <2>1. Writes(w, d, r1) /\ UNCHANGED <<age, clock>>
    BY <1>3 DEF RemoveQuestion
  <2>2. /\ r1 \in Requests /\ r1.op = r.op /\ r1.id = r.id /\ r1.target = r.target
        /\ r1.snap = r.snap /\ r1.pc = "unindex"
    BY <1>1 DEF Requests, Pcs
  <2>3. /\ d \in [Ids -> Contents \union {NoRow}]
        /\ \A x \in Ids : d[x] = db[x] \/ d[x] = NoRow
    BY DropFine
  <2> HIDE DEF r1, d
  <2>4. RequestFine(r1, age)
    BY <1>1, <2>2, LaterFine DEF PcsOf, Early
  <2>5. QED
    BY <2>1, <2>2, <2>3, <2>4, WritingKeeps DEF Early
<1>4. QED
  BY <1>2, <1>3

LEMMA FailKeeps == ASSUME TreeInv, NEW w \in Workers, Fail(w) PROVE TreeInv'
<1>1. failures' \in 0..MaxFailures
  BY TreeFacts, MaxFailuresAssumption DEF Fail, Failure
<1>2. QED
  BY <1>1, FinishKeeps, TreeFacts DEF Fail

-----------------------------------------------------------------------------
LEMMA TreeInit == Init => TreeInv
<1> SUFFICES ASSUME Init PROVE TreeInv
  OBVIOUS
<1>1. TypeOK
  <2>1. req \in [Workers -> Requests]
    BY IdleTyped DEF Init
  <2>2. failures \in 0..MaxFailures
    BY MaxFailuresAssumption DEF Init
  <2>3. QED
    BY <2>1, <2>2 DEF Init, TypeOK
<1>2. \A w \in Workers : RequestFine(req[w], age)
  BY IdleFine DEF Init
<1>3. IdsApart
  BY DEF Init, Idle, IdsApart, Early
<1>4. QED
  BY <1>1, <1>2, <1>3 DEF Init, TreeInv, Stored

LEMMA TreeStutter == ASSUME TreeInv, UNCHANGED vars PROVE TreeInv'
<1>1. TypeOK' /\ IdsApart'
  BY DEF TreeInv, TypeOK, IdsApart, vars
<1>2. \A x \in Ids : (age[x] <= clock)' /\ (Stored(x) => ContentFine(x, db[x], age))'
  BY DEF TreeInv, vars, Stored, ContentFine, Grown, Older, ParentOlder
<1>3. \A w \in Workers : RequestFine(req[w], age)'
  BY DEF TreeInv, vars, RequestFine, Grown, Older, ParentOlder
<1>4. QED
  BY <1>1, <1>2, <1>3 DEF TreeInv

LEMMA TreeNext == TreeInv /\ [Next]_vars => TreeInv'
<1> SUFFICES ASSUME TreeInv, [Next]_vars PROVE TreeInv'
  OBVIOUS
<1>1. CASE UNCHANGED vars
  BY <1>1, TreeStutter
<1>2. ASSUME NEW w \in Workers, Start(w) PROVE TreeInv'
  BY <1>2, StartCreateQuestionKeeps, StartCreateAnswerKeeps, StartUpdateKeeps,
     StartDeleteAnswerKeeps, StartDeleteQuestionKeeps DEF Start
<1>3. ASSUME NEW w \in Workers, Step(w) PROVE TreeInv'
  <2>1. CASE \/ ReadParent(w) \/ ReadParentQuestion(w) \/ InsertQuestion(w)
             \/ HookAnswer(w) \/ MongoInsertAnswer(w) \/ PostgresInsertAnswer(w) \/ IndexNew(w)
    BY <2>1, ReadParentKeeps, ReadParentQuestionKeeps, InsertQuestionKeeps, HookAnswerKeeps,
       MongoInsertAnswerKeeps, PostgresInsertAnswerKeeps, IndexNewKeeps
  <2>2. CASE \/ Reread(w) \/ SyncDoc(w)
             \/ RemoveAnswer(w) \/ Unindex(w) \/ ReadList(w) \/ WriteList(w) \/ Fail(w)
    BY <2>2, RereadKeeps, SyncDocKeeps, RemoveAnswerKeeps, UnindexKeeps, ReadListKeeps,
       WriteListKeeps, FailKeeps
  <2>3. CASE \/ ListAnswers(w) \/ UnindexAnswer(w) \/ ListChildren(w) \/ Strip(w)
             \/ ScanQuestions(w) \/ ScanAnswers(w) \/ PrepareDelete(w) \/ RemoveQuestion(w)
    BY <2>3, ListAnswersKeeps, UnindexAnswerKeeps, ListChildrenKeeps, StripKeeps,
       ScanQuestionsKeeps, ScanAnswersKeeps, PrepareDeleteKeeps, RemoveQuestionKeeps
  <2>4. QED
    BY <1>3, <2>1, <2>2, <2>3 DEF Step
<1>4. QED
  BY <1>1, <1>2, <1>3 DEF Next

LEMMA TreeInvariant == Spec => []TreeInv
BY TreeInit, TreeNext, PTL DEF Spec

(***************************************************************************)
(* Contents, search documents and requests keep their types, under every   *)
(* interleaving and failure: a chain has a root, no read of a missing row. *)
(***************************************************************************)
THEOREM TreeTyping == Spec => []TypeOK
<1>1. TreeInv => TypeOK
  BY DEF TreeInv
<1>2. QED
  BY <1>1, TreeInvariant, PTL

(***************************************************************************)
(* No chain names a content twice or gives two entries one depth, however  *)
(* many requests overlap and write back copies of chains.                  *)
(***************************************************************************)
THEOREM ChainsStayWellFormed == Spec => []ChainsWellFormed
<1>1. TreeInv => ChainsWellFormed
  BY DEF TreeInv, ContentFine, Grown, ChainFine, ChainsWellFormed
<1>2. QED
  BY <1>1, TreeInvariant, PTL

(***************************************************************************)
(* Parents and ancestors got their ids before the content did: nobody      *)
(* descends from himself, although createQuestion skips its cycle check.   *)
(***************************************************************************)
THEOREM AncestorsStayOlder == Spec => []AncestorsAreOlder
<1>1. TreeInv => AncestorsAreOlder
  <2> SUFFICES ASSUME TreeInv, NEW x \in Ids, Stored(x),
                      NEW y \in IdsOf(db[x].anc) \union ({db[x].parent} \ {None})
               PROVE  0 < age[y] /\ age[y] < age[x]
    BY DEF AncestorsAreOlder
  <2>1. ContentFine(x, db[x], age)
    BY TreeFacts
  <2>2. QED
    BY <2>1 DEF ContentFine, Grown, ParentOlder, Older
<1>2. QED
  BY <1>1, TreeInvariant, PTL

-----------------------------------------------------------------------------
(***************************************************************************)
(* Requests that do not overlap.  What the request in progress has read is *)
(* still so (StillSo); the database is in order but for what the request   *)
(* is about to put right (InOrder).  d, f: the rows and the failures, now  *)
(* or after a step.                                                        *)
(***************************************************************************)
HasRow(d, x) == d[x] # NoRow
AnswersIn(d, q) == {a \in Answers : HasRow(d, a) /\ d[a].question = q}
Names(d, x, y) == HasRow(d, x) /\ y \in IdsOf(d[x].anc)

StillSo(r, d, f) ==
    /\ r.op = "createAnswer" /\ r.pc \in Early \union {"insert"} => HasRow(d, r.target)
    /\ r.pc \in {"save", "insert"} => \A y \in IdsOf(r.anc) \intersect Questions : HasRow(d, y)
    /\ r.pc = "insert" => ~HasRow(d, r.id) /\ r.id \in d[r.target].answers
    /\ r.op = "deleteAnswer" /\ r.pc = "remove" => HasRow(d, r.id) /\ d[r.id].question = r.target
    /\ r.op = "deleteAnswer" /\ r.pc \in {"unindex", "readList", "writeList"} => ~HasRow(d, r.id)
    /\ r.pc = "writeList" /\ backend = "mongo" =>
          /\ AnswersIn(d, r.target) \subseteq r.list
          /\ f = 0 => r.list \subseteq AnswersIn(d, r.target)
    /\ r.pc \in {"listAnswers", "unindexAnswers"} => r.phase = "children"
    /\ r.op = "deleteQuestion" /\ r.pc \in {"strip", "scanAnswers", "reread", "sync"} =>
          \A x \in r.todo : HasRow(d, x) /\ r.snap[x] = d[x].anc
    /\ r.pc = "scanAnswers" => \A x \in Questions : Names(d, x, r.id) => x \in r.todo
    /\ r.op = "deleteQuestion" /\ r.phase = "all" /\ r.pc \in {"strip", "reread", "sync"} =>
          \A x \in Ids : Names(d, x, r.id) => x \in r.todo
    /\ r.op = "deleteQuestion" /\ r.pc = "remove" =>
          /\ \A x \in Ids : ~Names(d, x, r.id)
          /\ backend = "mongo" => AnswersIn(d, r.id) = {}

\* q may list a although a is not stored: a is being made or deleted, or q deleted.
Excused(r, q, a) ==
    \/ /\ r.target = q /\ r.id = a
       /\ \/ r.pc = "insert"
          \/ r.op = "deleteAnswer" /\ r.pc \in {"unindex", "readList", "writeList"}
    \/ r.op = "deleteQuestion" /\ r.pc = "remove" /\ r.id = q

KeysHold(d) == \A a \in Answers : HasRow(d, a) => HasRow(d, d[a].question)

InOrder(r, d, f) ==
    /\ KeysHold(d)
    /\ \A x \in Ids, y \in Questions : Names(d, x, y) => HasRow(d, y)
    /\ backend = "mongo" => \A q \in Questions : HasRow(d, q) =>
          /\ AnswersIn(d, q) \subseteq d[q].answers
          /\ f = 0 => \A a \in d[q].answers : a \in AnswersIn(d, q) \/ Excused(r, q, a)

Facts(r, d, f) == StillSo(r, d, f) /\ InOrder(r, d, f)

\* The requests in progress, or an idle one.
Current == IF Quiet THEN {Idle} ELSE {req[w] : w \in {v \in Workers : Active(v)}}

SerialInv ==
    /\ backend = "postgres" => KeysHold(db) /\ \A w \in Workers : req[w].pc # "insert"
    /\ ~overlapped => /\ \A v, w \in Workers : Active(v) /\ Active(w) => v = w
                      /\ \A r \in Current : Facts(r, db, failures)

LEMMA AnswersOfIn == ASSUME NEW q PROVE AnswersOf(q) = AnswersIn(db, q)
BY DEF AnswersOf, AnswersIn, Stored, HasRow

LEMMA IdleStillSo == ASSUME NEW d, NEW f PROVE StillSo(Idle, d, f)
BY DEF StillSo, Idle, Early

LEMMA IdleExcusesNone == ASSUME NEW q, NEW a PROVE ~Excused(Idle, q, a)
BY DEF Excused, Idle

(***************************************************************************)
(* One worker is active before the step, so the others stay idle.          *)
(***************************************************************************)
LEMMA SerialStep ==
    ASSUME TreeInv, SerialInv, NEW w \in Workers, Active(w), NEW r,
           req' = [req EXCEPT ![w] = r], backend' = backend, overlapped' = overlapped,
           r.pc = "idle" => r = Idle,
           backend = "postgres" /\ KeysHold(db) /\ req[w].pc # "insert" =>
               KeysHold(db') /\ r.pc # "insert",
           Facts(req[w], db, failures) => Facts(r, db', failures')
    PROVE  SerialInv'
<1>0. req \in [Workers -> Requests] /\ req'[w] = r /\ \A v \in Workers : v # w => req'[v] = req[v]
  BY TreeFacts
<1>1. (backend = "postgres" => KeysHold(db) /\ \A v \in Workers : req[v].pc # "insert")'
  <2>1. backend = "postgres" => KeysHold(db')
    BY DEF SerialInv
  <2>2. backend = "postgres" => \A v \in Workers : req'[v].pc # "insert"
    BY <1>0 DEF SerialInv
  <2>3. QED
    BY <2>1, <2>2 DEF KeysHold, HasRow
<1>2. ASSUME ~overlapped'
      PROVE  /\ \A v, u \in Workers : Active(v)' /\ Active(u)' => v = u
             /\ \A x \in Current' : Facts(x, db', failures')
  <2>1. /\ \A v \in Workers : v # w => ~Active(v)
        /\ Current = {req[w]} /\ Facts(req[w], db, failures)
    BY <1>2 DEF SerialInv, Current, Quiet
  <2>2. /\ \A v \in Workers : v # w => ~Active(v)'
        /\ Active(w)' <=> r.pc # "idle"
    BY <1>0, <2>1 DEF Active
  <2>3. Current' = {r}
    <3>1. CASE r.pc = "idle"
      <4>1. Quiet'
        BY <2>2, <3>1 DEF Quiet
      <4>2. Idle' = r
        BY <3>1 DEF Idle
      <4>3. QED
        BY <4>1, <4>2 DEF Current
    <3>2. CASE r.pc # "idle"
      BY <1>0, <2>2, <3>2 DEF Current, Quiet
    <3>3. QED
      BY <3>1, <3>2
  <2>4. QED
    BY <2>1, <2>2, <2>3
<1>3. (~overlapped =>
         /\ \A v, u \in Workers : Active(v) /\ Active(u) => v = u
         /\ \A x \in Current : Facts(x, db, failures))'
  BY <1>2 DEF Facts, StillSo, InOrder, Excused, KeysHold, Names, AnswersIn, HasRow
<1>4. QED
  BY <1>1, <1>3 DEF SerialInv

LEMMA SerialBegin ==
    ASSUME TreeInv, SerialInv, NEW w \in Workers, NEW r, Begin(w, r),
           r.pc \notin {"idle", "insert"},
           Facts(Idle, db, failures) => StillSo(r, db, failures)
    PROVE  SerialInv'
<1>0. /\ req \in [Workers -> Requests] /\ req' = [req EXCEPT ![w] = r] /\ ~Active(w)
      /\ UNCHANGED <<backend, db, failures>>
      /\ overlapped' = (overlapped \/ \E v \in Workers : Active(v))
  BY TreeFacts DEF Begin, Become, Store
<1>1. req'[w] = r /\ \A v \in Workers : v # w => req'[v] = req[v]
  BY <1>0
<1>2. (backend = "postgres" => KeysHold(db) /\ \A v \in Workers : req[v].pc # "insert")'
  <2>1. backend = "postgres" => KeysHold(db')
    BY <1>0 DEF SerialInv
  <2>2. backend = "postgres" => \A v \in Workers : req'[v].pc # "insert"
    BY <1>1 DEF SerialInv
  <2>3. QED
    BY <1>0, <2>1, <2>2 DEF KeysHold, HasRow
<1>3. ASSUME ~overlapped'
      PROVE  /\ \A v, u \in Workers : Active(v)' /\ Active(u)' => v = u
             /\ \A x \in Current' : Facts(x, db', failures')
  <2>1. Quiet /\ ~overlapped
    BY <1>0, <1>3 DEF Quiet
  <2>2. Facts(Idle, db, failures)
    BY <2>1 DEF SerialInv, Current
  <2>3. Facts(r, db, failures)
    BY <2>2, IdleExcusesNone DEF Facts, InOrder
  <2>4. (\A v \in Workers : v # w => ~Active(v)') /\ Active(w)'
    BY <1>1, <2>1 DEF Active, Quiet
  <2>5. Current' = {r}
    BY <1>1, <2>4 DEF Current, Quiet
  <2>6. QED
    BY <1>0, <2>3, <2>4, <2>5
<1>4. (~overlapped =>
         /\ \A v, u \in Workers : Active(v) /\ Active(u) => v = u
         /\ \A x \in Current : Facts(x, db, failures))'
  BY <1>0, <1>3 DEF Facts, StillSo, InOrder, Excused, KeysHold, Names, AnswersIn, HasRow
<1>5. QED
  BY <1>2, <1>4 DEF SerialInv

\* A step that leaves the rows alone.
LEMMA SerialReading ==
    ASSUME TreeInv, SerialInv, NEW w \in Workers, Active(w), NEW r,
           req' = [req EXCEPT ![w] = r], UNCHANGED Store, overlapped' = overlapped,
           failures' \in {failures, failures + 1},
           r.pc = "idle" => r = Idle, r.pc = "insert" => req[w].pc = "insert",
           Facts(req[w], db, failures) => StillSo(r, db, failures),
           \A q \in Questions, a \in Answers :
               HasRow(db, q) /\ Excused(req[w], q, a) /\ failures' = 0 => Excused(r, q, a)
    PROVE  SerialInv'
<1>0. UNCHANGED <<backend, db>> /\ failures \in Nat
  BY TreeFacts, MaxFailuresAssumption DEF Store
<1>1. failures' = 0 => failures = 0
  BY <1>0
<1>2. ASSUME Facts(req[w], db, failures) PROVE Facts(r, db', failures')
  <2>1. StillSo(r, db', failures')
    BY <1>0, <1>1, <1>2 DEF StillSo
  <2>2. \A q \in Questions : HasRow(db, q) => db[q].answers \in SUBSET Answers
    BY TreeFacts DEF HasRow, Stored, ContentFine, Contents, Ids
  <2>3. InOrder(r, db', failures')
    BY <1>0, <1>1, <1>2, <2>2 DEF Facts, InOrder
  <2>4. QED
    BY <2>1, <2>3 DEF Facts
<1>3. backend = "postgres" /\ KeysHold(db) /\ req[w].pc # "insert" =>
        KeysHold(db') /\ r.pc # "insert"
  BY <1>0
<1>4. QED
  BY <1>0, <1>2, <1>3, SerialStep

LEMMA SerialFinish ==
    ASSUME TreeInv, SerialInv, NEW w \in Workers, Active(w), Finish(w), UNCHANGED Store,
           overlapped' = overlapped, failures' \in {failures, failures + 1},
           \A q \in Questions, a \in Answers :
               HasRow(db, q) /\ failures' = 0 => ~Excused(req[w], q, a)
    PROVE  SerialInv'
<1>1. Idle.pc # "insert"
  BY DEF Idle
<1>2. QED
  BY <1>1, IdleStillSo, SerialReading DEF Finish, Become

LEMMA SerialReads ==
    ASSUME TreeInv, SerialInv, NEW w \in Workers, Active(w), NEW ok, NEW r, Reads(w, ok, r),
           ok => /\ r.pc # "idle" /\ (r.pc = "insert" => req[w].pc = "insert")
                 /\ Facts(req[w], db, failures) => StillSo(r, db, failures)
                 /\ \A q \in Questions, a \in Answers :
                        HasRow(db, q) /\ Excused(req[w], q, a) => Excused(r, q, a),
           ~ok => \A q \in Questions, a \in Answers : HasRow(db, q) => ~Excused(req[w], q, a)
    PROVE  SerialInv'
<1>1. UNCHANGED Store /\ overlapped' = overlapped /\ failures' \in {failures, failures + 1}
  BY DEF Reads
<1>2. CASE ok
  BY <1>1, <1>2, SerialReading DEF Reads, Become
<1>3. CASE ~ok
  BY <1>1, <1>3, SerialFinish DEF Reads
<1>4. QED
  BY <1>2, <1>3

LEMMA SerialPublishing ==
    ASSUME TreeInv, SerialInv, NEW w \in Workers, Active(w), NEW x, NEW doc, Publish(x, doc),
           UNCHANGED <<Store, overlapped>>, NEW r, Become(w, r),
           r.pc = "idle" => r = Idle, r.pc = "insert" => req[w].pc = "insert",
           Facts(req[w], db, failures) => StillSo(r, db, failures),
           \A q \in Questions, a \in Answers : Excused(req[w], q, a) => Excused(r, q, a)
    PROVE  SerialInv'
<1>1. failures' \in {failures, failures + 1}
  BY DEF Publish, Failure
<1>2. QED
  BY <1>1, SerialReading DEF Become

LEMMA SerialWriting ==
    ASSUME TreeInv, SerialInv, NEW w \in Workers, Active(w), NEW d, NEW r, Writes(w, d, r),
           r.pc # "idle",
           backend = "postgres" /\ KeysHold(db) /\ req[w].pc # "insert" =>
               KeysHold(d) /\ r.pc # "insert",
           Facts(req[w], db, failures) => Facts(r, d, failures)
    PROVE  SerialInv'
BY SerialStep DEF Writes, Become

\* Rows are contents, and an answer's question got its id first.
LEMMA RowFacts ==
    ASSUME TreeInv
    PROVE  /\ \A x \in Ids : HasRow(db, x) => db[x] \in Contents /\ age[x] > 0
           /\ \A x \in Ids : HasRow(db, x) => IdsOf(db[x].anc) \subseteq Ids
           /\ \A q \in Questions : HasRow(db, q) => db[q].answers \in SUBSET Answers
           /\ \A a \in Answers : HasRow(db, a) =>
                 db[a].question \in Questions /\ age[db[a].question] > 0
<1>1. ASSUME NEW x \in Ids, HasRow(db, x)
      PROVE  /\ db[x] \in Contents /\ age[x] > 0 /\ IdsOf(db[x].anc) \subseteq Ids
             /\ x \in Answers => db[x].question \in Questions /\ age[db[x].question] > 0
  <2>1. ContentFine(x, db[x], age)
    BY <1>1, TreeFacts DEF HasRow, Stored
  <2>2. QED
    BY <2>1, IdsAreIds DEF ContentFine, Grown, Older
<1>2. QED
  BY <1>1 DEF Contents, Ids

-----------------------------------------------------------------------------
LEMMA StartCreateQuestionSerial ==
    ASSUME TreeInv, SerialInv, NEW w \in Workers, NEW q \in Questions,
           NEW p \in Ids \union {None}, StartCreateQuestion(w, q, p)
    PROVE  SerialInv'
<1> DEFINE r == [Idle EXCEPT !.op = "createQuestion", !.id = q, !.parent = p,
                             !.pc = IF p = None THEN "save" ELSE "parent"]
<1>1. Begin(w, r)
  BY DEF StartCreateQuestion
<1>2. /\ r.op = "createQuestion" /\ r.anc = {}
      /\ r.pc \in {"save", "parent"}
  BY DEF Idle
<1> HIDE DEF r
<1>3. StillSo(r, db, failures)
  BY <1>2, EmptyChainFine DEF StillSo, Early
<1>4. QED
  BY <1>1, <1>2, <1>3, SerialBegin

LEMMA StartCreateAnswerSerial ==
    ASSUME TreeInv, SerialInv, NEW w \in Workers, NEW a \in Answers, NEW q \in Questions,
           NEW p \in Ids \union {None}, StartCreateAnswer(w, a, q, p)
    PROVE  SerialInv'
<1>0. HasRow(db, q) /\ q \in Ids
  BY DEF StartCreateAnswer, Stored, HasRow, Ids
<1>1. CASE p # None
  <2> DEFINE r == [Idle EXCEPT !.op = "createAnswer", !.id = a, !.target = q,
                               !.parent = p, !.pc = "parent"]
  <2>1. Begin(w, r)
    BY <1>1 DEF StartCreateAnswer
  <2>2. r.op = "createAnswer" /\ r.target = q /\ r.pc = "parent"
    BY DEF Idle
  <2> HIDE DEF r
  <2>3. StillSo(r, db, failures)
    BY <1>0, <2>2 DEF StillSo, Early
  <2>4. QED
    BY <2>1, <2>2, <2>3, SerialBegin
<1>2. CASE p = None
  <2> DEFINE anc == IF db[q].parent = None THEN {} ELSE ComputeAncestors(q, db[q].anc)
             r == [Idle EXCEPT !.op = "createAnswer", !.id = a, !.target = q,
                               !.parent = db[q].parent, !.pc = "save", !.anc = anc]
  <2>1. Begin(w, r)
    BY <1>2 DEF StartCreateAnswer
  <2>2. IdsOf(anc) \subseteq {q} \union IdsOf(db[q].anc)
    <3>1. ContentFine(q, db[q], age)
      BY <1>0, TreeFacts DEF HasRow, Stored
    <3>2. ChainFine(db[q].anc) /\ q \notin IdsOf(db[q].anc)
      BY <1>0, <3>1, TreeFacts DEF ContentFine, Grown, Older
    <3>3. QED
      BY <1>0, <3>2, ComputedFine, EmptyChainFine
  <2>3. r.op = "createAnswer" /\ r.target = q /\ r.pc = "save" /\ r.anc = anc
    BY DEF Idle
  <2> HIDE DEF r, anc
  <2>4. ASSUME InOrder(Idle, db, failures) PROVE StillSo(r, db, failures)
    <3>1. \A y \in IdsOf(db[q].anc) \intersect Questions : HasRow(db, y)
      BY <1>0, <2>4 DEF InOrder, Names
    <3>2. QED
      BY <1>0, <2>2, <2>3, <3>1 DEF StillSo, Early
  <2>5. QED
    BY <2>1, <2>3, <2>4, SerialBegin DEF Facts
<1>3. QED
  BY <1>1, <1>2

LEMMA StartUpdateSerial ==
    ASSUME TreeInv, SerialInv, NEW w \in Workers, NEW y \in Ids, StartUpdate(w, y)
    PROVE  SerialInv'
<1> DEFINE r == [Idle EXCEPT !.op = "update", !.cur = y, !.pc = "reread"]
<1>1. Begin(w, r)
  BY DEF StartUpdate
<1>2. r.op = "update" /\ r.pc = "reread"
  BY DEF Idle
<1> HIDE DEF r
<1>3. StillSo(r, db, failures)
  BY <1>2 DEF StillSo, Early
<1>4. QED
  BY <1>1, <1>2, <1>3, SerialBegin

LEMMA StartDeleteAnswerSerial ==
    ASSUME TreeInv, SerialInv, NEW w \in Workers, NEW a \in Answers, StartDeleteAnswer(w, a)
    PROVE  SerialInv'
<1> DEFINE r == [Idle EXCEPT !.op = "deleteAnswer", !.id = a, !.target = db[a].question,
                             !.pc = "remove"]
<1>1. Begin(w, r) /\ HasRow(db, a)
  BY DEF StartDeleteAnswer, Stored, HasRow
<1>2. r.op = "deleteAnswer" /\ r.id = a /\ r.target = db[a].question /\ r.pc = "remove"
  BY DEF Idle
<1> HIDE DEF r
<1>3. StillSo(r, db, failures)
  BY <1>1, <1>2 DEF StillSo, Early
<1>4. QED
  BY <1>1, <1>2, <1>3, SerialBegin

LEMMA StartDeleteQuestionSerial ==
    ASSUME TreeInv, SerialInv, NEW w \in Workers, NEW q \in Questions, StartDeleteQuestion(w, q)
    PROVE  SerialInv'
<1> DEFINE r == [Idle EXCEPT !.op = "deleteQuestion", !.id = q, !.pc = "listAnswers"]
<1>1. Begin(w, r)
  BY DEF StartDeleteQuestion
<1>2. r.op = "deleteQuestion" /\ r.pc = "listAnswers" /\ r.phase = "children"
  BY DEF Idle
<1> HIDE DEF r
<1>3. StillSo(r, db, failures)
  BY <1>2 DEF StillSo, Early
<1>4. QED
  BY <1>1, <1>2, <1>3, SerialBegin

LEMMA ReadParentSerial ==
    ASSUME TreeInv, SerialInv, NEW w \in Workers, ReadParent(w) PROVE SerialInv'
<1> DEFINE r == req[w]
           p == r.parent
<1>1. /\ RequestFine(r, age) /\ r \in Requests /\ r.pc = "parent" /\ p \in Ids /\ Active(w)
      /\ r.op \in {"createQuestion", "createAnswer"}
  BY TreeFacts, OpOfPc DEF ReadParent, At, RequestFine, Active
<1>2. \A q, a : ~Excused(r, q, a)
  BY <1>1 DEF Excused
<1>3. CASE ~Stored(p)
  BY <1>1, <1>2, <1>3, SerialReads DEF ReadParent
<1>4. CASE Stored(p) /\ p \in Questions
  <2> DEFINE anc == ComputeAncestors(p, db[p].anc)
             r1 == [r EXCEPT !.anc = anc, !.pc = "save"]
  <2>1. IdsOf(anc) = {p} \union IdsOf(db[p].anc)
    <3>1. ContentFine(p, db[p], age)
      BY <1>1, <1>4, TreeFacts
    <3>2. ChainFine(db[p].anc) /\ p \notin IdsOf(db[p].anc)
      BY <1>1, <3>1, TreeFacts DEF ContentFine, Grown, Older
    <3>3. QED
      BY <1>1, <3>2, ComputedFine
  <2>2. Reads(w, TRUE, r1)
    BY <1>4 DEF ReadParent
  <2> HIDE DEF anc
  <2>3. r1.op = r.op /\ r1.target = r.target /\ r1.anc = anc /\ r1.pc = "save"
    BY <1>1 DEF Requests
  <2> HIDE DEF r1
  <2>4. ASSUME Facts(r, db, failures) PROVE StillSo(r1, db, failures)
    <3>1. \A y \in IdsOf(anc) \intersect Questions : HasRow(db, y)
      BY <1>1, <1>4, <2>1, <2>4 DEF Facts, InOrder, Names, HasRow, Stored
    <3>2. r.op = "createAnswer" => HasRow(db, r.target)
      BY <1>1, <2>4 DEF Facts, StillSo, Early
    <3>3. QED
      BY <1>1, <2>3, <3>1, <3>2 DEF StillSo
  <2>5. QED
    BY <1>1, <1>2, <2>2, <2>3, <2>4, SerialReads
<1>5. CASE Stored(p) /\ p \notin Questions
  <2> DEFINE r1 == [r EXCEPT !.via = db[p].question, !.pc = "parentQuestion"]
  <2>1. Reads(w, TRUE, r1)
    BY <1>5 DEF ReadParent
  <2>2. r1.op = r.op /\ r1.target = r.target /\ r1.pc = "parentQuestion"
    BY <1>1 DEF Requests
  <2> HIDE DEF r1
  <2>3. ASSUME Facts(r, db, failures) PROVE StillSo(r1, db, failures)
    <3>1. r.op = "createAnswer" => HasRow(db, r.target)
      BY <1>1, <2>3 DEF Facts, StillSo, Early
    <3>2. QED
      BY <1>1, <2>2, <3>1 DEF StillSo
  <2>4. QED
    BY <1>1, <1>2, <2>1, <2>2, <2>3, SerialReads
<1>6. QED
  BY <1>3, <1>4, <1>5

LEMMA ReadParentQuestionSerial ==
    ASSUME TreeInv, SerialInv, NEW w \in Workers, ReadParentQuestion(w) PROVE SerialInv'
<1> DEFINE r == req[w]
           p == r.parent
           q == r.via
<1>1. /\ RequestFine(r, age) /\ r \in Requests /\ r.pc = "parentQuestion" /\ Active(w)
      /\ p \in Answers /\ q \in Questions /\ Older(q, p, age) /\ p \in Ids /\ q \in Ids
      /\ r.op \in {"createQuestion", "createAnswer"}
  BY TreeFacts, OpOfPc DEF ReadParentQuestion, At, RequestFine, Ids, Active
<1>2. \A x, a : ~Excused(r, x, a)
  BY <1>1 DEF Excused
<1>3. CASE ~Stored(q)
  BY <1>1, <1>2, <1>3, SerialReads DEF ReadParentQuestion
<1>4. CASE Stored(q)
  <2> DEFINE anc == ComputeAncestorsForAnswer(p, q, db[q].anc)
             r1 == [r EXCEPT !.anc = anc, !.pc = "save"]
  <2>1. IdsOf(anc) \subseteq {p, q} \union IdsOf(db[q].anc)
    <3>1. ContentFine(q, db[q], age)
      BY <1>1, <1>4, TreeFacts
    <3>2. ChainFine(db[q].anc) /\ IdsOf(db[q].anc) \subseteq Ids
      BY <3>1, IdsAreIds DEF ContentFine, Grown
    <3>3. p \notin IdsOf(db[q].anc)
      BY <1>1, <3>1, <3>2, TreeFacts DEF ContentFine, Grown, Older
    <3>4. QED
      BY <1>1, <3>2, <3>3, ComputedForAnswerFine
  <2>2. Reads(w, TRUE, r1)
    BY <1>4 DEF ReadParentQuestion
  <2> HIDE DEF anc
  <2>3. r1.op = r.op /\ r1.target = r.target /\ r1.anc = anc /\ r1.pc = "save"
    BY <1>1 DEF Requests
  <2> HIDE DEF r1
  <2>4. ASSUME Facts(r, db, failures) PROVE StillSo(r1, db, failures)
    <3>1. p \notin Questions
      BY <1>1, IdAssumption
    <3>2. \A y \in IdsOf(db[q].anc) \intersect Questions : HasRow(db, y)
      BY <1>1, <1>4, <2>4 DEF Facts, InOrder, Names, HasRow, Stored
    <3>3. \A y \in IdsOf(anc) \intersect Questions : HasRow(db, y)
      BY <1>4, <2>1, <3>1, <3>2 DEF HasRow, Stored
    <3>4. r.op = "createAnswer" => HasRow(db, r.target)
      BY <1>1, <2>4 DEF Facts, StillSo, Early
    <3>5. QED
      BY <1>1, <2>3, <3>3, <3>4 DEF StillSo
  <2>5. QED
    BY <1>1, <1>2, <2>2, <2>3, <2>4, SerialReads
<1>5. QED
  BY <1>3, <1>4

\* A content that was not stored appears, its ancestors there, its question too.
LEMMA AppearsInOrder ==
    ASSUME TreeInv, NEW r, NEW r1, NEW f, NEW x \in Ids, NEW c, NEW d,
           d = [db EXCEPT ![x] = c], c # NoRow, ~HasRow(db, x), InOrder(r, db, f),
           \A y \in IdsOf(c.anc) \intersect Questions : HasRow(db, y),
           x \in Questions => age[x] = 0 /\ c.answers = {},
           x \in Answers => /\ c.question \in Questions /\ HasRow(db, c.question)
                            /\ backend = "mongo" => x \in db[c.question].answers,
           \A q \in Questions, a \in Answers :
               Excused(r, q, a) => x \in Answers /\ q = c.question /\ a = x
    PROVE  InOrder(r1, d, f)
<1>1. d[x] = c /\ \A y \in Ids : y # x => d[y] = db[y]
  BY TreeFacts
<1>2. \A y \in Ids : HasRow(d, y) <=> HasRow(db, y) \/ y = x
  BY <1>1 DEF HasRow
<1>3. KeysHold(d)
  BY <1>1, <1>2, RowFacts DEF InOrder, KeysHold, Ids
<1>4. \A z \in Ids, y \in Questions : Names(d, z, y) => HasRow(d, y)
  BY <1>1, <1>2 DEF InOrder, Names, Ids
<1>5. ASSUME NEW q \in Questions, HasRow(d, q), backend = "mongo"
      PROVE  /\ AnswersIn(d, q) \subseteq d[q].answers
             /\ f = 0 => \A a \in d[q].answers : a \in AnswersIn(d, q) \/ Excused(r1, q, a)
  <2>1. CASE q = x
    <3>1. d[q].answers = {} /\ x \notin Answers /\ age[q] = 0
      BY <1>1, <2>1, IdAssumption
    <3>2. \A a \in Answers : HasRow(d, a) => d[a] = db[a] /\ HasRow(db, a)
      BY <1>1, <1>2, <3>1 DEF Ids
    <3>3. \A a \in Answers : HasRow(d, a) => d[a].question # q
      BY <3>1, <3>2, RowFacts
    <3>4. QED
      BY <3>1, <3>3 DEF AnswersIn
  <2>2. CASE q # x
    <3>1. HasRow(db, q) /\ d[q] = db[q] /\ q \in Ids
      BY <1>1, <1>2, <1>5, <2>2 DEF Ids
    <3>2. AnswersIn(db, q) \subseteq db[q].answers /\ db[q].answers \in SUBSET Answers
      BY <1>5, <3>1, RowFacts DEF InOrder
    <3>3. \A a \in Answers : a # x => (a \in AnswersIn(d, q) <=> a \in AnswersIn(db, q))
      BY <1>1, <1>2 DEF AnswersIn, Ids
    <3>4. x \in Answers => (x \in AnswersIn(d, q) <=> q = c.question)
      BY <1>1, <1>2 DEF AnswersIn
    <3>5. AnswersIn(d, q) \subseteq d[q].answers
      BY <1>5, <3>1, <3>2, <3>3, <3>4 DEF AnswersIn
    <3>6. ASSUME f = 0, NEW a \in d[q].answers PROVE a \in AnswersIn(d, q)
      <4>1. a \in Answers /\ (a \in AnswersIn(db, q) \/ Excused(r, q, a))
        BY <1>5, <3>1, <3>2, <3>6 DEF InOrder
      <4>2. a = x => a \notin AnswersIn(db, q)
        BY DEF AnswersIn
      <4>3. QED
        BY <3>3, <3>4, <4>1, <4>2
    <3>7. QED
      BY <3>5, <3>6
  <2>3. QED
    BY <2>1, <2>2
<1>6. QED
  BY <1>3, <1>4, <1>5 DEF InOrder

LEMMA MadeIsARow ==
    ASSUME NEW r \in Requests
    PROVE  /\ Made(r) \in Contents /\ Made(r) # NoRow
           /\ Made(r).anc = r.anc /\ Made(r).answers = {} /\ Made(r).question = r.target
BY NoRowAssumption DEF Made, Contents, Requests

LEMMA InsertQuestionSerial ==
    ASSUME TreeInv, SerialInv, NEW w \in Workers, InsertQuestion(w) PROVE SerialInv'
<1> DEFINE r == req[w]
           c == Made(r)
           d == [db EXCEPT ![r.id] = c]
           r1 == [r EXCEPT !.doc = Project(c), !.pc = "index"]
<1>1. /\ RequestFine(r, age) /\ r \in Requests /\ r.pc = "save" /\ r.op = "createQuestion"
      /\ Writes(w, d, r1) /\ Active(w)
  BY TreeFacts DEF InsertQuestion, At, RequestFine, Active
<1>2. r.id \in Questions /\ r.id \in Ids /\ r.id \notin Answers /\ age[r.id] = 0
  BY <1>1, IdAssumption DEF RequestFine, Early, Ids
<1>3. ~HasRow(db, r.id)
  BY <1>2, RowFacts
<1>4. c # NoRow /\ c.anc = r.anc /\ c.answers = {}
  BY <1>1, MadeIsARow
<1>5. r1.op = r.op /\ r1.pc = "index"
  BY <1>1 DEF Requests
<1>6. \A q, a : ~Excused(r, q, a)
  BY <1>1 DEF Excused
<1> HIDE DEF c, r1
<1>7. ASSUME Facts(r, db, failures) PROVE Facts(r1, d, failures)
  <2>1. \A y \in IdsOf(c.anc) \intersect Questions : HasRow(db, y)
    BY <1>1, <1>4, <1>7 DEF Facts, StillSo
  <2>2. InOrder(r, db, failures)
    BY <1>7 DEF Facts
  <2> HIDE DEF r
  <2>3. InOrder(r1, d, failures)
    BY <1>2, <1>3, <1>4, <1>6, <2>1, <2>2, AppearsInOrder
  <2>4. StillSo(r1, d, failures)
    BY <1>1, <1>5 DEF StillSo, Early
  <2>5. QED
    BY <2>3, <2>4 DEF Facts
<1>8. KeysHold(db) => KeysHold(d)
  <2>1. d[r.id] = c /\ \A y \in Ids : y # r.id => d[y] = db[y]
    BY <1>2, TreeFacts
  <2> HIDE DEF d, r
  <2>2. QED
    BY <1>2, <1>4, <2>1, RowFacts DEF KeysHold, HasRow, Ids
<1> HIDE DEF d
<1>9. QED
  BY <1>1, <1>5, <1>7, <1>8, SerialWriting

LEMMA HookAnswerSerial ==
    ASSUME TreeInv, SerialInv, NEW w \in Workers, HookAnswer(w) PROVE SerialInv'
<1> DEFINE r == req[w]
           q == r.target
           d == IF Stored(q) THEN [db EXCEPT ![q].answers = @ \union {r.id}] ELSE db
           r1 == [r EXCEPT !.pc = "insert"]
<1>1. /\ RequestFine(r, age) /\ r \in Requests /\ r.pc = "save" /\ r.op = "createAnswer"
      /\ Writes(w, d, r1) /\ Active(w) /\ backend = "mongo"
  BY TreeFacts DEF HookAnswer, At, RequestFine, Active
<1>2. /\ q \in Questions /\ q \in Ids /\ r.id \in Answers /\ r.id \in Ids /\ age[r.id] = 0
      /\ r.id # q /\ q \notin Answers
  BY <1>1, IdAssumption DEF RequestFine, Early, Ids
<1>3. ~HasRow(db, r.id)
  BY <1>2, RowFacts
<1>4. /\ r1.op = r.op /\ r1.pc = "insert" /\ r1.target = q /\ r1.id = r.id /\ r1.anc = r.anc
  BY <1>1 DEF Requests
<1>5. \A x, a : ~Excused(r, x, a)
  BY <1>1 DEF Excused
<1> HIDE DEF r1
<1>6. ASSUME Facts(r, db, failures) PROVE Facts(r1, d, failures)
  <2>1. HasRow(db, q) /\ \A y \in IdsOf(r.anc) \intersect Questions : HasRow(db, y)
    BY <1>1, <1>6 DEF Facts, StillSo, Early
  <2> DEFINE c == [db[q] EXCEPT !.answers = @ \union {r.id}]
  <2>2. /\ c \in Contents /\ c # NoRow /\ c.anc = db[q].anc
        /\ c.answers = db[q].answers \union {r.id}
    <3>1. db[q] \in Contents
      BY <1>2, <2>1, RowFacts
    <3>2. c \in Contents
      BY <1>2, <3>1 DEF Contents
    <3>3. c.anc = db[q].anc /\ c.answers = db[q].answers \union {r.id}
      BY <3>1 DEF Contents
    <3>4. QED
      BY <3>2, <3>3, NoRowAssumption
  <2>3. d = [db EXCEPT ![q] = c]
    BY <2>1 DEF HasRow, Stored
  <2> HIDE DEF c, d
  <2>4. d[q] = c /\ \A y \in Ids : y # q => d[y] = db[y]
    BY <1>2, <2>3, TreeFacts
  <2>5. \A y \in Ids : HasRow(d, y) <=> HasRow(db, y)
    BY <2>1, <2>2, <2>4 DEF HasRow
  <2>6. \A a \in Answers : d[a] = db[a]
    BY <1>2, <2>4 DEF Ids
  <2>7. \A x : AnswersIn(d, x) = AnswersIn(db, x)
    BY <2>6 DEF AnswersIn, HasRow
  <2>8. StillSo(r1, d, failures)
    BY <1>1, <1>2, <1>3, <1>4, <2>1, <2>2, <2>4, <2>5 DEF StillSo, Ids
  <2>9. KeysHold(d)
    BY <1>6, <2>5, <2>6, RowFacts DEF Facts, InOrder, KeysHold, HasRow, Ids
  <2>10. \A x \in Ids, y \in Questions : Names(d, x, y) => HasRow(d, y)
    BY <1>6, <2>2, <2>4, <2>5 DEF Facts, InOrder, Names, Ids
  <2>11. ASSUME NEW x \in Questions, HasRow(d, x)
         PROVE  /\ AnswersIn(d, x) \subseteq d[x].answers
                /\ failures = 0 =>
                      \A a \in d[x].answers : a \in AnswersIn(d, x) \/ Excused(r1, x, a)
    <3>1. HasRow(db, x) /\ x \in Ids
      BY <2>5, <2>11 DEF Ids
    <3>2. /\ AnswersIn(db, x) \subseteq db[x].answers
          /\ failures = 0 => \A a \in db[x].answers : a \in AnswersIn(db, x)
      BY <1>1, <1>5, <1>6, <3>1 DEF Facts, InOrder
    <3>3. Excused(r1, q, r.id)
      BY <1>4 DEF Excused
    <3>4. x = q \/ d[x] = db[x]
      BY <2>4, <3>1
    <3>5. QED
      BY <2>2, <2>4, <2>7, <3>2, <3>3, <3>4
  <2>12. QED
    BY <2>8, <2>9, <2>10, <2>11 DEF Facts, InOrder
<1> HIDE DEF d
<1>7. QED
  BY <1>1, <1>4, <1>6, SerialWriting

LEMMA MongoInsertAnswerSerial ==
    ASSUME TreeInv, SerialInv, NEW w \in Workers, MongoInsertAnswer(w) PROVE SerialInv'
<1> DEFINE r == req[w]
           c == Made(r)
           d == [db EXCEPT ![r.id] = c]
           r1 == [r EXCEPT !.doc = Project(c), !.pc = "index"]
<1>1. /\ RequestFine(r, age) /\ r \in Requests /\ r.pc = "insert" /\ r.op = "createAnswer"
      /\ Writes(w, d, r1) /\ Active(w)
  BY TreeFacts, OpOfPc DEF MongoInsertAnswer, At, RequestFine, Active
<1>2. /\ r.id \in Answers /\ r.id \in Ids /\ r.target \in Questions /\ r.id \notin Questions
  BY <1>1, IdAssumption DEF RequestFine, Ids
<1>3. c # NoRow /\ c.anc = r.anc /\ c.question = r.target
  BY <1>1, MadeIsARow
<1>4. r1.op = r.op /\ r1.pc = "index"
  BY <1>1 DEF Requests
<1>5. \A q, a : Excused(r, q, a) => q = r.target /\ a = r.id
  BY <1>1 DEF Excused
<1> HIDE DEF c, r1
<1>6. ASSUME Facts(r, db, failures) PROVE Facts(r1, d, failures)
  <2>1. /\ \A y \in IdsOf(c.anc) \intersect Questions : HasRow(db, y)
        /\ HasRow(db, r.target) /\ ~HasRow(db, r.id) /\ r.id \in db[r.target].answers
    BY <1>1, <1>3, <1>6 DEF Facts, StillSo, Early
  <2>2. InOrder(r, db, failures)
    BY <1>6 DEF Facts
  <2> HIDE DEF r
  <2>3. InOrder(r1, d, failures)
    BY <1>2, <1>3, <1>5, <2>1, <2>2, AppearsInOrder
  <2>4. StillSo(r1, d, failures)
    BY <1>1, <1>4 DEF StillSo, Early
  <2>5. QED
    BY <2>3, <2>4 DEF Facts
<1> HIDE DEF d
<1>7. QED
  BY <1>1, <1>4, <1>6, SerialWriting

LEMMA PostgresInsertAnswerSerial ==
    ASSUME TreeInv, SerialInv, NEW w \in Workers, PostgresInsertAnswer(w) PROVE SerialInv'
<1> DEFINE r == req[w]
           c == Made(r)
           d == [db EXCEPT ![r.id] = c]
           r1 == [r EXCEPT !.doc = Project(c), !.pc = "index"]
<1>1. /\ RequestFine(r, age) /\ r \in Requests /\ r.pc = "save" /\ r.op = "createAnswer"
      /\ Active(w) /\ backend = "postgres"
  BY TreeFacts DEF PostgresInsertAnswer, At, RequestFine, Active
<1>2. /\ r.id \in Answers /\ r.id \in Ids /\ r.target \in Questions /\ age[r.id] = 0
      /\ r.id \notin Questions /\ ~HasRow(db, r.id)
  BY <1>1, IdAssumption, RowFacts DEF RequestFine, Early, Ids
<1>3. \A q, a : ~Excused(r, q, a)
  BY <1>1 DEF Excused
<1>4. CASE ~Stored(r.target)
  BY <1>1, <1>3, <1>4, SerialReads DEF PostgresInsertAnswer
<1>5. CASE Stored(r.target)
  <2>1. Writes(w, d, r1) /\ HasRow(db, r.target)
    BY <1>5 DEF PostgresInsertAnswer, HasRow, Stored
  <2>2. c # NoRow /\ c.anc = r.anc /\ c.question = r.target
    BY <1>1, MadeIsARow
  <2>3. r1.op = r.op /\ r1.pc = "index"
    BY <1>1 DEF Requests
  <2> HIDE DEF c, r1
  <2>4. ASSUME Facts(r, db, failures) PROVE Facts(r1, d, failures)
    <3>1. \A y \in IdsOf(c.anc) \intersect Questions : HasRow(db, y)
      BY <1>1, <2>2, <2>4 DEF Facts, StillSo
    <3>2. InOrder(r, db, failures)
      BY <2>4 DEF Facts
    <3> HIDE DEF r
    <3>3. InOrder(r1, d, failures)
      BY <1>1, <1>2, <1>3, <2>1, <2>2, <3>1, <3>2, AppearsInOrder
    <3>4. StillSo(r1, d, failures)
      BY <1>1, <2>3 DEF StillSo, Early
    <3>5. QED
      BY <3>3, <3>4 DEF Facts
  <2>5. KeysHold(db) => KeysHold(d)
    <3>1. d[r.id] = c /\ \A y \in Ids : y # r.id => d[y] = db[y]
      BY <1>2, TreeFacts
    <3> HIDE DEF d, r
    <3>2. QED
      BY <1>2, <2>1, <2>2, <3>1, RowFacts DEF KeysHold, HasRow, Ids
  <2> HIDE DEF d
  <2>6. QED
    BY <1>1, <2>1, <2>3, <2>4, <2>5, SerialWriting
<1>6. QED
  BY <1>4, <1>5

LEMMA IndexNewSerial ==
    ASSUME TreeInv, SerialInv, NEW w \in Workers, IndexNew(w) PROVE SerialInv'
<1> DEFINE r == req[w]
           r1 == [r EXCEPT !.cur = r.target, !.pc = "reread"]
<1>1. /\ r \in Requests /\ r.pc = "index" /\ Active(w)
      /\ r.op \in {"createQuestion", "createAnswer"}
      /\ Publish(r.id, r.doc) /\ UNCHANGED <<Store, overlapped>>
  BY TreeFacts, OpOfPc DEF IndexNew, At, RequestFine, Active
<1>2. \A q, a : ~Excused(r, q, a)
  BY <1>1 DEF Excused
<1>3. CASE r.op = "createQuestion"
  <2>1. Become(w, Idle) /\ Idle.pc # "insert"
    BY <1>3 DEF IndexNew, Finish, Idle
  <2>2. QED
    BY <1>1, <1>2, <2>1, IdleStillSo, SerialPublishing
<1>4. CASE r.op = "createAnswer"
  <2>1. Become(w, r1)
    BY <1>4 DEF IndexNew
  <2>2. r1.op = r.op /\ r1.pc = "reread"
    BY <1>1 DEF Requests
  <2> HIDE DEF r1
  <2>3. StillSo(r1, db, failures)
    BY <1>4, <2>2 DEF StillSo, Early
  <2>4. QED
    BY <1>1, <1>2, <2>1, <2>2, <2>3, SerialPublishing
<1>5. QED
  BY <1>1, <1>3, <1>4

LEMMA RereadSerial == ASSUME TreeInv, SerialInv, NEW w \in Workers, Reread(w) PROVE SerialInv'
<1> DEFINE r == req[w]
           r1 == [r EXCEPT !.doc = Project(Entity(r.cur)), !.pc = "sync"]
<1>1. r \in Requests /\ r.pc = "reread" /\ Active(w) /\ Reads(w, Stored(r.cur), r1)
  BY TreeFacts DEF Reread, At, Active
<1>2. \A q, a : ~Excused(r, q, a)
  BY <1>1 DEF Excused
<1>3. /\ r1.op = r.op /\ r1.pc = "sync" /\ r1.id = r.id /\ r1.todo = r.todo
      /\ r1.snap = r.snap /\ r1.phase = r.phase
  BY <1>1 DEF Requests
<1> HIDE DEF r1
<1>4. Facts(r, db, failures) => StillSo(r1, db, failures)
  BY <1>1, <1>3 DEF Facts, StillSo, Early
<1>5. QED
  BY <1>1, <1>2, <1>3, <1>4, SerialReads

LEMMA SyncDocSerial == ASSUME TreeInv, SerialInv, NEW w \in Workers, SyncDoc(w) PROVE SerialInv'
<1> DEFINE r == req[w]
           r1 == [r EXCEPT !.cur = None, !.doc = NoDoc, !.pc = "strip"]
<1>1. /\ r \in Requests /\ r.pc = "sync" /\ Active(w)
      /\ \E doc : Publish(r.cur, doc)
      /\ UNCHANGED <<Store, overlapped>>
  BY TreeFacts DEF SyncDoc, At, Active
<1>2. \A q, a : ~Excused(r, q, a)
  BY <1>1 DEF Excused
<1>3. CASE r.op # "deleteQuestion"
  <2>1. Become(w, Idle) /\ Idle.pc # "insert"
    BY <1>3 DEF SyncDoc, Finish, Idle
  <2>2. QED
    BY <1>1, <1>2, <2>1, IdleStillSo, SerialPublishing
<1>4. CASE r.op = "deleteQuestion"
  <2>1. Become(w, r1)
    BY <1>4 DEF SyncDoc
  <2>2. /\ r1.op = r.op /\ r1.pc = "strip" /\ r1.id = r.id /\ r1.todo = r.todo
        /\ r1.snap = r.snap /\ r1.phase = r.phase
    BY <1>1 DEF Requests
  <2> HIDE DEF r1
  <2>3. Facts(r, db, failures) => StillSo(r1, db, failures)
    BY <1>1, <1>4, <2>2 DEF Facts, StillSo, Early
  <2>4. QED
    BY <1>1, <1>2, <2>1, <2>2, <2>3, SerialPublishing
<1>5. QED
  BY <1>3, <1>4

LEMMA FailSerial == ASSUME TreeInv, SerialInv, NEW w \in Workers, Fail(w) PROVE SerialInv'
<1>1. failures' = failures + 1 /\ failures \in Nat
  BY TreeFacts, MaxFailuresAssumption DEF Fail, Failure
<1>2. QED
  BY <1>1, SerialFinish DEF Fail

-----------------------------------------------------------------------------
LEMMA RemoveAnswerSerial ==
    ASSUME TreeInv, SerialInv, NEW w \in Workers, RemoveAnswer(w) PROVE SerialInv'
<1> DEFINE r == req[w]
           d == [db EXCEPT ![r.id] = NoRow]
           r1 == [r EXCEPT !.pc = "unindex"]
<1>1. /\ RequestFine(r, age) /\ r \in Requests /\ r.pc = "remove" /\ r.op = "deleteAnswer"
      /\ Active(w)
  BY TreeFacts DEF RemoveAnswer, At, RequestFine, Active
<1>2. r.id \in Answers /\ r.id \in Ids /\ r.id \notin Questions /\ r.target \in Questions
  BY <1>1, IdAssumption DEF RequestFine, Ids
<1>3. \A q, a : ~Excused(r, q, a)
  BY <1>1 DEF Excused
<1>4. CASE ~Stored(r.id)
  BY <1>1, <1>3, <1>4, SerialReads DEF RemoveAnswer
<1>5. CASE Stored(r.id)
  <2>1. Writes(w, d, r1)
    BY <1>5 DEF RemoveAnswer
  <2>2. r1.op = r.op /\ r1.pc = "unindex" /\ r1.id = r.id /\ r1.target = r.target
    BY <1>1 DEF Requests
  <2>3. d[r.id] = NoRow /\ \A y \in Ids : y # r.id => d[y] = db[y]
    BY <1>2, TreeFacts
  <2> HIDE DEF d, r1
  <2>4. \A q \in Questions : d[q] = db[q] /\ q \in Ids
    BY <1>2, <2>3 DEF Ids
  <2>5. \A a \in Answers : HasRow(d, a) => d[a] = db[a] /\ HasRow(db, a)
    BY <2>3 DEF HasRow, Ids
  <2>6. KeysHold(db) => KeysHold(d)
    BY <2>4, <2>5, RowFacts DEF KeysHold, HasRow
  <2>7. ASSUME Facts(r, db, failures) PROVE Facts(r1, d, failures)
    <3>1. HasRow(db, r.id) /\ db[r.id].question = r.target
      BY <1>1, <2>7 DEF Facts, StillSo
    <3>2. StillSo(r1, d, failures)
      BY <1>1, <2>2, <2>3 DEF StillSo, Early, HasRow
    <3>3. \A x \in Ids, y \in Questions : Names(d, x, y) => HasRow(d, y)
      BY <2>3, <2>4, <2>7 DEF Facts, InOrder, Names, HasRow
    <3>4. ASSUME NEW q \in Questions, HasRow(d, q), backend = "mongo"
          PROVE  /\ AnswersIn(d, q) \subseteq d[q].answers
                 /\ failures = 0 =>
                       \A a \in d[q].answers : a \in AnswersIn(d, q) \/ Excused(r1, q, a)
      <4>1. HasRow(db, q) /\ d[q] = db[q]
        BY <2>4, <3>4 DEF HasRow
      <4>2. AnswersIn(d, q) \subseteq AnswersIn(db, q)
        BY <2>5 DEF AnswersIn
      <4>3. /\ AnswersIn(db, q) \subseteq db[q].answers
            /\ failures = 0 => \A a \in db[q].answers : a \in AnswersIn(db, q)
        BY <1>3, <2>7, <3>4, <4>1 DEF Facts, InOrder
      <4>4. ASSUME NEW a \in AnswersIn(db, q) PROVE a \in AnswersIn(d, q) \/ Excused(r1, q, a)
        <5>1. CASE a = r.id
          BY <1>1, <2>2, <3>1, <5>1 DEF AnswersIn, Excused
        <5>2. CASE a # r.id
          BY <2>3, <5>2 DEF AnswersIn, HasRow, Ids
        <5>3. QED
          BY <5>1, <5>2
      <4>5. QED
        BY <4>1, <4>2, <4>3, <4>4
    <3>5. QED
      BY <2>6, <2>7, <3>2, <3>3, <3>4 DEF Facts, InOrder
  <2>8. QED
    BY <1>1, <2>1, <2>2, <2>6, <2>7, SerialWriting
<1>6. QED
  BY <1>4, <1>5

LEMMA UnindexSerial == ASSUME TreeInv, SerialInv, NEW w \in Workers, Unindex(w) PROVE SerialInv'
<1> DEFINE r == req[w]
           r1 == [r EXCEPT !.pc = "readList"]
<1>1. /\ r \in Requests /\ r.pc = "unindex" /\ Active(w)
      /\ r.op \in {"deleteAnswer", "deleteQuestion"}
      /\ Publish(r.id, NoRow) /\ UNCHANGED <<Store, overlapped>>
  BY TreeFacts, OpOfPc DEF Unindex, At, RequestFine, Active
<1>2. CASE r.op = "deleteQuestion"
  <2>1. Become(w, Idle) /\ Idle.pc # "insert"
    BY <1>2 DEF Unindex, Finish, Idle
  <2>2. \A q, a : ~Excused(r, q, a)
    BY <1>1, <1>2 DEF Excused
  <2>3. QED
    BY <1>1, <2>1, <2>2, IdleStillSo, SerialPublishing
<1>3. CASE r.op = "deleteAnswer"
  <2>1. Become(w, r1)
    BY <1>3 DEF Unindex
  <2>2. r1.op = r.op /\ r1.pc = "readList" /\ r1.id = r.id /\ r1.target = r.target
    BY <1>1 DEF Requests
  <2> HIDE DEF r1
  <2>3. Facts(r, db, failures) => StillSo(r1, db, failures)
    BY <1>1, <1>3, <2>2 DEF Facts, StillSo, Early
  <2>4. \A q, a : Excused(r, q, a) => Excused(r1, q, a)
    BY <1>1, <1>3, <2>2 DEF Excused
  <2>5. QED
    BY <1>1, <2>1, <2>2, <2>3, <2>4, SerialPublishing
<1>4. QED
  BY <1>1, <1>2, <1>3

LEMMA ReadListSerial ==
    ASSUME TreeInv, SerialInv, NEW w \in Workers, ReadList(w) PROVE SerialInv'
<1> DEFINE r == req[w]
           q == r.target
           list == Entity(q).answers \ {r.id}
           r1 == [r EXCEPT !.list = list, !.pc = "writeList"]
<1>1. /\ RequestFine(r, age) /\ r \in Requests /\ r.pc = "readList" /\ r.op = "deleteAnswer"
      /\ Active(w) /\ q \in Questions /\ Reads(w, Stored(q), r1)
  BY TreeFacts, OpOfPc DEF ReadList, At, RequestFine, Active
<1>2. \A x, a : Excused(r, x, a) <=> x = q /\ a = r.id
  BY <1>1 DEF Excused
<1>3. CASE ~Stored(q)
  BY <1>1, <1>2, <1>3, SerialReads DEF HasRow, Stored
<1>4. CASE Stored(q)
  <2>1. backend = "mongo" => list = db[q].answers \ {r.id}
    BY DEF Entity
  <2> HIDE DEF list
  <2>2. /\ r1.op = r.op /\ r1.pc = "writeList" /\ r1.id = r.id /\ r1.target = q
        /\ r1.list = list
    BY <1>1 DEF Requests
  <2> HIDE DEF r1
  <2>3. \A x, a : Excused(r, x, a) => Excused(r1, x, a)
    BY <1>1, <1>2, <2>2 DEF Excused
  <2>4. ASSUME Facts(r, db, failures) PROVE StillSo(r1, db, failures)
    <3>1. ~HasRow(db, r.id)
      BY <1>1, <2>4 DEF Facts, StillSo
    <3>2. ASSUME backend = "mongo"
          PROVE  /\ AnswersIn(db, q) \subseteq list
                 /\ failures = 0 => list \subseteq AnswersIn(db, q)
      <4>1. /\ AnswersIn(db, q) \subseteq db[q].answers
            /\ failures = 0 => \A a \in db[q].answers : a \in AnswersIn(db, q) \/ a = r.id
        BY <1>1, <1>2, <1>4, <2>4, <3>2 DEF Facts, InOrder, HasRow, Stored
      <4>2. r.id \notin AnswersIn(db, q)
        BY <3>1 DEF AnswersIn
      <4>3. QED
        BY <2>1, <3>2, <4>1, <4>2
    <3>3. QED
      BY <1>1, <2>2, <3>1, <3>2 DEF StillSo, Early
  <2>5. QED
    BY <1>1, <1>4, <2>2, <2>3, <2>4, SerialReads
<1>5. QED
  BY <1>3, <1>4

LEMMA WriteListSerial ==
    ASSUME TreeInv, SerialInv, NEW w \in Workers, WriteList(w) PROVE SerialInv'
<1> DEFINE r == req[w]
           q == r.target
           d == IF backend = "mongo" THEN [db EXCEPT ![q].answers = r.list] ELSE db
           r1 == [r EXCEPT !.cur = q, !.list = {}, !.pc = "reread"]
<1>1. /\ RequestFine(r, age) /\ r \in Requests /\ r.pc = "writeList" /\ r.op = "deleteAnswer"
      /\ Active(w)
  BY TreeFacts, OpOfPc DEF WriteList, At, RequestFine, Active
<1>2. q \in Questions /\ q \in Ids /\ q \notin Answers
  BY <1>1, IdAssumption DEF RequestFine, Ids
<1>3. \A x, a : Excused(r, x, a) <=> x = q /\ a = r.id
  BY <1>1 DEF Excused
<1>4. CASE ~Stored(q)
  BY <1>1, <1>3, <1>4, SerialReads DEF WriteList, HasRow, Stored
<1>5. CASE Stored(q)
  <2>1. Writes(w, d, r1) /\ HasRow(db, q)
    BY <1>5 DEF WriteList, HasRow, Stored
  <2>2. r1.op = r.op /\ r1.pc = "reread"
    BY <1>1 DEF Requests
  <2> DEFINE c == [db[q] EXCEPT !.answers = r.list]
  <2>3. c # NoRow /\ c.anc = db[q].anc /\ c.answers = r.list
    <3>1. db[q] \in Contents /\ r.list \in SUBSET Answers
      BY <1>1, <1>2, <2>1, RowFacts DEF Requests
    <3>2. c \in Contents /\ c.anc = db[q].anc /\ c.answers = r.list
      BY <3>1 DEF Contents
    <3>3. QED
      BY <3>2, NoRowAssumption
  <2>4. d = IF backend = "mongo" THEN [db EXCEPT ![q] = c] ELSE db
    OBVIOUS
  <2> HIDE DEF c, d, r1
  <2>5. /\ \A y \in Ids : y # q => d[y] = db[y]
        /\ d[q] = IF backend = "mongo" THEN c ELSE db[q]
    BY <1>2, <2>4, TreeFacts
  <2>6. \A y \in Ids : HasRow(d, y) <=> HasRow(db, y)
    BY <2>1, <2>3, <2>5 DEF HasRow
  <2>7. \A a \in Answers : d[a] = db[a] /\ a \in Ids
    BY <1>2, <2>5 DEF Ids
  <2>8. \A x : AnswersIn(d, x) = AnswersIn(db, x)
    BY <2>7 DEF AnswersIn, HasRow
  <2>9. KeysHold(db) => KeysHold(d)
    BY <2>6, <2>7, RowFacts DEF KeysHold, HasRow, Ids
  <2>10. ASSUME Facts(r, db, failures) PROVE Facts(r1, d, failures)
    <3>1. StillSo(r1, d, failures)
      BY <1>1, <2>2 DEF StillSo, Early
    <3>2. \A x \in Ids, y \in Questions : Names(d, x, y) => HasRow(d, y)
      BY <2>3, <2>5, <2>6, <2>10 DEF Facts, InOrder, Names, Ids
    <3>3. ASSUME NEW x \in Questions, HasRow(d, x), backend = "mongo"
          PROVE  /\ AnswersIn(d, x) \subseteq d[x].answers
                 /\ failures = 0 => \A a \in d[x].answers : a \in AnswersIn(d, x)
      <4>1. CASE x = q
        <5>1. /\ AnswersIn(db, q) \subseteq r.list
              /\ failures = 0 => r.list \subseteq AnswersIn(db, q)
          BY <1>1, <2>10, <3>3 DEF Facts, StillSo
        <5>2. d[q].answers = r.list
          BY <2>3, <2>5, <3>3
        <5>3. QED
          BY <2>8, <4>1, <5>1, <5>2
      <4>2. CASE x # q
        <5>1. d[x] = db[x] /\ HasRow(db, x)
          BY <2>5, <2>6, <3>3, <4>2 DEF Ids
        <5>2. /\ AnswersIn(db, x) \subseteq db[x].answers
              /\ failures = 0 => \A a \in db[x].answers : a \in AnswersIn(db, x)
          BY <1>3, <2>10, <3>3, <4>2, <5>1 DEF Facts, InOrder
        <5>3. QED
          BY <2>8, <5>1, <5>2
      <4>3. QED
        BY <4>1, <4>2
    <3>4. QED
      BY <2>9, <2>10, <3>1, <3>2, <3>3 DEF Facts, InOrder
  <2>11. QED
    BY <1>1, <2>1, <2>2, <2>9, <2>10, SerialWriting
<1>6. QED
  BY <1>4, <1>5

-----------------------------------------------------------------------------
LEMMA ListAnswersSerial ==
    ASSUME TreeInv, SerialInv, NEW w \in Workers, ListAnswers(w) PROVE SerialInv'
<1> DEFINE r == req[w]
           r1 == [r EXCEPT !.todo = AnswersOf(r.id), !.pc = "unindexAnswers"]
<1>1. r \in Requests /\ r.pc = "listAnswers" /\ Active(w) /\ Reads(w, TRUE, r1)
  BY TreeFacts DEF ListAnswers, At, Active
<1>2. r.op = "deleteQuestion"
  BY <1>1, TreeFacts, OpOfPc
<1>3. \A q, a : ~Excused(r, q, a)
  BY <1>1 DEF Excused
<1>4. r1.op = r.op /\ r1.pc = "unindexAnswers" /\ r1.phase = r.phase
  BY <1>1 DEF Requests
<1> HIDE DEF r1
<1>5. Facts(r, db, failures) => StillSo(r1, db, failures)
  BY <1>1, <1>2, <1>4 DEF Facts, StillSo, Early
<1>6. QED
  BY <1>1, <1>3, <1>4, <1>5, SerialReads

LEMMA UnindexAnswerSerial ==
    ASSUME TreeInv, SerialInv, NEW w \in Workers, UnindexAnswer(w) PROVE SerialInv'
<1> DEFINE r == req[w]
<1>1. r \in Requests /\ r.pc = "unindexAnswers" /\ Active(w) /\ UNCHANGED <<Store, overlapped>>
  BY TreeFacts DEF UnindexAnswer, At, Active
<1>2. r.op = "deleteQuestion"
  BY <1>1, TreeFacts, OpOfPc
<1>3. PICK b \in r.todo : Publish(b, NoRow) /\ Become(w, [r EXCEPT !.todo = @ \ {b}])
  BY DEF UnindexAnswer
<1> DEFINE r1 == [r EXCEPT !.todo = @ \ {b}]
<1>4. r1.op = r.op /\ r1.pc = r.pc /\ r1.phase = r.phase
  BY <1>1 DEF Requests
<1>5. Become(w, r1)
  BY <1>3
<1> HIDE DEF r1
<1>6. \A q, a : ~Excused(r, q, a)
  BY <1>1 DEF Excused
<1>7. Facts(r, db, failures) => StillSo(r1, db, failures)
  BY <1>1, <1>2, <1>4 DEF Facts, StillSo, Early
<1>8. QED
  BY <1>1, <1>3, <1>4, <1>5, <1>6, <1>7, SerialPublishing

\* After a scan every chain to be rewritten is remembered as it is.
LEMMA ScanRemembers ==
    ASSUME TreeInv, NEW r, RequestFine(r, age), NEW X \in SUBSET Ids,
           \A x \in X : Stored(x),
           \A x \in r.todo : HasRow(db, x) /\ r.snap[x] = db[x].anc
    PROVE  \A x \in Scan(r, X).todo : HasRow(db, x) /\ Scan(r, X).snap[x] = db[x].anc
<1>1. r.todo \subseteq Ids
  BY DEF RequestFine, Requests
<1>2. QED
  BY <1>1, ScanFine DEF HasRow, Stored

LEMMA ListChildrenSerial ==
    ASSUME TreeInv, SerialInv, NEW w \in Workers, ListChildren(w) PROVE SerialInv'
<1> DEFINE r == req[w]
           X == {x \in Questions : Stored(x) /\ db[x].parent = r.id}
           s == Scan(r, X)
           r1 == [s EXCEPT !.pc = "strip"]
<1>1. /\ RequestFine(r, age) /\ r.pc = "unindexAnswers" /\ r.op = "deleteQuestion"
      /\ Reads(w, TRUE, r1) /\ Active(w) /\ r.todo = {}
  BY TreeFacts, OpOfPc DEF ListChildren, At, Active
<1>2. X \in SUBSET Ids /\ \A x \in X : Stored(x)
  BY DEF Ids
<1> HIDE DEF X
<1>3. /\ s \in Requests /\ s.op = r.op /\ s.phase = r.phase
      /\ \A x \in s.todo : HasRow(db, x) /\ s.snap[x] = db[x].anc
  <2>1. \A x \in r.todo : HasRow(db, x) /\ r.snap[x] = db[x].anc
    BY <1>1
  <2>2. QED
    BY <1>1, <1>2, <2>1, ScanFine, ScanRemembers
<1>4. \A q, a : ~Excused(r, q, a)
  BY <1>1 DEF Excused
<1> HIDE DEF s
<1>5. /\ r1.op = r.op /\ r1.todo = s.todo /\ r1.snap = s.snap /\ r1.pc = "strip"
      /\ r1.phase = r.phase
  BY <1>3 DEF Requests
<1> HIDE DEF r1
<1>6. Facts(r, db, failures) => StillSo(r1, db, failures)
  BY <1>1, <1>3, <1>5 DEF Facts, StillSo, Early
<1>7. QED
  BY <1>1, <1>4, <1>5, <1>6, SerialReads

LEMMA ScanQuestionsSerial ==
    ASSUME TreeInv, SerialInv, NEW w \in Workers, ScanQuestions(w) PROVE SerialInv'
<1> DEFINE r == req[w]
           X == Naming(r.id, Questions)
           s == Scan(r, X)
           r1 == [s EXCEPT !.pc = "scanAnswers"]
<1>1. /\ RequestFine(r, age) /\ r.pc = "strip" /\ r.op = "deleteQuestion"
      /\ Reads(w, TRUE, r1) /\ Active(w) /\ r.todo = {}
  BY TreeFacts, OpOfPc DEF ScanQuestions, At, Active
<1>2. /\ X \in SUBSET Ids /\ \A x \in X : Stored(x)
      /\ \A x \in Questions : Names(db, x, r.id) => x \in X
  BY DEF Naming, Ids, Names, HasRow, Stored
<1> HIDE DEF X
<1>3. /\ s \in Requests /\ s.op = r.op /\ s.id = r.id /\ s.phase = r.phase /\ X \subseteq s.todo
      /\ \A x \in s.todo : HasRow(db, x) /\ s.snap[x] = db[x].anc
  <2>1. \A x \in r.todo : HasRow(db, x) /\ r.snap[x] = db[x].anc
    BY <1>1
  <2>2. QED
    BY <1>1, <1>2, <2>1, ScanFine, ScanRemembers
<1>4. \A q, a : ~Excused(r, q, a)
  BY <1>1 DEF Excused
<1> HIDE DEF s
<1>5. /\ r1.op = r.op /\ r1.id = r.id /\ r1.todo = s.todo /\ r1.snap = s.snap
      /\ r1.pc = "scanAnswers" /\ r1.phase = r.phase
  BY <1>3 DEF Requests
<1> HIDE DEF r1
<1>6. Facts(r, db, failures) => StillSo(r1, db, failures)
  BY <1>1, <1>2, <1>3, <1>5 DEF Facts, StillSo, Early
<1>7. QED
  BY <1>1, <1>4, <1>5, <1>6, SerialReads

LEMMA ScanAnswersSerial ==
    ASSUME TreeInv, SerialInv, NEW w \in Workers, ScanAnswers(w) PROVE SerialInv'
<1> DEFINE r == req[w]
           X == Naming(r.id, Answers)
           s == Scan(r, X)
           r1 == [s EXCEPT !.pc = "strip", !.phase = "all"]
<1>1. /\ RequestFine(r, age) /\ r.pc = "scanAnswers" /\ r.op = "deleteQuestion"
      /\ Reads(w, TRUE, r1) /\ Active(w)
  BY TreeFacts, OpOfPc DEF ScanAnswers, At, Active
<1>2. /\ X \in SUBSET Ids /\ \A x \in X : Stored(x)
      /\ \A x \in Answers : Names(db, x, r.id) => x \in X
  BY DEF Naming, Ids, Names, HasRow, Stored
<1> HIDE DEF X
<1>3. /\ s \in Requests /\ s.op = r.op /\ s.id = r.id /\ s.todo = r.todo \union X
  BY <1>1, <1>2, ScanFine
<1>4. \A q, a : ~Excused(r, q, a)
  BY <1>1 DEF Excused
<1>5. ASSUME Facts(r, db, failures)
      PROVE  /\ \A x \in s.todo : HasRow(db, x) /\ s.snap[x] = db[x].anc
             /\ \A x \in Ids : Names(db, x, r.id) => x \in s.todo
  <2>1. /\ \A x \in r.todo : HasRow(db, x) /\ r.snap[x] = db[x].anc
        /\ \A x \in Questions : Names(db, x, r.id) => x \in r.todo
    BY <1>1, <1>5 DEF Facts, StillSo
  <2>2. \A x \in Ids : Names(db, x, r.id) => x \in s.todo
    BY <1>2, <1>3, <2>1 DEF Ids
  <2>3. QED
    BY <1>1, <1>2, <2>1, <2>2, ScanRemembers
<1> HIDE DEF s
<1>6. /\ r1.op = r.op /\ r1.id = r.id /\ r1.todo = s.todo /\ r1.snap = s.snap
      /\ r1.pc = "strip"
  BY <1>3 DEF Requests
<1> HIDE DEF r1
<1>7. Facts(r, db, failures) => StillSo(r1, db, failures)
  BY <1>1, <1>5, <1>6 DEF StillSo, Early
<1>8. QED
  BY <1>1, <1>4, <1>6, <1>7, SerialReads

LEMMA StripSerial == ASSUME TreeInv, SerialInv, NEW w \in Workers, Strip(w) PROVE SerialInv'
<1> DEFINE r == req[w]
<1>1. /\ RequestFine(r, age) /\ r \in Requests /\ r.pc = "strip" /\ r.op = "deleteQuestion"
      /\ Active(w)
  BY TreeFacts, OpOfPc DEF Strip, At, RequestFine, Active
<1>2. PICK y \in r.todo :
        IF Stored(y)
        THEN Writes(w, [db EXCEPT ![y].anc = Stripped(r, y)],
                    [r EXCEPT !.todo = @ \ {y}, !.snap[y] = {}, !.cur = y, !.pc = "reread"])
        ELSE Reads(w, FALSE, Idle)
  BY DEF Strip
<1>3. y \in Ids
  BY <1>1 DEF Requests
<1>4. \A q, a : ~Excused(r, q, a)
  BY <1>1 DEF Excused
<1>5. CASE ~Stored(y)
  BY <1>1, <1>2, <1>4, <1>5, SerialReads
<1>6. CASE Stored(y)
  <2> DEFINE anc == Stripped(r, y)
             c == [db[y] EXCEPT !.anc = anc]
             d == [db EXCEPT ![y].anc = anc]
             r1 == [r EXCEPT !.todo = @ \ {y}, !.snap[y] = {}, !.cur = y, !.pc = "reread"]
  <2>1. Writes(w, d, r1) /\ HasRow(db, y)
    BY <1>2, <1>6 DEF HasRow, Stored
  <2>2. Grown(y, anc, age) /\ IdsOf(anc) = IdsOf(r.snap[y]) \ {r.id}
    BY <1>1, <1>3, StrippedFine DEF RequestFine
  <2> HIDE DEF anc
  <2>3. /\ c # NoRow /\ c.anc = anc /\ c.answers = db[y].answers
        /\ c.question = db[y].question
    <3>1. db[y] \in Contents
      BY <1>3, <2>1, RowFacts
    <3>2. /\ c \in Contents /\ c.anc = anc /\ c.answers = db[y].answers
          /\ c.question = db[y].question
      BY <2>2, <3>1 DEF Contents, Grown, ChainFine
    <3>3. QED
      BY <3>2, NoRowAssumption
  <2>4. d[y] = c /\ \A x \in Ids : x # y => d[x] = db[x]
    BY <1>3, TreeFacts
  <2>5. /\ r1.op = r.op /\ r1.pc = "reread" /\ r1.id = r.id /\ r1.phase = r.phase
        /\ r1.todo = r.todo \ {y} /\ \A x \in Ids : x # y => r1.snap[x] = r.snap[x]
    BY <1>1 DEF Requests
  <2> HIDE DEF c, d, r1
  <2>6. \A x \in Ids : HasRow(d, x) <=> HasRow(db, x)
    BY <2>1, <2>3, <2>4 DEF HasRow
  <2>7. \A x \in Ids : HasRow(db, x) =>
          d[x].question = db[x].question /\ d[x].answers = db[x].answers
    BY <2>3, <2>4
  <2>8. \A q \in Questions : AnswersIn(d, q) = AnswersIn(db, q)
    BY <2>6, <2>7 DEF AnswersIn, Ids
  <2>9. KeysHold(db) => KeysHold(d)
    BY <2>6, <2>7, RowFacts DEF KeysHold, Ids
  <2>10. ASSUME Facts(r, db, failures) PROVE Facts(r1, d, failures)
    <3>1. \A x \in r.todo : x \in Ids /\ HasRow(db, x) /\ r.snap[x] = db[x].anc
      BY <1>1, <2>10 DEF Facts, StillSo, Requests
    <3>2. IdsOf(d[y].anc) = IdsOf(db[y].anc) \ {r.id}
      BY <2>2, <2>3, <2>4, <3>1
    <3>3. \A x \in Ids : \A z : Names(d, x, z) => Names(db, x, z) /\ (x = y => z # r.id)
      BY <2>1, <2>4, <2>6, <3>2 DEF Names
    <3>4. \A x \in r1.todo : HasRow(d, x) /\ r1.snap[x] = d[x].anc
      BY <2>4, <2>5, <2>6, <3>1
    <3>5. ASSUME r1.phase = "all" PROVE \A x \in Ids : Names(d, x, r1.id) => x \in r1.todo
      <4>1. \A x \in Ids : Names(db, x, r.id) => x \in r.todo
        BY <1>1, <2>5, <2>10, <3>5 DEF Facts, StillSo
      <4>2. QED
        BY <2>5, <3>3, <4>1
    <3>6. StillSo(r1, d, failures)
      BY <1>1, <2>5, <3>4, <3>5 DEF StillSo, Early
    <3>7. \A x \in Ids, z \in Questions : Names(d, x, z) => HasRow(d, z)
      BY <2>6, <2>10, <3>3 DEF Facts, InOrder, Ids
    <3>8. ASSUME NEW q \in Questions, HasRow(d, q), backend = "mongo"
          PROVE  /\ AnswersIn(d, q) \subseteq d[q].answers
                 /\ failures = 0 => \A a \in d[q].answers : a \in AnswersIn(d, q)
      <4>1. HasRow(db, q) /\ d[q].answers = db[q].answers
        BY <2>6, <2>7, <3>8 DEF Ids
      <4>2. QED
        BY <1>4, <2>8, <2>10, <3>8, <4>1 DEF Facts, InOrder
    <3>9. QED
      BY <2>9, <2>10, <3>6, <3>7, <3>8 DEF Facts, InOrder
  <2>11. QED
    BY <1>1, <2>1, <2>5, <2>9, <2>10, SerialWriting
<1>7. QED
  BY <1>5, <1>6

LEMMA PrepareDeleteSerial ==
    ASSUME TreeInv, SerialInv, NEW w \in Workers, PrepareDelete(w) PROVE SerialInv'
<1> DEFINE r == req[w]
           d == IF backend = "mongo" THEN Drop(AnswersOf(r.id)) ELSE db
           r1 == [r EXCEPT !.pc = "remove"]
<1>1. /\ RequestFine(r, age) /\ r \in Requests /\ r.pc = "strip" /\ r.op = "deleteQuestion"
      /\ Writes(w, d, r1) /\ Active(w) /\ r.todo = {} /\ r.phase = "all"
  BY TreeFacts, OpOfPc DEF PrepareDelete, At, RequestFine, Active
<1>2. r1.op = r.op /\ r1.pc = "remove" /\ r1.id = r.id
  BY <1>1 DEF Requests
<1>3. \A q, a : ~Excused(r, q, a)
  BY <1>1 DEF Excused
<1>4. \A x \in Ids : d[x] = IF backend = "mongo" /\ x \in AnswersIn(db, r.id)
                            THEN NoRow ELSE db[x]
  BY AnswersOfIn DEF Drop
<1> HIDE DEF d, r1
<1>5. \A q \in Questions : d[q] = db[q] /\ q \in Ids
  BY <1>4, IdAssumption DEF AnswersIn, Ids
<1>6. \A x \in Ids : HasRow(d, x) => d[x] = db[x] /\ HasRow(db, x)
  BY <1>4 DEF HasRow
<1>7. KeysHold(db) => KeysHold(d)
  BY <1>5, <1>6, RowFacts DEF KeysHold, HasRow, Ids
<1>8. ASSUME Facts(r, db, failures) PROVE Facts(r1, d, failures)
  <2>1. \A x \in Ids : ~Names(db, x, r.id)
    BY <1>1, <1>8 DEF Facts, StillSo
  <2>2. \A x \in Ids : \A y : Names(d, x, y) => Names(db, x, y)
    BY <1>6 DEF Names
  <2>3. backend = "mongo" => AnswersIn(d, r.id) = {}
    BY <1>4 DEF AnswersIn, HasRow, Ids
  <2>4. StillSo(r1, d, failures)
    BY <1>1, <1>2, <2>1, <2>2, <2>3 DEF StillSo, Early
  <2>5. \A x \in Ids, y \in Questions : Names(d, x, y) => HasRow(d, y)
    BY <1>5, <1>8, <2>2 DEF Facts, InOrder, HasRow
  <2>6. ASSUME NEW q \in Questions, HasRow(d, q), backend = "mongo"
        PROVE  /\ AnswersIn(d, q) \subseteq d[q].answers
               /\ failures = 0 =>
                     \A a \in d[q].answers : a \in AnswersIn(d, q) \/ Excused(r1, q, a)
    <3>1. HasRow(db, q) /\ d[q] = db[q]
      BY <1>5, <2>6 DEF HasRow
    <3>2. /\ AnswersIn(db, q) \subseteq db[q].answers
          /\ failures = 0 => \A a \in db[q].answers : a \in AnswersIn(db, q)
      BY <1>3, <1>8, <2>6, <3>1 DEF Facts, InOrder
    <3>3. CASE q = r.id
      <4>1. \A a : Excused(r1, q, a)
        BY <1>1, <1>2, <3>3 DEF Excused
      <4>2. QED
        BY <2>3, <2>6, <3>3, <4>1
    <3>4. CASE q # r.id
      <4>1. \A a \in AnswersIn(db, q) : a \notin AnswersIn(db, r.id)
        BY <3>4 DEF AnswersIn
      <4>2. AnswersIn(d, q) = AnswersIn(db, q)
        BY <1>4, <1>6, <4>1 DEF AnswersIn, HasRow, Ids
      <4>3. QED
        BY <3>1, <3>2, <4>2
    <3>5. QED
      BY <3>3, <3>4
  <2>7. QED
    BY <1>7, <1>8, <2>4, <2>5, <2>6 DEF Facts, InOrder
<1>9. QED
  BY <1>1, <1>2, <1>7, <1>8, SerialWriting

LEMMA RemoveQuestionSerial ==
    ASSUME TreeInv, SerialInv, NEW w \in Workers, RemoveQuestion(w) PROVE SerialInv'
<1> DEFINE r == req[w]
           d == Drop({r.id} \union IF backend = "postgres" THEN AnswersOf(r.id) ELSE {})
           r1 == [r EXCEPT !.pc = "unindex"]
<1>1. /\ RequestFine(r, age) /\ r \in Requests /\ r.pc = "remove" /\ r.op = "deleteQuestion"
      /\ Active(w)
  BY TreeFacts DEF RemoveQuestion, At, RequestFine, Active
<1>2. r.id \in Questions /\ r.id \in Ids /\ r.id \notin Answers
  BY <1>1, IdAssumption DEF RequestFine, Ids
<1>3. \A q, a : Excused(r, q, a) => q = r.id
  BY <1>1 DEF Excused
<1>4. CASE ~Stored(r.id)
  BY <1>1, <1>3, <1>4, SerialReads DEF RemoveQuestion, HasRow, Stored
<1>5. CASE Stored(r.id)
  <2>1. Writes(w, d, r1)
    BY <1>5 DEF RemoveQuestion
  <2>2. r1.op = r.op /\ r1.pc = "unindex"
    BY <1>1 DEF Requests
  <2>3. \A x \in Ids : d[x] = IF x = r.id \/ (backend = "postgres" /\ x \in AnswersIn(db, r.id))
                              THEN NoRow ELSE db[x]
    BY AnswersOfIn DEF Drop
  <2> HIDE DEF d, r1
  <2>4. \A q \in Questions : q \in Ids /\ (q # r.id => d[q] = db[q])
    BY <2>3, IdAssumption DEF AnswersIn, Ids
  <2>5. \A x \in Ids : HasRow(d, x) => d[x] = db[x] /\ HasRow(db, x) /\ x # r.id
    BY <2>3 DEF HasRow
  <2>6. ASSUME KeysHold(db), backend = "postgres" \/ AnswersIn(db, r.id) = {} PROVE KeysHold(d)
    <3> SUFFICES ASSUME NEW a \in Answers, HasRow(d, a) PROVE HasRow(d, d[a].question)
      BY DEF KeysHold
    <3>1. a \in Ids /\ d[a] = db[a] /\ HasRow(db, a)
      BY <2>5 DEF Ids
    <3>2. db[a].question \in Questions /\ HasRow(db, db[a].question)
      BY <2>6, <3>1, RowFacts DEF KeysHold
    <3>3. db[a].question # r.id
      BY <2>3, <2>6, <3>1 DEF AnswersIn, HasRow
    <3>4. QED
      BY <2>4, <3>1, <3>2, <3>3 DEF HasRow
  <2>7. ASSUME Facts(r, db, failures) PROVE Facts(r1, d, failures)
    <3>1. /\ \A x \in Ids : ~Names(db, x, r.id)
          /\ backend = "mongo" => AnswersIn(db, r.id) = {}
      BY <1>1, <2>7 DEF Facts, StillSo
    <3>2. KeysHold(d)
      BY <2>6, <2>7, <3>1, TreeFacts DEF Facts, InOrder
    <3>3. StillSo(r1, d, failures)
      BY <1>1, <2>2 DEF StillSo, Early
    <3>4. \A x \in Ids, y \in Questions : Names(d, x, y) => HasRow(d, y)
      BY <2>4, <2>5, <2>7, <3>1 DEF Facts, InOrder, Names, HasRow
    <3>5. ASSUME NEW q \in Questions, HasRow(d, q), backend = "mongo"
          PROVE  /\ AnswersIn(d, q) \subseteq d[q].answers
                 /\ failures = 0 => \A a \in d[q].answers : a \in AnswersIn(d, q)
      <4>1. HasRow(db, q) /\ d[q] = db[q] /\ q # r.id
        BY <2>4, <2>5, <3>5
      <4>2. /\ AnswersIn(db, q) \subseteq db[q].answers
            /\ failures = 0 => \A a \in db[q].answers : a \in AnswersIn(db, q)
        BY <1>3, <2>7, <3>5, <4>1 DEF Facts, InOrder
      <4>3. \A a \in Answers : d[a] = db[a]
        BY <1>2, <2>3, <3>5 DEF Ids
      <4>4. AnswersIn(d, q) = AnswersIn(db, q)
        BY <4>3 DEF AnswersIn, HasRow
      <4>5. QED
        BY <4>1, <4>2, <4>4
    <3>6. QED
      BY <3>2, <3>3, <3>4, <3>5 DEF Facts, InOrder
  <2>8. QED
    BY <1>1, <2>1, <2>2, <2>6, <2>7, SerialWriting
<1>6. QED
  BY <1>4, <1>5

-----------------------------------------------------------------------------
LEMMA SerialInit == Init => SerialInv
<1> SUFFICES ASSUME Init PROVE SerialInv
  OBVIOUS
<1>1. (\A w \in Workers : ~Active(w) /\ req[w].pc # "insert") /\ Current = {Idle}
  BY DEF Init, Idle, Active, Current, Quiet
<1>2. \A x \in Ids : ~HasRow(db, x)
  BY DEF Init, HasRow
<1>3. InOrder(Idle, db, failures)
  BY <1>2 DEF InOrder, KeysHold, Names, Ids
<1>4. QED
  BY <1>1, <1>3, IdleStillSo DEF SerialInv, Facts, InOrder

LEMMA SerialStutter == ASSUME SerialInv, UNCHANGED vars PROVE SerialInv'
<1>1. Idle' = Idle
  BY DEF Idle
<1>2. Current' = Current /\ \A w \in Workers : Active(w)' <=> Active(w)
  BY <1>1 DEF Current, Quiet, Active, vars
<1>3. QED
  BY <1>2 DEF SerialInv, vars, Facts, StillSo, InOrder, Excused, KeysHold, Names, AnswersIn, HasRow

LEMMA SerialNext == TreeInv /\ SerialInv /\ [Next]_vars => SerialInv'
<1> SUFFICES ASSUME TreeInv, SerialInv, [Next]_vars PROVE SerialInv'
  OBVIOUS
<1>1. CASE UNCHANGED vars
  BY <1>1, SerialStutter
<1>2. ASSUME NEW w \in Workers, Start(w) PROVE SerialInv'
  BY <1>2, StartCreateQuestionSerial, StartCreateAnswerSerial, StartUpdateSerial,
     StartDeleteAnswerSerial, StartDeleteQuestionSerial DEF Start
<1>3. ASSUME NEW w \in Workers, Step(w) PROVE SerialInv'
  <2>1. CASE \/ ReadParent(w) \/ ReadParentQuestion(w) \/ InsertQuestion(w)
             \/ HookAnswer(w) \/ MongoInsertAnswer(w) \/ PostgresInsertAnswer(w) \/ IndexNew(w)
    BY <2>1, ReadParentSerial, ReadParentQuestionSerial, InsertQuestionSerial, HookAnswerSerial,
       MongoInsertAnswerSerial, PostgresInsertAnswerSerial, IndexNewSerial
  <2>2. CASE \/ Reread(w) \/ SyncDoc(w)
             \/ RemoveAnswer(w) \/ Unindex(w) \/ ReadList(w) \/ WriteList(w) \/ Fail(w)
    BY <2>2, RereadSerial, SyncDocSerial, RemoveAnswerSerial, UnindexSerial, ReadListSerial,
       WriteListSerial, FailSerial
  <2>3. CASE \/ ListAnswers(w) \/ UnindexAnswer(w) \/ ListChildren(w) \/ Strip(w)
             \/ ScanQuestions(w) \/ ScanAnswers(w) \/ PrepareDelete(w) \/ RemoveQuestion(w)
    BY <2>3, ListAnswersSerial, UnindexAnswerSerial, ListChildrenSerial, StripSerial,
       ScanQuestionsSerial, ScanAnswersSerial, PrepareDeleteSerial, RemoveQuestionSerial
  <2>4. QED
    BY <1>3, <2>1, <2>2, <2>3 DEF Step
<1>4. QED
  BY <1>1, <1>2, <1>3 DEF Next

LEMMA SerialInvariant == Spec => [](TreeInv /\ SerialInv)
<1>1. Init => TreeInv /\ SerialInv
  BY TreeInit, SerialInit
<1>2. TreeInv /\ SerialInv /\ [Next]_vars => (TreeInv /\ SerialInv)'
  BY TreeNext, SerialNext
<1>3. QED
  BY <1>1, <1>2, PTL DEF Spec

LEMMA SerialIsInOrder ==
    ASSUME SerialInv, ~overlapped
    PROVE  /\ \E r : InOrder(r, db, failures)
           /\ Quiet => InOrder(Idle, db, failures)
<1>1. \E r : r \in Current
  BY DEF Current, Quiet
<1>2. \A r \in Current : InOrder(r, db, failures)
  BY DEF SerialInv, Facts
<1>3. Quiet => Idle \in Current
  BY DEF Current
<1>4. QED
  BY <1>1, <1>2, <1>3

(***************************************************************************)
(* As long as requests do not overlap, no chain names a deleted question,  *)
(* even when deletions stopped half way and were tried again: what the     *)
(* second scan of deleteQuestion remembers is all that names it.           *)
(***************************************************************************)
THEOREM DeletedQuestionsAreForgotten == Spec => []NoDeletedQuestionInAncestors
<1>1. TreeInv /\ SerialInv => NoDeletedQuestionInAncestors
  <2> SUFFICES ASSUME SerialInv, ~overlapped, NEW x \in Ids, Stored(x),
                      NEW y \in IdsOf(db[x].anc) \intersect Questions
               PROVE  Stored(y)
    BY DEF NoDeletedQuestionInAncestors
  <2>1. QED
    BY SerialIsInOrder DEF InOrder, Names, HasRow, Stored
<1>2. QED
  BY <1>1, SerialInvariant, PTL

(***************************************************************************)
(* What a walk along a chain relies on holds for any contents, any number  *)
(* of overlapping requests and any number of failures.                     *)
(***************************************************************************)
THEOREM ChainsStaySound == Spec => []ChainsAreSound
<1>1. ChainsWellFormed /\ AncestorsAreOlder /\ NoDeletedQuestionInAncestors => ChainsAreSound
  BY DEF ChainsAreSound
<1>2. QED
  BY <1>1, ChainsStayWellFormed, AncestorsStayOlder, DeletedQuestionsAreForgotten, PTL

(***************************************************************************)
(* An answer's question exists (in PostgreSQL under every interleaving, in *)
(* Mongo when requests do not overlap), and a question lists its answers.  *)
(***************************************************************************)
THEOREM LinksHold == Spec => []AnswersStayLinked
<1>1. TreeInv /\ SerialInv => AnswersHaveQuestion
  <2> SUFFICES ASSUME TreeInv, SerialInv, backend = "postgres" \/ ~overlapped,
                      NEW a \in Answers, Stored(a)
               PROVE  Stored(db[a].question)
    BY DEF AnswersHaveQuestion
  <2>1. KeysHold(db)
    BY SerialIsInOrder DEF SerialInv, InOrder
  <2>2. QED
    BY <2>1 DEF KeysHold, HasRow, Stored
<1>2. TreeInv /\ SerialInv => ListsItsAnswers
  <2> SUFFICES ASSUME TreeInv, SerialInv, NEW q \in Questions, Stored(q)
               PROVE  /\ ~overlapped => AnswersOf(q) \subseteq Entity(q).answers
                      /\ Steady => Entity(q).answers = AnswersOf(q)
    BY DEF ListsItsAnswers
  <2>0. q \in Ids /\ HasRow(db, q) /\ db[q] \in Contents /\ db[q].answers \in SUBSET Answers
    BY RowFacts DEF Ids, HasRow, Stored
  <2>1. CASE backend = "postgres"
    <3>1. Entity(q).answers = AnswersOf(q)
      BY <2>0, <2>1 DEF Entity, Contents
    <3>2. QED
      BY <3>1
  <2>2. CASE backend = "mongo"
    <3>1. Entity(q).answers = db[q].answers
      BY <2>2 DEF Entity
    <3>2. ~overlapped => AnswersOf(q) \subseteq db[q].answers
      BY <2>0, <2>2, SerialIsInOrder, AnswersOfIn DEF InOrder
    <3>3. ASSUME Steady PROVE db[q].answers \subseteq AnswersOf(q)
      <4>1. ~overlapped /\ failures = 0 /\ InOrder(Idle, db, failures)
        BY <3>3, SerialIsInOrder DEF Steady, Undisturbed
      <4>2. \A a \in db[q].answers : a \in AnswersIn(db, q)
        BY <2>0, <2>2, <4>1, IdleExcusesNone DEF InOrder
      <4>3. QED
        BY <4>2, AnswersOfIn
    <3>4. QED
      BY <3>1, <3>2, <3>3 DEF Steady, Undisturbed
  <2>3. QED
    BY <2>1, <2>2, TreeFacts
<1>3. AnswersHaveQuestion /\ ListsItsAnswers => AnswersStayLinked
  BY DEF AnswersStayLinked
<1>4. QED
  BY <1>1, <1>2, <1>3, SerialInvariant, PTL
=============================================================================

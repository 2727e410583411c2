------------------------------ MODULE Listings ------------------------------
(***************************************************************************)
(* Lists of questions and answers, page by page, while contents come and   *)
(* go.                                                                     *)
(*                                                                         *)
(* A page is a slice of a list sorted by the time of creation.  Some lists *)
(* are asked of the search index first, with two seconds to answer, and of *)
(* the database when that fails.  A reader asks for one page after another *)
(* for as long as the answer says that there is a next one.                *)
(***************************************************************************)
EXTENDS Naturals, FiniteSets

CONSTANTS
    MaxPosts,           \* bound on contents ever created
    Limits,             \* page sizes that are asked for
    MaxChanges          \* bound on creations and deletions

ASSUME ListingAssumption ==
    MaxPosts \in Nat /\ Limits \subseteq Nat \ {0} /\ MaxChanges \in Nat

Posts == 1..MaxPosts            \* ids, in the order of creation
Orders == {"newest", "oldest", "any"}

\* The lists, by endpoint: whether the index is asked first, and how the database reads.
ListKinds == {"answers", "questions", "searched", "ofUser", "titles", "answerSearch"}
AsksIndex(kind) == kind \notin {"answers", "questions"}
Stored(kind) ==
    CASE kind \in {"answers", "ofUser", "titles"} -> "whole"    \* read all, slice in memory
      [] kind \in {"questions", "searched"} -> "paged"          \* a page and a count
      [] kind = "answerSearch" -> "nothing"

VARIABLES
    posts,          \* what the database holds
    searchable,     \* what the index holds
    due,            \* index updates that are on their way
    made, changes,  \* the last id given out; creations and deletions
    walk            \* the reader

listVars == <<posts, searchable, due, made, changes, walk>>

Updates == [op : {"add", "drop"}, id : Posts]
Walks == [kind : ListKinds, order : Orders, limit : Limits,
          page : Nat,
          ask : {"index", "stored", "count", "data", "shown", "over"},
          total : Nat,                  \* the count of the page on its way
          part : SUBSET Posts,          \* its contents
          seen : SUBSET Posts,
          expected : SUBSET Posts,      \* what was there when the walk began
          sources : SUBSET (Orders \X {"index", "stored"}),
          shrunk : BOOLEAN,             \* something it may have counted on went away
          grown : BOOLEAN,              \* something came in before a place it had passed
          torn : BOOLEAN,               \* an item came between a count and its page
          repeats : BOOLEAN]
NoWalk == [ask |-> "none"]
Walking == walk # NoWalk

ListingsInit ==
    /\ \E n \in 0..MaxPosts : posts = 1..n /\ made = n
    /\ searchable = posts
    /\ due = {} /\ changes = 0
    /\ walk = NoWalk

-----------------------------------------------------------------------------
\* Pages.
Before(i, j, order) == IF order = "newest" THEN i > j ELSE i < j
Rank(i, S, order) == Cardinality({j \in S : Before(j, i, order)})

\* Mutant: the page number is taken from zero.
MutantPageFromZero(S, order, page, limit) ==
    {i \in S : page * limit <= Rank(i, S, order) /\ Rank(i, S, order) < (page + 1) * limit}
\* Mutant: the slice takes one item too many.
MutantLongSlice(S, order, page, limit) ==
    {i \in S : (page - 1) * limit <= Rank(i, S, order) /\ Rank(i, S, order) <= page * limit}
Slice(S, order, page, limit) ==
    {i \in S : (page - 1) * limit <= Rank(i, S, order) /\ Rank(i, S, order) < page * limit}

\* A list in no particular order: any items, as many as the slice has.
Pages(S, order, page, limit) ==
    IF order # "any" THEN {Slice(S, order, page, limit)}
    ELSE {P \in SUBSET S : Cardinality(P) = Cardinality(Slice(S, "newest", page, limit))}

\* Mutant: the last page is not counted when it is not full.
MutantFloor(total, limit) == total \div limit
TotalPages(total, limit) == (total + limit - 1) \div limit

PageNumber(a, S, limit) == Rank(a, S, "newest") \div limit + 1

-----------------------------------------------------------------------------
\* Contents.
Publish ==
    /\ changes < MaxChanges /\ made < MaxPosts
    /\ made' = made + 1 /\ changes' = changes + 1
    /\ posts' = posts \union {made + 1}
    /\ due' = due \union {[op |-> "add", id |-> made + 1]}
    /\ walk' = IF ~Walking THEN walk
               ELSE [walk EXCEPT !.grown = @ \/ walk.order = "newest",
                                 !.torn = @ \/ walk.ask \in {"count", "data"}]
    /\ UNCHANGED searchable

Withdraw(i) ==
    /\ changes < MaxChanges /\ changes' = changes + 1
    /\ posts' = posts \ {i}
    /\ due' = due \union {[op |-> "drop", id |-> i]}
    /\ walk' = IF Walking THEN [walk EXCEPT !.shrunk = TRUE] ELSE walk
    /\ UNCHANGED <<searchable, made>>

\* sync runs after the database was written, for an update that is not swallowed.
UpdateIndex(u) ==
    /\ due' = due \ {u}
    /\ searchable' = IF u.op = "add" THEN searchable \union {u.id} ELSE searchable \ {u.id}
    /\ walk' = IF ~Walking \/ ~AsksIndex(walk.kind) THEN walk
               ELSE IF u.op = "add" THEN [walk EXCEPT !.grown = TRUE]
               ELSE [walk EXCEPT !.shrunk = TRUE]
    /\ UNCHANGED <<posts, made, changes>>

LoseUpdate(u) ==
    /\ due' = due \ {u}
    /\ UNCHANGED <<posts, searchable, made, changes, walk>>

-----------------------------------------------------------------------------
\* The reader.  Lists that are sorted by something else than time are left out, except
\* as lists in no particular order.
FirstAsk(kind) == IF AsksIndex(kind) THEN "index" ELSE "stored"
NewWalk(kind, order, limit, page, expected) ==
    [kind |-> kind, order |-> order, limit |-> limit, page |-> page, ask |-> FirstAsk(kind),
     total |-> 0, part |-> {}, seen |-> {}, expected |-> expected, sources |-> {},
     shrunk |-> FALSE, grown |-> FALSE, torn |-> FALSE, repeats |-> FALSE]

StartWalk(kind, order, limit) ==
    /\ ~Walking
    /\ kind \in {"answers", "ofUser"} => order = "newest"
    /\ (order = "any") = (kind \in {"titles", "answerSearch"})
    /\ walk' = NewWalk(kind, order, limit, 1,
                       IF AsksIndex(kind) THEN posts \intersect searchable ELSE posts)
    /\ UNCHANGED <<posts, searchable, due, made, changes>>

\* A link to an answer: ask for its page, then go on from there.
LookUp(a, limit) ==
    /\ ~Walking
    /\ walk' = NewWalk("answers", "newest", limit, PageNumber(a, posts, limit), {a})
    /\ UNCHANGED <<posts, searchable, due, made, changes>>

Shows(total, part, order, source) ==
    walk' = [walk EXCEPT !.ask = "shown", !.total = total, !.part = part,
                         !.sources = @ \union {<<order, source>>},
                         !.repeats = @ \/ part \intersect walk.seen # {},
                         !.seen = @ \union part]

\* Hits and their number come with one answer.
AskIndex ==
    /\ walk.ask = "index"
    /\ \E part \in Pages(searchable, walk.order, walk.page, walk.limit) :
          Shows(Cardinality(searchable), part, walk.order, "index")
    /\ UNCHANGED <<posts, searchable, due, made, changes>>

\* An error, or no answer for two seconds; an answer that comes later is dropped.
IndexGivesUp ==
    /\ walk.ask = "index"
    /\ walk' = [walk EXCEPT !.ask = "stored"]
    /\ UNCHANGED <<posts, searchable, due, made, changes>>

\* Answers of a user are sorted on Mongo only, questions of a user nowhere.
StoredOrders == IF walk.kind = "ofUser" THEN {"newest", "any"} ELSE {walk.order}

ReadWhole ==
    /\ walk.ask = "stored" /\ Stored(walk.kind) = "whole"
    /\ \E order \in StoredOrders :
          \E part \in Pages(posts, order, walk.page, walk.limit) :
              Shows(Cardinality(posts), part, order, "stored")
    /\ UNCHANGED <<posts, searchable, due, made, changes>>

\* The page and the count are two queries sent together: either is answered first.
ReadCount ==
    /\ Walking /\ Stored(walk.kind) = "paged"
    /\ \/ /\ walk.ask = "stored"
          /\ walk' = [walk EXCEPT !.ask = "data", !.total = Cardinality(posts)]
       \/ /\ walk.ask = "count"
          /\ Shows(Cardinality(posts), walk.part, walk.order, "stored")
    /\ UNCHANGED <<posts, searchable, due, made, changes>>

ReadPage ==
    LET part == Slice(posts, walk.order, walk.page, walk.limit)
    IN /\ Walking /\ Stored(walk.kind) = "paged"
       /\ \/ /\ walk.ask = "stored"
             /\ walk' = [walk EXCEPT !.ask = "count", !.part = part]
          \/ /\ walk.ask = "data"
             /\ Shows(walk.total, part, walk.order, "stored")
       /\ UNCHANGED <<posts, searchable, due, made, changes>>

\* The search for answers has no other source: an empty page and no next one.
ReadNothing ==
    /\ walk.ask = "stored" /\ Stored(walk.kind) = "nothing"
    /\ Shows(0, {}, walk.order, "stored")
    /\ UNCHANGED <<posts, searchable, due, made, changes>>

HasNext == walk.page < TotalPages(walk.total, walk.limit)

NextPage ==
    /\ walk.ask = "shown" /\ HasNext
    /\ walk' = [walk EXCEPT !.page = @ + 1, !.ask = FirstAsk(walk.kind),
                            !.total = 0, !.part = {}]
    /\ UNCHANGED <<posts, searchable, due, made, changes>>

LastPage ==
    /\ walk.ask = "shown" /\ ~HasNext
    /\ walk' = [walk EXCEPT !.ask = "over"]
    /\ UNCHANGED <<posts, searchable, due, made, changes>>

\* The reader closes the list, at the end or before.
Leave ==
    /\ Walking /\ walk' = NoWalk
    /\ UNCHANGED <<posts, searchable, due, made, changes>>

ListingsNext ==
    \/ Publish
    \/ \E i \in posts : Withdraw(i)
    \/ \E u \in due : UpdateIndex(u) \/ LoseUpdate(u)
    \/ \E kind \in ListKinds, order \in Orders, limit \in Limits : StartWalk(kind, order, limit)
    \/ \E a \in posts, limit \in Limits : LookUp(a, limit)
    \/ AskIndex \/ IndexGivesUp \/ ReadWhole \/ ReadCount \/ ReadPage \/ ReadNothing
    \/ NextPage \/ LastPage \/ Leave

ListingsSpec == ListingsInit /\ [][ListingsNext]_listVars

-----------------------------------------------------------------------------
ListingsTypeOK ==
    /\ posts \subseteq Posts /\ searchable \subseteq Posts
    /\ due \subseteq Updates
    /\ made \in 0..MaxPosts /\ changes \in 0..MaxChanges
    /\ walk = NoWalk \/ walk \in Walks

\* One source answered every page, and it sorts.
OneOrder == Cardinality(walk.sources) = 1 /\ \A s \in walk.sources : s[1] # "any"

\* A reader who follows hasNext to the end has seen everything that was there at the
\* start, and one who looked up the page of an answer finds it, although contents are
\* created all the while: as long as one sorted source answered, nothing was deleted, and
\* nothing came between a count and its page in a list that begins with the newest.
WalkMissesNothing ==
    walk.ask = "over" /\ OneOrder /\ ~walk.shrunk /\ (walk.torn => walk.order = "oldest")
        => walk.expected \subseteq walk.seen

\* No item is shown on two pages, although contents are deleted between them, unless
\* something came in before a place the reader had passed.
PagesDoNotRepeat == Walking /\ walk.repeats => ~OneOrder \/ walk.grown

\* Page by page, a reader sees each item of the list, and sees it once, in so far as what
\* goes on beside him allows it.
PagesMakeTheList == WalkMissesNothing /\ PagesDoNotRepeat
=============================================================================

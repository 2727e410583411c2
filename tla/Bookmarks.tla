------------------------------ MODULE Bookmarks ------------------------------
(***************************************************************************)
(* Bookmarks, their collections and the cached lists of both.              *)
(*                                                                         *)
(* BookmarkManager reads a list through the cache: get, and on a miss load *)
(* from the database and set.  Every write goes to the database first and  *)
(* then deletes the keys it made stale.  RedisCacheProvider swallows every *)
(* error: a failed get is a miss, a failed set or del does nothing.  A     *)
(* cached list lives for 300 s, the statistics for 600 s.                  *)
(***************************************************************************)
EXTENDS Naturals, Sequences

CONSTANTS
    Owners,             \* ids of users
    Targets,            \* what can be bookmarked
    Titles,             \* names of collections
    Keepers,            \* requests in progress at a time
    BookmarkStores,     \* databases DATABASE_TYPE may select
    NoLabel,
    MaxWrites,          \* bound on writing requests
    MaxFaults           \* bound on lost gets and dels and interrupted writes

ASSUME BookmarkAssumption ==
    /\ BookmarkStores \subseteq {"mongo", "postgres"}
    /\ MaxWrites \in Nat /\ MaxFaults \in Nat

\* Ids are fresh: a counter stands for the ObjectId or uuid of a new row.
Bookmark == [id : Nat, owner : Owners, target : Targets, rev : Nat]
Collection == [id : Nat, owner : Owners, name : Titles]
Item == [bookmark : Nat, collection : Nat]
Kinds == {"bookmarks", "stats", "collections"}      \* one cache key of each per user
Lists == (SUBSET Bookmark) \union (SUBSET Collection)
Entries == [hit : BOOLEAN, value : Lists]
BookmarkWrites == {"add", "remove", "update"}
CollectionWrites == {"createCollection", "updateCollection", "deleteCollection"}
ItemWrites == {"addToCollection", "removeFromCollection"}
Writes == BookmarkWrites \union CollectionWrites \union ItemWrites
\* A read loads a list and fills the cache; a write changes the database and then drops
\* keys.
Works == {w \in [op : Writes \union {"none", "read"},
                 pc : {"idle", "write", "drop", "load", "fill"},
                 owner : Owners \union {NoLabel},
                 label : Targets \union Titles \union Kinds \union {NoLabel},
                 bookmark : Nat, collection : Nat,      \* ids; 0: none
                 drop : Seq(Kinds),                     \* keys still to delete
                 value : Lists] :                       \* what a read loaded
            /\ w.op = "none" <=> w.pc = "idle"
            /\ w.op # "none" => w.owner \in Owners
            /\ w.op = "read" <=> w.pc \in {"load", "fill"}
            /\ w.op = "read" => w.label \in Kinds
            /\ w.op = "add" => w.label \in Targets
            /\ w.op \in {"createCollection", "updateCollection"} => w.label \in Titles
            /\ w.op = "createCollection" => w.collection = 0
            /\ w.pc = "drop" => w.drop # <<>>}

VARIABLES
    database,       \* the database of this deployment
    bookmarks, collections, items,
    ids,            \* the last id given out
    cache,          \* cache[kind][o]: the entry under that key
    work,           \* work[s]: the request in slot s
    mixed,          \* owners one of whose reads ever ran beside one of their writes
    writes, faults

bookmarkVars == <<database, bookmarks, collections, items, ids, cache, work, mixed,
                  writes, faults>>

NoEntry == [hit |-> FALSE, value |-> {}]
NoWork == [op |-> "none", pc |-> "idle", owner |-> NoLabel, label |-> NoLabel,
           bookmark |-> 0, collection |-> 0, drop |-> <<>>, value |-> {}]

\* A user may have a bookmark and a collection from an earlier run of the program.
BookmarksInit ==
    /\ database \in BookmarkStores
    /\ \/ bookmarks = {} /\ collections = {}
       \/ \E o \in Owners, t \in Targets, n \in Titles :
             /\ bookmarks = {[id |-> 1, owner |-> o, target |-> t, rev |-> 0]}
             /\ collections = {[id |-> 2, owner |-> o, name |-> n]}
    /\ items = {}
    /\ ids = 2
    /\ cache = [k \in Kinds |-> [o \in Owners |-> NoEntry]]
    /\ work = [s \in Keepers |-> NoWork]
    /\ mixed = {}
    /\ writes = 0 /\ faults = 0

-----------------------------------------------------------------------------
\* Writers.  What a request checks before it writes; one that is refused, or that names
\* something another user owns, changes nothing.
Busy(s) == work[s].op # "none"
Goes(s, w) == work' = [work EXCEPT ![s] = w]
Ends(s) == Goes(s, NoWork)
Beside(o, ops) == \E s \in Keepers : work[s].owner = o /\ work[s].op \in ops
Mixes(o, ops) == mixed' = IF Beside(o, ops) THEN mixed \union {o} ELSE mixed

Job(op, o, label, b, c) ==
    [NoWork EXCEPT !.op = op, !.pc = "write", !.owner = o, !.label = label,
                   !.bookmark = b, !.collection = c]

StartWrite(s, w) ==
    /\ ~Busy(s) /\ writes < MaxWrites
    /\ Goes(s, w)
    /\ writes' = writes + 1
    /\ Mixes(w.owner, {"read"})
    /\ UNCHANGED <<database, bookmarks, collections, items, ids, cache, faults>>

StartAdd(s, o, t) ==
    /\ \A b \in bookmarks : ~(b.owner = o /\ b.target = t)
    /\ StartWrite(s, Job("add", o, t, 0, 0))

StartBookmarkWrite(s, op) ==
    \E b \in bookmarks : StartWrite(s, Job(op, b.owner, NoLabel, b.id, 0))

StartCreateCollection(s, o, n) == StartWrite(s, Job("createCollection", o, n, 0, 0))

StartCollectionWrite(s) ==
    \E c \in collections :
        \/ \E n \in Titles : StartWrite(s, Job("updateCollection", c.owner, n, 0, c.id))
        \/ StartWrite(s, Job("deleteCollection", c.owner, NoLabel, 0, c.id))

StartItemWrite(s, op) ==
    \E b \in bookmarks, c \in collections :
        b.owner = c.owner /\ StartWrite(s, Job(op, b.owner, NoLabel, b.id, c.id))

-----------------------------------------------------------------------------
\* The write to the database, then the keys to delete.
Writing(s, op) == work[s].op = op /\ work[s].pc = "write"
\* Mutant: the key of the statistics is forgotten.
MutantKeepsStats(s) == Goes(s, [work[s] EXCEPT !.pc = "drop", !.drop = <<"bookmarks">>])
AfterBookmark(s) == Goes(s, [work[s] EXCEPT !.pc = "drop", !.drop = <<"bookmarks", "stats">>])
AfterCollection(s) == Goes(s, [work[s] EXCEPT !.pc = "drop", !.drop = <<"collections">>])

\* Mutant: no unique key behind the check.
MutantNoUniqueKey(w) == FALSE
DuplicateBookmark(w) == \E b \in bookmarks : b.owner = w.owner /\ b.target = w.label

\* A unique key on (user, type, target) refuses the second of two racing requests.
AddBookmark(s) ==
    /\ Writing(s, "add")
    /\ IF DuplicateBookmark(work[s]) THEN Ends(s) /\ UNCHANGED <<bookmarks, ids>>
       ELSE /\ ids' = ids + 1
            /\ bookmarks' = bookmarks \union
                   {[id |-> ids + 1, owner |-> work[s].owner, target |-> work[s].label, rev |-> 0]}
            /\ AfterBookmark(s)
    /\ UNCHANGED <<database, collections, items, cache, mixed, writes, faults>>

\* Rows of BookmarkCollectionItem cascade with either side; Mongo keeps the documents.
Kept(its, gone) == IF database = "mongo" THEN its ELSE its \ gone

\* deleteById and updateById throw when the bookmark is gone: no key is deleted.
RemoveBookmark(s) ==
    /\ Writing(s, "remove")
    /\ bookmarks' = {b \in bookmarks : b.id # work[s].bookmark}
    /\ items' = Kept(items, {i \in items : i.bookmark = work[s].bookmark})
    /\ IF bookmarks' = bookmarks THEN Ends(s) ELSE AfterBookmark(s)
    /\ UNCHANGED <<database, collections, ids, cache, mixed, writes, faults>>

\* A request that only sets isPublic changes nothing: the data sources expect is_public.
UpdateBookmark(s) ==
    /\ Writing(s, "update")
    /\ \E changes \in BOOLEAN :
          bookmarks' = {IF b.id = work[s].bookmark /\ changes
                        THEN [b EXCEPT !.rev = @ + 1] ELSE b : b \in bookmarks}
    /\ IF \E b \in bookmarks : b.id = work[s].bookmark THEN AfterBookmark(s) ELSE Ends(s)
    /\ UNCHANGED <<database, collections, items, ids, cache, mixed, writes, faults>>

NameTaken(w) ==
    \E c \in collections : c.owner = w.owner /\ c.name = w.label /\ c.id # w.collection

CreateCollection(s) ==
    /\ Writing(s, "createCollection")
    /\ IF NameTaken(work[s]) THEN Ends(s) /\ UNCHANGED <<collections, ids>>
       ELSE /\ ids' = ids + 1
            /\ collections' = collections \union
                   {[id |-> ids + 1, owner |-> work[s].owner, name |-> work[s].label]}
            /\ AfterCollection(s)
    /\ UNCHANGED <<database, bookmarks, items, cache, mixed, writes, faults>>

\* A collection that is gone gives null, a name that is taken null or an error.
UpdateCollection(s) ==
    /\ Writing(s, "updateCollection")
    /\ IF NameTaken(work[s]) \/ \A c \in collections : c.id # work[s].collection
       THEN Ends(s) /\ UNCHANGED collections
       ELSE /\ collections' = {IF c.id = work[s].collection THEN [c EXCEPT !.name = work[s].label]
                               ELSE c : c \in collections}
            /\ AfterCollection(s)
    /\ UNCHANGED <<database, bookmarks, items, ids, cache, mixed, writes, faults>>

DeleteCollection(s) ==
    /\ Writing(s, "deleteCollection")
    /\ collections' = {c \in collections : c.id # work[s].collection}
    /\ items' = Kept(items, {i \in items : i.collection = work[s].collection})
    /\ IF collections' = collections THEN Ends(s) ELSE AfterCollection(s)
    /\ UNCHANGED <<database, bookmarks, ids, cache, mixed, writes, faults>>

ItemOf(w) == [bookmark |-> w.bookmark, collection |-> w.collection]

KeysExist(w) ==
    \/ database = "mongo"
    \/ /\ \E b \in bookmarks : b.id = w.bookmark
       /\ \E c \in collections : c.id = w.collection

\* Neither touches the cache.  A second item is an upsert or refused by the unique key.
AddToCollection(s) ==
    /\ Writing(s, "addToCollection")
    /\ items' = IF KeysExist(work[s]) THEN items \union {ItemOf(work[s])} ELSE items
    /\ Ends(s)
    /\ UNCHANGED <<database, bookmarks, collections, ids, cache, mixed, writes, faults>>

RemoveFromCollection(s) ==
    /\ Writing(s, "removeFromCollection")
    /\ items' = items \ {ItemOf(work[s])}
    /\ Ends(s)
    /\ UNCHANGED <<database, bookmarks, collections, ids, cache, mixed, writes, faults>>

Fault == faults < MaxFaults /\ faults' = faults + 1

\* The keys are deleted one after the other; a cache error loses a del.
DropKey(s) ==
    LET w == work[s]  left == Tail(w.drop)
    IN /\ w.pc = "drop"
       /\ \/ cache' = [cache EXCEPT ![Head(w.drop)][w.owner] = NoEntry] /\ UNCHANGED faults
          \/ Fault /\ UNCHANGED cache
       /\ IF left = <<>> THEN Ends(s) ELSE Goes(s, [w EXCEPT !.drop = left])
       /\ UNCHANGED <<database, bookmarks, collections, items, ids, mixed, writes>>

\* A database error or a crash ends a writing request where it is.
Interrupt(s) ==
    /\ work[s].op \in Writes /\ Fault
    /\ Ends(s)
    /\ UNCHANGED <<database, bookmarks, collections, items, ids, cache, mixed, writes>>

-----------------------------------------------------------------------------
\* Readers.
ListOf(kind, o) ==
    IF kind = "collections" THEN {c \in collections : c.owner = o}
    ELSE {b \in bookmarks : b.owner = o}

\* A hit is answered from the cache and changes nothing.  A miss, and a get that fails,
\* goes to the database.
StartRead(s, kind, o) ==
    /\ ~Busy(s)
    /\ IF cache[kind][o].hit THEN Fault ELSE UNCHANGED faults
    /\ Goes(s, [NoWork EXCEPT !.op = "read", !.pc = "load", !.owner = o, !.label = kind])
    /\ Mixes(o, Writes)
    /\ UNCHANGED <<database, bookmarks, collections, items, ids, cache, writes>>

LoadList(s) ==
    /\ work[s].pc = "load"
    /\ Goes(s, [work[s] EXCEPT !.pc = "fill", !.value = ListOf(work[s].label, work[s].owner)])
    /\ UNCHANGED <<database, bookmarks, collections, items, ids, cache, mixed, writes, faults>>

FillCache(s) ==
    LET w == work[s]
    IN /\ w.pc = "fill"
       /\ cache' = [cache EXCEPT ![w.label][w.owner] = [hit |-> TRUE, value |-> w.value]]
       /\ Ends(s)
       /\ UNCHANGED <<database, bookmarks, collections, items, ids, mixed, writes, faults>>

\* A read whose set fails, or that is interrupted, leaves nothing behind.
DropRead(s) ==
    /\ work[s].op = "read"
    /\ Ends(s)
    /\ UNCHANGED <<database, bookmarks, collections, items, ids, cache, mixed, writes, faults>>

\* Mutant: set without a time to live.
MutantNoTTL(kind, o) == FALSE
Lapses(kind, o) == cache[kind][o].hit

Expire(kind, o) ==
    /\ Lapses(kind, o)
    /\ cache' = [cache EXCEPT ![kind][o] = NoEntry]
    /\ UNCHANGED <<database, bookmarks, collections, items, ids, work, mixed, writes, faults>>

-----------------------------------------------------------------------------
Proceed(s) ==
    \/ AddBookmark(s) \/ RemoveBookmark(s) \/ UpdateBookmark(s)
    \/ CreateCollection(s) \/ UpdateCollection(s) \/ DeleteCollection(s)
    \/ AddToCollection(s) \/ RemoveFromCollection(s)
    \/ DropKey(s) \/ LoadList(s) \/ FillCache(s)

Begin(s) ==
    \/ \E o \in Owners, t \in Targets : StartAdd(s, o, t)
    \/ \E op \in {"remove", "update"} : StartBookmarkWrite(s, op)
    \/ \E o \in Owners, n \in Titles : StartCreateCollection(s, o, n)
    \/ StartCollectionWrite(s)
    \/ \E op \in ItemWrites : StartItemWrite(s, op)
    \/ \E kind \in Kinds, o \in Owners : StartRead(s, kind, o)

BookmarksNext ==
    \/ \E s \in Keepers : Begin(s) \/ Proceed(s) \/ Interrupt(s) \/ DropRead(s)
    \/ \E kind \in Kinds, o \in Owners : Expire(kind, o)

\* Nothing asks for a request to be sent; one that runs goes on, and Redis drops an
\* entry whose time has come.
BookmarksFairness ==
    /\ \A s \in Keepers : WF_bookmarkVars(Proceed(s))
    /\ \A kind \in Kinds, o \in Owners : WF_bookmarkVars(Expire(kind, o))

BookmarksSpec == BookmarksInit /\ [][BookmarksNext]_bookmarkVars /\ BookmarksFairness

-----------------------------------------------------------------------------
BookmarksTypeOK ==
    /\ database \in BookmarkStores
    /\ bookmarks \subseteq Bookmark /\ collections \subseteq Collection /\ items \subseteq Item
    /\ ids \in Nat
    /\ cache \in [Kinds -> [Owners -> Entries]]
    /\ work \in [Keepers -> Works]
    /\ mixed \subseteq Owners
    /\ writes \in 0..MaxWrites /\ faults \in 0..MaxFaults

\* addBookmark refuses "Bu öğe zaten bookmark'larınızda mevcut" (already bookmarked): two
\* requests that pass the check together still leave one bookmark, and renaming or
\* creating collections at the same time never gives a user two of one name.
OneBookmarkPerTarget ==
    /\ \A b, c \in bookmarks : b.owner = c.owner /\ b.target = c.target => b = c
    /\ \A c, d \in collections : c.owner = d.owner /\ c.name = d.name => c = d

\* On PostgreSQL an item never outlives its bookmark or its collection, however the
\* checks of addToCollection interleave with deletions.
ItemsPointSomewhere ==
    database = "postgres" =>
        \A i \in items : /\ \E b \in bookmarks : b.id = i.bookmark
                         /\ \E c \in collections : c.id = i.collection

Fresh(kind, o) == cache[kind][o].hit => cache[kind][o].value = ListOf(kind, o)

\* As long as no read of an owner ran beside one of that owner's writes and no get or
\* del was lost, every cached list equals the database once the owner's writes are over:
\* each write deletes all the keys it makes stale.
CacheFreshWhenQuiet ==
    \A o \in Owners :
        o \notin mixed /\ faults = 0 /\ ~Beside(o, Writes) => \A k \in Kinds : Fresh(k, o)

\* A stale list, left by a read that overtook a write or by a lost call, is not for ever:
\* when the writes stop, every cached list is right from some moment on.
StaleListsGoAway == <>[](\A kind \in Kinds, o \in Owners : Fresh(kind, o))
=============================================================================

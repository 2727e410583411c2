------------------------------- MODULE Assets -------------------------------
(***************************************************************************)
(* Files in object storage and the rows that name them: the thumbnail of a *)
(* question, the image and the background of a user.                       *)
(*                                                                         *)
(* A client uploads a file under a fresh key and then names the key in a   *)
(* request.  Handlers erase the file that a row named before they write    *)
(* the row, one awaited call after the other, and go on when erasing       *)
(* fails.                                                                  *)
(***************************************************************************)
EXTENDS Naturals

CONSTANTS
    Threads,            \* questions: each has a place for a thumbnail
    Avatars, Backdrops, \* users' places for an image and for a background
    Clerks,             \* requests in progress at a time
    AssetStores,        \* databases DATABASE_TYPE may select
    NoPlace,
    MaxFiles,           \* bound on uploads
    MaxJobs,            \* bound on requests
    MaxAssetMishaps          \* bound on failing calls

Places == Threads \union Avatars \union Backdrops

ASSUME AssetAssumption ==
    /\ Threads \intersect (Avatars \union Backdrops) = {} /\ Avatars \intersect Backdrops = {}
    /\ NoPlace \notin Places
    /\ AssetStores \subseteq {"mongo", "postgres"}
    /\ MaxFiles \in Nat /\ MaxJobs \in Nat /\ MaxAssetMishaps \in Nat

Files == 1..MaxFiles
NoFile == 0             \* a row without one; 'default.jpg' for an image
Unindexed == MaxFiles + 1   \* no document in the search index

VARIABLES
    assetStore,     \* the database of this deployment
    file,           \* file[f]: the place its key was built for, and what became of it
    row,            \* row[p]: whether the row exists, and the file it names
    doc,            \* doc[q]: the file that the search document of q shows
    errand,            \* errand[s]: the request in slot s
    named,          \* files that a row ever named
    hurt,           \* places where a call failed or a file was erased by hand
    crowded,        \* places with two requests in progress at once, ever
    again,          \* places for which one file was named in two requests
    cleared,        \* questions whose thumbnail was removed, ever
    jobs, mishaps

History == <<named, hurt, crowded, again, cleared>>
assetVars == <<assetStore, file, row, doc, errand, History, jobs, mishaps>>

Errands == [op : {"none", "create", "update", "remove", "delete", "image"},
              pc : {"idle", "erase", "write", "sync", "delete", "unindex"},
              place : Places \union {NoPlace},
              new : Files \union {NoFile},      \* the key in the request
              old : Files \union {NoFile},      \* the key to erase
              shown : Files \union {NoFile}]    \* the entity that will be indexed
NoErrand == [op |-> "none", pc |-> "idle", place |-> NoPlace, new |-> NoFile, old |-> NoFile,
          shown |-> NoFile]
Unused == [place |-> NoPlace, state |-> "unused"]

AssetsInit ==
    /\ assetStore \in AssetStores
    /\ file = [f \in Files |-> Unused]
    /\ row = [p \in Places |-> [state |-> IF p \in Threads THEN "none" ELSE "live",
                                names |-> NoFile]]
    /\ doc = [q \in Threads |-> Unindexed]
    /\ errand = [s \in Clerks |-> NoErrand]
    /\ named = {} /\ hurt = {} /\ crowded = {} /\ again = {} /\ cleared = {}
    /\ jobs = 0 /\ mishaps = 0

-----------------------------------------------------------------------------
Busied(p) == \E s \in Clerks : errand[s].place = p
Serves(s, j) == errand' = [errand EXCEPT ![s] = j]
Done(s) == Serves(s, NoErrand)
Sets(p, state, f) == row' = [row EXCEPT ![p] = [state |-> state, names |-> f]]

Mishap(p) ==
    mishaps < MaxAssetMishaps /\ mishaps' = mishaps + 1 /\ hurt' = hurt \union {p}

Sent == named \union {errand[s].new : s \in Clerks}

Takes(s, j) ==
    /\ errand[s].op = "none" /\ jobs < MaxJobs
    /\ Serves(s, j)
    /\ jobs' = jobs + 1
    /\ crowded' = IF Busied(j.place) THEN crowded \union {j.place} ELSE crowded
    /\ again' = IF j.new \in Sent \ {NoFile} THEN again \union {j.place} ELSE again
    /\ UNCHANGED <<assetStore, file, doc, named, hurt, mishaps>>

\* The key is built from the place and a random id: files are numbered as they come.  The
\* client sends the file itself.
Upload(p, f) ==
    /\ file[f] = Unused /\ \A g \in 1..f - 1 : file[g] # Unused
    /\ file' = [file EXCEPT ![f] = [place |-> p, state |-> "stored"]]
    /\ UNCHANGED <<assetStore, row, doc, errand, History, jobs, mishaps>>

\* The endpoint that erases a file by its key looks at no row.
DeleteAsset(f) ==
    /\ file[f].state = "stored" /\ mishaps < MaxAssetMishaps
    /\ file' = [file EXCEPT ![f].state = "erased"]
    /\ mishaps' = mishaps + 1
    /\ hurt' = hurt \union {file[f].place}
    /\ UNCHANGED <<assetStore, row, doc, errand, named, crowded, again, cleared, jobs>>

\* A client names files that it uploaded for this place and still sees.
Offered(p) == {f \in Files : file[f] = [place |-> p, state |-> "stored"]}

-----------------------------------------------------------------------------
\* The handlers.  createQuestion inserts the row, then sets the thumbnail.
StartCreate(s, q, f) ==
    /\ row[q].state = "none"
    /\ Takes(s, [NoErrand EXCEPT !.op = "create", !.place = q, !.new = f,
                              !.pc = IF f = NoFile THEN "sync" ELSE "write"])
    /\ Sets(q, "live", NoFile)
    /\ UNCHANGED cleared

\* Mutant: the old file is erased also when the request names it again.
MutantErasesSame(old, new) == old # NoFile
\* Mutant: the old file is forgotten.
MutantForgets(old, new) == FALSE
Outdated(old, new) == old # NoFile /\ old # new

\* updateQuestion without a removal: with a key, with other fields only (f is NoFile), or
\* with nothing to write, when the entity that was read is indexed.
StartUpdateThumbnail(s, q, f) ==
    /\ row[q].state = "live"
    /\ \E pc \in IF f = NoFile THEN {"write", "sync"}
                 ELSE IF Outdated(row[q].names, f) THEN {"erase"} ELSE {"write"} :
          Takes(s, [NoErrand EXCEPT !.op = "update", !.place = q, !.new = f, !.pc = pc,
                                    !.old = row[q].names, !.shown = row[q].names])
    /\ UNCHANGED <<row, cleared>>

StartRemoveThumbnail(s, q) ==
    /\ row[q].state = "live"
    /\ Takes(s, [NoErrand EXCEPT !.op = "remove", !.place = q, !.old = row[q].names,
                              !.pc = IF row[q].names # NoFile THEN "erase" ELSE "write"])
    /\ cleared' = cleared \union {q}
    /\ UNCHANGED row

StartDeleteThread(s, q) ==
    /\ row[q].state = "live"
    /\ Takes(s, [NoErrand EXCEPT !.op = "delete", !.place = q, !.pc = "delete"])
    /\ UNCHANGED <<row, cleared>>

StartImage(s, a, f) ==
    /\ f # NoFile
    /\ Takes(s, [NoErrand EXCEPT !.op = "image", !.place = a, !.new = f, !.old = row[a].names,
                              !.pc = IF Outdated(row[a].names, f) THEN "erase" ELSE "write"])
    /\ UNCHANGED <<row, cleared>>

\* updateProfileBackground is one write.  It erases nothing, and null is not written.
SetBackground(b, f) ==
    /\ jobs < MaxJobs /\ jobs' = jobs + 1
    /\ IF f = NoFile THEN UNCHANGED row ELSE Sets(b, "live", f)
    /\ named' = named \union ({f} \ {NoFile})
    /\ UNCHANGED <<assetStore, file, doc, errand, hurt, crowded, again, cleared, mishaps>>

-----------------------------------------------------------------------------
\* The awaited calls.
EraseOld(s) ==
    LET j == errand[s]
    IN /\ j.pc = "erase"
       /\ \/ file' = [file EXCEPT ![j.old].state = "erased"] /\ UNCHANGED <<hurt, mishaps>>
          \/ Mishap(j.place) /\ UNCHANGED file
       /\ Serves(s, [j EXCEPT !.old = NoFile,
                              !.pc = IF j.op = "delete" THEN "unindex" ELSE "write"])
       /\ UNCHANGED <<assetStore, row, doc, named, crowded, again, cleared, jobs>>

\* What updateById leaves in the row.  PostgreSQL leaves out a thumbnail that is null.
Written(j) ==
    IF j.op = "remove"
    THEN IF assetStore = "postgres" THEN row[j.place].names ELSE NoFile
    ELSE IF j.new = NoFile THEN row[j.place].names ELSE j.new

\* updateById throws when the row is gone; otherwise it returns the row.
WriteRow(s) ==
    LET j == errand[s]
    IN /\ j.pc = "write"
       /\ IF row[j.place].state = "live"
          THEN /\ Sets(j.place, "live", Written(j))
               /\ named' = named \union ({Written(j)} \ {NoFile})
               /\ IF j.op = "image" THEN Done(s)
                  ELSE Serves(s, [j EXCEPT !.pc = "sync", !.shown = Written(j)])
          ELSE Done(s) /\ UNCHANGED <<row, named>>
       /\ UNCHANGED <<assetStore, file, doc, hurt, crowded, again, cleared, jobs, mishaps>>

\* 'index' replaces the document; 'update' needs one, and keeps a thumbnail that is not
\* in the new one.
Synced(j) ==
    IF j.op = "create" THEN j.shown
    ELSE IF doc[j.place] = Unindexed \/ j.shown = NoFile THEN doc[j.place] ELSE j.shown

SyncThread(s) ==
    LET j == errand[s]
    IN /\ j.pc = "sync"
       /\ \/ doc' = [doc EXCEPT ![j.place] = Synced(j)] /\ UNCHANGED <<hurt, mishaps>>
          \/ Mishap(j.place) /\ UNCHANGED doc
       /\ Done(s)
       /\ UNCHANGED <<assetStore, file, row, named, crowded, again, cleared, jobs>>

\* The thumbnail to erase is that of the row as it was deleted.
DeleteThreadRow(s) ==
    LET j == errand[s]  old == row[j.place].names
    IN /\ j.pc = "delete"
       /\ IF row[j.place].state = "live"
          THEN /\ Sets(j.place, "gone", NoFile)
               /\ Serves(s, [j EXCEPT !.old = old,
                                      !.pc = IF old = NoFile THEN "unindex" ELSE "erase"])
          ELSE Done(s) /\ UNCHANGED row
       /\ UNCHANGED <<assetStore, file, doc, History, jobs, mishaps>>

UnindexThread(s) ==
    LET j == errand[s]
    IN /\ j.pc = "unindex"
       /\ \/ doc' = [doc EXCEPT ![j.place] = Unindexed] /\ UNCHANGED <<hurt, mishaps>>
          \/ Mishap(j.place) /\ UNCHANGED doc
       /\ Done(s)
       /\ UNCHANGED <<assetStore, file, row, named, crowded, again, cleared, jobs>>

\* The database fails or the process dies: nothing is rolled back.
BreakOff(s) ==
    /\ errand[s].op # "none" /\ Mishap(errand[s].place)
    /\ Done(s)
    /\ UNCHANGED <<assetStore, file, row, doc, named, crowded, again, cleared, jobs>>

Asks(s) ==
    \/ \E q \in Threads : \/ \E f \in Offered(q) \union {NoFile} :
                                StartCreate(s, q, f) \/ StartUpdateThumbnail(s, q, f)
                          \/ StartRemoveThumbnail(s, q) \/ StartDeleteThread(s, q)
    \/ \E a \in Avatars : \E f \in Offered(a) : StartImage(s, a, f)

AssetsNext ==
    \/ \E p \in Places, f \in Files : Upload(p, f)
    \/ \E f \in Files : DeleteAsset(f)
    \/ \E b \in Backdrops : \E f \in Offered(b) \union {NoFile} : SetBackground(b, f)
    \/ \E s \in Clerks : \/ Asks(s) \/ EraseOld(s) \/ WriteRow(s) \/ SyncThread(s)
                         \/ DeleteThreadRow(s) \/ UnindexThread(s) \/ BreakOff(s)

AssetsSpec == AssetsInit /\ [][AssetsNext]_assetVars

-----------------------------------------------------------------------------
AssetsTypeOK ==
    /\ assetStore \in AssetStores
    /\ file \in [Files -> [place : Places \union {NoPlace},
                           state : {"unused", "stored", "erased"}]]
    /\ row \in [Places -> [state : {"none", "live", "gone"}, names : Files \union {NoFile}]]
    /\ doc \in [Threads -> Files \union {NoFile, Unindexed}]
    /\ errand \in [Clerks -> Errands]
    /\ named \subseteq Files
    /\ hurt \subseteq Places /\ crowded \subseteq Places /\ again \subseteq Places
    /\ cleared \subseteq Threads
    /\ jobs \in 0..MaxJobs /\ mishaps \in 0..MaxAssetMishaps

NamedIsStored(p) == row[p].names # NoFile => file[row[p].names].state = "stored"
LeftAreErased(p) ==
    \A f \in named : file[f].place = p /\ row[p].names # f => file[f].state = "erased"
Settled(p) == p \notin hurt /\ ~Busied(p)

\* Files follow the rows once no request for a place is in progress, as long as none of
\* its calls failed.  A file that a row names is there, also when requests overlapped
\* unless one file was named twice (on PostgreSQL unless a thumbnail was removed).  When
\* none overlapped, a file that a question or a user's image named before is erased, and a
\* search document shows the thumbnail of its question, unless one was removed.
FilesFollowRows ==
    \A p \in Places : Settled(p) =>
        /\ p \notin crowded \intersect again /\ (assetStore = "postgres" => p \notin cleared)
              => NamedIsStored(p)
        /\ p \notin Backdrops \union crowded \union cleared => LeftAreErased(p)
        /\ p \in Threads \ (crowded \union cleared) /\ row[p].state = "live"
              => doc[p] = row[p].names
=============================================================================

------------------------------ MODULE DriveViews ------------------------------
(* The reads that put several queries together: GET /contents, GET /trash and *)
(* POST /download, beside everything that writes (Drive).  MongoDB gives them *)
(* no common snapshot: between two of their queries anything may happen.      *)
EXTENDS Drive

CONSTANTS
  View,       \* slots: how many such reads are in flight
  MaxFiles,   \* MAX_FILES, the limit of a batch download
  MaxAsked    \* bound: how many ids the body of a download holds

ASSUME MaxFilesIsNat == MaxFiles \in Nat
ASSUME NoDocIsNoId == NoDoc \notin Location

VARIABLES
  view,       \* per slot, the handler's local variables
  steady      \* history: per slot, the items nobody has touched since its first query

viewVars == <<driveSpecVars, view, steady>>

Item == FolderId \cup FileId

\* Queries of one Promise.all are answered in any order.
Query == {"folders", "files", "crumbs", "folderCounts", "fileCounts"}

ViewState ==
  [pc      : {"idle", "listing", "counting", "roots", "walk", "tree", "files", "urls", "done"},
   of      : {"none", "contents", "trash", "download"},
   root    : Location,            \* the folder shown, or the one being downloaded
   roots   : SUBSET FolderId,     \* download: the folderIds still to come
   asked   : SUBSET Item,         \* download: all the ids of the body
   pending : SUBSET Query,        \* the queries that are still out
   todo    : SUBSET Location,     \* what a walk up or down has still to visit
   folders : SUBSET FolderId,     \* folders found so far
   files   : SUBSET FileId,       \* files found so far
   crumbs  : SUBSET FolderId,     \* contents: the breadcrumbs
   counted : SUBSET Item,         \* the items behind itemCount and childCount
   above   : [FolderId -> Location \cup {NoDoc}],        \* download: parents read
   path    : [FileId -> SUBSET FolderId]]                \* download: folders in a file's path

NoView ==
  [pc |-> "idle", of |-> "none", root |-> Home, roots |-> {}, asked |-> {},
   pending |-> {}, todo |-> {}, folders |-> {}, files |-> {}, crumbs |-> {},
   counted |-> {}, above |-> [f \in FolderId |-> NoDoc],
   path |-> [x \in FileId |-> {}]]

Turn(v, next) == view' = [view EXCEPT ![v] = next]
Continue(v, next) == Turn(v, next) /\ UNCHANGED steady
Begin(v, next) == Turn(v, next) /\ steady' = [steady EXCEPT ![v] = Item]
End(v) == Turn(v, NoView) /\ steady' = [steady EXCEPT ![v] = {}]

\* A query of a Promise.all comes back.  After the last listing the children of
\* the folders found are counted, and then the answer is complete.
Returned(q, query) ==
  IF q.pending # {query}
    THEN [q EXCEPT !.pending = @ \ {query}]
    ELSE IF q.pc = "listing"
           THEN [q EXCEPT !.pc = "counting", !.pending = {"folderCounts", "fileCounts"},
                          !.todo = {}]
           ELSE [q EXCEPT !.pc = "done", !.pending = {}]

Active(doc) == doc.status = "active"
Trashed(doc) == doc.status = "trashed"

ActiveFoldersIn(places) == {f \in Folders : Active(folder[f]) /\ folder[f].parent \in places}
ActiveFilesIn(places) == {x \in Files : Active(file[x]) /\ file[x].folder \in places}

-----------------------------------------------------------------------------
(* getContents *)

\* findOne of the folder, whatever its status (404 when it is gone); no query
\* for the top.
OpenContents(v, loc) ==
  /\ view[v].pc = "idle"
  /\ loc = Home \/ (loc \in FolderId /\ Stored(loc))
  /\ Begin(v, [NoView EXCEPT !.pc = "listing", !.of = "contents", !.root = loc,
                             !.pending = {"folders", "files", "crumbs"}, !.todo = {loc}])

\* For a mutant: the folder shown is among its own subfolders.
ListFoldersAndItself(v) ==
  LET q == view[v]
  IN /\ q.of = "contents" /\ "folders" \in q.pending
     /\ Continue(v, Returned([q EXCEPT !.folders = ActiveFoldersIn({q.root}) \cup {q.root}],
                             "folders"))

ListFolders(v) ==
  LET q == view[v]
  IN /\ q.of = "contents" /\ "folders" \in q.pending
     /\ Continue(v, Returned([q EXCEPT !.folders = ActiveFoldersIn({q.root})], "folders"))

ListFiles(v) ==
  LET q == view[v]
  IN /\ q.of = "contents" /\ "files" \in q.pending
     /\ Continue(v, Returned([q EXCEPT !.files = ActiveFilesIn({q.root})], "files"))

\* For a mutant: folders in the trash are no breadcrumbs.
NamesActiveFolder(at) == at # Home /\ Stored(at) /\ Active(folder[at])

NamesFolder(at) == at # Home /\ Stored(at)

\* One turn of buildBreadcrumbPath: one folder up, till the top or a folder that
\* is gone.
Breadcrumb(v) ==
  LET q == view[v]
  IN /\ "crumbs" \in q.pending
     /\ \E at \in q.todo :
          Continue(v, IF NamesFolder(at)
                        THEN [q EXCEPT !.crumbs = @ \cup {at}, !.todo = {folder[at].parent}]
                        ELSE Returned([q EXCEPT !.todo = {}], "crumbs"))

\* The two aggregates: the children, of the status shown, of the folders listed.
Shown(q) == IF q.of = "trash" THEN "trashed" ELSE "active"

CountFolders(v) ==
  LET q == view[v]
      hit == {g \in Folders : folder[g].status = Shown(q) /\ folder[g].parent \in q.folders}
  IN /\ "folderCounts" \in q.pending
     /\ Continue(v, Returned([q EXCEPT !.counted = @ \cup hit], "folderCounts"))

CountFiles(v) ==
  LET q == view[v]
      hit == {x \in Files : file[x].status = Shown(q) /\ file[x].folder \in q.folders}
  IN /\ "fileCounts" \in q.pending
     /\ Continue(v, Returned([q EXCEPT !.counted = @ \cup hit], "fileCounts"))

-----------------------------------------------------------------------------
(* listTrash *)

\* The ids of all trashed folders come first.
ListTrashed(v) ==
  /\ view[v].pc = "idle"
  /\ Begin(v, [NoView EXCEPT !.pc = "listing", !.of = "trash",
                             !.pending = {"folders", "files"},
                             !.todo = {f \in Folders : Trashed(folder[f])}])

\* For a mutant: only what lies at the top of the drive is a root of the trash.
RootFoldersAtHome(v) ==
  LET q == view[v]
      hit == {f \in Folders : Trashed(folder[f]) /\ folder[f].parent = Home}
  IN /\ q.of = "trash" /\ "folders" \in q.pending
     /\ Continue(v, Returned([q EXCEPT !.folders = hit], "folders"))

\* Trashed folders and files whose own folder is not in the trash.
RootFolders(v) ==
  LET q == view[v]
      hit == {f \in Folders : Trashed(folder[f]) /\ folder[f].parent \notin q.todo}
  IN /\ q.of = "trash" /\ "folders" \in q.pending
     /\ Continue(v, Returned([q EXCEPT !.folders = hit], "folders"))

RootFiles(v) ==
  LET q == view[v]
      hit == {x \in Files : Trashed(file[x]) /\ file[x].folder \notin q.todo}
  IN /\ q.of = "trash" /\ "files" \in q.pending
     /\ Continue(v, Returned([q EXCEPT !.files = hit], "files"))

-----------------------------------------------------------------------------
(* batchDownload *)

\* Folders, files or both; a body with neither is answered 400.
AskDownload(v, roots, picks) ==
  /\ view[v].pc = "idle"
  /\ roots \cup picks # {}
  /\ Cardinality(roots \cup picks) <= MaxAsked
  /\ Begin(v, [NoView EXCEPT !.pc = "roots", !.of = "download", !.roots = roots,
                             !.asked = roots \cup picks])

\* The next folder, which must be active: another one is skipped.
FindRoot(v) ==
  LET q == view[v]
  IN /\ q.pc = "roots"
     /\ \E f \in q.roots :
          Continue(v, IF Stored(f) /\ Active(folder[f])
                        THEN [q EXCEPT !.pc = "walk", !.root = f, !.roots = @ \ {f},
                                       !.todo = {f}, !.folders = {f}]
                        ELSE [q EXCEPT !.roots = @ \ {f}])

\* getDescendantFolderIds, one find per folder, whatever their status.
WalkDown(v) ==
  LET q == view[v]
  IN /\ q.pc = "walk"
     /\ \/ q.todo = {} /\ Continue(v, [q EXCEPT !.pc = "tree"])
        \/ \E f \in q.todo :
             Continue(v, [q EXCEPT !.todo = (@ \ {f}) \cup ChildrenOf(f),
                                   !.folders = @ \cup ChildrenOf(f)])

\* The parents of all these folders, for the paths.
ReadTree(v) ==
  LET q == view[v]
  IN /\ q.pc = "tree"
     /\ Continue(v, [q EXCEPT !.pc = "files",
          !.above = [f \in FolderId |->
                       IF f \in q.folders /\ Stored(f) THEN folder[f].parent ELSE NoDoc]])

\* Where a climb from f to the parents read gets, as far as `stop`; at the end it
\* may get to a folder that was not read.
Climb(above, stop, f) ==
  {g \in FolderId :
     \A S \in SUBSET FolderId :
       (f \in S /\ \A h \in S \ {stop} : above[h] \in FolderId => above[h] \in S) => g \in S}

\* The folders read on the way from f up.
Upward(above, stop, f) == {g \in Climb(above, stop, f) : above[g] # NoDoc}

\* getRelativePath: the root's name first, then those of the folders below it.
RelativePath(q, f) == {q.root} \cup Upward(q.above, q.root, f)

\* For a mutant: the files directly in the folder, and none below.
FindFilesOfRoot(v) ==
  LET q == view[v]
      found == ActiveFilesIn({q.root}) \ q.files
  IN /\ q.pc = "files"
     /\ Continue(v, [q EXCEPT !.pc = "roots", !.files = @ \cup found,
          !.path = [x \in FileId |-> IF x \in found THEN {q.root} ELSE @[x]]])

\* The active files in any of them, each under the first path found for it.
FindFiles(v) ==
  LET q == view[v]
      found == ActiveFilesIn(q.folders) \ q.files
  IN /\ q.pc = "files"
     /\ Continue(v, [q EXCEPT !.pc = "roots", !.root = Home, !.folders = {},
          !.above = NoView.above, !.files = @ \cup found,
          !.path = [x \in FileId |->
                      IF x \in found THEN RelativePath(q, file[x].folder) ELSE @[x]]])

\* The files asked for by id join, with no path.  No file at all is an empty
\* answer, and too many are refused, before any query.
JoinFiles(v) ==
  LET q == view[v]
      all == q.files \cup (q.asked \cap FileId)
  IN /\ q.pc = "roots" /\ q.roots = {}
     /\ IF all = {} \/ Cardinality(all) > MaxFiles
          THEN End(v)
          ELSE Continue(v, [q EXCEPT !.pc = "urls", !.files = all])

\* The files are read again by id, and those still active get their URLs.
PresignUrls(v) ==
  LET q == view[v]
  IN /\ q.pc = "urls"
     /\ Continue(v, [q EXCEPT !.pc = "done",
                              !.files = {x \in q.files \cap Files : Active(file[x])}])

-----------------------------------------------------------------------------
Take(v) == view[v].pc = "done" /\ End(v)

Reading(v) ==
  \/ \E loc \in Location : OpenContents(v, loc)
  \/ ListFolders(v) \/ ListFiles(v) \/ Breadcrumb(v) \/ CountFolders(v) \/ CountFiles(v)
  \/ ListTrashed(v) \/ RootFolders(v) \/ RootFiles(v)
  \/ \E roots \in SUBSET FolderId, picks \in SUBSET FileId : AskDownload(v, roots, picks)
  \/ FindRoot(v) \/ WalkDown(v) \/ ReadTree(v) \/ FindFiles(v)
  \/ JoinFiles(v) \/ PresignUrls(v)
  \/ Take(v)

Touched ==
  {f \in FolderId : folder'[f] # folder[f]} \cup {x \in FileId : file'[x] # file[x]}

\* A step of a writer, seen by every read in flight.
Writing ==
  /\ FolderSide \/ FileSide \/ TrashSide \/ DriveTick
  /\ UNCHANGED view
  /\ steady' = [v \in View |-> steady[v] \ Touched]

CrashAll ==
  /\ DriveCrash
  /\ view' = [v \in View |-> NoView]
  /\ steady' = [v \in View |-> {}]

ViewsInit ==
  /\ DriveInit
  /\ view = [v \in View |-> NoView]
  /\ steady = [v \in View |-> {}]

ViewsNext ==
  \/ (Writing \/ CrashAll) /\ NotePlaces /\ Busy' <= MaxBusy
  \/ (\E v \in View : Reading(v)) /\ UNCHANGED driveSpecVars

ViewsSpec == ViewsInit /\ [][ViewsNext]_viewVars

-----------------------------------------------------------------------------
ViewsTypeOK ==
  /\ view \in [View -> ViewState]
  /\ steady \in [View -> SUBSET Item]

Done(v, of) == view[v].pc = "done" /\ view[v].of = of

Parents == [g \in FolderId |-> IF Stored(g) THEN folder[g].parent ELSE NoDoc]

\* The folders from f up to the top, f included.
Chain(f) == Upward(Parents, Home, f)

\* Nobody has touched any of them, or taken away one that was above them.
Unmoved(f, items) == Climb(Parents, Home, f) \subseteq items

\* Contents may be torn, but only about what was touched meanwhile: everything
\* untouched is listed exactly if it is active and in the folder, counted exactly
\* if it is active and in a folder listed, and a chain of untouched folders is
\* the trail of breadcrumbs.
ContentsAreExact ==
  \A v \in View : Done(v, "contents") =>
    LET q == view[v]
    IN /\ \A f \in steady[v] \cap FolderId :
            /\ f \in q.folders <=> f \in ActiveFoldersIn({q.root})
            /\ f \in q.counted <=> f \in ActiveFoldersIn(q.folders)
       /\ \A x \in steady[v] \cap FileId :
            /\ x \in q.files <=> x \in ActiveFilesIn({q.root})
            /\ x \in q.counted <=> x \in ActiveFilesIn(q.folders)
       /\ (q.root # Home /\ Unmoved(q.root, steady[v])) => q.crumbs = Chain(q.root)

\* A trashed item is shown exactly if the folder it was in is not in the trash as
\* well, as long as neither of the two is touched: an item that nobody touches
\* cannot be hidden from the trash and be lost there.
TrashListingIsExact ==
  \A v \in View : Done(v, "trash") =>
    LET q == view[v]
        hidden == {f \in Folders : Trashed(folder[f])}
    IN /\ \A f \in steady[v] \cap Folders :
            folder[f].parent \in steady[v] \cup {Home} =>
              (f \in q.folders <=> Trashed(folder[f]) /\ folder[f].parent \notin hidden)
       /\ \A x \in steady[v] \cap Files :
            file[x].folder \in steady[v] \cup {Home} =>
              (x \in q.files <=> Trashed(file[x]) /\ file[x].folder \notin hidden)

\* A download that is answered has every untouched active file that was asked for
\* or lies below a folder asked for through untouched folders, under its
\* whole path from such a folder, and nothing that was untouched and inactive.
DownloadIsComplete ==
  \A v \in View : Done(v, "download") =>
    LET q == view[v]
        roots == {r \in q.asked \cap steady[v] \cap Folders : Active(folder[r])}
        within(r) == {x \in steady[v] \cap Files :
                        /\ file[x].folder \in FolderId
                        /\ r \in Chain(file[x].folder)
                        /\ Unmoved(file[x].folder, steady[v])}
        below == UNION {within(r) : r \in roots}
        paths(x) == {(Chain(file[x].folder) \ Chain(r)) \cup {r} : r \in q.asked \cap FolderId}
    IN /\ \A x \in steady[v] \cap q.files : HasFile(x) /\ Active(file[x])
       /\ \A x \in steady[v] \cap Files \cap (below \cup q.asked) :
            Active(file[x]) => x \in q.files
       /\ \A x \in below \cap q.files : q.path[x] \in paths(x)

=============================================================================

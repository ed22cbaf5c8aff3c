----------------------------- MODULE ViewsProofs -----------------------------
(* What contents, trash listings and downloads guarantee although no snapshot *)
(* covers their queries: they are exact about all that nobody touches         *)
(* meanwhile, for every drive and every number of readers and writers.        *)
EXTENDS DriveViews, DriveProofs

-----------------------------------------------------------------------------
(* Reads beside the drive *)

\* Every step of a reader stutters, and every other step is one of the drive.
LEMMA StepsOfTheDrive ==
  ASSUME [ViewsNext]_viewVars
  PROVE  [DriveNext]_driveSpecVars
<1>1. CASE UNCHANGED viewVars
  BY <1>1 DEF viewVars
<1>2. CASE (Writing \/ CrashAll) /\ NotePlaces /\ Busy' <= MaxBusy
  BY <1>2 DEF Writing, CrashAll, DriveNext
<1> QED BY <1>1, <1>2 DEF ViewsNext

\* ViewsNext adds reads to the drive's own steps, so what is proved of the drive is
\* at hand beside them.
LEMMA ReadsDisturbNothing == ViewsSpec => DriveSpec
<1>1. ViewsInit => DriveInit
  BY DEF ViewsInit
<1>2. [ViewsNext]_viewVars => [DriveNext]_driveSpecVars
  BY StepsOfTheDrive
<1> QED BY <1>1, <1>2, PTL DEF ViewsSpec, DriveSpec

-----------------------------------------------------------------------------
(* What a reader holds between two queries *)

Listings == {"folders", "files", "crumbs"}
Counts == {"folderCounts", "fileCounts"}

SlotFits(q) ==
  /\ q.pc \notin {"listing", "counting"} => q.pending = {}
  /\ q.pc = "listing" =>
       \/ /\ q.of = "contents" /\ q.pending \subseteq Listings
          /\ \A a, b \in q.todo : a = b
       \/ /\ q.of = "trash" /\ q.pending \subseteq {"folders", "files"}
          /\ q.todo \subseteq FolderId
  /\ q.pc = "counting" => q.of \in {"contents", "trash"} /\ q.pending \subseteq Counts
  /\ q.pc \in {"roots", "walk", "tree", "files", "urls"} => q.of = "download"
  /\ q.pc \in {"walk", "tree", "files"} => q.root \in FolderId
  /\ q.pc = "walk" => q.todo \subseteq FolderId

Slots ==
  /\ view \in [View -> ViewState] /\ steady \in [View -> SUBSET Item]
  /\ \A v \in View : SlotFits(view[v])

\* A slot goes on as n.
NowHolds(v, n) ==
  /\ n \in ViewState /\ SlotFits(n) /\ view'[v] = n
  /\ view' \in [View -> ViewState]
  /\ \A w \in View \ {v} : view'[w] = view[w]

\* A turn leaves its own slot as n and the others as they were.
LEMMA TurnHolds ==
  ASSUME Slots, NEW v \in View, NEW n \in ViewState, SlotFits(n), Turn(v, n)
  PROVE  NowHolds(v, n)
  BY DEF Slots, Turn, NowHolds

\* An empty slot.
LEMMA NoViewFits == NoView \in ViewState /\ SlotFits(NoView)
  BY DEF NoView, ViewState, SlotFits, Location, Item, Query

\* What comes back leaves the rest of the slot alone.
SameBut(n, q) ==
  /\ n.of = q.of /\ n.root = q.root /\ n.roots = q.roots /\ n.asked = q.asked
  /\ n.above = q.above /\ n.path = q.path

\* The order in which a listing gets its answers.
Answered(n, q, query) ==
  \/ /\ q.pc = "listing" /\ n.pc = "listing"
     /\ n.pending = q.pending \ {query}
  \/ /\ q.pc = "listing" /\ n.pc = "counting"
     /\ q.pending = {query} /\ n.pending = Counts
  \/ /\ q.pc = "counting" /\ n.pc = "counting"
     /\ n.pending = q.pending \ {query}
  \/ /\ q.pc = "counting" /\ n.pc = "done"
     /\ q.pending = {query} /\ n.pending = {}

\* What a slot is once one of its queries is back.
LEMMA ReturnedFits ==
  ASSUME NEW q \in ViewState, SlotFits(q), NEW query \in q.pending, NEW n, n = Returned(q, query)
  PROVE  /\ n \in ViewState /\ SlotFits(n)
         /\ SameBut(n, q) /\ Answered(n, q, query)
         /\ n.pc = "listing" => n.todo = q.todo
         /\ n.folders = q.folders /\ n.files = q.files
         /\ n.crumbs = q.crumbs /\ n.counted = q.counted
<1>1. q.pc \in {"listing", "counting"}
  BY DEF SlotFits
<1>2. CASE q.pending # {query}
  <2>1. n = [q EXCEPT !.pending = @ \ {query}]
    BY <1>2 DEF Returned
  <2>2. /\ n \in ViewState /\ n.pc = q.pc /\ n.pending = q.pending \ {query} /\ n.todo = q.todo
        /\ n.of = q.of /\ n.root = q.root /\ n.roots = q.roots /\ n.asked = q.asked
        /\ n.above = q.above /\ n.path = q.path
        /\ n.folders = q.folders /\ n.files = q.files
        /\ n.crumbs = q.crumbs /\ n.counted = q.counted
    BY <2>1 DEF ViewState
  <2> QED BY <1>1, <2>2 DEF SlotFits, SameBut, Answered
<1>3. CASE q.pending = {query} /\ q.pc = "listing"
  <2>1. n = [q EXCEPT !.pc = "counting", !.pending = {"folderCounts", "fileCounts"}, !.todo = {}]
    BY <1>3 DEF Returned
  <2>2. /\ n.pc = "counting" /\ n.pending = Counts
        /\ n.of = q.of /\ n.root = q.root /\ n.roots = q.roots /\ n.asked = q.asked
        /\ n.above = q.above /\ n.path = q.path
        /\ n.folders = q.folders /\ n.files = q.files
        /\ n.crumbs = q.crumbs /\ n.counted = q.counted
    BY <2>1 DEF ViewState, Counts
  <2>3. {"folderCounts", "fileCounts"} \in SUBSET Query /\ {} \in SUBSET Location
    BY DEF Query
  <2>4. n \in ViewState
    BY <2>1, <2>3 DEF ViewState
  <2>5. q.of \in {"contents", "trash"}
    BY <1>3 DEF SlotFits
  <2>6. SlotFits(n)
    BY <2>2, <2>5 DEF SlotFits
  <2> QED BY <1>3, <2>2, <2>4, <2>6 DEF SameBut, Answered
<1>4. CASE q.pending = {query} /\ q.pc = "counting"
  <2>1. n = [q EXCEPT !.pc = "done", !.pending = {}]
    BY <1>4 DEF Returned
  <2>2. /\ n \in ViewState /\ n.pc = "done" /\ n.pending = {}
        /\ n.of = q.of /\ n.root = q.root /\ n.roots = q.roots /\ n.asked = q.asked
        /\ n.above = q.above /\ n.path = q.path
        /\ n.folders = q.folders /\ n.files = q.files
        /\ n.crumbs = q.crumbs /\ n.counted = q.counted
    BY <2>1 DEF ViewState
  <2> QED BY <1>4, <2>2 DEF SlotFits, SameBut, Answered
<1> QED BY <1>1, <1>2, <1>3, <1>4

\* n holds what m holds.
SameResults(n, m) ==
  /\ n.folders = m.folders /\ n.files = m.files
  /\ n.crumbs = m.crumbs /\ n.counted = m.counted

\* A query may write what it is about, and nothing else of the slot.
Wrote(m, q) ==
  /\ m \in ViewState /\ SlotFits(m) /\ SameBut(m, q)
  /\ m.pc = q.pc /\ m.pending = q.pending

\* The slot q goes on as n when one of its queries is answered.
Answers(v, q, n, query) ==
  /\ NowHolds(v, n) /\ steady' = steady
  /\ SameBut(n, q) /\ Answered(n, q, query)

\* A query that is back leaves a slot that fits, with what the query wrote.
LEMMA AnswerGoesOn ==
  ASSUME Slots, NEW v \in View, NEW q, q = view[v], NEW n, n = view'[v],
         NEW m, Wrote(m, q), NEW query \in q.pending, Continue(v, Returned(m, query))
  PROVE  /\ Answers(v, q, n, query) /\ SameResults(n, m)
         /\ n.pc = "listing" => n.todo = m.todo
<1> DEFINE a == Returned(m, query)
<1>0. query \in m.pending
  BY DEF Wrote
<1>1. /\ a \in ViewState /\ SlotFits(a)
      /\ SameBut(a, m) /\ Answered(a, m, query)
      /\ a.pc = "listing" => a.todo = m.todo
      /\ SameResults(a, m)
  BY <1>0, ReturnedFits DEF Wrote, SameResults
<1>2. Turn(v, a) /\ steady' = steady
  BY DEF Continue
<1> HIDE DEF a
<1>3. NowHolds(v, a)
  BY <1>1, <1>2, TurnHolds
<1>4. n = a
  BY <1>3 DEF NowHolds
<1>5. SameBut(n, q) /\ Answered(n, q, query)
  BY <1>1, <1>4 DEF Wrote, SameBut, Answered
<1> QED BY <1>1, <1>2, <1>3, <1>4, <1>5 DEF Answers

\* A slot that is given a next step goes on with it.
LEMMA GoesOn ==
  ASSUME Slots, NEW v \in View, NEW m \in ViewState, SlotFits(m),
         NEW n, n = view'[v], Continue(v, m) \/ Begin(v, m)
  PROVE  NowHolds(v, n) /\ n = m
  BY TurnHolds DEF Continue, Begin, NowHolds

\* A slot that is done with, or given up.
LEMMA SlotEnds ==
  ASSUME Slots, NEW v \in View, End(v)
  PROVE  NowHolds(v, NoView) /\ steady' = [steady EXCEPT ![v] = {}]
  BY TurnHolds, NoViewFits DEF End

Stores == FolderStoreTypeOK /\ FileStoreTypeOK

-----------------------------------------------------------------------------
(* What each query does to its slot *)

OpenedContents(n) ==
  /\ n.of = "contents" /\ n.pc = "listing" /\ n.pending = Listings /\ n.todo = {n.root}
  /\ n.folders = {} /\ n.files = {} /\ n.crumbs = {} /\ n.counted = {}

\* GET /contents starts with all its queries out and nothing known.
LEMMA OpenContentsEffect ==
  ASSUME Slots, NEW v \in View, NEW loc \in Location, NEW n, n = view'[v], OpenContents(v, loc)
  PROVE  /\ NowHolds(v, n) /\ OpenedContents(n)
         /\ steady' = [steady EXCEPT ![v] = Item]
<1> DEFINE m == [NoView EXCEPT !.pc = "listing", !.of = "contents", !.root = loc,
                               !.pending = {"folders", "files", "crumbs"}, !.todo = {loc}]
<1>1. {"folders", "files", "crumbs"} \in SUBSET Query /\ {loc} \in SUBSET Location
  BY DEF Query
<1>2. m \in ViewState
  BY <1>1, NoViewFits DEF ViewState
<1>3. OpenedContents(m)
  BY NoViewFits DEF ViewState, OpenedContents, Listings, NoView
<1>4. SlotFits(m)
  BY <1>3 DEF SlotFits, OpenedContents, Listings
<1>5. Begin(v, m)
  BY DEF OpenContents
<1> HIDE DEF m
<1> QED BY <1>2, <1>3, <1>4, <1>5, GoesOn DEF Begin

\* Listing the subfolders writes them and nothing else.
LEMMA ListFoldersEffect ==
  ASSUME Slots, NEW v \in View, NEW q, q = view[v], NEW n, n = view'[v], ListFolders(v)
  PROVE  /\ Answers(v, q, n, "folders") /\ "folders" \in q.pending /\ q.of = "contents"
         /\ n.folders = ActiveFoldersIn({q.root})
         /\ n.files = q.files /\ n.crumbs = q.crumbs /\ n.counted = q.counted
         /\ n.pc = "listing" => n.todo = q.todo
<1> DEFINE m == [q EXCEPT !.folders = ActiveFoldersIn({q.root})]
<1>1. q \in ViewState /\ SlotFits(q)
  BY DEF Slots
<1>2. ActiveFoldersIn({q.root}) \in SUBSET FolderId
  BY <1>1 DEF ActiveFoldersIn, Folders
<1>3. Continue(v, Returned(m, "folders")) /\ q.of = "contents" /\ "folders" \in q.pending
  BY DEF ListFolders
<1>4. /\ m \in ViewState
      /\ m.folders = ActiveFoldersIn({q.root})
      /\ m.files = q.files /\ m.crumbs = q.crumbs /\ m.counted = q.counted
      /\ m.todo = q.todo
      /\ SameBut(m, q) /\ m.pc = q.pc /\ m.pending = q.pending
  BY <1>1, <1>2 DEF ViewState, SameBut
<1> HIDE DEF m
<1>5. Wrote(m, q)
  BY <1>1, <1>4 DEF Wrote, SlotFits, SameBut
<1> QED BY <1>3, <1>4, <1>5, AnswerGoesOn DEF SameResults

\* Listing the files writes them and nothing else.
LEMMA ListFilesEffect ==
  ASSUME Slots, NEW v \in View, NEW q, q = view[v], NEW n, n = view'[v], ListFiles(v)
  PROVE  /\ Answers(v, q, n, "files") /\ "files" \in q.pending /\ q.of = "contents"
         /\ n.files = ActiveFilesIn({q.root})
         /\ n.folders = q.folders /\ n.crumbs = q.crumbs /\ n.counted = q.counted
         /\ n.pc = "listing" => n.todo = q.todo
<1> DEFINE m == [q EXCEPT !.files = ActiveFilesIn({q.root})]
<1>1. q \in ViewState /\ SlotFits(q)
  BY DEF Slots
<1>2. ActiveFilesIn({q.root}) \in SUBSET FileId
  BY <1>1 DEF ActiveFilesIn, Files
<1>3. Continue(v, Returned(m, "files")) /\ q.of = "contents" /\ "files" \in q.pending
  BY DEF ListFiles
<1>4. /\ m \in ViewState
      /\ m.files = ActiveFilesIn({q.root})
      /\ m.folders = q.folders /\ m.crumbs = q.crumbs /\ m.counted = q.counted
      /\ m.todo = q.todo
      /\ SameBut(m, q) /\ m.pc = q.pc /\ m.pending = q.pending
  BY <1>1, <1>2 DEF ViewState, SameBut
<1> HIDE DEF m
<1>5. Wrote(m, q)
  BY <1>1, <1>4 DEF Wrote, SlotFits, SameBut
<1> QED BY <1>3, <1>4, <1>5, AnswerGoesOn DEF SameResults

\* The documents behind the two aggregates, and behind the two of the trash.
FoldersHit(q) == {g \in Folders : folder[g].status = Shown(q) /\ folder[g].parent \in q.folders}
FilesHit(q) == {x \in Files : file[x].status = Shown(q) /\ file[x].folder \in q.folders}
TrashedRoots(todo) == {f \in Folders : Trashed(folder[f]) /\ folder[f].parent \notin todo}
TrashedLeaves(todo) == {x \in Files : Trashed(file[x]) /\ file[x].folder \notin todo}

\* Counting folders adds those counted and nothing else.
LEMMA CountFoldersEffect ==
  ASSUME Slots, NEW v \in View, NEW q, q = view[v], NEW n, n = view'[v], CountFolders(v)
  PROVE  /\ Answers(v, q, n, "folderCounts") /\ "folderCounts" \in q.pending
         /\ n.counted = q.counted \cup FoldersHit(q)
         /\ n.folders = q.folders /\ n.files = q.files /\ n.crumbs = q.crumbs
         /\ n.pc = "listing" => n.todo = q.todo
<1> DEFINE m == [q EXCEPT !.counted = q.counted \cup FoldersHit(q)]
<1>1. q \in ViewState /\ SlotFits(q)
  BY DEF Slots
<1>2. q.counted \cup FoldersHit(q) \in SUBSET Item
  BY <1>1 DEF ViewState, FoldersHit, Folders, Item
<1>3. Continue(v, Returned(m, "folderCounts")) /\ "folderCounts" \in q.pending
  BY DEF CountFolders, FoldersHit
<1>4. /\ m \in ViewState
      /\ m.counted = q.counted \cup FoldersHit(q)
      /\ m.folders = q.folders /\ m.files = q.files /\ m.crumbs = q.crumbs
      /\ m.todo = q.todo
      /\ SameBut(m, q) /\ m.pc = q.pc /\ m.pending = q.pending
  BY <1>1, <1>2 DEF ViewState, SameBut
<1> HIDE DEF m
<1>5. Wrote(m, q)
  BY <1>1, <1>4 DEF Wrote, SlotFits, SameBut
<1> QED BY <1>3, <1>4, <1>5, AnswerGoesOn DEF SameResults

\* Counting files adds those counted and nothing else.
LEMMA CountFilesEffect ==
  ASSUME Slots, NEW v \in View, NEW q, q = view[v], NEW n, n = view'[v], CountFiles(v)
  PROVE  /\ Answers(v, q, n, "fileCounts") /\ "fileCounts" \in q.pending
         /\ n.counted = q.counted \cup FilesHit(q)
         /\ n.folders = q.folders /\ n.files = q.files /\ n.crumbs = q.crumbs
         /\ n.pc = "listing" => n.todo = q.todo
<1> DEFINE m == [q EXCEPT !.counted = q.counted \cup FilesHit(q)]
<1>1. q \in ViewState /\ SlotFits(q)
  BY DEF Slots
<1>2. q.counted \cup FilesHit(q) \in SUBSET Item
  BY <1>1 DEF ViewState, FilesHit, Files, Item
<1>3. Continue(v, Returned(m, "fileCounts")) /\ "fileCounts" \in q.pending
  BY DEF CountFiles, FilesHit
<1>4. /\ m \in ViewState
      /\ m.counted = q.counted \cup FilesHit(q)
      /\ m.folders = q.folders /\ m.files = q.files /\ m.crumbs = q.crumbs
      /\ m.todo = q.todo
      /\ SameBut(m, q) /\ m.pc = q.pc /\ m.pending = q.pending
  BY <1>1, <1>2 DEF ViewState, SameBut
<1> HIDE DEF m
<1>5. Wrote(m, q)
  BY <1>1, <1>4 DEF Wrote, SlotFits, SameBut
<1> QED BY <1>3, <1>4, <1>5, AnswerGoesOn DEF SameResults

\* The roots among the trashed folders are told from the ids read first.
LEMMA RootFoldersEffect ==
  ASSUME Slots, NEW v \in View, NEW q, q = view[v], NEW n, n = view'[v], RootFolders(v)
  PROVE  /\ Answers(v, q, n, "folders") /\ "folders" \in q.pending /\ q.of = "trash"
         /\ n.folders = TrashedRoots(q.todo)
         /\ n.files = q.files /\ n.crumbs = q.crumbs /\ n.counted = q.counted
         /\ n.pc = "listing" => n.todo = q.todo
<1> DEFINE m == [q EXCEPT !.folders = TrashedRoots(q.todo)]
<1>1. q \in ViewState /\ SlotFits(q)
  BY DEF Slots
<1>2. TrashedRoots(q.todo) \in SUBSET FolderId
  BY <1>1 DEF TrashedRoots, Folders
<1>3. Continue(v, Returned(m, "folders")) /\ q.of = "trash" /\ "folders" \in q.pending
  BY DEF RootFolders, TrashedRoots
<1>4. /\ m \in ViewState
      /\ m.folders = TrashedRoots(q.todo)
      /\ m.files = q.files /\ m.crumbs = q.crumbs /\ m.counted = q.counted
      /\ m.todo = q.todo
      /\ SameBut(m, q) /\ m.pc = q.pc /\ m.pending = q.pending
  BY <1>1, <1>2 DEF ViewState, SameBut
<1> HIDE DEF m
<1>5. Wrote(m, q)
  BY <1>1, <1>4 DEF Wrote, SlotFits, SameBut
<1> QED BY <1>3, <1>4, <1>5, AnswerGoesOn DEF SameResults

\* And so are those among the trashed files.
LEMMA RootFilesEffect ==
  ASSUME Slots, NEW v \in View, NEW q, q = view[v], NEW n, n = view'[v], RootFiles(v)
  PROVE  /\ Answers(v, q, n, "files") /\ "files" \in q.pending /\ q.of = "trash"
         /\ n.files = TrashedLeaves(q.todo)
         /\ n.folders = q.folders /\ n.crumbs = q.crumbs /\ n.counted = q.counted
         /\ n.pc = "listing" => n.todo = q.todo
<1> DEFINE m == [q EXCEPT !.files = TrashedLeaves(q.todo)]
<1>1. q \in ViewState /\ SlotFits(q)
  BY DEF Slots
<1>2. TrashedLeaves(q.todo) \in SUBSET FileId
  BY <1>1 DEF TrashedLeaves, Files
<1>3. Continue(v, Returned(m, "files")) /\ q.of = "trash" /\ "files" \in q.pending
  BY DEF RootFiles, TrashedLeaves
<1>4. /\ m \in ViewState
      /\ m.files = TrashedLeaves(q.todo)
      /\ m.folders = q.folders /\ m.crumbs = q.crumbs /\ m.counted = q.counted
      /\ m.todo = q.todo
      /\ SameBut(m, q) /\ m.pc = q.pc /\ m.pending = q.pending
  BY <1>1, <1>2 DEF ViewState, SameBut
<1> HIDE DEF m
<1>5. Wrote(m, q)
  BY <1>1, <1>4 DEF Wrote, SlotFits, SameBut
<1> QED BY <1>3, <1>4, <1>5, AnswerGoesOn DEF SameResults

\* One folder up: it is named, or the trail ends.
LEMMA BreadcrumbEffect ==
  ASSUME Slots, FolderStoreTypeOK,
         NEW v \in View, NEW q, q = view[v], NEW n, n = view'[v], Breadcrumb(v)
  PROVE  \E at \in q.todo :
           /\ NowHolds(v, n) /\ steady' = steady /\ SameBut(n, q)
           /\ q.pc = "listing" /\ q.of = "contents" /\ "crumbs" \in q.pending
           /\ n.folders = q.folders /\ n.files = q.files /\ n.counted = q.counted
           /\ \/ /\ NamesFolder(at)
                 /\ n.pc = "listing" /\ n.pending = q.pending
                 /\ n.crumbs = q.crumbs \cup {at} /\ n.todo = {folder[at].parent}
              \/ /\ ~NamesFolder(at)
                 /\ Answered(n, q, "crumbs") /\ n.crumbs = q.crumbs
<1>1. q \in ViewState /\ SlotFits(q) /\ "crumbs" \in q.pending
  BY DEF Slots, Breadcrumb
<1>2. q.pc = "listing" /\ q.of = "contents"
  BY <1>1 DEF SlotFits, Counts, Listings
<1>3. PICK at \in q.todo :
        Continue(v, IF NamesFolder(at)
                      THEN [q EXCEPT !.crumbs = @ \cup {at}, !.todo = {folder[at].parent}]
                      ELSE Returned([q EXCEPT !.todo = {}], "crumbs"))
  BY DEF Breadcrumb
<1>4. CASE NamesFolder(at)
  <2> DEFINE m == [q EXCEPT !.crumbs = @ \cup {at}, !.todo = {folder[at].parent}]
  <2>1. at \in FolderId
    BY <1>1, <1>4 DEF ViewState, Location, NamesFolder
  <2>2. folder[at] \in FolderDoc
    BY <1>4, <2>1 DEF FolderStoreTypeOK, NamesFolder, Stored
  <2>3. {at} \in SUBSET FolderId /\ {folder[at].parent} \in SUBSET Location
    BY <2>1, <2>2 DEF FolderDoc
  <2>4. /\ m \in ViewState /\ SameBut(m, q)
        /\ m.crumbs = q.crumbs \cup {at} /\ m.todo = {folder[at].parent}
        /\ m.folders = q.folders /\ m.files = q.files /\ m.counted = q.counted
        /\ m.pc = q.pc /\ m.pending = q.pending
    BY <1>1, <2>3 DEF ViewState, SameBut
  <2>5. Continue(v, m)
    BY <1>3, <1>4
  <2> HIDE DEF m
  <2>6. SlotFits(m)
    BY <1>1, <1>2, <2>4 DEF SlotFits, SameBut
  <2>7. NowHolds(v, n) /\ n = m
    BY <2>4, <2>5, <2>6, GoesOn
  <2> QED BY <1>1, <1>2, <1>4, <2>4, <2>5, <2>7 DEF Continue
<1>5. CASE ~NamesFolder(at)
  <2> DEFINE m == [q EXCEPT !.todo = {}]
  <2>1. /\ m \in ViewState /\ SameBut(m, q) /\ SameResults(m, q) /\ m.todo = {}
        /\ m.pc = q.pc /\ m.pending = q.pending
    BY <1>1 DEF ViewState, SameBut, SameResults
  <2>2. Continue(v, Returned(m, "crumbs"))
    BY <1>3, <1>5
  <2> HIDE DEF m
  <2>3. Wrote(m, q)
    BY <1>1, <1>2, <2>1 DEF Wrote, SlotFits, SameBut
  <2>4. Answers(v, q, n, "crumbs") /\ SameResults(n, m)
    BY <1>1, <2>2, <2>3, AnswerGoesOn
  <2> QED BY <1>1, <1>2, <1>5, <2>1, <2>4 DEF Answers, SameResults
<1> QED BY <1>4, <1>5

\* GET /trash starts with the ids of all trashed folders.
LEMMA ListTrashedEffect ==
  ASSUME Slots, NEW v \in View, NEW n, n = view'[v], ListTrashed(v)
  PROVE  /\ NowHolds(v, n) /\ steady' = [steady EXCEPT ![v] = Item]
         /\ n.of = "trash" /\ n.pc = "listing" /\ n.pending = {"folders", "files"}
         /\ n.todo = {f \in Folders : Trashed(folder[f])}
<1> DEFINE ids == {f \in Folders : Trashed(folder[f])}
           m == [NoView EXCEPT !.pc = "listing", !.of = "trash",
                               !.pending = {"folders", "files"}, !.todo = ids]
<1>1. {"folders", "files"} \in SUBSET Query /\ ids \in SUBSET FolderId
  BY DEF Query, Folders
<1>2. Begin(v, m)
  BY DEF ListTrashed
<1> HIDE DEF ids
<1>3. /\ m \in ViewState /\ m.of = "trash" /\ m.pc = "listing"
      /\ m.pending = {"folders", "files"} /\ m.todo = ids
  BY <1>1, NoViewFits DEF ViewState, Location
<1> HIDE DEF m
<1>4. SlotFits(m)
  BY <1>1, <1>3 DEF SlotFits
<1>5. NowHolds(v, n) /\ n = m
  BY <1>2, <1>3, <1>4, GoesOn
<1> QED BY <1>2, <1>3, <1>5 DEF ids, Begin

\* A download starts with the ids of its body, and no file.
LEMMA AskDownloadEffect ==
  ASSUME Slots, NEW v \in View, NEW roots \in SUBSET FolderId, NEW picks \in SUBSET FileId,
         NEW n, n = view'[v], AskDownload(v, roots, picks)
  PROVE  /\ NowHolds(v, n) /\ steady' = [steady EXCEPT ![v] = Item]
         /\ n.of = "download" /\ n.pc = "roots" /\ n.roots = roots
         /\ n.asked = roots \cup picks /\ n.files = {}
<1> DEFINE m == [NoView EXCEPT !.pc = "roots", !.of = "download", !.roots = roots,
                               !.asked = roots \cup picks]
<1>1. roots \cup picks \in SUBSET Item
  BY DEF Item
<1>2. Begin(v, m)
  BY DEF AskDownload
<1>3. /\ m \in ViewState /\ m.of = "download" /\ m.pc = "roots" /\ m.roots = roots
      /\ m.asked = roots \cup picks /\ m.files = {} /\ m.pending = {}
  BY <1>1, NoViewFits DEF ViewState, NoView
<1> HIDE DEF m
<1>4. SlotFits(m)
  BY <1>3 DEF SlotFits
<1>5. NowHolds(v, n) /\ n = m
  BY <1>2, <1>3, <1>4, GoesOn
<1> QED BY <1>2, <1>3, <1>5 DEF Begin

\* A download goes on as n with the files and paths it has.
Walks(v, q, n) ==
  /\ NowHolds(v, n) /\ steady' = steady
  /\ q.of = "download" /\ n.of = q.of /\ n.asked = q.asked
  /\ n.files = q.files /\ n.path = q.path

\* The next folder asked for becomes the root of a walk, or is passed over.
LEMMA FindRootEffect ==
  ASSUME Slots, NEW v \in View, NEW q, q = view[v], NEW n, n = view'[v], FindRoot(v)
  PROVE  /\ Walks(v, q, n) /\ q.pc = "roots"
         /\ \E f \in q.roots :
              /\ f \in FolderId /\ n.roots = q.roots \ {f}
              /\ \/ /\ Stored(f) /\ Active(folder[f])
                    /\ n.pc = "walk" /\ n.root = f /\ n.todo = {f} /\ n.folders = {f}
                 \/ ~(Stored(f) /\ Active(folder[f])) /\ n.pc = "roots"
<1>1. q \in ViewState /\ SlotFits(q) /\ q.pc = "roots"
  BY DEF Slots, FindRoot
<1>2. q.of = "download" /\ q.pending = {}
  BY <1>1 DEF SlotFits
<1>3. PICK f \in q.roots :
        Continue(v, IF Stored(f) /\ Active(folder[f])
                      THEN [q EXCEPT !.pc = "walk", !.root = f, !.roots = @ \ {f},
                                     !.todo = {f}, !.folders = {f}]
                      ELSE [q EXCEPT !.roots = @ \ {f}])
  BY DEF FindRoot
<1>4. f \in FolderId /\ q.roots \ {f} \in SUBSET FolderId
  BY <1>1 DEF ViewState
<1>5. {f} \in SUBSET FolderId /\ f \in Location /\ {f} \in SUBSET Location
  BY <1>4 DEF Location
<1>6. CASE Stored(f) /\ Active(folder[f])
  <2> DEFINE m == [q EXCEPT !.pc = "walk", !.root = f, !.roots = @ \ {f},
                            !.todo = {f}, !.folders = {f}]
  <2>1. /\ m \in ViewState /\ m.of = q.of /\ m.asked = q.asked
        /\ m.files = q.files /\ m.path = q.path /\ m.roots = q.roots \ {f}
        /\ m.pc = "walk" /\ m.root = f /\ m.todo = {f} /\ m.folders = {f} /\ m.pending = {}
    BY <1>1, <1>2, <1>4, <1>5 DEF ViewState
  <2>2. Continue(v, m)
    BY <1>3, <1>6
  <2> HIDE DEF m
  <2>3. SlotFits(m)
    BY <1>2, <1>4, <2>1 DEF SlotFits
  <2>4. NowHolds(v, n) /\ n = m
    BY <2>1, <2>2, <2>3, GoesOn
  <2> QED BY <1>1, <1>2, <1>4, <1>6, <2>1, <2>2, <2>4 DEF Walks, Continue
<1>7. CASE ~(Stored(f) /\ Active(folder[f]))
  <2> DEFINE m == [q EXCEPT !.roots = @ \ {f}]
  <2>1. /\ m \in ViewState /\ m.of = q.of /\ m.asked = q.asked
        /\ m.files = q.files /\ m.path = q.path /\ m.roots = q.roots \ {f}
        /\ m.pc = "roots" /\ m.pending = {}
    BY <1>1, <1>2, <1>4 DEF ViewState
  <2>2. Continue(v, m)
    BY <1>3, <1>7
  <2> HIDE DEF m
  <2>3. SlotFits(m)
    BY <1>2, <2>1 DEF SlotFits
  <2>4. NowHolds(v, n) /\ n = m
    BY <2>1, <2>2, <2>3, GoesOn
  <2> QED BY <1>1, <1>2, <1>4, <1>7, <2>1, <2>2, <2>4 DEF Walks, Continue
<1> QED BY <1>6, <1>7

\* A turn of the walk reads the children of one folder, or ends it.
LEMMA WalkDownEffect ==
  ASSUME Slots, NEW v \in View, NEW q, q = view[v], NEW n, n = view'[v], WalkDown(v)
  PROVE  /\ Walks(v, q, n) /\ q.pc = "walk" /\ n.roots = q.roots /\ n.root = q.root
         /\ \/ /\ q.todo = {} /\ n.pc = "tree"
               /\ n.todo = {} /\ n.folders = q.folders
            \/ /\ n.pc = "walk"
               /\ \E f \in q.todo :
                    /\ n.todo = (q.todo \ {f}) \cup ChildrenOf(f)
                    /\ n.folders = q.folders \cup ChildrenOf(f)
<1>1. q \in ViewState /\ SlotFits(q) /\ q.pc = "walk"
  BY DEF Slots, WalkDown
<1>2. q.of = "download" /\ q.pending = {} /\ q.root \in FolderId /\ q.todo \subseteq FolderId
  BY <1>1 DEF SlotFits
<1>3. CASE q.todo = {} /\ Continue(v, [q EXCEPT !.pc = "tree"])
  <2> DEFINE m == [q EXCEPT !.pc = "tree"]
  <2>1. /\ m \in ViewState /\ m.of = q.of /\ m.asked = q.asked
        /\ m.files = q.files /\ m.path = q.path /\ m.roots = q.roots /\ m.root = q.root
        /\ m.pc = "tree" /\ m.todo = q.todo /\ m.folders = q.folders /\ m.pending = {}
    BY <1>1, <1>2 DEF ViewState
  <2>2. Continue(v, m)
    BY <1>3
  <2> HIDE DEF m
  <2>3. SlotFits(m)
    BY <1>2, <2>1 DEF SlotFits
  <2>4. NowHolds(v, n) /\ n = m
    BY <2>1, <2>2, <2>3, GoesOn
  <2> QED BY <1>1, <1>2, <1>3, <2>1, <2>2, <2>4 DEF Walks, Continue
<1>4. ASSUME NEW f \in q.todo,
             Continue(v, [q EXCEPT !.todo = (@ \ {f}) \cup ChildrenOf(f),
                                   !.folders = @ \cup ChildrenOf(f)])
      PROVE  /\ Walks(v, q, n) /\ n.roots = q.roots /\ n.root = q.root /\ n.pc = "walk"
             /\ \E g \in q.todo :
                  /\ n.todo = (q.todo \ {g}) \cup ChildrenOf(g)
                  /\ n.folders = q.folders \cup ChildrenOf(g)
  <2> DEFINE todo == (q.todo \ {f}) \cup ChildrenOf(f)
             m == [q EXCEPT !.todo = (@ \ {f}) \cup ChildrenOf(f),
                            !.folders = @ \cup ChildrenOf(f)]
  <2>1. todo \subseteq FolderId /\ todo \in SUBSET Location
    BY <1>2 DEF ChildrenOf, Folders, Location
  <2>2. q.folders \cup ChildrenOf(f) \in SUBSET FolderId
    BY <1>1 DEF ViewState, ChildrenOf, Folders
  <2>3. /\ m \in ViewState /\ m.of = q.of /\ m.asked = q.asked
        /\ m.files = q.files /\ m.path = q.path /\ m.roots = q.roots /\ m.root = q.root
        /\ m.pc = "walk" /\ m.todo = todo
        /\ m.folders = q.folders \cup ChildrenOf(f) /\ m.pending = {}
    BY <1>1, <1>2, <2>1, <2>2 DEF ViewState
  <2>4. Continue(v, m)
    BY <1>4
  <2> HIDE DEF m
  <2>5. SlotFits(m)
    BY <1>2, <2>1, <2>3 DEF SlotFits
  <2>6. NowHolds(v, n) /\ n = m
    BY <2>3, <2>4, <2>5, GoesOn
  <2> QED BY <1>1, <1>2, <2>3, <2>4, <2>6 DEF Walks, Continue
<1>5. \/ q.todo = {} /\ Continue(v, [q EXCEPT !.pc = "tree"])
      \/ \E f \in q.todo :
           Continue(v, [q EXCEPT !.todo = (@ \ {f}) \cup ChildrenOf(f),
                                 !.folders = @ \cup ChildrenOf(f)])
  BY DEF WalkDown
<1> QED BY <1>1, <1>3, <1>4, <1>5

\* What a download knows of the folders it has walked.
ReadOf(folders) ==
  [f \in FolderId |-> IF f \in folders /\ Stored(f) THEN folder[f].parent ELSE NoDoc]

\* The parents of what was walked are read, and nothing else changes.
LEMMA ReadTreeEffect ==
  ASSUME Slots, FolderStoreTypeOK,
         NEW v \in View, NEW q, q = view[v], NEW n, n = view'[v], ReadTree(v)
  PROVE  /\ Walks(v, q, n) /\ q.pc = "tree" /\ n.pc = "files" /\ n.roots = q.roots
         /\ n.root = q.root /\ n.todo = q.todo /\ n.folders = q.folders
         /\ n.above = ReadOf(q.folders)
<1> DEFINE m == [q EXCEPT !.pc = "files", !.above = ReadOf(q.folders)]
<1>1. q \in ViewState /\ SlotFits(q) /\ q.pc = "tree"
  BY DEF Slots, ReadTree
<1>2. q.of = "download" /\ q.pending = {} /\ q.root \in FolderId
  BY <1>1 DEF SlotFits
<1>3. ASSUME NEW f \in FolderId, Stored(f) PROVE folder[f].parent \in Location
  BY <1>3 DEF FolderStoreTypeOK, Stored, FolderDoc
<1>4. ReadOf(q.folders) \in [FolderId -> Location \cup {NoDoc}]
  BY <1>3 DEF ReadOf
<1>5. Continue(v, m)
  BY DEF ReadTree, ReadOf
<1> HIDE DEF m
<1>6. /\ m \in ViewState /\ m.of = q.of /\ m.asked = q.asked
      /\ m.files = q.files /\ m.path = q.path /\ m.roots = q.roots /\ m.root = q.root
      /\ m.pc = "files" /\ m.todo = q.todo /\ m.folders = q.folders /\ m.pending = {}
      /\ m.above = ReadOf(q.folders)
  BY <1>1, <1>2, <1>4 DEF ViewState, m
<1>7. SlotFits(m)
  BY <1>2, <1>6 DEF SlotFits
<1>8. NowHolds(v, n) /\ n = m
  BY <1>5, <1>6, <1>7, GoesOn
<1> QED BY <1>1, <1>2, <1>5, <1>6, <1>8 DEF Walks, Continue

\* The files of what was walked join those found, each with its path.
LEMMA FindFilesEffect ==
  ASSUME Slots, NEW v \in View, NEW q, q = view[v], NEW n, n = view'[v], FindFiles(v)
  PROVE  LET found == ActiveFilesIn(q.folders) \ q.files
         IN /\ NowHolds(v, n) /\ steady' = steady
            /\ q.of = "download" /\ q.pc = "files" /\ q.root \in FolderId
            /\ n.of = q.of /\ n.pc = "roots" /\ n.asked = q.asked /\ n.roots = q.roots
            /\ n.files = q.files \cup found
            /\ \A x \in FileId :
                 n.path[x] = IF x \in found THEN RelativePath(q, file[x].folder) ELSE q.path[x]
<1> DEFINE found == ActiveFilesIn(q.folders) \ q.files
           path == [x \in FileId |->
                      IF x \in found THEN RelativePath(q, file[x].folder) ELSE q.path[x]]
           m == [q EXCEPT !.pc = "roots", !.root = Home, !.folders = {},
                          !.above = NoView.above, !.files = @ \cup found, !.path = path]
<1>1. q \in ViewState /\ SlotFits(q) /\ q.pc = "files"
  BY DEF Slots, FindFiles
<1>2. q.of = "download" /\ q.pending = {} /\ q.root \in FolderId
  BY <1>1 DEF SlotFits
<1>3. ASSUME NEW f PROVE RelativePath(q, f) \in SUBSET FolderId
  BY <1>2 DEF RelativePath, Upward, Climb
<1>4. path \in [FileId -> SUBSET FolderId]
  BY <1>1, <1>3 DEF ViewState
<1>5. q.files \cup found \in SUBSET FileId
  BY <1>1 DEF ViewState, ActiveFilesIn, Files
<1>6. NoView.above \in [FolderId -> Location \cup {NoDoc}] /\ Home \in Location
  BY DEF NoView, Location
<1>7. Continue(v, m)
  BY DEF FindFiles
<1> HIDE DEF m, path
<1>8. /\ m \in ViewState /\ m.of = q.of /\ m.asked = q.asked /\ m.pc = "roots"
      /\ m.roots = q.roots /\ m.files = q.files \cup found /\ m.pending = {}
      /\ m.path = path
  BY <1>1, <1>2, <1>4, <1>5, <1>6 DEF ViewState, m
<1>9. SlotFits(m)
  BY <1>2, <1>8 DEF SlotFits
<1>10. NowHolds(v, n) /\ n = m
  BY <1>7, <1>8, <1>9, GoesOn
<1> QED BY <1>1, <1>2, <1>7, <1>8, <1>10 DEF Continue, path

\* The files asked for join those found, or the download ends.
LEMMA JoinFilesEffect ==
  ASSUME Slots, NEW v \in View, NEW q, q = view[v], NEW n, n = view'[v], JoinFiles(v)
  PROVE  \/ End(v)
         \/ /\ NowHolds(v, n) /\ steady' = steady
            /\ q.of = "download" /\ q.pc = "roots" /\ q.roots = {}
            /\ n.of = q.of /\ n.pc = "urls" /\ n.asked = q.asked
            /\ n.path = q.path
            /\ n.files = q.files \cup (q.asked \cap FileId)
<1> DEFINE all == q.files \cup (q.asked \cap FileId)
           m == [q EXCEPT !.pc = "urls", !.files = all]
<1>1. q \in ViewState /\ SlotFits(q) /\ q.pc = "roots" /\ q.roots = {}
  BY DEF Slots, JoinFiles
<1>2. q.of = "download" /\ q.pending = {}
  BY <1>1 DEF SlotFits
<1>3. End(v) \/ Continue(v, m)
  BY DEF JoinFiles
<1>4. CASE Continue(v, m)
  <2>1. all \in SUBSET FileId
    BY <1>1 DEF ViewState
  <2>2. /\ m \in ViewState /\ m.of = q.of /\ m.asked = q.asked /\ m.pc = "urls"
        /\ m.files = all /\ m.pending = {} /\ m.path = q.path
    BY <1>1, <1>2, <2>1 DEF ViewState
  <2> HIDE DEF m
  <2>3. SlotFits(m)
    BY <1>2, <2>2 DEF SlotFits
  <2>4. NowHolds(v, n) /\ n = m
    BY <1>4, <2>2, <2>3, GoesOn
  <2> QED BY <1>1, <1>2, <1>4, <2>2, <2>4 DEF Continue
<1> QED BY <1>3, <1>4

\* What is still active gets a URL.
LEMMA PresignUrlsEffect ==
  ASSUME Slots, NEW v \in View, NEW q, q = view[v], NEW n, n = view'[v], PresignUrls(v)
  PROVE  /\ NowHolds(v, n) /\ steady' = steady
         /\ q.of = "download" /\ q.pc = "urls"
         /\ n.of = q.of /\ n.pc = "done" /\ n.asked = q.asked /\ n.path = q.path
         /\ n.files = {x \in q.files \cap Files : Active(file[x])}
<1> DEFINE left == {x \in q.files \cap Files : Active(file[x])}
           m == [q EXCEPT !.pc = "done", !.files = left]
<1>1. q \in ViewState /\ SlotFits(q) /\ q.pc = "urls"
  BY DEF Slots, PresignUrls
<1>2. q.of = "download" /\ q.pending = {}
  BY <1>1 DEF SlotFits
<1>3. Continue(v, m)
  BY DEF PresignUrls
<1>4. left \in SUBSET FileId
  BY DEF Files
<1> HIDE DEF left
<1>5. /\ m \in ViewState /\ m.of = q.of /\ m.asked = q.asked /\ m.pc = "done"
      /\ m.files = left /\ m.pending = {} /\ m.path = q.path
  BY <1>1, <1>2, <1>4 DEF ViewState
<1> HIDE DEF m
<1>6. SlotFits(m)
  BY <1>2, <1>5 DEF SlotFits
<1>7. NowHolds(v, n) /\ n = m
  BY <1>3, <1>5, <1>6, GoesOn
<1> QED BY <1>1, <1>2, <1>3, <1>5, <1>7 DEF Continue, left

-----------------------------------------------------------------------------
(* The type invariant *)

\* A read writes its own slot and nothing else.
OnlyOwnSlot(v) ==
  /\ NowHolds(v, view'[v])
  /\ steady' \in [View -> SUBSET Item]
  /\ \A w \in View \ {v} : steady'[w] = steady[w]

\* Every step of a read is one of its own slot.
LEMMA ReadingHolds ==
  ASSUME Slots, FolderStoreTypeOK, NEW v \in View, Reading(v)
  PROVE  OnlyOwnSlot(v)
<1> DEFINE q == view[v]
           n == view'[v]
<1>1. ASSUME NowHolds(v, n), steady' = steady \/ steady' = [steady EXCEPT ![v] = Item]
      PROVE  OnlyOwnSlot(v)
  BY <1>1 DEF OnlyOwnSlot, Slots
<1>2. ASSUME End(v) PROVE OnlyOwnSlot(v)
  <2>1. NowHolds(v, NoView) /\ steady' = [steady EXCEPT ![v] = {}]
    BY <1>2, SlotEnds
  <2> QED BY <2>1 DEF NowHolds, OnlyOwnSlot, Slots
<1>3. ASSUME Walks(v, q, n) PROVE OnlyOwnSlot(v)
  BY <1>1, <1>3 DEF Walks
<1>4. ASSUME NEW query, Answers(v, q, n, query) PROVE OnlyOwnSlot(v)
  BY <1>1, <1>4 DEF Answers
<1> HIDE DEF n, q
<1>a. q = view[v] /\ n = view'[v]
  BY DEF q, n
<1>5. ASSUME NEW loc \in Location, OpenContents(v, loc) PROVE OnlyOwnSlot(v)
  BY <1>1, <1>5, <1>a, OpenContentsEffect
<1>6. CASE ListFolders(v)
  BY <1>4, <1>6, <1>a, ListFoldersEffect
<1>7. CASE ListFiles(v)
  BY <1>4, <1>7, <1>a, ListFilesEffect
<1>8. CASE Breadcrumb(v)
  BY <1>1, <1>8, <1>a, BreadcrumbEffect
<1>9. CASE CountFolders(v)
  BY <1>4, <1>9, <1>a, CountFoldersEffect
<1>10. CASE CountFiles(v)
  BY <1>4, <1>10, <1>a, CountFilesEffect
<1>11. CASE ListTrashed(v)
  BY <1>1, <1>11, <1>a, ListTrashedEffect
<1>12. CASE RootFolders(v)
  BY <1>4, <1>12, <1>a, RootFoldersEffect
<1>13. CASE RootFiles(v)
  BY <1>4, <1>13, <1>a, RootFilesEffect
<1>14. ASSUME NEW roots \in SUBSET FolderId, NEW picks \in SUBSET FileId,
              AskDownload(v, roots, picks)
       PROVE  OnlyOwnSlot(v)
  BY <1>1, <1>14, <1>a, AskDownloadEffect
<1>15. CASE FindRoot(v)
  BY <1>3, <1>15, <1>a, FindRootEffect
<1>16. CASE WalkDown(v)
  BY <1>3, <1>16, <1>a, WalkDownEffect
<1>17. CASE ReadTree(v)
  BY <1>3, <1>17, <1>a, ReadTreeEffect
<1>18. CASE FindFiles(v)
  BY <1>1, <1>18, <1>a, FindFilesEffect
<1>19. CASE JoinFiles(v)
  BY <1>1, <1>2, <1>19, <1>a, JoinFilesEffect
<1>20. CASE PresignUrls(v)
  BY <1>1, <1>20, <1>a, PresignUrlsEffect
<1>21. CASE Take(v)
  BY <1>2, <1>21 DEF Take
<1> QED BY <1>5, <1>6, <1>7, <1>8, <1>9, <1>10, <1>11, <1>12, <1>13, <1>14, <1>15, <1>16,
           <1>17, <1>18, <1>19, <1>20, <1>21 DEF Reading

\* No step of a read, a writer or a crash leaves a slot out of order.
LEMMA SlotsStayInOrder ==
  ASSUME Slots, FolderStoreTypeOK, [ViewsNext]_viewVars
  PROVE  Slots'
<1>1. CASE UNCHANGED viewVars
  BY <1>1 DEF viewVars, Slots
<1>2. CASE Writing
  BY <1>2 DEF Writing, Slots
<1>3. CASE CrashAll
  BY <1>3, NoViewFits DEF CrashAll, Slots
<1>4. ASSUME NEW v \in View, Reading(v) PROVE Slots'
  BY <1>4, ReadingHolds DEF OnlyOwnSlot, NowHolds, Slots
<1> QED BY <1>1, <1>2, <1>3, <1>4 DEF ViewsNext

\* The invariant the other proofs stand on: the slots and the stores are typed.
LEMMA SlotsInvariance == ViewsSpec => [](Slots /\ Stores)
<1>1. ViewsInit => Slots
  BY NoViewFits DEF ViewsInit, Slots
<1>2. DriveTypeOK => Stores
  BY DEF DriveTypeOK, TrashTypeOK, Stores
<1>3. Slots /\ Stores /\ [ViewsNext]_viewVars => Slots'
  BY SlotsStayInOrder DEF Stores
<1> QED BY <1>1, <1>2, <1>3, ReadsDisturbNothing, DriveTyping, PTL DEF ViewsSpec

\* ViewsTypeOK, for any number of readers beside any number of writers.
THEOREM ViewsTyping == ViewsSpec => []ViewsTypeOK
<1>1. Slots => ViewsTypeOK
  BY DEF Slots, ViewsTypeOK
<1> QED BY <1>1, SlotsInvariance, PTL

\* Whose steps they are.
LEMMA ReadingKinds ==
  ASSUME Slots, Stores, NEW v \in View, Reading(v), NEW n, n = view'[v]
  PROVE  /\ n.of = "contents" =>
              \/ \E loc \in Location : OpenContents(v, loc)
              \/ ListFolders(v) \/ ListFiles(v) \/ Breadcrumb(v)
              \/ CountFolders(v) \/ CountFiles(v)
         /\ n.of = "trash" =>
              \/ ListTrashed(v) \/ RootFolders(v) \/ RootFiles(v)
              \/ CountFolders(v) \/ CountFiles(v)
         /\ n.of = "download" =>
              \/ \E roots \in SUBSET FolderId, picks \in SUBSET FileId :
                   AskDownload(v, roots, picks)
              \/ FindRoot(v) \/ WalkDown(v) \/ ReadTree(v) \/ FindFiles(v)
              \/ JoinFiles(v) /\ ~End(v)
              \/ PresignUrls(v)
<1>1. PICK q : q = view[v]
  OBVIOUS
<1>2. q \in ViewState /\ SlotFits(q)
  BY <1>1 DEF Slots
<1>3. ASSUME End(v) PROVE n.of = "none"
  BY <1>3, SlotEnds DEF NowHolds, NoView
<1>4. ASSUME NEW loc \in Location, OpenContents(v, loc) PROVE n.of = "contents"
  BY <1>4, OpenContentsEffect DEF OpenedContents
<1>5. ListFolders(v) \/ ListFiles(v) \/ Breadcrumb(v) => n.of = "contents"
  <2>1. ASSUME NEW query, Answers(v, q, n, query), q.of = "contents"
        PROVE  n.of = "contents"
    BY <2>1 DEF Answers, SameBut
  <2>2. ListFolders(v) \/ ListFiles(v) => n.of = "contents"
    BY <1>1, <2>1, ListFoldersEffect, ListFilesEffect
  <2>3. Breadcrumb(v) => n.of = "contents"
    BY <1>1, BreadcrumbEffect DEF SameBut, Stores
  <2> QED BY <2>2, <2>3
<1>6. CountFolders(v) \/ CountFiles(v) => n.of \in {"contents", "trash"}
  <2>1. ASSUME NEW query \in Counts, query \in q.pending, Answers(v, q, n, query)
        PROVE  n.of \in {"contents", "trash"}
    BY <1>2, <2>1 DEF SlotFits, Counts, Listings, Answers, SameBut
  <2> QED BY <1>1, <2>1, CountFoldersEffect, CountFilesEffect DEF Counts
<1>7. ListTrashed(v) \/ RootFolders(v) \/ RootFiles(v) => n.of = "trash"
  BY <1>1, ListTrashedEffect, RootFoldersEffect, RootFilesEffect DEF Answers, SameBut
<1>8. ASSUME NEW roots \in SUBSET FolderId, NEW picks \in SUBSET FileId,
             AskDownload(v, roots, picks)
      PROVE  n.of = "download"
  BY <1>8, AskDownloadEffect
<1>9. FindRoot(v) \/ WalkDown(v) \/ ReadTree(v) => n.of = "download"
  BY <1>1, FindRootEffect, WalkDownEffect, ReadTreeEffect DEF Walks, Stores
<1>10. FindFiles(v) \/ JoinFiles(v) \/ PresignUrls(v) => n.of = "download" \/ End(v)
  BY <1>1, FindFilesEffect, JoinFilesEffect, PresignUrlsEffect
<1>11. Take(v) => n.of = "none"
  BY <1>3 DEF Take
<1> QED BY <1>3, <1>4, <1>5, <1>6, <1>7, <1>8, <1>9, <1>10, <1>11 DEF Reading

-----------------------------------------------------------------------------
(* What nobody touches *)

\* A step changes none of these items.
Untouched(items) ==
  /\ \A f \in items \cap FolderId : folder'[f] = folder[f]
  /\ \A x \in items \cap FileId : file'[x] = file[x]

\* A writer takes what it touches from what counts as untouched.
LEMMA WritingLeaves ==
  ASSUME Slots, Writing, NEW v \in View
  PROVE  view' = view /\ steady'[v] \subseteq steady[v] /\ Untouched(steady'[v])
  BY DEF Slots, Writing, Touched, Untouched

\* All that is left of what a read keeps in mind after a crash.
LEMMA CrashEmpties ==
  ASSUME CrashAll, NEW v \in View
  PROVE  view'[v] = NoView /\ steady'[v] = {}
  BY DEF CrashAll

\* A read leaves the drive alone.
LEMMA ReadingLeaves ==
  ASSUME UNCHANGED driveSpecVars
  PROVE  folder' = folder /\ file' = file
  BY DEF driveSpecVars, trashVars, driveVars, storeVars, fileVars

-----------------------------------------------------------------------------
(* The trash listing *)

FoldersBack(q) == q.pc # "listing" \/ "folders" \notin q.pending
FilesBack(q) == q.pc # "listing" \/ "files" \notin q.pending

InTrash == {f \in Folders : Trashed(folder[f])}

\* While the listing is out, the ids read first are still right about what nobody
\* has touched, and so is each of the two lists that are back.
TrashGood(q, st) ==
  q.of = "trash" =>
    /\ q.pc = "listing" => \A f \in st \cap FolderId : f \in q.todo <=> f \in InTrash
    /\ FoldersBack(q) =>
         \A f \in st \cap Folders : folder[f].parent \in st \cup {Home} =>
           (f \in q.folders <=> Trashed(folder[f]) /\ folder[f].parent \notin InTrash)
    /\ FilesBack(q) =>
         \A x \in st \cap Files : file[x].folder \in st \cup {Home} =>
           (x \in q.files <=> Trashed(file[x]) /\ file[x].folder \notin InTrash)

TrashReads ==
  \A v \in View, q \in ViewState, st \in SUBSET Item :
    q = view[v] /\ st = steady[v] => TrashGood(q, st)

\* What is said of untouched items outlasts any write.
LEMMA WritingKeepsTrash ==
  ASSUME NEW q, NEW st, NEW st2 \in SUBSET st, Untouched(st2), TrashGood(q, st)
  PROVE  TrashGood(q, st2)'
<1> SUFFICES ASSUME q.of = "trash"
             PROVE  TrashGood(q, st2)'
  BY DEF TrashGood
<1>1. \A f \in st2 \cap FolderId :
        f \in st /\ folder'[f] = folder[f] /\ (f \in InTrash' <=> f \in InTrash)
        /\ (f \in Folders' <=> f \in Folders)
  BY DEF Untouched, InTrash, Folders, Stored, Trashed
<1>2. \A x \in st2 \cap FileId :
        x \in st /\ file'[x] = file[x] /\ (x \in Files' <=> x \in Files)
  BY DEF Untouched, Files, HasFile
<1>3. InTrash \subseteq FolderId /\ InTrash' \subseteq FolderId
  BY DEF InTrash, Folders
<1>4. \A loc \in st2 \cup {Home} : loc \in InTrash' <=> loc \in InTrash
  BY <1>1, <1>3, HomeIsNoFolder
<1>5. q.pc = "listing" => \A f \in st2 \cap FolderId : f \in q.todo <=> f \in InTrash'
  BY <1>1 DEF TrashGood
<1>6. ASSUME FoldersBack(q), NEW f \in st2, f \in Folders', folder'[f].parent \in st2 \cup {Home}
      PROVE  f \in q.folders <=> Trashed(folder'[f]) /\ folder'[f].parent \notin InTrash'
  <2>1. f \in FolderId
    BY <1>6 DEF Folders
  <2> QED BY <1>1, <1>4, <1>6, <2>1 DEF TrashGood
<1>7. ASSUME FilesBack(q), NEW x \in st2, x \in Files', file'[x].folder \in st2 \cup {Home}
      PROVE  x \in q.files <=> Trashed(file'[x]) /\ file'[x].folder \notin InTrash'
  <2>1. x \in FileId
    BY <1>7 DEF Files
  <2> QED BY <1>2, <1>4, <1>7, <2>1 DEF TrashGood
<1> QED BY <1>5, <1>6, <1>7 DEF TrashGood, FoldersBack, FilesBack, Trashed

\* Every query of GET /trash keeps its lists right.
LEMMA ReadingKeepsTrash ==
  ASSUME Slots, Stores, NEW v \in View, Reading(v),
         TrashGood(view[v], steady[v])
  PROVE  TrashGood(view'[v], steady'[v])
<1>1. PICK q : q = view[v]
  OBVIOUS
<1>2. PICK n : n = view'[v]
  OBVIOUS
<1>3. PICK st : st = steady[v]
  OBVIOUS
<1>4. /\ q \in ViewState /\ SlotFits(q) /\ TrashGood(q, st)
      /\ st \subseteq Item /\ view[v] = q
  BY <1>1, <1>3 DEF Slots
<1>5. ASSUME n.of # "trash" PROVE TrashGood(n, steady'[v])
  BY <1>5 DEF TrashGood
<1> SUFFICES ASSUME n.of = "trash" PROVE TrashGood(n, steady'[v])
  BY <1>2, <1>5
<1>7. CASE ListTrashed(v)
  BY <1>2, <1>7, ListTrashedEffect DEF TrashGood, FoldersBack, FilesBack, InTrash
<1>8. CASE RootFolders(v)
  <2>1. /\ Answers(v, q, n, "folders") /\ "folders" \in q.pending /\ q.of = "trash"
        /\ n.folders = TrashedRoots(q.todo) /\ n.files = q.files
        /\ n.pc = "listing" => n.todo = q.todo
    BY <1>1, <1>2, <1>8, RootFoldersEffect
  <2>2. q.pc = "listing" /\ q.todo \subseteq FolderId /\ steady'[v] = st
    BY <1>3, <1>4, <2>1 DEF SlotFits, Counts, Answers
  <2>3. \A f \in st \cap FolderId : f \in q.todo <=> f \in InTrash
    BY <1>4, <2>1, <2>2 DEF TrashGood
  <2>4. ASSUME NEW f \in st \cap Folders, folder[f].parent \in st \cup {Home}
        PROVE  f \in n.folders <=> Trashed(folder[f]) /\ folder[f].parent \notin InTrash
    <3>1. folder[f].parent \in Location
      BY <2>4 DEF Stores, FolderStoreTypeOK, Folders, Stored, FolderDoc
    <3>2. folder[f].parent \in q.todo <=> folder[f].parent \in InTrash
      BY <2>2, <2>3, <2>4, <3>1, HomeIsNoFolder DEF Location, InTrash, Folders
    <3> QED BY <2>1, <2>4, <3>2 DEF TrashedRoots
  <2>5. FilesBack(n) => FilesBack(q)
    BY <2>1 DEF Answers, Answered, FilesBack
  <2> QED BY <1>4, <2>1, <2>2, <2>3, <2>4, <2>5 DEF TrashGood
<1>9. CASE RootFiles(v)
  <2>1. /\ Answers(v, q, n, "files") /\ "files" \in q.pending /\ q.of = "trash"
        /\ n.files = TrashedLeaves(q.todo) /\ n.folders = q.folders
        /\ n.pc = "listing" => n.todo = q.todo
    BY <1>1, <1>2, <1>9, RootFilesEffect
  <2>2. q.pc = "listing" /\ q.todo \subseteq FolderId /\ steady'[v] = st
    BY <1>3, <1>4, <2>1 DEF SlotFits, Counts, Answers
  <2>3. \A f \in st \cap FolderId : f \in q.todo <=> f \in InTrash
    BY <1>4, <2>1, <2>2 DEF TrashGood
  <2>4. ASSUME NEW x \in st \cap Files, file[x].folder \in st \cup {Home}
        PROVE  x \in n.files <=> Trashed(file[x]) /\ file[x].folder \notin InTrash
    <3>1. file[x].folder \in Location
      BY <2>4 DEF Stores, FileStoreTypeOK, Files, HasFile, FileDoc
    <3>2. file[x].folder \in q.todo <=> file[x].folder \in InTrash
      BY <2>2, <2>3, <2>4, <3>1, HomeIsNoFolder DEF Location, InTrash, Folders
    <3> QED BY <2>1, <2>4, <3>2 DEF TrashedLeaves
  <2>5. FoldersBack(n) => FoldersBack(q)
    BY <2>1 DEF Answers, Answered, FoldersBack
  <2> QED BY <1>4, <2>1, <2>2, <2>3, <2>4, <2>5 DEF TrashGood
<1>10. ASSUME NEW query \in Counts, query \in q.pending, Answers(v, q, n, query),
              n.folders = q.folders, n.files = q.files
       PROVE  TrashGood(n, steady'[v])
  <2>1. q.pc = "counting" /\ n.pc # "listing"
    BY <1>4, <1>10 DEF SlotFits, Counts, Listings, Answers, Answered
  <2>2. q.of = "trash" /\ steady'[v] = st
    BY <1>3, <1>10 DEF Answers, SameBut
  <2> QED BY <1>4, <1>10, <2>1, <2>2 DEF TrashGood, FoldersBack, FilesBack
<1>11. CASE CountFolders(v) \/ CountFiles(v)
  BY <1>1, <1>2, <1>10, <1>11, CountFoldersEffect, CountFilesEffect DEF Counts
<1> QED BY <1>2, <1>7, <1>8, <1>9, <1>11, ReadingKinds

\* And so does every step of anybody.
LEMMA StepKeepsTrash ==
  ASSUME Slots, Stores, TrashReads, [ViewsNext]_viewVars
  PROVE  TrashReads'
<1> SUFFICES ASSUME NEW v \in View, NEW q \in ViewState, NEW st \in SUBSET Item,
                    q = view'[v], st = steady'[v]
             PROVE  TrashGood(q, st)'
  BY DEF TrashReads
<1>1. view[v] \in ViewState /\ steady[v] \in SUBSET Item
  BY DEF Slots
<1>2. TrashGood(view[v], steady[v])
  BY <1>1 DEF TrashReads
<1>3. CASE folder' = folder /\ file' = file /\ q = view[v] /\ st = steady[v]
  BY <1>2, <1>3 DEF TrashGood, FoldersBack, FilesBack, InTrash, Folders, Stored, Files, HasFile,
                    Trashed
<1>4. CASE Writing
  <2>1. view' = view /\ st \subseteq steady[v] /\ Untouched(st)
    BY <1>4, WritingLeaves
  <2> QED BY <1>2, <2>1, WritingKeepsTrash
<1>5. CASE CrashAll
  <2>1. q.of = "none"
    BY <1>5, CrashEmpties DEF NoView
  <2> QED BY <2>1 DEF TrashGood
<1>6. ASSUME NEW w \in View, Reading(w), UNCHANGED driveSpecVars
      PROVE  TrashGood(q, st)'
  <2>1. folder' = folder /\ file' = file
    BY <1>6, ReadingLeaves
  <2>2. CASE v # w
    <3>1. q = view[v] /\ st = steady[v]
      BY <1>6, <2>2, ReadingHolds DEF OnlyOwnSlot, NowHolds, Stores
    <3> QED BY <1>3, <2>1, <3>1
  <2>3. CASE v = w
    <3>1. TrashGood(q, st)
      BY <1>2, <1>6, <2>3, ReadingKeepsTrash
    <3> QED BY <2>1, <3>1 DEF TrashGood, FoldersBack, FilesBack, InTrash, Folders, Stored, Files,
                              HasFile, Trashed
  <2> QED BY <2>2, <2>3
<1>7. UNCHANGED viewVars => folder' = folder /\ file' = file /\ q = view[v] /\ st = steady[v]
  BY ReadingLeaves DEF viewVars
<1> QED BY <1>3, <1>4, <1>5, <1>6, <1>7 DEF ViewsNext

\* TrashListingIsExact, for any number of readers beside any number of writers:
\* what is shown of the trash is right about every item that neither it nor its
\* folder is touched while GET /trash is answered.
THEOREM TrashListingHolds == ViewsSpec => []TrashListingIsExact
<1>1. ViewsInit => TrashReads
  BY DEF ViewsInit, TrashReads, TrashGood, NoView
<1>2. Slots /\ Stores /\ TrashReads /\ [ViewsNext]_viewVars => TrashReads'
  BY StepKeepsTrash
<1>3. Slots /\ TrashReads => TrashListingIsExact
  <2> SUFFICES ASSUME Slots, TrashReads PROVE TrashListingIsExact
    OBVIOUS
  <2> SUFFICES ASSUME NEW v \in View, Done(v, "trash")
               PROVE  LET q == view[v]
                          hidden == {f \in Folders : Trashed(folder[f])}
                      IN /\ \A f \in steady[v] \cap Folders :
                              folder[f].parent \in steady[v] \cup {Home} =>
                                (f \in q.folders
                                  <=> Trashed(folder[f]) /\ folder[f].parent \notin hidden)
                         /\ \A x \in steady[v] \cap Files :
                              file[x].folder \in steady[v] \cup {Home} =>
                                (x \in q.files
                                  <=> Trashed(file[x]) /\ file[x].folder \notin hidden)
    BY DEF TrashListingIsExact
  <2>1. TrashGood(view[v], steady[v])
    BY DEF TrashReads, Slots
  <2> QED BY <2>1 DEF Done, TrashGood, FoldersBack, FilesBack, InTrash
<1> QED BY <1>1, <1>2, <1>3, SlotsInvariance, PTL DEF ViewsSpec

-----------------------------------------------------------------------------
(* Climbs *)

\* S is closed under the climb.
ClosedUp(S, above, stop) ==
  \A h \in S \ {stop} : above[h] \in FolderId => above[h] \in S

\* A climb has its start and goes on from all it passes.
LEMMA ClimbIsClosed ==
  ASSUME NEW above, NEW stop, NEW f \in FolderId
  PROVE  /\ Climb(above, stop, f) \subseteq FolderId
         /\ f \in Climb(above, stop, f)
         /\ ClosedUp(Climb(above, stop, f), above, stop)
  BY DEF Climb, ClosedUp

\* A climb passes nothing it need not pass.
LEMMA ClimbIsLeast ==
  ASSUME NEW above, NEW stop, NEW f, NEW S \in SUBSET FolderId,
         f \in S, ClosedUp(S, above, stop)
  PROVE  Climb(above, stop, f) \subseteq S
  BY DEF Climb, ClosedUp

\* A climb sees only the parents of what it passes.
LEMMA ClimbAgrees ==
  ASSUME NEW above, NEW above2, NEW stop, NEW f \in FolderId,
         \A g \in Climb(above, stop, f) \ {stop} : above2[g] = above[g]
  PROVE  Climb(above2, stop, f) = Climb(above, stop, f)
<1> DEFINE C == Climb(above, stop, f)
           D == Climb(above2, stop, f)
<1>1. C \subseteq FolderId /\ f \in C /\ ClosedUp(C, above, stop)
  BY ClimbIsClosed
<1>2. D \subseteq FolderId /\ f \in D /\ ClosedUp(D, above2, stop)
  BY ClimbIsClosed
<1>3. \A g \in C \ {stop} : above2[g] = above[g]
  OBVIOUS
<1> HIDE DEF C, D
<1>4. ClosedUp(C, above2, stop)
  BY <1>1, <1>3 DEF ClosedUp
<1>5. D \subseteq C
  BY <1>1, <1>4, ClimbIsLeast DEF D
<1>6. ClosedUp(D, above, stop)
  BY <1>2, <1>3, <1>5 DEF ClosedUp
<1>7. C \subseteq D
  BY <1>2, <1>6, ClimbIsLeast DEF C
<1> QED BY <1>5, <1>7 DEF C, D

\* The parents that are stored are places.
LEMMA ParentsAre ==
  ASSUME Stores, NEW f \in FolderId
  PROVE  /\ Stored(f) => Parents[f] = folder[f].parent /\ Parents[f] \in Location
         /\ ~Stored(f) => Parents[f] = NoDoc
         /\ Parents[f] # NoDoc <=> Stored(f)
  BY NoDocIsNoId DEF Stores, FolderStoreTypeOK, Parents, Stored, FolderDoc

\* The folders above f, missing ones included.
Above(f) == Climb(Parents, Home, f)

\* What is above a folder has the folder in it and goes on from all it has.
LEMMA AboveIs ==
  ASSUME Stores, NEW f \in FolderId
  PROVE  /\ Above(f) \subseteq FolderId /\ f \in Above(f)
         /\ \A g \in Above(f) : Parents[g] \in FolderId => Parents[g] \in Above(f)
         /\ Chain(f) = {g \in Above(f) : Stored(g)}
<1>1. Above(f) \subseteq FolderId /\ f \in Above(f) /\ ClosedUp(Above(f), Parents, Home)
  BY ClimbIsClosed DEF Above
<1>2. \A g \in Above(f) : Parents[g] # NoDoc <=> Stored(g)
  BY <1>1, ParentsAre
<1> QED BY <1>1, <1>2, HomeIsNoFolder DEF ClosedUp, Chain, Upward, Above

\* Nothing else is above it.
LEMMA AboveIsLeast ==
  ASSUME NEW f, NEW S \in SUBSET FolderId, f \in S,
         \A h \in S : Parents[h] \in FolderId => Parents[h] \in S
  PROVE  Above(f) \subseteq S
  BY ClimbIsLeast DEF Above, ClosedUp

\* What is above a folder outlasts any write that leaves all of it alone.
LEMMA UnmovedStays ==
  ASSUME NEW f \in FolderId, NEW items, Untouched(items), Unmoved(f, items)'
  PROVE  /\ Above(f)' = Above(f)
         /\ \A g \in Above(f) : g \in items /\ folder'[g] = folder[g] /\ Parents'[g] = Parents[g]
         /\ Chain(f)' = Chain(f)
<1> DEFINE C == Above(f)'
<1>1. C = Climb(Parents', Home, f) /\ C \subseteq items /\ C \subseteq FolderId /\ f \in C
  BY ClimbIsClosed DEF Above, Unmoved
<1>2. \A g \in C : folder'[g] = folder[g] /\ Parents'[g] = Parents[g]
  BY <1>1 DEF Untouched, Parents, Stored
<1> HIDE DEF C
<1>3. Climb(Parents, Home, f) = C
  BY <1>1, <1>2, ClimbAgrees
<1>4. Above(f) = C
  BY <1>3 DEF Above
<1>5. Chain(f)' = {g \in C : Parents'[g] # NoDoc} /\ Chain(f) = {g \in C : Parents[g] # NoDoc}
  BY <1>1, <1>3 DEF Chain, Upward
<1> QED BY <1>1, <1>2, <1>4, <1>5 DEF C

-----------------------------------------------------------------------------
(* The contents of a folder *)

FoldersCounted(q) ==
  q.pc = "done" \/ (q.pc = "counting" /\ "folderCounts" \notin q.pending)
FilesCounted(q) ==
  q.pc = "done" \/ (q.pc = "counting" /\ "fileCounts" \notin q.pending)

\* The lists that are back are right about what nobody has touched, and nothing
\* else is in them yet.
ListsGood(q, st) ==
  /\ FoldersBack(q) =>
       \A f \in st \cap FolderId : f \in q.folders <=> f \in ActiveFoldersIn({q.root})
  /\ FilesBack(q) =>
       \A x \in st \cap FileId : x \in q.files <=> x \in ActiveFilesIn({q.root})
  /\ \A f \in st \cap FolderId :
       f \in q.counted <=> FoldersCounted(q) /\ f \in ActiveFoldersIn(q.folders)
  /\ \A x \in st \cap FileId :
       x \in q.counted <=> FilesCounted(q) /\ x \in ActiveFilesIn(q.folders)

CrumbsBack(q) == q.pc # "listing" \/ "crumbs" \notin q.pending

\* The trail so far, which is at `at`, is the way there from the root.
TrailTo(q, at) ==
  /\ at \in Above(q.root) \cup {Home}
  /\ q.crumbs \subseteq Chain(q.root)
  /\ q.root \in q.crumbs \cup {at}
  /\ \A c \in q.crumbs : Parents[c] \in FolderId => Parents[c] \in q.crumbs \cup {at}

\* As long as nobody has touched what is above the folder shown, the trail is on
\* its way up there, and is all of it when it is back.
TrailGood(q, st) ==
  (q.root \in FolderId /\ Unmoved(q.root, st)) =>
    /\ ~CrumbsBack(q) => \E at \in Location : q.todo = {at} /\ TrailTo(q, at)
    /\ CrumbsBack(q) => q.crumbs = Chain(q.root)

ContentsGood(q, st) == q.of = "contents" => ListsGood(q, st) /\ TrailGood(q, st)

ContentsReads ==
  \A v \in View, q \in ViewState, st \in SUBSET Item :
    q = view[v] /\ st = steady[v] => ContentsGood(q, st)

\* Lists and counts that were right stay right about what is left untouched.
LEMMA WritingKeepsLists ==
  ASSUME NEW q, NEW st, NEW st2 \in SUBSET st, Untouched(st2), ListsGood(q, st)
  PROVE  ListsGood(q, st2)'
<1>1. \A f \in st2 \cap FolderId : \A places :
        f \in ActiveFoldersIn(places)' <=> f \in ActiveFoldersIn(places)
  BY DEF Untouched, ActiveFoldersIn, Folders, Stored, Active
<1>2. \A x \in st2 \cap FileId : \A places :
        x \in ActiveFilesIn(places)' <=> x \in ActiveFilesIn(places)
  BY DEF Untouched, ActiveFilesIn, Files, HasFile, Active
<1> QED BY <1>1, <1>2 DEF ListsGood, FoldersBack, FilesBack, FoldersCounted, FilesCounted

\* A trail on its way up stays on it while what is above is left untouched.
LEMMA WritingKeepsTrail ==
  ASSUME NEW q, NEW st, NEW st2 \in SUBSET st, Untouched(st2), TrailGood(q, st)
  PROVE  TrailGood(q, st2)'
<1> SUFFICES ASSUME q.root \in FolderId, Unmoved(q.root, st2)'
             PROVE  /\ ~CrumbsBack(q) => \E at \in Location : q.todo = {at} /\ TrailTo(q, at)'
                    /\ CrumbsBack(q) => q.crumbs = Chain(q.root)'
  BY DEF TrailGood, CrumbsBack
<1>1. /\ Above(q.root)' = Above(q.root)
      /\ \A g \in Above(q.root) : g \in st2 /\ Parents'[g] = Parents[g]
      /\ Chain(q.root)' = Chain(q.root)
  BY UnmovedStays
<1>2. Unmoved(q.root, st)
  BY <1>1 DEF Unmoved, Above
<1>3. ASSUME NEW at \in Location, TrailTo(q, at) PROVE TrailTo(q, at)'
  <2>1. q.crumbs \subseteq Above(q.root)
    BY <1>3 DEF TrailTo, Chain, Upward, Above
  <2> QED BY <1>1, <1>3, <2>1 DEF TrailTo
<1> QED BY <1>1, <1>2, <1>3 DEF TrailGood

\* What an answer brings is back, and nothing else changes of what is.
LEMMA AnsweredMeans ==
  ASSUME NEW q, SlotFits(q), NEW query \in q.pending, NEW n, Answered(n, q, query)
  PROVE  /\ FoldersBack(n) <=> FoldersBack(q) \/ query = "folders"
         /\ FilesBack(n) <=> FilesBack(q) \/ query = "files"
         /\ CrumbsBack(n) <=> CrumbsBack(q) \/ query = "crumbs"
         /\ FoldersCounted(n) <=> FoldersCounted(q) \/ query = "folderCounts"
         /\ FilesCounted(n) <=> FilesCounted(q) \/ query = "fileCounts"
<1> USE DEF FoldersBack, FilesBack, CrumbsBack, FoldersCounted, FilesCounted, Counts
<1>1. CASE q.pc = "listing" /\ n.pc = "listing" /\ n.pending = q.pending \ {query}
  <2>1. query \in Listings
    BY <1>1 DEF SlotFits, Listings
  <2> QED BY <1>1, <2>1 DEF Listings
<1>2. CASE q.pc = "listing" /\ n.pc = "counting" /\ q.pending = {query} /\ n.pending = Counts
  <2>1. query \in Listings
    BY <1>2 DEF SlotFits, Listings
  <2> QED BY <1>2, <2>1 DEF Listings
<1>3. CASE q.pc = "counting" /\ n.pc = "counting" /\ n.pending = q.pending \ {query}
  <2>1. query \in Counts
    BY <1>3 DEF SlotFits
  <2> QED BY <1>3, <2>1
<1>4. CASE q.pc = "counting" /\ n.pc = "done" /\ q.pending = {query}
  <2>1. query \in Counts
    BY <1>4 DEF SlotFits
  <2> QED BY <1>4, <2>1
<1> QED BY <1>1, <1>2, <1>3, <1>4 DEF Answered

\* An answer to another query leaves the trail as it was.
LEMMA TrailStays ==
  ASSUME NEW q, NEW n, NEW st, TrailGood(q, st),
         n.root = q.root, n.crumbs = q.crumbs, CrumbsBack(n) <=> CrumbsBack(q),
         n.pc = "listing" => n.todo = q.todo
  PROVE  TrailGood(n, st)
<1>1. ~CrumbsBack(n) => n.todo = q.todo
  BY DEF CrumbsBack
<1>2. \A at : TrailTo(n, at) <=> TrailTo(q, at)
  BY DEF TrailTo
<1> QED BY <1>1, <1>2 DEF TrailGood

\* One folder up keeps the trail on its way, and ends it at the top or where the
\* way ends, never before.
LEMMA BreadcrumbKeepsTrail ==
  ASSUME Slots, Stores, NEW v \in View, NEW q, q = view[v], NEW n, n = view'[v],
         NEW st, TrailGood(q, st), Breadcrumb(v)
  PROVE  TrailGood(n, st)
<1> SUFFICES ASSUME n.root \in FolderId, Unmoved(n.root, st)
             PROVE  /\ ~CrumbsBack(n) => \E at \in Location : n.todo = {at} /\ TrailTo(n, at)
                    /\ CrumbsBack(n) => n.crumbs = Chain(n.root)
  BY DEF TrailGood
<1>1. q \in ViewState /\ SlotFits(q)
  BY DEF Slots
<1>2. PICK at \in q.todo :
        /\ n.root = q.root /\ q.pc = "listing" /\ "crumbs" \in q.pending
        /\ \/ /\ NamesFolder(at)
              /\ n.pc = "listing" /\ n.pending = q.pending
              /\ n.crumbs = q.crumbs \cup {at} /\ n.todo = {folder[at].parent}
           \/ /\ ~NamesFolder(at)
              /\ Answered(n, q, "crumbs") /\ n.crumbs = q.crumbs
  BY BreadcrumbEffect DEF Stores, SameBut
<1>3. at \in Location /\ q.todo = {at} /\ TrailTo(q, at)
  BY <1>2 DEF TrailGood, CrumbsBack
<1> DEFINE r == q.root
           C == Above(r)
<1>4. /\ C \subseteq FolderId /\ r \in C
      /\ \A g \in C : Parents[g] \in FolderId => Parents[g] \in C
      /\ Chain(r) = {g \in C : Stored(g)}
  BY <1>2, AboveIs
<1>5. /\ at \in C \cup {Home}
      /\ q.crumbs \subseteq Chain(r) /\ r \in q.crumbs \cup {at}
      /\ \A c \in q.crumbs : Parents[c] \in FolderId => Parents[c] \in q.crumbs \cup {at}
  BY <1>3 DEF TrailTo
<1>6. CASE NamesFolder(at)
  <2>1. /\ n.pc = "listing" /\ n.pending = q.pending
        /\ n.crumbs = q.crumbs \cup {at} /\ n.todo = {folder[at].parent}
    BY <1>2, <1>6
  <2>2. at \in C /\ Stored(at)
    BY <1>5, <1>6 DEF NamesFolder
  <2>3. Parents[at] = folder[at].parent /\ Parents[at] \in Location
    BY <1>4, <2>2, ParentsAre
  <2>4. Parents[at] \in C \cup {Home}
    BY <1>4, <2>2, <2>3 DEF Location
  <2>5. TrailTo(n, Parents[at])
    BY <1>2, <1>4, <1>5, <2>1, <2>2, <2>4 DEF TrailTo
  <2> QED BY <1>2, <2>1, <2>3, <2>5 DEF CrumbsBack
<1>7. CASE ~NamesFolder(at)
  <2>1. n.crumbs = q.crumbs /\ CrumbsBack(n)
    BY <1>1, <1>2, <1>7, AnsweredMeans
  <2>2. at \in C => ~Stored(at) /\ Parents[at] = NoDoc
    BY <1>4, <1>7, ParentsAre, HomeIsNoFolder DEF NamesFolder
  <2> DEFINE S == (q.crumbs \cup {at}) \cap FolderId
  <2>3. r \in S /\ \A h \in S : Parents[h] \in FolderId => Parents[h] \in S
    BY <1>4, <1>5, <2>2, NoDocIsNoId, HomeIsNoFolder DEF Location
  <2>4. C \subseteq S
    BY <2>3, AboveIsLeast
  <2>5. Chain(r) \subseteq q.crumbs
    BY <1>4, <2>2, <2>4
  <2> QED BY <1>2, <1>5, <2>1, <2>5
<1> QED BY <1>6, <1>7

\* Every query of GET /contents keeps its lists, counts and trail right.
LEMMA ReadingKeepsContents ==
  ASSUME Slots, Stores, NEW v \in View, Reading(v),
         ContentsGood(view[v], steady[v])
  PROVE  ContentsGood(view'[v], steady'[v])
<1>1. PICK q : q = view[v]
  OBVIOUS
<1>2. PICK n : n = view'[v]
  OBVIOUS
<1>3. PICK st : st = steady[v]
  OBVIOUS
<1>4. q \in ViewState /\ SlotFits(q) /\ ContentsGood(q, st) /\ st \subseteq Item
  BY <1>1, <1>3 DEF Slots
<1> SUFFICES ASSUME n.of = "contents"
             PROVE  ListsGood(n, steady'[v]) /\ TrailGood(n, steady'[v])
  BY <1>2 DEF ContentsGood
<1>5. ASSUME NEW query \in q.pending, Answers(v, q, n, query)
      PROVE  /\ n.root = q.root /\ Shown(q) = "active" /\ steady'[v] = st
             /\ ListsGood(q, st) /\ TrailGood(q, st)
             /\ FoldersBack(n) <=> FoldersBack(q) \/ query = "folders"
             /\ FilesBack(n) <=> FilesBack(q) \/ query = "files"
             /\ CrumbsBack(n) <=> CrumbsBack(q) \/ query = "crumbs"
             /\ FoldersCounted(n) <=> FoldersCounted(q) \/ query = "folderCounts"
             /\ FilesCounted(n) <=> FilesCounted(q) \/ query = "fileCounts"
             /\ query \in Counts => q.pc = "counting"
             /\ query \in Listings => q.pc = "listing"
  <2>1. Answered(n, q, query) /\ SameBut(n, q) /\ steady' = steady
    BY <1>5 DEF Answers
  <2>2. q.of = "contents"
    BY <2>1 DEF SameBut
  <2>3. /\ query \in Counts => q.pc = "counting"
        /\ query \in Listings => q.pc = "listing"
    BY <1>4, <2>2 DEF SlotFits, Counts, Listings
  <2> QED BY <1>3, <1>4, <2>1, <2>2, <2>3, AnsweredMeans DEF SameBut, Shown, ContentsGood
<1>6. ASSUME NEW loc \in Location, OpenContents(v, loc)
      PROVE  ListsGood(n, steady'[v]) /\ TrailGood(n, steady'[v])
  <2>1. OpenedContents(n)
    BY <1>2, <1>6, OpenContentsEffect
  <2>2. /\ ~FoldersBack(n) /\ ~FilesBack(n) /\ ~CrumbsBack(n)
        /\ ~FoldersCounted(n) /\ ~FilesCounted(n)
    BY <2>1 DEF OpenedContents, Listings, FoldersBack, FilesBack, CrumbsBack, FoldersCounted,
                FilesCounted
  <2>3. ListsGood(n, steady'[v])
    BY <2>1, <2>2 DEF ListsGood, OpenedContents
  <2>4. ASSUME n.root \in FolderId PROVE n.todo = {n.root} /\ TrailTo(n, n.root)
    BY <2>1, <2>4, ClimbIsClosed DEF OpenedContents, TrailTo, Above
  <2> QED BY <2>2, <2>3, <2>4 DEF TrailGood, Location
<1>7. CASE ListFolders(v)
  <2>1. /\ Answers(v, q, n, "folders") /\ "folders" \in q.pending
        /\ n.folders = ActiveFoldersIn({q.root})
        /\ n.files = q.files /\ n.crumbs = q.crumbs /\ n.counted = q.counted
        /\ n.pc = "listing" => n.todo = q.todo
    BY <1>1, <1>2, <1>7, ListFoldersEffect
  <2>2. /\ n.root = q.root /\ steady'[v] = st /\ ListsGood(q, st) /\ TrailGood(q, st)
        /\ FilesBack(n) <=> FilesBack(q)
        /\ CrumbsBack(n) <=> CrumbsBack(q)
        /\ FoldersCounted(n) <=> FoldersCounted(q)
        /\ FilesCounted(n) <=> FilesCounted(q)
        /\ ~FoldersCounted(q) /\ ~FilesCounted(q)
    BY <1>5, <2>1 DEF Listings, FoldersCounted, FilesCounted
  <2>3. ListsGood(n, st)
    BY <2>1, <2>2 DEF ListsGood
  <2> QED BY <2>1, <2>2, <2>3, TrailStays
<1>8. CASE ListFiles(v)
  <2>1. /\ Answers(v, q, n, "files") /\ "files" \in q.pending
        /\ n.files = ActiveFilesIn({q.root})
        /\ n.folders = q.folders /\ n.crumbs = q.crumbs /\ n.counted = q.counted
        /\ n.pc = "listing" => n.todo = q.todo
    BY <1>1, <1>2, <1>8, ListFilesEffect
  <2>2. /\ n.root = q.root /\ steady'[v] = st /\ ListsGood(q, st) /\ TrailGood(q, st)
        /\ FoldersBack(n) <=> FoldersBack(q)
        /\ CrumbsBack(n) <=> CrumbsBack(q)
        /\ FoldersCounted(n) <=> FoldersCounted(q)
        /\ FilesCounted(n) <=> FilesCounted(q)
    BY <1>5, <2>1
  <2>3. ListsGood(n, st)
    BY <2>1, <2>2 DEF ListsGood
  <2> QED BY <2>1, <2>2, <2>3, TrailStays
<1>9. CASE CountFolders(v)
  <2>1. /\ Answers(v, q, n, "folderCounts") /\ "folderCounts" \in q.pending
        /\ n.counted = q.counted \cup FoldersHit(q)
        /\ n.folders = q.folders /\ n.files = q.files /\ n.crumbs = q.crumbs
        /\ n.pc = "listing" => n.todo = q.todo
    BY <1>1, <1>2, <1>9, CountFoldersEffect
  <2>2. /\ n.root = q.root /\ steady'[v] = st /\ ListsGood(q, st) /\ TrailGood(q, st)
        /\ FoldersBack(n) <=> FoldersBack(q)
        /\ FilesBack(n) <=> FilesBack(q)
        /\ CrumbsBack(n) <=> CrumbsBack(q)
        /\ FoldersCounted(n) /\ Shown(q) = "active"
        /\ FilesCounted(n) <=> FilesCounted(q)
        /\ ~FoldersCounted(q)
    BY <1>5, <2>1 DEF Counts, FoldersCounted
  <2>3. FoldersHit(q) = ActiveFoldersIn(q.folders) /\ FoldersHit(q) \subseteq FolderId
    BY <2>2 DEF FoldersHit, ActiveFoldersIn, Active, Folders
  <2>4. ListsGood(n, st)
    BY <2>1, <2>2, <2>3, IdsAreDistinct DEF ListsGood
  <2> QED BY <2>1, <2>2, <2>4, TrailStays
<1>10. CASE CountFiles(v)
  <2>1. /\ Answers(v, q, n, "fileCounts") /\ "fileCounts" \in q.pending
        /\ n.counted = q.counted \cup FilesHit(q)
        /\ n.folders = q.folders /\ n.files = q.files /\ n.crumbs = q.crumbs
        /\ n.pc = "listing" => n.todo = q.todo
    BY <1>1, <1>2, <1>10, CountFilesEffect
  <2>2. /\ n.root = q.root /\ steady'[v] = st /\ ListsGood(q, st) /\ TrailGood(q, st)
        /\ FoldersBack(n) <=> FoldersBack(q)
        /\ FilesBack(n) <=> FilesBack(q)
        /\ CrumbsBack(n) <=> CrumbsBack(q)
        /\ FilesCounted(n) /\ Shown(q) = "active"
        /\ FoldersCounted(n) <=> FoldersCounted(q)
        /\ ~FilesCounted(q)
    BY <1>5, <2>1 DEF Counts, FilesCounted
  <2>3. FilesHit(q) = ActiveFilesIn(q.folders) /\ FilesHit(q) \subseteq FileId
    BY <2>2 DEF FilesHit, ActiveFilesIn, Active, Files
  <2>4. ListsGood(n, st)
    BY <2>1, <2>2, <2>3, IdsAreDistinct DEF ListsGood
  <2> QED BY <2>1, <2>2, <2>4, TrailStays
<1>11. CASE Breadcrumb(v)
  <2>1. PICK at \in q.todo :
          /\ steady' = steady /\ SameBut(n, q)
          /\ q.pc = "listing" /\ q.of = "contents" /\ "crumbs" \in q.pending
          /\ n.folders = q.folders /\ n.files = q.files /\ n.counted = q.counted
          /\ \/ n.pc = "listing" /\ n.pending = q.pending
             \/ Answered(n, q, "crumbs")
    BY <1>1, <1>2, <1>11, BreadcrumbEffect DEF Stores
  <2>2. ListsGood(q, st) /\ TrailGood(q, st) /\ n.root = q.root /\ steady'[v] = st
    BY <1>3, <1>4, <2>1 DEF ContentsGood, SameBut
  <2>3. /\ FoldersBack(n) <=> FoldersBack(q)
        /\ FilesBack(n) <=> FilesBack(q)
        /\ FoldersCounted(n) <=> FoldersCounted(q)
        /\ FilesCounted(n) <=> FilesCounted(q)
    <3>1. CASE Answered(n, q, "crumbs")
      BY <1>4, <2>1, <3>1, AnsweredMeans
    <3>2. CASE n.pc = "listing" /\ n.pending = q.pending
      BY <2>1, <3>2 DEF FoldersBack, FilesBack, FoldersCounted, FilesCounted
    <3> QED BY <2>1, <3>1, <3>2
  <2>4. ListsGood(n, st)
    BY <2>1, <2>2, <2>3 DEF ListsGood
  <2>5. TrailGood(n, st)
    BY <1>1, <1>2, <1>11, <2>2, BreadcrumbKeepsTrail
  <2> QED BY <2>2, <2>4, <2>5
<1> QED BY <1>2, <1>6, <1>7, <1>8, <1>9, <1>10, <1>11, ReadingKinds

\* And so does every step of anybody.
LEMMA StepKeepsContents ==
  ASSUME Slots, Stores, ContentsReads, [ViewsNext]_viewVars
  PROVE  ContentsReads'
<1> SUFFICES ASSUME NEW v \in View, NEW q \in ViewState, NEW st \in SUBSET Item,
                    q = view'[v], st = steady'[v]
             PROVE  ContentsGood(q, st)'
  BY DEF ContentsReads
<1>1. ContentsGood(view[v], steady[v])
  BY DEF Slots, ContentsReads
<1>2. ASSUME folder' = folder, file' = file, ContentsGood(q, st)
      PROVE  ContentsGood(q, st)'
  <2>1. Parents' = Parents
    BY <1>2 DEF Parents, Stored
  <2>2. \A f : Above(f)' = Above(f) /\ Chain(f)' = Chain(f) /\ Unmoved(f, st)' = Unmoved(f, st)
    BY <2>1 DEF Above, Chain, Unmoved
  <2>3. \A places : /\ ActiveFoldersIn(places)' = ActiveFoldersIn(places)
                    /\ ActiveFilesIn(places)' = ActiveFilesIn(places)
    BY <1>2 DEF ActiveFoldersIn, ActiveFilesIn, Folders, Files, Stored, HasFile
  <2>4. \A at : TrailTo(q, at)' = TrailTo(q, at)
    BY <2>1, <2>2 DEF TrailTo
  <2> QED BY <1>2, <2>2, <2>3, <2>4 DEF ContentsGood, ListsGood, TrailGood, FoldersBack, FilesBack,
                                        CrumbsBack, FoldersCounted, FilesCounted
<1>3. CASE Writing
  <2>1. view' = view /\ st \subseteq steady[v] /\ Untouched(st)
    BY <1>3, WritingLeaves
  <2>2. steady[v] \in SUBSET Item /\ q = view[v]
    BY <2>1 DEF Slots
  <2> QED BY <1>1, <2>1, <2>2, WritingKeepsLists, WritingKeepsTrail DEF ContentsGood
<1>4. CASE CrashAll
  <2>1. q.of = "none"
    BY <1>4, CrashEmpties DEF NoView
  <2> QED BY <2>1 DEF ContentsGood
<1>5. ASSUME NEW w \in View, Reading(w), UNCHANGED driveSpecVars
      PROVE  ContentsGood(q, st)'
  <2>1. folder' = folder /\ file' = file
    BY <1>5, ReadingLeaves
  <2>2. CASE v # w
    <3>1. q = view[v] /\ st = steady[v]
      BY <1>5, <2>2, ReadingHolds DEF OnlyOwnSlot, NowHolds, Stores
    <3> QED BY <1>1, <1>2, <2>1, <3>1
  <2>3. CASE v = w
    <3>1. ContentsGood(q, st)
      BY <1>1, <1>5, <2>3, ReadingKeepsContents
    <3> QED BY <1>2, <2>1, <3>1
  <2> QED BY <2>2, <2>3
<1>6. UNCHANGED viewVars => folder' = folder /\ file' = file /\ q = view[v] /\ st = steady[v]
  BY ReadingLeaves DEF viewVars
<1> QED BY <1>1, <1>2, <1>3, <1>4, <1>5, <1>6 DEF ViewsNext

\* ContentsAreExact, for any number of readers beside any number of writers: a
\* folder's lists, counts and breadcrumbs are right about everything that nobody
\* touches while GET /contents is answered, although each comes from a query of
\* its own.
THEOREM ContentsHold == ViewsSpec => []ContentsAreExact
<1>1. ViewsInit => ContentsReads
  BY DEF ViewsInit, ContentsReads, ContentsGood, NoView
<1>2. Slots /\ Stores /\ ContentsReads /\ [ViewsNext]_viewVars => ContentsReads'
  BY StepKeepsContents
<1>3. Slots /\ ContentsReads => ContentsAreExact
  <2> SUFFICES ASSUME Slots, ContentsReads, NEW v \in View, Done(v, "contents")
               PROVE  LET q == view[v]
                      IN /\ \A f \in steady[v] \cap FolderId :
                              /\ f \in q.folders <=> f \in ActiveFoldersIn({q.root})
                              /\ f \in q.counted <=> f \in ActiveFoldersIn(q.folders)
                         /\ \A x \in steady[v] \cap FileId :
                              /\ x \in q.files <=> x \in ActiveFilesIn({q.root})
                              /\ x \in q.counted <=> x \in ActiveFilesIn(q.folders)
                         /\ (q.root # Home /\ Unmoved(q.root, steady[v]))
                              => q.crumbs = Chain(q.root)
    BY DEF ContentsAreExact
  <2>1. ContentsGood(view[v], steady[v]) /\ view[v] \in ViewState
    BY DEF ContentsReads, Slots
  <2>2. view[v].root \in Location
    BY <2>1 DEF ViewState
  <2>3. ListsGood(view[v], steady[v]) /\ TrailGood(view[v], steady[v])
    BY <2>1 DEF Done, ContentsGood
  <2> QED BY <2>2, <2>3 DEF Done, ListsGood, TrailGood, FoldersBack, FilesBack, CrumbsBack,
                            FoldersCounted, FilesCounted, Location
<1> QED BY <1>1, <1>2, <1>3, SlotsInvariance, PTL DEF ViewsSpec

-----------------------------------------------------------------------------
(* Ways up a tree *)

\* Above is transitive.
LEMMA AboveOfAbove ==
  ASSUME Stores, NEW h \in FolderId, NEW g \in Above(h)
  PROVE  g \in FolderId /\ Above(g) \subseteq Above(h)
  BY AboveIs, AboveIsLeast

\* What is above a folder, other than itself, is above its parent.
LEMMA AboveTheParent ==
  ASSUME Stores, NEW h \in FolderId, NEW g \in Above(h), g # h
  PROVE  Parents[h] \in FolderId /\ g \in Above(Parents[h])
<1>1. Parents[h] \in FolderId
  <2>1. Parents[h] \notin FolderId => Above(h) \subseteq {h}
    BY AboveIsLeast
  <2> QED BY <2>1
<1> DEFINE S == {h} \cup Above(Parents[h])
<1>2. S \subseteq FolderId /\ h \in S /\ \A k \in S : Parents[k] \in FolderId => Parents[k] \in S
  BY <1>1, AboveIs
<1>3. Above(h) \subseteq S
  BY <1>2, AboveIsLeast
<1> QED BY <1>1, <1>3

\* In a tree no two folders are above each other.
LEMMA NoLoop ==
  ASSUME Stores, Acyclic, NEW h \in FolderId, NEW g \in Above(h), h \in Above(g)
  PROVE  g = h
<1> SUFFICES ASSUME g # h PROVE FALSE
  OBVIOUS
<1> DEFINE Z == {k \in Above(h) : h \in Above(k)}
<1>1. Above(h) \subseteq FolderId /\ h \in Above(h)
  BY AboveIs
<1>2. ASSUME NEW k \in Z PROVE Parents[k] \in FolderId /\ h \in Above(Parents[k])
  <2>1. CASE k # h
    BY <1>1, <1>2, <2>1, AboveTheParent
  <2>2. CASE k = h
    <3>1. Parents[h] \in FolderId /\ g \in Above(Parents[h])
      BY AboveTheParent
    <3> QED BY <2>2, <3>1, AboveOfAbove
  <2> QED BY <2>1, <2>2
<1>3. ASSUME NEW k \in Z PROVE k \in Folders /\ folder[k].parent \in Z
  <2>1. k \in FolderId /\ Stored(k) /\ Parents[k] = folder[k].parent
    BY <1>1, <1>2, ParentsAre, NoDocIsNoId DEF Location
  <2>2. Parents[k] \in Above(h)
    BY <1>2, <1>3, AboveIs
  <2> QED BY <1>2, <2>1, <2>2 DEF Folders
<1>4. h \in Z
  BY <1>1
<1> HIDE DEF Z
<1> QED BY <1>3, <1>4 DEF Acyclic

\* The climb from d that stops at r passes exactly what is above d and not above r.
LEMMA ClimbToRoot ==
  ASSUME Stores, Acyclic, NEW d \in FolderId, NEW r \in Above(d),
         \A g \in Climb(Parents, r, d) : g # r => Stored(g)
  PROVE  {r} \cup Climb(Parents, r, d) = (Chain(d) \ Chain(r)) \cup {r}
<1> DEFINE B == Climb(Parents, r, d)
<1>1. B \subseteq FolderId /\ d \in B /\ ClosedUp(B, Parents, r)
  BY ClimbIsClosed
<1>2. r \in FolderId /\ Above(r) \subseteq Above(d)
  BY AboveOfAbove
<1>3. B \subseteq Above(d)
  BY AboveIs, ClimbIsLeast DEF ClosedUp
<1>4. Above(d) \subseteq B \cup Above(r)
  <2>1. \A h \in B \cup Above(r) : Parents[h] \in FolderId => Parents[h] \in B \cup Above(r)
    BY <1>1, <1>2, AboveIs DEF ClosedUp
  <2>2. B \cup Above(r) \subseteq FolderId /\ d \in B \cup Above(r)
    BY <1>1, <1>2, AboveIs
  <2> QED BY <2>1, <2>2, AboveIsLeast
<1>5. ASSUME NEW g \in B PROVE r \in Above(g)
  <2> DEFINE K == {h \in B : r \in Above(h)}
  <2>1. ASSUME NEW h \in K, h # r, Parents[h] \in FolderId PROVE Parents[h] \in K
    BY <1>1, <2>1, AboveTheParent DEF ClosedUp
  <2>2. K \subseteq FolderId /\ d \in K /\ ClosedUp(K, Parents, r)
    BY <1>1, <2>1 DEF ClosedUp
  <2>3. B \subseteq K
    BY <2>2, ClimbIsLeast
  <2> QED BY <2>3
<1>6. ASSUME NEW g \in B, g # r PROVE g \in Chain(d) \ Chain(r)
  <2>1. Stored(g) /\ g \in Above(d)
    BY <1>3, <1>6
  <2>2. g \notin Above(r)
    BY <1>2, <1>5, <1>6, NoLoop
  <2> QED BY <1>2, <2>1, <2>2, AboveIs
<1>7. ASSUME NEW g \in Chain(d) \ Chain(r) PROVE g \in B
  <2>1. g \in Above(d) /\ Stored(g) /\ g \notin Above(r)
    BY <1>2, <1>7, AboveIs
  <2> QED BY <1>4, <2>1
<1> QED BY <1>6, <1>7

-----------------------------------------------------------------------------
(* The walk of a download *)

Walking(q) == q.pc \in {"walk", "tree", "files"}
Gathered(q) == q.pc \in {"urls", "done"}

\* No way up through untouched folders that misses the root meets the walk.
NoWayAround(q, st) ==
  \A S \in SUBSET (st \cap FolderId) :
    (q.root \notin S /\ \A h \in S : Parents[h] \in FolderId => Parents[h] \in S)
      => S \cap q.folders = {}

\* Of untouched folders, the walk has met the children of every folder it is
\* done with, and nothing whose parent it had not met before.
WalkGood(q, st) ==
  /\ q.root \in q.folders \cap q.asked /\ q.todo \subseteq q.folders
  /\ q.pc # "walk" => q.todo = {}
  /\ q.root \in st => Stored(q.root)
  /\ \A g \in st \cap Folders : folder[g].parent \in q.folders \ q.todo => g \in q.folders
  /\ \A g \in st \cap q.folders : g # q.root => Stored(g) /\ folder[g].parent \in q.folders
  /\ NoWayAround(q, st)
  /\ q.pc = "files" => \A g \in st \cap q.folders : q.above[g] = Parents[g]

\* A walk that was right stays right about what is left untouched.
LEMMA WritingKeepsWalk ==
  ASSUME NEW q \in ViewState, q.root \in FolderId, NEW st, NEW st2 \in SUBSET st,
         Untouched(st2), WalkGood(q, st)
  PROVE  WalkGood(q, st2)'
<1>1. \A g \in st2 \cap FolderId :
        /\ g \in st /\ folder'[g] = folder[g] /\ Parents'[g] = Parents[g]
        /\ Stored(g)' <=> Stored(g)
        /\ g \in Folders' <=> g \in Folders
  BY DEF Untouched, Parents, Folders, Stored
<1>2. q.folders \subseteq FolderId /\ Folders' \subseteq FolderId
  BY DEF ViewState, Folders
<1>3. NoWayAround(q, st2)'
  <2> SUFFICES ASSUME NEW S \in SUBSET (st2 \cap FolderId), q.root \notin S,
                      \A h \in S : Parents'[h] \in FolderId => Parents'[h] \in S
               PROVE  S \cap q.folders = {}
    BY DEF NoWayAround
  <2>1. S \in SUBSET (st \cap FolderId)
        /\ \A h \in S : Parents[h] \in FolderId => Parents[h] \in S
    BY <1>1
  <2> QED BY <2>1 DEF WalkGood, NoWayAround
<1>4. \A g \in st2 \cap Folders' :
        folder'[g].parent \in q.folders \ q.todo => g \in q.folders
  BY <1>1, <1>2 DEF WalkGood
<1>5. \A g \in st2 \cap q.folders :
        g # q.root => Stored(g)' /\ folder'[g].parent \in q.folders
  BY <1>1, <1>2 DEF WalkGood
<1>6. q.root \in st2 => Stored(q.root)'
  BY <1>1 DEF WalkGood
<1>7. q.pc = "files" => \A g \in st2 \cap q.folders : q.above[g] = Parents'[g]
  BY <1>1, <1>2 DEF WalkGood
<1> QED BY <1>3, <1>4, <1>5, <1>6, <1>7 DEF WalkGood

\* A walk that has met its root alone is right.
LEMMA FindRootStartsWalk ==
  ASSUME NEW n \in ViewState, NEW f \in FolderId, Stored(f), NEW st,
         n.pc = "walk", n.root = f, n.todo = {f}, n.folders = {f}, f \in n.asked
  PROVE  WalkGood(n, st)
  BY DEF WalkGood, NoWayAround

\* Reading the children of one folder keeps it right.
LEMMA WalkDownKeepsWalk ==
  ASSUME NEW q \in ViewState, NEW n, NEW st, WalkGood(q, st), Stores,
         q.pc = "walk", n.root = q.root, n.asked = q.asked,
         \/ q.todo = {} /\ n.pc = "tree" /\ n.todo = {} /\ n.folders = q.folders
         \/ /\ n.pc = "walk"
            /\ \E f \in q.todo : /\ n.todo = (q.todo \ {f}) \cup ChildrenOf(f)
                                 /\ n.folders = q.folders \cup ChildrenOf(f)
  PROVE  WalkGood(n, st)
<1>1. CASE q.todo = {} /\ n.pc = "tree" /\ n.todo = {} /\ n.folders = q.folders
  BY <1>1 DEF WalkGood, NoWayAround
<1>2. ASSUME NEW f \in q.todo, n.pc = "walk",
             n.todo = (q.todo \ {f}) \cup ChildrenOf(f),
             n.folders = q.folders \cup ChildrenOf(f)
      PROVE  WalkGood(n, st)
  <2>1. f \in q.folders /\ f \in FolderId
    BY DEF WalkGood, ViewState
  <2>2. \A g : g \in ChildrenOf(f) <=> g \in Folders /\ folder[g].parent = f
    BY DEF ChildrenOf
  <2>3. \A g \in st \cap Folders : folder[g].parent \in n.folders \ n.todo => g \in n.folders
    BY <1>2, <2>2 DEF WalkGood
  <2>4. \A g \in st \cap n.folders : g # n.root => Stored(g) /\ folder[g].parent \in n.folders
    BY <1>2, <2>1, <2>2 DEF WalkGood, Folders
  <2>5. NoWayAround(n, st)
    <3> SUFFICES ASSUME NEW S \in SUBSET (st \cap FolderId), n.root \notin S,
                        \A h \in S : Parents[h] \in FolderId => Parents[h] \in S
                 PROVE  S \cap n.folders = {}
      BY DEF NoWayAround
    <3>1. S \cap q.folders = {}
      BY DEF WalkGood, NoWayAround
    <3>2. ASSUME NEW c \in S \cap ChildrenOf(f) PROVE FALSE
      <4>1. Parents[c] = f
        BY <2>2, <3>2 DEF Parents, Folders
      <4> QED BY <2>1, <3>1, <3>2, <4>1
    <3> QED BY <1>2, <3>1, <3>2
  <2> QED BY <1>2, <2>3, <2>4, <2>5 DEF WalkGood
<1> QED BY <1>1, <1>2

\* And so does reading the parents, which still are what the walk went by.
LEMMA ReadTreeKeepsWalk ==
  ASSUME NEW q \in ViewState, NEW n, NEW st, WalkGood(q, st),
         q.pc = "tree", n.pc = "files", n.root = q.root, n.asked = q.asked,
         n.todo = q.todo, n.folders = q.folders, n.above = ReadOf(q.folders)
  PROVE  WalkGood(n, st)
<1>1. \A g \in q.folders : n.above[g] = Parents[g]
  BY DEF ReadOf, Parents, ViewState
<1> QED BY <1>1 DEF WalkGood, NoWayAround

\* A walk that is over has met every folder that lies below its root through
\* untouched ones, and knows the way there.
LEMMA WalkIsComplete ==
  ASSUME Stores, NEW q \in ViewState, NEW st, WalkGood(q, st), q.todo = {},
         NEW d \in FolderId, Unmoved(d, st), q.root \in Above(d)
  PROVE  d \in q.folders
<1> SUFFICES ASSUME d \notin q.folders PROVE FALSE
  OBVIOUS
<1> DEFINE S == Above(d) \ q.folders
<1>1. Above(d) \subseteq st /\ Above(d) \subseteq FolderId /\ d \in Above(d)
  BY AboveIs DEF Unmoved, Above
<1>2. ASSUME NEW h \in S, Parents[h] \in FolderId PROVE Parents[h] \in S
  <2>1. Stored(h) /\ Parents[h] = folder[h].parent
    BY <1>1, <1>2, ParentsAre, NoDocIsNoId DEF Location
  <2>2. Parents[h] \notin q.folders
    BY <1>1, <2>1 DEF WalkGood, Folders
  <2> QED BY <1>2, <2>2, AboveIs
<1>3. S \subseteq FolderId /\ d \in S
  BY <1>1
<1> HIDE DEF S
<1>4. Above(d) \subseteq S
  BY <1>2, <1>3, AboveIsLeast
<1> QED BY <1>4 DEF S, WalkGood

\* The path of a folder that was met leads from the root to it, and is the one it
\* has now, if the parent links hold no cycle.
LEMMA PathIsRight ==
  ASSUME Stores, Acyclic, NEW q \in ViewState, NEW st, WalkGood(q, st), q.pc = "files",
         q.root \in FolderId, NEW d \in q.folders, Unmoved(d, st)
  PROVE  /\ q.root \in Above(d)
         /\ RelativePath(q, d) = (Chain(d) \ Chain(q.root)) \cup {q.root}
<1> DEFINE r == q.root
           B == Climb(Parents, r, d)
<1>1. d \in FolderId
  BY DEF ViewState
<1>2. /\ Above(d) \subseteq st /\ Above(d) \subseteq FolderId /\ d \in Above(d)
      /\ \A h \in Above(d) : Parents[h] \in FolderId => Parents[h] \in Above(d)
  BY <1>1, AboveIs DEF Unmoved, Above
<1>3. r \in Above(d)
  <2>1. r \notin Above(d) => Above(d) \cap q.folders = {}
    BY <1>2 DEF WalkGood, NoWayAround
  <2> QED BY <1>2, <2>1
<1>4. B \subseteq FolderId /\ d \in B /\ ClosedUp(B, Parents, r)
  BY <1>1, ClimbIsClosed
<1>5. B \subseteq Above(d)
  BY <1>2, ClimbIsLeast DEF ClosedUp
<1>6. \A h \in Above(d) \cap q.folders :
        h # r => Stored(h) /\ Parents[h] = folder[h].parent /\ Parents[h] \in q.folders
  BY <1>2, ParentsAre DEF WalkGood
<1>7. B \subseteq q.folders
  <2>1. ClosedUp(B \cap q.folders, Parents, r)
    BY <1>4, <1>5, <1>6 DEF ClosedUp
  <2>2. B \cap q.folders \subseteq FolderId /\ d \in B \cap q.folders
    BY <1>4
  <2>3. B \subseteq B \cap q.folders
    BY <2>1, <2>2, ClimbIsLeast
  <2> QED BY <2>3
<1>8. \A g \in B : q.above[g] = Parents[g]
  BY <1>2, <1>5, <1>7 DEF WalkGood
<1>9. Climb(q.above, r, d) = B
  BY <1>1, <1>8, ClimbAgrees
<1>10. \A g \in B : g # r => Stored(g)
  BY <1>5, <1>6, <1>7
<1>11. {r} \cup Upward(q.above, r, d) = {r} \cup B
  <2>1. \A g \in B : g # r => q.above[g] # NoDoc
    BY <1>4, <1>8, <1>10, ParentsAre
  <2> QED BY <1>9, <2>1 DEF Upward
<1>12. {r} \cup B = (Chain(d) \ Chain(r)) \cup {r}
  BY <1>1, <1>3, <1>10, ClimbToRoot
<1> QED BY <1>3, <1>11, <1>12 DEF RelativePath

-----------------------------------------------------------------------------
(* What a download has found *)

\* The folders asked for that are still to be looked into.
Unsearched(q) ==
  IF Gathered(q) THEN {} ELSE q.roots \cup (IF Walking(q) THEN {q.root} ELSE {})

\* The way from x's folder up is untouched.
SteadyWay(x, st) ==
  x \in st \cap Files /\ file[x].folder \in FolderId /\ Unmoved(file[x].folder, st)

\* r is active and asked for, and nobody has touched it.
SteadyRoot(r, q, st) == r \in q.asked \cap st \cap Folders /\ Active(folder[r])

\* What was found below the roots that are done.
FilesGood(q, st) ==
  \A x, r : /\ SteadyRoot(r, q, st) /\ r \notin Unsearched(q)
            /\ SteadyWay(x, st) /\ Active(file[x]) /\ r \in Chain(file[x].folder)
            => x \in q.files

PathGood(x, q) ==
  \E r \in q.asked \cap Above(file[x].folder) :
    q.path[x] = (Chain(file[x].folder) \ Chain(r)) \cup {r}

\* A file found in a folder has its path; one that is asked for by its id as well
\* was found before.
PathsGood(q, st) ==
  \A x \in q.files :
    /\ SteadyWay(x, st)
    /\ Gathered(q) => /\ Active(file[x])
                      /\ \E r : SteadyRoot(r, q, st) /\ r \in Chain(file[x].folder)
    => PathGood(x, q)

DownloadGood(q, st) ==
  q.of = "download" =>
    /\ ~Gathered(q) => q.roots \subseteq q.asked
    /\ Walking(q) => WalkGood(q, st)
    /\ FilesGood(q, st) /\ PathsGood(q, st)
    /\ Gathered(q) => \A x \in st \cap Files \cap q.asked : Active(file[x]) => x \in q.files
    /\ q.pc = "done" => \A x \in st \cap q.files : HasFile(x) /\ Active(file[x])

DownloadReads ==
  \A v \in View, q \in ViewState, st \in SUBSET Item :
    q = view[v] /\ st = steady[v] => DownloadGood(q, st)

\* An untouched way up is the way it was.
LEMMA SteadyWayStays ==
  ASSUME Stores, NEW st, NEW st2 \in SUBSET st, Untouched(st2),
         NEW x, SteadyWay(x, st2)'
  PROVE  /\ SteadyWay(x, st) /\ file'[x] = file[x] /\ file[x].folder \in FolderId
         /\ Chain(file[x].folder)' = Chain(file[x].folder)
         /\ Above(file[x].folder)' = Above(file[x].folder)
         /\ Above(file[x].folder) \subseteq st2
<1>1. PICK d : d = file'[x].folder
  OBVIOUS
<1>2. x \in Files' /\ x \in st2 /\ d \in FolderId /\ Unmoved(d, st2)'
  BY <1>1 DEF SteadyWay, Unmoved
<1>3. file'[x] = file[x] /\ x \in Files
  BY <1>2 DEF Untouched, Files, HasFile
<1>4. d = file[x].folder
  BY <1>1, <1>3
<1>5. /\ Above(d)' = Above(d) /\ Chain(d)' = Chain(d)
      /\ \A g \in Above(d) : g \in st2
  BY <1>2, UnmovedStays
<1>6. Unmoved(d, st)
  BY <1>5 DEF Unmoved, Above
<1>7. SteadyWay(x, st)
  BY <1>2, <1>3, <1>4, <1>6 DEF SteadyWay
<1>8. /\ Chain(file[x].folder)' = Chain(d)' /\ Chain(file[x].folder) = Chain(d)
      /\ Above(file[x].folder)' = Above(d)' /\ Above(file[x].folder) = Above(d)
  BY <1>1, <1>4 DEF Chain, Above
<1> QED BY <1>2, <1>3, <1>4, <1>5, <1>7, <1>8

\* What a download has found stays right about what is left untouched.
LEMMA WritingKeepsDownload ==
  ASSUME Stores, NEW q \in ViewState, SlotFits(q), NEW st, NEW st2 \in SUBSET st,
         Untouched(st2), DownloadGood(q, st)
  PROVE  DownloadGood(q, st2)'
<1> SUFFICES ASSUME q.of = "download" PROVE DownloadGood(q, st2)'
  BY DEF DownloadGood
<1>1. \A f \in st2 \cap FolderId :
        f \in st /\ folder'[f] = folder[f] /\ (f \in Folders' <=> f \in Folders)
  BY DEF Untouched, Folders, Stored
<1>2. \A x \in st2 \cap FileId :
        x \in st /\ file'[x] = file[x] /\ (x \in Files' <=> x \in Files)
        /\ (HasFile(x)' <=> HasFile(x))
  BY DEF Untouched, Files, HasFile
<1>3. ASSUME NEW r, SteadyRoot(r, q, st2)' PROVE SteadyRoot(r, q, st)
  <2>1. r \in FolderId
    BY <1>3 DEF SteadyRoot, Folders
  <2> QED BY <1>1, <1>3, <2>1 DEF SteadyRoot, Active
<1>4. Walking(q) => WalkGood(q, st2)'
  <2> SUFFICES ASSUME Walking(q) PROVE WalkGood(q, st2)'
    OBVIOUS
  <2>1. q.root \in FolderId /\ WalkGood(q, st)
    BY DEF SlotFits, Walking, DownloadGood
  <2> QED BY <2>1, WritingKeepsWalk
<1>5. FilesGood(q, st2)'
  <2> SUFFICES ASSUME NEW x, NEW r, SteadyRoot(r, q, st2)', r \notin Unsearched(q),
                      SteadyWay(x, st2)', Active(file'[x]), (r \in Chain(file[x].folder))'
               PROVE  x \in q.files
    BY DEF FilesGood, Unsearched, Walking, Gathered, Active
  <2>1. /\ SteadyWay(x, st) /\ file'[x] = file[x]
        /\ Chain(file[x].folder)' = Chain(file[x].folder)
    BY SteadyWayStays
  <2>2. SteadyRoot(r, q, st) /\ Active(file[x]) /\ r \in Chain(file[x].folder)
    BY <1>3, <2>1 DEF Active
  <2>3. FilesGood(q, st)
    BY DEF DownloadGood
  <2> QED BY <2>1, <2>2, <2>3 DEF FilesGood
<1>6. PathsGood(q, st2)'
  <2> SUFFICES ASSUME NEW x \in q.files, SteadyWay(x, st2)',
                      Gathered(q) => /\ Active(file'[x])
                                     /\ \E r : /\ SteadyRoot(r, q, st2)'
                                               /\ (r \in Chain(file[x].folder))'
               PROVE  PathGood(x, q)'
    BY DEF PathsGood, Gathered, Active
  <2>1. /\ SteadyWay(x, st) /\ file'[x] = file[x] /\ file[x].folder \in FolderId
        /\ Chain(file[x].folder)' = Chain(file[x].folder)
        /\ Above(file[x].folder)' = Above(file[x].folder)
        /\ Above(file[x].folder) \subseteq st2
    BY SteadyWayStays
  <2>2. Gathered(q) => /\ Active(file[x])
                       /\ \E r : SteadyRoot(r, q, st) /\ r \in Chain(file[x].folder)
    BY <1>3, <2>1 DEF Active
  <2>3. PathGood(x, q)
    BY <2>1, <2>2 DEF DownloadGood, PathsGood
  <2>4. PICK r \in q.asked \cap Above(file[x].folder) :
          q.path[x] = (Chain(file[x].folder) \ Chain(r)) \cup {r}
    BY <2>3 DEF PathGood
  <2>5. Chain(r)' = Chain(r)
    <3>1. r \in FolderId /\ Above(r) \subseteq st2
      BY <2>1, <2>4, AboveOfAbove
    <3>2. \A g \in Climb(Parents, Home, r) : Parents'[g] = Parents[g]
      BY <3>1, <1>1, ClimbIsClosed DEF Above, Parents, Stored
    <3>3. Climb(Parents', Home, r) = Climb(Parents, Home, r)
      BY <3>1, <3>2, ClimbAgrees
    <3> QED BY <3>2, <3>3 DEF Chain, Upward
  <2> QED BY <2>1, <2>4, <2>5 DEF PathGood
<1>7. Gathered(q) => \A x \in st2 \cap Files' \cap q.asked : Active(file'[x]) => x \in q.files
  BY <1>2 DEF DownloadGood, Files
<1>8. q.pc = "done" => \A x \in st2 \cap q.files : HasFile(x)' /\ Active(file'[x])
  BY <1>2 DEF DownloadGood, ViewState
<1>9. ~Gathered(q) => q.roots \subseteq q.asked
  BY DEF DownloadGood
<1> QED BY <1>4, <1>5, <1>6, <1>7, <1>8, <1>9 DEF DownloadGood, Walking, Gathered, Active

\* A step of the walk that finds no file yet.
LEMMA WalksOn ==
  ASSUME NEW q \in ViewState, NEW n \in ViewState, NEW st, DownloadGood(q, st),
         q.of = "download", n.asked = q.asked, n.files = q.files, n.path = q.path,
         ~Gathered(q), ~Gathered(n), n.roots \subseteq q.roots,
         \A r : SteadyRoot(r, q, st) /\ r \in Unsearched(q) => r \in Unsearched(n),
         Walking(n) => WalkGood(n, st)
  PROVE  DownloadGood(n, st)
<1>1. \A r : SteadyRoot(r, n, st) <=> SteadyRoot(r, q, st)
  BY DEF SteadyRoot
<1>2. \A x : PathGood(x, n) <=> PathGood(x, q)
  BY DEF PathGood
<1>3. FilesGood(n, st)
  BY <1>1 DEF DownloadGood, FilesGood
<1>4. PathsGood(n, st)
  BY <1>2 DEF DownloadGood, PathsGood
<1> QED BY <1>3, <1>4 DEF DownloadGood, Gathered

\* Finding the files below a root keeps files and paths right.
LEMMA FindFilesKeepsDownload ==
  ASSUME Slots, Stores, Acyclic, NEW v \in View, NEW q, q = view[v], NEW n, n = view'[v],
         NEW st, DownloadGood(q, st), FindFiles(v)
  PROVE  DownloadGood(n, st)
<1> DEFINE found == ActiveFilesIn(q.folders) \ q.files
<1>1. q \in ViewState
  BY DEF Slots
<1>2. /\ q.of = "download" /\ q.pc = "files" /\ q.root \in FolderId
      /\ n.of = q.of /\ n.pc = "roots" /\ n.asked = q.asked /\ n.roots = q.roots
      /\ n.files = q.files \cup found
      /\ \A x \in FileId :
           n.path[x] = IF x \in found THEN RelativePath(q, file[x].folder) ELSE q.path[x]
  BY FindFilesEffect
<1>3. WalkGood(q, st) /\ FilesGood(q, st) /\ PathsGood(q, st) /\ q.roots \subseteq q.asked
      /\ ~Gathered(q) /\ ~Gathered(n) /\ ~Walking(n)
  BY <1>2 DEF DownloadGood, Walking, Gathered
<1>4. Unsearched(q) = q.roots \cup {q.root} /\ Unsearched(n) = q.roots
  BY <1>2, <1>3 DEF Unsearched, Walking
<1>5. FilesGood(n, st)
  <2> SUFFICES ASSUME NEW x, NEW r, SteadyRoot(r, n, st), r \notin Unsearched(n),
                      SteadyWay(x, st), Active(file[x]), r \in Chain(file[x].folder)
               PROVE  x \in n.files
    BY DEF FilesGood
  <2>1. SteadyRoot(r, q, st)
    BY <1>2 DEF SteadyRoot
  <2>2. CASE r \notin Unsearched(q)
    BY <1>2, <1>3, <2>1, <2>2 DEF FilesGood
  <2>3. CASE r = q.root
    <3> DEFINE d == file[x].folder
    <3>1. d \in FolderId /\ Unmoved(d, st) /\ x \in Files
      BY DEF SteadyWay
    <3>2. q.root \in Above(d)
      BY <2>3 DEF Chain, Upward, Above
    <3>3. q.todo = {}
      BY <1>2, <1>3 DEF WalkGood
    <3>4. d \in q.folders
      BY <1>1, <1>3, <3>1, <3>2, <3>3, WalkIsComplete
    <3> QED BY <1>2, <3>1, <3>4 DEF ActiveFilesIn
  <2> QED BY <1>4, <2>2, <2>3
<1>6. PathsGood(n, st)
  <2> SUFFICES ASSUME NEW x \in n.files, SteadyWay(x, st)
               PROVE  PathGood(x, n)
    BY <1>3 DEF PathsGood
  <2> DEFINE d == file[x].folder
  <2>1. d \in FolderId /\ Unmoved(d, st) /\ x \in FileId
    BY DEF SteadyWay, Files
  <2>2. CASE x \in found
    <3>1. d \in q.folders
      BY <2>2 DEF ActiveFilesIn
    <3>2. /\ q.root \in Above(d)
          /\ RelativePath(q, d) = (Chain(d) \ Chain(q.root)) \cup {q.root}
      BY <1>1, <1>2, <1>3, <2>1, <3>1, PathIsRight
    <3>3. q.root \in q.asked
      BY <1>3 DEF WalkGood
    <3> QED BY <1>2, <2>1, <2>2, <3>2, <3>3 DEF PathGood
  <2>3. CASE x \notin found
    <3>1. x \in q.files /\ n.path[x] = q.path[x]
      BY <1>2, <2>1, <2>3
    <3>2. PathGood(x, q)
      BY <1>3, <3>1 DEF PathsGood
    <3> QED BY <1>2, <3>1, <3>2 DEF PathGood
  <2> QED BY <2>2, <2>3
<1> QED BY <1>2, <1>3, <1>5, <1>6 DEF DownloadGood, Gathered

\* Joining the files asked for does: what lies below a root was found before.
LEMMA JoinFilesKeepsDownload ==
  ASSUME NEW q \in ViewState, NEW n, NEW st, DownloadGood(q, st),
         q.of = "download", q.pc = "roots", q.roots = {},
         n.of = q.of, n.pc = "urls", n.asked = q.asked, n.path = q.path,
         n.files = q.files \cup (q.asked \cap FileId)
  PROVE  DownloadGood(n, st)
<1>1. Gathered(n) /\ ~Gathered(q) /\ ~Walking(n) /\ Unsearched(q) = {} /\ Unsearched(n) = {}
  BY DEF Gathered, Walking, Unsearched
<1>2. FilesGood(q, st) /\ PathsGood(q, st)
  BY DEF DownloadGood
<1>3. \A r : SteadyRoot(r, n, st) <=> SteadyRoot(r, q, st)
  BY DEF SteadyRoot
<1>4. FilesGood(n, st)
  BY <1>1, <1>2, <1>3 DEF FilesGood
<1>5. PathsGood(n, st)
  <2> SUFFICES ASSUME NEW x \in n.files, SteadyWay(x, st), Active(file[x]),
                      NEW r, SteadyRoot(r, n, st), r \in Chain(file[x].folder)
               PROVE  PathGood(x, n)
    BY <1>1 DEF PathsGood
  <2>1. x \in q.files
    BY <1>1, <1>2, <1>3 DEF FilesGood
  <2>2. PathGood(x, q)
    BY <1>1, <1>2, <2>1 DEF PathsGood
  <2> QED BY <2>2 DEF PathGood
<1>6. \A x \in st \cap Files \cap n.asked : Active(file[x]) => x \in n.files
  BY DEF Files
<1> QED BY <1>1, <1>4, <1>5, <1>6 DEF DownloadGood

\* Reading the files again does: what is untouched is as it was.
LEMMA PresignUrlsKeepsDownload ==
  ASSUME NEW q \in ViewState, NEW n, NEW st, DownloadGood(q, st),
         q.of = "download", q.pc = "urls",
         n.of = q.of, n.pc = "done", n.asked = q.asked, n.path = q.path,
         n.files = {x \in q.files \cap Files : Active(file[x])}
  PROVE  DownloadGood(n, st)
<1>1. Gathered(n) /\ Gathered(q) /\ ~Walking(n) /\ Unsearched(q) = {} /\ Unsearched(n) = {}
  BY DEF Gathered, Walking, Unsearched
<1>2. FilesGood(q, st) /\ PathsGood(q, st)
  BY DEF DownloadGood
<1>3. \A r : SteadyRoot(r, n, st) <=> SteadyRoot(r, q, st)
  BY DEF SteadyRoot
<1>4. FilesGood(n, st)
  BY <1>1, <1>2, <1>3 DEF FilesGood, SteadyWay
<1>5. PathsGood(n, st)
  <2>1. \A x : PathGood(x, n) <=> PathGood(x, q)
    BY DEF PathGood
  <2> QED BY <1>1, <1>2, <1>3, <2>1 DEF PathsGood
<1>6. \A x \in st \cap Files \cap n.asked : Active(file[x]) => x \in n.files
  BY <1>1 DEF DownloadGood
<1>7. \A x \in st \cap n.files : HasFile(x) /\ Active(file[x])
  BY DEF Files
<1> QED BY <1>1, <1>4, <1>5, <1>6, <1>7 DEF DownloadGood

\* Every query of POST /download keeps files and paths right.
LEMMA ReadingKeepsDownload ==
  ASSUME Slots, Stores, Acyclic, NEW v \in View, Reading(v),
         DownloadGood(view[v], steady[v])
  PROVE  DownloadGood(view'[v], steady'[v])
<1>1. PICK q : q = view[v]
  OBVIOUS
<1>2. PICK n : n = view'[v]
  OBVIOUS
<1>3. PICK st : st = steady[v]
  OBVIOUS
<1>4. q \in ViewState /\ SlotFits(q) /\ DownloadGood(q, st) /\ st \subseteq Item
  BY <1>1, <1>3 DEF Slots
<1>5. n \in ViewState /\ SlotFits(n)
  BY <1>2, ReadingHolds DEF OnlyOwnSlot, NowHolds, Stores
<1> SUFFICES ASSUME n.of = "download" PROVE DownloadGood(n, steady'[v])
  BY <1>2 DEF DownloadGood
<1>6. ASSUME Walks(v, q, n), ~Gathered(q), ~Gathered(n), n.roots \subseteq q.roots,
             \A r : SteadyRoot(r, q, st) /\ r \in Unsearched(q) => r \in Unsearched(n),
             Walking(n) => WalkGood(n, st)
      PROVE  DownloadGood(n, steady'[v])
  <2>1. steady'[v] = st
    BY <1>3, <1>6 DEF Walks
  <2>2. DownloadGood(n, st)
    BY <1>4, <1>5, <1>6, WalksOn DEF Walks
  <2> QED BY <2>1, <2>2
<1>7. ASSUME NEW roots \in SUBSET FolderId, NEW picks \in SUBSET FileId,
             AskDownload(v, roots, picks)
      PROVE  DownloadGood(n, steady'[v])
  <2>1. n.pc = "roots" /\ n.roots = roots /\ n.asked = roots \cup picks /\ n.files = {}
    BY <1>2, <1>7, AskDownloadEffect
  <2>2. ~Gathered(n) /\ ~Walking(n)
    BY <2>1 DEF Gathered, Walking
  <2>3. Unsearched(n) = roots
    BY <2>1, <2>2 DEF Unsearched
  <2>4. FilesGood(n, steady'[v])
    <3> SUFFICES ASSUME NEW r, SteadyRoot(r, n, steady'[v]), r \notin Unsearched(n) PROVE FALSE
      BY DEF FilesGood
    <3>1. r \in picks /\ r \in FolderId
      BY <2>1, <2>3 DEF SteadyRoot, Folders
    <3> QED BY <3>1, IdsAreDistinct
  <2>5. PathsGood(n, steady'[v])
    BY <2>1 DEF PathsGood
  <2> QED BY <2>1, <2>2, <2>4, <2>5 DEF DownloadGood, Gathered
<1>8. CASE FindRoot(v)
  <2>1. /\ Walks(v, q, n) /\ q.pc = "roots"
        /\ \E f \in q.roots :
             /\ f \in FolderId /\ n.roots = q.roots \ {f}
             /\ \/ /\ Stored(f) /\ Active(folder[f])
                   /\ n.pc = "walk" /\ n.root = f /\ n.todo = {f} /\ n.folders = {f}
                \/ ~(Stored(f) /\ Active(folder[f])) /\ n.pc = "roots"
    BY <1>1, <1>2, <1>8, FindRootEffect
  <2>2. PICK f \in q.roots :
             /\ f \in FolderId /\ n.roots = q.roots \ {f}
             /\ \/ /\ Stored(f) /\ Active(folder[f])
                   /\ n.pc = "walk" /\ n.root = f /\ n.todo = {f} /\ n.folders = {f}
                \/ ~(Stored(f) /\ Active(folder[f])) /\ n.pc = "roots"
    BY <2>1
  <2>3. Unsearched(q) = q.roots /\ ~Gathered(q) /\ ~Gathered(n) /\ q.roots \subseteq q.asked
    BY <1>4, <2>1, <2>2 DEF Unsearched, Gathered, Walking, Walks, DownloadGood
  <2>4. CASE Stored(f) /\ Active(folder[f])
    <3>1. n.pc = "walk" /\ n.root = f /\ n.todo = {f} /\ n.folders = {f}
      BY <2>2, <2>4
    <3>2. Unsearched(n) = q.roots
      BY <2>2, <3>1 DEF Unsearched, Gathered, Walking
    <3>3. f \in n.asked
      BY <2>1, <2>3 DEF Walks
    <3>4. WalkGood(n, st)
      BY <1>5, <2>2, <2>4, <3>1, <3>3, FindRootStartsWalk
    <3> QED BY <1>6, <2>1, <2>2, <2>3, <3>2, <3>4
  <2>5. CASE ~(Stored(f) /\ Active(folder[f]))
    <3>1. n.pc = "roots" /\ ~Walking(n) /\ Unsearched(n) = q.roots \ {f}
      BY <2>2, <2>5 DEF Unsearched, Gathered, Walking
    <3>2. ~SteadyRoot(f, q, st)
      BY <2>5 DEF SteadyRoot, Folders
    <3> QED BY <1>6, <2>1, <2>2, <2>3, <3>1, <3>2
  <2> QED BY <2>4, <2>5
<1>9. ASSUME Walks(v, q, n), Walking(q), Walking(n), n.roots = q.roots, n.root = q.root,
             WalkGood(n, st)
      PROVE  DownloadGood(n, steady'[v])
  <2>1. ~Gathered(q) /\ ~Gathered(n)
    BY <1>9 DEF Walking, Gathered
  <2>2. Unsearched(n) = Unsearched(q)
    BY <1>9, <2>1 DEF Unsearched
  <2> QED BY <1>6, <1>9, <2>1, <2>2
<1>10. CASE WalkDown(v)
  <2>1. /\ Walks(v, q, n) /\ q.pc = "walk" /\ n.roots = q.roots /\ n.root = q.root
        /\ \/ q.todo = {} /\ n.pc = "tree" /\ n.todo = {} /\ n.folders = q.folders
           \/ /\ n.pc = "walk"
              /\ \E f \in q.todo : /\ n.todo = (q.todo \ {f}) \cup ChildrenOf(f)
                                   /\ n.folders = q.folders \cup ChildrenOf(f)
    BY <1>1, <1>2, <1>10, WalkDownEffect
  <2>2. Walking(q) /\ Walking(n) /\ n.asked = q.asked /\ q.of = "download"
    BY <2>1 DEF Walking, Walks
  <2>3. WalkGood(q, st)
    BY <1>4, <2>2 DEF DownloadGood
  <2>4. WalkGood(n, st)
    BY <1>4, <2>1, <2>2, <2>3, WalkDownKeepsWalk
  <2> QED BY <1>9, <2>1, <2>2, <2>4
<1>11. CASE ReadTree(v)
  <2>1. /\ Walks(v, q, n) /\ q.pc = "tree" /\ n.pc = "files" /\ n.roots = q.roots
        /\ n.root = q.root /\ n.todo = q.todo /\ n.folders = q.folders
        /\ n.above = ReadOf(q.folders)
    BY <1>1, <1>2, <1>11, ReadTreeEffect DEF Stores
  <2>2. Walking(q) /\ Walking(n) /\ n.asked = q.asked /\ q.of = "download"
    BY <2>1 DEF Walking, Walks
  <2>3. WalkGood(q, st)
    BY <1>4, <2>2 DEF DownloadGood
  <2>4. WalkGood(n, st)
    BY <1>4, <2>1, <2>2, <2>3, ReadTreeKeepsWalk
  <2> QED BY <1>9, <2>1, <2>2, <2>4
<1>12. CASE FindFiles(v)
  <2>1. steady'[v] = st
    BY <1>1, <1>2, <1>3, <1>12, FindFilesEffect
  <2>2. DownloadGood(n, st)
    BY <1>1, <1>2, <1>4, <1>12, FindFilesKeepsDownload
  <2> QED BY <2>1, <2>2
<1>13. ASSUME JoinFiles(v), ~End(v) PROVE DownloadGood(n, steady'[v])
  <2>1. /\ steady' = steady
        /\ q.of = "download" /\ q.pc = "roots" /\ q.roots = {}
        /\ n.of = q.of /\ n.pc = "urls" /\ n.asked = q.asked
        /\ n.path = q.path
        /\ n.files = q.files \cup (q.asked \cap FileId)
    BY <1>1, <1>2, <1>13, JoinFilesEffect
  <2>2. DownloadGood(n, st)
    BY <1>4, <2>1, JoinFilesKeepsDownload
  <2> QED BY <1>3, <2>1, <2>2
<1>14. CASE PresignUrls(v)
  <2>1. /\ steady' = steady
        /\ q.of = "download" /\ q.pc = "urls"
        /\ n.of = q.of /\ n.pc = "done" /\ n.asked = q.asked /\ n.path = q.path
        /\ n.files = {x \in q.files \cap Files : Active(file[x])}
    BY <1>1, <1>2, <1>14, PresignUrlsEffect
  <2>2. DownloadGood(n, st)
    BY <1>4, <2>1, PresignUrlsKeepsDownload
  <2> QED BY <1>3, <2>1, <2>2
<1> QED BY <1>2, <1>7, <1>8, <1>10, <1>11, <1>12, <1>13, <1>14, ReadingKinds

\* And so does every step of anybody.
LEMMA StepKeepsDownload ==
  ASSUME Slots, Stores, Acyclic, DownloadReads, [ViewsNext]_viewVars
  PROVE  DownloadReads'
<1> SUFFICES ASSUME NEW v \in View, NEW q \in ViewState, NEW st \in SUBSET Item,
                    q = view'[v], st = steady'[v]
             PROVE  DownloadGood(q, st)'
  BY DEF DownloadReads
<1>1. DownloadGood(view[v], steady[v]) /\ view[v] \in ViewState /\ SlotFits(view[v])
  BY DEF Slots, DownloadReads
<1>2. ASSUME folder' = folder, file' = file, DownloadGood(q, st)
      PROVE  DownloadGood(q, st)'
  <2>1. Parents' = Parents
    BY <1>2 DEF Parents, Stored
  <2>2. \A f : Above(f)' = Above(f) /\ Chain(f)' = Chain(f) /\ Unmoved(f, st)' = Unmoved(f, st)
    BY <2>1 DEF Above, Chain, Unmoved
  <2>3. Folders' = Folders /\ Files' = Files /\ \A x : HasFile(x)' = HasFile(x)
    BY <1>2 DEF Folders, Files, Stored, HasFile
  <2>4. /\ \A x : SteadyWay(x, st)' = SteadyWay(x, st)
        /\ \A r : SteadyRoot(r, q, st)' = SteadyRoot(r, q, st)
        /\ \A x : PathGood(x, q)' = PathGood(x, q)
    BY <1>2, <2>1, <2>2, <2>3
       DEF SteadyWay, SteadyRoot, PathGood, Unmoved, Above, Chain, Active
  <2>5. WalkGood(q, st)' = WalkGood(q, st)
    BY <1>2, <2>1, <2>3 DEF WalkGood, NoWayAround, Stored
  <2>6. FilesGood(q, st)' = FilesGood(q, st)
    BY <1>2, <2>1, <2>4 DEF FilesGood, Unsearched, Walking, Gathered, Active, Chain
  <2>7. PathsGood(q, st)' = PathsGood(q, st)
    BY <1>2, <2>1, <2>4 DEF PathsGood, Gathered, Active, Chain
  <2> QED BY <1>2, <2>3, <2>5, <2>6, <2>7 DEF DownloadGood, Walking, Gathered, Active
<1>3. CASE Writing
  <2>1. view' = view /\ st \subseteq steady[v] /\ Untouched(st)
    BY <1>3, WritingLeaves
  <2>2. q = view[v]
    BY <2>1
  <2> QED BY <1>1, <2>1, <2>2, WritingKeepsDownload
<1>4. CASE CrashAll
  <2>1. q.of = "none"
    BY <1>4, CrashEmpties DEF NoView
  <2> QED BY <2>1 DEF DownloadGood
<1>5. ASSUME NEW w \in View, Reading(w), UNCHANGED driveSpecVars
      PROVE  DownloadGood(q, st)'
  <2>1. folder' = folder /\ file' = file
    BY <1>5, ReadingLeaves
  <2>2. CASE v # w
    <3>1. q = view[v] /\ st = steady[v]
      BY <1>5, <2>2, ReadingHolds DEF OnlyOwnSlot, NowHolds, Stores
    <3> QED BY <1>1, <1>2, <2>1, <3>1
  <2>3. CASE v = w
    <3>1. DownloadGood(q, st)
      BY <1>1, <1>5, <2>3, ReadingKeepsDownload
    <3> QED BY <1>2, <2>1, <3>1
  <2> QED BY <2>2, <2>3
<1>6. UNCHANGED viewVars => folder' = folder /\ file' = file /\ q = view[v] /\ st = steady[v]
  BY ReadingLeaves DEF viewVars
<1> QED BY <1>1, <1>2, <1>3, <1>4, <1>5, <1>6 DEF ViewsNext

\* DownloadIsComplete, for any number of readers beside any number of writers of
\* whom one at most moves folders: no untouched active file that lies below a
\* folder asked for, through untouched folders, is missing or has a wrong path,
\* however the tree changes around them between the queries of POST /download.
\* (Two movers can close a cycle, on which a walk comes back to its root.)
THEOREM DownloadHolds == SingleMover /\ ViewsSpec => []DownloadIsComplete
<1>1. ViewsInit => DownloadReads
  BY DEF ViewsInit, DownloadReads, DownloadGood, NoView
<1>2. Slots /\ Stores /\ Acyclic /\ DownloadReads /\ [ViewsNext]_viewVars => DownloadReads'
  BY StepKeepsDownload
<1>3. Slots /\ DownloadReads => DownloadIsComplete
  <2> SUFFICES ASSUME Slots, DownloadReads, NEW v \in View, Done(v, "download")
               PROVE  LET q == view[v]
                          roots == {r \in q.asked \cap steady[v] \cap Folders :
                                      Active(folder[r])}
                          within(r) == {x \in steady[v] \cap Files :
                                          /\ file[x].folder \in FolderId
                                          /\ r \in Chain(file[x].folder)
                                          /\ Unmoved(file[x].folder, steady[v])}
                          below == UNION {within(r) : r \in roots}
                          paths(x) == {(Chain(file[x].folder) \ Chain(r)) \cup {r} :
                                         r \in q.asked \cap FolderId}
                      IN /\ \A x \in steady[v] \cap q.files : HasFile(x) /\ Active(file[x])
                         /\ \A x \in steady[v] \cap Files \cap (below \cup q.asked) :
                              Active(file[x]) => x \in q.files
                         /\ \A x \in below \cap q.files : q.path[x] \in paths(x)
    BY DEF DownloadIsComplete
  <2> DEFINE q == view[v]
             st == steady[v]
             roots == {r \in q.asked \cap st \cap Folders : Active(folder[r])}
             within(r) == {x \in st \cap Files :
                             /\ file[x].folder \in FolderId
                             /\ r \in Chain(file[x].folder)
                             /\ Unmoved(file[x].folder, st)}
             below == UNION {within(r) : r \in roots}
  <2>1. DownloadGood(q, st)
    BY DEF DownloadReads, Slots
  <2>2. /\ q.pc = "done" /\ q.of = "download" /\ Gathered(q) /\ Unsearched(q) = {}
    BY DEF Done, Gathered, Unsearched
  <2>3. /\ FilesGood(q, st) /\ PathsGood(q, st)
        /\ \A x \in st \cap Files \cap q.asked : Active(file[x]) => x \in q.files
        /\ \A x \in st \cap q.files : HasFile(x) /\ Active(file[x])
    BY <2>1, <2>2 DEF DownloadGood
  <2>4. ASSUME NEW x \in below
        PROVE  /\ SteadyWay(x, st)
               /\ \E r : SteadyRoot(r, q, st) /\ r \in Chain(file[x].folder)
    BY <2>4 DEF SteadyWay, SteadyRoot
  <2> HIDE DEF q, st, below
  <2>5. ASSUME NEW x \in below, Active(file[x]) PROVE x \in q.files
    BY <2>2, <2>3, <2>4, <2>5 DEF FilesGood
  <2>6. ASSUME NEW x \in below, x \in q.files
        PROVE  q.path[x] \in {(Chain(file[x].folder) \ Chain(r)) \cup {r} :
                                r \in q.asked \cap FolderId}
    <3>1. SteadyWay(x, st) /\ Active(file[x])
      BY <2>3, <2>4, <2>6 DEF SteadyWay
    <3>2. PathGood(x, q)
      BY <2>3, <2>4, <2>6, <3>1 DEF PathsGood
    <3>3. Above(file[x].folder) \subseteq FolderId
      BY <3>1, ClimbIsClosed DEF SteadyWay, Above
    <3> QED BY <3>2, <3>3 DEF PathGood
  <2> QED BY <2>3, <2>5, <2>6 DEF q, st, below
<1>4. SingleMover /\ ViewsSpec => []Acyclic
  BY ReadsDisturbNothing, OneMoverKeepsDriveTree, PTL
<1>5. SingleMover /\ ViewsSpec => []DownloadReads
  BY <1>1, <1>2, <1>4, SlotsInvariance, PTL DEF ViewsSpec
<1> QED BY <1>3, <1>5, SlotsInvariance, PTL

=============================================================================

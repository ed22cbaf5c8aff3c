---------------------------- MODULE TrashRequests ----------------------------
(* Deleting, restoring and purging: FilesService.deleteFile,                  *)
(* FoldersService.deleteFolder, TrashService.restoreItem, the two recursions  *)
(* of FoldersHelpers and purgeExpiredTrash with its S3 calls.                 *)
(*                                                                            *)
(* One step per query.  A crash of the process drops whatever handlers are    *)
(* running; the collections and the bucket stay as they are.                  *)
EXTENDS FileStore, Sequences

CONSTANTS
  TrashRequest,  \* slots: how many delete or restore requests are in flight
  Purge,         \* slots: the cron job and the manual trigger may overlap
  Cron,          \* those of the cron job
  Restores,      \* BOOLEAN: do clients restore items?
  MaxTime,       \* bound on the clock
  Tree,          \* the folders at the start: FolderId -> document or NoDoc
  Place          \* the files at the start: FileId -> document or NoDoc

ASSUME CronIsPurge == Cron \subseteq Purge
ASSUME StartIsADrive ==
  /\ Tree \in [FolderId -> FolderDoc \cup {NoDoc}]
  /\ Place \in [FileId -> FileDoc \cup {NoDoc}]

\* It is one that no handler has been interrupted in: dates go with the trash,
\* every item lies in a folder that is there, a folder in the trash holds nothing
\* active, siblings have names of their own and parents form a tree.
StartFolders == {f \in FolderId : Tree[f] # NoDoc}
StartFiles == {x \in FileId : Place[x] # NoDoc}

ASSUME StartIsDated ==
  /\ \A f \in StartFolders : Tree[f].status = "trashed" <=> Tree[f].deletedAt # Null
  /\ \A x \in StartFiles : Place[x].status = "trashed" <=> Place[x].deletedAt # Null
ASSUME StartIsClosed ==
  /\ \A f \in StartFolders :
       \/ Tree[f].parent = Home
       \/ /\ Tree[f].parent \in StartFolders
          /\ Tree[Tree[f].parent].status = "trashed" => Tree[f].status = "trashed"
  /\ \A x \in StartFiles :
       \/ Place[x].folder = Home
       \/ /\ Place[x].folder \in StartFolders
          /\ Tree[Place[x].folder].status = "trashed" => Place[x].status = "trashed"
ASSUME StartIsATree ==
  /\ \A f, g \in StartFolders :
       Tree[f].parent = Tree[g].parent /\ Tree[f].name = Tree[g].name => f = g
  /\ \A S \in SUBSET StartFolders : S # {} => \E f \in S : Tree[f].parent \notin S

VARIABLES
  treq,          \* per slot, the handler's local variables
  purge,         \* per slot, those of purgeExpiredTrash
  failed         \* history: the keys DeleteObjects has reported an error for

trashVars == <<driveVars, treq, purge, failed>>

\* One activation of trashFolderRecursive or restoreFolderRecursive.
Frame ==
  [id   : FolderId,
   at   : Time,                        \* now, or null when restoring
   step : {"files", "subs", "each"},
   scan : SUBSET FileId,               \* the files updateMany has still to come to
   subs : SUBSET FolderId]             \* subs the loop has still to enter

TrashState ==
  [pc    : {"idle", "file", "folder"},
   to    : Status,                     \* the status being given
   file  : FileId \cup {NoDoc},        \* the loaded file document's id
   at    : Time,                       \* its new deletedAt
   stack : Seq(Frame)]                 \* the recursion, innermost activation first

PurgeState ==
  [pc   : {"idle", "objects", "files", "folders"},
   at   : Nat,                         \* Date.now() when the cutoff was computed
   keys : SUBSET Key]                  \* expiredFiles.map(f => f.key)

Quiescent == [pc |-> "idle", to |-> "active", file |-> NoDoc, at |-> Null, stack |-> <<>>]
NoPurge == [pc |-> "idle", at |-> 0, keys |-> {}]

DateFor(status) == IF status = "trashed" THEN now ELSE Null
Requested(status) == status = "trashed" \/ Restores

FilesIn(f) == {x \in Files : file[x].folder = f}

\* Its updateMany is under way at once, and scans the files that are there.
Activation(f, status) ==
  [id |-> f, at |-> DateFor(status), step |-> "files", scan |-> FilesIn(f), subs |-> {}]

Top(r) == Head(treq[r].stack)
Become(r, next) == treq' = [treq EXCEPT ![r] = next]
SetTop(r, frame) == Become(r, [treq[r] EXCEPT !.stack = <<frame>> \o Tail(@)])

-----------------------------------------------------------------------------
(* deleteFile and restoreItem of a file: findOne, then save() *)

\* findOne with the status it must have; any other document is a 404.
FindFile(r, x, status) ==
  /\ treq[r].pc = "idle"
  /\ Requested(status)
  /\ HasFile(x)
  /\ file[x].status = Opposite(status)
  /\ Become(r, [Quiescent EXCEPT !.pc = "file", !.to = status, !.file = x,
                                 !.at = DateFor(status)])
  /\ UNCHANGED <<driveVars, purge, failed>>

\* save() writes both fields by _id; DocumentNotFoundError (500) when it is gone.
SaveFile(r) ==
  LET x == treq[r].file
  IN /\ treq[r].pc = "file"
     /\ file' = IF HasFile(x)
                  THEN [file EXCEPT ![x] = Marked(@, treq[r].to, treq[r].at)]
                  ELSE file
     /\ Become(r, Quiescent)
     /\ UNCHANGED <<storeVars, object, now, purge, failed>>

-----------------------------------------------------------------------------
(* deleteFolder and restoreItem of a folder: the recursion *)

FindFolder(r, f, status) ==
  /\ treq[r].pc = "idle"
  /\ Requested(status)
  /\ Stored(f)
  /\ folder[f].status = Opposite(status)
  /\ Become(r, [Quiescent EXCEPT !.pc = "folder", !.to = status,
                                 !.stack = <<Activation(f, status)>>])
  /\ UNCHANGED <<driveVars, purge, failed>>

\* updateMany over the files of the folder, one document after the other, each
\* marked if it still matches.  A file that comes into the folder meanwhile may be
\* met as well, or be missed.
MarkFiles(r) ==
  LET top == Top(r)
      hit == {x \in FilesIn(top.id) : file[x].status = Opposite(treq[r].to)}
  IN /\ treq[r].pc = "folder"
     /\ top.step = "files"
     /\ \/ /\ top.scan = {}
           /\ SetTop(r, [top EXCEPT !.step = "subs"])
           /\ UNCHANGED file
        \/ \E x \in top.scan \cup hit :
             /\ file' = IF x \in hit
                          THEN [file EXCEPT ![x] = Marked(@, treq[r].to, top.at)]
                          ELSE file
             /\ SetTop(r, [top EXCEPT !.scan = @ \ {x}])
     /\ UNCHANGED <<storeVars, object, now, purge, failed>>

\* The subfolders that still have the other status.
FindSubs(r) ==
  LET top == Top(r)
  IN /\ treq[r].pc = "folder"
     /\ top.step = "subs"
     /\ SetTop(r, [top EXCEPT !.step = "each",
                     !.subs = {g \in ChildrenOf(top.id) :
                                 folder[g].status = Opposite(treq[r].to)}])
     /\ UNCHANGED <<driveVars, purge, failed>>

\* The loop enters the next subfolder; trashing reads the clock anew.
EnterSub(r) ==
  LET top == Top(r)
  IN /\ treq[r].pc = "folder"
     /\ top.step = "each"
     /\ \E g \in top.subs :
          Become(r, [treq[r] EXCEPT !.stack =
                       <<Activation(g, treq[r].to), [top EXCEPT !.subs = @ \ {g}]>> \o Tail(@)])
     /\ UNCHANGED <<driveVars, purge, failed>>

\* For a mutant: the outermost activation returns like the others.
MarkTopPopping(r) ==
  LET top == Top(r)
  IN /\ folder' = [folder EXCEPT ![top.id] = Marked(@, treq[r].to, top.at)]
     /\ Become(r, [treq[r] EXCEPT !.stack = Tail(@)])
     /\ UNCHANGED <<minted, fileVars, purge, failed>>

\* findOneAndUpdate by _id, whatever the status, and the activation returns.
MarkTop(r) ==
  LET top == Top(r)
  IN /\ folder' = IF Stored(top.id)
                    THEN [folder EXCEPT ![top.id] = Marked(@, treq[r].to, top.at)]
                    ELSE folder
     /\ Become(r, IF Len(treq[r].stack) = 1
                    THEN Quiescent
                    ELSE [treq[r] EXCEPT !.stack = Tail(@)])
     /\ UNCHANGED <<minted, fileVars, purge, failed>>

\* For a mutant: the loop over the subfolders is not waited for.
MarkFolderUnawaited(r) ==
  /\ treq[r].pc = "folder"
  /\ Top(r).step = "each"
  /\ MarkTop(r)

\* The loop is over: the folder itself comes last.
MarkFolder(r) ==
  /\ treq[r].pc = "folder"
  /\ Top(r).step = "each"
  /\ Top(r).subs = {}
  /\ MarkTop(r)

-----------------------------------------------------------------------------
(* purgeExpiredTrash *)

Advance(p, next) == purge' = [purge EXCEPT ![p] = next]
Finish(p) == Advance(p, NoPurge)

ExpiredFiles(at) == {x \in Files : Expired(file[x], at)}

\* For a mutant: folders are deleted as soon as they are in the trash.
TrashedFolders(at) == {f \in Folders : folder[f].status = "trashed"}

ExpiredFolders(at) == {f \in Folders : Expired(folder[f], at)}

\* The cutoff is computed once; the first query lists the files past it.
ListExpired(p) ==
  /\ purge[p].pc = "idle"
  /\ Advance(p, [pc |-> "objects", at |-> now,
                 keys |-> {file[x].key : x \in ExpiredFiles(now)}])
  /\ UNCHANGED <<driveVars, treq, failed>>

\* For a mutant: an outage of the bucket is caught and the purge goes on.
DeleteObjectsCatching(p) ==
  /\ purge[p].pc = "objects"
  /\ \E left \in SUBSET purge[p].keys : object' = object \ (purge[p].keys \ left)
  /\ Advance(p, [purge[p] EXCEPT !.pc = "files", !.keys = {}])
  /\ UNCHANGED <<storeVars, file, now, treq, failed>>

\* s3.deleteMany.  DeleteObjects answers 200 even when it failed for some keys
\* and lists them in a field nobody reads, so those objects stay.
DeleteObjects(p) ==
  /\ purge[p].pc = "objects"
  /\ \E errors \in SUBSET (purge[p].keys \cap object) :
       /\ object' = object \ (purge[p].keys \ errors)
       /\ failed' = failed \cup errors
  /\ Advance(p, [purge[p] EXCEPT !.pc = "files", !.keys = {}])
  /\ UNCHANGED <<storeVars, file, now, treq>>

\* For a mutant: delete the documents that were listed, whatever became of them.
DeleteFilesListed(p) ==
  /\ purge[p].pc = "files"
  /\ file' = [x \in FileId |-> IF HasFile(x) /\ file[x].key \notin object
                                 THEN NoDoc ELSE file[x]]
  /\ Advance(p, [purge[p] EXCEPT !.pc = "folders"])
  /\ UNCHANGED <<storeVars, object, now, treq, failed>>

\* For a mutant: the folders are forgotten.
DeleteFilesOnly(p) ==
  /\ purge[p].pc = "files"
  /\ file' = [x \in FileId |-> IF x \in ExpiredFiles(purge[p].at) THEN NoDoc ELSE file[x]]
  /\ Finish(p)
  /\ UNCHANGED <<storeVars, object, now, treq, failed>>

\* deleteMany asks for status and date again: a file restored since it was
\* listed keeps its document.  It too takes one document after the other.
DeleteFiles(p) ==
  LET hit == ExpiredFiles(purge[p].at)
  IN /\ purge[p].pc = "files"
     /\ \/ /\ hit = {}
           /\ Advance(p, [purge[p] EXCEPT !.pc = "folders"])
           /\ UNCHANGED file
        \/ /\ \E x \in hit : file' = [file EXCEPT ![x] = NoDoc]
           /\ UNCHANGED purge
     /\ UNCHANGED <<storeVars, object, now, treq, failed>>

DeleteFolders(p) ==
  LET hit == ExpiredFolders(purge[p].at)
  IN /\ purge[p].pc = "folders"
     /\ \/ /\ hit = {}
           /\ Finish(p)
           /\ UNCHANGED folder
        \/ /\ \E f \in hit : folder' = [folder EXCEPT ![f] = NoDoc]
           /\ UNCHANGED purge
     /\ UNCHANGED <<minted, fileVars, treq, failed>>

\* The bucket or the database fails and runPurge only logs it.  deleteMany of the
\* bucket works in batches: those before the failing one are gone.
AbortPurge(p) ==
  /\ purge[p].pc # "idle"
  /\ \E done \in SUBSET purge[p].keys : object' = object \ done
  /\ Finish(p)
  /\ UNCHANGED <<storeVars, file, now, treq, failed>>

-----------------------------------------------------------------------------
\* The process dies and starts again; nothing resumes the handlers.
CrashHandlers ==
  /\ treq' = [r \in TrashRequest |-> Quiescent]
  /\ purge' = [p \in Purge |-> NoPurge]

Crash ==
  /\ \/ \E r \in TrashRequest : treq[r].pc # "idle"
     \/ \E p \in Purge : purge[p].pc # "idle"
  /\ CrashHandlers
  /\ UNCHANGED <<driveVars, failed>>

\* The dates a running handler has read and not yet written.
PendingDates(r) ==
  ({treq[r].at} \cup {treq[r].stack[i].at : i \in DOMAIN treq[r].stack}) \ {Null}

\* The clock.  A handler lasts less than the retention period (a day at least):
\* by the time it writes a date, the date is not past its retention.
Tick ==
  /\ now < MaxTime
  /\ \A r \in TrashRequest : \A t \in PendingDates(r) : now + 1 < t + Retention
  /\ now' = now + 1
  /\ UNCHANGED <<storeVars, file, object, treq, purge, failed>>

TrashInit ==
  /\ folder = Tree
  /\ minted = Folders
  /\ file = Place
  /\ object = {file[x].key : x \in Files}
  /\ now = 0
  /\ treq = [r \in TrashRequest |-> Quiescent]
  /\ purge = [p \in Purge |-> NoPurge]
  /\ failed = {}

TrashRequestNext(r) ==
  \/ \E x \in FileId, status \in Status : FindFile(r, x, status)
  \/ SaveFile(r)
  \/ \E f \in FolderId, status \in Status : FindFolder(r, f, status)
  \/ MarkFiles(r) \/ FindSubs(r) \/ EnterSub(r) \/ MarkFolder(r)

PurgeNext(p) ==
  ListExpired(p) \/ DeleteObjects(p) \/ DeleteFiles(p) \/ DeleteFolders(p) \/ AbortPurge(p)

TrashNext ==
  \/ \E r \in TrashRequest : TrashRequestNext(r)
  \/ \E p \in Purge : PurgeNext(p)
  \/ Crash
  \/ Tick

TrashSpec == TrashInit /\ [][TrashNext]_trashVars

\* The cron job fires every day, and among all its runs there are always some
\* that neither a crash nor an outage cuts short.  Nobody promises to use the
\* manual trigger.
PurgeFairness ==
  \A p \in Cron :
    /\ SF_trashVars(ListExpired(p))
    /\ SF_trashVars(DeleteObjects(p))
    /\ SF_trashVars(DeleteFiles(p))
    /\ SF_trashVars(DeleteFolders(p))

TrashFairSpec == TrashSpec /\ PurgeFairness

-----------------------------------------------------------------------------
TrashTypeOK ==
  /\ FolderStoreTypeOK
  /\ FileStoreTypeOK
  /\ treq \in [TrashRequest -> TrashState]
  /\ purge \in [Purge -> PurgeState]
  /\ failed \subseteq Key
  /\ \A r \in TrashRequest : treq[r].pc = "folder" => treq[r].stack # <<>>

\* Every object belongs to a file document, whatever fails on the way: the only
\* objects a purge forgets are those whose keys DeleteObjects reported as failed.
NoOrphanObject == object \subseteq {file[x].key : x \in Files} \cup failed

\* Nothing leaves a collection before it has been in the trash for the retention
\* period, counted at the moment it is removed: an item restored while a purge
\* is under way is spared (docs/frontend-handoff, part 4, stage 2).
PurgeSparesTheRest ==
  [][/\ \A x \in Files \ Files' : Expired(file[x], now)
     /\ \A f \in Folders \ Folders' : Expired(folder[f], now)]_trashVars

\* What is past its retention is purged, unless it is restored first.
EventuallyPurged ==
  /\ \A x \in FileId :
       (HasFile(x) /\ Expired(file[x], now)) ~> ~(HasFile(x) /\ Expired(file[x], now))
  /\ \A f \in FolderId :
       (Stored(f) /\ Expired(folder[f], now)) ~> ~(Stored(f) /\ Expired(folder[f], now))

=============================================================================

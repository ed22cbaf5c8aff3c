-------------------------------- MODULE Drive --------------------------------
(* The whole drive: creates, renames and moves of folders (FolderRequests),   *)
(* uploads and moves of files (FileRequests), deletes, restores and purges    *)
(* (TrashRequests) run beside each other on the same collections and bucket.  *)
EXTENDS FolderRequests, FileRequests, TrashRequests

CONSTANT MaxBusy   \* bound: how many handlers of all kinds run at once

\* No folder has the _id of a file.
ASSUME IdsAreDistinct == FolderId \cap FileId = {}

\* History: the items last placed in a folder that was not safely there: it was
\* gone or in the trash, or a delete was under way.
VARIABLE late

trashSideVars == <<treq, purge, failed>>
driveSpecVars == <<trashVars, req, fileRequestVars, late>>

Unsafe(loc) ==
  /\ loc # Home
  /\ \/ ~Stored(loc)
     \/ folder[loc].status = "trashed"
     \/ \E r \in TrashRequest : treq[r].pc = "folder"

\* What a step has placed: created there, or moved there.
PlacedFolders ==
  {f \in Folders' : Stored(f) => folder[f].parent # folder'[f].parent}
PlacedFiles ==
  {x \in Files' : HasFile(x) => file[x].folder # file'[x].folder}

NotePlaces ==
  late' = ((late \cap (Folders' \cup Files')) \ (PlacedFolders \cup PlacedFiles))
            \cup {f \in PlacedFolders : Unsafe(folder'[f].parent)}
            \cup {x \in PlacedFiles : Unsafe(file'[x].folder)}

-----------------------------------------------------------------------------
FolderSide == FolderNext /\ UNCHANGED <<fileVars, trashSideVars, fileRequestVars>>

FileSide == FileRequestNext /\ UNCHANGED <<req, trashSideVars>>

TrashSide ==
  /\ \/ \E r \in TrashRequest : TrashRequestNext(r)
     \/ \E p \in Purge : PurgeNext(p)
  /\ UNCHANGED <<req, fileRequestVars>>

Busy ==
  Cardinality({r \in Request : req[r].pc # "idle"})
    + Cardinality({r \in FileRequest : freq[r].pc # "idle"})
    + Cardinality({r \in TrashRequest : treq[r].pc # "idle"})
    + Cardinality({p \in Purge : purge[p].pc # "idle"})

\* By the time trash has aged, upload URLs are dead.
DriveTick == Tick /\ Lapse /\ UNCHANGED <<req, freq, filed, accepted, disputed>>

\* A crash drops the handlers of all kinds.
DriveCrash ==
  /\ Busy # 0
  /\ req' = [r \in Request |-> Idle]
  /\ freq' = [r \in FileRequest |-> Resting]
  /\ CrashHandlers
  /\ UNCHANGED <<driveVars, uploadVars, failed>>

DriveInit ==
  /\ TrashInit
  /\ req = [r \in Request |-> Idle]
  /\ FileRequestInit
  /\ late = {}

DriveNext ==
  /\ FolderSide \/ FileSide \/ TrashSide \/ DriveTick \/ DriveCrash
  /\ NotePlaces
  /\ Busy' <= MaxBusy

DriveSpec == DriveInit /\ [][DriveNext]_driveSpecVars

-----------------------------------------------------------------------------
DriveTypeOK ==
  /\ TrashTypeOK
  /\ req \in [Request -> ReqState]
  /\ FileRequestTypeOK
  /\ late \subseteq FolderId \cup FileId

\* An object that has ever been a file's is known to a document or was reported
\* by DeleteObjects as failed: uploads, repeated confirms, moves and crashes
\* beside a purge lose none.  (An upload that is never confirmed is no file's.)
NoForgottenObject == object \cap accepted \subseteq {file[x].key : x \in Files} \cup failed

\* Is r about to give the file x of folder loc this status and date: as the file
\* it has loaded, or as one of the folder its recursion is in?
Marks(r, x, loc, status, at) ==
  /\ treq[r].to = status
  /\ \/ treq[r].pc = "file" /\ treq[r].file = x /\ treq[r].at = at
     \/ treq[r].pc = "folder" /\ Top(r).id = loc /\ Top(r).at = at

\* What a request does not ask for it does not write: a file changes its folder
\* only by a PATCH of that file to that very folder, and its status or date only
\* by a delete or restore of that file, or of the folder it is in, with the date
\* this very request has read; so a move that loaded the file before a delete
\* does not undo it, nor the reverse, however their loads and saves interleave.
FileUpdatesAreKept ==
  [][\A x \in Files \cap Files' :
       /\ file'[x].folder # file[x].folder =>
            \E r \in FileRequest : freq[r].file = x /\ freq[r].dest = file'[x].folder
       /\ \/ file'[x].status # file[x].status
          \/ file'[x].deletedAt # file[x].deletedAt
          => \E r \in TrashRequest :
               Marks(r, x, file[x].folder, file'[x].status, file'[x].deletedAt)
       /\ file'[x].key = file[x].key]_driveSpecVars

\* An active item lies in a folder that is gone only if it was put there when
\* the folder was already in the trash or gone, or beside a running delete:
\* whatever was in a folder before its delete began goes with it (createFolder,
\* updateFolder, confirmUpload and updateFile accept such a place).
OrphansCameLate ==
  /\ \A f \in Folders \ late :
       folder[f].status = "active" => folder[f].parent \in Folders \cup {Home}
  /\ \A x \in Files \ late :
       file[x].status = "active" => file[x].folder \in Folders \cup {Home}

=============================================================================

------------------------------ MODULE DriveProofs ------------------------------
(* What the whole drive guarantees when folder requests, uploads and moves of *)
(* files, deletes, restores, purges, crashes and the clock interleave: the    *)
(* guarantees of the parts carry over, and those that need several parts hold *)
(* for every number of folders, files, keys and requests.                     *)
EXTENDS Drive, FolderProofs, TrashProofs

-----------------------------------------------------------------------------
(* The folder requests beside the rest *)

\* What the rest does to the folders: some leave, none moves or changes its name,
\* and the folder requests go on or, in a crash, are gone.
OnlyShrinks ==
  /\ Folders' \subseteq Folders
  /\ \A f \in Folders' : /\ folder'[f].parent = folder[f].parent
                         /\ folder'[f].name = folder[f].name
  /\ minted' = minted
  /\ req' = req \/ req' = [r \in Request |-> Idle]

\* A slot without a request is typed and holds nothing.
LEMMA IdleIsNothing ==
  /\ Idle \in ReqState
  /\ ~CreatingRec(Idle) /\ ~UpdatingRec(Idle)
  /\ Idle.pc \notin {"load", "walk", "duplicate", "save"}
  BY DEF Idle, ReqState, Location, Destination, CreatingRec, UpdatingRec

\* What the folder requests rely on survives folders that leave.
LEMMA ShrinkKeepsInv ==
  ASSUME Inv, OnlyShrinks, FolderStoreTypeOK'
  PROVE  Inv'
<1>0. /\ FolderTypeOK /\ UniqueSiblings /\ Requests /\ WalkIsOver /\ ParentsKnown
      /\ minted' = minted
  BY DEF Inv, OnlyShrinks
<1>1. UniqueSiblings' /\ ParentsKnown'
  BY <1>0 DEF OnlyShrinks, UniqueSiblings, ParentsKnown, Known
<1>2. CASE req' = req
  <2>1. FolderTypeOK' /\ Requests' /\ WalkIsOver'
    BY <1>0, <1>2 DEF FolderTypeOK, Requests, CreatesAreFresh, UpdatesAreKnown, Creating,
         Updating, Known, WalkIsOver
  <2> QED BY <1>1, <2>1 DEF Inv
<1>3. CASE req' = [r \in Request |-> Idle]
  <2>1. \A r \in Request : req'[r] = Idle
    BY <1>3
  <2>2. FolderTypeOK'
    BY <1>3, IdleIsNothing DEF FolderTypeOK
  <2>3. Requests' /\ WalkIsOver'
    BY <2>1, IdleIsNothing DEF Requests, CreatesAreFresh, UpdatesAreKnown, Creating, Updating,
         CreatingRec, UpdatingRec, WalkIsOver
  <2> QED BY <1>1, <2>2, <2>3 DEF Inv
<1> QED BY <1>2, <1>3 DEF OnlyShrinks

\* Folders that leave close no cycle and hide nothing from a walk.
LEMMA ShrinkKeepsMoves ==
  ASSUME InvMoves, OnlyShrinks
  PROVE  InvMoves'
<1>1. Acyclic'
  <2> SUFFICES ASSUME NEW S \in SUBSET Folders', S # {}, \A f \in S : folder'[f].parent \in S
               PROVE  FALSE
    BY DEF Acyclic
  <2>1. S \in SUBSET Folders /\ \A f \in S : folder[f].parent \in S
    BY DEF OnlyShrinks
  <2> QED BY <2>1 DEF InvMoves, Acyclic
<1>2. MovesAreSound'
  <2>1. CASE req' = req
    <3> SUFFICES ASSUME NEW s \in Request, Moving(s)'
                 PROVE  \E D \in SUBSET FolderId : Shadow(s, D)'
      BY DEF MovesAreSound
    <3>1. PICK D \in SUBSET FolderId : Shadow(s, D)
      BY <2>1 DEF InvMoves, MovesAreSound, Moving
    <3>2. Shadow(s, D)'
      BY <2>1, <3>1 DEF Shadow, OnlyShrinks
    <3> QED BY <3>2
  <2>2. CASE req' = [r \in Request |-> Idle]
    BY <2>2, IdleIsNothing DEF MovesAreSound, Moving
  <2> QED BY <2>1, <2>2 DEF OnlyShrinks
<1> QED BY <1>1, <1>2 DEF InvMoves

-----------------------------------------------------------------------------
(* The file requests *)

FreqInOrder(q) ==
  /\ q.pc \in {"create", "discard"} => q.key \in Key /\ offer[q.key] # "fresh"
  /\ q.pc \in {"target", "save"} => q.file \in FileId

\* Keys are handed out before they are confirmed, and confirmed before a file
\* has them.
FilesInOrder ==
  /\ \A r \in FileRequest : FreqInOrder(freq[r])
  /\ \A k \in accepted : offer[k] # "fresh"
  /\ \A x \in Files : file[x].key \in accepted

FileCreated(r, x) ==
  /\ freq[r].pc = "create" /\ x \notin filed
  /\ file' = [file EXCEPT ![x] = [folder |-> freq[r].dest, key |-> freq[r].key,
                                  status |-> "active", deletedAt |-> Null]]
  /\ filed' = filed \cup {x} /\ accepted' = accepted \cup {freq[r].key}
  /\ Reply(r)
  /\ UNCHANGED <<storeVars, object, now, offer, disputed>>

FileMoved(r, x) ==
  /\ freq[r].pc = "save" /\ x = freq[r].file /\ x \in Files
  /\ file' = [file EXCEPT ![x].folder = freq[r].dest]
  /\ Reply(r)
  /\ UNCHANGED <<storeVars, object, now, uploadVars>>

\* A file request creates a document, moves one, or leaves the documents alone.
LEMMA FileKinds ==
  ASSUME FileRequestNext, FilesInOrder
  PROVE  \/ UNCHANGED <<storeVars, file, now, filed, accepted>>
         \/ \E r \in FileRequest, x \in FileId : FileCreated(r, x)
         \/ \E r \in FileRequest, x \in FileId : FileMoved(r, x)
<1>1. ASSUME NEW r \in FileRequest, CreateFile(r)
      PROVE  \E x \in FileId : FileCreated(r, x)
  BY <1>1 DEF CreateFile, FileCreated
<1>2. ASSUME NEW r \in FileRequest, SaveMove(r)
      PROVE  \/ UNCHANGED <<storeVars, file, now, filed, accepted>>
             \/ \E x \in FileId : FileMoved(r, x)
  <2>1. freq[r].pc = "save" /\ freq[r].file \in FileId
    BY <1>2 DEF SaveMove, FilesInOrder, FreqInOrder
  <2> QED BY <1>2, <2>1 DEF SaveMove, FileMoved, Files, uploadVars
<1> QED
  BY <1>1, <1>2 DEF FileRequestNext, PresignUpload, Put, HeadObject, DeleteOne, LoadFile,
     CheckFolder, driveVars, fileVars, fileRequestVars, uploadVars

\* What CreateFile does to the collection.
LEMMA FileCreatedEffect ==
  ASSUME FileStoreTypeOK, FileRequestTypeOK, FilesInOrder,
         NEW r \in FileRequest, NEW x \in FileId, FileCreated(r, x)
  PROVE  /\ FileStoreTypeOK' /\ Files' = Files \cup {x} /\ x \notin Files
         /\ \A y \in Files : file'[y] = file[y]
         /\ file'[x].folder = freq[r].dest /\ file'[x].key = freq[r].key
         /\ file'[x].status = "active" /\ file'[x].deletedAt = Null
         /\ freq[r].key \in Key /\ offer[freq[r].key] # "fresh"
<1> DEFINE d == [folder |-> freq[r].dest, key |-> freq[r].key,
                 status |-> "active", deletedAt |-> Null]
<1>1. freq[r].key \in Key /\ offer[freq[r].key] # "fresh"
  BY DEF FileCreated, FilesInOrder, FreqInOrder
<1>2. freq[r].dest \in Location
  BY DEF FileRequestTypeOK, FileReqState
<1>3. /\ d \in FileDoc /\ d.folder = freq[r].dest /\ d.key = freq[r].key
      /\ d.status = "active" /\ d.deletedAt = Null
  BY <1>1, <1>2 DEF FileDoc, Status, Time
<1>4. file' = [file EXCEPT ![x] = d] /\ x \notin filed /\ UNCHANGED <<object, now>>
  BY DEF FileCreated
<1> HIDE DEF d
<1>5. x \notin Files
  BY <1>4 DEF FileRequestTypeOK
<1>6. Files' = Files \cup {x}
  BY <1>3, <1>4, NoDocIsNoFile DEF FileStoreTypeOK, Files, HasFile
<1> QED BY <1>1, <1>3, <1>4, <1>5, <1>6 DEF FileStoreTypeOK, Files

\* What a SaveMove that writes does to the collection.
LEMMA FileMovedEffect ==
  ASSUME FileStoreTypeOK, FileRequestTypeOK,
         NEW r \in FileRequest, NEW x \in FileId, FileMoved(r, x)
  PROVE  /\ FileStoreTypeOK' /\ Files' = Files /\ x \in Files
         /\ \A y \in Files \ {x} : file'[y] = file[y]
         /\ file'[x].folder = freq[r].dest /\ file'[x].key = file[x].key
         /\ file'[x].status = file[x].status /\ file'[x].deletedAt = file[x].deletedAt
<1>1. freq[r].dest \in Location
  BY DEF FileRequestTypeOK, FileReqState
<1>2. x \in Files /\ file[x] \in FileDoc
  BY DEF FileMoved, FileStoreTypeOK, Files, HasFile
<1>3. PICK d : d = [file[x] EXCEPT !.folder = freq[r].dest]
  OBVIOUS
<1>4. /\ d \in FileDoc /\ d.folder = freq[r].dest /\ d.key = file[x].key
      /\ d.status = file[x].status /\ d.deletedAt = file[x].deletedAt
  BY <1>1, <1>2, <1>3 DEF FileDoc
<1>5. file' = [file EXCEPT ![x] = d] /\ UNCHANGED <<object, now>>
  BY <1>3 DEF FileMoved
<1>6. Files' = Files
  BY <1>2, <1>4, <1>5, NoDocIsNoFile DEF FileStoreTypeOK, Files, HasFile
<1> QED BY <1>2, <1>4, <1>5, <1>6 DEF FileStoreTypeOK, Files

\* What file requests leave in the files, whatever they do.
LEMMA FileSideEffect ==
  ASSUME FileStoreTypeOK, FileRequestTypeOK, FilesInOrder, FileRequestNext
  PROVE  /\ UNCHANGED <<folder, minted, now>>
         /\ file' \in [FileId -> FileDoc \cup {NoDoc}]
         /\ Files \subseteq Files'
         /\ \A x \in Files : /\ file'[x].key = file[x].key
                             /\ file'[x].status = file[x].status
                             /\ file'[x].deletedAt = file[x].deletedAt
         /\ \A x \in Files' \ Files : file'[x].status = "active" /\ file'[x].deletedAt = Null
         /\ Files' \subseteq filed' /\ filed' \subseteq FileId
         /\ \A x \in Files' : file'[x].key \in accepted'
         /\ accepted \subseteq accepted' /\ accepted' \subseteq Key
         /\ \A k \in accepted' : offer[k] # "fresh"
<1>0. /\ Files \subseteq filed /\ filed \subseteq FileId /\ accepted \subseteq Key
      /\ file \in [FileId -> FileDoc \cup {NoDoc}]
      /\ \A x \in Files : file[x].key \in accepted
      /\ \A k \in accepted : offer[k] # "fresh"
  BY DEF FileRequestTypeOK, FilesInOrder, FileStoreTypeOK
<1>1. CASE UNCHANGED <<storeVars, file, now, filed, accepted>>
  BY <1>0, <1>1 DEF storeVars, Files, HasFile
<1>2. ASSUME NEW r \in FileRequest, NEW x \in FileId, FileCreated(r, x)
      PROVE  /\ UNCHANGED <<folder, minted, now>>
             /\ file' \in [FileId -> FileDoc \cup {NoDoc}]
             /\ Files \subseteq Files'
             /\ \A y \in Files : file'[y] = file[y]
             /\ \A y \in Files' \ Files : file'[y].status = "active" /\ file'[y].deletedAt = Null
             /\ Files' \subseteq filed' /\ filed' \subseteq FileId
             /\ \A y \in Files' : file'[y].key \in accepted'
             /\ accepted \subseteq accepted' /\ accepted' \subseteq Key
             /\ \A k \in accepted' : offer[k] # "fresh"
  <2>1. /\ FileStoreTypeOK' /\ Files' = Files \cup {x} /\ x \notin Files
        /\ \A y \in Files : file'[y] = file[y]
        /\ file'[x].key = freq[r].key
        /\ file'[x].status = "active" /\ file'[x].deletedAt = Null
        /\ freq[r].key \in Key /\ offer[freq[r].key] # "fresh"
    BY <1>2, FileCreatedEffect
  <2>2. /\ filed' = filed \cup {x} /\ accepted' = accepted \cup {freq[r].key}
        /\ UNCHANGED <<folder, minted, now>>
    BY <1>2 DEF FileCreated, storeVars
  <2> QED BY <1>0, <2>1, <2>2 DEF FileStoreTypeOK
<1>3. ASSUME NEW r \in FileRequest, NEW x \in FileId, FileMoved(r, x)
      PROVE  /\ UNCHANGED <<folder, minted, now, filed, accepted>>
             /\ file' \in [FileId -> FileDoc \cup {NoDoc}]
             /\ Files' = Files
             /\ \A y \in Files : /\ file'[y].key = file[y].key
                                 /\ file'[y].status = file[y].status
                                 /\ file'[y].deletedAt = file[y].deletedAt
  <2>1. /\ FileStoreTypeOK' /\ Files' = Files /\ x \in Files
        /\ \A y \in Files \ {x} : file'[y] = file[y]
        /\ file'[x].key = file[x].key
        /\ file'[x].status = file[x].status /\ file'[x].deletedAt = file[x].deletedAt
    BY <1>3, FileMovedEffect
  <2> QED BY <1>3, <2>1 DEF FileMoved, storeVars, uploadVars, FileStoreTypeOK
<1> QED
  BY <1>0, <1>1, <1>2, <1>3, FileKinds

\* Keys once handed out are never fresh again.
OffersGoOn ==
  /\ offer' \in [Key -> Offer]
  /\ \A k \in Key : offer[k] # "fresh" => offer'[k] # "fresh"

SlotsInOrder ==
  freq \in [FileRequest -> FileReqState] /\ \A r \in FileRequest : FreqInOrder(freq[r])

\* A slot without a file request is typed and in order.
LEMMA RestingInOrder == Resting \in FileReqState /\ FreqInOrder(Resting)
  BY DEF Resting, FileReqState, FreqInOrder, Location

\* A file request goes on as q.
LEMMA ResumeKeeps ==
  ASSUME SlotsInOrder, OffersGoOn, NEW r \in FileRequest, NEW q \in FileReqState,
         FreqInOrder(q), Resume(r, q)
  PROVE  SlotsInOrder'
<1>1. freq' \in [FileRequest -> FileReqState] /\ \A s \in FileRequest : FreqInOrder(freq'[s])
  BY DEF SlotsInOrder, Resume
<1>2. \A s \in FileRequest : FreqInOrder(freq'[s]) => FreqInOrder(freq[s])'
  BY DEF FreqInOrder, OffersGoOn
<1> QED BY <1>1, <1>2 DEF SlotsInOrder

\* No file request goes on.
LEMMA SlotsStay ==
  ASSUME SlotsInOrder, OffersGoOn, freq' = freq
  PROVE  SlotsInOrder'
  BY DEF SlotsInOrder, FreqInOrder, OffersGoOn

\* File requests keep their variables typed and in order.
LEMMA FileSideKeepsOrder ==
  ASSUME FileStoreTypeOK, FileRequestTypeOK, FilesInOrder, FileRequestNext
  PROVE  FileStoreTypeOK' /\ FileRequestTypeOK' /\ FilesInOrder'
<1>0. /\ freq \in [FileRequest -> FileReqState] /\ offer \in [Key -> Offer]
      /\ object \subseteq Key /\ now \in Nat
      /\ disputed \subseteq accepted \cup {k \in Key : offer[k] # "fresh"}
      /\ SlotsInOrder
  BY DEF FileStoreTypeOK, FileRequestTypeOK, FilesInOrder, SlotsInOrder
<1>1. ASSUME offer' = offer PROVE OffersGoOn
  BY <1>0, <1>1 DEF OffersGoOn
<1> DEFINE
      Fine == /\ OffersGoOn /\ SlotsInOrder' /\ object' \subseteq Key
              /\ disputed' \subseteq disputed \cup {k \in Key : offer[k] # "fresh"}
<1>2. ASSUME NEW k \in Key, PresignUpload(k) PROVE Fine
  <2>1. OffersGoOn
    BY <1>0, <1>2 DEF PresignUpload, OffersGoOn, Offer
  <2> QED BY <1>0, <1>2, <2>1, SlotsStay DEF PresignUpload, driveVars, fileVars
<1>3. ASSUME NEW k \in Key, Put(k) PROVE Fine
  BY <1>0, <1>1, <1>3, SlotsStay DEF Put, fileRequestVars, uploadVars
<1>4. ASSUME NEW r \in FileRequest, NEW k \in Key, NEW loc \in Location, NEW match \in BOOLEAN,
             HeadObject(r, k, loc, match)
      PROVE  Fine
  <2> DEFINE q == IF match
                    THEN [Resting EXCEPT !.pc = "create", !.key = k, !.dest = loc]
                    ELSE [Resting EXCEPT !.pc = "discard", !.key = k]
  <2>1. q \in FileReqState /\ q.key = k /\ q.pc \in {"create", "discard"}
    BY DEF Resting, FileReqState, Location
  <2>2. Resume(r, q) /\ offer' = offer /\ object' = object /\ offer[k] # "fresh"
        /\ disputed' \subseteq disputed \cup {k}
    BY <1>4 DEF HeadObject, driveVars, fileVars
  <2> HIDE DEF q
  <2>3. FreqInOrder(q)
    BY <2>1, <2>2 DEF FreqInOrder
  <2> QED BY <1>0, <1>1, <2>1, <2>2, <2>3, ResumeKeeps
<1>5. ASSUME NEW r \in FileRequest, DeleteOne(r) PROVE Fine
  BY <1>0, <1>1, <1>5, RestingInOrder, ResumeKeeps DEF DeleteOne, Reply, uploadVars
<1>6. ASSUME NEW r \in FileRequest, CreateFile(r) PROVE Fine
  BY <1>0, <1>1, <1>6, RestingInOrder, ResumeKeeps DEF CreateFile, Reply
<1>7. ASSUME NEW r \in FileRequest, NEW x \in FileId, NEW dest \in Location, LoadFile(r, x, dest)
      PROVE  Fine
  <2> DEFINE q == [Resting EXCEPT !.pc = IF dest = Home THEN "save" ELSE "target",
                                  !.file = x, !.dest = dest, !.set = dest # file[x].folder]
  <2>1. q \in FileReqState /\ q.file = x /\ q.pc \in {"target", "save"}
    BY DEF Resting, FileReqState
  <2>2. Resume(r, q) /\ offer' = offer /\ object' = object /\ disputed' = disputed
    BY <1>7 DEF LoadFile, driveVars, fileVars, uploadVars
  <2> HIDE DEF q
  <2>3. FreqInOrder(q)
    BY <2>1 DEF FreqInOrder
  <2> QED BY <1>0, <1>1, <2>1, <2>2, <2>3, ResumeKeeps
<1>8. ASSUME NEW r \in FileRequest, CheckFolder(r) PROVE Fine
  <2> DEFINE q == [freq[r] EXCEPT !.pc = "save"]
  <2>1. offer' = offer /\ object' = object /\ disputed' = disputed /\ freq[r].pc = "target"
        /\ (Resume(r, q) \/ Reply(r))
    BY <1>8 DEF CheckFolder, driveVars, fileVars, uploadVars
  <2>2. q \in FileReqState /\ q.file = freq[r].file /\ q.pc = "save"
    BY <1>0 DEF FileReqState
  <2> HIDE DEF q
  <2>3. FreqInOrder(q)
    BY <1>0, <2>1, <2>2 DEF FreqInOrder, SlotsInOrder
  <2> QED BY <1>0, <1>1, <2>1, <2>2, <2>3, RestingInOrder, ResumeKeeps DEF Reply
<1>9. ASSUME NEW r \in FileRequest, SaveMove(r) PROVE Fine
  BY <1>0, <1>1, <1>9, RestingInOrder, ResumeKeeps DEF SaveMove, Reply, uploadVars
<1>10. Fine
  BY <1>2, <1>3, <1>4, <1>5, <1>6, <1>7, <1>8, <1>9 DEF FileRequestNext
<1>11. /\ UNCHANGED <<folder, minted, now>>
       /\ file' \in [FileId -> FileDoc \cup {NoDoc}]
       /\ Files' \subseteq filed' /\ filed' \subseteq FileId
       /\ \A x \in Files' : file'[x].key \in accepted'
       /\ accepted \subseteq accepted' /\ accepted' \subseteq Key
       /\ \A k \in accepted' : offer[k] # "fresh"
  BY FileSideEffect
<1>12. FileStoreTypeOK'
  BY <1>0, <1>10, <1>11 DEF FileStoreTypeOK
<1>13. disputed' \subseteq accepted' \cup {k \in Key : offer'[k] # "fresh"}
  BY <1>0, <1>10, <1>11 DEF OffersGoOn
<1>14. FileRequestTypeOK'
  BY <1>10, <1>11, <1>13 DEF FileRequestTypeOK, SlotsInOrder, OffersGoOn
<1>15. FilesInOrder'
  BY <1>10, <1>11 DEF FilesInOrder, SlotsInOrder, OffersGoOn
<1> QED BY <1>12, <1>14, <1>15

\* What the rest does to the files: some leave, none changes its key, and the file
\* requests go on or, in a crash, are gone.
FilesShrink ==
  /\ Files' \subseteq Files
  /\ \A x \in Files' : file'[x].key = file[x].key
  /\ freq' = freq \/ freq' = [r \in FileRequest |-> Resting]
  /\ UNCHANGED <<filed, accepted, disputed>>

\* What the file requests rely on survives files that leave.
LEMMA ShrinkKeepsFiles ==
  ASSUME FileRequestTypeOK, FilesInOrder, FilesShrink, OffersGoOn
  PROVE  FileRequestTypeOK' /\ FilesInOrder'
<1>0. SlotsInOrder /\ accepted \subseteq Key
  BY DEF FileRequestTypeOK, FilesInOrder, SlotsInOrder
<1>1. SlotsInOrder'
  <2>1. CASE freq' = freq
    BY <1>0, <2>1, SlotsStay
  <2>2. CASE freq' = [r \in FileRequest |-> Resting]
    <3>1. \A r \in FileRequest : freq'[r] = Resting
      BY <2>2
    <3>2. FreqInOrder(Resting)'
      BY DEF FreqInOrder, Resting
    <3> QED BY <2>2, <3>1, <3>2, RestingInOrder DEF SlotsInOrder
  <2> QED BY <2>1, <2>2 DEF FilesShrink
<1> QED
  BY <1>0, <1>1 DEF FileRequestTypeOK, FilesInOrder, SlotsInOrder, FilesShrink, OffersGoOn

-----------------------------------------------------------------------------
(* All of it together *)

DriveInv ==
  /\ Inv /\ TrashInv
  /\ FileRequestTypeOK /\ FilesInOrder
  /\ late \subseteq FolderId \cup FileId

\* The type invariant the runs check is part of it.
LEMMA DriveInvTypes == DriveInv => DriveTypeOK
  BY TrashInvTypes DEF DriveInv, DriveTypeOK, Inv, FolderTypeOK

\* Folder requests change places and names, never a status or a date.
LEMMA FolderSideEffect ==
  ASSUME Inv, FolderNext
  PROVE  /\ Folders \subseteq Folders'
         /\ \A f \in Folders : /\ folder'[f].status = folder[f].status
                               /\ folder'[f].deletedAt = folder[f].deletedAt
         /\ \A f \in Folders' \ Folders :
              folder'[f].status = "active" /\ folder'[f].deletedAt = Null
<1>0. /\ FolderTypeOK /\ Requests /\ [FolderNext]_folderVars
      /\ folder \in [FolderId -> FolderDoc \cup {NoDoc}] /\ Folders \subseteq minted
  BY DEF Inv, FolderTypeOK, FolderStoreTypeOK
<1>1. CASE Quiet
  BY <1>1 DEF Quiet, storeVars, Folders, Stored
<1>2. ASSUME NEW r \in Request, InsertDoc(r)
      PROVE  /\ Folders \subseteq Folders'
             /\ \A f \in Folders : folder'[f] = folder[f]
             /\ \A f \in Folders' \ Folders :
                  folder'[f].status = "active" /\ folder'[f].deletedAt = Null
  <2>1. /\ req[r].id \in FolderId /\ req[r].id \notin Folders
        /\ Folders' \subseteq Folders \cup {req[r].id}
        /\ \A f \in Folders : folder'[f] = folder[f]
    BY <1>0, <1>2, InsertEffect
  <2>2. Folders \subseteq Folders'
    BY <2>1 DEF Folders, Stored
  <2>3. folder'[req[r].id] = NewFolder(req[r].dest, req[r].name)
    BY <1>0, <1>2, <2>1 DEF InsertDoc
  <2> QED BY <2>1, <2>2, <2>3 DEF NewFolder
<1>3. ASSUME NEW r \in Request, NEW loc, NEW n, SaveDoc(r, loc, n)
      PROVE  /\ Folders' = Folders
             /\ \A f \in Folders : /\ folder'[f].status = folder[f].status
                                   /\ folder'[f].deletedAt = folder[f].deletedAt
  <2>1. /\ req[r].id \in Folders /\ Folders' \subseteq Folders
        /\ \A f \in Folders \ {req[r].id} : folder'[f] = folder[f]
    BY <1>0, <1>3, SaveEffect
  <2>2. PICK i \in FolderId : i = req[r].id
    BY <2>1 DEF Folders
  <2>3. folder[i] \in FolderDoc
    BY <1>0, <2>1, <2>2 DEF Folders, Stored
  <2>4. folder'[i] = [folder[i] EXCEPT !.parent = loc, !.name = n]
    BY <1>0, <1>3, <2>2, <2>3 DEF SaveDoc, FolderDoc
  <2>5. /\ folder'[i].status = folder[i].status /\ folder'[i].deletedAt = folder[i].deletedAt
    BY <2>3, <2>4 DEF FolderDoc
  <2>6. req[r].name # Keep => req[r].name \in Name
    BY <1>0, <1>3 DEF SaveDoc, Requests, UpdatesAreKnown, Updating
  <2>7. req[r].dest \in Location \cup {Keep}
    BY <1>0, <1>3 DEF SaveDoc, Requests, UpdatesAreKnown, Updating, Known, Location,
         FolderTypeOK, FolderStoreTypeOK
  <2>8. loc \in Location /\ n \in Name
    BY <1>3, <2>2, <2>3, <2>6, <2>7 DEF SaveDoc, FolderDoc
  <2>9. folder'[i] \in FolderDoc
    BY <2>3, <2>4, <2>8 DEF FolderDoc
  <2>10. i \in Folders'
    BY <2>9, NoDocIsNoFolder DEF Folders, Stored
  <2> QED BY <2>1, <2>2, <2>5, <2>10 DEF Folders, Stored
<1> QED BY <1>0, <1>1, <1>2, <1>3, StepKinds

\* Folder and file requests leave statuses and dates alone, and what they create
\* is active and undated: the deletes, restores and purges see nothing of them.
LEMMA PlacingKeepsInv ==
  ASSUME TrashInv, FolderStoreTypeOK', FileStoreTypeOK',
         UNCHANGED <<treq, purge, failed, now>>,
         \A f \in Folders : /\ folder'[f].status = folder[f].status
                            /\ folder'[f].deletedAt = folder[f].deletedAt,
         \A f \in Folders' \ Folders : folder'[f].status = "active" /\ folder'[f].deletedAt = Null,
         \A x \in Files : /\ file'[x].status = file[x].status
                          /\ file'[x].deletedAt = file[x].deletedAt,
         \A x \in Files' \ Files : file'[x].status = "active" /\ file'[x].deletedAt = Null
  PROVE  TrashInv'
<1>1. HandlersTyped' /\ PurgesTyped' /\ HandlersInOrder' /\ PurgesAreAsOf'
  BY DEF TrashInv, HandlersTyped, PurgesTyped, HandlersInOrder, InOrder, FreshDate, PurgesAreAsOf
<1>2. TrashedAreDated'
  BY DEF TrashInv, TrashedAreDated
<1> QED BY <1>1, <1>2 DEF TrashInv, StoresTyped

\* The drive at the start.
LEMMA DriveInvInit == DriveInit => DriveInv
<1> SUFFICES ASSUME DriveInit PROVE DriveInv
  OBVIOUS
<1>1. TrashInit /\ FileRequestInit /\ req = [r \in Request |-> Idle] /\ late = {}
  BY DEF DriveInit
<1>2. TrashInv
  BY <1>1, TrashInvInit
<1>3. FolderStoreTypeOK /\ FileStoreTypeOK
  BY <1>2 DEF TrashInv, StoresTyped
<1>4. Inv
  <2>1. FolderTypeOK
    BY <1>1, <1>3, IdleIsNothing DEF FolderTypeOK
  <2>2. Requests /\ WalkIsOver
    BY <1>1, IdleIsNothing DEF Requests, CreatesAreFresh, UpdatesAreKnown, Creating, Updating,
         CreatingRec, UpdatingRec, WalkIsOver
  <2>3. Folders = StartFolders /\ folder = Tree /\ minted = Folders
    BY <1>1 DEF TrashInit, Folders, Stored, StartFolders
  <2>4. UniqueSiblings
    BY <2>3, StartIsATree DEF UniqueSiblings
  <2>5. ParentsKnown
    BY <2>3, StartIsClosed DEF ParentsKnown, Known
  <2> QED BY <2>1, <2>2, <2>4, <2>5 DEF Inv
<1>5. FilesInOrder
  <2>1. \A r \in FileRequest : freq[r] = Resting
    BY <1>1 DEF FileRequestInit
  <2>2. \A k \in accepted : k \in Key /\ offer[k] = "lapsed"
    BY <1>1, <1>3 DEF FileRequestInit, FileStoreTypeOK, FileDoc, Files, HasFile
  <2> QED BY <1>1, <2>1, <2>2, RestingInOrder DEF FilesInOrder, FileRequestInit
<1>6. FileRequestTypeOK
  <2>1. accepted \subseteq Key /\ filed = Files
    BY <1>1, <1>3 DEF FileRequestInit, FileStoreTypeOK, FileDoc, Files, HasFile
  <2>2. freq \in [FileRequest -> FileReqState] /\ offer \in [Key -> Offer]
    BY <1>1, RestingInOrder DEF FileRequestInit, Offer
  <2>3. disputed \subseteq accepted
    BY <1>1 DEF FileRequestInit
  <2> QED BY <2>1, <2>2, <2>3 DEF FileRequestTypeOK, Files
<1> QED BY <1>1, <1>2, <1>4, <1>5, <1>6 DEF DriveInv

\* The invariant of the drive but for the history variable.
SidesInv == Inv /\ TrashInv /\ FileRequestTypeOK /\ FilesInOrder

\* The trash side as the other sides see it: documents leave, none moves.
LEMMA TrashSideShrinks ==
  ASSUME TrashInv, TrashSide
  PROVE  /\ TrashInv' /\ OnlyShrinks /\ FilesShrink
         /\ offer' = offer /\ now' = now /\ object' \subseteq object
         /\ \A x \in Files' : file'[x].folder = file[x].folder
<1>1. ASSUME NEW r \in TrashRequest, TrashRequestNext(r)
      PROVE  /\ TrashInv' /\ minted' = minted /\ now' = now /\ object' = object
             /\ Files' = Files /\ Folders' = Folders
             /\ \A x \in Files : file'[x].folder = file[x].folder /\ file'[x].key = file[x].key
             /\ \A f \in Folders : /\ folder'[f].parent = folder[f].parent
                                   /\ folder'[f].name = folder[f].name
  <2>1. minted' = minted /\ now' = now /\ object' = object
    BY <1>1 DEF TrashRequestNext, FindFile, SaveFile, FindFolder, MarkFiles, FindSubs, EnterSub,
         MarkFolder, MarkTop, driveVars, storeVars, fileVars
  <2> QED BY <1>1, <2>1, RequestKeepsInv, RequestSpares
<1>2. ASSUME NEW p \in Purge, PurgeNext(p)
      PROVE  /\ TrashInv' /\ minted' = minted /\ now' = now /\ object' \subseteq object
             /\ Files' \subseteq Files /\ Folders' \subseteq Folders
             /\ \A x \in Files' : file'[x].folder = file[x].folder /\ file'[x].key = file[x].key
             /\ \A f \in Folders' : /\ folder'[f].parent = folder[f].parent
                                    /\ folder'[f].name = folder[f].name
  <2>1. minted' = minted /\ now' = now /\ object' \subseteq object
    BY <1>2 DEF PurgeNext, ListExpired, DeleteObjects, DeleteFiles, DeleteFolders, AbortPurge,
         driveVars, storeVars, fileVars
  <2>2. TrashInv'
    BY <1>2, PurgeKeepsInv
  <2>3. OnlyTrashes /\ (\A f \in Folders' : folder'[f] = folder[f])
        /\ (\A x \in Files' : file'[x] = file[x])
    BY <1>2, PurgeOnlyTrashes
  <2> QED BY <2>1, <2>2, <2>3 DEF OnlyTrashes
<1>3. req' = req /\ freq' = freq /\ UNCHANGED uploadVars
  BY DEF TrashSide, fileRequestVars
<1> QED
  BY <1>1, <1>2, <1>3 DEF TrashSide, OnlyShrinks, FilesShrink, uploadVars

\* Each side keeps its own part and the others'.
LEMMA FolderSideKeeps ==
  ASSUME SidesInv, FolderSide
  PROVE  SidesInv'
<1>1. /\ Inv /\ FolderTypeOK /\ UniqueSiblings /\ Requests /\ WalkIsOver /\ ParentsKnown
      /\ FolderNext
  BY DEF SidesInv, Inv, FolderSide
<1>2. Inv'
  BY <1>1, StepTyped, StepUnique, StepRequests, StepParents DEF Inv
<1>3. /\ UNCHANGED <<file, object, now, treq, purge, failed>>
      /\ UNCHANGED <<freq, offer, filed, accepted, disputed>>
  BY DEF FolderSide, fileVars, trashSideVars, fileRequestVars, uploadVars
<1>4. Files' = Files
  BY <1>3 DEF Files, HasFile
<1>5. FileRequestTypeOK' /\ FilesInOrder' /\ FileStoreTypeOK'
  BY <1>3, <1>4 DEF SidesInv, FileRequestTypeOK, FilesInOrder, FreqInOrder, TrashInv, StoresTyped,
       FileStoreTypeOK
<1>6. TrashInv'
  BY <1>1, <1>2, <1>3, <1>4, <1>5, FolderSideEffect, PlacingKeepsInv
     DEF SidesInv, Inv, FolderTypeOK
<1> QED BY <1>2, <1>5, <1>6 DEF SidesInv

\* Uploads and moves of files keep it.
LEMMA FileSideKeeps ==
  ASSUME SidesInv, FileSide
  PROVE  SidesInv'
<1>1. /\ FileRequestTypeOK /\ FilesInOrder /\ FileStoreTypeOK /\ FileRequestNext /\ Inv /\ TrashInv
      /\ FolderStoreTypeOK
  BY DEF SidesInv, FileSide, TrashInv, StoresTyped
<1>2. FileStoreTypeOK' /\ FileRequestTypeOK' /\ FilesInOrder'
  BY <1>1, FileSideKeepsOrder
<1>3. UNCHANGED <<req, treq, purge, failed>>
  BY DEF FileSide, trashSideVars
<1>4. /\ UNCHANGED <<folder, minted, now>>
      /\ \A x \in Files : /\ file'[x].status = file[x].status
                          /\ file'[x].deletedAt = file[x].deletedAt
      /\ \A x \in Files' \ Files : file'[x].status = "active" /\ file'[x].deletedAt = Null
  BY <1>1, FileSideEffect
<1>5. Folders' = Folders /\ FolderStoreTypeOK'
  BY <1>1, <1>4 DEF FolderStoreTypeOK, Folders, Stored
<1>6. Inv'
  BY <1>1, <1>3, <1>4, <1>5, ShrinkKeepsInv DEF OnlyShrinks
<1>7. TrashInv'
  BY <1>1, <1>2, <1>3, <1>4, <1>5, PlacingKeepsInv
<1> QED BY <1>2, <1>6, <1>7 DEF SidesInv

\* Deletes, restores and purges keep it.
LEMMA TrashSideKeeps ==
  ASSUME SidesInv, TrashSide
  PROVE  SidesInv'
<1>1. TrashInv' /\ OnlyShrinks /\ FilesShrink /\ offer' = offer
  BY TrashSideShrinks DEF SidesInv
<1>2. OffersGoOn
  BY <1>1 DEF SidesInv, FileRequestTypeOK, OffersGoOn
<1>3. Inv'
  BY <1>1, ShrinkKeepsInv DEF SidesInv, TrashInv, StoresTyped
<1>4. FileRequestTypeOK' /\ FilesInOrder'
  BY <1>1, <1>2, ShrinkKeepsFiles DEF SidesInv
<1> QED BY <1>1, <1>3, <1>4 DEF SidesInv

\* The clock keeps it: URLs lapse, and no handler holds a stale date.
LEMMA TickSideKeeps ==
  ASSUME SidesInv, DriveTick
  PROVE  SidesInv'
<1>1. Tick /\ Lapse /\ UNCHANGED <<req, freq, filed, accepted, disputed, folder, minted, file>>
  BY DEF DriveTick, Tick, storeVars
<1>2. Folders' = Folders /\ Files' = Files
  BY <1>1 DEF Folders, Files, Stored, HasFile
<1>3. TrashInv'
  BY <1>1, TickKeepsInv DEF SidesInv
<1>4. OnlyShrinks /\ FilesShrink
  BY <1>1, <1>2 DEF OnlyShrinks, FilesShrink
<1>5. OffersGoOn
  BY <1>1 DEF SidesInv, FileRequestTypeOK, OffersGoOn, Lapse, Offer
<1>6. Inv'
  BY <1>3, <1>4, ShrinkKeepsInv DEF SidesInv, TrashInv, StoresTyped
<1>7. FileRequestTypeOK' /\ FilesInOrder'
  BY <1>4, <1>5, ShrinkKeepsFiles DEF SidesInv
<1> QED BY <1>3, <1>6, <1>7 DEF SidesInv

\* A crash keeps it: it drops handlers and no document.
LEMMA CrashSideKeeps ==
  ASSUME SidesInv, DriveCrash
  PROVE  SidesInv'
<1>1. /\ CrashHandlers /\ UNCHANGED <<driveVars, failed>>
      /\ UNCHANGED <<folder, minted, file, offer, filed, accepted, disputed>>
      /\ req' = [r \in Request |-> Idle] /\ freq' = [r \in FileRequest |-> Resting]
  BY DEF DriveCrash, driveVars, storeVars, fileVars, uploadVars
<1>2. Folders' = Folders /\ Files' = Files
  BY <1>1 DEF Folders, Files, Stored, HasFile
<1>3. TrashInv'
  BY <1>1, CrashKeepsInv DEF SidesInv
<1>4. OnlyShrinks /\ FilesShrink
  BY <1>1, <1>2 DEF OnlyShrinks, FilesShrink
<1>5. OffersGoOn
  BY <1>1 DEF SidesInv, FileRequestTypeOK, OffersGoOn
<1>6. Inv'
  BY <1>3, <1>4, ShrinkKeepsInv DEF SidesInv, TrashInv, StoresTyped
<1>7. FileRequestTypeOK' /\ FilesInOrder'
  BY <1>4, <1>5, ShrinkKeepsFiles DEF SidesInv
<1> QED BY <1>3, <1>6, <1>7 DEF SidesInv

\* A step of nobody keeps it.
LEMMA StutterKeeps ==
  ASSUME SidesInv, UNCHANGED driveSpecVars
  PROVE  SidesInv'
<1>1. UNCHANGED <<folder, minted, file, object, now, treq, purge, failed, req, freq, offer, filed,
                  accepted, disputed>>
  BY DEF driveSpecVars, trashVars, driveVars, storeVars, fileVars, fileRequestVars, uploadVars
<1>2. Folders' = Folders /\ Files' = Files
  BY <1>1 DEF Folders, Files, Stored, HasFile
<1>3. TrashInv'
  BY <1>1, <1>2 DEF SidesInv, TrashInv, StoresTyped, HandlersTyped, PurgesTyped, HandlersInOrder,
       InOrder, FreshDate, PurgesAreAsOf, TrashedAreDated, FolderStoreTypeOK, FileStoreTypeOK
<1>4. OnlyShrinks /\ FilesShrink
  BY <1>1, <1>2 DEF OnlyShrinks, FilesShrink
<1>5. OffersGoOn
  BY <1>1 DEF SidesInv, FileRequestTypeOK, OffersGoOn
<1>6. Inv'
  BY <1>3, <1>4, ShrinkKeepsInv DEF SidesInv, TrashInv, StoresTyped
<1>7. FileRequestTypeOK' /\ FilesInOrder'
  BY <1>4, <1>5, ShrinkKeepsFiles DEF SidesInv
<1> QED BY <1>3, <1>6, <1>7 DEF SidesInv

\* The invariant of the whole drive.
LEMMA DriveInvariance == DriveSpec => []DriveInv
<1>1. ASSUME DriveInv, [DriveNext]_driveSpecVars PROVE DriveInv'
  <2>1. SidesInv
    BY <1>1 DEF DriveInv, SidesInv
  <2>2. SidesInv'
    BY <1>1, <2>1, FolderSideKeeps, FileSideKeeps, TrashSideKeeps, TickSideKeeps,
       CrashSideKeeps, StutterKeeps DEF DriveNext
  <2>3. late' \subseteq FolderId \cup FileId
    <3>1. CASE UNCHANGED driveSpecVars
      BY <1>1, <3>1 DEF driveSpecVars, DriveInv
    <3>2. CASE NotePlaces
      BY <3>2 DEF NotePlaces, PlacedFolders, PlacedFiles, Folders, Files
    <3> QED BY <1>1, <3>1, <3>2 DEF DriveNext
  <2> QED BY <2>2, <2>3 DEF DriveInv, SidesInv
<1> QED BY <1>1, DriveInvInit, PTL DEF DriveSpec

\* Every variable of the drive keeps its type, for every number of handlers of
\* every kind.
THEOREM DriveTyping == DriveSpec => []DriveTypeOK
  BY DriveInvariance, DriveInvTypes, PTL

\* The unique index holds beside deletes and purges, which take names away only.
THEOREM DriveSiblingsUnique == DriveSpec => []UniqueSiblings
<1>1. DriveInv => UniqueSiblings
  BY DEF DriveInv, Inv
<1> QED BY <1>1, DriveInvariance, PTL

\* Status and date go together when creates, uploads and moves run beside deletes,
\* restores and purges.
THEOREM DriveDatesMatchStatus == DriveSpec => []TrashedAreDated
<1>1. DriveInv => TrashedAreDated
  BY DEF DriveInv, TrashInv
<1> QED BY <1>1, DriveInvariance, PTL

\* Steps of the drive that are not of folder requests only take folders away.
LEMMA OthersOnlyShrink ==
  ASSUME SidesInv, FileSide \/ TrashSide \/ DriveTick \/ DriveCrash \/ UNCHANGED driveSpecVars
  PROVE  OnlyShrinks
<1>1. CASE FileSide
  <2>1. UNCHANGED <<folder, minted, req>>
    BY <1>1, FileSideEffect DEF FileSide, SidesInv, TrashInv, StoresTyped
  <2> QED BY <2>1 DEF OnlyShrinks, Folders, Stored
<1>2. CASE TrashSide
  BY <1>2, TrashSideShrinks DEF SidesInv
<1>3. CASE DriveTick \/ DriveCrash \/ UNCHANGED driveSpecVars
  <2>1. UNCHANGED <<folder, minted>> /\ (req' = req \/ req' = [r \in Request |-> Idle])
    BY <1>3 DEF DriveTick, Tick, DriveCrash, driveSpecVars, trashVars, driveVars, storeVars
  <2> QED BY <2>1 DEF OnlyShrinks, Folders, Stored
<1> QED BY <1>1, <1>2, <1>3

\* With one move in flight at a time the folders stay a forest, although deletes
\* and purges take folders out from under a walk: what leaves closes no cycle,
\* and what the walk has not found is still below its queue.
THEOREM OneMoverKeepsDriveTree == SingleMover /\ DriveSpec => []Acyclic
<1>1. DriveInit => InvMoves
  <2> SUFFICES ASSUME DriveInit PROVE InvMoves
    OBVIOUS
  <2>1. Folders = StartFolders /\ folder = Tree /\ req = [r \in Request |-> Idle]
    BY DEF DriveInit, TrashInit, Folders, Stored, StartFolders
  <2>2. Acyclic
    BY <2>1, StartIsATree DEF Acyclic
  <2>3. MovesAreSound
    BY <2>1, IdleIsNothing DEF MovesAreSound, Moving
  <2> QED BY <2>2, <2>3 DEF InvMoves
<1>2. ASSUME SingleMover, DriveInv, InvMoves, [DriveNext]_driveSpecVars PROVE InvMoves'
  <2>1. SidesInv /\ Inv
    BY <1>2 DEF DriveInv, SidesInv
  <2>2. CASE FolderSide
    BY <1>2, <2>1, <2>2, StepSound, StepAcyclic DEF FolderSide, Inv, InvMoves
  <2>3. CASE ~FolderSide
    BY <1>2, <2>1, <2>3, OthersOnlyShrink, ShrinkKeepsMoves DEF DriveNext
  <2> QED BY <2>2, <2>3
<1>3. SingleMover => []SingleMover
  <2>1. SingleMover => SingleMover'
    BY DEF SingleMover
  <2> QED BY <2>1, PTL
<1>4. InvMoves => Acyclic
  BY DEF InvMoves
<1> QED BY <1>1, <1>2, <1>3, <1>4, DriveInvariance, PTL DEF DriveSpec

\* Nothing leaves a collection early in the drive either: moving an item, or
\* creating beside it, never makes a purge take it before its time.
THEOREM DriveSparesTheRest == DriveSpec => PurgeSparesTheRest
<1>1. ASSUME DriveInv, [DriveNext]_driveSpecVars PROVE SparesTheRest
  <2>1. SidesInv /\ TrashInv /\ Inv
    BY <1>1 DEF DriveInv, SidesInv
  <2>2. CASE FolderSide
    <3>1. Folders \subseteq Folders' /\ file' = file
      BY <2>1, <2>2, FolderSideEffect DEF FolderSide, fileVars
    <3> QED BY <3>1 DEF SparesTheRest, Files, HasFile
  <2>3. CASE FileSide
    <3>1. Files \subseteq Files' /\ folder' = folder
      BY <2>1, <2>3, FileSideEffect DEF FileSide, SidesInv, TrashInv, StoresTyped
    <3> QED BY <3>1 DEF SparesTheRest, Folders, Stored
  <2>4. CASE TrashSide
    <3>1. ASSUME NEW r \in TrashRequest, TrashRequestNext(r) PROVE SparesTheRest
      BY <2>1, <3>1, RequestSpares DEF SparesTheRest
    <3> QED BY <2>1, <2>4, <3>1, PurgeSpares DEF TrashSide
  <2>5. CASE DriveTick \/ DriveCrash \/ UNCHANGED driveSpecVars
    <3>1. UNCHANGED <<folder, file>>
      BY <2>5 DEF DriveTick, Tick, DriveCrash, driveSpecVars, trashVars, driveVars, storeVars,
           fileVars
    <3> QED BY <3>1 DEF SparesTheRest, Folders, Stored, Files, HasFile
  <2> QED BY <1>1, <2>2, <2>3, <2>4, <2>5 DEF DriveNext
<1>2. DriveInv /\ [DriveNext]_driveSpecVars => [SparesTheRest]_trashVars
  BY <1>1
<1>3. [SparesTheRest]_trashVars
        => [/\ \A x \in Files \ Files' : Expired(file[x], now)
            /\ \A f \in Folders \ Folders' : Expired(folder[f], now)]_trashVars
  BY DEF SparesTheRest
<1> QED BY <1>2, <1>3, DriveInvariance, PTL DEF DriveSpec, PurgeSparesTheRest

\* A delete or restore gives a status and date only to the file it has loaded, or
\* to the files of the folder its recursion is in.
LEMMA MarksAreAsked ==
  ASSUME FileStoreTypeOK, HandlersTyped, HandlersInOrder,
         NEW r \in TrashRequest, TrashRequestNext(r), NEW x \in Files \cap Files',
         file'[x].status # file[x].status \/ file'[x].deletedAt # file[x].deletedAt
  PROVE  Marks(r, x, file[x].folder, file'[x].status, file'[x].deletedAt)
<1>1. treq[r] \in TrashState /\ InOrder(treq[r]) /\ treq[r].to \in Status
  BY DEF HandlersTyped, HandlersInOrder, TrashState
<1>2. x \in FileId /\ file[x] \in FileDoc /\ file \in [FileId -> FileDoc \cup {NoDoc}]
  BY DEF FileStoreTypeOK, Files, HasFile
<1>3. ASSUME NEW y, NEW at, file' = [file EXCEPT ![y] = Marked(file[y], treq[r].to, at)]
      PROVE  x = y /\ file'[x].status = treq[r].to /\ file'[x].deletedAt = at
  <2>1. x = y /\ file'[x] = Marked(file[x], treq[r].to, at)
    BY <1>2, <1>3
  <2> QED BY <1>2, <2>1 DEF Marked, FileDoc
<1>4. CASE SaveFile(r)
  <2>1. /\ treq[r].pc = "file"
        /\ file' = [file EXCEPT ![treq[r].file] =
                      Marked(file[treq[r].file], treq[r].to, treq[r].at)]
    BY <1>4 DEF SaveFile
  <2>2. /\ x = treq[r].file /\ file'[x].status = treq[r].to
        /\ file'[x].deletedAt = treq[r].at
    BY <1>3, <2>1
  <2> QED BY <2>1, <2>2 DEF Marks
<1>5. CASE MarkFiles(r)
  <2> DEFINE hit == {y \in FilesIn(Top(r).id) : file[y].status = Opposite(treq[r].to)}
  <2>1. /\ treq[r].pc = "folder"
        /\ \/ UNCHANGED file
           \/ \E y \in hit : file' = [file EXCEPT ![y] = Marked(@, treq[r].to, Top(r).at)]
    BY <1>5 DEF MarkFiles
  <2>2. PICK y \in hit : file' = [file EXCEPT ![y] = Marked(file[y], treq[r].to, Top(r).at)]
    BY <2>1
  <2>3. /\ x = y /\ file'[x].status = treq[r].to
        /\ file'[x].deletedAt = Top(r).at
    BY <1>3, <2>2
  <2>4. file[x].folder = Top(r).id
    BY <2>3 DEF FilesIn
  <2> QED BY <2>1, <2>3, <2>4 DEF Marks
<1>6. CASE UNCHANGED file
  BY <1>6
<1> QED BY <1>4, <1>5, <1>6 DEF TrashRequestNext, FindFile, FindFolder, FindSubs, EnterSub,
           MarkFolder, MarkTop, driveVars, fileVars

\* A file's folder, status, date and key change only by the request that asks for
\* it: SaveMove writes the folder alone, a delete or restore the status and date
\* alone, of the file it has loaded or of the files in the folder it is in.
THEOREM DriveFileUpdatesAreKept == DriveSpec => FileUpdatesAreKept
<1> DEFINE Kept ==
      \A x \in Files \cap Files' :
        /\ file'[x].folder # file[x].folder =>
             \E r \in FileRequest : freq[r].file = x /\ freq[r].dest = file'[x].folder
        /\ \/ file'[x].status # file[x].status
           \/ file'[x].deletedAt # file[x].deletedAt
           => \E r \in TrashRequest :
                Marks(r, x, file[x].folder, file'[x].status, file'[x].deletedAt)
        /\ file'[x].key = file[x].key
<1>1. ASSUME DriveInv, [DriveNext]_driveSpecVars PROVE Kept
  <2>1. /\ TrashInv /\ FileStoreTypeOK /\ FileRequestTypeOK /\ FilesInOrder
        /\ HandlersTyped /\ HandlersInOrder
    BY <1>1 DEF DriveInv, TrashInv, StoresTyped
  <2>2. CASE file' = file
    BY <2>2
  <2>3. CASE FileSide
    <3>1. ASSUME NEW r \in FileRequest, NEW x \in FileId, FileCreated(r, x) PROVE Kept
      BY <2>1, <3>1, FileCreatedEffect
    <3>2. ASSUME NEW r \in FileRequest, NEW x \in FileId, FileMoved(r, x) PROVE Kept
      <4>1. x = freq[r].file
        BY <3>2 DEF FileMoved
      <4> QED BY <2>1, <3>2, <4>1, FileMovedEffect
    <3> QED BY <2>1, <2>2, <2>3, <3>1, <3>2, FileKinds DEF FileSide
  <2>4. CASE TrashSide
    <3>1. ASSUME NEW r \in TrashRequest, TrashRequestNext(r) PROVE Kept
      <4>1. ASSUME NEW x \in FileId, NEW at \in Time, Dated(r, at), FileMarked(r, x, at) PROVE Kept
        <5>1. treq[r].to \in Status
          BY <4>1 DEF Dated
        <5>2. \A y \in Files \cap Files' :
                file'[y].folder = file[y].folder /\ file'[y].key = file[y].key
          BY <2>1, <4>1, <5>1, FileMarkedEffect
        <5> QED BY <2>1, <3>1, <5>2, MarksAreAsked
      <4>2. ASSUME NEW f \in FolderId, NEW at \in Time, FolderMarked(r, f, at) PROVE file' = file
        BY <4>2 DEF FolderMarked, fileVars
      <4> QED BY <2>1, <2>2, <3>1, <4>1, <4>2, RequestMarks DEF HandlersTyped, driveVars, fileVars
    <3>2. ASSUME NEW p \in Purge, PurgeNext(p) PROVE Kept
      BY <2>1, <3>2, PurgeOnlyTrashes
    <3> QED BY <2>4, <3>1, <3>2 DEF TrashSide
  <2>5. CASE FolderSide \/ DriveTick \/ DriveCrash \/ UNCHANGED driveSpecVars
    BY <2>2, <2>5 DEF FolderSide, DriveTick, Tick, DriveCrash, driveSpecVars, trashVars, driveVars,
       fileVars
  <2> QED BY <1>1, <2>3, <2>4, <2>5 DEF DriveNext
<1>2. DriveInv /\ [DriveNext]_driveSpecVars => [Kept]_driveSpecVars
  BY <1>1
<1> QED BY <1>2, DriveInvariance, PTL DEF DriveSpec, FileUpdatesAreKept

-----------------------------------------------------------------------------
(* No object is forgotten *)

\* Trash has not aged while an upload URL to the same key lives, and a confirmed
\* key whose URL lives still has its document.
OpenAreFiled ==
  /\ \A x \in Files : offer[file[x].key] = "open" => ~Expired(file[x], now)
  /\ \A k \in accepted : offer[k] = "open" => \E x \in Files : file[x].key = k

BucketInv == OpenAreFiled /\ PurgesListed /\ NoForgottenObject

\* A file request presigns, uploads, creates, moves or at most takes an object.
LEMMA BucketKinds ==
  ASSUME FileRequestNext, FilesInOrder
  PROVE  \/ \E k \in Key : PresignUpload(k)
         \/ \E k \in Key : Put(k)
         \/ \E r \in FileRequest, x \in FileId : FileCreated(r, x)
         \/ \E r \in FileRequest, x \in FileId : FileMoved(r, x)
         \/ object' \subseteq object /\ UNCHANGED <<file, offer, accepted, now>>
<1>1. ASSUME NEW r \in FileRequest, CreateFile(r)
      PROVE  \E x \in FileId : FileCreated(r, x)
  BY <1>1 DEF CreateFile, FileCreated
<1>2. ASSUME NEW r \in FileRequest, SaveMove(r)
      PROVE  \/ object' \subseteq object /\ UNCHANGED <<file, offer, accepted, now>>
             \/ \E x \in FileId : FileMoved(r, x)
  <2>1. freq[r].pc = "save" /\ freq[r].file \in FileId
    BY <1>2 DEF SaveMove, FilesInOrder, FreqInOrder
  <2> QED BY <1>2, <2>1 DEF SaveMove, FileMoved, Files, uploadVars
<1> QED
  BY <1>1, <1>2 DEF FileRequestNext, HeadObject, DeleteOne, LoadFile, CheckFolder, driveVars,
     fileVars, fileRequestVars, uploadVars

\* What is kept when files change only by ageing nothing and losing none.
LEMMA ListsStay ==
  ASSUME PurgesTyped, PurgesAreAsOf, PurgesListed, NothingAges, failed \subseteq failed',
         UNCHANGED purge
  PROVE  PurgesListed'
<1> SUFFICES ASSUME NEW p \in Purge PROVE PurgeListed(purge[p])'
  BY DEF PurgesListed
<1>1. PICK q \in PurgeState : q = purge[p]
  BY DEF PurgesTyped
<1>2. PurgeListed(q)'
  BY <1>1, ListedKept DEF PurgesListed, PurgesAreAsOf
<1> QED BY <1>1, <1>2 DEF PurgeListed

\* File requests forget no object: an upload goes on only to a key that has its
\* document still, or never had one.
LEMMA FileSideKeepsBucket ==
  ASSUME SidesInv, BucketInv, FileSide
  PROVE  BucketInv'
<1>0. /\ FileStoreTypeOK /\ FileRequestTypeOK /\ FilesInOrder /\ FileRequestNext
      /\ OpenAreFiled /\ PurgesListed /\ NoForgottenObject /\ PurgesTyped /\ PurgesAreAsOf
      /\ UNCHANGED <<purge, failed>> /\ now \in Nat /\ offer \in [Key -> Offer]
      /\ accepted \subseteq Key
  BY DEF SidesInv, TrashInv, StoresTyped, BucketInv, FileSide, trashSideVars, FileStoreTypeOK,
     FileRequestTypeOK
<1>1. \A x \in Files : file[x].key \in accepted /\ file[x].deletedAt \in Time
  BY <1>0 DEF FilesInOrder, FileStoreTypeOK, FileDoc, Files, HasFile
<1>2. ASSUME NEW k \in Key, PresignUpload(k) PROVE BucketInv'
  <2>1. /\ offer[k] = "fresh" /\ offer' = [offer EXCEPT ![k] = "open"]
        /\ UNCHANGED <<file, object, now, accepted>>
    BY <1>2 DEF PresignUpload, driveVars, fileVars
  <2>2. k \notin accepted
    BY <1>0, <2>1 DEF FilesInOrder
  <2>3. \A a \in accepted : offer'[a] = offer[a]
    BY <1>0, <2>1, <2>2
  <2>4. OpenAreFiled'
    BY <1>0, <1>1, <2>1, <2>3 DEF OpenAreFiled, Files, HasFile
  <2>5. NothingAges
    BY <2>1 DEF NothingAges, Files, HasFile
  <2> QED BY <1>0, <2>1, <2>4, <2>5, ListsStay DEF BucketInv, NoForgottenObject, Files, HasFile
<1>3. ASSUME NEW k \in Key, Put(k) PROVE BucketInv'
  <2>1. /\ offer[k] = "open" /\ object' = object \cup {k}
        /\ UNCHANGED <<file, now, accepted, offer>>
    BY <1>3 DEF Put, fileRequestVars, uploadVars
  <2>2. OpenAreFiled'
    BY <1>0, <2>1 DEF OpenAreFiled, Files, HasFile
  <2>3. ASSUME NEW x \in Files, NEW a \in Nat, a <= now, Expired(file[x], a),
               file[x].key \in object'
        PROVE  file[x].key \in object
    <3>1. Expired(file[x], now)
      BY <1>0, <1>1, <2>3, ExpiredSince
    <3> QED BY <1>0, <2>1, <2>3, <3>1 DEF OpenAreFiled
  <2>4. Files' = Files /\ file' = file
    BY <2>1 DEF Files, HasFile
  <2>5. NothingAges
    BY <2>3, <2>4 DEF NothingAges
  <2>6. NoForgottenObject'
    BY <1>0, <2>1, <2>4 DEF NoForgottenObject, OpenAreFiled
  <2> QED BY <1>0, <2>2, <2>5, <2>6, ListsStay DEF BucketInv
<1>4. ASSUME NEW r \in FileRequest, NEW x \in FileId, FileCreated(r, x) PROVE BucketInv'
  <2>1. /\ Files' = Files \cup {x} /\ x \notin Files
        /\ \A y \in Files : file'[y] = file[y]
        /\ file'[x].key = freq[r].key /\ file'[x].status = "active"
    BY <1>0, <1>4, FileCreatedEffect
  <2>2. /\ accepted' = accepted \cup {freq[r].key}
        /\ UNCHANGED <<object, now, offer>>
    BY <1>4 DEF FileCreated
  <2>3. \A a : ~Expired(file'[x], a)
    BY <2>1 DEF Expired
  <2>4. OpenAreFiled'
    BY <1>0, <2>1, <2>2, <2>3 DEF OpenAreFiled
  <2>5. NothingAges
    BY <2>1, <2>2, <2>3 DEF NothingAges
  <2>6. NoForgottenObject'
    BY <1>0, <2>1, <2>2 DEF NoForgottenObject
  <2> QED BY <1>0, <2>4, <2>5, <2>6, ListsStay DEF BucketInv
<1>5. ASSUME NEW r \in FileRequest, NEW x \in FileId, FileMoved(r, x) PROVE BucketInv'
  <2>1. /\ Files' = Files
        /\ \A y \in Files \ {x} : file'[y] = file[y]
        /\ file'[x].key = file[x].key /\ file'[x].status = file[x].status
        /\ file'[x].deletedAt = file[x].deletedAt
    BY <1>0, <1>5, FileMovedEffect
  <2>2. UNCHANGED <<object, now, offer, accepted>>
    BY <1>5 DEF FileMoved, uploadVars
  <2>3. \A y \in Files : file'[y].key = file[y].key
                         /\ \A a : Expired(file'[y], a) <=> Expired(file[y], a)
    BY <2>1 DEF Expired
  <2>4. OpenAreFiled'
    BY <1>0, <2>1, <2>2, <2>3 DEF OpenAreFiled
  <2>5. NothingAges
    BY <2>1, <2>2, <2>3 DEF NothingAges
  <2>6. NoForgottenObject'
    BY <1>0, <2>1, <2>2, <2>3 DEF NoForgottenObject
  <2> QED BY <1>0, <2>4, <2>5, <2>6, ListsStay DEF BucketInv
<1>6. CASE object' \subseteq object /\ UNCHANGED <<file, offer, accepted, now>>
  <2>1. NothingAges
    BY <1>6 DEF NothingAges, Files, HasFile
  <2> QED
    BY <1>0, <1>6, <2>1, ListsStay DEF BucketInv, OpenAreFiled, NoForgottenObject, Files, HasFile
<1> QED BY <1>0, <1>2, <1>3, <1>4, <1>5, <1>6, BucketKinds

\* Deletes, restores and purges forget no object: a document goes only when its
\* object is gone or reported, and never while a URL to its key lives.
LEMMA TrashSideKeepsBucket ==
  ASSUME SidesInv, BucketInv, TrashSide
  PROVE  BucketInv'
<1>0. /\ TrashInv /\ OpenAreFiled /\ PurgesListed /\ NoForgottenObject /\ PurgesTyped
      /\ PurgesAreAsOf /\ now \in Nat
      /\ UNCHANGED <<offer, accepted>>
  BY DEF SidesInv, TrashInv, StoresTyped, BucketInv, TrashSide, fileRequestVars, uploadVars,
     FileStoreTypeOK
<1>1. now' = now
  BY <1>0, TrashSideShrinks
<1>2. ASSUME NothingAges,
             \A k \in accepted : offer[k] = "open" =>
               \A x \in Files : file[x].key = k => x \in Files' /\ file'[x].key = k
      PROVE  OpenAreFiled'
  BY <1>0, <1>1, <1>2 DEF OpenAreFiled, NothingAges
<1>3. ASSUME NEW r \in TrashRequest, TrashRequestNext(r) PROVE BucketInv'
  <2>1. NothingAges /\ object' = object /\ failed' = failed /\ purge' = purge
    BY <1>0, <1>3, RequestAgesNothing
  <2>2. Files' = Files /\ \A x \in Files : file'[x].key = file[x].key
    BY <1>0, <1>3, RequestSpares
  <2>3. PurgesListed'
    BY <1>0, <2>1, ListsStay
  <2>4. OpenAreFiled'
    BY <1>2, <2>1, <2>2
  <2> QED BY <1>0, <2>1, <2>2, <2>3, <2>4 DEF BucketInv, NoForgottenObject
<1>4. ASSUME NEW p \in Purge, PurgeNext(p) PROVE BucketInv'
  <2>1. /\ NothingAges /\ PurgesListed'
        /\ object' \subseteq object /\ failed \subseteq failed'
        /\ Files' \subseteq Files /\ \A x \in Files' : file'[x] = file[x]
        /\ \A x \in Files \ Files' : file[x].key \in object' => file[x].key \in failed'
    BY <1>0, <1>4, PurgeForgetsNothing
  <2>2. \A x \in Files \ Files' : Expired(file[x], now)
    BY <1>0, <1>4, PurgeSpares DEF SparesTheRest
  <2>3. OpenAreFiled'
    BY <1>0, <1>2, <2>1, <2>2 DEF OpenAreFiled
  <2>4. NoForgottenObject'
    BY <1>0, <2>1 DEF NoForgottenObject
  <2> QED BY <2>1, <2>3, <2>4 DEF BucketInv
<1> QED BY <1>3, <1>4 DEF TrashSide

\* The clock lapses every URL before trash can age past it.
LEMMA RestKeepsBucket ==
  ASSUME SidesInv, BucketInv,
         FolderSide \/ DriveTick \/ DriveCrash \/ UNCHANGED driveSpecVars
  PROVE  BucketInv'
<1>0. /\ OpenAreFiled /\ PurgesListed /\ NoForgottenObject /\ PurgesTyped /\ PurgesAreAsOf
      /\ accepted \subseteq Key /\ offer \in [Key -> Offer]
      /\ \A x \in Files : file[x].key \in accepted
  BY DEF SidesInv, TrashInv, BucketInv, FileRequestTypeOK, FilesInOrder
<1>1. /\ UNCHANGED <<file, object, accepted, failed>>
      /\ UNCHANGED purge \/ purge' = [p \in Purge |-> NoPurge]
      /\ UNCHANGED <<offer, now>> \/ Lapse
  BY DEF FolderSide, DriveTick, Tick, DriveCrash, CrashHandlers, driveSpecVars, trashVars,
     driveVars, storeVars, fileVars, fileRequestVars, uploadVars, trashSideVars
<1>2. Files' = Files
  BY <1>1 DEF Files, HasFile
<1>3. NothingAges
  BY <1>1, <1>2 DEF NothingAges
<1>4. PurgesListed'
  <2>1. CASE UNCHANGED purge
    BY <1>0, <1>1, <1>3, <2>1, ListsStay
  <2>2. CASE purge' = [p \in Purge |-> NoPurge]
    BY <2>2 DEF PurgesListed, PurgeListed, NoPurge
  <2> QED BY <1>1, <2>1, <2>2
<1>5. OpenAreFiled'
  <2>1. CASE UNCHANGED <<offer, now>>
    BY <1>0, <1>1, <1>2, <2>1 DEF OpenAreFiled
  <2>2. CASE Lapse
    BY <1>0, <1>1, <1>2, <2>2 DEF OpenAreFiled, Lapse
  <2> QED BY <1>1, <2>1, <2>2
<1> QED BY <1>0, <1>1, <1>2, <1>4, <1>5 DEF BucketInv, NoForgottenObject

\* An object that has ever been a file's stays known to a document or reported as
\* failed, through repeated confirms, moves, restores, overlapping purges, outages
\* and crashes.
THEOREM AcceptedObjectsAreKnown == DriveSpec => []NoForgottenObject
<1>1. DriveInit => BucketInv
  <2> SUFFICES ASSUME DriveInit PROVE BucketInv
    OBVIOUS
  <2>1. /\ accepted = {file[x].key : x \in Files} /\ object = {file[x].key : x \in Files}
        /\ offer = [k \in Key |-> IF k \in accepted THEN "lapsed" ELSE "fresh"]
        /\ purge = [p \in Purge |-> NoPurge]
    BY DEF DriveInit, TrashInit, FileRequestInit
  <2>2. accepted \subseteq Key
    BY DriveInvInit DEF DriveInv, FileRequestTypeOK
  <2>3. OpenAreFiled
    BY <2>1, <2>2 DEF OpenAreFiled
  <2>4. PurgesListed
    BY <2>1 DEF PurgesListed, PurgeListed, NoPurge
  <2> QED BY <2>1, <2>3, <2>4 DEF BucketInv, NoForgottenObject
<1>2. ASSUME DriveInv, BucketInv, [DriveNext]_driveSpecVars PROVE BucketInv'
  <2>1. SidesInv
    BY <1>2 DEF DriveInv, SidesInv
  <2> QED
    BY <1>2, <2>1, FileSideKeepsBucket, TrashSideKeepsBucket, RestKeepsBucket DEF DriveNext
<1>3. BucketInv => NoForgottenObject
  BY DEF BucketInv
<1> QED BY <1>1, <1>2, <1>3, DriveInvariance, PTL DEF DriveSpec

-----------------------------------------------------------------------------
(* The bytes of an active file stay *)

Pending(q) == q.pc \in {"create", "discard"}

\* As long as a key is not disputed it has one document at most, ...
OneFilePerKey ==
  \A x, y \in Files : file[x].key = file[y].key /\ file[x].key \notin disputed => x = y

\* ... a confirm under way is the first and only one of its key, and its object
\* is there when its document is created, ...
ConfirmsAreAlone ==
  \A r \in FileRequest : Pending(freq[r]) /\ freq[r].key \notin disputed =>
    /\ freq[r].key \notin accepted
    /\ \A s \in FileRequest : Pending(freq[s]) /\ freq[s].key = freq[r].key => s = r
    /\ freq[r].pc = "create" => freq[r].key \in object

\* ... and a purge that has listed it has listed the key of trash.
ListedIsTrash ==
  \A p \in Purge : \A k \in purge[p].keys :
    /\ k \in accepted
    /\ k \notin disputed => \A x \in Files : file[x].key = k => file[x].status = "trashed"

BytesInv == OneFilePerKey /\ ConfirmsAreAlone /\ ListedIsTrash /\ BytesStay

\* Steps that restore, create and list nothing take bytes only of what a purge
\* has listed.
BytesSpared ==
  /\ Files' \subseteq Files
  /\ \A x \in Files' : /\ file'[x].key = file[x].key
                       /\ file[x].status = "trashed" => file'[x].status = "trashed"
  /\ \A r \in FileRequest : Pending(freq'[r]) => freq'[r] = freq[r]
  /\ UNCHANGED <<accepted, disputed>>
  /\ \A p \in Purge : purge'[p].keys \subseteq purge[p].keys
  /\ \A k \in object \ object' : \E p \in Purge : k \in purge[p].keys

\* Such steps keep the bytes.
LEMMA SparedKeepsBytes ==
  ASSUME FileStoreTypeOK, FileStoreTypeOK', FilesInOrder, BytesInv, BytesSpared
  PROVE  BytesInv'
<1>1. OneFilePerKey'
  BY DEF BytesInv, BytesSpared, OneFilePerKey
<1>2. ListedIsTrash'
  <2> SUFFICES ASSUME NEW p \in Purge, NEW k \in purge'[p].keys
               PROVE  /\ k \in accepted'
                      /\ k \notin disputed' =>
                           \A x \in Files' : file'[x].key = k => file'[x].status = "trashed"
    BY DEF ListedIsTrash
  <2>1. k \in purge[p].keys
    BY DEF BytesSpared
  <2> QED BY <2>1 DEF BytesInv, BytesSpared, ListedIsTrash
<1>3. ConfirmsAreAlone'
  <2> SUFFICES ASSUME NEW r \in FileRequest, Pending(freq'[r]), freq'[r].key \notin disputed'
               PROVE  /\ freq'[r].key \notin accepted'
                      /\ \A s \in FileRequest :
                           Pending(freq'[s]) /\ freq'[s].key = freq'[r].key => s = r
                      /\ freq'[r].pc = "create" => freq'[r].key \in object'
    BY DEF ConfirmsAreAlone, Pending
  <2>1. freq'[r] = freq[r] /\ \A s \in FileRequest : Pending(freq'[s]) => freq'[s] = freq[s]
    BY DEF BytesSpared
  <2>2. /\ freq[r].key \notin accepted
        /\ \A s \in FileRequest : Pending(freq[s]) /\ freq[s].key = freq[r].key => s = r
        /\ freq[r].pc = "create" => freq[r].key \in object
    BY <2>1 DEF BytesInv, ConfirmsAreAlone, BytesSpared
  <2>3. freq[r].key \in object => freq[r].key \in object'
    BY <2>2 DEF BytesInv, BytesSpared, ListedIsTrash
  <2> QED BY <2>1, <2>2, <2>3 DEF BytesSpared
<1>4. BytesStay'
  <2> SUFFICES ASSUME NEW x \in Files', file'[x].status = "active", file'[x].key \notin disputed'
               PROVE  file'[x].key \in object'
    BY DEF BytesStay
  <2>1. x \in Files /\ file'[x].key = file[x].key /\ file[x].status # "trashed"
    BY DEF BytesSpared
  <2>2. file[x].status = "active"
    BY <2>1 DEF FileStoreTypeOK, FileDoc, Status, Files, HasFile
  <2>3. file[x].key \in object
    BY <2>1, <2>2 DEF BytesInv, BytesStay, BytesSpared
  <2>4. \A p \in Purge : file[x].key \notin purge[p].keys
    BY <2>1, <2>2 DEF BytesInv, ListedIsTrash, BytesSpared
  <2> QED BY <2>1, <2>3, <2>4 DEF BytesSpared
<1> QED BY <1>1, <1>2, <1>3, <1>4 DEF BytesInv

\* A confirm that comes beside or after another one of its key disputes the key.
LEMMA HeadKeepsBytes ==
  ASSUME FileRequestTypeOK, BytesInv, UNCHANGED purge,
         NEW r \in FileRequest, NEW k \in Key, NEW loc \in Location, NEW match \in BOOLEAN,
         HeadObject(r, k, loc, match)
  PROVE  BytesInv'
<1> DEFINE q == IF match
                  THEN [Resting EXCEPT !.pc = "create", !.key = k, !.dest = loc]
                  ELSE [Resting EXCEPT !.pc = "discard", !.key = k]
<1>1. q.key = k /\ Pending(q)
  BY DEF Resting, Pending
<1>2. Resume(r, q) /\ k \in object /\ UNCHANGED <<file, object, accepted>>
  BY DEF HeadObject, driveVars, fileVars
<1> HIDE DEF q
<1>3. freq'[r] = q /\ \A s \in FileRequest \ {r} : freq'[s] = freq[s]
  BY <1>2 DEF Resume, FileRequestTypeOK
<1>4. /\ disputed \subseteq disputed'
      /\ k \notin disputed' => k \notin accepted /\ \A s \in FileRequest : freq[s].key # k
  BY DEF HeadObject
<1>5. Files' = Files
  BY <1>2 DEF Files, HasFile
<1>6. OneFilePerKey' /\ ListedIsTrash' /\ BytesStay'
  BY <1>2, <1>4, <1>5 DEF BytesInv, OneFilePerKey, ListedIsTrash, BytesStay
<1>7. ConfirmsAreAlone'
  <2> SUFFICES ASSUME NEW s \in FileRequest, Pending(freq'[s]), freq'[s].key \notin disputed'
               PROVE  /\ freq'[s].key \notin accepted'
                      /\ \A t \in FileRequest :
                           Pending(freq'[t]) /\ freq'[t].key = freq'[s].key => t = s
                      /\ freq'[s].pc = "create" => freq'[s].key \in object'
    BY DEF ConfirmsAreAlone, Pending
  <2>1. CASE s = r
    BY <1>1, <1>2, <1>3, <1>4, <2>1
  <2>2. CASE s # r
    <3>1. freq'[s] = freq[s] /\ freq[s].key \notin disputed /\ freq[s].key # k
      BY <1>3, <1>4, <2>2
    <3> QED BY <1>1, <1>2, <1>3, <3>1 DEF BytesInv, ConfirmsAreAlone
  <2> QED BY <2>1, <2>2
<1> QED BY <1>6, <1>7 DEF BytesInv

\* A discard takes the object of no active file but one whose key is disputed.
LEMMA DiscardKeepsBytes ==
  ASSUME FileRequestTypeOK, FilesInOrder, BytesInv, UNCHANGED purge,
         NEW r \in FileRequest, DeleteOne(r)
  PROVE  BytesInv'
<1>1. /\ freq[r].pc = "discard" /\ object' = object \ {freq[r].key}
      /\ UNCHANGED <<file, accepted, disputed>>
  BY DEF DeleteOne, uploadVars
<1>2. freq'[r] = Resting /\ \A s \in FileRequest \ {r} : freq'[s] = freq[s]
  BY DEF DeleteOne, Reply, Resume, FileRequestTypeOK
<1>3. Files' = Files
  BY <1>1 DEF Files, HasFile
<1>4. freq[r].key \notin disputed =>
        /\ freq[r].key \notin accepted
        /\ \A s \in FileRequest : Pending(freq[s]) /\ freq[s].key = freq[r].key => s = r
  BY <1>1 DEF BytesInv, ConfirmsAreAlone, Pending
<1>5. OneFilePerKey' /\ ListedIsTrash'
  BY <1>1, <1>3 DEF BytesInv, OneFilePerKey, ListedIsTrash
<1>6. BytesStay'
  BY <1>1, <1>3, <1>4 DEF BytesInv, BytesStay, FilesInOrder
<1>7. ConfirmsAreAlone'
  <2> SUFFICES ASSUME NEW s \in FileRequest, Pending(freq'[s]), freq'[s].key \notin disputed'
               PROVE  /\ freq'[s].key \notin accepted'
                      /\ \A t \in FileRequest :
                           Pending(freq'[t]) /\ freq'[t].key = freq'[s].key => t = s
                      /\ freq'[s].pc = "create" => freq'[s].key \in object'
    BY DEF ConfirmsAreAlone, Pending
  <2>1. ~Pending(Resting)
    BY DEF Pending, Resting
  <2>2. s # r /\ freq'[s] = freq[s]
    BY <1>2, <2>1
  <2>3. freq[s].key # freq[r].key
    BY <1>1, <1>4, <2>2
  <2>4. \A t \in FileRequest : Pending(freq'[t]) => freq'[t] = freq[t]
    BY <1>2, <2>1
  <2> QED BY <1>1, <2>2, <2>3, <2>4 DEF BytesInv, ConfirmsAreAlone
<1> QED BY <1>5, <1>6, <1>7 DEF BytesInv

\* A document is created for an object that is there.
LEMMA CreateKeepsBytes ==
  ASSUME FileStoreTypeOK, FileRequestTypeOK, FilesInOrder, BytesInv, UNCHANGED purge,
         NEW r \in FileRequest, NEW x \in FileId, FileCreated(r, x)
  PROVE  BytesInv'
<1>0. PICK k \in Key : k = freq[r].key
  BY FileCreatedEffect
<1>1. /\ Files' = Files \cup {x} /\ x \notin Files
      /\ \A y \in Files : file'[y] = file[y]
      /\ file'[x].key = k /\ file'[x].status = "active"
  BY <1>0, FileCreatedEffect
<1>2. /\ freq[r].pc = "create" /\ accepted' = accepted \cup {k}
      /\ UNCHANGED <<object, disputed>>
  BY <1>0 DEF FileCreated
<1>3. freq'[r] = Resting /\ \A s \in FileRequest \ {r} : freq'[s] = freq[s]
  BY DEF FileCreated, Reply, Resume, FileRequestTypeOK
<1>4. k \notin disputed =>
        /\ k \notin accepted /\ k \in object
        /\ \A s \in FileRequest : Pending(freq[s]) /\ freq[s].key = k => s = r
  BY <1>0, <1>2 DEF BytesInv, ConfirmsAreAlone, Pending
<1>5. \A y \in Files : file[y].key \in accepted
  BY DEF FilesInOrder
<1>6. OneFilePerKey' /\ BytesStay'
  BY <1>1, <1>2, <1>4, <1>5 DEF BytesInv, OneFilePerKey, BytesStay
<1>7. ListedIsTrash'
  BY <1>1, <1>2, <1>4, <1>5 DEF BytesInv, ListedIsTrash
<1>8. ConfirmsAreAlone'
  <2> SUFFICES ASSUME NEW s \in FileRequest, Pending(freq'[s]), freq'[s].key \notin disputed'
               PROVE  /\ freq'[s].key \notin accepted'
                      /\ \A t \in FileRequest :
                           Pending(freq'[t]) /\ freq'[t].key = freq'[s].key => t = s
                      /\ freq'[s].pc = "create" => freq'[s].key \in object'
    BY DEF ConfirmsAreAlone, Pending
  <2>1. ~Pending(Resting)
    BY DEF Pending, Resting
  <2>2. s # r /\ freq'[s] = freq[s]
    BY <1>3, <2>1
  <2>3. freq[s].key # k
    BY <1>2, <1>4, <2>2
  <2>4. \A t \in FileRequest : Pending(freq'[t]) => freq'[t] = freq[t]
    BY <1>3, <2>1
  <2> QED BY <1>2, <2>2, <2>3, <2>4 DEF BytesInv, ConfirmsAreAlone
<1> QED BY <1>6, <1>7, <1>8 DEF BytesInv

\* A purge lists the keys of trash; an undisputed one has no second document.
LEMMA ListKeepsBytes ==
  ASSUME FilesInOrder, BytesInv, PurgesTyped, NEW p \in Purge, ListExpired(p),
         UNCHANGED <<freq, accepted, disputed>>
  PROVE  BytesInv'
<1>1. file' = file /\ object' = object
  BY DEF ListExpired, driveVars, fileVars
<1>2. /\ purge'[p].keys = {file[x].key : x \in ExpiredFiles(now)}
      /\ \A q \in Purge \ {p} : purge'[q] = purge[q]
  BY DEF ListExpired, Advance, PurgesTyped
<1>3. Files' = Files
  BY <1>1 DEF Files, HasFile
<1>4. OneFilePerKey' /\ ConfirmsAreAlone' /\ BytesStay'
  BY <1>1, <1>3 DEF BytesInv, OneFilePerKey, ConfirmsAreAlone, BytesStay
<1>5. \A x \in ExpiredFiles(now) : x \in Files /\ file[x].status = "trashed"
  BY DEF ExpiredFiles, Expired
<1>6. ASSUME NEW k \in purge'[p].keys
      PROVE  /\ k \in accepted
             /\ k \notin disputed => \A x \in Files : file[x].key = k => file[x].status = "trashed"
  <2>1. PICK x \in ExpiredFiles(now) : k = file[x].key
    BY <1>2
  <2> QED BY <1>5, <2>1 DEF BytesInv, OneFilePerKey, FilesInOrder
<1>7. ListedIsTrash'
  BY <1>1, <1>2, <1>3, <1>6 DEF BytesInv, ListedIsTrash
<1> QED BY <1>4, <1>7 DEF BytesInv

\* What a file request may do to bytes and keys.
LEMMA FileSideKeepsBytes ==
  ASSUME SidesInv, BytesInv, FileSide
  PROVE  BytesInv'
<1>0. /\ FileStoreTypeOK /\ FileRequestTypeOK /\ FilesInOrder /\ FileRequestNext
      /\ UNCHANGED purge /\ FileStoreTypeOK' /\ freq \in [FileRequest -> FileReqState]
  BY FileSideKeepsOrder DEF SidesInv, TrashInv, StoresTyped, FileSide, trashSideVars,
     FileRequestTypeOK
<1>1. ~Pending(Resting)
  BY DEF Pending, Resting
<1>2. ASSUME Files' = Files,
             \A x \in Files : file'[x].key = file[x].key /\ file'[x].status = file[x].status,
             \A r \in FileRequest : Pending(freq'[r]) => freq'[r] = freq[r],
             UNCHANGED <<accepted, disputed>>, object \subseteq object'
      PROVE  BytesInv'
  <2>1. BytesSpared
    BY <1>0, <1>2 DEF BytesSpared
  <2> QED BY <1>0, <2>1, SparedKeepsBytes
<1>3. ASSUME NEW r \in FileRequest, NEW q, Resume(r, q), ~Pending(q)
      PROVE  \A s \in FileRequest : Pending(freq'[s]) => freq'[s] = freq[s]
  BY <1>0, <1>3 DEF Resume
<1>4. ASSUME NEW k \in Key, PresignUpload(k) \/ Put(k) PROVE BytesInv'
  <2>1. UNCHANGED <<file, freq, accepted, disputed>> /\ object \subseteq object'
    BY <1>4 DEF PresignUpload, Put, driveVars, fileVars, fileRequestVars, uploadVars
  <2> QED BY <1>2, <2>1 DEF Files, HasFile
<1>5. ASSUME NEW r \in FileRequest, NEW x \in FileId, NEW dest \in Location, LoadFile(r, x, dest)
      PROVE  BytesInv'
  <2> DEFINE q == [Resting EXCEPT !.pc = IF dest = Home THEN "save" ELSE "target",
                                  !.file = x, !.dest = dest, !.set = dest # file[x].folder]
  <2>1. ~Pending(q)
    BY DEF Pending, Resting
  <2>2. Resume(r, q) /\ UNCHANGED <<file, object, accepted, disputed>>
    BY <1>5 DEF LoadFile, driveVars, fileVars, uploadVars
  <2> HIDE DEF q
  <2> QED BY <1>2, <1>3, <2>1, <2>2 DEF Files, HasFile
<1>6. ASSUME NEW r \in FileRequest, CheckFolder(r) PROVE BytesInv'
  <2> DEFINE q == [freq[r] EXCEPT !.pc = "save"]
  <2>1. ~Pending(q)
    BY <1>0 DEF Pending, FileReqState
  <2>2. Resume(r, q) \/ Resume(r, Resting)
    BY <1>6 DEF CheckFolder, Reply
  <2>3. UNCHANGED <<file, object, accepted, disputed>>
    BY <1>6 DEF CheckFolder, driveVars, fileVars, uploadVars
  <2> HIDE DEF q
  <2> QED BY <1>1, <1>2, <1>3, <2>1, <2>2, <2>3 DEF Files, HasFile
<1>7. ASSUME NEW r \in FileRequest, SaveMove(r) PROVE BytesInv'
  <2>1. Resume(r, Resting) /\ UNCHANGED <<object, accepted, disputed>>
    BY <1>7 DEF SaveMove, Reply, uploadVars
  <2>2. CASE file' = file
    BY <1>1, <1>2, <1>3, <2>1, <2>2 DEF Files, HasFile
  <2>3. CASE file' # file
    <3>1. freq[r].pc = "save" /\ freq[r].file \in FileId
      BY <1>0, <1>7 DEF SaveMove, FilesInOrder, FreqInOrder
    <3>2. PICK x \in FileId : FileMoved(r, x)
      BY <1>7, <2>3, <3>1 DEF SaveMove, FileMoved, Files
    <3>3. /\ Files' = Files
          /\ \A y \in Files \ {x} : file'[y] = file[y]
          /\ file'[x].key = file[x].key /\ file'[x].status = file[x].status
      BY <1>0, <3>2, FileMovedEffect
    <3> QED BY <1>1, <1>2, <1>3, <2>1, <3>3
  <2> QED BY <2>2, <2>3
<1>8. ASSUME NEW r \in FileRequest, CreateFile(r) PROVE BytesInv'
  <2>1. PICK x \in FileId : FileCreated(r, x)
    BY <1>8 DEF CreateFile, FileCreated
  <2> QED BY <1>0, <2>1, CreateKeepsBytes
<1> QED
  BY <1>0, <1>4, <1>5, <1>6, <1>7, <1>8, HeadKeepsBytes, DiscardKeepsBytes DEF FileRequestNext

\* Without restores, deletes and purges take bytes of trash only.
LEMMA TrashSideKeepsBytes ==
  ASSUME SidesInv, ~Restores, BytesInv, TrashSide
  PROVE  BytesInv'
<1>0. /\ TrashInv /\ FileStoreTypeOK /\ FilesInOrder /\ FileStoreTypeOK' /\ PurgesTyped
      /\ UNCHANGED <<freq, accepted, disputed>>
  BY TrashSideShrinks DEF SidesInv, TrashInv, StoresTyped, TrashSide, fileRequestVars, uploadVars
<1>1. ASSUME NEW r \in TrashRequest, TrashRequestNext(r) PROVE BytesInv'
  <2>1. OnlyTrashes /\ Files' = Files
    BY <1>0, <1>1, RequestOnlyTrashes
  <2>2. \A x \in Files : file'[x].key = file[x].key
    BY <1>0, <1>1, RequestSpares
  <2>3. object' = object /\ purge' = purge
    BY <1>0, <1>1, RequestAgesNothing
  <2>4. BytesSpared
    BY <1>0, <2>1, <2>2, <2>3 DEF BytesSpared, OnlyTrashes
  <2> QED BY <1>0, <2>4, SparedKeepsBytes
<1>2. ASSUME NEW p \in Purge, PurgeNext(p), ~ListExpired(p) PROVE BytesInv'
  <2>1. OnlyTrashes /\ \A x \in Files' : file'[x] = file[x]
    BY <1>0, <1>2, PurgeOnlyTrashes
  <2>2. purge \in [Purge -> PurgeState]
    BY <1>0 DEF PurgesTyped
  <2>3. \A q \in Purge : purge'[q].keys \subseteq purge[q].keys
    <3>1. ASSUME NEW d \in PurgeState, Advance(p, d), d.keys \subseteq purge[p].keys
          PROVE  \A q \in Purge : purge'[q].keys \subseteq purge[q].keys
      BY <2>2, <3>1 DEF Advance
    <3>2. NoPurge \in PurgeState /\ NoPurge.keys = {}
      BY DEF NoPurge, PurgeState
    <3>3. PICK a \in PurgeState : a = [purge[p] EXCEPT !.pc = "files", !.keys = {}]
      BY <2>2 DEF PurgeState
    <3>4. a.keys = {}
      BY <2>2, <3>3 DEF PurgeState
    <3>5. PICK b \in PurgeState : b = [purge[p] EXCEPT !.pc = "folders"]
      BY <2>2 DEF PurgeState
    <3>6. b.keys = purge[p].keys
      BY <2>2, <3>5 DEF PurgeState
    <3> QED
      BY <1>2, <3>1, <3>2, <3>3, <3>4, <3>5, <3>6
         DEF PurgeNext, DeleteObjects, DeleteFiles, DeleteFolders, AbortPurge, Finish
  <2>4. \A k \in object \ object' : k \in purge[p].keys
    BY <1>2 DEF PurgeNext, DeleteObjects, DeleteFiles, DeleteFolders, AbortPurge, fileVars
  <2>5. BytesSpared
    BY <1>0, <2>1, <2>3, <2>4 DEF BytesSpared, OnlyTrashes
  <2> QED BY <1>0, <2>5, SparedKeepsBytes
<1> QED BY <1>0, <1>1, <1>2, ListKeepsBytes DEF TrashSide

\* The rest takes no bytes.
LEMMA RestKeepsBytes ==
  ASSUME SidesInv, SidesInv', BytesInv,
         FolderSide \/ DriveTick \/ DriveCrash \/ UNCHANGED driveSpecVars
  PROVE  BytesInv'
<1>1. /\ UNCHANGED <<file, object, accepted, disputed>>
      /\ UNCHANGED purge \/ purge' = [p \in Purge |-> NoPurge]
      /\ UNCHANGED freq \/ freq' = [r \in FileRequest |-> Resting]
  BY DEF FolderSide, DriveTick, Tick, DriveCrash, CrashHandlers, driveSpecVars, trashVars,
     driveVars, storeVars, fileVars, fileRequestVars, uploadVars, trashSideVars
<1>2. ~Pending(Resting) /\ NoPurge.keys = {}
  BY DEF Pending, Resting, NoPurge
<1>3. BytesSpared
  BY <1>1, <1>2 DEF BytesSpared, Files, HasFile
<1> QED BY <1>3, SparedKeepsBytes DEF SidesInv, TrashInv, StoresTyped

\* Without restores an active file keeps its bytes, however confirms, discards,
\* moves, deletes and purges interleave, unless its key was confirmed twice.
THEOREM ActiveFilesKeepBytes == ~Restores /\ DriveSpec => []BytesStay
<1>1. DriveInit => BytesInv
  <2> SUFFICES ASSUME DriveInit PROVE BytesInv
    OBVIOUS
  <2>1. /\ object = {file[x].key : x \in Files}
        /\ disputed = {k \in Key :
             \E x, y \in Files : x # y /\ file[x].key = k /\ file[y].key = k}
        /\ freq = [r \in FileRequest |-> Resting] /\ purge = [p \in Purge |-> NoPurge]
    BY DEF DriveInit, TrashInit, FileRequestInit
  <2>2. \A x \in Files : file[x].key \in Key
    BY DriveInvInit DEF DriveInv, TrashInv, StoresTyped, FileStoreTypeOK, FileDoc, Files, HasFile
  <2>3. OneFilePerKey /\ BytesStay
    BY <2>1, <2>2 DEF OneFilePerKey, BytesStay
  <2>4. ConfirmsAreAlone /\ ListedIsTrash
    BY <2>1 DEF ConfirmsAreAlone, ListedIsTrash, Pending, Resting, NoPurge
  <2> QED BY <2>3, <2>4 DEF BytesInv
<1>2. ASSUME ~Restores, DriveInv, DriveInv', BytesInv, [DriveNext]_driveSpecVars PROVE BytesInv'
  <2>1. SidesInv /\ SidesInv'
    BY <1>2 DEF DriveInv, SidesInv
  <2> QED
    BY <1>2, <2>1, FileSideKeepsBytes, TrashSideKeepsBytes, RestKeepsBytes DEF DriveNext
<1>3. ~Restores => []~Restores
  <2>1. ~Restores => (~Restores)'
    OBVIOUS
  <2> QED BY <2>1, PTL
<1>4. BytesInv => BytesStay
  BY DEF BytesInv
<1> QED BY <1>1, <1>2, <1>3, <1>4, DriveInvariance, PTL DEF DriveSpec

-----------------------------------------------------------------------------
(* Orphans came late *)

\* Whatever did not come late to its place is covered by the deletes under way.
CoveredButLate == \A L \in SUBSET (FolderId \cup FileId) : L = late => Covered(L)

\* Only items that are there count.
LEMMA CoveredByMore ==
  ASSUME NEW L, NEW M, Covered(L)', \A y \in Folders' \cup Files' : y \in L => y \in M
  PROVE  Covered(M)'
<1>1. ClosedBut(M)' /\ HomedBut(M)'
  BY DEF Covered, ClosedBut, HomedBut, ChildrenOf
<1>2. ASSUME NEW r \in TrashRequest PROVE StackCovers(treq[r].stack, M)'
  <2>1. PICK s : s = treq'[r].stack
    OBVIOUS
  <2>2. StackCovers(s, L)'
    BY <2>1 DEF Covered, StackCovers
  <2>3. \A e, w : Covers(e, w, L)' => Covers(e, w, M)'
    BY DEF Covers, ChildrenOf
  <2>4. StackCovers(s, M)'
    BY <2>2, <2>3 DEF StackCovers
  <2> QED BY <2>1, <2>4 DEF StackCovers
<1> QED BY <1>1, <1>2 DEF Covered

\* Steps that place nothing only drop what has left from the late items.
LEMMA UnplacedKeepsLate ==
  ASSUME NotePlaces, Folders' \subseteq Folders, Files' \subseteq Files,
         \A f \in Folders' : folder'[f].parent = folder[f].parent,
         \A x \in Files' : file'[x].folder = file[x].folder,
         NEW L, L = late, Covered(L)', NEW M, M = late'
  PROVE  Covered(M)'
<1>1. PlacedFolders = {} /\ PlacedFiles = {}
  BY DEF PlacedFolders, PlacedFiles, Folders, Files
<1>2. M = L \cap (Folders' \cup Files')
  BY <1>1 DEF NotePlaces
<1> QED BY <1>2, CoveredByMore

\* What is placed in a folder that is there, not in the trash, while no delete is
\* under way, is as covered as the rest; all else is noted as late.
LEMMA PlacingKeepsCovered ==
  ASSUME TrashInv, TrashInv', NotePlaces, treq' = treq,
         Folders \subseteq Folders', Files \subseteq Files',
         \A f \in Folders : folder'[f].status = folder[f].status,
         \A f \in Folders' \ Folders : folder'[f].status = "active",
         \A x \in Files : file'[x].status = file[x].status,
         \A x \in Files' \ Files : file'[x].status = "active",
         NEW L, L = late, Covered(L), NEW M, M = late'
  PROVE  Covered(M)'
<1>0. /\ folder' \in [FolderId -> FolderDoc \cup {NoDoc}]
      /\ file' \in [FileId -> FileDoc \cup {NoDoc}]
      /\ treq \in [TrashRequest -> TrashState] /\ HandlersInOrder
      /\ Folders' \subseteq FolderId /\ Files' \subseteq FileId
  BY DEF TrashInv, StoresTyped, HandlersTyped, FolderStoreTypeOK, FileStoreTypeOK, Folders, Files
<1> DEFINE Deleting == \E r \in TrashRequest : treq[r].pc = "folder"
           Safe(loc) == loc = Home \/ (/\ Stored(loc) /\ folder[loc].status # "trashed"
                                       /\ ~Deleting)
<1>1. \A loc : Safe(loc) <=> ~Unsafe(loc)
  BY DEF Unsafe
<1>2. ASSUME NEW f \in Folders', f \notin M
      PROVE  \/ f \in Folders \ L /\ folder[f].parent = folder'[f].parent
             \/ Safe(folder'[f].parent)
  <2>1. CASE f \in PlacedFolders
    BY <1>1, <1>2, <2>1 DEF NotePlaces
  <2>2. CASE f \notin PlacedFolders
    <3>1. f \notin PlacedFiles
      BY <1>0, <1>2, IdsAreDistinct DEF PlacedFiles
    <3>2. f \in Folders /\ folder[f].parent = folder'[f].parent
      BY <1>0, <1>2, <2>2 DEF PlacedFolders, Folders
    <3>3. f \notin L
      BY <1>2, <2>2, <3>1 DEF NotePlaces
    <3> QED BY <3>2, <3>3
  <2> QED BY <2>1, <2>2
<1>3. ASSUME NEW x \in Files', x \notin M
      PROVE  \/ x \in Files \ L /\ file[x].folder = file'[x].folder
             \/ Safe(file'[x].folder)
  <2>1. CASE x \in PlacedFiles
    BY <1>1, <1>3, <2>1 DEF NotePlaces
  <2>2. CASE x \notin PlacedFiles
    <3>1. x \notin PlacedFolders
      BY <1>0, <1>3, IdsAreDistinct DEF PlacedFolders
    <3>2. x \in Files /\ file[x].folder = file'[x].folder
      BY <1>0, <1>3, <2>2 DEF PlacedFiles, Files
    <3>3. x \notin L
      BY <1>3, <2>2, <3>1 DEF NotePlaces
    <3> QED BY <3>2, <3>3
  <2> QED BY <2>1, <2>2
<1> HIDE DEF Deleting
<1>4. ClosedBut(M)'
  <2> SUFFICES ASSUME NEW f \in Folders', folder'[f].status = "trashed"
               PROVE  /\ \A g \in Folders' \ M :
                           folder'[g].parent = f => folder'[g].status = "trashed"
                      /\ \A x \in Files' \ M :
                           file'[x].folder = f => file'[x].status = "trashed"
    BY DEF ClosedBut, ChildrenOf
  <2>1. f \in Folders /\ folder[f].status = "trashed" /\ f # Home
    BY <1>0, HomeIsNoFolder
  <2>2. ~Safe(f)
    BY <2>1
  <2>3. /\ \A g \in Folders \ L : folder[g].parent = f => folder[g].status = "trashed"
        /\ \A x \in Files \ L : file[x].folder = f => file[x].status = "trashed"
    BY <2>1 DEF Covered, ClosedBut, ChildrenOf
  <2> HIDE DEF Safe
  <2> QED BY <1>2, <1>3, <2>2, <2>3
<1>5. HomedBut(M)'
  <2>1. \A loc \in Location : Safe(loc) => loc \in Folders' \cup {Home}
    BY DEF Folders, Location
  <2>2. /\ \A f \in Folders' : folder'[f].parent \in Location
        /\ \A x \in Files' : file'[x].folder \in Location
    BY <1>0 DEF FolderDoc, FileDoc, Folders, Stored, Files, HasFile
  <2>3. /\ \A f \in Folders \ L : folder[f].status = "active" =>
              folder[f].parent \in Folders \cup {Home}
        /\ \A x \in Files \ L : file[x].status = "active" =>
              file[x].folder \in Folders \cup {Home}
    BY DEF Covered, HomedBut
  <2> HIDE DEF Safe
  <2> QED BY <1>2, <1>3, <2>1, <2>2, <2>3 DEF HomedBut
<1>6. ASSUME NEW r \in TrashRequest PROVE StackCovers(treq[r].stack, M)'
  <2>1. PICK s \in Seq(Frame) : s = treq[r].stack
    BY <1>0 DEF TrashState
  <2>2. StackCovers(s, L)
    BY <2>1 DEF Covered, StackCovers
  <2>3. ASSUME NEW i \in DOMAIN s PROVE Covers(s[i], Waiting(s, i), M)'
    <3>1. s # <<>>
      BY <2>3
    <3>2. Deleting
      BY <1>0, <2>1, <3>1 DEF Deleting, HandlersInOrder, InOrder
    <3>3. s[i] \in Frame /\ s[i].id \in FolderId
      <4>1. s[i] \in Frame
        BY <2>1, <2>3
      <4> QED BY <4>1 DEF Frame
    <3>4. ~Safe(s[i].id)
      BY <3>2, <3>3, HomeIsNoFolder
    <3>5. PICK e, w : e = s[i] /\ w = Waiting(s, i)
      OBVIOUS
    <3>6. Covers(e, w, L) /\ ~Safe(e.id)
      BY <2>2, <3>4, <3>5 DEF StackCovers
    <3>7. /\ \A x \in Files \ L : file[x].folder = e.id =>
               file[x].status = "trashed" \/ (e.step = "files" /\ x \in e.scan)
          /\ e.step = "each" =>
               \A g \in Folders \ L :
                 folder[g].parent = e.id => folder[g].status = "trashed" \/ g \in e.subs \cup w
      BY <3>6 DEF Covers, ChildrenOf
    <3> HIDE DEF Safe
    <3>8. /\ \A x \in Files' \ M : file'[x].folder = e.id =>
               file'[x].status = "trashed" \/ (e.step = "files" /\ x \in e.scan)
          /\ e.step = "each" =>
               \A g \in Folders' \ M :
                 folder'[g].parent = e.id => folder'[g].status = "trashed" \/ g \in e.subs \cup w
      BY <1>2, <1>3, <3>6, <3>7
    <3>9. Covers(e, w, M)'
      BY <3>8 DEF Covers, ChildrenOf
    <3> QED BY <3>5, <3>9 DEF Covers, Waiting
  <2>4. StackCovers(s, M)'
    BY <2>3 DEF StackCovers
  <2> QED BY <2>1, <2>4 DEF StackCovers
<1> QED BY <1>4, <1>5, <1>6 DEF Covered

\* Every step of the drive, without restores, keeps what is not late covered.
LEMMA StepKeepsCovered ==
  ASSUME ~Restores, SidesInv, SidesInv', [DriveNext]_driveSpecVars,
         NEW L, L = late, Covered(L), NEW M, M = late'
  PROVE  Covered(M)'
<1>0. /\ TrashInv /\ TrashInv' /\ Inv /\ FileStoreTypeOK /\ FileRequestTypeOK /\ FilesInOrder
      /\ FolderStoreTypeOK
  BY DEF SidesInv, TrashInv, StoresTyped
<1>1. CASE UNCHANGED driveSpecVars
  <2>1. UNCHANGED <<folder, file, treq>> /\ M = L
    BY <1>1 DEF driveSpecVars, trashVars, driveVars, storeVars, fileVars
  <2> QED BY <2>1, QuietKeepsCovered
<1>2. CASE NotePlaces /\ FolderSide
  <2>1. /\ Folders \subseteq Folders'
        /\ \A f \in Folders : folder'[f].status = folder[f].status
        /\ \A f \in Folders' \ Folders : folder'[f].status = "active"
    BY <1>0, <1>2, FolderSideEffect DEF FolderSide
  <2>2. UNCHANGED <<file, treq>>
    BY <1>2 DEF FolderSide, fileVars, trashSideVars
  <2>3. Files' = Files
    BY <2>2 DEF Files, HasFile
  <2> QED BY <1>0, <1>2, <2>1, <2>2, <2>3, PlacingKeepsCovered
<1>3. CASE NotePlaces /\ FileSide
  <2>1. /\ UNCHANGED folder /\ Files \subseteq Files'
        /\ \A x \in Files : file'[x].status = file[x].status
        /\ \A x \in Files' \ Files : file'[x].status = "active"
    BY <1>0, <1>3, FileSideEffect DEF FileSide
  <2>2. treq' = treq
    BY <1>3 DEF FileSide, trashSideVars
  <2>3. Folders' = Folders
    BY <2>1 DEF Folders, Stored
  <2> QED BY <1>0, <1>3, <2>1, <2>2, <2>3, PlacingKeepsCovered
<1>4. CASE NotePlaces /\ TrashSide
  <2>1. OnlyShrinks /\ FilesShrink /\ \A x \in Files' : file'[x].folder = file[x].folder
    BY <1>0, <1>4, TrashSideShrinks
  <2>2. Covered(L)'
    BY <1>0, <1>4, RequestKeepsCovered, PurgeKeepsCovered DEF TrashSide
  <2> QED BY <1>4, <2>1, <2>2, UnplacedKeepsLate DEF OnlyShrinks, FilesShrink
<1>5. CASE NotePlaces /\ (DriveTick \/ DriveCrash)
  <2>1. UNCHANGED <<folder, file>> /\ (UNCHANGED treq \/ CrashHandlers)
    BY <1>5 DEF DriveTick, Tick, DriveCrash, driveVars, storeVars, fileVars
  <2>2. Covered(L)'
    BY <2>1, QuietKeepsCovered
  <2> QED BY <1>5, <2>1, <2>2, UnplacedKeepsLate DEF Folders, Files, Stored, HasFile
<1> QED BY <1>1, <1>2, <1>3, <1>4, <1>5 DEF DriveNext

\* Without restores, an active item lies in a folder that is gone only if it was
\* placed there when the folder was already in the trash or gone, or beside a
\* delete: a delete, however long its recursion and whatever runs beside it, takes
\* along everything that was in the folder before.
THEOREM OnlyLateItemsAreOrphans == ~Restores /\ DriveSpec => []OrphansCameLate
<1>1. DriveInit => CoveredButLate
  <2> SUFFICES ASSUME DriveInit, NEW L, L = late PROVE Covered(L)
    BY DEF CoveredButLate
  <2>1. L = {} /\ Covered({})
    BY CoveredInit DEF DriveInit
  <2> QED BY <2>1
<1>2. ASSUME ~Restores, DriveInv, DriveInv', CoveredButLate, [DriveNext]_driveSpecVars
      PROVE  CoveredButLate'
  <2> SUFFICES ASSUME NEW M \in SUBSET (FolderId \cup FileId), M = late' PROVE Covered(M)'
    BY DEF CoveredButLate
  <2>1. PICK L \in SUBSET (FolderId \cup FileId) : L = late
    BY <1>2 DEF DriveInv
  <2>2. Covered(L) /\ SidesInv /\ SidesInv'
    BY <1>2, <2>1 DEF CoveredButLate, DriveInv, SidesInv
  <2> QED BY <1>2, <2>1, <2>2, StepKeepsCovered
<1>3. ~Restores => []~Restores
  <2>1. ~Restores => (~Restores)'
    OBVIOUS
  <2> QED BY <2>1, PTL
<1>4. DriveInv /\ CoveredButLate => OrphansCameLate
  <2> SUFFICES ASSUME DriveInv, CoveredButLate PROVE OrphansCameLate
    OBVIOUS
  <2>1. PICK L \in SUBSET (FolderId \cup FileId) : L = late
    BY DEF DriveInv
  <2>2. HomedBut(L)
    BY <2>1 DEF CoveredButLate, Covered
  <2> QED BY <2>1, <2>2 DEF HomedBut, OrphansCameLate
<1> QED BY <1>1, <1>2, <1>3, <1>4, DriveInvariance, PTL DEF DriveSpec

=============================================================================

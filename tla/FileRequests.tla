----------------------------- MODULE FileRequests -----------------------------
(* Uploads and moves of files: presignUpload, confirmUpload and updateFile of *)
(* FilesService, and the client's own PUT to the bucket in between.           *)
(*                                                                            *)
(* Names, types and sizes of files are left out: whether the size a client    *)
(* confirms is that of the object is left open, and a PATCH that only renames *)
(* writes nothing the model has.                                              *)
EXTENDS FileStore

CONSTANT FileRequest   \* slots: how many confirms or updates are in flight

VARIABLES
  freq,       \* per slot, the handler's local variables
  offer,      \* what has become of each key's presigned URL
  filed,      \* ids of file documents that exist or have existed
  accepted,   \* history: the keys confirmUpload has made a document for
  disputed    \* history: the keys confirmed beside or after another confirm

uploadVars == <<offer, filed, accepted, disputed>>
fileRequestVars == <<freq, uploadVars>>

Offer == {"fresh", "open", "lapsed"}

FileReqState ==
  [pc   : {"idle", "create", "discard", "target", "save"},
   file : FileId \cup {NoDoc},     \* :id of a PATCH
   key  : Key \cup {NoDoc},        \* key of a confirm
   dest : Location,                \* folderId of the body
   set  : BOOLEAN]                 \* does it modify the loaded document?

Resting == [pc |-> "idle", file |-> NoDoc, key |-> NoDoc, dest |-> Home, set |-> FALSE]

Resume(r, next) == freq' = [freq EXCEPT ![r] = next]
Reply(r) == Resume(r, Resting)

-----------------------------------------------------------------------------
(* Uploading *)

\* The folder, if one is named, is looked up before the key is drawn, and not
\* kept: a refusal leaves nothing behind.
PresignUpload(k) ==
  /\ offer[k] = "fresh"
  /\ offer' = [offer EXCEPT ![k] = "open"]
  /\ UNCHANGED <<driveVars, freq, filed, accepted, disputed>>

\* The client's PUT, which the server does not see.
Put(k) ==
  /\ offer[k] = "open"
  /\ object' = object \cup {k}
  /\ UNCHANGED <<storeVars, file, now, fileRequestVars>>

\* For a mutant: the bucket is not asked.
HeadBlindly(r, k, loc, match) ==
  /\ freq[r].pc = "idle"
  /\ offer[k] # "fresh"
  /\ Resume(r, [Resting EXCEPT !.pc = "create", !.key = k, !.dest = loc])
  /\ UNCHANGED <<driveVars, uploadVars>>

\* The object must be there (400); its length decides what comes next.  Nobody
\* looks for another confirm of the key, and nobody looks for the folder, which
\* may be any id.
HeadObject(r, k, loc, match) ==
  /\ freq[r].pc = "idle"
  /\ offer[k] # "fresh"
  /\ k \in object
  /\ Resume(r, IF match
                  THEN [Resting EXCEPT !.pc = "create", !.key = k, !.dest = loc]
                  ELSE [Resting EXCEPT !.pc = "discard", !.key = k])
  /\ disputed' = IF k \in accepted \/ \E q \in FileRequest : freq[q].key = k
                   THEN disputed \cup {k}
                   ELSE disputed
  /\ UNCHANGED <<driveVars, offer, filed, accepted>>

\* The lengths differ: deleteOne, and 400.
DeleteOne(r) ==
  /\ freq[r].pc = "discard"
  /\ object' = object \ {freq[r].key}
  /\ Reply(r)
  /\ UNCHANGED <<storeVars, file, now, uploadVars>>

CreateFile(r) ==
  /\ freq[r].pc = "create"
  /\ \E x \in FileId \ filed :
       /\ file' = [file EXCEPT ![x] = [folder |-> freq[r].dest, key |-> freq[r].key,
                                       status |-> "active", deletedAt |-> Null]]
       /\ filed' = filed \cup {x}
  /\ accepted' = accepted \cup {freq[r].key}
  /\ Reply(r)
  /\ UNCHANGED <<storeVars, object, now, offer, disputed>>

-----------------------------------------------------------------------------
(* updateFile with a folderId *)

\* findOne by id, whatever the status.
LoadFile(r, x, dest) ==
  /\ freq[r].pc = "idle"
  /\ HasFile(x)
  /\ dest \in Known
  /\ Resume(r, [Resting EXCEPT !.pc = IF dest = Home THEN "save" ELSE "target",
                               !.file = x, !.dest = dest, !.set = dest # file[x].folder])
  /\ UNCHANGED <<driveVars, uploadVars>>

\* The folder must exist (404); it may well be in the trash.
CheckFolder(r) ==
  /\ freq[r].pc = "target"
  /\ IF Stored(freq[r].dest) THEN Resume(r, [freq[r] EXCEPT !.pc = "save"]) ELSE Reply(r)
  /\ UNCHANGED <<driveVars, uploadVars>>

\* For a mutant: a move dates a file in the trash anew.
SaveMoveRedating(r) ==
  LET x == freq[r].file
  IN /\ freq[r].pc = "save"
     /\ file' = IF HasFile(x)
                  THEN [file EXCEPT ![x].folder = freq[r].dest,
                                    ![x].deletedAt = IF @ = Null THEN Null ELSE now]
                  ELSE file
     /\ Reply(r)
     /\ UNCHANGED <<storeVars, object, now, uploadVars>>

\* save() writes the folder by _id, and nothing when the file was already there;
\* DocumentNotFoundError (500) when the document is gone.
SaveMove(r) ==
  LET x == freq[r].file
  IN /\ freq[r].pc = "save"
     /\ file' = IF HasFile(x) /\ freq[r].set
                  THEN [file EXCEPT ![x].folder = freq[r].dest]
                  ELSE file
     /\ Reply(r)
     /\ UNCHANGED <<storeVars, object, now, uploadVars>>

-----------------------------------------------------------------------------
\* A presigned URL lives 300 seconds: it is dead long before anything uploaded
\* through it can have spent the retention period in the trash.
Lapse == offer' = [k \in Key |-> IF offer[k] = "open" THEN "lapsed" ELSE offer[k]]

FileRequestInit ==
  /\ freq = [r \in FileRequest |-> Resting]
  /\ filed = Files
  /\ accepted = {file[x].key : x \in Files}
  /\ disputed = {k \in Key : \E x, y \in Files : x # y /\ file[x].key = k /\ file[y].key = k}
  /\ offer = [k \in Key |-> IF k \in accepted THEN "lapsed" ELSE "fresh"]

FileRequestNext ==
  \/ \E k \in Key : PresignUpload(k) \/ Put(k)
  \/ \E r \in FileRequest :
       \/ \E k \in Key, loc \in Location, match \in BOOLEAN : HeadObject(r, k, loc, match)
       \/ DeleteOne(r) \/ CreateFile(r)
       \/ \E x \in FileId, dest \in Location : LoadFile(r, x, dest)
       \/ CheckFolder(r) \/ SaveMove(r)

-----------------------------------------------------------------------------
FileRequestTypeOK ==
  /\ freq \in [FileRequest -> FileReqState]
  /\ offer \in [Key -> Offer]
  /\ Files \subseteq filed /\ filed \subseteq FileId
  /\ disputed \subseteq accepted \cup {k \in Key : offer[k] # "fresh"}
  /\ accepted \subseteq Key

\* An active file has its bytes, unless its client confirmed the key a second
\* time: only then can a discard, or the purge of another document of the same
\* key, take them (confirmUpload, files.service.ts:53-86).
BytesStay ==
  \A x \in Files :
    file[x].status = "active" => file[x].key \in object \cup disputed

=============================================================================

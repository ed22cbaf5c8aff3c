------------------------------ MODULE FileStore ------------------------------
(* The files collection, the bucket behind it and the clock that ages trash. *)
EXTENDS FolderStore

CONSTANTS
  FileId,     \* ids of file documents
  Key,        \* object keys in the bucket
  Retention   \* how long the trash keeps an item, in ticks of the clock

ASSUME RetentionIsPositive == Retention \in Nat \ {0}   \* a day, or thirty
ASSUME NullIsNoTime == Null \notin Nat

VARIABLES
  file,       \* the collection: FileId -> document or NoDoc
  object,     \* the keys the bucket holds an object for
  now         \* new Date(), in ticks

fileVars == <<file, object, now>>
driveVars == <<storeVars, fileVars>>

FileDoc == [folder : Location, key : Key, status : Status, deletedAt : Time]

ASSUME NoDocIsNoFile == NoDoc \notin FileDoc

HasFile(x) == file[x] # NoDoc
Files == {x \in FileId : HasFile(x)}

Opposite(status) == IF status = "active" THEN "trashed" ELSE "active"

\* For a mutant: the status alone, the date forgotten.
MarkedWithoutDate(doc, status, at) == [doc EXCEPT !.status = status]

\* { status, deletedAt } of every update that trashes or restores a document.
Marked(doc, status, at) == [doc EXCEPT !.status = status, !.deletedAt = at]

\* { status: 'trashed', deletedAt: { $lte: at - retention } }: null matches no date.
Expired(doc, at) ==
  doc.status = "trashed" /\ doc.deletedAt # Null /\ doc.deletedAt + Retention <= at

-----------------------------------------------------------------------------
FileStoreTypeOK ==
  /\ file \in [FileId -> FileDoc \cup {NoDoc}]
  /\ object \subseteq Key
  /\ now \in Nat

\* An item is in the trash exactly when it carries a date.  An item in the trash
\* without one would never match the purge's query and stay for ever, and a date
\* left on a restored item would count against its next stay.
TrashedAreDated ==
  /\ \A f \in Folders : folder[f].status = "trashed" <=> folder[f].deletedAt # Null
  /\ \A x \in Files : file[x].status = "trashed" <=> file[x].deletedAt # Null

\* A folder in the trash holds nothing active: no active folder and no active
\* file lies directly in it, hence none below it.  Deleting a folder marks
\* "everything inside it (subfolders + files)" (docs/frontend-handoff, part 4).
TrashIsClosed ==
  \A f \in Folders : folder[f].status = "trashed" =>
    /\ \A g \in ChildrenOf(f) : folder[g].status = "trashed"
    /\ \A x \in Files : file[x].folder = f => file[x].status = "trashed"

\* An active item never lies in a folder that is gone, where no listing reaches it.
NoActiveOrphan ==
  /\ \A g \in Folders :
       folder[g].status = "active" => folder[g].parent \in Folders \cup {Home}
  /\ \A x \in Files : file[x].status = "active" => file[x].folder \in Folders \cup {Home}

\* The bytes of an active file are in the bucket.
ActiveFileHasObject ==
  \A x \in Files : file[x].status = "active" => file[x].key \in object

=============================================================================

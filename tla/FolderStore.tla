----------------------------- MODULE FolderStore -----------------------------
(* The folders collection of one user, as MongoDB keeps it.                  *)
(*                                                                           *)
(* Every query of the service carries the userId of the caller's token, so   *)
(* the documents of two users never meet and one user is modelled.  MongoDB  *)
(* applies an operation to one document atomically and nothing larger.       *)
EXTENDS Naturals, FiniteSets

CONSTANTS
  FolderId,   \* the ids folders may be given
  Name,       \* folder names
  Home,       \* parentId: null, the top of the drive
  NoDoc,      \* an id with no document
  Null        \* deletedAt: null

ASSUME HomeIsNoFolder == Home \notin FolderId

VARIABLES
  folder,     \* the collection: FolderId -> document or NoDoc
  minted      \* ids of documents that exist or have existed: an id a client may know

storeVars == <<folder, minted>>

Location == FolderId \cup {Home}
Status == {"active", "trashed"}
Time == Nat \cup {Null}

FolderDoc == [parent : Location, name : Name, status : Status, deletedAt : Time]

ASSUME NoDocIsNoFolder == NoDoc \notin FolderDoc

Stored(f) == folder[f] # NoDoc
Folders == {f \in FolderId : Stored(f)}

\* A client names folders it has been told of.
Known == minted \cup {Home}

\* find({ parentId: f, userId }), whatever the status of the children
ChildrenOf(f) == {g \in Folders : folder[g].parent = f}

\* For a mutant: the schema without deletedAt's default.
NewFolderUndated(loc, n) == [parent |-> loc, name |-> n, status |-> "active"]

\* What FolderSchema's defaults make of a new document.
NewFolder(loc, n) ==
  [parent |-> loc, name |-> n, status |-> "active", deletedAt |-> Null]

\* For a mutant: the schema without its unique index.
IndexAdmitsAll(f, loc, n) == TRUE

\* The unique index on (userId, parentId, name), which covers trashed folders
\* too: may document f take this place and name?
IndexAdmits(f, loc, n) ==
  \A g \in Folders \ {f} : ~(folder[g].parent = loc /\ folder[g].name = n)

-----------------------------------------------------------------------------
FolderStoreTypeOK ==
  /\ folder \in [FolderId -> FolderDoc \cup {NoDoc}]
  /\ minted \subseteq FolderId
  /\ Folders \subseteq minted

\* Two folders in one place never share a name, trashed ones included
\* (folder.schema.ts, the compound unique index).
UniqueSiblings ==
  \A f, g \in Folders :
    folder[f].parent = folder[g].parent /\ folder[f].name = folder[g].name => f = g

\* The parent links hold no cycle: no set of folders has all its parents inside
\* itself.  updateFolder refuses a move into the folder itself or into one of
\* its subfolders for this; buildBreadcrumbPath, getDescendantFolderIds and
\* trashFolderRecursive never end on a cycle.
Acyclic ==
  \A S \in SUBSET Folders : S # {} => \E f \in S : folder[f].parent \notin S

=============================================================================

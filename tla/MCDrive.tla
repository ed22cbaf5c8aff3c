------------------------------- MODULE MCDrive -------------------------------
(* Drive on one empty folder a; folder b and the files are still to come.     *)
EXTENDS Drive, TLC

CONSTANTS a, b, x1, x2, k, n1

MCTree == a :> NewFolder(Home, n1) @@ b :> NoDoc
MCPlace == x1 :> NoDoc @@ x2 :> NoDoc

Symmetry == Permutations(FileId) \cup Permutations(FileRequest)

\* With one name a rename writes nothing: no PATCH carries a name.
NoRenames ==
  \A r \in Request : req[r].name # Keep => req[r].pc \in {"idle", "parent", "lookup", "insert"}

\* A confirm may name any id.  One that has never been a folder's is told apart by
\* nothing from one whose folder is gone, and is left out.
NoStrangeIds == \A r \in FileRequest : freq[r].dest \in Known

\* Either folders change, and there is one file and one file request at a time; or
\* folders rest, and there may be two of each.
OneFile ==
  /\ Cardinality(filed) <= 1
  /\ Cardinality({r \in FileRequest : freq[r].pc # "idle"}) <= 1
FoldersRest == b \notin minted /\ \A r \in Request : At(r, "idle")

FilesOrFolders == NoRenames /\ NoStrangeIds /\ (OneFile \/ FoldersRest)
=============================================================================

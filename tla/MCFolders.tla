------------------------------ MODULE MCFolders ------------------------------
(* FolderRequests on a small instance.                                       *)
EXTENDS FolderRequests, TLC

Symmetry == Permutations(FolderId) \cup Permutations(Name)

\* No PATCH carries a name: clients move folders and do not rename them.
NoRenames ==
  \A r \in Request : req[r].name # Keep => req[r].pc \in {"idle", "parent", "lookup", "insert"}
=============================================================================

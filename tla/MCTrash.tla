------------------------------- MODULE MCTrash -------------------------------
(* TrashRequests on a folder a with a subfolder b and a file in each, and on  *)
(* a alone with one file, or with two that share their object.                *)
EXTENDS TrashRequests, TLC

CONSTANTS a, b, x1, x2, j, k, n1

InFolder(loc, key) == [folder |-> loc, key |-> key, status |-> "active", deletedAt |-> Null]

MCTree == a :> NewFolder(Home, n1) @@ b :> NewFolder(a, n1)
MCPlace == x1 :> InFolder(a, j) @@ x2 :> InFolder(b, k)
MCLeafTree == a :> NewFolder(Home, n1)
MCLeafPlace == x1 :> InFolder(a, j)

\* As after a confirm that was repeated (confirmUpload).
MCSharedPlace == x1 :> InFolder(a, j) @@ x2 :> InFolder(a, j)

Symmetry == Permutations(TrashRequest) \cup Permutations(Purge)
=============================================================================

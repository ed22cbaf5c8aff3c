------------------------------- MODULE MCViews -------------------------------
(* DriveViews on a folder a with a subfolder b and a file in each.            *)
EXTENDS DriveViews, TLC

CONSTANTS a, b, x1, x2, j, k, n1, n2

InFolder(loc, key) == [folder |-> loc, key |-> key, status |-> "active", deletedAt |-> Null]

MCTree == a :> NewFolder(Home, n1) @@ b :> NewFolder(a, n2)
MCPlace == x1 :> InFolder(a, j) @@ x2 :> InFolder(b, k)

\* Bounds: the writers move folders and do not rename them, and touch one item
\* during a read, any of them, as often as they like.
MovesOnly == \A r \in Request : req[r].name = Keep

OneTouched == \A v \in View : view[v].pc # "idle" => Cardinality(Item \ steady[v]) <= 1

SmallDrive == MovesOnly /\ OneTouched
=============================================================================

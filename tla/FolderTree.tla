------------------------------ MODULE FolderTree ------------------------------
(* What the folder requests promise, with nothing of how they do it: a tree   *)
(* of named folders on which every create, rename and move acts at once, or   *)
(* not at all.                                                                *)
CONSTANTS
  FolderId,   \* folders
  Name,       \* their names
  Home,       \* the top of the tree
  NoDoc       \* no such folder

VARIABLE tree   \* FolderId -> [parent, name], or NoDoc

Members == {f \in FolderId : tree[f] # NoDoc}

\* f and everything inside it: the least set with f that is closed under children.
Below(f) ==
  {g \in Members :
     \A S \in SUBSET Members :
       (f \in S /\ \A h \in Members : tree[h].parent \in S => h \in S) => g \in S}

\* May folder f have this place and this name?
Fits(f, loc, n) ==
  /\ loc \in Members \cup {Home}
  /\ \A g \in Members \ {f} : tree[g] # [parent |-> loc, name |-> n]

Add(f, loc, n) ==
  /\ f \notin Members
  /\ Fits(f, loc, n)
  /\ tree' = [tree EXCEPT ![f] = [parent |-> loc, name |-> n]]

\* A rename, a move, or both: never into the folder itself or below it.
Change(f, loc, n) ==
  /\ f \in Members
  /\ Fits(f, loc, n)
  /\ loc \notin Below(f)
  /\ tree' = [tree EXCEPT ![f] = [parent |-> loc, name |-> n]]

Init == tree = [f \in FolderId |-> NoDoc]

Next ==
  \E f \in FolderId, loc \in FolderId \cup {Home}, n \in Name :
    Add(f, loc, n) \/ Change(f, loc, n)

Spec == Init /\ [][Next]_tree

=============================================================================

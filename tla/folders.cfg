\* Three folders, two names, two requests in flight, of which one may move.
CONSTANTS
  FolderId = {a, b, c}
  Name = {n1, n2}
  Home = Home
  NoDoc = NoDoc
  Null = Null
  Request = {r1, r2}
  Movers = {r1}
  Keep = Keep
SPECIFICATION FolderSpec
SYMMETRY Symmetry
INVARIANTS FolderTypeOK UniqueSiblings Acyclic
PROPERTIES NoLostUpdate ActsOnATree

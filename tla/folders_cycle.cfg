\* Three folders, two names, two requests in flight, both of which may move.
CONSTANTS
  FolderId = {a, b, c}
  Name = {n1, n2}
  Home = Home
  NoDoc = NoDoc
  Null = Null
  Request = {r1, r2}
  Movers = {r1, r2}
  Keep = Keep
SPECIFICATION FolderSpec
SYMMETRY Symmetry
INVARIANT Acyclic

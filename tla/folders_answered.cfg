\* Four folders, two names, two requests in flight, of which one may move; no PATCH
\* carries a name.
CONSTANTS
  FolderId = {a, b, c}
  Name = {n1, n2}
  Home = Home
  NoDoc = NoDoc
  Null = Null
  Request = {r1, r2, r3}
  Movers = {r1}
  Keep = Keep
SPECIFICATION FolderFairSpec
PROPERTY EveryRequestAnswered
CONSTRAINT NoRenames

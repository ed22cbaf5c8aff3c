\* One read beside one writer at a time: moves of folders to any place, deletes and
\* restores of folders and files.
CONSTANTS
  a = a
  b = b
  x1 = x1
  x2 = x2
  j = j
  k = k
  n1 = n1
  n2 = n2
  FolderId = {a, b}
  FileId = {x1, x2}
  Key = {j, k}
  Name = {n1, n2}
  Home = Home
  NoDoc = NoDoc
  Null = Null
  Keep = Keep
  Request = {r1}
  Movers = {r1}
  FileRequest = {}
  Retention = 1
  MaxTime = 0
  TrashRequest = {t1}
  Purge = {}
  Cron = {}
  Restores = TRUE
  MaxBusy = 1
  View = {v1}
  MaxFiles = 1
  MaxAsked = 2
  Tree <- MCTree
  Place <- MCPlace
SPECIFICATION ViewsSpec
CONSTRAINT SmallDrive
INVARIANTS ViewsTypeOK ContentsAreExact TrashListingIsExact 

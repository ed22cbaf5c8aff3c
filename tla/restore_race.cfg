\* A restore beside a purge.
CONSTANTS
  a = a
  b = b
  x1 = x1
  x2 = x2
  j = j
  k = k
  n1 = n1
  FolderId = {a}
  FileId = {x1}
  Key = {j}
  Name = {n1}
  Home = Home
  NoDoc = NoDoc
  Null = Null
  Retention = 2
  MaxTime = 3
  TrashRequest = {t1}
  Purge = {p1}
  Cron = {p1}
  Restores = TRUE
  Tree <- MCLeafTree
  Place <- MCLeafPlace
SPECIFICATION TrashSpec
INVARIANT ActiveFileHasObject

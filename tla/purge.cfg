\* One folder with two files of one key: deletes, restores, two overlapping purges, crashes, outages.
CONSTANTS
  a = a
  b = b
  x1 = x1
  x2 = x2
  j = j
  k = k
  n1 = n1
  FolderId = {a}
  FileId = {x1, x2}
  Key = {j}
  Name = {n1}
  Home = Home
  NoDoc = NoDoc
  Null = Null
  Retention = 2
  MaxTime = 2
  TrashRequest = {t1}
  Purge = {p1, p2}
  Cron = {p1}
  Restores = TRUE
  Tree <- MCLeafTree
  Place <- MCSharedPlace
SPECIFICATION TrashFairSpec
INVARIANTS TrashedAreDated NoOrphanObject
PROPERTIES PurgeSparesTheRest EventuallyPurged

\* Two deletes at once, a purge, crashes and outages, no restores.
CONSTANTS
  a = a
  b = b
  x1 = x1
  x2 = x2
  j = j
  k = k
  n1 = n1
  FolderId = {a, b}
  FileId = {x1, x2}
  Key = {j, k}
  Name = {n1}
  Home = Home
  NoDoc = NoDoc
  Null = Null
  Retention = 2
  MaxTime = 3
  TrashRequest = {t1, t2}
  Purge = {p1}
  Cron = {p1}
  Restores = FALSE
  Tree <- MCTree
  Place <- MCPlace
SPECIFICATION TrashSpec
SYMMETRY Symmetry
INVARIANTS TrashTypeOK TrashIsClosed TrashedAreDated NoActiveOrphan NoOrphanObject
PROPERTIES PurgeSparesTheRest

\* Folder requests, file requests, deletes and a purge, any two of them at a time,
\* with crashes and outages; two file requests at a time, or two files of one key,
\* while the folders rest.
CONSTANTS
  a = a
  b = b
  x1 = x1
  x2 = x2
  k = k
  n1 = n1
  FolderId = {a, b}
  FileId = {x1, x2}
  Key = {k}
  Name = {n1}
  Home = Home
  NoDoc = NoDoc
  Null = Null
  Keep = Keep
  Request = {r1}
  Movers = {r1}
  FileRequest = {f1, f2}
  Retention = 1
  MaxTime = 1
  TrashRequest = {t1}
  Purge = {p1}
  Cron = {p1}
  Restores = FALSE
  MaxBusy = 2
  Tree <- MCTree
  Place <- MCPlace
SPECIFICATION DriveSpec
SYMMETRY Symmetry
CONSTRAINT FilesOrFolders
INVARIANTS
  DriveTypeOK UniqueSiblings Acyclic TrashedAreDated NoForgottenObject BytesStay
  OrphansCameLate
PROPERTIES PurgeSparesTheRest FileUpdatesAreKept

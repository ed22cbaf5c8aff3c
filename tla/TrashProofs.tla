------------------------------ MODULE TrashProofs ------------------------------
(* What TrashRequests guarantees for every drive, every number of deletes,    *)
(* restores and purges, and every retention period: types, dates, nothing     *)
(* purged before its time, no object forgotten, and, without restores, a      *)
(* trash that is closed under "inside".  The step lemmas are stated for one   *)
(* action and cited again where these requests run beside others.             *)
EXTENDS TrashRequests, SequenceTheorems, TLAPS

-----------------------------------------------------------------------------
(* The recursion's stack *)

\* What the three changes of a stack leave where.
LEMMA StackTop ==
  ASSUME NEW S, NEW s \in Seq(S), s # <<>>, NEW e \in S
  PROVE  LET t == <<e>> \o Tail(s)
         IN /\ t \in Seq(S) /\ t # <<>>
            /\ DOMAIN t = DOMAIN s /\ t[1] = e
            /\ \A i \in DOMAIN t : i # 1 => t[i] = s[i]
  OBVIOUS

\* Entering a frame: the new one lies on the one that waits for it.
LEMMA StackPush ==
  ASSUME NEW S, NEW s \in Seq(S), s # <<>>, NEW d \in S, NEW e \in S
  PROVE  LET t == <<d, e>> \o Tail(s)
         IN /\ t \in Seq(S) /\ t # <<>>
            /\ Len(t) = Len(s) + 1 /\ t[1] = d /\ t[2] = e
            /\ \A i \in DOMAIN t : i # 1 /\ i # 2 => i - 1 \in DOMAIN s /\ t[i] = s[i - 1]
  OBVIOUS

\* Leaving a frame.
LEMMA StackPop ==
  ASSUME NEW S, NEW s \in Seq(S), s # <<>>
  PROVE  LET t == Tail(s)
         IN /\ t \in Seq(S)
            /\ Len(s) # 1 => t # <<>>
            /\ Len(t) = Len(s) - 1
            /\ \A i \in DOMAIN t : i + 1 \in DOMAIN s /\ t[i] = s[i + 1]
            /\ Head(s) = s[1] /\ s[1] \in S /\ 1 \in DOMAIN s
<1>1. Len(s) \in Nat \ {0} /\ DOMAIN s = 1..Len(s)
  OBVIOUS
<1>2. Tail(s) \in Seq(S) /\ Len(Tail(s)) = Len(s) - 1 /\ DOMAIN Tail(s) = 1..Len(s) - 1
  OBVIOUS
<1>3. \A i \in 1..Len(s) - 1 : Tail(s)[i] = s[i + 1]
  OBVIOUS
<1>4. Len(s) # 1 => Tail(s) # <<>>
  <2>1. Len(Tail(s)) = 0 <=> Tail(s) = <<>>
    BY <1>2, EmptySeq
  <2> QED BY <2>1, <1>1, <1>2
<1>5. Head(s) = s[1] /\ s[1] \in S
  BY <1>1
<1> QED BY <1>1, <1>2, <1>3, <1>4, <1>5

-----------------------------------------------------------------------------
(* What the handlers hold between two queries *)

\* A handler lasts less than the retention period, and so does a date it holds.
FreshDate(t) == t # Null => t <= now /\ now < t + Retention

\* A date goes with the trash, no date with an active item.
DateFits(status, t) == status = "trashed" <=> t # Null

InOrder(q) ==
  /\ q.pc # "folder" => q.stack = <<>>
  /\ q.pc = "folder" => q.stack # <<>>
  /\ q.pc # "file" => q.at = Null
  /\ q.pc = "file" => q.file \in FileId /\ DateFits(q.to, q.at) /\ FreshDate(q.at)
  /\ q.pc # "idle" => Requested(q.to)
  /\ \A i \in DOMAIN q.stack : DateFits(q.to, q.stack[i].at) /\ FreshDate(q.stack[i].at)

HandlersInOrder == \A r \in TrashRequest : InOrder(treq[r])

\* Dates are taken from the clock, and fit the status they come with.
LEMMA DatesTaken ==
  ASSUME now \in Nat, NEW status \in Status
  PROVE  /\ DateFor(status) \in Time
         /\ DateFits(status, DateFor(status))
         /\ FreshDate(DateFor(status))
  BY RetentionIsPositive, NullIsNoTime DEF DateFor, DateFits, FreshDate, Time

\* A handler goes on as q, and q is in order: so are all handlers.
LEMMA BecomeKeeps ==
  ASSUME treq \in [TrashRequest -> TrashState], HandlersInOrder, now' = now,
         NEW r \in TrashRequest, NEW q \in TrashState, InOrder(q), Become(r, q)
  PROVE  treq' \in [TrashRequest -> TrashState] /\ HandlersInOrder'
<1>1. treq' \in [TrashRequest -> TrashState]
  BY DEF Become
<1>2. \A s \in TrashRequest : InOrder(treq'[s])
  BY DEF Become, HandlersInOrder
<1>3. \A s \in TrashRequest : InOrder(treq'[s]) => InOrder(treq[s])'
  BY DEF InOrder, FreshDate
<1> QED BY <1>1, <1>2, <1>3 DEF HandlersInOrder

\* A handler at rest is in order.
LEMMA QuiescentInOrder == Quiescent \in TrashState /\ InOrder(Quiescent)
<1>1. Quiescent \in TrashState
  BY EmptySeq DEF Quiescent, TrashState, Status, Time
<1>2. InOrder(Quiescent)
  BY DEF InOrder, Quiescent
<1> QED BY <1>1, <1>2

\* Every step of a delete or restore keeps its slot typed and in order.
LEMMA RequestKeepsOrder ==
  ASSUME treq \in [TrashRequest -> TrashState], now \in Nat, HandlersInOrder,
         NEW r \in TrashRequest, TrashRequestNext(r)
  PROVE  treq' \in [TrashRequest -> TrashState] /\ HandlersInOrder'
<1> DEFINE Kept == treq' \in [TrashRequest -> TrashState] /\ HandlersInOrder'
           Next(q) == q \in TrashState /\ InOrder(q) /\ Become(r, q)
<1>0. treq[r] \in TrashState /\ InOrder(treq[r])
  BY DEF HandlersInOrder
<1>1. ASSUME now' = now, \E q : Next(q) PROVE Kept
  BY <1>1, BecomeKeeps
<1>2. ASSUME treq' = treq, now' = now PROVE Kept
  BY <1>2 DEF HandlersInOrder, InOrder, FreshDate
<1>3. ASSUME NEW x \in FileId, NEW status \in Status, FindFile(r, x, status) PROVE Kept
  <2> DEFINE q == [Quiescent EXCEPT !.pc = "file", !.to = status, !.file = x,
                                    !.at = DateFor(status)]
  <2>1. q \in TrashState
    BY DatesTaken, QuiescentInOrder DEF TrashState
  <2>2. InOrder(q)
    BY <1>3, DatesTaken DEF InOrder, Quiescent, FindFile
  <2> QED BY <2>1, <2>2, <1>1, <1>3 DEF FindFile, driveVars, fileVars
<1>4. ASSUME SaveFile(r) PROVE Kept
  BY <1>1, <1>4, QuiescentInOrder DEF SaveFile
<1>5. ASSUME NEW f \in FolderId, NEW status \in Status, FindFolder(r, f, status) PROVE Kept
  <2> DEFINE s == <<Activation(f, status)>>
             q == [Quiescent EXCEPT !.pc = "folder", !.to = status, !.stack = s]
  <2>1. Activation(f, status) \in Frame
    BY DatesTaken DEF Activation, Frame, FilesIn, Files
  <2>2. s \in Seq(Frame) /\ s # <<>> /\ DOMAIN s = {1} /\ s[1] = Activation(f, status)
    BY <2>1
  <2>3. q \in TrashState
    BY <2>2, QuiescentInOrder DEF TrashState
  <2>4. InOrder(q)
    BY <1>5, <2>2, DatesTaken DEF InOrder, Quiescent, FindFolder, Activation
  <2> QED BY <2>3, <2>4, <1>1, <1>5 DEF FindFolder, driveVars, fileVars
<1>6. ASSUME treq[r].pc = "folder", now' = now PROVE
        LET s == treq[r].stack
        IN  /\ s \in Seq(Frame) /\ s # <<>>
            /\ Top(r) \in Frame /\ Top(r) = s[1] /\ 1 \in DOMAIN s
            /\ \A e \in Frame : e.at = Top(r).at /\ SetTop(r, e) => Kept
  <2> DEFINE s == treq[r].stack
  <2>1. s \in Seq(Frame) /\ s # <<>>
    BY <1>0, <1>6 DEF InOrder, TrashState
  <2>2. Head(s) = s[1] /\ s[1] \in Frame /\ 1 \in DOMAIN s
    BY <2>1, StackPop
  <2>3. ASSUME NEW e \in Frame, e.at = s[1].at, SetTop(r, e) PROVE Kept
    <3> DEFINE t == <<e>> \o Tail(s)
               q == [treq[r] EXCEPT !.stack = t]
    <3>1. t \in Seq(Frame) /\ t # <<>> /\ DOMAIN t = DOMAIN s /\ t[1] = e
          /\ \A i \in DOMAIN t : i # 1 => t[i] = s[i]
      BY <2>1, StackTop
    <3> HIDE DEF t
    <3>2. q \in TrashState /\ q.stack = t /\ q.to = treq[r].to /\ q.at = treq[r].at
          /\ q.pc = "folder"
      BY <3>1, <1>0, <1>6 DEF TrashState
    <3>3. InOrder(q)
      BY <2>2, <2>3, <3>1, <3>2, <1>0, <1>6 DEF InOrder
    <3>4. Become(r, q)
      BY <2>3 DEF SetTop, t
    <3> QED BY <3>2, <3>3, <3>4, <1>1, <1>6
  <2> QED BY <2>1, <2>2, <2>3 DEF Top
<1>7. ASSUME MarkFiles(r) PROVE Kept
  <2>1. /\ treq[r].pc = "folder" /\ now' = now
        /\ \/ SetTop(r, [Top(r) EXCEPT !.step = "subs"])
           \/ \E x : SetTop(r, [Top(r) EXCEPT !.scan = @ \ {x}])
    BY <1>7 DEF MarkFiles
  <2>2. [Top(r) EXCEPT !.step = "subs"] \in Frame
        /\ [Top(r) EXCEPT !.step = "subs"].at = Top(r).at
    BY <2>1, <1>6 DEF Frame
  <2>3. ASSUME NEW x
        PROVE  /\ [Top(r) EXCEPT !.scan = @ \ {x}] \in Frame
               /\ [Top(r) EXCEPT !.scan = @ \ {x}].at = Top(r).at
    BY <2>1, <1>6 DEF Frame
  <2> QED BY <2>1, <2>2, <2>3, <1>6
<1>8. ASSUME FindSubs(r) PROVE Kept
  <2> DEFINE D == {g \in ChildrenOf(Top(r).id) : folder[g].status = Opposite(treq[r].to)}
             e == [Top(r) EXCEPT !.step = "each", !.subs = D]
  <2>1. treq[r].pc = "folder" /\ now' = now /\ SetTop(r, e)
    BY <1>8 DEF FindSubs, driveVars, fileVars
  <2>2. D \in SUBSET FolderId
    BY DEF ChildrenOf, Folders
  <2> HIDE DEF D
  <2>3. e \in Frame /\ e.at = Top(r).at
    BY <2>1, <2>2, <1>6 DEF Frame
  <2> QED BY <2>1, <2>3, <1>6
<1>9. ASSUME EnterSub(r) PROVE Kept
  <2>1. PICK g \in Top(r).subs :
          Become(r, [treq[r] EXCEPT !.stack =
            <<Activation(g, treq[r].to), [Top(r) EXCEPT !.subs = @ \ {g}]>> \o Tail(@)])
    BY <1>9 DEF EnterSub
  <2> DEFINE s == treq[r].stack
             d == Activation(g, treq[r].to)
             e == [Top(r) EXCEPT !.subs = @ \ {g}]
             t == <<d, e>> \o Tail(s)
             q == [treq[r] EXCEPT !.stack = t]
  <2>2. treq[r].pc = "folder" /\ now' = now
    BY <1>9 DEF EnterSub, driveVars, fileVars
  <2>3. s \in Seq(Frame) /\ s # <<>> /\ Top(r) \in Frame /\ Top(r) = s[1]
        /\ 1 \in DOMAIN s
    BY <2>2, <1>6
  <2>4. e \in Frame /\ e.at = s[1].at /\ g \in FolderId
    BY <2>3 DEF Frame
  <2>5. treq[r].to \in Status
    BY <1>0 DEF TrashState
  <2>6. d \in Frame /\ DateFits(treq[r].to, d.at) /\ FreshDate(d.at)
    BY <2>4, <2>5, DatesTaken DEF Activation, Frame, FilesIn, Files
  <2>7. Become(r, q)
    BY <2>1
  <2> HIDE DEF d, e
  <2>8. /\ t \in Seq(Frame) /\ t # <<>> /\ t[1] = d /\ t[2] = e
        /\ \A i \in DOMAIN t : i # 1 /\ i # 2 => i - 1 \in DOMAIN s /\ t[i] = s[i - 1]
    BY <2>3, <2>4, <2>6, StackPush
  <2> HIDE DEF t
  <2>9. q \in TrashState /\ q.stack = t /\ q.to = treq[r].to /\ q.at = treq[r].at
        /\ q.pc = "folder"
    BY <2>8, <1>0, <2>2 DEF TrashState
  <2>10. \A i \in DOMAIN t : DateFits(treq[r].to, t[i].at) /\ FreshDate(t[i].at)
    BY <2>3, <2>4, <2>6, <2>8, <1>0 DEF InOrder
  <2>11. InOrder(q)
    BY <2>8, <2>9, <2>10, <1>0, <2>2 DEF InOrder
  <2> QED BY <2>2, <2>7, <2>9, <2>11, <1>1
<1>10. ASSUME MarkFolder(r) PROVE Kept
  <2> DEFINE s == treq[r].stack
             t == Tail(s)
             q == [treq[r] EXCEPT !.stack = t]
  <2>1. treq[r].pc = "folder" /\ now' = now
        /\ (Become(r, Quiescent) \/ (Len(s) # 1 /\ Become(r, q)))
    BY <1>10 DEF MarkFolder, MarkTop, fileVars
  <2>2. s \in Seq(Frame) /\ s # <<>>
    BY <2>1, <1>6
  <2>3. /\ t \in Seq(Frame) /\ (Len(s) # 1 => t # <<>>)
        /\ \A i \in DOMAIN t : i + 1 \in DOMAIN s /\ t[i] = s[i + 1]
    BY <2>2, StackPop
  <2> HIDE DEF t
  <2>4. q \in TrashState /\ q.stack = t /\ q.to = treq[r].to /\ q.at = treq[r].at
        /\ q.pc = "folder"
    BY <2>1, <2>3, <1>0 DEF TrashState
  <2>5. Len(s) # 1 => InOrder(q)
    BY <2>1, <2>3, <2>4, <1>0 DEF InOrder
  <2> QED BY <2>1, <2>4, <2>5, <1>1, QuiescentInOrder
<1> QED
  BY <1>3, <1>4, <1>5, <1>7, <1>8, <1>9, <1>10 DEF TrashRequestNext

-----------------------------------------------------------------------------
(* Every step, seen from the collections: a mark, a removal, or neither *)

Dated(r, at) ==
  /\ treq[r].pc # "idle"
  /\ treq[r].to \in Status /\ Requested(treq[r].to)
  /\ at \in Time /\ DateFits(treq[r].to, at) /\ FreshDate(at)

FileMarked(r, x, at) ==
  /\ x \in Files
  /\ file' = [file EXCEPT ![x] = Marked(@, treq[r].to, at)]
  /\ UNCHANGED <<storeVars, object, now>>

FolderMarked(r, f, at) ==
  /\ f \in Folders
  /\ folder' = [folder EXCEPT ![f] = Marked(@, treq[r].to, at)]
  /\ UNCHANGED <<minted, fileVars>>

\* A step of a delete or restore marks one document or none.
LEMMA RequestMarks ==
  ASSUME treq \in [TrashRequest -> TrashState], HandlersInOrder,
         NEW r \in TrashRequest, TrashRequestNext(r)
  PROVE  /\ UNCHANGED <<purge, failed>>
         /\ \/ UNCHANGED driveVars
            \/ \E x \in FileId, at \in Time : Dated(r, at) /\ FileMarked(r, x, at)
            \/ \E f \in FolderId, at \in Time : Dated(r, at) /\ FolderMarked(r, f, at)
<1>0. treq[r] \in TrashState /\ InOrder(treq[r])
  BY DEF HandlersInOrder
<1>1. treq[r].to \in Status /\ treq[r].at \in Time
  BY <1>0 DEF TrashState
<1>2. ASSUME treq[r].pc = "folder"
      PROVE  Top(r) \in Frame /\ Top(r).at \in Time /\ Dated(r, Top(r).at)
  <2>1. treq[r].stack \in Seq(Frame) /\ treq[r].stack # <<>>
    BY <1>0, <1>2 DEF InOrder, TrashState
  <2>2. Top(r) = treq[r].stack[1] /\ Top(r) \in Frame /\ 1 \in DOMAIN treq[r].stack
    BY <2>1, StackPop DEF Top
  <2> QED BY <2>2, <1>0, <1>1, <1>2 DEF InOrder, Frame, Dated
<1>3. ASSUME SaveFile(r) PROVE
        /\ UNCHANGED <<purge, failed>>
        /\ \/ UNCHANGED driveVars
           \/ \E x \in FileId, at \in Time : Dated(r, at) /\ FileMarked(r, x, at)
  <2>1. CASE HasFile(treq[r].file)
    <3>1. treq[r].file \in FileId /\ Dated(r, treq[r].at)
      BY <1>0, <1>1, <1>3 DEF SaveFile, InOrder, Dated
    <3>2. FileMarked(r, treq[r].file, treq[r].at)
      BY <3>1, <2>1, <1>3 DEF SaveFile, FileMarked, Files, storeVars
    <3> QED BY <3>1, <3>2, <1>1, <1>3 DEF SaveFile
  <2>2. CASE ~HasFile(treq[r].file)
    BY <2>2, <1>3 DEF SaveFile, driveVars, fileVars
  <2> QED BY <2>1, <2>2
<1>4. ASSUME MarkFiles(r) PROVE
        /\ UNCHANGED <<purge, failed>>
        /\ \/ UNCHANGED driveVars
           \/ \E x \in FileId, at \in Time : Dated(r, at) /\ FileMarked(r, x, at)
  <2> DEFINE hit == {x \in FilesIn(Top(r).id) : file[x].status = Opposite(treq[r].to)}
  <2>1. /\ treq[r].pc = "folder" /\ UNCHANGED <<storeVars, object, now, purge, failed>>
        /\ \/ UNCHANGED file
           \/ \E x \in hit : file' = [file EXCEPT ![x] = Marked(@, treq[r].to, Top(r).at)]
    BY <1>4 DEF MarkFiles
  <2>2. CASE UNCHANGED file
    BY <2>1, <2>2 DEF driveVars, fileVars
  <2>3. ASSUME NEW x \in hit, file' = [file EXCEPT ![x] = Marked(@, treq[r].to, Top(r).at)]
        PROVE  x \in FileId /\ FileMarked(r, x, Top(r).at)
    BY <2>1, <2>3 DEF FilesIn, FileMarked, Files
  <2> QED BY <2>1, <2>2, <2>3, <1>2
<1>5. ASSUME MarkFolder(r) PROVE
        /\ UNCHANGED <<purge, failed>>
        /\ \/ UNCHANGED driveVars
           \/ \E f \in FolderId, at \in Time : Dated(r, at) /\ FolderMarked(r, f, at)
  <2>1. Top(r) \in Frame /\ Top(r).at \in Time /\ Dated(r, Top(r).at) /\ Top(r).id \in FolderId
    BY <1>2, <1>5 DEF MarkFolder, Frame
  <2>2. CASE Stored(Top(r).id)
    BY <2>1, <2>2, <1>5 DEF MarkFolder, MarkTop, FolderMarked, Folders
  <2>3. CASE ~Stored(Top(r).id)
    BY <2>3, <1>5 DEF MarkFolder, MarkTop, driveVars, storeVars
  <2> QED BY <2>2, <2>3
<1> QED
  BY <1>3, <1>4, <1>5 DEF TrashRequestNext, FindFile, FindFolder, FindSubs, EnterSub

\* What a mark leaves in the files.
LEMMA FileMarkedEffect ==
  ASSUME FileStoreTypeOK, NEW r \in TrashRequest, NEW at \in Time, treq[r].to \in Status,
         NEW x \in FileId, FileMarked(r, x, at)
  PROVE  /\ FileStoreTypeOK' /\ Files' = Files /\ x \in Files
         /\ \A y \in Files \ {x} : file'[y] = file[y]
         /\ file'[x].status = treq[r].to /\ file'[x].deletedAt = at
         /\ file'[x].folder = file[x].folder /\ file'[x].key = file[x].key
<1>1. /\ x \in Files /\ file[x] \in FileDoc
      /\ file' = [file EXCEPT ![x] = Marked(file[x], treq[r].to, at)]
  BY DEF FileMarked, FileStoreTypeOK, Files, HasFile
<1> DEFINE d == Marked(file[x], treq[r].to, at)
<1>2. /\ d \in FileDoc /\ d.status = treq[r].to /\ d.deletedAt = at
      /\ d = [file[x] EXCEPT !.status = treq[r].to, !.deletedAt = at]
      /\ d.folder = file[x].folder /\ d.key = file[x].key
  BY <1>1 DEF Marked, FileDoc
<1> HIDE DEF d
<1>3. file' = [file EXCEPT ![x] = d]
  BY <1>1 DEF d
<1>4. Files' = Files
  BY <1>1, <1>2, <1>3, NoDocIsNoFile DEF FileStoreTypeOK, Files, HasFile
<1> QED
  BY <1>1, <1>2, <1>3, <1>4 DEF FileMarked, FileStoreTypeOK, Files

\* What a mark leaves in the folders.
LEMMA FolderMarkedEffect ==
  ASSUME FolderStoreTypeOK, NEW r \in TrashRequest, NEW at \in Time, treq[r].to \in Status,
         NEW f \in FolderId, FolderMarked(r, f, at)
  PROVE  /\ FolderStoreTypeOK' /\ Folders' = Folders /\ f \in Folders
         /\ \A g \in Folders \ {f} : folder'[g] = folder[g]
         /\ folder'[f].status = treq[r].to /\ folder'[f].deletedAt = at
         /\ folder'[f].parent = folder[f].parent /\ folder'[f].name = folder[f].name
<1>1. /\ f \in Folders /\ folder[f] \in FolderDoc
      /\ folder' = [folder EXCEPT ![f] = Marked(folder[f], treq[r].to, at)]
  BY DEF FolderMarked, FolderStoreTypeOK, Folders, Stored
<1> DEFINE d == Marked(folder[f], treq[r].to, at)
<1>2. /\ d \in FolderDoc /\ d.status = treq[r].to /\ d.deletedAt = at
      /\ d = [folder[f] EXCEPT !.status = treq[r].to, !.deletedAt = at]
      /\ d.parent = folder[f].parent /\ d.name = folder[f].name
  BY <1>1 DEF Marked, FolderDoc
<1> HIDE DEF d
<1>3. folder' = [folder EXCEPT ![f] = d]
  BY <1>1 DEF d
<1>4. Folders' = Folders
  BY <1>1, <1>2, <1>3, NoDocIsNoFolder DEF FolderStoreTypeOK, Folders, Stored
<1> QED
  BY <1>1, <1>2, <1>3, <1>4 DEF FolderMarked, FolderStoreTypeOK, Folders

FileRemoved(p, x) ==
  /\ x \in ExpiredFiles(purge[p].at)
  /\ file' = [file EXCEPT ![x] = NoDoc]
  /\ UNCHANGED <<storeVars, object, now>>

FolderRemoved(p, f) ==
  /\ f \in ExpiredFolders(purge[p].at)
  /\ folder' = [folder EXCEPT ![f] = NoDoc]
  /\ UNCHANGED <<minted, fileVars>>

PurgesTyped == purge \in [Purge -> PurgeState] /\ failed \subseteq Key

\* No cutoff is ahead of the clock.
PurgesAreAsOf == \A p \in Purge : purge[p].at <= now

\* A step of a purge removes one expired document, or takes objects, or neither.
LEMMA PurgeRemoves ==
  ASSUME NEW p \in Purge, PurgeNext(p)
  PROVE  /\ UNCHANGED treq
         /\ \/ UNCHANGED <<storeVars, file, now>> /\ object' \subseteq object
            \/ \E x \in FileId : FileRemoved(p, x)
            \/ \E f \in FolderId : FolderRemoved(p, f)
<1>1. CASE DeleteFiles(p)
  BY <1>1 DEF DeleteFiles, FileRemoved, ExpiredFiles, Files, storeVars
<1>2. CASE DeleteFolders(p)
  BY <1>2 DEF DeleteFolders, FolderRemoved, ExpiredFolders, Folders, storeVars, fileVars
<1>3. CASE ListExpired(p)
  BY <1>3 DEF ListExpired, driveVars, fileVars
<1>4. CASE DeleteObjects(p) \/ AbortPurge(p)
  BY <1>4 DEF DeleteObjects, AbortPurge
<1> QED BY <1>1, <1>2, <1>3, <1>4 DEF PurgeNext

\* What a purge keeps in its slot.
LEMMA PurgeKeepsOrder ==
  ASSUME FileStoreTypeOK, PurgesTyped, PurgesAreAsOf, NEW p \in Purge, PurgeNext(p)
  PROVE  PurgesTyped' /\ PurgesAreAsOf'
<1>0. now \in Nat /\ purge[p] \in PurgeState /\ purge[p].at \in Nat /\ purge[p].at <= now
  BY DEF FileStoreTypeOK, PurgesTyped, PurgesAreAsOf, PurgeState
<1>1. ASSUME NEW q \in PurgeState, q.at <= now, now' = now, Advance(p, q), failed' \subseteq Key
      PROVE  PurgesTyped' /\ PurgesAreAsOf'
  BY <1>1 DEF Advance, PurgesTyped, PurgesAreAsOf
<1>2. NoPurge \in PurgeState /\ NoPurge.at <= now
  BY <1>0 DEF NoPurge, PurgeState
<1>3. failed \subseteq Key
  BY DEF PurgesTyped
<1>4. CASE ListExpired(p)
  <2> DEFINE keys == {file[x].key : x \in ExpiredFiles(now)}
             q == [pc |-> "objects", at |-> now, keys |-> keys]
  <2>1. keys \in SUBSET Key
    BY DEF ExpiredFiles, Files, HasFile, FileStoreTypeOK, FileDoc
  <2> HIDE DEF keys
  <2>2. q \in PurgeState /\ q.at = now
    BY <1>0, <2>1 DEF PurgeState
  <2>3. Advance(p, q) /\ now' = now /\ failed' = failed
    BY <1>4 DEF ListExpired, driveVars, fileVars, keys
  <2> HIDE DEF q
  <2> QED BY <2>2, <2>3, <1>0, <1>1, <1>3
<1>5. CASE DeleteObjects(p)
  <2> DEFINE q == [purge[p] EXCEPT !.pc = "files", !.keys = {}]
  <2>1. q \in PurgeState /\ q.at = purge[p].at
    BY <1>0 DEF PurgeState
  <2>2. Advance(p, q) /\ now' = now
    BY <1>5 DEF DeleteObjects
  <2>3. failed' \subseteq Key
    BY <1>0, <1>3, <1>5 DEF DeleteObjects, PurgeState
  <2> HIDE DEF q
  <2> QED BY <2>1, <2>2, <2>3, <1>0, <1>1
<1>6. CASE DeleteFiles(p)
  <2> DEFINE q == [purge[p] EXCEPT !.pc = "folders"]
  <2>1. q \in PurgeState /\ q.at = purge[p].at
    BY <1>0 DEF PurgeState
  <2>2. (purge' = purge \/ Advance(p, q)) /\ now' = now /\ failed' = failed
    BY <1>6 DEF DeleteFiles
  <2> HIDE DEF q
  <2>3. CASE purge' = purge
    BY <2>2, <2>3 DEF PurgesTyped, PurgesAreAsOf
  <2> QED BY <2>1, <2>2, <2>3, <1>0, <1>1, <1>3
<1>7. CASE DeleteFolders(p)
  <2>1. CASE purge' = purge
    BY <1>7, <2>1 DEF DeleteFolders, PurgesTyped, PurgesAreAsOf, fileVars
  <2>2. CASE Finish(p)
    BY <1>1, <1>2, <1>3, <1>7, <2>2 DEF DeleteFolders, Finish, fileVars
  <2> QED BY <1>7, <2>1, <2>2 DEF DeleteFolders
<1>8. CASE AbortPurge(p)
  BY <1>1, <1>2, <1>3, <1>8 DEF AbortPurge, Finish
<1> QED BY <1>4, <1>5, <1>6, <1>7, <1>8 DEF PurgeNext

\* What was past its retention at the cutoff is past it now.
LEMMA ExpiredSince ==
  ASSUME NEW d, d.deletedAt \in Time, NEW a \in Nat, NEW b \in Nat, a <= b, Expired(d, a)
  PROVE  Expired(d, b)
  BY RetentionIsPositive DEF Expired, Time

\* What the removal of a file leaves.
LEMMA FileRemovedEffect ==
  ASSUME FileStoreTypeOK, PurgesTyped, PurgesAreAsOf, NEW p \in Purge, NEW x \in FileId,
         FileRemoved(p, x)
  PROVE  /\ FileStoreTypeOK' /\ Files' = Files \ {x} /\ x \in Files
         /\ \A y \in Files' : file'[y] = file[y]
         /\ Expired(file[x], purge[p].at) /\ Expired(file[x], now)
<1>1. x \in Files /\ Expired(file[x], purge[p].at) /\ file[x] \in FileDoc
  BY DEF FileRemoved, ExpiredFiles, FileStoreTypeOK, Files, HasFile
<1>2. purge[p].at \in Nat /\ purge[p].at <= now /\ now \in Nat
  BY DEF PurgesTyped, PurgesAreAsOf, PurgeState, FileStoreTypeOK
<1>3. Expired(file[x], now)
  BY <1>1, <1>2, ExpiredSince DEF FileDoc
<1> QED
  BY <1>1, <1>3 DEF FileRemoved, FileStoreTypeOK, Files, HasFile

\* What the removal of a folder leaves.
LEMMA FolderRemovedEffect ==
  ASSUME FolderStoreTypeOK, FileStoreTypeOK, PurgesTyped, PurgesAreAsOf,
         NEW p \in Purge, NEW f \in FolderId, FolderRemoved(p, f)
  PROVE  /\ FolderStoreTypeOK' /\ Folders' = Folders \ {f} /\ f \in Folders
         /\ \A g \in Folders' : folder'[g] = folder[g]
         /\ Expired(folder[f], now)
<1>1. f \in Folders /\ Expired(folder[f], purge[p].at) /\ folder[f] \in FolderDoc
  BY DEF FolderRemoved, ExpiredFolders, FolderStoreTypeOK, Folders, Stored
<1>2. purge[p].at \in Nat /\ purge[p].at <= now /\ now \in Nat
  BY DEF PurgesTyped, PurgesAreAsOf, PurgeState, FileStoreTypeOK
<1>3. Expired(folder[f], now)
  BY <1>1, <1>2, ExpiredSince DEF FolderDoc
<1> QED
  BY <1>1, <1>3 DEF FolderRemoved, FolderStoreTypeOK, Folders, Stored

-----------------------------------------------------------------------------
(* Types, dates and cutoffs *)

StoresTyped == FolderStoreTypeOK /\ FileStoreTypeOK
HandlersTyped == treq \in [TrashRequest -> TrashState]

TrashInv ==
  /\ StoresTyped /\ HandlersTyped /\ PurgesTyped
  /\ HandlersInOrder /\ PurgesAreAsOf
  /\ TrashedAreDated

\* The type invariant the runs check is part of it.
LEMMA TrashInvTypes == TrashInv => TrashTypeOK
  BY DEF TrashInv, StoresTyped, HandlersTyped, PurgesTyped, HandlersInOrder, InOrder,
         TrashTypeOK

\* The collections stay typed and dated under a mark or a removal.
LEMMA RequestKeepsDates ==
  ASSUME TrashInv, NEW r \in TrashRequest, TrashRequestNext(r)
  PROVE  StoresTyped' /\ TrashedAreDated'
<1>0. StoresTyped /\ HandlersTyped /\ HandlersInOrder /\ TrashedAreDated
  BY DEF TrashInv
<1>1. CASE UNCHANGED driveVars
  BY <1>0, <1>1 DEF driveVars, storeVars, fileVars, StoresTyped, TrashedAreDated,
       FolderStoreTypeOK, FileStoreTypeOK, Folders, Files, Stored, HasFile
<1>2. ASSUME NEW x \in FileId, NEW at \in Time, Dated(r, at), FileMarked(r, x, at)
      PROVE  StoresTyped' /\ TrashedAreDated'
  <2>0. treq[r].to \in Status /\ FileStoreTypeOK
    BY <1>0, <1>2 DEF Dated, StoresTyped
  <2>1. /\ FileStoreTypeOK' /\ Files' = Files
        /\ \A y \in Files \ {x} : file'[y] = file[y]
        /\ file'[x].status = treq[r].to /\ file'[x].deletedAt = at
    BY <1>2, <2>0, FileMarkedEffect
  <2>2. folder' = folder /\ minted' = minted /\ Folders' = Folders
    BY <1>2 DEF FileMarked, storeVars, Folders, Stored
  <2>3. FolderStoreTypeOK'
    BY <1>0, <2>2 DEF StoresTyped, FolderStoreTypeOK
  <2> QED BY <1>0, <1>2, <2>1, <2>2, <2>3 DEF StoresTyped, TrashedAreDated, Dated, DateFits
<1>3. ASSUME NEW f \in FolderId, NEW at \in Time, Dated(r, at), FolderMarked(r, f, at)
      PROVE  StoresTyped' /\ TrashedAreDated'
  <2>0. treq[r].to \in Status /\ FolderStoreTypeOK
    BY <1>0, <1>3 DEF Dated, StoresTyped
  <2>1. /\ FolderStoreTypeOK' /\ Folders' = Folders
        /\ \A g \in Folders \ {f} : folder'[g] = folder[g]
        /\ folder'[f].status = treq[r].to /\ folder'[f].deletedAt = at
    BY <1>3, <2>0, FolderMarkedEffect
  <2>2. file' = file /\ object' = object /\ now' = now /\ Files' = Files
    BY <1>3 DEF FolderMarked, fileVars, Files, HasFile
  <2>3. FileStoreTypeOK'
    BY <1>0, <2>2 DEF StoresTyped, FileStoreTypeOK
  <2> QED BY <1>0, <1>3, <2>1, <2>2, <2>3 DEF StoresTyped, TrashedAreDated, Dated, DateFits
<1> QED BY <1>0, <1>1, <1>2, <1>3, RequestMarks DEF HandlersTyped

\* A purge removes documents and dates none.
LEMMA PurgeKeepsDates ==
  ASSUME TrashInv, NEW p \in Purge, PurgeNext(p)
  PROVE  StoresTyped' /\ TrashedAreDated'
<1>0. StoresTyped /\ PurgesTyped /\ PurgesAreAsOf /\ TrashedAreDated
  BY DEF TrashInv
<1>1. CASE UNCHANGED <<storeVars, file, now>> /\ object' \subseteq object
  BY <1>0, <1>1 DEF storeVars, StoresTyped, TrashedAreDated, FolderStoreTypeOK,
       FileStoreTypeOK, Folders, Files, Stored, HasFile
<1>2. ASSUME NEW x \in FileId, FileRemoved(p, x) PROVE StoresTyped' /\ TrashedAreDated'
  <2>1. /\ FileStoreTypeOK' /\ Files' = Files \ {x}
        /\ \A y \in Files' : file'[y] = file[y]
    BY <1>0, <1>2, FileRemovedEffect DEF StoresTyped
  <2>2. folder' = folder /\ minted' = minted /\ Folders' = Folders
    BY <1>2 DEF FileRemoved, storeVars, Folders, Stored
  <2>3. FolderStoreTypeOK'
    BY <1>0, <2>2 DEF StoresTyped, FolderStoreTypeOK
  <2> QED BY <1>0, <2>1, <2>2, <2>3 DEF StoresTyped, TrashedAreDated
<1>3. ASSUME NEW f \in FolderId, FolderRemoved(p, f) PROVE StoresTyped' /\ TrashedAreDated'
  <2>1. /\ FolderStoreTypeOK' /\ Folders' = Folders \ {f}
        /\ \A g \in Folders' : folder'[g] = folder[g]
    BY <1>0, <1>3, FolderRemovedEffect DEF StoresTyped
  <2>2. file' = file /\ object' = object /\ now' = now /\ Files' = Files
    BY <1>3 DEF FolderRemoved, fileVars, Files, HasFile
  <2>3. FileStoreTypeOK'
    BY <1>0, <2>2 DEF StoresTyped, FileStoreTypeOK
  <2> QED BY <1>0, <2>1, <2>2, <2>3 DEF StoresTyped, TrashedAreDated
<1> QED BY <1>1, <1>2, <1>3, PurgeRemoves

\* A step of a delete or restore, of a purge, of the clock, and a crash.
LEMMA RequestKeepsInv ==
  ASSUME TrashInv, NEW r \in TrashRequest, TrashRequestNext(r)
  PROVE  TrashInv'
<1>0. StoresTyped /\ HandlersTyped /\ PurgesTyped /\ HandlersInOrder /\ PurgesAreAsOf
      /\ now \in Nat
  BY DEF TrashInv, StoresTyped, FileStoreTypeOK
<1>1. StoresTyped' /\ TrashedAreDated'
  BY RequestKeepsDates
<1>2. HandlersTyped' /\ HandlersInOrder'
  BY <1>0, RequestKeepsOrder DEF HandlersTyped
<1>3. purge' = purge /\ failed' = failed /\ now' = now
  BY <1>0, RequestMarks
     DEF HandlersTyped, driveVars, fileVars, FileMarked, FolderMarked
<1>4. PurgesTyped' /\ PurgesAreAsOf'
  BY <1>0, <1>3 DEF PurgesTyped, PurgesAreAsOf
<1> QED BY <1>1, <1>2, <1>4 DEF TrashInv

\* Every step of a purge keeps the invariant.
LEMMA PurgeKeepsInv ==
  ASSUME TrashInv, NEW p \in Purge, PurgeNext(p)
  PROVE  TrashInv'
<1>0. StoresTyped /\ HandlersTyped /\ PurgesTyped /\ HandlersInOrder /\ PurgesAreAsOf
  BY DEF TrashInv
<1>1. StoresTyped' /\ TrashedAreDated'
  BY PurgeKeepsDates
<1>2. treq' = treq /\ now' = now
  BY PurgeRemoves DEF FileRemoved, FolderRemoved, fileVars
<1>3. HandlersTyped' /\ HandlersInOrder'
  BY <1>0, <1>2 DEF HandlersTyped, HandlersInOrder, InOrder, FreshDate
<1>4. PurgesTyped' /\ PurgesAreAsOf'
  BY <1>0, PurgeKeepsOrder DEF StoresTyped
<1> QED BY <1>1, <1>3, <1>4 DEF TrashInv

\* The clock keeps it: it waits for the handlers that hold a date.
LEMMA TickKeepsInv ==
  ASSUME TrashInv, Tick
  PROVE  TrashInv'
<1>0. /\ StoresTyped /\ HandlersTyped /\ PurgesTyped /\ HandlersInOrder /\ PurgesAreAsOf
      /\ TrashedAreDated /\ now \in Nat
  BY DEF TrashInv, StoresTyped, FileStoreTypeOK
<1>1. StoresTyped' /\ TrashedAreDated'
  BY <1>0 DEF Tick, storeVars, StoresTyped, TrashedAreDated, FolderStoreTypeOK,
       FileStoreTypeOK, Folders, Files, Stored, HasFile
<1>2. HandlersTyped' /\ PurgesTyped'
  BY <1>0 DEF Tick, HandlersTyped, PurgesTyped
<1>3. PurgesAreAsOf'
  BY <1>0 DEF Tick, PurgesTyped, PurgeState, PurgesAreAsOf
<1>4. HandlersInOrder'
  <2> SUFFICES ASSUME NEW r \in TrashRequest PROVE InOrder(treq[r])'
    BY DEF HandlersInOrder
  <2>1. treq' = treq /\ now' = now + 1 /\ InOrder(treq[r])
    BY <1>0 DEF Tick, HandlersInOrder
  <2>2. ASSUME NEW t \in Time, FreshDate(t), t \in PendingDates(r) \/ t = Null
        PROVE  FreshDate(t)'
    <3>1. t # Null => now + 1 < t + Retention
      BY <2>2 DEF Tick
    <3> QED BY <3>1, <2>1, <2>2, <1>0 DEF FreshDate, Time
  <2>3. treq[r] \in TrashState /\ treq[r].at \in Time
    BY <1>0 DEF HandlersTyped, TrashState
  <2>4. treq[r].pc = "file" => FreshDate(treq[r].at)'
    BY <2>1, <2>2, <2>3 DEF InOrder, PendingDates
  <2>5. ASSUME NEW i \in DOMAIN treq[r].stack PROVE FreshDate(treq[r].stack[i].at)'
    <3>1. treq[r].stack[i] \in Frame
      BY <2>3 DEF TrashState
    <3>2. treq[r].stack[i].at \in Time
      BY <3>1 DEF Frame
    <3>3. FreshDate(treq[r].stack[i].at)
      BY <2>1 DEF InOrder
    <3>4. treq[r].stack[i].at # Null => treq[r].stack[i].at \in PendingDates(r)
      BY DEF PendingDates
    <3> QED BY <2>1, <2>2, <3>2, <3>3, <3>4
  <2> QED BY <2>1, <2>4, <2>5 DEF InOrder
<1> QED BY <1>1, <1>2, <1>3, <1>4, <1>0 DEF TrashInv

\* A crash keeps it.
LEMMA CrashKeepsInv ==
  ASSUME TrashInv, CrashHandlers, UNCHANGED <<driveVars, failed>>
  PROVE  TrashInv'
<1>0. StoresTyped /\ PurgesTyped /\ TrashedAreDated /\ now \in Nat
  BY DEF TrashInv, StoresTyped, FileStoreTypeOK
<1>1. StoresTyped' /\ TrashedAreDated'
  BY <1>0 DEF driveVars, fileVars, storeVars, StoresTyped, TrashedAreDated, FolderStoreTypeOK,
       FileStoreTypeOK, Folders, Files, Stored, HasFile
<1>2. HandlersTyped' /\ HandlersInOrder'
  <2>1. \A r \in TrashRequest : treq'[r] = Quiescent
    BY DEF CrashHandlers
  <2>2. InOrder(Quiescent)'
    BY DEF InOrder, Quiescent
  <2> QED BY <2>1, <2>2, QuiescentInOrder DEF CrashHandlers, HandlersTyped, HandlersInOrder
<1>3. PurgesTyped' /\ PurgesAreAsOf'
  BY <1>0 DEF CrashHandlers, NoPurge, PurgeState, PurgesTyped, PurgesAreAsOf, driveVars,
       fileVars
<1> QED BY <1>1, <1>2, <1>3 DEF TrashInv

\* The start satisfies it.
LEMMA TrashInvInit == TrashInit => TrashInv
<1> SUFFICES ASSUME TrashInit PROVE TrashInv
  OBVIOUS
<1>1. Folders = StartFolders /\ Files = StartFiles
  BY DEF TrashInit, Folders, Files, Stored, HasFile, StartFolders, StartFiles
<1>2. TrashedAreDated
  BY <1>1, StartIsDated DEF TrashInit, TrashedAreDated
<1>3. StoresTyped
  <2>1. folder \in [FolderId -> FolderDoc \cup {NoDoc}] /\ file \in [FileId -> FileDoc \cup {NoDoc}]
    BY StartIsADrive DEF TrashInit
  <2>2. object \subseteq Key
    BY <2>1 DEF TrashInit, Files, HasFile, FileDoc
  <2> QED BY <2>1, <2>2 DEF TrashInit, StoresTyped, FolderStoreTypeOK, FileStoreTypeOK, Folders
<1>4. HandlersTyped /\ HandlersInOrder
  BY QuiescentInOrder DEF TrashInit, HandlersTyped, HandlersInOrder
<1>5. PurgesTyped /\ PurgesAreAsOf
  BY DEF TrashInit, NoPurge, PurgeState, PurgesTyped, PurgesAreAsOf
<1> QED BY <1>2, <1>3, <1>4, <1>5 DEF TrashInv

\* The invariant of every delete, restore and purge.
LEMMA TrashInvariance == TrashSpec => []TrashInv
<1>1. ASSUME TrashInv, [TrashNext]_trashVars PROVE TrashInv'
  <2>1. CASE UNCHANGED trashVars
    BY <1>1, <2>1 DEF trashVars, driveVars, fileVars, storeVars, TrashInv, StoresTyped,
         HandlersTyped, PurgesTyped, HandlersInOrder, InOrder, FreshDate, PurgesAreAsOf,
         TrashedAreDated, FolderStoreTypeOK, FileStoreTypeOK, Folders, Files, Stored, HasFile
  <2>2. CASE Crash
    BY <1>1, <2>2, CrashKeepsInv DEF Crash
  <2> QED
    BY <1>1, <2>1, <2>2, RequestKeepsInv, PurgeKeepsInv, TickKeepsInv DEF TrashNext
<1> QED BY <1>1, TrashInvInit, PTL DEF TrashSpec

\* Every variable of deletes, restores and purges keeps its type, and a handler
\* in the recursion always has an activation to return to.
THEOREM TrashTyping == TrashSpec => []TrashTypeOK
  BY TrashInvariance, TrashInvTypes, PTL

\* Status and date go together in every reachable state, whatever deletes,
\* restores and purges overlap: no trashed item is without the date the purge
\* asks for, no active one carries a date into its next stay.
THEOREM DatesMatchStatus == TrashSpec => []TrashedAreDated
<1>1. TrashInv => TrashedAreDated
  BY DEF TrashInv
<1> QED BY <1>1, TrashInvariance, PTL

SparesTheRest ==
  /\ \A x \in Files \ Files' : Expired(file[x], now)
  /\ \A f \in Folders \ Folders' : Expired(folder[f], now)

\* A purge removes what is past its retention at that moment, although its
\* cutoff and its list are older.
LEMMA PurgeSpares ==
  ASSUME TrashInv, NEW p \in Purge, PurgeNext(p)
  PROVE  SparesTheRest
<1>0. StoresTyped /\ PurgesTyped /\ PurgesAreAsOf
  BY DEF TrashInv
<1>1. CASE UNCHANGED <<storeVars, file, now>> /\ object' \subseteq object
  BY <1>1 DEF storeVars, SparesTheRest, Folders, Files, Stored, HasFile
<1>2. ASSUME NEW x \in FileId, FileRemoved(p, x) PROVE SparesTheRest
  <2>1. Files' = Files \ {x} /\ Expired(file[x], now)
    BY <1>0, <1>2, FileRemovedEffect DEF StoresTyped
  <2>2. Folders' = Folders
    BY <1>2 DEF FileRemoved, storeVars, Folders, Stored
  <2> QED BY <2>1, <2>2 DEF SparesTheRest
<1>3. ASSUME NEW f \in FolderId, FolderRemoved(p, f) PROVE SparesTheRest
  <2>1. Folders' = Folders \ {f} /\ Expired(folder[f], now)
    BY <1>0, <1>3, FolderRemovedEffect DEF StoresTyped
  <2>2. Files' = Files
    BY <1>3 DEF FolderRemoved, fileVars, Files, HasFile
  <2> QED BY <2>1, <2>2 DEF SparesTheRest
<1> QED BY <1>1, <1>2, <1>3, PurgeRemoves

\* Deletes and restores remove and move nothing.
LEMMA RequestSpares ==
  ASSUME TrashInv, NEW r \in TrashRequest, TrashRequestNext(r)
  PROVE  /\ Files' = Files /\ Folders' = Folders
         /\ \A x \in Files : file'[x].folder = file[x].folder /\ file'[x].key = file[x].key
         /\ \A f \in Folders : folder'[f].parent = folder[f].parent
                               /\ folder'[f].name = folder[f].name
<1> DEFINE FilesKept == /\ Files' = Files
                        /\ \A x \in Files : /\ file'[x].folder = file[x].folder
                                            /\ file'[x].key = file[x].key
           FoldersKept == /\ Folders' = Folders
                          /\ \A f \in Folders : /\ folder'[f].parent = folder[f].parent
                                                /\ folder'[f].name = folder[f].name
<1>0. /\ StoresTyped /\ HandlersTyped /\ HandlersInOrder
      /\ FolderStoreTypeOK /\ FileStoreTypeOK
  BY DEF TrashInv, StoresTyped
<1>1. CASE UNCHANGED driveVars
  BY <1>1 DEF driveVars, storeVars, fileVars, Folders, Files, Stored, HasFile
<1>2. ASSUME NEW x \in FileId, NEW at \in Time, Dated(r, at), FileMarked(r, x, at)
      PROVE  FilesKept /\ FoldersKept
  <2>1. treq[r].to \in Status
    BY <1>2 DEF Dated
  <2>2. /\ Files' = Files /\ \A y \in Files \ {x} : file'[y] = file[y]
        /\ file'[x].folder = file[x].folder /\ file'[x].key = file[x].key
    BY <1>0, <1>2, <2>1, FileMarkedEffect
  <2> QED BY <1>2, <2>2 DEF FileMarked, storeVars, Folders, Stored
<1>3. ASSUME NEW f \in FolderId, NEW at \in Time, Dated(r, at), FolderMarked(r, f, at)
      PROVE  FilesKept /\ FoldersKept
  <2>1. treq[r].to \in Status
    BY <1>3 DEF Dated
  <2>2. /\ Folders' = Folders /\ \A g \in Folders \ {f} : folder'[g] = folder[g]
        /\ folder'[f].parent = folder[f].parent /\ folder'[f].name = folder[f].name
    BY <1>0, <1>3, <2>1, FolderMarkedEffect
  <2> QED BY <1>3, <2>2 DEF FolderMarked, fileVars, Files, HasFile
<1> QED BY <1>0, <1>1, <1>2, <1>3, RequestMarks DEF HandlersTyped

\* Nothing leaves the drive before it has spent the retention period in the
\* trash, for every interleaving of deletes, restores and overlapping purges.
THEOREM NothingPurgedEarly == TrashSpec => PurgeSparesTheRest
<1>1. ASSUME TrashInv, [TrashNext]_trashVars PROVE [SparesTheRest]_trashVars
  <2>1. ASSUME NEW r \in TrashRequest, TrashRequestNext(r) PROVE SparesTheRest
    BY <1>1, <2>1, RequestSpares DEF SparesTheRest
  <2>2. CASE Tick \/ Crash
    BY <2>2 DEF Tick, Crash, driveVars, storeVars, fileVars, SparesTheRest, Folders, Files,
         Stored, HasFile
  <2> QED BY <1>1, <2>1, <2>2, PurgeSpares DEF TrashNext
<1> QED BY <1>1, TrashInvariance, PTL DEF TrashSpec, PurgeSparesTheRest, SparesTheRest

-----------------------------------------------------------------------------
(* Objects: what a purge forgets it has deleted, or DeleteObjects has reported *)

PurgeListed(q) ==
  /\ q.pc = "objects" =>
       \A x \in Files : Expired(file[x], q.at) => file[x].key \in q.keys
  /\ q.pc \in {"files", "folders"} =>
       \A x \in Files : Expired(file[x], q.at) /\ file[x].key \in object => file[x].key \in failed

\* A file that is past a purge's cutoff has been listed; once the bucket has
\* answered, its object is gone or reported.
PurgesListed == \A p \in Purge : PurgeListed(purge[p])

\* No file gets past an earlier cutoff by this step, and none gets its object back.
NothingAges ==
  \A x \in Files', a \in Nat : a <= now /\ Expired(file'[x], a) =>
    /\ x \in Files /\ Expired(file[x], a) /\ file'[x].key = file[x].key
    /\ file[x].key \in object' => file[x].key \in object

\* A purge that does not move keeps its list complete while nothing ages.
LEMMA ListedKept ==
  ASSUME NEW q \in PurgeState, q.at <= now, PurgeListed(q), NothingAges, failed \subseteq failed'
  PROVE  PurgeListed(q)'
<1>1. q.at \in Nat
  BY DEF PurgeState
<1> QED BY <1>1 DEF PurgeListed, NothingAges

\* What a mark writes is not past its retention.
LEMMA RequestAgesNothing ==
  ASSUME TrashInv, NEW r \in TrashRequest, TrashRequestNext(r)
  PROVE  NothingAges /\ object' = object /\ failed' = failed /\ purge' = purge
<1>0. /\ StoresTyped /\ HandlersTyped /\ HandlersInOrder
      /\ FileStoreTypeOK /\ now \in Nat
  BY DEF TrashInv, StoresTyped, FileStoreTypeOK
<1>1. CASE UNCHANGED <<driveVars, purge, failed>>
  BY <1>1 DEF driveVars, fileVars, NothingAges, Files, HasFile
<1>2. ASSUME NEW x \in FileId, NEW at \in Time, Dated(r, at), FileMarked(r, x, at)
      PROVE  NothingAges /\ object' = object
  <2>1. treq[r].to \in Status
    BY <1>2 DEF Dated
  <2>2. /\ Files' = Files /\ \A y \in Files \ {x} : file'[y] = file[y]
        /\ file'[x].status = treq[r].to /\ file'[x].deletedAt = at
    BY <1>0, <1>2, <2>1, FileMarkedEffect
  <2>3. object' = object
    BY <1>2 DEF FileMarked
  <2>4. ASSUME NEW a \in Nat, a <= now PROVE ~Expired(file'[x], a)
    BY <1>0, <1>2, <2>2, <2>4, RetentionIsPositive, NullIsNoTime
       DEF Expired, Dated, FreshDate, Time
  <2> QED BY <2>2, <2>3, <2>4 DEF NothingAges
<1>3. ASSUME NEW f \in FolderId, NEW at \in Time, FolderMarked(r, f, at)
      PROVE  NothingAges /\ object' = object
  BY <1>3 DEF FolderMarked, fileVars, NothingAges, Files, HasFile
<1> QED
  BY <1>0, <1>1, <1>2, <1>3, RequestMarks DEF HandlersTyped, driveVars, fileVars

\* A purge that removes a file has asked for its object first.
LEMMA PurgeForgetsNothing ==
  ASSUME TrashInv, PurgesListed, NEW p \in Purge, PurgeNext(p)
  PROVE  /\ NothingAges /\ PurgesListed'
         /\ object' \subseteq object /\ failed \subseteq failed'
         /\ Files' \subseteq Files /\ \A x \in Files' : file'[x] = file[x]
         /\ \A x \in Files \ Files' : file[x].key \in object' => file[x].key \in failed'
<1>0. /\ StoresTyped /\ PurgesTyped /\ PurgesAreAsOf
      /\ FileStoreTypeOK /\ now \in Nat
  BY DEF TrashInv, StoresTyped, FileStoreTypeOK
<1>1. /\ object' \subseteq object /\ failed \subseteq failed'
      /\ Files' \subseteq Files /\ \A x \in Files' : file'[x] = file[x]
  <2>1. CASE UNCHANGED <<storeVars, file, now>> /\ object' \subseteq object
    BY <2>1 DEF PurgeNext, ListExpired, DeleteObjects, DeleteFiles, DeleteFolders, AbortPurge,
         Files, HasFile
  <2>2. ASSUME NEW x \in FileId, FileRemoved(p, x) PROVE
          Files' \subseteq Files /\ (\A y \in Files' : file'[y] = file[y]) /\ object' = object
    BY <1>0, <2>2, FileRemovedEffect DEF FileRemoved
  <2>3. ASSUME NEW f \in FolderId, FolderRemoved(p, f) PROVE
          Files' \subseteq Files /\ (\A y \in Files' : file'[y] = file[y]) /\ object' = object
    BY <2>3 DEF FolderRemoved, fileVars, Files, HasFile
  <2>4. failed \subseteq failed'
    BY DEF PurgeNext, ListExpired, DeleteObjects, DeleteFiles, DeleteFolders, AbortPurge
  <2> QED BY <2>1, <2>2, <2>3, <2>4, PurgeRemoves
<1>2. NothingAges
  BY <1>1 DEF NothingAges
<1>3. \A x \in Files \ Files' : file[x].key \in object' => file[x].key \in failed'
  <2>1. ASSUME NEW x \in FileId, FileRemoved(p, x), DeleteFiles(p) PROVE
          \A y \in Files \ Files' : file[y].key \in object' => file[y].key \in failed'
    <3>1. Files' = Files \ {x} /\ Expired(file[x], purge[p].at)
      BY <1>0, <2>1, FileRemovedEffect
    <3>2. purge[p].pc = "files" /\ object' = object /\ failed' = failed
      BY <2>1 DEF DeleteFiles
    <3> QED BY <3>1, <3>2 DEF PurgesListed, PurgeListed
  <2>2. CASE DeleteFiles(p)
    <3>1. file' = file \/ \E x \in FileId : FileRemoved(p, x)
      BY <2>2 DEF DeleteFiles, FileRemoved, ExpiredFiles, Files, storeVars
    <3> QED BY <2>1, <2>2, <3>1 DEF Files, HasFile
  <2>3. CASE ~DeleteFiles(p)
    BY <2>3 DEF PurgeNext, ListExpired, DeleteObjects, DeleteFolders, AbortPurge, driveVars,
         fileVars, Files, HasFile
  <2> QED BY <2>2, <2>3
<1>4. PurgesListed'
  <2> SUFFICES ASSUME NEW q \in Purge PROVE PurgeListed(purge[q])'
    BY DEF PurgesListed
  <2>1. purge[q] \in PurgeState /\ purge[q].at <= now /\ PurgeListed(purge[q])
    BY <1>0 DEF PurgesTyped, PurgesAreAsOf, PurgesListed
  <2>2. purge[p] \in PurgeState /\ purge[p].at <= now /\ PurgeListed(purge[p])
        /\ purge \in [Purge -> PurgeState] /\ purge[p].at \in Nat
    BY <1>0 DEF PurgesTyped, PurgesAreAsOf, PurgesListed, PurgeState
  <2>3. CASE purge'[q] = purge[q]
    <3> DEFINE s == purge[q]
    <3>1. PICK t \in PurgeState : t = purge[q]
      BY <2>1
    <3>2. PurgeListed(t)'
      BY <2>1, <3>1, <1>1, <1>2, ListedKept
    <3> QED BY <2>3, <3>1, <3>2
  <2>4. CASE q = p /\ ListExpired(p)
    <3>1. purge'[q] = [pc |-> "objects", at |-> now,
                       keys |-> {file[x].key : x \in ExpiredFiles(now)}]
      BY <2>2, <2>4 DEF ListExpired, Advance
    <3>2. purge'[q].pc = "objects" /\ purge'[q].at = now
          /\ purge'[q].keys = {file[x].key : x \in ExpiredFiles(now)}
      BY <3>1
    <3>3. file' = file
      BY <2>4 DEF ListExpired, driveVars, fileVars
    <3> QED BY <3>2, <3>3 DEF PurgeListed, ExpiredFiles, Files, HasFile
  <2>5. CASE q = p /\ DeleteObjects(p)
    <3>1. purge'[q] = [purge[p] EXCEPT !.pc = "files", !.keys = {}]
      BY <2>2, <2>5 DEF DeleteObjects, Advance
    <3>2. purge'[q].pc = "files" /\ purge'[q].at = purge[p].at
      BY <2>2, <3>1 DEF PurgeState
    <3>3. PICK errors \in SUBSET (purge[p].keys \cap object) :
            object' = object \ (purge[p].keys \ errors) /\ failed' = failed \cup errors
      BY <2>5 DEF DeleteObjects
    <3>4. purge[p].pc = "objects" /\ file' = file
      BY <2>5 DEF DeleteObjects
    <3> QED BY <2>2, <3>2, <3>3, <3>4 DEF PurgeListed, Files, HasFile
  <2>6. CASE q = p /\ DeleteFiles(p)
    <3>1. CASE purge' = purge
      BY <2>3, <3>1
    <3>2. CASE purge' # purge
      <4>1. purge'[q] = [purge[p] EXCEPT !.pc = "folders"]
        BY <2>2, <2>6, <3>2 DEF DeleteFiles, Advance
      <4>2. purge'[q].pc = "folders" /\ purge'[q].at = purge[p].at
        BY <2>2, <4>1 DEF PurgeState
      <4>3. purge[p].pc = "files" /\ file' = file /\ object' = object /\ failed' = failed
        BY <2>6, <3>2 DEF DeleteFiles
      <4> QED BY <2>2, <4>2, <4>3 DEF PurgeListed, Files, HasFile
    <3> QED BY <3>1, <3>2
  <2>7. CASE q = p /\ purge'[q].pc = "idle"
    BY <2>7 DEF PurgeListed
  <2>8. purge'[q] # purge[q] => q = p
    BY <2>2 DEF PurgeNext, ListExpired, DeleteObjects, DeleteFiles, DeleteFolders, AbortPurge,
         Advance, Finish
  <2>9. (DeleteFolders(p) \/ AbortPurge(p)) /\ q = p /\ purge'[q] # purge[q]
          => purge'[q].pc = "idle"
    BY <2>2 DEF DeleteFolders, AbortPurge, Finish, Advance, NoPurge
  <2> QED BY <2>3, <2>4, <2>5, <2>6, <2>7, <2>8, <2>9 DEF PurgeNext
<1> QED BY <1>1, <1>2, <1>3, <1>4

\* Whatever fails or crashes on the way, and however deletes, restores and purges
\* overlap, every object belongs to a document or was reported by DeleteObjects.
THEOREM ObjectsAreKnown == TrashSpec => []NoOrphanObject
<1>1. TrashInit => NoOrphanObject /\ PurgesListed
  BY DEF TrashInit, NoOrphanObject, PurgesListed, PurgeListed, NoPurge
<1>2. ASSUME TrashInv, NoOrphanObject, PurgesListed, [TrashNext]_trashVars
      PROVE  NoOrphanObject' /\ PurgesListed'
  <2>0. PurgesTyped /\ PurgesAreAsOf
    BY <1>2 DEF TrashInv
  <2>1. ASSUME NEW r \in TrashRequest, TrashRequestNext(r)
        PROVE  NoOrphanObject' /\ PurgesListed'
    <3>1. NothingAges /\ object' = object /\ failed' = failed /\ purge' = purge
      BY <1>2, <2>1, RequestAgesNothing
    <3>2. Files' = Files /\ \A x \in Files : file'[x].key = file[x].key
      BY <1>2, <2>1, RequestSpares
    <3>3. ASSUME NEW p \in Purge PROVE PurgeListed(purge[p])'
      <4>1. PICK q \in PurgeState : q = purge[p]
        BY <2>0 DEF PurgesTyped
      <4>2. PurgeListed(q)'
        BY <1>2, <2>0, <3>1, <4>1, ListedKept DEF PurgesListed, PurgesAreAsOf
      <4> QED BY <3>1, <4>1, <4>2
    <3> QED BY <1>2, <3>1, <3>2, <3>3 DEF NoOrphanObject, PurgesListed
  <2>2. ASSUME NEW p \in Purge, PurgeNext(p) PROVE NoOrphanObject' /\ PurgesListed'
    <3>1. /\ PurgesListed' /\ object' \subseteq object /\ failed \subseteq failed'
          /\ Files' \subseteq Files /\ \A x \in Files' : file'[x] = file[x]
          /\ \A x \in Files \ Files' : file[x].key \in object' => file[x].key \in failed'
      BY <1>2, <2>2, PurgeForgetsNothing
    <3> QED BY <1>2, <3>1 DEF NoOrphanObject
  <2>3. CASE Tick \/ UNCHANGED trashVars
    BY <1>2, <2>3 DEF Tick, trashVars, driveVars, fileVars, NoOrphanObject, PurgesListed,
         PurgeListed, Files, HasFile
  <2>4. CASE Crash
    BY <1>2, <2>4 DEF Crash, CrashHandlers, NoPurge, driveVars, fileVars, NoOrphanObject,
         PurgesListed, PurgeListed, Files, HasFile
  <2> QED BY <1>2, <2>1, <2>2, <2>3, <2>4 DEF TrashNext
<1> QED BY <1>1, <1>2, TrashInvariance, PTL DEF TrashSpec

-----------------------------------------------------------------------------
(* Without restores: a folder in the trash holds nothing active.  L is a set of *)
(* items that are let off; it is empty here, and the late ones in Drive.        *)

ClosedBut(L) ==
  \A f \in Folders : folder[f].status = "trashed" =>
    /\ \A g \in ChildrenOf(f) \ L : folder[g].status = "trashed"
    /\ \A x \in Files \ L : file[x].folder = f => file[x].status = "trashed"

HomedBut(L) ==
  /\ \A f \in Folders \ L :
       folder[f].status = "active" => folder[f].parent \in Folders \cup {Home}
  /\ \A x \in Files \ L :
       file[x].status = "active" => file[x].folder \in Folders \cup {Home}

\* What an activation has done: the files its updateMany has not still to come to
\* are in the trash, and in its loop so is every subfolder but those it has still
\* to enter and the one it is waiting for.
Covers(e, waiting, L) ==
  /\ \A x \in Files \ L : file[x].folder = e.id =>
       file[x].status = "trashed" \/ (e.step = "files" /\ x \in e.scan)
  /\ e.step = "each" =>
       \A g \in ChildrenOf(e.id) \ L :
         folder[g].status = "trashed" \/ g \in e.subs \cup waiting

Waiting(s, i) == IF i = 1 THEN {} ELSE {s[i - 1].id}

StackCovers(s, L) == \A i \in DOMAIN s : Covers(s[i], Waiting(s, i), L)

Covered(L) ==
  /\ ClosedBut(L)
  /\ HomedBut(L)
  /\ \A r \in TrashRequest : StackCovers(treq[r].stack, L)

\* A step that removes or trashes, and neither moves nor restores.
OnlyTrashes ==
  /\ Folders' \subseteq Folders
  /\ \A f \in Folders' :
       /\ folder'[f].parent = folder[f].parent
       /\ folder[f].status = "trashed" => folder'[f].status = "trashed"
  /\ Files' \subseteq Files
  /\ \A x \in Files' :
       /\ file'[x].folder = file[x].folder
       /\ file[x].status = "trashed" => file'[x].status = "trashed"

\* An activation that has covered a folder still covers it after such a step.
LEMMA CoversKept ==
  ASSUME NEW e, NEW waiting, NEW L, Covers(e, waiting, L), OnlyTrashes
  PROVE  Covers(e, waiting, L)'
  BY DEF Covers, OnlyTrashes, ChildrenOf

\* And so do those of a whole recursion.
LEMMA StackCoversKept ==
  ASSUME NEW s, NEW L, StackCovers(s, L), OnlyTrashes
  PROVE  StackCovers(s, L)'
  BY CoversKept DEF StackCovers, Waiting

\* Without restores, handlers only trash, and a folder only at the end of its turn.
LEMMA RequestOnlyTrashes ==
  ASSUME TrashInv, ~Restores, NEW r \in TrashRequest, TrashRequestNext(r)
  PROVE  /\ OnlyTrashes
         /\ Folders' = Folders /\ Files' = Files
         /\ \A f \in Folders : folder'[f] # folder[f] =>
              /\ MarkFolder(r) /\ f = Top(r).id
              /\ folder'[f].status = "trashed"
<1>0. /\ StoresTyped /\ HandlersTyped /\ HandlersInOrder
      /\ FolderStoreTypeOK /\ FileStoreTypeOK
  BY DEF TrashInv, StoresTyped
<1>1. /\ Files' = Files /\ Folders' = Folders
      /\ \A x \in Files : file'[x].folder = file[x].folder
      /\ \A f \in Folders : folder'[f].parent = folder[f].parent
  BY RequestSpares
<1>2. CASE UNCHANGED driveVars
  BY <1>1, <1>2 DEF OnlyTrashes, driveVars, storeVars, fileVars
<1>3. ASSUME NEW x \in FileId, NEW at \in Time, Dated(r, at), FileMarked(r, x, at)
      PROVE  OnlyTrashes /\ folder' = folder
  <2>1. treq[r].to = "trashed" /\ treq[r].to \in Status
    BY <1>3 DEF Dated, Requested
  <2>2. /\ \A y \in Files \ {x} : file'[y] = file[y]
        /\ file'[x].status = treq[r].to
    BY <1>0, <1>3, <2>1, FileMarkedEffect
  <2> QED BY <1>1, <1>3, <2>1, <2>2 DEF OnlyTrashes, FileMarked, storeVars
<1>4. ASSUME NEW f \in FolderId, NEW at \in Time, Dated(r, at), FolderMarked(r, f, at)
      PROVE  /\ OnlyTrashes /\ folder'[f].status = "trashed"
             /\ \A g \in Folders \ {f} : folder'[g] = folder[g]
  <2>1. treq[r].to = "trashed" /\ treq[r].to \in Status
    BY <1>4 DEF Dated, Requested
  <2>2. /\ \A g \in Folders \ {f} : folder'[g] = folder[g]
        /\ folder'[f].status = treq[r].to
    BY <1>0, <1>4, <2>1, FolderMarkedEffect
  <2>3. file' = file
    BY <1>4 DEF FolderMarked, fileVars
  <2> QED BY <1>1, <2>1, <2>2, <2>3 DEF OnlyTrashes
<1>5. OnlyTrashes
  BY <1>0, <1>2, <1>3, <1>4, RequestMarks DEF HandlersTyped
<1>6. ASSUME NEW f \in Folders, folder'[f] # folder[f]
      PROVE  MarkFolder(r) /\ f = Top(r).id /\ folder'[f].status = "trashed"
  <2>1. MarkFolder(r)
    BY <1>6 DEF TrashRequestNext, FindFile, SaveFile, FindFolder, MarkFiles, FindSubs, EnterSub,
         driveVars, storeVars
  <2>2. f = Top(r).id
    BY <1>0, <1>6, <2>1 DEF MarkFolder, MarkTop, FolderStoreTypeOK, Folders
  <2>3. folder'[f].status = "trashed"
    BY <1>0, <1>2, <1>3, <1>4, <1>6, RequestMarks DEF HandlersTyped, driveVars, storeVars
  <2> QED BY <2>1, <2>2, <2>3
<1> QED BY <1>1, <1>5, <1>6

\* A purge removes trash and changes nothing else.
LEMMA PurgeOnlyTrashes ==
  ASSUME TrashInv, NEW p \in Purge, PurgeNext(p)
  PROVE  /\ OnlyTrashes
         /\ \A f \in Folders' : folder'[f] = folder[f]
         /\ \A x \in Files' : file'[x] = file[x]
         /\ \A f \in Folders \ Folders' : folder[f].status = "trashed"
<1>0. StoresTyped /\ PurgesTyped /\ PurgesAreAsOf /\ FolderStoreTypeOK /\ FileStoreTypeOK
  BY DEF TrashInv, StoresTyped
<1>1. CASE UNCHANGED <<storeVars, file, now>> /\ object' \subseteq object
  BY <1>1 DEF storeVars, OnlyTrashes, Folders, Files, Stored, HasFile
<1>2. ASSUME NEW x \in FileId, FileRemoved(p, x)
      PROVE  /\ Files' \subseteq Files /\ \A y \in Files' : file'[y] = file[y]
             /\ Folders' = Folders /\ folder' = folder
  BY <1>0, <1>2, FileRemovedEffect DEF FileRemoved, storeVars, Folders, Stored
<1>3. ASSUME NEW f \in FolderId, FolderRemoved(p, f)
      PROVE  /\ Folders' \subseteq Folders /\ \A g \in Folders' : folder'[g] = folder[g]
             /\ \A g \in Folders \ Folders' : folder[g].status = "trashed"
             /\ Files' = Files /\ file' = file
  BY <1>0, <1>3, FolderRemovedEffect DEF FolderRemoved, fileVars, Files, HasFile, Expired
<1> QED BY <1>1, <1>2, <1>3, PurgeRemoves DEF OnlyTrashes

\* The three changes of a stack: the innermost activation goes on as e ...
LEMMA TopCovers ==
  ASSUME NEW L, NEW s \in Seq(Frame), s # <<>>, StackCovers(s, L), OnlyTrashes,
         NEW e \in Frame, e.id = s[1].id, Covers(e, {}, L)'
  PROVE  StackCovers(<<e>> \o Tail(s), L)'
<1> DEFINE t == <<e>> \o Tail(s)
<1>1. /\ DOMAIN t = DOMAIN s /\ t[1] = e
      /\ \A i \in DOMAIN t : i # 1 => t[i] = s[i]
  BY StackTop
<1>2. DOMAIN s = 1..Len(s) /\ Len(s) \in Nat
  OBVIOUS
<1> HIDE DEF t
<1>3. ASSUME NEW i \in DOMAIN t PROVE Covers(t[i], Waiting(t, i), L)'
  <2>1. CASE i = 1
    BY <1>1, <2>1 DEF Waiting
  <2>2. CASE i # 1
    <3>1. t[i] = s[i] /\ i \in DOMAIN s /\ i - 1 \in DOMAIN t
      BY <1>1, <1>2, <2>2
    <3>2. Waiting(t, i) = Waiting(s, i)
      BY <1>1, <2>2, <3>1 DEF Waiting
    <3>3. Covers(s[i], Waiting(s, i), L)
      BY <3>1 DEF StackCovers
    <3>4. Covers(s[i], Waiting(s, i), L)'
      BY <3>3, CoversKept
    <3> QED BY <3>1, <3>2, <3>4
  <2> QED BY <2>1, <2>2
<1> QED BY <1>3 DEF StackCovers, t

\* ... or enters a subfolder, and waits for it ...
LEMMA PushCovers ==
  ASSUME NEW L, NEW s \in Seq(Frame), s # <<>>, StackCovers(s, L), OnlyTrashes,
         NEW d \in Frame, NEW e \in Frame, e.id = s[1].id,
         Covers(d, {}, L)', Covers(e, {d.id}, L)'
  PROVE  StackCovers(<<d, e>> \o Tail(s), L)'
<1> DEFINE t == <<d, e>> \o Tail(s)
<1>1. /\ t \in Seq(Frame) /\ Len(t) = Len(s) + 1 /\ t[1] = d /\ t[2] = e
      /\ \A i \in DOMAIN t : i # 1 /\ i # 2 => i - 1 \in DOMAIN s /\ t[i] = s[i - 1]
  BY StackPush
<1>2. DOMAIN s = 1..Len(s) /\ Len(s) \in Nat
  OBVIOUS
<1> HIDE DEF t
<1>3. DOMAIN t = 1..Len(t)
  BY <1>1
<1>4. ASSUME NEW i \in DOMAIN t PROVE Covers(t[i], Waiting(t, i), L)'
  <2>1. CASE i = 1
    BY <1>1, <2>1 DEF Waiting
  <2>2. CASE i = 2
    <3>1. Waiting(t, i) = {d.id}
      BY <1>1, <2>2 DEF Waiting
    <3> QED BY <1>1, <2>2, <3>1
  <2>3. CASE i # 1 /\ i # 2
    <3>1. t[i] = s[i - 1] /\ i - 1 \in DOMAIN s /\ i - 1 # 1 /\ i - 1 \in DOMAIN t
      BY <1>1, <1>2, <1>3, <2>3
    <3>2. t[i - 1].id = s[i - 2].id
      <4>1. CASE i = 3
        BY <1>1, <4>1
      <4>2. CASE i # 3
        BY <1>1, <1>2, <1>3, <2>3, <3>1, <4>2
      <4> QED BY <4>1, <4>2
    <3>3. Waiting(t, i) = Waiting(s, i - 1)
      BY <1>1, <1>2, <1>3, <2>3, <3>1, <3>2 DEF Waiting
    <3>4. Covers(s[i - 1], Waiting(s, i - 1), L)
      BY <3>1 DEF StackCovers
    <3>5. Covers(s[i - 1], Waiting(s, i - 1), L)'
      BY <3>4, CoversKept
    <3> QED BY <3>1, <3>3, <3>5
  <2> QED BY <2>1, <2>2, <2>3
<1> QED BY <1>4 DEF StackCovers, t

\* ... or returns, having put its folder in the trash.
LEMMA PopCovers ==
  ASSUME NEW L, NEW s \in Seq(Frame), s # <<>>, StackCovers(s, L), OnlyTrashes,
         s[1].id \in Folders' => folder'[s[1].id].status = "trashed"
  PROVE  StackCovers(Tail(s), L)'
<1> DEFINE t == Tail(s)
<1>1. /\ t \in Seq(Frame) /\ Len(t) = Len(s) - 1
      /\ \A i \in DOMAIN t : i + 1 \in DOMAIN s /\ t[i] = s[i + 1]
  BY StackPop
<1>2. DOMAIN s = 1..Len(s) /\ Len(s) \in Nat
  OBVIOUS
<1> HIDE DEF t
<1>3. DOMAIN t = 1..Len(t)
  BY <1>1
<1>4. ASSUME NEW i \in DOMAIN t PROVE Covers(t[i], Waiting(t, i), L)'
  <2>1. i + 1 \in DOMAIN s /\ t[i] = s[i + 1] /\ i \in Nat /\ i + 1 # 1 /\ i + 1 - 1 = i
    BY <1>1, <1>3
  <2>2. Waiting(s, i + 1) = {s[i].id}
    BY <2>1 DEF Waiting
  <2>3. Covers(t[i], {s[i].id}, L)
    BY <2>1, <2>2 DEF StackCovers
  <2>4. Covers(t[i], {s[i].id}, L)'
    BY <2>3, CoversKept
  <2>5. CASE i = 1
    <3>1. Waiting(t, i) = {}
      BY <2>5 DEF Waiting
    <3>2. Covers(t[i], {}, L)'
      BY <2>4, <2>5 DEF Covers, ChildrenOf
    <3> QED BY <3>1, <3>2
  <2>6. CASE i # 1
    <3>1. i - 1 \in DOMAIN t /\ i - 1 + 1 = i
      BY <1>3, <2>1, <2>6
    <3>2. Waiting(t, i) = {s[i].id}
      BY <1>1, <2>6, <3>1 DEF Waiting
    <3> QED BY <2>4, <3>2
  <2> QED BY <2>5, <2>6
<1> QED BY <1>4 DEF StackCovers, t

\* The stack of the handler that takes the step still covers what it has done.
LEMMA RequestKeepsStack ==
  ASSUME TrashInv, ~Restores, NEW r \in TrashRequest, TrashRequestNext(r), NEW L,
         StackCovers(treq[r].stack, L)
  PROVE  StackCovers(treq[r].stack, L)'
<1> DEFINE Kept == StackCovers(treq[r].stack, L)'
<1>0. /\ treq \in [TrashRequest -> TrashState] /\ InOrder(treq[r])
      /\ FolderStoreTypeOK /\ FileStoreTypeOK /\ treq[r] \in TrashState
  BY DEF TrashInv, HandlersTyped, HandlersInOrder, StoresTyped
<1>1. OnlyTrashes
  BY RequestOnlyTrashes
<1>2. PICK s \in Seq(Frame) : s = treq[r].stack
  BY <1>0 DEF TrashState
<1>3. StackCovers(s, L)
  BY <1>2
<1>4. ASSUME UNCHANGED treq PROVE Kept
  BY <1>1, <1>2, <1>3, <1>4, StackCoversKept
<1>5. ASSUME NEW t \in Seq(Frame), Become(r, [treq[r] EXCEPT !.stack = t]), StackCovers(t, L)'
      PROVE  Kept
  <2>1. treq'[r] = [treq[r] EXCEPT !.stack = t]
    BY <1>0, <1>5 DEF Become
  <2>2. treq'[r].stack = t
    BY <1>0, <2>1 DEF TrashState
  <2> QED BY <1>5, <2>2
<1>6. ASSUME Become(r, Quiescent) PROVE Kept
  <2>1. treq'[r].stack = <<>>
    BY <1>0, <1>6 DEF Become, Quiescent
  <2> QED BY <2>1 DEF StackCovers
<1>7. ASSUME treq[r].pc = "folder"
      PROVE  /\ s # <<>> /\ Top(r) = s[1] /\ s[1] \in Frame
             /\ treq[r].to = "trashed" /\ Covers(s[1], {}, L)
  <2>1. s # <<>>
    BY <1>0, <1>2, <1>7 DEF InOrder
  <2>2. Head(s) = s[1] /\ s[1] \in Frame /\ 1 \in DOMAIN s
    BY <2>1, StackPop
  <2>3. treq[r].to = "trashed"
    BY <1>0, <1>7 DEF InOrder, Requested
  <2> QED BY <1>2, <1>3, <2>1, <2>2, <2>3 DEF Top, StackCovers, Waiting
<1>8. ASSUME treq[r].pc = "folder", NEW e \in Frame, e.id = s[1].id, Covers(e, {}, L)',
             SetTop(r, e)
      PROVE  Kept
  <2>1. StackCovers(<<e>> \o Tail(s), L)'
    BY <1>1, <1>3, <1>7, <1>8, TopCovers
  <2>2. <<e>> \o Tail(s) \in Seq(Frame)
    BY <1>7, <1>8, StackTop
  <2>3. Become(r, [treq[r] EXCEPT !.stack = <<e>> \o Tail(s)])
    BY <1>2, <1>8 DEF SetTop
  <2> QED BY <1>5, <2>1, <2>2, <2>3
<1>9. CASE MarkFiles(r)
  <2> DEFINE top == Top(r)
             hit == {x \in FilesIn(top.id) : file[x].status = Opposite(treq[r].to)}
  <2>1. /\ treq[r].pc = "folder" /\ top.step = "files"
        /\ \/ top.scan = {} /\ SetTop(r, [top EXCEPT !.step = "subs"]) /\ UNCHANGED file
           \/ \E x \in top.scan \cup hit :
                /\ file' = IF x \in hit
                             THEN [file EXCEPT ![x] = Marked(@, treq[r].to, top.at)]
                             ELSE file
                /\ SetTop(r, [top EXCEPT !.scan = @ \ {x}])
    BY <1>9 DEF MarkFiles
  <2>2. /\ top = s[1] /\ s[1] \in Frame /\ treq[r].to = "trashed"
        /\ Covers(s[1], {}, L) /\ Covers(s[1], {}, L)'
    BY <1>1, <1>7, <2>1, CoversKept
  <2>3. CASE top.scan = {} /\ SetTop(r, [top EXCEPT !.step = "subs"]) /\ UNCHANGED file
    <3>1. PICK e \in Frame : e = [s[1] EXCEPT !.step = "subs"]
      BY <2>2 DEF Frame
    <3>2. e.id = s[1].id /\ e.step = "subs"
      BY <2>2, <3>1 DEF Frame
    <3>3. Covers(e, {}, L)'
      BY <2>1, <2>2, <2>3, <3>2 DEF Covers
    <3> QED BY <1>8, <2>1, <2>2, <2>3, <3>1, <3>2, <3>3
  <2>4. ASSUME NEW x \in top.scan \cup hit,
               file' = IF x \in hit
                         THEN [file EXCEPT ![x] = Marked(@, treq[r].to, top.at)]
                         ELSE file,
               SetTop(r, [top EXCEPT !.scan = @ \ {x}])
        PROVE  Kept
    <3>1. PICK e \in Frame : e = [s[1] EXCEPT !.scan = @ \ {x}]
      BY <2>2 DEF Frame
    <3>2. e.id = s[1].id /\ e.step = "files" /\ e.scan = s[1].scan \ {x}
      BY <2>1, <2>2, <3>1 DEF Frame
    <3>3. ASSUME x \in Files', file'[x].folder = s[1].id PROVE file'[x].status = "trashed"
      <4>1. Files' = Files /\ file[x].folder = s[1].id
        BY <3>3, RequestOnlyTrashes DEF OnlyTrashes
      <4>2. file[x] \in FileDoc /\ x \in FileId
        BY <1>0, <3>3, <4>1 DEF FileStoreTypeOK, Files, HasFile
      <4>3. CASE x \in hit
        <5>1. file'[x] = Marked(file[x], "trashed", s[1].at)
          BY <1>0, <2>2, <2>4, <4>2, <4>3 DEF FileStoreTypeOK
        <5> QED BY <4>2, <5>1 DEF Marked, FileDoc
      <4>4. CASE x \notin hit
        <5>1. file' = file /\ file[x].status # "active"
          BY <2>2, <2>4, <3>3, <4>1, <4>4 DEF FilesIn, Opposite
        <5> QED BY <4>2, <5>1 DEF FileDoc, Status
      <4> QED BY <4>3, <4>4
    <3>4. Covers(e, {}, L)'
      BY <2>1, <2>2, <3>2, <3>3 DEF Covers
    <3> QED BY <1>8, <2>1, <2>2, <2>4, <3>1, <3>2, <3>4
  <2> QED BY <2>1, <2>3, <2>4
<1>10. CASE FindSubs(r)
  <2> DEFINE D == {g \in ChildrenOf(Top(r).id) : folder[g].status = Opposite(treq[r].to)}
  <2>0. treq[r].pc = "folder"
    BY <1>10 DEF FindSubs
  <2>1. PICK G \in SUBSET FolderId : G = D
    BY DEF ChildrenOf, Folders
  <2>2. PICK e \in Frame : e = [s[1] EXCEPT !.step = "each", !.subs = G]
    BY <1>7, <2>0 DEF Frame
  <2>3. e.id = s[1].id /\ e.step = "each" /\ e.subs = G
    BY <1>7, <2>0, <2>2 DEF Frame
  <2>4. s[1].step = "subs" /\ SetTop(r, e) /\ UNCHANGED <<folder, file>>
    BY <1>7, <1>10, <2>1, <2>2 DEF FindSubs, driveVars, storeVars, fileVars
  <2>5. \A g \in ChildrenOf(e.id) : folder[g].status = "trashed" \/ g \in e.subs
    <3>1. \A g \in Folders : folder[g].status \in {"active", "trashed"}
      BY <1>0 DEF FolderStoreTypeOK, Folders, Stored, FolderDoc, Status
    <3> QED BY <1>7, <2>0, <2>1, <2>3, <3>1 DEF ChildrenOf, Opposite
  <2>6. \A x \in Files \ L : file[x].folder = e.id => file[x].status = "trashed"
    BY <1>7, <2>0, <2>3, <2>4 DEF Covers, Frame
  <2>7. Covers(e, {}, L)
    BY <2>5, <2>6 DEF Covers
  <2>8. Covers(e, {}, L)'
    BY <1>1, <2>7, CoversKept
  <2> QED BY <1>8, <2>0, <2>3, <2>4, <2>8
<1>11. CASE EnterSub(r)
  <2>0. treq[r].pc = "folder" /\ s[1].step = "each"
    BY <1>7, <1>11 DEF EnterSub
  <2>1. PICK g \in s[1].subs :
          Become(r, [treq[r] EXCEPT !.stack =
            <<Activation(g, treq[r].to), [s[1] EXCEPT !.subs = @ \ {g}]>> \o Tail(@)])
    BY <1>7, <1>11 DEF EnterSub
  <2>2. g \in FolderId /\ treq[r].to \in Status /\ now \in Nat
    BY <1>0, <1>7, <2>0 DEF Frame, TrashState, FileStoreTypeOK
  <2>3. PICK d \in Frame : d = Activation(g, treq[r].to)
    BY <2>2, DatesTaken DEF Activation, Frame, FilesIn, Files
  <2>4. d.id = g /\ d.step = "files" /\ d.scan = FilesIn(g) /\ UNCHANGED file
    BY <1>11, <2>3 DEF Activation, EnterSub, driveVars, fileVars
  <2>5. PICK e \in Frame : e = [s[1] EXCEPT !.subs = @ \ {g}]
    BY <1>7, <2>0 DEF Frame
  <2>6. e.id = s[1].id /\ e.step = "each" /\ e.subs = s[1].subs \ {g}
    BY <1>7, <2>0, <2>5 DEF Frame
  <2>7. Covers(d, {}, L)'
    BY <2>4 DEF Covers, FilesIn, Files, HasFile
  <2>8. Covers(e, {d.id}, L)
    BY <1>7, <2>0, <2>4, <2>6 DEF Covers
  <2>9. Covers(e, {d.id}, L)'
    BY <1>1, <2>8, CoversKept
  <2>10. StackCovers(<<d, e>> \o Tail(s), L)'
    BY <1>1, <1>3, <1>7, <2>0, <2>6, <2>7, <2>9, PushCovers
  <2>11. <<d, e>> \o Tail(s) \in Seq(Frame)
    BY <1>7, <2>0, StackPush
  <2>12. Become(r, [treq[r] EXCEPT !.stack = <<d, e>> \o Tail(s)])
    BY <1>2, <2>1, <2>3, <2>5
  <2> QED BY <1>5, <2>10, <2>11, <2>12
<1>12. CASE MarkFolder(r)
  <2>1. treq[r].pc = "folder"
        /\ (Become(r, Quiescent) \/ Become(r, [treq[r] EXCEPT !.stack = Tail(s)]))
    BY <1>2, <1>12 DEF MarkFolder, MarkTop
  <2>2. s[1].id \in Folders' => folder'[s[1].id].status = "trashed"
    <3>1. Folders' = Folders
      BY RequestOnlyTrashes
    <3>2. s[1].id \in Folders => folder[s[1].id] \in FolderDoc
      BY <1>0 DEF FolderStoreTypeOK, Folders, Stored
    <3>3. s[1].id \in Folders => folder' = [folder EXCEPT ![s[1].id] =
                                              Marked(folder[s[1].id], "trashed", s[1].at)]
      BY <1>7, <1>12, <2>1 DEF MarkFolder, MarkTop, Folders
    <3>4. s[1].id \in Folders => Marked(folder[s[1].id], "trashed", s[1].at).status = "trashed"
      BY <3>2 DEF Marked, FolderDoc
    <3> QED BY <1>0, <3>1, <3>3, <3>4 DEF FolderStoreTypeOK, Folders
  <2>3. StackCovers(Tail(s), L)' /\ Tail(s) \in Seq(Frame)
    BY <1>1, <1>3, <1>7, <2>1, <2>2, PopCovers
  <2> QED BY <1>5, <1>6, <2>1, <2>3
<1>13. ASSUME NEW f \in FolderId, NEW status \in Status, FindFolder(r, f, status) PROVE Kept
  <2>1. now \in Nat
    BY <1>0 DEF FileStoreTypeOK
  <2>2. PICK d \in Frame : d = Activation(f, status)
    BY <2>1, DatesTaken DEF Activation, Frame, FilesIn, Files
  <2>3. d.id = f /\ d.step = "files" /\ d.scan = FilesIn(f) /\ UNCHANGED file
    BY <1>13, <2>2 DEF Activation, FindFolder, driveVars, fileVars
  <2>4. treq'[r].stack = <<d>>
    BY <1>0, <1>13, <2>2 DEF FindFolder, Become, Quiescent
  <2>5. DOMAIN <<d>> = {1} /\ <<d>>[1] = d
    OBVIOUS
  <2>6. StackCovers(<<d>>, L)'
    BY <2>3, <2>5 DEF StackCovers, Covers, FilesIn, Files, HasFile
  <2> QED BY <2>4, <2>6
<1>14. ASSUME NEW x \in FileId, NEW status \in Status, FindFile(r, x, status) PROVE Kept
  <2>1. treq'[r].stack = <<>>
    BY <1>0, <1>14 DEF FindFile, Become, Quiescent
  <2> QED BY <2>1 DEF StackCovers
<1>15. CASE SaveFile(r)
  BY <1>6, <1>15 DEF SaveFile
<1> QED
  BY <1>9, <1>10, <1>11, <1>12, <1>13, <1>14, <1>15 DEF TrashRequestNext

\* A folder goes to the trash after everything in it.
LEMMA RequestKeepsCovered ==
  ASSUME TrashInv, ~Restores, NEW r \in TrashRequest, TrashRequestNext(r), NEW L, Covered(L)
  PROVE  Covered(L)'
<1>0. treq \in [TrashRequest -> TrashState] /\ InOrder(treq[r]) /\ treq[r] \in TrashState
  BY DEF TrashInv, HandlersTyped, HandlersInOrder
<1>1. /\ OnlyTrashes
      /\ Folders' = Folders /\ Files' = Files
      /\ \A f \in Folders : folder'[f] # folder[f] =>
           MarkFolder(r) /\ f = Top(r).id /\ folder'[f].status = "trashed"
  BY RequestOnlyTrashes
<1>2. ASSUME NEW f \in Folders, folder'[f] # folder[f]
      PROVE  /\ \A g \in ChildrenOf(f) \ L : folder[g].status = "trashed"
             /\ \A x \in Files \ L : file[x].folder = f => file[x].status = "trashed"
  <2>1. treq[r].pc = "folder" /\ Top(r).step = "each" /\ Top(r).subs = {} /\ f = Top(r).id
    BY <1>1, <1>2 DEF MarkFolder
  <2>2. treq[r].stack \in Seq(Frame) /\ treq[r].stack # <<>>
    BY <1>0, <2>1 DEF InOrder, TrashState
  <2>3. Top(r) = treq[r].stack[1] /\ 1 \in DOMAIN treq[r].stack
    BY <2>2, StackPop DEF Top
  <2>4. Covers(Top(r), {}, L)
    BY <2>3 DEF Covered, StackCovers, Waiting
  <2> QED BY <2>1, <2>4 DEF Covers
<1>3. ClosedBut(L)'
  <2> SUFFICES ASSUME NEW f \in Folders', folder'[f].status = "trashed"
               PROVE  /\ \A g \in ChildrenOf(f)' \ L : folder'[g].status = "trashed"
                      /\ \A x \in Files' \ L : file'[x].folder = f => file'[x].status = "trashed"
    BY DEF ClosedBut
  <2>1. /\ \A g \in ChildrenOf(f) \ L : folder[g].status = "trashed"
        /\ \A x \in Files \ L : file[x].folder = f => file[x].status = "trashed"
    BY <1>1, <1>2 DEF Covered, ClosedBut
  <2> QED BY <1>1, <2>1 DEF OnlyTrashes, ChildrenOf
<1>4. HomedBut(L)'
  <2>1. FolderStoreTypeOK /\ FileStoreTypeOK
    BY DEF TrashInv, StoresTyped
  <2>2. \A f \in Folders : folder'[f].status = "active" => folder[f].status = "active"
    BY <1>1, <2>1 DEF OnlyTrashes, FolderStoreTypeOK, Folders, Stored, FolderDoc, Status
  <2>3. \A x \in Files : file'[x].status = "active" => file[x].status = "active"
    BY <1>1, <2>1 DEF OnlyTrashes, FileStoreTypeOK, Files, HasFile, FileDoc, Status
  <2> QED BY <1>1, <2>2, <2>3 DEF Covered, HomedBut, OnlyTrashes
<1>5. ASSUME NEW q \in TrashRequest PROVE StackCovers(treq[q].stack, L)'
  <2>1. CASE q = r
    BY <2>1, RequestKeepsStack DEF Covered
  <2>2. CASE q # r
    <3>1. PICK s \in Seq(Frame) : s = treq[q].stack
      BY <1>0 DEF TrashState
    <3>2. treq'[q] = treq[q]
      BY <1>0, <2>2 DEF TrashRequestNext, FindFile, SaveFile, FindFolder, MarkFiles, FindSubs,
           EnterSub, MarkFolder, MarkTop, SetTop, Become
    <3>3. StackCovers(s, L)'
      BY <1>1, <3>1, StackCoversKept DEF Covered
    <3> QED BY <3>1, <3>2, <3>3
  <2> QED BY <2>1, <2>2
<1> QED BY <1>3, <1>4, <1>5 DEF Covered

\* A purge takes what is in a folder no later than it leaves it alone in the trash.
LEMMA PurgeKeepsCovered ==
  ASSUME TrashInv, NEW p \in Purge, PurgeNext(p), NEW L, Covered(L)
  PROVE  Covered(L)'
<1>1. /\ OnlyTrashes
      /\ \A f \in Folders' : folder'[f] = folder[f]
      /\ \A x \in Files' : file'[x] = file[x]
      /\ \A f \in Folders \ Folders' : folder[f].status = "trashed"
      /\ Folders' \subseteq Folders /\ Files' \subseteq Files
  BY PurgeOnlyTrashes DEF OnlyTrashes
<1>2. ClosedBut(L)'
  BY <1>1 DEF Covered, ClosedBut, ChildrenOf
<1>3. HomedBut(L)'
  <2>1. ASSUME NEW f \in Folders' \ L, folder'[f].status = "active"
        PROVE  folder'[f].parent \in Folders' \cup {Home}
    <3>1. f \in Folders \ L /\ folder[f].status = "active" /\ folder'[f].parent = folder[f].parent
      BY <1>1, <2>1
    <3>2. ASSUME folder[f].parent \in Folders \ Folders' PROVE FALSE
      BY <1>1, <3>1, <3>2 DEF Covered, ClosedBut, ChildrenOf
    <3> QED BY <3>1, <3>2 DEF Covered, HomedBut
  <2>2. ASSUME NEW x \in Files' \ L, file'[x].status = "active"
        PROVE  file'[x].folder \in Folders' \cup {Home}
    <3>1. x \in Files \ L /\ file[x].status = "active" /\ file'[x].folder = file[x].folder
      BY <1>1, <2>2
    <3>2. ASSUME file[x].folder \in Folders \ Folders' PROVE FALSE
      BY <1>1, <3>1, <3>2 DEF Covered, ClosedBut
    <3> QED BY <3>1, <3>2 DEF Covered, HomedBut
  <2> QED BY <2>1, <2>2 DEF HomedBut
<1>4. ASSUME NEW q \in TrashRequest PROVE StackCovers(treq[q].stack, L)'
  <2>1. PICK s \in Seq(Frame) : s = treq[q].stack
    BY DEF TrashInv, HandlersTyped, TrashState
  <2>2. treq' = treq
    BY PurgeRemoves
  <2> QED BY <1>1, <2>1, <2>2, StackCoversKept DEF Covered
<1> QED BY <1>2, <1>3, <1>4 DEF Covered

\* The clock and a crash leave the collections alone; a crash drops all stacks.
LEMMA QuietKeepsCovered ==
  ASSUME NEW L, Covered(L), UNCHANGED <<folder, file>>, UNCHANGED treq \/ CrashHandlers
  PROVE  Covered(L)'
<1>1. ClosedBut(L)' /\ HomedBut(L)'
  BY DEF Covered, ClosedBut, HomedBut, ChildrenOf, Folders, Files, Stored, HasFile
<1>2. CASE UNCHANGED treq
  BY <1>1, <1>2
     DEF Covered, StackCovers, Covers, Waiting, ChildrenOf, Folders, Files, Stored, HasFile
<1>3. CASE CrashHandlers
  BY <1>1, <1>3 DEF CrashHandlers, Quiescent, Covered, StackCovers
<1> QED BY <1>2, <1>3

\* At the start everything is covered.
LEMMA CoveredInit == TrashInit => Covered({})
<1> SUFFICES ASSUME TrashInit PROVE Covered({})
  OBVIOUS
<1>1. Folders = StartFolders /\ Files = StartFiles /\ folder = Tree /\ file = Place
  BY DEF TrashInit, Folders, Files, Stored, HasFile, StartFolders, StartFiles
<1>2. ClosedBut({}) /\ HomedBut({})
  <2>1. Home \notin Folders
    BY HomeIsNoFolder DEF Folders
  <2> QED BY <1>1, <2>1, StartIsClosed DEF ClosedBut, HomedBut, ChildrenOf
<1>3. \A r \in TrashRequest : StackCovers(treq[r].stack, {})
  BY DEF TrashInit, Quiescent, StackCovers
<1> QED BY <1>2, <1>3 DEF Covered

\* The invariant behind both theorems: what lies in trash is trash, or is still to
\* be reached by the recursion that trashes it.
LEMMA CoveredInvariance == ~Restores /\ TrashSpec => []Covered({})
<1>1. ASSUME TrashInv, ~Restores, Covered({}), [TrashNext]_trashVars PROVE Covered({})'
  <2>1. CASE Tick \/ Crash \/ UNCHANGED trashVars
    BY <1>1, <2>1, QuietKeepsCovered
       DEF Tick, Crash, trashVars, driveVars, storeVars, fileVars
  <2> QED BY <1>1, <2>1, RequestKeepsCovered, PurgeKeepsCovered DEF TrashNext
<1>2. ~Restores => []~Restores
  <2>1. ~Restores => (~Restores)'
    OBVIOUS
  <2> QED BY <2>1, PTL
<1> QED BY <1>1, <1>2, CoveredInit, TrashInvariance, PTL DEF TrashSpec

\* As long as nothing is restored, a folder is in the trash only when everything
\* below it is: the recursion that trashes children before parents, one document
\* at a time, beside other deletes, purges and crashes, never exposes a trashed
\* folder with an active item in it.
THEOREM DeleteLeavesNothingActive == ~Restores /\ TrashSpec => []TrashIsClosed
<1>1. Covered({}) => TrashIsClosed
  BY DEF Covered, ClosedBut, TrashIsClosed
<1> QED BY <1>1, CoveredInvariance, PTL

\* ... and so no active item is ever left in a folder the purge has removed.
THEOREM PurgeOrphansNothing == ~Restores /\ TrashSpec => []NoActiveOrphan
<1>1. Covered({}) => NoActiveOrphan
  BY DEF Covered, HomedBut, NoActiveOrphan
<1> QED BY <1>1, CoveredInvariance, PTL

=============================================================================

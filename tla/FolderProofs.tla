----------------------------- MODULE FolderProofs -----------------------------
(* What FolderRequests guarantees for every set of folders, names and         *)
(* requests: the types, the unique index, no lost update, and, as long as one *)
(* move is in flight at a time, no cycle.                                     *)
EXTENDS FolderRequests, TLAPS

-----------------------------------------------------------------------------
(* The inductive invariant *)

Creating(r) == req[r].pc \in {"parent", "lookup", "insert"}
Updating(r) == req[r].pc \in {"load", "walk", "duplicate", "save"}

\* Parent links lead to documents that exist or have existed.
ParentsKnown == \A f \in Folders : folder[f].parent \in Known

\* A document being created has an id nobody knows and no other request holds.
CreatesAreFresh ==
  \A r \in Request : Creating(r) =>
    /\ req[r].id \in FolderId \ minted
    /\ req[r].dest \in Known
    /\ req[r].name \in Name
    /\ req[r].pc = "parent" => req[r].dest # Home
    /\ \A q \in Request \ {r} : req[q].id # req[r].id

UpdatesAreKnown ==
  \A r \in Request : Updating(r) =>
    /\ req[r].id \in minted
    /\ req[r].dest \in Known \cup {Keep}
    /\ req[r].dest # Keep => r \in Movers
    /\ req[r].pc = "walk" => req[r].dest \in FolderId
    /\ req[r].pc = "save" /\ req[r].name # Keep => req[r].name \in Name

Requests == CreatesAreFresh /\ UpdatesAreKnown

\* D holds the folder being moved and what the walk has found below it; apart
\* from the children of folders still queued it is closed under children, and
\* the target is in it only if the walk has found it.
Shadow(r, D) ==
  /\ req[r].id \in D
  /\ req[r].out \subseteq D
  /\ req[r].dest \in D => req[r].dest \in req[r].out
  /\ \A f \in Folders : folder[f].parent \in D \ req[r].todo => f \in D

Moving(r) == req[r].pc \in {"walk", "duplicate", "save"} /\ req[r].dest \in FolderId

\* The walk misses nothing: what it has not found is still below the queue.
MovesAreSound ==
  \A r \in Request : Moving(r) => \E D \in SUBSET FolderId : Shadow(r, D)

\* Both sets are empty before and after the walk.
WalkIsOver ==
  \A r \in Request : req[r].pc \in {"load", "duplicate", "save"} =>
    req[r].todo = {} /\ req[r].out = {}

SingleMover == \A p, q \in Movers : p = q

-----------------------------------------------------------------------------
(* Types *)

\* The initial state is well typed.
LEMMA InitTyped == FolderInit => FolderTypeOK
  BY DEF FolderInit, FolderTypeOK, FolderStoreTypeOK, Folders, Stored, ReqState, Idle,
         Location, Destination

\* Every step keeps the types.
LEMMA StepTyped ==
  ASSUME FolderTypeOK, Requests, [FolderNext]_folderVars
  PROVE  FolderTypeOK'
<1> USE DEF FolderTypeOK, FolderStoreTypeOK
<1>1. ASSUME NEW r \in Request, NEW q \in ReqState, Go(r, q)
      PROVE  req' \in [Request -> ReqState]
  BY <1>1 DEF Go
<1>2. Idle \in ReqState
  BY DEF Idle, ReqState, Location, Destination
<1>3. ASSUME UNCHANGED storeVars PROVE FolderStoreTypeOK'
  BY <1>3 DEF storeVars, Folders, Stored
<1>4. ASSUME NEW r \in Request, Answer(r) PROVE req' \in [Request -> ReqState]
  BY <1>1, <1>2, <1>4 DEF Answer
<1>5. CASE UNCHANGED folderVars
  BY <1>5, <1>3 DEF folderVars, storeVars
<1>6. ASSUME NEW r \in Request, NEW loc \in Known, NEW n \in Name, NEW f \in FolderId,
             StartCreate(r, loc, n, f)
      PROVE  FolderTypeOK'
  <2>1. [Idle EXCEPT !.pc = IF loc = Home THEN "lookup" ELSE "parent",
                     !.id = f, !.dest = loc, !.name = n] \in ReqState
    BY DEF Idle, ReqState, Location, Destination, Known
  <2> QED BY <2>1, <1>1, <1>3, <1>6 DEF StartCreate
<1>7. ASSUME NEW r \in Request, NEW f \in FolderId, NEW dest \in Destination,
             NEW n \in Name \cup {Keep}, StartUpdate(r, f, dest, n)
      PROVE  FolderTypeOK'
  <2>1. [Idle EXCEPT !.pc = "load", !.id = f, !.dest = dest, !.name = n] \in ReqState
    BY DEF Idle, ReqState, Location, Destination
  <2> QED BY <2>1, <1>1, <1>3, <1>7 DEF StartUpdate
<1>8. ASSUME NEW r \in Request, CheckParent(r) PROVE FolderTypeOK'
  <2>1. [req[r] EXCEPT !.pc = "lookup"] \in ReqState
    BY DEF ReqState
  <2> QED BY <2>1, <1>1, <1>3, <1>4, <1>8 DEF CheckParent
<1>9. ASSUME NEW r \in Request, CheckName(r) PROVE FolderTypeOK'
  <2>1. [req[r] EXCEPT !.pc = "insert"] \in ReqState
    BY DEF ReqState
  <2> QED BY <2>1, <1>1, <1>3, <1>4, <1>9 DEF CheckName
<1>10. ASSUME NEW r \in Request, Insert(r) PROVE FolderTypeOK'
  <2>1. req[r].id \in FolderId /\ req[r].dest \in Location /\ req[r].name \in Name
    BY <1>10 DEF Insert, At, Requests, CreatesAreFresh, Creating, Known, Location
  <2>2. NewFolder(req[r].dest, req[r].name) \in FolderDoc
    BY <2>1 DEF NewFolder, FolderDoc, Status, Time
  <2>3. FolderStoreTypeOK'
    BY <1>10, <2>1, <2>2, <1>3 DEF Insert, Folders, Stored
  <2> QED BY <2>3, <1>4, <1>10 DEF Insert
<1>11. ASSUME NEW r \in Request, Load(r) PROVE FolderTypeOK'
  <2> DEFINE f == req[r].id
  <2>1. CASE ~Stored(f) \/ req[r].dest \in {folder[f].parent, f}
    BY <2>1, <1>3, <1>4, <1>11 DEF Load
  <2>2. CASE ~(~Stored(f) \/ req[r].dest \in {folder[f].parent, f})
    <3>1. f \in FolderId /\ folder[f] \in FolderDoc
      BY <1>11, <2>2 DEF Load, At, Requests, UpdatesAreKnown, Updating, Stored
    <3>2. folder[f].parent \in Location /\ folder[f].name \in Name
      BY <3>1 DEF FolderDoc
    <3>3. [req[r] EXCEPT !.pc = "walk", !.todo = {f}] \in ReqState
      BY <3>1 DEF ReqState
    <3>4. Settled(req[r], IF req[r].dest = Keep THEN folder[f].parent ELSE Home) \in ReqState
      BY <3>2 DEF Settled, ReqState, Location
    <3>5. [IF req[r].dest \in FolderId
             THEN [req[r] EXCEPT !.pc = "walk", !.todo = {f}]
             ELSE Settled(req[r], IF req[r].dest = Keep THEN folder[f].parent ELSE Home)
           EXCEPT !.was = folder[f].name] \in ReqState
      BY <3>2, <3>3, <3>4 DEF ReqState
    <3> QED BY <3>5, <2>2, <1>1, <1>3, <1>11 DEF Load
  <2> QED BY <2>1, <2>2
<1>12. ASSUME NEW r \in Request, Walk(r) PROVE FolderTypeOK'
  <2>1. PICK f \in req[r].todo :
          Go(r, [req[r] EXCEPT !.todo = (@ \ {f}) \cup ChildrenOf(f),
                               !.out = @ \cup ChildrenOf(f)])
    BY <1>12 DEF Walk
  <2>2. [req[r] EXCEPT !.todo = (@ \ {f}) \cup ChildrenOf(f),
                       !.out = @ \cup ChildrenOf(f)] \in ReqState
    BY DEF ReqState, ChildrenOf, Folders
  <2> QED BY <2>1, <2>2, <1>1, <1>3, <1>12 DEF Walk
<1>13. ASSUME NEW r \in Request, CheckTarget(r) PROVE FolderTypeOK'
  <2>1. CASE req[r].dest \in req[r].out \/ ~Stored(req[r].dest)
    BY <2>1, <1>3, <1>4, <1>13 DEF CheckTarget
  <2>2. CASE ~(req[r].dest \in req[r].out \/ ~Stored(req[r].dest))
    <3>1. req[r].dest \in Location
      BY <1>13, <2>2 DEF CheckTarget, At, Requests, UpdatesAreKnown, Updating, Location
    <3>2. Settled(req[r], req[r].dest) \in ReqState
      BY <3>1 DEF Settled, ReqState
    <3> QED BY <3>2, <2>2, <1>1, <1>3, <1>13 DEF CheckTarget
  <2> QED BY <2>1, <2>2
<1>14. ASSUME NEW r \in Request, CheckDuplicate(r) PROVE FolderTypeOK'
  <2>1. [req[r] EXCEPT !.pc = "save", !.name = IF @ = req[r].was THEN Keep ELSE @]
          \in ReqState
    BY DEF ReqState
  <2> QED BY <2>1, <1>1, <1>3, <1>4, <1>14 DEF CheckDuplicate
<1>15. ASSUME NEW r \in Request, Save(r) PROVE FolderTypeOK'
  <2> DEFINE f == req[r].id
             loc == IF req[r].dest = Keep THEN folder[f].parent ELSE req[r].dest
             n == IF req[r].name = Keep THEN folder[f].name ELSE req[r].name
  <2>1. req' \in [Request -> ReqState] /\ minted' = minted
    BY <1>4, <1>15 DEF Save
  <2>2. CASE Stored(f) /\ IndexAdmits(f, loc, n)
    <3>1. f \in FolderId /\ folder[f] \in FolderDoc
      BY <1>15, <2>2 DEF Save, At, Requests, UpdatesAreKnown, Updating, Stored
    <3>2. loc \in Location /\ n \in Name
      BY <3>1, <1>15 DEF Save, At, Requests, UpdatesAreKnown, Updating, FolderDoc, Known,
                         Location
    <3>3. folder' = [folder EXCEPT ![f].parent = loc, ![f].name = n]
      BY <1>15, <2>2 DEF Save
    <3>4. folder' \in [FolderId -> FolderDoc \cup {NoDoc}]
      BY <3>1, <3>2, <3>3 DEF FolderDoc
    <3>5. Folders' \subseteq minted
      BY <3>1, <3>3, <2>2 DEF Folders, Stored
    <3> QED BY <2>1, <3>4, <3>5
  <2>3. CASE ~(Stored(f) /\ IndexAdmits(f, loc, n))
    BY <2>1, <2>3, <1>3, <1>15 DEF Save, storeVars
  <2> QED BY <2>2, <2>3
<1> QED
  BY <1>5, <1>6, <1>7, <1>8, <1>9, <1>10, <1>11, <1>12, <1>13, <1>14, <1>15
     DEF FolderNext, Proceed

-----------------------------------------------------------------------------
(* Every step, seen from the collection: nothing, an insert or a save *)

Quiet == UNCHANGED storeVars

InsertDoc(r) ==
  /\ req[r].pc = "insert"
  /\ IndexAdmits(req[r].id, req[r].dest, req[r].name)
  /\ folder' = [folder EXCEPT ![req[r].id] = NewFolder(req[r].dest, req[r].name)]
  /\ minted' = minted \cup {req[r].id}
  /\ Answer(r)

SaveDoc(r, loc, n) ==
  /\ req[r].pc = "save"
  /\ Stored(req[r].id)
  /\ loc = IF req[r].dest = Keep THEN folder[req[r].id].parent ELSE req[r].dest
  /\ n = IF req[r].name = Keep THEN folder[req[r].id].name ELSE req[r].name
  /\ IndexAdmits(req[r].id, loc, n)
  /\ folder' = [folder EXCEPT ![req[r].id].parent = loc, ![req[r].id].name = n]
  /\ minted' = minted
  /\ Answer(r)

\* The three kinds of step.
LEMMA StepKinds ==
  ASSUME [FolderNext]_folderVars
  PROVE  \/ Quiet
         \/ \E r \in Request : InsertDoc(r)
         \/ \E r \in Request : \E loc, n : SaveDoc(r, loc, n)
<1>1. CASE UNCHANGED folderVars
  BY <1>1 DEF folderVars, Quiet, storeVars
<1>2. ASSUME NEW r \in Request, Insert(r)
      PROVE  Quiet \/ InsertDoc(r)
  BY <1>2 DEF Insert, InsertDoc, Quiet, storeVars, At
<1>3. ASSUME NEW r \in Request, Save(r)
      PROVE  Quiet \/ \E loc, n : SaveDoc(r, loc, n)
  BY <1>3 DEF Save, SaveDoc, Quiet, storeVars, At
<1> QED
  BY <1>1, <1>2, <1>3
     DEF FolderNext, Proceed, StartCreate, StartUpdate, CheckParent, CheckName, Load, Walk,
         CheckTarget, CheckDuplicate, Quiet

\* What a stored insert does to the collection.
LEMMA InsertEffect ==
  ASSUME FolderTypeOK, Requests, NEW r \in Request, InsertDoc(r)
  PROVE  /\ req[r].id \in FolderId \ minted
         /\ req[r].dest \in Known
         /\ Folders' \subseteq Folders \cup {req[r].id}
         /\ folder'[req[r].id].parent = req[r].dest
         /\ folder'[req[r].id].name = req[r].name
         /\ \A f \in Folders : f # req[r].id /\ folder'[f] = folder[f]
<1>1. req[r].id \in FolderId \ minted /\ req[r].dest \in Known
  BY DEF InsertDoc, Requests, CreatesAreFresh, Creating
<1> QED
  BY <1>1 DEF InsertDoc, FolderTypeOK, FolderStoreTypeOK, Folders, Stored, NewFolder

\* What a stored save does to the collection.
LEMMA SaveEffect ==
  ASSUME FolderTypeOK, Requests, NEW r \in Request, NEW loc, NEW n, SaveDoc(r, loc, n)
  PROVE  /\ req[r].id \in Folders
         /\ Folders' \subseteq Folders
         /\ folder'[req[r].id].parent = loc
         /\ folder'[req[r].id].name = n
         /\ \A f \in Folders \ {req[r].id} : folder'[f] = folder[f]
<1>1. req[r].id \in FolderId /\ folder[req[r].id] \in FolderDoc
  BY DEF SaveDoc, Requests, UpdatesAreKnown, Updating, Stored, FolderTypeOK,
         FolderStoreTypeOK
<1>2. folder \in [FolderId -> FolderDoc \cup {NoDoc}]
  BY DEF FolderTypeOK, FolderStoreTypeOK
<1>3. Folders' \subseteq Folders
  BY <1>1, <1>2 DEF SaveDoc, Folders, Stored
<1>4. folder'[req[r].id].parent = loc /\ folder'[req[r].id].name = n
  BY <1>1, <1>2 DEF SaveDoc, FolderDoc
<1>5. \A f \in Folders \ {req[r].id} : folder'[f] = folder[f]
  BY <1>1, <1>2 DEF SaveDoc, Folders
<1>6. req[r].id \in Folders
  BY <1>1 DEF SaveDoc, Folders
<1> QED BY <1>3, <1>4, <1>5, <1>6

-----------------------------------------------------------------------------
(* The unique index *)

\* No step gives two folders of one place the same name.
LEMMA StepUnique ==
  ASSUME FolderTypeOK, Requests, UniqueSiblings, [FolderNext]_folderVars
  PROVE  UniqueSiblings'
<1>1. CASE Quiet
  BY <1>1 DEF Quiet, storeVars, UniqueSiblings, Folders, Stored
<1>2. ASSUME NEW r \in Request, InsertDoc(r) PROVE UniqueSiblings'
  <2> DEFINE i == req[r].id
  <2>1. /\ Folders' \subseteq Folders \cup {i}
        /\ folder'[i].parent = req[r].dest
        /\ folder'[i].name = req[r].name
        /\ \A f \in Folders : f # i /\ folder'[f] = folder[f]
    BY <1>2, InsertEffect
  <2>2. \A g \in Folders \ {i} :
          ~(folder[g].parent = req[r].dest /\ folder[g].name = req[r].name)
    BY <1>2 DEF InsertDoc, IndexAdmits
  <2> HIDE DEF i
  <2> QED BY <2>1, <2>2 DEF UniqueSiblings
<1>3. ASSUME NEW r \in Request, NEW loc, NEW n, SaveDoc(r, loc, n) PROVE UniqueSiblings'
  <2> DEFINE i == req[r].id
  <2>1. /\ Folders' \subseteq Folders
        /\ folder'[i].parent = loc
        /\ folder'[i].name = n
        /\ \A f \in Folders \ {i} : folder'[f] = folder[f]
    BY <1>3, SaveEffect
  <2>2. \A g \in Folders \ {i} : ~(folder[g].parent = loc /\ folder[g].name = n)
    BY <1>3 DEF SaveDoc, IndexAdmits
  <2> HIDE DEF i
  <2> QED BY <2>1, <2>2 DEF UniqueSiblings
<1> QED BY <1>1, <1>2, <1>3, StepKinds

-----------------------------------------------------------------------------
(* What requests hold *)

CreatingRec(q) == q.pc \in {"parent", "lookup", "insert"}
UpdatingRec(q) == q.pc \in {"load", "walk", "duplicate", "save"}

\* A request goes on as q: what q must satisfy for the requests to stay in order.
LEMMA SlotStep ==
  ASSUME FolderTypeOK, Requests, WalkIsOver, NEW r \in Request, NEW q \in ReqState,
         Go(r, q),
         minted \subseteq minted',
         \A s \in Request \ {r} :
           Creating(s) => req[s].id # q.id /\ req[s].id \notin minted',
         CreatingRec(q) =>
           /\ q.id \in FolderId \ minted'
           /\ q.dest \in Known
           /\ q.name \in Name
           /\ q.pc = "parent" => q.dest # Home
           /\ \A s \in Request \ {r} : req[s].id # q.id,
         UpdatingRec(q) =>
           /\ q.id \in minted
           /\ q.dest \in Known \cup {Keep}
           /\ q.dest # Keep => r \in Movers
           /\ q.pc = "walk" => q.dest \in FolderId
           /\ q.pc = "save" /\ q.name # Keep => q.name \in Name,
         q.pc \in {"load", "duplicate", "save"} => q.todo = {} /\ q.out = {}
  PROVE  Requests' /\ WalkIsOver'
<1>1. req'[r] = q /\ \A s \in Request \ {r} : req'[s] = req[s]
  BY DEF Go, FolderTypeOK
<1>2. Known \subseteq Known'
  BY DEF Known
<1>3. CreatesAreFresh'
  <2> SUFFICES ASSUME NEW s \in Request, Creating(s)'
               PROVE  /\ req'[s].id \in FolderId \ minted'
                      /\ req'[s].dest \in Known'
                      /\ req'[s].name \in Name
                      /\ req'[s].pc = "parent" => req'[s].dest # Home
                      /\ \A t \in Request \ {s} : req'[t].id # req'[s].id
    BY DEF CreatesAreFresh
  <2>1. CASE s = r
    BY <2>1, <1>1, <1>2 DEF Creating, CreatingRec
  <2>2. CASE s # r
    BY <2>2, <1>1, <1>2 DEF Creating, Requests, CreatesAreFresh
  <2> QED BY <2>1, <2>2
<1>4. UpdatesAreKnown'
  <2> SUFFICES ASSUME NEW s \in Request, Updating(s)'
               PROVE  /\ req'[s].id \in minted'
                      /\ req'[s].dest \in Known' \cup {Keep}
                      /\ req'[s].dest # Keep => s \in Movers
                      /\ req'[s].pc = "walk" => req'[s].dest \in FolderId
                      /\ req'[s].pc = "save" /\ req'[s].name # Keep => req'[s].name \in Name
    BY DEF UpdatesAreKnown
  <2>1. CASE s = r
    BY <2>1, <1>1, <1>2 DEF Updating, UpdatingRec
  <2>2. CASE s # r
    BY <2>2, <1>1, <1>2 DEF Updating, Requests, UpdatesAreKnown
  <2> QED BY <2>1, <2>2
<1>5. WalkIsOver'
  BY <1>1 DEF WalkIsOver
<1> QED BY <1>3, <1>4, <1>5 DEF Requests

\* An answered request holds nothing.
LEMMA AnswerStep ==
  ASSUME FolderTypeOK, Requests, WalkIsOver, NEW r \in Request, Answer(r),
         minted \subseteq minted',
         \A s \in Request \ {r} : Creating(s) => req[s].id \notin minted'
  PROVE  Requests' /\ WalkIsOver'
<1>1. Idle \in ReqState
  BY DEF Idle, ReqState, Location, Destination
<1>2. ~CreatingRec(Idle) /\ ~UpdatingRec(Idle) /\ Idle.id = Home
      /\ Idle.pc \notin {"load", "duplicate", "save"}
  BY DEF Idle, CreatingRec, UpdatingRec
<1>3. \A s \in Request : Creating(s) => req[s].id # Home
  BY HomeIsNoFolder DEF Requests, CreatesAreFresh
<1> HIDE DEF Idle
<1> QED BY <1>1, <1>2, <1>3, SlotStep DEF Answer

\* Every step keeps the requests in order.
LEMMA StepRequests ==
  ASSUME FolderTypeOK, Requests, WalkIsOver, [FolderNext]_folderVars
  PROVE  Requests' /\ WalkIsOver'
<1>1. CASE UNCHANGED folderVars
  BY <1>1 DEF folderVars, Requests, WalkIsOver, CreatesAreFresh, UpdatesAreKnown, Creating,
              Updating, Known
<1>2. ASSUME NEW r \in Request, Answer(r), Quiet PROVE Requests' /\ WalkIsOver'
  BY <1>2, AnswerStep DEF Quiet, storeVars, Requests, CreatesAreFresh
<1>3. \A s \in Request : Creating(s) => req[s].id \in FolderId \ minted
  BY DEF Requests, CreatesAreFresh
<1>4. ASSUME NEW r \in Request, NEW loc \in Known, NEW n \in Name, NEW f \in FolderId,
             StartCreate(r, loc, n, f)
      PROVE  Requests' /\ WalkIsOver'
  <2> DEFINE q == [Idle EXCEPT !.pc = IF loc = Home THEN "lookup" ELSE "parent",
                               !.id = f, !.dest = loc, !.name = n]
  <2>1. /\ q \in ReqState /\ q.pc \in {"lookup", "parent"} /\ (q.pc = "parent" => loc # Home)
        /\ q.id = f /\ q.dest = loc /\ q.name = n
    BY DEF Idle, ReqState, Location, Destination, Known, FolderTypeOK,
           FolderStoreTypeOK
  <2>2. Go(r, q) /\ f \notin minted /\ (\A s \in Request : req[s].id # f) /\ minted' = minted
    BY <1>4 DEF StartCreate, storeVars
  <2> HIDE DEF q
  <2> QED BY <2>1, <2>2, <1>3, SlotStep DEF CreatingRec, UpdatingRec
<1>5. ASSUME NEW r \in Request, NEW f \in FolderId, NEW dest \in Destination,
             NEW n \in Name \cup {Keep}, StartUpdate(r, f, dest, n)
      PROVE  Requests' /\ WalkIsOver'
  <2> DEFINE q == [Idle EXCEPT !.pc = "load", !.id = f, !.dest = dest, !.name = n]
  <2>1. q \in ReqState /\ q.pc = "load" /\ q.id = f /\ q.dest = dest /\ q.todo = {} /\ q.out = {}
    BY DEF Idle, ReqState, Location, Destination
  <2>2. Go(r, q) /\ f \in minted /\ dest \in Known \cup {Keep}
        /\ (dest # Keep => r \in Movers) /\ minted' = minted
    BY <1>5 DEF StartUpdate, storeVars
  <2> HIDE DEF q
  <2> QED BY <2>1, <2>2, <1>3, SlotStep DEF CreatingRec, UpdatingRec
<1>6. ASSUME NEW r \in Request, CheckParent(r) PROVE Requests' /\ WalkIsOver'
  <2> DEFINE q == [req[r] EXCEPT !.pc = "lookup"]
  <2>1. q \in ReqState /\ q.pc = "lookup" /\ q.id = req[r].id /\ q.dest = req[r].dest
        /\ q.name = req[r].name
    BY DEF ReqState, FolderTypeOK
  <2>2. Go(r, q) \/ Answer(r)
    BY <1>6 DEF CheckParent
  <2>3. Creating(r) /\ Quiet
    BY <1>6 DEF CheckParent, At, Creating, Quiet
  <2> HIDE DEF q
  <2> QED BY <2>1, <2>2, <2>3, <1>2, SlotStep
          DEF CreatingRec, UpdatingRec, Requests, CreatesAreFresh, Quiet, storeVars
<1>7. ASSUME NEW r \in Request, CheckName(r) PROVE Requests' /\ WalkIsOver'
  <2> DEFINE q == [req[r] EXCEPT !.pc = "insert"]
  <2>1. q \in ReqState /\ q.pc = "insert" /\ q.id = req[r].id /\ q.dest = req[r].dest
        /\ q.name = req[r].name
    BY DEF ReqState, FolderTypeOK
  <2>2. Go(r, q) \/ Answer(r)
    BY <1>7 DEF CheckName
  <2>3. Creating(r) /\ Quiet
    BY <1>7 DEF CheckName, At, Creating, Quiet
  <2> HIDE DEF q
  <2> QED BY <2>1, <2>2, <2>3, <1>2, SlotStep
          DEF CreatingRec, UpdatingRec, Requests, CreatesAreFresh, Quiet, storeVars
<1>8. ASSUME NEW r \in Request, Insert(r) PROVE Requests' /\ WalkIsOver'
  <2>1. Creating(r) /\ Answer(r) /\ minted' \in {minted, minted \cup {req[r].id}}
    BY <1>8 DEF Insert, At, Creating, storeVars
  <2>2. \A s \in Request \ {r} : Creating(s) => req[s].id \notin minted'
    BY <2>1 DEF Requests, CreatesAreFresh
  <2> QED BY <2>1, <2>2, AnswerStep
<1>9. ASSUME NEW r \in Request, Load(r) PROVE Requests' /\ WalkIsOver'
  <2> DEFINE f == req[r].id
             q0 == IF req[r].dest \in FolderId
                     THEN [req[r] EXCEPT !.pc = "walk", !.todo = {f}]
                     ELSE Settled(req[r], IF req[r].dest = Keep THEN folder[f].parent ELSE Home)
             q == [q0 EXCEPT !.was = folder[f].name]
  <2>1. CASE Answer(r)
    BY <2>1, <1>2, <1>9 DEF Load, Quiet
  <2>2. CASE ~Answer(r)
    <3>1. Go(r, q) /\ Quiet /\ Updating(r) /\ req[r].pc = "load" /\ Stored(f)
      BY <2>2, <1>9 DEF Load, Quiet, At, Updating
    <3>2. folder[f] \in FolderDoc
      BY <3>1 DEF Requests, UpdatesAreKnown, FolderTypeOK, FolderStoreTypeOK, Stored
    <3>3. folder[f].parent \in Location /\ folder[f].name \in Name
      BY <3>2 DEF FolderDoc
    <3>4. /\ q0 \in ReqState /\ q0.pc \in {"walk", "duplicate", "save"}
          /\ q0.id = f /\ q0.dest = req[r].dest /\ q0.name = req[r].name
          /\ q0.pc = "walk" => q0.dest \in FolderId
          /\ q0.pc \in {"duplicate", "save"} => q0.todo = {} /\ q0.out = {}
          /\ q0.pc = "save" => q0.name = Keep
      <4>1. CASE req[r].dest \in FolderId
        BY <4>1, <3>1 DEF ReqState, FolderTypeOK, Requests, UpdatesAreKnown, FolderStoreTypeOK
      <4>2. CASE req[r].dest \notin FolderId
        BY <4>2, <3>3 DEF ReqState, FolderTypeOK, Settled, Location
      <4> QED BY <4>1, <4>2
    <3> HIDE DEF q0
    <3>5. /\ q \in ReqState /\ q.pc = q0.pc /\ q.id = q0.id /\ q.dest = q0.dest
          /\ q.name = q0.name /\ q.todo = q0.todo /\ q.out = q0.out
      BY <3>3, <3>4 DEF ReqState
    <3> HIDE DEF q
    <3> QED BY <3>1, <3>4, <3>5, <1>3, SlotStep
            DEF CreatingRec, UpdatingRec, Requests, UpdatesAreKnown, Quiet, storeVars
  <2> QED BY <2>1, <2>2
<1>10. ASSUME NEW r \in Request, Walk(r) PROVE Requests' /\ WalkIsOver'
  <2>1. PICK f \in req[r].todo :
          Go(r, [req[r] EXCEPT !.todo = (@ \ {f}) \cup ChildrenOf(f),
                               !.out = @ \cup ChildrenOf(f)])
    BY <1>10 DEF Walk
  <2> DEFINE q == [req[r] EXCEPT !.todo = (@ \ {f}) \cup ChildrenOf(f),
                                 !.out = @ \cup ChildrenOf(f)]
  <2>2. q \in ReqState /\ q.pc = req[r].pc /\ q.id = req[r].id /\ q.dest = req[r].dest
        /\ q.name = req[r].name
    BY DEF ReqState, FolderTypeOK, ChildrenOf, Folders
  <2>3. req[r].pc = "walk" /\ Quiet /\ Updating(r)
    BY <1>10 DEF Walk, At, Quiet, Updating
  <2>4. Go(r, q)
    BY <2>1
  <2> HIDE DEF q
  <2> QED BY <2>2, <2>3, <2>4, <1>3, SlotStep
          DEF CreatingRec, UpdatingRec, Requests, UpdatesAreKnown, Quiet, storeVars
<1>11. ASSUME NEW r \in Request, CheckTarget(r) PROVE Requests' /\ WalkIsOver'
  <2> DEFINE q == Settled(req[r], req[r].dest)
  <2>1. CASE Answer(r)
    BY <2>1, <1>2, <1>11 DEF CheckTarget, Quiet
  <2>2. CASE ~Answer(r)
    <3>1. Go(r, q) /\ Quiet /\ Updating(r) /\ req[r].pc = "walk"
      BY <2>2, <1>11 DEF CheckTarget, Quiet, At, Updating
    <3>2. req[r].dest \in Location
      BY <3>1 DEF Requests, UpdatesAreKnown, Location
    <3>3. /\ q \in ReqState /\ q.pc \in {"duplicate", "save"}
          /\ q.id = req[r].id /\ q.dest = req[r].dest /\ q.name = req[r].name
          /\ q.todo = {} /\ q.out = {} /\ (q.pc = "save" => q.name = Keep)
      BY <3>2 DEF ReqState, FolderTypeOK, Settled
    <3> HIDE DEF q
    <3> QED BY <3>1, <3>3, <1>3, SlotStep
            DEF CreatingRec, UpdatingRec, Requests, UpdatesAreKnown, Quiet, storeVars
  <2> QED BY <2>1, <2>2
<1>12. ASSUME NEW r \in Request, CheckDuplicate(r) PROVE Requests' /\ WalkIsOver'
  <2> DEFINE q == [req[r] EXCEPT !.pc = "save", !.name = IF @ = req[r].was THEN Keep ELSE @]
  <2>1. CASE Answer(r)
    BY <2>1, <1>2, <1>12 DEF CheckDuplicate, Quiet
  <2>2. CASE ~Answer(r)
    <3>1. Go(r, q) /\ Quiet /\ Updating(r) /\ req[r].pc = "duplicate"
      BY <2>2, <1>12 DEF CheckDuplicate, Quiet, At, Updating
    <3>2. /\ q \in ReqState /\ q.pc = "save" /\ q.id = req[r].id /\ q.dest = req[r].dest
          /\ q.name \in {req[r].name, Keep} /\ q.todo = req[r].todo /\ q.out = req[r].out
      BY DEF ReqState, FolderTypeOK
    <3>3. req[r].name \in Name \cup {Keep}
      BY DEF ReqState, FolderTypeOK
    <3>4. req[r].todo = {} /\ req[r].out = {}
      BY <3>1 DEF WalkIsOver
    <3> HIDE DEF q
    <3> QED BY <3>1, <3>2, <3>3, <3>4, <1>3, SlotStep
            DEF CreatingRec, UpdatingRec, Requests, UpdatesAreKnown, Quiet, storeVars
  <2> QED BY <2>1, <2>2
<1>13. ASSUME NEW r \in Request, Save(r) PROVE Requests' /\ WalkIsOver'
  BY <1>13, <1>3, AnswerStep DEF Save
<1> QED
  BY <1>1, <1>4, <1>5, <1>6, <1>7, <1>8, <1>9, <1>10, <1>11, <1>12, <1>13
     DEF FolderNext, Proceed

-----------------------------------------------------------------------------
(* No cycle *)

\* Parents stay known: a document is created below a known place, and a move
\* goes to one.
LEMMA StepParents ==
  ASSUME FolderTypeOK, Requests, ParentsKnown, [FolderNext]_folderVars
  PROVE  ParentsKnown'
<1>1. CASE Quiet
  BY <1>1 DEF Quiet, storeVars, ParentsKnown, Folders, Stored, Known
<1>2. ASSUME NEW r \in Request, InsertDoc(r) PROVE ParentsKnown'
  <2> DEFINE i == req[r].id
  <2>1. /\ req[r].dest \in Known
        /\ Folders' \subseteq Folders \cup {i}
        /\ folder'[i].parent = req[r].dest
        /\ \A f \in Folders : folder'[f] = folder[f]
    BY <1>2, InsertEffect
  <2>2. Known \subseteq Known'
    BY <1>2 DEF InsertDoc, Known
  <2> HIDE DEF i
  <2> QED BY <2>1, <2>2 DEF ParentsKnown
<1>3. ASSUME NEW r \in Request, NEW loc, NEW n, SaveDoc(r, loc, n) PROVE ParentsKnown'
  <2> DEFINE i == req[r].id
  <2>1. /\ i \in Folders
        /\ Folders' \subseteq Folders
        /\ folder'[i].parent = loc
        /\ \A f \in Folders \ {i} : folder'[f] = folder[f]
    BY <1>3, SaveEffect
  <2>2. req[r].dest \in Known \cup {Keep} /\ Known' = Known
        /\ loc = IF req[r].dest = Keep THEN folder[i].parent ELSE req[r].dest
    BY <1>3 DEF SaveDoc, Requests, UpdatesAreKnown, Updating, Known
  <2> HIDE DEF i
  <2> QED BY <2>1, <2>2 DEF ParentsKnown
<1> QED BY <1>1, <1>2, <1>3, StepKinds

\* A folder nobody has as parent yet cannot close a cycle; a saved move cannot
\* either, because the target is outside a set that holds the folder and all
\* that is below it.
LEMMA StepAcyclic ==
  ASSUME FolderTypeOK, Requests, WalkIsOver, ParentsKnown, MovesAreSound, Acyclic,
         [FolderNext]_folderVars
  PROVE  Acyclic'
<1>1. CASE Quiet
  BY <1>1 DEF Quiet, storeVars, Acyclic, Folders, Stored
<1>2. ASSUME NEW r \in Request, InsertDoc(r) PROVE Acyclic'
  <2> DEFINE i == req[r].id
  <2>1. /\ i \in FolderId \ minted
        /\ req[r].dest \in Known
        /\ Folders' \subseteq Folders \cup {i}
        /\ folder'[i].parent = req[r].dest
        /\ \A f \in Folders : f # i /\ folder'[f] = folder[f]
    BY <1>2, InsertEffect
  <2>2. i \notin Known
    BY <2>1, HomeIsNoFolder DEF Known
  <2> HIDE DEF i
  <2> SUFFICES ASSUME NEW S \in SUBSET Folders', S # {},
                      \A f \in S : folder'[f].parent \in S
               PROVE  FALSE
    BY DEF Acyclic
  <2> DEFINE T == S \ {i}
  <2>3. T \subseteq Folders
    BY <2>1
  <2>4. T # {}
    BY <2>1, <2>2
  <2>5. \A f \in T : folder[f].parent \in T
    BY <2>1, <2>2, <2>3 DEF ParentsKnown
  <2> QED BY <2>3, <2>4, <2>5 DEF Acyclic
<1>3. ASSUME NEW r \in Request, NEW loc, NEW n, SaveDoc(r, loc, n) PROVE Acyclic'
  <2> DEFINE i == req[r].id
  <2>1. /\ i \in Folders
        /\ Folders' \subseteq Folders
        /\ folder'[i].parent = loc
        /\ \A f \in Folders \ {i} : folder'[f] = folder[f]
    BY <1>3, SaveEffect
  <2>2. /\ req[r].pc = "save"
        /\ req[r].dest \in Known \cup {Keep}
        /\ loc = IF req[r].dest = Keep THEN folder[i].parent ELSE req[r].dest
    BY <1>3 DEF SaveDoc, Requests, UpdatesAreKnown, Updating
  <2> SUFFICES ASSUME NEW S \in SUBSET Folders', S # {},
                      \A f \in S : folder'[f].parent \in S
               PROVE  FALSE
    BY DEF Acyclic
  <2>3. CASE req[r].dest = Keep \/ i \notin S
    <3> HIDE DEF i
    <3>1. \A f \in S : folder[f].parent \in S
      BY <2>1, <2>2, <2>3
    <3> QED BY <2>1, <3>1 DEF Acyclic
  <2>4. CASE req[r].dest # Keep /\ i \in S
    <3>1. loc = req[r].dest /\ loc \in S /\ loc \in FolderId
      BY <2>1, <2>2, <2>4 DEF Folders
    <3>2. PICK D \in SUBSET FolderId : Shadow(r, D)
      BY <2>2, <3>1 DEF MovesAreSound, Moving
    <3>3. i \in D /\ loc \notin D /\ \A f \in Folders : folder[f].parent \in D => f \in D
      BY <2>2, <3>1, <3>2 DEF Shadow, WalkIsOver
    <3> DEFINE T == S \ D
    <3> HIDE DEF i
    <3>4. T \subseteq Folders /\ T # {}
      BY <2>1, <3>1, <3>3
    <3>5. \A f \in T : folder[f].parent \in T
      BY <2>1, <3>3, <3>4
    <3> QED BY <3>4, <3>5 DEF Acyclic
  <2> QED BY <2>3, <2>4
<1> QED BY <1>1, <1>2, <1>3, StepKinds

\* What others do meanwhile leaves a walk sound: a folder created below the
\* shadow joins it, and nobody else moves folders.
LEMMA OthersKeepSound ==
  ASSUME FolderTypeOK, Requests, ParentsKnown, SingleMover, [FolderNext]_folderVars,
         NEW s \in Request, Moving(s), req'[s] = req[s],
         NEW D \in SUBSET FolderId, Shadow(s, D)
  PROVE  \E E \in SUBSET FolderId : Shadow(s, E)'
<1>1. CASE Quiet
  BY <1>1 DEF Quiet, storeVars, Shadow, Folders, Stored
<1>2. ASSUME NEW r \in Request, InsertDoc(r) PROVE \E E \in SUBSET FolderId : Shadow(s, E)'
  <2> DEFINE i == req[r].id
             E == IF req[r].dest \in D THEN D \cup {i} ELSE D
  <2>1. /\ i \in FolderId \ minted
        /\ Folders' \subseteq Folders \cup {i}
        /\ folder'[i].parent = req[r].dest
        /\ req[r].dest \in Known
        /\ \A f \in Folders : f # i /\ folder'[f] = folder[f]
    BY <1>2, InsertEffect
  <2>2. i \notin Known
    BY <2>1, HomeIsNoFolder DEF Known
  <2>3. req[s].dest # i
    BY <2>2, KeepIsNoValue DEF Moving, Requests, UpdatesAreKnown, Updating, Location
  <2> HIDE DEF i
  <2>4. \A f \in Folders' : folder'[f].parent \in E \ req[s].todo => f \in E
    BY <2>1, <2>2 DEF Shadow, ParentsKnown
  <2>5. E \in SUBSET FolderId
    BY <2>1
  <2>6. req[s].id \in E /\ req[s].out \subseteq E /\ (req[s].dest \in E => req[s].dest \in req[s].out)
    BY <2>3 DEF Shadow
  <2> HIDE DEF E
  <2> QED BY <2>4, <2>5, <2>6 DEF Shadow
<1>3. ASSUME NEW r \in Request, NEW loc, NEW n, SaveDoc(r, loc, n)
      PROVE  \E E \in SUBSET FolderId : Shadow(s, E)'
  <2> DEFINE i == req[r].id
  <2>1. /\ i \in Folders
        /\ Folders' \subseteq Folders
        /\ folder'[i].parent = loc
        /\ \A f \in Folders \ {i} : folder'[f] = folder[f]
    BY <1>3, SaveEffect
  <2>2. /\ req[r].pc = "save"
        /\ req[r].dest # Keep => r \in Movers
        /\ loc = IF req[r].dest = Keep THEN folder[i].parent ELSE req[r].dest
    BY <1>3 DEF SaveDoc, Requests, UpdatesAreKnown, Updating
  <2>3. r # s
    BY <1>3, <2>2 DEF SaveDoc, Answer, Go, Idle, FolderTypeOK
  <2>4. req[s].dest # Keep /\ s \in Movers
    BY KeepIsNoValue DEF Moving, Requests, UpdatesAreKnown, Updating, Location
  <2>5. req[r].dest = Keep
    BY <2>2, <2>3, <2>4 DEF SingleMover
  <2> HIDE DEF i
  <2>6. \A f \in Folders : folder'[f].parent = folder[f].parent
    BY <2>1, <2>2, <2>5
  <2> QED BY <2>1, <2>6 DEF Shadow
<1> QED BY <1>1, <1>2, <1>3, StepKinds

\* Every step keeps the moves sound.
LEMMA StepSound ==
  ASSUME FolderTypeOK, Requests, WalkIsOver, ParentsKnown, MovesAreSound, SingleMover,
         [FolderNext]_folderVars
  PROVE  MovesAreSound'
<1> SUFFICES ASSUME NEW s \in Request, Moving(s)'
             PROVE  \E E \in SUBSET FolderId : Shadow(s, E)'
  BY DEF MovesAreSound
<1>1. CASE req'[s] = req[s]
  <2>1. Moving(s)
    BY <1>1 DEF Moving
  <2>2. PICK D \in SUBSET FolderId : Shadow(s, D)
    BY <2>1 DEF MovesAreSound
  <2> QED BY <1>1, <2>1, <2>2, OthersKeepSound
<1>2. CASE req'[s] # req[s]
  <2>1. ASSUME NEW r \in Request, NEW q, Go(r, q) PROVE r = s /\ req'[s] = q
    BY <2>1, <1>2 DEF Go, FolderTypeOK
  <2>2. ASSUME NEW r \in Request, Answer(r) PROVE FALSE
    BY <2>1, <2>2 DEF Answer, Idle, Moving
  <2>3. ASSUME NEW r \in Request, NEW loc \in Known, NEW n \in Name, NEW f \in FolderId,
               StartCreate(r, loc, n, f)
        PROVE  FALSE
    <3> DEFINE q == [Idle EXCEPT !.pc = IF loc = Home THEN "lookup" ELSE "parent",
                                 !.id = f, !.dest = loc, !.name = n]
    <3>1. q.pc \in {"lookup", "parent"}
      BY DEF Idle
    <3>2. Go(r, q)
      BY <2>3 DEF StartCreate
    <3> HIDE DEF q
    <3> QED BY <3>1, <3>2, <2>1 DEF Moving
  <2>4. ASSUME NEW r \in Request, NEW f \in FolderId, NEW dest \in Destination,
               NEW n \in Name \cup {Keep}, StartUpdate(r, f, dest, n)
        PROVE  FALSE
    <3> DEFINE q == [Idle EXCEPT !.pc = "load", !.id = f, !.dest = dest, !.name = n]
    <3>1. q.pc = "load"
      BY DEF Idle
    <3>2. Go(r, q)
      BY <2>4 DEF StartUpdate
    <3> HIDE DEF q
    <3> QED BY <3>1, <3>2, <2>1 DEF Moving
  <2>5. ASSUME NEW r \in Request, CheckParent(r) \/ CheckName(r) PROVE FALSE
    <3>1. /\ req[r].pc \in {"parent", "lookup"}
          /\ Answer(r) \/ Go(r, [req[r] EXCEPT !.pc = "lookup"])
                       \/ Go(r, [req[r] EXCEPT !.pc = "insert"])
      BY <2>5 DEF CheckParent, CheckName, At
    <3> QED BY <3>1, <2>1, <2>2 DEF Moving, FolderTypeOK, ReqState
  <2>6. ASSUME NEW r \in Request, Insert(r) \/ Save(r) PROVE FALSE
    BY <2>2, <2>6 DEF Insert, Save
  <2>7. ASSUME NEW r \in Request, Load(r) PROVE \E E \in SUBSET FolderId : Shadow(s, E)'
    <3> DEFINE f == req[r].id
               q0 == IF req[r].dest \in FolderId
                       THEN [req[r] EXCEPT !.pc = "walk", !.todo = {f}]
                       ELSE Settled(req[r], IF req[r].dest = Keep THEN folder[f].parent
                                                                  ELSE Home)
               q == [q0 EXCEPT !.was = folder[f].name]
    <3>1. Go(r, q) /\ Stored(f) /\ req[r].dest # f /\ req[r].pc = "load"
          /\ UNCHANGED storeVars
      BY <2>2, <2>7 DEF Load, At
    <3>2. r = s /\ req'[s] = q
      BY <3>1, <2>1
    <3>3. req[r].dest \in FolderId
      <4> SUFFICES ASSUME req[r].dest \notin FolderId PROVE FALSE
        OBVIOUS
      <4>1. q0.dest = req[r].dest
        BY DEF Settled, FolderTypeOK, ReqState
      <4>2. q.dest = q0.dest
        BY DEF Settled, FolderTypeOK, ReqState
      <4> QED BY <3>2, <4>1, <4>2 DEF Moving
    <3>4. f \in FolderId /\ req[r].out = {}
      BY <3>1 DEF Requests, UpdatesAreKnown, Updating, FolderTypeOK, FolderStoreTypeOK, WalkIsOver
    <3>5. q.id = f /\ q.dest = req[r].dest /\ q.todo = {f} /\ q.out = {}
      BY <3>3, <3>4 DEF FolderTypeOK, ReqState
    <3>6. \A g \in Folders' : folder'[g].parent \in {f} \ q.todo => g \in {f}
      BY <3>5
    <3>7. PICK i \in FolderId : i = f
      BY <3>4
    <3> HIDE DEF q, f
    <3>8. Shadow(s, {i})'
      BY <3>1, <3>2, <3>5, <3>6, <3>7 DEF Shadow
    <3> QED BY <3>8
  <2>8. ASSUME NEW r \in Request, Walk(r) PROVE \E E \in SUBSET FolderId : Shadow(s, E)'
    <3>1. PICK f \in req[r].todo :
            Go(r, [req[r] EXCEPT !.todo = (@ \ {f}) \cup ChildrenOf(f),
                                 !.out = @ \cup ChildrenOf(f)])
      BY <2>8 DEF Walk
    <3> DEFINE q == [req[r] EXCEPT !.todo = (@ \ {f}) \cup ChildrenOf(f),
                                   !.out = @ \cup ChildrenOf(f)]
    <3>2. r = s /\ req'[s] = q
      BY <3>1, <2>1
    <3>3. /\ q.pc = req[r].pc /\ q.id = req[r].id /\ q.dest = req[r].dest
          /\ q.todo = (req[r].todo \ {f}) \cup ChildrenOf(f)
          /\ q.out = req[r].out \cup ChildrenOf(f)
      BY DEF FolderTypeOK, ReqState
    <3>4. Folders' = Folders /\ folder' = folder
      BY <2>8 DEF Walk, storeVars, Folders, Stored
    <3> HIDE DEF q
    <3>5. Moving(s)
      BY <3>2, <3>3, <2>8 DEF Moving, Walk, At
    <3>6. PICK D \in SUBSET FolderId : Shadow(s, D)
      BY <3>5 DEF MovesAreSound
    <3> DEFINE E == D \cup ChildrenOf(f)
    <3>7. E \in SUBSET FolderId
      BY DEF ChildrenOf, Folders
    <3>8. \A g \in Folders : folder[g].parent \in E \ q.todo => g \in E
      BY <3>2, <3>3, <3>6 DEF Shadow, ChildrenOf
    <3>9. q.id \in E /\ q.out \subseteq E /\ (q.dest \in E => q.dest \in q.out)
      BY <3>2, <3>3, <3>6 DEF Shadow
    <3> HIDE DEF E
    <3> QED BY <3>2, <3>4, <3>7, <3>8, <3>9 DEF Shadow
  <2>9. ASSUME NEW r \in Request, CheckTarget(r) PROVE \E E \in SUBSET FolderId : Shadow(s, E)'
    <3> DEFINE q == Settled(req[r], req[r].dest)
    <3>1. Go(r, q) /\ req[r].pc = "walk" /\ req[r].todo = {} /\ req[r].dest \notin req[r].out
          /\ UNCHANGED storeVars
      BY <2>2, <2>9 DEF CheckTarget, At
    <3>2. r = s /\ req'[s] = q
      BY <3>1, <2>1
    <3>3. q.id = req[r].id /\ q.dest = req[r].dest /\ q.todo = {} /\ q.out = {}
      BY DEF Settled, FolderTypeOK, ReqState
    <3>4. Folders' = Folders /\ folder' = folder
      BY <3>1 DEF storeVars, Folders, Stored
    <3> HIDE DEF q
    <3>5. Moving(s)
      BY <3>1, <3>2, <3>3 DEF Moving
    <3>6. PICK D \in SUBSET FolderId : Shadow(s, D)
      BY <3>5 DEF MovesAreSound
    <3> QED BY <3>1, <3>2, <3>3, <3>4, <3>6 DEF Shadow
  <2>10. ASSUME NEW r \in Request, CheckDuplicate(r)
         PROVE  \E E \in SUBSET FolderId : Shadow(s, E)'
    <3> DEFINE q == [req[r] EXCEPT !.pc = "save",
                                   !.name = IF @ = req[r].was THEN Keep ELSE @]
    <3>1. Go(r, q) /\ req[r].pc = "duplicate" /\ UNCHANGED storeVars
      BY <2>2, <2>10 DEF CheckDuplicate, At
    <3>2. r = s /\ req'[s] = q
      BY <3>1, <2>1
    <3>3. q.id = req[r].id /\ q.dest = req[r].dest /\ q.todo = req[r].todo /\ q.out = req[r].out
      BY DEF FolderTypeOK, ReqState
    <3>4. Folders' = Folders /\ folder' = folder
      BY <3>1 DEF storeVars, Folders, Stored
    <3> HIDE DEF q
    <3>5. Moving(s)
      BY <3>1, <3>2, <3>3 DEF Moving
    <3>6. PICK D \in SUBSET FolderId : Shadow(s, D)
      BY <3>5 DEF MovesAreSound
    <3> QED BY <3>2, <3>3, <3>4, <3>6 DEF Shadow
  <2> QED
    BY <1>2, <2>3, <2>4, <2>5, <2>6, <2>7, <2>8, <2>9, <2>10
       DEF FolderNext, Proceed, folderVars
<1> QED BY <1>1, <1>2

-----------------------------------------------------------------------------
(* Theorems *)

Inv == FolderTypeOK /\ UniqueSiblings /\ Requests /\ WalkIsOver /\ ParentsKnown
InvMoves == MovesAreSound /\ Acyclic

\* The initial state satisfies all of it.
LEMMA InitInv == FolderInit => Inv /\ InvMoves
<1> SUFFICES ASSUME FolderInit PROVE Inv /\ InvMoves
  OBVIOUS
<1>1. FolderTypeOK
  BY InitTyped
<1>2. Folders = {} /\ \A r \in Request : req[r].pc = "idle"
  BY DEF FolderInit, Folders, Stored, Idle
<1>3. Requests /\ WalkIsOver /\ MovesAreSound
  BY <1>2 DEF Requests, CreatesAreFresh, UpdatesAreKnown, Creating, Updating, WalkIsOver,
              MovesAreSound, Moving
<1>4. UniqueSiblings /\ ParentsKnown /\ Acyclic
  BY <1>2 DEF UniqueSiblings, ParentsKnown, Acyclic
<1> QED BY <1>1, <1>3, <1>4 DEF Inv, InvMoves

\* Types, requests and the unique index hold whatever is in flight.
LEMMA Invariance == FolderSpec => []Inv
<1>1. FolderInit => Inv
  BY InitInv
<1>2. Inv /\ [FolderNext]_folderVars => Inv'
  BY StepTyped, StepUnique, StepRequests, StepParents DEF Inv
<1> QED BY <1>1, <1>2, PTL DEF FolderSpec

\* Every variable keeps its type, for every number of folders and requests.
THEOREM FolderTyping == FolderSpec => []FolderTypeOK
<1>1. Inv => FolderTypeOK
  BY DEF Inv
<1> QED BY <1>1, Invariance, PTL

\* Two folders in one place never share a name: creates, renames and moves that
\* race past each other's checks are stopped by the index.
THEOREM SiblingsUnique == FolderSpec => []UniqueSiblings
<1>1. Inv => UniqueSiblings
  BY DEF Inv
<1> QED BY <1>1, Invariance, PTL

\* As long as one move is in flight at a time, no sequence of creates, renames
\* and moves closes a cycle: the walk over the subfolders, although it reads one
\* level per query while other requests create folders, misses nothing that
\* matters.
THEOREM OneMoverKeepsTree == SingleMover /\ FolderSpec => []Acyclic
<1>1. FolderInit => InvMoves
  BY InitInv
<1>2. SingleMover /\ Inv /\ InvMoves /\ [FolderNext]_folderVars => InvMoves'
  BY StepSound, StepAcyclic DEF Inv, InvMoves
<1>3. SingleMover => []SingleMover
  <2>1. SingleMover => SingleMover'
    BY DEF SingleMover
  <2> QED BY <2>1, PTL
<1>4. InvMoves => Acyclic
  BY DEF InvMoves
<1> QED BY <1>1, <1>2, <1>3, <1>4, Invariance, PTL DEF FolderSpec

\* A save changes the fields its own request asked for and no others.
THEOREM UpdatesAreNotLost == FolderSpec => NoLostUpdate
<1> DEFINE Step ==
      \A f \in Folders \cap Folders' :
        /\ folder'[f].parent # folder[f].parent =>
             \E r \in Request : req[r].id = f /\ req[r].dest = folder'[f].parent
        /\ folder'[f].name # folder[f].name =>
             \E r \in Request : req[r].id = f /\ req[r].name = folder'[f].name
<1>1. ASSUME Inv, [FolderNext]_folderVars PROVE Step
  <2>0. FolderTypeOK /\ Requests
    BY <1>1 DEF Inv
  <2>1. CASE Quiet
    BY <2>1 DEF Quiet, storeVars
  <2>2. ASSUME NEW r \in Request, InsertDoc(r) PROVE Step
    BY <2>0, <2>2, InsertEffect
  <2>3. ASSUME NEW r \in Request, NEW loc, NEW n, SaveDoc(r, loc, n) PROVE Step
    <3> DEFINE i == req[r].id
    <3>1. /\ folder'[i].parent = loc
          /\ folder'[i].name = n
          /\ \A f \in Folders \ {i} : folder'[f] = folder[f]
      BY <2>0, <2>3, SaveEffect
    <3>2. /\ loc = IF req[r].dest = Keep THEN folder[i].parent ELSE req[r].dest
          /\ n = IF req[r].name = Keep THEN folder[i].name ELSE req[r].name
      BY <2>3 DEF SaveDoc
    <3> QED BY <3>1, <3>2
  <2> QED BY <2>1, <2>2, <2>3, <1>1, StepKinds
<1>2. Inv /\ [FolderNext]_folderVars => [Step]_folderVars
  BY <1>1
<1> QED BY <1>2, Invariance, PTL DEF FolderSpec, NoLostUpdate

-----------------------------------------------------------------------------
(* Refinement: every write acts on FolderTree's tree at once *)

\* Without deletes, the ids given out are those of the folders that are there.
AllStored == minted \subseteq Folders

Node(f) == [parent |-> folder[f].parent, name |-> folder[f].name]

\* The tree of the refinement has the stored folders as its members.
LEMMA TreeIsFolders ==
  ASSUME FolderTypeOK
  PROVE  /\ Sequential!Members = Folders
         /\ \A f \in Folders : /\ folder[f].parent \in Location /\ folder[f].name \in Name
                               /\ (IF Stored(f) THEN Node(f) ELSE NoDoc) = Node(f)
<1>1. \A f \in Folders : folder[f].parent \in Location /\ folder[f].name \in Name
  BY DEF FolderTypeOK, FolderStoreTypeOK, Folders, Stored, FolderDoc
<1>2. \A f \in Folders : Node(f) \in [parent : Location, name : Name]
  BY <1>1 DEF Node
<1>3. \A f \in Folders : Node(f) # NoDoc
  BY <1>2, NoDocIsNoPlace
<1>4. Sequential!Members = Folders
  BY <1>3 DEF Sequential!Members, Folders, Node
<1> QED BY <1>1, <1>4 DEF Folders

\* What a move asks for is not below the folder it moves.
LEMMA NeverBelowItself ==
  ASSUME FolderTypeOK, Requests, WalkIsOver, MovesAreSound, Acyclic,
         NEW r \in Request, NEW loc, NEW n, SaveDoc(r, loc, n)
  PROVE  loc \notin Sequential!Below(req[r].id)
<1> DEFINE i == req[r].id
           B == Sequential!Below(i)
           Closed(S) == i \in S /\ \A h \in Folders : folder[h].parent \in S => h \in S
<1>1. Sequential!Members = Folders
  BY TreeIsFolders
<1>2. i \in Folders
  BY SaveEffect
<1>3. B = {g \in Folders : \A S \in SUBSET Folders : Closed(S) => g \in S}
  BY <1>1 DEF Sequential!Below, Folders
<1>4. /\ req[r].dest \in Known \cup {Keep}
      /\ loc = IF req[r].dest = Keep THEN folder[i].parent ELSE req[r].dest
  BY DEF SaveDoc, Requests, UpdatesAreKnown, Updating
<1> SUFFICES loc \notin B
  OBVIOUS
<1> HIDE DEF B
<1>5. CASE req[r].dest = Keep
  <2> SUFFICES ASSUME folder[i].parent \in B PROVE FALSE
    BY <1>4, <1>5
  <2>1. B \in SUBSET Folders /\ B # {}
    BY <1>3
  <2>2. PICK f \in B : folder[f].parent \notin B
    BY <2>1 DEF Acyclic
  <2>3. f # i /\ f \in Folders
    BY <2>1, <2>2
  <2>4. ASSUME NEW S \in SUBSET Folders, Closed(S), folder[f].parent \notin S PROVE FALSE
    <3>1. Closed(S \ {f})
      BY <2>3, <2>4
    <3>2. f \in S \ {f}
      BY <1>3, <2>2, <3>1
    <3> QED BY <3>2
  <2>5. \A S \in SUBSET Folders : Closed(S) => folder[f].parent \in S
    BY <2>4
  <2>6. Closed(Folders)
    BY <1>2
  <2>7. folder[f].parent \in Folders
    BY <2>5, <2>6
  <2> QED BY <1>3, <2>2, <2>5, <2>7
<1>6. CASE req[r].dest \in FolderId
  <2>1. req[r].pc = "save"
    BY DEF SaveDoc
  <2>2. PICK D \in SUBSET FolderId : Shadow(r, D)
    BY <1>6, <2>1 DEF MovesAreSound, Moving
  <2>3. i \in D /\ req[r].dest \notin D /\ \A f \in Folders : folder[f].parent \in D => f \in D
    BY <2>1, <2>2 DEF Shadow, WalkIsOver
  <2>4. Closed(D \cap Folders)
    BY <1>2, <2>3
  <2>5. req[r].dest # Keep
    BY <1>6, KeepIsNoValue DEF Location
  <2> QED BY <1>3, <1>4, <2>3, <2>4, <2>5
<1>7. CASE req[r].dest = Home
  BY <1>3, <1>4, <1>7, HomeIsNoFolder, KeepIsNoValue DEF Location, Folders
<1> QED BY <1>4, <1>5, <1>6, <1>7 DEF Known, FolderTypeOK, FolderStoreTypeOK

\* Every step of the requests is a step of the tree, or none.
LEMMA StepOnTree ==
  ASSUME Inv, Inv', InvMoves, AllStored, [FolderNext]_folderVars
  PROVE  /\ AllStored'
         /\ [Sequential!Next]_[f \in FolderId |-> IF Stored(f) THEN Node(f) ELSE NoDoc]
<1> DEFINE T == [f \in FolderId |-> IF Stored(f) THEN Node(f) ELSE NoDoc]
<1>0. /\ FolderTypeOK /\ FolderTypeOK' /\ Requests /\ WalkIsOver /\ ParentsKnown
      /\ MovesAreSound /\ Acyclic /\ folder \in [FolderId -> FolderDoc \cup {NoDoc}]
      /\ Folders \subseteq minted
  BY DEF Inv, InvMoves, FolderTypeOK, FolderStoreTypeOK
<1>1. CASE Quiet
  BY <1>1 DEF Quiet, storeVars, AllStored, Folders, Stored, Node
<1>2. ASSUME NEW r \in Request, InsertDoc(r) PROVE AllStored' /\ Sequential!Next
  <2> DEFINE i == req[r].id
             d == NewFolder(req[r].dest, req[r].name)
  <2>1. /\ i \in FolderId \ minted /\ req[r].dest \in Known /\ req[r].name \in Name
        /\ folder' = [folder EXCEPT ![i] = d] /\ minted' = minted \cup {i}
        /\ IndexAdmits(i, req[r].dest, req[r].name)
    BY <1>0, <1>2 DEF InsertDoc, Requests, CreatesAreFresh, Creating
  <2>2. d \in FolderDoc /\ d # NoDoc /\ d.parent = req[r].dest /\ d.name = req[r].name
    BY <2>1, <1>0, NoDocIsNoFolder
       DEF NewFolder, FolderDoc, Known, Location, Status, Time, FolderTypeOK, FolderStoreTypeOK
  <2> HIDE DEF d
  <2>3. AllStored' /\ i \notin Folders
    BY <1>0, <2>1, <2>2 DEF AllStored, Folders, Stored
  <2>4. Sequential!Fits(i, req[r].dest, req[r].name)
    <3>1. req[r].dest \in Folders \cup {Home}
      BY <1>0, <2>1 DEF Known, AllStored
    <3>2. \A g \in Folders \ {i} : Node(g) # [parent |-> req[r].dest, name |-> req[r].name]
      BY <2>1 DEF IndexAdmits, Node
    <3> QED BY <1>0, <3>1, <3>2, TreeIsFolders DEF Sequential!Fits, Node, Folders
  <2>5. T' = [T EXCEPT ![i] = [parent |-> req[r].dest, name |-> req[r].name]]
    <3>1. \A f \in FolderId : f # i => folder'[f] = folder[f]
      BY <1>0, <2>1
    <3>2. folder'[i] = d
      BY <1>0, <2>1
    <3> QED BY <2>1, <2>2, <3>1, <3>2 DEF Stored, Node
  <2>6. req[r].dest \in FolderId \cup {Home}
    BY <1>0, <2>1 DEF Known, FolderTypeOK, FolderStoreTypeOK
  <2>7. PICK f \in FolderId, loc \in FolderId \cup {Home}, n \in Name :
          f = i /\ loc = req[r].dest /\ n = req[r].name
    BY <2>1, <2>6
  <2>8. Sequential!Add(f, loc, n)
    BY <1>0, <2>3, <2>4, <2>5, <2>7, TreeIsFolders DEF Sequential!Add, Node
  <2> QED BY <2>3, <2>8 DEF Sequential!Next
<1>3. ASSUME NEW r \in Request, NEW loc, NEW n, SaveDoc(r, loc, n)
      PROVE  AllStored' /\ Sequential!Next
  <2> DEFINE i == req[r].id
  <2>1. /\ i \in Folders /\ i \in FolderId
        /\ folder' = [folder EXCEPT ![i].parent = loc, ![i].name = n] /\ minted' = minted
        /\ IndexAdmits(i, loc, n)
        /\ loc = IF req[r].dest = Keep THEN folder[i].parent ELSE req[r].dest
        /\ n = IF req[r].name = Keep THEN folder[i].name ELSE req[r].name
        /\ req[r].dest \in Known \cup {Keep}
        /\ req[r].name # Keep => req[r].name \in Name
    BY <1>0, <1>3 DEF SaveDoc, Requests, UpdatesAreKnown, Updating, Folders, FolderTypeOK,
         FolderStoreTypeOK
  <2>2. folder[i] \in FolderDoc /\ folder[i].parent \in Known
    BY <1>0, <2>1 DEF Folders, Stored, ParentsKnown
  <2>3. loc \in Known /\ n \in Name
    BY <2>1, <2>2 DEF FolderDoc
  <2>4. /\ folder'[i].parent = loc /\ folder'[i].name = n
        /\ \A f \in FolderId : f # i => folder'[f] = folder[f]
    BY <1>0, <2>1, <2>2 DEF FolderDoc
  <2>5. loc \in FolderId \cup {Home} /\ loc \in Location
    BY <1>0, <2>3 DEF Known, FolderTypeOK, FolderStoreTypeOK, Location
  <2>6. folder'[i] \in FolderDoc
    BY <1>0, <2>1, <2>2, <2>3, <2>5 DEF FolderDoc
  <2>7. folder'[i] # NoDoc
    BY <2>6, NoDocIsNoFolder
  <2>8. AllStored'
    BY <1>0, <2>1, <2>4, <2>7 DEF AllStored, Folders, Stored
  <2>9. Sequential!Fits(i, loc, n)
    <3>1. loc \in Folders \cup {Home}
      BY <1>0, <2>3 DEF Known, AllStored
    <3>2. \A g \in Folders \ {i} : Node(g) # [parent |-> loc, name |-> n]
      BY <2>1 DEF IndexAdmits, Node
    <3> QED BY <1>0, <3>1, <3>2, TreeIsFolders DEF Sequential!Fits, Node, Folders
  <2>10. T' = [T EXCEPT ![i] = [parent |-> loc, name |-> n]]
    BY <2>1, <2>4, <2>7 DEF Stored, Node
  <2>11. loc \notin Sequential!Below(i)
    BY <1>0, <1>3, NeverBelowItself
  <2>12. Sequential!Change(i, loc, n)
    BY <1>0, <2>1, <2>9, <2>10, <2>11, TreeIsFolders DEF Sequential!Change, Node
  <2> QED BY <2>1, <2>3, <2>5, <2>8, <2>12 DEF Sequential!Next
<1> QED BY <1>1, <1>2, <1>3, StepKinds

\* With one move in flight at a time, the folder requests implement FolderTree:
\* although lookups, walk and write are queries of their own, every write is one
\* create, rename or move on a tree, into a place that is there, under a free
\* name, and never below itself.
THEOREM RequestsActOnATree == SingleMover /\ FolderSpec => ActsOnATree
<1>1. FolderInit => Inv /\ InvMoves /\ AllStored
  BY InitInv DEF FolderInit, AllStored
<1>2. FolderInit => Sequential!Init
  BY DEF FolderInit, Sequential!Init, Stored
<1>3. SingleMover /\ Inv /\ InvMoves /\ [FolderNext]_folderVars => InvMoves'
  BY StepSound, StepAcyclic DEF Inv, InvMoves
<1>4. Inv /\ Inv' /\ InvMoves /\ AllStored /\ [FolderNext]_folderVars
        => AllStored' /\ [Sequential!Next]_[f \in FolderId |-> IF Stored(f)
                  THEN [parent |-> folder[f].parent, name |-> folder[f].name] ELSE NoDoc]
  BY StepOnTree DEF Node
<1>5. SingleMover => []SingleMover
  <2>1. SingleMover => SingleMover'
    BY DEF SingleMover
  <2> QED BY <2>1, PTL
<1> QED BY <1>1, <1>2, <1>3, <1>4, <1>5, Invariance, PTL
        DEF FolderSpec, ActsOnATree, Sequential!Spec

=============================================================================

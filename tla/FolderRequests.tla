---------------------------- MODULE FolderRequests ----------------------------
(* createFolder and updateFolder (create, rename, move) of FoldersService.    *)
(*                                                                            *)
(* Node runs one handler at a time up to its next await, so a handler is a    *)
(* chain of steps, one per query, and the chains of different requests        *)
(* interleave.  A request keeps what the handler holds in local variables     *)
(* between two awaits; an answer (2xx, 4xx or 5xx) frees its slot.            *)
EXTENDS FolderStore

CONSTANTS
  Request,    \* slots: how many folder requests are in flight at once
  Movers,     \* the slots whose requests may carry a parentId to move to
  Keep        \* a field the PATCH body does not carry

ASSUME MoversAreRequests == Movers \subseteq Request
ASSUME KeepIsNoValue == Keep \notin Location \cup Name

VARIABLE req

folderVars == <<folder, minted, req>>

Destination == Location \cup {Keep}

ReqState ==
  [pc   : {"idle", "parent", "lookup", "insert", "load", "walk", "duplicate", "save"},
   id   : Location,             \* :id of a PATCH, or the _id mongoose gives a new document
   dest : Destination,          \* parentId of the body
   name : Name \cup {Keep},     \* name of the body; later, the name save() will write
   at   : Location,             \* parentId of the loaded document once the move is set
   was  : Name \cup {Keep},     \* name of the loaded document
   todo : SUBSET FolderId,      \* getDescendantFolderIds: queue
   out  : SUBSET FolderId]      \* getDescendantFolderIds: out

Idle ==
  [pc |-> "idle", id |-> Home, dest |-> Home, name |-> Keep, at |-> Home,
   was |-> Keep, todo |-> {}, out |-> {}]

At(r, pc) == req[r].pc = pc
Go(r, next) == req' = [req EXCEPT ![r] = next]
Answer(r) == Go(r, Idle)

-----------------------------------------------------------------------------
(* createFolder *)

\* mongoose gives the document its _id before it is inserted; ids are never reused.
StartCreate(r, loc, n, f) ==
  /\ At(r, "idle")
  /\ f \notin minted
  /\ \A q \in Request : req[q].id # f
  /\ Go(r, [Idle EXCEPT !.pc = IF loc = Home THEN "lookup" ELSE "parent",
                        !.id = f, !.dest = loc, !.name = n])
  /\ UNCHANGED storeVars

\* The parent must exist; it may well be in the trash.
CheckParent(r) ==
  /\ At(r, "parent")
  /\ IF Stored(req[r].dest) THEN Go(r, [req[r] EXCEPT !.pc = "lookup"]) ELSE Answer(r)
  /\ UNCHANGED storeVars

CheckName(r) ==
  /\ At(r, "lookup")
  /\ IF IndexAdmits(req[r].id, req[r].dest, req[r].name)
       THEN Go(r, [req[r] EXCEPT !.pc = "insert"])
       ELSE Answer(r)
  /\ UNCHANGED storeVars

\* The unique index is the last word: E11000 becomes a 409.
Insert(r) ==
  /\ At(r, "insert")
  /\ IF IndexAdmits(req[r].id, req[r].dest, req[r].name)
       THEN /\ folder' = [folder EXCEPT ![req[r].id] = NewFolder(req[r].dest, req[r].name)]
            /\ minted' = minted \cup {req[r].id}
       ELSE UNCHANGED storeVars
  /\ Answer(r)

-----------------------------------------------------------------------------
(* updateFolder *)

\* A body with neither field is answered 400 before any query.
StartUpdate(r, f, dest, n) ==
  /\ At(r, "idle")
  /\ f \in minted
  /\ dest \in Known \cup {Keep}
  /\ dest # Keep => r \in Movers
  /\ ~(dest = Keep /\ n = Keep)
  /\ Go(r, [Idle EXCEPT !.pc = "load", !.id = f, !.dest = dest, !.name = n])
  /\ UNCHANGED storeVars

\* What follows once folder.parentId is settled.
Settled(q, loc) ==
  [q EXCEPT !.pc = IF q.name = Keep THEN "save" ELSE "duplicate",
            !.at = loc, !.todo = {}, !.out = {}]

\* findOne, then the checks that need no query: already there, into itself.
Load(r) ==
  LET q == req[r]
      f == q.id
  IN /\ At(r, "load")
     /\ IF ~Stored(f) \/ q.dest \in {folder[f].parent, f}
          THEN Answer(r)
          ELSE Go(r, [IF q.dest \in FolderId
                        THEN [q EXCEPT !.pc = "walk", !.todo = {f}]
                        ELSE Settled(q, IF q.dest = Keep THEN folder[f].parent ELSE Home)
                      EXCEPT !.was = folder[f].name])
     /\ UNCHANGED storeVars

\* For a mutant: a walk that looks at the direct children only.
WalkOneLevel(r) ==
  /\ At(r, "walk")
  /\ \E f \in req[r].todo :
       Go(r, [req[r] EXCEPT !.todo = @ \ {f}, !.out = @ \cup ChildrenOf(f)])
  /\ UNCHANGED storeVars

\* One turn of getDescendantFolderIds, one find.  The queue is kept as a set:
\* which of the pending folders comes first is left open.
Walk(r) ==
  /\ At(r, "walk")
  /\ \E f \in req[r].todo :
       Go(r, [req[r] EXCEPT !.todo = (@ \ {f}) \cup ChildrenOf(f),
                            !.out = @ \cup ChildrenOf(f)])
  /\ UNCHANGED storeVars

\* For a mutant: the target is looked for, the walk's result is not.
CheckTargetOnly(r) ==
  LET q == req[r]
  IN /\ At(r, "walk")
     /\ q.todo = {}
     /\ Go(r, IF Stored(q.dest) THEN Settled(q, q.dest) ELSE Idle)
     /\ UNCHANGED storeVars

\* The queue is empty: desc.includes(targetId), then findOne of the target.
CheckTarget(r) ==
  LET q == req[r]
  IN /\ At(r, "walk")
     /\ q.todo = {}
     /\ IF q.dest \in q.out \/ ~Stored(q.dest)
          THEN Answer(r)
          ELSE Go(r, Settled(q, q.dest))
     /\ UNCHANGED storeVars

\* Only a body with a name looks for a folder that has it.  A name equal to the
\* loaded one is no modified path, and save() leaves it out.
CheckDuplicate(r) ==
  LET q == req[r]
  IN /\ At(r, "duplicate")
     /\ IF IndexAdmits(q.id, q.at, q.name)
          THEN Go(r, [q EXCEPT !.pc = "save", !.name = IF @ = q.was THEN Keep ELSE @])
          ELSE Answer(r)
     /\ UNCHANGED storeVars

\* For a mutant: save() writing the whole document it loaded.
SaveWholeDocument(r) ==
  LET q == req[r]
      f == q.id
      n == IF q.name = Keep THEN q.was ELSE q.name
  IN /\ At(r, "save")
     /\ IF Stored(f) /\ IndexAdmits(f, q.at, n)
          THEN folder' = [folder EXCEPT ![f].parent = q.at, ![f].name = n]
          ELSE UNCHANGED folder
     /\ Answer(r)
     /\ UNCHANGED minted

\* save() writes the modified paths by _id: DocumentNotFoundError (500) when the
\* document is gone, E11000 (409) when the index has no room for the result.
Save(r) ==
  LET q == req[r]
      f == q.id
      loc == IF q.dest = Keep THEN folder[f].parent ELSE q.dest
      n == IF q.name = Keep THEN folder[f].name ELSE q.name
  IN /\ At(r, "save")
     /\ IF Stored(f) /\ IndexAdmits(f, loc, n)
          THEN folder' = [folder EXCEPT ![f].parent = loc, ![f].name = n]
          ELSE UNCHANGED folder
     /\ Answer(r)
     /\ UNCHANGED minted

-----------------------------------------------------------------------------
FolderInit ==
  /\ folder = [f \in FolderId |-> NoDoc]
  /\ minted = {}
  /\ req = [r \in Request |-> Idle]

\* A handler's next step, once its request has arrived.
Proceed(r) ==
  \/ CheckParent(r) \/ CheckName(r) \/ Insert(r)
  \/ Load(r) \/ Walk(r) \/ CheckTarget(r) \/ CheckDuplicate(r) \/ Save(r)

FolderNext ==
  \E r \in Request :
    \/ \E loc \in Known, n \in Name, f \in FolderId : StartCreate(r, loc, n, f)
    \/ \E f \in FolderId, dest \in Destination, n \in Name \cup {Keep} :
         StartUpdate(r, f, dest, n)
    \/ Proceed(r)

FolderSpec == FolderInit /\ [][FolderNext]_folderVars

\* MongoDB answers every query, and Node runs every continuation.
FolderFairness == \A r \in Request : WF_folderVars(Proceed(r))
FolderFairSpec == FolderSpec /\ FolderFairness

-----------------------------------------------------------------------------
FolderTypeOK ==
  /\ FolderStoreTypeOK
  /\ req \in [Request -> ReqState]

\* A folder's place changes only by a request that asks for that very place: a
\* rename that loaded the document before a concurrent move does not put the
\* folder back where it was, nor the reverse for names (save() writes modified
\* paths only, folders.service.ts:165).
NoLostUpdate ==
  [][\A f \in Folders \cap Folders' :
       /\ folder'[f].parent # folder[f].parent =>
            \E r \in Request : req[r].id = f /\ req[r].dest = folder'[f].parent
       /\ folder'[f].name # folder[f].name =>
            \E r \in Request : req[r].id = f /\ req[r].name = folder'[f].name]_folderVars

\* Every request is answered, if clients create folders only finitely often: on a
\* tree every turn of the walk goes one level down, and nothing but a new folder
\* makes the tree deeper below it.  Were folders created for ever below the last
\* one it has found, the walk would follow them for ever; on a cycle it goes
\* round for ever.
EveryRequestAnswered ==
  <>[][minted' = minted]_folderVars => \A r \in Request : ~At(r, "idle") ~> At(r, "idle")

\* Checks and writes are several queries apart, and yet every create, rename and
\* move acts as if it were done at once, when it is written: on a tree, into a
\* place that is there, under a name that is free, and never below itself.
Sequential ==
  INSTANCE FolderTree WITH
    tree <- [f \in FolderId |-> IF Stored(f)
                                  THEN [parent |-> folder[f].parent, name |-> folder[f].name]
                                  ELSE NoDoc]

ASSUME NoDocIsNoPlace == NoDoc \notin [parent : Location, name : Name]

ActsOnATree == Sequential!Spec

=============================================================================

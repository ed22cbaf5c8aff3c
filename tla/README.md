# Nuebics API: specification, model checking and proofs

TLA+ modules for the server in `src/`: a NestJS port of the NueVault API. It
keeps a drive of folders and files per user (metadata in MongoDB, bytes in an
S3 bucket that clients reach through presigned URLs), a trash that is purged by
a daily job, and accounts with rotating refresh tokens, an emailed verification
code and a vault password verifier.

The server is one Node process. A handler runs alone up to its next `await`,
every query is an `await`, and MongoDB applies one operation to one document
atomically and nothing larger; no transaction is used anywhere. Almost all that
can go wrong here is therefore an interleaving of two handlers between two of
their queries, or a crash between two queries. The modules model a handler as a
chain of actions, one per query, with the handler's local variables kept in a
record per request slot.

Paths below are relative to `src/src/` of the repository unless they start
with `src/`.

## 1. Inventory

| Component | State | Operations | Hard behaviour |
|---|---|---|---|
| Folder collection (`shared/database/schemas/folder.schema.ts`) | documents with parent, name, status, deletedAt; unique index on (userId, parentId, name) | - | index covers trashed folders as well |
| Folder requests (`folders/`) | locals of the handlers | create, rename, move, favourite, read with breadcrumbs | check-then-write over several awaits; walks over a tree that changes; cycles |
| File collection and bucket (`file.schema.ts`, `shared/s3/`) | documents with folder, key, status, deletedAt; objects by key | presign, head, delete one, delete many | two stores with no common transaction |
| File requests (`files/files.service.ts`) | locals | presign, confirm, rename/move, delete, list, favourite | repeated confirm, orphan objects |
| Trash (`trash/`, `folders/folders.helpers.ts`) | recursion of the handlers | delete, restore, purge, list | non-atomic recursion, crash in the middle, purge against restore |
| Purge scheduling (`cron/`) | timer | daily run, HTTP run | overlapping runs, swallowed errors |
| Sessions (`auth/auth.service.ts`, `refresh-token.schema.ts`, `shared/crypto/`) | one row per session: hash, expiry | login, refresh; TTL monitor | concurrent refresh with one token, clocks and rounding, lost answers |
| Account (`auth/auth.service.ts`, `verification.service.ts`, `vault-password.service.ts`) | one user document | signup, resend, verify, set verifier | load-modify-save of one document by several handlers, expiry, mails out of order |
| Mail (`shared/mail/`) | - | sendOtp | fails silently |
| Views (`files/contents.controller.ts`, `download.controller.ts`, `trash/`, listings) | locals | contents, trash listing, batch download | torn reads, endless walks on a cycle |
| Favourites (`favourites/`) | a flag | toggle, bulk toggle, list | none: single updates |
| Rate limits (`throttler/`, `common/guards/`) | windows in memory | count | per process, lost on restart |
| Guards, pipes, filter, config, health | - | stateless | - |

Interactions: `TrashService`, `FilesService` and `FoldersService` write the same
two collections; `FoldersHelpers` is called by the folder, trash, contents,
download and cron code; the purge is the only caller of the bucket's mass
delete; the account handlers all load and save one user document; sessions are
touched only by login, refresh and MongoDB's TTL monitor.

What makes each component correct:

- folders: siblings have different names, parents form a tree, no update is
  lost, every request is answered once clients stop creating folders;
- trash: an item is in the trash exactly when it is dated, a trashed folder
  holds nothing active, nothing goes before its time, what is expired goes in
  the end, no object is forgotten, an active file has its bytes;
- file requests: a confirmed file has its bytes and keeps them, a move of a file
  neither undoes a delete nor is undone by one;
- the drive as a whole: what was in a folder before its delete began goes with
  it, nothing active is left below a folder that is gone;
- views: what nobody touches during a read is shown, counted and delivered;
- sessions: at most one live token per session, a rotated token is never live
  again, an ended session is never reopened, one caller wins a token;
- account: verification is earned by a code that was issued and in time, and
  lasts; no code is mailed that was never stored; the vault verifier is set once.

`PROJECT.json` lists the hazards at their lines with the properties that watch
them.

## 2. Modules

| Module | Models | EXTENDS |
|---|---|---|
| `FolderStore` | the folders collection: documents, schema defaults, unique index | |
| `FolderTree` | abstract: a tree of named folders on which requests act at once | |
| `FolderRequests` | `createFolder`, `updateFolder` and the walk `getDescendantFolderIds`; `ActsOnATree` is `FolderTree!Spec` under the mapping of the collection to its places | `FolderStore` |
| `FileStore` | the files collection, the bucket, the clock that ages trash | `FolderStore` |
| `FileRequests` | `presignUpload`, the client's PUT, `confirmUpload`, `updateFile` | `FileStore` |
| `TrashRequests` | `deleteFile`, `deleteFolder`, `restoreItem`, both recursions, `purgeExpiredTrash`, crashes and outages | `FileStore` |
| `Drive` | all requests that write, on the same collections and bucket | `FolderRequests`, `FileRequests`, `TrashRequests` |
| `DriveViews` | `getContents`, `listTrash`, `batchDownload` beside the writers | `Drive` |
| `TokenChain` | abstract: what refresh-token rotation promises | |
| `RefreshSessions` | `login`, `refresh`, expiry, TTL monitor; `KeepsTheChain` is `TokenChain!Spec` under the mapping `Live` | |
| `Account` | `signup`, `resendOtp`, `verifyEmail`, `setVerifier`, `sendOtp` on one document | |
| `FolderProofs`, `TrashProofs`, `SessionProofs`, `AccountProofs` | theorems | the component |
| `DriveProofs` | theorems on the composition | `Drive`, `FolderProofs`, `TrashProofs` |
| `ViewsProofs` | theorems on the reads | `DriveViews`, `DriveProofs` |
| `MC*` | instances for TLC | the component |

### FolderStore and FolderRequests

`folder` is the collection of one user: every query carries the userId of the
caller's token, so two users never meet in the collections. (In the bucket they
could: see FileRequests.) `minted` are the ids a client can know.
`req[r]` holds what a handler has in its local variables. One action per query:
create is `StartCreate`, `CheckParent` (skipped at the top), `CheckName`,
`Insert`; update is `StartUpdate`, `Load`, `Walk` repeated once per folder
visited, `CheckTarget`, `CheckDuplicate` (only with a name), `Save`. A condition
that fails ends the handler (`Answer`). `Save` writes the modified paths only,
as mongoose does: a field that the request does not change is not written, and
neither is a name equal to the loaded one. The BFS queue is a set: which pending
folder is visited first is left open. On a cycle the set never empties, as the
array never does in the code.

`FolderTree` says what all this is to amount to: one atomic `Add` or `Change` on
a tree, which never puts a folder into itself or below itself and never gives
two siblings one name. The collection implements it as long as one slot may
move: each `Insert` is an `Add`, each `Save` that writes something a `Change`,
every other query a stutter. The check for a free place is the index, the check
for the subtree is a walk that ended many steps earlier; that the latter is
still good when `Save` runs is what the refinement shows. Two movers break it as
they break `Acyclic`.

### FileStore and TrashRequests

`file` and `object` are the collection and the bucket, `now` the clock.
`treq[r].stack` is the recursion of `trashFolderRecursive` or
`restoreFolderRecursive`, one frame per activation, with the date the activation
read on entry: files first (`MarkFiles`), then the list of subfolders
(`FindSubs`), each of them (`EnterSub`), and the folder itself last
(`MarkFolder`). The two functions differ in the status they give and in the
date, so they share actions with `treq[r].to`. The `updateMany` over the files is
one scan (`scan`): it takes the files that lay in the folder when it began, one
after the other, and one that comes in meanwhile is met or missed. `deleteMany`
takes one document after the other, too. A purge is `ListExpired` (the cutoff is
computed once), `DeleteObjects`, `DeleteFiles`, `DeleteFolders`; the two
`deleteMany` ask for status and date again. `AbortPurge` is any error, with any
part of the keys already deleted, since the bucket is asked in batches.
`Crash` ends all handlers. The constant `Restores` admits restores.

`DeleteObjects` of S3 answers 200 also when it failed for single keys and lists
those in the answer; `S3Service.deleteMany` does not look. `DeleteObjects`
therefore leaves the objects of any subset of the keys, which the history
`failed` remembers: those objects are lost (`docs/frontend-handoff-2026-06-17.md`,
line 124, has the purge remove the stored files too), and `NoOrphanObject` says
that no others ever are.

The start is any drive that no handler has been interrupted in: dates go with
the trash (`StartIsDated`), every item lies in a folder that is there and a
trashed one holds nothing active (`StartIsClosed`), siblings have names of their
own and the folders form a tree (`StartIsATree`). The empty drive of a new user
is one; what interrupted handlers leave behind is reached from it.

### FileRequests

A confirm is `HeadObject` (the object must be there, and its length decides) and
then `CreateFile`, or `DeleteOne` when the length is not the one the body says;
whether it is, is left open, so that a client may confirm rightly, wrongly, or
one after the other. Nothing in the code looks for another confirm of the key:
`disputed` remembers the keys for which one confirm met another, `accepted` those
that have become a file. `Put` is the client's own request to the bucket, as long
as the URL lives; it may come again after the confirm. `Lapse` ends the life of
all URLs whenever the trash ages, since they live five minutes and the retention
is counted in days. `presignUpload` draws a new key; the folder it looks up is
forgotten, and `confirmUpload` takes the folder of its own body, which may be any
id, and never looks it up. It takes the key of its body, too, without asking whose
it is; the models have one user, who confirms the keys that were signed for him,
and files of another user under the same key are outside them. An update is `LoadFile`, `CheckFolder` (skipped for the top), `SaveMove`,
which writes the folder if it differs from the loaded one. Names are left out: a
rename writes nothing the model has.

### Drive

The three `Next` relations interleave over the common collections and bucket;
`DriveCrash` ends the handlers of all of them, `DriveTick` ages the trash and
kills the URLs. Moves, renames, creates and confirms into folders that are being
trashed or purged are all possible. `MaxBusy` bounds the number of handlers at
work at once. The history `late` holds what was last placed (created or moved) in
a folder that was gone, in the trash, or possibly under a running delete; the code
accepts all of these, and `OrphansCameLate` says that nothing else is ever left
active without its folder.

### DriveViews

`view[v]` is a reading handler: one action per query, and the queries of one
`Promise.all` (`pending`) answered in any order. Contents are the folder, then
subfolders, files and the climb of `buildBreadcrumbPath` beside each other, then
the two aggregates; a trash listing the ids of trashed folders, the two root
queries, the aggregates; a batch download, for each folder in turn, the folder,
the walk down, the parents, the files, and at the end the files once more by id.
Aggregates are kept as the set of items counted, a path as the set of folders
whose names it is made of (their order is that of the tree), and names, dates
and sorting are left out.

No snapshot covers these queries (`src/README.md:72` calls the contents view
atomic, which can only mean: one request), so an answer may mix states that never
were together. `steady[v]` holds the items nobody has written since the read
began, and the properties say that the answer is exact about them: `ContentsAreExact`,
`TrashListingIsExact`, `DownloadIsComplete`. Each takes the state at the end of the
read, where steady items are as they were throughout.

`Chain(f)` are the folders from f to the top, `Climb` the same way one step
further, to where a parent that is gone would be. A way up counts as untouched
(`Unmoved`) when all of the climb is: a purge that takes a folder away above f
cuts the trail there, and a read that had already come past it shows the longer
one. Breadcrumbs and downloads are exact about what lies above or below through
such ways.

### RefreshSessions and TokenChain

A refresh token is its session and the second it was signed in: the JWT is
signed deterministically over a payload with whole seconds, so nothing else
tells two tokens of a session apart. `call[c]` is the handler: `Sign` reads the
clock, `Send` computes the new `expiresAt` and the date in the filter, `Swap`
and `Refuse` are the two outcomes of the compare-and-set, `Upsert` is login's.
Dates have milliseconds and the clock has seconds: where a comparison falls
within one second, both outcomes are possible (`MayBeAfter`, `MayBeUpTo`).
`Lose` ends a handler anywhere: failed query, crash, or answer lost on its way.
`EarlyRefresh` says whether a client may refresh in the very second in which its
token was signed; clients refresh when the access token runs out, minutes later.

`TokenChain` knows only the live token of each session and the tokens it ever
had: `Open`, `Rotate`, `Close`. A token is installed only if it is new to its
session, and a session is opened only if it never had one.

### Account

`user` is the document, `task[c]` a handler, `mailed` what the mail server took,
`issued` the history of codes with their expiry. `Resend`, `Verify` and
`SetVault` are the first query of their handler together with the checks on
what it returned (the early returns change nothing and are the steps not
taken); `SaveResend`, `SaveVerify`, `SaveVault` write what the handler assigned,
and again nothing that equals what it had loaded: a resend that draws the code
already there writes the expiry alone. `Setters` are the slots whose requests
may set the vault's verifier.

## 3. Runs

| Run | Instance | Shows |
|---|---|---|
| `folders` | 3 folders, 2 names, 2 requests, 1 may move | `FolderTypeOK`, `UniqueSiblings`, `Acyclic`, `NoLostUpdate` and the refinement `ActsOnATree` hold |
| `folders_answered` | as `folders`, with moves saved and refused | `EveryRequestAnswered` under fairness, if creates are finitely many |
| `folders_cycle` | as `folders`, both may move | violates `Acyclic` |
| `trash` | a folder in a folder, a file in each, 2 deletes, 1 purge, retention 2 of 3 ticks, crashes, outages, failing keys | `TrashTypeOK`, `TrashIsClosed`, `TrashedAreDated`, `NoActiveOrphan`, `NoOrphanObject`, `PurgeSparesTheRest` hold |
| `purge` | 1 folder, 2 files that share an object, deletes and restores, the cron job's purge and a manual one overlapping, retention 2 of 2 ticks | `TrashedAreDated`, `NoOrphanObject`, `PurgeSparesTheRest` with restores, and `EventuallyPurged` although only the cron job is fair |
| `restore_race` | 1 folder, 1 file, restores | violates `ActiveFileHasObject` |
| `drive` | 1 folder and another to come, 2 files to come, 1 key; folder requests, 2 slots for file requests, deletes, a purge, any 2 handlers at once, crashes, retention 1 of 1 tick; see `FilesOrFolders` below | `NoForgottenObject`, `BytesStay`, `OrphansCameLate`, `FileUpdatesAreKept`, and the invariants of the parts together |
| `views` | a folder in a folder, of different names, a file in each; 1 read beside 1 writer at a time (moves of folders to any place, deletes, restores), a limit of 1 file per download | `ContentsAreExact`, `TrashListingIsExact`, `DownloadIsComplete` |
| `sessions` | 2 sessions, 2 callers, tokens live 2 of 3 seconds | `SessionTypeOK`, `OneWinner`, refinement of `TokenChain` |
| `sessions_same_second` | the same, early refreshes allowed | violates `OneWinner` |
| `account` | 2 requests, 2 codes, 2 verifiers, 1 may set the vault, codes live 1 of 3 ticks | all five properties hold |
| `vault_race` | the same, both may set the vault | violates `VaultIsSetOnce` |

Bounds. Two requests are what every race here needs: each one found or excluded
is between one handler's read and its own later write. Three folders give a
move, a target and something below; a cycle needs two. One folder inside another
gives the recursion a frame under a frame, and a purge something to remove in
the wrong order.

`drive` and `views` are large, and each has a constraint in its MC module that
says what it takes up. What a constraint leaves out is in the theorems, which
cover any number of everything.

- `drive`, `FilesOrFolders`: either there are folder requests that create, move
  and refuse, and then one file and one file request at a time (`OneFile`); or
  folders are created and moved no more (`FoldersRest`; deletes, purges and crashes
  go on), and then two file requests may overlap, such as two confirms of one key,
  and there may be two files of it. Two handlers at a time suffice for each part:
  every property there relates the reads of one handler and its later write to
  one other handler, and what earlier ones did stays behind in the collections.
  `NoRenames` leaves out PATCHes with a name, which write nothing in an instance
  of one name. `NoStrangeIds` leaves out confirms into an id that never was a
  folder's: the file is `late` there as it is in a folder that is gone.
- `views`, `SmallDrive`: `MovesOnly` leaves out renames of folders, and `FewTouched`
  bounds what writers touch during one read to two items (one while contents are
  read or two ids are downloaded), which they may touch as often as they like. One
  item that moves is enough to be seen twice or not at all, or to tear a trail of
  names. The writers come one after the other: a read is torn by what is written
  between its queries, not by how the writers overlap. Uploads and moves of single
  files are not among them, since they change what a query finds just as a restore
  and a move of the folder do. With `MaxFiles` 1, a download of both files is
  refused and one of a single file is answered.

The clocks reach the retention, the code's life and the token's life, except in
`views`, where no purge runs and time stands still (one more handler there is
beyond what TLC can enumerate; the theorems of `ViewsProofs` have purges and
crashes beside the reads). They stop at `MaxTime`,
`MaxClock`, `MaxMoment`. Ids are never reused, so an instance in which all are
spent stops creating: in `sessions` and `account` the bounded clock with
everything expired or verified is a proper end and deadlock is not checked; in
all others some request is always possible and it is. Symmetry is over values
that no definition tells apart and is used only in runs without liveness
properties.

Preconditions, each switched on by one constant, the first three broken in a run
of their own:

- `Movers` with one slot: with two, moves close a cycle (`folders_cycle`);
- `EarlyRefresh` FALSE: otherwise a token is rotated into itself
  (`sessions_same_second`);
- `Setters` with one slot: otherwise the verifier is overwritten (`vault_race`);
- `Restores` FALSE in `trash`: `restoreItem` takes any trashed id, so a subfolder
  may be restored below a folder that stays in the trash, and then neither
  `TrashIsClosed` nor `NoActiveOrphan` is promised. `purge` has restores, and
  checks what holds with them, and `views` reads beside them. `drive` has none:
  beside a purge they take the bytes of a file (`restore_race`), and a restored
  item below a folder in the trash is orphaned by design.

`BytesStay` excepts keys that were confirmed twice: `confirmUpload` neither
refuses nor joins a second confirm, so a wrong size in one, or the purge of one
of two documents, takes the bytes of the other. A repeated confirm with the right
size is what a client does that got no answer, and leaves two files for one
upload; no comment or test of the repository promises otherwise.

One assumption about time is built into `Tick`: a delete or restore that has
read its date finishes before that date is past its retention (a day at least).

Fairness. `FolderFairSpec`: weak fairness of each handler's next step, that is,
MongoDB answers and Node runs the continuation. That alone does not make every
walk end: if clients create folders for ever below the last one it has found, it
follows them for ever, since `folders.helpers.ts:53-62` has no bound.
`EveryRequestAnswered` therefore has a premise, that creates stop at some time. An
instance with three ids meets it always; the property says what it rests on. `TrashFairSpec`: strong fairness
of the four steps of a purge by the cron job (`Cron`); nobody promises to call the
manual endpoint. The cron job fires every day for ever; a crash or
an outage may cut any run short, at any step, so weak fairness would say
nothing; among infinitely many runs some get through. No fairness is assumed of
clients, crashes or clocks.

### Findings

1. `folders_cycle`: two concurrent moves make two folders each other's parent
   (`folders/folders.service.ts:121` is checked, `:165` saves several awaits
   later). `src/README.md:67` promises cycle detection.
2. `restore_race`: a file restored while a purge is under way is active and has
   no object (`folders/folders.helpers.ts:135-139`).
3. `sessions_same_second`: two refreshes with one token in the second it was
   signed in are both answered 200, which the plan for rotation excludes.
4. `vault_race`: `setVerifier` checks and saves in two steps and overwrites a
   verifier that another request has just set.

Seen while reading, and not the subject of a run: `?folderId=null`, which the
comment on `files/contents.controller.ts:32` offers for the top of the drive, is
passed on as an id by `:66` and cannot be cast to one; an upload that is never
confirmed stays in the bucket for good.

## 4. Proofs

TLAPS checks all theorems for every value of the constants, from the named
assumptions of the modules: the values that stand for nothing are different from
the values there are (`Home` is no folder id, `NoDoc` no document, place or id,
`Null` no time, `Keep` no place or name, `NoRow` no row, `Nothing` no code),
folder ids are no file ids, bounds and lives are numbers, the retention is not 0,
`Movers` and `Cron` are slots, and the start is as said of `TrashRequests`.
Every invariant, action property and refinement of a passing run is a theorem,
under the preconditions the run has (one slot in `Movers`, `~EarlyRefresh`, one
slot in `Setters`, `~Restores`) and no others; each appears as a hypothesis in
the theorem that needs it.

**FolderProofs.** `FolderTyping`, `SiblingsUnique` and `UpdatesAreNotLost` come
from one inductive invariant: types, siblings, the ids of creates in flight
being fresh and different, and what a request at "save" holds. Sibling names
need nothing of the checks: the index decides at `Insert` and `Save`.
`OneMoverKeepsTree` (at most one slot in `Movers`, then always `Acyclic`) is the
hard one. `Acyclic` is not inductive: a move is decided long before it is saved,
while creates add folders. Acyclicity is stated over sets (every set of folders
has one whose parent is outside), so that no induction over paths is needed. The
strengthening follows the walk: there is always a set of folders (`Shadow`) that
holds the moved one and all the walk has found, is closed under children except
those of folders still queued, and holds the target only if the walk has found
it. A folder created meanwhile under a member joins the set, and it cannot be
the target, which a client must have known before. When the queue is empty the
set is closed and the target outside it, so hanging the folder there makes no
cycle. Only the mover changes parents, so the argument survives the steps of the
others.

`RequestsActOnATree` uses the same invariant: when a `Save` hangs a folder
somewhere, its walk's verdict is still good, so the step is a `Change` of
`FolderTree`; an `Insert` is an `Add`, whose place the index has kept free; the
rest leave the places as they are.

**TrashProofs.** The invariant `TrashInv` has the types, what a handler holds
between its queries (`HandlersInOrder`: a stack with frames exactly while a
recursion runs, dates that fit the status they come with and are younger than the
retention) and that no purge has a cutoff from the future (`PurgesAreAsOf`). From
it:

- `DatesMatchStatus`: one update writes status and date, and what it writes fits,
  so they go together however the writers overlap.
- `NothingPurgedEarly`: what was expired at the cutoff is expired now, since the
  two `deleteMany` ask again for status and date.
- `ObjectsAreKnown` needs `PurgesListed`: the list of a purge has the keys of all
  files past its cutoff, and once the bucket has answered, their objects are gone
  or reported. No step brings a file past an earlier cutoff or its object back
  (`NothingAges`), so what `deleteMany` then removes leaves no object behind. It
  holds with restores.
- `DeleteLeavesNothingActive` and `PurgeOrphansNothing`, without restores, come
  from `Covered`: a folder in the trash holds nothing active, and every
  activation on a stack has in the trash what it should by now: the files of its
  folder, but those its `updateMany` has still to come to; in its loop the
  subfolders too, but those it has still to enter and the one it waits for, which
  is the frame above it. A frame marks its folder and is popped when nothing is
  left of these, and then its parent waits for it no more. A purge takes only
  folders that are marked.

**DriveProofs.** The steps of the drive are those of three sides, the clock, and
a crash. Each proof goes side by side: the lemmas of `FolderProofs` and
`TrashProofs` serve for their own side, and the other sides are summed up by what
they leave. To the folders they only ever do one thing (`OnlyShrinks`): take
documents away or write status and date. The walk's argument survives that, hence
`OneMoverKeepsDriveTree`, and so does the index, hence `DriveSiblingsUnique`.
`DriveFileUpdatesAreKept` compares what each side may write of a file; status and
date are written by the trash alone, and every step of it that writes them was
asked to, for that file or for a folder its recursion is in (`MarksAreAsked`).
`AcceptedObjectsAreKnown` adds to `PurgesListed` that no file is past its
retention while an upload URL to its key lives, and that a confirmed key whose URL
lives has its document (`OpenAreFiled`): otherwise a late PUT could bring back an
object whose document has gone.
`ActiveFilesKeepBytes`, without restores: a key confirmed once has one document
(`OneFilePerKey`), a confirm about to create or discard is alone with its key
(`ConfirmsAreAlone`), and what a purge has listed is in the trash and stays there
(`ListedIsTrash`), so neither takes the bytes of an active file.
`OnlyLateItemsAreOrphans` is `Covered` again, with the exception of `late`:
whatever is placed in a folder is either seen by the activation that has still to
look into it, or `late` by definition.

**ViewsProofs.** The steps of `DriveViews` are those of the drive and reads that
write nothing, so the drive's theorems hold in it. Each kind of read has an invariant that says of its
partial results what the property says of the answer, restricted to steady items:
a query that is back is right about them, because a steady item looks now as it
looked then. For the trail of breadcrumbs it says that the crumbs so far, with
what lies above the folder looked at next, are the chain of the root. For a
download, a walk has met the steady children of every folder it is done with, and
no steady folder whose parent it had not met (`WalkGood`), so none is missing when
it has nothing left to do (`WalkIsComplete`), and the parents read afterwards lead
back to its root (`PathIsRight`). Climbs are sets closed under parent, so again
nothing needs induction. `DownloadHolds` needs `SingleMover`: on a cycle a walk
comes back to its root, and the path found goes round.

**SessionProofs.** With `~EarlyRefresh`: `OneCallerWins` and
`TokensFormAChain`. The invariant orders tokens by their second: a row holds the
newest token its session has had; a refresh in flight holds an older token than
the one it has signed; a caller at "answer" presented a token older than the
row's, so nobody else can swap the same token again; two logins in flight never
share a session. The refinement maps `Upsert` to `Open`, `Swap` to `Rotate`,
`Sweep` to `Close` and everything else to a stutter.

**AccountProofs.** `AccountTyping`, `MailsCarryStoredCodes`, `VerificationLasts`,
`TimelyCodesVerify` from: the code in the document has been issued with its
expiry, a handler at "mail" carries a code that has been issued, one at "verify"
a code that was stored and in time. `OneSetterSetsOnce` adds that whoever is
about to set the verifier found none and none has come since.

Only model-checked: liveness (`EveryRequestAnswered`, `EventuallyPurged`), which
needs ENABLED. That the preconditions are needed is shown by the runs that
expect a violation.

## 5. Not modelled, and the plan

All that was planned is modelled, and what is checked of it is proved, except
liveness. What could follow: weaker preconditions for what still holds with restores
(`BytesStay` for files that were never restored beside a purge, `TrashIsClosed`
below folders that were not restored into); and safety parts of the two liveness
properties, such as that a walk without moves beside it visits no folder twice.

Not modelled, and why:

- Favourites (`favourites/`): a flag set by single atomic updates, which no other
  handler reads or writes. Nothing interleaves with it.
- `listFolders`, `listFiles`, `singleDownload`: one query each, the same as a
  query of `getContents` or the last one of `batchDownload`; `getFolder` is a
  query and the breadcrumbs of `getContents`.
- Rate limits: counters in memory inside `@nestjs/throttler`; the repository
  configures limits and the name of the counter.
- Authentication by access token: stateless, in front of every handler. Users are
  independent as far as every query is filtered by the caller's id; keys of the
  bucket are not (see FileRequests).
- Request validation, wording and status codes of answers, the mail template,
  configuration, bootstrap, health checks: no state, or only that of a start.
- Phone verification (commented out in the code) and `deleteFolderRecursive`
  (called by nothing).

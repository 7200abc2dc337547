# PathOverlay in TLA+

PathOverlay redirects writes under a *source* directory into a *shadow* tree of a
*store*, so that programs see the changed files while the real directory stays as it
is, until the user commits the changes or discards them. A file system minifilter
(`driver/PathOverlayFlt/Driver.c`) intercepts opens, deletes and renames and asks a
Windows service (`service/PathOverlaySvc/main.cpp`), which keeps its rules, change
records and operation records in SQLite (`common/metadata_store.cpp`) and does the
work on files in `common/overlay_operations.cpp`.

This directory models that program. File names and line numbers below are relative
to the repository; `PROJECT.json` maps each definition to its lines.

- [Files](#files)
- [Inventory](#inventory): the parts of the system and what makes them hard
- the models: [OverlayStore](#overlaystore), [OverlayView](#overlayview),
  [OverlayTree](#overlaytree), [OverlayService](#overlayservice),
  [OverlayFilter](#overlayfilter), [RuleSet and OverlayRules](#ruleset-and-overlayrules)
- [Runs](#runs): what is checked, with which bounds, and what was found
- [Proofs](#proofs)
- [Not modelled](#what-is-not-modelled-and-what-is-only-checked) and [plan](#plan)

## Files

| file | what it is |
|---|---|
| `OverlayStore.tla` | one rule: real files, shadow files, change records; driver requests, commit, discard, crash |
| `MCOverlayStore.tla` | its instances for TLC: `store`, `store_processes`, `store_requests`, `checked_commit`, `dropped_write` |
| `OverlayStoreProofs.tla` | theorems about it: types, baselines, backups, failed discards |
| `OverlayViewProofs.tla` | theorems about what processes see while they write and while a commit works |
| `OverlayRefinementProofs.tla` | the proof that it implements `OverlayView` |
| `OverlayView.tla` | what a rule promises: a real directory, a view of it, commit and discard; `OverlayStore` implements it |
| `OverlayTree.tla` | directories below one rule: views, deletes, renames and commits of whole trees |
| `MCOverlayTree.tla` | its instances: `tree` and `tree_rename` |
| `OverlayTreeProofs.tla` | lemmas about paths and trees; no step breaks a tree |
| `OverlayTreeViewProofs.tla` | theorems about what processes see of it: opens, listings, deletes, renames, commits |
| `OverlayService.tla` | the service around it: rules, operation records, the driver's cache, stop, start and recovery |
| `MCOverlayService.tla` | its instance: `service` |
| `OverlayServiceProofs.tla` | theorems about it |
| `OverlayFilter.tla` | the minifilter's callbacks for a rule's files, the port, the rule being pushed, the service going and coming |
| `MCOverlayFilter.tla` | its instances: `filter` and `push_window` |
| `OverlayFilterProofs.tla` | theorems about it |
| `RuleSet.tla` | paths and rules as operators: normalisation, validation, mapping, the driver's matching |
| `OverlayRules.tla` | several rules side by side: commands, requests, commit, discard, the cleanup queue |
| `MCOverlayRules.tla` | its instances: `rules` and `shared_store` |
| `OverlayRulesProofs.tla` | theorems about both |

`tlc -config store.cfg MCOverlayStore` runs an instance; `tlapm OverlayStoreProofs.tla`
checks the proofs.

## Inventory

### The parts

| part | state | operations | talks to |
|---|---|---|---|
| **Overlay operations** `overlay_operations.cpp` 530-895 | shadow files, rows of `changes` | copy-on-write, directory view, query of a renamed target, record delete, record rename | file system, metadata store |
| **Commit and discard** `overlay_operations.cpp` 457-524, 905-1079 | real files, shadow files, `changes`, backups, staged tree | preflight, back up and write record by record, remove shadow, forget records; isolate, forget, roll back, enqueue | file system, metadata store |
| **Cleanup queue** `overlay_operations.cpp` 1081-1168 | rows of `cleanup_queue`, staged trees | process at start | file system, metadata store |
| **Metadata store** `metadata_store.cpp` | `rules`, `changes`, `operations`, `commit_logs`, `cleanup_queue` | one autocommitted statement per call; `RecoverInterruptedOperations` in several | SQLite |
| **Driver message thread** `main.cpp` 410-547, 1578-1635 | none of its own | one request at a time, refused when the rule is disabled | overlay operations, driver port |
| **Pipe thread** `main.cpp` 1717-2150 | operation in hand | rule add, enable, disable, delete; commit, discard; reports | everything above, driver port |
| **Start, stop, recovery** `main.cpp` 1637-1715, 2152-2191 | service state | initialise, recover, connect, synchronise | metadata store, driver port |
| **Driver's rule cache** `Driver.c` 229-290, 2129-2207 | up to 16 rules, the client port | CLEAR, SET, connect, disconnect | service |
| **Driver's callbacks** `Driver.c` 1411-2013 | none between calls | pre-create, pre-set-information, fast query paths | cache, message thread |
| **Rules and paths** `path_overlay_common.cpp` | none | normalise, validate one rule and a set, map to shadow, find reparse points | file system |
| **Occupancy check** `main.cpp` 805-1026 | none | ask the Restart Manager, close processes on request | Windows |
| **Reports** `main.cpp` 1039-1481 | none | status, doctor, dry runs | metadata store, file system |
| **Command line, installation, tests, scripts** | none | one line over the pipe; service control manager | pipe |

### How they interact

A program's open goes through the driver: `PreCreate` asks the service `QueryPath`
(does the path exist in the overlay?), and for write access then `PrepareCopyOnWrite`,
and reparses the open to the shadow file. These are two messages and an open, and
other processes act in between. Deletes and renames arrive later, through the handle.
The message thread serves one request after the other, but the pipe thread runs
beside it: they share the files and the database, without a lock. A commit or discard
disables the rule in the table and clears it from the driver's cache, works, and
enables it again; the driver's cache is replaced as a whole, one message at a time.

### What is hard

- Two threads of the service, several processes and programs outside the overlay act
  on the same files; nothing makes a commit wait for a request already accepted.
- No operation on files and records is atomic, and the service may end between any two
  steps. The only recovery is of rows of `operations` and `cleanup_queue`.
- Records of different paths depend on each other through renames: a record's shadow
  file may be at another record's path.
- A commit applies records one at a time and stops at the first failure, for the user
  to try again.
- A paused rule has to be enabled again whichever of a dozen early returns is taken.

### What makes each part correct

| part | properties |
|---|---|
| Overlay operations | a request changes the view of its own paths only (`RequestEffects`); a record's baseline never moves (`BaselineFrozen`); whoever writes is recorded (`WritersAreRecorded`); all of it is a view of a directory (`ImplementsView`) |
| the same, on directories | a listing, an open and a walk agree (`ListingMatchesOpen`, `OpensMatchWalk`); an operation changes its subtree only (`OperationsAreLocal`); a rename moves all of a tree (`RenameMovesTree`) and what was deleted stays deleted (`RenameKeepsDeletions`, violated) |
| Commit | the view of changed paths stays the same throughout (`CommitKeepsView`, `CommitKeepsTree`); only files that a baseline describes are overwritten (`CommitOnlyOverBaseline`), after they are backed up (`BackupBeforeLoss`); afterwards the real directory is what processes see (`FinishedViewIsReal`); what passes the checks completes (`CheckedCommitCompletes`, violated); no record is forgotten unapplied (`ForgetsOnlyListed`, violated) |
| Discard, cleanup queue | a failure does not part records and shadow (`DiscardAllOrNothing`); a tree moved aside is removed or known (`StagedIsQueued`); a start leaves no row half-done (`StartSettlesQueue`); no source is in a queued tree (`QueueSparesSources`) |
| Operations and recovery | files are applied while the rule is paused (`AppliesWhilePaused`); a paused rule is recoverable and resumed (`PauseIsRecoverable`, `PausedIsResumed`); done means restored (`DoneIsRestored`); an operation ends (`PausedIsServedAgain`) |
| Driver's cache | it has all enabled rules, or none when a push fails (`CacheFollowsRules`) |
| Rules and paths | a path goes to its own rule's shadow and back, however it is spelled (`RedirectsToShadow`); a rule's operation leaves the shadow files of other rules alone (`OthersUntouched`, where stores are apart; `StoreIsOwn`, violated) |
| Driver's callbacks | real files of a rule change only behind the driver's back or where it lets a call through (`RealIsIsolated`), and not while the rule is enabled (`EnabledIsolates`, violated); a redirected writer has its record (`GrantedIsRecorded`); a reader gets the overlay's view (`ReadsAreCurrent`) |

The hazards behind them are in `PROJECT.json`, each at its line.

## OverlayStore

One rule whose source directory holds files `1 .. NumPaths`, numbered in the order of
`ORDER BY real_path`, in which commit applies records. The mapping to shadow paths is
injective, so a shadow file is named by the real path it stands for. A content stands
for data, size and time stamp together, since the baseline compares the latter two.
`NoFile` is no file; `Torn` is a copy that is under way or that an abrupt end left.

| variable | in the code |
|---|---|
| `real`, `shadow` | the source directory and `store\drive` |
| `changes` | rows of `changes`: state, rename target, baseline |
| `app` | per process: has it asked (`queried`), been granted a copy-on-write (`granted`), or a handle (`open`) |
| `drv` | the request in the message thread between two of its steps; `before`, what processes saw when it was accepted, is there for the properties only |
| `pc` | the step of `ProcessRequest` / `Commit` / `Discard` |
| `recs`, `todo`, `backup` | `Commit`'s list of records, those it has not reached, its backup directory |
| `staged` | the tree `Discard` moved aside |

An action is one step between two points where another thread, process or an abrupt
end can make a difference: a copy begins and ends in two actions, the move of a
renamed shadow and its record are two, each record of a commit is backed up, written
and, for renames, removed in steps of its own.

Environment: `Write`, `Close`, `ExternalWrite` and the sharing rule `HeldByOther` are
not the repository's code. `OpenShadow` is the reparsed open: it finds the file,
creates it, or fails.

`Hazards` says which trouble an instance admits. Each has a counterpart in the code
or its environment:

| hazard | meaning |
|---|---|
| `external` | something the filter does not redirect writes or removes real files; without `overlap`, not while the rule is paused |
| `crash` | the service ends abruptly anywhere and starts again |
| `fault` | any file or database operation fails, `remove_all` part of the way |
| `rollback` | the move back in `Discard` fails too; nobody looks at its outcome |
| `overlap` | the pause waits for no accepted request (what the code does); without it, the case in which none is under way |
| `early` | a process deletes or renames through a handle on a real file: one from before the rule was enabled, or one opened with `FILE_OPEN_REPARSE_POINT`, which the driver lets through at any time (`Driver.c` 672-698, 1526-1540) |
| `race` | a file may go away between a granted copy-on-write and the reparsed open |

Fairness: `FairSpec` lets the pipe thread go on with a commit or discard it has begun,
which waits for nobody; nothing is assumed of users, processes and requests.

Simplifications: a directory view, and the copy inside a rename of a path without a
shadow, are one step each (a view that fails part of the way is included); a failed copy
leaves no file; read handles are not modelled, nor does anybody keep a real file open, so
that the exclusive open of real files in the preflight (`overlay_operations.cpp` 476-481)
is not in `Committable`, that of shadow files is; a rename or delete request does not
repeat the query that the driver sends before it, which is a `Query` of its own; `Enqueue`
also happens when there was no tree to stage; a `staged` tree that an operation leaves
behind is forgotten when the operation ends, for nothing in the service looks for it.

## OverlayView

The promise behind `OverlayStore`, without shadow files, records or requests: `real`,
the real directory, `view`, what processes see, and `committing`. A change goes to the
view only, a commit writes the real directory until it is the view and leaves the view
alone, a discard makes the view the real directory at once. A rename leaves nothing at
its old path, or the file that an earlier rename would have brought there: the code does
the latter after a chain of renames (`overlay_operations.cpp` 870-873 and 670-723), and
`OverlayView` says so rather than leaving those paths out.

`OverlayStore!Abstract` is the refinement mapping. A change counts as made when its
record is stored, so `Promised` gives a path its file of before the request while a
delete or rename is between its two steps, and the staged file while a discard has moved
the tree and not yet forgotten the records. A commit is under way from the end of its
checks until the records are deleted. `ImplementsView` is checked for one process
without trouble. It does not hold with two processes (a copy-on-write that was answered
from a stale query replaces the record of a path that was renamed away meanwhile, and
one commit later the two differ), nor under `early` and `crash`, which leave a shadow
file that no record names. So neither it nor `RequestEffects` speaks of a process that
opens with `FILE_OPEN_REPARSE_POINT` and deletes or renames through that handle: the
state that such a request can leave is beyond what `OverlayView` promises.

## OverlayTree

`OverlayStore` has files directly in the source directory. `OverlayTree` has a tree, a
path being a sequence of names, and asks what becomes of the children of a directory
that is deleted, renamed, listed or committed. A user's operation is one step: the create
or set-information callback with the requests it sends. A commit takes a step for each
record.

| variable | in the code |
|---|---|
| `real`, `shadow` | the source directory and `store\drive`: at each path a file, a directory or nothing |
| `changes` | rows of `changes`, with the kind and content of the baseline |
| `pc`, `todo` | whether a commit is under way, and the records it has not applied |

`Answer(p)` is what an open of the full path gives, `View` what a walk from the source
directory finds. `Handles(p)` are the three ways to a handle that deletes or renames:
opened as a directory, as a reparse point, or as neither. They prepare different things
(`CopiesFor`), and the shadow tree of a directory may hold some, all or none of its
entries when the delete or rename comes.

`Hazards` name what `tree` leaves out because the code does not keep the properties there:

| hazard | meaning |
|---|---|
| `again` | what an earlier rename brought is renamed, itself or a part of it: a file moved out of a renamed directory shows at its place again through `PrepareRenamedTargetPath`, and `RenameMovesTree`, `ListingMatchesOpen`, `OpensMatchWalk` and `CommitKeepsTree` fail |
| `gaps` | a directory is renamed out of which something was deleted or moved: it is back at the target (`tree_rename`), so that `RenameMovesTree` fails; and a file that was moved out loses its record with the rename of the directory, so that the next commit drops it and `CommitKeepsTree` fails (`overlay_operations.cpp` 876-886 delete every record below the directory, 1022 the shadow tree) |

An open by its full path below a deleted directory finds the real file, since
`IsTombstoned` looks at the record of the path alone; `OpensMatchWalk` excepts that.
A rename's target has been asked for by the driver (`Driver.c` 1908-1913) before the
service looks at it, so that what an earlier rename brings there is in its way
(`TargetIsFree`).
Left out: changes after a commit that stopped half-way, writes to the real
directory by others, time stamps of directories (whose baselines are their
existence here), and interleavings, which `OverlayStore` and `OverlayFilter` have.

## OverlayService

The tables `rules` and `operations`, the driver's cache and connection, and the control
flow of the pipe thread. `Commit` and `Discard` are one step that succeeds or fails;
what they do is `OverlayStore`'s business.

| variable | in the code |
|---|---|
| `rules`, `ops` | the tables (`ops` in the order of `started_at`) |
| `fit` | what a push makes of a rule: `fit`; `invalid` to `ValidateOverlayRule`, which every push asks again (`main.cpp` 1553-1565); or `unmapped`, without NT paths that fit into the message (1488-1527) |
| `cache`, `connected` | `gRules` of the driver, the service's port |
| `pc`, `push`, `succeeded` | where `ProcessRequest` or the start is, where `PushDriverRules` is, `result.success` |
| `wanted` | the user's last choice per rule; for the properties only |
| `trouble` | the kinds of trouble of this behaviour, chosen once in `Init` |
| `stops` | bound: stops so far |

`trouble` is a set of `crash` (the service ends while it works), `gap` (it does so where
an operation is already marked failed or recovered and the rule is not enabled yet:
`main.cpp` 2063-2071, `metadata_store.cpp` 820-836), `driver` (a message fails),
`database` (a statement fails), `source` (the directories that a rule names come and go,
or become a file or a link: `ChangeSource`, which is the environment's) and `many` (the
rules in `Extra`, beyond the room in the driver, are there too). Where the code ignores
the outcome of a statement, `MarkIfPossible` and `EnableIfPossible` do.

Fairness: `WF_vars(ServiceStep)`. The service's threads run on while it is up, and no
step of theirs waits for a user. Nothing is assumed of users, of `Stop` and of
`Launch`: the service is installed `SERVICE_DEMAND_START` (`main.cpp` 2254), so that it
may stay down for ever, and `PausedIsResumed` speaks of a service that is up.

## OverlayFilter

`PreCreate` and `PreSetInformation`, the port between driver and service, and the two
pieces of state on both sides of it: the rule in the table and the rule in the driver's
cache. A request is served in one step (its steps are in `OverlayStore`), and only its
last statement, the record, may fail by itself.

| variable | in the code |
|---|---|
| `scene` | the paths and the kinds of trouble of this behaviour, chosen once in `Init` |
| `enabled`, `cached`, `port` | `rules.enabled`, the rule in `gRuleCache`, `gClientPort` |
| `push` | `PushDriverRules`: about to clear, about to set, or not under way |
| `real`, `shadow`, `record` | as in `OverlayStore`, without baselines; a path as the record of another one is the target of its rename |
| `call` | a process's callback or handle: the message it waits for, the answer, the side that the handle is on, and its `way`: `raw` with `FILE_OPEN_REPARSE_POINT`, `blind` when the driver had to let it go; `free`, `due` and `seen` are for the properties |
| `serving` | the message that `DriverMessageThread` has, and whether its sender still waits |

A call goes `idle`, `sent`, `served`, `answered`, back to `sent` for its next message,
and ends as a handle (`open`) or not. `FltSendMessage` that times out is answered
`timeout`, which the callbacks take for success, as `STATUS_TIMEOUT` is no error; the
service goes on with the message if it has it, and its reply finds no waiter. A
disconnect answers whoever waits with an error and leaves the cache as it is. Each
callback goes on after a failed query as if the path were normal; after a failed
copy-on-write it fails the open. Whatever the query said of the path, if not that it is
hidden, an open with `FILE_OPEN_REPARSE_POINT` is then passed to the real file, for
writing too and whether there is a link or not (`OpenRaw`; `Driver.c` 672-698,
1526-1540); an open that may create the file and asks for no right to write attributes
is the exception, and an ordinary open for writing here. A call for whose file or shadow
file the driver finds no name or memory is passed as well (`blind`; 1435-1438,
1460-1474, 1549-1563).

Environment: `Pass` and `Directly` are what the file system does with a call that the
filter lets pass; a rename that is passed moves the file to the real path that the
process named, or next to the file the handle is on. `Holds` is Windows file sharing: a
handle keeps other processes from deleting or moving its file. Without `race` so does
an open that is on its way, which is an assumption on the environment and not the code.

Trouble: `stop` (the service stops or ends abruptly, and starts), `late` (timeouts),
`fault` (a request fails, before or at its record), `pause` (the rule is disabled and
enabled), `push` (a command for another rule pushes all of them), `race`, `raw`
(processes open with `FILE_OPEN_REPARSE_POINT`), `blind`.

Simplifications: an open is for reading or for writing, a look asks for attributes by
name (`PreQueryOpen`, `PreNetworkQueryOpen`); a process closes its handle after
a delete or rename, whatever its status; commit and discard are in `OverlayStore`,
directories in `OverlayTree`, which has opens with `FILE_OPEN_REPARSE_POINT` as a way to
a handle that deletes or renames, and not for reading and writing.

## RuleSet and OverlayRules

`RuleSet` has the pure functions of `path_overlay_common.cpp` and of the driver's rule
cache, over paths as sequences of names: `NormalizePath` and the 8.3 names, the
validation of a rule and of a set, `MapRealPathToShadowPath`, and the driver's
`MatchSourcePathPrefix`, `FindSourceRule`, `IsStorePathLocked`, `BuildShadowPath` and
`BuildRealPathFromShadow`. The two sides compute the place of a shadow separately, in
different forms; `RedirectsToShadow` says that they agree.

`OverlayRules` puts them to work: the pipe thread adds, enables, disables and deletes
rules and commits and discards their changes, the message thread serves a
copy-on-write, and a start goes through the cleanup queue.

| variable | in the code |
|---|---|
| `scene` | what this behaviour meets: the rules a user offers, the trouble, how many trees are moved aside |
| `rules`, `changes`, `cleanup` | the tables |
| `dirs`, `disk` | source directories that exist; paths of shadow files |
| `cache` | the driver's cache: source, 8.3 source and store of each enabled rule |
| `op`, `req` | the step of the pipe thread or of the start; the request of the message thread |
| `used`, `staged`, `stops` | ids given out, trees moved aside and abrupt ends so far; the latter two are bounds |
| `orphans` | trees moved aside that no row names, for `StagedIsQueued` |

Trouble: `crash` (the service ends anywhere), `fault` (a statement or file operation
fails, `remove_all` part of the way), `source` (a source directory goes and comes back,
which a push notices). A commit is its end only, the removal of the shadow tree and of the
records; its steps are `OverlayStore`'s. The push is one step, its messages being
`OverlayService`'s. Real files do not occur.

## Runs

| run | instance | distinct states | checks |
|---|---|---|---|
| `store` | 1 process, 2 paths, 2 contents; external, crash, fault, rollback, early | 1.2 million | `TypeOK`, `BaselineFrozen`, `CommitKeepsView`, `CommitOnlyOverBaseline`, `BackupBeforeLoss` |
| `store_processes` | 2 processes, 2 paths, 1 content; crash, fault, early | 590 000 | `WritersAreRecorded`, `DiscardAllOrNothing`, `FinishedViewIsReal`, `CommitKeepsView` |
| `store_requests` | 1 process, 3 paths, 2 contents; no trouble | 340 000 | `RequestEffects`, `ImplementsView`, `PausedIsServedAgain` |
| `service` | 2 rules, and a third one for `many`, room for 2 in the driver, 2 operations, 2 stops; five sets of trouble | 1.9 million | `TypeOK`, `AppliesWhilePaused`, `PauseIsRecoverable`, `CacheFollowsRules`, `DoneIsRestored`, `PausedIsResumed` |
| `filter` | 2 processes; one path, two paths, or a path and a link; nine scenes of paths and trouble | 4.4 million | `TypeOK`, `RealIsIsolated`, `GrantedIsRecorded`, `ReadsAreCurrent` |
| `rules` | 2 rules at a time out of up to 8 offers; five scenes | 430 000 | `TypeOK`, `RedirectsToShadow`, `QueueSparesSources`, `StagedIsQueued`, `OthersUntouched`, `StartSettlesQueue` |
| `tree` | 6 paths in directories two deep, one file with its directories at the start; no trouble | 75 000 | `TypeOK`, `ListingMatchesOpen`, `OpensMatchWalk`, `OperationsAreLocal`, `RenameMovesTree`, `CommitKeepsTree` |

Bounds. Two paths are a rename with its source and target, in both orders of the commit;
three are a chain of renames, needed for `RequestEffects`. Two contents tell a file from
its baseline and from an external replacement; one is enough where `NoFile` and `Torn`
do (the file that is there, and no file). Two processes are what an interleaving needs.
In `service` two rules let one be pushed while another one is paused, and a push be cut
off between them; a third one is beyond the room in the driver, for the other side of
`PATHOVERLAY_MAX_DRIVER_RULES`, and is offered under `many` only;
two operations let one be interrupted beside a finished one; two stops let the service
end during the recovery from an earlier end. `MaxOps` and `MaxStops` are its
counters. In `filter` paths meet only in renames, so that one path does for trouble of
the rule and the service, two for renames that fail or race, and a path beside a link
for what is passed. `raw` opens are beside pauses on one path and beside renames on two,
`blind` ones beside pauses. Its data are a file of before, a written one, or none. `rules`
offers sources next to a rule whose store is shared, nested in another's shadow tree, or
apart, sources inside another source or store, a store inside a source, and the drive
that holds all of them; a source is spelled in long and short names and holds a link.
Two trees moved aside are a second discard before the first one's row is gone through;
two stops are an end during the start that follows an end. `tree` has room for a
directory, a directory in it and a file in that, twice, so that a rename of a tree at
each level has a target, before and after it in the commit's order. The store and the
tree have no counters: their instances are finite and every cycle of commits and
discards is explored. Contents and processes are symmetric in the store's instances,
processes in the filter's; the two instances with a liveness property, `store_requests`
and `service`, use no symmetry. Deadlock is checked in every run.

What the passing runs show:

- `store`: whatever else writes the real directory before the rule is paused, and
  whatever fails or crashes, a baseline never moves, a commit replaces only what its
  baseline describes or what it put there, has the file in its backup first, and never
  changes what is seen at a changed path.
- `store_processes`: with two processes whose requests interleave, every handle for
  writing is under a record; a failed discard keeps records with shadow; after a commit
  or discard the real directory is what is seen.
- `service`: see the table of properties; that the only way to leave a rule disabled for
  good is a failed statement or an end in the two gaps; and that a push which fails
  because rules are too many, no longer valid or without NT paths leaves the driver
  without rules and never with some of them.
- `filter`: a file of a rule that the driver was told of changes only by a process
  whose last lookup came when the rule was not in force, or by one that the driver lets
  through all the same (`raw`, `blind`, a rename through a link), also when queries fail, time
  out or find no service; a write that was redirected has its record; a read or a look
  that was answered gets what the overlay shows, unless it is `raw`.
- `store_requests`: without trouble a rule is what `OverlayView` promises, chains of
  renames included, and a commit or discard ends, also when records block each other.
- `rules`: rules that validation accepts never share a redirected path, the driver and
  the service agree on where a shadow is, in every spelling of a path, one rule's commit,
  discard or cleanup leaves the shadow files of rules with other stores alone, and a tree
  moved aside is removed or stays in the queue through failures and ends of the service.
- `tree`: whatever a directory view, a query or a rename has put into the shadow tree, a
  listing shows what opens find, and deletes, renames and commits act on whole trees.

Limits that the runs have on purpose, each because the code does not keep the property
beyond it: `WritersAreRecorded`, `CommitKeepsView` and `FinishedViewIsReal` fail under
`overlap`; `WritersAreRecorded` fails under `race` (a shadow that an open creates after
another process's rename has no record); `CommitKeepsView` fails with two processes and
external writes together (a shadow without a record is taken over by an external file of
that name); `RequestEffects` fails under `fault`, `crash`, and `early` on three paths.
`PauseIsRecoverable` and `PausedIsResumed` exclude the trouble they name in their text.
`CacheFollowsRules` excludes failed messages and statements, and under `source` it admits
an empty cache: one source directory that is gone, or whose NT path is too long, empties
the cache for all rules, and the opens of all of them reach the real files.
`CommitOnlyOverBaseline` and `BackupBeforeLoss` fail when `overlap` and `external` are
both admitted, for nothing in a commit notices a write between the preflight or the backup
of a file and its replacement. `BaselineFrozen` holds under every hazard.
`GrantedIsRecorded` fails under `late` (the copy-on-write that timed out may never have
been made, and the open creates an empty, unrecorded shadow over the real file) and under
`race`. `ReadsAreCurrent` fails under `race` (a read that races the delete of a changed
file gets the original one) and, with two paths, under `push` (the file that a rename came
from appears in the window and shows through for a moment). `RealIsIsolated` excepts a
rename to or from a path behind a link, and what the driver lets through under an enabled
rule: `raw` opens, by which a process writes the real file of an ordinary path, or reads
the old file past its shadow (`ReadsAreCurrent` excepts these reads), and `blind` calls.
README 256 of the repository (a write does not reach the real file before a commit) does
not hold of them either; `push_window` shows the other way in which it fails.
`ReadsAreCurrent` excepts `blind` scenes as a whole.

Runs that end in a violation, and what they show of the code:

| run | document | what the code does |
|---|---|---|
| `push_window` | README 256: writes do not reach real files of an enabled rule | a command for any rule clears the cache and sets the rules one by one; meanwhile opens of all rules reach the real files |
| `checked_commit` | README 304: the dry run lists what blocks a commit | a rename whose target is written afterwards passes every check and blocks the commit half-way |
| `dropped_write` | Design 226: pause the rule or block new writes | a request accepted before the pause records a change after the list was read, and it is deleted unapplied |
| `shared_store` | README 9: every rule has an id and a store of its own | two rules with one store are accepted, and a commit or discard of one takes the other's shadow files |
| `tree_rename` | MVP plan 84: what is tombstoned does not exist | delete a directory's entry and rename the directory: the entry is at the new name |

Definitions called *variant* in a module are the code with a plausible mistake; no
action uses them. `PROJECT.json` lists which property each of them breaks.

## Proofs

TLC checks the instances above; the theorems hold for all values of the constants under
the assumptions of the modules, and what else a theorem excludes is in its statement.

| module | theorem | statement | excluded |
|---|---|---|---|
| `OverlayStoreProofs` | `TypeCorrect` | `Spec => []TypeOK` | |
| | `BaselineNeverMoves` | `Spec => BaselineFrozen` | |
| | `BackedUpBeforeLoss` | `Spec => BackupBeforeLoss` | `overlap` together with `external` |
| | `OverwritesOnlyBaseline` | `Spec => CommitOnlyOverBaseline` | the same |
| | `FailedDiscardIsWhole` | `Spec => []DiscardAllOrNothing` | `overlap`, `rollback` |
| `OverlayViewProofs` | `FinishedShowsReal` | `Spec => []FinishedViewIsReal` | `overlap` |
| | `WritesAreRecorded` | `Spec => []WritersAreRecorded` | `overlap`, `race` |
| | `CommitsKeepTheView` | `Spec => CommitKeepsView` | `overlap`, `race`, `external` together with `crash` or `fault` |
| `OverlayRefinementProofs` | `StoreImplementsView` | `Spec => ImplementsView` | every hazard, a second process |
| | `RequestsHaveTheirEffects` | `Spec => RequestEffects` | the same |
| `OverlayServiceProofs` | `ServiceTypeCorrect` | `Spec => []TypeOK` | |
| | `ApplyMeansPaused` | `Spec => []AppliesWhilePaused` | |
| | `DoneMeansRestored` | `Spec => DoneIsRestored` | |
| | `CacheFollows` | `Spec => []CacheFollowsRules` | |
| | `PauseRecovers` | `Spec => []PauseIsRecoverable` | |
| `OverlayFilterProofs` | `FilterTypeCorrect` | `Spec => []TypeOK` | |
| | `RealFilesAreIsolated` | `Spec => RealIsIsolated` | |
| | `GrantsAreRecorded` | `Spec => GrantedIsRecorded` | |
| | `ReadsStayCurrent` | `Spec => ReadsAreCurrent` | two paths that are no links together with links, `stop`, `pause`, `push`, `raw` or `blind` |
| `OverlayRulesProofs` | `RulesTypeCorrect` | `Spec => []TypeOK` | |
| | `RedirectsAreRight` | `Spec => []RedirectsToShadow` | 8.3 names below a source |
| | `SourcesAreSpared` | `Spec => []QueueSparesSources` | |
| | `StagedTreesAreQueued` | `Spec => []StagedIsQueued` | |
| | `OthersKeepTheirShadows` | `Spec => OthersUntouched` | |
| | `StartsSettleTheQueue` | `Spec => StartSettlesQueue` | |
| `OverlayTreeProofs` | `TreeInvariance` | `Spec => []TreeInv` | |
| | `TreeTypeCorrect` | `Spec => []TypeOK` | |
| `OverlayTreeViewProofs` | `MergeInvariance` | `Spec => []MergeInv` | `again` |
| | `OpensMatchWalks` | `Spec => []OpensMatchWalk` | `again` |
| | `ListingsMatchOpens` | `Spec => []ListingMatchesOpen` | `again` |
| | `OperationsStayLocal` | `Spec => OperationsAreLocal` | `again` |
| | `RenamesMoveTrees` | `Spec => RenameMovesTree` | `again`, `gaps` |
| | `CommitsKeepTrees` | `Spec => CommitKeepsTree` | `again`, `gaps` |

### Assumptions

- `OverlayStore`: `NumPaths` is a natural number, `NoFile` and `Torn` are two values apart
  from `Contents`, `Hazards` are of the known kinds.
- `OverlayService`: `RulesAssumption`, that the rules are a finite set (they are the rows of
  a table), for the cardinality that is compared with `MaxDriverRules`.
- `OverlayFilter`: `NamesAssumption`, that no path is one of the words that `record` holds
  beside paths, and that no process is called a path. Both keep values of the model apart
  and say nothing of the code.
- `OverlayRules`: paths are sequences of `Names` (a constant, since TLAPS proves of no
  string that it is one), 8.3 names are the other spelling of one name each, and
  `StageNamesAssumption`: the names of trees moved aside differ and occur in no path of a
  user. The code makes such a name from the rule's id, the process id and the tick count
  (`overlay_operations.cpp` 130-137), under a prefix of its own.
- `OverlayTree`: the paths are listed once each and in some order, are sequences of names
  and not the source directory itself, and what is above a path is a path
  (`PathsAssumption`); the real directory starts as a tree (`TreesAssumption`); `NoFile` and
  `Dir` are two values apart from `Contents`. There is no bound on depth or on the number
  of paths.

### Arguments

`OverlayStoreProofs`. `TypeOK` is not inductive: an answer uses the path and the state
that the request left behind. `TypeInv` adds that a request, a process or a record in hand
has its path; `FirstIsLeast` justifies the choice of the next record, from the well-founded
order of the naturals. `BaselineNeverMoves` needs no more: each action that touches
`changes` goes through `Upsert` or removes records. `CommitInv` carries the two theorems on
real files. `ListedUntouched`: a listed record that commit has not reached has its baseline
at its real path, or a torn or renamed file that the same commit put there.
`CurrentBackedUp`: between backup and removal the backup holds the file at hand.
`WritingTorn`: the file being written is torn, hence no loss. `TwoPaths`: a rename's target
is not its source, needed because two records may meet at one real path. With `overlap` and
`external` together a file may be replaced between backup and overwrite. `DiscardInv` says
that while a paused rule is worked on no request is under way and nobody has a file of the
moved tree open, so that the place is free for the move back.

`OverlayViewProofs`. `QuietInv`: while the rule is paused nothing is served, and from the
removal of the shadow tree on it is empty and nobody has a file in it. `HolderInv`: who is
granted or has a shadow file open is at a recorded path that is not hidden, and a path whose
file a delete or rename has just taken has no holder. `ViewInv` has two halves. During a
commit the records are those of the preflight, each with its shadow (`ListedInv`), and those
behind the one in hand have had their effect (`AppliedInv`). Before it, `StaleInv`: a shadow
file at a path that is hidden *and* the target of a rename is there only while a
copy-on-write is about to record the path again, or with a real file in its place, which the
preflight refuses. Without that the commit would apply a rename and then delete its result
by the record of the target. With `external` and `fault` admitted on three paths TLC reaches
such a file with no real file beside it (20 steps), which is why the theorem excludes the
pair, while `store` checks the property under all of them on two paths.

`OverlayRefinementProofs`. The mapping is `Abstract`. `ServedInv` adds to the above what a
request has in hand (`AppInv`, `DrvInv`), that a renamed file shows through at no path whose
real file would hide it (`GapInv`), that a shadow file without a record is a copy of the real
file (`CopyInv`), and that what is promised is what was seen when the request was accepted,
until its record is stored (`BeforeInv`). Each action is then a step of `OverlayView` or a
stutter, one lemma per action (`QueryStep` to `IsolateStep`). TLC has checked `ServedInv` on
three paths with two contents and four with one. One process and no trouble is what the
property needs: with two, TLC finds in 21 steps that a process queries a path, another one
renames it away, and the first one's copy-on-write, answered from before, records the path
again (`overlay_operations.cpp` 530-567) over the record of the rename; the file at the
rename's target is left without a record and the next commit drops it.

`OverlayServiceProofs`. `TypeInv` adds that a request in hand has its operation. `PauseInv`
follows the rule of that operation through the phases: as it was found, paused, enabled
again. `PushInv` says what the cache holds during and after a push; both give the first two
results on operations. `CacheInv` adds what a push leaves behind when every message works:
all enabled rules if it got through, which it does only if they are not too many (`Fits`),
or none if it failed, for which they were too many or the directories of rules come and go
(`Unfit`). `RecoverInv`: a wanted rule that is disabled has an interrupted operation that
remembers it (`Witnesses`), or the running request is about to enable it. The one lemma about
data is that the rows kept by a deletion (`Keeps`) are those of other rules, in order.

`OverlayFilterProofs`. `CallsType` and `ServingType` tie a waiting call to the message
that the service has. `LeaveInv`: the service answers *passthrough* only for a link, and
who can write to a real file opened it by a link, or was not due to be redirected, or was
let through by the driver (`OpenBegins` and `SetInformationBegins` split a call by its
way). `GrantInv`: between the answer to a copy-on-write and the open the path keeps its
record, unless the driver stopped waiting or files may go away. `ReadsStayCurrent` is
about two kinds of scenes, and every scene of `filter` but that of two paths under `raw`
is of one of them. In an enclosed one (`Enclosed`) the overlay cannot be gone around:
there are no links, and the trouble is `late`, `fault` and `race`. `EnclosedInv` has the
driver connected, no two records renamed to one path, and an answered read that is neither
hidden nor without its shadow (`ReadInv`). In a narrow one (`Narrow`) at most one path is
no link, whatever the trouble. A rename needs two (`NarrowServes`, for which `NarrowInv`
keeps calls and requests in the scene), so no record ever names another path, and
`ReadInv` is left with deletes, which an open on its way holds off also while the service
comes and goes. Outside both kinds the property can fail. On three paths, a pause, a push
or a stop (or two failed requests) can leave a renamed file without its shadow and without
a real file at the path it came from, with no record of either loss. A read of it whose
query is answered then may miss a file that arrives at the old path before its open goes
on: a file moved there while the rule is off, or by way of a link. TLC finds such reads
when it starts from there.

`OverlayRulesProofs`. `PrefixPointwise` and its companions reduce prefixes, overlap and
normalisation to names at positions. `SoundInv`: no source of a rule overlaps another source
or any store; a rule is added only then, and it is what keeps `ProcessCleanupQueue` from a
source and two rules from one path. `StageInv`: every tree in the queue or in hand is one that
its rule's discard named. `CacheInv`: what the driver has came from a rule in the table.
`SettleInv`: the rows behind the one in hand are settled. `StagedInv`: each tree on the disk
under a name of a tree moved aside is in hand or in the queue (`KnownInv`), also when a
failed discard moves back a tree in which other trees lie, as with a store below another
store (`BackInv`), because the names to come are new (`FreshInv`) and a row is marked done
when nothing is left of it (`MarkInv`). `RedirectsAreRight` assumes that names below a
source come in their long form (`LongBelowSources`): the driver recognises a source in
either spelling, and keeps what follows it as it is (`BuildShadowPath`), where the service
puts its long form.

`OverlayTreeProofs`. The first half is about paths (what is above and below, a path moved
from under one directory to under another: `AboveCompare`, `UnderAbove`) and about the file
system's operations, each of which gives a tree from a tree when files meet files and
directories meet directories (`RemoveAllTree`, `GraftTree`, from which `CopyMissingTree` and
`CopyOverTree` follow, `DirectoryViewTree`). `TreeInv` says when they do: wherever shadow and
real directory both have something they agree on whether it is a directory (`SameKind`),
which a rename could break but for the target that `RecordRename` finds free, so that nothing
real is at the target of a renamed record while processes work (`TargetsFree`). That a
running commit still finds in the shadow what it has to copy is `ValidateCommitPreconditions`
carried through its steps.

`OverlayTreeViewProofs`. `Merged` is the shadow with the real directory under it, and a path
is `Cut` when it or a directory above it is deleted or moved away. `MergeInv` makes `View`
equal `Merged` where nothing is cut and `NoFile` elsewhere (`ViewShown`), although `Answer`
asks for much more: what hides a path, and what an earlier rename should have brought. It
takes five facts. What a rename brings is in the shadow until it is deleted
(`BroughtIsThere`), so that `PrepareRenamedTargetPath` finds nothing to do; the directories
above a target are there (`TargetsReached`); the shadow has nothing where a record takes
something away (`GoneHasNothing`), and the directories above that are seen or deleted
(`GoneHasParents`); what is recorded as created is not real (`CreatedIsNew`). Requests only
fill the shadow from the real directory where nothing is cut, and empty it below what is
deleted (`Filled`), which changes no view (`FillStep`). `Moves` says what a rename does to
all of this. `again` breaks `BroughtIsThere`, and with it every theorem that excludes it but
`OperationsStayLocal`, for which only the proof needs it. `CommitInv` adds that everything in
the shadow is real or below the shadow of some record (`ShadowIsRecorded`, which `gaps`
breaks), that what applied records take away is not real (`AppliedIsGone`), and that what they
copy is (`AppliedIsCopied`). With nothing left to apply, the three give `View = real`
(`AllApplied`), which is what the end of the commit leaves (`FinishCommitMerge`).

## What is not modelled, and what is only checked

Only checked by TLC: `PausedIsResumed` and `PausedIsServedAgain`, which are liveness; what
the theorems exclude and a run admits: `CommitKeepsView` under `external` together with
`crash` and `fault`, and `ReadsAreCurrent` on two paths under `raw`. The hazards `overlap`
and `race` of `OverlayStore` enter no passing run, nor do `again` and `gaps` of
`OverlayTree`: what is claimed under them is proved. The five runs that end in a violation
are counterexamples of TLC's.

Not modelled, and why: case, slashes, UNC paths and lengths of paths (string handling,
without state); the bits of access masks and hard links; a request that does not fit its
message; closing occupying processes (`--confirm-close`), a matter between Windows and
the user; status, doctor, dry runs and driver-status, which only read, the dry run what
`Preflight` checks; the command line client; installation; loading of SQLite, its schema
and migrations; `commit_logs` and the columns that are only shown. `PROJECT.json` gives
the reason for each component. A liveness property of the filter (a callback returns) is
not stated: `FltSendMessage` has a timeout, by which it holds of any service.

## Plan

What the code has is modelled, but for what the previous section names, and of the five
modules with states every safety and action property that a run finds to hold is proved,
under the exclusions of the table above. What is left is to narrow those:

1. `CommitKeepsView` with external writes beside failures, on two paths or under a condition
   on three, which needs a finer account of shadow files that lost their records.
2. `OperationsAreLocal` with `again`, from an invariant that does without `BroughtIsThere`.
3. `ImplementsView` with failed requests, for which `OverlayView` would have to say what a
   request that failed half-way may leave.
4. `ReadsStayCurrent` on two paths under `raw`, where the path that a rename came from can
   be written beneath it.

---------------------------- MODULE OverlayRules ----------------------------
(***************************************************************************)
(* Several rules side by side: which rules are accepted and pushed, which   *)
(* rule the driver finds for a path, whose shadow files a commit or discard *)
(* takes away, and the queue that a discard leaves its shadow tree to.      *)
(*                                                                          *)
(* The disk is the set of the paths of shadow files.  What is in them, the  *)
(* real files and how one rule's commit goes on are in OverlayStore.  The   *)
(* push is one step here, with the driver connected: its messages and their *)
(* failures are in OverlayService, what opens meet meanwhile in             *)
(* OverlayFilter.                                                           *)
(***************************************************************************)
EXTENDS RuleSet

CONSTANTS
    Names,           \* the names of files and directories
    Scenes,          \* what happens together: offers and trouble
    Opened,          \* paths that processes open for writing
    Removable,       \* sources that something else may take away
    StageNames,      \* the names of trees moved aside
    MaxDriverRules,  \* PATHOVERLAY_MAX_DRIVER_RULES
    MaxStops         \* bound: abrupt ends of the service

\* offers:  what rule add is given: an id, a source, and a store or <<>>
\* trouble: crash, the service ends abruptly; fault, statements on metadata.db and
\*          file operations fail; source, a source directory goes and comes back
\* trees:   bound: how many trees are moved aside
ASSUME ScenesAssumption ==
    \A s \in Scenes :
        s.trouble \subseteq {"crash", "fault", "source"} /\ s.trees \in 0..Len(StageNames)
ASSUME BoundsAssumption == MaxDriverRules \in Nat /\ MaxStops \in Nat

\* A path is a sequence of names.
Path == Seq(Names)
ASSUME PathsAssumption ==
    /\ "drive" \in Names
    /\ DOMAIN ShortNames \subseteq Names /\ Range(ShortNames) \subseteq Names
    /\ BoxesRoot \in Path /\ Opened \subseteq Path /\ StageNames \in Path
    /\ \A s \in Scenes : s.offers \subseteq [id : Names, source : Path, store : Path]

\* A tree moved aside has a name of its own, made from the rule, the process and
\* the time (overlay_operations.cpp:130-137), that nothing else has.
IsStageName(name) == LongName(name) \in ToSet(StageNames)
HasStageName(path) == \E i \in DOMAIN path : IsStageName(path[i])
ASSUME StageNamesAssumption ==
    /\ IsInjective(StageNames)
    /\ "drive" \notin ToSet(StageNames)
    /\ \A path \in Opened \union {BoxesRoot} : ~HasStageName(path)
    /\ \A s \in Scenes : \A offer \in s.offers :
          ~HasStageName(offer.store) /\ ~IsStageName(offer.id)

VARIABLES
    scene,    \* what this behaviour meets
    rules,    \* the table rules
    changes,  \* the table changes: rule and real path
    cleanup,  \* the table cleanup_queue, in the order of created_at
    dirs,     \* the source directories that exist
    disk,     \* the shadow files
    cache,    \* the driver's cache
    op,       \* what the pipe thread does, or the start of the service
    req,      \* the driver's request that is being served
    used,     \* the ids that were generated
    staged,   \* how many trees were moved aside
    stops,    \* how often the service ended
    orphans   \* trees moved aside that no row names, for the properties

vars == <<scene, rules, changes, cleanup, dirs, disk, cache, op, req, used, staged, stops,
          orphans>>
tables == <<rules, changes, cleanup, used>>
environment == <<scene, dirs, stops>>
queueing == <<staged, orphans>>

Faulty == "fault" \in scene.trouble
SourcesOf(offers) == {NormalizePath(offer.source) : offer \in offers}

\* `was' is whether the rule has to be enabled again, `tree' the tree moved
\* aside, `next' the row of the queue that the start is at, and `lost' whether
\* it could not write a status, for the properties.
Idle == [pc |-> "idle", id |-> "none", action |-> "none", was |-> FALSE,
         tree |-> <<>>, next |-> 0, lost |-> FALSE]
NoRule == [id |-> "none", enabled |-> FALSE, source |-> <<>>, store |-> <<>>]
NoRequest == [pc |-> "idle", rule |-> NoRule, path |-> <<>>]

\* A set with the rule, or none.
Rule(id) == {r \in rules : r.id = id}
Without(id) == {r \in rules : r.id # id}
WithEnabled(rule, enabled) == Without(rule.id) \union {[rule EXCEPT !.enabled = enabled]}

ChangesOf(id) == {c \in changes : c.id = id}
ShadowOf(rule, change) == MapRealPathToShadowPath(rule, change.path)

Tree(root) == {f \in disk : IsPrefix(root, f)}

\* rename of a directory.
Moved(from, to) ==
    (disk \ Tree(from)) \union
    {to \o SubSeq(f, Len(from) + 1, Len(f)) : f \in Tree(from)}

(***************************************************************************)
(* PushDriverRules: all enabled rules or, if one is not valid any more or   *)
(* there are too many, none.                                                *)
(***************************************************************************)
Pushed(table) ==
    LET enabled == {r \in table : r.enabled}
    IN  IF /\ Cardinality(enabled) <= MaxDriverRules
           /\ \A r \in enabled : ValidateOverlayRuleSet(enabled, r, dirs)
        THEN {CacheEntry(r) : r \in enabled}
        ELSE {}

SetRules(table) == rules' = table /\ cache' = Pushed(table)

-----------------------------------------------------------------------------
Init ==
    /\ scene \in Scenes
    /\ rules = {} /\ changes = {} /\ cleanup = <<>>
    /\ dirs = SourcesOf(scene.offers)
    /\ disk = {}
    /\ cache = {}
    /\ op = Idle
    /\ req = NoRequest
    /\ used = {} /\ staged = 0 /\ stops = 0
    /\ orphans = {}

(***************************************************************************)
(* rule add, rule enable, rule disable, rule delete.                        *)
(***************************************************************************)
NewRule(offer) ==
    [id |-> offer.id, enabled |-> TRUE, source |-> NormalizePath(offer.source),
     store |-> IF offer.store = <<>> THEN DefaultStoreRootForRule(offer.id)
               ELSE NormalizePath(offer.store)]

AddRule(offer) ==
    /\ op.pc = "idle"
    /\ offer.id \notin used
    /\ ValidateOverlayRuleSet(rules, NewRule(offer), dirs)
    /\ SetRules(rules \union {NewRule(offer)})
    /\ used' = used \union {offer.id}
    /\ UNCHANGED <<changes, cleanup, environment, disk, op, req, queueing>>

SetRuleEnabled(rule, enabled) ==
    /\ op.pc = "idle"
    /\ SetRules(WithEnabled(rule, enabled))
    /\ UNCHANGED <<changes, cleanup, environment, disk, op, req, used, queueing>>

\* The changes are counted ...
CheckDelete(rule) ==
    /\ op.pc = "idle"
    /\ ChangesOf(rule.id) = {}
    /\ op' = [Idle EXCEPT !.pc = "delete", !.id = rule.id]
    /\ UNCHANGED <<tables, environment, disk, cache, req, queueing>>

\* Such a sequence lists the rows of the queue that stay without the rule, in order.
Keeps(rows, id) ==
    /\ \A i, j \in DOMAIN rows : i < j => rows[i] < rows[j]
    /\ ToSet(rows) = {i \in DOMAIN cleanup : cleanup[i].id # id}

\* ... and then the row is deleted, with every row that refers to it.
DeleteRule ==
    /\ op.pc = "delete"
    /\ SetRules(Without(op.id))
    /\ changes' = changes \ ChangesOf(op.id)
    /\ \E n \in 0 .. Len(cleanup) : \E rows \in [1 .. n -> DOMAIN cleanup] :
          Keeps(rows, op.id) /\ cleanup' = [i \in 1 .. n |-> cleanup[rows[i]]]
    /\ orphans' = orphans \union
           {row.path : row \in {r \in ToSet(cleanup) : r.id = op.id}}
    /\ op' = Idle
    /\ UNCHANGED <<environment, disk, req, used, staged>>

FailDelete ==
    /\ Faulty
    /\ op.pc = "delete"
    /\ op' = Idle
    /\ UNCHANGED <<tables, environment, disk, cache, req, queueing>>

(***************************************************************************)
(* A driver request that ends in a copy-on-write, for a path the driver     *)
(* finds a rule for.  The service keeps the rule as it reads it first.      *)
(***************************************************************************)
Running == op.pc \notin {"down", "cleanup", "remove", "mark"}

Request(path) ==
    /\ Running
    /\ req.pc = "idle"
    /\ \E entry \in cache, rule \in rules :
          /\ FindSourceRuleForPath(cache, path, entry)
          /\ rule.id = entry.id
          /\ rule.enabled
          /\ ~PassesThrough(rule, path)
          /\ req' = [pc |-> "copy", rule |-> rule, path |-> NormalizePath(path)]
    /\ UNCHANGED <<tables, environment, disk, cache, op, queueing>>

Copy ==
    /\ req.pc = "copy"
    /\ ValidateRealPathInRule(req.rule, req.path, dirs)
    /\ disk' = disk \union {ShadowOf(req.rule, req)}
    /\ req' = [req EXCEPT !.pc = "record"]
    /\ UNCHANGED <<tables, environment, cache, op, queueing>>

\* The source is gone, or the rule.
CannotGoOn ==
    IF req.pc = "copy" THEN ~ValidateRealPathInRule(req.rule, req.path, dirs)
    ELSE Rule(req.rule.id) = {}

FailRequest ==
    /\ req.pc # "idle"
    /\ Faulty \/ CannotGoOn
    /\ req' = NoRequest
    /\ UNCHANGED <<tables, environment, disk, cache, op, queueing>>

\* Variant: foreign keys are not enforced.
RecordAnyway ==
    /\ req.pc = "record"
    /\ changes' = changes \union {[id |-> req.rule.id, path |-> req.path]}
    /\ req' = NoRequest
    /\ UNCHANGED <<rules, cleanup, used, environment, disk, cache, op, queueing>>

\* The insert fails when the rule is gone.
Record ==
    /\ req.pc = "record"
    /\ Rule(req.rule.id) # {}
    /\ changes' = changes \union {[id |-> req.rule.id, path |-> req.path]}
    /\ req' = NoRequest
    /\ UNCHANGED <<rules, cleanup, used, environment, disk, cache, op, queueing>>

(***************************************************************************)
(* commit and discard.  The rule is paused first if it is enabled, and      *)
(* enabled again at the end, whatever became of the files.                  *)
(***************************************************************************)
Begin(rule, action) ==
    /\ op.pc = "idle"
    /\ op' = [Idle EXCEPT !.pc = "apply", !.id = rule.id, !.action = action, !.was = rule.enabled]
    /\ IF rule.enabled THEN SetRules(WithEnabled(rule, FALSE)) ELSE UNCHANGED <<rules, cache>>
    /\ UNCHANGED <<changes, cleanup, used, environment, disk, req, queueing>>

Resume ==
    /\ op.pc = "resume"
    /\ IF op.was
       THEN \E rule \in Rule(op.id) : SetRules(WithEnabled(rule, TRUE))
       ELSE UNCHANGED <<rules, cache>>
    /\ op' = Idle
    /\ UNCHANGED <<changes, cleanup, used, environment, disk, req, queueing>>

\* A check that fails, or a file operation: nothing is deleted.
FailApply ==
    /\ op.pc = "apply"
    /\ op' = [op EXCEPT !.pc = "resume"]
    /\ UNCHANGED <<tables, environment, disk, cache, req, queueing>>

\* The end of Commit: the real files are written, the shadow tree goes.
RemoveShadow ==
    /\ op.pc = "apply" /\ op.action = "commit"
    /\ \E rule \in Rule(op.id) :
          /\ \A c \in ChangesOf(rule.id) : ShadowOf(rule, c) \in disk
          /\ disk' = disk \ Tree(DriveRoot(rule))
    /\ op' = [op EXCEPT !.pc = "forget"]
    /\ UNCHANGED <<tables, environment, cache, req, queueing>>

DiscardCleanupRoot(rule, n) == Append(NormalizePath(rule.store), StageNames[n])

\* Variant: the tree is not moved before it is queued.
IsolateInPlace ==
    /\ op.pc = "apply" /\ op.action = "discard"
    /\ staged < scene.trees
    /\ \E rule \in Rule(op.id) :
          op' = [op EXCEPT !.pc = "forget", !.tree = DriveRoot(rule)]
    /\ staged' = staged + 1
    /\ UNCHANGED <<tables, environment, disk, cache, req, orphans>>

\* The beginning of Discard: the shadow tree, if there is one, is moved aside.
Isolate ==
    /\ op.pc = "apply" /\ op.action = "discard"
    /\ \E rule \in Rule(op.id) :
          IF Tree(DriveRoot(rule)) = {}
          THEN /\ op' = [op EXCEPT !.pc = "forget"]
               /\ UNCHANGED <<disk, staged>>
          ELSE /\ staged < scene.trees
               /\ disk' = Moved(DriveRoot(rule), DiscardCleanupRoot(rule, staged + 1))
               /\ staged' = staged + 1
               /\ op' = [op EXCEPT !.pc = "forget",
                                   !.tree = DiscardCleanupRoot(rule, staged + 1)]
    /\ UNCHANGED <<tables, environment, cache, req, orphans>>

\* DeleteChangesForRule.
Forget ==
    /\ op.pc = "forget"
    /\ changes' = changes \ ChangesOf(op.id)
    /\ op' = [op EXCEPT !.pc = IF op.tree = <<>> THEN "resume" ELSE "enqueue"]
    /\ UNCHANGED <<rules, cleanup, used, environment, disk, cache, req, queueing>>

\* A discard moves its tree back, unless a request has begun a new one.
FailForget ==
    /\ Faulty
    /\ op.pc = "forget"
    /\ op' = [op EXCEPT !.pc = "resume", !.tree = <<>>]
    /\ \E rule \in Rule(op.id) :
          IF op.tree # <<>> /\ Tree(DriveRoot(rule)) = {}
          THEN disk' = Moved(op.tree, DriveRoot(rule)) /\ UNCHANGED orphans
          ELSE orphans' = orphans \union ({op.tree} \ {<<>>}) /\ UNCHANGED disk
    /\ UNCHANGED <<tables, environment, cache, req, staged>>

Enqueue ==
    /\ op.pc = "enqueue"
    /\ cleanup' = Append(cleanup, [id |-> op.id, path |-> op.tree, status |-> "pending"])
    /\ op' = [op EXCEPT !.pc = "resume", !.tree = <<>>]
    /\ UNCHANGED <<rules, changes, used, environment, disk, cache, req, queueing>>

FailEnqueue ==
    /\ Faulty
    /\ op.pc = "enqueue"
    /\ orphans' = orphans \union {op.tree}
    /\ op' = [op EXCEPT !.pc = "resume", !.tree = <<>>]
    /\ UNCHANGED <<tables, environment, disk, cache, req, staged>>

(***************************************************************************)
(* The service ends, and starts: an interrupted operation's rule is enabled *)
(* again, the queue is gone through once, and the rules are pushed.  The    *)
(* driver keeps its cache in between.                                       *)
(***************************************************************************)
Crash ==
    /\ "crash" \in scene.trouble
    /\ op.pc # "down"
    /\ stops < MaxStops
    /\ stops' = stops + 1
    /\ op' = [op EXCEPT !.pc = "down"]
    /\ req' = NoRequest
    /\ orphans' = orphans \union ({op.tree} \ {<<>>})
    /\ UNCHANGED <<tables, scene, dirs, disk, cache, staged>>

Start ==
    /\ op.pc = "down"
    /\ IF op.was
       THEN \E rule \in Rule(op.id) : rules' = WithEnabled(rule, TRUE)
       ELSE UNCHANGED rules
    /\ op' = [Idle EXCEPT !.pc = "cleanup", !.next = 1]
    /\ UNCHANGED <<changes, cleanup, used, environment, disk, cache, req, queueing>>

Row == cleanup[op.next]
WithStatus(status) == [cleanup EXCEPT ![op.next].status = status]
NextRow == [op EXCEPT !.pc = "cleanup", !.next = @ + 1]

\* Variant: only rows that no start has begun with.
WaitsOnly(row) == row.status = "pending"

Waits(row) == row.status \in {"pending", "running"}

SkipRow ==
    /\ op.pc = "cleanup"
    /\ op.next <= Len(cleanup)
    /\ ~Waits(Row)
    /\ op' = NextRow
    /\ UNCHANGED <<tables, environment, disk, cache, req, queueing>>

\* UpdateCleanupRecord with failed, whose own failure is not looked at.
SetFailed ==
    \/ cleanup' = WithStatus("failed") /\ op' = NextRow
    \/ Faulty /\ UNCHANGED cleanup /\ op' = [NextRow EXCEPT !.lost = TRUE]

Allowed(row) ==
    \E rule \in Rule(row.id) : IsStrictPrefix(NormalizePath(rule.store), row.path)

\* The rule is not found, also because the table cannot be read, or the path is
\* not below its store.
RefuseRow ==
    /\ op.pc = "cleanup"
    /\ op.next <= Len(cleanup)
    /\ Waits(Row)
    /\ Faulty \/ ~Allowed(Row)
    /\ SetFailed
    /\ UNCHANGED <<rules, changes, used, environment, disk, cache, req, queueing>>

BeginRow ==
    /\ op.pc = "cleanup"
    /\ op.next <= Len(cleanup)
    /\ Waits(Row)
    /\ Allowed(Row)
    /\ cleanup' = WithStatus("running")
    /\ op' = [op EXCEPT !.pc = "remove"]
    /\ UNCHANGED <<rules, changes, used, environment, disk, cache, req, queueing>>

\* Variant: errors of remove_all are not looked at.
RemoveSome ==
    /\ op.pc = "remove"
    /\ \E some \in SUBSET Tree(Row.path) : disk' = disk \ some
    /\ op' = [op EXCEPT !.pc = "mark"]
    /\ UNCHANGED <<tables, environment, cache, req, queueing>>

\* remove_all, also of a tree that is gone already.
RemoveTree ==
    /\ op.pc = "remove"
    /\ disk' = disk \ Tree(Row.path)
    /\ op' = [op EXCEPT !.pc = "mark"]
    /\ UNCHANGED <<tables, environment, cache, req, queueing>>

FailRemoveTree ==
    /\ Faulty
    /\ op.pc = "remove"
    /\ \E left \in SUBSET Tree(Row.path) \ {{}} : disk' = (disk \ Tree(Row.path)) \union left
    /\ SetFailed
    /\ UNCHANGED <<rules, changes, used, environment, cache, req, queueing>>

MarkDone ==
    /\ op.pc = "mark"
    /\ cleanup' = WithStatus("done")
    /\ op' = NextRow
    /\ UNCHANGED <<rules, changes, used, environment, disk, cache, req, queueing>>

\* The end of the queue, or a status that cannot be written.
FinishStart ==
    /\ \/ op.pc = "cleanup" /\ op.next > Len(cleanup)
       \/ Faulty /\ op.pc \in {"cleanup", "mark"}
    /\ SetRules(rules)
    /\ op' = Idle
    /\ UNCHANGED <<changes, cleanup, used, environment, disk, req, queueing>>

\* A source goes, say with its volume, or comes back.
ToggleSource(source) ==
    /\ "source" \in scene.trouble
    /\ dirs' = IF source \in dirs THEN dirs \ {source} ELSE dirs \union {source}
    /\ UNCHANGED <<tables, scene, disk, cache, op, req, stops, queueing>>

\* Bound: every id was used and every rule deleted.  The program goes on from here
\* with another id.
UsedUp ==
    /\ used = {offer.id : offer \in scene.offers}
    /\ rules = {} /\ op.pc = "idle" /\ req.pc = "idle"
    /\ UNCHANGED vars

-----------------------------------------------------------------------------
RuleCommand ==
    \/ \E offer \in scene.offers : AddRule(offer)
    \/ \E rule \in rules, enabled \in BOOLEAN : SetRuleEnabled(rule, enabled)
    \/ \E rule \in rules : CheckDelete(rule)
    \/ DeleteRule \/ FailDelete
DriverRequest == (\E path \in Opened : Request(path)) \/ Copy \/ FailRequest \/ Record
Operation ==
    \/ \E rule \in rules, action \in {"commit", "discard"} : Begin(rule, action)
    \/ FailApply \/ RemoveShadow \/ Isolate \/ Forget \/ FailForget
    \/ Enqueue \/ FailEnqueue \/ Resume
ProcessCleanupQueue ==
    \/ SkipRow \/ RefuseRow \/ BeginRow \/ RemoveTree \/ FailRemoveTree
    \/ MarkDone \/ FinishStart

Next ==
    \/ RuleCommand \/ DriverRequest \/ Operation
    \/ Crash \/ Start \/ ProcessCleanupQueue
    \/ \E source \in Removable : ToggleSource(source)
    \/ UsedUp

Spec == Init /\ [][Next]_vars

-----------------------------------------------------------------------------
Table == [id : {offer.id : offer \in scene.offers}, enabled : BOOLEAN,
          source : SourcesOf(scene.offers),
          store : {NewRule(offer).store : offer \in scene.offers}]

\* Every variable holds values of its kind, no two rules share an id, and rows of
\* changes and of the cleanup queue name a rule that exists, as the foreign keys
\* of the two tables promise, also when a request races the deletion of its rule.
TypeOK ==
    /\ rules \subseteq Table
    /\ \A r, q \in rules : r.id = q.id => r = q
    /\ \A c \in changes : Rule(c.id) # {} /\ c.path \in {NormalizePath(p) : p \in Opened}
    /\ \A row \in ToSet(cleanup) :
          Rule(row.id) # {} /\ row.status \in {"pending", "running", "done", "failed"}
    /\ dirs \subseteq SourcesOf(scene.offers) \union Removable
    /\ op.pc \in {"idle", "delete", "apply", "forget", "enqueue", "resume",
                  "down", "cleanup", "remove", "mark"}
    /\ req.pc \in {"idle", "copy", "record"} /\ req.rule \in Table \union {NoRule}
    /\ staged <= scene.trees /\ stops <= MaxStops

StoresApart(r, q) ==
    r.id = q.id \/ ~Overlap(NormalizePath(r.store), NormalizePath(q.store))

\* A path below a cached source, however its names are spelled, is redirected by
\* that rule and no other, and to the place where the service keeps its shadow.
\* Where the stores are apart, the driver finds the way back from the shadow to
\* the rule and to the real path, which deletes and renames of open shadow files
\* depend on (Driver.c:1803, 1860, 1972).
RedirectsToShadow ==
    \A entry \in cache, path \in Opened :
        SameOrChildPath(entry.source, NormalizePath(path)) =>
            LET shadow == BuildShadowPath(entry, path)
            IN  /\ FindSourceRuleForPath(cache, path, entry)
                /\ \E rule \in Rule(entry.id) : shadow = MapRealPathToShadowPath(rule, path)
                /\ BuildRealPathFromShadow(entry, shadow) = NormalizePath(path)
                /\ (\A r, q \in rules : StoresApart(r, q)) =>
                      FindSourceOrStoreRuleForPath(cache, shadow, entry)

\* The shadow file of a recorded change disappears only in a commit or discard of
\* its own rule, or of one whose store overlaps; never when the start cleans up.
OthersUntouched ==
    [][\A rule \in rules : \A c \in ChangesOf(rule.id) :
          ShadowOf(rule, c) \in disk /\ ShadowOf(rule, c) \notin disk' =>
              \E q \in Rule(op.id) : q = rule \/ ~StoresApart(q, rule)]_vars

\* src/README.md:9 gives every rule an id and a store of its own, to be committed
\* and discarded by that id.  No other rule's operation takes a change's shadow.
\* Stores are not compared (path_overlay_common.cpp:244-256), so it does.
StoreIsOwn ==
    [][\A rule \in rules : \A c \in ChangesOf(rule.id) :
          ShadowOf(rule, c) \in disk /\ ShadowOf(rule, c) \notin disk' => op.id = rule.id]_vars

\* The cleanup of a row stays clear of every source (Stabilization_and_Recovery_Plan.md,
\* "cleanup queue"): no rule's source is in a queued tree, or a queued tree in it.
QueueSparesSources ==
    \A row \in ToSet(cleanup), rule \in rules : ~Overlap(row.path, rule.source)

\* The tree moved aside that a file is in, the outermost if its rule's store lies
\* in the shadow tree of another.
StagedTree(f, root) ==
    \E i \in DOMAIN f :
        /\ root = SubSeq(f, 1, i)
        /\ f[i] \in ToSet(StageNames)
        /\ \A j \in 1..(i - 1) : f[j] \notin ToSet(StageNames)

\* A tree moved aside is removed in the end or known to the queue as not removed,
\* whatever fails or ends in between.  Excepted are the trees whose row was never
\* written or went with its rule.
StagedIsQueued ==
    \A f \in disk : \A root \in Prefixes(f) : StagedTree(f, root) =>
        \/ root \in orphans \/ root = op.tree
        \/ \E row \in ToSet(cleanup) : row.path = root /\ row.status # "done"

\* A start that gets through the queue leaves no row behind as pending or
\* running, the ones that an earlier start was interrupted at included.
StartSettlesQueue ==
    [][op.pc = "cleanup" /\ op.next > Len(cleanup) /\ op'.pc = "idle" /\ ~op.lost =>
          \A row \in ToSet(cleanup') : row.status \in {"done", "failed"}]_vars
=============================================================================

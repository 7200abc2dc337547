----------------------------- MODULE OverlayTree -----------------------------
(***************************************************************************)
(* Directories under one rule.  A path is a sequence of names; the real     *)
(* directory and the shadow tree give every path a file, a directory or     *)
(* nothing.  A user operation is whole here: the create or set-information  *)
(* callback, the requests it sends and what the service does for them, as   *)
(* OverlayStore and OverlayFilter look at what comes in between.  A commit  *)
(* takes one step for each record.                                          *)
(***************************************************************************)
EXTENDS Naturals, SequencesExt

CONSTANTS
    Order,     \* the paths, in the order of ORDER BY real_path
    Trees,     \* the real directories to start with
    Contents,  \* what a file can hold
    NoFile,    \* nothing is at the path
    Dir,       \* a directory is at the path
    Hazards    \* the kinds of trouble this instance admits

\* again: what an earlier rename brought is renamed, itself or a part of it
\* gaps:  a directory is renamed out of which something was deleted or moved
HazardKinds == {"again", "gaps"}

Paths == ToSet(Order)
Names == UNION {ToSet(p) : p \in Paths}
Nodes == Contents \union {NoFile, Dir}
Root == <<>>

ASSUME PathsAssumption ==
    /\ Order \in Seq(Paths) /\ IsInjective(Order)
    /\ Paths \subseteq Seq(Names)
    /\ \A p \in Paths : p # Root /\ \A i \in 1 .. Len(p) : SubSeq(p, 1, i) \in Paths
ASSUME NodesAssumption == NoFile # Dir /\ NoFile \notin Contents /\ Dir \notin Contents
ASSUME HazardsAssumption == Hazards \subseteq HazardKinds

VARIABLES
    real,     \* the real directory
    shadow,   \* the tree under store\drive
    changes,  \* the rule's rows of the table changes
    todo,     \* the records that the running commit has not applied
    pc        \* where the commit is

vars == <<real, shadow, changes, todo, pc>>

NoRecord == [state |-> "none", target |-> Root, orig |-> NoFile]
States == {"none", "created", "modified", "tombstone", "renamed"}
Records == [state : States, target : Paths \union {Root}, orig : Nodes]

(***************************************************************************)
(* Paths and trees.                                                         *)
(***************************************************************************)

Below == [a \in Paths |-> {p \in Paths : IsStrictPrefix(a, p)}]
Above == [p \in Paths \union {Root} |-> {a \in Paths : p \in Below[a]}]
Children == [d \in Paths \union {Root} |-> {p \in Paths : Front(p) = d}]

\* IsSamePathOrDescendant
Within(a, p) == p = a \/ p \in Below[a]

\* RelativePathUnder a, put under b
Under(a, b, p) == b \o SubSeq(p, Len(a) + 1, Len(p))

At(tree, p) == IF p \in Paths THEN tree[p] ELSE NoFile

IsTree(tree) == \A p \in Paths : tree[p] # NoFile => \A a \in Above[p] : tree[a] = Dir

ASSUME TreesAssumption == \A tree \in Trees : tree \in [Paths -> Nodes] /\ IsTree(tree)

\* create_directories
WithDirectories(tree, dirs) ==
    [p \in Paths |-> IF p \in dirs /\ tree[p] = NoFile THEN Dir ELSE tree[p]]

\* Variant: remove, of the one entry.
RemoveOne(tree, p) == [tree EXCEPT ![p] = NoFile]

\* remove_all
RemoveAll(tree, p) == [q \in Paths |-> IF Within(p, q) THEN NoFile ELSE tree[q]]

\* Variant: only the directory itself is made, as a directory view makes it.
CopyMissingShallow(from, a, tree, b) ==
    LET into == WithDirectories(tree, Above[b])
    IN  [into EXCEPT ![b] = IF @ = NoFile THEN from[a] ELSE @]

\* CopyMissingPath and CopyMissingDirectoryTree: what is at b stays.
CopyMissing(from, a, tree, b) ==
    LET into == WithDirectories(tree, Above[b])
    IN  [q \in Paths |-> IF Within(b, q) /\ into[q] = NoFile
                         THEN At(from, Under(b, a, q)) ELSE into[q]]

\* copy with recursive | overwrite_existing: what only b has stays.
CopyOver(from, a, tree, b) ==
    LET into == WithDirectories(tree, Above[b])
    IN  [q \in Paths |-> IF Within(b, q) /\ At(from, Under(b, a, q)) # NoFile
                         THEN At(from, Under(b, a, q)) ELSE into[q]]

\* rename of a file or directory
Move(tree, a, b) == CopyOver(tree, a, RemoveAll(tree, a), b)

\* Bound: the paths of the instance have room for what is at a under b.
Fits(tree, a, b) ==
    \A p \in Paths : Within(a, p) /\ tree[p] # NoFile => Under(a, b, p) \in Paths

(***************************************************************************)
(* What the records say.                                                    *)
(***************************************************************************)

First(S) == CHOOSE p \in S : \E i \in 1 .. Len(Order) :
                p = Order[i] /\ \A j \in 1 .. i - 1 : Order[j] \notin S

Recorded(p) == changes[p].state # "none"

\* A record's shadow is that of its path, or of the target it was renamed to.
ShadowOf(p) == IF changes[p].state = "renamed" THEN changes[p].target ELSE p

\* Variant: a renamed directory hides its own path alone.
HiddenExactly(p) == changes[p].state \in {"tombstone", "renamed"}

\* IsTombstoned and IsHiddenByRenameSource
Hidden(p) ==
    \/ changes[p].state \in {"tombstone", "renamed"}
    \/ \E a \in Above[p] : changes[a].state = "renamed" /\ shadow[changes[a].target] = Dir

\* The renamed records whose targets p is or is below.
RenamedInto(p) == {r \in Paths : changes[r].state = "renamed" /\ Within(changes[r].target, p)}

\* Where PrepareRenamedTargetPath finds what a rename should have brought to p.
RenamedFrom(p) == LET r == First(RenamedInto(p)) IN Under(changes[r].target, r, p)

Brings(p) == RenamedInto(p) # {} /\ At(real, RenamedFrom(p)) # NoFile

\* PersistChange with the ON CONFLICT of AddOrUpdateChange
Upsert(records, p, state, target) ==
    [records EXCEPT ![p] =
        [state |-> state, target |-> target,
         orig |-> IF @.state = "none" THEN real[p] ELSE @.orig]]

Forget(records, S) == [p \in Paths |-> IF p \in S THEN NoRecord ELSE records[p]]

\* What an open of p for reading gives.
Answer(p) ==
    IF Hidden(p) THEN NoFile
    ELSE IF shadow[p] # NoFile THEN shadow[p]
    ELSE IF Brings(p) THEN real[RenamedFrom(p)] ELSE real[p]

Visible(p) == Answer(p) # NoFile /\ \A a \in Above[p] : Answer(a) = Dir

\* What a process finds that walks down from the source directory.
View == [p \in Paths |-> IF Visible(p) THEN Answer(p) ELSE NoFile]

-----------------------------------------------------------------------------
Init ==
    /\ real \in Trees
    /\ shadow = [p \in Paths |-> NoFile]
    /\ changes = [p \in Paths |-> NoRecord]
    /\ todo = {}
    /\ pc = "idle"

(***************************************************************************)
(* The requests of the driver.                                              *)
(***************************************************************************)

\* QueryPath of a path that is not hidden: PrepareRenamedTargetPath
Queried(p) ==
    IF shadow[p] = NoFile /\ Brings(p) THEN CopyMissing(real, RenamedFrom(p), shadow, p) ELSE shadow

\* Variant: what a rename took away from the directory is copied again.
DirectoryViewShowsRenamed(tree, d) ==
    LET view == WithDirectories(tree, {d} \union Above[d])
    IN  [p \in Paths |->
            IF \E c \in Children[d] : Within(c, p) /\ changes[c].state = "tombstone" THEN NoFile
            ELSE IF p \in Children[d] /\ view[p] = NoFile THEN real[p] ELSE view[p]]

\* PrepareDirectoryView of a directory that exists
DirectoryView(tree, d) ==
    LET view == WithDirectories(tree, {d} \union Above[d])
    IN  [p \in Paths |->
            IF \E c \in Children[d] : Within(c, p) /\ changes[c].state = "tombstone" THEN NoFile
            ELSE IF p \in Children[d] /\ view[p] = NoFile /\ changes[p].state # "renamed"
                 THEN real[p] ELSE view[p]]

\* PrepareCopyOnWrite
CopyOnWrite(tree, p) ==
    IF real[p] = Dir THEN DirectoryView(tree, p)
    ELSE LET into == WithDirectories(tree, Above[p])
         IN  [into EXCEPT ![p] = IF @ = NoFile THEN real[p] ELSE @]

CopyOnWriteRecord(p) ==
    IF real[p] = Dir THEN changes
    ELSE Upsert(changes, p, IF real[p] = NoFile THEN "created" ELSE "modified", Root)

(***************************************************************************)
(* The create callback.  A process asks for p as a directory, as a reparse  *)
(* point, which passes through, or as neither.                              *)
(***************************************************************************)

Walks(p) == \A a \in Above[p] : Answer(a) = Dir

\* The ways to a handle that can delete or rename what is at p
Handles(p) ==
    {"any"} \union (IF Answer(p) = Dir THEN {"directory"} ELSE {})
            \union (IF real[p] # NoFile THEN {"reparse point"} ELSE {})

CopiesFor(as, p) == as = "any" \/ (as = "directory" /\ real[p] # NoFile)

OpenShadow(as, p) == IF CopiesFor(as, p) THEN CopyOnWrite(Queried(p), p) ELSE Queried(p)
OpenRecords(as, p) == IF CopiesFor(as, p) THEN CopyOnWriteRecord(p) ELSE changes

\* An open for reading
Look(p) ==
    /\ pc # "commit"
    /\ Walks(p)
    /\ ~Hidden(p)
    /\ shadow' = Queried(p)
    /\ UNCHANGED <<real, changes, todo, pc>>

\* A directory is opened for its entries; where only the shadow has it, there
\* is nothing to prepare.
List(d) ==
    /\ pc # "commit"
    /\ d # Root => Walks(d) /\ Answer(d) = Dir
    /\ shadow' = IF d = Root THEN DirectoryView(shadow, d)
                 ELSE IF real[d] = NoFile THEN Queried(d) ELSE DirectoryView(Queried(d), d)
    /\ UNCHANGED <<real, changes, todo, pc>>

\* A file is created or written.
Write(p) ==
    /\ pc = "idle"
    /\ Walks(p)
    /\ ~Hidden(p)
    /\ Answer(p) # Dir
    /\ \E c \in Contents : shadow' = [OpenShadow("any", p) EXCEPT ![p] = c]
    /\ changes' = OpenRecords("any", p)
    /\ UNCHANGED <<real, todo, pc>>

MakeDirectory(p) ==
    /\ pc = "idle"
    /\ Walks(p)
    /\ ~Hidden(p)
    /\ Answer(p) = NoFile
    /\ shadow' = [OpenShadow("any", p) EXCEPT ![p] = Dir]
    /\ changes' = OpenRecords("any", p)
    /\ UNCHANGED <<real, todo, pc>>

\* Variant: a file that has a shadow only is forgotten, not tombstoned.
DeleteForgets(p) ==
    /\ pc = "idle"
    /\ Visible(p)
    /\ \E as \in Handles(p) :
        /\ shadow' = RemoveAll(OpenShadow(as, p), p)
        /\ changes' = IF real[p] = NoFile THEN Forget(changes, {p})
                      ELSE Upsert(OpenRecords(as, p), p, "tombstone", Root)
    /\ UNCHANGED <<real, todo, pc>>

\* RecordDelete through such a handle
Delete(p) ==
    /\ pc = "idle"
    /\ Visible(p)
    /\ \E as \in Handles(p) :
        /\ shadow' = RemoveAll(OpenShadow(as, p), p)
        /\ changes' = Upsert(OpenRecords(as, p), p, "tombstone", Root)
    /\ UNCHANGED <<real, todo, pc>>

\* RecordRename refuses a target that exists or that a record names.  The driver
\* queries it first, so that what a rename brings there exists.
TargetIsFree(q, tree) ==
    /\ ~Recorded(q)
    /\ \A r \in Paths : changes[r].target # q
    /\ real[q] = NoFile
    /\ tree[q] = NoFile
    /\ ~Brings(q)

\* Bounds on the renames an instance looks at; see HazardKinds.
Plain(p) ==
    /\ "again" \in Hazards \/
         \A r \in Paths : changes[r].state = "renamed" =>
             ~Within(changes[r].target, p) /\ ~Within(p, changes[r].target)
    /\ "gaps" \in Hazards \/ \A c \in Below[p] : changes[c].state \notin {"tombstone", "renamed"}

\* Variant: a modified source is taken for a created one.
RenamedIfRecorded(records, p, q, tree) ==
    LET kept == IF tree[p] = Dir THEN Forget(records, Below[p]) ELSE records
    IN  IF records[p].state # "none"
        THEN Upsert(Forget(kept, {p}), q, "created", Root)
        ELSE Upsert(kept, p, "renamed", q)

\* The records of a rename: a created source is created at the target, and what
\* is recorded below a directory goes.
Renamed(records, p, q, tree) ==
    LET kept == IF tree[p] = Dir THEN Forget(records, Below[p]) ELSE records
    IN  IF records[p].state = "created"
        THEN Upsert(Forget(kept, {p}), q, "created", Root)
        ELSE Upsert(kept, p, "renamed", q)

\* RecordRename through such a handle.  A directory that is real gives the
\* shadow everything it has before the move.
Rename(p, q) ==
    /\ pc = "idle"
    /\ Visible(p)
    /\ Walks(q)
    /\ ~Hidden(q)
    /\ Plain(p)
    /\ \E as \in Handles(p) :
        LET opened == OpenShadow(as, p)
            ready == IF opened[p] = NoFile THEN CopyOnWrite(opened, p) ELSE opened
            tree == IF ready[p] = Dir /\ real[p] # NoFile THEN CopyMissing(real, p, ready, p) ELSE ready
        IN  /\ TargetIsFree(q, opened)
            /\ tree[p] = Dir => ~Within(p, q)
            /\ Fits(tree, p, q)
            /\ shadow' = Move(tree, p, q)
            /\ changes' = Renamed(OpenRecords(as, p), p, q, tree)
    /\ UNCHANGED <<real, todo, pc>>

(***************************************************************************)
(* Commit.                                                                  *)
(***************************************************************************)

\* ValidateCommitPreconditions for one record
Committable(p) ==
    /\ real[p] = changes[p].orig
    /\ changes[p].state # "tombstone" => shadow[ShadowOf(p)] # NoFile
    /\ changes[p].state = "renamed" => real[changes[p].target] = NoFile

StartCommit ==
    /\ pc = "idle"
    /\ \E p \in Paths : Recorded(p)
    /\ \A p \in Paths : Recorded(p) => Committable(p)
    /\ todo' = {p \in Paths : Recorded(p)}
    /\ pc' = "commit"
    /\ UNCHANGED <<real, shadow, changes>>

Current == First(todo)

\* The real directory after the record of p
Applied(p) ==
    CASE changes[p].state = "tombstone" -> RemoveAll(real, p)
      [] changes[p].state = "renamed" ->
           RemoveAll(CopyOver(shadow, changes[p].target, real, changes[p].target), p)
      [] OTHER -> CopyOver(shadow, p, real, p)

\* The target of a rename is there by now
Blocked(p) == changes[p].state = "renamed" /\ real[changes[p].target] # NoFile

Apply ==
    /\ pc = "commit"
    /\ todo # {}
    /\ ~Blocked(Current)
    /\ real' = Applied(Current)
    /\ todo' = todo \ {Current}
    /\ UNCHANGED <<shadow, changes, pc>>

\* Bound: what processes change after a commit that stopped halfway is left out.
FailCommit ==
    /\ pc = "commit"
    /\ todo # {}
    /\ Blocked(Current)
    /\ todo' = {}
    /\ pc' = "failed"
    /\ UNCHANGED <<real, shadow, changes>>

FinishCommit ==
    /\ pc = "commit"
    /\ todo = {}
    /\ shadow' = [p \in Paths |-> NoFile]
    /\ changes' = [p \in Paths |-> NoRecord]
    /\ pc' = "idle"
    /\ UNCHANGED <<real, todo>>

Operation ==
    \/ \E p \in Paths : Look(p) \/ Write(p) \/ MakeDirectory(p) \/ Delete(p)
    \/ \E p, q \in Paths : Rename(p, q)
    \/ \E d \in Paths \union {Root} : List(d)

Commit == StartCommit \/ Apply \/ FailCommit \/ FinishCommit

Next == Operation \/ Commit

Spec == Init /\ [][Next]_vars

-----------------------------------------------------------------------------
(***************************************************************************)
(* Properties.                                                              *)
(***************************************************************************)

\* The variables have their types, and no step puts a file below nothing or
\* below a file, in the real directory or in the shadow.
TypeOK ==
    /\ real \in [Paths -> Nodes]
    /\ shadow \in [Paths -> Nodes]
    /\ changes \in [Paths -> Records]
    /\ todo \in SUBSET Paths
    /\ pc \in {"idle", "commit", "failed"}
    /\ IsTree(real) /\ IsTree(shadow)

\* A directory shows exactly the entries that an open of them finds.
Listed(d) ==
    LET s == IF d # Root /\ real[d] = NoFile THEN Queried(d)
             ELSE DirectoryView(IF d = Root THEN shadow ELSE Queried(d), d)
    IN  {c \in Children[d] : s[c] # NoFile}
ListingMatchesOpen ==
    \A d \in Paths \union {Root} :
        (d = Root \/ View[d] = Dir) =>
            Listed(d) = {c \in Children[d] : Answer(c) # NoFile}

\* An open by the full path finds what a walk finds.  Not so below a deleted
\* directory, nor below one that was renamed and deleted at its target: there
\* IsTombstoned looks at the record of the path itself.
Deleted(a) ==
    \/ changes[a].state = "tombstone"
    \/ changes[a].state = "renamed" /\ shadow[changes[a].target] # Dir
OpensMatchWalk ==
    \A p \in Paths : Answer(p) # View[p] => \E a \in Above[p] : Deleted(a)

AloneChanges(old, new, S) == \A p \in Paths : old[p] # new[p] => \E a \in S : Within(a, p)

\* To look at files and directories changes nothing that anyone sees, and the
\* other operations change what is at and below their paths alone.
OperationsAreLocal ==
    [][LET old == View
           new == View'
       IN  old # new =>
             /\ \A p \in Paths : ~Look(p)
             /\ \A d \in Paths \union {Root} : ~List(d)
             /\ \A p \in Paths : Write(p) \/ MakeDirectory(p) => AloneChanges(old, new, {p})
             /\ \A p \in Paths : Delete(p) => new = RemoveAll(old, p)]_vars

\* A rename takes everything that is seen at and below p to q, modified or not,
\* and leaves nothing at p.
RenameMovesTree ==
    [][LET old == View
           new == View'
       IN  \A p, q \in Paths : Rename(p, q) => new = Move(old, p, q)]_vars

\* What was deleted below a directory stays deleted when the directory is renamed.
RenameKeepsDeletions ==
    [][\A p, q \in Paths : Rename(p, q) =>
           \A c \in Below[p] : changes[c].state = "tombstone" => View'[Under(p, q, c)] = NoFile]_vars

\* A commit changes nothing that anyone sees, at no step, though the records and
\* the shadow go at the end: by then the real directory is what was seen.
CommitKeepsTree == [][pc = "commit" => View' = View]_vars
=============================================================================

---------------------------- MODULE OverlayStore ----------------------------
(***************************************************************************)
(* One overlay rule: the real directory, the shadow tree under store\drive, *)
(* the change records of metadata.db, and the two service threads that work *)
(* on them: the driver message thread, which serves one request at a time,  *)
(* and the pipe thread, which runs one commit or discard at a time.         *)
(*                                                                          *)
(* Paths are the files directly in the rule's source directory.  A path is  *)
(* the number of its place in ORDER BY real_path.  MapRealPathToShadowPath  *)
(* is injective, so a shadow file is named by the real path it stands for.  *)
(* A file's content stands for its data, size and last write time together. *)
(***************************************************************************)
EXTENDS Naturals

CONSTANTS
    NumPaths,  \* how many files the source directory may hold
    Contents,  \* what a file can hold
    NoFile,    \* the value of a path at which there is no file
    Torn,      \* a copy that an abrupt end left incomplete
    Apps,      \* processes that use files under the source directory
    Hazards    \* the kinds of trouble this instance admits

\* external: something the filter does not redirect writes real files
\* crash:    the service ends abruptly
\* fault:    an operation on files or on metadata.db fails
\* rollback: so does the move back of the shadow tree after a failed discard
\* overlap:  a commit or discard does not wait for requests already accepted
\* early:    a process has a handle on a real file, from before the rule was enabled or
\*           opened with FILE_OPEN_REPARSE_POINT, which the driver lets through
\* race:     a file goes away while another process's granted open is under way
HazardKinds == {"external", "crash", "fault", "rollback", "overlap", "early", "race"}
Paths == 1 .. NumPaths
NoPath == 0
Files == Contents \union {NoFile, Torn}

ASSUME NumPathsAssumption == NumPaths \in Nat
ASSUME FilesAssumption == NoFile \notin Contents /\ Torn \notin Contents /\ NoFile # Torn
ASSUME HazardsAssumption == Hazards \subseteq HazardKinds

VARIABLES
    real,     \* the real files
    shadow,   \* the files under store\drive
    changes,  \* the rule's rows of the table changes
    app,      \* what each process is doing
    drv,      \* the request the driver message thread is serving
    pc,       \* where the pipe thread is in a commit or discard
    recs,     \* the records that Commit listed
    todo,     \* the listed records Commit has not applied yet
    backup,   \* the files under backups\<commit id> of the running commit
    staged    \* the shadow tree Discard has moved aside

vars == <<real, shadow, changes, app, drv, pc, recs, todo, backup, staged>>
files == <<real, shadow>>
commit == <<recs, todo, backup>>

States == {"none", "created", "modified", "tombstone", "renamed"}
Records == [state : States \ {"renamed"}, target : {NoPath}, orig : Files]
             \union [state : {"renamed"}, target : Paths, orig : Files]
NoRecord == [state |-> "none", target |-> NoPath, orig |-> NoFile]
NoRecords == [p \in Paths |-> NoRecord]
NoFiles == [p \in Paths |-> NoFile]

Idle == [pc |-> "idle", path |-> NoPath]
NoRequest == [pc |-> "idle", app |-> NoPath, path |-> NoPath, from |-> NoPath,
              target |-> NoPath, state |-> "none", before |-> NoFiles]

Quiet == "overlap" \notin Hazards

(***************************************************************************)
(* What the records say.                                                    *)
(***************************************************************************)

Recorded(p) == changes[p].state # "none"

\* IsTombstoned: QueryPath answers that the path does not exist.
Hidden(p) == changes[p].state \in {"tombstone", "renamed"}

\* The renamed records whose target is p.
RenamedInto(p) == {r \in Paths : changes[r].state = "renamed" /\ changes[r].target = p}

First(S) == CHOOSE r \in S : \A s \in S : r <= s

\* A record of r names the shadow file of r, or of the target r was renamed to.
ShadowOf(r, records) == IF records[r].state = "renamed" THEN records[r].target ELSE r

NeedsShadow(record) == record.state \in {"created", "modified", "renamed"}

\* A process has the shadow file of p open.
Holds(x, p) == app[x].pc = "open" /\ app[x].path = p
Held(p) == \E x \in Apps : Holds(x, p)

\* The rule is disabled while the pipe thread applies a commit or discard.
Paused == pc \notin {"idle", "commit_checked", "discard_checked"}

\* Variant: ON CONFLICT also replaces the baseline columns.
UpsertRebaselines(p, state, target) ==
    [changes EXCEPT ![p] = [state |-> state, target |-> target, orig |-> real[p]]]

\* Variant: ON CONFLICT forgets the column target_path.
UpsertKeepsTarget(p, state, target) ==
    [changes EXCEPT ![p] = [state |-> state,
                            target |-> IF Recorded(p) THEN @.target ELSE target,
                            orig |-> IF Recorded(p) THEN @.orig ELSE real[p]]]

\* PersistChange reads the real file as the baseline; AddOrUpdateChange keeps
\* the baseline of a row that is already there.
Upsert(p, state, target) ==
    [changes EXCEPT ![p] = [state |-> state, target |-> target,
                            orig |-> IF Recorded(p) THEN @.orig ELSE real[p]]]

\* What a process that opens p for reading gets.  The file that a request is
\* still copying is not seen: the reader's own query waits behind the request.
View(p) ==
    IF Hidden(p) THEN NoFile
    ELSE IF shadow[p] # NoFile
         THEN IF drv.pc = "copying" /\ drv.path = p THEN real[drv.from] ELSE shadow[p]
         ELSE IF RenamedInto(p) # {} /\ real[First(RenamedInto(p))] # NoFile
              THEN real[First(RenamedInto(p))] ELSE real[p]
Views == [p \in Paths |-> View(p)]

-----------------------------------------------------------------------------
Init ==
    /\ real \in [Paths -> Contents \union {NoFile}]
    /\ shadow = NoFiles
    /\ changes = NoRecords
    /\ app = [x \in Apps |-> Idle]
    /\ drv = NoRequest
    /\ pc = "idle"
    /\ recs = NoRecords
    /\ todo = {}
    /\ backup = NoFiles
    /\ staged = NoFiles

(***************************************************************************)
(* Requests of the driver.  ProcessDriverRequest refuses a request while    *)
(* the rule is disabled, and serves the next one only after the last.       *)
(***************************************************************************)

Serves == drv.pc = "idle" /\ ~Paused

Request(phase, x, p, from, target, state) ==
    [pc |-> phase, app |-> x, path |-> p, from |-> from,
     target |-> target, state |-> state, before |-> Views]

Becomes(x, phase, p) == app' = [app EXCEPT ![x] = [pc |-> phase, path |-> p]]

\* QueryPath on a path that is not hidden.  PrepareRenamedTargetPath copies the
\* file a rename came from when the renamed shadow is missing.
Query(x, p) ==
    /\ Serves
    /\ app[x] = Idle
    /\ ~Hidden(p)
    /\ IF shadow[p] = NoFile /\ RenamedInto(p) # {} /\ real[First(RenamedInto(p))] # NoFile
       THEN /\ drv' = Request("copying", x, p, First(RenamedInto(p)), NoPath, "none")
            /\ shadow' = [shadow EXCEPT ![p] = Torn]
            /\ UNCHANGED app
       ELSE /\ Becomes(x, "queried", p)
            /\ UNCHANGED <<drv, shadow>>
    /\ UNCHANGED <<real, changes, pc, commit, staged>>

\* The open was for reading only, or the rule was paused before the next request.
Abandon(x) ==
    /\ app[x].pc = "queried"
    /\ Becomes(x, "idle", NoPath)
    /\ UNCHANGED <<files, changes, drv, pc, commit, staged>>

\* Variant: a path that has a shadow already is granted without a record.
CopyOnWriteOnce(x) ==
    LET p == app[x].path
        copies == real[p] # NoFile /\ shadow[p] = NoFile
    IN  /\ Serves
        /\ app[x].pc = "queried"
        /\ IF shadow[p] # NoFile
           THEN Becomes(x, "granted", p) /\ UNCHANGED <<drv, shadow>>
           ELSE /\ drv' = Request(IF copies THEN "copying" ELSE "persist", x, p, p, NoPath,
                                  IF real[p] # NoFile THEN "modified" ELSE "created")
                /\ shadow' = IF copies THEN [shadow EXCEPT ![p] = Torn] ELSE shadow
                /\ UNCHANGED app
        /\ UNCHANGED <<real, changes, pc, commit, staged>>

\* PrepareCopyOnWrite up to the copy of a real file that has no shadow yet.
CopyOnWrite(x) ==
    LET p == app[x].path
        copies == real[p] # NoFile /\ shadow[p] = NoFile
    IN  /\ Serves
        /\ app[x].pc = "queried"
        /\ drv' = Request(IF copies THEN "copying" ELSE "persist", x, p, p, NoPath,
                          IF real[p] # NoFile THEN "modified" ELSE "created")
        /\ shadow' = IF copies THEN [shadow EXCEPT ![p] = Torn] ELSE shadow
        /\ UNCHANGED <<real, changes, app, pc, commit, staged>>

\* CopyFileWithParents comes to its end.
FinishCopy ==
    /\ drv.pc = "copying"
    /\ real[drv.from] # NoFile
    /\ shadow' = [shadow EXCEPT ![drv.path] = real[drv.from]]
    /\ IF drv.state = "none"
       THEN Becomes(drv.app, "queried", drv.path) /\ drv' = NoRequest
       ELSE drv' = [drv EXCEPT !.pc = "persist"] /\ UNCHANGED app
    /\ UNCHANGED <<real, changes, pc, commit, staged>>

\* The copy fails.  The driver goes on after a failed query, not after a failed
\* copy-on-write.
FailCopy ==
    /\ drv.pc = "copying"
    /\ real[drv.from] = NoFile \/ "fault" \in Hazards
    /\ shadow' = [shadow EXCEPT ![drv.path] = NoFile]
    /\ IF drv.state = "none" THEN Becomes(drv.app, "queried", drv.path)
                             ELSE Becomes(drv.app, "idle", NoPath)
    /\ drv' = NoRequest
    /\ UNCHANGED <<real, changes, pc, commit, staged>>

\* The end of PrepareCopyOnWrite and of RecordDelete: the record is stored and
\* the driver gets its answer.
Persist ==
    /\ drv.pc \in {"persist", "tombstone"}
    /\ changes' = Upsert(drv.path, drv.state, NoPath)
    /\ IF drv.pc = "persist" THEN Becomes(drv.app, "granted", drv.path) ELSE UNCHANGED app
    /\ drv' = NoRequest
    /\ UNCHANGED <<files, pc, commit, staged>>

\* A statement on metadata.db fails and the request is answered with an error.
FailPersist ==
    /\ "fault" \in Hazards
    /\ drv.pc \in {"persist", "tombstone", "moved", "unrecorded"}
    /\ IF drv.pc = "persist" THEN Becomes(drv.app, "idle", NoPath) ELSE UNCHANGED app
    /\ drv' = NoRequest
    /\ UNCHANGED <<files, changes, pc, commit, staged>>

\* A process deletes or renames through its handle on the shadow file, or
\* through a handle on the real file (see "early").
Reaches(x, p) ==
    \/ Holds(x, p)
    \/ "early" \in Hazards /\ app[x] = Idle /\ real[p] # NoFile

\* The handle of another process prevents the removal or the move of p.  So does
\* an open on its way from the grant to the shadow file, but for "race".
HeldByOther(x, p) ==
    \E y \in Apps \ {x} :
        \/ Holds(y, p)
        \/ "race" \notin Hazards /\ app[y] = [pc |-> "granted", path |-> p]

\* RecordDelete up to the removal of the shadow file.
Delete(x, p) ==
    /\ Serves
    /\ Reaches(x, p)
    /\ ~HeldByOther(x, p)
    /\ shadow' = [shadow EXCEPT ![p] = NoFile]
    /\ Becomes(x, "idle", NoPath)
    /\ drv' = Request("tombstone", x, p, p, NoPath, "tombstone")
    /\ UNCHANGED <<real, changes, pc, commit, staged>>

RenameAllowed(p, q) ==
    /\ p # q
    /\ ~Recorded(q)
    /\ \A r \in Paths : changes[r].target # q
    /\ changes[p].state # "tombstone"
    /\ real[q] = NoFile
    /\ shadow[q] = NoFile

\* RecordRename up to the move of the shadow file.  A source without a shadow
\* goes through PrepareCopyOnWrite first; the source's record is the one that
\* was listed before that.
Rename(x, p, q) ==
    LET prepares == shadow[p] = NoFile
    IN  /\ Serves
        /\ Reaches(x, p)
        /\ ~HeldByOther(x, p)
        /\ RenameAllowed(p, q)
        /\ shadow' = [shadow EXCEPT ![p] = NoFile,
                                    ![q] = IF prepares THEN real[p] ELSE shadow[p]]
        /\ changes' = IF prepares THEN Upsert(p, "modified", NoPath) ELSE changes
        /\ Becomes(x, "idle", NoPath)
        /\ drv' = Request("moved", x, p, p, q,
                          IF changes[p].state = "created" THEN "created" ELSE "renamed")
        /\ UNCHANGED <<real, pc, commit, staged>>

\* The record of the rename: a created source is forgotten first.
RecordRename ==
    /\ drv.pc = "moved"
    /\ IF drv.state = "created"
       THEN /\ changes' = [changes EXCEPT ![drv.path] = NoRecord]
            /\ drv' = [drv EXCEPT !.pc = "unrecorded"]
       ELSE /\ changes' = Upsert(drv.path, "renamed", drv.target)
            /\ drv' = NoRequest
    /\ UNCHANGED <<files, app, pc, commit, staged>>

RecordRenamedCreation ==
    /\ drv.pc = "unrecorded"
    /\ changes' = Upsert(drv.target, "created", NoPath)
    /\ drv' = NoRequest
    /\ UNCHANGED <<files, app, pc, commit, staged>>

\* Variant: the copies of a directory view overwrite shadows that exist.
DirectoryViewOverwrites ==
    /\ Serves
    /\ shadow' = [p \in Paths |-> IF changes[p].state = "tombstone" THEN NoFile
                                  ELSE IF ~Hidden(p) THEN real[p] ELSE shadow[p]]
    /\ UNCHANGED <<real, changes, app, drv, pc, commit, staged>>

\* PrepareDirectoryView of the source directory: tombstoned shadows go, and every
\* visible real file gets a shadow, without a record.  A failed copy ends it early.
DirectoryView ==
    /\ Serves
    /\ \A p \in Paths : changes[p].state = "tombstone" => ~Held(p)
    /\ \E reached \in SUBSET Paths :
        /\ reached = Paths \/ "fault" \in Hazards
        /\ shadow' = [p \in Paths |->
                        IF changes[p].state = "tombstone" THEN NoFile
                        ELSE IF shadow[p] = NoFile /\ ~Hidden(p) /\ p \in reached
                             THEN real[p] ELSE shadow[p]]
    /\ UNCHANGED <<real, changes, app, drv, pc, commit, staged>>

(***************************************************************************)
(* Processes.  After a granted copy-on-write the driver reparses the open   *)
(* to the shadow file, which the open creates or fails to find.             *)
(***************************************************************************)

OpenShadow(x) ==
    LET p == app[x].path
    IN  /\ app[x].pc = "granted"
        /\ ~(drv.pc = "copying" /\ drv.path = p)
        /\ \/ /\ shadow[p] # NoFile
              /\ Becomes(x, "open", p)
              /\ UNCHANGED shadow
           \/ /\ shadow[p] = NoFile
              /\ \E c \in Contents : shadow' = [shadow EXCEPT ![p] = c]
              /\ Becomes(x, "open", p)
           \/ /\ shadow[p] = NoFile
              /\ Becomes(x, "idle", NoPath)
              /\ UNCHANGED shadow
        /\ UNCHANGED <<real, changes, drv, pc, commit, staged>>

Write(x) ==
    /\ app[x].pc = "open"
    /\ \E c \in Contents : shadow' = [shadow EXCEPT ![app[x].path] = c]
    /\ UNCHANGED <<real, changes, app, drv, pc, commit, staged>>

Close(x) ==
    /\ app[x].pc = "open"
    /\ Becomes(x, "idle", NoPath)
    /\ UNCHANGED <<files, changes, drv, pc, commit, staged>>

\* Something the filter does not redirect changes a real file.
ExternalWrite(p) ==
    /\ "external" \in Hazards
    /\ Quiet => ~Paused
    /\ \E c \in Contents \union {NoFile} : real' = [real EXCEPT ![p] = c]
    /\ UNCHANGED <<shadow, changes, app, drv, pc, commit, staged>>

(***************************************************************************)
(* The pipe thread.                                                         *)
(***************************************************************************)

\* EnsureNoOccupyingProcesses on the files of the listed records.
Check(checked) ==
    /\ pc = "idle"
    /\ \A r \in Paths : Recorded(r) => ~Held(ShadowOf(r, changes))
    /\ pc' = checked
    /\ UNCHANGED <<files, changes, app, drv, commit, staged>>

\* The rule is disabled.  Nothing waits for a request that passed the check of
\* the rule before: an instance without "overlap" looks at the other case.
Pause ==
    /\ pc \in {"commit_checked", "discard_checked"}
    /\ Quiet => drv.pc = "idle" /\ \A x \in Apps : app[x].pc # "granted"
    /\ pc' = IF pc = "commit_checked" THEN "commit" ELSE "isolate"
    /\ UNCHANGED <<files, changes, app, drv, commit, staged>>

\* Variant: the baseline is not compared.
CommittableUnchecked(r) ==
    /\ NeedsShadow(changes[r]) =>
         LET s == ShadowOf(r, changes) IN shadow[s] # NoFile /\ ~Held(s)
    /\ changes[r].state = "renamed" => real[changes[r].target] = NoFile

\* ValidateCommitPreconditions for one record.  No handle on a real file is held open
\* here, so that its exclusive open of the real file always succeeds.
Committable(r) ==
    /\ real[r] = changes[r].orig
    /\ NeedsShadow(changes[r]) =>
         LET s == ShadowOf(r, changes) IN shadow[s] # NoFile /\ ~Held(s)
    /\ changes[r].state = "renamed" => real[changes[r].target] = NoFile

\* Commit lists the records, checks them all and creates its backup directory.
Preflight ==
    /\ pc = "commit"
    /\ \A r \in Paths : Recorded(r) => Committable(r)
    /\ recs' = changes
    /\ todo' = {r \in Paths : Recorded(r)}
    /\ backup' = NoFiles
    /\ pc' = "backup"
    /\ UNCHANGED <<files, changes, app, drv, staged>>

Current == First(todo)
CurrentTarget == ShadowOf(Current, recs)

\* Variant: the source of a rename is not backed up.
NeedsBackupUnlessRenamed(r) == real[r] # NoFile /\ recs[r].state # "renamed"

NeedsBackup(r) == real[r] # NoFile

\* Commit takes the next record: whatever is at its real path is backed up.
Backup ==
    /\ pc = "backup"
    /\ todo # {}
    /\ recs[Current].state \in {"created", "modified"} => shadow[Current] # NoFile
    /\ recs[Current].state = "renamed" => real[CurrentTarget] = NoFile
    /\ backup' = [backup EXCEPT ![Current] = IF NeedsBackup(Current) THEN real[Current] ELSE @]
    /\ pc' = IF recs[Current].state = "tombstone" THEN "remove" ELSE "write"
    /\ UNCHANGED <<files, changes, app, drv, recs, todo, staged>>

\* The shadow file is copied to the real path, or to the target of a rename,
\* where copy_options::none finds no file to overwrite.
StartWrite ==
    /\ pc = "write"
    /\ shadow[CurrentTarget] # NoFile
    /\ recs[Current].state = "renamed" => real[CurrentTarget] = NoFile
    /\ real' = [real EXCEPT ![CurrentTarget] = Torn]
    /\ pc' = "writing"
    /\ UNCHANGED <<shadow, changes, app, drv, commit, staged>>

FinishWrite ==
    /\ pc = "writing"
    /\ real' = [real EXCEPT ![CurrentTarget] = shadow[CurrentTarget]]
    /\ IF recs[Current].state = "renamed"
       THEN pc' = "remove" /\ UNCHANGED todo
       ELSE pc' = "backup" /\ todo' = todo \ {Current}
    /\ UNCHANGED <<shadow, changes, app, drv, recs, backup, staged>>

\* Variant: a record that is done is not taken off the list.
RemoveAgain ==
    /\ pc = "remove"
    /\ real' = [real EXCEPT ![Current] = NoFile]
    /\ pc' = "backup"
    /\ UNCHANGED <<shadow, changes, app, drv, commit, staged>>

\* Variant: the source of a rename stays.
RemoveTombstoned ==
    /\ pc = "remove"
    /\ real' = IF recs[Current].state = "renamed" THEN real ELSE [real EXCEPT ![Current] = NoFile]
    /\ todo' = todo \ {Current}
    /\ pc' = "backup"
    /\ UNCHANGED <<shadow, changes, app, drv, recs, backup, staged>>

\* A tombstoned file, or the source of a rename, is removed.
Remove ==
    /\ pc = "remove"
    /\ real' = [real EXCEPT ![Current] = NoFile]
    /\ todo' = todo \ {Current}
    /\ pc' = "backup"
    /\ UNCHANGED <<shadow, changes, app, drv, recs, backup, staged>>

\* Variant: only the shadow files of applied records are removed.
RemoveAppliedShadow ==
    /\ pc = "backup"
    /\ todo = {}
    /\ \A p \in Paths : ~Held(p)
    /\ shadow' = [p \in Paths |-> IF recs[p].state # "none" THEN NoFile ELSE shadow[p]]
    /\ pc' = "forget_commit"
    /\ UNCHANGED <<real, changes, app, drv, commit, staged>>

\* Every record is applied: remove_all(store\drive).
RemoveShadow ==
    /\ pc = "backup"
    /\ todo = {}
    /\ \A p \in Paths : ~Held(p)
    /\ shadow' = NoFiles
    /\ pc' = "forget_commit"
    /\ UNCHANGED <<real, changes, app, drv, commit, staged>>

\* remove_all stops at a file it cannot remove; what it removed is gone.
FailRemoveShadow ==
    /\ pc = "backup"
    /\ todo = {}
    /\ "fault" \in Hazards \/ \E p \in Paths : Held(p)
    /\ \E kept \in SUBSET Paths :
        /\ \A p \in Paths : Held(p) => p \in kept
        /\ shadow' = [p \in Paths |-> IF p \in kept THEN shadow[p] ELSE NoFile]
    /\ pc' = "commit_failed"
    /\ UNCHANGED <<real, changes, app, drv, commit, staged>>

\* DeleteChangesForRule, for a commit or a discard.
Forget ==
    /\ pc \in {"forget_commit", "forget_discard"}
    /\ changes' = NoRecords
    /\ pc' = IF pc = "forget_commit" THEN "log" ELSE "enqueue"
    /\ UNCHANGED <<files, app, drv, commit, staged>>

\* FailCommit: a check of the preflight or a later step does not hold, or an
\* operation on files or metadata fails.  A copy that fails leaves no file.
CommitBlocked ==
    \/ pc = "commit" /\ \E r \in Paths : Recorded(r) /\ ~Committable(r)
    \/ /\ pc = "backup" /\ todo # {}
       /\ \/ recs[Current].state \in {"created", "modified"} /\ shadow[Current] = NoFile
          \/ recs[Current].state = "renamed" /\ real[CurrentTarget] # NoFile
    \/ /\ pc = "write"
       /\ \/ shadow[CurrentTarget] = NoFile
          \/ recs[Current].state = "renamed" /\ real[CurrentTarget] # NoFile
    \/ pc = "writing" /\ shadow[CurrentTarget] = NoFile

FailCommit ==
    /\ pc \in {"commit", "backup", "write", "writing", "remove", "forget_commit", "log"}
    /\ CommitBlocked \/ "fault" \in Hazards
    /\ real' = IF pc = "writing" THEN [real EXCEPT ![CurrentTarget] = NoFile] ELSE real
    /\ pc' = "commit_failed"
    /\ UNCHANGED <<shadow, changes, app, drv, commit, staged>>

\* Discard moves store\drive aside; a process that holds a file in it prevents that.
Isolate ==
    /\ pc = "isolate"
    /\ \A p \in Paths : ~Held(p)
    /\ staged' = shadow
    /\ shadow' = NoFiles
    /\ pc' = "forget_discard"
    /\ UNCHANGED <<real, changes, app, drv, commit>>

FailIsolate ==
    /\ pc = "isolate"
    /\ "fault" \in Hazards \/ \E p \in Paths : Held(p)
    /\ pc' = "discard_failed"
    /\ UNCHANGED <<files, changes, app, drv, commit, staged>>

\* Variant: the tree is not moved back.
AbandonDiscard ==
    /\ pc = "forget_discard"
    /\ "fault" \in Hazards
    /\ pc' = "discard_failed"
    /\ UNCHANGED <<files, changes, app, drv, commit, staged>>

\* The records could not be deleted: the tree is moved back, unless a new one is
\* there in the meantime.  Nobody looks at the outcome of the move.
RollbackDiscard ==
    /\ pc = "forget_discard"
    /\ "fault" \in Hazards
    /\ \/ shadow = NoFiles /\ shadow' = staged /\ staged' = NoFiles
       \/ shadow # NoFiles /\ UNCHANGED <<shadow, staged>>
       \/ "rollback" \in Hazards /\ UNCHANGED <<shadow, staged>>
    /\ pc' = "discard_failed"
    /\ UNCHANGED <<real, changes, app, drv, commit>>

\* AddCleanupRecord hands the tree to the cleanup queue, or fails to.
Enqueue ==
    /\ pc = "enqueue"
    /\ \/ pc' = "discard_done" /\ staged' = NoFiles
       \/ "fault" \in Hazards /\ pc' = "discard_failed" /\ UNCHANGED staged
    /\ UNCHANGED <<files, changes, app, drv, commit>>

\* AddCommitLog with status done.
LogCommit ==
    /\ pc = "log"
    /\ pc' = "commit_done"
    /\ UNCHANGED <<files, changes, app, drv, commit, staged>>

\* The rule is enabled again and the client gets its answer.
Resume ==
    /\ pc \in {"commit_done", "commit_failed", "discard_done", "discard_failed"}
    /\ pc' = "idle"
    /\ recs' = NoRecords
    /\ todo' = {}
    /\ backup' = NoFiles
    /\ staged' = NoFiles
    /\ UNCHANGED <<files, changes, app, drv>>

(***************************************************************************)
(* The service ends abruptly and starts again, which enables the rule.      *)
(* Files and metadata stay as they are; open handles stay open.             *)
(***************************************************************************)
Crash ==
    /\ "crash" \in Hazards
    /\ app' = [x \in Apps |-> IF app[x].pc = "open" THEN app[x] ELSE Idle]
    /\ drv' = NoRequest
    /\ pc' = "idle"
    /\ recs' = NoRecords
    /\ todo' = {}
    /\ backup' = NoFiles
    /\ staged' = NoFiles
    /\ UNCHANGED <<files, changes>>

-----------------------------------------------------------------------------
DriverStep ==
    \/ \E x \in Apps :
        \/ \E p \in Paths : Query(x, p) \/ Delete(x, p)
        \/ \E p, q \in Paths : Rename(x, p, q)
        \/ CopyOnWrite(x)
    \/ FinishCopy \/ FailCopy \/ Persist \/ FailPersist
    \/ RecordRename \/ RecordRenamedCreation \/ DirectoryView

AppStep == \E x \in Apps : Abandon(x) \/ OpenShadow(x) \/ Write(x) \/ Close(x)

CommitStep ==
    \/ Check("commit_checked") \/ Preflight \/ Backup \/ StartWrite \/ FinishWrite \/ Remove
    \/ RemoveShadow \/ FailRemoveShadow \/ FailCommit \/ LogCommit

DiscardStep ==
    \/ Check("discard_checked") \/ Isolate \/ FailIsolate \/ RollbackDiscard \/ Enqueue

PipeStep == CommitStep \/ DiscardStep \/ Pause \/ Forget \/ Resume

Next ==
    \/ DriverStep \/ AppStep \/ PipeStep \/ Crash
    \/ \E p \in Paths : ExternalWrite(p)

Spec == Init /\ [][Next]_vars

\* The pipe thread goes on with what it has begun.  Nothing is assumed of users, who
\* begin it, of processes and of the driver's requests.
FairSpec == Spec /\ WF_vars(PipeStep /\ Paused)
-----------------------------------------------------------------------------
(***************************************************************************)
(* Properties.                                                              *)
(***************************************************************************)

PipePhases ==
    {"idle", "commit_checked", "commit", "backup", "write", "writing", "remove",
     "forget_commit", "log", "commit_done", "commit_failed",
     "discard_checked", "isolate", "forget_discard", "enqueue",
     "discard_done", "discard_failed"}
CommitPhases == {"commit", "backup", "write", "writing", "remove", "forget_commit", "log"}

Requests ==
    [pc : {"idle", "copying", "persist", "tombstone", "moved", "unrecorded"},
     app : Apps \union {NoPath}, path : Paths \union {NoPath}, from : Paths \union {NoPath},
     target : Paths \union {NoPath}, state : States, before : [Paths -> Files]]

\* Every variable holds a value of its type; in particular a record has a rename
\* target exactly when its state is renamed, as PersistChange stores it.
TypeOK ==
    /\ real \in [Paths -> Files]
    /\ shadow \in [Paths -> Files]
    /\ changes \in [Paths -> Records]
    /\ app \in [Apps -> [pc : {"idle", "queried", "granted", "open"}, path : Paths \union {NoPath}]]
    /\ drv \in Requests
    /\ pc \in PipePhases
    /\ recs \in [Paths -> Records]
    /\ todo \subseteq Paths
    /\ backup \in [Paths -> Files]
    /\ staged \in [Paths -> Files]

\* A file that a process has open for writing is covered by a change record, its
\* own or that of a rename onto it: no write is left out of a commit.
WritersAreRecorded ==
    \A x \in Apps : app[x].pc = "open" =>
        Recorded(app[x].path) \/ RenamedInto(app[x].path) # {}

\* A discard that fails has not parted the records from their shadow files:
\* either the records are gone, or the shadow tree is back in its place.
DiscardAllOrNothing ==
    pc = "discard_failed" => changes = NoRecords \/ staged = NoFiles

\* When a commit or discard has removed the records, a process sees the real
\* directory again, whatever copies the shadow tree held.
FinishedViewIsReal ==
    pc \in {"log", "enqueue", "commit_done", "discard_done"} => Views = real

\* The baseline of a record is the real file as it was when the path was first
\* recorded: no later write, delete or rename of the path moves it.
BaselineFrozen ==
    [][\A p \in Paths : Recorded(p) /\ changes'[p].state # "none" =>
            changes'[p].orig = changes[p].orig]_vars

\* No step of a commit, of one that fails half-way included, changes what a
\* process would see at a path that was changed through the overlay.
CommitKeepsView ==
    [][(pc \in CommitPhases /\ pc' \notin {pc, "idle"}) =>
            \A p \in Paths : Recorded(p) \/ RenamedInto(p) # {} => Views'[p] = Views[p]]_vars

\* A commit overwrites or removes a real file only if it is the file that the
\* record's baseline describes, or one the same commit put there.
CommitOnlyOverBaseline ==
    [][\A p \in Paths : pc \in CommitPhases /\ pc' # pc /\ real'[p] # real[p] /\ real[p] \in Contents =>
            \/ real[p] = recs[p].orig
            \/ \E r \in Paths : recs[r].state = "renamed" /\ recs[r].target = p]_vars

\* Whatever a commit overwrites or removes is in its backup directory first.
BackupBeforeLoss ==
    [][\A p \in Paths : pc \in CommitPhases /\ pc' # pc /\ real'[p] # real[p] /\ real[p] \in Contents =>
            backup[p] = real[p]]_vars

\* The step that answers a request with success.
Answers(phase) == drv.pc = phase /\ drv'.pc = "idle" /\ changes' # changes

\* A served request changes what processes see as it says and in no other way:
\* a query, a directory view and a copy-on-write change nothing, a delete removes
\* one path, a rename brings the source's file to the target and leaves every
\* path but these two alone.  A delete or rename through a handle on a real file
\* ("early") can have other effects after a chain of renames.
RequestEffects ==
    [][/\ Answers("persist") => Views' = drv.before
       /\ Answers("tombstone") => Views' = [drv.before EXCEPT ![drv.path] = NoFile]
       /\ drv.pc \in {"moved", "unrecorded"} /\ Answers(drv.pc) =>
            \A p \in Paths \ {drv.path} :
                Views'[p] = drv.before[IF p = drv.target THEN drv.path ELSE p]
       /\ (\E x \in Apps, p \in Paths : Query(x, p)) \/ DirectoryView => Views' = Views]_vars

\* A commit deletes the records it applied and no other: no change that was made
\* while it ran is dropped with them.
ForgetsOnlyListed == [][pc = "forget_commit" /\ pc' = "log" => changes = recs]_vars

\* A commit that passes its checks, and meets no failure of the file system or the
\* database, applies every record.
CheckedCommitCompletes == pc \in CommitPhases \ {"commit"} => ~CommitBlocked

\* A commit or discard ends, with whatever records chains of writes, deletes and
\* renames have left, the ones that block each other included: all the while the
\* service refuses what programs ask of the rule's paths.
PausedIsServedAgain == Paused ~> ~Paused

-----------------------------------------------------------------------------
(***************************************************************************)
(* The abstract specification.  A change counts as made when its record is  *)
(* stored, and a commit or discard as done when the records are deleted.    *)
(***************************************************************************)

\* A delete or rename whose record is not stored yet has not happened; nor has a
\* discard whose shadow tree is aside with the records still there.
Promised(p) ==
    IF drv.pc \in {"tombstone", "moved", "unrecorded"} /\ p \in {drv.path, drv.target}
    THEN drv.before[p]
    ELSE IF pc = "forget_discard" /\ ~Hidden(p) /\ staged[p] # NoFile THEN staged[p]
    ELSE View(p)

Abstract == INSTANCE OverlayView WITH
    view <- [p \in Paths |-> Promised(p)],
    committing <- pc \in CommitPhases \ {"commit", "log"}

\* With nothing going wrong around it, and no delete or rename through a handle on a
\* real file ("early"), the overlay is a real directory and a view of it: a request or
\* a discard takes effect in one step, and a commit that ends well has made the one the
\* other without a change of the view.
ImplementsView == Abstract!Spec
=============================================================================

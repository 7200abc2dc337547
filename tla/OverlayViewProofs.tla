--------------------------- MODULE OverlayViewProofs ---------------------------
(***************************************************************************)
(* Theorems about what processes see of OverlayStore while they write and   *)
(* while changes are committed or discarded, for any number of paths and    *)
(* processes and any contents.                                              *)
(***************************************************************************)
EXTENDS OverlayStoreProofs

-----------------------------------------------------------------------------
(***************************************************************************)
(* While a commit or discard runs, no request is under way, and when it has *)
(* emptied the shadow tree, no process has a file in it.                    *)
(***************************************************************************)

\* The shadow tree is removed or moved aside.
Emptied == {"forget_commit", "log", "commit_done", "forget_discard", "enqueue", "discard_done"}

\* The records are deleted too.
Forgotten == {"log", "enqueue", "commit_done", "discard_done"}

QuietInv ==
    /\ Paused => drv.pc = "idle" /\ \A x \in Apps : app[x].pc # "granted"
    /\ pc \in Emptied => shadow = NoFiles /\ \A x \in Apps : app[x].pc # "open"
    /\ pc \in Forgotten => changes = NoRecords

\* The driver message thread serves nothing while the rule is paused.
LEMMA NothingServed ==
    ASSUME TypeInv, QuietInv, DriverStep
    PROVE  ~Paused /\ UNCHANGED <<pc, staged>>
  BY DEF DriverStep, QuietInv, Serves, Query, Delete, Rename, CopyOnWrite, FinishCopy,
         FailCopy, Persist, FailPersist, RecordRename, RecordRenamedCreation, DirectoryView

\* Every step keeps the thread apart from requests.
LEMMA QuietKept ==
    ASSUME Quiet, TypeInv, QuietInv, [Next]_vars
    PROVE  QuietInv'
<1> USE DEF QuietInv, Emptied, Forgotten
<1>1. CASE DriverStep
  BY <1>1, NothingServed DEF Paused
<1>2. ASSUME NEW x \in Apps, Abandon(x) \/ Close(x)
      PROVE  QuietInv'
  BY <1>2 DEF Abandon, Close, Becomes, Paused, files, TypeInv, AppType
<1>3. ASSUME NEW x \in Apps, OpenShadow(x) \/ Write(x)
      PROVE  QuietInv'
  BY <1>3 DEF OpenShadow, Write, Becomes, Paused, TypeInv, AppType
<1>4. CASE Pause
  BY <1>4 DEF Pause, Paused, files
<1>5. CASE Isolate \/ RemoveShadow
  <2>1. \A x \in Apps : app[x].pc # "open"
    BY <1>5 DEF Isolate, RemoveShadow, Held, Holds, TypeInv, AppType
  <2>2. QED
    BY <1>5, <2>1 DEF Isolate, RemoveShadow, Paused
<1>6. CASE Forget
  BY <1>6 DEF Forget, Paused, files
<1>7. CASE RollbackDiscard \/ FailIsolate
  BY <1>7 DEF RollbackDiscard, FailIsolate, Paused
<1>8. CASE Enqueue \/ LogCommit
  BY <1>8 DEF Enqueue, LogCommit, Paused, files
<1>9. CASE Resume \/ Crash
  BY <1>9 DEF Resume, Crash, Paused
<1>10. ASSUME \E checked \in {"commit_checked", "discard_checked"} : Check(checked)
       PROVE  QuietInv'
  BY <1>10 DEF Check, Paused
<1>11. CASE \/ Preflight \/ Backup \/ StartWrite \/ FinishWrite \/ Remove
            \/ FailRemoveShadow \/ FailCommit
  BY <1>11 DEF Preflight, Backup, StartWrite, FinishWrite, Remove, FailRemoveShadow, FailCommit, Paused
<1>12. ASSUME NEW p \in Paths, ExternalWrite(p)
       PROVE  QuietInv'
  BY <1>12 DEF ExternalWrite, Paused
<1>13. CASE UNCHANGED vars
  BY <1>13 DEF vars, Paused
<1>14. QED
  BY <1>1, <1>2, <1>3, <1>4, <1>5, <1>6, <1>7, <1>8, <1>9, <1>10, <1>11, <1>12, <1>13
     DEF Next, AppStep, PipeStep, CommitStep, DiscardStep

\* Where there are neither records nor shadow files, processes see the real directory.
LEMMA EmptyShowsReal ==
    ASSUME TypeInv, changes = NoRecords, shadow = NoFiles
    PROVE  Views = real
<1>1. \A p \in Paths : View(p) = real[p]
  BY DEF View, Hidden, RenamedInto, NoRecords, NoRecord, NoFiles
<1>2. QED
  BY <1>1 DEF Views, TypeInv, FilesType

\* If a commit or discard waits for the requests under way, then processes see the
\* real directory when it has removed the records: no shadow file outlives them,
\* whatever fails or crashes before.
THEOREM FinishedShowsReal == ASSUME Quiet PROVE Spec => []FinishedViewIsReal
<1>1. Init => TypeInv /\ QuietInv
  BY InitType DEF Init, QuietInv, Paused, NoRequest, Emptied, Forgotten
<1>2. TypeInv /\ QuietInv /\ [Next]_vars => TypeInv' /\ QuietInv'
  BY NextType, QuietKept
<1>3. TypeInv /\ QuietInv => FinishedViewIsReal
  BY EmptyShowsReal DEF QuietInv, FinishedViewIsReal, Emptied, Forgotten
<1>4. QED
  BY <1>1, <1>2, <1>3, PTL DEF Spec

-----------------------------------------------------------------------------
(***************************************************************************)
(* Who has a shadow file open, or is about to.                              *)
(***************************************************************************)
Holders(p) == {x \in Apps : app[x].pc \in {"granted", "open"} /\ app[x].path = p}

HolderInv ==
    /\ \A p \in Paths : Holders(p) # {} => Recorded(p) /\ ~Hidden(p)
    /\ drv.pc \in {"tombstone", "moved"} => shadow[drv.path] = NoFile /\ Holders(drv.path) = {}
    /\ drv.pc = "moved" => ~Recorded(drv.target)

\* Storing a record for one path leaves the other records.
LEMMA UpsertEffect ==
    ASSUME TypeInv, NEW p \in Paths, NEW state, NEW target, state # "none",
           changes' = Upsert(p, state, target)
    PROVE  /\ changes'[p].state = state /\ changes'[p].target = target
           /\ \A q \in Paths \ {p} : changes'[q] = changes[q]
  BY DEF Upsert, TypeInv, RecordsType

\* The steps of the driver message thread.
LEMMA DriverHolders ==
    ASSUME Quiet, "race" \notin Hazards, TypeInv, QuietInv, HolderInv, DriverStep
    PROVE  HolderInv'
<1> USE DEF HolderInv
<1>1. ASSUME NEW x \in Apps, NEW p \in Paths, Query(x, p)
      PROVE  HolderInv'
  <2>1. \A q \in Paths : Holders(q)' \subseteq Holders(q)
    BY <1>1 DEF Query, Becomes, Idle, Holders, TypeInv, AppType
  <2>2. UNCHANGED changes /\ drv'.pc \notin {"tombstone", "moved"}
    BY <1>1 DEF Query, Request, Serves
  <2>3. QED
    BY <2>1, <2>2 DEF Recorded, Hidden
<1>2. ASSUME NEW x \in Apps, CopyOnWrite(x)
      PROVE  HolderInv'
  <2>1. UNCHANGED <<changes, app>> /\ drv'.pc \notin {"tombstone", "moved"}
    BY <1>2 DEF CopyOnWrite, Request
  <2>2. QED
    BY <2>1 DEF Recorded, Hidden, Holders
<1>3. CASE FinishCopy \/ FailCopy
  <2>1. \A q \in Paths : Holders(q)' \subseteq Holders(q)
    BY <1>3 DEF FinishCopy, FailCopy, Becomes, Holders, TypeInv, AppType
  <2>2. UNCHANGED changes
    BY <1>3 DEF FinishCopy, FailCopy
  <2>3. drv'.pc \notin {"tombstone", "moved"}
    BY <1>3 DEF FinishCopy, FailCopy, NoRequest, TypeInv, DrvType, Requests
  <2>4. QED
    BY <2>1, <2>2, <2>3 DEF Recorded, Hidden
<1>4. CASE Persist
  <2>1. PICK p \in Paths : p = drv.path
    BY <1>4 DEF Persist, TypeInv, DrvType
  <2>2. drv.app \in Apps /\ drv.state \in {"created", "modified", "tombstone"}
    BY <1>4 DEF Persist, TypeInv, DrvType
  <2>3. changes'[p].state = drv.state /\ \A q \in Paths \ {p} : changes'[q] = changes[q]
    BY <1>4, <2>1, <2>2, UpsertEffect DEF Persist
  <2>4. \A q \in Paths \ {p} : Holders(q)' \subseteq Holders(q)
    BY <1>4, <2>1, <2>2 DEF Persist, Becomes, Holders, TypeInv, AppType
  <2>5. drv.pc = "tombstone" => Holders(p)' = {}
    BY <1>4, <2>1 DEF Persist, Holders
  <2>6. drv.pc = "persist" => drv.state # "tombstone"
    BY DEF TypeInv, DrvType
  <2>7. drv'.pc = "idle" /\ drv.pc \in {"persist", "tombstone"}
    BY <1>4 DEF Persist, NoRequest
  <2>8. QED
    BY <2>1, <2>2, <2>3, <2>4, <2>5, <2>6, <2>7 DEF Recorded, Hidden
<1>5. CASE FailPersist
  <2>1. \A q \in Paths : Holders(q)' \subseteq Holders(q)
    BY <1>5 DEF FailPersist, Becomes, Holders, TypeInv, AppType
  <2>2. UNCHANGED changes /\ drv'.pc = "idle"
    BY <1>5 DEF FailPersist, NoRequest
  <2>3. QED
    BY <2>1, <2>2 DEF Recorded, Hidden
<1>6. ASSUME NEW x \in Apps, NEW p \in Paths, Delete(x, p)
      PROVE  HolderInv'
  <2>1. \A q \in Paths : Holders(q)' \subseteq Holders(q)
    BY <1>6 DEF Delete, Becomes, Holders, TypeInv, AppType
  <2>2. Holders(p)' = {}
    BY <1>6 DEF Delete, HeldByOther, Holds, Becomes, Holders, TypeInv, AppType
  <2>3. UNCHANGED changes /\ drv'.pc = "tombstone" /\ drv'.path = p
    BY <1>6 DEF Delete, Request
  <2>4. shadow'[p] = NoFile
    BY <1>6 DEF Delete, TypeInv, FilesType
  <2>5. QED
    BY <2>1, <2>2, <2>3, <2>4 DEF Recorded, Hidden
<1>7. ASSUME NEW x \in Apps, NEW p \in Paths, NEW q \in Paths, Rename(x, p, q)
      PROVE  HolderInv'
  <2>1. \A r \in Paths : Holders(r)' \subseteq Holders(r)
    BY <1>7 DEF Rename, Becomes, Holders, TypeInv, AppType
  <2>2. Holders(p)' = {}
    BY <1>7 DEF Rename, HeldByOther, Holds, Becomes, Holders, TypeInv, AppType
  <2>3. drv'.pc = "moved" /\ drv'.path = p /\ drv'.target = q /\ p # q /\ ~Recorded(q)
    BY <1>7 DEF Rename, RenameAllowed, Request
  <2>4. shadow'[p] = NoFile
    BY <1>7, <2>3 DEF Rename, TypeInv, FilesType
  <2>5. \A r \in Paths \ {p} : changes'[r] = changes[r]
    BY <1>7, UpsertEffect DEF Rename
  <2>6. QED
    BY <2>1, <2>2, <2>3, <2>4, <2>5 DEF Recorded, Hidden
<1>8. CASE RecordRename
  <2>1. drv.pc = "moved" /\ drv.path \in Paths /\ drv'.pc \in {"unrecorded", "idle"} /\ UNCHANGED app
    BY <1>8 DEF RecordRename, NoRequest, TypeInv, DrvType, Requests
  <2>2. \A q \in Paths \ {drv.path} : changes'[q] = changes[q]
    BY <1>8, <2>1, UpsertEffect DEF RecordRename, TypeInv, RecordsType
  <2>3. QED
    BY <2>1, <2>2 DEF Recorded, Hidden, Holders
<1>9. CASE RecordRenamedCreation
  <2>1. drv.pc = "unrecorded" /\ drv.target \in Paths /\ drv'.pc = "idle" /\ UNCHANGED app
    BY <1>9 DEF RecordRenamedCreation, NoRequest, TypeInv, DrvType
  <2>2. changes'[drv.target].state = "created" /\ \A q \in Paths \ {drv.target} : changes'[q] = changes[q]
    BY <1>9, <2>1, UpsertEffect DEF RecordRenamedCreation
  <2>3. QED
    BY <2>1, <2>2 DEF Recorded, Hidden, Holders
<1>10. CASE DirectoryView
  <2>1. UNCHANGED <<changes, app, drv>> /\ drv.pc = "idle"
    BY <1>10 DEF DirectoryView, Serves
  <2>2. QED
    BY <2>1 DEF Recorded, Hidden, Holders
<1>11. QED
  BY <1>1, <1>2, <1>3, <1>4, <1>5, <1>6, <1>7, <1>8, <1>9, <1>10 DEF DriverStep

\* Every step keeps a record for who has a shadow file open.
LEMMA HoldersKept ==
    ASSUME Quiet, "race" \notin Hazards, TypeInv, QuietInv, HolderInv, [Next]_vars
    PROVE  HolderInv'
<1> USE DEF HolderInv
<1>1. CASE DriverStep
  BY <1>1, DriverHolders
<1>2. ASSUME NEW x \in Apps, Abandon(x) \/ Close(x) \/ OpenShadow(x) \/ Write(x)
      PROVE  HolderInv'
  <2>1. \A q \in Paths : Holders(q)' \subseteq Holders(q)
    BY <1>2 DEF Abandon, Close, OpenShadow, Write, Becomes, Holders, TypeInv, AppType
  <2>2. UNCHANGED <<changes, drv>>
    BY <1>2 DEF Abandon, Close, OpenShadow, Write
  <2>3. \A p \in Paths : Holders(p) = {} => shadow'[p] = shadow[p]
    BY <1>2 DEF Abandon, Close, OpenShadow, Write, files, Holders, TypeInv, FilesType, AppType
  <2>4. drv.pc \in {"tombstone", "moved"} => drv.path \in Paths
    BY DEF TypeInv, DrvType
  <2>5. QED
    BY <2>1, <2>2, <2>3, <2>4 DEF Recorded, Hidden
<1>3. CASE Forget
  <2>1. UNCHANGED app /\ \A q \in Paths : Holders(q) = {}
    BY <1>3 DEF Forget, QuietInv, Paused, Emptied, Holders
  <2>2. drv'.pc = "idle"
    BY <1>3 DEF Forget, QuietInv, Paused
  <2>3. QED
    BY <2>1, <2>2 DEF Holders
<1>4. CASE Crash
  <2>1. \A q \in Paths : Holders(q)' \subseteq Holders(q)
    BY <1>4 DEF Crash, Idle, Holders
  <2>2. UNCHANGED changes /\ drv'.pc = "idle"
    BY <1>4 DEF Crash, NoRequest
  <2>3. QED
    BY <2>1, <2>2 DEF Recorded, Hidden
<1>5. CASE PipeStep /\ ~Forget
  <2>1. UNCHANGED <<changes, app, drv>>
    BY <1>5 DEF PipeStep, CommitStep, DiscardStep, Check, Preflight, Backup, StartWrite, FinishWrite,
                Remove, RemoveShadow, FailRemoveShadow, FailCommit, LogCommit, Isolate, FailIsolate,
                RollbackDiscard, Enqueue, Pause, Resume
  <2>2. UNCHANGED shadow \/ drv.pc = "idle"
    BY <1>5 DEF PipeStep, CommitStep, DiscardStep, Check, Preflight, Backup, StartWrite, FinishWrite,
                Remove, RemoveShadow, FailRemoveShadow, FailCommit, LogCommit, Isolate, FailIsolate,
                RollbackDiscard, Enqueue, Pause, Resume, files, QuietInv, Paused
  <2>3. QED
    BY <2>1, <2>2 DEF Recorded, Hidden, Holders
<1>6. ASSUME NEW p \in Paths, ExternalWrite(p)
      PROVE  HolderInv'
  BY <1>6 DEF ExternalWrite, Recorded, Hidden, Holders
<1>7. CASE UNCHANGED vars
  BY <1>7 DEF vars, Recorded, Hidden, Holders
<1>8. QED
  BY <1>1, <1>2, <1>3, <1>4, <1>5, <1>6, <1>7 DEF Next, AppStep

\* At the start nobody has a file open.
LEMMA InitHolders == Init => QuietInv /\ HolderInv
  BY DEF Init, QuietInv, HolderInv, Paused, Emptied, Forgotten, NoRequest, Idle, Holders

\* A process that has a shadow file open for writing writes to a path with a record,
\* whatever crashes, failures and early handles there are, if a commit waits for the
\* requests under way and no file goes away while another process's open is granted.
THEOREM WritesAreRecorded ==
    ASSUME Quiet, "race" \notin Hazards
    PROVE  Spec => []WritersAreRecorded
<1>1. Init => TypeInv /\ QuietInv /\ HolderInv
  BY InitType, InitHolders
<1>2. TypeInv /\ QuietInv /\ HolderInv /\ [Next]_vars => TypeInv' /\ QuietInv' /\ HolderInv'
  BY NextType, QuietKept, HoldersKept
<1>3. TypeInv /\ HolderInv => WritersAreRecorded
  BY DEF HolderInv, Holders, WritersAreRecorded, TypeInv, AppType
<1>4. QED
  BY <1>1, <1>2, <1>3, PTL DEF Spec

-----------------------------------------------------------------------------
(***************************************************************************)
(* The view while a commit applies the records.                             *)
(***************************************************************************)

\* A shadow file under a path that is hidden and that a rename names as its target.
\* It would make the commit bring the target back over the source of another rename.
Stale(t, tree) == Hidden(t) /\ tree[t] # NoFile /\ RenamedInto(t) # {}

\* Such a file is there only while a copy-on-write is about to record its path again,
\* or while a real file is at the path, which Preflight refuses.
StaleInv ==
    /\ \A t \in Paths : Stale(t, shadow) =>
           IF "external" \in Hazards THEN drv.pc \in {"copying", "persist"} /\ drv.path = t
                                     ELSE real[t] # NoFile
    /\ pc = "forget_discard" =>
           \A t \in Paths : Stale(t, staged) => "external" \notin Hazards /\ real[t] # NoFile
    /\ drv.pc = "copying" =>
           IF drv.state = "none" THEN ~Hidden(drv.path) ELSE drv.from = drv.path

\* What happens to files from outside, or else what goes wrong inside, is left out.
Attended == "external" \notin Hazards \/ Hazards \intersect {"crash", "fault"} = {}

Covered(p) == Recorded(p) \/ RenamedInto(p) # {}

\* The records are those of the preflight, a shadow file is there for each of them,
\* nobody holds it, and no rename leads to a path that is hidden.
ListedInv ==
    /\ recs = changes /\ \A p \in todo : Recorded(p)
    /\ \A p \in Paths : Covered(p) /\ ~Hidden(p) => shadow[p] # NoFile /\ ~Held(p)
    /\ \A r \in Paths : changes[r].state = "renamed" => ~Hidden(changes[r].target)
    /\ pc \in {"write", "writing"} => NeedsShadow(changes[Current])
    /\ pc = "remove" => Hidden(Current)

\* A record that is applied has its effect on the real files.
AppliedInv ==
    /\ \A r \in Paths \ todo : Hidden(r) => real[r] = NoFile
    /\ \A r \in Paths \ todo : NeedsShadow(changes[r]) =>
           LET s == ShadowOf(r, changes)
           IN  real[s] = shadow[s] \/ (pc = "writing" /\ s = CurrentTarget)
    /\ pc = "remove" /\ NeedsShadow(changes[Current]) => real[CurrentTarget] = shadow[CurrentTarget]

ViewInv ==
    /\ StaleInv
    /\ pc \in Applying => ListedInv /\ AppliedInv
    /\ pc = "forget_commit" => \A r \in Paths : Hidden(r) => real[r] = NoFile

\* The renames into a path after a record was stored.
LEMMA UpsertRenames ==
    ASSUME TypeInv, NEW p \in Paths, NEW state, NEW target, state # "none",
           changes' = Upsert(p, state, target)
    PROVE  \A t \in Paths : ~(state = "renamed" /\ t = target) => RenamedInto(t)' \subseteq RenamedInto(t)
<1>1. SUFFICES ASSUME NEW t \in Paths, ~(state = "renamed" /\ t = target), NEW r \in RenamedInto(t)'
               PROVE  r \in RenamedInto(t)
  OBVIOUS
<1>2. r # p
  BY <1>1, UpsertEffect DEF RenamedInto
<1>3. QED
  BY <1>1, <1>2, UpsertEffect DEF RenamedInto

\* No step of the driver message thread leaves a stale file behind.
LEMMA DriverStale ==
    ASSUME Quiet, "race" \notin Hazards, Attended, TypeInv, QuietInv, HolderInv, StaleInv, DriverStep
    PROVE  StaleInv'
<1> DEFINE Copies == drv'.pc = "copying" =>
                         IF drv'.state = "none" THEN changes'[drv'.path].state \notin {"tombstone", "renamed"}
                                                ELSE drv'.from = drv'.path
           Busy(t) == IF "external" \in Hazards
                      THEN drv'.pc \in {"copying", "persist"} /\ drv'.path = t
                      ELSE real'[t] # NoFile
<1>1. pc' # "forget_discard"
  BY NothingServed DEF Paused
<1>2. SUFFICES Copies /\ \A t \in Paths : Stale(t, shadow)' => Busy(t)
  BY <1>1 DEF StaleInv, Hidden
<1>3. Serves => \A t \in Paths : Stale(t, shadow) => "external" \notin Hazards /\ real[t] # NoFile
  BY DEF StaleInv, Serves
<1>4. UNCHANGED changes => \A t \in Paths : Hidden(t)' = Hidden(t) /\ RenamedInto(t)' = RenamedInto(t)
  BY DEF Hidden, RenamedInto
<1>5. UNCHANGED real
  BY DEF DriverStep, Query, Delete, Rename, CopyOnWrite, FinishCopy, FailCopy, Persist, FailPersist,
         RecordRename, RecordRenamedCreation, DirectoryView, files
<1>6. ASSUME NEW x \in Apps, NEW p \in Paths, Query(x, p)
      PROVE  Copies /\ \A t \in Paths : Stale(t, shadow)' => Busy(t)
  <2>1. Serves /\ UNCHANGED changes /\ ~Hidden(p) /\ drv.pc = "idle"
    BY <1>6 DEF Query, Serves
  <2>2. \A t \in Paths : t # p => shadow'[t] = shadow[t]
    BY <1>6 DEF Query, TypeInv, FilesType
  <2>3. \A t \in Paths : Stale(t, shadow)' => Stale(t, shadow)
    BY <1>4, <2>1, <2>2 DEF Stale
  <2>4. Copies
    <3>1. UNCHANGED drv \/ (drv'.path = p /\ drv'.state = "none")
      BY <1>6 DEF Query, Request
    <3>2. QED
      BY <1>4, <2>1, <3>1 DEF Hidden
  <2>5. QED
    BY <1>3, <1>5, <2>1, <2>3, <2>4
<1>7. ASSUME NEW x \in Apps, CopyOnWrite(x)
      PROVE  Copies /\ \A t \in Paths : Stale(t, shadow)' => Busy(t)
  <2>1. PICK p \in Paths : p = app[x].path
    BY <1>7 DEF CopyOnWrite, TypeInv, AppType
  <2>2. Serves /\ UNCHANGED changes
    BY <1>7 DEF CopyOnWrite
  <2>3. drv'.pc \in {"copying", "persist"} /\ drv'.path = p /\ drv'.from = p /\ drv'.state # "none"
    BY <1>7, <2>1 DEF CopyOnWrite, Request
  <2>4. /\ \A t \in Paths : t # p => shadow'[t] = shadow[t]
        /\ shadow'[p] # shadow[p] => real[p] # NoFile
    BY <1>7, <2>1 DEF CopyOnWrite, TypeInv, FilesType
  <2>5. \A t \in Paths : shadow'[t] = shadow[t] => (Stale(t, shadow)' => Stale(t, shadow))
    BY <1>4, <2>2 DEF Stale
  <2>6. QED
    BY <1>3, <1>5, <2>2, <2>3, <2>4, <2>5
<1>8. CASE FinishCopy
  <2>1. PICK p \in Paths : p = drv.path
    BY <1>8 DEF FinishCopy, TypeInv, DrvType
  <2>2. UNCHANGED changes /\ drv.pc = "copying" /\ real[drv.from] # NoFile
    BY <1>8 DEF FinishCopy
  <2>3. \A t \in Paths : t # p => shadow'[t] = shadow[t]
    BY <1>8, <2>1 DEF FinishCopy, TypeInv, FilesType
  <2>4. drv'.pc \in {"idle", "persist"} /\ (drv.state # "none" => drv'.pc = "persist" /\ drv'.path = p)
    BY <1>8, <2>1 DEF FinishCopy, NoRequest, TypeInv, DrvType, Requests
  <2>5. ASSUME NEW t \in Paths, Stale(t, shadow)'
        PROVE  Busy(t)
    <3>1. CASE t # p
      <4>1. Stale(t, shadow)
        BY <1>4, <2>2, <2>3, <2>5, <3>1 DEF Stale
      <4>2. QED
        BY <1>5, <2>1, <3>1, <4>1 DEF StaleInv
    <3>2. CASE t = p
      <4>1. Hidden(p)
        BY <1>4, <2>2, <2>5, <3>2 DEF Stale
      <4>2. drv.state # "none" /\ drv.from = p
        BY <2>1, <2>2, <4>1 DEF StaleInv
      <4>3. QED
        BY <1>5, <2>2, <2>4, <3>2, <4>2
    <3>3. QED
      BY <3>1, <3>2
  <2>6. QED
    BY <2>4, <2>5
<1>9. CASE FailCopy
  <2>1. PICK p \in Paths : p = drv.path
    BY <1>9 DEF FailCopy, TypeInv, DrvType
  <2>2. UNCHANGED changes /\ drv'.pc = "idle"
    BY <1>9 DEF FailCopy, NoRequest
  <2>3. shadow'[p] = NoFile /\ \A t \in Paths : t # p => shadow'[t] = shadow[t]
    BY <1>9, <2>1 DEF FailCopy, TypeInv, FilesType
  <2>4. \A t \in Paths : Stale(t, shadow)' => t # p /\ Stale(t, shadow)
    BY <1>4, <2>2, <2>3 DEF Stale
  <2>5. QED
    BY <1>5, <2>1, <2>2, <2>4 DEF StaleInv
<1>10. CASE Persist
  <2>1. PICK p \in Paths : p = drv.path
    BY <1>10 DEF Persist, TypeInv, DrvType
  <2>2. /\ drv.pc \in {"persist", "tombstone"} /\ drv'.pc = "idle" /\ UNCHANGED shadow
        /\ changes' = Upsert(p, drv.state, NoPath)
        /\ drv.state \in {"created", "modified", "tombstone"}
        /\ drv.pc = "persist" => drv.state # "tombstone"
    BY <1>10, <2>1 DEF Persist, NoRequest, files, TypeInv, DrvType
  <2>3. changes'[p].state = drv.state /\ \A q \in Paths \ {p} : changes'[q] = changes[q]
    BY <2>2, UpsertEffect
  <2>4. \A t \in Paths : RenamedInto(t)' \subseteq RenamedInto(t)
    BY <2>2, UpsertRenames
  <2>5. drv.pc = "tombstone" => shadow[p] = NoFile
    BY <2>1 DEF HolderInv
  <2>6. \A t \in Paths : Stale(t, shadow)' => t # p /\ Stale(t, shadow)
    BY <2>2, <2>3, <2>4, <2>5 DEF Stale, Hidden
  <2>7. QED
    BY <1>5, <2>1, <2>2, <2>6 DEF StaleInv
<1>11. CASE FailPersist
  <2>1. UNCHANGED <<changes, shadow>> /\ "external" \notin Hazards /\ drv'.pc = "idle"
    BY <1>11 DEF FailPersist, files, Attended, NoRequest
  <2>2. \A t \in Paths : Stale(t, shadow)' => Stale(t, shadow)
    BY <1>4, <2>1 DEF Stale
  <2>3. QED
    BY <1>5, <2>1, <2>2 DEF StaleInv
<1>12. ASSUME NEW x \in Apps, NEW p \in Paths, Delete(x, p)
       PROVE  Copies /\ \A t \in Paths : Stale(t, shadow)' => Busy(t)
  <2>1. Serves /\ UNCHANGED changes /\ drv'.pc = "tombstone"
    BY <1>12 DEF Delete, Request
  <2>2. \A t \in Paths : shadow'[t] \in {shadow[t], NoFile}
    BY <1>12 DEF Delete, TypeInv, FilesType
  <2>3. \A t \in Paths : Stale(t, shadow)' => Stale(t, shadow)
    BY <1>4, <2>1, <2>2 DEF Stale
  <2>4. QED
    BY <1>3, <1>5, <2>1, <2>3
<1>13. ASSUME NEW x \in Apps, NEW p \in Paths, NEW q \in Paths, Rename(x, p, q)
       PROVE  Copies /\ \A t \in Paths : Stale(t, shadow)' => Busy(t)
  <2>1. Serves /\ p # q /\ ~Recorded(q) /\ drv'.pc = "moved"
    BY <1>13 DEF Rename, RenameAllowed, Request
  <2>2. shadow'[p] = NoFile /\ \A t \in Paths \ {p, q} : shadow'[t] = shadow[t]
    BY <1>13, <2>1 DEF Rename, TypeInv, FilesType
  <2>3. UNCHANGED changes \/ changes' = Upsert(p, "modified", NoPath)
    BY <1>13 DEF Rename
  <2>4. /\ \A t \in Paths \ {p} : changes'[t] = changes[t]
        /\ \A t \in Paths : RenamedInto(t)' \subseteq RenamedInto(t)
    BY <1>4, <2>3, UpsertEffect, UpsertRenames
  <2>5. \A t \in Paths : Stale(t, shadow)' => Stale(t, shadow)
    BY <2>1, <2>2, <2>4 DEF Stale, Hidden, Recorded
  <2>6. QED
    BY <1>3, <1>5, <2>1, <2>5
<1>14. CASE RecordRename
  <2>1. PICK p \in Paths, q \in Paths : p = drv.path /\ q = drv.target
    BY <1>14 DEF RecordRename, TypeInv, DrvType
  <2>2. drv.pc = "moved" /\ drv'.pc \in {"unrecorded", "idle"} /\ UNCHANGED shadow
    BY <1>14 DEF RecordRename, NoRequest, files, TypeInv, DrvType, Requests
  <2>3. shadow[p] = NoFile /\ ~Recorded(q)
    BY <2>1, <2>2 DEF HolderInv
  <2>4. changes' = [changes EXCEPT ![p] = NoRecord] \/ changes' = Upsert(p, "renamed", q)
    BY <1>14, <2>1 DEF RecordRename
  <2>5. \A t \in Paths \ {p} : changes'[t] = changes[t]
    BY <2>4, UpsertEffect DEF TypeInv, RecordsType
  <2>6. \A t \in Paths \ {q} : RenamedInto(t)' \subseteq RenamedInto(t)
    <3>1. CASE changes' = Upsert(p, "renamed", q)
      BY <3>1, UpsertRenames
    <3>2. CASE changes' = [changes EXCEPT ![p] = NoRecord]
      BY <3>2 DEF RenamedInto, NoRecord, TypeInv, RecordsType
    <3>3. QED
      BY <2>4, <3>1, <3>2
  <2>7. \A t \in Paths : Stale(t, shadow)' => Stale(t, shadow)
    BY <2>2, <2>3, <2>5, <2>6 DEF Stale, Hidden, Recorded
  <2>8. QED
    BY <1>5, <2>2, <2>7 DEF StaleInv
<1>15. CASE RecordRenamedCreation
  <2>1. PICK q \in Paths : q = drv.target
    BY <1>15 DEF RecordRenamedCreation, TypeInv, DrvType
  <2>2. drv.pc = "unrecorded" /\ drv'.pc = "idle" /\ UNCHANGED shadow /\ changes' = Upsert(q, "created", NoPath)
    BY <1>15, <2>1 DEF RecordRenamedCreation, NoRequest, files
  <2>3. changes'[q].state = "created" /\ \A t \in Paths \ {q} : changes'[t] = changes[t]
    BY <2>2, UpsertEffect
  <2>4. \A t \in Paths : RenamedInto(t)' \subseteq RenamedInto(t)
    BY <2>2, UpsertRenames
  <2>5. \A t \in Paths : Stale(t, shadow)' => Stale(t, shadow)
    BY <2>2, <2>3, <2>4 DEF Stale, Hidden
  <2>6. QED
    BY <1>5, <2>2, <2>5 DEF StaleInv
<1>16. CASE DirectoryView
  <2>1. Serves /\ UNCHANGED <<changes, drv>> /\ drv.pc = "idle"
    BY <1>16 DEF DirectoryView, Serves
  <2>2. \A t \in Paths : Hidden(t) => shadow'[t] \in {shadow[t], NoFile}
    BY <1>16 DEF DirectoryView
  <2>3. \A t \in Paths : Stale(t, shadow)' => Stale(t, shadow)
    BY <1>4, <2>1, <2>2 DEF Stale
  <2>4. QED
    BY <1>3, <1>5, <2>1, <2>3
<1>17. QED
  BY <1>6, <1>7, <1>8, <1>9, <1>10, <1>11, <1>12, <1>13, <1>14, <1>15, <1>16 DEF DriverStep

\* While a commit applies, no rename leads to a hidden path, so nothing is stale.
LEMMA ListedNotStale ==
    ASSUME TypeInv, ListedInv
    PROVE  \A t \in Paths : ~(Hidden(t) /\ RenamedInto(t) # {})
  BY DEF ListedInv, RenamedInto

\* The other steps leave no stale file behind either.
LEMMA StaleKept ==
    ASSUME Quiet, "race" \notin Hazards, Attended, TypeInv, QuietInv, HolderInv, ViewInv, [Next]_vars
    PROVE  StaleInv'
<1> USE DEF ViewInv
<1>1. CASE DriverStep
  BY <1>1, DriverStale
<1>2. SUFFICES ASSUME ~DriverStep
               PROVE  StaleInv'
  BY <1>1
<1>3. UNCHANGED changes => \A t \in Paths : Hidden(t)' = Hidden(t) /\ RenamedInto(t)' = RenamedInto(t)
  BY DEF Hidden, RenamedInto
<1>4. UNCHANGED <<changes, drv>> =>
          (drv'.pc = "copying" => IF drv'.state = "none" THEN ~Hidden(drv.path)' ELSE drv'.from = drv'.path)
  BY DEF StaleInv, Hidden
<1>5. Paused => drv.pc = "idle"
  BY DEF QuietInv
<1>6. CASE Forget \/ Crash
  <2>1. drv'.pc = "idle" /\ pc' # "forget_discard"
    BY <1>5, <1>6 DEF Forget, Crash, NoRequest, Paused
  <2>2. ASSUME NEW t \in Paths, Stale(t, shadow)'
        PROVE  "external" \notin Hazards /\ real'[t] # NoFile
    <3>1. Crash
      BY <1>6, <2>2 DEF Forget, Stale, Hidden, NoRecords, NoRecord
    <3>2. UNCHANGED <<files, changes>> /\ "external" \notin Hazards
      BY <3>1 DEF Crash, Attended
    <3>3. Stale(t, shadow)
      BY <1>3, <2>2, <3>2 DEF Stale, files
    <3>4. QED
      BY <3>2, <3>3 DEF StaleInv, files
  <2>3. QED
    BY <2>1, <2>2 DEF StaleInv
<1>7. ASSUME NEW x \in Apps, Abandon(x) \/ Close(x) \/ OpenShadow(x) \/ Write(x)
      PROVE  StaleInv'
  <2>1. UNCHANGED <<real, changes, drv, pc, staged>>
    BY <1>7 DEF Abandon, Close, OpenShadow, Write, files
  <2>2. \A t \in Paths : Holders(t) = {} => shadow'[t] = shadow[t]
    BY <1>7 DEF Abandon, Close, OpenShadow, Write, files, Holders, TypeInv, FilesType, AppType
  <2>3. \A t \in Paths : /\ Stale(t, shadow)' => Stale(t, shadow)
                         /\ Stale(t, staged)' => Stale(t, staged)
    BY <1>3, <2>1, <2>2 DEF Stale, HolderInv
  <2>4. QED
    BY <1>4, <2>1, <2>3 DEF StaleInv
<1>8. ASSUME NEW p \in Paths, ExternalWrite(p)
      PROVE  StaleInv'
  <2>1. UNCHANGED <<shadow, changes, drv, pc, staged>> /\ "external" \in Hazards /\ pc # "forget_discard"
    BY <1>8 DEF ExternalWrite, Paused
  <2>2. \A t \in Paths : Stale(t, shadow)' => Stale(t, shadow)
    BY <1>3, <2>1 DEF Stale
  <2>3. QED
    BY <1>4, <2>1, <2>2 DEF StaleInv
<1>9. CASE UNCHANGED vars
  <2>1. UNCHANGED <<real, shadow, changes, drv, pc, staged>>
    BY <1>9 DEF vars
  <2>2. \A t \in Paths : /\ Stale(t, shadow)' => Stale(t, shadow)
                         /\ Stale(t, staged)' => Stale(t, staged)
    BY <1>3, <2>1 DEF Stale
  <2>3. QED
    BY <1>4, <2>1, <2>2 DEF StaleInv
<1>10. CASE Isolate
  <2>1. UNCHANGED <<real, changes, drv>> /\ staged' = shadow /\ shadow' = NoFiles /\ drv.pc = "idle"
    BY <1>5, <1>10 DEF Isolate, Paused
  <2>2. \A t \in Paths : ~Stale(t, shadow)' /\ (Stale(t, staged)' => Stale(t, shadow))
    BY <1>3, <2>1 DEF Stale, NoFiles
  <2>3. QED
    BY <1>4, <2>1, <2>2 DEF StaleInv
<1>11. CASE RollbackDiscard
  <2>1. UNCHANGED <<real, changes, drv>> /\ pc = "forget_discard" /\ pc' = "discard_failed"
    BY <1>11 DEF RollbackDiscard
  <2>2. drv.pc = "idle" /\ (UNCHANGED shadow \/ shadow' = staged)
    BY <1>5, <1>11 DEF RollbackDiscard, Paused
  <2>3. \A t \in Paths : Stale(t, shadow)' => Stale(t, shadow) \/ Stale(t, staged)
    BY <1>3, <2>1, <2>2 DEF Stale
  <2>4. QED
    BY <1>4, <2>1, <2>2, <2>3 DEF StaleInv
<1>12. CASE StartWrite \/ FinishWrite \/ Remove \/ (FailCommit /\ pc = "writing")
  <2>1. UNCHANGED <<shadow, changes, drv, staged>> /\ pc \in Applying /\ pc' # "forget_discard"
    BY <1>12 DEF StartWrite, FinishWrite, Remove, FailCommit, Applying
  <2>2. \A t \in Paths : ~Stale(t, shadow)
    BY <2>1, ListedNotStale DEF Stale
  <2>3. \A t \in Paths : ~Stale(t, shadow)'
    BY <1>3, <2>1, <2>2 DEF Stale
  <2>4. QED
    BY <1>4, <2>1, <2>3 DEF StaleInv
<1>13. CASE \/ Preflight \/ Backup \/ RemoveShadow \/ FailRemoveShadow \/ (FailCommit /\ pc # "writing")
            \/ LogCommit \/ FailIsolate \/ Enqueue \/ Pause \/ Resume
            \/ \E checked \in {"commit_checked", "discard_checked"} : Check(checked)
  <2>1. UNCHANGED <<real, changes, drv>> /\ pc' # "forget_discard"
    BY <1>13 DEF Preflight, Backup, RemoveShadow, FailRemoveShadow, FailCommit, LogCommit, FailIsolate,
                 Enqueue, Pause, Resume, Check, files
  <2>2. \A t \in Paths : shadow'[t] = shadow[t] \/ shadow'[t] = NoFile
    BY <1>13 DEF Preflight, Backup, RemoveShadow, FailRemoveShadow, FailCommit, LogCommit, FailIsolate,
                 Enqueue, Pause, Resume, Check, files, NoFiles
  <2>3. \A t \in Paths : Stale(t, shadow)' => Stale(t, shadow)
    BY <1>3, <2>1, <2>2 DEF Stale
  <2>4. QED
    BY <1>4, <2>1, <2>3 DEF StaleInv
<1>14. QED
  BY <1>2, <1>6, <1>7, <1>8, <1>9, <1>10, <1>11, <1>12, <1>13
     DEF Next, AppStep, PipeStep, CommitStep, DiscardStep

-----------------------------------------------------------------------------
(***************************************************************************)
(* A commit that applies its records.                                       *)
(***************************************************************************)

\* A record that needs a shadow file covers the path of that file, which is not
\* hidden.
LEMMA ShadowCovered ==
    ASSUME TypeInv, ListedInv, NEW r \in Paths, NeedsShadow(changes[r]),
           NEW s, s = ShadowOf(r, changes)
    PROVE  s \in Paths /\ Covered(s) /\ ~Hidden(s) /\ shadow[s] # NoFile /\ ~Held(s)
<1>1. changes[r] \in Records
  BY DEF TypeInv, RecordsType
<1>2. s \in Paths /\ Covered(s) /\ ~Hidden(s)
  BY <1>1 DEF NeedsShadow, ShadowOf, ListedInv, Covered, Recorded, RenamedInto, Hidden, Records
<1>3. QED
  BY <1>2 DEF ListedInv

\* And a path that is covered and not hidden has a record that needs its shadow file.
LEMMA CoveredShadow ==
    ASSUME TypeInv, NEW p \in Paths, Covered(p), ~Hidden(p)
    PROVE  \E r \in Paths : NeedsShadow(changes[r]) /\ ShadowOf(r, changes) = p
<1>1. changes[p] \in Records
  BY DEF TypeInv, RecordsType
<1>2. CASE Recorded(p)
  BY <1>1, <1>2 DEF Hidden, Recorded, NeedsShadow, ShadowOf, Records, States
<1>3. CASE RenamedInto(p) # {}
  BY <1>3 DEF RenamedInto, NeedsShadow, ShadowOf
<1>4. QED
  BY <1>2, <1>3 DEF Covered

\* The preflight establishes what a commit relies on.
LEMMA PreflightLists ==
    ASSUME TypeInv, QuietInv, HolderInv, ViewInv, Preflight
    PROVE  ListedInv' /\ AppliedInv'
<1>1. /\ UNCHANGED <<real, shadow, changes, app, drv>> /\ pc' = "backup" /\ recs' = changes
      /\ todo' = {r \in Paths : Recorded(r)} /\ drv.pc = "idle"
  BY DEF Preflight, files, QuietInv, Paused
<1>2. \A r \in Paths : Recorded(r) => Committable(r)
  BY DEF Preflight
<1>3. \A r \in Paths : NeedsShadow(changes[r]) =>
          shadow[ShadowOf(r, changes)] # NoFile /\ ~Held(ShadowOf(r, changes))
  BY <1>2 DEF Committable, NeedsShadow, Recorded
<1>4. \A p \in Paths : Covered(p) /\ ~Hidden(p) => shadow[p] # NoFile /\ ~Held(p)
  BY <1>3, CoveredShadow
<1>5. ASSUME NEW r \in Paths, changes[r].state = "renamed"
      PROVE  ~Hidden(changes[r].target)
  <2>1. PICK t \in Paths : t = changes[r].target
    BY <1>5 DEF TypeInv, RecordsType, Records
  <2>2. real[t] = NoFile /\ shadow[t] # NoFile
    BY <1>2, <1>5, <2>1 DEF Committable, NeedsShadow, ShadowOf, Recorded
  <2>3. ~Stale(t, shadow)
    BY <1>1, <2>2 DEF ViewInv, StaleInv
  <2>4. QED
    BY <1>5, <2>1, <2>2, <2>3 DEF Stale, RenamedInto
<1>6. ListedInv'
  BY <1>1, <1>4, <1>5 DEF ListedInv, Recorded, Covered, Hidden, RenamedInto, Held, Holds
<1>7. \A r \in Paths \ todo' : changes[r].state = "none"
  BY <1>1 DEF Recorded
<1>8. AppliedInv'
  BY <1>1, <1>7 DEF AppliedInv, Hidden, NeedsShadow
<1>9. QED
  BY <1>6, <1>8

\* Nothing but the pipe thread, and writes to files no record needs, changes a file
\* or record while a commit applies.
LEMMA ApplyingAlone ==
    ASSUME Quiet, TypeInv, QuietInv, ListedInv, pc \in Applying, [Next]_vars
    PROVE  \/ /\ UNCHANGED <<real, changes, drv, pc, recs, todo>>
              /\ \A x \in Apps : app'[x] = app[x] \/ app'[x].pc # "open"
              /\ \A p \in Paths : Covered(p) /\ ~Hidden(p) => shadow'[p] = shadow[p]
           \/ Backup \/ StartWrite \/ FinishWrite \/ Remove
           \/ RemoveShadow \/ FailRemoveShadow \/ FailCommit \/ Crash
<1>1. Paused /\ \A x \in Apps : app[x].pc # "granted"
  BY DEF QuietInv, Paused, Applying
<1>2. CASE DriverStep
  BY <1>1, <1>2, NothingServed
<1>3. ASSUME NEW x \in Apps, Abandon(x) \/ Close(x)
      PROVE  /\ UNCHANGED <<real, changes, drv, pc, recs, todo, shadow>>
             /\ \A y \in Apps : app'[y] = app[y] \/ app'[y].pc # "open"
  BY <1>3 DEF Abandon, Close, Becomes, files, commit, TypeInv, AppType
<1>4. ASSUME NEW x \in Apps, OpenShadow(x) \/ Write(x)
      PROVE  /\ UNCHANGED <<real, changes, drv, pc, recs, todo, app>>
             /\ \A p \in Paths : Covered(p) /\ ~Hidden(p) => shadow'[p] = shadow[p]
  <2>1. Write(x)
    BY <1>1, <1>4 DEF OpenShadow
  <2>2. PICK q \in Paths : q = app[x].path
    BY <2>1 DEF Write, TypeInv, AppType
  <2>3. Held(q) /\ \A p \in Paths : p # q => shadow'[p] = shadow[p]
    BY <2>1, <2>2 DEF Write, Held, Holds, TypeInv, FilesType
  <2>4. QED
    BY <2>1, <2>3 DEF Write, commit, ListedInv
<1>5. ASSUME NEW p \in Paths, ExternalWrite(p)
      PROVE  FALSE
  BY <1>1, <1>5 DEF ExternalWrite
<1>6. CASE UNCHANGED vars
  BY <1>6 DEF vars
<1>7. QED
  BY <1>2, <1>3, <1>4, <1>5, <1>6
     DEF Next, AppStep, PipeStep, CommitStep, DiscardStep, Check, Preflight, LogCommit, Isolate, FailIsolate,
         RollbackDiscard, Enqueue, Pause, Forget, Resume, Applying

\* The record in hand is listed, and names its path and the path it writes.
LEMMA InHand ==
    ASSUME TypeInv, ListedInv, todo # {}
    PROVE  /\ Current \in todo /\ Current \in Paths /\ Recorded(Current) /\ recs = changes
           /\ CurrentTarget = ShadowOf(Current, changes) /\ CurrentTarget \in Paths
  BY CurrentType DEF ListedInv, CurrentTarget

\* A commit keeps what it relies on, record by record.
LEMMA ApplyKept ==
    ASSUME Quiet, TypeInv, QuietInv, HolderInv, ViewInv, [Next]_vars, pc' \in Applying
    PROVE  ListedInv' /\ AppliedInv'
<1>1. CASE Preflight
  BY <1>1, PreflightLists
<1>2. SUFFICES ASSUME ~Preflight
               PROVE  ListedInv' /\ AppliedInv'
  BY <1>1
<1>3. pc \in Applying /\ ListedInv /\ AppliedInv
  <2>1. pc \in Applying
    <3>1. CASE DriverStep
      BY <3>1, NothingServed
    <3>2. CASE ~DriverStep
      BY <1>2, <3>2
         DEF Next, AppStep, PipeStep, CommitStep, DiscardStep, Check, LogCommit, Isolate, FailIsolate,
             RollbackDiscard, Enqueue, Pause, Forget, Resume, Applying, Abandon, Close, OpenShadow, Write,
             ExternalWrite, Backup, StartWrite, FinishWrite, Remove, RemoveShadow, FailRemoveShadow,
             FailCommit, Crash, vars
    <3>3. QED
      BY <3>1, <3>2
  <2>2. QED
    BY <2>1 DEF ViewInv
<1>4. UNCHANGED changes => \A p \in Paths :
          Recorded(p)' = Recorded(p) /\ Hidden(p)' = Hidden(p) /\ Covered(p)' = Covered(p)
  BY DEF Recorded, Hidden, Covered, RenamedInto
<1>5. CASE /\ UNCHANGED <<real, changes, drv, pc, recs, todo>>
           /\ \A x \in Apps : app'[x] = app[x] \/ app'[x].pc # "open"
           /\ \A p \in Paths : Covered(p) /\ ~Hidden(p) => shadow'[p] = shadow[p]
  <2>1. Current' = Current /\ CurrentTarget' = CurrentTarget
    BY <1>5 DEF Current, CurrentTarget, ShadowOf, First
  <2>2. \A p \in Paths : Held(p)' => Held(p)
    BY <1>5 DEF Held, Holds
  <2>3. ListedInv'
    <3>1. \A p \in Paths : Covered(p)' /\ ~Hidden(p)' => shadow'[p] # NoFile /\ ~Held(p)'
      BY <1>3, <1>4, <1>5, <2>2 DEF ListedInv
    <3>2. todo \subseteq Paths
      BY DEF TypeInv, PipeType
    <3>3. QED
      BY <1>3, <1>4, <1>5, <2>1, <3>1, <3>2 DEF ListedInv, Hidden, Recorded, NeedsShadow
  <2>4. ASSUME NEW r \in Paths, NeedsShadow(changes[r])
        PROVE  shadow'[ShadowOf(r, changes)] = shadow[ShadowOf(r, changes)]
    BY <1>3, <1>5, <2>4, ShadowCovered
  <2>5. AppliedInv'
    <3>1. \A r \in Paths \ todo : Hidden(r)' => real'[r] = NoFile
      BY <1>3, <1>4, <1>5 DEF AppliedInv
    <3>2. \A r \in Paths \ todo : NeedsShadow(changes[r]) =>
              \/ real'[ShadowOf(r, changes)] = shadow'[ShadowOf(r, changes)]
              \/ pc = "writing" /\ ShadowOf(r, changes) = CurrentTarget
      BY <1>3, <1>5, <2>4 DEF AppliedInv
    <3>3. pc = "remove" /\ NeedsShadow(changes[Current]) => real'[CurrentTarget] = shadow'[CurrentTarget]
      <4>1. pc = "remove" => todo # {}
        BY DEF TypeInv, PipeType
      <4>2. QED
        BY <1>3, <1>5, <2>4, <4>1, InHand DEF AppliedInv
    <3>4. QED
      BY <1>5, <2>1, <3>1, <3>2, <3>3 DEF AppliedInv
  <2>6. QED
    BY <2>3, <2>5
<1>6. CASE Backup
  <2>1. /\ UNCHANGED <<real, shadow, changes, app, drv, recs, todo>> /\ todo # {}
        /\ pc = "backup" /\ pc' = IF recs[Current].state = "tombstone" THEN "remove" ELSE "write"
    BY <1>6 DEF Backup, files
  <2>2. Current' = Current /\ CurrentTarget' = CurrentTarget
    BY <2>1 DEF Current, CurrentTarget, ShadowOf, First
  <2>3. changes[Current] \in Records /\ changes[Current].state # "none" /\ recs = changes
    BY <1>3, <2>1, InHand DEF Recorded, TypeInv, RecordsType
  <2>4. /\ pc' = "remove" => Hidden(Current) /\ ~NeedsShadow(changes[Current])
        /\ pc' # "remove" => pc' = "write" /\ NeedsShadow(changes[Current])
    BY <2>1, <2>3 DEF Hidden, NeedsShadow, Records, States
  <2>5. ListedInv'
    BY <1>3, <1>4, <2>1, <2>2, <2>4
       DEF ListedInv, Recorded, Hidden, Covered, RenamedInto, Held, Holds, NeedsShadow
  <2>6. AppliedInv'
    BY <1>3, <2>1, <2>2, <2>4 DEF AppliedInv, Hidden, NeedsShadow, ShadowOf
  <2>7. QED
    BY <2>5, <2>6
<1>7. CASE StartWrite
  <2>1. /\ UNCHANGED <<shadow, changes, app, drv, recs, todo>> /\ pc = "write" /\ pc' = "writing"
        /\ real' = [real EXCEPT ![CurrentTarget] = Torn] /\ todo # {}
    BY <1>7 DEF StartWrite, commit, TypeInv, PipeType
  <2>2. Current' = Current /\ CurrentTarget' = CurrentTarget
    BY <2>1 DEF Current, CurrentTarget, ShadowOf, First
  <2>3. NeedsShadow(changes[Current]) /\ CurrentTarget \in Paths /\ ~Hidden(CurrentTarget)
    BY <1>3, <2>1, InHand, ShadowCovered DEF ListedInv
  <2>4. \A p \in Paths : p # CurrentTarget => real'[p] = real[p]
    BY <2>1 DEF TypeInv, FilesType
  <2>5. ListedInv'
    BY <1>3, <1>4, <2>1, <2>2, <2>3
       DEF ListedInv, Recorded, Hidden, Covered, RenamedInto, Held, Holds, NeedsShadow
  <2>6. \A r \in Paths \ todo : Hidden(r) => real'[r] = NoFile
    BY <1>3, <2>3, <2>4 DEF AppliedInv
  <2>7. \A r \in Paths \ todo : NeedsShadow(changes[r]) =>
            LET s == ShadowOf(r, changes) IN real'[s] = shadow[s] \/ s = CurrentTarget
    BY <1>3, <2>1, <2>4, ShadowCovered DEF AppliedInv
  <2>8. AppliedInv'
    BY <1>4, <2>1, <2>2, <2>6, <2>7 DEF AppliedInv
  <2>9. QED
    BY <2>5, <2>8
<1>8. CASE FinishWrite
  <2>1. /\ UNCHANGED <<shadow, changes, app, drv, recs>> /\ pc = "writing" /\ todo # {}
        /\ real' = [real EXCEPT ![CurrentTarget] = shadow[CurrentTarget]]
    BY <1>8 DEF FinishWrite, TypeInv, PipeType
  <2>2. /\ NeedsShadow(changes[Current]) /\ Current \in todo /\ Current \in Paths /\ recs = changes
        /\ CurrentTarget = ShadowOf(Current, changes) /\ CurrentTarget \in Paths /\ ~Hidden(CurrentTarget)
    BY <1>3, <2>1, InHand, ShadowCovered DEF ListedInv
  <2>3. /\ real'[CurrentTarget] = shadow[CurrentTarget]
        /\ \A p \in Paths : p # CurrentTarget => real'[p] = real[p]
    BY <2>1, <2>2 DEF TypeInv, FilesType
  <2>4. \A r \in Paths \ todo : Hidden(r) => real'[r] = NoFile
    BY <1>3, <2>2, <2>3 DEF AppliedInv
  <2>5. \A r \in Paths \ todo : NeedsShadow(changes[r]) =>
            real'[ShadowOf(r, changes)] = shadow[ShadowOf(r, changes)]
    BY <1>3, <2>1, <2>2, <2>3, ShadowCovered DEF AppliedInv
  <2>6. CASE changes[Current].state = "renamed"
    <3>1. pc' = "remove" /\ UNCHANGED todo
      BY <1>8, <2>2, <2>6 DEF FinishWrite
    <3>2. Current' = Current /\ CurrentTarget' = CurrentTarget
      BY <2>1, <3>1 DEF Current, CurrentTarget, ShadowOf, First
    <3>3. ListedInv'
      BY <1>3, <1>4, <2>1, <2>6, <3>1, <3>2
         DEF ListedInv, Recorded, Hidden, Covered, RenamedInto, Held, Holds, NeedsShadow
    <3>4. AppliedInv'
      BY <1>4, <2>1, <2>3, <2>4, <2>5, <3>1, <3>2 DEF AppliedInv
    <3>5. QED
      BY <3>3, <3>4
  <2>7. CASE changes[Current].state # "renamed"
    <3>1. pc' = "backup" /\ todo' = todo \ {Current}
      BY <1>8, <2>2, <2>7 DEF FinishWrite
    <3>2. ~Hidden(Current)
      BY <2>2, <2>7 DEF NeedsShadow, Hidden
    <3>3. ListedInv'
      BY <1>3, <1>4, <2>1, <3>1 DEF ListedInv, Recorded, Hidden, Covered, RenamedInto, Held, Holds
    <3>4. AppliedInv'
      BY <1>4, <2>1, <2>2, <2>3, <2>4, <2>5, <3>1, <3>2 DEF AppliedInv
    <3>5. QED
      BY <3>3, <3>4
  <2>8. QED
    BY <2>6, <2>7
<1>9. CASE Remove
  <2>1. /\ UNCHANGED <<shadow, changes, app, drv, recs>> /\ pc = "remove" /\ pc' = "backup" /\ todo # {}
        /\ real' = [real EXCEPT ![Current] = NoFile] /\ todo' = todo \ {Current}
    BY <1>9 DEF Remove, TypeInv, PipeType
  <2>2. /\ Hidden(Current) /\ Current \in todo /\ Current \in Paths
        /\ CurrentTarget = ShadowOf(Current, changes)
    BY <1>3, <2>1, InHand DEF ListedInv
  <2>3. real'[Current] = NoFile /\ \A p \in Paths : p # Current => real'[p] = real[p]
    BY <2>1, <2>2 DEF TypeInv, FilesType
  <2>4. ListedInv'
    BY <1>3, <1>4, <2>1 DEF ListedInv, Recorded, Hidden, Covered, RenamedInto, Held, Holds
  <2>5. \A r \in Paths \ todo' : Hidden(r) => real'[r] = NoFile
    BY <1>3, <2>1, <2>3 DEF AppliedInv
  <2>6. ASSUME NEW r \in Paths \ todo', NeedsShadow(changes[r])
        PROVE  real'[ShadowOf(r, changes)] = shadow[ShadowOf(r, changes)]
    <3>1. ShadowOf(r, changes) \in Paths /\ ShadowOf(r, changes) # Current
      BY <1>3, <2>2, <2>6, ShadowCovered
    <3>2. real[ShadowOf(r, changes)] = shadow[ShadowOf(r, changes)]
      BY <1>3, <2>1, <2>2, <2>6 DEF AppliedInv
    <3>3. QED
      BY <2>3, <3>1, <3>2
  <2>7. AppliedInv'
    BY <1>4, <2>1, <2>5, <2>6 DEF AppliedInv
  <2>8. QED
    BY <2>4, <2>7
<1>10. CASE RemoveShadow \/ FailRemoveShadow \/ FailCommit \/ Crash
  BY <1>10 DEF RemoveShadow, FailRemoveShadow, FailCommit, Crash, Applying
<1>11. QED
  BY <1>3, <1>5, <1>6, <1>7, <1>8, <1>9, <1>10, ApplyingAlone

\* When every record is applied, the real file of a hidden path is gone, and stays so
\* until the records are deleted.
LEMMA HiddenGone ==
    ASSUME Quiet, TypeInv, QuietInv, ViewInv, [Next]_vars, pc' = "forget_commit"
    PROVE  \A r \in Paths : Hidden(r)' => real'[r] = NoFile
<1>1. CASE pc = "forget_commit"
  <2>1. Paused /\ \A x \in Apps : app[x].pc # "granted"
    BY <1>1 DEF QuietInv, Paused
  <2>2. UNCHANGED <<real, changes>>
    <3>1. CASE DriverStep
      BY <2>1, <3>1, NothingServed
    <3>2. CASE ~DriverStep
      BY <1>1, <2>1, <3>2
         DEF Next, AppStep, PipeStep, CommitStep, DiscardStep, Check, LogCommit, Isolate, FailIsolate,
             RollbackDiscard, Enqueue, Pause, Forget, Resume, Abandon, Close, OpenShadow, Write,
             ExternalWrite, Preflight, Backup, StartWrite, FinishWrite, Remove, RemoveShadow,
             FailRemoveShadow, FailCommit, Crash, vars, files
    <3>3. QED
      BY <3>1, <3>2
  <2>3. QED
    BY <1>1, <2>2 DEF ViewInv, Hidden
<1>2. CASE pc # "forget_commit"
  <2>1. RemoveShadow
    <3>1. CASE DriverStep
      BY <1>2, <3>1, NothingServed
    <3>2. CASE ~DriverStep
      BY <1>2, <3>2
         DEF Next, AppStep, PipeStep, CommitStep, DiscardStep, Check, LogCommit, Isolate, FailIsolate,
             RollbackDiscard, Enqueue, Pause, Forget, Resume, Abandon, Close, OpenShadow, Write,
             ExternalWrite, Preflight, Backup, StartWrite, FinishWrite, Remove, FailRemoveShadow,
             FailCommit, Crash, vars
    <3>3. QED
      BY <3>1, <3>2
  <2>2. UNCHANGED <<real, changes>> /\ todo = {} /\ pc = "backup"
    BY <2>1 DEF RemoveShadow
  <2>3. QED
    BY <2>2 DEF ViewInv, Applying, AppliedInv, Hidden
<1>3. QED
  BY <1>1, <1>2

\* Together they keep what the view relies on.
LEMMA ViewInvKept ==
    ASSUME Quiet, "race" \notin Hazards, Attended, TypeInv, QuietInv, HolderInv, ViewInv, [Next]_vars
    PROVE  ViewInv'
<1>1. StaleInv'
  BY StaleKept
<1>2. pc' \in Applying => ListedInv' /\ AppliedInv'
  BY ApplyKept
<1>3. pc' = "forget_commit" => \A r \in Paths : Hidden(r)' => real'[r] = NoFile
  BY HiddenGone
<1>4. QED
  BY <1>1, <1>2, <1>3 DEF ViewInv

\* What is seen at a path when no request is being served.
LEMMA SeenAt ==
    ASSUME NEW p \in Paths, drv.pc # "copying"
    PROVE  /\ Hidden(p) => View(p) = NoFile
           /\ ~Hidden(p) /\ shadow[p] # NoFile => View(p) = shadow[p]
           /\ ~Hidden(p) /\ shadow[p] = NoFile
                 /\ (RenamedInto(p) # {} => real[First(RenamedInto(p))] = NoFile) => View(p) = real[p]
  BY DEF View

\* The source of a rename into a path is one of those that rename it.
LEMMA SourceIsHidden ==
    ASSUME NEW p \in Paths, RenamedInto(p) # {}
    PROVE  First(RenamedInto(p)) \in Paths /\ Hidden(First(RenamedInto(p)))
<1>1. First(RenamedInto(p)) \in RenamedInto(p)
  BY FirstIsLeast DEF RenamedInto
<1>2. QED
  BY <1>1 DEF RenamedInto, Hidden

\* A step of a commit keeps the view of the paths that have changed.
LEMMA CommitView ==
    ASSUME Quiet, TypeInv, QuietInv, ViewInv, [Next]_vars, pc \in CommitPhases, pc' \notin {pc, "idle"},
           NEW p \in Paths, Covered(p)
    PROVE  View(p)' = View(p)
<1>1. Paused /\ drv.pc = "idle"
  BY DEF QuietInv, Paused, CommitPhases
<1>2. UNCHANGED changes => Hidden(p)' = Hidden(p) /\ RenamedInto(p)' = RenamedInto(p)
  BY DEF Hidden, RenamedInto
<1>3. CASE \/ Preflight \/ Backup \/ LogCommit \/ (FailCommit /\ pc # "writing")
  <2>1. UNCHANGED <<real, shadow, changes, drv>>
    BY <1>3 DEF Preflight, Backup, LogCommit, FailCommit, files
  <2>2. QED
    BY <1>2, <2>1 DEF View
<1>4. CASE StartWrite \/ FinishWrite \/ Remove \/ (FailCommit /\ pc = "writing")
  <2>1. UNCHANGED <<shadow, changes, drv>> /\ pc \in Applying
    BY <1>4 DEF StartWrite, FinishWrite, Remove, FailCommit, Applying
  <2>2. Hidden(p) \/ shadow[p] # NoFile
    BY <2>1 DEF ViewInv, ListedInv
  <2>3. QED
    BY <1>1, <1>2, <2>1, <2>2 DEF View
<1>5. CASE RemoveShadow \/ FailRemoveShadow
  <2>1. /\ UNCHANGED <<real, changes, drv>> /\ pc = "backup" /\ todo = {}
        /\ shadow'[p] \in {shadow[p], NoFile}
    BY <1>5 DEF RemoveShadow, FailRemoveShadow, NoFiles
  <2>2. ListedInv /\ AppliedInv
    BY <2>1 DEF ViewInv, Applying
  <2>3. CASE Hidden(p)
    BY <1>2, <2>1, <2>3 DEF View
  <2>4. CASE ~Hidden(p)
    <3>1. shadow[p] # NoFile /\ View(p) = shadow[p]
      BY <1>1, <2>2, <2>4, SeenAt DEF ListedInv
    <3>2. PICK r \in Paths : NeedsShadow(changes[r]) /\ ShadowOf(r, changes) = p
      BY <2>4, CoveredShadow
    <3>3. real[p] = shadow[p]
      BY <2>1, <2>2, <3>2 DEF AppliedInv
    <3>4. RenamedInto(p) # {} => real[First(RenamedInto(p))] = NoFile
      BY <2>1, <2>2, SourceIsHidden DEF AppliedInv
    <3>5. QED
      BY <1>1, <1>2, <2>1, <2>4, <3>1, <3>3, <3>4 DEF View
  <2>5. QED
    BY <2>3, <2>4
<1>6. CASE Forget
  <2>1. pc = "forget_commit" /\ UNCHANGED <<real, shadow, drv>> /\ changes' = NoRecords /\ shadow = NoFiles
    BY <1>6 DEF Forget, files, CommitPhases, QuietInv, Emptied
  <2>2. \A r \in Paths : Hidden(r) => real[r] = NoFile
    BY <2>1 DEF ViewInv
  <2>3. View(p) = real[p]
    BY <1>1, <2>1, <2>2, SourceIsHidden, SeenAt DEF NoFiles
  <2>4. View(p)' = real[p]
    BY <2>1 DEF View, Hidden, RenamedInto, NoRecords, NoRecord, NoFiles
  <2>5. QED
    BY <2>3, <2>4
<1>7. CASE DriverStep
  BY <1>1, <1>7, NothingServed
<1>8. QED
  BY <1>3, <1>4, <1>5, <1>6, <1>7
     DEF Next, AppStep, PipeStep, CommitStep, DiscardStep, Check, Isolate, FailIsolate, RollbackDiscard,
         Enqueue, Pause, Resume, Abandon, Close, OpenShadow, Write, ExternalWrite, Crash, vars, CommitPhases

\* No record and no request is there at the start.
LEMMA InitView == Init => ViewInv
  BY DEF Init, ViewInv, StaleInv, Stale, Hidden, NoRecords, NoRecord, NoRequest, Applying

\* No step of a commit, of one that fails half-way included, changes what processes
\* see at the paths that were changed through the overlay, if the commit waits for the
\* requests under way, no file goes away while another process's open is granted, and
\* real files are not also changed from outside where the service crashes or fails.
THEOREM CommitsKeepTheView ==
    ASSUME Quiet, "race" \notin Hazards, Attended
    PROVE  Spec => CommitKeepsView
<1> DEFINE Inv == TypeInv /\ QuietInv /\ HolderInv /\ ViewInv
           Kept == pc \in CommitPhases /\ pc' \notin {pc, "idle"} =>
                       \A p \in Paths : Recorded(p) \/ RenamedInto(p) # {} => Views'[p] = Views[p]
<1>1. Init => Inv
  BY InitType, InitHolders, InitView
<1>2. Inv /\ [Next]_vars => Inv'
  BY NextType, QuietKept, HoldersKept, ViewInvKept
<1>3. Inv /\ [Next]_vars => Kept
  BY CommitView DEF Covered, Views
<1>4. Spec => [][Kept]_vars
  BY <1>1, <1>2, <1>3, PTL DEF Spec
<1>5. QED
  BY <1>4 DEF CommitKeepsView

=============================================================================

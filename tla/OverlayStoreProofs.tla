------------------------- MODULE OverlayStoreProofs -------------------------
(***************************************************************************)
(* Theorems about OverlayStore for any number of paths and processes, any   *)
(* contents and any set of hazards, but for the ones a theorem excludes.    *)
(***************************************************************************)
EXTENDS OverlayStore, WellFoundedInduction, TLAPS

(***************************************************************************)
(* The inductive form of TypeOK, by groups of variables.  What is added is  *)
(* that a request, a process or a commit that is under way has its path.    *)
(***************************************************************************)
FilesType ==
    /\ real \in [Paths -> Files]
    /\ shadow \in [Paths -> Files]
    /\ backup \in [Paths -> Files]
    /\ staged \in [Paths -> Files]

RecordsType == changes \in [Paths -> Records] /\ recs \in [Paths -> Records]

AppType ==
    /\ app \in [Apps -> [pc : {"idle", "queried", "granted", "open"}, path : Paths \union {NoPath}]]
    /\ \A x \in Apps : app[x].pc # "idle" => app[x].path \in Paths

DrvType ==
    /\ drv \in Requests
    /\ drv.pc # "idle" => drv.app \in Apps /\ drv.path \in Paths
    /\ drv.pc = "copying" => drv.from \in Paths /\ drv.state \in {"none", "modified"}
    /\ drv.pc = "persist" => drv.state \in {"created", "modified"}
    /\ drv.pc = "tombstone" => drv.state = "tombstone"
    /\ drv.pc = "moved" => drv.target \in Paths /\ drv.state \in {"created", "renamed"}
    /\ drv.pc = "unrecorded" => drv.target \in Paths

PipeType ==
    /\ pc \in PipePhases
    /\ todo \subseteq Paths
    /\ pc \in {"write", "writing", "remove"} => todo # {}

TypeInv == FilesType /\ RecordsType /\ AppType /\ DrvType /\ PipeType

\* The groups together say what TypeOK says.
LEMMA TypeInvImpliesTypeOK == TypeInv => TypeOK
  BY DEF TypeInv, TypeOK, FilesType, RecordsType, AppType, DrvType, PipeType

\* The values that stand for nothing have their types.
LEMMA NoValues ==
    /\ NoFile \in Files /\ Torn \in Files /\ Contents \subseteq Files
    /\ NoFiles \in [Paths -> Files]
    /\ NoRecord \in Records /\ NoRecords \in [Paths -> Records]
    /\ NoRequest \in Requests
  BY DEF Files, Records, States, NoFiles, NoRecord, NoRecords, NoRequest, Requests

\* A set of paths that is not empty has a first one: the order of ListChanges.
LEMMA FirstIsLeast ==
    ASSUME NEW S \in SUBSET Paths, S # {}
    PROVE  First(S) \in S /\ \A s \in S : First(S) <= s
<1> DEFINE R == {p \in Nat \X Nat : p[1] < p[2]}
<1>1. IsWellFoundedOn(R, Nat)
  BY NatLessThanWellFounded DEF OpToRel
<1>2. S \subseteq Nat
  BY NumPathsAssumption DEF Paths
<1>3. PICK m \in S : \A s \in S : <<s, m>> \notin R
  BY <1>1, <1>2, WFMin
<1>4. ASSUME NEW s \in S
      PROVE  m <= s
  <2>1. s \in Nat /\ m \in Nat
    BY <1>2
  <2>2. ASSUME s < m PROVE FALSE
    <3>1. <<s, m>> \in R
      BY <2>1, <2>2
    <3>2. QED
      BY <3>1, <1>3
  <2>3. QED
    BY <2>1, <2>2
<1>5. QED
  BY <1>4 DEF First

\* What a process sees at a path is a file or no file.
LEMMA ViewsType == TypeInv => Views \in [Paths -> Files]
<1> SUFFICES ASSUME TypeInv, NEW p \in Paths
             PROVE  View(p) \in Files
  BY DEF Views
<1>1. real \in [Paths -> Files] /\ shadow \in [Paths -> Files] /\ NoFile \in Files
  BY NoValues DEF TypeInv, FilesType
<1>2. drv.pc = "copying" => real[drv.from] \in Files
  BY <1>1 DEF TypeInv, DrvType
<1>3. RenamedInto(p) # {} => real[First(RenamedInto(p))] \in Files
  <2>1. RenamedInto(p) # {} => First(RenamedInto(p)) \in RenamedInto(p)
    BY FirstIsLeast DEF RenamedInto
  <2>2. QED
    BY <1>1, <2>1 DEF RenamedInto
<1>4. QED
  BY <1>1, <1>2, <1>3 DEF View

\* AddOrUpdateChange leaves well-formed records.
LEMMA UpsertType ==
    ASSUME TypeInv, NEW p \in Paths,
           NEW state, NEW target,
           \/ state \in States \ {"renamed"} /\ target = NoPath
           \/ state = "renamed" /\ target \in Paths
    PROVE  Upsert(p, state, target) \in [Paths -> Records]
<1>1. changes \in [Paths -> Records] /\ real[p] \in Files
  BY DEF TypeInv, FilesType, RecordsType
<1>2. changes[p].orig \in Files
  BY <1>1 DEF Records
<1>3. [state |-> state, target |-> target,
       orig |-> IF Recorded(p) THEN changes[p].orig ELSE real[p]] \in Records
  BY <1>1, <1>2 DEF Records
<1>4. QED
  BY <1>1, <1>3 DEF Upsert

\* An accepted request is well formed.
LEMMA RequestType ==
    ASSUME TypeInv, NEW x \in Apps, NEW p \in Paths, NEW from \in Paths,
           NEW target \in Paths \union {NoPath}, NEW state \in States,
           NEW phase \in {"copying", "persist", "tombstone", "moved"}
    PROVE  Request(phase, x, p, from, target, state) \in Requests
  BY ViewsType DEF Request, Requests

\* A process that moves on with a path has that path.
LEMMA BecomesType ==
    ASSUME AppType, NEW x \in Apps, NEW p \in Paths \union {NoPath},
           NEW phase \in {"idle", "queried", "granted", "open"},
           phase # "idle" => p \in Paths,
           Becomes(x, phase, p)
    PROVE  AppType'
  BY DEF Becomes, AppType

\* A request under way has the fields that its end uses.
LEMMA AcceptedType ==
    ASSUME TypeInv, NEW x \in Apps, NEW p \in Paths, NEW from \in Paths,
           NEW target \in Paths \union {NoPath}, NEW state \in States,
           NEW phase \in {"copying", "persist", "tombstone", "moved"},
           phase = "copying" => state \in {"none", "modified"},
           phase = "persist" => state \in {"created", "modified"},
           phase = "tombstone" => state = "tombstone",
           phase = "moved" => target \in Paths /\ state \in {"created", "renamed"},
           drv' = Request(phase, x, p, from, target, state)
    PROVE  DrvType'
<1>1. drv' \in Requests
  BY RequestType
<1>2. QED
  BY <1>1 DEF DrvType, Request

\* An answered request leaves nothing under way.
LEMMA AnsweredType == drv' = NoRequest => DrvType'
  BY NoValues DEF DrvType, NoRequest

\* While records are left to apply, the current one and its target are paths.
LEMMA CurrentType ==
    ASSUME TypeInv, todo # {}
    PROVE  Current \in todo /\ Current \in Paths /\ CurrentTarget \in Paths
<1>1. Current \in todo /\ Current \in Paths
  BY FirstIsLeast DEF TypeInv, PipeType, Current
<1>2. recs[Current] \in Records
  BY <1>1 DEF TypeInv, RecordsType
<1>3. QED
  BY <1>1, <1>2 DEF CurrentTarget, ShadowOf, Records

\* The service starts in a well-formed state.
LEMMA InitType == Init => TypeInv
<1> SUFFICES ASSUME Init PROVE TypeInv
  OBVIOUS
<1>1. FilesType /\ RecordsType
  BY NoValues DEF Init, FilesType, RecordsType, Files
<1>2. AppType /\ DrvType /\ PipeType
  BY NoValues DEF Init, AppType, DrvType, PipeType, Idle, NoRequest, PipePhases
<1>3. QED
  BY <1>1, <1>2 DEF TypeInv

\* Every step keeps the types.
LEMMA NextType == TypeInv /\ [Next]_vars => TypeInv'
<1> SUFFICES ASSUME TypeInv, [Next]_vars PROVE TypeInv'
  OBVIOUS
<1> USE DEF TypeInv
<1>1. ASSUME NEW x \in Apps, NEW p \in Paths,
             Query(x, p)
      PROVE  TypeInv'
  <2>1. RecordsType' /\ PipeType'
    BY <1>1 DEF Query, RecordsType, PipeType, commit
  <2>2. FilesType'
    BY <1>1, NoValues DEF Query, FilesType, files, commit
  <2>3. AppType'
    BY <1>1, NoValues DEF Query, AppType, Becomes
  <2>4. DrvType'
    <3>1. CASE drv' = drv
      BY <3>1 DEF DrvType
    <3>2. CASE drv' # drv
      <4>1. /\ RenamedInto(p) # {}
            /\ drv' = Request("copying", x, p, First(RenamedInto(p)), NoPath, "none")
        BY <1>1, <3>2 DEF Query
      <4>2. First(RenamedInto(p)) \in Paths
        BY <4>1, FirstIsLeast DEF RenamedInto
      <4>3. QED
        BY <4>1, <4>2, AcceptedType DEF States
    <3>3. QED
      BY <3>1, <3>2
  <2>5. QED
    BY <2>1, <2>2, <2>3, <2>4
<1>2. ASSUME NEW x \in Apps,
             Abandon(x)
      PROVE  TypeInv'
  <2>1. FilesType' /\ RecordsType' /\ DrvType' /\ PipeType'
    BY <1>2 DEF Abandon, FilesType, RecordsType, DrvType, PipeType, files, commit
  <2>2. AppType'
    BY <1>2, NoValues DEF Abandon, AppType, Becomes
  <2>3. QED
    BY <2>1, <2>2
<1>3. ASSUME NEW x \in Apps,
             CopyOnWrite(x)
      PROVE  TypeInv'
  <2>1. RecordsType' /\ AppType' /\ PipeType'
    BY <1>3 DEF CopyOnWrite, RecordsType, AppType, PipeType, commit
  <2>2. FilesType'
    BY <1>3, NoValues DEF CopyOnWrite, FilesType, files, commit
  <2>3. DrvType'
    <3>1. app[x].path \in Paths
      BY <1>3 DEF CopyOnWrite, AppType
    <3>2. CASE drv.pc = "idle" /\ real[app[x].path] # NoFile
      BY <1>3, <3>1, <3>2, AcceptedType DEF CopyOnWrite, States
    <3>3. CASE drv.pc = "idle" /\ real[app[x].path] = NoFile
      BY <1>3, <3>1, <3>3, AcceptedType DEF CopyOnWrite, States
    <3>4. QED
      BY <1>3, <3>2, <3>3 DEF CopyOnWrite, Serves
  <2>4. QED
    BY <2>1, <2>2, <2>3
<1>4. ASSUME NEW x \in Apps,
             OpenShadow(x)
      PROVE  TypeInv'
  <2>1. RecordsType' /\ DrvType' /\ PipeType'
    BY <1>4 DEF OpenShadow, RecordsType, DrvType, PipeType, commit
  <2>2. FilesType'
    BY <1>4, NoValues DEF OpenShadow, FilesType, files, commit
  <2>3. AppType'
    BY <1>4, NoValues DEF OpenShadow, AppType, Becomes
  <2>4. QED
    BY <2>1, <2>2, <2>3
<1>5. ASSUME NEW x \in Apps,
             Write(x)
      PROVE  TypeInv'
  <2>1. RecordsType' /\ AppType' /\ DrvType' /\ PipeType'
    BY <1>5 DEF Write, RecordsType, AppType, DrvType, PipeType, commit
  <2>2. FilesType'
    BY <1>5, NoValues DEF Write, FilesType, files, commit
  <2>3. QED
    BY <2>1, <2>2
<1>6. ASSUME NEW x \in Apps,
             Close(x)
      PROVE  TypeInv'
  <2>1. FilesType' /\ RecordsType' /\ DrvType' /\ PipeType'
    BY <1>6 DEF Close, FilesType, RecordsType, DrvType, PipeType, files, commit
  <2>2. AppType'
    BY <1>6, NoValues DEF Close, AppType, Becomes
  <2>3. QED
    BY <2>1, <2>2
<1>7. ASSUME NEW x \in Apps, NEW p \in Paths,
             Delete(x, p)
      PROVE  TypeInv'
  <2>1. RecordsType' /\ PipeType'
    BY <1>7 DEF Delete, RecordsType, PipeType, commit
  <2>2. FilesType'
    BY <1>7, NoValues DEF Delete, FilesType, files, commit
  <2>3. AppType'
    BY <1>7, NoValues DEF Delete, AppType, Becomes
  <2>4. DrvType'
    BY <1>7, AcceptedType DEF Delete, States
  <2>5. QED
    BY <2>1, <2>2, <2>3, <2>4
<1>8. ASSUME NEW x \in Apps, NEW p \in Paths, NEW q \in Paths,
             Rename(x, p, q)
      PROVE  TypeInv'
  <2>1. PipeType'
    BY <1>8 DEF Rename, PipeType, commit
  <2>2. FilesType'
    BY <1>8, NoValues DEF Rename, FilesType, files, commit
  <2>3. RecordsType'
    <3>1. Upsert(p, "modified", NoPath) \in [Paths -> Records]
      BY UpsertType DEF States
    <3>2. QED
      BY <1>8, <3>1 DEF Rename, RecordsType, commit
  <2>4. AppType'
    BY <1>8, NoValues DEF Rename, AppType, Becomes
  <2>5. DrvType'
    BY <1>8, AcceptedType DEF Rename, States
  <2>6. QED
    BY <2>1, <2>2, <2>3, <2>4, <2>5
<1>9. ASSUME NEW p \in Paths,
             ExternalWrite(p)
      PROVE  TypeInv'
  <2>1. RecordsType' /\ AppType' /\ DrvType' /\ PipeType'
    BY <1>9 DEF ExternalWrite, RecordsType, AppType, DrvType, PipeType, commit
  <2>2. FilesType'
    BY <1>9, NoValues DEF ExternalWrite, FilesType, files, commit
  <2>3. QED
    BY <2>1, <2>2
<1>10. CASE FinishCopy
  <2>1. RecordsType' /\ PipeType'
    BY <1>10 DEF FinishCopy, RecordsType, PipeType, commit
  <2>2. FilesType'
    <3>1. real[drv.from] \in Files
      BY <1>10 DEF FinishCopy, DrvType, FilesType
    <3>2. QED
      BY <1>10, <3>1 DEF FinishCopy, FilesType, commit
  <2>3. AppType'
    <3>1. drv.app \in Apps /\ drv.path \in Paths
      BY <1>10 DEF FinishCopy, DrvType
    <3>2. CASE drv.state = "none"
      BY <1>10, <3>1, <3>2, BecomesType DEF FinishCopy
    <3>3. CASE drv.state # "none"
      BY <1>10, <3>3 DEF FinishCopy, AppType
    <3>4. QED
      BY <3>2, <3>3
  <2>4. DrvType'
    <3>1. CASE drv.state = "none"
      BY <1>10, <3>1, AnsweredType DEF FinishCopy
    <3>2. CASE drv.state # "none"
      <4>1. drv' = [drv EXCEPT !.pc = "persist"] /\ drv.pc = "copying"
        BY <1>10, <3>2 DEF FinishCopy
      <4>2. drv' \in Requests
        BY <4>1 DEF DrvType, Requests
      <4>3. /\ drv'.pc = "persist" /\ drv'.state = drv.state
            /\ drv'.app = drv.app /\ drv'.path = drv.path
        BY <4>1 DEF DrvType, Requests
      <4>4. QED
        BY <3>2, <4>1, <4>2, <4>3 DEF DrvType
    <3>3. QED
      BY <3>1, <3>2
  <2>5. QED
    BY <2>1, <2>2, <2>3, <2>4
<1>11. CASE FailCopy
  <2>1. RecordsType' /\ PipeType'
    BY <1>11 DEF FailCopy, RecordsType, PipeType, commit
  <2>2. FilesType'
    BY <1>11, NoValues DEF FailCopy, FilesType, files, commit
  <2>3. AppType'
    <3>1. drv.app \in Apps /\ drv.path \in Paths
      BY <1>11 DEF FailCopy, DrvType
    <3>2. CASE drv.state = "none"
      BY <1>11, <3>1, <3>2, BecomesType DEF FailCopy
    <3>3. CASE drv.state # "none"
      BY <1>11, <3>1, <3>3, BecomesType DEF FailCopy
    <3>4. QED
      BY <3>2, <3>3
  <2>4. DrvType'
    BY <1>11, AnsweredType DEF FailCopy
  <2>5. QED
    BY <2>1, <2>2, <2>3, <2>4
<1>12. CASE Persist
  <2>1. FilesType' /\ PipeType'
    BY <1>12 DEF Persist, FilesType, PipeType, files, commit
  <2>2. RecordsType'
    <3>1. drv.path \in Paths /\ drv.state \in States \ {"renamed"}
      BY <1>12 DEF Persist, DrvType, States
    <3>2. Upsert(drv.path, drv.state, NoPath) \in [Paths -> Records]
      BY <3>1, UpsertType
    <3>3. QED
      BY <1>12, <3>2 DEF Persist, RecordsType, commit
  <2>3. AppType'
    <3>1. drv.app \in Apps /\ drv.path \in Paths
      BY <1>12 DEF Persist, DrvType
    <3>2. CASE drv.pc = "persist"
      BY <1>12, <3>1, <3>2, BecomesType DEF Persist
    <3>3. CASE drv.pc # "persist"
      BY <1>12, <3>3 DEF Persist, AppType
    <3>4. QED
      BY <3>2, <3>3
  <2>4. DrvType'
    BY <1>12, AnsweredType DEF Persist
  <2>5. QED
    BY <2>1, <2>2, <2>3, <2>4
<1>13. CASE FailPersist
  <2>1. FilesType' /\ RecordsType' /\ PipeType'
    BY <1>13 DEF FailPersist, FilesType, RecordsType, PipeType, files, commit
  <2>2. AppType'
    BY <1>13, NoValues DEF FailPersist, AppType, Becomes
  <2>3. DrvType'
    BY <1>13, AnsweredType DEF FailPersist
  <2>4. QED
    BY <2>1, <2>2, <2>3
<1>14. CASE RecordRename
  <2>1. FilesType' /\ AppType' /\ PipeType'
    BY <1>14 DEF RecordRename, FilesType, AppType, PipeType, files, commit
  <2>2. RecordsType'
    <3>1. CASE drv.state = "created"
      BY <1>14, <3>1, NoValues DEF RecordRename, RecordsType, commit
    <3>2. CASE drv.state # "created"
      <4>1. drv.path \in Paths /\ drv.target \in Paths
        BY <1>14 DEF RecordRename, DrvType
      <4>2. Upsert(drv.path, "renamed", drv.target) \in [Paths -> Records]
        BY <4>1, UpsertType
      <4>3. QED
        BY <1>14, <3>2, <4>2 DEF RecordRename, RecordsType, commit
    <3>3. QED
      BY <3>1, <3>2
  <2>3. DrvType'
    <3>1. CASE drv.state = "created"
      <4>1. drv' = [drv EXCEPT !.pc = "unrecorded"] /\ drv.pc = "moved"
        BY <1>14, <3>1 DEF RecordRename
      <4>2. drv' \in Requests
        BY <4>1 DEF DrvType, Requests
      <4>3. /\ drv'.pc = "unrecorded" /\ drv'.target = drv.target
            /\ drv'.app = drv.app /\ drv'.path = drv.path
        BY <4>1 DEF DrvType, Requests
      <4>4. QED
        BY <4>1, <4>2, <4>3 DEF DrvType
    <3>2. CASE drv.state # "created"
      BY <1>14, <3>2, AnsweredType DEF RecordRename
    <3>3. QED
      BY <3>1, <3>2
  <2>4. QED
    BY <2>1, <2>2, <2>3
<1>15. CASE RecordRenamedCreation
  <2>1. FilesType' /\ AppType' /\ PipeType'
    BY <1>15 DEF RecordRenamedCreation, FilesType, AppType, PipeType, files, commit
  <2>2. RecordsType'
    <3>1. drv.target \in Paths
      BY <1>15 DEF RecordRenamedCreation, DrvType
    <3>2. Upsert(drv.target, "created", NoPath) \in [Paths -> Records]
      BY <3>1, UpsertType DEF States
    <3>3. QED
      BY <1>15, <3>2 DEF RecordRenamedCreation, RecordsType, commit
  <2>3. DrvType'
    BY <1>15, AnsweredType DEF RecordRenamedCreation
  <2>4. QED
    BY <2>1, <2>2, <2>3
<1>16. CASE DirectoryView
  <2>1. RecordsType' /\ AppType' /\ DrvType' /\ PipeType'
    BY <1>16 DEF DirectoryView, RecordsType, AppType, DrvType, PipeType, commit
  <2>2. FilesType'
    BY <1>16, NoValues DEF DirectoryView, FilesType, files, commit
  <2>3. QED
    BY <2>1, <2>2
<1>17. CASE Pause
  <2>1. FilesType' /\ RecordsType' /\ AppType' /\ DrvType'
    BY <1>17 DEF Pause, FilesType, RecordsType, AppType, DrvType, files, commit
  <2>2. PipeType'
    BY <1>17, NoValues DEF Pause, PipeType, PipePhases, commit
  <2>3. QED
    BY <2>1, <2>2
<1>18. CASE Preflight
  <2>1. AppType' /\ DrvType'
    BY <1>18 DEF Preflight, AppType, DrvType
  <2>2. FilesType'
    BY <1>18, NoValues DEF Preflight, FilesType, files, commit
  <2>3. RecordsType'
    BY <1>18, NoValues DEF Preflight, RecordsType, commit
  <2>4. PipeType'
    BY <1>18, NoValues DEF Preflight, PipeType, PipePhases, commit
  <2>5. QED
    BY <2>1, <2>2, <2>3, <2>4
<1>19. CASE Backup
  <2>1. RecordsType' /\ AppType' /\ DrvType'
    BY <1>19 DEF Backup, RecordsType, AppType, DrvType, commit
  <2>2. FilesType'
    BY <1>19, NoValues DEF Backup, FilesType, files, commit
  <2>3. PipeType'
    BY <1>19, NoValues DEF Backup, PipeType, PipePhases, commit
  <2>4. QED
    BY <2>1, <2>2, <2>3
<1>20. CASE StartWrite
  <2>1. RecordsType' /\ AppType' /\ DrvType'
    BY <1>20 DEF StartWrite, RecordsType, AppType, DrvType, commit
  <2>2. FilesType'
    BY <1>20, NoValues DEF StartWrite, FilesType, files, commit
  <2>3. PipeType'
    BY <1>20, NoValues DEF StartWrite, PipeType, PipePhases, commit
  <2>4. QED
    BY <2>1, <2>2, <2>3
<1>21. CASE FinishWrite
  <2>1. RecordsType' /\ AppType' /\ DrvType'
    BY <1>21 DEF FinishWrite, RecordsType, AppType, DrvType, commit
  <2>2. FilesType'
    BY <1>21, NoValues DEF FinishWrite, FilesType, files, commit
  <2>3. PipeType'
    BY <1>21, NoValues DEF FinishWrite, PipeType, PipePhases, commit
  <2>4. QED
    BY <2>1, <2>2, <2>3
<1>22. CASE Remove
  <2>1. RecordsType' /\ AppType' /\ DrvType'
    BY <1>22 DEF Remove, RecordsType, AppType, DrvType, commit
  <2>2. FilesType'
    BY <1>22, NoValues DEF Remove, FilesType, files, commit
  <2>3. PipeType'
    BY <1>22, NoValues DEF Remove, PipeType, PipePhases, commit
  <2>4. QED
    BY <2>1, <2>2, <2>3
<1>23. CASE RemoveShadow
  <2>1. RecordsType' /\ AppType' /\ DrvType'
    BY <1>23 DEF RemoveShadow, RecordsType, AppType, DrvType, commit
  <2>2. FilesType'
    BY <1>23, NoValues DEF RemoveShadow, FilesType, files, commit
  <2>3. PipeType'
    BY <1>23, NoValues DEF RemoveShadow, PipeType, PipePhases, commit
  <2>4. QED
    BY <2>1, <2>2, <2>3
<1>24. CASE FailRemoveShadow
  <2>1. RecordsType' /\ AppType' /\ DrvType'
    BY <1>24 DEF FailRemoveShadow, RecordsType, AppType, DrvType, commit
  <2>2. FilesType'
    BY <1>24, NoValues DEF FailRemoveShadow, FilesType, files, commit
  <2>3. PipeType'
    BY <1>24, NoValues DEF FailRemoveShadow, PipeType, PipePhases, commit
  <2>4. QED
    BY <2>1, <2>2, <2>3
<1>25. CASE Forget
  <2>1. FilesType' /\ AppType' /\ DrvType'
    BY <1>25 DEF Forget, FilesType, AppType, DrvType, files, commit
  <2>2. RecordsType'
    BY <1>25, NoValues DEF Forget, RecordsType, commit
  <2>3. PipeType'
    BY <1>25, NoValues DEF Forget, PipeType, PipePhases, commit
  <2>4. QED
    BY <2>1, <2>2, <2>3
<1>26. CASE FailCommit
  <2>1. RecordsType' /\ AppType' /\ DrvType'
    BY <1>26 DEF FailCommit, RecordsType, AppType, DrvType, commit
  <2>2. FilesType'
    BY <1>26, NoValues DEF FailCommit, FilesType, files, commit
  <2>3. PipeType'
    BY <1>26, NoValues DEF FailCommit, PipeType, PipePhases, commit
  <2>4. QED
    BY <2>1, <2>2, <2>3
<1>27. CASE Isolate
  <2>1. RecordsType' /\ AppType' /\ DrvType'
    BY <1>27 DEF Isolate, RecordsType, AppType, DrvType, commit
  <2>2. FilesType'
    BY <1>27, NoValues DEF Isolate, FilesType, files, commit
  <2>3. PipeType'
    BY <1>27, NoValues DEF Isolate, PipeType, PipePhases, commit
  <2>4. QED
    BY <2>1, <2>2, <2>3
<1>28. CASE FailIsolate
  <2>1. FilesType' /\ RecordsType' /\ AppType' /\ DrvType'
    BY <1>28 DEF FailIsolate, FilesType, RecordsType, AppType, DrvType, files, commit
  <2>2. PipeType'
    BY <1>28, NoValues DEF FailIsolate, PipeType, PipePhases, commit
  <2>3. QED
    BY <2>1, <2>2
<1>29. CASE RollbackDiscard
  <2>1. RecordsType' /\ AppType' /\ DrvType'
    BY <1>29 DEF RollbackDiscard, RecordsType, AppType, DrvType, commit
  <2>2. FilesType'
    BY <1>29, NoValues DEF RollbackDiscard, FilesType, files, commit
  <2>3. PipeType'
    BY <1>29, NoValues DEF RollbackDiscard, PipeType, PipePhases, commit
  <2>4. QED
    BY <2>1, <2>2, <2>3
<1>30. CASE Enqueue
  <2>1. RecordsType' /\ AppType' /\ DrvType'
    BY <1>30 DEF Enqueue, RecordsType, AppType, DrvType, commit
  <2>2. FilesType'
    BY <1>30, NoValues DEF Enqueue, FilesType, files, commit
  <2>3. PipeType'
    BY <1>30, NoValues DEF Enqueue, PipeType, PipePhases, commit
  <2>4. QED
    BY <2>1, <2>2, <2>3
<1>31. CASE LogCommit
  <2>1. FilesType' /\ RecordsType' /\ AppType' /\ DrvType'
    BY <1>31 DEF LogCommit, FilesType, RecordsType, AppType, DrvType, files, commit
  <2>2. PipeType'
    BY <1>31, NoValues DEF LogCommit, PipeType, PipePhases, commit
  <2>3. QED
    BY <2>1, <2>2
<1>32. CASE Resume
  <2>1. AppType' /\ DrvType'
    BY <1>32 DEF Resume, AppType, DrvType
  <2>2. FilesType'
    BY <1>32, NoValues DEF Resume, FilesType, files, commit
  <2>3. RecordsType'
    BY <1>32, NoValues DEF Resume, RecordsType, commit
  <2>4. PipeType'
    BY <1>32, NoValues DEF Resume, PipeType, PipePhases, commit
  <2>5. QED
    BY <2>1, <2>2, <2>3, <2>4
<1>33. CASE Crash
  <2>1. FilesType'
    BY <1>33, NoValues DEF Crash, FilesType, files, commit
  <2>2. RecordsType'
    BY <1>33, NoValues DEF Crash, RecordsType, commit
  <2>3. AppType'
    BY <1>33 DEF Crash, AppType, Idle
  <2>4. DrvType'
    BY <1>33, AnsweredType DEF Crash
  <2>5. PipeType'
    BY <1>33, NoValues DEF Crash, PipeType, PipePhases, commit
  <2>6. QED
    BY <2>1, <2>2, <2>3, <2>4, <2>5
<1>34. ASSUME NEW checked \in {"commit_checked", "discard_checked"}, Check(checked)
      PROVE  TypeInv'
  BY <1>34 DEF Check, FilesType, RecordsType, AppType, DrvType, PipeType, PipePhases, files, commit
<1>35. CASE UNCHANGED vars
  BY <1>35 DEF vars, FilesType, RecordsType, AppType, DrvType, PipeType
<1>36. QED
  BY <1>1, <1>2, <1>3, <1>4, <1>5, <1>6, <1>7, <1>8, <1>9, <1>10,
     <1>11, <1>12, <1>13, <1>14, <1>15, <1>16, <1>17, <1>18,
     <1>19, <1>20, <1>21, <1>22, <1>23, <1>24, <1>25, <1>26,
     <1>27, <1>28, <1>29, <1>30, <1>31, <1>32, <1>33, <1>34,
     <1>35
     DEF Next, DriverStep, AppStep, PipeStep, CommitStep, DiscardStep

\* Reachable states have their types: for any number of paths and processes, and
\* whatever trouble is admitted, a record has a target exactly when it is renamed.
THEOREM TypeCorrect == Spec => []TypeOK
<1>1. Spec => []TypeInv
  BY InitType, NextType, PTL DEF Spec
<1>2. QED
  BY <1>1, TypeInvImpliesTypeOK, PTL

-----------------------------------------------------------------------------
(***************************************************************************)
(* Baselines.  Only Upsert writes the baseline of a record that stays.      *)
(***************************************************************************)
\* ON CONFLICT leaves the baseline columns of a row.
LEMMA UpsertKeepsBaselines ==
    ASSUME TypeInv, NEW p \in Paths, NEW q, NEW state, NEW target, Recorded(p)
    PROVE  Upsert(q, state, target)[p].orig = changes[p].orig
  BY DEF TypeInv, RecordsType, Upsert

\* No step moves the baseline of a record that stays.
LEMMA StepKeepsBaselines ==
    ASSUME TypeInv, [Next]_vars, NEW p \in Paths, Recorded(p), changes'[p].state # "none"
    PROVE  changes'[p].orig = changes[p].orig
<1>1. CASE changes' = changes
  BY <1>1
<1>2. ASSUME NEW x \in Apps, NEW q \in Paths, NEW r \in Paths, Rename(x, q, r)
      PROVE  changes'[p].orig = changes[p].orig
  BY <1>2, UpsertKeepsBaselines DEF Rename
<1>3. CASE Persist
  BY <1>3, UpsertKeepsBaselines DEF Persist
<1>4. CASE RecordRename
  <2>1. CASE drv.state = "created"
    <3>1. changes' = [changes EXCEPT ![drv.path] = NoRecord]
      BY <1>4, <2>1 DEF RecordRename
    <3>2. p # drv.path
      BY <3>1 DEF NoRecord, TypeInv, RecordsType
    <3>3. QED
      BY <3>1, <3>2 DEF TypeInv, RecordsType
  <2>2. CASE drv.state # "created"
    BY <1>4, <2>2, UpsertKeepsBaselines DEF RecordRename
  <2>3. QED
    BY <2>1, <2>2
<1>5. CASE RecordRenamedCreation
  BY <1>5, UpsertKeepsBaselines DEF RecordRenamedCreation
<1>6. CASE Forget
  BY <1>6 DEF Forget, NoRecords, NoRecord
<1>7. QED
  BY <1>1, <1>2, <1>3, <1>4, <1>5, <1>6
     DEF Next, DriverStep, AppStep, PipeStep, CommitStep, DiscardStep, vars, files, commit,
         Query, Abandon, CopyOnWrite, FinishCopy, FailCopy, FailPersist, Delete,
         DirectoryView, OpenShadow, Write, Close, ExternalWrite, Check, Pause,
         Preflight, Backup, StartWrite, FinishWrite, Remove, RemoveShadow,
         FailRemoveShadow, FailCommit, Isolate, FailIsolate, RollbackDiscard,
         Enqueue, LogCommit, Resume, Crash

\* The baseline that a commit compares with is the one of the first change of the
\* path, through every interleaving of requests, commits, discards and crashes.
THEOREM BaselineNeverMoves == Spec => BaselineFrozen
<1>1. TypeInv /\ [Next]_vars =>
        [\A p \in Paths : Recorded(p) /\ changes'[p].state # "none" =>
            changes'[p].orig = changes[p].orig]_vars
  BY StepKeepsBaselines
<1>2. Spec => []TypeInv
  BY InitType, NextType, PTL DEF Spec
<1>3. QED
  BY <1>1, <1>2, PTL DEF Spec, BaselineFrozen

-----------------------------------------------------------------------------
(***************************************************************************)
(* What a commit may overwrite.  While a commit runs, nothing but the       *)
(* commit changes real files: this instance has no external writes, or they *)
(* keep away from a rule that is paused.                                    *)
(***************************************************************************)
Undisturbed == Quiet \/ "external" \notin Hazards

Applying == {"backup", "write", "writing", "remove"}

\* A rename has two paths.
TwoPaths(records) == \A r \in Paths : records[r].state = "renamed" => records[r].target # r

RenameTarget(p) == \E r \in Paths : recs[r].state = "renamed" /\ recs[r].target = p

\* The file at the path of a listed record is the one the preflight saw, until
\* the record is applied.
ListedUntouched ==
    pc \in Applying => \A p \in todo :
        real[p] \in Contents => real[p] = recs[p].orig \/ RenameTarget(p)

\* From the backup of a record to its end, the file at its path is in the backup.
CurrentBackedUp ==
    pc \in {"write", "writing", "remove"} =>
        (real[Current] \in Contents => backup[Current] = real[Current])

WritingTorn == pc = "writing" => real[CurrentTarget] = Torn

CommitInv ==
    /\ TwoPaths(changes)
    /\ TwoPaths(recs)
    /\ drv.pc = "moved" => drv.target # drv.path
    /\ ListedUntouched
    /\ CurrentBackedUp
    /\ WritingTorn

\* A record stored with another path as its target keeps renames apart.
LEMMA UpsertTwoPaths ==
    ASSUME TypeInv, TwoPaths(changes), NEW p \in Paths, NEW state, NEW target,
           state = "renamed" => target # p
    PROVE  TwoPaths(Upsert(p, state, target))
  BY DEF TypeInv, RecordsType, TwoPaths, Upsert

\* Records and requests keep the two paths of a rename apart.
LEMMA StepKeepsPathsApart ==
    ASSUME TypeInv, CommitInv, [Next]_vars
    PROVE  /\ TwoPaths(changes)'
           /\ TwoPaths(recs)'
           /\ (drv.pc = "moved" => drv.target # drv.path)'
<1> USE DEF CommitInv
<1>1. CASE UNCHANGED <<changes, recs>> /\ (drv' = drv \/ drv'.pc # "moved")
  BY <1>1 DEF TwoPaths
<1>2. ASSUME NEW x \in Apps, NEW p \in Paths, NEW q \in Paths, Rename(x, p, q)
      PROVE  TwoPaths(changes)' /\ UNCHANGED recs /\ drv'.target # drv'.path
  <2>1. TwoPaths(Upsert(p, "modified", NoPath))
    BY UpsertTwoPaths
  <2>2. QED
    BY <1>2, <2>1 DEF Rename, RenameAllowed, Request, TwoPaths, commit
<1>3. CASE Persist
  <2>1. drv.path \in Paths /\ drv.state # "renamed"
    BY <1>3 DEF Persist, TypeInv, DrvType
  <2>2. TwoPaths(Upsert(drv.path, drv.state, NoPath))
    BY <2>1, UpsertTwoPaths
  <2>3. QED
    BY <1>3, <2>2 DEF Persist, NoRequest, TwoPaths, commit
<1>4. CASE RecordRename
  <2>1. drv.path \in Paths /\ drv.target # drv.path
    BY <1>4 DEF RecordRename, TypeInv, DrvType
  <2>2. TwoPaths(Upsert(drv.path, "renamed", drv.target))
    BY <2>1, UpsertTwoPaths
  <2>3. TwoPaths([changes EXCEPT ![drv.path] = NoRecord])
    BY DEF TwoPaths, NoRecord, TypeInv, RecordsType
  <2>4. drv'.pc # "moved" /\ UNCHANGED recs
    BY <1>4 DEF RecordRename, NoRequest, commit, TypeInv, DrvType, Requests
  <2>5. QED
    BY <1>4, <2>2, <2>3, <2>4 DEF RecordRename, TwoPaths
<1>5. CASE RecordRenamedCreation
  <2>1. TwoPaths(Upsert(drv.target, "created", NoPath))
    BY <1>5, UpsertTwoPaths DEF RecordRenamedCreation, TypeInv, DrvType
  <2>2. QED
    BY <1>5, <2>1 DEF RecordRenamedCreation, NoRequest, TwoPaths, commit
<1>6. CASE Forget
  BY <1>6 DEF Forget, TwoPaths, NoRecords, NoRecord, commit
<1>7. CASE Preflight
  BY <1>7 DEF Preflight, TwoPaths
<1>8. CASE Resume \/ Crash
  BY <1>8 DEF Resume, Crash, TwoPaths, NoRecords, NoRecord, NoRequest
<1>9. ASSUME \/ FinishCopy
             \/ \E x \in Apps : CopyOnWrite(x)
             \/ \E x \in Apps, p \in Paths : Query(x, p) \/ Delete(x, p)
      PROVE  UNCHANGED <<changes, recs>> /\ (drv' = drv \/ drv'.pc # "moved")
  <2>1. CASE FinishCopy
    BY <2>1 DEF FinishCopy, NoRequest, commit, TypeInv, DrvType, Requests
  <2>2. ASSUME NEW x \in Apps, CopyOnWrite(x)
        PROVE  UNCHANGED <<changes, recs>> /\ drv'.pc # "moved"
    BY <2>2 DEF CopyOnWrite, Request, commit
  <2>3. ASSUME NEW x \in Apps, NEW p \in Paths, Query(x, p) \/ Delete(x, p)
        PROVE  UNCHANGED <<changes, recs>> /\ (drv' = drv \/ drv'.pc # "moved")
    BY <2>3 DEF Query, Delete, Request, commit
  <2>4. QED
    BY <1>9, <2>1, <2>2, <2>3
<1>10. QED
  BY <1>1, <1>2, <1>3, <1>4, <1>5, <1>6, <1>7, <1>8, <1>9
     DEF Next, DriverStep, AppStep, PipeStep, CommitStep, DiscardStep, vars, files, commit,
         Abandon, FailCopy, FailPersist, DirectoryView, OpenShadow, Write, Close,
         ExternalWrite, Check, Pause, Backup, StartWrite, FinishWrite, Remove,
         RemoveShadow, FailRemoveShadow, FailCommit, Isolate, FailIsolate,
         RollbackDiscard, Enqueue, LogCommit, NoRequest

\* What a commit relies on while it applies its records stays true.
LEMMA StepKeepsCommit ==
    ASSUME Undisturbed, TypeInv, CommitInv, [Next]_vars
    PROVE  ListedUntouched' /\ CurrentBackedUp' /\ WritingTorn'
<1> USE DEF CommitInv
<1>1. CASE UNCHANGED <<real, pc, recs, todo, backup>>
  BY <1>1 DEF ListedUntouched, CurrentBackedUp, WritingTorn, RenameTarget, Current,
              CurrentTarget, ShadowOf, First
<1>2. CASE pc' \notin Applying
  BY <1>2 DEF Applying, ListedUntouched, CurrentBackedUp, WritingTorn
<1>3. ASSUME NEW p \in Paths, ExternalWrite(p)
      PROVE  pc' \notin Applying
  BY <1>3 DEF ExternalWrite, Undisturbed, Paused, Applying
<1>4. CASE Preflight
  <2>1. \A p \in todo' : real'[p] = recs'[p].orig
    BY <1>4 DEF Preflight, Committable, files
  <2>2. QED
    BY <1>4, <2>1 DEF Preflight, ListedUntouched, CurrentBackedUp, WritingTorn
<1>5. CASE Backup
  <2>1. Current \in Paths /\ backup \in [Paths -> Files]
    BY <1>5, CurrentType DEF Backup, TypeInv, FilesType
  <2>2. UNCHANGED <<real, recs, todo>> /\ Current' = Current
    BY <1>5 DEF Backup, files, Current, First
  <2>3. pc = "backup" /\ pc' \in {"write", "remove"}
    BY <1>5 DEF Backup
  <2>4. ListedUntouched'
    BY <2>2, <2>3 DEF ListedUntouched, Applying, RenameTarget
  <2>5. real[Current] \in Contents => backup'[Current] = real[Current]
    BY <1>5, <2>1, FilesAssumption DEF Backup, NeedsBackup
  <2>6. QED
    BY <2>2, <2>3, <2>4, <2>5 DEF CurrentBackedUp, WritingTorn
<1>6. CASE StartWrite
  <2>1. Current \in Paths /\ CurrentTarget \in Paths /\ recs \in [Paths -> Records]
    BY <1>6, CurrentType DEF StartWrite, TypeInv, PipeType, RecordsType
  <2>2. /\ pc = "write" /\ pc' = "writing" /\ UNCHANGED <<recs, todo, backup>>
        /\ real' = [real EXCEPT ![CurrentTarget] = Torn]
    BY <1>6 DEF StartWrite, commit
  <2>3. Current' = Current /\ CurrentTarget' = CurrentTarget
    BY <2>2 DEF Current, CurrentTarget, ShadowOf, First
  <2>4. \A p \in Paths : real'[p] = real[p] \/ real'[p] = Torn
    BY <2>2 DEF TypeInv, FilesType
  <2>5. ListedUntouched'
    BY <2>2, <2>4, FilesAssumption DEF ListedUntouched, Applying, RenameTarget, TypeInv, PipeType
  <2>6. CurrentBackedUp'
    BY <2>1, <2>2, <2>3, <2>4, FilesAssumption DEF CurrentBackedUp
  <2>7. WritingTorn'
    BY <2>1, <2>2, <2>3 DEF WritingTorn, TypeInv, FilesType
  <2>8. QED
    BY <2>5, <2>6, <2>7
<1>7. CASE FinishWrite
  <2>1. Current \in Paths /\ CurrentTarget \in Paths
    BY <1>7, CurrentType DEF FinishWrite, TypeInv, PipeType
  <2>2. /\ pc = "writing" /\ UNCHANGED <<recs, backup>>
        /\ real' = [real EXCEPT ![CurrentTarget] = shadow[CurrentTarget]]
    BY <1>7 DEF FinishWrite
  <2>3. CASE recs[Current].state = "renamed"
    <3>1. pc' = "remove" /\ UNCHANGED todo /\ Current' = Current
      BY <1>7, <2>2, <2>3 DEF FinishWrite, Current, First
    <3>2. CurrentTarget # Current /\ RenameTarget(CurrentTarget)
      BY <2>1, <2>3 DEF TwoPaths, CurrentTarget, ShadowOf, RenameTarget
    <3>3. \A p \in Paths : p # CurrentTarget => real'[p] = real[p]
      BY <2>2 DEF TypeInv, FilesType
    <3>4. ListedUntouched'
      BY <2>2, <3>1, <3>2, <3>3
         DEF ListedUntouched, Applying, RenameTarget, TypeInv, PipeType
    <3>5. QED
      BY <2>1, <2>2, <3>1, <3>2, <3>3, <3>4 DEF CurrentBackedUp, WritingTorn
  <2>4. CASE recs[Current].state # "renamed"
    <3>1. pc' = "backup" /\ todo' = todo \ {Current} /\ CurrentTarget = Current
      BY <1>7, <2>4 DEF FinishWrite, CurrentTarget, ShadowOf
    <3>2. \A p \in Paths : p # Current => real'[p] = real[p]
      BY <2>2, <3>1 DEF TypeInv, FilesType
    <3>3. ListedUntouched'
      BY <2>2, <3>1, <3>2 DEF ListedUntouched, Applying, RenameTarget, TypeInv, PipeType
    <3>4. QED
      BY <3>1, <3>3 DEF CurrentBackedUp, WritingTorn
  <2>5. QED
    BY <2>3, <2>4
<1>8. CASE Remove
  <2>1. /\ pc = "remove" /\ pc' = "backup" /\ todo' = todo \ {Current} /\ UNCHANGED recs
        /\ real' = [real EXCEPT ![Current] = NoFile]
    BY <1>8 DEF Remove
  <2>2. \A p \in Paths : p # Current => real'[p] = real[p]
    BY <2>1 DEF TypeInv, FilesType
  <2>3. ListedUntouched'
    BY <2>1, <2>2 DEF ListedUntouched, Applying, RenameTarget, TypeInv, PipeType
  <2>4. QED
    BY <2>1, <2>3 DEF CurrentBackedUp, WritingTorn
<1>9. QED
  BY <1>1, <1>2, <1>3, <1>4, <1>5, <1>6, <1>7, <1>8
     DEF Next, DriverStep, AppStep, PipeStep, CommitStep, DiscardStep, vars, files, commit,
         Applying, Query, Abandon, CopyOnWrite, FinishCopy, FailCopy, Persist, FailPersist,
         Delete, Rename, RecordRename, RecordRenamedCreation, DirectoryView, OpenShadow,
         Write, Close, Check, Pause, RemoveShadow, FailRemoveShadow, Forget, FailCommit,
         Isolate, FailIsolate, RollbackDiscard, Enqueue, LogCommit, Resume, Crash

\* No commit is under way at the start.
LEMMA InitCommit == Init => CommitInv
  BY NoValues DEF Init, CommitInv, TwoPaths, ListedUntouched, CurrentBackedUp, WritingTorn,
                  Applying, NoRecords, NoRecord, NoRequest

\* The commit invariant holds throughout.
LEMMA CommitInvariant == ASSUME Undisturbed PROVE Spec => [](TypeInv /\ CommitInv)
<1>1. Init => TypeInv /\ CommitInv
  BY InitType, InitCommit
<1>2. ASSUME TypeInv, CommitInv, [Next]_vars
      PROVE  TypeInv' /\ CommitInv'
  <2>1. TypeInv'
    BY <1>2, NextType
  <2>2. CommitInv'
    BY <1>2, StepKeepsPathsApart, StepKeepsCommit DEF CommitInv
  <2>3. QED
    BY <2>1, <2>2
<1>3. QED
  BY <1>1, <1>2, PTL DEF Spec

\* The real files that a step of a commit changes, and in which phases.
LEMMA CommitWrites ==
    ASSUME TypeInv, [Next]_vars, pc \in CommitPhases, pc' # pc,
           NEW p \in Paths, real'[p] # real[p]
    PROVE  \/ StartWrite /\ p = CurrentTarget
           \/ (FinishWrite \/ FailCommit) /\ pc = "writing" /\ p = CurrentTarget
           \/ Remove /\ p = Current
<1>1. CASE StartWrite
  BY <1>1 DEF StartWrite, TypeInv, FilesType
<1>2. CASE FinishWrite
  BY <1>2 DEF FinishWrite, TypeInv, FilesType
<1>3. CASE FailCommit
  BY <1>3 DEF FailCommit, TypeInv, FilesType
<1>4. CASE Remove
  BY <1>4 DEF Remove, TypeInv, FilesType
<1>5. QED
  BY <1>1, <1>2, <1>3, <1>4
     DEF Next, DriverStep, AppStep, PipeStep, CommitStep, DiscardStep, vars, files, commit,
         Query, Abandon, CopyOnWrite, FinishCopy, FailCopy, Persist, FailPersist, Delete,
         Rename, RecordRename, RecordRenamedCreation, DirectoryView, OpenShadow, Write,
         Close, ExternalWrite, Check, Pause, Preflight, Backup, RemoveShadow,
         FailRemoveShadow, Forget, Isolate, FailIsolate, RollbackDiscard, Enqueue,
         LogCommit, Resume, Crash

\* A commit overwrites a file that it has backed up and knows.
LEMMA CommitWritesOverKnown ==
    ASSUME TypeInv, CommitInv, [Next]_vars, pc \in CommitPhases, pc' # pc,
           NEW p \in Paths, real'[p] # real[p], real[p] \in Contents
    PROVE  backup[p] = real[p] /\ (real[p] = recs[p].orig \/ RenameTarget(p))
<1> USE DEF CommitInv
<1>1. CASE StartWrite /\ p = CurrentTarget
  <2>1. pc = "write" /\ Current \in todo
    BY <1>1, CurrentType DEF StartWrite, TypeInv, PipeType
  <2>2. recs[Current].state # "renamed"
    BY <1>1, FilesAssumption DEF StartWrite
  <2>3. p = Current
    BY <1>1, <2>2 DEF CurrentTarget, ShadowOf
  <2>4. QED
    BY <2>1, <2>3 DEF CurrentBackedUp, ListedUntouched, Applying
<1>2. CASE pc = "writing" /\ p = CurrentTarget
  BY <1>2, FilesAssumption DEF WritingTorn
<1>3. CASE Remove /\ p = Current
  <2>1. pc = "remove" /\ Current \in todo
    BY <1>3, CurrentType DEF Remove, TypeInv, PipeType
  <2>2. QED
    BY <1>3, <2>1 DEF CurrentBackedUp, ListedUntouched, Applying
<1>4. QED
  BY <1>1, <1>2, <1>3, CommitWrites

\* If nothing else changes real files while a commit runs, then whatever a commit
\* overwrites or removes is in its backup directory, in every interleaving with
\* requests, failures and crashes.
THEOREM BackedUpBeforeLoss == ASSUME Undisturbed PROVE Spec => BackupBeforeLoss
<1>1. TypeInv /\ CommitInv /\ [Next]_vars =>
        [\A p \in Paths :
            pc \in CommitPhases /\ pc' # pc /\ real'[p] # real[p] /\ real[p] \in Contents =>
            backup[p] = real[p]]_vars
  BY CommitWritesOverKnown
<1>2. Spec => [](TypeInv /\ CommitInv)
  BY CommitInvariant
<1>3. QED
  BY <1>1, <1>2, PTL DEF Spec, BackupBeforeLoss

\* And it is the file that the baseline describes, or one the commit put there.
THEOREM OverwritesOnlyBaseline == ASSUME Undisturbed PROVE Spec => CommitOnlyOverBaseline
<1>1. TypeInv /\ CommitInv /\ [Next]_vars =>
        [\A p \in Paths :
            pc \in CommitPhases /\ pc' # pc /\ real'[p] # real[p] /\ real[p] \in Contents =>
            \/ real[p] = recs[p].orig
            \/ \E r \in Paths : recs[r].state = "renamed" /\ recs[r].target = p]_vars
  BY CommitWritesOverKnown DEF RenameTarget
<1>2. Spec => [](TypeInv /\ CommitInv)
  BY CommitInvariant
<1>3. QED
  BY <1>1, <1>2, PTL DEF Spec, CommitOnlyOverBaseline

-----------------------------------------------------------------------------
(***************************************************************************)
(* Discards that fail.                                                      *)
(***************************************************************************)
DiscardInv ==
    /\ Paused => drv.pc = "idle" /\ \A x \in Apps : app[x].pc # "granted"
    /\ pc \in {"idle", "commit_checked", "discard_checked", "isolate"} => staged = NoFiles
    /\ pc = "forget_discard" => shadow = NoFiles /\ \A x \in Apps : app[x].pc # "open"
    /\ pc = "enqueue" => changes = NoRecords
    /\ DiscardAllOrNothing

\* No discard is under way at the start.
LEMMA InitDiscard == Init => DiscardInv
  BY DEF Init, DiscardInv, DiscardAllOrNothing, Paused, NoRequest, Idle

\* The driver message thread does nothing while the rule is paused.
LEMMA PausedServesNothing ==
    ASSUME TypeInv, DiscardInv, DriverStep
    PROVE  ~Paused /\ UNCHANGED <<pc, staged>>
  BY DEF DriverStep, DiscardInv, Serves, Query, Delete, Rename, CopyOnWrite, FinishCopy,
         FailCopy, Persist, FailPersist, RecordRename, RecordRenamedCreation, DirectoryView

\* Every step keeps what a discard relies on.
LEMMA StepKeepsDiscard ==
    ASSUME Quiet, "rollback" \notin Hazards, TypeInv, DiscardInv, [Next]_vars
    PROVE  DiscardInv'
<1> USE DEF DiscardInv, DiscardAllOrNothing
<1>1. CASE DriverStep
  BY <1>1, PausedServesNothing DEF Paused
<1>2. ASSUME NEW x \in Apps, Abandon(x) \/ Close(x)
      PROVE  DiscardInv'
  BY <1>2 DEF Abandon, Close, Becomes, Paused, files, TypeInv, AppType
<1>3. ASSUME NEW x \in Apps, OpenShadow(x) \/ Write(x)
      PROVE  DiscardInv'
  BY <1>3 DEF OpenShadow, Write, Becomes, Paused, TypeInv, AppType
<1>4. CASE Pause
  BY <1>4 DEF Pause, Paused, files
<1>5. CASE Isolate
  <2>1. \A x \in Apps : app[x].pc # "open"
    BY <1>5 DEF Isolate, Held, Holds, TypeInv, AppType
  <2>2. QED
    BY <1>5, <2>1 DEF Isolate, Paused
<1>6. CASE Forget
  BY <1>6 DEF Forget, Paused, files
<1>7. CASE RollbackDiscard
  BY <1>7 DEF RollbackDiscard, Paused
<1>8. CASE Enqueue
  BY <1>8 DEF Enqueue, Paused, files
<1>9. CASE FailIsolate
  BY <1>9 DEF FailIsolate, Paused, files
<1>10. CASE Resume \/ Crash
  BY <1>10 DEF Resume, Crash, Paused
<1>11. ASSUME \E checked \in {"commit_checked", "discard_checked"} : Check(checked)
       PROVE  DiscardInv'
  BY <1>11 DEF Check, Paused, files
<1>12. CASE \/ Preflight \/ Backup \/ StartWrite \/ FinishWrite \/ Remove
            \/ RemoveShadow \/ FailRemoveShadow \/ FailCommit \/ LogCommit
  BY <1>12 DEF Preflight, Backup, StartWrite, FinishWrite, Remove, RemoveShadow,
               FailRemoveShadow, FailCommit, LogCommit, Paused, files
<1>13. ASSUME NEW p \in Paths, ExternalWrite(p)
       PROVE  DiscardInv'
  BY <1>13 DEF ExternalWrite, Paused
<1>14. CASE UNCHANGED vars
  BY <1>14 DEF vars, Paused
<1>15. QED
  BY <1>1, <1>2, <1>3, <1>4, <1>5, <1>6, <1>7, <1>8, <1>9, <1>10, <1>11, <1>12, <1>13,
     <1>14 DEF Next, AppStep, PipeStep, CommitStep, DiscardStep

\* If the rule is paused only when no request is under way, and the move back of
\* the shadow tree succeeds, a discard that fails leaves either no record or the
\* whole shadow tree in its place.
THEOREM FailedDiscardIsWhole ==
    ASSUME Quiet, "rollback" \notin Hazards
    PROVE  Spec => []DiscardAllOrNothing
<1>1. Init => TypeInv /\ DiscardInv
  BY InitType, InitDiscard
<1>2. TypeInv /\ DiscardInv /\ [Next]_vars => TypeInv' /\ DiscardInv'
  BY NextType, StepKeepsDiscard
<1>3. DiscardInv => DiscardAllOrNothing
  BY DEF DiscardInv
<1>4. QED
  BY <1>1, <1>2, <1>3, PTL DEF Spec

=============================================================================

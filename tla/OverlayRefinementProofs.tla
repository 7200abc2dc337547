------------------------ MODULE OverlayRefinementProofs ------------------------
(***************************************************************************)
(* OverlayStore implements OverlayView for any number of paths and any      *)
(* contents: with one process at a time and nothing going wrong around it,  *)
(* the shadow tree, the records and the two threads of the service amount   *)
(* to a real directory and a view of it.                                    *)
(***************************************************************************)
EXTENDS OverlayViewProofs

\* Nothing goes wrong, and one process uses the directory.
Calm == Hazards = {} /\ \A x, y \in Apps : x = y

\* A rename brought a file to p, and its source is still in the real directory.
Brings(p) == RenamedInto(p) # {} /\ real[First(RenamedInto(p))] # NoFile

\* What is seen at p where nothing hides it and no shadow file is.
Beneath(p) == IF Brings(p) THEN real[First(RenamedInto(p))] ELSE real[p]

\* The directory that processes see.
Seen == [p \in Paths |-> Promised(p)]

-----------------------------------------------------------------------------
(***************************************************************************)
(* The invariant.                                                           *)
(***************************************************************************)

\* A process waits while its request is served.  What it has asked for is not hidden,
\* and a file that a rename brought there has its shadow.
AppInv ==
    /\ drv.pc # "idle" => \A x \in Apps : app[x].pc \in {"idle", "queried"}
    /\ drv.pc \in {"tombstone", "moved", "unrecorded"} => \A x \in Apps : app[x].pc = "idle"
    /\ \A x \in Apps : app[x].pc = "queried" =>
          /\ ~Hidden(app[x].path)
          /\ pc # "forget_discard" /\ shadow[app[x].path] = NoFile => ~Brings(app[x].path)
    /\ \A x \in Apps : app[x].pc = "open" => shadow[app[x].path] # NoFile
    /\ \A x \in Apps : app[x].pc \in {"granted", "open"} /\ changes[app[x].path].state = "created" =>
          real[app[x].path] = NoFile

\* A request works on a path that is seen, and its files are as it left them.
DrvInv ==
    /\ drv.pc \in {"copying", "persist", "tombstone", "moved"} => ~Hidden(drv.path)
    /\ drv.pc = "copying" =>
          /\ real[drv.from] # NoFile /\ shadow[drv.path] # NoFile
          /\ drv.state = "none" => RenamedInto(drv.path) # {}
    /\ drv.pc = "persist" /\ drv.state = "created" => real[drv.path] = NoFile
    /\ drv.pc = "tombstone" => drv.target = NoPath
    /\ drv.pc \in {"moved", "unrecorded"} =>
          /\ drv.target # drv.path /\ ~Recorded(drv.target)
          /\ shadow[drv.path] = NoFile /\ shadow[drv.target] # NoFile
          /\ shadow[drv.target] = drv.before[drv.path] /\ drv.before[drv.target] = NoFile
          /\ drv.state = "created" \/ drv.pc = "unrecorded" => real[drv.path] = NoFile
    /\ drv.pc = "unrecorded" => ~Recorded(drv.path)

\* Where a renamed file would show through for want of a shadow, no real file is, or a
\* request is about to hide the path.
GapInv ==
    pc # "forget_discard" =>
        \A p \in Paths : ~Hidden(p) /\ shadow[p] = NoFile /\ Brings(p) =>
            real[p] = NoFile \/ (drv.pc \in {"tombstone", "moved"} /\ drv.path = p)

\* A shadow file that no record covers is the copy of the real file, or a request has
\* it in hand.
CopyInv ==
    \A p \in Paths : ~Covered(p) /\ shadow[p] # NoFile =>
        \/ shadow[p] = real[p]
        \/ drv.pc = "copying" /\ drv.path = p
        \/ drv.pc \in {"moved", "unrecorded"} /\ drv.target = p

\* A request has changed nothing that is seen until its record is stored.
BeforeInv == drv.pc # "idle" => drv.before = Seen

ServedInv == AppInv /\ DrvInv /\ GapInv /\ CopyInv /\ BeforeInv

Inv == TypeInv /\ QuietInv /\ HolderInv /\ ViewInv /\ ServedInv

-----------------------------------------------------------------------------
(***************************************************************************)
(* What the view of a path depends on.                                      *)
(***************************************************************************)

\* The view where no copy is under way.
LEMMA PlainView ==
    ASSUME NEW p \in Paths, ~(drv.pc = "copying" /\ drv.path = p)
    PROVE  View(p) = IF Hidden(p) THEN NoFile ELSE IF shadow[p] # NoFile THEN shadow[p] ELSE Beneath(p)
  BY DEF View, Beneath, Brings

\* And while a copy is.
LEMMA CopyView ==
    ASSUME NEW p \in Paths, drv.pc = "copying", drv.path = p, ~Hidden(p), shadow[p] # NoFile
    PROVE  View(p) = real[drv.from]
  BY DEF View

\* Records that stay say the same.
LEMMA RecordsStay ==
    UNCHANGED changes => \A p \in Paths :
        /\ Hidden(p)' = Hidden(p) /\ Recorded(p)' = Recorded(p)
        /\ RenamedInto(p)' = RenamedInto(p) /\ Covered(p)' = Covered(p)
  BY DEF Hidden, Recorded, RenamedInto, Covered

\* A record of what is not a rename, of a path that is seen, leaves the renames and
\* what is said of other paths.
LEMMA UpsertStays ==
    ASSUME TypeInv, NEW p \in Paths, ~Hidden(p), NEW state \in {"created", "modified", "tombstone"},
           changes' = Upsert(p, state, NoPath)
    PROVE  /\ changes'[p].state = state
           /\ \A q \in Paths : RenamedInto(q)' = RenamedInto(q)
           /\ \A q \in Paths \ {p} : /\ changes'[q] = changes[q]
                                     /\ Hidden(q)' = Hidden(q) /\ Recorded(q)' = Recorded(q)
                                     /\ Covered(q)' = Covered(q)
<1>1. changes'[p].state = state /\ \A q \in Paths \ {p} : changes'[q] = changes[q]
  BY UpsertEffect
<1>2. \A q \in Paths : RenamedInto(q)' = RenamedInto(q)
  BY <1>1 DEF RenamedInto, Hidden
<1>3. QED
  BY <1>1, <1>2 DEF Hidden, Recorded, Covered

\* Where real files and the renames stay, so does what is beneath.
LEMMA BeneathStays ==
    ASSUME UNCHANGED real, NEW p \in Paths, RenamedInto(p)' = RenamedInto(p)
    PROVE  Brings(p)' = Brings(p) /\ Beneath(p)' = Beneath(p)
  BY DEF Brings, Beneath

\* Between requests, and outside a discard, what is promised is the view.
LEMMA SeenIsView ==
    ASSUME drv.pc \notin {"tombstone", "moved", "unrecorded"}, pc # "forget_discard"
    PROVE  Seen = Views /\ \A p \in Paths : Seen[p] = View(p)
  BY DEF Seen, Promised, Views

\* So is it at every path that the request does not name.
LEMMA SeenBeside ==
    ASSUME pc # "forget_discard", NEW p \in Paths, p # drv.path, p # drv.target
    PROVE  Seen[p] = View(p)
  BY DEF Seen, Promised

\* And at those that it names, it is what was seen before.
LEMMA SeenBefore ==
    ASSUME drv.pc \in {"tombstone", "moved", "unrecorded"}, NEW p \in Paths, p \in {drv.path, drv.target}
    PROVE  Seen[p] = drv.before[p]
  BY DEF Seen, Promised

\* A path that is promised something else names the difference.
LEMMA SeenStays ==
    ASSUME \A p \in Paths : Promised(p)' = Promised(p)
    PROVE  Seen' = Seen
  BY DEF Seen

\* Two things that agree everywhere.
LEMMA SeenEquals ==
    ASSUME NEW f, f = [p \in Paths |-> f[p]], \A p \in Paths : Seen[p] = f[p]
    PROVE  Seen = f
  BY DEF Seen

-----------------------------------------------------------------------------
(***************************************************************************)
(* The requests that start.                                                 *)
(***************************************************************************)

\* A request is accepted between commits and discards.
LEMMA ServesOpen ==
    Serves => drv.pc = "idle" /\ ~Paused /\ pc \notin {"forget_discard", "forget_commit"} /\ pc \notin CommitPhases
  BY DEF Serves, Paused, CommitPhases

\* If processes see the same and a request starts with what they see, or keeps what it
\* started with, then it has changed nothing so far.
LEMMA BeforeStays ==
    ASSUME BeforeInv, Seen' = Seen,
           drv'.pc = "idle" \/ drv'.before = Seen \/ (drv.pc # "idle" /\ drv'.before = drv.before)
    PROVE  BeforeInv'
  BY DEF BeforeInv

\* A query is answered, or copies what a rename brought.
LEMMA QueryStep ==
    ASSUME Calm, Inv, NEW x \in Apps, NEW p \in Paths, Query(x, p)
    PROVE  ServedInv' /\ Seen' = Seen /\ Views' = Views
<1> USE DEF Inv, ServedInv
<1>1. /\ drv.pc = "idle" /\ pc # "forget_discard" /\ ~Hidden(p) /\ app[x] = Idle
      /\ UNCHANGED <<real, changes, pc, staged>>
  BY ServesOpen DEF Query
<1>2. \A y \in Apps : app[y].pc = "idle"
  BY <1>1 DEF Calm, Idle
<1>3. \A q \in Paths : /\ Hidden(q)' = Hidden(q) /\ Recorded(q)' = Recorded(q)
                       /\ RenamedInto(q)' = RenamedInto(q) /\ Covered(q)' = Covered(q)
                       /\ Brings(q)' = Brings(q) /\ Beneath(q)' = Beneath(q)
  BY <1>1, RecordsStay, BeneathStays
<1>4. Seen = Views /\ \A q \in Paths : Seen[q] = View(q)
  BY <1>1, SeenIsView
<1>5. CASE shadow[p] = NoFile /\ Brings(p)
  <2>1. PICK r \in Paths : r = First(RenamedInto(p)) /\ r \in RenamedInto(p)
    BY <1>5, FirstIsLeast DEF Brings, RenamedInto
  <2>2. /\ drv'.pc = "copying" /\ drv'.path = p /\ drv'.from = r /\ drv'.state = "none" /\ drv'.before = Views
        /\ UNCHANGED app
    BY <1>5, <2>1 DEF Query, Request, Brings
  <2>3. shadow'[p] = Torn /\ \A q \in Paths \ {p} : shadow'[q] = shadow[q]
    BY <1>5 DEF Query, Brings, TypeInv, FilesType
  <2>4. Torn # NoFile /\ real[r] # NoFile /\ View(p) = real[r]
    BY <1>1, <1>5, <2>1, FilesAssumption, PlainView DEF Beneath, Brings
  <2>5. View(p)' = real[r]
    BY <1>1, <1>3, <2>2, <2>3, <2>4 DEF View
  <2>6. \A q \in Paths \ {p} : View(q)' = View(q)
    BY <1>1, <1>3, <2>2, <2>3, PlainView DEF View, Beneath, Brings
  <2>7. Views' = Views
    BY <2>4, <2>5, <2>6 DEF Views
  <2>8. Seen' = Views'
    BY <1>1, <2>2 DEF Seen, Promised, Views
  <2>9. AppInv'
    BY <1>2, <2>2 DEF AppInv
  <2>10. DrvInv'
    BY <1>1, <1>3, <1>5, <2>2, <2>3, <2>4 DEF DrvInv, Brings
  <2>11. GapInv'
    BY <1>1, <1>3, <2>3, <2>4 DEF GapInv
  <2>12. CopyInv'
    BY <1>1, <1>3, <2>2, <2>3 DEF CopyInv
  <2>13. BeforeInv'
    BY <1>4, <2>2, <2>7, <2>8 DEF BeforeInv
  <2>14. QED
    BY <1>4, <2>7, <2>8, <2>9, <2>10, <2>11, <2>12, <2>13
<1>6. CASE ~(shadow[p] = NoFile /\ Brings(p))
  <2>1. UNCHANGED <<drv, shadow>> /\ Becomes(x, "queried", p)
    BY <1>6 DEF Query, Brings
  <2>2. app'[x].pc = "queried" /\ app'[x].path = p /\ \A y \in Apps : y = x
    BY <2>1 DEF Becomes, Calm, TypeInv, AppType
  <2>3. AppInv'
    BY <1>1, <1>3, <1>6, <2>1, <2>2 DEF AppInv
  <2>4. DrvInv'
    BY <1>1, <2>1 DEF DrvInv
  <2>5. GapInv' /\ CopyInv'
    BY <1>1, <1>3, <2>1 DEF GapInv, CopyInv
  <2>6. \A q \in Paths : View(q)' = View(q)
    BY <1>1, <1>3, <2>1 DEF View
  <2>7. Views' = Views /\ Seen' = Views'
    BY <1>1, <2>1, <2>6 DEF Seen, Promised, Views
  <2>8. BeforeInv'
    BY <1>1, <2>1 DEF BeforeInv
  <2>9. QED
    BY <1>4, <2>3, <2>4, <2>5, <2>7, <2>8
<1>7. QED
  BY <1>5, <1>6

\* A copy-on-write begins with the copy of the real file, if there is one.
LEMMA CopyOnWriteStep ==
    ASSUME Calm, Inv, NEW x \in Apps, CopyOnWrite(x)
    PROVE  ServedInv' /\ Seen' = Seen
<1> USE DEF Inv, ServedInv
<1>1. PICK p \in Paths : p = app[x].path
  BY DEF CopyOnWrite, TypeInv, AppType
<1>2. /\ drv.pc = "idle" /\ pc # "forget_discard" /\ app[x].pc = "queried" /\ ~Hidden(p)
      /\ UNCHANGED <<real, changes, app, pc, staged>> /\ (shadow[p] = NoFile => ~Brings(p))
  BY <1>1, ServesOpen DEF CopyOnWrite, AppInv
<1>3. \A y \in Apps : y = x
  BY DEF Calm
<1>4. \A q \in Paths : /\ Hidden(q)' = Hidden(q) /\ Recorded(q)' = Recorded(q)
                       /\ RenamedInto(q)' = RenamedInto(q) /\ Covered(q)' = Covered(q)
                       /\ Brings(q)' = Brings(q) /\ Beneath(q)' = Beneath(q)
  BY <1>2, RecordsStay, BeneathStays
<1>5. Seen = Views /\ \A q \in Paths : Seen[q] = View(q)
  BY <1>2, SeenIsView
<1>6. /\ drv'.path = p /\ drv'.from = p /\ drv'.before = Views
      /\ drv'.pc = IF real[p] # NoFile /\ shadow[p] = NoFile THEN "copying" ELSE "persist"
      /\ drv'.state = IF real[p] # NoFile THEN "modified" ELSE "created"
  BY <1>1 DEF CopyOnWrite, Request
<1>7. /\ shadow'[p] = IF real[p] # NoFile /\ shadow[p] = NoFile THEN Torn ELSE shadow[p]
      /\ \A q \in Paths \ {p} : shadow'[q] = shadow[q]
  BY <1>1 DEF CopyOnWrite, TypeInv, FilesType
<1>8. Torn # NoFile
  BY FilesAssumption
<1>9. \A q \in Paths \ {p} : View(q)' = View(q)
  BY <1>2, <1>4, <1>6, <1>7, PlainView DEF View, Beneath, Brings
<1>10. View(p)' = View(p)
  BY <1>2, <1>4, <1>6, <1>7, <1>8 DEF View, Beneath, Brings
<1>11. Seen' = Seen
  <2>1. Views' = Views
    BY <1>9, <1>10 DEF Views
  <2>2. Seen' = Views'
    BY <1>2, <1>6 DEF Seen, Promised, Views
  <2>3. QED
    BY <1>5, <2>1, <2>2
<1>12. AppInv'
  BY <1>1, <1>2, <1>3, <1>4, <1>6, <1>7, <1>8 DEF AppInv
<1>13. DrvInv'
  BY <1>2, <1>4, <1>6, <1>7, <1>8 DEF DrvInv
<1>14. GapInv'
  BY <1>2, <1>4, <1>7, <1>8 DEF GapInv
<1>15. CopyInv'
  BY <1>2, <1>4, <1>6, <1>7 DEF CopyInv
<1>16. BeforeInv'
  BY <1>5, <1>6, <1>11 DEF BeforeInv
<1>17. QED
  BY <1>11, <1>12, <1>13, <1>14, <1>15, <1>16

\* A delete begins with the removal of the shadow file, and nobody has noticed yet.
LEMMA DeleteStep ==
    ASSUME Calm, Inv, NEW x \in Apps, NEW p \in Paths, Delete(x, p)
    PROVE  ServedInv' /\ Seen' = Seen
<1> USE DEF Inv, ServedInv
<1>1. /\ drv.pc = "idle" /\ pc # "forget_discard" /\ Holds(x, p)
      /\ UNCHANGED <<real, changes, pc, staged>>
  BY ServesOpen DEF Delete, Reaches, Calm
<1>2. ~Hidden(p)
  BY <1>1 DEF HolderInv, Holders, Holds
<1>3. \A y \in Apps : app'[y].pc = "idle"
  BY DEF Delete, Becomes, Calm, TypeInv, AppType
<1>4. \A q \in Paths : /\ Hidden(q)' = Hidden(q) /\ Recorded(q)' = Recorded(q)
                       /\ RenamedInto(q)' = RenamedInto(q) /\ Covered(q)' = Covered(q)
                       /\ Brings(q)' = Brings(q) /\ Beneath(q)' = Beneath(q)
  BY <1>1, RecordsStay, BeneathStays
<1>5. Seen = Views /\ \A q \in Paths : Seen[q] = View(q)
  BY <1>1, SeenIsView
<1>6. /\ drv'.pc = "tombstone" /\ drv'.path = p /\ drv'.target = NoPath /\ drv'.before = Views
  BY DEF Delete, Request
<1>7. shadow'[p] = NoFile /\ \A q \in Paths \ {p} : shadow'[q] = shadow[q]
  BY DEF Delete, TypeInv, FilesType
<1>8. \A q \in Paths : Promised(q)' = View(q)
  <2>1. Promised(p)' = View(p)
    BY <1>6 DEF Promised, Views
  <2>2. ASSUME NEW q \in Paths \ {p}
        PROVE  Promised(q)' = View(q)
    <3>1. Promised(q)' = View(q)'
      BY <1>1, <1>6 DEF Promised, NoPath, Paths
    <3>2. View(q)' = View(q)
      BY <1>1, <1>4, <1>6, <1>7, PlainView DEF View, Beneath, Brings
    <3>3. QED
      BY <3>1, <3>2
  <2>3. QED
    BY <2>1, <2>2
<1>9. Seen' = Seen
  BY <1>5, <1>8 DEF Seen, Views
<1>10. AppInv'
  BY <1>3 DEF AppInv
<1>11. DrvInv'
  BY <1>2, <1>4, <1>6 DEF DrvInv
<1>12. GapInv'
  BY <1>1, <1>4, <1>6, <1>7 DEF GapInv
<1>13. CopyInv'
  BY <1>1, <1>4, <1>7 DEF CopyInv
<1>14. BeforeInv'
  BY <1>5, <1>6, <1>9 DEF BeforeInv
<1>15. QED
  BY <1>9, <1>10, <1>11, <1>12, <1>13, <1>14

\* A rename begins with the move of the shadow file, and nobody has noticed yet.
LEMMA RenameStep ==
    ASSUME Calm, Inv, NEW x \in Apps, NEW p \in Paths, NEW q \in Paths, Rename(x, p, q)
    PROVE  ServedInv' /\ Seen' = Seen
<1> USE DEF Inv, ServedInv
<1>1. drv.pc = "idle" /\ pc # "forget_discard" /\ Holds(x, p) /\ p # q /\ UNCHANGED <<real, pc, staged>>
  BY ServesOpen DEF Rename, Reaches, RenameAllowed, Calm
<1>2. ~Hidden(p) /\ Recorded(p) /\ shadow[p] # NoFile
  BY <1>1 DEF HolderInv, Holders, Holds, AppInv
<1>3. UNCHANGED changes
  BY <1>2 DEF Rename
<1>4. ~Recorded(q) /\ ~Hidden(q) /\ RenamedInto(q) = {} /\ real[q] = NoFile /\ shadow[q] = NoFile
  BY DEF Rename, RenameAllowed, Recorded, Hidden, RenamedInto
<1>5. \A y \in Apps : app'[y].pc = "idle"
  BY DEF Rename, Becomes, Calm, TypeInv, AppType
<1>6. \A r \in Paths : /\ Hidden(r)' = Hidden(r) /\ Recorded(r)' = Recorded(r)
                       /\ RenamedInto(r)' = RenamedInto(r) /\ Covered(r)' = Covered(r)
                       /\ Brings(r)' = Brings(r) /\ Beneath(r)' = Beneath(r)
  BY <1>1, <1>3, RecordsStay, BeneathStays
<1>7. Seen = Views /\ \A r \in Paths : Seen[r] = View(r)
  BY <1>1, SeenIsView
<1>8. /\ drv'.pc = "moved" /\ drv'.path = p /\ drv'.target = q /\ drv'.before = Views
      /\ drv'.state = "created" => changes[p].state = "created"
  BY DEF Rename, Request
<1>9. /\ shadow'[p] = NoFile /\ shadow'[q] = shadow[p]
      /\ \A r \in Paths \ {p, q} : shadow'[r] = shadow[r]
  BY <1>1, <1>2 DEF Rename, TypeInv, FilesType
<1>10. View(p) = shadow[p] /\ View(q) = NoFile
  BY <1>1, <1>2, <1>4, PlainView DEF Beneath, Brings
<1>11. changes[p].state = "created" => real[p] = NoFile
  BY <1>1 DEF AppInv, Holds
<1>12. \A r \in Paths : Promised(r)' = View(r)
  <2>1. ASSUME NEW r \in {p, q}
        PROVE  Promised(r)' = View(r)
    BY <1>8 DEF Promised, Views
  <2>2. ASSUME NEW r \in Paths \ {p, q}
        PROVE  Promised(r)' = View(r)
    <3>1. Promised(r)' = View(r)'
      BY <1>1, <1>8 DEF Promised
    <3>2. View(r)' = View(r)
      BY <1>1, <1>6, <1>8, <1>9, PlainView DEF View, Beneath, Brings
    <3>3. QED
      BY <3>1, <3>2
  <2>3. QED
    BY <2>1, <2>2
<1>13. Seen' = Seen
  BY <1>7, <1>12 DEF Seen, Views
<1>14. AppInv'
  BY <1>5 DEF AppInv
<1>15. DrvInv'
  BY <1>1, <1>2, <1>4, <1>6, <1>8, <1>9, <1>10, <1>11 DEF DrvInv, Views
<1>16. GapInv'
  BY <1>1, <1>2, <1>6, <1>8, <1>9 DEF GapInv
<1>17. CopyInv'
  BY <1>1, <1>6, <1>8, <1>9 DEF CopyInv
<1>18. BeforeInv'
  BY <1>7, <1>8, <1>13 DEF BeforeInv
<1>19. QED
  BY <1>13, <1>14, <1>15, <1>16, <1>17, <1>18

\* A directory view copies what is seen, and drops what is not.
LEMMA DirectoryViewStep ==
    ASSUME Calm, Inv, DirectoryView
    PROVE  ServedInv' /\ Seen' = Seen /\ Views' = Views
<1> USE DEF Inv, ServedInv
<1>1. /\ drv.pc = "idle" /\ pc # "forget_discard" /\ UNCHANGED <<real, changes, app, drv, pc, staged>>
  BY ServesOpen DEF DirectoryView
<1>2. \A q \in Paths : /\ Hidden(q)' = Hidden(q) /\ Recorded(q)' = Recorded(q)
                       /\ RenamedInto(q)' = RenamedInto(q) /\ Covered(q)' = Covered(q)
                       /\ Brings(q)' = Brings(q) /\ Beneath(q)' = Beneath(q)
  BY <1>1, RecordsStay, BeneathStays
<1>3. \A q \in Paths : ~Hidden(q) => shadow'[q] = IF shadow[q] = NoFile THEN real[q] ELSE shadow[q]
  BY DEF DirectoryView, Calm, Hidden
<1>4. \A q \in Paths : ~Hidden(q) /\ shadow[q] = NoFile => Beneath(q) = real[q] \/ real[q] = NoFile
  BY <1>1 DEF GapInv, Beneath
<1>5. \A q \in Paths : View(q)' = View(q)
  BY <1>1, <1>2, <1>3, <1>4, PlainView DEF View, Beneath, Brings
<1>6. Views' = Views
  BY <1>5 DEF Views
<1>7. Seen' = Seen
  <2>1. Seen = Views /\ Seen' = Views'
    BY <1>1 DEF Seen, Promised, Views
  <2>2. QED
    BY <1>6, <2>1
<1>8. AppInv'
  <2>1. ASSUME NEW x \in Apps, app[x].pc = "open"
        PROVE  shadow'[app[x].path] # NoFile
    <3>1. PICK q \in Paths : q = app[x].path
      BY <2>1 DEF TypeInv, AppType
    <3>2. ~Hidden(q) /\ shadow[q] # NoFile
      BY <2>1, <3>1 DEF HolderInv, Holders, AppInv
    <3>3. QED
      BY <1>3, <3>1, <3>2
  <2>2. ASSUME NEW x \in Apps, app[x].pc = "queried"
        PROVE  ~Hidden(app[x].path)' /\ (shadow'[app[x].path] = NoFile => ~Brings(app[x].path)')
    <3>1. PICK q \in Paths : q = app[x].path
      BY <2>2 DEF TypeInv, AppType
    <3>2. ~Hidden(q) /\ (shadow[q] = NoFile => ~Brings(q))
      BY <1>1, <2>2, <3>1 DEF AppInv
    <3>3. ~Hidden(q)' /\ (shadow'[q] = NoFile => ~Brings(q)')
      BY <1>2, <1>3, <3>2
    <3>4. QED
      BY <1>1, <3>1, <3>3 DEF Hidden, Brings, RenamedInto
  <2>3. QED
    BY <1>1, <2>1, <2>2 DEF AppInv
<1>9. DrvInv'
  BY <1>1 DEF DrvInv
<1>10. GapInv'
  BY <1>1, <1>2, <1>3 DEF GapInv
<1>11. CopyInv'
  <2>1. \A q \in Paths : Hidden(q) => Covered(q)
    BY DEF Hidden, Covered, Recorded
  <2>2. QED
    BY <1>1, <1>2, <1>3, <2>1 DEF CopyInv
<1>12. BeforeInv'
  BY <1>1 DEF BeforeInv
<1>13. QED
  BY <1>6, <1>7, <1>8, <1>9, <1>10, <1>11, <1>12

-----------------------------------------------------------------------------
(***************************************************************************)
(* The requests that go on and end.                                         *)
(***************************************************************************)

\* While a request is served, no commit or discard is in its way.
LEMMA BusyOpen ==
    QuietInv /\ drv.pc # "idle" => ~Paused /\ pc \notin {"forget_discard", "forget_commit"} /\ pc \notin CommitPhases
  BY DEF QuietInv, Paused, CommitPhases

\* A copy that comes to its end shows what was there before it.
LEMMA FinishCopyStep ==
    ASSUME Calm, Inv, FinishCopy
    PROVE  ServedInv' /\ Seen' = Seen
<1> USE DEF Inv, ServedInv
<1>1. PICK p \in Paths : p = drv.path
  BY DEF FinishCopy, TypeInv, DrvType
<1>2. /\ drv.pc = "copying" /\ pc # "forget_discard" /\ ~Hidden(p) /\ shadow[p] # NoFile
      /\ real[drv.from] # NoFile /\ UNCHANGED <<real, changes, pc, staged>>
  BY <1>1, BusyOpen DEF FinishCopy, DrvInv
<1>3. \A q \in Paths : /\ Hidden(q)' = Hidden(q) /\ Recorded(q)' = Recorded(q)
                       /\ RenamedInto(q)' = RenamedInto(q) /\ Covered(q)' = Covered(q)
                       /\ Brings(q)' = Brings(q) /\ Beneath(q)' = Beneath(q)
  BY <1>2, RecordsStay, BeneathStays
<1>4. shadow'[p] = real[drv.from] /\ \A q \in Paths \ {p} : shadow'[q] = shadow[q]
  BY <1>1 DEF FinishCopy, TypeInv, FilesType
<1>5. CASE drv.state = "none"
  <2>1. drv'.pc = "idle" /\ Becomes(drv.app, "queried", p) /\ drv.app \in Apps
    BY <1>1, <1>5 DEF FinishCopy, NoRequest, TypeInv, DrvType
  <2>2. \A y \in Apps : app'[y].pc = "queried" /\ app'[y].path = p
    BY <2>1 DEF Becomes, Calm, TypeInv, AppType
  <2>3. RenamedInto(p) # {}
    BY <1>1, <1>2, <1>5 DEF DrvInv
  <2>4. AppInv'
    BY <1>2, <1>3, <1>4, <2>1, <2>2 DEF AppInv
  <2>5. DrvInv'
    BY <2>1 DEF DrvInv
  <2>6. GapInv'
    BY <1>1, <1>2, <1>3, <1>4 DEF GapInv
  <2>7. CopyInv'
    BY <1>1, <1>2, <1>3, <1>4, <2>3 DEF CopyInv, Covered
  <2>8. \A q \in Paths : View(q)' = View(q)
    BY <1>1, <1>2, <1>3, <1>4, <2>1, PlainView, CopyView DEF View, Beneath, Brings
  <2>9. Seen' = Seen
    BY <1>2, <2>1, <2>8 DEF Seen, Promised
  <2>10. BeforeInv'
    BY <2>1 DEF BeforeInv
  <2>11. QED
    BY <2>4, <2>5, <2>6, <2>7, <2>9, <2>10
<1>6. CASE drv.state # "none"
  <2>1. drv' = [drv EXCEPT !.pc = "persist"] /\ UNCHANGED app
    BY <1>6 DEF FinishCopy
  <2>2. /\ drv'.pc = "persist" /\ drv'.path = p /\ drv'.state = drv.state /\ drv'.before = drv.before
        /\ drv.state = "modified" /\ drv.from = p
    BY <1>1, <1>2, <1>6, <2>1 DEF TypeInv, DrvType, Requests, ViewInv, StaleInv
  <2>3. AppInv'
    <3>1. ASSUME NEW x \in Apps, app[x].pc = "queried"
          PROVE  ~Hidden(app[x].path)' /\ (shadow'[app[x].path] = NoFile => ~Brings(app[x].path)')
      <4>1. PICK q \in Paths : q = app[x].path
        BY <3>1 DEF TypeInv, AppType
      <4>2. ~Hidden(q)' /\ (shadow'[q] = NoFile => ~Brings(q)')
        BY <1>2, <1>3, <1>4, <3>1, <4>1 DEF AppInv
      <4>3. QED
        BY <2>1, <4>1, <4>2 DEF Hidden, Brings, RenamedInto
    <3>2. QED
      BY <1>2, <2>1, <2>2, <3>1 DEF AppInv
  <2>4. DrvInv'
    BY <1>2, <1>3, <2>2 DEF DrvInv
  <2>5. GapInv'
    BY <1>1, <1>2, <1>3, <1>4 DEF GapInv
  <2>6. CopyInv'
    BY <1>1, <1>2, <1>3, <1>4, <2>2 DEF CopyInv
  <2>7. \A q \in Paths : View(q)' = View(q)
    BY <1>1, <1>2, <1>3, <1>4, <2>2, PlainView, CopyView DEF View, Beneath, Brings
  <2>8. Seen' = Seen
    BY <1>2, <2>2, <2>7 DEF Seen, Promised
  <2>9. BeforeInv'
    BY <1>2, <2>2, <2>8 DEF BeforeInv
  <2>10. QED
    BY <2>3, <2>4, <2>5, <2>6, <2>8, <2>9
<1>7. QED
  BY <1>5, <1>6

\* Nothing keeps a copy from its end.
LEMMA NoFailCopy == ASSUME Calm, Inv PROVE ~FailCopy
  BY DEF FailCopy, Calm, Inv, ServedInv, DrvInv

\* The record of a copy-on-write changes nothing that is seen, the record of a delete
\* takes its path away.
LEMMA PersistStep ==
    ASSUME Calm, Inv, Persist
    PROVE  /\ ServedInv' /\ Seen' = Views'
           /\ drv.pc = "persist" => Seen' = Seen
           /\ drv.pc = "tombstone" => Seen' = [Seen EXCEPT ![drv.path] = NoFile]
<1> USE DEF Inv, ServedInv
<1>1. PICK p \in Paths : p = drv.path
  BY DEF Persist, TypeInv, DrvType
<1>2. /\ drv.pc \in {"persist", "tombstone"} /\ pc # "forget_discard" /\ ~Hidden(p)
      /\ drv'.pc = "idle" /\ UNCHANGED <<real, shadow, pc, staged>>
      /\ drv.state \in {"created", "modified", "tombstone"} /\ drv.app \in Apps
  BY <1>1, BusyOpen DEF Persist, DrvInv, NoRequest, files, TypeInv, DrvType
<1>3. /\ changes'[p].state = drv.state
      /\ \A q \in Paths : RenamedInto(q)' = RenamedInto(q)
      /\ \A q \in Paths \ {p} : /\ changes'[q] = changes[q]
                                /\ Hidden(q)' = Hidden(q) /\ Recorded(q)' = Recorded(q)
                                /\ Covered(q)' = Covered(q)
  <2>1. changes' = Upsert(p, drv.state, NoPath)
    BY <1>1 DEF Persist
  <2>2. QED
    BY <1>2, <2>1, UpsertStays
<1>4. \A q \in Paths : Brings(q)' = Brings(q) /\ Beneath(q)' = Beneath(q)
  BY <1>2, <1>3, BeneathStays
<1>5. Covered(p)' /\ (Hidden(p)' <=> drv.pc = "tombstone")
  BY <1>2, <1>3 DEF Covered, Recorded, Hidden, TypeInv, DrvType
<1>6. \A q \in Paths \ {p} : View(q)' = View(q)
  BY <1>1, <1>2, <1>3, <1>4, PlainView DEF View, Beneath, Brings
<1>7. View(p)' = IF drv.pc = "tombstone" THEN NoFile ELSE View(p)
  <2>1. View(p)' = IF Hidden(p)' THEN NoFile ELSE IF shadow[p] # NoFile THEN shadow[p] ELSE Beneath(p)'
    BY <1>2 DEF View, Beneath, Brings
  <2>2. View(p) = IF shadow[p] # NoFile THEN shadow[p] ELSE Beneath(p)
    BY <1>2, PlainView
  <2>3. QED
    BY <1>4, <1>5, <2>1, <2>2
<1>8. Seen' = Views'
  BY <1>2 DEF Seen, Promised, Views
<1>9. drv.pc = "persist" => Seen' = Seen
  <2>1. drv.pc = "persist" => Seen = Views
    BY <1>2, SeenIsView
  <2>2. drv.pc = "persist" => Views' = Views
    BY <1>6, <1>7 DEF Views
  <2>3. QED
    BY <1>8, <2>1, <2>2
<1>10. drv.pc = "tombstone" => Seen' = [Seen EXCEPT ![p] = NoFile]
  <2>1. ASSUME drv.pc = "tombstone", NEW q \in Paths \ {p}
        PROVE  Promised(q) = View(q)
    BY <1>1, <1>2, <2>1 DEF Promised, DrvInv, NoPath, Paths
  <2>2. drv.pc = "tombstone" => \A q \in Paths : View(q)' = IF q = p THEN NoFile ELSE Promised(q)
    BY <1>6, <1>7, <2>1
  <2>3. QED
    BY <1>8, <2>2 DEF Seen, Views
<1>11. AppInv'
  <2>1. CASE drv.pc = "persist"
    <3>1. \A y \in Apps : app'[y].pc = "granted" /\ app'[y].path = p
      BY <1>1, <1>2, <2>1 DEF Persist, Becomes, Calm, TypeInv, AppType
    <3>2. drv.state = "created" => real[p] = NoFile
      BY <1>1, <2>1 DEF DrvInv
    <3>3. QED
      BY <1>2, <1>3, <3>1, <3>2 DEF AppInv
  <2>2. CASE drv.pc = "tombstone"
    <3>1. \A y \in Apps : app'[y].pc = "idle"
      BY <2>2 DEF Persist, AppInv
    <3>2. QED
      BY <1>2, <3>1 DEF AppInv
  <2>3. QED
    BY <1>2, <2>1, <2>2
<1>12. DrvInv'
  BY <1>2 DEF DrvInv
<1>13. GapInv'
  <2>1. ASSUME NEW q \in Paths, ~Hidden(q)', shadow'[q] = NoFile, Brings(q)'
        PROVE  real'[q] = NoFile
    <3>1. ~Hidden(q) /\ shadow[q] = NoFile /\ Brings(q)
      BY <1>2, <1>3, <1>4, <2>1
    <3>2. ~(drv.pc \in {"tombstone", "moved"} /\ drv.path = q)
      BY <1>1, <1>2, <1>5, <2>1
    <3>3. QED
      BY <1>2, <3>1, <3>2 DEF GapInv
  <2>2. QED
    BY <2>1 DEF GapInv
<1>14. CopyInv'
  BY <1>2, <1>3, <1>5 DEF CopyInv
<1>15. BeforeInv'
  BY <1>2 DEF BeforeInv
<1>16. QED
  BY <1>1, <1>8, <1>9, <1>10, <1>11, <1>12, <1>13, <1>14, <1>15

\* Between the move of a shadow file and its record, the two paths are promised what
\* was seen before.
LEMMA InMove ==
    ASSUME Inv, drv.pc \in {"moved", "unrecorded"}
    PROVE  /\ drv.path \in Paths /\ drv.target \in Paths /\ drv.target # drv.path
           /\ ~Recorded(drv.target) /\ ~Hidden(drv.target)
           /\ shadow[drv.path] = NoFile /\ shadow[drv.target] # NoFile
           /\ Seen[drv.path] = shadow[drv.target] /\ Seen[drv.target] = NoFile
           /\ drv.before = Seen /\ pc # "forget_discard"
           /\ \A x \in Apps : app[x].pc = "idle"
           /\ \A q \in Paths \ {drv.path, drv.target} : Seen[q] = View(q)
<1> USE DEF Inv, ServedInv
<1>1. drv.path \in Paths /\ drv.target \in Paths /\ pc # "forget_discard"
  BY BusyOpen DEF TypeInv, DrvType
<1>2. ~Recorded(drv.target) /\ ~Hidden(drv.target)
  BY DEF DrvInv, Recorded, Hidden
<1>3. Seen[drv.path] = drv.before[drv.path] /\ Seen[drv.target] = drv.before[drv.target]
  BY <1>1, SeenBefore
<1>4. \A q \in Paths \ {drv.path, drv.target} : Seen[q] = View(q)
  BY <1>1, SeenBeside
<1>5. QED
  BY <1>1, <1>2, <1>3, <1>4 DEF DrvInv, AppInv, BeforeInv

\* The record of a rename makes it seen; that of a created file is deleted first.
LEMMA RecordRenameStep ==
    ASSUME Calm, Inv, RecordRename
    PROVE  /\ ServedInv'
           /\ drv.state = "created" => Seen' = Seen /\ drv'.pc = "unrecorded"
           /\ drv.state # "created" =>
                 /\ Seen' = Views' /\ drv'.pc = "idle"
                 /\ Seen' = [Seen EXCEPT ![drv.target] = Seen[drv.path], ![drv.path] = NoFile]
<1> USE DEF Inv, ServedInv
<1>1. drv.pc = "moved" /\ UNCHANGED <<real, shadow, app, pc, staged>>
  BY DEF RecordRename, files
<1>2. PICK p \in Paths, t \in Paths : p = drv.path /\ t = drv.target
  BY <1>1, InMove
<1>3. /\ t # p /\ ~Recorded(t) /\ ~Hidden(t) /\ shadow[p] = NoFile /\ shadow[t] # NoFile
      /\ Seen[p] = shadow[t] /\ Seen[t] = NoFile /\ drv.before = Seen /\ pc # "forget_discard"
      /\ \A x \in Apps : app[x].pc = "idle"
      /\ \A q \in Paths \ {p, t} : Seen[q] = View(q)
  BY <1>1, <1>2, InMove
<1>4. ~Hidden(p) /\ changes[p].state # "renamed"
  BY <1>1, <1>2 DEF DrvInv, Hidden
<1>5. AppInv'
  BY <1>1, <1>3 DEF AppInv
<1>6. CASE drv.state = "created"
  <2>1. changes' = [changes EXCEPT ![p] = NoRecord] /\ drv' = [drv EXCEPT !.pc = "unrecorded"]
    BY <1>2, <1>6 DEF RecordRename
  <2>2. changes'[p] = NoRecord /\ \A q \in Paths \ {p} : changes'[q] = changes[q]
    BY <2>1 DEF TypeInv, RecordsType
  <2>3. /\ drv'.pc = "unrecorded" /\ drv'.path = p /\ drv'.target = t /\ drv'.before = drv.before
    BY <1>2, <2>1 DEF TypeInv, DrvType, Requests
  <2>4. \A q \in Paths : RenamedInto(q)' = RenamedInto(q) /\ Hidden(q)' = Hidden(q)
    BY <1>4, <2>2 DEF RenamedInto, Hidden, NoRecord
  <2>5. \A q \in Paths \ {p} : Recorded(q)' = Recorded(q) /\ Covered(q)' = Covered(q)
    BY <2>2, <2>4 DEF Recorded, Covered
  <2>6. \A q \in Paths : Brings(q)' = Brings(q) /\ Beneath(q)' = Beneath(q)
    BY <1>1, <2>4, BeneathStays
  <2>7. ~Recorded(p)' /\ real[p] = NoFile
    BY <1>1, <1>2, <1>6, <2>2 DEF Recorded, NoRecord, DrvInv
  <2>8. \A q \in Paths : Promised(q)' = Seen[q]
    <3>1. ASSUME NEW q \in {p, t}
          PROVE  Promised(q)' = Seen[q]
      BY <1>3, <2>3 DEF Promised
    <3>2. ASSUME NEW q \in Paths \ {p, t}
          PROVE  Promised(q)' = Seen[q]
      <4>1. Promised(q)' = View(q)'
        BY <1>1, <1>3, <2>3 DEF Promised
      <4>2. View(q)' = View(q)
        BY <1>1, <1>2, <2>3, <2>4, <2>6, PlainView DEF View, Beneath, Brings
      <4>3. QED
        BY <1>3, <4>1, <4>2
    <3>3. QED
      BY <3>1, <3>2
  <2>9. Seen' = Seen
    BY <2>8 DEF Seen
  <2>10. DrvInv'
    BY <1>1, <1>2, <1>3, <2>3, <2>5, <2>7 DEF DrvInv
  <2>11. GapInv'
    BY <1>1, <1>2, <1>3, <2>4, <2>6, <2>7 DEF GapInv
  <2>12. CopyInv'
    BY <1>1, <1>2, <1>3, <2>3, <2>5 DEF CopyInv
  <2>13. BeforeInv'
    BY <1>3, <2>3, <2>9 DEF BeforeInv
  <2>14. QED
    BY <1>5, <1>6, <2>3, <2>9, <2>10, <2>11, <2>12, <2>13
<1>7. CASE drv.state # "created"
  <2>1. changes' = Upsert(p, "renamed", t) /\ drv'.pc = "idle"
    BY <1>2, <1>7 DEF RecordRename, NoRequest
  <2>2. /\ changes'[p].state = "renamed" /\ changes'[p].target = t
        /\ \A q \in Paths \ {p} : changes'[q] = changes[q]
    BY <2>1, UpsertEffect
  <2>3. Hidden(p)' /\ Covered(p)' /\ \A q \in Paths \ {p} : Hidden(q)' = Hidden(q) /\ Recorded(q)' = Recorded(q)
    BY <2>2 DEF Hidden, Recorded, Covered
  <2>4. Covered(t)' /\ \A q \in Paths \ {t} : RenamedInto(q)' = RenamedInto(q)
    BY <1>4, <2>2 DEF RenamedInto, Covered
  <2>5. \A q \in Paths \ {t} : Brings(q)' = Brings(q) /\ Beneath(q)' = Beneath(q)
    BY <1>1, <2>4, BeneathStays
  <2>6. \A q \in Paths \ {p, t} : Covered(q)' = Covered(q)
    BY <2>3, <2>4 DEF Covered
  <2>7. View(p)' = NoFile /\ View(t)' = shadow[t]
    BY <1>1, <1>3, <2>1, <2>3 DEF View
  <2>8. \A q \in Paths \ {p, t} : View(q)' = View(q)
    BY <1>1, <2>1, <2>3, <2>4, <2>5, PlainView DEF View, Beneath, Brings
  <2>9. Seen' = Views'
    BY <1>1, <1>3, <2>1 DEF Seen, Promised, Views
  <2>10. Seen' = [Seen EXCEPT ![t] = Seen[p], ![p] = NoFile]
    <3>1. \A q \in Paths : View(q)' = IF q = p THEN NoFile ELSE IF q = t THEN Seen[p] ELSE Seen[q]
      BY <1>3, <2>7, <2>8
    <3>2. QED
      BY <1>3, <2>9, <3>1 DEF Seen, Views
  <2>11. DrvInv' /\ BeforeInv'
    BY <2>1 DEF DrvInv, BeforeInv
  <2>12. GapInv'
    BY <1>1, <1>2, <1>3, <2>3, <2>5 DEF GapInv
  <2>13. CopyInv'
    BY <1>1, <1>2, <2>3, <2>4, <2>6 DEF CopyInv
  <2>14. QED
    BY <1>2, <1>5, <1>7, <2>1, <2>9, <2>10, <2>11, <2>12, <2>13
<1>8. QED
  BY <1>6, <1>7

\* The record of a created file that was renamed brings it to the target, and whatever
\* an earlier rename brought to its old path shows through there.
LEMMA RecordRenamedCreationStep ==
    ASSUME Calm, Inv, RecordRenamedCreation
    PROVE  /\ ServedInv' /\ Seen' = Views' /\ drv'.pc = "idle"
           /\ \E r \in Paths \ {drv.target} : \E left \in {NoFile, real[r]} :
                 Seen' = [Seen EXCEPT ![drv.target] = Seen[drv.path], ![drv.path] = left]
<1> USE DEF Inv, ServedInv
<1>1. drv.pc = "unrecorded" /\ drv'.pc = "idle" /\ UNCHANGED <<real, shadow, app, pc, staged>>
  BY DEF RecordRenamedCreation, NoRequest, files
<1>2. PICK p \in Paths, t \in Paths : p = drv.path /\ t = drv.target
  BY <1>1, InMove
<1>3. /\ t # p /\ ~Recorded(t) /\ ~Hidden(t) /\ shadow[p] = NoFile /\ shadow[t] # NoFile
      /\ Seen[p] = shadow[t] /\ pc # "forget_discard"
      /\ \A x \in Apps : app[x].pc = "idle"
      /\ \A q \in Paths \ {p, t} : Seen[q] = View(q)
  BY <1>1, <1>2, InMove
<1>4. ~Recorded(p) /\ ~Hidden(p) /\ real[p] = NoFile
  BY <1>1, <1>2 DEF DrvInv, Recorded, Hidden
<1>5. /\ changes'[t].state = "created"
      /\ \A q \in Paths : RenamedInto(q)' = RenamedInto(q)
      /\ \A q \in Paths \ {t} : /\ changes'[q] = changes[q]
                                /\ Hidden(q)' = Hidden(q) /\ Recorded(q)' = Recorded(q)
                                /\ Covered(q)' = Covered(q)
  <2>1. changes' = Upsert(t, "created", NoPath)
    BY <1>2 DEF RecordRenamedCreation
  <2>2. QED
    BY <1>3, <2>1, UpsertStays
<1>6. ~Hidden(t)' /\ Covered(t)'
  BY <1>5 DEF Hidden, Covered, Recorded
<1>7. \A q \in Paths : Brings(q)' = Brings(q) /\ Beneath(q)' = Beneath(q)
  BY <1>1, <1>5, BeneathStays
<1>8. View(t)' = shadow[t] /\ View(p)' = Beneath(p)
  BY <1>1, <1>3, <1>4, <1>5, <1>6, <1>7 DEF View, Beneath, Brings
<1>9. \A q \in Paths \ {p, t} : View(q)' = View(q)
  BY <1>1, <1>5, <1>7, PlainView DEF View, Beneath, Brings
<1>10. Seen' = Views'
  BY <1>1, <1>3 DEF Seen, Promised, Views
<1>11. Seen' = [Seen EXCEPT ![t] = Seen[p], ![p] = Beneath(p)]
  <2>1. \A q \in Paths : View(q)' = IF q = p THEN Beneath(p) ELSE IF q = t THEN Seen[p] ELSE Seen[q]
    BY <1>3, <1>8, <1>9
  <2>2. QED
    BY <1>3, <1>10, <2>1 DEF Seen, Views
<1>12. \E r \in Paths \ {t} : Beneath(p) \in {NoFile, real[r]}
  <2>1. CASE Brings(p)
    <3>1. First(RenamedInto(p)) \in Paths /\ Hidden(First(RenamedInto(p)))
      BY <2>1, SourceIsHidden DEF Brings
    <3>2. QED
      BY <1>3, <2>1, <3>1 DEF Beneath
  <2>2. CASE ~Brings(p)
    BY <1>3, <1>4, <2>2 DEF Beneath
  <2>3. QED
    BY <2>1, <2>2
<1>13. AppInv'
  BY <1>1, <1>3 DEF AppInv
<1>14. DrvInv' /\ BeforeInv'
  BY <1>1 DEF DrvInv, BeforeInv
<1>15. GapInv'
  BY <1>1, <1>2, <1>3, <1>5, <1>7 DEF GapInv
<1>16. CopyInv'
  BY <1>1, <1>2, <1>5, <1>6 DEF CopyInv
<1>17. QED
  BY <1>1, <1>2, <1>10, <1>11, <1>12, <1>13, <1>14, <1>15, <1>16

-----------------------------------------------------------------------------
(***************************************************************************)
(* Processes.                                                               *)
(***************************************************************************)

\* A process that gives up, or closes its file, changes nothing.
LEMMA LeaveStep ==
    ASSUME Calm, Inv, NEW x \in Apps, Abandon(x) \/ Close(x)
    PROVE  ServedInv' /\ Seen' = Seen
<1> USE DEF Inv, ServedInv
<1>1. UNCHANGED <<real, shadow, changes, drv, pc, staged>>
  BY DEF Abandon, Close, files
<1>2. \A y \in Apps : app'[y].pc = "idle"
  BY DEF Abandon, Close, Becomes, Calm, TypeInv, AppType
<1>3. \A q \in Paths : Hidden(q)' = Hidden(q) /\ RenamedInto(q)' = RenamedInto(q) /\ Covered(q)' = Covered(q)
  BY <1>1, RecordsStay
<1>4. \A q \in Paths : Brings(q)' = Brings(q)
  BY <1>1, <1>3, BeneathStays
<1>5. Seen' = Seen
  BY <1>1 DEF Seen, Promised, View, Hidden, RenamedInto
<1>6. AppInv'
  BY <1>2 DEF AppInv
<1>7. DrvInv'
  BY <1>1 DEF DrvInv, Hidden, RenamedInto, Recorded
<1>8. GapInv' /\ CopyInv'
  BY <1>1, <1>3, <1>4 DEF GapInv, CopyInv
<1>9. BeforeInv'
  BY <1>1, <1>5 DEF BeforeInv
<1>10. QED
  BY <1>5, <1>6, <1>7, <1>8, <1>9

\* An open that creates the shadow file, or a write to it, changes what is seen at its
\* path; another open changes nothing.
LEMMA WriteStep ==
    ASSUME Calm, Inv, NEW x \in Apps, OpenShadow(x) \/ Write(x)
    PROVE  /\ ServedInv'
           /\ \/ Seen' = Seen
              \/ /\ pc \notin CommitPhases \ {"commit", "log"}
                 /\ \E p \in Paths, c \in Contents : Seen' = [Seen EXCEPT ![p] = c]
<1> USE DEF Inv, ServedInv
<1>1. PICK p \in Paths : p = app[x].path
  BY DEF OpenShadow, Write, TypeInv, AppType
<1>2. /\ app[x].pc \in {"granted", "open"} /\ UNCHANGED <<real, changes, drv, pc, staged>>
  BY DEF OpenShadow, Write
<1>3. drv.pc = "idle" /\ Recorded(p) /\ ~Hidden(p) /\ Covered(p) /\ pc # "forget_discard"
  BY <1>1, <1>2 DEF AppInv, HolderInv, Holders, Covered, QuietInv, Paused, Emptied
<1>4. \A q \in Paths : Hidden(q)' = Hidden(q) /\ RenamedInto(q)' = RenamedInto(q) /\ Covered(q)' = Covered(q)
  BY <1>2, RecordsStay
<1>5. \A q \in Paths : Brings(q)' = Brings(q) /\ Beneath(q)' = Beneath(q)
  BY <1>2, <1>4, BeneathStays
<1>6. pc \notin CommitPhases \ {"commit", "log"}
  <2>1. pc \notin Applying
    BY <1>1, <1>2, <1>3 DEF ViewInv, ListedInv, Held, Holds, QuietInv, Paused, Applying
  <2>2. QED
    BY <1>2, <2>1 DEF QuietInv, Paused, Emptied, Applying, CommitPhases
<1>7. CASE UNCHANGED shadow
  <2>1. \A y \in Apps : app'[y].pc \in {"open", "idle"} /\ (app'[y].pc = "open" => app'[y].path = p /\ shadow[p] # NoFile)
    <3>1. Write(x) => app[x].pc = "open" /\ shadow[p] # NoFile /\ UNCHANGED app
      BY <1>1 DEF Write, AppInv
    <3>2. OpenShadow(x) => (Becomes(x, "open", p) /\ shadow[p] # NoFile) \/ Becomes(x, "idle", NoPath)
      <4>1. ASSUME NEW c \in Contents, shadow' = [shadow EXCEPT ![p] = c]
            PROVE  shadow[p] # NoFile
        BY <1>1, <1>7, <4>1, FilesAssumption DEF TypeInv, FilesType
      <4>2. QED
        BY <1>1, <4>1 DEF OpenShadow
    <3>3. \A y \in Apps : y = x
      BY DEF Calm
    <3>4. QED
      BY <1>1, <3>1, <3>2, <3>3 DEF Becomes, TypeInv, AppType
  <2>2. changes[p].state = "created" => real[p] = NoFile
    BY <1>1, <1>2 DEF AppInv
  <2>3. AppInv'
    BY <1>2, <1>3, <1>7, <2>1, <2>2 DEF AppInv
  <2>4. DrvInv' /\ BeforeInv'
    BY <1>2, <1>3 DEF DrvInv, BeforeInv
  <2>5. GapInv' /\ CopyInv'
    BY <1>2, <1>4, <1>5, <1>7 DEF GapInv, CopyInv
  <2>6. Seen' = Seen
    BY <1>2, <1>7 DEF Seen, Promised, View, Hidden, RenamedInto
  <2>7. QED
    BY <2>3, <2>4, <2>5, <2>6
<1>8. CASE shadow' # shadow
  <2>1. PICK c \in Contents : shadow' = [shadow EXCEPT ![p] = c]
    BY <1>1, <1>8 DEF OpenShadow, Write
  <2>2. c # NoFile /\ shadow'[p] = c /\ \A q \in Paths \ {p} : shadow'[q] = shadow[q]
    BY <2>1, FilesAssumption DEF TypeInv, FilesType
  <2>3. \A y \in Apps : app'[y].pc = "open" /\ app'[y].path = p
    BY <1>1, <1>2, <1>8 DEF OpenShadow, Write, Becomes, Calm, TypeInv, AppType
  <2>4. changes[p].state = "created" => real[p] = NoFile
    BY <1>1, <1>2 DEF AppInv
  <2>5. AppInv'
    BY <1>2, <1>3, <2>2, <2>3, <2>4 DEF AppInv
  <2>6. DrvInv' /\ BeforeInv'
    BY <1>2, <1>3 DEF DrvInv, BeforeInv
  <2>7. GapInv'
    BY <1>2, <1>4, <1>5, <2>2 DEF GapInv
  <2>8. CopyInv'
    BY <1>2, <1>3, <1>4, <2>2 DEF CopyInv
  <2>9. View(p)' = c /\ \A q \in Paths \ {p} : View(q)' = View(q)
    <3>1. View(p)' = c
      BY <1>2, <1>3, <1>4, <2>2 DEF View
    <3>2. ASSUME NEW q \in Paths \ {p}
          PROVE  View(q)' = View(q)
      BY <1>2, <1>3, <1>4, <1>5, <2>2, PlainView DEF View, Beneath, Brings
    <3>3. QED
      BY <3>1, <3>2
  <2>10. Seen = Views /\ Seen' = Views'
    BY <1>2, <1>3 DEF Seen, Promised, Views
  <2>11. Seen' = [Seen EXCEPT ![p] = c]
    BY <2>9, <2>10 DEF Views
  <2>12. QED
    BY <1>6, <2>5, <2>6, <2>7, <2>8, <2>11
<1>9. QED
  BY <1>7, <1>8

-----------------------------------------------------------------------------
(***************************************************************************)
(* The pipe thread.                                                         *)
(***************************************************************************)

\* Steps that move no file and no record change nothing that is seen.
LEMMA StayStep ==
    ASSUME Calm, Inv, UNCHANGED <<real, shadow, changes, app, drv>>,
           pc # "forget_discard" /\ pc' # "forget_discard"
    PROVE  ServedInv' /\ Seen' = Seen
<1> USE DEF Inv, ServedInv
<1>1. \A q \in Paths : Hidden(q)' = Hidden(q) /\ RenamedInto(q)' = RenamedInto(q) /\ Covered(q)' = Covered(q)
  BY RecordsStay
<1>2. \A q \in Paths : Brings(q)' = Brings(q)
  BY <1>1, BeneathStays
<1>3. Seen' = Seen
  BY DEF Seen, Promised, View, Hidden, RenamedInto
<1>4. AppInv' /\ DrvInv'
  BY DEF AppInv, DrvInv, Hidden, Recorded, RenamedInto, Brings
<1>5. GapInv' /\ CopyInv'
  BY <1>1, <1>2 DEF GapInv, CopyInv
<1>6. BeforeInv'
  BY <1>3 DEF BeforeInv
<1>7. QED
  BY <1>3, <1>4, <1>5, <1>6

\* A record covers each real file that a commit writes or removes, and it becomes the
\* file that is seen there, or is gone.
LEMMA ApplyEffect ==
    ASSUME Inv, StartWrite \/ FinishWrite \/ Remove \/ (FailCommit /\ pc = "writing")
    PROVE  /\ pc \in Applying /\ UNCHANGED <<shadow, changes, app, drv, staged>>
           /\ \E q \in Paths : /\ Covered(q)
                               /\ \E f \in {View(q), Torn, NoFile} : real' = [real EXCEPT ![q] = f]
                               /\ pc = "writing" /\ FailCommit => real' = [real EXCEPT ![q] = NoFile]
<1> USE DEF Inv
<1>1. pc \in {"write", "writing", "remove"} /\ UNCHANGED <<shadow, changes, app, drv, staged>>
  BY DEF StartWrite, FinishWrite, Remove, FailCommit, commit
<1>2. ListedInv /\ todo # {} /\ drv.pc = "idle"
  BY <1>1 DEF ViewInv, Applying, TypeInv, PipeType, QuietInv, Paused
<1>3. Current \in Paths /\ Covered(Current)
  BY <1>2, InHand DEF Covered
<1>4. pc \in {"write", "writing"} =>
          CurrentTarget \in Paths /\ Covered(CurrentTarget) /\ View(CurrentTarget) = shadow[CurrentTarget]
  <2>1. PICK s \in Paths : s = CurrentTarget
    BY <1>2, InHand
  <2>2. pc \in {"write", "writing"} => Covered(s) /\ ~Hidden(s) /\ shadow[s] # NoFile
    BY <1>2, <2>1, InHand, ShadowCovered DEF ListedInv
  <2>3. pc \in {"write", "writing"} => View(s) = shadow[s]
    BY <1>2, <2>2, PlainView
  <2>4. QED
    BY <2>1, <2>2, <2>3
<1>5. CASE Remove
  BY <1>1, <1>3, <1>5 DEF Remove, Applying
<1>6. CASE StartWrite
  BY <1>1, <1>4, <1>6 DEF StartWrite, Applying
<1>7. CASE FinishWrite
  <2>1. pc = "writing" /\ pc' # "commit_failed" /\ real' = [real EXCEPT ![CurrentTarget] = View(CurrentTarget)]
    BY <1>4, <1>7 DEF FinishWrite
  <2>2. ~FailCommit
    BY <2>1 DEF FailCommit
  <2>3. QED
    BY <1>1, <1>4, <2>1, <2>2 DEF Applying
<1>8. CASE FailCommit /\ pc = "writing"
  BY <1>1, <1>4, <1>8 DEF FailCommit, Applying
<1>9. QED
  BY <1>5, <1>6, <1>7, <1>8

\* It does not show, since the shadow file or the record hides it.
LEMMA ApplyStep ==
    ASSUME Calm, Inv, StartWrite \/ FinishWrite \/ Remove \/ (FailCommit /\ pc = "writing")
    PROVE  ServedInv' /\ Seen' = Seen
<1> USE DEF Inv, ServedInv
<1>1. pc \in Applying /\ UNCHANGED <<shadow, changes, app, drv, staged>>
  BY ApplyEffect
<1>2. PICK q \in Paths : Covered(q) /\ \A p \in Paths \ {q} : real'[p] = real[p]
  <2>1. PICK q \in Paths : Covered(q) /\ \E f \in {View(q), Torn, NoFile} : real' = [real EXCEPT ![q] = f]
    BY ApplyEffect
  <2>2. QED
    BY <2>1 DEF TypeInv, FilesType
<1>3. /\ drv.pc = "idle" /\ pc # "forget_discard" /\ pc' # "forget_discard"
      /\ \A x \in Apps : app[x].pc # "granted"
  BY <1>1 DEF QuietInv, Paused, Applying, StartWrite, FinishWrite, Remove, FailCommit
<1>4. \A p \in Paths : Covered(p) /\ ~Hidden(p) => shadow[p] # NoFile /\ ~Held(p)
  BY <1>1 DEF ViewInv, ListedInv
<1>5. \A p \in Paths : Hidden(p)' = Hidden(p) /\ RenamedInto(p)' = RenamedInto(p) /\ Covered(p)' = Covered(p)
  BY <1>1, RecordsStay
<1>6. \A p \in Paths : Hidden(p) \/ Brings(p) \/ Brings(p)' => Covered(p)
  BY <1>5 DEF Hidden, Brings, Covered, Recorded
<1>7. ASSUME NEW p \in Paths
      PROVE  View(p)' = View(p)
  <2>1. CASE Covered(p)
    BY <1>1, <1>3, <1>4, <1>5, <2>1, PlainView DEF View
  <2>2. CASE ~Covered(p)
    <3>1. real'[p] = real[p] /\ ~Hidden(p) /\ RenamedInto(p) = {}
      BY <1>2, <2>2 DEF Covered, Hidden, Recorded
    <3>2. QED
      BY <1>1, <1>3, <1>5, <3>1, PlainView DEF View
  <2>3. QED
    BY <2>1, <2>2
<1>8. Seen' = Seen
  BY <1>1, <1>3, <1>7 DEF Seen, Promised
<1>9. AppInv'
  <2>1. ASSUME NEW x \in Apps, app[x].pc \in {"queried", "open"}
        PROVE  /\ app[x].pc = "queried" => ~Hidden(app[x].path)'
               /\ app[x].pc = "queried" /\ shadow[app[x].path] = NoFile => ~Brings(app[x].path)'
               /\ app[x].pc # "open"
    <3>1. PICK p \in Paths : p = app[x].path
      BY <2>1 DEF TypeInv, AppType
    <3>2. app[x].pc # "open"
      BY <1>4, <2>1, <3>1 DEF HolderInv, Holders, Covered, Held, Holds
    <3>3. app[x].pc = "queried" => ~Hidden(p)
      BY <3>1 DEF AppInv
    <3>4. ~Hidden(p) => ~Hidden(p)' /\ (shadow[p] = NoFile => ~Brings(p)')
      BY <1>4, <1>5, <1>6
    <3>5. QED
      BY <1>1, <3>1, <3>2, <3>3, <3>4 DEF Hidden, Brings, RenamedInto
  <2>2. QED
    BY <1>1, <1>3, <2>1 DEF AppInv
<1>10. DrvInv' /\ BeforeInv'
  BY <1>1, <1>3 DEF DrvInv, BeforeInv
<1>11. GapInv'
  BY <1>1, <1>4, <1>5, <1>6 DEF GapInv
<1>12. CopyInv'
  BY <1>1, <1>2, <1>3, <1>5 DEF CopyInv
<1>13. QED
  BY <1>8, <1>9, <1>10, <1>11, <1>12

\* When every record is applied, the shadow tree can go and nothing looks different:
\* its files are those of the real directory.
LEMMA RemoveShadowStep ==
    ASSUME Calm, Inv, RemoveShadow
    PROVE  ServedInv' /\ Seen' = Seen
<1> USE DEF Inv, ServedInv
<1>1. /\ pc = "backup" /\ pc' = "forget_commit" /\ todo = {} /\ shadow' = NoFiles
      /\ UNCHANGED <<real, changes, app, drv, staged>> /\ \A p \in Paths : ~Held(p)
  BY DEF RemoveShadow
<1>2. ListedInv /\ AppliedInv
  BY <1>1 DEF ViewInv, Applying
<1>3. drv.pc = "idle" /\ \A x \in Apps : app[x].pc \in {"idle", "queried"}
  BY <1>1 DEF QuietInv, Paused, Held, Holds, TypeInv, AppType
<1>4. \A p \in Paths : /\ Hidden(p)' = Hidden(p) /\ RenamedInto(p)' = RenamedInto(p)
                       /\ Covered(p)' = Covered(p) /\ Brings(p)' = Brings(p) /\ Beneath(p)' = Beneath(p)
  BY <1>1, RecordsStay, BeneathStays
<1>5. \A p \in Paths : ~Brings(p)
  BY <1>1, <1>2, SourceIsHidden DEF Brings, AppliedInv
<1>6. \A p \in Paths : ~Hidden(p) /\ shadow[p] # NoFile => shadow[p] = real[p]
  <2>1. SUFFICES ASSUME NEW p \in Paths, ~Hidden(p), shadow[p] # NoFile
                 PROVE  shadow[p] = real[p]
    OBVIOUS
  <2>2. CASE Covered(p)
    <3>1. PICK r \in Paths : NeedsShadow(changes[r]) /\ ShadowOf(r, changes) = p
      BY <2>1, <2>2, CoveredShadow
    <3>2. QED
      BY <1>1, <1>2, <3>1 DEF AppliedInv
  <2>3. CASE ~Covered(p)
    BY <1>3, <2>1, <2>3 DEF CopyInv
  <2>4. QED
    BY <2>2, <2>3
<1>7. \A p \in Paths : View(p) = IF Hidden(p) THEN NoFile ELSE real[p]
  BY <1>3, <1>5, <1>6, PlainView DEF Beneath
<1>8. \A p \in Paths : View(p)' = IF Hidden(p) THEN NoFile ELSE real[p]
  BY <1>1, <1>4, <1>5 DEF View, Brings, NoFiles
<1>9. Seen' = Seen
  BY <1>1, <1>3, <1>7, <1>8 DEF Seen, Promised
<1>10. AppInv'
  <2>1. ASSUME NEW x \in Apps, app[x].pc = "queried"
        PROVE  ~Hidden(app[x].path)' /\ ~Brings(app[x].path)'
    <3>1. PICK p \in Paths : p = app[x].path
      BY <2>1 DEF TypeInv, AppType
    <3>2. ~Hidden(p)' /\ ~Brings(p)'
      BY <1>4, <1>5, <2>1, <3>1 DEF AppInv
    <3>3. QED
      BY <1>1, <3>1, <3>2 DEF Hidden, Brings, RenamedInto
  <2>2. QED
    BY <1>1, <1>3, <2>1 DEF AppInv
<1>11. DrvInv' /\ BeforeInv'
  BY <1>1, <1>3 DEF DrvInv, BeforeInv
<1>12. GapInv' /\ CopyInv'
  BY <1>1, <1>4, <1>5 DEF GapInv, CopyInv, NoFiles
<1>13. QED
  BY <1>9, <1>10, <1>11, <1>12

\* Nothing keeps the shadow tree from going: nobody has a file of it open.
LEMMA NoFailRemoveShadow == ASSUME Calm, Inv PROVE ~FailRemoveShadow
<1> SUFFICES ASSUME FailRemoveShadow PROVE FALSE
  OBVIOUS
<1>1. PICK p \in Paths : Held(p)
  BY DEF FailRemoveShadow, Calm
<1>2. Recorded(p) /\ ~Hidden(p)
  BY <1>1 DEF Inv, HolderInv, Holders, Held, Holds
<1>3. ListedInv
  BY DEF Inv, ViewInv, FailRemoveShadow, Applying
<1>4. QED
  BY <1>1, <1>2, <1>3 DEF ListedInv, Covered

\* The records are deleted: after a commit the real directory is what was seen, after
\* a discard it is what is seen from now on.
LEMMA ForgetStep ==
    ASSUME Calm, Inv, Forget
    PROVE  /\ ServedInv' /\ UNCHANGED real /\ Seen' = real
           /\ pc = "forget_commit" => Seen = real
<1> USE DEF Inv, ServedInv
<1>1. /\ pc \in {"forget_commit", "forget_discard"} /\ pc' \in {"log", "enqueue"} /\ changes' = NoRecords
      /\ UNCHANGED <<real, shadow, app, drv, staged>>
  BY DEF Forget, files
<1>2. shadow = NoFiles /\ drv.pc = "idle" /\ \A x \in Apps : app[x].pc \in {"idle", "queried"}
  BY <1>1 DEF QuietInv, Emptied, Paused, TypeInv, AppType
<1>3. \A p \in Paths : ~Hidden(p)' /\ RenamedInto(p)' = {} /\ ~Brings(p)'
  BY <1>1 DEF Hidden, RenamedInto, Brings, NoRecords, NoRecord
<1>4. Seen' = real
  <2>1. \A p \in Paths : Promised(p)' = real[p]
    BY <1>1, <1>2, <1>3 DEF Promised, View, NoFiles
  <2>2. QED
    BY <2>1 DEF Seen, TypeInv, FilesType
<1>5. pc = "forget_commit" => Seen = real
  <2>1. ASSUME pc = "forget_commit", NEW p \in Paths
        PROVE  Promised(p) = real[p]
    <3>1. ~Brings(p) /\ (Hidden(p) => real[p] = NoFile)
      BY <2>1, SourceIsHidden DEF Brings, ViewInv
    <3>2. Promised(p) = View(p)
      BY <1>2, <2>1 DEF Promised
    <3>3. QED
      BY <1>2, <3>1, <3>2, PlainView DEF Beneath, NoFiles
  <2>2. QED
    BY <2>1 DEF Seen, TypeInv, FilesType
<1>6. AppInv'
  <2>1. ASSUME NEW x \in Apps, app[x].pc = "queried"
        PROVE  ~Hidden(app[x].path)' /\ ~Brings(app[x].path)'
    <3>1. PICK p \in Paths : p = app[x].path
      BY <2>1 DEF TypeInv, AppType
    <3>2. QED
      BY <1>1, <1>3, <3>1 DEF Hidden, Brings, RenamedInto
  <2>2. QED
    BY <1>1, <1>2, <2>1 DEF AppInv
<1>7. DrvInv' /\ BeforeInv'
  BY <1>1, <1>2 DEF DrvInv, BeforeInv
<1>8. GapInv' /\ CopyInv'
  BY <1>1, <1>2, <1>3 DEF GapInv, CopyInv, NoFiles
<1>9. QED
  BY <1>1, <1>4, <1>5, <1>6, <1>7, <1>8

\* A discard moves the shadow tree aside, which has not happened before the records
\* are deleted.
LEMMA IsolateStep ==
    ASSUME Calm, Inv, Isolate
    PROVE  ServedInv' /\ Seen' = Seen
<1> USE DEF Inv, ServedInv
<1>1. /\ pc = "isolate" /\ pc' = "forget_discard" /\ staged' = shadow /\ shadow' = NoFiles
      /\ UNCHANGED <<real, changes, app, drv>> /\ \A p \in Paths : ~Held(p)
  BY DEF Isolate
<1>2. drv.pc = "idle" /\ \A x \in Apps : app[x].pc \in {"idle", "queried"}
  BY <1>1 DEF QuietInv, Paused, Held, Holds, TypeInv, AppType
<1>3. \A p \in Paths : /\ Hidden(p)' = Hidden(p) /\ RenamedInto(p)' = RenamedInto(p)
                       /\ Brings(p)' = Brings(p) /\ Beneath(p)' = Beneath(p)
  BY <1>1, RecordsStay, BeneathStays
<1>4. \A p \in Paths : Promised(p)' = Promised(p)
  <2>1. \A p \in Paths : Promised(p) = View(p)
    BY <1>1, <1>2 DEF Promised
  <2>2. \A p \in Paths : Promised(p)' = IF ~Hidden(p) /\ shadow[p] # NoFile THEN shadow[p] ELSE View(p)'
    BY <1>1, <1>2, <1>3 DEF Promised
  <2>3. \A p \in Paths : View(p)' = IF Hidden(p) THEN NoFile ELSE Beneath(p)
    BY <1>1, <1>2, <1>3 DEF View, Beneath, Brings, NoFiles
  <2>4. \A p \in Paths : View(p) = IF Hidden(p) THEN NoFile ELSE IF shadow[p] # NoFile THEN shadow[p] ELSE Beneath(p)
    BY <1>2, PlainView
  <2>5. QED
    BY <2>1, <2>2, <2>3, <2>4
<1>5. Seen' = Seen
  BY <1>4, SeenStays
<1>6. AppInv'
  BY <1>1, <1>2 DEF AppInv, Hidden
<1>7. DrvInv' /\ BeforeInv'
  BY <1>1, <1>2 DEF DrvInv, BeforeInv
<1>8. GapInv' /\ CopyInv'
  BY <1>1 DEF GapInv, CopyInv, NoFiles
<1>9. QED
  BY <1>5, <1>6, <1>7, <1>8

-----------------------------------------------------------------------------
(***************************************************************************)
(* The invariant holds, and every step is one of OverlayView or none.       *)
(***************************************************************************)

\* A commit is under way.
Committing == pc \in CommitPhases \ {"commit", "log"}

\* The steps of the pipe thread that change neither files nor records.
PipeRests ==
    \/ \E checked \in {"commit_checked", "discard_checked"} : Check(checked)
    \/ Pause \/ Preflight \/ Backup \/ (FailCommit /\ pc # "writing") \/ LogCommit
    \/ FailIsolate \/ Enqueue \/ Resume

PipeApplies == StartWrite \/ FinishWrite \/ Remove \/ (FailCommit /\ pc = "writing")

\* What can happen without trouble.
LEMMA CalmSteps ==
    ASSUME Calm, Inv, [Next]_vars
    PROVE  \/ \E x \in Apps, p \in Paths : Query(x, p) \/ Delete(x, p)
           \/ \E x \in Apps, p \in Paths, q \in Paths : Rename(x, p, q)
           \/ \E x \in Apps : CopyOnWrite(x)
           \/ \E x \in Apps : Abandon(x) \/ Close(x)
           \/ \E x \in Apps : OpenShadow(x) \/ Write(x)
           \/ FinishCopy \/ Persist \/ RecordRename \/ RecordRenamedCreation \/ DirectoryView
           \/ PipeRests \/ PipeApplies \/ RemoveShadow \/ Forget \/ Isolate
           \/ UNCHANGED vars
<1>1. ~FailCopy /\ ~FailRemoveShadow
  BY NoFailCopy, NoFailRemoveShadow
<1>2. ~FailPersist /\ ~RollbackDiscard /\ ~Crash /\ \A p \in Paths : ~ExternalWrite(p)
  BY DEF Calm, FailPersist, RollbackDiscard, Crash, ExternalWrite
<1>3. QED
  BY <1>1, <1>2 DEF Next, DriverStep, AppStep, PipeStep, CommitStep, DiscardStep, PipeRests, PipeApplies

\* A step of the pipe thread that changes neither files nor records.
LEMMA RestStep ==
    ASSUME Calm, Inv, PipeRests
    PROVE  /\ ServedInv' /\ Seen' = Seen /\ UNCHANGED <<real, changes, drv>>
           /\ Committing' = Committing \/ (~Committing /\ Committing') \/ (FailCommit /\ Committing /\ ~Committing')
<1>1. UNCHANGED <<real, shadow, changes, app, drv>> /\ pc # "forget_discard" /\ pc' # "forget_discard"
  BY DEF PipeRests, Check, Pause, Preflight, Backup, FailCommit, LogCommit, FailIsolate, Enqueue, Resume, files
<1>2. Committing' = Committing \/ (~Committing /\ Committing') \/ (FailCommit /\ Committing /\ ~Committing')
  BY DEF PipeRests, Check, Pause, Preflight, Backup, FailCommit, LogCommit, FailIsolate, Enqueue, Resume,
         Committing, CommitPhases
<1>3. QED
  BY <1>1, <1>2, StayStep

\* Every step keeps the invariant.
LEMMA InvKept ==
    ASSUME Calm, Inv, [Next]_vars
    PROVE  Inv'
<1>1. TypeInv' /\ QuietInv' /\ HolderInv' /\ ViewInv'
  BY NextType, QuietKept, HoldersKept, ViewInvKept DEF Inv, Calm, Quiet, Attended
<1>2. ServedInv'
  <2>1. CASE UNCHANGED vars
    BY <2>1 DEF vars, Inv, ServedInv, AppInv, DrvInv, GapInv, CopyInv, BeforeInv, Seen, Promised, View,
                Hidden, Recorded, Covered, RenamedInto, Brings
  <2>2. QED
    BY <2>1, CalmSteps, QueryStep, DeleteStep, RenameStep, CopyOnWriteStep, LeaveStep, WriteStep,
       FinishCopyStep, PersistStep, RecordRenameStep, RecordRenamedCreationStep, DirectoryViewStep,
       RestStep, ApplyStep, RemoveShadowStep, ForgetStep, IsolateStep DEF PipeApplies
<1>3. QED
  BY <1>1, <1>2 DEF Inv

\* At the start nothing is recorded and nothing is asked.
LEMMA InitInv == Init => Inv /\ Seen = real
<1> SUFFICES ASSUME Init PROVE Inv /\ Seen = real
  OBVIOUS
<1>1. TypeInv /\ QuietInv /\ HolderInv /\ ViewInv
  BY InitType, InitHolders, InitView
<1>2. changes = NoRecords /\ shadow = NoFiles /\ drv.pc = "idle" /\ pc = "idle" /\ \A x \in Apps : app[x].pc = "idle"
  BY DEF Init, NoRequest, Idle
<1>3. \A p \in Paths : RenamedInto(p) = {}
  BY <1>2 DEF RenamedInto, NoRecords, NoRecord
<1>4. ServedInv
  BY <1>2, <1>3 DEF ServedInv, AppInv, DrvInv, GapInv, CopyInv, BeforeInv, Brings, NoFiles
<1>5. Seen = real
  BY <1>1, <1>2, SeenIsView, EmptyShowsReal
<1>6. QED
  BY <1>1, <1>4, <1>5 DEF Inv

\* The steps of the driver message thread, as steps of OverlayView.
LEMMA RequestRefines ==
    ASSUME Calm, Inv, Persist \/ RecordRename \/ RecordRenamedCreation
    PROVE  Abstract!Next \/ UNCHANGED Abstract!vars
<1>1. UNCHANGED <<real, pc>> /\ ~Committing /\ drv.path \in Paths
  BY BusyOpen DEF Persist, RecordRename, RecordRenamedCreation, files, Inv, Committing, TypeInv, DrvType
<1>2. Committing' = Committing
  BY <1>1 DEF Committing
<1>3. CASE Seen' = Seen
  BY <1>1, <1>2, <1>3 DEF Abstract!vars, Seen, Committing
<1>4. CASE Persist
  <2>1. drv.pc \in {"persist", "tombstone"}
    BY <1>4 DEF Persist
  <2>2. Seen' = Seen \/ Seen' = [Seen EXCEPT ![drv.path] = NoFile]
    BY <1>4, <2>1, PersistStep
  <2>3. CASE Seen' = [Seen EXCEPT ![drv.path] = NoFile]
    <3>1. Abstract!Delete(drv.path)
      BY <1>1, <1>2, <2>3 DEF Abstract!Delete, Seen, Committing
    <3>2. QED
      BY <1>1, <3>1 DEF Abstract!Next
  <2>4. QED
    BY <1>3, <2>2, <2>3
<1>5. CASE RecordRename \/ RecordRenamedCreation
  <2>1. /\ drv.target \in Paths /\ drv.target # drv.path /\ Seen[drv.target] = NoFile
    BY <1>5, InMove DEF RecordRename, RecordRenamedCreation
  <2>2. \/ Seen' = Seen
        \/ \E r \in Paths \ {drv.target} : \E left \in {NoFile, real[r]} :
              Seen' = [Seen EXCEPT ![drv.target] = Seen[drv.path], ![drv.path] = left]
    <3>1. drv.path \in Paths \ {drv.target}
      BY <1>1, <2>1
    <3>2. QED
      BY <1>5, <3>1, RecordRenameStep, RecordRenamedCreationStep
  <2>3. CASE \E r \in Paths \ {drv.target} : \E left \in {NoFile, real[r]} :
                Seen' = [Seen EXCEPT ![drv.target] = Seen[drv.path], ![drv.path] = left]
    <3>1. Abstract!Rename(drv.path, drv.target)
      BY <1>1, <1>2, <2>1, <2>3 DEF Abstract!Rename, Seen, Committing
    <3>2. QED
      BY <1>1, <2>1, <3>1 DEF Abstract!Next
  <2>4. QED
    BY <1>3, <2>2, <2>3
<1>6. QED
  BY <1>4, <1>5

\* The steps of the pipe thread, as steps of OverlayView.
LEMMA PipeRefines ==
    ASSUME Calm, Inv, PipeRests \/ PipeApplies \/ RemoveShadow \/ Forget \/ Isolate
    PROVE  Abstract!Next \/ UNCHANGED Abstract!vars
<1>1. CASE PipeRests
  <2>1. Seen' = Seen /\ UNCHANGED real
    BY <1>1, RestStep
  <2>2. CASE Committing' = Committing
    BY <2>1, <2>2 DEF Abstract!vars, Seen, Committing
  <2>3. CASE ~Committing /\ Committing'
    <3>1. Abstract!StartCommit
      BY <2>1, <2>3 DEF Abstract!StartCommit, Seen, Committing
    <3>2. QED
      BY <3>1 DEF Abstract!Next
  <2>4. CASE FailCommit /\ Committing /\ ~Committing'
    <3>1. PICK p \in Paths : TRUE
      <4>1. todo # {} \/ pc \in {"remove", "forget_commit"}
        BY <2>4 DEF FailCommit, CommitBlocked, Calm, Committing, Inv, TypeInv, PipeType
      <4>2. pc \notin {"remove", "forget_commit"}
        BY <2>4 DEF FailCommit, CommitBlocked, Calm
      <4>3. QED
        BY <4>1, <4>2 DEF Inv, TypeInv, PipeType
    <3>2. Abstract!FailCommit
      BY <2>1, <2>4, <3>1 DEF Abstract!FailCommit, Seen, Committing
    <3>3. QED
      BY <3>2 DEF Abstract!Next
  <2>5. QED
    BY <1>1, <2>2, <2>3, <2>4, RestStep
<1>2. CASE PipeApplies
  <2>1. pc \in Applying /\ Committing /\ Seen' = Seen
    BY <1>2, ApplyEffect, ApplyStep DEF PipeApplies, Committing, Applying, CommitPhases
  <2>2. PICK q \in Paths : /\ \E f \in {View(q), Torn, NoFile} : real' = [real EXCEPT ![q] = f]
                           /\ pc = "writing" /\ FailCommit => real' = [real EXCEPT ![q] = NoFile]
    BY <1>2, ApplyEffect DEF PipeApplies
  <2>3. drv.pc = "idle" /\ Seen[q] = View(q)
    BY <2>1, <2>2, SeenIsView DEF Inv, QuietInv, Paused, Applying
  <2>4. CASE FailCommit
    <3>1. pc = "writing" /\ ~Committing'
      BY <1>2, <2>4 DEF PipeApplies, StartWrite, FinishWrite, Remove, FailCommit, Committing, CommitPhases
    <3>2. real' = [real EXCEPT ![q] = NoFile]
      BY <2>2, <2>4, <3>1
    <3>3. \E p \in Paths : real' \in {real, [real EXCEPT ![p] = NoFile]}
      BY <3>2
    <3>4. Abstract!FailCommit
      BY <2>1, <3>1, <3>3 DEF Abstract!FailCommit, Seen, Committing
    <3>5. QED
      BY <3>4 DEF Abstract!Next
  <2>5. CASE ~FailCommit
    <3>1. Committing'
      BY <1>2, <2>5 DEF PipeApplies, StartWrite, FinishWrite, Remove, Committing, CommitPhases
    <3>2. Abstract!Apply(q)
      BY <2>1, <2>2, <2>3, <3>1 DEF Abstract!Apply, Seen, Committing
    <3>3. QED
      BY <3>2 DEF Abstract!Next
  <2>6. QED
    BY <2>4, <2>5
<1>3. CASE RemoveShadow \/ Isolate
  <2>1. Seen' = Seen /\ UNCHANGED real /\ Committing' = Committing
    BY <1>3, RemoveShadowStep, IsolateStep DEF RemoveShadow, Isolate, Committing, CommitPhases
  <2>2. QED
    BY <2>1 DEF Abstract!vars, Seen, Committing
<1>4. CASE Forget
  <2>1. Seen' = real /\ UNCHANGED real /\ ~Committing' /\ pc \in {"forget_commit", "forget_discard"}
    BY <1>4, ForgetStep DEF Forget, Committing, CommitPhases
  <2>2. CASE pc = "forget_commit"
    <3>1. Seen = real /\ Committing
      BY <1>4, <2>2, ForgetStep DEF Committing, CommitPhases
    <3>2. Abstract!FinishCommit
      BY <2>1, <3>1 DEF Abstract!FinishCommit, Seen, Committing
    <3>3. QED
      BY <3>2 DEF Abstract!Next
  <2>3. CASE pc = "forget_discard"
    <3>1. ~Committing
      BY <2>3 DEF Committing, CommitPhases
    <3>2. Abstract!Discard
      BY <2>1, <3>1 DEF Abstract!Discard, Seen, Committing
    <3>3. QED
      BY <3>2 DEF Abstract!Next
  <2>4. QED
    BY <2>1, <2>2, <2>3
<1>5. QED
  BY <1>1, <1>2, <1>3, <1>4

\* Every step of the store is a step of the view, or changes nothing of it.
LEMMA StepRefines ==
    ASSUME Calm, Inv, [Next]_vars
    PROVE  Abstract!Next \/ UNCHANGED Abstract!vars
<1>1. CASE \/ \E x \in Apps, p \in Paths : Query(x, p) \/ Delete(x, p)
           \/ \E x \in Apps, p \in Paths, q \in Paths : Rename(x, p, q)
           \/ \E x \in Apps : CopyOnWrite(x) \/ Abandon(x) \/ Close(x)
           \/ FinishCopy \/ DirectoryView
  <2>1. Seen' = Seen
    BY <1>1, QueryStep, DeleteStep, RenameStep, CopyOnWriteStep, LeaveStep, FinishCopyStep, DirectoryViewStep
  <2>2. UNCHANGED <<real, pc>>
    BY <1>1 DEF Query, Delete, Rename, CopyOnWrite, Abandon, Close, FinishCopy, DirectoryView, files
  <2>3. QED
    BY <2>1, <2>2 DEF Abstract!vars, Seen
<1>2. CASE \E x \in Apps : OpenShadow(x) \/ Write(x)
  <2>1. UNCHANGED <<real, pc>>
    BY <1>2 DEF OpenShadow, Write
  <2>2. CASE Seen' = Seen
    BY <2>1, <2>2 DEF Abstract!vars, Seen
  <2>3. CASE Seen' # Seen
    <3>1. ~Committing /\ \E p \in Paths, c \in Contents : Seen' = [Seen EXCEPT ![p] = c]
      BY <1>2, <2>3, WriteStep DEF Committing
    <3>2. PICK p \in Paths : \E c \in Contents : Seen' = [Seen EXCEPT ![p] = c]
      BY <3>1
    <3>3. Abstract!Put(p)
      BY <2>1, <3>1, <3>2 DEF Abstract!Put, Seen, Committing
    <3>4. QED
      BY <3>3 DEF Abstract!Next
  <2>4. QED
    BY <2>2, <2>3
<1>3. CASE UNCHANGED vars
  BY <1>3 DEF vars, Abstract!vars, Promised, View, Hidden, RenamedInto
<1>4. QED
  BY <1>1, <1>2, <1>3, CalmSteps, RequestRefines, PipeRefines

\* With one process at a time, nothing going wrong and no delete or rename through a
\* handle on a real file, the overlay is a real directory and a view of it, for any
\* number of paths: a request or a discard takes effect in one step, and a commit makes
\* the one the other without a change of the view (OverlayView).
THEOREM StoreImplementsView == ASSUME Calm PROVE Spec => ImplementsView
<1>1. Init => Inv /\ Abstract!Init
  <2>1. Init => real \in [Paths -> Contents \union {NoFile}] /\ pc = "idle"
    BY DEF Init
  <2>2. QED
    BY <2>1, InitInv DEF Abstract!Init, Seen, CommitPhases
<1>2. Inv /\ [Next]_vars => Inv'
  BY InvKept
<1>3. Inv /\ [Next]_vars => [Abstract!Next]_(Abstract!vars)
  BY StepRefines
<1>4. Spec => Abstract!Spec
  BY <1>1, <1>2, <1>3, PTL DEF Spec, Abstract!Spec
<1>5. QED
  BY <1>4 DEF ImplementsView

-----------------------------------------------------------------------------
(***************************************************************************)
(* What a request changes.                                                  *)
(***************************************************************************)

\* A request is answered with success by the step that stores its record.
LEMMA AnsweringSteps ==
    ASSUME Calm, Inv, [Next]_vars, drv.pc # "idle", changes' # changes
    PROVE  Persist \/ RecordRename \/ RecordRenamedCreation
<1>1. ~Serves /\ ~Forget
  BY DEF Serves, Forget, Inv, QuietInv, Paused
<1>2. UNCHANGED changes \/ Persist \/ RecordRename \/ RecordRenamedCreation
  <2>1. CASE PipeRests \/ PipeApplies \/ RemoveShadow \/ Isolate
    BY <2>1, RestStep, ApplyEffect DEF PipeApplies, RemoveShadow, Isolate
  <2>2. CASE ~(PipeRests \/ PipeApplies \/ RemoveShadow \/ Isolate)
    BY <1>1, <2>2, CalmSteps
       DEF Query, Delete, Rename, CopyOnWrite, Abandon, Close, OpenShadow, Write, FinishCopy, DirectoryView, vars
  <2>3. QED
    BY <2>1, <2>2
<1>3. QED
  BY <1>2

\* With one process at a time, nothing going wrong and no delete or rename through a
\* handle on a real file, a request changes what is seen as it says and in no other way,
\* through any chain of renames before it (PrepareRenamedTargetPath and RecordRename,
\* overlay_operations.cpp:670, 765).
THEOREM RequestsHaveTheirEffects == ASSUME Calm PROVE Spec => RequestEffects
<1> DEFINE Moved(f) == \A p \in Paths \ {drv.path} : f[p] = drv.before[IF p = drv.target THEN drv.path ELSE p]
           Effects ==
               /\ Answers("persist") => Views' = drv.before
               /\ Answers("tombstone") => Views' = [drv.before EXCEPT ![drv.path] = NoFile]
               /\ drv.pc \in {"moved", "unrecorded"} /\ Answers(drv.pc) => Moved(Views')
               /\ (\E x \in Apps, p \in Paths : Query(x, p)) \/ DirectoryView => Views' = Views
<1>1. Init => Inv
  BY InitInv
<1>2. Inv /\ [Next]_vars => Inv'
  BY InvKept
<1>3. Inv /\ [Next]_vars => Effects
  <2> SUFFICES ASSUME Inv, [Next]_vars PROVE Effects
    OBVIOUS
  <2>1. drv.pc # "idle" => drv.before = Seen
    BY DEF Inv, ServedInv, BeforeInv
  <2>2. Answers("persist") => Views' = drv.before
    <3>1. Answers("persist") => Persist
      BY AnsweringSteps DEF Answers, RecordRename, RecordRenamedCreation
    <3>2. QED
      BY <2>1, <3>1, PersistStep DEF Answers
  <2>3. Answers("tombstone") => Views' = [drv.before EXCEPT ![drv.path] = NoFile]
    <3>1. Answers("tombstone") => Persist
      BY AnsweringSteps DEF Answers, RecordRename, RecordRenamedCreation
    <3>2. QED
      BY <2>1, <3>1, PersistStep DEF Answers
  <2>4. ASSUME drv.pc \in {"moved", "unrecorded"}, Answers(drv.pc)
        PROVE  Moved(Views')
    <3>1. RecordRename \/ RecordRenamedCreation
      BY <2>4, AnsweringSteps DEF Answers, Persist
    <3>2. drv'.pc # "unrecorded"
      BY <2>4 DEF Answers
    <3>3. Seen' = Views' /\ \E left : Seen' = [Seen EXCEPT ![drv.target] = Seen[drv.path], ![drv.path] = left]
      BY <3>1, <3>2, RecordRenameStep, RecordRenamedCreationStep
    <3>4. drv.path \in Paths /\ drv.target \in Paths /\ drv.target # drv.path
      BY <2>4, InMove
    <3>5. \A p \in Paths \ {drv.path} : Views'[p] = Seen[IF p = drv.target THEN drv.path ELSE p]
      BY <3>3, <3>4 DEF Seen
    <3>6. QED
      BY <2>1, <2>4, <3>5
  <2>5. (\E x \in Apps, p \in Paths : Query(x, p)) \/ DirectoryView => Views' = Views
    BY QueryStep, DirectoryViewStep
  <2>6. QED
    BY <2>2, <2>3, <2>4, <2>5
<1>4. Spec => [][Effects]_vars
  BY <1>1, <1>2, <1>3, PTL DEF Spec
<1>5. QED
  BY <1>4 DEF RequestEffects
=============================================================================

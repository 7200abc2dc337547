------------------------- MODULE OverlayTreeViewProofs -------------------------
(***************************************************************************)
(* What processes see of the trees of OverlayTree.  Away from what a record *)
(* takes away, a process sees the shadow and under it the real directory:   *)
(* what a rename brings has been in the shadow since the rename, so that no *)
(* request has to look for it again.  That holds as long as nothing is      *)
(* renamed a second time (no `again').  The properties of views, listings,  *)
(* renames and commits follow from it.                                      *)
(***************************************************************************)
EXTENDS OverlayTreeProofs

-----------------------------------------------------------------------------
(***************************************************************************)
(* The invariant.                                                           *)
(***************************************************************************)

UpTo(x) == {x} \union Above[x]

\* A record takes away what is at c.
Gone(c) == changes[c].state \in {"tombstone", "renamed"}

\* It or a directory above is deleted, or taken away.
Deep(x) == \E b \in UpTo(x) : changes[b].state = "tombstone"
Cut(x) == \E b \in UpTo(x) : Gone(b)

\* The shadow, and the real directory under it.
Merged(x) == IF shadow[x] # NoFile THEN shadow[x] ELSE real[x]

RenamedTo(r, t) == changes[r].state = "renamed" /\ t = changes[r].target

\* The directories above the target of a rename are in the shadow, until one is deleted.
TargetsReached ==
    \A r \in Paths, t \in Paths : RenamedTo(r, t) =>
        \A a \in Above[t] : shadow[a] = Dir \/ Deep(a)

\* What a rename brings is in the shadow, until it is deleted.
BroughtIsThere ==
    \A r \in Paths, t \in Paths : RenamedTo(r, t) =>
        \A x \in Paths :
            Within(t, x) /\ (x = t \/ At(real, Under(t, r, x)) # NoFile) => shadow[x] # NoFile \/ Deep(x)

\* The shadow has nothing where a record takes away what is there.
GoneHasNothing ==
    \A c \in Paths : Gone(c) => \A x \in Paths : Within(c, x) => shadow[x] = NoFile

\* The directories above what a record takes away are there, until one is deleted.
GoneHasParents ==
    pc = "idle" => \A c \in Paths : Gone(c) =>
        \A a \in Above[c] : shadow[a] = Dir \/ real[a] = Dir \/ Deep(a)

\* What is recorded as created is not real before the commit.
CreatedIsNew ==
    pc = "idle" => \A c \in Paths : changes[c].state = "created" => real[c] = NoFile

MergeInv ==
    /\ TreeInv /\ SameKind(shadow)
    /\ TargetsReached /\ BroughtIsThere /\ GoneHasNothing /\ GoneHasParents /\ CreatedIsNew

-----------------------------------------------------------------------------
(***************************************************************************)
(* What a process sees.                                                     *)
(***************************************************************************)

\* What takes a directory away takes away what is below it.
LEMMA CutBelow ==
    ASSUME NEW x \in Paths, NEW a \in Above[x]
    PROVE  /\ a \in Paths /\ UpTo(a) \subseteq UpTo(x)
           /\ Cut(a) => Cut(x)
           /\ Deep(a) => Deep(x)
<1>1. a \in Paths /\ UpTo(a) \subseteq UpTo(x)
  BY AboveIsBelow, AboveClosed DEF UpTo
<1>2. QED
  BY <1>1 DEF Cut, Deep

\* What is within something taken away is taken away.
LEMMA CutWithin ==
    ASSUME NEW x \in Paths, NEW c \in Paths, Within(c, x)
    PROVE  /\ c \in UpTo(x)
           /\ Gone(c) => Cut(x)
           /\ changes[c].state = "tombstone" => Deep(x)
<1>1. c \in UpTo(x)
  BY AboveIsBelow DEF UpTo, Within
<1>2. QED
  BY <1>1 DEF Cut, Deep

\* What has a tombstone is taken away, and each record that takes away is at or above.
LEMMA CutFacts ==
    ASSUME NEW x \in Paths
    PROVE  /\ Deep(x) => Cut(x)
           /\ \A b \in UpTo(x) : b \in Paths /\ Within(b, x)
  BY AboveIsBelow DEF Deep, Cut, Gone, UpTo, Within

\* The shadow over the real directory is a tree.
LEMMA MergedTree ==
    ASSUME MergeInv, NEW x \in Paths, Merged(x) # NoFile, NEW a \in Above[x]
    PROVE  Merged(a) = Dir
<1>1. a \in Paths /\ GoodTree(shadow) /\ GoodTree(real) /\ SameKind(shadow)
  BY AboveIsBelow DEF MergeInv, TreeInv
<1>2. CASE shadow[x] # NoFile
  <2>1. shadow[a] = Dir
    BY <1>1, <1>2 DEF GoodTree, IsTree
  <2>2. QED
    BY <2>1, NodesAssumption DEF Merged
<1>3. CASE shadow[x] = NoFile
  <2>1. real[a] = Dir
    BY <1>1, <1>3 DEF Merged, GoodTree, IsTree
  <2>2. QED
    BY <1>1, <2>1, NodesAssumption DEF Merged, SameKind
<1>4. QED
  BY <1>2, <1>3

\* Where nothing is taken away, nothing is hidden, what a rename brings is in the
\* shadow, and an open gives what the two trees have.
LEMMA UncutAnswer ==
    ASSUME MergeInv, NEW x \in Paths, ~Cut(x)
    PROVE  /\ ~Hidden(x) /\ Answer(x) = Merged(x) /\ ~Deep(x)
           /\ Brings(x) => shadow[x] # NoFile
           /\ Queried(x) = shadow
<1>1. ~Hidden(x)
  BY CutFacts DEF Hidden, Cut, Gone, UpTo
<1>2. ~Deep(x)
  BY CutFacts
<1>3. ASSUME Brings(x) PROVE shadow[x] # NoFile
  <2>1. RenamedInto(x) # {} /\ RenamedInto(x) \in SUBSET Paths
    BY <1>3 DEF Brings, RenamedInto
  <2>2. PICK r \in RenamedInto(x) : r = First(RenamedInto(x))
    BY <2>1, FirstIn
  <2>3. PICK t \in Paths : RenamedTo(r, t) /\ Within(t, x) /\ r \in Paths
    BY <2>2 DEF RenamedInto, RenamedTo, MergeInv, TreeInv, RecordsType
  <2>4. At(real, Under(t, r, x)) # NoFile
    BY <1>3, <2>2, <2>3 DEF Brings, RenamedFrom, RenamedTo
  <2>5. shadow[x] # NoFile \/ Deep(x)
    BY <2>3, <2>4 DEF MergeInv, BroughtIsThere
  <2>6. QED
    BY <1>2, <2>5
<1>4. Answer(x) = Merged(x)
  BY <1>1, <1>3 DEF Answer, Merged
<1>5. Queried(x) = shadow
  BY <1>3 DEF Queried
<1>6. QED
  BY <1>1, <1>2, <1>3, <1>4, <1>5

\* A process walks to what is not taken away.
LEMMA WalkUncut ==
    ASSUME MergeInv, NEW p \in Paths, Walks(p)
    PROVE  /\ \A a \in Above[p] : a \in Paths /\ ~Cut(a) /\ Merged(a) = Dir
           /\ ~Hidden(p) => ~Cut(p)
<1>1. \A a \in Above[p] : a \in Paths /\ Answer(a) = Dir /\ ~Hidden(a)
  BY AboveIsBelow, AnswerShown, NodesAssumption DEF Walks
<1>2. \A a \in Above[p] : ~Gone(a)
  BY <1>1 DEF Hidden, Gone
<1>3. \A a \in Above[p] : ~Cut(a)
  BY <1>2, AboveClosed DEF Cut, UpTo
<1>4. \A a \in Above[p] : Merged(a) = Dir
  BY <1>1, <1>3, UncutAnswer
<1>5. ~Hidden(p) => ~Gone(p)
  BY DEF Hidden, Gone
<1>6. QED
  BY <1>1, <1>2, <1>3, <1>4, <1>5 DEF Cut, UpTo

\* What a process sees is there and not taken away.
LEMMA VisibleUncut ==
    ASSUME MergeInv, NEW p \in Paths, Visible(p)
    PROVE  Walks(p) /\ ~Hidden(p) /\ ~Cut(p) /\ Merged(p) # NoFile
<1>1. Walks(p) /\ ~Hidden(p)
  BY AnswerShown DEF Visible, Walks
<1>2. QED
  BY <1>1, WalkUncut, UncutAnswer DEF Visible

\* The view: the shadow over the real directory, but for what is taken away.
ShownIsMerged == \A x \in Paths : View[x] = IF Cut(x) THEN NoFile ELSE Merged(x)

\* That is what the invariant makes of it.
LEMMA ViewShown == MergeInv => ShownIsMerged
<1> SUFFICES ASSUME MergeInv, NEW x \in Paths
             PROVE  View[x] = IF Cut(x) THEN NoFile ELSE Merged(x)
  BY DEF ShownIsMerged
<1>1. View[x] = IF Visible(x) THEN Answer(x) ELSE NoFile
  BY DEF View
<1>2. CASE Cut(x)
  <2>1. ~Visible(x)
    BY <1>2, VisibleUncut
  <2>2. QED
    BY <1>1, <1>2, <2>1
<1>3. CASE ~Cut(x)
  <2>1. Answer(x) = Merged(x)
    BY <1>3, UncutAnswer
  <2>2. ASSUME Merged(x) # NoFile PROVE Visible(x)
    <3>1. \A a \in Above[x] : a \in Paths /\ ~Cut(a) /\ Merged(a) = Dir
      BY <1>3, <2>2, CutBelow, MergedTree
    <3>2. \A a \in Above[x] : Answer(a) = Dir
      BY <3>1, UncutAnswer
    <3>3. QED
      BY <2>1, <2>2, <3>2 DEF Visible
  <2>3. QED
    BY <1>1, <1>3, <2>1, <2>2
<1>4. QED
  BY <1>2, <1>3

-----------------------------------------------------------------------------
(***************************************************************************)
(* What requests put into the shadow.                                       *)
(***************************************************************************)

\* Requests fill the shadow from the real directory where nothing is taken away, and
\* remove what is below something deleted.
Filled(new) ==
    \A x \in Paths :
        \/ new[x] = shadow[x]
        \/ shadow[x] = NoFile /\ new[x] = real[x] /\ ~Cut(x)
        \/ new[x] = NoFile /\ Deep(x)

\* A directory view does no more than that, and has the entries that an open finds.
LEMMA DirectoryViewFills ==
    ASSUME MergeInv, NEW d \in Paths \union {Root}, d \in Paths => ~Cut(d) /\ Merged(d) = Dir
    PROVE  /\ Filled(DirectoryView(shadow, d))
           /\ \A c \in Children[d] : DirectoryView(shadow, d)[c] # NoFile <=> Answer(c) # NoFile
<1> DEFINE view == WithDirectories(shadow, {d} \union Above[d])
           new == DirectoryView(shadow, d)
           Removed(x) == \E c \in Children[d] : Within(c, x) /\ changes[c].state = "tombstone"
<1>1. ASSUME NEW a \in ({d} \union Above[d]) \intersect Paths
      PROVE  ~Cut(a) /\ Merged(a) = Dir
  <2>1. CASE d \in Paths
    BY <1>1, <2>1, CutBelow, MergedTree, NodesAssumption
  <2>2. CASE d \notin Paths
    BY <1>1, <2>2 DEF Above, Below
  <2>3. QED
    BY <2>1, <2>2
<1>2. \A x \in Paths : view[x] =
          IF x \in ({d} \union Above[d]) \intersect Paths /\ shadow[x] = NoFile THEN Dir ELSE shadow[x]
  BY DEF WithDirectories
<1>3. \A x \in Paths : new[x] =
          IF Removed(x) THEN NoFile
          ELSE IF x \in Children[d] /\ view[x] = NoFile /\ changes[x].state # "renamed"
               THEN real[x] ELSE view[x]
  BY DEF DirectoryView
<1>4. \A x \in Paths : Removed(x) => Deep(x)
  BY ChildFacts, CutWithin
<1>5. ASSUME NEW c \in Children[d]
      PROVE  c \in Paths /\ (Cut(c) <=> Gone(c)) /\ (Removed(c) <=> changes[c].state = "tombstone")
  <2>1. c \in Paths /\ \A a \in Above[c] : ~Cut(a)
    BY <1>1, ChildFacts, AboveIsBelow
  <2>2. \A a \in Above[c] : ~Gone(a)
    BY <2>1 DEF Cut, UpTo
  <2>3. Cut(c) <=> Gone(c)
    BY <2>2 DEF Cut, UpTo
  <2>4. Removed(c) => changes[c].state = "tombstone"
    <3>1. SUFFICES ASSUME NEW k \in Children[d], Within(k, c), changes[k].state = "tombstone"
                   PROVE  k = c
      OBVIOUS
    <3>2. k \in Paths /\ (k = c \/ k \in Above[c])
      BY <2>1, <3>1, ChildFacts, AboveIsBelow DEF Within
    <3>3. QED
      BY <2>2, <3>1, <3>2 DEF Gone
  <2>5. QED
    BY <2>1, <2>3, <2>4 DEF Within
<1> HIDE DEF view, new, Removed
<1>6. ASSUME NEW x \in Paths
      PROVE  \/ new[x] = shadow[x]
             \/ shadow[x] = NoFile /\ new[x] = real[x] /\ ~Cut(x)
             \/ new[x] = NoFile /\ Deep(x)
  <2>1. CASE Removed(x)
    BY <1>3, <1>4, <2>1
  <2>2. CASE ~Removed(x) /\ x \in ({d} \union Above[d]) \intersect Paths /\ shadow[x] = NoFile
    <3>1. view[x] = Dir /\ real[x] = Dir /\ ~Cut(x)
      BY <1>1, <1>2, <2>2 DEF Merged
    <3>2. QED
      BY <1>3, <2>2, <3>1, NodesAssumption
  <2>3. CASE /\ ~Removed(x) /\ view[x] = shadow[x]
             /\ x \in Children[d] /\ view[x] = NoFile /\ changes[x].state # "renamed"
    <3>1. ~Cut(x)
      BY <1>5, <2>3 DEF Gone
    <3>2. QED
      BY <1>3, <2>3, <3>1
  <2>4. CASE /\ ~Removed(x) /\ view[x] = shadow[x]
             /\ ~(x \in Children[d] /\ view[x] = NoFile /\ changes[x].state # "renamed")
    BY <1>3, <2>4
  <2>5. QED
    BY <1>2, <2>1, <2>2, <2>3, <2>4
<1>7. ASSUME NEW c \in Children[d]
      PROVE  new[c] # NoFile <=> Answer(c) # NoFile
  <2>1. CASE Gone(c)
    <3>1. c \in Paths /\ shadow[c] = NoFile
      BY <1>5, <2>1 DEF MergeInv, GoneHasNothing, Within
    <3>2. Answer(c) = NoFile
      BY <2>1 DEF Gone, Answer, Hidden
    <3>3. c \notin ({d} \union Above[d]) \intersect Paths
      BY <1>1, <1>5, <2>1
    <3>4. view[c] = NoFile
      BY <1>2, <3>1, <3>3
    <3>5. Removed(c) \/ changes[c].state = "renamed"
      BY <1>5, <2>1 DEF Gone
    <3>6. QED
      BY <1>3, <3>1, <3>2, <3>4, <3>5
  <2>2. CASE ~Gone(c)
    <3>1. c \in Paths /\ Answer(c) = Merged(c) /\ ~Removed(c) /\ changes[c].state # "renamed"
      BY <1>5, <2>2, UncutAnswer DEF Gone
    <3>2. new[c] = IF view[c] = NoFile THEN real[c] ELSE view[c]
      BY <1>3, <1>7, <3>1
    <3>3. CASE c \in ({d} \union Above[d]) \intersect Paths
      <4>1. Merged(c) = Dir /\ view[c] # NoFile
        BY <1>1, <1>2, <3>3, NodesAssumption DEF Merged
      <4>2. QED
        BY <3>1, <3>2, <4>1, NodesAssumption
    <3>4. CASE c \notin ({d} \union Above[d]) \intersect Paths
      <4>1. view[c] = shadow[c]
        BY <1>2, <3>1, <3>4
      <4>2. QED
        BY <3>1, <3>2, <4>1 DEF Merged
    <3>5. QED
      BY <3>3, <3>4
  <2>3. QED
    BY <2>1, <2>2
<1>8. QED
  BY <1>6, <1>7 DEF Filled, new

\* An open by the full path finds what a walk finds.
LEMMA OpensMatch == MergeInv => OpensMatchWalk
<1> SUFFICES ASSUME MergeInv, NEW p \in Paths, Answer(p) # View[p], \A a \in Above[p] : ~Deleted(a)
             PROVE  FALSE
  BY DEF OpensMatchWalk
<1>1. View[p] \in {NoFile, Answer(p)}
  BY DEF View
<1>2. Answer(p) # NoFile /\ ~Hidden(p)
  BY <1>1, AnswerShown
<1>3. \A a \in Above[p] : ~Gone(a)
  BY <1>2 DEF Deleted, Gone, Hidden
<1>4. ~Cut(p)
  BY <1>2, <1>3 DEF Cut, UpTo, Gone, Hidden
<1>5. QED
  BY <1>4, UncutAnswer, ViewShown DEF ShownIsMerged

\* A listing shows the entries that an open finds.
LEMMA ListingMatches == MergeInv => ListingMatchesOpen
<1> SUFFICES ASSUME MergeInv, NEW d \in Paths \union {Root}, d = Root \/ View[d] = Dir
             PROVE  Listed(d) = {c \in Children[d] : Answer(c) # NoFile}
  BY DEF ListingMatchesOpen
<1>1. d \in Paths <=> d # Root
  BY PathsAssumption
<1>2. d \in Paths => ~Cut(d) /\ Merged(d) = Dir
  BY <1>1, ViewShown, NodesAssumption DEF ShownIsMerged
<1>3. d \in Paths => Queried(d) = shadow
  BY <1>2, UncutAnswer
<1>4. \A c \in Children[d] : DirectoryView(shadow, d)[c] # NoFile <=> Answer(c) # NoFile
  BY <1>2, DirectoryViewFills
<1>5. CASE ~(d # Root /\ real[d] = NoFile)
  <2>1. Listed(d) = {c \in Children[d] : DirectoryView(shadow, d)[c] # NoFile}
    BY <1>1, <1>3, <1>5 DEF Listed
  <2>2. QED
    BY <1>4, <2>1
<1>6. CASE d # Root /\ real[d] = NoFile
  <2>1. Listed(d) = {c \in Children[d] : shadow[c] # NoFile}
    BY <1>1, <1>3, <1>6 DEF Listed
  <2>2. ASSUME NEW c \in Children[d]
        PROVE  shadow[c] # NoFile <=> Answer(c) # NoFile
    <3>1. c \in Paths /\ d \in Above[c] /\ \A a \in Above[c] : a = d \/ a \in Above[d]
      BY <1>1, <1>6, ChildFacts
    <3>2. real[c] = NoFile
      BY <1>6, <3>1, NodesAssumption DEF MergeInv, TreeInv, GoodTree, IsTree
    <3>3. CASE Gone(c)
      <4>1. shadow[c] = NoFile /\ Answer(c) = NoFile
        BY <3>1, <3>3 DEF MergeInv, GoneHasNothing, Within, Gone, Answer, Hidden
      <4>2. QED
        BY <4>1
    <3>4. CASE ~Gone(c)
      <4>1. ~Cut(c)
        BY <1>1, <1>2, <1>6, <3>1, <3>4 DEF Cut, UpTo
      <4>2. QED
        BY <3>1, <3>2, <4>1, UncutAnswer DEF Merged
    <3>5. QED
      BY <3>3, <3>4
  <2>3. QED
    BY <2>1, <2>2
<1>7. QED
  BY <1>5, <1>6

\* PrepareCopyOnWrite does no more than that.
LEMMA OpenFills ==
    ASSUME MergeInv, NEW p \in Paths, Walks(p), ~Hidden(p), NEW as
    PROVE  Filled(OpenShadow(as, p))
<1>1. /\ \A a \in Above[p] : a \in Paths /\ ~Cut(a) /\ Merged(a) = Dir
      /\ ~Cut(p) /\ Queried(p) = shadow
  BY WalkUncut, UncutAnswer
<1>2. Filled(shadow)
  BY DEF Filled
<1>3. Filled(CopyOnWrite(shadow, p))
  <2>1. CASE real[p] = Dir
    <3>1. Merged(p) = Dir
      BY <2>1, NodesAssumption DEF MergeInv, SameKind, Merged
    <3>2. Filled(DirectoryView(shadow, p))
      BY <1>1, <3>1, DirectoryViewFills
    <3>3. QED
      BY <2>1, <3>2 DEF CopyOnWrite
  <2>2. CASE real[p] # Dir
    <3> DEFINE into == WithDirectories(shadow, Above[p])
               new == CopyOnWrite(shadow, p)
    <3>1. new = [into EXCEPT ![p] = IF @ = NoFile THEN real[p] ELSE @]
      BY <2>2 DEF CopyOnWrite
    <3>2. \A x \in Paths : into[x] = IF x \in Above[p] /\ shadow[x] = NoFile THEN Dir ELSE shadow[x]
      BY DEF WithDirectories
    <3>3. into \in [Paths -> Nodes]
      BY DEF WithDirectories, MergeInv, TreeInv, GoodTree, Nodes
    <3> HIDE DEF into, new
    <3>4. \A x \in Paths : new[x] = IF x = p /\ into[x] = NoFile THEN real[x] ELSE into[x]
      BY <3>1, <3>3
    <3>5. p \notin Above[p]
      BY AboveIsBelow
    <3>6. \A x \in Above[p] : shadow[x] = NoFile => real[x] = Dir
      BY <1>1 DEF Merged
    <3>7. ASSUME NEW x \in Paths
          PROVE  new[x] = shadow[x] \/ (shadow[x] = NoFile /\ new[x] = real[x] /\ ~Cut(x))
      <4>1. CASE x = p
        BY <1>1, <3>2, <3>4, <3>5, <4>1
      <4>2. CASE x \in Above[p] /\ shadow[x] = NoFile
        BY <1>1, <3>2, <3>4, <3>5, <3>6, <4>2
      <4>3. CASE x # p /\ ~(x \in Above[p] /\ shadow[x] = NoFile)
        BY <3>2, <3>4, <4>3
      <4>4. QED
        BY <4>1, <4>2, <4>3
    <3>8. QED
      BY <3>7 DEF Filled, new
  <2>3. QED
    BY <2>1, <2>2
<1>4. QED
  BY <1>1, <1>2, <1>3 DEF OpenShadow

-----------------------------------------------------------------------------
(***************************************************************************)
(* The steps.                                                               *)
(***************************************************************************)

\* A step that renames nothing keeps the invariant if the shadow keeps what it has
\* but for what is deleted, and has nothing where something is taken away.
LEMMA KeepsMerge ==
    ASSUME MergeInv, TreeInv', SameKind(shadow)', real' = real,
           \A x \in Paths : Deep(x) => Deep(x)',
           \A r, t \in Paths : RenamedTo(r, t)' => RenamedTo(r, t),
           \A x \in Paths : shadow[x] = Dir => shadow'[x] = Dir \/ Deep(x)',
           \A x \in Paths : shadow[x] # NoFile => shadow'[x] # NoFile \/ Deep(x)',
           \A c \in Paths : Gone(c)' => \A x \in Paths : Within(c, x) => shadow'[x] = NoFile,
           pc' = "idle" => pc = "idle",
           \A c \in Paths : pc' = "idle" /\ Gone(c)' /\ ~Gone(c) =>
               \A a \in Above[c] : shadow'[a] = Dir \/ real[a] = Dir \/ Deep(a)',
           \A c \in Paths : pc' = "idle" /\ changes'[c].state = "created" => real[c] = NoFile
    PROVE  MergeInv'
<1>1. \A p \in Paths : Above[p] \subseteq Paths
  BY AboveIsBelow
<1>2. TargetsReached'
  BY <1>1 DEF MergeInv, TargetsReached
<1>3. BroughtIsThere'
  BY DEF MergeInv, BroughtIsThere
<1>4. GoneHasNothing'
  BY DEF GoneHasNothing
<1>5. GoneHasParents'
  BY <1>1 DEF MergeInv, GoneHasParents
<1>6. CreatedIsNew'
  BY DEF CreatedIsNew
<1>7. QED
  BY <1>2, <1>3, <1>4, <1>5, <1>6 DEF MergeInv

\* Requests that fill the shadow and record nothing.
LEMMA FillStep ==
    ASSUME MergeInv, TreeInv', Filled(shadow'), UNCHANGED <<real, changes>>, pc' = "idle" => pc = "idle"
    PROVE  MergeInv' /\ View' = View
<1>1. \A x \in Paths : (Deep(x)' <=> Deep(x)) /\ (Cut(x)' <=> Cut(x)) /\ (Gone(x)' <=> Gone(x))
  BY DEF Deep, Cut, Gone
<1>2. \A r, t \in Paths : RenamedTo(r, t)' => RenamedTo(r, t)
  BY DEF RenamedTo
<1>3. SameKind(shadow)'
  BY NodesAssumption DEF MergeInv, SameKind, Filled
<1>4. \A x \in Paths : shadow[x] # NoFile => shadow'[x] = shadow[x] \/ Deep(x)
  BY DEF Filled
<1>5. ASSUME NEW c \in Paths, Gone(c), NEW x \in Paths, Within(c, x)
      PROVE  shadow'[x] = NoFile
  <2>1. Cut(x) /\ shadow[x] = NoFile
    BY <1>5, CutWithin DEF MergeInv, GoneHasNothing
  <2>2. QED
    BY <2>1 DEF Filled
<1>6. \A c \in Paths : pc' = "idle" /\ changes'[c].state = "created" => real[c] = NoFile
  BY DEF MergeInv, CreatedIsNew
<1>7. MergeInv'
  BY <1>1, <1>2, <1>3, <1>4, <1>5, <1>6, NodesAssumption, KeepsMerge
<1>8. \A x \in Paths : ~Cut(x) => Merged(x)' = Merged(x)
  BY CutFacts DEF Merged, Filled
<1>9. ShownIsMerged /\ ShownIsMerged'
  BY <1>7, ViewShown, PTL
<1>10. \A x \in Paths : View'[x] = View[x]
  BY <1>1, <1>8, <1>9 DEF ShownIsMerged
<1>11. View' = View
  BY <1>10 DEF View
<1>12. QED
  BY <1>7, <1>11

\* An open for reading changes nothing that a process sees.
LEMMA LookMerge == ASSUME MergeInv, NEW p \in Paths, Look(p) PROVE MergeInv' /\ View' = View
<1>1. Walks(p) /\ ~Hidden(p) /\ shadow' = Queried(p) /\ UNCHANGED <<real, changes, pc>>
  BY DEF Look
<1>2. Filled(shadow')
  BY <1>1, WalkUncut, UncutAnswer DEF Filled
<1>3. TreeInv'
  BY LookStep DEF MergeInv
<1>4. QED
  BY <1>1, <1>2, <1>3, FillStep

\* Nor does a listing.
LEMMA ListMerge ==
    ASSUME MergeInv, NEW d \in Paths \union {Root}, List(d)
    PROVE  MergeInv' /\ View' = View
<1>1. /\ shadow' = IF d = Root THEN DirectoryView(shadow, d)
                   ELSE IF real[d] = NoFile THEN Queried(d) ELSE DirectoryView(Queried(d), d)
      /\ d # Root => Walks(d) /\ Answer(d) = Dir
      /\ UNCHANGED <<real, changes, pc>>
  BY DEF List
<1>2. d \in Paths <=> d # Root
  BY PathsAssumption
<1>3. d \in Paths => ~Cut(d) /\ Queried(d) = shadow /\ Merged(d) = Dir
  BY <1>1, <1>2, AnswerShown, WalkUncut, UncutAnswer, NodesAssumption
<1>4. Filled(DirectoryView(shadow, d))
  BY <1>3, DirectoryViewFills
<1>5. Filled(shadow)
  BY DEF Filled
<1>6. Filled(shadow')
  BY <1>1, <1>2, <1>3, <1>4, <1>5
<1>7. TreeInv'
  BY ListStep DEF MergeInv
<1>8. QED
  BY <1>1, <1>6, <1>7, FillStep

\* What is recorded for a file or directory that is made or written.
LEMMA WriteRecord ==
    ASSUME TreeInv, NEW p \in Paths, real[p] # Dir, changes' = OpenRecords("any", p)
    PROVE  \A x \in Paths :
               /\ x # p => changes'[x] = changes[x]
               /\ x = p => changes'[x].state = IF real[p] = NoFile THEN "created" ELSE "modified"
<1>1. changes \in [Paths -> Records]
  BY DEF TreeInv, RecordsType
<1>2. changes' = Upsert(changes, p, IF real[p] = NoFile THEN "created" ELSE "modified", Root)
  BY DEF OpenRecords, CopiesFor, CopyOnWriteRecord
<1>3. QED
  BY <1>1, <1>2 DEF Upsert

\* A file is written, or a directory made, where no directory is taken for a file.
LEMMA SetMerge ==
    ASSUME MergeInv, TreeInv', pc = "idle", NEW p \in Paths, Walks(p), ~Hidden(p),
           NEW open, open \in [Paths -> Nodes], Filled(open),
           NEW n \in Nodes, n # NoFile, n = Dir \/ Merged(p) # Dir, real[p] # Dir,
           shadow' = [open EXCEPT ![p] = n], changes' = OpenRecords("any", p), UNCHANGED <<real, pc>>
    PROVE  MergeInv' /\ AloneChanges(View, View', {p})
<1>1. \A x \in Paths :
          /\ x # p => changes'[x] = changes[x]
          /\ x = p => changes'[x].state = IF real[p] = NoFile THEN "created" ELSE "modified"
  BY WriteRecord DEF MergeInv
<1>2. ~Cut(p) /\ ~Deep(p)
  BY WalkUncut, UncutAnswer
<1>3. ~Gone(p) /\ ~Gone(p)'
  BY <1>1, <1>2 DEF Cut, UpTo, Gone
<1>4. \A x \in Paths : (Gone(x)' <=> Gone(x)) /\ (changes'[x].state = "tombstone" <=> changes[x].state = "tombstone")
  BY <1>1, <1>3 DEF Gone
<1>5. \A x \in Paths : (Deep(x)' <=> Deep(x)) /\ (Cut(x)' <=> Cut(x))
  BY <1>4, CutFacts DEF Deep, Cut
<1>6. \A r, t \in Paths : RenamedTo(r, t)' => RenamedTo(r, t)
  BY <1>1 DEF RenamedTo
<1>7. \A x \in Paths : shadow'[x] = IF x = p THEN n ELSE open[x]
  OBVIOUS
<1>8. \A x \in Paths : /\ shadow[x] = Dir => shadow'[x] = Dir \/ Deep(x)'
                       /\ shadow[x] # NoFile => shadow'[x] # NoFile \/ Deep(x)'
  BY <1>5, <1>7, NodesAssumption DEF Filled, Merged
<1>9. ASSUME NEW c \in Paths, Gone(c)', NEW x \in Paths, Within(c, x)
      PROVE  shadow'[x] = NoFile
  <2>1. Gone(c) /\ Cut(x) /\ shadow[x] = NoFile
    BY <1>4, <1>9, CutWithin DEF MergeInv, GoneHasNothing
  <2>2. QED
    BY <1>2, <1>7, <2>1 DEF Filled
<1>10. \A c \in Paths : pc' = "idle" /\ changes'[c].state = "created" => real[c] = NoFile
  BY <1>1 DEF MergeInv, CreatedIsNew
<1>11. SameKind(shadow)'
  BY DEF TreeInv
<1>12. MergeInv'
  BY <1>4, <1>5, <1>6, <1>8, <1>9, <1>10, <1>11, KeepsMerge
<1>13. \A x \in Paths : x # p /\ ~Cut(x) => Merged(x)' = Merged(x)
  BY <1>7, CutFacts DEF Merged, Filled
<1>14. ShownIsMerged /\ ShownIsMerged'
  BY <1>12, ViewShown, PTL
<1>15. \A x \in Paths : x # p => View'[x] = View[x]
  BY <1>5, <1>13, <1>14 DEF ShownIsMerged
<1>16. QED
  BY <1>12, <1>15 DEF AloneChanges, Within

\* A file is created or written at p, and no process sees a change elsewhere.
LEMMA WriteMerge ==
    ASSUME MergeInv, NEW p \in Paths, Write(p)
    PROVE  MergeInv' /\ AloneChanges(View, View', {p})
<1>1. PICK open : open = OpenShadow("any", p)
  OBVIOUS
<1>2. /\ pc = "idle" /\ Walks(p) /\ ~Hidden(p) /\ Answer(p) # Dir
      /\ changes' = OpenRecords("any", p) /\ UNCHANGED <<real, pc>>
  BY DEF Write
<1>3. PICK c \in Contents : shadow' = [open EXCEPT ![p] = c]
  BY <1>1 DEF Write
<1>4. c \in Nodes /\ c # NoFile
  BY NodesAssumption DEF Nodes
<1>5. Merged(p) # Dir
  BY <1>2, WalkUncut, UncutAnswer
<1>6. real[p] # Dir
  BY <1>5, NodesAssumption DEF Merged, MergeInv, SameKind
<1>7. open \in [Paths -> Nodes] /\ Filled(open)
  BY <1>1, <1>2, OpenFacts, OpenFills DEF MergeInv, GoodTree
<1>8. TreeInv'
  BY WriteStep DEF MergeInv
<1>9. QED
  BY <1>2, <1>3, <1>4, <1>5, <1>6, <1>7, <1>8, SetMerge

\* A directory is made at p, likewise.
LEMMA MakeDirectoryMerge ==
    ASSUME MergeInv, NEW p \in Paths, MakeDirectory(p)
    PROVE  MergeInv' /\ AloneChanges(View, View', {p})
<1>1. PICK open : open = OpenShadow("any", p)
  OBVIOUS
<1>2. /\ pc = "idle" /\ Walks(p) /\ ~Hidden(p) /\ Answer(p) = NoFile
      /\ shadow' = [open EXCEPT ![p] = Dir]
      /\ changes' = OpenRecords("any", p) /\ UNCHANGED <<real, pc>>
  BY <1>1 DEF MakeDirectory
<1>3. PICK n \in Nodes : n = Dir /\ n # NoFile
  BY NodesAssumption DEF Nodes
<1>4. real[p] # Dir
  BY <1>2, <1>3, WalkUncut, UncutAnswer DEF Merged
<1>5. open \in [Paths -> Nodes] /\ Filled(open)
  BY <1>1, <1>2, OpenFacts, OpenFills DEF MergeInv, GoodTree
<1>6. TreeInv'
  BY MakeDirectoryStep DEF MergeInv
<1>7. shadow' = [open EXCEPT ![p] = n] /\ (n = Dir \/ Merged(p) # Dir)
  BY <1>2, <1>3
<1>8. QED
  BY <1>2, <1>3, <1>4, <1>5, <1>6, <1>7, SetMerge

\* The records that an open leaves are the same but for that of its path.
LEMMA OpenRecordsElsewhere ==
    ASSUME TreeInv, NEW p \in Paths, NEW as
    PROVE  /\ OpenRecords(as, p) \in [Paths -> Records]
           /\ \A x \in Paths : x # p => OpenRecords(as, p)[x] = changes[x]
           /\ OpenRecords(as, p)[p].state \in
                  {changes[p].state, IF real[p] = NoFile THEN "created" ELSE "modified"}
<1>1. changes \in [Paths -> Records] /\ real \in [Paths -> Nodes]
  BY DEF TreeInv, RecordsType, GoodTree
<1>2. CASE OpenRecords(as, p) = changes
  BY <1>1, <1>2
<1>3. CASE OpenRecords(as, p) # changes
  <2>1. PICK state \in States : state = IF real[p] = NoFile THEN "created" ELSE "modified"
    BY DEF States
  <2>2. OpenRecords(as, p) = Upsert(changes, p, state, Root)
    BY <1>3, <2>1 DEF OpenRecords, CopyOnWriteRecord
  <2>3. [state |-> state, target |-> Root,
         orig |-> IF changes[p].state = "none" THEN real[p] ELSE changes[p].orig] \in Records
    BY <1>1 DEF Records
  <2>4. PICK record \in Records :
            /\ record.state = state
            /\ record = [state |-> state, target |-> Root,
                         orig |-> IF changes[p].state = "none" THEN real[p] ELSE changes[p].orig]
    BY <2>3
  <2>5. OpenRecords(as, p) = [changes EXCEPT ![p] = record]
    BY <1>1, <2>2, <2>4 DEF Upsert
  <2>6. OpenRecords(as, p)[p].state = state
    BY <1>1, <2>4, <2>5
  <2>7. QED
    BY <1>1, <2>1, <2>5, <2>6
<1>4. QED
  BY <1>2, <1>3

\* A delete takes what is at and below p away from what processes see, and no more.
LEMMA DeleteMerge ==
    ASSUME MergeInv, NEW p \in Paths, Delete(p)
    PROVE  MergeInv' /\ View' = RemoveAll(View, p)
<1>1. pc = "idle" /\ Visible(p) /\ UNCHANGED <<real, todo, pc>>
  BY DEF Delete
<1>2. PICK as \in Handles(p) :
          /\ shadow' = RemoveAll(OpenShadow(as, p), p)
          /\ changes' = Upsert(OpenRecords(as, p), p, "tombstone", Root)
  BY DEF Delete
<1>3. PICK open : open = OpenShadow(as, p)
  OBVIOUS
<1>4. Walks(p) /\ ~Hidden(p) /\ ~Cut(p)
  BY <1>1, VisibleUncut
<1>5. Filled(open)
  BY <1>3, <1>4, OpenFills
<1>6. \A x \in Paths : shadow'[x] = IF Within(p, x) THEN NoFile ELSE open[x]
  BY <1>2, <1>3 DEF RemoveAll
<1>7. \A x \in Paths : /\ x # p => changes'[x] = changes[x]
                       /\ x = p => changes'[x].state = "tombstone" /\ changes'[x].target = Root
  <2>1. /\ OpenRecords(as, p) \in [Paths -> Records]
        /\ \A x \in Paths : x # p => OpenRecords(as, p)[x] = changes[x]
    BY OpenRecordsElsewhere DEF MergeInv
  <2>2. QED
    BY <1>2, <2>1 DEF Upsert
<1>8. \A x \in Paths : p \in UpTo(x) <=> Within(p, x)
  BY AboveIsBelow DEF UpTo, Within
<1>9. \A x \in Paths : /\ Deep(x)' <=> Deep(x) \/ Within(p, x)
                       /\ Cut(x)' <=> Cut(x) \/ Within(p, x)
                       /\ Gone(x)' <=> Gone(x) \/ x = p
  BY <1>7, <1>8, CutFacts DEF Deep, Cut, Gone
<1>10. \A r, t \in Paths : RenamedTo(r, t)' => RenamedTo(r, t)
  BY <1>7 DEF RenamedTo
<1>11. \A x \in Paths : shadow[x] # NoFile => shadow'[x] = shadow[x] \/ Deep(x)'
  BY <1>5, <1>6, <1>9 DEF Filled
<1>12. ASSUME NEW c \in Paths, Gone(c)', NEW x \in Paths, Within(c, x)
       PROVE  shadow'[x] = NoFile
  <2>1. CASE Within(p, x)
    BY <1>6, <2>1
  <2>2. CASE ~Within(p, x)
    <3>1. Gone(c)
      BY <1>9, <1>12, <2>2
    <3>2. Cut(x) /\ shadow[x] = NoFile
      BY <1>12, <3>1, CutWithin DEF MergeInv, GoneHasNothing
    <3>3. QED
      BY <1>5, <1>6, <2>2, <3>2 DEF Filled
  <2>3. QED
    BY <2>1, <2>2
<1>13. ASSUME NEW c \in Paths, Gone(c)', ~Gone(c), NEW a \in Above[c]
       PROVE  shadow'[a] = Dir \/ real[a] = Dir \/ Deep(a)'
  <2>1. c = p
    BY <1>9, <1>13
  <2>2. a \in Paths /\ Merged(a) = Dir
    BY <1>4, <1>13, <2>1, WalkUncut
  <2>3. QED
    BY <1>11, <2>2, NodesAssumption DEF Merged
<1>14. \A c \in Paths : pc' = "idle" /\ changes'[c].state = "created" => real[c] = NoFile
  BY <1>1, <1>7 DEF MergeInv, CreatedIsNew
<1>15. TreeInv' /\ SameKind(shadow)' /\ real' = real /\ (pc' = "idle" => pc = "idle")
  <2>1. TreeInv'
    BY DeleteStep DEF MergeInv
  <2>2. QED
    BY <1>1, <2>1 DEF TreeInv
<1>16. MergeInv'
  BY <1>9, <1>10, <1>11, <1>12, <1>13, <1>14, <1>15, NodesAssumption, KeepsMerge
<1>17. \A x \in Paths : ~Within(p, x) /\ ~Cut(x) => Merged(x)' = Merged(x)
  BY <1>1, <1>5, <1>6, CutFacts DEF Merged, Filled
<1>18. ShownIsMerged /\ ShownIsMerged'
  BY <1>16, ViewShown, PTL
<1>19. \A x \in Paths : View'[x] = IF Within(p, x) THEN NoFile ELSE View[x]
  BY <1>9, <1>17, <1>18 DEF ShownIsMerged
<1>20. View' = [x \in Paths |-> View'[x]]
  BY DEF View
<1>21. View' = RemoveAll(View, p)
  BY <1>19, <1>20 DEF RemoveAll
<1>22. QED
  BY <1>16, <1>21

\* Before a commit starts, nothing moves.
LEMMA StartCommitMerge == ASSUME MergeInv, StartCommit PROVE MergeInv' /\ View' = View
<1>1. UNCHANGED <<real, shadow, changes>> /\ pc' # "idle"
  BY DEF StartCommit
<1>2. Filled(shadow')
  BY <1>1 DEF Filled
<1>3. TreeInv'
  BY StartCommitStep DEF MergeInv
<1>4. QED
  BY <1>1, <1>2, <1>3, FillStep

\* Nor when it stops halfway.
LEMMA FailCommitMerge == ASSUME MergeInv, FailCommit PROVE MergeInv' /\ View' = View
<1>1. UNCHANGED <<real, shadow, changes>> /\ pc' # "idle"
  BY DEF FailCommit
<1>2. Filled(shadow')
  BY <1>1 DEF Filled
<1>3. TreeInv'
  BY FailCommitStep DEF MergeInv
<1>4. QED
  BY <1>1, <1>2, <1>3, FillStep

\* What the commit copies for a record.
Copied(p) == changes[p].state \in {"created", "modified", "renamed"}

\* A record that is applied gives the real directory parts of the shadow, the whole of
\* what it copies among them, and takes away from it what the record takes away alone.
LEMMA AppliedFacts ==
    ASSUME MergeInv, Apply
    PROVE  \E p \in todo :
               /\ todo' = todo \ {p}
               /\ \A x \in Paths : shadow[x] # NoFile => real'[x] \in {real[x], shadow[x]}
               /\ \A x \in Paths : shadow[x] = NoFile =>
                      real'[x] = real[x] \/ (real'[x] = NoFile /\ Cut(x))
               /\ Gone(p) => \A x \in Paths : Within(p, x) => real'[x] = NoFile
               /\ Copied(p) => \A x \in Paths :
                      Within(ShadowOf(p), x) /\ shadow[x] # NoFile => real'[x] = shadow[x]
<1>1. /\ pc = "commit" /\ todo # {} /\ real' = Applied(Current) /\ todo' = todo \ {Current}
  BY DEF Apply
<1>2. TreeInv /\ todo \in SUBSET Paths /\ GoodTree(shadow) /\ GoodTree(real) /\ SameKind(shadow) /\ RecordsType(changes)
  BY DEF MergeInv, TreeInv
<1>3. PICK p \in todo : p = Current
  BY <1>1, <1>2, FirstIn DEF Current
<1>4. p \in Paths /\ (changes[p].state # "tombstone" => shadow[ShadowOf(p)] # NoFile)
  BY <1>1, <1>2, <1>3 DEF TreeInv
<1>5. PICK new : new = Applied(p)
  OBVIOUS
<1>6. real' = new /\ todo' = todo \ {p}
  BY <1>1, <1>3, <1>5
<1>7. ASSUME NEW t \in Paths, shadow[t] # NoFile
      PROVE  \A x \in Paths :
                 /\ Within(t, x) =>
                        CopyOver(shadow, t, real, t)[x] = IF shadow[x] # NoFile THEN shadow[x] ELSE real[x]
                 /\ ~Within(t, x) =>
                        \/ CopyOver(shadow, t, real, t)[x] = real[x]
                        \/ CopyOver(shadow, t, real, t)[x] = shadow[x] /\ shadow[x] # NoFile
  <2>1. \A a \in Above[t] : shadow[a] = Dir /\ real[a] \in {NoFile, Dir}
    BY <1>2, <1>7, AboveIsBelow, NodesAssumption DEF GoodTree, IsTree, SameKind
  <2>2. \A x \in Paths : Within(t, x) => At(shadow, Under(t, t, x)) = shadow[x]
    BY UnderSame DEF At
  <2>3. \A x \in Paths :
            Within(t, x) /\ real[x] # NoFile /\ At(shadow, Under(t, t, x)) # NoFile =>
                (real[x] = Dir <=> At(shadow, Under(t, t, x)) = Dir)
    BY <1>2, <2>2 DEF SameKind
  <2>4. /\ \A q \in Above[t] : CopyOver(shadow, t, real, t)[q] = Dir
        /\ \A q \in Paths : ~Within(t, q) /\ q \notin Above[t] =>
               CopyOver(shadow, t, real, t)[q] = real[q]
        /\ \A q \in Paths : Within(t, q) =>
               CopyOver(shadow, t, real, t)[q] =
                   IF At(shadow, Under(t, t, q)) # NoFile THEN At(shadow, Under(t, t, q)) ELSE real[q]
    BY ONLY <1>2, <2>1, <2>3, t \in Paths, CopyOverTree
  <2>5. QED
    BY <2>1, <2>2, <2>4, NodesAssumption
<1>8. \A x \in Paths : Within(p, x) /\ Gone(p) => shadow[x] = NoFile /\ Cut(x)
  BY <1>4, CutWithin DEF MergeInv, GoneHasNothing
<1>9. /\ \A x \in Paths : shadow[x] # NoFile => new[x] \in {real[x], shadow[x]}
      /\ \A x \in Paths : shadow[x] = NoFile => new[x] = real[x] \/ (new[x] = NoFile /\ Cut(x))
      /\ Gone(p) => \A x \in Paths : Within(p, x) => new[x] = NoFile
      /\ Copied(p) => \A x \in Paths :
             Within(ShadowOf(p), x) /\ shadow[x] # NoFile => new[x] = shadow[x]
  <2>1. CASE changes[p].state = "tombstone"
    <3>1. \A x \in Paths : new[x] = IF Within(p, x) THEN NoFile ELSE real[x]
      BY <1>5, <2>1 DEF Applied, RemoveAll
    <3>2. Gone(p) /\ ~Copied(p)
      BY <2>1 DEF Gone, Copied
    <3>3. QED
      BY <1>8, <3>1, <3>2
  <2>2. CASE changes[p].state = "renamed"
    <3>1. PICK t \in Paths : t = changes[p].target /\ t = ShadowOf(p)
      BY <1>2, <1>4, <2>2 DEF RecordsType, ShadowOf
    <3>2. PICK copied : copied = CopyOver(shadow, t, real, t)
      OBVIOUS
    <3>3. \A x \in Paths :
              /\ Within(t, x) => copied[x] = IF shadow[x] # NoFile THEN shadow[x] ELSE real[x]
              /\ ~Within(t, x) => copied[x] = real[x] \/ (copied[x] = shadow[x] /\ shadow[x] # NoFile)
      BY <1>4, <1>7, <2>2, <3>1, <3>2
    <3>4. \A x \in Paths : new[x] = IF Within(p, x) THEN NoFile ELSE copied[x]
      BY <1>5, <2>2, <3>1, <3>2 DEF Applied, RemoveAll
    <3>5. Gone(p)
      BY <2>2 DEF Gone
    <3>6. \A x \in Paths : shadow[x] # NoFile => ~Within(p, x)
      BY <1>8, <3>5
    <3>7. QED
      BY <1>8, <3>1, <3>3, <3>4, <3>5, <3>6
  <2>3. CASE changes[p].state # "tombstone" /\ changes[p].state # "renamed"
    <3>1. ShadowOf(p) = p /\ new = CopyOver(shadow, p, real, p) /\ shadow[p] # NoFile /\ ~Gone(p)
      BY <1>4, <1>5, <2>3 DEF Applied, ShadowOf, Gone
    <3>2. QED
      BY <1>4, <1>7, <3>1
  <2>4. QED
    BY <2>1, <2>2, <2>3
<1>10. QED
  BY <1>6, <1>9

\* A record that is applied changes nothing that a process sees.
LEMMA ApplyMerge == ASSUME MergeInv, Apply PROVE MergeInv' /\ View' = View
<1>1. pc = "commit" /\ UNCHANGED <<shadow, changes, pc>>
  BY DEF Apply
<1>2. /\ \A x \in Paths : shadow[x] # NoFile => real'[x] \in {real[x], shadow[x]}
      /\ \A x \in Paths : shadow[x] = NoFile => real'[x] = real[x] \/ (real'[x] = NoFile /\ Cut(x))
  BY AppliedFacts
<1>3. \A x \in Paths : (Deep(x)' <=> Deep(x)) /\ (Cut(x)' <=> Cut(x)) /\ (Gone(x)' <=> Gone(x))
  BY <1>1 DEF Deep, Cut, Gone
<1>4. \A r, t : RenamedTo(r, t)' <=> RenamedTo(r, t)
  BY <1>1 DEF RenamedTo
<1>5. TargetsReached'
  BY <1>1, <1>3, <1>4, AboveIsBelow DEF MergeInv, TargetsReached
<1>6. ASSUME NEW r \in Paths, NEW t \in Paths, RenamedTo(r, t), NEW x \in Paths, Within(t, x),
             At(real', Under(t, r, x)) # NoFile, shadow[x] = NoFile
      PROVE  Deep(x)
  <2>1. PICK y : y = Under(t, r, x)
    OBVIOUS
  <2>2. y \in Paths /\ real'[y] # NoFile
    BY <1>6, <2>1 DEF At
  <2>3. Within(r, y)
    <3>1. Within(r, Under(t, r, x))
      <4>1. Under(t, r, x) \in Paths
        BY <2>1, <2>2
      <4>2. QED
        BY <1>6, <4>1, UnderAbove
    <3>2. QED
      BY <2>1, <3>1
  <2>4. shadow[y] = NoFile
    BY <1>6, <2>2, <2>3 DEF MergeInv, GoneHasNothing, Gone, RenamedTo
  <2>5. At(real, Under(t, r, x)) # NoFile
    BY <1>2, <2>1, <2>2, <2>4 DEF At
  <2>6. QED
    BY <1>6, <2>5 DEF MergeInv, BroughtIsThere
<1>7. BroughtIsThere'
  <2>1. SUFFICES ASSUME NEW r \in Paths, NEW t \in Paths, RenamedTo(r, t), NEW x \in Paths, Within(t, x),
                        x = t \/ At(real', Under(t, r, x)) # NoFile
                 PROVE  shadow[x] # NoFile \/ Deep(x)
    BY <1>1, <1>3, <1>4 DEF BroughtIsThere
  <2>2. CASE x = t
    BY <2>1, <2>2 DEF MergeInv, BroughtIsThere
  <2>3. CASE At(real', Under(t, r, x)) # NoFile
    BY <1>6, <2>1, <2>3
  <2>4. QED
    BY <2>1, <2>2, <2>3
<1>8. GoneHasNothing'
  BY <1>1, <1>3 DEF MergeInv, GoneHasNothing
<1>9. GoneHasParents' /\ CreatedIsNew'
  BY <1>1 DEF GoneHasParents, CreatedIsNew
<1>10. TreeInv' /\ SameKind(shadow)'
  <2>1. TreeInv'
    BY ApplyStep DEF MergeInv
  <2>2. QED
    BY <1>1, <2>1 DEF TreeInv
<1>11. MergeInv'
  BY <1>5, <1>7, <1>8, <1>9, <1>10 DEF MergeInv
<1>12. \A x \in Paths : ~Cut(x) => Merged(x)' = Merged(x)
  BY <1>1, <1>2 DEF Merged
<1>13. ShownIsMerged /\ ShownIsMerged'
  BY <1>11, ViewShown, PTL
<1>14. \A x \in Paths : View'[x] = View[x]
  BY <1>3, <1>12, <1>13 DEF ShownIsMerged
<1>15. View' = View
  BY <1>14 DEF View
<1>16. QED
  BY <1>11, <1>15

\* After a commit there is nothing but the real directory.
LEMMA FinishCommitMerge ==
    ASSUME MergeInv, FinishCommit
    PROVE  MergeInv' /\ \A x \in Paths : View'[x] = real[x]
<1>1. /\ shadow' = [p \in Paths |-> NoFile] /\ changes' = [p \in Paths |-> NoRecord] /\ real' = real
  BY DEF FinishCommit
<1>2. \A c \in Paths : ~Gone(c)' /\ changes'[c].state = "none" /\ shadow'[c] = NoFile
  BY <1>1 DEF Gone, NoRecord
<1>3. TargetsReached' /\ BroughtIsThere' /\ GoneHasNothing' /\ GoneHasParents' /\ CreatedIsNew'
  BY <1>2 DEF TargetsReached, BroughtIsThere, GoneHasNothing, GoneHasParents, CreatedIsNew, RenamedTo
<1>4. TreeInv' /\ SameKind(shadow)'
  BY <1>2, FinishCommitStep DEF MergeInv, SameKind
<1>5. MergeInv'
  BY <1>3, <1>4 DEF MergeInv
<1>6. \A x \in Paths : ~Cut(x)' /\ Merged(x)' = real[x]
  BY <1>1, <1>2, CutFacts DEF Cut, Merged
<1>7. ShownIsMerged'
  BY <1>5, ViewShown, PTL
<1>8. QED
  BY <1>5, <1>6, <1>7 DEF ShownIsMerged

-----------------------------------------------------------------------------
(***************************************************************************)
(* Renames.                                                                 *)
(***************************************************************************)

\* The shadow from which a rename through a handle moves, and the records it leaves.
ReadyShadow(as, p) ==
    IF OpenShadow(as, p)[p] = NoFile THEN CopyOnWrite(OpenShadow(as, p), p) ELSE OpenShadow(as, p)
RenamedShadow(as, p) ==
    IF ReadyShadow(as, p)[p] = Dir /\ real[p] # NoFile
    THEN CopyMissing(real, p, ReadyShadow(as, p), p) ELSE ReadyShadow(as, p)
RenamedRecords(as, p, q) == Renamed(OpenRecords(as, p), p, q, RenamedShadow(as, p))

\* What a rename moves: all that is seen at and below its path, and everything real.
LEMMA RenamedTree ==
    ASSUME MergeInv, NEW p \in Paths, Visible(p), NEW as
    PROVE  /\ RenamedShadow(as, p)[p] = Merged(p) /\ RenamedShadow(as, p)[p] # NoFile
           /\ \A y \in Paths : Within(p, y) /\ real[y] # NoFile => RenamedShadow(as, p)[y] # NoFile
           /\ \A y \in Paths : Within(p, y) /\ ~Cut(y) => RenamedShadow(as, p)[y] = Merged(y)
<1>0. PICK ready, tree :
          /\ ready = ReadyShadow(as, p) /\ tree = RenamedShadow(as, p)
          /\ ready = IF OpenShadow(as, p)[p] = NoFile
                     THEN CopyOnWrite(OpenShadow(as, p), p) ELSE OpenShadow(as, p)
          /\ tree = IF ready[p] = Dir /\ real[p] # NoFile
                    THEN CopyMissing(real, p, ready, p) ELSE ready
  BY DEF ReadyShadow, RenamedShadow
<1>1. Walks(p) /\ ~Hidden(p) /\ ~Cut(p) /\ Merged(p) # NoFile /\ Queried(p) = shadow
  BY VisibleUncut, UncutAnswer
<1>2. GoodTree(shadow) /\ GoodTree(real) /\ SameKind(shadow)
  BY DEF MergeInv, TreeInv
<1>3. CopyOnWrite(shadow, p)[p] = Merged(p)
  <2>1. \A a \in Above[p] : shadow[a] \in {NoFile, Dir}
    BY <1>1, WalkUncut DEF Merged
  <2>2. real[p] = Dir => shadow[p] \in {NoFile, Dir}
    BY <1>2, NodesAssumption DEF SameKind
  <2>3. CopyOnWrite(shadow, p)[p] = IF shadow[p] = NoFile THEN real[p] ELSE shadow[p]
    BY <1>2, <2>1, <2>2, CopyOnWriteTree DEF GoodTree
  <2>4. QED
    BY <2>3 DEF Merged
<1>4. Filled(CopyOnWrite(shadow, p)) /\ Filled(shadow)
  <2>1. OpenShadow("any", p) = CopyOnWrite(shadow, p)
    BY <1>1 DEF OpenShadow, CopiesFor
  <2>2. QED
    BY <1>1, <2>1, OpenFills DEF Filled
<1>5. Filled(ready) /\ ready[p] = Merged(p)
  <2>1. CASE CopiesFor(as, p)
    BY <1>0, <1>1, <1>3, <1>4, <2>1 DEF OpenShadow
  <2>2. CASE ~CopiesFor(as, p)
    BY <1>0, <1>1, <1>3, <1>4, <2>2 DEF OpenShadow, Merged
  <2>3. QED
    BY <2>1, <2>2
<1>6. \A y \in Paths : ~Cut(y) => ready[y] = shadow[y] \/ (shadow[y] = NoFile /\ ready[y] = real[y])
  BY <1>5, CutFacts DEF Filled
<1>7. CASE ready[p] = Dir /\ real[p] # NoFile
  <2>1. ASSUME NEW y \in Paths, Within(p, y)
        PROVE  tree[y] = IF ready[y] = NoFile THEN real[y] ELSE ready[y]
    <3>1. At(real, Under(p, p, y)) = real[y]
      BY <2>1, UnderSame DEF At
    <3>2. y \notin Above[p]
      BY <2>1, AboveIsBelow, BelowTransitive DEF Within
    <3>3. WithDirectories(ready, Above[p])[y] = ready[y]
      BY <3>2 DEF WithDirectories
    <3>4. tree[y] = IF WithDirectories(ready, Above[p])[y] = NoFile
                    THEN At(real, Under(p, p, y)) ELSE WithDirectories(ready, Above[p])[y]
      BY <1>0, <1>7, <2>1 DEF CopyMissing
    <3>5. QED
      BY <3>1, <3>3, <3>4
  <2>2. Within(p, p)
    BY DEF Within
  <2>3. tree[p] = Merged(p)
    BY <1>5, <1>7, <2>1, <2>2, NodesAssumption
  <2>4. \A y \in Paths : Within(p, y) /\ ~Cut(y) => tree[y] = Merged(y)
    BY <1>6, <2>1 DEF Merged
  <2>5. QED
    BY <1>0, <1>1, <2>1, <2>3, <2>4
<1>8. CASE ~(ready[p] = Dir /\ real[p] # NoFile)
  <2>1. tree = ready /\ tree[p] = Merged(p)
    BY <1>0, <1>5, <1>8
  <2>2. CASE real[p] = NoFile
    <3>1. \A y \in Paths : Within(p, y) => real[y] = NoFile
      BY <1>2, <2>2, NothingBelow, NodesAssumption DEF Within
    <3>2. QED
      BY <1>0, <1>1, <1>6, <2>1, <3>1 DEF Merged
  <2>3. CASE real[p] # NoFile
    <3>1. Merged(p) # Dir
      BY <1>5, <1>8, <2>3
    <3>2. \A y \in Below[p] : y \in Paths /\ Merged(y) = NoFile
      BY <3>1, AboveIsBelow, MergedTree
    <3>3. ASSUME NEW y \in Paths, Within(p, y), y # p
          PROVE  real[y] = NoFile /\ (~Cut(y) => tree[y] = Merged(y))
      <4>1. shadow[y] = NoFile /\ real[y] = NoFile /\ Merged(y) = NoFile
        BY <3>2, <3>3 DEF Merged, Within
      <4>2. QED
        BY <1>6, <2>1, <4>1
    <3>4. \A y \in Paths : Within(p, y) /\ real[y] # NoFile => tree[y] # NoFile
      BY <1>1, <2>1, <3>3
    <3>5. \A y \in Paths : Within(p, y) /\ ~Cut(y) => tree[y] = Merged(y)
      BY <2>1, <3>3
    <3>6. QED
      BY <1>0, <1>1, <2>1, <3>4, <3>5
  <2>4. QED
    BY <2>2, <2>3
<1>9. QED
  BY <1>7, <1>8

\* What a rename records: elsewhere nothing, nothing that takes away below its path, and
\* at the source and the target either a rename or, if the source was created, a creation.
RecordsMove(p, q, new) ==
    /\ \A x \in Paths : ~Within(p, x) /\ x # q => new[x] = changes[x]
    /\ \A x \in Below[p] : /\ new[x].state \notin {"tombstone", "renamed"}
                           /\ new[x].state = "created" => changes[x].state = "created"
    /\ \/ new[p].state = "renamed" /\ new[p].target = q /\ new[q].state = "none"
       \/ new[p].state = "none" /\ new[q].state = "created" /\ real[p] = NoFile

\* Those are the records that RecordRename leaves.
LEMMA RenamedRecordsMove ==
    ASSUME MergeInv, pc = "idle", NEW p \in Paths, NEW q \in Paths, Visible(p), ~Within(p, q),
           real[q] = NoFile, changes[q].state = "none", NEW as
    PROVE  RecordsMove(p, q, RenamedRecords(as, p, q))
<1>0. PICK tree, new :
          /\ tree[p] = Merged(p)
          /\ new = RenamedRecords(as, p, q) /\ new = Renamed(OpenRecords(as, p), p, q, tree)
  BY RenamedTree DEF RenamedRecords
<1>1. PICK records : records = OpenRecords(as, p)
  OBVIOUS
<1>2. /\ records \in [Paths -> Records]
      /\ \A x \in Paths : x # p => records[x] = changes[x]
      /\ records[p].state \in {changes[p].state, IF real[p] = NoFile THEN "created" ELSE "modified"}
  BY <1>1, OpenRecordsElsewhere DEF MergeInv
<1>3. PICK kept : kept = IF tree[p] = Dir THEN Forget(records, Below[p]) ELSE records
  OBVIOUS
<1>4. /\ \A x \in Paths : kept[x] = IF tree[p] = Dir /\ x \in Below[p] THEN NoRecord ELSE records[x]
      /\ DOMAIN kept = Paths
  BY <1>2, <1>3 DEF Forget
<1>5. p # q /\ p \notin Below[p] /\ q \notin Below[p] /\ NoRecord.state = "none"
  BY AboveIsBelow DEF Within, NoRecord
<1>6. ASSUME NEW x \in Below[p]
      PROVE  kept[x].state = "none" \/ (kept[x] = changes[x] /\ ~Gone(x))
  <2>1. x \in Paths /\ x # p
    BY <1>5, <1>6, AboveIsBelow
  <2>2. CASE tree[p] = Dir
    BY <1>4, <1>5, <1>6, <2>1, <2>2
  <2>3. CASE tree[p] # Dir
    <3>1. kept[x] = changes[x]
      BY <1>2, <1>4, <2>1, <2>3
    <3>2. p \in Above[x] /\ ~Deep(p)
      BY <1>6, <2>1, AboveIsBelow, VisibleUncut, CutFacts
    <3>3. ~(shadow[p] = Dir \/ real[p] = Dir)
      BY <1>0, <2>3, NodesAssumption DEF Merged, MergeInv, SameKind
    <3>4. ~Gone(x)
      BY <2>1, <3>2, <3>3 DEF MergeInv, GoneHasParents
    <3>5. QED
      BY <3>1, <3>4
  <2>4. QED
    BY <2>2, <2>3
<1>7. \A x \in Paths : ~Within(p, x) => kept[x] = changes[x]
  BY <1>2, <1>4 DEF Within
<1>8. ASSUME \A x \in Below[p] : new[x] = kept[x]
      PROVE  \A x \in Below[p] : /\ new[x].state \notin {"tombstone", "renamed"}
                                 /\ new[x].state = "created" => changes[x].state = "created"
  BY <1>6, <1>8 DEF Gone
<1>9. CASE records[p].state = "created"
  <2>1. new = Upsert(Forget(kept, {p}), q, "created", Root)
    BY <1>0, <1>1, <1>3, <1>9 DEF Renamed
  <2>2. \A x \in Paths : Forget(kept, {p})[x] = IF x = p THEN NoRecord ELSE kept[x]
    BY DEF Forget
  <2>3. DOMAIN Forget(kept, {p}) = Paths
    BY DEF Forget
  <2>4. /\ \A x \in Paths : x # q => new[x] = IF x = p THEN NoRecord ELSE kept[x]
        /\ new[q].state = "created"
    BY <2>1, <2>2, <2>3 DEF Upsert
  <2>5. real[p] = NoFile
    BY <1>2, <1>9 DEF MergeInv, CreatedIsNew
  <2>6. /\ \A x \in Paths : ~Within(p, x) /\ x # q => new[x] = changes[x]
        /\ new[p].state = "none"
    BY <1>5, <1>7, <2>4 DEF Within
  <2>7. \A x \in Below[p] : new[x] = kept[x]
    BY <1>5, <2>4, AboveIsBelow
  <2>8. QED
    BY <1>0, <1>8, <2>4, <2>5, <2>6, <2>7 DEF RecordsMove
<1>10. CASE records[p].state # "created"
  <2>1. new = Upsert(kept, p, "renamed", q)
    BY <1>0, <1>1, <1>3, <1>10 DEF Renamed
  <2>2. /\ \A x \in Paths : x # p => new[x] = kept[x]
        /\ new[p].state = "renamed" /\ new[p].target = q
    BY <1>4, <2>1 DEF Upsert
  <2>3. /\ \A x \in Paths : ~Within(p, x) => new[x] = changes[x]
        /\ new[q].state = "none"
    BY <1>5, <1>7, <2>2 DEF Within
  <2>4. \A x \in Below[p] : new[x] = kept[x]
    BY <1>5, <2>2, AboveIsBelow
  <2>5. QED
    BY <1>0, <1>8, <2>2, <2>3, <2>4 DEF RecordsMove
<1>11. QED
  BY <1>9, <1>10

\* What a rename of p to q does: nothing was at the target, what was at and below p is
\* there, with everything real, the rest keeps what is seen, and so do the records.
Moves(p, q, tree) ==
    /\ real' = real /\ pc = "idle" /\ ~Cut(p) /\ ~Within(p, q)
    /\ \A a \in Above[p] : Merged(a) = Dir
    /\ \A x \in Paths : Within(q, x) =>
           /\ ~Within(p, x) /\ ~Cut(x)
           /\ shadow[x] = NoFile /\ real[x] = NoFile
           /\ shadow'[x] = At(tree, Under(q, p, x))
    /\ \A a \in Above[q] : ~Within(p, a) /\ ~Cut(a) /\ Merged(a) = Dir /\ shadow'[a] = Dir
    /\ \A x \in Paths : Within(p, x) => shadow'[x] = NoFile
    /\ \A x \in Paths : ~Within(p, x) /\ ~Within(q, x) =>
           shadow'[x] = shadow[x] \/ (shadow'[x] = Dir /\ ~Cut(x) /\ Merged(x) = Dir)
    /\ tree[p] = Merged(p) /\ tree[p] # NoFile
    /\ \A y \in Paths : Within(p, y) /\ real[y] # NoFile => tree[y] # NoFile
    /\ \A y \in Paths : Within(p, y) /\ ~Cut(y) => tree[y] = Merged(y)
    /\ \A x \in Paths : ~Within(p, x) =>
           (Gone(x)' <=> Gone(x)) /\ (Deep(x)' <=> Deep(x)) /\ (Cut(x)' <=> Cut(x))
    /\ RecordsMove(p, q, changes')

\* Every rename does that.
LEMMA RenameMoves ==
    ASSUME MergeInv, NEW p \in Paths, NEW q \in Paths, Rename(p, q)
    PROVE  \E tree : Moves(p, q, tree)
<1>1. /\ pc = "idle" /\ Visible(p) /\ Walks(q) /\ ~Hidden(q) /\ real' = real
      /\ TreeInv /\ GoodTree(real) /\ GoodTree(shadow)
  BY DEF Rename, MergeInv, TreeInv
<1>2. PICK as, opened, ready, tree :
          /\ opened = OpenShadow(as, p)
          /\ ready = IF opened[p] = NoFile THEN CopyOnWrite(opened, p) ELSE opened
          /\ tree = IF ready[p] = Dir /\ real[p] # NoFile THEN CopyMissing(real, p, ready, p) ELSE ready
          /\ TargetIsFree(q, opened)
          /\ tree[p] = Dir => ~Within(p, q)
          /\ shadow' = Move(tree, p, q)
          /\ changes' = Renamed(OpenRecords(as, p), p, q, tree)
  BY DEF Rename
<1>3. /\ GoodTree(tree) /\ SameKind(tree)
      /\ LeavesRest(opened, shadow, p) /\ LeavesRest(tree, opened, p)
  BY <1>1, <1>2, RenameTree
<1>4. /\ q \notin Above[p]
      /\ \A x \in Paths : Within(q, x) => shadow'[x] = At(tree, Under(q, p, x))
      /\ \A x \in Above[q] : shadow'[x] = Dir
      /\ \A x \in Paths : ~Within(q, x) /\ x \notin Above[q] =>
             shadow'[x] = IF Within(p, x) THEN NoFile ELSE tree[x]
  <2>1. TargetIsFree(q, opened) /\ shadow' = Move(tree, p, q)
    BY <1>2
  <2>2. /\ GoodTree(Move(tree, p, q)) /\ SameKind(Move(tree, p, q))
        /\ q \notin Above[p]
        /\ \A x \in Paths : Within(q, x) => Move(tree, p, q)[x] = At(tree, Under(q, p, x))
        /\ \A x \in Above[q] : Move(tree, p, q)[x] = Dir
        /\ \A x \in Paths : ~Within(q, x) /\ x \notin Above[q] =>
               Move(tree, p, q)[x] = IF Within(p, x) THEN NoFile ELSE tree[x]
    BY ONLY <1>1, <1>3, <2>1, p \in Paths, q \in Paths, MoveTree
  <2>3. QED
    BY <2>1, <2>2
<1>5. /\ tree[p] = Merged(p) /\ tree[p] # NoFile
      /\ \A y \in Paths : Within(p, y) /\ real[y] # NoFile => tree[y] # NoFile
      /\ \A y \in Paths : Within(p, y) /\ ~Cut(y) => tree[y] = Merged(y)
  <2>1. tree = RenamedShadow(as, p)
    BY <1>2 DEF RenamedShadow, ReadyShadow
  <2>2. QED
    BY <1>1, <2>1, RenamedTree
<1>6. /\ Walks(p) /\ ~Hidden(p) /\ ~Cut(p) /\ ~Deep(p) /\ Answer(p) = Merged(p)
      /\ ~Cut(q) /\ ~Deep(q)
      /\ \A a \in Above[p] : a \in Paths /\ ~Cut(a) /\ Merged(a) = Dir
      /\ \A a \in Above[q] : a \in Paths /\ ~Cut(a) /\ Merged(a) = Dir /\ Answer(a) = Dir
  BY <1>1, VisibleUncut, WalkUncut, UncutAnswer DEF Walks
<1>7. changes[q].state = "none" /\ real[q] = NoFile /\ opened[q] = NoFile
  BY <1>2 DEF TargetIsFree, Recorded
<1>8. ~Within(p, q)
  <2>1. SUFFICES ASSUME Within(p, q) PROVE FALSE
    OBVIOUS
  <2>2. CASE q = p
    <3>1. Filled(opened) /\ shadow[p] # NoFile
      BY <1>2, <1>5, <1>6, <1>7, <2>2, OpenFills DEF Merged
    <3>2. QED
      BY <1>6, <1>7, <2>2, <3>1 DEF Filled
  <2>3. CASE q \in Below[p]
    <3>1. p \in Above[q]
      BY <2>3, AboveIsBelow
    <3>2. QED
      BY <1>2, <1>5, <1>6, <2>1, <3>1
  <2>4. QED
    BY <2>1, <2>2, <2>3 DEF Within
<1>9. shadow[q] = NoFile
  BY <1>3, <1>7, <1>8, NodesAssumption DEF LeavesRest
<1>10. ~Within(q, p)
  BY <1>4, <1>8, AboveIsBelow DEF Within
<1>11. \A x \in Paths : Within(q, x) => ~Within(p, x)
  BY <1>8, <1>10, AboveCompare DEF Within
<1>12. \A a \in Above[q] : ~Within(p, a)
  BY <1>8, AboveIsBelow, BelowTransitive DEF Within
<1>13. \A a \in Above[p] : ~Within(q, a) /\ ~Within(p, a)
  BY <1>10, AboveIsBelow, BelowTransitive DEF Within
<1>14. \A x \in Paths : Within(q, x) => shadow[x] = NoFile /\ real[x] = NoFile
  BY <1>1, <1>7, <1>9, NothingBelow, NodesAssumption DEF Within
<1>15. ASSUME NEW x \in Paths, Within(q, x) PROVE ~Cut(x)
  <2>1. SUFFICES ASSUME NEW c \in UpTo(x), Gone(c) PROVE FALSE
    BY DEF Cut
  <2>2. c \in Paths /\ Within(c, x)
    BY <2>1, CutFacts
  <2>3. ~Within(c, q)
    BY <1>6, <2>1, <2>2, CutWithin
  <2>4. q \in Above[c]
    BY <1>15, <2>2, <2>3, AboveIsBelow, AboveCompare DEF Within
  <2>5. QED
    BY <1>1, <1>6, <1>7, <1>9, <2>1, <2>2, <2>4, NodesAssumption DEF MergeInv, GoneHasParents
<1>16. ASSUME NEW x \in Paths, ~Within(p, x), ~Within(q, x)
       PROVE  shadow'[x] = shadow[x] \/ (shadow'[x] = Dir /\ ~Cut(x) /\ Merged(x) = Dir)
  <2>1. CASE x \in Above[q]
    BY <1>4, <1>6, <2>1
  <2>2. CASE x \notin Above[q]
    <3>1. shadow'[x] = tree[x]
      BY <1>4, <1>16, <2>2
    <3>2. tree[x] = shadow[x] \/ (x \in Above[p] /\ tree[x] = Dir)
      BY <1>3, <1>16 DEF LeavesRest
    <3>3. QED
      BY <1>6, <3>1, <3>2
  <2>3. QED
    BY <2>1, <2>2
<1>17. \A x \in Paths : Within(p, x) => shadow'[x] = NoFile
  BY <1>4, <1>11, <1>12
<1>18. RecordsMove(p, q, changes')
  <2>1. changes' = RenamedRecords(as, p, q)
    BY <1>2 DEF RenamedRecords, RenamedShadow, ReadyShadow
  <2>2. RecordsMove(p, q, RenamedRecords(as, p, q))
    BY ONLY MergeInv, <1>1, <1>7, <1>8, p \in Paths, q \in Paths, RenamedRecordsMove
  <2>3. QED
    BY <2>1, <2>2
<1>19. ASSUME NEW x \in Paths, ~Within(p, x)
       PROVE  (Gone(x)' <=> Gone(x)) /\ (Deep(x)' <=> Deep(x)) /\ (Cut(x)' <=> Cut(x))
  <2>1. ASSUME NEW b \in Paths, ~Within(p, b)
        PROVE  /\ Gone(b)' <=> Gone(b)
               /\ changes'[b].state = "tombstone" <=> changes[b].state = "tombstone"
    BY <1>7, <1>18, <2>1 DEF Gone, RecordsMove
  <2>2. \A b \in UpTo(x) : b \in Paths /\ ~Within(p, b)
    BY <1>19, CutFacts, BelowTransitive DEF Within
  <2>3. QED
    BY <1>19, <2>1, <2>2 DEF Deep, Cut
<1>20. \A x \in Paths : Within(q, x) => shadow'[x] = At(tree, Under(q, p, x))
  BY <1>4
<1>21. \A a \in Above[q] : shadow'[a] = Dir
  BY <1>4
<1>22. Moves(p, q, tree)
  BY ONLY <1>1, <1>5, <1>6, <1>8, <1>11, <1>12, <1>14, <1>15, <1>16, <1>17, <1>18, <1>19, <1>20, <1>21
     DEF Moves
<1>23. QED
  BY <1>22

\* A rename keeps the invariant, unless what an earlier rename brought is renamed.
LEMMA RenameMerge ==
    ASSUME "again" \notin Hazards, MergeInv, NEW p \in Paths, NEW q \in Paths, Rename(p, q)
    PROVE  MergeInv'
<1>1. PICK tree : Moves(p, q, tree)
  BY RenameMoves
<1>2. /\ real' = real /\ pc = "idle" /\ ~Cut(p) /\ ~Within(p, q)
      /\ \A a \in Above[p] : Merged(a) = Dir
  BY <1>1 DEF Moves
<1>3. \A x \in Paths : Within(q, x) =>
          /\ ~Within(p, x) /\ ~Cut(x)
          /\ shadow[x] = NoFile /\ real[x] = NoFile
          /\ shadow'[x] = At(tree, Under(q, p, x))
  BY <1>1 DEF Moves
<1>4. /\ \A a \in Above[q] : ~Within(p, a) /\ ~Cut(a) /\ Merged(a) = Dir /\ shadow'[a] = Dir
      /\ \A x \in Paths : Within(p, x) => shadow'[x] = NoFile
      /\ \A x \in Paths : ~Within(p, x) /\ ~Within(q, x) =>
             shadow'[x] = shadow[x] \/ (shadow'[x] = Dir /\ ~Cut(x) /\ Merged(x) = Dir)
  BY <1>1 DEF Moves
<1>5. /\ tree[p] # NoFile
      /\ \A y \in Paths : Within(p, y) /\ real[y] # NoFile => tree[y] # NoFile
  BY <1>1 DEF Moves
<1>6. \A x \in Paths : ~Within(p, x) =>
          (Gone(x)' <=> Gone(x)) /\ (Deep(x)' <=> Deep(x)) /\ (Cut(x)' <=> Cut(x))
  BY <1>1 DEF Moves
<1>7. RecordsMove(p, q, changes')
  BY <1>1 DEF Moves
<1>8. \A r, t \in Paths : RenamedTo(r, t) => ~Within(t, p) /\ ~Within(p, t)
  BY DEF Rename, Plain, RenamedTo
<1>9. ASSUME NEW r \in Paths, NEW t \in Paths, RenamedTo(r, t)'
      PROVE  (r = p /\ t = q) \/ RenamedTo(r, t)
  <2>1. CASE r = p
    BY <1>7, <1>9, <2>1 DEF RecordsMove, RenamedTo
  <2>2. CASE r # p
    BY <1>7, <1>9, <2>2 DEF RecordsMove, RenamedTo, Within
  <2>3. QED
    BY <2>1, <2>2
<1>10. ASSUME NEW x \in Paths, ~Within(p, x)
       PROVE  /\ shadow[x] = Dir => shadow'[x] = Dir
              /\ shadow[x] # NoFile => shadow'[x] # NoFile
  BY <1>3, <1>4, <1>10, NodesAssumption
<1>11. TargetsReached'
  <2>1. SUFFICES ASSUME NEW r \in Paths, NEW t \in Paths, RenamedTo(r, t)', NEW a \in Above[t]
                 PROVE  shadow'[a] = Dir \/ Deep(a)'
    BY DEF TargetsReached
  <2>2. CASE r = p /\ t = q
    BY <1>4, <2>1, <2>2
  <2>3. CASE RenamedTo(r, t)
    <3>1. a \in Paths /\ ~Within(p, a)
      BY <1>8, <2>1, <2>3, AboveIsBelow, BelowTransitive DEF Within
    <3>2. shadow[a] = Dir \/ Deep(a)
      BY <2>1, <2>3 DEF MergeInv, TargetsReached
    <3>3. QED
      BY <1>6, <1>10, <3>1, <3>2
  <2>4. QED
    BY <1>9, <2>1, <2>2, <2>3
<1>12. BroughtIsThere'
  <2>1. SUFFICES ASSUME NEW r \in Paths, NEW t \in Paths, RenamedTo(r, t)', NEW x \in Paths, Within(t, x),
                        x = t \/ At(real, Under(t, r, x)) # NoFile
                 PROVE  shadow'[x] # NoFile \/ Deep(x)'
    BY <1>2 DEF BroughtIsThere
  <2>2. CASE r = p /\ t = q
    <3>1. shadow'[x] = At(tree, Under(q, p, x))
      BY <1>3, <2>1, <2>2
    <3>2. CASE x = q
      <4>1. Under(q, p, x) = p
        BY <3>2, UnderSelf
      <4>2. QED
        BY <1>5, <3>1, <4>1 DEF At
    <3>3. CASE At(real, Under(q, p, x)) # NoFile
      <4>1. Under(q, p, x) \in Paths /\ real[Under(q, p, x)] # NoFile
        BY <3>3 DEF At
      <4>2. Within(p, Under(q, p, x))
        BY <2>1, <2>2, <4>1, UnderAbove
      <4>3. QED
        BY <1>5, <3>1, <4>1, <4>2 DEF At
    <3>4. QED
      BY <2>1, <2>2, <3>2, <3>3
  <2>3. CASE RenamedTo(r, t)
    <3>1. ~Within(p, x)
      BY <1>8, <2>1, <2>3, AboveCompare DEF Within
    <3>2. shadow[x] # NoFile \/ Deep(x)
      BY <2>1, <2>3 DEF MergeInv, BroughtIsThere
    <3>3. QED
      BY <1>6, <1>10, <3>1, <3>2
  <2>4. QED
    BY <1>9, <2>1, <2>2, <2>3
<1>13. GoneHasNothing'
  <2>1. SUFFICES ASSUME NEW c \in Paths, Gone(c)', NEW x \in Paths, Within(c, x)
                 PROVE  shadow'[x] = NoFile
    BY DEF GoneHasNothing
  <2>2. CASE Within(p, x)
    BY <1>4, <2>2
  <2>3. CASE ~Within(p, x)
    <3>1. ~Within(p, c)
      BY <2>1, <2>3, BelowTransitive DEF Within
    <3>2. Gone(c) /\ Cut(x) /\ shadow[x] = NoFile
      BY <1>6, <2>1, <3>1, CutWithin DEF MergeInv, GoneHasNothing
    <3>3. QED
      BY <1>3, <1>4, <2>3, <3>2
  <2>4. QED
    BY <2>2, <2>3
<1>14. GoneHasParents'
  <2>1. SUFFICES ASSUME NEW c \in Paths, Gone(c)', NEW a \in Above[c]
                 PROVE  shadow'[a] = Dir \/ real[a] = Dir \/ Deep(a)'
    BY <1>2 DEF GoneHasParents
  <2>2. a \in Paths /\ c \notin Below[p]
    BY <1>7, <2>1, AboveIsBelow DEF RecordsMove, Gone
  <2>3. ~Within(p, a)
    BY <2>1, <2>2, AboveIsBelow, BelowTransitive DEF Within
  <2>4. shadow[a] = Dir \/ real[a] = Dir \/ Deep(a)
    <3>1. CASE c = p
      BY <1>2, <2>1, <3>1 DEF Merged
    <3>2. CASE c # p
      BY <1>2, <1>6, <2>1, <2>2, <3>2 DEF MergeInv, GoneHasParents, Within
    <3>3. QED
      BY <3>1, <3>2
  <2>5. QED
    BY <1>6, <1>10, <2>2, <2>3, <2>4
<1>15. CreatedIsNew'
  <2>1. SUFFICES ASSUME NEW c \in Paths, changes'[c].state = "created"
                 PROVE  real[c] = NoFile
    BY <1>2 DEF CreatedIsNew
  <2>2. CASE c = q
    BY <1>3, <2>2 DEF Within
  <2>3. CASE c # q
    <3>1. changes[c].state = "created"
      BY <1>7, <2>1, <2>3 DEF RecordsMove, Within
    <3>2. QED
      BY <1>2, <3>1 DEF MergeInv, CreatedIsNew
  <2>4. QED
    BY <2>2, <2>3
<1>16. TreeInv' /\ SameKind(shadow)'
  <2>1. TreeInv'
    BY RenameStep DEF MergeInv
  <2>2. pc' = "idle"
    BY DEF Rename
  <2>3. QED
    BY <2>1, <2>2 DEF TreeInv
<1>17. QED
  BY <1>11, <1>12, <1>13, <1>14, <1>15, <1>16 DEF MergeInv

\* A process then sees at the target what it saw at the source, if nothing below was
\* taken away before, and nothing at the source.
LEMMA RenameShows ==
    ASSUME "again" \notin Hazards, "gaps" \notin Hazards, MergeInv,
           NEW p \in Paths, NEW q \in Paths, Rename(p, q)
    PROVE  View' = Move(View, p, q)
<1>1. PICK tree : Moves(p, q, tree)
  BY RenameMoves
<1>2. /\ real' = real /\ ~Cut(p) /\ ~Within(p, q)
  BY <1>1 DEF Moves
<1>3. \A x \in Paths : Within(q, x) =>
          /\ ~Within(p, x) /\ ~Cut(x)
          /\ shadow[x] = NoFile /\ real[x] = NoFile
          /\ shadow'[x] = At(tree, Under(q, p, x))
  BY <1>1 DEF Moves
<1>4. /\ \A a \in Above[q] : ~Within(p, a) /\ ~Cut(a) /\ Merged(a) = Dir
      /\ \A x \in Paths : Within(p, x) => shadow'[x] = NoFile
      /\ \A x \in Paths : ~Within(p, x) /\ ~Within(q, x) =>
             shadow'[x] = shadow[x] \/ (shadow'[x] = Dir /\ ~Cut(x) /\ Merged(x) = Dir)
  BY <1>1 DEF Moves
<1>5. \A y \in Paths : Within(p, y) /\ ~Cut(y) => tree[y] = Merged(y)
  BY <1>1 DEF Moves
<1>6. \A x \in Paths : ~Within(p, x) => (Cut(x)' <=> Cut(x))
  BY <1>1 DEF Moves
<1>7. RecordsMove(p, q, changes')
  BY <1>1 DEF Moves
<1>8. ShownIsMerged /\ ShownIsMerged'
  <2>1. MergeInv'
    BY RenameMerge
  <2>2. QED
    BY <2>1, ViewShown, PTL
<1>9. ASSUME NEW y \in Paths, Within(p, y)
      PROVE  tree[y] = View[y]
  <2>1. \A c \in Below[p] : ~Gone(c)
    BY DEF Rename, Plain, Gone
  <2>2. ~Cut(y)
    <3>1. SUFFICES ASSUME NEW c \in UpTo(y), Gone(c) PROVE FALSE
      BY DEF Cut
    <3>2. c \in Paths /\ Within(c, y)
      BY <3>1, CutFacts
    <3>3. ~Within(c, p)
      BY <1>2, <3>1, <3>2, CutWithin
    <3>4. c \in Below[p]
      BY <1>9, <3>2, <3>3, AboveCompare DEF Within
    <3>5. QED
      BY <2>1, <3>1, <3>4
  <2>3. QED
    BY <1>5, <1>8, <1>9, <2>2 DEF ShownIsMerged
<1>10. ASSUME NEW x \in Paths, Within(q, x)
       PROVE  View'[x] = At(View, Under(q, p, x)) /\ View[x] = NoFile
  <2>1. View'[x] = At(tree, Under(q, p, x))
    BY <1>2, <1>3, <1>6, <1>8, <1>10 DEF ShownIsMerged, Merged
  <2>2. At(tree, Under(q, p, x)) = At(View, Under(q, p, x))
    <3>1. Under(q, p, x) \in Paths => Within(p, Under(q, p, x))
      BY <1>10, UnderAbove
    <3>2. QED
      BY <1>9, <3>1 DEF At
  <2>3. QED
    BY <1>3, <1>8, <1>10, <2>1, <2>2 DEF ShownIsMerged, Merged
<1>11. ASSUME NEW x \in Paths, Within(p, x)
       PROVE  View'[x] = NoFile
  <2>1. CASE changes'[p].state = "renamed"
    <3>1. p \in UpTo(x) /\ Gone(p)'
      BY <1>11, <2>1, CutWithin DEF Gone
    <3>2. Cut(x)'
      BY <3>1 DEF Cut
    <3>3. QED
      BY <1>8, <3>2 DEF ShownIsMerged
  <2>2. CASE changes'[p].state # "renamed"
    <3>1. real[p] = NoFile /\ GoodTree(real)
      BY <1>7, <2>2 DEF RecordsMove, MergeInv, TreeInv
    <3>2. real[x] = NoFile
      BY <1>11, <3>1, NothingBelow, NodesAssumption DEF Within
    <3>3. QED
      BY <1>2, <1>4, <1>8, <1>11, <3>2 DEF ShownIsMerged, Merged
  <2>3. QED
    BY <2>1, <2>2
<1>12. ASSUME NEW x \in Paths, ~Within(p, x), ~Within(q, x)
       PROVE  View'[x] = View[x]
  <2>1. shadow'[x] = shadow[x] \/ (shadow'[x] = Dir /\ ~Cut(x) /\ Merged(x) = Dir)
    BY <1>4, <1>12
  <2>2. CASE Cut(x)
    BY <1>6, <1>8, <1>12, <2>2 DEF ShownIsMerged
  <2>3. CASE ~Cut(x)
    <3>1. Merged(x)' = Merged(x)
      BY <1>2, <2>1, NodesAssumption DEF Merged
    <3>2. QED
      BY <1>6, <1>8, <1>12, <2>3, <3>1 DEF ShownIsMerged
  <2>4. QED
    BY <2>2, <2>3
<1>13. \A x \in Paths : View'[x] = IF Within(q, x) THEN At(View, Under(q, p, x))
                                   ELSE IF Within(p, x) THEN NoFile ELSE View[x]
  BY <1>10, <1>11, <1>12
<1>14. PICK removed : removed = RemoveAll(View, p)
  OBVIOUS
<1>15. \A x \in Paths : removed[x] = IF Within(p, x) THEN NoFile ELSE View[x]
  BY <1>14 DEF RemoveAll
<1>16. PICK into : into = WithDirectories(removed, Above[q])
  OBVIOUS
<1>17. \A x \in Paths : into[x] = removed[x]
  <2>1. \A a \in Above[q] : a \in Paths /\ removed[a] = Dir
    BY <1>4, <1>8, <1>15, AboveIsBelow DEF ShownIsMerged
  <2>2. \A x \in Paths : into[x] = IF x \in Above[q] /\ removed[x] = NoFile THEN Dir ELSE removed[x]
    BY <1>16 DEF WithDirectories
  <2>3. QED
    BY <2>1, <2>2, NodesAssumption
<1>18. Move(View, p, q) = [x \in Paths |-> IF Within(q, x) /\ At(View, Under(q, p, x)) # NoFile
                                           THEN At(View, Under(q, p, x)) ELSE into[x]]
  BY <1>14, <1>16 DEF Move, CopyOver
<1>19. \A x \in Paths : Move(View, p, q)[x] = View'[x]
  <2>1. SUFFICES ASSUME NEW x \in Paths
                 PROVE  (IF Within(q, x) /\ At(View, Under(q, p, x)) # NoFile
                         THEN At(View, Under(q, p, x)) ELSE into[x]) = View'[x]
    BY <1>18
  <2>2. CASE Within(q, x)
    BY <1>3, <1>10, <1>15, <1>17, <2>2
  <2>3. CASE ~Within(q, x)
    BY <1>13, <1>15, <1>17, <2>3
  <2>4. QED
    BY <2>2, <2>3
<1>20. View' = [x \in Paths |-> View'[x]]
  BY DEF View
<1>21. QED
  BY <1>18, <1>19, <1>20

-----------------------------------------------------------------------------
(***************************************************************************)
(* The theorems.                                                            *)
(***************************************************************************)

\* A rule starts with nothing recorded and an empty shadow.
LEMMA MergeInvInit == ASSUME Init PROVE MergeInv
<1>1. \A c \in Paths : ~Gone(c) /\ changes[c].state = "none" /\ shadow[c] = NoFile
  BY DEF Init, Gone, NoRecord
<1>2. TargetsReached /\ BroughtIsThere /\ GoneHasNothing /\ GoneHasParents /\ CreatedIsNew
  BY <1>1 DEF TargetsReached, BroughtIsThere, GoneHasNothing, GoneHasParents, CreatedIsNew, RenamedTo
<1>3. TreeInv /\ SameKind(shadow)
  BY <1>1, TreeInvInit DEF SameKind
<1>4. QED
  BY <1>2, <1>3 DEF MergeInv

\* Every step keeps the invariant, and what an operation changes it changes where it is at work.
LEMMA MergeInvNext ==
    ASSUME "again" \notin Hazards, MergeInv, [Next]_vars
    PROVE  MergeInv'
<1>1. CASE UNCHANGED vars
  <2>1. UNCHANGED <<real, shadow, changes, pc>> /\ [Next]_vars
    BY <1>1 DEF vars
  <2>2. TreeInv'
    BY TreeInvNext DEF MergeInv
  <2>3. Filled(shadow')
    BY <2>1 DEF Filled
  <2>4. QED
    BY <2>1, <2>2, <2>3, FillStep
<1>2. CASE Operation
  BY <1>2, LookMerge, WriteMerge, MakeDirectoryMerge, DeleteMerge, RenameMerge, ListMerge DEF Operation
<1>3. CASE Commit
  BY <1>3, StartCommitMerge, ApplyMerge, FailCommitMerge, FinishCommitMerge DEF Commit
<1>4. QED
  BY <1>1, <1>2, <1>3 DEF Next

\* The invariant holds at every step, unless what a rename brought is renamed again.
THEOREM MergeInvariance == ASSUME "again" \notin Hazards PROVE Spec => []MergeInv
<1>1. Init => MergeInv
  BY MergeInvInit
<1>2. MergeInv /\ [Next]_vars => MergeInv'
  BY MergeInvNext
<1>3. QED
  BY <1>1, <1>2, PTL DEF Spec

\* An open by the full path gives what a walk from the source directory finds, but for
\* what is below a deleted directory: IsTombstoned and IsHiddenByRenameSource hide enough on
\* every path that copy-on-write, deletes, renames and commits lead to.
THEOREM OpensMatchWalks == ASSUME "again" \notin Hazards PROVE Spec => []OpensMatchWalk
<1>1. MergeInv => OpensMatchWalk
  BY OpensMatch
<1>2. QED
  BY <1>1, MergeInvariance, PTL

\* The directory view that PrepareDirectoryView makes has exactly the entries that an
\* open finds: nothing deleted or moved away, and nothing missing.
THEOREM ListingsMatchOpens == ASSUME "again" \notin Hazards PROVE Spec => []ListingMatchesOpen
<1>1. MergeInv => ListingMatchesOpen
  BY ListingMatches
<1>2. QED
  BY <1>1, MergeInvariance, PTL

\* Opens for reading and listings change nothing that a process sees, for all they put
\* into the shadow; writes change what is at their path alone, and a delete takes away
\* what is at and below its path, and nothing else.
THEOREM OperationsStayLocal == ASSUME "again" \notin Hazards PROVE Spec => OperationsAreLocal
<1> DEFINE Local == LET old == View
                        new == View'
                    IN  old # new =>
                          /\ \A p \in Paths : ~Look(p)
                          /\ \A d \in Paths \union {Root} : ~List(d)
                          /\ \A p \in Paths : Write(p) \/ MakeDirectory(p) => AloneChanges(old, new, {p})
                          /\ \A p \in Paths : Delete(p) => new = RemoveAll(old, p)
<1>1. MergeInv /\ [Next]_vars => [Local]_vars
  <2>1. SUFFICES ASSUME MergeInv PROVE Local
    OBVIOUS
  <2>2. \A p \in Paths : Look(p) => View' = View
    BY <2>1, LookMerge
  <2>3. \A d \in Paths \union {Root} : List(d) => View' = View
    BY <2>1, ListMerge
  <2>4. \A p \in Paths : Write(p) \/ MakeDirectory(p) => AloneChanges(View, View', {p})
    BY <2>1, WriteMerge, MakeDirectoryMerge
  <2>5. \A p \in Paths : Delete(p) => View' = RemoveAll(View, p)
    BY <2>1, DeleteMerge
  <2>6. QED
    BY <2>2, <2>3, <2>4, <2>5
<1>2. QED
  BY <1>1, MergeInvariance, PTL DEF Spec, OperationsAreLocal

\* A rename of a file or of a directory takes everything that is seen at and below its
\* path to the target, real or in the shadow, and leaves nothing there: CopyMissingPath,
\* the move in the store and the records agree.
THEOREM RenamesMoveTrees ==
    ASSUME "again" \notin Hazards, "gaps" \notin Hazards
    PROVE  Spec => RenameMovesTree
<1> DEFINE Whole == LET old == View
                        new == View'
                    IN  \A p, q \in Paths : Rename(p, q) => new = Move(old, p, q)
<1>1. MergeInv /\ [Next]_vars => [Whole]_vars
  <2>1. SUFFICES ASSUME MergeInv, NEW p \in Paths, NEW q \in Paths, Rename(p, q)
                 PROVE  View' = Move(View, p, q)
    OBVIOUS
  <2>2. QED
    BY <2>1, RenameShows
<1>2. QED
  BY <1>1, MergeInvariance, PTL DEF Spec, RenameMovesTree

-----------------------------------------------------------------------------
(***************************************************************************)
(* Commit.  What the shadow has is real or a record copies it, and what has *)
(* been applied is real.                                                    *)
(***************************************************************************)

ShadowIsRecorded ==
    \A x \in Paths : shadow[x] # NoFile =>
        \/ shadow[x] = real[x]
        \/ \E p \in Paths : Copied(p) /\ Within(ShadowOf(p), x)

AppliedIsGone ==
    pc = "commit" => \A c \in Paths \ todo : Gone(c) => \A x \in Paths : Within(c, x) => real[x] = NoFile

AppliedIsCopied ==
    pc = "commit" => \A p \in Paths \ todo : Copied(p) =>
        \A x \in Paths : Within(ShadowOf(p), x) /\ shadow[x] # NoFile => real[x] = shadow[x]

CommitInv == MergeInv /\ ShadowIsRecorded /\ AppliedIsGone /\ AppliedIsCopied

\* What requests put into the shadow is real.
LEMMA FillRecorded ==
    ASSUME CommitInv, Filled(shadow'), UNCHANGED <<real, changes>>
    PROVE  ShadowIsRecorded'
<1>1. SUFFICES ASSUME NEW x \in Paths, shadow'[x] # NoFile
               PROVE  \/ shadow'[x] = real'[x]
                      \/ \E p \in Paths : Copied(p)' /\ Within(ShadowOf(p)', x)
  BY DEF ShadowIsRecorded
<1>2. CASE shadow'[x] = shadow[x]
  BY <1>1, <1>2 DEF CommitInv, ShadowIsRecorded, Copied, ShadowOf
<1>3. CASE shadow'[x] = real[x]
  BY <1>3
<1>4. QED
  BY <1>1, <1>2, <1>3 DEF Filled

\* An operation at p keeps the records elsewhere, and what it leaves in the shadow there
\* is what was there or real.
LEMMA RecordedElsewhere ==
    ASSUME CommitInv, NEW p \in Paths, ~Cut(p), real' = real,
           \A r \in Paths : r # p => changes'[r] = changes[r],
           \A x \in Paths : shadow'[x] # NoFile =>
               shadow'[x] \in {shadow[x], real[x]} \/ (Copied(p)' /\ ShadowOf(p)' = p /\ Within(p, x)),
           \A x \in Paths : shadow'[x] # NoFile /\ Within(p, x) => Copied(p)' /\ ShadowOf(p)' = p
    PROVE  ShadowIsRecorded'
<1>1. SUFFICES ASSUME NEW x \in Paths, shadow'[x] # NoFile, shadow'[x] = shadow[x],
                      NEW r \in Paths, Copied(r), Within(ShadowOf(r), x)
               PROVE  \E s \in Paths : Copied(s)' /\ Within(ShadowOf(s)', x)
  BY DEF CommitInv, ShadowIsRecorded
<1>2. CASE r = p
  <2>1. ShadowOf(p) = p
    BY CutWithin DEF ShadowOf, Gone, Within
  <2>2. QED
    BY <1>1, <1>2, <2>1
<1>3. CASE r # p
  BY <1>1, <1>3 DEF Copied, ShadowOf
<1>4. QED
  BY <1>2, <1>3

\* So opens for reading and listings keep it.
LEMMA LookRecorded == ASSUME CommitInv, NEW p \in Paths, Look(p) PROVE ShadowIsRecorded'
<1>1. Walks(p) /\ ~Hidden(p) /\ shadow' = Queried(p) /\ UNCHANGED <<real, changes>>
  BY DEF Look
<1>2. Filled(shadow')
  BY <1>1, WalkUncut, UncutAnswer DEF Filled, CommitInv
<1>3. QED
  BY <1>1, <1>2, FillRecorded

\* Listings: what a directory view makes is real.
LEMMA ListRecorded ==
    ASSUME CommitInv, NEW d \in Paths \union {Root}, List(d)
    PROVE  ShadowIsRecorded'
<1>1. /\ shadow' = IF d = Root THEN DirectoryView(shadow, d)
                   ELSE IF real[d] = NoFile THEN Queried(d) ELSE DirectoryView(Queried(d), d)
      /\ d # Root => Walks(d) /\ Answer(d) = Dir
      /\ UNCHANGED <<real, changes>>
  BY DEF List
<1>2. MergeInv /\ (d \in Paths <=> d # Root)
  BY PathsAssumption DEF CommitInv
<1>3. d \in Paths => ~Cut(d) /\ Queried(d) = shadow /\ Merged(d) = Dir
  BY <1>1, <1>2, AnswerShown, WalkUncut, UncutAnswer, NodesAssumption
<1>4. Filled(DirectoryView(shadow, d)) /\ Filled(shadow)
  BY <1>2, <1>3, DirectoryViewFills DEF Filled
<1>5. Filled(shadow')
  BY <1>1, <1>2, <1>3, <1>4
<1>6. QED
  BY <1>1, <1>5, FillRecorded

\* What is written or made is recorded.
LEMMA SetRecorded ==
    ASSUME CommitInv, NEW p \in Paths, Walks(p), ~Hidden(p), real[p] # Dir,
           NEW open, open \in [Paths -> Nodes], open = OpenShadow("any", p), NEW n,
           shadow' = [open EXCEPT ![p] = n], changes' = OpenRecords("any", p), real' = real,
           Answer(p) # Dir
    PROVE  ShadowIsRecorded'
<1>1. MergeInv /\ TreeInv
  BY DEF CommitInv, MergeInv
<1>2. \A x \in Paths :
          /\ x # p => changes'[x] = changes[x]
          /\ x = p => changes'[x].state = IF real[p] = NoFile THEN "created" ELSE "modified"
  BY <1>1, WriteRecord
<1>3. Copied(p)' /\ ShadowOf(p)' = p
  BY <1>2 DEF Copied, ShadowOf
<1>4. ~Cut(p) /\ Filled(open)
  BY <1>1, WalkUncut, OpenFills
<1>5. \A x \in Paths : shadow'[x] = IF x = p THEN n ELSE open[x]
  OBVIOUS
<1>6. \A x \in Paths : shadow'[x] # NoFile => shadow'[x] \in {shadow[x], real[x]} \/ x = p
  BY <1>4, <1>5 DEF Filled
<1>7. \A x \in Paths : shadow'[x] # NoFile =>
          shadow'[x] \in {shadow[x], real[x]} \/ (Copied(p)' /\ ShadowOf(p)' = p /\ Within(p, x))
  BY <1>3, <1>6 DEF Within
<1>8. QED
  BY <1>2, <1>3, <1>4, <1>7, RecordedElsewhere

\* A file is created or written.
LEMMA WriteRecorded == ASSUME CommitInv, NEW p \in Paths, Write(p) PROVE ShadowIsRecorded'
<1>1. PICK open : open = OpenShadow("any", p)
  OBVIOUS
<1>2. /\ pc = "idle" /\ Walks(p) /\ ~Hidden(p) /\ Answer(p) # Dir
      /\ changes' = OpenRecords("any", p) /\ real' = real
  BY DEF Write
<1>3. PICK c \in Contents : shadow' = [open EXCEPT ![p] = c]
  BY <1>1 DEF Write
<1>4. MergeInv /\ TreeInv
  BY DEF CommitInv, MergeInv
<1>5. real[p] # Dir
  BY <1>2, <1>4, WalkUncut, UncutAnswer, NodesAssumption DEF Merged, MergeInv, SameKind
<1>6. open \in [Paths -> Nodes]
  BY <1>1, <1>2, <1>4, OpenFacts DEF GoodTree
<1>7. QED
  BY <1>1, <1>2, <1>3, <1>5, <1>6, SetRecorded

\* A directory is made.
LEMMA MakeDirectoryRecorded == ASSUME CommitInv, NEW p \in Paths, MakeDirectory(p) PROVE ShadowIsRecorded'
<1>1. PICK open : open = OpenShadow("any", p)
  OBVIOUS
<1>2. /\ pc = "idle" /\ Walks(p) /\ ~Hidden(p) /\ Answer(p) = NoFile
      /\ shadow' = [open EXCEPT ![p] = Dir]
      /\ changes' = OpenRecords("any", p) /\ real' = real
  BY <1>1 DEF MakeDirectory
<1>3. MergeInv /\ TreeInv
  BY DEF CommitInv, MergeInv
<1>4. real[p] # Dir
  BY <1>2, <1>3, WalkUncut, UncutAnswer, NodesAssumption DEF Merged
<1>5. open \in [Paths -> Nodes]
  BY <1>1, <1>2, <1>3, OpenFacts DEF GoodTree
<1>6. QED
  BY <1>1, <1>2, <1>4, <1>5, NodesAssumption, SetRecorded

\* A delete leaves nothing in the shadow that its record would copy.
LEMMA DeleteRecorded == ASSUME CommitInv, NEW p \in Paths, Delete(p) PROVE ShadowIsRecorded'
<1>1. MergeInv /\ TreeInv /\ Visible(p) /\ real' = real
  BY DEF Delete, CommitInv, MergeInv
<1>2. PICK as \in Handles(p) :
          /\ shadow' = RemoveAll(OpenShadow(as, p), p)
          /\ changes' = Upsert(OpenRecords(as, p), p, "tombstone", Root)
  BY DEF Delete
<1>3. PICK open : open = OpenShadow(as, p)
  OBVIOUS
<1>4. ~Cut(p) /\ Filled(open)
  BY <1>1, <1>3, VisibleUncut, OpenFills
<1>5. \A x \in Paths : shadow'[x] = IF Within(p, x) THEN NoFile ELSE open[x]
  BY <1>2, <1>3 DEF RemoveAll
<1>6. \A r \in Paths : r # p => changes'[r] = changes[r]
  BY <1>1, <1>2, OpenRecordsElsewhere DEF Upsert
<1>7. /\ \A x \in Paths : shadow'[x] # NoFile => shadow'[x] \in {shadow[x], real[x]}
      /\ \A x \in Paths : ~(shadow'[x] # NoFile /\ Within(p, x))
  BY <1>4, <1>5 DEF Filled
<1>8. QED
  BY <1>1, <1>4, <1>6, <1>7, RecordedElsewhere

\* A rename records what it moves, and forgets nothing that stays where it is, if nothing
\* was moved out of what it takes away.
LEMMA RenameRecorded ==
    ASSUME "gaps" \notin Hazards, CommitInv, NEW p \in Paths, NEW q \in Paths, Rename(p, q)
    PROVE  ShadowIsRecorded'
<1>1. PICK tree : Moves(p, q, tree)
  BY RenameMoves DEF CommitInv
<1>2. real' = real /\ ~Cut(p) /\ RecordsMove(p, q, changes')
  BY <1>1 DEF Moves
<1>3. /\ \A x \in Paths : Within(p, x) => shadow'[x] = NoFile
      /\ \A x \in Paths : ~Within(p, x) /\ ~Within(q, x) =>
             shadow'[x] = shadow[x] \/ (shadow'[x] = Dir /\ ~Cut(x) /\ Merged(x) = Dir)
  BY <1>1 DEF Moves
<1>4. \A r \in Paths : Copied(r) => r # q
  BY DEF Rename, TargetIsFree, Recorded, Copied
<1>5. ~Gone(p) /\ \A c \in Below[p] : ~Gone(c)
  BY <1>2, CutWithin DEF Rename, Plain, Gone, Within
<1>6. \A r \in Paths : Within(p, r) => ShadowOf(r) = r
  BY <1>5 DEF ShadowOf, Gone, Within
<1>7. SUFFICES ASSUME NEW x \in Paths, shadow'[x] # NoFile
               PROVE  \/ shadow'[x] = real[x]
                      \/ \E s \in Paths : Copied(s)' /\ Within(ShadowOf(s)', x)
  BY <1>2 DEF ShadowIsRecorded
<1>8. CASE Within(q, x)
  <2>1. (Copied(p)' /\ ShadowOf(p)' = q) \/ (Copied(q)' /\ ShadowOf(q)' = q)
    BY <1>2 DEF RecordsMove, Copied, ShadowOf
  <2>2. QED
    BY <1>8, <2>1
<1>9. CASE ~Within(q, x)
  <2>1. ~Within(p, x)
    BY <1>3, <1>7
  <2>2. CASE shadow'[x] # shadow[x]
    BY <1>3, <1>9, <2>1, <2>2 DEF Merged
  <2>3. CASE shadow'[x] = shadow[x]
    <3>1. SUFFICES ASSUME NEW r \in Paths, Copied(r), Within(ShadowOf(r), x)
                   PROVE  Copied(r)' /\ Within(ShadowOf(r)', x)
      BY <1>7, <2>3 DEF CommitInv, ShadowIsRecorded
    <3>2. ~Within(p, r)
      <4>1. SUFFICES ASSUME Within(p, r) PROVE FALSE
        OBVIOUS
      <4>2. Within(r, x)
        BY <1>6, <3>1, <4>1
      <4>3. QED
        BY <2>1, <4>1, <4>2, BelowTransitive DEF Within
    <3>3. changes'[r] = changes[r]
      BY <1>2, <1>4, <3>1, <3>2 DEF RecordsMove
    <3>4. QED
      BY <3>1, <3>3 DEF Copied, ShadowOf
  <2>4. QED
    BY <2>2, <2>3
<1>10. QED
  BY <1>8, <1>9

\* A record that is applied makes real what it copies.
LEMMA ApplyCommit ==
    ASSUME CommitInv, Apply
    PROVE  ShadowIsRecorded' /\ AppliedIsGone' /\ AppliedIsCopied'
<1>1. pc = "commit" /\ UNCHANGED <<shadow, changes, pc>> /\ MergeInv
  BY DEF Apply, CommitInv
<1>2. PICK p \in todo :
          /\ todo' = todo \ {p}
          /\ \A x \in Paths : shadow[x] # NoFile => real'[x] \in {real[x], shadow[x]}
          /\ \A x \in Paths : shadow[x] = NoFile =>
                 real'[x] = real[x] \/ (real'[x] = NoFile /\ Cut(x))
          /\ Gone(p) => \A x \in Paths : Within(p, x) => real'[x] = NoFile
          /\ Copied(p) => \A x \in Paths :
                 Within(ShadowOf(p), x) /\ shadow[x] # NoFile => real'[x] = shadow[x]
  BY <1>1, AppliedFacts
<1>3. ShadowIsRecorded'
  <2>1. \A x \in Paths : shadow[x] # NoFile =>
            \/ shadow[x] = real'[x]
            \/ \E r \in Paths : Copied(r) /\ Within(ShadowOf(r), x)
    BY <1>2 DEF CommitInv, ShadowIsRecorded
  <2>2. QED
    BY <1>1, <2>1 DEF ShadowIsRecorded, Copied, ShadowOf
<1>4. AppliedIsGone'
  <2>1. SUFFICES ASSUME NEW c \in Paths \ todo', Gone(c), NEW x \in Paths, Within(c, x)
                 PROVE  real'[x] = NoFile
    BY <1>1 DEF AppliedIsGone, Gone
  <2>2. CASE c = p
    BY <1>2, <2>1, <2>2
  <2>3. CASE c # p
    <3>1. real[x] = NoFile /\ shadow[x] = NoFile
      BY <1>1, <1>2, <2>1, <2>3 DEF CommitInv, AppliedIsGone, MergeInv, GoneHasNothing
    <3>2. QED
      BY <1>2, <3>1
  <2>4. QED
    BY <2>2, <2>3
<1>5. AppliedIsCopied'
  <2>1. SUFFICES ASSUME NEW r \in Paths \ todo', Copied(r), NEW x \in Paths,
                        Within(ShadowOf(r), x), shadow[x] # NoFile
                 PROVE  real'[x] = shadow[x]
    BY <1>1 DEF AppliedIsCopied, Copied, ShadowOf
  <2>2. CASE r = p
    BY <1>2, <2>1, <2>2
  <2>3. CASE r # p
    <3>1. real[x] = shadow[x]
      BY <1>1, <1>2, <2>1, <2>3 DEF CommitInv, AppliedIsCopied
    <3>2. QED
      BY <1>2, <2>1, <3>1
  <2>4. QED
    BY <2>2, <2>3
<1>6. QED
  BY <1>3, <1>4, <1>5

\* The start of a commit: nothing is applied yet.
LEMMA StartCommitCommit ==
    ASSUME CommitInv, StartCommit
    PROVE  ShadowIsRecorded' /\ AppliedIsGone' /\ AppliedIsCopied'
<1>1. UNCHANGED <<real, shadow, changes>> /\ \A p \in Paths \ todo' : changes[p].state = "none"
  BY DEF StartCommit, Recorded
<1>2. ShadowIsRecorded'
  BY <1>1 DEF CommitInv, ShadowIsRecorded, Copied, ShadowOf
<1>3. \A p \in Paths \ todo' : ~Gone(p)' /\ ~Copied(p)'
  BY <1>1 DEF Gone, Copied
<1>4. QED
  BY <1>2, <1>3 DEF AppliedIsGone, AppliedIsCopied

\* When everything is applied, the real directory is what processes see.
LEMMA AllApplied ==
    ASSUME CommitInv, pc = "commit", todo = {}
    PROVE  \A x \in Paths : View[x] = real[x]
<1>1. SUFFICES ASSUME NEW x \in Paths PROVE View[x] = real[x]
  OBVIOUS
<1>2. View[x] = IF Cut(x) THEN NoFile ELSE Merged(x)
  BY ViewShown DEF CommitInv, ShownIsMerged
<1>3. CASE Cut(x)
  <2>1. PICK b \in UpTo(x) : Gone(b)
    BY <1>3 DEF Cut
  <2>2. b \in Paths /\ Within(b, x)
    BY <2>1, CutFacts
  <2>3. real[x] = NoFile
    BY <2>1, <2>2 DEF CommitInv, AppliedIsGone
  <2>4. QED
    BY <1>2, <1>3, <2>3
<1>4. CASE ~Cut(x) /\ shadow[x] # NoFile
  <2>1. shadow[x] = real[x]
    BY <1>4 DEF CommitInv, ShadowIsRecorded, AppliedIsCopied
  <2>2. QED
    BY <1>2, <1>4, <2>1 DEF Merged
<1>5. CASE ~Cut(x) /\ shadow[x] = NoFile
  BY <1>2, <1>5 DEF Merged
<1>6. QED
  BY <1>3, <1>4, <1>5

\* The end of a commit: shadow and records go, and nothing that a process sees changes.
LEMMA FinishCommitCommit ==
    ASSUME CommitInv, FinishCommit
    PROVE  ShadowIsRecorded' /\ AppliedIsGone' /\ AppliedIsCopied' /\ View' = View
<1>1. /\ pc = "commit" /\ todo = {} /\ pc' = "idle"
      /\ shadow' = [p \in Paths |-> NoFile]
  BY DEF FinishCommit
<1>2. ShadowIsRecorded' /\ AppliedIsGone' /\ AppliedIsCopied'
  BY <1>1 DEF ShadowIsRecorded, AppliedIsGone, AppliedIsCopied
<1>3. \A x \in Paths : View'[x] = View[x]
  BY <1>1, AllApplied, FinishCommitMerge DEF CommitInv
<1>4. View' = View
  BY <1>3 DEF View
<1>5. QED
  BY <1>2, <1>4

\* A rule starts with nothing to commit.
LEMMA CommitInvInit == ASSUME Init PROVE CommitInv
<1>1. pc = "idle" /\ \A x \in Paths : shadow[x] = NoFile
  BY DEF Init
<1>2. QED
  BY <1>1, MergeInvInit DEF CommitInv, ShadowIsRecorded, AppliedIsGone, AppliedIsCopied

\* Every step keeps what commits rely on.
LEMMA CommitInvNext ==
    ASSUME "again" \notin Hazards, "gaps" \notin Hazards, CommitInv, [Next]_vars
    PROVE  CommitInv'
<1>1. MergeInv'
  BY MergeInvNext DEF CommitInv
<1>2. CASE UNCHANGED vars
  BY <1>1, <1>2 DEF vars, CommitInv, ShadowIsRecorded, AppliedIsGone, AppliedIsCopied, Copied, ShadowOf, Gone
<1>3. CASE Operation
  <2>1. pc' # "commit"
    BY <1>3 DEF Operation, Look, Write, MakeDirectory, Delete, Rename, List
  <2>2. AppliedIsGone' /\ AppliedIsCopied'
    BY <2>1 DEF AppliedIsGone, AppliedIsCopied
  <2>3. ShadowIsRecorded'
    BY <1>3, LookRecorded, WriteRecorded, MakeDirectoryRecorded, DeleteRecorded, RenameRecorded,
       ListRecorded DEF Operation
  <2>4. QED
    BY <1>1, <2>2, <2>3 DEF CommitInv
<1>4. CASE StartCommit
  BY <1>1, <1>4, StartCommitCommit DEF CommitInv
<1>5. CASE Apply
  BY <1>1, <1>5, ApplyCommit DEF CommitInv
<1>6. CASE FailCommit
  <2>1. pc' # "commit" /\ UNCHANGED <<real, shadow, changes>>
    BY <1>6 DEF FailCommit
  <2>2. QED
    BY <1>1, <2>1 DEF CommitInv, ShadowIsRecorded, AppliedIsGone, AppliedIsCopied, Copied, ShadowOf
<1>7. CASE FinishCommit
  BY <1>1, <1>7, FinishCommitCommit DEF CommitInv
<1>8. QED
  BY <1>2, <1>3, <1>4, <1>5, <1>6, <1>7 DEF Next, Commit

\* A commit changes nothing that a process sees, when a record is applied, when it stops
\* halfway, and when CommitRule clears the store and the records at the end: what the
\* shadow has is real by then, and what was deleted or moved away is gone.
THEOREM CommitsKeepTrees ==
    ASSUME "again" \notin Hazards, "gaps" \notin Hazards
    PROVE  Spec => CommitKeepsTree
<1> DEFINE Kept == pc = "commit" => View' = View
<1>1. Init => CommitInv
  BY CommitInvInit
<1>2. CommitInv /\ [Next]_vars => CommitInv'
  BY CommitInvNext
<1>3. CommitInv /\ [Next]_vars => [Kept]_vars
  <2>1. SUFFICES ASSUME CommitInv, Next, pc = "commit"
                 PROVE  View' = View
    OBVIOUS
  <2>2. ~Operation /\ ~StartCommit
    BY <2>1 DEF Operation, StartCommit, Look, Write, MakeDirectory, Delete, Rename, List
  <2>3. Apply \/ FailCommit \/ FinishCommit
    BY <2>1, <2>2 DEF Next, Commit
  <2>4. QED
    BY <2>1, <2>3, ApplyMerge, FailCommitMerge, FinishCommitCommit DEF CommitInv
<1>4. QED
  BY <1>1, <1>2, <1>3, PTL DEF Spec, CommitKeepsTree
=============================================================================
